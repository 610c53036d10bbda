--------------------------- MODULE Ps2InputProofs ----------------------------
(***************************************************************************)
(* Proofs about Ps2Input for every ring size, every screen and every bound *)
(* on the devices: its types, the contents of the ring, that it implements *)
(* the abstract queue KeyFifo, that the polling loop and the handlers take *)
(* no byte twice, and that they file the mouse's bytes once, in order and  *)
(* in step.                                                                *)
(***************************************************************************)
EXTENDS Ps2Input, TLAPS

------------------------------------------------------------------------------
(* Arithmetic of ring positions.                                           *)

(* Quotient and remainder, as the solver knows them.                       *)
LEMMA DivMod ==
  ASSUME NEW N \in Nat \ {0}, NEW i \in Nat
  PROVE  /\ i \div N \in Int
         /\ i % N \in 0..N - 1
         /\ i = N * (i \div N) + (i % N)
OBVIOUS

(* A positive multiple of N is at least N.                                 *)
LEMMA MultipleAtLeast ==
  ASSUME NEW N \in Nat \ {0}, NEW q \in Int, 0 < N * q
  PROVE  N <= N * q
<1>1. CASE q <= 0
  <2>1. N * q <= 0  BY <1>1
  <2> QED  BY <2>1
<1>2. CASE q >= 1
  BY <1>2
<1> QED  BY <1>1, <1>2

(* Positions less than N apart fall into different slots of the ring.      *)
LEMMA SlotsDiffer ==
  ASSUME NEW N \in Nat \ {0}, NEW i \in Nat, NEW j \in Nat, i < j, j < i + N
  PROVE  i % N # j % N
<1> SUFFICES ASSUME i % N = j % N  PROVE FALSE
  OBVIOUS
<1> DEFINE p == i \div N
<1> DEFINE q == j \div N
<1>1. /\ p \in Int /\ q \in Int
      /\ i = N * p + (i % N)
      /\ j = N * q + (j % N)
      /\ i % N \in Int
  BY DivMod
<1> HIDE DEF p, q
<1>2. j - i = N * (q - p)  BY <1>1
<1>3. q - p \in Int  BY <1>1
<1>4. N <= N * (q - p)  BY <1>2, <1>3, MultipleAtLeast
<1> QED  BY <1>2, <1>4

------------------------------------------------------------------------------
(* Types.                                                                  *)

MouseOK == /\ mouse_x \in Int /\ mouse_y \in Int
           /\ mouse_buttons \in Byte /\ mouse_cycle \in 0..2
           /\ mouse_packet \in [0..2 -> Byte]

(* One byte of a packet keeps the mouse state well typed: the cycle it     *)
(* leaves is an index again.                                               *)
LEMMA MouseTyped ==
  ASSUME MouseOK, NEW b \in Byte, mouse_process_byte(b)
  PROVE  MouseOK'
<1>1. \A v \in Byte : Delta(v) \in Int
  BY DEF Delta, Clamp, Signed, Byte
<1>2. CASE UNCHANGED <<mouse_x, mouse_y, mouse_buttons, mouse_cycle, mouse_packet>>
  BY <1>2 DEF MouseOK
<1>3. CASE Store(b, 3)
  <2>1. mouse_packet' \in [0..2 -> Byte] /\ mouse_cycle' \in 0..2
    BY <1>3 DEF MouseOK, Store
  <2>2. CASE UNCHANGED <<mouse_x, mouse_y, mouse_buttons>>
    BY <2>1, <2>2 DEF MouseOK
  <2>3. CASE Complete(mouse_packet')
    <3>1. /\ mouse_packet'[0] \in Byte
          /\ Delta(mouse_packet'[1]) \in Int /\ Delta(mouse_packet'[2]) \in Int
      BY <1>1, <2>1
    <3> QED  BY <2>1, <2>3, <3>1 DEF MouseOK, Complete
  <2> QED  BY <1>3, <2>2, <2>3 DEF Store
<1> QED  BY <1>2, <1>3 DEF mouse_process_byte

(* What a read of the data port returns and leaves behind is well typed.   *)
LEMMA ReadTyped ==
  ASSUME TypeOK
  PROVE  /\ InData \in Item
         /\ AfterRead \in Seq(Item)
         /\ Raised(AfterRead) \in SUBSET Irqs
         /\ Raised(port) \in SUBSET Irqs
<1>1. port \in Seq(Item) /\ dataReg \in Item  BY DEF TypeOK
<1>2. \A q \in Seq(Item) : Raised(q) \in SUBSET Irqs
  BY DEF Raised, Line, Irqs
<1>3. InData \in Item /\ AfterRead \in Seq(Item)
  BY <1>1 DEF InData, AfterRead
<1> QED  BY <1>1, <1>2, <1>3

(* Storing an item keeps the ring well typed.                              *)
LEMMA PutTyped ==
  ASSUME TypeOK, NEW item \in Item, Put(item)
  PROVE  /\ key_buffer' \in [0..RingSize - 1 -> Byte]
         /\ key_write_pos' \in Nat
         /\ stored' \in Seq(Item)
<1>1. /\ key_buffer \in [0..RingSize - 1 -> Byte] /\ key_write_pos \in Nat
      /\ stored \in Seq(Item)
  BY DEF TypeOK
<1>2. item.byte \in Byte
  BY DEF Item
<1>3. key_buffer' \in [0..RingSize - 1 -> Byte]
  BY <1>1, <1>2 DEF Put
<1>4. key_write_pos' \in Nat
  BY <1>1 DEF Put
<1>5. stored' \in Seq(Item)
  BY <1>1 DEF Put
<1> QED  BY <1>3, <1>4, <1>5

(* Every action keeps every variable in its type.                          *)
LEMMA StepTyped ==
  ASSUME TypeOK, [Next]_vars
  PROVE  TypeOK'
<1> USE DEF ring, pic, mouse, drawn, flow, At, Goto, CallThenGoto
<1>1. /\ InData \in Item /\ InData.byte \in Byte /\ AfterRead \in Seq(Item)
      /\ Raised(AfterRead) \in SUBSET Irqs /\ Raised(port) \in SUBSET Irqs
  BY ReadTyped DEF Item
<1>2. ASSUME NEW aux \in BOOLEAN, NEW b \in Byte, Send(aux, b)
      PROVE  TypeOK'
  <2> DEFINE item == [aux |-> aux, byte |-> b, seq |-> sent + 1]
  <2>1. item \in Item /\ Line(item) \in Irqs
    BY DEF TypeOK, Item, Line, Irqs
  <2> HIDE DEF item
  <2>2. port' = Append(port, item) /\ port' \in Seq(Item)
    BY <1>2, <2>1 DEF TypeOK, Send, item
  <2>3. irr' \in SUBSET Irqs
    BY <1>2, <2>1 DEF TypeOK, Send, item
  <2> QED  BY <1>2, <2>2, <2>3 DEF TypeOK, Send
<1>3. CASE KeyboardSends
  BY <1>2, <1>3, ByteAssumption DEF KeyboardSends
<1>4. CASE MouseSends
  BY <1>2, <1>4, ByteAssumption DEF MouseSends
<1>5. CASE irq1_handler
  <2>1. /\ key_buffer' \in [0..RingSize - 1 -> Byte]
        /\ key_write_pos' \in Nat /\ stored' \in Seq(Item)
    BY <1>1, <1>5, PutTyped DEF irq1_handler
  <2>2. irr' \in SUBSET Irqs /\ isr' \in SUBSET {1, 2, 12}
    BY <1>1, <1>5
    DEF irq1_handler, Serviced, pic_send_eoi, InService, Level, TypeOK
  <2> QED  BY <1>1, <1>5, <2>1, <2>2 DEF irq1_handler, Serviced, TypeOK
<1>6. CASE irq12_handler
  <2>1. MouseOK'
    BY <1>1, <1>6, MouseTyped DEF irq12_handler, File, TypeOK, MouseOK
  <2>3. filed' \in Seq(Item) /\ astray' \in BOOLEAN
    BY <1>1, <1>6 DEF irq12_handler, File, TypeOK
  <2>2. irr' \in SUBSET Irqs /\ isr' \in SUBSET {1, 2, 12}
    BY <1>1, <1>6
    DEF irq12_handler, Serviced, pic_send_eoi, InService, Level, TypeOK
  <2> QED  BY <1>1, <1>6, <2>1, <2>2, <2>3 DEF irq12_handler, Serviced, TypeOK, MouseOK
<1>7. CASE PollEnter
  BY <1>7 DEF PollEnter, TypeOK
<1>8. CASE PollStatus
  BY <1>8 DEF PollStatus, TypeOK
<1>9. CASE PollData
  <2>1. irr' \in SUBSET Irqs
    BY <1>1, <1>9 DEF PollData, TypeOK
  <2>2. CASE File(InData) /\ UNCHANGED ring /\ astray' = (astray \/ ~InData.aux)
    <3>1. MouseOK'
      BY <1>1, <2>2, MouseTyped DEF File, TypeOK, MouseOK
    <3>2. filed' \in Seq(Item) /\ astray' \in BOOLEAN
      BY <1>1, <2>2 DEF File, TypeOK
    <3> QED  BY <1>1, <1>9, <2>1, <2>2, <3>1, <3>2 DEF PollData, TypeOK, MouseOK
  <2>3. CASE Put(InData) /\ UNCHANGED mouse
    <3>1. /\ key_buffer' \in [0..RingSize - 1 -> Byte]
          /\ key_write_pos' \in Nat /\ stored' \in Seq(Item)
      BY <1>1, <2>3, PutTyped
    <3> QED  BY <1>1, <1>9, <2>1, <2>3, <3>1 DEF PollData, TypeOK
  <2> QED  BY <1>9, <2>2, <2>3 DEF PollData
<1>10. CASE RenderLoad
  <2>1. \A v, hi \in Int : Clamp(v, 0, hi) \in Int
    BY DEF Clamp
  <2>2. FbWidth - 24 \in Int /\ FbHeight - 24 \in Int
    BY ScreenAssumption
  <2>3. mouse_x \in Int /\ mouse_y \in Int /\ r12d \in Int /\ r13d \in Int
    BY DEF TypeOK
  <2>4. \/ r12d' = Clamp(mouse_x, 0, FbWidth - 24) /\ r13d' = r13d /\ pc' = "x1"
        \/ r13d' = Clamp(mouse_y, 0, FbHeight - 24) /\ r12d' = r12d /\ pc' = "y1"
    BY <1>10 DEF RenderLoad
  <2>5. r12d' \in Int /\ r13d' \in Int /\ pc' \in {"x1", "y1"}
    BY <2>1, <2>2, <2>3, <2>4
  <2> QED  BY <1>10, <2>5 DEF RenderLoad, TypeOK
<1>11. CASE RenderStore
  BY <1>11 DEF RenderStore, TypeOK
<1>12. CASE ReadKey
  <2>1. key' \in Byte /\ key_read_pos' \in Nat
    <3>1. CASE UNCHANGED <<key_read_pos, key>>
      BY <3>1 DEF TypeOK
    <3>2. CASE ~UNCHANGED <<key_read_pos, key>>
      <4>1. /\ key' = key_buffer[key_read_pos % RingSize]
            /\ key_read_pos' = key_read_pos + 1
        BY <1>12, <3>2 DEF ReadKey, keyboard_read
      <4>2. key_read_pos % RingSize \in 0..RingSize - 1
        BY DivMod, RingAssumption DEF TypeOK
      <4> QED  BY <4>1, <4>2 DEF TypeOK
    <3> QED  BY <3>1, <3>2
  <2> QED  BY <1>12, <2>1 DEF ReadKey, TypeOK
<1>13. CASE UNCHANGED vars
  BY <1>13 DEF vars, TypeOK
<1>14. CASE Return
  BY <1>14 DEF Return, TypeOK
<1> QED  BY <1>3, <1>4, <1>5, <1>6, <1>7, <1>8, <1>9, <1>10, <1>11, <1>12,
            <1>13, <1>14 DEF Next, MainLoop

(* The state the main loop starts from is well typed.                      *)
LEMMA InitTyped == Init => TypeOK
<1> SUFFICES ASSUME Init  PROVE TypeOK
  OBVIOUS
<1>1. dataReg \in Item
  BY DEF Init, Item, Byte
<1>2. key_buffer \in [0..RingSize - 1 -> Byte]
  BY DEF Init, Byte
<1>3. /\ mouse_x \in Int /\ mouse_y \in Int /\ mouse_buttons \in Byte
      /\ mouse_cycle \in 0..2 /\ mouse_packet \in [0..2 -> Byte]
  BY ScreenAssumption DEF Init, Byte
<1>4. port \in Seq(Item) /\ stored \in Seq(Item) /\ filed \in Seq(Item)
  BY DEF Init
<1>5. key \in Byte
  BY DEF Init, Byte
<1>6. irr \in SUBSET Irqs /\ isr \in SUBSET {1, 2, 12}
  <2>1. irr \in {{}, {12}} /\ isr = {}
    BY DEF Init
  <2>2. {12} \in SUBSET Irqs /\ {} \in SUBSET Irqs
    BY DEF Irqs
  <2> QED  BY <2>1, <2>2
<1>7. /\ ifl \in BOOLEAN /\ mouse_irq_active \in BOOLEAN /\ stale \in BOOLEAN
      /\ away \in BOOLEAN /\ astray \in BOOLEAN
  BY DEF Init
<1>8. /\ key_read_pos \in Nat /\ key_write_pos \in Nat /\ sent \in Nat
      /\ r12d \in Int /\ r13d \in Int
      /\ pc \in {"poll", "status", "data", "x0", "x1", "y0", "y1", "kb1", "kb2"}
  BY DEF Init
<1> QED  BY <1>1, <1>2, <1>3, <1>4, <1>5, <1>6, <1>7, <1>8 DEF TypeOK

(* Types hold throughout, for every ring size, screen and bound.           *)
THEOREM TypeCorrect == Spec => []TypeOK
BY InitTyped, StepTyped, PTL DEF Spec

------------------------------------------------------------------------------
(* The ring.                                                               *)

(* Every step either stores one item or leaves the ring alone, and takes a *)
(* scan code only in ReadKey.                                              *)
LEMMA RingSteps ==
  ASSUME TypeOK, [Next]_vars
  PROVE  \/ /\ Put(InData) /\ UNCHANGED <<key_read_pos, key>>
            /\ irq1_handler \/ (PollData /\ ~TakenForMouse(InData))
         \/ UNCHANGED ring /\ keyboard_read
         \/ UNCHANGED ring /\ UNCHANGED <<key_read_pos, key>>
<1> USE DEF ring
<1>1. CASE irq1_handler
  BY <1>1 DEF irq1_handler, Serviced
<1>2. CASE PollData
  BY <1>2 DEF PollData
<1>3. CASE ReadKey
  BY <1>3 DEF ReadKey
<1>4. CASE KeyboardSends \/ MouseSends
  BY <1>4 DEF KeyboardSends, MouseSends, Send
<1>5. CASE irq12_handler
  BY <1>5 DEF irq12_handler, Serviced
<1>6. CASE PollEnter \/ PollStatus \/ RenderLoad \/ RenderStore \/ Return
  BY <1>6 DEF PollEnter, PollStatus, RenderLoad, RenderStore, Return
<1>7. CASE UNCHANGED vars
  BY <1>7 DEF vars
<1> QED  BY <1>1, <1>2, <1>3, <1>4, <1>5, <1>6, <1>7 DEF Next, MainLoop

(* Putting an item keeps the latest RingSize items where they belong: the  *)
(* slot it takes held the item that is now RingSize back.                  *)
LEMMA PutKeepsRing ==
  ASSUME TypeOK, RingHoldsLatest, NEW item \in Item, Put(item),
         UNCHANGED key_read_pos
  PROVE  RingHoldsLatest'
<1> DEFINE w == key_write_pos
<1>1. /\ RingSize \in Nat \ {0} /\ w \in Nat /\ stored \in Seq(Item)
      /\ key_buffer \in [0..RingSize - 1 -> Byte]
      /\ w = Len(stored) /\ key_read_pos <= w /\ key_read_pos \in Nat
  BY RingAssumption DEF TypeOK, RingHoldsLatest
<1>2. /\ key_write_pos' = w + 1 /\ stored' = Append(stored, item)
      /\ key_buffer' = [key_buffer EXCEPT ![w % RingSize] = item.byte]
      /\ key_read_pos' = key_read_pos
  BY DEF Put
<1>3. Len(stored') = w + 1
  BY <1>1, <1>2
<1>4. ASSUME NEW i \in 0..w, i + RingSize >= w + 1
      PROVE  key_buffer'[i % RingSize] = stored'[i + 1].byte
  <2>1. CASE i = w
    <3>1. stored'[i + 1] = item
      BY <1>1, <1>2, <2>1
    <3>2. i % RingSize \in 0..RingSize - 1
      BY <1>1, DivMod
    <3> QED  BY <1>1, <1>2, <2>1, <3>1, <3>2
  <2>2. CASE i < w
    <3>0. i \in Nat /\ w \in Nat /\ i < w /\ w < i + RingSize
      BY <1>1, <1>4, <2>2
    <3>1. i % RingSize # w % RingSize
      BY <3>0, RingAssumption, SlotsDiffer
    <3>2. i % RingSize \in 0..RingSize - 1
      BY <1>1, DivMod
    <3>3. key_buffer'[i % RingSize] = key_buffer[i % RingSize]
      BY <1>1, <1>2, <3>1, <3>2
    <3>4. key_buffer[i % RingSize] = stored[i + 1].byte
      BY <1>1, <1>4, <2>2 DEF RingHoldsLatest
    <3>5. stored'[i + 1] = stored[i + 1]
      BY <1>1, <1>2, <2>2
    <3> QED  BY <3>3, <3>4, <3>5
  <2> QED  BY <1>1, <2>1, <2>2
<1>5. key_read_pos' <= key_write_pos' /\ key_write_pos' = Len(stored')
  BY <1>1, <1>2, <1>3
<1> HIDE DEF w
<1>6. \A i \in 0..key_write_pos' - 1 :
         i + RingSize >= key_write_pos'
           => key_buffer'[i % RingSize] = stored'[i + 1].byte
  BY <1>1, <1>2, <1>4
<1> QED  BY <1>5, <1>6 DEF RingHoldsLatest

(* Whatever interleaving filled it, the ring holds the latest RingSize     *)
(* scan codes, and the reader stays behind the writers.                    *)
THEOREM RingCorrect == Spec => []RingHoldsLatest
<1>1. Init => RingHoldsLatest
  BY DEF Init, RingHoldsLatest
<1>2. ASSUME TypeOK, RingHoldsLatest, [Next]_vars  PROVE RingHoldsLatest'
  <2>1. CASE Put(InData) /\ UNCHANGED <<key_read_pos, key>>
    <3>1. InData \in Item
      BY <1>2, ReadTyped
    <3> QED  BY <1>2, <2>1, <3>1, PutKeepsRing
  <2>2. CASE UNCHANGED ring /\ keyboard_read
    BY <1>2, <2>2 DEF ring, keyboard_read, RingHoldsLatest, TypeOK
  <2>3. CASE UNCHANGED ring /\ UNCHANGED <<key_read_pos, key>>
    BY <1>2, <2>3 DEF ring, RingHoldsLatest
  <2> QED  BY <1>2, <2>1, <2>2, <2>3, RingSteps
<1> QED  BY <1>1, <1>2, TypeCorrect, PTL DEF Spec

------------------------------------------------------------------------------
(* The refinement of KeyFifo.                                              *)

(* A function on 1..n is a sequence of length n.                           *)
LEMMA FunctionIsSeq ==
  ASSUME NEW S, NEW n \in Nat, NEW f \in [1..n -> S]
  PROVE  f \in Seq(S) /\ Len(f) = n
OBVIOUS

(* The bytes of the items after position r, as a sequence.                 *)
LEMMA WindowSeq ==
  ASSUME NEW st \in Seq(Item), NEW r \in Nat, r <= Len(st),
         NEW win, win = [i \in 1..Len(st) - r |-> st[r + i].byte]
  PROVE  /\ win \in Seq(Byte)
         /\ Len(win) = Len(st) - r
         /\ \A i \in 1..Len(win) : win[i] = st[r + i].byte
<1> DEFINE n == Len(st) - r
<1>1. n \in Nat
  OBVIOUS
<1>2. \A i \in 1..n : st[r + i].byte \in Byte
  <2> SUFFICES ASSUME NEW i \in 1..n  PROVE st[r + i].byte \in Byte
    OBVIOUS
  <2>1. r + i \in 1..Len(st)
    BY <1>1
  <2>2. st[r + i] \in Item
    BY <2>1
  <2> QED  BY <2>2 DEF Item
<1>3. win = [i \in 1..n |-> st[r + i].byte]
  OBVIOUS
<1> HIDE DEF n
<1>4. win \in [1..n -> Byte]
  BY <1>2, <1>3
<1>5. win \in Seq(Byte) /\ Len(win) = n
  BY <1>1, <1>4, FunctionIsSeq
<1> QED  BY <1>3, <1>5 DEF n

(* The waiting scan codes form a sequence as long as the reader is behind. *)
WaitingIsSeq == /\ Waiting \in Seq(Byte)
                /\ Len(Waiting) = key_write_pos - key_read_pos
                /\ \A i \in 1..Len(Waiting) :
                      Waiting[i] = stored[key_read_pos + i].byte
LEMMA WaitingSeq == TypeOK /\ RingHoldsLatest => WaitingIsSeq
<1> SUFFICES ASSUME TypeOK, RingHoldsLatest  PROVE WaitingIsSeq
  OBVIOUS
<1>1. /\ stored \in Seq(Item) /\ key_read_pos \in Nat
      /\ key_write_pos = Len(stored) /\ key_read_pos <= Len(stored)
  BY DEF TypeOK, RingHoldsLatest
<1>2. Waiting = [i \in 1..Len(stored) - key_read_pos |->
                   stored[key_read_pos + i].byte]
  BY <1>1 DEF Waiting
<1> QED  BY <1>1, <1>2, WindowSeq DEF WaitingIsSeq
LEMMA WaitingSeqNext == TypeOK' /\ RingHoldsLatest' => WaitingIsSeq'
<1> SUFFICES ASSUME TypeOK', RingHoldsLatest'  PROVE WaitingIsSeq'
  OBVIOUS
<1>1. /\ stored' \in Seq(Item) /\ key_read_pos' \in Nat
      /\ key_write_pos' = Len(stored') /\ key_read_pos' <= Len(stored')
  BY DEF TypeOK, RingHoldsLatest
<1>2. Waiting' = [i \in 1..Len(stored') - key_read_pos' |->
                    stored'[key_read_pos' + i].byte]
  BY <1>1 DEF Waiting
<1> QED  BY <1>1, <1>2, WindowSeq DEF WaitingIsSeq

(* The last element of an extended sequence.                               *)
LEMMA AppendLast ==
  ASSUME NEW S, NEW s \in Seq(S), NEW e \in S
  PROVE  Append(s, e)[Len(s) + 1] = e
OBVIOUS

(* Two sequences of the same length with the same elements are equal.      *)
LEMMA SameSeq ==
  ASSUME NEW S, NEW s \in Seq(S), NEW t \in Seq(S), Len(s) = Len(t),
         \A i \in 1..Len(s) : s[i] = t[i]
  PROVE  s = t
OBVIOUS

(* Storing is Accept.                                                      *)
LEMMA PutIsAccept ==
  ASSUME TypeOK, RingHoldsLatest, TypeOK', RingHoldsLatest',
         NEW item \in Item, Put(item), UNCHANGED <<key_read_pos, key>>
  PROVE  Fifo!Accept
<1>1. /\ Waiting \in Seq(Byte) /\ Len(Waiting) = key_write_pos - key_read_pos
      /\ \A i \in 1..Len(Waiting) : Waiting[i] = stored[key_read_pos + i].byte
  BY WaitingSeq DEF WaitingIsSeq
<1>2. /\ Waiting' \in Seq(Byte) /\ Len(Waiting') = key_write_pos' - key_read_pos'
      /\ \A i \in 1..Len(Waiting') : Waiting'[i] = stored'[key_read_pos' + i].byte
  BY WaitingSeqNext DEF WaitingIsSeq
<1>3. /\ key_write_pos' = key_write_pos + 1 /\ key_read_pos' = key_read_pos
      /\ stored' = Append(stored, item) /\ item.byte \in Byte
      /\ stored \in Seq(Item) /\ key_write_pos = Len(stored)
      /\ key_read_pos \in Nat /\ key_write_pos \in Nat
      /\ key_read_pos <= key_write_pos
  BY DEF Put, TypeOK, RingHoldsLatest, Item
<1> DEFINE grown == Append(Waiting, item.byte)
<1>4. grown \in Seq(Byte) /\ Len(grown) = Len(Waiting')
  BY <1>1, <1>2, <1>3
<1>5. ASSUME NEW i \in 1..Len(Waiting')  PROVE Waiting'[i] = grown[i]
  <2>1. CASE i <= Len(Waiting)
    <3>1. grown[i] = Waiting[i]
      BY <1>1, <2>1
    <3>2. key_read_pos + i \in 1..Len(stored)
      BY <1>1, <1>3, <2>1
    <3>3. stored'[key_read_pos + i] = stored[key_read_pos + i]
      BY <1>3, <3>2
    <3> QED  BY <1>1, <1>2, <1>3, <2>1, <3>1, <3>3
  <2>2. CASE i = Len(Waiting) + 1
    <3>1. grown[i] = item.byte
      BY <1>1, <1>3, <2>2, AppendLast
    <3>2. key_read_pos + i = Len(stored) + 1
      BY <1>1, <1>3, <2>2
    <3>3. stored'[key_read_pos + i] = item
      BY <1>3, <3>2
    <3> QED  BY <1>2, <1>3, <3>1, <3>3
  <2> QED  BY <1>1, <1>2, <1>3, <2>1, <2>2
<1> HIDE DEF grown
<1>6. Waiting' = grown
  BY <1>2, <1>4, <1>5, SameSeq
<1>7. Len(Waiting') > Len(Waiting)
  BY <1>1, <1>2, <1>3
<1> QED  BY <1>3, <1>6, <1>7 DEF Fifo!Accept, grown

(* Reading is Take: below the capacity the slot of the read position still *)
(* holds the oldest waiting scan code.                                     *)
LEMMA ReadIsTake ==
  ASSUME TypeOK, RingHoldsLatest, TypeOK', RingHoldsLatest',
         UNCHANGED ring, keyboard_read
  PROVE  Fifo!Take \/ UNCHANGED Fifo!vars
<1>1. /\ Waiting \in Seq(Byte) /\ Len(Waiting) = key_write_pos - key_read_pos
      /\ \A i \in 1..Len(Waiting) : Waiting[i] = stored[key_read_pos + i].byte
  BY WaitingSeq DEF WaitingIsSeq
<1>2. /\ Waiting' \in Seq(Byte) /\ Len(Waiting') = key_write_pos' - key_read_pos'
      /\ \A i \in 1..Len(Waiting') : Waiting'[i] = stored'[key_read_pos' + i].byte
  BY WaitingSeqNext DEF WaitingIsSeq
<1>3. /\ stored' = stored /\ key_write_pos' = key_write_pos
      /\ key_read_pos \in Nat /\ key_write_pos \in Nat
      /\ key_write_pos = Len(stored) /\ key' \in Byte
      /\ RingSize \in Nat \ {0}
  BY RingAssumption DEF ring, TypeOK, RingHoldsLatest
<1>4. CASE UNCHANGED <<key_read_pos, key>>
  BY <1>3, <1>4 DEF Fifo!vars, Waiting
<1>5. CASE ~UNCHANGED <<key_read_pos, key>>
  <2>1. /\ key_read_pos < key_write_pos
        /\ key' = key_buffer[key_read_pos % RingSize]
        /\ key_read_pos' = key_read_pos + 1
    BY <1>3, <1>5 DEF keyboard_read
  <2>2. Waiting # <<>>
    BY <1>1, <1>3, <2>1
  <2>3. Waiting' = Tail(Waiting)
    <3>1. /\ Tail(Waiting) \in Seq(Byte)
          /\ Len(Tail(Waiting)) = Len(Waiting')
      BY <1>1, <1>2, <1>3, <2>1, <2>2
    <3>2. ASSUME NEW i \in 1..Len(Waiting')  PROVE Waiting'[i] = Tail(Waiting)[i]
      <4>1. i + 1 \in 1..Len(Waiting)
        BY <1>1, <1>2, <1>3, <2>1
      <4>2. Tail(Waiting)[i] = Waiting[i + 1]
        BY <1>1, <2>2, <3>1
      <4>3. Waiting[i + 1] = stored[key_read_pos + (i + 1)].byte
        BY <1>1, <4>1
      <4>4. key_read_pos' + i = key_read_pos + (i + 1)
        BY <1>3, <2>1
      <4> QED  BY <1>2, <1>3, <4>2, <4>3, <4>4
    <3> QED  BY <1>2, <3>1, <3>2, SameSeq
  <2>4. ASSUME Len(Waiting) <= RingSize  PROVE key' = Head(Waiting)
    <3>1. key_read_pos \in 0..key_write_pos - 1
          /\ key_read_pos + RingSize >= key_write_pos
      BY <1>1, <1>3, <2>1, <2>4
    <3>2. key_buffer[key_read_pos % RingSize] = stored[key_read_pos + 1].byte
      BY <3>1 DEF RingHoldsLatest
    <3>3. Head(Waiting) = Waiting[1] /\ 1 \in 1..Len(Waiting)
      BY <1>1, <1>3, <2>1
    <3> QED  BY <1>1, <2>1, <3>2, <3>3
  <2> QED  BY <1>3, <2>2, <2>3, <2>4 DEF Fifo!Take
<1> QED  BY <1>4, <1>5

(* The driver with its ring implements the abstract queue, for every ring  *)
(* size.                                                                   *)
THEOREM FifoCorrect == Spec => ImplementsKeyFifo
<1>1. Init => Fifo!Init
  <2> SUFFICES ASSUME Init  PROVE Fifo!Init
    OBVIOUS
  <2>1. TypeOK /\ RingHoldsLatest
    BY InitTyped DEF Init, RingHoldsLatest
  <2>2. Waiting \in Seq(Byte) /\ Len(Waiting) = 0
    BY <2>1, WaitingSeq DEF Init, WaitingIsSeq
  <2>3. Waiting = <<>>
    BY <2>2
  <2> QED  BY <2>1, <2>3 DEF Fifo!Init, TypeOK
<1>2. ASSUME TypeOK, RingHoldsLatest, TypeOK', RingHoldsLatest', [Next]_vars
      PROVE  [Fifo!Next]_(Fifo!vars)
  <2>1. CASE Put(InData) /\ UNCHANGED <<key_read_pos, key>>
    BY <1>2, <2>1, ReadTyped, PutIsAccept DEF Fifo!Next
  <2>2. CASE UNCHANGED ring /\ keyboard_read
    BY <1>2, <2>2, ReadIsTake DEF Fifo!Next
  <2>3. CASE UNCHANGED ring /\ UNCHANGED <<key_read_pos, key>>
    BY <2>3 DEF ring, Fifo!vars, Waiting
  <2> QED  BY <1>2, <2>1, <2>2, <2>3, RingSteps
<1> QED  BY <1>1, <1>2, TypeCorrect, RingCorrect, PTL
         DEF Spec, ImplementsKeyFifo, Fifo!Spec

------------------------------------------------------------------------------
(* The two paths never take one byte twice.                                *)

(* Where the polling loop is, interrupts are off; after a status register  *)
(* that announced a byte, the byte is still there.                         *)
PollOwnsPort ==
  /\ pc \in {"status", "data"} => ~ifl
  /\ pc = "data" => port # <<>>

(* The bytes in the controller are numbered in the order they were sent.   *)
PortOrdered ==
  /\ \A i \in 1..Len(port) : port[i].seq <= sent
  /\ \A i, j \in 1..Len(port) : i < j => port[i].seq < port[j].seq

(* Everything stored came before everything still in the controller.       *)
StoredBefore ==
  stale \/ \A i \in 1..Len(stored) :
             /\ stored[i].seq <= sent
             /\ \A j \in 1..Len(port) : stored[i].seq < port[j].seq

OnceInv == PollOwnsPort /\ PortOrdered /\ StoredBefore /\ KeysStoredOnce

(* An element of a sequence of items has a number.                         *)
LEMMA NumberOf ==
  ASSUME NEW q \in Seq(Item), NEW i \in 1..Len(q)
  PROVE  q[i] \in Item /\ q[i].seq \in Nat
<1>1. q[i] \in Item
  OBVIOUS
<1> QED  BY <1>1 DEF Item

(* A step of a device: the new byte gets the highest number.               *)
LEMMA SendOnce ==
  ASSUME TypeOK, OnceInv, NEW aux \in BOOLEAN, NEW b \in Byte, Send(aux, b)
  PROVE  OnceInv'
<1> DEFINE item == [aux |-> aux, byte |-> b, seq |-> sent + 1]
<1>1. /\ port \in Seq(Item) /\ sent \in Nat /\ stored \in Seq(Item)
      /\ item \in Item /\ item.seq = sent + 1
  BY DEF TypeOK, Item
<1>2. /\ port' = Append(port, item) /\ sent' = sent + 1
      /\ stored' = stored /\ stale' = stale /\ pc' = pc /\ ifl' = ifl
  BY DEF Send, ring, flow
<1> HIDE DEF item
<1>3. /\ Len(port') = Len(port) + 1
      /\ \A i \in 1..Len(port) : port'[i] = port[i]
      /\ port'[Len(port) + 1] = item
  BY <1>1, <1>2, AppendLast
<1>4. \A i \in 1..Len(port) : port[i].seq \in Nat /\ port[i].seq <= sent
  BY <1>1, NumberOf DEF OnceInv, PortOrdered
<1>5. PollOwnsPort'
  <2>1. port' # <<>>
    BY <1>1, <1>3
  <2> QED  BY <1>2, <2>1 DEF OnceInv, PollOwnsPort
<1>6. PortOrdered'
  <2>1. \A i \in 1..Len(port') : i \in 1..Len(port) \/ i = Len(port) + 1
    BY <1>1, <1>3
  <2>2. \A i \in 1..Len(port') : port'[i].seq <= sent'
    BY <1>1, <1>2, <1>3, <1>4, <2>1
  <2>3. \A i, j \in 1..Len(port') : i < j => port'[i].seq < port'[j].seq
    <3> SUFFICES ASSUME NEW i \in 1..Len(port'), NEW j \in 1..Len(port'), i < j
                 PROVE  port'[i].seq < port'[j].seq
      OBVIOUS
    <3>1. i \in 1..Len(port)
      BY <1>1, <1>3
    <3>2. CASE j \in 1..Len(port)
      BY <1>3, <3>1, <3>2 DEF OnceInv, PortOrdered
    <3>3. CASE j = Len(port) + 1
      BY <1>1, <1>3, <1>4, <3>1, <3>3
    <3> QED  BY <2>1, <3>2, <3>3
  <2> QED  BY <2>2, <2>3 DEF PortOrdered
<1>7. StoredBefore'
  <2>1. CASE stale
    BY <1>2, <2>1 DEF StoredBefore
  <2>2. CASE ~stale
    <3> SUFFICES ASSUME NEW i \in 1..Len(stored)
                 PROVE  /\ stored[i].seq <= sent + 1
                        /\ \A j \in 1..Len(port') : stored[i].seq < port'[j].seq
      BY <1>2 DEF StoredBefore
    <3>1. stored[i].seq \in Nat /\ stored[i].seq <= sent
      BY <1>1, <2>2, NumberOf DEF OnceInv, StoredBefore
    <3>2. ASSUME NEW j \in 1..Len(port')  PROVE stored[i].seq < port'[j].seq
      <4>1. CASE j \in 1..Len(port)
        BY <1>3, <2>2, <4>1 DEF OnceInv, StoredBefore
      <4>2. CASE j = Len(port) + 1
        BY <1>1, <1>3, <3>1, <4>2
      <4> QED  BY <1>1, <1>3, <4>1, <4>2
    <3> QED  BY <1>1, <3>1, <3>2
  <2> QED  BY <2>1, <2>2
<1>8. KeysStoredOnce'
  BY <1>2 DEF OnceInv, KeysStoredOnce
<1> QED  BY <1>5, <1>6, <1>7, <1>8 DEF OnceInv

(* The two reads of the data port as one transition: the head leaves the   *)
(* controller, and it is stored, or not stored, as a scan code.            *)
LEMMA ReadOnce ==
  ASSUME TypeOK, OnceInv, port # <<>>, stale' = stale, sent' = sent,
         port' = Tail(port),
         \/ ~Head(port).aux /\ stored' = Append(stored, Head(port))
         \/ stored' = stored
  PROVE  PortOrdered' /\ StoredBefore' /\ KeysStoredOnce'
<1>1. /\ port \in Seq(Item) /\ stored \in Seq(Item) /\ sent \in Nat
      /\ Head(port) = port[1] /\ 1 \in 1..Len(port) /\ Head(port) \in Item
  BY DEF TypeOK
<1>2. /\ Len(port') = Len(port) - 1
      /\ \A j \in 1..Len(port') : port'[j] = port[j + 1] /\ j + 1 \in 1..Len(port)
  BY <1>1
<1>3. PortOrdered'
  <2>1. \A j \in 1..Len(port') : port'[j].seq <= sent
    BY <1>2 DEF OnceInv, PortOrdered
  <2>2. ASSUME NEW i \in 1..Len(port'), NEW j \in 1..Len(port'), i < j
        PROVE  port'[i].seq < port'[j].seq
    <3>1. i + 1 < j + 1
      BY <1>1, <1>2, <2>2
    <3> QED  BY <1>2, <3>1 DEF OnceInv, PortOrdered
  <2> QED  BY <2>1, <2>2 DEF PortOrdered
<1>4. \A j \in 1..Len(port') : Head(port).seq < port'[j].seq
  <2> SUFFICES ASSUME NEW j \in 1..Len(port')  PROVE port[1].seq < port[j + 1].seq
    BY <1>1, <1>2
  <2>1. 1 < j + 1
    BY <1>1, <1>2
  <2> QED  BY <1>1, <1>2, <2>1 DEF OnceInv, PortOrdered
<1>5. CASE stale
  BY <1>3, <1>5 DEF StoredBefore, KeysStoredOnce
<1>6. CASE ~stale
  <2>1. \A i \in 1..Len(stored) :
           /\ stored[i].seq <= sent /\ ~stored[i].aux
           /\ stored[i].seq < port[1].seq
           /\ \A j \in 1..Len(port') : stored[i].seq < port'[j].seq
           /\ \A j \in 1..i - 1 : stored[j].seq < stored[i].seq
    BY <1>1, <1>2, <1>6 DEF OnceInv, StoredBefore, KeysStoredOnce
  <2>2. CASE stored' = stored
    BY <1>3, <2>1, <2>2 DEF StoredBefore, KeysStoredOnce
  <2>3. CASE ~Head(port).aux /\ stored' = Append(stored, Head(port))
    <3>1. /\ Len(stored') = Len(stored) + 1
          /\ \A i \in 1..Len(stored) : stored'[i] = stored[i]
          /\ stored'[Len(stored) + 1] = Head(port)
      BY <1>1, <2>3, AppendLast
    <3>2. \A i \in 1..Len(stored') : i \in 1..Len(stored) \/ i = Len(stored) + 1
      BY <1>1, <3>1
    <3>3. Head(port).seq <= sent
      BY <1>1 DEF OnceInv, PortOrdered
    <3>4. StoredBefore'
      <4> SUFFICES ASSUME NEW i \in 1..Len(stored')
                   PROVE  /\ stored'[i].seq <= sent
                          /\ \A j \in 1..Len(port') : stored'[i].seq < port'[j].seq
        BY DEF StoredBefore
      <4>1. CASE i \in 1..Len(stored)
        BY <2>1, <3>1, <4>1
      <4>2. CASE i = Len(stored) + 1
        BY <1>4, <3>1, <3>3, <4>2
      <4> QED  BY <3>2, <4>1, <4>2
    <3>5. KeysStoredOnce'
      <4> SUFFICES ASSUME NEW i \in 1..Len(stored')
                   PROVE  /\ ~stored'[i].aux
                          /\ \A j \in 1..i - 1 : stored'[j].seq < stored'[i].seq
        BY DEF KeysStoredOnce
      <4>1. CASE i \in 1..Len(stored)
        <5>1. \A j \in 1..i - 1 : j \in 1..Len(stored)
          BY <1>1, <4>1
        <5> QED  BY <2>1, <3>1, <4>1, <5>1
      <4>2. CASE i = Len(stored) + 1
        <5>1. \A j \in 1..i - 1 : j \in 1..Len(stored)
          BY <1>1, <4>2
        <5> QED  BY <1>1, <2>1, <2>3, <3>1, <4>2, <5>1
      <4> QED  BY <3>2, <4>1, <4>2
    <3> QED  BY <1>3, <3>4, <3>5
  <2> QED  BY <2>2, <2>3
<1> QED  BY <1>5, <1>6

(* Whatever a read of the data port does with its byte, the bytes left in  *)
(* the controller keep their order.                                        *)
LEMMA ReadKeepsOrder ==
  ASSUME TypeOK, PortOrdered, sent' = sent, port' = AfterRead
  PROVE  PortOrdered'
<1>1. CASE port = <<>>
  BY <1>1 DEF AfterRead, PortOrdered
<1>2. CASE port # <<>>
  <2>1. port' = Tail(port) /\ port \in Seq(Item)
    BY <1>2 DEF AfterRead, TypeOK
  <2>2. /\ Len(port') = Len(port) - 1
        /\ \A j \in 1..Len(port') : port'[j] = port[j + 1]
        /\ \A j \in 1..Len(port') : j + 1 \in 1..Len(port)
    BY <1>2, <2>1
  <2>3. \A j \in 1..Len(port') : port'[j].seq <= sent'
    BY <2>2 DEF PortOrdered
  <2>4. ASSUME NEW i \in 1..Len(port'), NEW j \in 1..Len(port'), i < j
        PROVE  port'[i].seq < port'[j].seq
    <3>1. i + 1 < j + 1
      BY <2>1, <2>2, <2>4
    <3> QED  BY <2>2, <2>4, <3>1 DEF PortOrdered
  <2> QED  BY <2>3, <2>4 DEF PortOrdered
<1> QED  BY <1>1, <1>2

(* A handler: interrupts are on, so the main loop is outside the polling   *)
(* loop; it takes the head of the port, or stores no scan code, or the     *)
(* history says stale.                                                     *)
LEMMA HandlerOnce ==
  ASSUME TypeOK, OnceInv, NEW n \in {1, 12}, Taken(n), Serviced(n),
         \/ n = 1 /\ stored' = Append(stored, InData)
         \/ n = 12 /\ stored' = stored
  PROVE  OnceInv'
<1>1. /\ ~(pc \in {"status", "data"}) /\ pc' = pc /\ ifl' = ifl /\ sent' = sent
      /\ port' = AfterRead
  BY DEF Taken, Serviced, OnceInv, PollOwnsPort, flow
<1>2. PortOrdered'
  BY <1>1, ReadKeepsOrder DEF OnceInv
<1>3. PollOwnsPort'
  BY <1>1 DEF PollOwnsPort
<1>4. CASE stale'
  BY <1>2, <1>3, <1>4 DEF OnceInv, StoredBefore, KeysStoredOnce
<1>5. CASE ~stale' /\ port # <<>>
  <2>1. InData = Head(port) /\ AfterRead = Tail(port)
    BY <1>5 DEF InData, AfterRead
  <2>2. stale' = stale
    BY <1>5 DEF Serviced, TypeOK
  <2>3. n = 1 => ~Head(port).aux
    <3>1. n = 1 => Line(InData) = 1
      BY <1>5 DEF Serviced
    <3> QED  BY <2>1, <3>1 DEF Line
  <2>4. \/ ~Head(port).aux /\ stored' = Append(stored, Head(port))
        \/ stored' = stored
    BY <2>1, <2>3
  <2>5. PortOrdered' /\ StoredBefore' /\ KeysStoredOnce'
    BY <1>1, <1>5, <2>1, <2>2, <2>4, ReadOnce
  <2> QED  BY <1>3, <2>5 DEF OnceInv
<1>6. CASE ~stale' /\ port = <<>>
  <2>1. stored' = stored /\ port' = port /\ ~stale
    BY <1>1, <1>6 DEF Serviced, AfterRead
  <2> QED  BY <1>1, <1>2, <1>3, <2>1 DEF OnceInv, StoredBefore, KeysStoredOnce
<1> QED  BY <1>4, <1>5, <1>6

(* Every action keeps the invariant.                                       *)
LEMMA StepOnce ==
  ASSUME TypeOK, OnceInv, [Next]_vars
  PROVE  OnceInv'
<1>1. CASE KeyboardSends \/ MouseSends
  BY <1>1, SendOnce, ByteAssumption DEF KeyboardSends, MouseSends
<1>2. CASE irq1_handler
  BY <1>2, HandlerOnce DEF irq1_handler, Put
<1>3. CASE irq12_handler
  BY <1>3, HandlerOnce DEF irq12_handler, ring
<1>4. CASE PollEnter
  <2>1. UNCHANGED <<port, sent, stored, stale>> /\ pc' = "status" /\ ~ifl'
    BY <1>4 DEF PollEnter, ring, Goto
  <2> QED  BY <2>1 DEF OnceInv, PollOwnsPort, PortOrdered, StoredBefore,
                       KeysStoredOnce
<1>5. CASE PollStatus
  <2>1. UNCHANGED <<port, sent, stored, stale>>
    BY <1>5 DEF PollStatus, ring
  <2>2. PollOwnsPort'
    BY <1>5 DEF PollStatus, OnceInv, PollOwnsPort, At, Goto, CallThenGoto
  <2> QED  BY <2>1, <2>2 DEF OnceInv, PortOrdered, StoredBefore, KeysStoredOnce
<1>6. CASE PollData
  <2>1. /\ port # <<>> /\ ~ifl /\ pc' = "status" /\ ifl' = ifl
        /\ port' = AfterRead /\ UNCHANGED <<sent, stale>>
    BY <1>6 DEF PollData, OnceInv, PollOwnsPort, At, Goto
  <2>2. InData = Head(port) /\ AfterRead = Tail(port)
    BY <2>1 DEF InData, AfterRead
  <2>3. \/ ~Head(port).aux /\ stored' = Append(stored, Head(port))
        \/ stored' = stored
    BY <1>6, <2>2 DEF PollData, TakenForMouse, Put, ring
  <2>4. PortOrdered' /\ StoredBefore' /\ KeysStoredOnce'
    BY <2>1, <2>2, <2>3, ReadOnce
  <2>5. PollOwnsPort'
    BY <2>1 DEF PollOwnsPort
  <2> QED  BY <2>4, <2>5 DEF OnceInv
<1>7. CASE RenderLoad \/ RenderStore \/ ReadKey
  <2>1. UNCHANGED <<port, sent, stored, stale, ifl>>
    BY <1>7 DEF RenderLoad, RenderStore, ReadKey, ring
  <2>2. ~(pc' \in {"status", "data"})
    BY <1>7 DEF RenderLoad, RenderStore, ReadKey, Goto, CallThenGoto
  <2> QED  BY <2>1, <2>2 DEF OnceInv, PollOwnsPort, PortOrdered, StoredBefore,
                             KeysStoredOnce
<1>9. CASE Return
  BY <1>9 DEF Return, ring, OnceInv, PollOwnsPort, PortOrdered, StoredBefore,
              KeysStoredOnce
<1>8. CASE UNCHANGED vars
  BY <1>8 DEF vars, ring, flow, OnceInv, PollOwnsPort, PortOrdered, StoredBefore,
              KeysStoredOnce
<1> QED  BY <1>1, <1>2, <1>3, <1>4, <1>5, <1>6, <1>7, <1>8, <1>9 DEF Next, MainLoop

(* However interrupts and polls interleave, a byte of the keyboard is      *)
(* stored at most once and a mouse byte never, until the PIC delivers an   *)
(* IRQ 1 whose byte the polling loop had taken.                            *)
THEOREM KeysOnce == Spec => []KeysStoredOnce
<1>1. Init => OnceInv
  <2> SUFFICES ASSUME Init PROVE OnceInv
    OBVIOUS
  <2>1. pc = "poll" /\ port = <<>> /\ stored = <<>>
    BY DEF Init
  <2> QED  BY <2>1 DEF OnceInv, PollOwnsPort, PortOrdered, StoredBefore,
                       KeysStoredOnce
<1>2. TypeOK /\ OnceInv /\ [Next]_vars => OnceInv'
  BY StepOnce
<1>3. OnceInv => KeysStoredOnce
  BY DEF OnceInv
<1> QED  BY <1>1, <1>2, <1>3, TypeCorrect, PTL DEF Spec

------------------------------------------------------------------------------
(* The bytes of the mouse.                                                 *)

InStep == FiledWhole => mouse_cycle = Len(filed) % 3

(* Filing a byte moves the packet machine one place on, as long as only    *)
(* bytes that can start a packet come first in one.                        *)
LEMMA FileInStep ==
  ASSUME TypeOK, InStep, NEW item \in Item, File(item)
  PROVE  InStep'
<1> SUFFICES ASSUME FiledWhole'  PROVE mouse_cycle' = Len(filed') % 3
  BY DEF InStep
<1>1. /\ filed \in Seq(Item) /\ mouse_cycle \in 0..2
      /\ filed' = Append(filed, item) /\ mouse_process_byte(item.byte)
  BY DEF TypeOK, File
<1>2. /\ Len(filed') = Len(filed) + 1
      /\ \A i \in 1..Len(filed) : filed'[i] = filed[i] /\ i \in 1..Len(filed')
      /\ filed'[Len(filed) + 1] = item
  BY <1>1, AppendLast
<1>3. FiledWhole
  BY <1>2 DEF FiledWhole
<1>4. mouse_cycle = Len(filed) % 3
  BY <1>3 DEF InStep
<1>5. CASE mouse_cycle = 0
  <2>1. (Len(filed) + 1) % 3 = 1
    BY <1>1, <1>4, <1>5
  <2>2. LooksLikeFirst(item.byte)
    <3>1. Len(filed) + 1 \in 1..Len(filed')
      BY <1>1, <1>2
    <3> QED  BY <1>2, <2>1, <3>1 DEF FiledWhole
  <2> QED  BY <1>1, <1>2, <1>5, <2>1, <2>2 DEF mouse_process_byte, Store
<1>6. CASE mouse_cycle # 0
  <2>1. mouse_cycle' = IF mouse_cycle + 1 < 3 THEN mouse_cycle + 1 ELSE 0
    BY <1>1, <1>6 DEF mouse_process_byte, Store
  <2> QED  BY <1>1, <1>2, <1>4, <2>1
<1> QED  BY <1>5, <1>6

(* While nothing but the mouse's bytes was taken for them: those filed are *)
(* the mouse's, in order, all before the ones still in the controller, and *)
(* every byte sent is somewhere.                                           *)
Accounted ==
  stale \/ astray \/
    /\ \A i \in 1..Len(filed) :
          /\ filed[i].aux /\ filed[i].seq <= sent
          /\ \A j \in 1..Len(port) : filed[i].seq < port[j].seq
          /\ \A j \in 1..i - 1 : filed[j].seq < filed[i].seq
    /\ Len(port) + Len(stored) + Len(filed) = sent

(* A device's byte is in the controller.                                   *)
LEMMA SendAccounted ==
  ASSUME TypeOK, Accounted, NEW aux \in BOOLEAN, NEW b \in Byte, Send(aux, b)
  PROVE  Accounted'
<1> DEFINE item == [aux |-> aux, byte |-> b, seq |-> sent + 1]
<1>1. /\ port \in Seq(Item) /\ filed \in Seq(Item) /\ stored \in Seq(Item)
      /\ sent \in Nat /\ item \in Item /\ item.seq = sent + 1
  BY DEF TypeOK, Item
<1>2. /\ port' = Append(port, item) /\ sent' = sent + 1
      /\ UNCHANGED <<stored, filed, stale, astray>>
  BY DEF Send, ring, mouse
<1> HIDE DEF item
<1>3. /\ Len(port') = Len(port) + 1
      /\ \A i \in 1..Len(port) : port'[i] = port[i]
      /\ port'[Len(port) + 1] = item
  BY <1>1, <1>2, AppendLast
<1>4. CASE stale \/ astray
  BY <1>2, <1>4 DEF Accounted
<1>5. CASE ~(stale \/ astray)
  <2>1. ASSUME NEW i \in 1..Len(filed)
        PROVE  /\ filed[i].aux /\ filed[i].seq <= sent + 1
               /\ \A j \in 1..Len(port') : filed[i].seq < port'[j].seq
               /\ \A j \in 1..i - 1 : filed[j].seq < filed[i].seq
    <3>1. /\ filed[i].seq \in Nat /\ filed[i].seq <= sent /\ filed[i].aux
          /\ \A j \in 1..Len(port) : filed[i].seq < port[j].seq
          /\ \A j \in 1..i - 1 : filed[j].seq < filed[i].seq
      BY <1>1, <1>5, NumberOf DEF Accounted
    <3>2. \A j \in 1..Len(port') : j \in 1..Len(port) \/ j = Len(port) + 1
      BY <1>1, <1>3
    <3>3. \A j \in 1..Len(port') : filed[i].seq < port'[j].seq
      BY <1>1, <1>3, <3>1, <3>2
    <3>4. filed[i].seq <= sent + 1
      BY <1>1, <3>1
    <3> QED  BY <3>1, <3>3, <3>4
  <2>2. Len(port') + Len(stored) + Len(filed) = sent + 1
    BY <1>1, <1>3, <1>5 DEF Accounted
  <2> QED  BY <1>2, <2>1, <2>2 DEF Accounted
<1> QED  BY <1>4, <1>5

(* A read of the data port: the head of the controller goes to the ring,   *)
(* or it is the mouse's and it is filed.                                   *)
LEMMA ReadAccounted ==
  ASSUME TypeOK, PortOrdered, Accounted, ~stale, ~astray, port # <<>>,
         sent' = sent, port' = Tail(port),
         \/ stored' = Append(stored, Head(port)) /\ filed' = filed
         \/ /\ stored' = stored /\ filed' = Append(filed, Head(port))
            /\ Head(port).aux
  PROVE  Accounted'
<1>1. /\ port \in Seq(Item) /\ stored \in Seq(Item) /\ filed \in Seq(Item)
      /\ sent \in Nat /\ Head(port) = port[1] /\ 1 \in 1..Len(port)
      /\ Head(port) \in Item
  BY DEF TypeOK
<1>2. /\ Len(port') = Len(port) - 1
      /\ \A j \in 1..Len(port') : port'[j] = port[j + 1] /\ j + 1 \in 1..Len(port)
  BY <1>1
<1>3. Head(port).seq <= sent
  BY <1>1 DEF PortOrdered
<1>4. \A j \in 1..Len(port') : Head(port).seq < port'[j].seq
  <2> SUFFICES ASSUME NEW j \in 1..Len(port')  PROVE port[1].seq < port[j + 1].seq
    BY <1>1, <1>2
  <2>1. 1 < j + 1
    BY <1>1, <1>2
  <2> QED  BY <1>1, <1>2, <2>1 DEF PortOrdered
<1>5. /\ \A i \in 1..Len(filed) :
            /\ filed[i].aux /\ filed[i].seq <= sent
            /\ filed[i].seq < Head(port).seq
            /\ \A j \in 1..Len(port') : filed[i].seq < port'[j].seq
            /\ \A j \in 1..i - 1 : filed[j].seq < filed[i].seq
      /\ Len(port) + Len(stored) + Len(filed) = sent
  BY <1>1, <1>2 DEF Accounted
<1>8. Len(port) \in Nat /\ Len(stored) \in Nat /\ Len(filed) \in Nat
  BY <1>1
<1>6. CASE stored' = Append(stored, Head(port)) /\ filed' = filed
  <2>1. Len(stored') = Len(stored) + 1 /\ Len(filed') = Len(filed)
    BY <1>1, <1>6
  <2>2. Len(port') + Len(stored') + Len(filed') = sent'
    <3>1. Len(port) + Len(stored) + Len(filed) = sent
      BY <1>5
    <3>2. Len(port') = Len(port) - 1 /\ sent' = sent
      BY <1>2
    <3> QED  BY <1>8, <2>1, <3>1, <3>2
  <2> QED  BY <1>5, <1>6, <2>2 DEF Accounted
<1>7. CASE /\ stored' = stored /\ filed' = Append(filed, Head(port))
           /\ Head(port).aux
  <2>1. /\ Len(filed') = Len(filed) + 1
        /\ \A i \in 1..Len(filed) : filed'[i] = filed[i]
        /\ filed'[Len(filed) + 1] = Head(port)
    BY <1>1, <1>7, AppendLast
  <2>2. Len(port') + Len(stored') + Len(filed') = sent'
    <3>1. Len(port) + Len(stored) + Len(filed) = sent
      BY <1>5
    <3>2. Len(port') = Len(port) - 1 /\ sent' = sent /\ stored' = stored
      BY <1>2, <1>7
    <3> QED  BY <1>8, <2>1, <3>1, <3>2
  <2>3. ASSUME NEW i \in 1..Len(filed')
        PROVE  /\ filed'[i].aux /\ filed'[i].seq <= sent
               /\ \A j \in 1..Len(port') : filed'[i].seq < port'[j].seq
               /\ \A j \in 1..i - 1 : filed'[j].seq < filed'[i].seq
    <3>1. \A j \in 1..i - 1 : j \in 1..Len(filed)
      BY <1>1, <2>1
    <3>2. CASE i \in 1..Len(filed)
      BY <1>5, <2>1, <3>1, <3>2
    <3>3. CASE i = Len(filed) + 1
      BY <1>3, <1>4, <1>5, <1>7, <2>1, <3>1, <3>3
    <3> QED  BY <1>1, <2>1, <3>2, <3>3
  <2> QED  BY <2>2, <2>3 DEF Accounted
<1> QED  BY <1>6, <1>7

MouseInv == InStep /\ Accounted

(* Every action keeps the invariant.                                       *)
LEMMA StepFiled ==
  ASSUME TypeOK, OnceInv, MouseInv, [Next]_vars
  PROVE  MouseInv'
<1>0. InData \in Item
  BY ReadTyped
<1>1. CASE KeyboardSends \/ MouseSends
  <2>1. Accounted'
    BY <1>1, SendAccounted, ByteAssumption DEF KeyboardSends, MouseSends, MouseInv
  <2>2. UNCHANGED <<filed, mouse_cycle>>
    BY <1>1 DEF KeyboardSends, MouseSends, Send, mouse
  <2> QED  BY <2>1, <2>2 DEF MouseInv, InStep, FiledWhole
<1>2. CASE irq1_handler
  <2>1. /\ UNCHANGED <<filed, mouse_cycle, astray, sent>>
        /\ stored' = Append(stored, InData) /\ port' = AfterRead
        /\ stale' = (stale \/ (port = <<>> \/ Line(InData) # 1))
    BY <1>2 DEF irq1_handler, Serviced, Put, mouse
  <2>2. CASE stale' \/ astray'
    BY <2>1, <2>2 DEF MouseInv, InStep, FiledWhole, Accounted
  <2>3. CASE ~(stale' \/ astray')
    <3>1. port # <<>> /\ ~stale /\ ~astray
      BY <2>1, <2>3
    <3>2. InData = Head(port) /\ AfterRead = Tail(port)
      BY <3>1 DEF InData, AfterRead
    <3>3. Accounted'
      BY <2>1, <3>1, <3>2, ReadAccounted DEF OnceInv, MouseInv
    <3> QED  BY <2>1, <3>3 DEF MouseInv, InStep, FiledWhole
  <2> QED  BY <2>2, <2>3
<1>3. CASE irq12_handler
  <2>1. /\ File(InData) /\ UNCHANGED <<stored, sent>> /\ port' = AfterRead
        /\ astray' = (astray \/ port = <<>> \/ Line(InData) # 12)
        /\ stale => stale'
    BY <1>3 DEF irq12_handler, Serviced, ring
  <2>2. InStep'
    BY <1>0, <2>1, FileInStep DEF MouseInv
  <2>3. CASE stale' \/ astray'
    BY <2>2, <2>3 DEF MouseInv, Accounted
  <2>4. CASE ~(stale' \/ astray')
    <3>1. port # <<>> /\ ~stale /\ ~astray /\ Line(InData) = 12
      BY <2>1, <2>4
    <3>2. InData = Head(port) /\ AfterRead = Tail(port)
      BY <3>1 DEF InData, AfterRead
    <3>3. Head(port).aux
      BY <3>1, <3>2 DEF Line
    <3>4. filed' = Append(filed, Head(port))
      BY <2>1, <3>2 DEF File
    <3>5. Accounted'
      BY <2>1, <3>1, <3>2, <3>3, <3>4, ReadAccounted DEF OnceInv, MouseInv
    <3> QED  BY <2>2, <3>5 DEF MouseInv
  <2> QED  BY <2>3, <2>4
<1>4. CASE PollData
  <2>1. /\ port # <<>> /\ port' = AfterRead /\ UNCHANGED <<sent, stale>>
    BY <1>4 DEF PollData, OnceInv, PollOwnsPort, At
  <2>2. InData = Head(port) /\ AfterRead = Tail(port)
    BY <2>1 DEF InData, AfterRead
  <2>3. CASE File(InData) /\ UNCHANGED ring /\ astray' = (astray \/ ~InData.aux)
    <3>1. InStep'
      BY <1>0, <2>3, FileInStep DEF MouseInv
    <3>2. CASE stale' \/ astray'
      BY <3>1, <3>2 DEF MouseInv, Accounted
    <3>3. CASE ~(stale' \/ astray')
      <4>1. ~stale /\ ~astray /\ Head(port).aux
        BY <2>1, <2>2, <2>3, <3>3
      <4>2. stored' = stored /\ filed' = Append(filed, Head(port))
        BY <2>2, <2>3 DEF File, ring
      <4>3. Accounted'
        BY <2>1, <2>2, <4>1, <4>2, ReadAccounted DEF OnceInv, MouseInv
      <4> QED  BY <3>1, <4>3 DEF MouseInv
    <3> QED  BY <3>2, <3>3
  <2>4. CASE Put(InData) /\ UNCHANGED mouse
    <3>1. /\ UNCHANGED <<filed, mouse_cycle, astray>>
          /\ stored' = Append(stored, Head(port))
      BY <2>2, <2>4 DEF Put, mouse
    <3>2. CASE stale \/ astray
      BY <2>1, <3>1, <3>2 DEF MouseInv, InStep, FiledWhole, Accounted
    <3>3. CASE ~(stale \/ astray)
      <4>1. Accounted'
        BY <2>1, <2>2, <3>1, <3>3, ReadAccounted DEF OnceInv, MouseInv
      <4> QED  BY <3>1, <4>1 DEF MouseInv, InStep, FiledWhole
    <3> QED  BY <3>2, <3>3
  <2> QED  BY <1>4, <2>3, <2>4 DEF PollData
<1>5. CASE PollEnter \/ PollStatus \/ RenderLoad \/ RenderStore \/ ReadKey
           \/ Return \/ UNCHANGED vars
  <2>1. UNCHANGED <<port, sent, stored, stale, filed, astray, mouse_cycle>>
    BY <1>5 DEF PollEnter, PollStatus, RenderLoad, RenderStore, ReadKey, Return,
                vars, ring, mouse
  <2> QED  BY <2>1 DEF MouseInv, InStep, FiledWhole, Accounted
<1> QED  BY <1>1, <1>2, <1>3, <1>4, <1>5 DEF Next, MainLoop

(* However interrupts and polls interleave, they assemble packets in step; *)
(* and until a byte that is not the mouse's is taken for one (a scan code  *)
(* polled in the middle of a packet, an interrupt whose byte the polling   *)
(* loop had taken) they file the mouse's bytes once each, in order, and    *)
(* lose none.                                                              *)
THEOREM MouseBytesCorrect == Spec => []MouseBytesFiled
<1>1. Init => OnceInv /\ MouseInv
  <2> SUFFICES ASSUME Init PROVE OnceInv /\ MouseInv
    OBVIOUS
  <2>1. /\ pc = "poll" /\ port = <<>> /\ stored = <<>> /\ filed = <<>>
        /\ sent = 0 /\ mouse_cycle = 0
    BY DEF Init
  <2>2. InStep
    BY <2>1 DEF InStep
  <2>3. Accounted
    BY <2>1 DEF Accounted
  <2> QED  BY <2>1, <2>2, <2>3 DEF OnceInv, PollOwnsPort, PortOrdered,
                               StoredBefore, KeysStoredOnce, MouseInv
<1>2. TypeOK /\ OnceInv /\ MouseInv /\ [Next]_vars => OnceInv' /\ MouseInv'
  BY StepOnce, StepFiled
<1>3. MouseInv => MouseBytesFiled
  BY DEF MouseInv, InStep, Accounted, MouseBytesFiled
<1> QED  BY <1>1, <1>2, <1>3, TypeCorrect, PTL DEF Spec
==============================================================================
