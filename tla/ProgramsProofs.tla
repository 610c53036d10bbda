--------------------------- MODULE ProgramsProofs ---------------------------
(***************************************************************************)
(* Proofs about the native programs for every size of the ring, the heap,  *)
(* the memory, the screens and the controller's buffer and every number of *)
(* bytes: the heap of the DOOM port implements the arena, its key ring the *)
(* queue of key events, every byte of the devices is accounted for, what   *)
(* is painted is what the screen has of what was asked for, and the C      *)
(* library copies, compares and searches as C says, except that strchr and *)
(* strrchr never find the terminator, and reads the numbers an int holds.  *)
(***************************************************************************)
EXTENDS Programs, SequenceTheorems, FiniteSetTheorems, WellFoundedInduction, TLAPS

-----------------------------------------------------------------------------
(* Arithmetic. *)

\* Quotient and remainder, as the solver knows them.
LEMMA DivMod ==
  ASSUME NEW N \in Nat \ {0}, NEW i \in Nat
  PROVE  /\ i \div N \in Int
         /\ i % N \in 0 .. N - 1
         /\ i = N * (i \div N) + (i % N)
OBVIOUS

\* Less than the modulus is left as it is.
LEMMA ModSmall ==
  ASSUME NEW N \in Nat \ {0}, NEW i \in Nat, i < N
  PROVE  i % N = i
OBVIOUS

\* Positions less than a ring apart have different slots.
LEMMA SlotsDiffer ==
  ASSUME NEW N \in Nat \ {0}, NEW i \in Nat, NEW w \in Nat, i < w, w < i + N
  PROVE  i % N # w % N
<1> SUFFICES ASSUME i % N = w % N  PROVE FALSE
  OBVIOUS
<1> DEFINE a == i \div N
<1> DEFINE b == w \div N
<1>1. /\ a \in Int /\ b \in Int
      /\ i = N * a + (i % N) /\ w = N * b + (w % N)
      /\ i % N \in Int /\ w % N \in Int
  BY DivMod
<1> HIDE DEF a, b
<1>2. w - i = N * (b - a)
  BY <1>1
<1>3. b - a \in Int /\ N * (b - a) > 0 /\ N * (b - a) < N
  BY <1>1, <1>2
<1>4. CASE b - a <= 0
  <2>1. N * (b - a) <= 0  BY <1>3, <1>4
  <2> QED  BY <1>3, <2>1
<1>5. CASE b - a >= 1
  <2>1. N * (b - a) >= N  BY <1>3, <1>5
  <2> QED  BY <1>3, <2>1
<1> QED  BY <1>3, <1>4, <1>5

-----------------------------------------------------------------------------
(* The heap of the DOOM port. *)

MallocInv ==
  /\ heap_offset \in 0 .. HEAP_BYTES
  /\ mallocBlocks \subseteq LibcArena!Blocks
  /\ \A b \in mallocBlocks : b.start + b.size <= heap_offset

\* Rounding up the size of a request.
LEMMA RoundUpIs ==
  ASSUME NEW size \in Nat, size + HeapAlign + HEAP_BYTES <= LibcWidth
  PROVE  RoundUp(size) \in Nat /\ size <= RoundUp(size) /\ RoundUp(size) < size + HeapAlign
<1> DEFINE i == size + HeapAlign - 1
<1> DEFINE q == i \div HeapAlign
<1>1. /\ HeapAlign \in Nat \ {0} /\ HEAP_BYTES \in Nat /\ LibcWidth \in Nat
      /\ i \in Nat /\ i < LibcWidth
  BY LibcSizes
<1>2. i % LibcWidth = i  BY <1>1, ModSmall
<1>3. RoundUp(size) = q * HeapAlign  BY <1>2 DEF RoundUp
<1>4. /\ q \in Int /\ i % HeapAlign \in 0 .. HeapAlign - 1
      /\ i = HeapAlign * q + (i % HeapAlign)
  BY <1>1, DivMod
<1>5. q * HeapAlign = HeapAlign * q  BY <1>1, <1>4
<1>6. HeapAlign * q \in Int /\ size <= HeapAlign * q /\ HeapAlign * q < size + HeapAlign
  BY <1>1, <1>4
<1> HIDE DEF q
<1> QED  BY <1>3, <1>5, <1>6

LEMMA MallocAllocates ==
  ASSUME MallocInv, NEW size \in Nat,
         size + HeapAlign + HEAP_BYTES <= LibcWidth, malloc(size)
  PROVE  MallocInv' /\ [LibcArena!Allocate]_mallocBlocks
<1>1. PICK up : up = RoundUp(size) /\ up \in Nat /\ size <= up /\ up < size + HeapAlign
  BY RoundUpIs
<1>2. /\ heap_offset \in Nat /\ heap_offset <= HEAP_BYTES /\ HEAP_BYTES \in Nat
      /\ LibcWidth \in Nat /\ HeapAlign \in Nat \ {0}
  BY LibcSizes DEF MallocInv
<1>3. (heap_offset + up) % LibcWidth = heap_offset + up
  <2>1. heap_offset + up \in Nat /\ heap_offset + up < LibcWidth  BY <1>1, <1>2
  <2> QED  BY <2>1, <1>2, ModSmall
<1>4. CASE UNCHANGED mallocVars
  BY <1>4 DEF MallocInv, mallocVars
<1>5. CASE /\ heap_offset + up <= HEAP_BYTES
           /\ heap_offset' = heap_offset + up
           /\ mallocBlocks' =
                 mallocBlocks \cup {[start |-> heap_offset, size |-> size]}
  <2>1. PICK new : new = [start |-> heap_offset, size |-> size]  OBVIOUS
  <2>2. /\ new \in LibcArena!Blocks /\ new.start = heap_offset /\ new.size = size
        /\ new.start + new.size <= heap_offset'
    BY <1>1, <1>2, <1>5, <2>1 DEF LibcArena!Blocks
  <2>3. heap_offset' \in 0 .. HEAP_BYTES /\ heap_offset <= heap_offset'
    BY <1>1, <1>2, <1>5
  <2>4. \A b \in mallocBlocks : b.start + b.size <= heap_offset'
    BY <1>2, <2>3 DEF MallocInv, LibcArena!Blocks
  <2>5. MallocInv'  BY <1>5, <2>1, <2>2, <2>3, <2>4 DEF MallocInv
  <2>6. \A b \in mallocBlocks : LibcArena!Bytes(new) \cap LibcArena!Bytes(b) = {}
    <3> SUFFICES ASSUME NEW b \in mallocBlocks
                 PROVE  LibcArena!Bytes(new) \cap LibcArena!Bytes(b) = {}
      OBVIOUS
    <3>1. b.start \in Nat /\ b.size \in Nat /\ b.start + b.size <= heap_offset
      BY DEF MallocInv, LibcArena!Blocks
    <3> QED  BY <1>2, <2>2, <3>1 DEF LibcArena!Bytes
  <2>7. CASE new \in mallocBlocks
    <3>1. mallocBlocks' = mallocBlocks  BY <1>5, <2>1, <2>7
    <3> QED  BY <3>1, <2>5
  <2>8. CASE new \notin mallocBlocks
    <3>1. new \in mallocBlocks' \ mallocBlocks /\ mallocBlocks' = mallocBlocks \cup {new}
      BY <1>5, <2>1, <2>8
    <3>2. new.start + new.size <= HEAP_BYTES  BY <1>1, <1>2, <1>5, <2>2
    <3>3. LibcArena!Fits(new)  BY <3>2, <2>6 DEF LibcArena!Fits
    <3>4. LibcArena!Allocate  BY <3>1, <3>3, <2>2 DEF LibcArena!Allocate
    <3> QED  BY <3>4, <2>5
  <2> QED  BY <2>7, <2>8
<1>6. heap_offset + up > HEAP_BYTES \/ heap_offset + up <= HEAP_BYTES  BY <1>1, <1>2
<1> QED  BY <1>1, <1>3, <1>4, <1>5, <1>6 DEF malloc

LEMMA HeapAllocates ==
  ASSUME MallocInv, Heap
  PROVE  MallocInv' /\ [LibcArena!Allocate]_mallocBlocks
<1>1. ASSUME NEW size \in MallocSizes, malloc(size) \/ realloc(size)
      PROVE  MallocInv' /\ [LibcArena!Allocate]_mallocBlocks
  <2>1. size \in Nat /\ 1 * size + HeapAlign + HEAP_BYTES <= LibcWidth
    BY LibcSizes
  <2>2. size + HeapAlign + HEAP_BYTES <= LibcWidth  BY <2>1, LibcSizes
  <2> QED  BY <1>1, <2>1, <2>2, MallocAllocates DEF realloc
<1>2. ASSUME NEW nmemb \in CallocCounts, NEW size \in MallocSizes, calloc(nmemb, size)
      PROVE  MallocInv' /\ [LibcArena!Allocate]_mallocBlocks
  <2>1. PICK m : m = nmemb * size  OBVIOUS
  <2>2. m \in Nat /\ m + HeapAlign + HEAP_BYTES <= LibcWidth
    BY <2>1, LibcSizes
  <2>3. m % LibcWidth = m
    <3>1. m < LibcWidth /\ LibcWidth \in Nat \ {0}  BY <2>2, LibcSizes
    <3> QED  BY <2>2, <3>1, ModSmall
  <2>4. malloc(m)  BY <1>2, <2>1, <2>3 DEF calloc
  <2> QED  BY <2>2, <2>4, MallocAllocates
<1> QED  BY <1>1, <1>2 DEF Heap

\* Only the heap's own calls move its end.
LEMMA MallocSteps ==
  ASSUME [Next]_vars
  PROVE  Heap \/ UNCHANGED mallocVars
<1>1. CASE UNCHANGED vars
  BY <1>1 DEF vars, libcVars, mallocVars
<1>2. CASE Next
  BY <1>2 DEF Next, Doom, DoomFrames, Dashboard_start, GuiDraws, CanvasFills,
     LibraryHeap, LibraryCopies, NoLibc, libcVars, mallocVars
<1> QED  BY <1>1, <1>2

\* Blocks that malloc, calloc and realloc of the port hand out lie in its
\* array and never overlap.
THEOREM MallocCorrect == Spec => MallocImplementsArena
<1>1. Init => MallocInv /\ LibcArena!Init
  <2> SUFFICES ASSUME Init  PROVE MallocInv /\ LibcArena!Init
    OBVIOUS
  <2>1. heap_offset = 0 /\ mallocBlocks = {}  BY DEF Init, LibcInit
  <2> QED  BY <2>1, LibcSizes DEF MallocInv, LibcArena!Init
<1>2. MallocInv /\ [Next]_vars => MallocInv' /\ [LibcArena!Allocate]_mallocBlocks
  <2> SUFFICES ASSUME MallocInv, [Next]_vars
               PROVE  MallocInv' /\ [LibcArena!Allocate]_mallocBlocks
    OBVIOUS
  <2>1. CASE UNCHANGED mallocVars
    BY <2>1 DEF MallocInv, mallocVars
  <2> QED  BY <2>1, MallocSteps, HeapAllocates
<1> QED  BY <1>1, <1>2, PTL DEF Spec, MallocImplementsArena, LibcArena!Spec

(* What the arena's promise comes to, call after call: what the game has   *)
(* allocated lies in the array and no two blocks of it share a byte.       *)
MallocApart ==
  /\ \A b \in mallocBlocks : b \in LibcArena!Blocks /\ b.start + b.size <= HEAP_BYTES
  /\ \A b, c \in mallocBlocks : b # c => LibcArena!Bytes(b) \cap LibcArena!Bytes(c) = {}

\* malloc, calloc and realloc keep the blocks of the game apart.
THEOREM MallocBlocksApart == Spec => []MallocApart
<1>1. LibcArena!Init => MallocApart  BY DEF LibcArena!Init, MallocApart
<1>2. MallocApart /\ [LibcArena!Allocate]_mallocBlocks => MallocApart'
  <2> SUFFICES ASSUME MallocApart, LibcArena!Allocate  PROVE MallocApart'
    BY DEF MallocApart
  <2>1. PICK new \in mallocBlocks' \ mallocBlocks :
          /\ new \in LibcArena!Blocks /\ LibcArena!Fits(new)
          /\ mallocBlocks' = mallocBlocks \cup {new}
    BY DEF LibcArena!Allocate
  <2>2. new.start + new.size <= HEAP_BYTES  BY <2>1 DEF LibcArena!Fits
  <2>3. \A b \in mallocBlocks : LibcArena!Bytes(new) \cap LibcArena!Bytes(b) = {}
    BY <2>1 DEF LibcArena!Fits
  <2>4. \A b, c \in mallocBlocks' :
           b # c => LibcArena!Bytes(b) \cap LibcArena!Bytes(c) = {}
    BY <2>1, <2>3 DEF MallocApart
  <2> QED  BY <2>1, <2>2, <2>4 DEF MallocApart
<1> QED  BY <1>1, <1>2, MallocCorrect, PTL DEF MallocImplementsArena, LibcArena!Spec

-----------------------------------------------------------------------------
(* What the port of DOOM keeps: types. *)

PortTyped ==
  /\ port \in Seq(Item) /\ dataReg \in Item
  /\ sent \in Nat /\ taken \subseteq Item

QueueTyped ==
  /\ queued \in Seq(Item)
  /\ s_key_queue \in [0 .. KEYQUEUE_SIZE - 1 -> 0 .. 511]
  /\ s_key_write \in Nat /\ s_key_read \in Nat
  /\ event \in 0 .. 511

\* The bytes of a sequence, first and rest.
LEMMA PortEnds ==
  ASSUME PortTyped, port # <<>>
  PROVE  /\ Len(port) \in Nat /\ Len(port) > 0
         /\ Head(port) = port[1] /\ port[1] \in Item
         /\ Tail(port) \in Seq(Item) /\ Len(Tail(port)) = Len(port) - 1
         /\ \A i \in 1 .. Len(port) - 1 : Tail(port)[i] = port[i + 1]
<1>1. port \in Seq(Item)  BY DEF PortTyped
<1>2. Len(port) \in Nat /\ Len(port) # 0  BY <1>1, LenProperties, EmptySeq
<1>3. port[1] \in Item  BY <1>1, <1>2, ElementOfSeq
<1>4. /\ Head(port) = port[1]
      /\ Tail(port) \in Seq(Item) /\ Len(Tail(port)) = Len(port) - 1
      /\ \A i \in 1 .. Len(port) - 1 : Tail(port)[i] = port[i + 1]
  BY <1>1, HeadTailProperties
<1> QED  BY <1>2, <1>3, <1>4

LEMMA ReadTyped ==
  ASSUME PortTyped
  PROVE  InData \in Item /\ AfterRead \in Seq(Item)
<1>1. CASE port = <<>>
  <2>1. <<>> \in Seq(Item)  OBVIOUS
  <2> QED  BY <1>1, <2>1 DEF InData, AfterRead, PortTyped
<1>2. CASE port # <<>>
  BY <1>2, PortEnds DEF InData, AfterRead
<1> QED  BY <1>1, <1>2

\* The three ways the controller changes.
LEMMA PortTypedStep ==
  ASSUME PortTyped, DeviceSends \/ KernelTakes \/ ProgramReads \/ UNCHANGED portVars
  PROVE  PortTyped'
<1>1. ASSUME NEW aux \in BOOLEAN, NEW b \in KeyBytes \cup AuxBytes, Send(aux, b)
      PROVE  PortTyped'
  <2>1. PICK item : item = [aux |-> aux, byte |-> b, seq |-> sent + 1]  OBVIOUS
  <2>2. item \in Item
    <3>1. b \in 0 .. 255  BY PortBytes
    <3>2. sent + 1 \in Nat  BY DEF PortTyped
    <3> QED  BY <2>1, <3>1, <3>2 DEF Item
  <2>3. port' = Append(port, item) /\ sent' = sent + 1 /\ dataReg' = dataReg /\ taken' = taken
    BY <1>1, <2>1 DEF Send
  <2>4. port' \in Seq(Item)  BY <2>2, <2>3, AppendProperties DEF PortTyped
  <2> QED  BY <2>3, <2>4 DEF PortTyped
<1>2. CASE DeviceSends
  <2>1. TRUE \in BOOLEAN /\ FALSE \in BOOLEAN  OBVIOUS
  <2> QED  BY <1>1, <1>2, <2>1 DEF DeviceSends
<1>3. CASE KernelTakes
  BY <1>3, ReadTyped DEF KernelTakes, PortTyped
<1>4. CASE ProgramReads
  BY <1>4, ReadTyped DEF ProgramReads, PortTyped
<1>5. CASE UNCHANGED portVars
  BY <1>5 DEF portVars, PortTyped
<1> QED  BY <1>2, <1>3, <1>4, <1>5

\* The event of a byte.
LEMMA EventTyped ==
  ASSUME NEW b \in 0 .. 255
  PROVE  EventOf(b) \in 0 .. 511
<1>1. ASSUME NEW sc \in 0 .. 127  PROVE convert_scancode(sc) \in 0 .. 255
  <2>1. sc \in 2 .. 11 => Digits[sc - 1] \in 0 .. 255
    BY DEF Digits
  <2>2. sc \in 16 .. 25 => TopRow[sc - 15] \in 0 .. 255
    BY DEF TopRow
  <2>3. sc \in 30 .. 38 => HomeRow[sc - 29] \in 0 .. 255
    BY DEF HomeRow
  <2>4. sc \in 44 .. 50 => LowRow[sc - 43] \in 0 .. 255
    BY DEF LowRow
  <2> QED  BY <2>1, <2>2, <2>3, <2>4 DEF convert_scancode
<1>2. CASE b >= 128
  <2>1. b - 128 \in 0 .. 127  BY <1>2
  <2>2. convert_scancode(b - 128) \in 0 .. 255  BY <1>1, <2>1
  <2> QED  BY <1>2, <2>2 DEF EventOf
<1>3. CASE ~(b >= 128)
  <2>1. b \in 0 .. 127  BY <1>3
  <2>2. convert_scancode(b) \in 0 .. 255  BY <1>1, <2>1
  <2> QED  BY <1>3, <2>2 DEF EventOf
<1> QED  BY <1>2, <1>3

\* The steps, as the port and the ring see them.
LEMMA PortSteps ==
  ASSUME [Next]_vars
  PROVE  /\ DeviceSends \/ KernelTakes \/ ProgramReads \/ UNCHANGED portVars
         /\ program' = program
         /\ \/ program = "doom" /\ DoomNext(fb)
            \/ UNCHANGED queueVars /\ (program = "doom" => UNCHANGED <<portVars, doomVars>>)
<1>1. CASE UNCHANGED vars
  BY <1>1 DEF vars, doomVars, queueVars, portVars
<1>2. CASE Doom
  <2>1. program = "doom" /\ DoomNext(fb) /\ program' = program  BY <1>2 DEF Doom, Same
  <2>2. DeviceSends \/ KernelTakes \/ ProgramReads \/ UNCHANGED portVars
    BY <2>1 DEF DoomNext, PollStep, DoomGame, PollStatus, PollData, DG_SleepMs,
       DG_GetKey, DG_GetTicksMs, DG_DrawFrame, SleepBegins, DoomInterrupted, DoomSends
  <2> QED  BY <2>1, <2>2
<1>3. CASE DoomFrames
  BY <1>3 DEF DoomFrames, Same, DG_DrawFrame, PollStatus
<1>4. CASE Dashboard_start
  BY <1>4 DEF Dashboard_start, Same, NoDoom, doomVars, queueVars, DashboardNext,
     DashboardStep, Draws, KeyAvailable, ReadKey
<1>5. CASE GuiDraws \/ CanvasFills \/ LibraryHeap \/ LibraryCopies
  BY <1>5 DEF GuiDraws, CanvasFills, LibraryHeap, LibraryCopies, Same, NoDoom, NoPort,
     doomVars, queueVars
<1> QED  BY <1>1, <1>2, <1>3, <1>4, <1>5 DEF Next

\* What the ring sees of the port's own steps.
LEMMA RingSteps ==
  ASSUME [Next]_vars
  PROVE  \/ queue_key(InData)
         \/ DG_GetKey
         \/ UNCHANGED queueVars
<1>1. CASE program = "doom" /\ DoomNext(fb)
  BY <1>1 DEF DoomNext, PollStep, DoomGame, PollStatus, PollData, DG_SleepMs,
     DG_GetTicksMs, DG_DrawFrame, SleepBegins, DoomInterrupted, DoomSends,
     doomVars, queueVars
<1> QED  BY <1>1, PortSteps

LEMMA QueueTypedStep ==
  ASSUME PortTyped, QueueTyped, [Next]_vars
  PROVE  QueueTyped'
<1>1. KEYQUEUE_SIZE \in Nat \ {0}  BY DoomSizes
<1>2. CASE queue_key(InData)
  <2>1. PICK item, e : item = InData /\ e = EventOf(item.byte)  OBVIOUS
  <2>2. item \in Item /\ e \in 0 .. 511
    <3>1. item \in Item  BY <2>1, ReadTyped
    <3>2. item.byte \in 0 .. 255  BY <3>1 DEF Item
    <3> QED  BY <2>1, <3>1, <3>2, EventTyped
  <2>3. /\ s_key_queue' = [s_key_queue EXCEPT ![s_key_write % KEYQUEUE_SIZE] = e]
        /\ s_key_write' = s_key_write + 1 /\ queued' = Append(queued, item)
        /\ s_key_read' = s_key_read /\ event' = event
    BY <1>2, <2>1 DEF queue_key
  <2>4. queued' \in Seq(Item)  BY <2>2, <2>3, AppendProperties DEF QueueTyped
  <2>5. s_key_queue' \in [0 .. KEYQUEUE_SIZE - 1 -> 0 .. 511]
    BY <2>2, <2>3 DEF QueueTyped
  <2>6. /\ s_key_write' \in Nat /\ s_key_read' \in Nat /\ event' \in 0 .. 511
    BY <2>3 DEF QueueTyped
  <2> QED  BY <2>4, <2>5, <2>6 DEF QueueTyped
<1>3. CASE DG_GetKey
  <2>1. s_key_read % KEYQUEUE_SIZE \in 0 .. KEYQUEUE_SIZE - 1
    BY <1>1, DivMod DEF QueueTyped
  <2>2. /\ s_key_queue' = s_key_queue /\ s_key_write' = s_key_write
        /\ queued' = queued
        /\ \/ event' = event /\ s_key_read' = s_key_read
           \/ /\ event' = s_key_queue[s_key_read % KEYQUEUE_SIZE]
              /\ s_key_read' = s_key_read + 1
    BY <1>3 DEF DG_GetKey
  <2>3. s_key_queue[s_key_read % KEYQUEUE_SIZE] \in 0 .. 511
    BY <2>1 DEF QueueTyped
  <2>4. s_key_read' \in Nat  BY <2>2 DEF QueueTyped
  <2>5. event' \in 0 .. 511  BY <2>2, <2>3 DEF QueueTyped
  <2> QED  BY <2>2, <2>4, <2>5 DEF QueueTyped
<1>4. CASE UNCHANGED queueVars
  BY <1>4 DEF queueVars, QueueTyped
<1> QED  BY <1>2, <1>3, <1>4, RingSteps

-----------------------------------------------------------------------------
(* The ring of key events. *)

\* The ring holds the latest KEYQUEUE_SIZE events, the reader behind.
RingHoldsLatest ==
  /\ s_key_read <= s_key_write /\ s_key_write = Len(queued)
  /\ \A i \in 0 .. s_key_write - 1 :
        i + KEYQUEUE_SIZE >= s_key_write =>
           s_key_queue[i % KEYQUEUE_SIZE] = EventOf(queued[i + 1].byte)

LEMMA QueueKeepsRing ==
  ASSUME QueueTyped, RingHoldsLatest, NEW item \in Item, queue_key(item)
  PROVE  RingHoldsLatest'
<1>1. PICK w, q, st, N, e :
         /\ w = s_key_write /\ q = s_key_queue /\ st = queued /\ N = KEYQUEUE_SIZE
         /\ e = EventOf(item.byte)
  OBVIOUS
<1>2. /\ N \in Nat \ {0} /\ w \in Nat /\ st \in Seq(Item) /\ w = Len(st)
      /\ q \in [0 .. N - 1 -> 0 .. 511] /\ s_key_read \in Nat /\ s_key_read <= w
  BY <1>1, DoomSizes DEF QueueTyped, RingHoldsLatest
<1>3. /\ s_key_write' = w + 1 /\ queued' = Append(st, item)
      /\ s_key_queue' = [q EXCEPT ![w % N] = e] /\ s_key_read' = s_key_read
  BY <1>1 DEF queue_key
<1>4. /\ Len(queued') = w + 1 /\ queued'[w + 1] = item
      /\ \A i \in 1 .. w : queued'[i] = st[i]
  BY <1>2, <1>3, AppendProperties
<1>5. ASSUME NEW i \in 0 .. w, i + N >= w + 1
      PROVE  s_key_queue'[i % N] = EventOf(queued'[i + 1].byte)
  <2>1. i \in Nat /\ i % N \in 0 .. N - 1 /\ w % N \in 0 .. N - 1  BY <1>2, DivMod
  <2>2. CASE i = w
    BY <1>1, <1>2, <1>3, <1>4, <2>1, <2>2
  <2>3. CASE i < w
    <3>1. i < w /\ w < i + N  BY <1>2, <1>5, <2>1, <2>3
    <3>2. i % N # w % N  BY <1>2, <2>1, <3>1, SlotsDiffer
    <3>3. s_key_queue'[i % N] = q[i % N]  BY <1>2, <1>3, <2>1, <3>2
    <3>4. q[i % N] = EventOf(st[i + 1].byte)
      <4>1. i \in 0 .. w - 1 /\ i + N >= w  BY <1>2, <1>5, <2>1, <2>3
      <4> QED  BY <1>1, <4>1 DEF RingHoldsLatest
    <3>5. queued'[i + 1] = st[i + 1]
      <4>1. i + 1 \in 1 .. w  BY <1>2, <2>1, <2>3
      <4> QED  BY <1>4, <4>1
    <3> QED  BY <3>3, <3>4, <3>5
  <2> QED  BY <1>2, <2>1, <2>2, <2>3
<1>6. s_key_read' <= s_key_write' /\ s_key_write' = Len(queued')
  BY <1>2, <1>3, <1>4
<1>7. s_key_write' - 1 = w  BY <1>2, <1>3
<1> QED  BY <1>1, <1>3, <1>5, <1>6, <1>7 DEF RingHoldsLatest

\* A function on 1 .. n is a sequence of length n.
LEMMA FunctionIsSeq ==
  ASSUME NEW S, NEW n_ \in Nat, NEW f \in [1 .. n_ -> S]
  PROVE  f \in Seq(S) /\ Len(f) = n_
OBVIOUS

KeyEvents == 0 .. 511

\* The events behind position r, as a sequence.
EventsAfter(st, r, w) == [i \in 1 .. w - r |-> EventOf(st[r + i].byte)]

LEMMA WaitingIs ==
  ASSUME NEW st \in Seq(Item), NEW r \in Nat, NEW w \in Nat, r <= w, w = Len(st)
  PROVE  /\ EventsAfter(st, r, w) \in Seq(KeyEvents) /\ Len(EventsAfter(st, r, w)) = w - r
         /\ \A i \in 1 .. w - r : EventsAfter(st, r, w)[i] = EventOf(st[r + i].byte)
<1>0. PICK win : win = EventsAfter(st, r, w)  OBVIOUS
<1>1. PICK k : k = w - r /\ k \in Nat  OBVIOUS
<1>2. ASSUME NEW i \in 1 .. k  PROVE EventOf(st[r + i].byte) \in KeyEvents
  <2>1. r + i \in 1 .. Len(st)  BY <1>1
  <2>2. st[r + i] \in Item  BY <2>1, ElementOfSeq
  <2>3. st[r + i].byte \in 0 .. 255  BY <2>2 DEF Item
  <2> QED  BY <2>3, EventTyped DEF KeyEvents
<1>3. win = [i \in 1 .. k |-> EventOf(st[r + i].byte)]  BY <1>0, <1>1 DEF EventsAfter
<1>4. win \in [1 .. k -> KeyEvents]
  <2>1. ASSUME NEW i \in 1 .. k  PROVE win[i] \in KeyEvents
    <3>1. win[i] = EventOf(st[r + i].byte)  BY <1>3
    <3>2. EventOf(st[r + i].byte) \in KeyEvents  BY <1>2
    <3> QED  BY <3>1, <3>2
  <2>2. win = [i \in 1 .. k |-> win[i]]  BY <1>3
  <2> QED  BY <2>1, <2>2
<1>5. win \in Seq(KeyEvents) /\ Len(win) = k  BY <1>1, <1>4, FunctionIsSeq
<1> QED  BY <1>0, <1>1, <1>3, <1>5

\* Two sequences of one length with the same elements are equal.
LEMMA SameSeq ==
  ASSUME NEW S, NEW u \in Seq(S), NEW v \in Seq(S), Len(u) = Len(v),
         \A i \in 1 .. Len(u) : u[i] = v[i]
  PROVE  u = v
OBVIOUS

LEMMA QueueIsAccept ==
  ASSUME QueueTyped, RingHoldsLatest, NEW item \in Item, queue_key(item)
  PROVE  EventFifo!Accept
<1>1. PICK w, r, st, e, nst : /\ w = s_key_write /\ r = s_key_read /\ st = queued
                              /\ e = EventOf(item.byte) /\ nst = queued'
  OBVIOUS
<1>2. /\ w \in Nat /\ r \in Nat /\ r <= w /\ w = Len(st) /\ st \in Seq(Item)
      /\ s_key_write' = w + 1 /\ s_key_read' = r /\ nst = Append(st, item)
      /\ event' = event
  BY <1>1 DEF QueueTyped, RingHoldsLatest, queue_key
<1>3. e \in KeyEvents
  <2>1. item.byte \in 0 .. 255  BY DEF Item
  <2> QED  BY <1>1, <2>1, EventTyped DEF KeyEvents
<1>4. PICK u, v : u = EventsWaiting /\ v = EventsWaiting'  OBVIOUS
<1>5. /\ u \in Seq(KeyEvents) /\ Len(u) = w - r
      /\ \A i \in 1 .. w - r : u[i] = EventOf(st[r + i].byte)
  <2>1. u = EventsAfter(st, r, w)
    BY <1>1, <1>4 DEF EventsWaiting, EventsAfter
  <2>2. /\ EventsAfter(st, r, w) \in Seq(KeyEvents)
        /\ Len(EventsAfter(st, r, w)) = w - r
        /\ \A i \in 1 .. w - r :
                EventsAfter(st, r, w)[i] = EventOf(st[r + i].byte)
      BY <1>2, WaitingIs
  <2> QED  BY <2>1, <2>2
<1>6. /\ nst \in Seq(Item) /\ Len(nst) = w + 1 /\ nst[w + 1] = item
      /\ \A i \in 1 .. w : nst[i] = st[i]
  BY <1>2, AppendProperties
<1>7. /\ v \in Seq(KeyEvents) /\ Len(v) = w + 1 - r
      /\ \A i \in 1 .. w + 1 - r : v[i] = EventOf(nst[r + i].byte)
  <2>1. v = EventsAfter(nst, r, w + 1)
    <3>1. EventsWaiting' = EventsAfter(queued', s_key_read', s_key_write')
      BY DEF EventsWaiting, EventsAfter
    <3> QED  BY <1>1, <1>2, <1>4, <3>1
  <2>2. PICK nw : nw = w + 1  OBVIOUS
  <2>3. nw \in Nat /\ r <= nw /\ nw = Len(nst) /\ r \in Nat /\ nst \in Seq(Item)
    BY <1>2, <1>6, <2>2
  <2>4. PICK x : x = EventsAfter(nst, r, nw)  OBVIOUS
  <2>5. /\ EventsAfter(nst, r, nw) \in Seq(KeyEvents)
        /\ Len(EventsAfter(nst, r, nw)) = nw - r
        /\ \A i \in 1 .. nw - r : EventsAfter(nst, r, nw)[i] = EventOf(nst[r + i].byte)
    BY <2>3, WaitingIs
  <2>6. v = x  BY <2>1, <2>2, <2>4
  <2>7. /\ v \in Seq(KeyEvents) /\ Len(v) = nw - r
        /\ \A i \in 1 .. nw - r : v[i] = EventOf(nst[r + i].byte)
    BY <2>4, <2>5, <2>6
  <2>8. w + 1 - r = nw - r /\ nw - r \in Int  BY <1>2, <2>2
  <2>9. Len(v) = w + 1 - r  BY <2>7, <2>8
  <2>10. \A i \in 1 .. w + 1 - r : v[i] = EventOf(nst[r + i].byte)
    <3> SUFFICES ASSUME NEW i \in 1 .. w + 1 - r  PROVE v[i] = EventOf(nst[r + i].byte)
      OBVIOUS
    <3>1. i \in 1 .. nw - r  BY <2>8
    <3> QED  BY <2>7, <3>1
  <2> QED  BY <2>7, <2>9, <2>10
<1>8. v = Append(u, e)
  <2>1. PICK g : g = Append(u, e)  OBVIOUS
  <2>2. /\ g \in Seq(KeyEvents) /\ Len(g) = w - r + 1 /\ g[w - r + 1] = e
        /\ \A i \in 1 .. w - r : g[i] = u[i]
    BY <1>2, <1>3, <1>5, <2>1, AppendProperties
  <2>3. ASSUME NEW i \in 1 .. Len(v)  PROVE v[i] = g[i]
    <3>1. i \in 1 .. w + 1 - r  BY <1>7
    <3>2. CASE i = w - r + 1
      <4>1. r + i = w + 1  BY <1>2, <3>2
      <4> QED  BY <1>1, <1>6, <1>7, <2>2, <3>1, <3>2, <4>1
    <3>3. CASE i # w - r + 1
      <4>1. i \in 1 .. w - r /\ r + i \in 1 .. w  BY <1>2, <3>1, <3>3
      <4> QED  BY <1>5, <1>6, <1>7, <2>2, <3>1, <4>1
    <3> QED  BY <3>2, <3>3
  <2>4. Len(v) = Len(g)  BY <1>2, <1>7, <2>2
  <2> QED  BY <1>7, <2>1, <2>2, <2>3, <2>4, SameSeq
<1>9. Len(v) > Len(u)  BY <1>2, <1>5, <1>7
<1> QED  BY <1>2, <1>3, <1>4, <1>8, <1>9 DEF EventFifo!Accept, KeyEvents

LEMMA GetIsTake ==
  ASSUME QueueTyped, RingHoldsLatest, QueueTyped', DG_GetKey
  PROVE  RingHoldsLatest' /\ [EventFifo!Next]_EventFifo!vars
<1>1. PICK w, r, st, N : /\ w = s_key_write /\ r = s_key_read /\ st = queued
                         /\ N = KEYQUEUE_SIZE
  OBVIOUS
<1>2. /\ w \in Nat /\ r \in Nat /\ r <= w /\ w = Len(st) /\ st \in Seq(Item)
      /\ s_key_write' = w /\ queued' = st /\ s_key_queue' = s_key_queue
      /\ N \in Nat \ {0} /\ event' \in 0 .. 511
  BY <1>1, DoomSizes DEF QueueTyped, RingHoldsLatest, DG_GetKey
<1>3. CASE UNCHANGED <<event, s_key_read>>
  BY <1>2, <1>1, <1>3 DEF RingHoldsLatest, EventFifo!vars, EventsWaiting
<1>4. CASE /\ r # w /\ event' = s_key_queue[r % N] /\ s_key_read' = r + 1
  <2>1. RingHoldsLatest'
    <3>1. s_key_read' <= s_key_write'  BY <1>2, <1>4
    <3> QED  BY <1>1, <1>2, <3>1 DEF RingHoldsLatest
  <2>2. PICK u, v : u = EventsWaiting /\ v = EventsWaiting'  OBVIOUS
  <2>3. /\ u \in Seq(KeyEvents) /\ Len(u) = w - r
        /\ \A i \in 1 .. w - r : u[i] = EventOf(st[r + i].byte)
    <3>1. u = EventsAfter(st, r, w)
      BY <1>1, <2>2 DEF EventsWaiting, EventsAfter
    <3>2. /\ EventsAfter(st, r, w) \in Seq(KeyEvents)
          /\ Len(EventsAfter(st, r, w)) = w - r
          /\ \A i \in 1 .. w - r :
                EventsAfter(st, r, w)[i] = EventOf(st[r + i].byte)
      BY <1>2, WaitingIs
    <3> QED  BY <3>1, <3>2
  <2>4. PICK m : m = r + 1  OBVIOUS
  <2>5. m \in Nat /\ m <= w  BY <1>2, <1>4, <2>4
  <2>6. /\ v \in Seq(KeyEvents) /\ Len(v) = w - m
        /\ \A i \in 1 .. w - m : v[i] = EventOf(st[m + i].byte)
    <3>1. v = EventsAfter(st, m, w)
      <4>1. EventsWaiting' = EventsAfter(queued', s_key_read', s_key_write')
        BY DEF EventsWaiting, EventsAfter
      <4> QED  BY <1>2, <1>4, <2>2, <2>4, <4>1
    <3>2. /\ EventsAfter(st, m, w) \in Seq(KeyEvents)
          /\ Len(EventsAfter(st, m, w)) = w - m
          /\ \A i \in 1 .. w - m :
                EventsAfter(st, m, w)[i] = EventOf(st[m + i].byte)
      BY <1>2, <2>5, WaitingIs
    <3> QED  BY <3>1, <3>2
  <2>7. Len(u) > 0 /\ u # <<>>
    <3>1. Len(<<>>) = 0  OBVIOUS
    <3>2. Len(u) > 0  BY <1>2, <2>3, <2>4, <2>5
    <3> QED  BY <3>1, <3>2
  <2>8. v = Tail(u)
    <3>1. /\ Tail(u) \in Seq(KeyEvents) /\ Len(Tail(u)) = Len(u) - 1
          /\ \A i \in 1 .. Len(u) - 1 : Tail(u)[i] = u[i + 1]
      BY <2>3, <2>7, HeadTailProperties
    <3>4. PICK lu, lv : lu = Len(u) /\ lv = Len(v)  OBVIOUS
    <3>5. /\ w \in Nat /\ r \in Nat /\ m = r + 1 /\ m <= w
          /\ lu = w - r /\ lv = w - m
      BY <1>2, <2>3, <2>4, <2>5, <2>6, <3>4
    <3>6. lv = lu - 1  BY <3>5
    <3>2. ASSUME NEW i \in 1 .. Len(v)  PROVE v[i] = Tail(u)[i]
      <4>1. i \in 1 .. w - m  BY <3>4, <3>5
      <4>2. i \in 1 .. lu - 1 /\ i + 1 \in 1 .. w - r /\ m + i = r + (i + 1)
        BY <3>5, <4>1
      <4>3. v[i] = EventOf(st[m + i].byte)  BY <2>6, <4>1
      <4>4. u[i + 1] = EventOf(st[r + (i + 1)].byte)  BY <2>3, <4>2
      <4>5. Tail(u)[i] = u[i + 1]  BY <3>1, <3>4, <4>2
      <4> QED  BY <4>2, <4>3, <4>4, <4>5
    <3>3. Len(v) = Len(Tail(u))  BY <3>1, <3>4, <3>6
    <3> QED  BY <2>6, <3>1, <3>2, <3>3, SameSeq
  <2>9. ASSUME Len(u) <= N  PROVE event' = Head(u)
    <3>1. r \in 0 .. w - 1 /\ r + N >= w  BY <1>2, <2>3, <2>4, <2>5, <2>9
    <3>2. s_key_queue[r % N] = EventOf(st[r + 1].byte)
      BY <1>1, <3>1 DEF RingHoldsLatest
    <3>3. Head(u) = u[1] /\ 1 \in 1 .. w - r
      BY <1>2, <2>3, <2>4, <2>5, <2>7, HeadTailProperties
    <3> QED  BY <1>4, <2>3, <3>2, <3>3
  <2>10. EventFifo!Take
    BY <1>1, <1>2, <2>2, <2>7, <2>8, <2>9 DEF EventFifo!Take
  <2> QED  BY <2>1, <2>10 DEF EventFifo!Next
<1> QED  BY <1>1, <1>2, <1>3, <1>4 DEF DG_GetKey

RingInv == PortTyped /\ QueueTyped /\ RingHoldsLatest

LEMMA RingStart ==
  ASSUME Init
  PROVE  RingInv /\ EventFifo!Init
<1>1. /\ port = <<>> /\ sent = 0 /\ taken = {}
      /\ dataReg = [aux |-> FALSE, byte |-> 0, seq |-> 0]
      /\ s_key_queue = [i \in 0 .. KEYQUEUE_SIZE - 1 |-> 0]
      /\ s_key_write = 0 /\ s_key_read = 0 /\ event = 0 /\ queued = <<>>
  BY DEF Init, PortInit, DoomInit
<1>2. <<>> \in Seq(Item) /\ Len(<<>>) = 0  OBVIOUS
<1>3. dataReg \in Item  BY <1>1 DEF Item
<1>4. PortTyped  BY <1>1, <1>2, <1>3 DEF PortTyped
<1>5. QueueTyped  BY <1>1, <1>2 DEF QueueTyped
<1>6. RingHoldsLatest  BY <1>1, <1>2 DEF RingHoldsLatest
<1>7. EventsWaiting = <<>>
  <2>1. 1 .. s_key_write - s_key_read = {}  BY <1>1
  <2> QED  BY <2>1 DEF EventsWaiting
<1> QED  BY <1>1, <1>4, <1>5, <1>6, <1>7 DEF RingInv, EventFifo!Init

LEMMA RingStep ==
  ASSUME RingInv, [Next]_vars
  PROVE  RingInv' /\ [EventFifo!Next]_EventFifo!vars
<1>1. PortTyped /\ QueueTyped /\ RingHoldsLatest  BY DEF RingInv
<1>2. PortTyped'  BY <1>1, PortSteps, PortTypedStep
<1>3. QueueTyped'  BY <1>1, QueueTypedStep
<1>4. CASE queue_key(InData)
  BY <1>1, <1>2, <1>3, <1>4, ReadTyped, QueueKeepsRing, QueueIsAccept
     DEF RingInv, EventFifo!Next
<1>5. CASE DG_GetKey
  BY <1>1, <1>2, <1>3, <1>5, GetIsTake DEF RingInv
<1>6. CASE UNCHANGED queueVars
  BY <1>1, <1>2, <1>3, <1>6 DEF queueVars, RingInv, RingHoldsLatest, EventFifo!vars,
     EventsWaiting
<1> QED  BY <1>4, <1>5, <1>6, RingSteps

\* The ring of the port, which never looks whether it has room, is the queue
\* of key events as long as it is not overrun.
THEOREM EventsCorrect == Spec => EventsImplementFifo
<1>1. Init => RingInv /\ EventFifo!Init  BY RingStart
<1>2. RingInv /\ [Next]_vars => RingInv' /\ [EventFifo!Next]_EventFifo!vars
  BY RingStep
<1> QED  BY <1>1, <1>2, PTL DEF Spec, EventsImplementFifo, EventFifo!Spec

-----------------------------------------------------------------------------
(* Where the bytes of the devices are. *)

\* Among the items of a sequence, or of a set, is the byte sent as number m.
InSeq(items, m) == \E i \in 1 .. Len(items) : items[i].seq = m
InSet(items, m) == \E item \in items : item.seq = m

\* The controller holds the bytes sent last; the ones before them, gone of
\* them, were queued or taken, each once, those queued in order.
Numbered ==
  /\ Len(port) <= sent
  /\ \A i \in 1 .. Len(port) : port[i].seq = sent - Len(port) + i

Distributed(gone) ==
  /\ IsFiniteSet(taken) /\ Len(queued) + Cardinality(taken) = gone
  /\ \A i \in 1 .. Len(queued) : queued[i].seq \in 1 .. gone
  /\ \A item \in taken : item.seq \in 1 .. gone
  /\ \A m \in 1 .. gone : InSeq(queued, m) \/ InSet(taken, m)
  /\ \A i, j \in 1 .. Len(queued) : i < j => queued[i].seq < queued[j].seq

BytesInv ==
  program = "doom" =>
    /\ Numbered
    /\ pc = "data" /\ ~raced => port # <<>>
    /\ ~raced => \E g \in Nat : g = sent - Len(port) /\ Distributed(g)

\* The byte at the head is queued.
LEMMA QueuedOne ==
  ASSUME PortTyped, QueueTyped, NEW g \in Nat, Distributed(g), NEW item \in Item, item.seq = g + 1,
         queued' = Append(queued, item), taken' = taken
  PROVE  Distributed(g + 1)'
<1>1. /\ queued \in Seq(Item) /\ Len(queued) \in Nat
      /\ Cardinality(taken) \in Nat
  <2>1. queued \in Seq(Item)  BY DEF QueueTyped
  <2>2. Len(queued) \in Nat  BY <2>1, LenProperties
  <2>3. IsFiniteSet(taken)  BY DEF Distributed
  <2> QED  BY <2>1, <2>2, <2>3, FS_CardinalityType
<1>2. PICK k, nq : k = Len(queued) /\ nq = queued'  OBVIOUS
<1>3. /\ nq \in Seq(Item) /\ Len(nq) = k + 1 /\ nq[k + 1] = item
      /\ \A i \in 1 .. k : nq[i] = queued[i]
  BY <1>1, <1>2, AppendProperties
<1>4. /\ IsFiniteSet(taken) /\ k + Cardinality(taken) = g
      /\ \A i \in 1 .. k : queued[i].seq \in 1 .. g
      /\ \A x \in taken : x.seq \in 1 .. g
      /\ \A m \in 1 .. g : InSeq(queued, m) \/ InSet(taken, m)
      /\ \A i, j \in 1 .. k : i < j => queued[i].seq < queued[j].seq
  BY <1>2 DEF Distributed
<1>5. ASSUME NEW i \in 1 .. k + 1
      PROVE  i \in 1 .. k \/ i = k + 1
  BY <1>1, <1>2
<1>6. ASSUME NEW i \in 1 .. k + 1  PROVE nq[i].seq \in 1 .. g + 1
  BY <1>1, <1>3, <1>4, <1>5
<1>7. ASSUME NEW m \in 1 .. g + 1  PROVE InSeq(nq, m) \/ InSet(taken, m)
  <2>1. CASE m = g + 1
    <3>1. k + 1 \in 1 .. Len(nq)  BY <1>1, <1>2, <1>3
    <3> QED  BY <1>3, <2>1, <3>1 DEF InSeq
  <2>2. CASE m \in 1 .. g
    <3>1. CASE InSet(taken, m)  BY <3>1
    <3>2. CASE InSeq(queued, m)
      <4>1. PICK i \in 1 .. k : queued[i].seq = m  BY <1>2, <3>2 DEF InSeq
      <4>2. i \in 1 .. Len(nq) /\ nq[i].seq = m  BY <1>1, <1>2, <1>3, <4>1
      <4> QED  BY <4>2 DEF InSeq
    <3> QED  BY <1>4, <2>2, <3>1, <3>2
  <2> QED  BY <1>1, <2>1, <2>2
<1>8. ASSUME NEW i \in 1 .. k + 1, NEW j \in 1 .. k + 1, i < j
      PROVE  nq[i].seq < nq[j].seq
  <2>1. i \in 1 .. k  BY <1>1, <1>2, <1>8
  <2>2. CASE j = k + 1
    <3>1. nq[i].seq \in 1 .. g /\ nq[j].seq = g + 1  BY <1>3, <1>4, <2>1, <2>2
    <3> QED  BY <1>1, <3>1
  <2>3. CASE j \in 1 .. k
    BY <1>3, <1>4, <1>8, <2>1, <2>3
  <2> QED  BY <1>5, <2>2, <2>3
<1>9. \A x \in taken : x.seq \in 1 .. g + 1  BY <1>1, <1>4
<1>10. Len(nq) + Cardinality(taken) = g + 1
  <2>1. PICK c : c = Cardinality(taken)  OBVIOUS
  <2>2. c \in Nat /\ k \in Nat /\ k + c = g /\ Len(nq) = k + 1
    BY <1>1, <1>2, <1>3, <1>4, <2>1
  <2>3. (k + 1) + c = g + 1  BY <2>2
  <2> QED  BY <2>1, <2>2, <2>3
<1> QED
  BY <1>2, <1>3, <1>4, <1>6, <1>7, <1>8, <1>9, <1>10 DEF Distributed

\* The byte at the head is taken by a handler.
LEMMA TakenOne ==
  ASSUME PortTyped, QueueTyped, NEW g \in Nat, Distributed(g), NEW item \in Item, item.seq = g + 1,
         queued' = queued, taken' = taken \cup {item}
  PROVE  Distributed(g + 1)'
<1>1. /\ queued \in Seq(Item) /\ Len(queued) \in Nat
      /\ Cardinality(taken) \in Nat
  <2>1. queued \in Seq(Item)  BY DEF QueueTyped
  <2>2. Len(queued) \in Nat  BY <2>1, LenProperties
  <2>3. IsFiniteSet(taken)  BY DEF Distributed
  <2> QED  BY <2>1, <2>2, <2>3, FS_CardinalityType
<1>2. /\ IsFiniteSet(taken) /\ Len(queued) + Cardinality(taken) = g
      /\ \A i \in 1 .. Len(queued) : queued[i].seq \in 1 .. g
      /\ \A x \in taken : x.seq \in 1 .. g
      /\ \A m \in 1 .. g : InSeq(queued, m) \/ InSet(taken, m)
      /\ \A i, j \in 1 .. Len(queued) : i < j => queued[i].seq < queued[j].seq
  BY DEF Distributed
<1>3. item \notin taken  BY <1>1, <1>2
<1>4. /\ IsFiniteSet(taken') /\ Cardinality(taken') = Cardinality(taken) + 1
  BY <1>2, <1>3, FS_AddElement
<1>5. \A i \in 1 .. Len(queued) : queued[i].seq \in 1 .. g + 1  BY <1>1, <1>2
<1>6. \A x \in taken' : x.seq \in 1 .. g + 1  BY <1>1, <1>2
<1>7. ASSUME NEW m \in 1 .. g + 1  PROVE InSeq(queued, m) \/ InSet(taken', m)
  <2>1. CASE m = g + 1  BY <2>1 DEF InSet
  <2>2. CASE m \in 1 .. g
    <3>1. InSet(taken, m) => InSet(taken', m)  BY DEF InSet
    <3> QED  BY <1>2, <2>2, <3>1
  <2> QED  BY <1>1, <2>1, <2>2
<1>8. Len(queued) + Cardinality(taken') = g + 1  BY <1>1, <1>2, <1>4
<1> QED  BY <1>2, <1>4, <1>5, <1>6, <1>7, <1>8 DEF Distributed

\* The head leaves the controller.
LEMMA HeadLeaves ==
  ASSUME PortTyped, Numbered, port # <<>>, port' = AfterRead, sent' = sent
  PROVE  /\ Numbered' /\ InData \in Item
         /\ InData.seq = (sent - Len(port)) + 1
         /\ sent' - Len(port') = (sent - Len(port)) + 1
<1>1. /\ Len(port) \in Nat /\ Len(port) > 0 /\ sent \in Nat
      /\ InData = port[1] /\ port[1] \in Item
      /\ port' = Tail(port) /\ Len(port') = Len(port) - 1
      /\ \A i \in 1 .. Len(port) - 1 : port'[i] = port[i + 1]
  BY PortEnds DEF InData, AfterRead, PortTyped
<1>2. Len(port) <= sent /\ \A i \in 1 .. Len(port) : port[i].seq = sent - Len(port) + i
  BY DEF Numbered
<1>3. 1 \in 1 .. Len(port)  BY <1>1
<1>4. InData.seq = (sent - Len(port)) + 1  BY <1>1, <1>2, <1>3
<1>5. ASSUME NEW i \in 1 .. Len(port')
      PROVE  port'[i].seq = sent' - Len(port') + i
  <2>1. i \in 1 .. Len(port) - 1 /\ i + 1 \in 1 .. Len(port)  BY <1>1
  <2>2. port'[i].seq = sent - Len(port) + (i + 1)  BY <1>1, <1>2, <2>1
  <2> QED  BY <1>1, <2>1, <2>2
<1>6. Len(port') <= sent' /\ sent' - Len(port') = (sent - Len(port)) + 1
  BY <1>1, <1>2
<1> QED  BY <1>1, <1>4, <1>5, <1>6 DEF Numbered

\* A byte arrives.
LEMMA SendNumbers ==
  ASSUME PortTyped, Numbered, NEW aux \in BOOLEAN, NEW b \in 0 .. 255, Send(aux, b)
  PROVE  Numbered' /\ sent' - Len(port') = sent - Len(port) /\ port' # <<>>
<1>1. PICK item, p : /\ item = [aux |-> aux, byte |-> b, seq |-> sent + 1] /\ p = port
  OBVIOUS
<1>2. /\ p \in Seq(Item) /\ sent \in Nat /\ Len(p) \in Nat /\ Len(p) <= sent
      /\ \A i \in 1 .. Len(p) : p[i].seq = sent - Len(p) + i
      /\ port' = Append(p, item) /\ sent' = sent + 1
  BY <1>1, LenProperties DEF PortTyped, Numbered, Send
<1>3. item \in Item /\ item.seq = sent + 1  BY <1>1, <1>2 DEF Item
<1>4. /\ Len(port') = Len(p) + 1 /\ port'[Len(p) + 1] = item
      /\ \A i \in 1 .. Len(p) : port'[i] = p[i]
  BY <1>2, <1>3, AppendProperties
<1>5. ASSUME NEW i \in 1 .. Len(port')  PROVE port'[i].seq = sent' - Len(port') + i
  <2>1. CASE i = Len(p) + 1
    <3>1. port'[i].seq = sent + 1  BY <1>3, <1>4, <2>1
    <3> QED  BY <1>2, <1>4, <2>1, <3>1
  <2>2. CASE i \in 1 .. Len(p)
    <3>1. port'[i].seq = sent - Len(p) + i  BY <1>2, <1>4, <2>2
    <3> QED  BY <1>2, <1>4, <2>2, <3>1
  <2> QED  BY <1>2, <1>4, <2>1, <2>2
<1>6. Len(port') <= sent' /\ sent' - Len(port') = sent - Len(p)  BY <1>2, <1>4
<1>7. port' # <<>>
  <2>1. Len(<<>>) = 0  OBVIOUS
  <2> QED  BY <1>2, <1>4, <2>1
<1> QED  BY <1>1, <1>5, <1>6, <1>7 DEF Numbered

LEMMA DistributedSame ==
  ASSUME NEW g, Distributed(g), queued' = queued, taken' = taken
  PROVE  Distributed(g)'
BY DEF Distributed

\* Whatever a read finds, the bytes left keep their numbers.
LEMMA ReadNumbers ==
  ASSUME PortTyped, Numbered, port' = AfterRead, sent' = sent
  PROVE  Numbered'
<1>1. CASE port # <<>>  BY <1>1, HeadLeaves
<1>2. CASE port = <<>>
  <2>1. Len(<<>>) = 0  OBVIOUS
  <2>2. port' = <<>> /\ sent \in Nat  BY <1>2 DEF AfterRead, PortTyped
  <2> QED  BY <2>1, <2>2 DEF Numbered
<1> QED  BY <1>1, <1>2

\* A step that leaves the bytes where they are.
LEMMA BytesKept ==
  ASSUME BytesInv, program' = program, port' = port, sent' = sent,
         queued' = queued, taken' = taken, raced' = raced,
         pc' = "data" => pc = "data" \/ port # <<>>
  PROVE  BytesInv'
<1>1. SUFFICES ASSUME program = "doom"  PROVE BytesInv'
  BY DEF BytesInv
<1>2. /\ Numbered
      /\ pc = "data" /\ ~raced => port # <<>>
      /\ ~raced => \E g \in Nat : g = sent - Len(port) /\ Distributed(g)
  BY <1>1 DEF BytesInv
<1>3. Numbered'  BY <1>2 DEF Numbered
<1>4. pc' = "data" /\ ~raced' => port' # <<>>  BY <1>2
<1>5. ASSUME ~raced'  PROVE \E g \in Nat : g = sent' - Len(port') /\ Distributed(g)'
  <2>1. PICK g \in Nat : g = sent - Len(port) /\ Distributed(g)  BY <1>2, <1>5
  <2>2. Distributed(g)'  BY <2>1, DistributedSame
  <2> QED  BY <2>1, <2>2
<1> QED  BY <1>3, <1>4, <1>5 DEF BytesInv

LEMMA BytesPolled ==
  ASSUME RingInv, BytesInv, program = "doom", program' = program, PollData
  PROVE  BytesInv'
<1>1. PortTyped /\ QueueTyped  BY DEF RingInv
<1>2. /\ pc = "data" /\ pc' = "status" /\ raced' = raced
      /\ port' = AfterRead /\ sent' = sent /\ taken' = taken
      /\ queued' = Append(queued, InData)
  BY DEF PollData, ProgramReads, queue_key
<1>3. /\ Numbered
      /\ ~raced => port # <<>>
      /\ ~raced => \E g \in Nat : g = sent - Len(port) /\ Distributed(g)
  BY <1>2 DEF BytesInv
<1>4. Numbered'  BY <1>1, <1>2, <1>3, ReadNumbers
<1>5. ASSUME ~raced'  PROVE \E g \in Nat : g = sent' - Len(port') /\ Distributed(g)'
  <2>1. PICK g \in Nat : g = sent - Len(port) /\ Distributed(g)  BY <1>2, <1>3, <1>5
  <2>2. PICK item : item = InData  OBVIOUS
  <2>3. item \in Item /\ item.seq = g + 1 /\ sent' - Len(port') = g + 1
    BY <1>1, <1>2, <1>3, <1>5, <2>1, <2>2, HeadLeaves
  <2>4. Distributed(g + 1)'  BY <1>1, <1>2, <2>1, <2>2, <2>3, QueuedOne
  <2>5. g + 1 \in Nat  OBVIOUS
  <2> QED  BY <2>3, <2>4, <2>5
<1>6. pc' # "data"  BY <1>2
<1> QED  BY <1>4, <1>5, <1>6 DEF BytesInv

LEMMA BytesTaken ==
  ASSUME RingInv, BytesInv, program = "doom", program' = program, DoomInterrupted
  PROVE  BytesInv'
<1>1. PortTyped /\ QueueTyped  BY DEF RingInv
<1>2. /\ pc' = pc /\ raced' = (raced \/ pc = "data")
      /\ port' = AfterRead /\ sent' = sent /\ queued' = queued
      /\ taken' = IF port = <<>> THEN taken ELSE taken \cup {InData}
  BY DEF DoomInterrupted, KernelTakes, queueVars
<1>3. /\ Numbered
      /\ ~raced => \E g \in Nat : g = sent - Len(port) /\ Distributed(g)
  BY DEF BytesInv
<1>4. Numbered'  BY <1>1, <1>2, <1>3, ReadNumbers
<1>5. ~(pc' = "data" /\ ~raced')  BY <1>2
<1>6. ASSUME ~raced'  PROVE \E g \in Nat : g = sent' - Len(port') /\ Distributed(g)'
  <2>0. ~raced  BY <1>2, <1>6
  <2>1. PICK g \in Nat : g = sent - Len(port) /\ Distributed(g)  BY <1>3, <2>0
  <2>2. CASE port = <<>>
    <3>1. port' = port /\ taken' = taken  BY <1>2, <2>2 DEF AfterRead
    <3>2. Distributed(g)'  BY <1>2, <2>1, <3>1, DistributedSame
    <3> QED  BY <1>2, <2>1, <3>1, <3>2
  <2>3. CASE port # <<>>
    <3>1. PICK item : item = InData  OBVIOUS
    <3>2. item \in Item /\ item.seq = g + 1 /\ sent' - Len(port') = g + 1
      BY <1>1, <1>2, <1>3, <2>1, <2>3, <3>1, HeadLeaves
    <3>3. taken' = taken \cup {item}  BY <1>2, <2>3, <3>1
    <3>4. Distributed(g + 1)'  BY <1>1, <1>2, <2>1, <3>2, <3>3, TakenOne
    <3>5. g + 1 \in Nat  OBVIOUS
    <3> QED  BY <3>2, <3>4, <3>5
  <2> QED  BY <2>2, <2>3
<1> QED  BY <1>4, <1>5, <1>6 DEF BytesInv

LEMMA BytesSent ==
  ASSUME RingInv, BytesInv, program = "doom", program' = program, DoomSends
  PROVE  BytesInv'
<1>1. PortTyped  BY DEF RingInv
<1>2. /\ pc' = pc /\ raced' = raced /\ queued' = queued /\ DeviceSends
  BY DEF DoomSends, doomVars
<1>3. PICK aux \in BOOLEAN, b \in 0 .. 255 : Send(aux, b)
  <2>1. TRUE \in BOOLEAN /\ FALSE \in BOOLEAN  OBVIOUS
  <2>2. KeyBytes \subseteq 0 .. 255 /\ AuxBytes \subseteq 0 .. 255  BY PortBytes
  <2> QED  BY <1>2, <2>1, <2>2 DEF DeviceSends
<1>4. taken' = taken  BY <1>3 DEF Send
<1>5. /\ Numbered
      /\ ~raced => \E g \in Nat : g = sent - Len(port) /\ Distributed(g)
  BY DEF BytesInv
<1>6. Numbered' /\ sent' - Len(port') = sent - Len(port) /\ port' # <<>>
  BY <1>1, <1>3, <1>5, SendNumbers
<1>7. ASSUME ~raced'  PROVE \E g \in Nat : g = sent' - Len(port') /\ Distributed(g)'
  <2>1. PICK g \in Nat : g = sent - Len(port) /\ Distributed(g)  BY <1>2, <1>5, <1>7
  <2>2. Distributed(g)'  BY <1>2, <1>4, <2>1, DistributedSame
  <2> QED  BY <1>6, <2>1, <2>2
<1> QED  BY <1>6, <1>7 DEF BytesInv

LEMMA BytesStep ==
  ASSUME RingInv, BytesInv, [Next]_vars
  PROVE  BytesInv'
<1>1. program' = program  BY PortSteps
<1>2. CASE program # "doom"  BY <1>1, <1>2 DEF BytesInv
<1>3. ASSUME program = "doom", UNCHANGED <<portVars, doomVars>>  PROVE BytesInv'
  BY <1>1, <1>3, BytesKept DEF portVars, doomVars
<1>4. ASSUME program = "doom", DoomNext(fb)  PROVE BytesInv'
  <2>1. CASE PollData  BY <1>1, <1>4, <2>1, BytesPolled
  <2>2. CASE DoomInterrupted  BY <1>1, <1>4, <2>2, BytesTaken
  <2>3. CASE DoomSends  BY <1>1, <1>4, <2>3, BytesSent
  <2>4. CASE PollStatus
    <3>1. UNCHANGED <<portVars, queued, raced>> /\ (pc' = "data" => port # <<>>)
      BY <2>4 DEF PollStatus, StatusFull, queueVars
    <3> QED  BY <1>1, <3>1, BytesKept DEF portVars
  <2>5. CASE DG_SleepMs
    <3>1. UNCHANGED <<portVars, queued, raced>> /\ (pc' = "status" \/ pc' = pc)
      BY <2>5 DEF DG_SleepMs, queueVars
    <3> QED  BY <1>1, <3>1, BytesKept DEF portVars
  <2>6. CASE DoomGame(fb)
    <3>1. UNCHANGED <<portVars, queued, raced>>
      BY <2>6 DEF DoomGame, DG_GetKey, DG_GetTicksMs, DG_DrawFrame, SleepBegins, queueVars
    <3>2. pc' # "data" \/ pc' = pc
      BY <2>6 DEF DoomGame, DG_GetKey, DG_GetTicksMs, DG_DrawFrame, SleepBegins
    <3> QED  BY <1>1, <3>1, <3>2, BytesKept DEF portVars
  <2> QED  BY <1>4, <2>1, <2>2, <2>3, <2>4, <2>5, <2>6 DEF DoomNext, PollStep
<1> QED  BY <1>2, <1>3, <1>4, PortSteps

LEMMA BytesStart ==
  ASSUME Init
  PROVE  BytesInv
<1>1. port = <<>> /\ sent = 0 /\ taken = {} /\ queued = <<>> /\ pc = "game"
  BY DEF Init, PortInit, DoomInit
<1>2. Len(<<>>) = 0  OBVIOUS
<1>3. Numbered  BY <1>1, <1>2 DEF Numbered
<1>4. IsFiniteSet({}) /\ Cardinality({}) = 0  BY FS_EmptySet
<1>5. Distributed(0)
  <2>1. Len(queued) + Cardinality(taken) = 0  BY <1>1, <1>2, <1>4
  <2>2. 1 .. Len(queued) = {}  BY <1>1, <1>2
  <2>3. 1 .. 0 = {}  OBVIOUS
  <2> QED  BY <1>1, <1>4, <2>1, <2>2, <2>3 DEF Distributed
<1>6. 0 = sent - Len(port) /\ 0 \in Nat
  <2>1. Len(port) = 0 /\ sent = 0  BY <1>1, <1>2
  <2>2. 0 - 0 = 0 /\ 0 \in Nat  OBVIOUS
  <2> QED  BY <2>1, <2>2
<1> QED  BY <1>1, <1>3, <1>5, <1>6 DEF BytesInv

LEMMA BytesFromInv ==
  ASSUME RingInv, BytesInv
  PROVE  DoomBytesAccounted
<1>1. SUFFICES ASSUME program = "doom", ~raced
      PROVE /\ Numbers(ItemsOf(port) \cup ItemsOf(queued) \cup taken) = 1 .. sent
            /\ Len(port) + Len(queued) + Cardinality(taken) = sent
            /\ \A i, j \in DOMAIN queued : i < j => queued[i].seq < queued[j].seq
  BY DEF DoomBytesAccounted, BytesAccounted
<1>2. Numbered /\ \E g \in Nat : g = sent - Len(port) /\ Distributed(g)
  BY <1>1 DEF BytesInv
<1>3. PICK g \in Nat : g = sent - Len(port) /\ Distributed(g)  BY <1>2
<1>4. PICK k, held : k = Len(queued) /\ held = Len(port)  OBVIOUS
<1>5. /\ k \in Nat /\ held \in Nat /\ sent \in Nat /\ sent = g + held
      /\ DOMAIN queued = 1 .. k /\ DOMAIN port = 1 .. held
  <2>1. port \in Seq(Item) /\ queued \in Seq(Item) /\ sent \in Nat
    BY DEF RingInv, PortTyped, QueueTyped
  <2>2. k \in Nat /\ held \in Nat /\ DOMAIN queued = 1 .. k /\ DOMAIN port = 1 .. held
    BY <1>4, <2>1, LenProperties
  <2> QED  BY <1>3, <1>4, <2>1, <2>2
<1>6. /\ IsFiniteSet(taken) /\ k + Cardinality(taken) = g
      /\ \A i \in 1 .. k : queued[i].seq \in 1 .. g
      /\ \A x \in taken : x.seq \in 1 .. g
      /\ \A m \in 1 .. g : InSeq(queued, m) \/ InSet(taken, m)
      /\ \A i, j \in 1 .. k : i < j => queued[i].seq < queued[j].seq
  BY <1>3, <1>4 DEF Distributed
<1>7. \A i \in 1 .. held : port[i].seq = g + i
  BY <1>2, <1>3, <1>4 DEF Numbered
<1>8. held + k + Cardinality(taken) = sent
  <2>1. PICK c : c = Cardinality(taken)  OBVIOUS
  <2>2. c \in Nat /\ k + c = g  BY <1>6, <2>1, FS_CardinalityType
  <2>3. held + k + c = sent  BY <1>5, <2>2
  <2> QED  BY <2>1, <2>3
<1>9. ASSUME NEW m \in Numbers(ItemsOf(port) \cup ItemsOf(queued) \cup taken)
      PROVE  m \in 1 .. sent
  <2>1. PICK item \in ItemsOf(port) \cup ItemsOf(queued) \cup taken : m = item.seq
    BY DEF Numbers
  <2>2. CASE item \in ItemsOf(port)
    <3>1. PICK i \in 1 .. held : item = port[i]  BY <1>5, <2>2 DEF ItemsOf
    <3>2. m = g + i  BY <1>7, <2>1, <3>1
    <3> QED  BY <1>5, <3>2
  <2>3. CASE item \in ItemsOf(queued)
    <3>1. PICK i \in 1 .. k : item = queued[i]  BY <1>5, <2>3 DEF ItemsOf
    <3>2. m \in 1 .. g  BY <1>6, <2>1, <3>1
    <3> QED  BY <1>5, <3>2
  <2>4. CASE item \in taken
    <3>1. m \in 1 .. g  BY <1>6, <2>1, <2>4
    <3> QED  BY <1>5, <3>1
  <2> QED  BY <2>1, <2>2, <2>3, <2>4
<1>10. ASSUME NEW m \in 1 .. sent
       PROVE  m \in Numbers(ItemsOf(port) \cup ItemsOf(queued) \cup taken)
  <2>1. SUFFICES \E item \in ItemsOf(port) \cup ItemsOf(queued) \cup taken : item.seq = m
    BY DEF Numbers
  <2>2. CASE m \in 1 .. g
    <3>1. CASE InSeq(queued, m)
      <4>1. PICK i \in 1 .. k : queued[i].seq = m  BY <1>4, <3>1 DEF InSeq
      <4>2. queued[i] \in ItemsOf(queued)  BY <1>5 DEF ItemsOf
      <4> QED  BY <4>1, <4>2
    <3>2. CASE InSet(taken, m)
      BY <3>2 DEF InSet
    <3> QED  BY <1>6, <2>2, <3>1, <3>2
  <2>3. CASE m \notin 1 .. g
    <3>1. PICK i : i = m - g  OBVIOUS
    <3>2. i \in 1 .. held /\ g + i = m  BY <1>5, <2>3, <3>1
    <3>3. port[i] \in ItemsOf(port)  BY <1>5, <3>2 DEF ItemsOf
    <3>4. port[i].seq = m  BY <1>7, <3>2
    <3> QED  BY <3>3, <3>4
  <2> QED  BY <2>2, <2>3
<1>11. Numbers(ItemsOf(port) \cup ItemsOf(queued) \cup taken) = 1 .. sent
  BY <1>9, <1>10
<1> QED  BY <1>4, <1>5, <1>6, <1>8, <1>11

\* Unless a handler runs between the two port reads of poll_ps2, every byte of
\* the devices waits, was queued, or was taken by the kernel, once and in order.
THEOREM BytesCorrect == Spec => []DoomBytesAccounted
<1>1. Init => RingInv /\ BytesInv  BY RingStart, BytesStart
<1>2. RingInv /\ BytesInv /\ [Next]_vars => RingInv' /\ BytesInv'
  BY RingStep, BytesStep
<1>3. RingInv /\ BytesInv => DoomBytesAccounted  BY BytesFromInv
<1> QED  BY <1>1, <1>2, <1>3, PTL DEF Spec

-----------------------------------------------------------------------------
(* The copying routines of the DOOM port's C library. *)

\* What the loops have done to the memory m: the first k bytes, the last of a
\* copy that runs backwards, and the zeros behind a string that is cut or
\* filled up to a length.
Filled(m, dest, c, k) ==
    [a \in Addresses |-> IF a \in Span(dest, k) THEN c ELSE m[a]]
MovedLast(m, dest, src, len, k) ==
    [a \in Addresses |-> IF a \in Span(dest + k, len - k) THEN m[src + a - dest] ELSE m[a]]
Padded(m, dest, src, size, k) ==
    [a \in Addresses |-> IF a \notin Span(dest, k) THEN m[a]
                         ELSE IF a < dest + size THEN m[src + a - dest] ELSE 0]

StringIn(m, a) == \E z \in Addresses : z >= a /\ m[z] = 0

CallTyped ==
    /\ mem \in [Addresses -> Values]
    /\ call \in [routine : {"none", "memset", "memcpy", "memmove", "strcpy", "strcat", "strncpy"},
                 dest : Nat, src : Nat, n : Nat, mem : [Addresses -> Values]]
    /\ op \in {"none", "fill", "forward", "backward", "string", "counted", "pad", "done"}

\* Where the loops are after k bytes, or with k bytes to go.
FillAt(k) ==
    /\ call.routine = "memset" /\ call.src \in Values
    /\ Inside(call.dest, call.n)
    /\ k < call.n /\ n = call.n - k /\ d = call.dest + k /\ s = call.src
    /\ mem = Filled(call.mem, call.dest, call.src, k)

ForwardAt(k) ==
    /\ call.routine \in {"memcpy", "memmove"}
    /\ Inside(call.dest, call.n) /\ Inside(call.src, call.n)
    /\ call.dest < call.src \/ Apart(call.dest, call.n, call.src, call.n)
    /\ k < call.n /\ n = call.n - k /\ d = call.dest + k /\ s = call.src + k
    /\ mem = Moved(call.mem, call.dest, call.src, k)

BackwardAt(k) ==
    /\ call.routine = "memmove" /\ call.src <= call.dest
    /\ Inside(call.dest, call.n) /\ Inside(call.src, call.n)
    /\ 0 < k /\ k <= call.n /\ n = k /\ d = call.dest + k /\ s = call.src + k
    /\ mem = MovedLast(call.mem, call.dest, call.src, call.n, k)

\* Where a string goes, and its length.
Behind(c) == IF c.routine = "strcat" THEN c.dest + strlen(c.mem, c.dest) ELSE c.dest
Size(c) == strlen(c.mem, c.src)

StringAt(k) ==
    /\ call.routine \in {"strcpy", "strcat"}
    /\ StringIn(call.mem, call.src) /\ Behind(call) \in Nat
    /\ Inside(Behind(call), Size(call) + 1)
    /\ Apart(Behind(call), Size(call) + 1, call.src, Size(call) + 1)
    /\ k <= Size(call) /\ d = Behind(call) + k /\ s = call.src + k
    /\ mem = Moved(call.mem, Behind(call), call.src, k)

CutAt(k) ==
    /\ call.routine = "strncpy"
    /\ StringIn(call.mem, call.src)
    /\ Inside(call.dest, call.n)
    /\ Apart(call.dest, call.n, call.src, Size(call) + 1)
    /\ k < call.n /\ n = call.n - k /\ d = call.dest + k

CountedAt(k) ==
    /\ CutAt(k) /\ k <= Size(call) /\ s = call.src + k
    /\ mem = Moved(call.mem, call.dest, call.src, k)

PadAt(k) ==
    /\ CutAt(k) /\ Size(call) <= k
    /\ mem = Padded(call.mem, call.dest, call.src, Size(call), k)

CopyInv ==
    /\ CallTyped
    /\ op = "fill" => \E k \in Nat : FillAt(k)
    /\ op = "forward" => \E k \in Nat : ForwardAt(k)
    /\ op = "backward" => \E k \in Nat : BackwardAt(k)
    /\ op = "string" => \E k \in Nat : StringAt(k)
    /\ op = "counted" => \E k \in Nat : CountedAt(k)
    /\ op = "pad" => \E k \in Nat : PadAt(k)
    /\ CopiesExact

\* A set of natural numbers with a member has a least one.
LEMMA LeastOf ==
  ASSUME NEW T, T \subseteq Nat, T # {}
  PROVE  \E x \in T : \A y \in T : x <= y
<1>1. PICK x \in T : \A y \in T : ~ (<<y, x>> \in OpToRel(<, Nat))
  BY NatLessThanWellFounded, WFMin
<1>2. ASSUME NEW y \in T  PROVE x <= y
  <2>1. x \in Nat /\ y \in Nat  OBVIOUS
  <2>2. ~ (y < x)  BY <1>1, <2>1 DEF OpToRel
  <2> QED  BY <2>1, <2>2
<1> QED  BY <1>2

\* strlen stops at the first zero.
LEMMA StrlenIs ==
  ASSUME NEW m, NEW a \in Nat, StringIn(m, a)
  PROVE  /\ strlen(m, a) \in Nat /\ a + strlen(m, a) \in Addresses
         /\ m[a + strlen(m, a)] = 0
         /\ \A y \in Span(a, strlen(m, a)) : m[y] # 0
<1> DEFINE T == { z \in Addresses : z >= a /\ m[z] = 0 }
<1> DEFINE First(z) == z >= a /\ m[z] = 0 /\ \A y \in Span(a, z - a) : m[y] # 0
<1>0. Addresses \subseteq Nat /\ TopAddress \in Nat  BY LibcMemory DEF Addresses
<1>1. T \subseteq Nat /\ T # {}  BY <1>0 DEF StringIn
<1>2. PICK x \in T : \A y \in T : x <= y
  <2> HIDE DEF T
  <2> QED  BY <1>1, LeastOf
<1>3. x \in Addresses /\ x \in Nat /\ First(x)
  <2>1. x \in Addresses /\ x \in Nat /\ x >= a /\ m[x] = 0  BY <1>0, <1>2
  <2>2. ASSUME NEW y \in Span(a, x - a)  PROVE m[y] # 0
    <3>1. y \in Addresses /\ y >= a /\ y < x
      BY <1>0, <2>1, LibcMemory DEF Span, Addresses
    <3>2. y \notin T
      <4>1. y \in Nat  BY <1>0, <3>1
      <4>2. ~(x <= y)  BY <2>1, <3>1, <4>1
      <4> HIDE DEF T
      <4> QED  BY <1>2, <4>2
    <3> QED  BY <3>1, <3>2
  <2> QED  BY <2>1, <2>2
<1>4. PICK z \in Addresses : First(z) /\ strlen(m, a) = z - a
  <2> HIDE DEF First
  <2>1. strlen(m, a) = (CHOOSE z \in Addresses : First(z)) - a
    BY DEF strlen, First
  <2>2. \E z \in Addresses : First(z)  BY <1>3
  <2>3. (CHOOSE z \in Addresses : First(z)) \in Addresses
        /\ First(CHOOSE z \in Addresses : First(z))
    BY <2>2, Zenon
  <2> QED  BY <2>1, <2>3
<1>5. z \in Nat /\ strlen(m, a) \in Nat /\ a + strlen(m, a) = z  BY <1>0, <1>4
<1> QED  BY <1>4, <1>5

\* One more byte.
LEMMA FillOne ==
  ASSUME NEW m, NEW dest \in Nat, NEW c, NEW k \in Nat, dest + k \in Addresses
  PROVE  [Filled(m, dest, c, k) EXCEPT ![dest + k] = c] = Filled(m, dest, c, k + 1)
<1>1. ASSUME NEW a \in Addresses
      PROVE  a \in Span(dest, k + 1) <=> a = dest + k \/ a \in Span(dest, k)
  BY LibcMemory DEF Span, Addresses
<1> QED  BY <1>1 DEF Filled

LEMMA MoveOne ==
  ASSUME NEW m, NEW dest \in Nat, NEW src \in Nat, NEW k \in Nat, dest + k \in Addresses
  PROVE  [Moved(m, dest, src, k) EXCEPT ![dest + k] = m[src + k]]
            = Moved(m, dest, src, k + 1)
<1>1. ASSUME NEW a \in Addresses
      PROVE  a \in Span(dest, k + 1) <=> a = dest + k \/ a \in Span(dest, k)
  BY LibcMemory DEF Span, Addresses
<1>2. src + (dest + k) - dest = src + k  OBVIOUS
<1> QED  BY <1>1, <1>2 DEF Moved

LEMMA MoveLastOne ==
  ASSUME NEW m, NEW dest \in Nat, NEW src \in Nat, NEW len \in Nat,
         NEW k \in 1 .. len, dest + k - 1 \in Addresses
  PROVE  [MovedLast(m, dest, src, len, k) EXCEPT ![dest + k - 1] = m[src + k - 1]]
            = MovedLast(m, dest, src, len, k - 1)
<1>1. ASSUME NEW a \in Addresses
      PROVE  a \in Span(dest + (k - 1), len - (k - 1))
                <=> a = dest + k - 1 \/ a \in Span(dest + k, len - k)
  BY LibcMemory DEF Span, Addresses
<1>2. src + (dest + k - 1) - dest = src + k - 1  OBVIOUS
<1> QED  BY <1>1, <1>2 DEF MovedLast

LEMMA PadOne ==
  ASSUME NEW m, NEW dest \in Nat, NEW src \in Nat, NEW size \in Nat, NEW k \in Nat,
         size <= k, dest + k \in Addresses
  PROVE  [Padded(m, dest, src, size, k) EXCEPT ![dest + k] = 0]
            = Padded(m, dest, src, size, k + 1)
<1>1. ASSUME NEW a \in Addresses
      PROVE  a \in Span(dest, k + 1) <=> a = dest + k \/ a \in Span(dest, k)
  BY LibcMemory DEF Span, Addresses
<1>2. ~(dest + k < dest + size)  OBVIOUS
<1>3. dest + k \notin Span(dest, k)  BY DEF Span
<1> QED  BY <1>1, <1>2, <1>3 DEF Padded

\* Nothing done yet, and a source that is not written to.
LEMMA NothingMoved ==
  ASSUME NEW m, m = [a \in Addresses |-> m[a]], NEW dest \in Nat, NEW src, NEW len \in Nat,
         NEW c
  PROVE  /\ Moved(m, dest, src, 0) = m /\ Filled(m, dest, c, 0) = m
         /\ MovedLast(m, dest, src, len, len) = m
<1>1. \A a \in Addresses : a \notin Span(dest, 0) /\ a \notin Span(dest + len, len - len)
  BY LibcMemory DEF Span, Addresses
<1>2. Moved(m, dest, src, 0) = [a \in Addresses |-> m[a]]  BY <1>1 DEF Moved
<1>3. Filled(m, dest, c, 0) = [a \in Addresses |-> m[a]]  BY <1>1 DEF Filled
<1>4. MovedLast(m, dest, src, len, len) = [a \in Addresses |-> m[a]]
  BY <1>1 DEF MovedLast
<1> QED  BY <1>2, <1>3, <1>4

LEMMA AllMovedLast ==
  ASSUME NEW m, NEW dest \in Nat, NEW src, NEW len \in Nat
  PROVE  MovedLast(m, dest, src, len, 0) = Moved(m, dest, src, len)
<1>1. dest + 0 = dest /\ len - 0 = len  OBVIOUS
<1> QED  BY <1>1 DEF Moved, MovedLast

LEMMA NothingPadded ==
  ASSUME NEW m, NEW dest \in Nat, NEW src, NEW size \in Nat, NEW k \in Nat, k <= size
  PROVE  Padded(m, dest, src, size, k) = Moved(m, dest, src, k)
<1>1. ASSUME NEW a \in Addresses, a \in Span(dest, k)  PROVE a < dest + size
  BY <1>1, LibcMemory DEF Span, Addresses
<1> QED  BY <1>1 DEF Moved, Padded

\* What each routine leaves, by the same operators.
LEMMA ResultIs ==
  ASSUME NEW c
  PROVE  /\ c.routine = "memset" => Result(c) = Filled(c.mem, c.dest, c.src, c.n)
         /\ c.routine \in {"memcpy", "memmove"} =>
               Result(c) = Moved(c.mem, c.dest, c.src, c.n)
         /\ c.routine \in {"strcpy", "strcat"} =>
               Result(c) = Moved(c.mem, Behind(c), c.src, Size(c) + 1)
         /\ c.routine = "strncpy" =>
               Result(c) = Padded(c.mem, c.dest, c.src, Size(c), c.n)
BY DEF Result, Filled, Moved, Padded, Behind, Size

\* A call that has begun, and one that is done.
LEMMA CopyBegins ==
  ASSUME CopyInv, NEW routine \in {"memset", "memcpy", "memmove", "strcpy", "strcat", "strncpy"},
         NEW loop \in {"fill", "forward", "backward", "string", "counted"},
         NEW to, NEW from, NEW count, NEW dest \in Nat, NEW src \in Nat, NEW len \in Nat,
         Enter(routine, loop, to, from, count, dest, src, len)
  PROVE  /\ CallTyped'
         /\ op' = IF loop # "string" /\ count = 0 THEN "done" ELSE loop
         /\ d' = to /\ s' = from /\ n' = count /\ mem' = mem
         /\ mem = [a \in Addresses |-> mem[a]]
         /\ call' = [routine |-> routine, dest |-> dest, src |-> src, n |-> len, mem |-> mem]
BY DEF Enter, CopyInv, CallTyped

LEMMA CopyDone ==
  ASSUME CallTyped', op' = "done", mem' = Result(call)'
  PROVE  CopyInv'
BY DEF CopyInv, CopiesExact

LEMMA CopyGoesOn ==
  ASSUME CallTyped', NEW k \in Nat,
         \/ op' = "fill" /\ FillAt(k)'
         \/ op' = "forward" /\ ForwardAt(k)'
         \/ op' = "backward" /\ BackwardAt(k)'
         \/ op' = "string" /\ StringAt(k)'
         \/ op' = "counted" /\ CountedAt(k)'
         \/ op' = "pad" /\ PadAt(k)'
  PROVE  CopyInv'
BY DEF CopyInv, CopiesExact

LEMMA MemsetEnters ==
  ASSUME CopyInv, NEW dest \in Nat, NEW c \in Values, NEW len \in Nat, memset(dest, c, len)
  PROVE  CopyInv'
<1>0. c \in Nat  BY LibcMemory
<1>1. /\ CallTyped' /\ Inside(dest, len) /\ mem = [a \in Addresses |-> mem[a]]
      /\ op' = (IF len = 0 THEN "done" ELSE "fill")
      /\ d' = dest /\ s' = c /\ n' = len /\ mem' = mem
      /\ call' = [routine |-> "memset", dest |-> dest, src |-> c, n |-> len, mem |-> mem]
  BY <1>0, CopyBegins DEF memset
<1>2. Filled(mem, dest, c, 0) = mem  BY <1>1, NothingMoved
<1>3. CASE len = 0
  <2>1. Result(call') = mem'  BY <1>1, <1>2, <1>3, ResultIs
  <2> QED  BY <1>1, <1>3, <2>1, CopyDone
<1>4. CASE len # 0
  <2>1. FillAt(0)'  BY <1>1, <1>2, <1>4 DEF FillAt
  <2> QED  BY <1>1, <1>4, <2>1, CopyGoesOn
<1> QED  BY <1>3, <1>4

\* A copy that runs forward: the areas are apart, or it moves down.
LEMMA ForwardEnters ==
  ASSUME CopyInv, NEW routine \in {"memcpy", "memmove"},
         NEW dest \in Nat, NEW src \in Nat, NEW len \in Nat,
         Inside(dest, len), Inside(src, len), dest < src \/ Apart(dest, len, src, len),
         Enter(routine, "forward", dest, src, len, dest, src, len)
  PROVE  CopyInv'
<1>1. /\ CallTyped' /\ mem = [a \in Addresses |-> mem[a]]
      /\ op' = (IF len = 0 THEN "done" ELSE "forward")
      /\ d' = dest /\ s' = src /\ n' = len /\ mem' = mem
      /\ call' = [routine |-> routine, dest |-> dest, src |-> src, n |-> len, mem |-> mem]
  <2>1. routine \in {"memset", "memcpy", "memmove", "strcpy", "strcat", "strncpy"}
    OBVIOUS
  <2> QED  BY <2>1 DEF Enter, CopyInv, CallTyped
<1>2. Moved(mem, dest, src, 0) = mem  BY <1>1, NothingMoved
<1>3. CASE len = 0
  <2>1. Result(call') = mem'  BY <1>1, <1>2, <1>3, ResultIs
  <2> QED  BY <1>1, <1>3, <2>1, CopyDone
<1>4. CASE len # 0
  <2>1. ForwardAt(0)'  BY <1>1, <1>2, <1>4 DEF ForwardAt
  <2> QED  BY <1>1, <1>4, <2>1, CopyGoesOn
<1> QED  BY <1>3, <1>4

LEMMA MemcpyEnters ==
  ASSUME CopyInv, NEW dest \in Nat, NEW src \in Nat, NEW len \in Nat, memcpy(dest, src, len)
  PROVE  CopyInv'
BY ForwardEnters DEF memcpy

LEMMA MemmoveEnters ==
  ASSUME CopyInv, NEW dest \in Nat, NEW src \in Nat, NEW len \in Nat, memmove(dest, src, len)
  PROVE  CopyInv'
<1>1. CASE dest < src
  BY <1>1, ForwardEnters DEF memmove
<1>2. CASE ~(dest < src)
  <2>1. /\ CallTyped' /\ mem = [a \in Addresses |-> mem[a]]
        /\ op' = (IF len = 0 THEN "done" ELSE "backward")
        /\ d' = dest + len /\ s' = src + len /\ n' = len /\ mem' = mem
        /\ call' = [routine |-> "memmove", dest |-> dest, src |-> src, n |-> len, mem |-> mem]
    BY <1>2, CopyBegins DEF memmove
  <2>2. Moved(mem, dest, src, 0) = mem /\ MovedLast(mem, dest, src, len, len) = mem
    BY <2>1, NothingMoved
  <2>3. CASE len = 0
    <3>1. Result(call') = mem'  BY <2>1, <2>2, <2>3, ResultIs
    <3> QED  BY <2>1, <2>3, <3>1, CopyDone
  <2>4. CASE len # 0
    <3>1. BackwardAt(len)'  BY <1>2, <2>1, <2>2, <2>4 DEF BackwardAt, memmove
    <3> QED  BY <2>1, <2>4, <3>1, CopyGoesOn
  <2> QED  BY <2>3, <2>4
<1> QED  BY <1>1, <1>2

LEMMA StrcpyEnters ==
  ASSUME CopyInv, NEW dest \in Nat, NEW src \in Nat, strcpy(dest, src)
  PROVE  CopyInv'
<1>1. /\ CallTyped' /\ mem = [a \in Addresses |-> mem[a]]
      /\ op' = "string" /\ d' = dest /\ s' = src /\ mem' = mem
      /\ call' = [routine |-> "strcpy", dest |-> dest, src |-> src, n |-> 0, mem |-> mem]
  BY CopyBegins DEF strcpy
<1>2. /\ StringIn(mem, src) /\ Inside(dest, strlen(mem, src) + 1)
      /\ Apart(dest, strlen(mem, src) + 1, src, strlen(mem, src) + 1)
  BY DEF strcpy, IsString, StringIn
<1>3. 0 <= strlen(mem, src)  BY <1>2, StrlenIs
<1>4. Moved(mem, dest, src, 0) = mem  BY <1>1, NothingMoved
<1>5. StringAt(0)'  BY <1>1, <1>2, <1>3, <1>4 DEF StringAt, Behind, Size
<1> QED  BY <1>1, <1>5, CopyGoesOn

LEMMA StrcatEnters ==
  ASSUME CopyInv, NEW dest \in Nat, NEW src \in Nat, strcat(dest, src)
  PROVE  CopyInv'
<1>1. PICK old, size : old = strlen(mem, dest) /\ size = strlen(mem, src) + 1
  OBVIOUS
<1>2. /\ StringIn(mem, src) /\ StringIn(mem, dest)
      /\ Inside(dest, old + size) /\ Apart(dest, old + size, src, size)
      /\ Enter("strcat", "string", dest + old, src, 0, dest, src, 0)
  BY <1>1 DEF strcat, IsString, StringIn
<1>3. /\ CallTyped' /\ mem = [a \in Addresses |-> mem[a]]
      /\ op' = "string" /\ d' = dest + old /\ s' = src /\ mem' = mem
      /\ call' = [routine |-> "strcat", dest |-> dest, src |-> src, n |-> 0, mem |-> mem]
  BY <1>2, CopyBegins
<1>4. old \in Nat /\ size - 1 \in Nat /\ size \in Nat  BY <1>1, <1>2, StrlenIs
<1>5. Span(dest + old, size) \subseteq Span(dest, old + size)
  BY <1>4 DEF Span
<1>6. Inside(dest + old, size) /\ Apart(dest + old, size, src, size)
  BY <1>2, <1>5 DEF Inside, Apart
<1>7. PICK base : base = dest + old /\ base \in Nat  BY <1>4
<1>8. Moved(mem, base, src, 0) = mem  BY <1>3, <1>7, NothingMoved
<1>9. StringAt(0)'
  <2>1. Behind(call') = base
    <3>1. /\ call'.routine = "strcat" /\ call'.dest = dest /\ call'.mem = mem
      BY <1>3
    <3> QED  BY <1>1, <1>7, <3>1 DEF Behind
  <2>2. Size(call') = strlen(mem, src)  BY <1>3 DEF Size
  <2>3. strlen(mem, src) \in Nat /\ strlen(mem, src) + 1 = size  BY <1>1, <1>2, StrlenIs
  <2> QED  BY <1>2, <1>3, <1>6, <1>7, <1>8, <2>1, <2>2, <2>3 DEF StringAt
<1> QED  BY <1>3, <1>9, CopyGoesOn

LEMMA StrncpyEnters ==
  ASSUME CopyInv, NEW dest \in Nat, NEW src \in Nat, NEW len \in Nat, strncpy(dest, src, len)
  PROVE  CopyInv'
<1>1. /\ CallTyped' /\ mem = [a \in Addresses |-> mem[a]]
      /\ op' = (IF len = 0 THEN "done" ELSE "counted")
      /\ d' = dest /\ s' = src /\ n' = len /\ mem' = mem
      /\ call' = [routine |-> "strncpy", dest |-> dest, src |-> src, n |-> len, mem |-> mem]
  <2>1. Enter("strncpy", "counted", dest, src, len, dest, src, len)  BY DEF strncpy
  <2> QED  BY <2>1 DEF Enter, CopyInv, CallTyped
<1>2. /\ StringIn(mem, src) /\ Inside(dest, len)
      /\ Apart(dest, len, src, strlen(mem, src) + 1)
  BY DEF strncpy, IsString, StringIn
<1>3. strlen(mem, src) \in Nat  BY <1>2, StrlenIs
<1>4. Moved(mem, dest, src, 0) = mem  BY <1>1, NothingMoved
<1>5. CASE len = 0
  <2>1. Padded(mem, dest, src, strlen(mem, src), 0) = mem
    BY <1>3, <1>4, NothingPadded
  <2>2. Result(call') = mem'  BY <1>1, <1>5, <2>1, ResultIs DEF Size
  <2> QED  BY <1>1, <1>5, <2>2, CopyDone
<1>6. CASE len # 0
  <2>1. CountedAt(0)'
    BY <1>1, <1>2, <1>3, <1>4, <1>6 DEF CountedAt, CutAt, Size
  <2> QED  BY <1>1, <1>6, <2>1, CopyGoesOn
<1> QED  BY <1>5, <1>6

LEMMA CallsEnter ==
  ASSUME CopyInv, CopyCalls
  PROVE  CopyInv'
<1>0. Addresses \subseteq Nat  BY LibcMemory DEF Addresses
<1>1. PICK a \in Addresses, len \in Addresses :
         \/ \E c \in Values : memset(a, c, len)
         \/ \E b \in Addresses :
               \/ memcpy(a, b, len) \/ memmove(a, b, len) \/ strncpy(a, b, len)
               \/ strcpy(a, b) \/ strcat(a, b)
               \/ W_Navine_Read(b, a, len)
  BY DEF CopyCalls
<1>2. a \in Nat /\ len \in Nat  BY <1>0
<1>3. CASE \E c \in Values : memset(a, c, len)
  BY <1>2, <1>3, MemsetEnters
<1>4. ASSUME NEW b \in Addresses, W_Navine_Read(b, a, len)  PROVE CopyInv'
  <2>1. PICK count : /\ count = (IF len > WadLength - b THEN WadLength - b ELSE len)
                     /\ memcpy(a, b, count)
    BY <1>4 DEF W_Navine_Read
  <2>2. b \in Nat /\ b < WadLength /\ WadLength \in Nat
    BY <1>0, <1>4, LibcMemory DEF W_Navine_Read
  <2>3. count \in Nat  BY <1>2, <2>1, <2>2
  <2> QED  BY <1>2, <2>1, <2>2, <2>3, MemcpyEnters
<1>5. ASSUME NEW b \in Addresses,
             \/ memcpy(a, b, len) \/ memmove(a, b, len) \/ strncpy(a, b, len)
             \/ strcpy(a, b) \/ strcat(a, b)
      PROVE  CopyInv'
  <2>1. b \in Nat  BY <1>0
  <2> QED
    BY <1>2, <1>5, <2>1, MemcpyEnters, MemmoveEnters, StrncpyEnters, StrcpyEnters, StrcatEnters
<1> QED  BY <1>1, <1>3, <1>4, <1>5

\* A count that runs down.
LEMMA CountedIs ==
  ASSUME CallTyped, NEW loop, Counted(loop), NEW k \in Nat, NEW len \in Nat,
         n = len - k, k < len
  PROVE  /\ call' = call /\ n' = len - (k + 1)
         /\ (op' = "done" /\ k + 1 = len) \/ (op' = loop /\ k + 1 < len)
<1>1. op' = (IF n = 1 THEN "done" ELSE loop) /\ n' = n - 1 /\ call' = call
  BY DEF Counted
<1>2. CASE n = 1
  <2>1. k + 1 = len  BY <1>2
  <2> QED  BY <1>1, <1>2, <2>1
<1>3. CASE n # 1
  <2>1. k + 1 < len  BY <1>3
  <2> QED  BY <1>1, <1>3, <2>1
<1> QED  BY <1>2, <1>3

\* Memory stays memory when a byte of it changes.
LEMMA ByteWritten ==
  ASSUME CallTyped, call' = call, NEW a, NEW v \in Values, mem' = [mem EXCEPT ![a] = v],
         op' \in {"none", "fill", "forward", "backward", "string", "counted", "pad", "done"}
  PROVE  CallTyped'
BY DEF CallTyped

LEMMA CallIs ==
  ASSUME CallTyped
  PROVE  /\ call.dest \in Nat /\ call.src \in Nat /\ call.n \in Nat
         /\ call.mem \in [Addresses -> Values] /\ mem \in [Addresses -> Values]
BY DEF CallTyped

\* A byte of an area that lies in memory.
LEMMA InsideAt ==
  ASSUME NEW a \in Nat, NEW len \in Nat, NEW k \in Nat, k < len, Inside(a, len)
  PROVE  a + k \in Addresses /\ a + k \in Span(a, len)
BY DEF Inside, Span

LEMMA FillKeeps ==
  ASSUME CopyInv, FillLoop
  PROVE  CopyInv'
<1>1. CallTyped /\ op = "fill"  BY DEF CopyInv, FillLoop, Counted
<1>2. PICK k \in Nat : FillAt(k)  BY <1>1 DEF CopyInv
<1>3. PICK m \in [Addresses -> Values], dest \in Nat, c \in Values, len \in Nat :
         m = call.mem /\ dest = call.dest /\ c = call.src /\ len = call.n
  <2>1. call.dest \in Nat /\ call.n \in Nat /\ call.mem \in [Addresses -> Values]
    BY <1>1, CallIs
  <2>2. call.src \in Values  BY <1>2 DEF FillAt
  <2> QED  BY <2>1, <2>2
<1>4. /\ k < len /\ n = len - k /\ d = dest + k /\ s = c
      /\ Inside(dest, len) /\ mem = Filled(m, dest, c, k)
  BY <1>2, <1>3 DEF FillAt
<1>5. dest + k \in Addresses  BY <1>4, InsideAt
<1>6. mem' = Filled(m, dest, c, k + 1)
  <2>1. mem' = [Filled(m, dest, c, k) EXCEPT ![dest + k] = c]  BY <1>4 DEF FillLoop
  <2>2. [Filled(m, dest, c, k) EXCEPT ![dest + k] = c] = Filled(m, dest, c, k + 1)
    BY <1>5, FillOne
  <2> QED  BY <2>1, <2>2
<1>7. /\ call' = call /\ n' = len - (k + 1)
      /\ (op' = "done" /\ k + 1 = len) \/ (op' = "fill" /\ k + 1 < len)
  BY <1>1, <1>4, CountedIs DEF FillLoop
<1>8. CallTyped'
  <2>1. mem' = [mem EXCEPT ![d] = s] /\ s \in Values  BY <1>4 DEF FillLoop
  <2> QED  BY <1>1, <1>7, <2>1, ByteWritten
<1>9. CASE op' = "done" /\ k + 1 = len
  <2>1. mem' = Result(call)'
    BY <1>2, <1>3, <1>6, <1>7, <1>9, ResultIs DEF FillAt
  <2> QED  BY <1>8, <1>9, <2>1, CopyDone
<1>10. CASE op' = "fill" /\ k + 1 < len
  <2>1. d' = dest + (k + 1) /\ s' = c /\ k + 1 \in Nat  BY <1>4 DEF FillLoop
  <2>2. FillAt(k + 1)'
    BY <1>2, <1>3, <1>4, <1>6, <1>7, <1>10, <2>1 DEF FillAt
  <2> QED  BY <1>8, <1>10, <2>1, <2>2, CopyGoesOn
<1> QED  BY <1>7, <1>9, <1>10

LEMMA ForwardKeeps ==
  ASSUME CopyInv, ForwardLoop
  PROVE  CopyInv'
<1>1. CallTyped /\ op = "forward"  BY DEF CopyInv, ForwardLoop, Counted
<1>2. PICK k \in Nat : ForwardAt(k)  BY <1>1 DEF CopyInv
<1>3. PICK m \in [Addresses -> Values], dest \in Nat, src \in Nat, len \in Nat :
         m = call.mem /\ dest = call.dest /\ src = call.src /\ len = call.n
  BY <1>1, CallIs
<1>4. /\ k < len /\ n = len - k /\ d = dest + k /\ s = src + k
      /\ Inside(dest, len) /\ Inside(src, len)
      /\ dest < src \/ Apart(dest, len, src, len)
      /\ mem = Moved(m, dest, src, k)
  BY <1>2, <1>3 DEF ForwardAt
<1>5. /\ dest + k \in Addresses /\ src + k \in Addresses
      /\ src + k \in Span(src, len)
  BY <1>4, InsideAt
<1>6. mem[src + k] = m[src + k]
  <2>1. src + k \notin Span(dest, k)
    <3>1. Span(dest, k) \subseteq Span(dest, len)  BY <1>4 DEF Span
    <3>2. CASE dest < src  BY <3>2 DEF Span
    <3>3. CASE Apart(dest, len, src, len)  BY <1>5, <3>1, <3>3 DEF Apart
    <3> QED  BY <1>4, <3>2, <3>3
  <2> QED  BY <1>4, <1>5, <2>1 DEF Moved
<1>7. mem' = Moved(m, dest, src, k + 1)
  <2>1. mem' = [Moved(m, dest, src, k) EXCEPT ![dest + k] = m[src + k]]
    BY <1>4, <1>6 DEF ForwardLoop
  <2>2. [Moved(m, dest, src, k) EXCEPT ![dest + k] = m[src + k]]
           = Moved(m, dest, src, k + 1)
    BY <1>5, MoveOne
  <2> QED  BY <2>1, <2>2
<1>8. /\ call' = call /\ n' = len - (k + 1)
      /\ (op' = "done" /\ k + 1 = len) \/ (op' = "forward" /\ k + 1 < len)
  BY <1>1, <1>4, CountedIs DEF ForwardLoop
<1>9. CallTyped'
  <2>1. mem' = [mem EXCEPT ![d] = mem[s]]  BY DEF ForwardLoop
  <2>2. mem[s] \in Values  BY <1>4, <1>5, <1>6
  <2> QED  BY <1>1, <1>8, <2>1, <2>2, ByteWritten
<1>10. CASE op' = "done" /\ k + 1 = len
  <2>1. mem' = Result(call)'
    BY <1>2, <1>3, <1>7, <1>8, <1>10, ResultIs DEF ForwardAt
  <2> QED  BY <1>9, <1>10, <2>1, CopyDone
<1>11. CASE op' = "forward" /\ k + 1 < len
  <2>1. d' = dest + (k + 1) /\ s' = src + (k + 1) /\ k + 1 \in Nat
    BY <1>4 DEF ForwardLoop
  <2>2. ForwardAt(k + 1)'
    BY <1>2, <1>3, <1>4, <1>7, <1>8, <1>11, <2>1 DEF ForwardAt
  <2> QED  BY <1>9, <1>11, <2>1, <2>2, CopyGoesOn
<1> QED  BY <1>8, <1>10, <1>11

LEMMA BackwardKeeps ==
  ASSUME CopyInv, BackwardLoop
  PROVE  CopyInv'
<1>1. CallTyped /\ op = "backward"  BY DEF CopyInv, BackwardLoop, Counted
<1>2. PICK k \in Nat : BackwardAt(k)  BY <1>1 DEF CopyInv
<1>3. PICK m \in [Addresses -> Values], dest \in Nat, src \in Nat, len \in Nat :
         m = call.mem /\ dest = call.dest /\ src = call.src /\ len = call.n
  BY <1>1, CallIs
<1>4. /\ k \in 1 .. len /\ n = k /\ d = dest + k /\ s = src + k
      /\ Inside(dest, len) /\ Inside(src, len) /\ src <= dest
      /\ mem = MovedLast(m, dest, src, len, k)
  BY <1>2, <1>3 DEF BackwardAt
<1>5. /\ dest + k - 1 \in Addresses /\ src + k - 1 \in Addresses
  <2>1. k - 1 \in Nat /\ k - 1 < len /\ dest + (k - 1) = dest + k - 1
        /\ src + (k - 1) = src + k - 1
    BY <1>4
  <2>2. dest + (k - 1) \in Addresses /\ src + (k - 1) \in Addresses
    BY <1>4, <2>1, InsideAt
  <2> QED  BY <2>1, <2>2
<1>6. mem[src + k - 1] = m[src + k - 1]
  <2>1. src + k - 1 \notin Span(dest + k, len - k)  BY <1>4 DEF Span
  <2> QED  BY <1>4, <1>5, <2>1 DEF MovedLast
<1>7. mem' = MovedLast(m, dest, src, len, k - 1)
  <2>1. mem' = [MovedLast(m, dest, src, len, k) EXCEPT ![dest + k - 1] = m[src + k - 1]]
    <3>1. d - 1 = dest + k - 1 /\ s - 1 = src + k - 1  BY <1>4
    <3>2. mem' = [mem EXCEPT ![d - 1] = mem[s - 1]]  BY DEF BackwardLoop
    <3> QED  BY <1>4, <1>6, <3>1, <3>2
  <2>2. [MovedLast(m, dest, src, len, k) EXCEPT ![dest + k - 1] = m[src + k - 1]]
           = MovedLast(m, dest, src, len, k - 1)
    BY <1>4, <1>5, MoveLastOne
  <2> QED  BY <2>1, <2>2
<1>8. /\ call' = call /\ n' = k - 1
      /\ (op' = "done" /\ k = 1) \/ (op' = "backward" /\ k # 1)
  BY <1>4 DEF BackwardLoop, Counted
<1>9. CallTyped'
  <2>1. mem' = [mem EXCEPT ![d - 1] = mem[s - 1]]  BY DEF BackwardLoop
  <2>2. mem[s - 1] \in Values
    <3>1. s - 1 = src + k - 1  BY <1>4
    <3> QED  BY <1>5, <1>6, <3>1
  <2> QED  BY <1>1, <1>8, <2>1, <2>2, ByteWritten
<1>10. CASE op' = "done" /\ k = 1
  <2>1. mem' = Moved(m, dest, src, len)  BY <1>7, <1>10, AllMovedLast
  <2>2. mem' = Result(call)'
    BY <1>2, <1>3, <1>8, <2>1, ResultIs DEF BackwardAt
  <2> QED  BY <1>9, <1>10, <2>2, CopyDone
<1>11. CASE op' = "backward" /\ k # 1
  <2>1. d' = dest + (k - 1) /\ s' = src + (k - 1) /\ k - 1 \in Nat /\ 0 < k - 1 /\ k - 1 <= len
    BY <1>4, <1>11 DEF BackwardLoop
  <2>2. BackwardAt(k - 1)'
    BY <1>2, <1>3, <1>4, <1>7, <1>8, <2>1 DEF BackwardAt
  <2> QED  BY <1>9, <1>11, <2>1, <2>2, CopyGoesOn
<1> QED  BY <1>8, <1>10, <1>11

\* A source apart from what was written reads as it was.
LEMMA SourceKept ==
  ASSUME NEW m \in [Addresses -> Values], NEW dest \in Nat, NEW src \in Nat,
         NEW len \in Nat, NEW size \in Nat, NEW k \in Nat, k <= len, k <= size,
         StringIn(m, src), size = strlen(m, src), Apart(dest, len, src, size + 1)
  PROVE  /\ src + k \in Addresses /\ m[src + k] \in Values
         /\ Moved(m, dest, src, k)[src + k] = m[src + k]
         /\ m[src + k] = 0 <=> k = size
<1>1. /\ src + size \in Addresses /\ m[src + size] = 0
      /\ \A y \in Span(src, size) : m[y] # 0
  BY StrlenIs
<1>2. src + k \in Addresses  BY <1>1, LibcMemory DEF Addresses
<1>3. src + k \notin Span(dest, k)
  <2>1. Span(dest, k) \subseteq Span(dest, len) /\ src + k \in Span(src, size + 1)
    BY DEF Span
  <2> QED  BY <2>1 DEF Apart
<1>4. k # size => src + k \in Span(src, size)  BY DEF Span
<1> QED  BY <1>1, <1>2, <1>3, <1>4 DEF Moved

LEMMA StringKeeps ==
  ASSUME CopyInv, StringLoop
  PROVE  CopyInv'
<1>1. CallTyped /\ op = "string"  BY DEF CopyInv, StringLoop
<1>2. PICK k \in Nat : StringAt(k)  BY <1>1 DEF CopyInv
<1>3. Size(call) \in Nat  BY <1>1, <1>2, CallIs, StrlenIs DEF StringAt, Size
<1>4. PICK m \in [Addresses -> Values], base \in Nat, src \in Nat, size \in Nat :
         m = call.mem /\ base = Behind(call) /\ src = call.src /\ size = Size(call)
  <2>1. Behind(call) \in Nat  BY <1>2 DEF StringAt
  <2> QED  BY <1>1, <1>3, <2>1, CallIs
<1>5. /\ k <= size /\ d = base + k /\ s = src + k
      /\ StringIn(m, src) /\ size = strlen(m, src)
      /\ Inside(base, size + 1) /\ Apart(base, size + 1, src, size + 1)
      /\ mem = Moved(m, base, src, k)
  BY <1>2, <1>4 DEF StringAt, Size
<1>6. PICK len : len = size + 1 /\ len \in Nat /\ k < len /\ k <= len  BY <1>5
<1>7. base + k \in Addresses  BY <1>5, <1>6, InsideAt
<1>8. /\ src + k \in Addresses /\ mem[src + k] = m[src + k] /\ m[src + k] \in Values
      /\ m[src + k] = 0 <=> k = size
  BY <1>5, <1>6, SourceKept
<1>9. mem' = Moved(m, base, src, k + 1)
  <2>1. mem' = [Moved(m, base, src, k) EXCEPT ![base + k] = m[src + k]]
    BY <1>5, <1>8 DEF StringLoop
  <2>2. [Moved(m, base, src, k) EXCEPT ![base + k] = m[src + k]]
           = Moved(m, base, src, k + 1)
    BY <1>7, MoveOne
  <2> QED  BY <2>1, <2>2
<1>10. /\ call' = call /\ d' = base + (k + 1) /\ s' = src + (k + 1)
       /\ (op' = "done" /\ k = size) \/ (op' = "string" /\ k < size)
  BY <1>5, <1>8 DEF StringLoop
<1>11. CallTyped'
  <2>1. mem' = [mem EXCEPT ![d] = mem[s]]  BY DEF StringLoop
  <2>2. mem[s] \in Values  BY <1>5, <1>8
  <2> QED  BY <1>1, <1>10, <2>1, <2>2, ByteWritten
<1>12. Behind(call') = base /\ Size(call') = size  BY <1>4, <1>10
<1>13. CASE op' = "done" /\ k = size
  <2>1. call'.routine \in {"strcpy", "strcat"} /\ call'.mem = m /\ call'.src = src
    BY <1>2, <1>4, <1>10 DEF StringAt
  <2>2. Result(call') = Moved(m, base, src, size + 1)
    BY <1>12, <2>1, ResultIs
  <2> QED  BY <1>9, <1>11, <1>13, <2>2, CopyDone
<1>14. CASE op' = "string" /\ k < size
  <2>1. k + 1 \in Nat /\ k + 1 <= size  BY <1>14
  <2>2. StringAt(k + 1)'
    BY <1>2, <1>4, <1>5, <1>9, <1>10, <1>12, <2>1 DEF StringAt
  <2> QED  BY <1>11, <1>14, <2>1, <2>2, CopyGoesOn
<1> QED  BY <1>10, <1>13, <1>14

\* What the two loops of strncpy have in common.
LEMMA CutIs ==
  ASSUME CallTyped, NEW k \in Nat, CutAt(k)
  PROVE  \E m \in [Addresses -> Values], dest, src, len, size \in Nat :
            /\ m = call.mem /\ dest = call.dest /\ src = call.src /\ len = call.n
            /\ size = Size(call) /\ size = strlen(m, src) /\ StringIn(m, src)
            /\ k < len /\ n = len - k /\ d = dest + k /\ dest + k \in Addresses
            /\ Apart(dest, len, src, size + 1)
<1>1. PICK m \in [Addresses -> Values], dest, src, len \in Nat :
         m = call.mem /\ dest = call.dest /\ src = call.src /\ len = call.n
  BY CallIs
<1>2. StringIn(m, src)  BY <1>1 DEF CutAt
<1>3. PICK size \in Nat : size = strlen(m, src)  BY <1>2, StrlenIs
<1>4. size = Size(call)  BY <1>1, <1>3 DEF Size
<1>5. /\ k < len /\ n = len - k /\ d = dest + k
      /\ Inside(dest, len) /\ Apart(dest, len, src, size + 1)
  BY <1>1, <1>4 DEF CutAt
<1>6. dest + k \in Addresses  BY <1>5, InsideAt
<1> QED  BY <1>1, <1>2, <1>3, <1>4, <1>5, <1>6

LEMMA CountedKeeps ==
  ASSUME CopyInv, CountedLoop
  PROVE  CopyInv'
<1>1. CallTyped /\ op = "counted"  BY DEF CopyInv, CountedLoop, Counted
<1>2. PICK k \in Nat : CountedAt(k)  BY <1>1 DEF CopyInv
<1>3. PICK m \in [Addresses -> Values], dest, src, len, size \in Nat :
         /\ m = call.mem /\ dest = call.dest /\ src = call.src /\ len = call.n
         /\ size = Size(call) /\ size = strlen(m, src) /\ StringIn(m, src)
         /\ k < len /\ n = len - k /\ d = dest + k /\ dest + k \in Addresses
         /\ Apart(dest, len, src, size + 1)
  BY <1>1, <1>2, CutIs DEF CountedAt
<1>4. k <= size /\ s = src + k /\ mem = Moved(m, dest, src, k)
  BY <1>2, <1>3 DEF CountedAt
<1>5. /\ src + k \in Addresses /\ mem[src + k] = m[src + k] /\ m[src + k] \in Values
      /\ m[src + k] = 0 <=> k = size
  <2>1. k <= len /\ k <= size /\ StringIn(m, src) /\ size = strlen(m, src)
        /\ Apart(dest, len, src, size + 1)
    BY <1>3, <1>4
  <2>2. /\ src + k \in Addresses /\ m[src + k] \in Values
        /\ Moved(m, dest, src, k)[src + k] = m[src + k]
        /\ m[src + k] = 0 <=> k = size
    BY <2>1, SourceKept
  <2> QED  BY <1>4, <2>2
<1>6. k < size
  <2>1. m[src + k] # 0  BY <1>4, <1>5 DEF CountedLoop
  <2> QED  BY <1>4, <1>5, <2>1
<1>7. mem' = Moved(m, dest, src, k + 1)
  <2>1. mem' = [Moved(m, dest, src, k) EXCEPT ![dest + k] = m[src + k]]
    BY <1>3, <1>4, <1>5 DEF CountedLoop
  <2>2. [Moved(m, dest, src, k) EXCEPT ![dest + k] = m[src + k]]
           = Moved(m, dest, src, k + 1)
    <3>1. dest + k \in Addresses  BY <1>3
    <3> QED  BY <3>1, MoveOne
  <2> QED  BY <2>1, <2>2
<1>8. /\ call' = call /\ n' = len - (k + 1)
      /\ (op' = "done" /\ k + 1 = len) \/ (op' = "counted" /\ k + 1 < len)
  BY <1>1, <1>3, CountedIs DEF CountedLoop
<1>9. CallTyped'
  <2>1. mem' = [mem EXCEPT ![d] = mem[s]]  BY DEF CountedLoop
  <2>2. mem[s] \in Values  BY <1>4, <1>5
  <2> QED  BY <1>1, <1>8, <2>1, <2>2, ByteWritten
<1>10. CASE op' = "done" /\ k + 1 = len
  <2>1. Padded(m, dest, src, size, k + 1) = Moved(m, dest, src, k + 1)
    <3>1. k + 1 \in Nat /\ k + 1 <= size  BY <1>6
    <3> QED  BY <3>1, NothingPadded
  <2>2. call'.routine = "strncpy" /\ Size(call') = size
    BY <1>2, <1>3, <1>8 DEF CountedAt, CutAt
  <2>3. Result(call') = Padded(m, dest, src, size, len)
    BY <1>3, <1>8, <2>2, ResultIs
  <2> QED  BY <1>7, <1>9, <1>10, <2>1, <2>3, CopyDone
<1>11. CASE op' = "counted" /\ k + 1 < len
  <2>1. /\ d' = dest + (k + 1) /\ s' = src + (k + 1) /\ k + 1 \in Nat /\ k + 1 <= size
    BY <1>3, <1>4, <1>6 DEF CountedLoop
  <2>2. Size(call') = size  BY <1>3, <1>8
  <2>3. CountedAt(k + 1)'
    BY <1>2, <1>3, <1>7, <1>8, <1>11, <2>1, <2>2 DEF CountedAt, CutAt
  <2> QED  BY <1>9, <1>11, <2>1, <2>3, CopyGoesOn
<1> QED  BY <1>8, <1>10, <1>11

LEMMA PadBeginsKeeps ==
  ASSUME CopyInv, PadBegins
  PROVE  CopyInv'
<1>1. /\ CallTyped /\ op = "counted" /\ op' = "pad" /\ mem[s] = 0
      /\ mem' = mem /\ d' = d /\ s' = s /\ n' = n /\ call' = call
  BY DEF CopyInv, PadBegins
<1>2. PICK k \in Nat : CountedAt(k)  BY <1>1 DEF CopyInv
<1>3. PICK m \in [Addresses -> Values], dest, src, len, size \in Nat :
         /\ m = call.mem /\ dest = call.dest /\ src = call.src /\ len = call.n
         /\ size = Size(call) /\ size = strlen(m, src) /\ StringIn(m, src)
         /\ k < len /\ n = len - k /\ d = dest + k /\ dest + k \in Addresses
         /\ Apart(dest, len, src, size + 1)
  BY <1>1, <1>2, CutIs DEF CountedAt
<1>4. k <= size /\ s = src + k /\ mem = Moved(m, dest, src, k)
  BY <1>2, <1>3 DEF CountedAt
<1>5. k = size
  <2>1. k <= len  BY <1>3
  <2>2. mem[src + k] = m[src + k] /\ (m[src + k] = 0 <=> k = size)
    BY <1>3, <1>4, <2>1, SourceKept
  <2> QED  BY <1>1, <1>4, <2>2
<1>6. mem = Padded(m, dest, src, size, k)
  BY <1>4, NothingPadded
<1>7. CallTyped'  BY <1>1 DEF CallTyped
<1>8. PadAt(k)'
  <2>1. Size(call') = size  BY <1>1, <1>3
  <2> QED  BY <1>1, <1>2, <1>3, <1>5, <1>6, <2>1 DEF PadAt, CountedAt, CutAt
<1> QED  BY <1>1, <1>7, <1>8, CopyGoesOn

LEMMA PadKeeps ==
  ASSUME CopyInv, PadLoop
  PROVE  CopyInv'
<1>1. CallTyped /\ op = "pad"  BY DEF CopyInv, PadLoop, Counted
<1>2. PICK k \in Nat : PadAt(k)  BY <1>1 DEF CopyInv
<1>3. PICK m \in [Addresses -> Values], dest, src, len, size \in Nat :
         /\ m = call.mem /\ dest = call.dest /\ src = call.src /\ len = call.n
         /\ size = Size(call) /\ size = strlen(m, src) /\ StringIn(m, src)
         /\ k < len /\ n = len - k /\ d = dest + k /\ dest + k \in Addresses
         /\ Apart(dest, len, src, size + 1)
  BY <1>1, <1>2, CutIs DEF PadAt
<1>4. size <= k /\ mem = Padded(m, dest, src, size, k)  BY <1>2, <1>3 DEF PadAt
<1>5. mem' = Padded(m, dest, src, size, k + 1)
  <2>1. mem' = [Padded(m, dest, src, size, k) EXCEPT ![dest + k] = 0]
    BY <1>3, <1>4 DEF PadLoop
  <2>2. [Padded(m, dest, src, size, k) EXCEPT ![dest + k] = 0]
           = Padded(m, dest, src, size, k + 1)
    BY <1>3, <1>4, PadOne
  <2> QED  BY <2>1, <2>2
<1>6. /\ call' = call /\ n' = len - (k + 1)
      /\ (op' = "done" /\ k + 1 = len) \/ (op' = "pad" /\ k + 1 < len)
  BY <1>1, <1>3, CountedIs DEF PadLoop
<1>7. CallTyped'
  <2>1. mem' = [mem EXCEPT ![d] = 0] /\ 0 \in Values  BY LibcMemory DEF PadLoop
  <2> QED  BY <1>1, <1>6, <2>1, ByteWritten
<1>8. Size(call') = size  BY <1>3, <1>6
<1>9. CASE op' = "done" /\ k + 1 = len
  <2>1. call'.routine = "strncpy"  BY <1>2, <1>6 DEF PadAt, CutAt
  <2>2. Result(call') = Padded(m, dest, src, size, len)
    BY <1>3, <1>6, <1>8, <2>1, ResultIs
  <2> QED  BY <1>5, <1>7, <1>9, <2>2, CopyDone
<1>10. CASE op' = "pad" /\ k + 1 < len
  <2>1. d' = dest + (k + 1) /\ k + 1 \in Nat /\ size <= k + 1
    BY <1>3, <1>4 DEF PadLoop
  <2>2. PadAt(k + 1)'
    BY <1>2, <1>3, <1>5, <1>6, <1>8, <1>10, <2>1 DEF PadAt, CutAt
  <2> QED  BY <1>7, <1>10, <2>1, <2>2, CopyGoesOn
<1> QED  BY <1>6, <1>9, <1>10

\* What a step does to the copying routines.
LEMMA CopySteps ==
  ASSUME [Next]_vars
  PROVE  UNCHANGED copyVars \/ CopyCalls \/ CopyLoops
<1>1. CASE UNCHANGED vars
  BY <1>1 DEF vars, libcVars, copyVars
<1>2. CASE Doom \/ DoomFrames \/ Dashboard_start \/ GuiDraws \/ CanvasFills
  BY <1>2 DEF Doom, DoomFrames, Dashboard_start, GuiDraws, CanvasFills, NoLibc, libcVars,
     copyVars
<1>3. CASE LibraryHeap
  BY <1>3 DEF LibraryHeap, Heap
<1>4. CASE LibraryCopies
  BY <1>4 DEF LibraryCopies
<1> QED  BY <1>1, <1>2, <1>3, <1>4 DEF Next

\* Every copying routine of the port's C library leaves what C says, whatever
\* memory holds and wherever its arguments point.
THEOREM CopiesCorrect == Spec => []CopiesExact
<1>1. Init => CopyInv
  <2> SUFFICES ASSUME Init  PROVE CopyInv
    OBVIOUS
  <2>1. mem \in [Addresses -> Values] /\ op = "none" /\ call = NoCall(mem)
    BY DEF Init, LibcInit
  <2>2. CallTyped  BY <2>1 DEF CallTyped, NoCall
  <2> QED  BY <2>1, <2>2 DEF CopyInv, CopiesExact
<1>2. CopyInv /\ [Next]_vars => CopyInv'
  <2> SUFFICES ASSUME CopyInv, [Next]_vars  PROVE CopyInv'
    OBVIOUS
  <2>1. CASE UNCHANGED copyVars
    <3>1. mem' = mem /\ op' = op /\ d' = d /\ s' = s /\ n' = n /\ call' = call
      BY <2>1 DEF copyVars
    <3>2. CallTyped'  BY <3>1 DEF CopyInv, CallTyped
    <3>3. \A k \in Nat : FillAt(k) => FillAt(k)'  BY <3>1 DEF FillAt
    <3>4. \A k \in Nat : ForwardAt(k) => ForwardAt(k)'  BY <3>1 DEF ForwardAt
    <3>5. \A k \in Nat : BackwardAt(k) => BackwardAt(k)'  BY <3>1 DEF BackwardAt
    <3>6. \A k \in Nat : StringAt(k) => StringAt(k)'  BY <3>1 DEF StringAt
    <3>7. \A k \in Nat : CountedAt(k) => CountedAt(k)'  BY <3>1 DEF CountedAt, CutAt
    <3>8. \A k \in Nat : PadAt(k) => PadAt(k)'  BY <3>1 DEF PadAt, CutAt
    <3>9. CopiesExact'  BY <3>1 DEF CopyInv, CopiesExact
    <3>10. (op = "fill" => \E k \in Nat : FillAt(k))'  BY <3>1, <3>3 DEF CopyInv
    <3>11. (op = "forward" => \E k \in Nat : ForwardAt(k))'  BY <3>1, <3>4 DEF CopyInv
    <3>12. (op = "backward" => \E k \in Nat : BackwardAt(k))'  BY <3>1, <3>5 DEF CopyInv
    <3>13. (op = "string" => \E k \in Nat : StringAt(k))'  BY <3>1, <3>6 DEF CopyInv
    <3>14. (op = "counted" => \E k \in Nat : CountedAt(k))'  BY <3>1, <3>7 DEF CopyInv
    <3>15. (op = "pad" => \E k \in Nat : PadAt(k))'  BY <3>1, <3>8 DEF CopyInv
    <3> QED  BY <3>2, <3>9, <3>10, <3>11, <3>12, <3>13, <3>14, <3>15
      DEF CopyInv
  <2>2. CASE CopyCalls  BY <2>2, CallsEnter
  <2>3. CASE Return
    <3>1. CallTyped' /\ op' = "none"
      <4>1. mem \in [Addresses -> Values]  BY DEF CopyInv, CallTyped
      <4>2. mem' = mem /\ op' = "none" /\ call' = NoCall(mem)  BY <2>3 DEF Return
      <4> QED  BY <4>1, <4>2 DEF CallTyped, NoCall
    <3> QED  BY <3>1 DEF CopyInv, CopiesExact
  <2>4. CASE CopyLoops
    BY <2>3, <2>4, FillKeeps, ForwardKeeps, BackwardKeeps, StringKeeps, CountedKeeps,
       PadBeginsKeeps, PadKeeps DEF CopyLoops
  <2> QED  BY <2>1, <2>2, <2>4, CopySteps
<1>3. CopyInv => CopiesExact  BY DEF CopyInv
<1> QED  BY <1>1, <1>2, <1>3, PTL DEF Spec

-----------------------------------------------------------------------------
(* Painting. *)

Rectangles == [x : Int, y : Int, w : Int, h : Int]

\* A span that is cut is what the screen has of it, or nothing.
LEMMA ClipExact ==
  ASSUME NEW from \in Int, NEW count \in Int, NEW extent \in Nat \ {0}
  PROVE  /\ Clip(from, count, extent).count <= 0 <=>
               Places(from, count) \cap (0 .. extent - 1) = {}
         /\ Clip(from, count, extent).count > 0 =>
               Places(Clip(from, count, extent).from, Clip(from, count, extent).count)
                  = Places(from, count) \cap (0 .. extent - 1)
<1>1. PICK start \in Int, size \in Int :
         /\ Clip(from, count, extent).from = start
         /\ Clip(from, count, extent).count = size
         /\ start = IF from < 0 THEN 0 ELSE from
         /\ \E rest \in Int : /\ rest = IF from < 0 THEN count + from ELSE count
                              /\ size = IF start + rest > extent THEN extent - start ELSE rest
  BY DEF Clip
<1>2. PICK rest \in Int : /\ rest = IF from < 0 THEN count + from ELSE count
                          /\ size = IF start + rest > extent THEN extent - start ELSE rest
  BY <1>1
<1>3. CASE size <= 0
  <2>1. \A p \in 0 .. extent - 1 : p \notin Places(from, count)
    BY <1>1, <1>2, <1>3 DEF Places
  <2> QED  BY <1>1, <1>3, <2>1
<1>4. CASE size > 0
  <2>1. Places(start, size) = Places(from, count) \cap (0 .. extent - 1)
    BY <1>1, <1>2, <1>4 DEF Places
  <2>2. start \in Places(start, size)  BY <1>4 DEF Places
  <2> QED  BY <1>1, <1>4, <2>1, <2>2
<1> QED  BY <1>3, <1>4

\* Whatever rectangle is asked for, the screen gets what it has of it.
LEMMA FillClips ==
  ASSUME NEW frame, frame.width \in Nat \ {0}, frame.height \in Nat \ {0},
         NEW r \in Rectangles, Fill(frame, r)
  PROVE  RectsClipped(frame)'
<1>1. PICK across, down : /\ across = Clip(r.x, r.w, frame.width)
                          /\ down = Clip(r.y, r.h, frame.height)
  OBVIOUS
<1>2. /\ asked' = r
      /\ painted' = IF ~frame.base \/ across.count <= 0 \/ down.count <= 0
                    THEN <<Empty, Empty>> ELSE <<across, down>>
  BY <1>1 DEF Fill
<1>3. PICK A, D : /\ A = Places(r.x, r.w) \cap (0 .. frame.width - 1)
                  /\ D = Places(r.y, r.h) \cap (0 .. frame.height - 1)
  OBVIOUS
<1>4. /\ across.count \in Int
      /\ across.count <= 0 <=> A = {}
      /\ across.count > 0 => Places(across.from, across.count) = A
  BY <1>1, <1>3, ClipExact DEF Rectangles, Clip
<1>5. /\ down.count \in Int
      /\ down.count <= 0 <=> D = {}
      /\ down.count > 0 => Places(down.from, down.count) = D
  BY <1>1, <1>3, ClipExact DEF Rectangles, Clip
<1>6. CASE ~frame.base
  <2>1. painted' = <<Empty, Empty>>  BY <1>2, <1>6, Zenon
  <2> QED  BY <1>6, <2>1, Zenon DEF RectsClipped
<1>7. CASE frame.base /\ (across.count <= 0 \/ down.count <= 0)
  <2>1. painted' = <<Empty, Empty>>  BY <1>2, <1>7, Zenon
  <2>2. across.count <= 0 \/ down.count <= 0  BY <1>7, Zenon
  <2>3. A = {} \/ D = {}  BY <1>4, <1>5, <2>2
  <2> QED  BY <1>2, <1>3, <2>1, <2>3 DEF RectsClipped
<1>8. CASE frame.base /\ ~(across.count <= 0 \/ down.count <= 0)
  <2>1. painted' = <<across, down>>  BY <1>2, <1>8, Zenon
  <2>6. ~(across.count <= 0 \/ down.count <= 0)  BY <1>8, Zenon
  <2>2. across.count > 0 /\ down.count > 0  BY <1>4, <1>5, <2>6
  <2>3. /\ painted'[1] = across /\ painted'[2] = down  BY <2>1
  <2>4. /\ Places(painted'[1].from, painted'[1].count) = A
        /\ Places(painted'[2].from, painted'[2].count) = D
        /\ A # {} /\ D # {}
    BY <1>4, <1>5, <2>2, <2>3
  <2>5. /\ Places(asked'.x, asked'.w) \cap (0 .. frame.width - 1) = A
        /\ Places(asked'.y, asked'.h) \cap (0 .. frame.height - 1) = D
    BY <1>2, <1>3
  <2> QED  BY <1>8, <2>4, <2>5, Zenon DEF RectsClipped
<1> QED  BY <1>6, <1>7, <1>8, Zenon

\* A frame of DOOM on a screen: the scale and the place of an axis.
LEMMA ScaleLargest ==
  ASSUME NEW width \in Nat \ {0},
         NEW scale, scale = IF width > RESX THEN width \div RESX ELSE 1
  PROVE  scale \in 1 .. width /\ Largest(scale, width)
<1>1. RESX \in Nat \ {0}  BY DoomSizes
<1>2. CASE width > RESX
  <2>1. PICK q, r : q = width \div RESX /\ r = width % RESX  OBVIOUS
  <2>2. q \in Int /\ r \in 0 .. RESX - 1 /\ width = RESX * q + r
    BY <1>1, <2>1, DivMod
  <2>3. q >= 1
    <3>1. CASE q <= 0
      <4>1. RESX * q <= 0  BY <1>1, <2>2, <3>1
      <4> QED  BY <1>1, <1>2, <2>2, <4>1
    <3> QED  BY <2>2, <3>1
  <2>4. q <= width
    <3>1. RESX * q >= q  BY <1>1, <2>2, <2>3
    <3> QED  BY <2>2, <3>1, <1>1
  <2>5. RESX * q <= width  BY <1>1, <2>2
  <2>6. RESX * (q + 1) = RESX * q + RESX  BY <1>1, <2>2
  <2>7. RESX * (q + 1) > width  BY <1>1, <2>2, <2>6
  <2> QED  BY <1>2, <2>1, <2>2, <2>3, <2>4, <2>5, <2>7 DEF Largest
<1>3. CASE ~(width > RESX)
  BY <1>1, <1>3 DEF Largest
<1> QED  BY <1>2, <1>3

LEMMA SpreadCentred ==
  ASSUME NEW size \in Nat \ {0}, NEW scale \in Nat \ {0}, NEW extent \in Nat \ {0}
  PROVE  Centred(Spread(size, Half(extent - size * scale), scale, extent), size, scale, extent)
<1>1. PICK total, start : total = size * scale /\ start = Half(extent - total)  OBVIOUS
<1>2. total \in Nat /\ total \in Int  BY <1>1
<1>3. /\ start \in Int /\ start \in -total .. extent
      /\ 2 * start - (extent - total) \in -1 .. 1
  BY <1>1, <1>2 DEF Half
<1>4. \A k \in Nat : (k + 1) * scale = k * scale + scale /\ k * scale \in Nat
  OBVIOUS
<1>5. PICK pairs : pairs = Spread(size, start, scale, extent)  OBVIOUS
<1>6. ASSUME NEW place \in 0 .. extent - 1, NEW k
      PROVE  k \in ShownAt(pairs, place) <=>
                /\ k \in 0 .. size - 1
                /\ place \in start + k * scale .. start + (k + 1) * scale - 1
  <2>1. ASSUME k \in ShownAt(pairs, place)
        PROVE  /\ k \in 0 .. size - 1
               /\ place \in start + k * scale .. start + (k + 1) * scale - 1
    <3>1. PICK p \in pairs : p[1] = place /\ p[2] = k  BY <2>1 DEF ShownAt
    <3>2. PICK i \in 0 .. size - 1, sub \in 0 .. scale - 1 :
             p = <<start + i * scale + sub, i>>
      BY <1>5, <3>1 DEF Spread
    <3>3. k = i /\ place = start + i * scale + sub  BY <3>1, <3>2
    <3>4. (i + 1) * scale = i * scale + scale /\ i * scale \in Nat  BY <1>4
    <3> QED  BY <1>3, <3>3, <3>4
  <2>2. ASSUME /\ k \in 0 .. size - 1
               /\ place \in start + k * scale .. start + (k + 1) * scale - 1
        PROVE  k \in ShownAt(pairs, place)
    <3>1. (k + 1) * scale = k * scale + scale /\ k * scale \in Nat  BY <1>4, <2>2
    <3>2. PICK sub : sub = place - (start + k * scale)  OBVIOUS
    <3>3. sub \in 0 .. scale - 1 /\ start + k * scale + sub = place
      BY <1>3, <2>2, <3>1, <3>2
    <3>4. <<place, k>> \in pairs
      BY <1>5, <2>2, <3>3 DEF Spread
    <3>5. <<place, k>>[1] = place /\ <<place, k>>[2] = k  OBVIOUS
    <3> QED  BY <3>4, <3>5 DEF ShownAt
  <2> QED  BY <2>1, <2>2
<1>7. \A place \in 0 .. extent - 1 :
         ShownAt(pairs, place) =
            { k \in 0 .. size - 1 :
                place \in start + k * scale .. start + (k + 1) * scale - 1 }
  BY <1>6
<1>8. -size * scale = -total  BY <1>1
<1> QED  BY <1>1, <1>3, <1>5, <1>7, <1>8 DEF Centred

\* The picture is as large as the width allows and in the middle, on every screen.
LEMMA FrameIsRight ==
  ASSUME NEW frame, frame.width \in Nat \ {0}, frame.height \in Nat \ {0}
  PROVE  FrameRight(frame)
<1>1. RESX \in Nat \ {0} /\ RESY \in Nat \ {0}  BY DoomSizes
<1>2. PICK scale : scale = s_scale(frame)  OBVIOUS
<1>3. scale \in 1 .. frame.width /\ Largest(scale, frame.width)
  BY <1>2, ScaleLargest DEF s_scale
<1>4. scale \in Nat \ {0}  BY <1>3
<1>5. Centred(FrameColumns(frame), RESX, scale, frame.width)
  BY <1>1, <1>2, <1>4, SpreadCentred DEF FrameColumns, s_offset_x
<1>6. Centred(FrameRows(frame), RESY, scale, frame.height)
  BY <1>1, <1>2, <1>4, SpreadCentred DEF FrameRows, s_offset_y
<1> QED  BY <1>3, <1>5, <1>6 DEF FrameRight

\* The glyphs before a place take twelve pixels each, a space two less; so the
\* routine's running place is a number, and a line of text is rectangles.
Letters == {"glyph", "space"}
Spaces(chars, i) == { j \in 1 .. i - 1 : chars[j] = "space" }

LEMMA SpacesOne ==
  ASSUME NEW chars \in Seq(Letters), NEW i \in 1 .. Len(chars), i # 1
  PROVE  /\ Cardinality(Spaces(chars, i)) \in Nat /\ Cardinality(Spaces(chars, i - 1)) \in Nat
         /\ Cardinality(Spaces(chars, i)) =
               Cardinality(Spaces(chars, i - 1)) + (IF chars[i - 1] = "space" THEN 1 ELSE 0)
<1>1. \A k \in Int : IsFiniteSet(Spaces(chars, k)) /\ Cardinality(Spaces(chars, k)) \in Nat
  <2> TAKE k \in Int
  <2>1. IsFiniteSet(1 .. k - 1)  BY FS_Interval
  <2>2. Spaces(chars, k) \subseteq 1 .. k - 1  BY DEF Spaces
  <2> QED  BY <2>1, <2>2, FS_Subset, FS_CardinalityType
<1>2. i - 1 \notin Spaces(chars, i - 1)  BY DEF Spaces
<1>3. CASE chars[i - 1] = "space"
  <2>1. Spaces(chars, i) = Spaces(chars, i - 1) \cup {i - 1}  BY <1>3 DEF Spaces
  <2>2. IsFiniteSet(Spaces(chars, i - 1)) /\ i \in Int  BY <1>1
  <2>3. Cardinality(Spaces(chars, i - 1) \cup {i - 1}) = Cardinality(Spaces(chars, i - 1)) + 1
    BY <1>2, <2>2, FS_AddElement
  <2>4. Cardinality(Spaces(chars, i)) = Cardinality(Spaces(chars, i - 1)) + 1
    BY <2>1, <2>3, Zenon
  <2>5. /\ Cardinality(Spaces(chars, i)) \in Nat
        /\ Cardinality(Spaces(chars, i - 1)) \in Nat
    BY <1>1, <2>2
  <2> QED  BY <1>3, <2>4, <2>5
<1>4. CASE chars[i - 1] # "space"
  <2>1. Spaces(chars, i) = Spaces(chars, i - 1)  BY <1>4 DEF Spaces
  <2> QED  BY <1>1, <1>4, <2>1
<1> QED  BY <1>3, <1>4

LEMMA TextIsRectangles ==
  ASSUME NEW x \in Int, NEW y \in Int, NEW chars \in Seq(Letters)
  PROVE  TextBoxes(x, y, chars) \in Seq(Rectangles)
<1> DEFINE Advance(c) == IF c = "space" THEN 10 ELSE 12
           Step(f) == [i \in 1 .. Len(chars) |->
                          IF i = 1 THEN x ELSE f[i - 1] + Advance(chars[i - 1])]
           at == CHOOSE f : f = Step(f)
<1>1. \E f : f = Step(f)
  <2> DEFINE f == [i \in 1 .. Len(chars) |->
                      x + 12 * (i - 1) - 2 * Cardinality(Spaces(chars, i))]
  <2>1. ASSUME NEW i \in 1 .. Len(chars)
        PROVE  f[i] = IF i = 1 THEN x ELSE f[i - 1] + Advance(chars[i - 1])
    <3>1. CASE i = 1
      <4>1. Spaces(chars, i) = {}  BY <3>1 DEF Spaces
      <4> QED  BY <3>1, <4>1, FS_EmptySet
    <3>2. CASE i # 1
      <4>1. PICK a, b \in Nat : /\ a = Cardinality(Spaces(chars, i))
                                /\ b = Cardinality(Spaces(chars, i - 1))
                                /\ a = b + (IF chars[i - 1] = "space" THEN 1 ELSE 0)
        BY <3>2, SpacesOne
      <4>2. i \in Int /\ i - 1 \in 1 .. Len(chars)  BY <3>2
      <4>3. f[i] = x + 12 * (i - 1) - 2 * Cardinality(Spaces(chars, i))  BY <4>2
      <4>4. f[i - 1] = x + 12 * ((i - 1) - 1) - 2 * Cardinality(Spaces(chars, i - 1))
        BY <4>2
      <4>5. f[i] = x + 12 * (i - 1) - 2 * a  BY <4>1, <4>3
      <4>6. f[i - 1] = x + 12 * ((i - 1) - 1) - 2 * b  BY <4>1, <4>4
      <4>7. CASE chars[i - 1] = "space"
        <5>1. a = b + 1 /\ Advance(chars[i - 1]) = 10  BY <4>1, <4>7
        <5> HIDE DEF f, Advance
        <5> QED  BY <3>2, <4>2, <4>5, <4>6, <5>1
      <4>8. CASE chars[i - 1] # "space"
        <5>1. a = b /\ Advance(chars[i - 1]) = 12  BY <4>1, <4>8
        <5> HIDE DEF f, Advance
        <5> QED  BY <3>2, <4>2, <4>5, <4>6, <5>1
      <4> QED  BY <4>7, <4>8
    <3> QED  BY <3>1, <3>2
  <2>2. f = Step(f)  BY <2>1
  <2> QED  BY <2>2
<1>2. at = Step(at)  BY <1>1
<1>3. \A i \in 1 .. Len(chars) : at[i] \in Int
  <2> DEFINE Bad == { i \in 1 .. Len(chars) : at[i] \notin Int }
  <2> SUFFICES ASSUME Bad # {}  PROVE FALSE
    OBVIOUS
  <2>1. Bad \subseteq Nat  BY LenProperties
  <2>2. PICK i \in Bad : \A j \in Bad : i <= j  BY <2>1, LeastOf
  <2>3. at[i] = IF i = 1 THEN x ELSE at[i - 1] + Advance(chars[i - 1])
    BY <1>2, <2>2
  <2>4. i # 1  BY <2>3
  <2>5. i - 1 \in 1 .. Len(chars) /\ i - 1 \notin Bad  BY <2>2, <2>4
  <2>6. at[i - 1] \in Int  BY <2>5
  <2> QED  BY <2>2, <2>3, <2>4, <2>6
<1>4. TextBoxes(x, y, chars) =
        [i \in 1 .. Len(chars) |->
            IF chars[i] = "space" THEN NoRect ELSE Rect(at[i], y, 10, 14)]
  BY DEF TextBoxes
<1>5. \A i \in 1 .. Len(chars) :
         (IF chars[i] = "space" THEN NoRect ELSE Rect(at[i], y, 10, 14)) \in Rectangles
  BY <1>3 DEF Rectangles, Rect, NoRect
<1> HIDE DEF at
<1> QED  BY <1>4, <1>5, LenProperties

\* The pictures are rectangles.
LEMMA LettersAreText ==
  /\ \A len \in Nat : Word(len) \in Seq(Letters)
  /\ \A a, b \in Nat : Words(a, b) \in Seq(Letters)
<1>1. \A len \in Nat : Word(len) \in Seq(Letters)
  <2> TAKE len \in Nat
  <2>1. \A i \in 1 .. len : "glyph" \in Letters  BY DEF Letters
  <2> QED  BY <2>1 DEF Word
<1>2. <<"space">> \in Seq(Letters)
  BY DEF Letters
<1>3. ASSUME NEW a \in Nat, NEW b \in Nat  PROVE Words(a, b) \in Seq(Letters)
  <2>1. Word(a) \in Seq(Letters) /\ Word(b) \in Seq(Letters)  BY <1>1
  <2>2. Word(a) \o <<"space">> \in Seq(Letters)  BY <1>2, <2>1, ConcatProperties
  <2> QED  BY <2>1, <2>2, ConcatProperties DEF Words
<1> QED  BY <1>1, <1>3

LEMMA DashboardIsRectangles ==
  ASSUME NEW frame, frame.width \in Nat \ {0}, frame.height \in Nat \ {0}
  PROVE  draw_dashboard(frame) \in Seq(Rectangles)
<1>1. \A s1, s2 \in Seq(Rectangles) : s1 \o s2 \in Seq(Rectangles)
  BY ConcatProperties
<1>2. \A s1, s2 \in Seq(Letters) : s1 \o s2 \in Seq(Letters)
  BY ConcatProperties
<1>3. \A a, b \in Int, chars \in Seq(Letters) : TextBoxes(a, b, chars) \in Seq(Rectangles)
  BY TextIsRectangles
<1>4. /\ Words(3, 6) \o <<"space">> \o Word(3) \in Seq(Letters)
      /\ Words(3, 5) \o <<"space">> \o Word(2) \in Seq(Letters)
      /\ Words(6, 6) \in Seq(Letters) /\ Words(11, 2) \in Seq(Letters)
      /\ Words(12, 4) \in Seq(Letters)
  <2>1. <<"space">> \in Seq(Letters)  BY DEF Letters
  <2> QED  BY <1>2, <2>1, LettersAreText
<1>5. Words(5, 3) \o <<"space">> \o Words(2, 6) \in Seq(Letters)
  <2>1. <<"space">> \in Seq(Letters)  BY DEF Letters
  <2> QED  BY <1>2, <2>1, LettersAreText
<1>6. /\ << Rect(0, 0, frame.width, frame.height), Rect(0, 0, frame.width, 42) >>
            \in Seq(Rectangles)
      /\ << Rect(64, 90, 896, 520), Rect(64, 90, 8, 520) >> \in Seq(Rectangles)
      /\ << Rect(104, 420, 720, 26), Rect(104, 420, 520, 26) >> \in Seq(Rectangles)
  BY DEF Rect, Rectangles
<1> DEFINE top == << Rect(0, 0, frame.width, frame.height), Rect(0, 0, frame.width, 42) >>
           panel == << Rect(64, 90, 896, 520), Rect(64, 90, 8, 520) >>
           bars == << Rect(104, 420, 720, 26), Rect(104, 420, 520, 26) >>
           t1 == TextBoxes(24, 14, Words(6, 6))
           t2 == TextBoxes(104, 126, Words(3, 6) \o <<"space">> \o Word(3))
           t3 == TextBoxes(104, 176, Words(11, 2))
           t4 == TextBoxes(104, 216, Words(3, 5) \o <<"space">> \o Word(2))
           t5 == TextBoxes(104, 256, Words(12, 4))
           t6 == TextBoxes(104, 330, Words(5, 3) \o <<"space">> \o Words(2, 6))
           t7 == TextBoxes(126, 426, Words(6, 6))
<1>8. draw_dashboard(frame) =
         top \o t1 \o panel \o t2 \o t3 \o t4 \o t5 \o t6 \o bars \o t7
  BY Zenon DEF draw_dashboard
<1>9. top \in Seq(Rectangles) /\ panel \in Seq(Rectangles) /\ bars \in Seq(Rectangles)
  BY <1>6, Zenon
<1>10. t1 \in Seq(Rectangles) /\ t3 \in Seq(Rectangles) /\ t5 \in Seq(Rectangles)
  <2>1. t1 \in Seq(Rectangles)  BY <1>4, TextIsRectangles
  <2>2. t3 \in Seq(Rectangles)  BY <1>4, TextIsRectangles
  <2>3. t5 \in Seq(Rectangles)  BY <1>4, TextIsRectangles
  <2> QED  BY <2>1, <2>2, <2>3, Zenon
<1>11. t2 \in Seq(Rectangles) /\ t4 \in Seq(Rectangles)
  <2>1. TextBoxes(104, 126, Words(3, 6) \o <<"space">> \o Word(3)) \in Seq(Rectangles)
    <3>1. PICK line \in Seq(Letters) : line = Words(3, 6) \o <<"space">> \o Word(3)
      BY <1>4, Zenon
    <3>2. TextBoxes(104, 126, line) \in Seq(Rectangles)  BY TextIsRectangles
    <3> QED  BY <3>1, <3>2, Zenon
  <2>2. TextBoxes(104, 216, Words(3, 5) \o <<"space">> \o Word(2)) \in Seq(Rectangles)
    <3>1. PICK line \in Seq(Letters) : line = Words(3, 5) \o <<"space">> \o Word(2)
      BY <1>4, Zenon
    <3>2. TextBoxes(104, 216, line) \in Seq(Rectangles)  BY TextIsRectangles
    <3> QED  BY <3>1, <3>2, Zenon
  <2> QED  BY <2>1, <2>2, Zenon
<1>12. t6 \in Seq(Rectangles) /\ t7 \in Seq(Rectangles)
  <2>1. TextBoxes(104, 330, Words(5, 3) \o <<"space">> \o Words(2, 6)) \in Seq(Rectangles)
    <3>1. PICK line \in Seq(Letters) : line = Words(5, 3) \o <<"space">> \o Words(2, 6)
      BY <1>5, Zenon
    <3>2. TextBoxes(104, 330, line) \in Seq(Rectangles)  BY TextIsRectangles
    <3> QED  BY <3>1, <3>2, Zenon
  <2>2. TextBoxes(126, 426, Words(6, 6)) \in Seq(Rectangles)
    BY <1>4, TextIsRectangles
  <2> QED  BY <2>1, <2>2, Zenon
<1> HIDE DEF top, panel, bars, t1, t2, t3, t4, t5, t6, t7
<1>13. top \o t1 \o panel \o t2 \in Seq(Rectangles)  BY <1>1, <1>9, <1>10, <1>11
<1>14. top \o t1 \o panel \o t2 \o t3 \o t4 \o t5 \in Seq(Rectangles)
  BY <1>1, <1>13, <1>10, <1>11
<1> QED  BY <1>1, <1>8, <1>14, <1>9, <1>12

LEMMA GuiIsRectangles ==
  ASSUME NEW frame, frame.width \in Nat \ {0}, frame.height \in Nat \ {0}
  PROVE  GuiPicture(frame) \in Seq(Rectangles)
<1>1. PICK half : half = frame.width \div 2  OBVIOUS
<1>2. half \in Int  BY <1>1
<1>3. << Compositor_frame(frame), draw_menubar(frame), draw_dock(frame),
         draw_mission_control(frame), draw_notification(frame), draw_spotlight(frame) >>
        \in Seq(Rectangles)
  BY <1>1, <1>2 DEF Compositor_frame, draw_menubar, draw_dock, draw_mission_control,
     draw_notification, draw_spotlight, Rect, Rectangles
<1>4. draw_text(frame.width - 12, 8, 3) \in Seq(Rectangles)
  BY IsASeq DEF draw_text, Rect, Rectangles
<1> QED  BY <1>3, <1>4, ConcatProperties DEF GuiPicture

-----------------------------------------------------------------------------
(* What is painted: the screen is one of the run's, what is left to draw are *)
(* rectangles, and the last one got what the screen has of it.               *)

OnScreen ==
    /\ fb.width \in Nat \ {0} /\ fb.height \in Nat \ {0}

PaintInv ==
    /\ OnScreen
    /\ program \in {"dashboard", "gui"} => drawing \in Seq(Rectangles)
    /\ program \in {"dashboard", "gui", "canvas"} => RectsClipped(fb)

LEMMA FillKeepsClipped ==
  ASSUME OnScreen, UNCHANGED fb, NEW r \in Rectangles, Fill(fb, r)
  PROVE  RectsClipped(fb)'
<1>1. PICK frame : frame = fb  OBVIOUS
<1>2. fb' = frame /\ frame.width \in Nat \ {0} /\ frame.height \in Nat \ {0}
  BY <1>1 DEF OnScreen
<1>3. Fill(frame, r)  BY <1>1, Zenon
<1>4. RectsClipped(frame)'  BY <1>2, <1>3, FillClips
<1> QED  BY <1>2, <1>4, Zenon DEF RectsClipped

LEMMA NextFilled ==
  ASSUME OnScreen, UNCHANGED fb, drawing \in Seq(Rectangles), FillNext(fb)
  PROVE  drawing' \in Seq(Rectangles) /\ RectsClipped(fb)'
<1>1. drawing # <<>> /\ Fill(fb, Head(drawing)) /\ drawing' = Tail(drawing)
  BY DEF FillNext
<1>2. Head(drawing) \in Rectangles /\ Tail(drawing) \in Seq(Rectangles)
  BY <1>1, HeadTailProperties
<1>3. PICK r \in Rectangles : r = Head(drawing)  BY <1>2
<1>4. Fill(fb, r)  BY <1>1, <1>3, Zenon
<1> QED  BY <1>1, <1>2, <1>4, FillKeepsClipped

\* A step that paints nothing.
LEMMA NothingPainted ==
  ASSUME PaintInv, UNCHANGED <<paintVars, program, fb>>
  PROVE  PaintInv'
<1>1. drawing' = drawing /\ asked' = asked /\ painted' = painted
  BY DEF paintVars
<1>2. program' = program /\ fb' = fb  OBVIOUS
<1>3. OnScreen'  BY <1>2 DEF OnScreen, PaintInv
<1>4. RectsClipped(fb) => RectsClipped(fb)'  BY <1>1, <1>2, Zenon DEF RectsClipped
<1> QED  BY <1>1, <1>2, <1>3, <1>4 DEF PaintInv

LEMMA PaintingStarts ==
  ASSUME Init
  PROVE  PaintInv
<1>1. OnScreen  BY ProgramValues DEF Init, OnScreen
<1>2. asked = NoRect /\ painted = <<Empty, Empty>>
  BY DEF Init, DashboardInit
<1>3. RectsClipped(fb)
  <2>1. Places(asked.x, asked.w) = {}  BY <1>2 DEF NoRect, Rect, Places
  <2>2. Places(asked.x, asked.w) \cap (0 .. fb.width - 1) = {}  BY <2>1, Zenon
  <2> QED  BY <1>2, <2>2, Zenon DEF RectsClipped
<1>4. program = "dashboard" => drawing \in Seq(Rectangles)
  BY <1>1, DashboardIsRectangles DEF Init, DashboardInit, OnScreen
<1>5. program = "gui" => drawing \in Seq(Rectangles)
  BY <1>1, GuiIsRectangles DEF Init, OnScreen
<1> QED  BY <1>1, <1>3, <1>4, <1>5 DEF PaintInv

\* What is painted is what was asked for as far as the screen reaches, and DOOM's
\* picture is as large as the width allows and in the middle, on every screen.
THEOREM PaintedCorrect == Spec => []PaintedRight
<1>1. Init => PaintInv  BY PaintingStarts
<1>2. PaintInv /\ [Next]_vars => PaintInv'
  <2> SUFFICES ASSUME PaintInv, [Next]_vars  PROVE PaintInv'
    OBVIOUS
  <2>1. CASE UNCHANGED vars
    BY <2>1, NothingPainted DEF vars, dashVars, paintVars
  <2>2. CASE Doom \/ DoomFrames \/ LibraryHeap \/ LibraryCopies
    BY <2>2, NothingPainted DEF Doom, DoomFrames, LibraryHeap, LibraryCopies, NoDash, Same,
       dashVars, paintVars
  <2>3. CASE Dashboard_start
    <3>1. program = "dashboard" /\ DashboardNext(fb) /\ UNCHANGED <<program, fb>>
      BY <2>3 DEF Dashboard_start, Same
    <3>2. CASE Draws(fb)
      <4>1. drawing \in Seq(Rectangles) /\ OnScreen /\ FillNext(fb)
        BY <3>1, <3>2 DEF PaintInv, Draws
      <4>2. drawing' \in Seq(Rectangles) /\ RectsClipped(fb)'  BY <3>1, <4>1, NextFilled
      <4> QED  BY <3>1, <4>1, <4>2 DEF PaintInv, OnScreen
    <3>3. CASE KeyAvailable \/ ReadKey \/ UNCHANGED dashVars
      BY <3>1, <3>3, NothingPainted DEF KeyAvailable, ReadKey, dashVars, paintVars
    <3> QED  BY <3>1, <3>2, <3>3 DEF DashboardNext, DashboardStep
  <2>4. CASE GuiDraws
    <3>1. program = "gui" /\ FillNext(fb) /\ UNCHANGED <<program, fb>>
      BY <2>4 DEF GuiDraws, Same
    <3>2. drawing \in Seq(Rectangles) /\ OnScreen  BY <3>1 DEF PaintInv
    <3>3. drawing' \in Seq(Rectangles) /\ RectsClipped(fb)'  BY <3>1, <3>2, NextFilled
    <3> QED  BY <3>1, <3>2, <3>3 DEF PaintInv, OnScreen
  <2>5. CASE CanvasFills
    <3>1. program = "canvas" /\ UNCHANGED <<program, fb>> /\ OnScreen
      BY <2>5 DEF CanvasFills, Same, PaintInv
    <3>2. PICK r \in Rectangles : Fill(fb, r)
      BY <2>5, ProgramValues DEF CanvasFills, Rectangles
    <3>3. RectsClipped(fb)'  BY <3>1, <3>2, FillKeepsClipped
    <3> QED  BY <3>1, <3>3 DEF PaintInv, OnScreen
  <2> QED  BY <2>1, <2>2, <2>3, <2>4, <2>5 DEF Next
<1>3. PaintInv => PaintedRight
  BY FrameIsRight DEF PaintInv, PaintedRight, OnScreen
<1> QED  BY <1>1, <1>2, <1>3, PTL DEF Spec

-----------------------------------------------------------------------------
(* The string routines of the port. *)

Texts == Seq(1 .. 255)

LEMMA LeastIs ==
  ASSUME NEW T, T \subseteq Nat, T # {}
  PROVE  Min(T) \in T /\ \A y \in T : Min(T) <= y
BY LeastOf DEF Min

LEMMA GreatestIs ==
  ASSUME NEW len \in Nat, NEW T, T \subseteq 0 .. len, T # {}
  PROVE  Max(T) \in T /\ \A y \in T : y <= Max(T)
<1> DEFINE Mirror == { len - x : x \in T }
<1>1. Mirror \subseteq Nat /\ Mirror # {}
  <2>1. \A x \in T : x \in 0 .. len /\ len - x \in Nat  OBVIOUS
  <2> QED  BY <2>1
<1>2. PICK z \in Mirror : \A y \in Mirror : z <= y  BY <1>1, LeastOf
<1>3. PICK x \in T : z = len - x  BY <1>2
<1>4. \A y \in T : x >= y
  <2> TAKE y \in T
  <2>1. len - y \in Mirror  OBVIOUS
  <2> HIDE DEF Mirror
  <2> QED  BY <1>2, <1>3, <2>1
<1>5. Max(T) \in T /\ \A y \in T : Max(T) >= y  BY <1>3, <1>4 DEF Max
<1> QED  BY <1>5

LEMMA BeginAt ==
  ASSUME NEW a, NEW len \in Nat, NEW j \in 1 .. len
  PROVE  SubSeq(a, 1, len)[j] = a[j]
<1> DEFINE S == { a[i] : i \in 1 .. len }
<1>1. \A i \in 1 .. len : a[i] \in S  OBVIOUS
<1> HIDE DEF S
<1>2. \A i \in 1 .. len - 1 + 1 : SubSeq(a, 1, len)[i] = a[1 + i - 1]
  BY <1>1, SubSeqProperties
<1> QED  BY <1>2

LEMMA TextHas ==
  ASSUME NEW a \in Texts
  PROVE  /\ Len(a) \in Nat
         /\ \A j \in 1 .. Len(a) : a[j] \in 1 .. 255 /\ At(a, j) = a[j]
         /\ \A j \in Nat \ {0} : At(a, j) \in 0 .. 255 /\ (At(a, j) = 0 <=> j > Len(a))
<1>1. Len(a) \in Nat /\ a \in [1 .. Len(a) -> 1 .. 255]
  BY LenProperties DEF Texts
<1>2. ASSUME NEW j \in 1 .. Len(a)
      PROVE  a[j] \in 1 .. 255 /\ At(a, j) = a[j]
  <2>1. a[j] \in 1 .. 255  BY <1>1
  <2>2. j <= Len(a)  BY <1>1
  <2> QED  BY <2>1, <2>2, Zenon DEF At
<1>3. ASSUME NEW j \in Nat \ {0}
      PROVE  At(a, j) \in 0 .. 255 /\ (At(a, j) = 0 <=> j > Len(a))
  <2>1. CASE j <= Len(a)
    <3>1. j \in 1 .. Len(a)  BY <1>1, <2>1
    <3>2. a[j] \in 1 .. 255 /\ At(a, j) = a[j]  BY <1>2, <3>1
    <3>3. At(a, j) \in 1 .. 255  BY <3>2, Zenon
    <3>4. At(a, j) # 0  BY <3>3
    <3>5. At(a, j) \in 0 .. 255  BY <3>3
    <3> QED  BY <1>1, <2>1, <3>4, <3>5
  <2>2. CASE j > Len(a)  BY <1>1, <2>2 DEF At
  <2> QED  BY <1>1, <2>1, <2>2
<1> QED  BY <1>1, <1>2, <1>3

\* The first bytes of a string.
LEMMA BeginIs ==
  ASSUME NEW a \in Texts, NEW len \in Nat, len <= Len(a)
  PROVE  /\ SubSeq(a, 1, len) \in Texts
         /\ Len(SubSeq(a, 1, len)) = len
         /\ \A i \in 1 .. len : SubSeq(a, 1, len)[i] = a[i]
<1>1. \A i \in 1 .. len : a[i] \in 1 .. 255  BY TextHas
<1>2. /\ SubSeq(a, 1, len) \in Texts
      /\ Len(SubSeq(a, 1, len)) = IF 1 <= len THEN len - 1 + 1 ELSE 0
  BY <1>1, SubSeqProperties DEF Texts
<1> QED  BY <1>2, BeginAt

\* Two strings with the same bytes up to a place, where they differ or end, are
\* ordered as their bytes at this place.
LEMMA OrderAt ==
  ASSUME NEW a \in Texts, NEW b \in Texts, NEW i \in Nat \ {0},
         \A j \in 1 .. i - 1 : At(a, j) = At(b, j) /\ At(a, j) # 0,
         At(a, i) # At(b, i) \/ At(a, i) = 0
  PROVE  Ordered(a, b) = Sign(At(a, i) - At(b, i))
<1>1. /\ Len(a) \in Nat /\ \A j \in 1 .. Len(a) : a[j] \in 1 .. 255
      /\ Len(b) \in Nat /\ \A j \in 1 .. Len(b) : b[j] \in 1 .. 255
  BY TextHas
<1>2. i <= Len(a) + 1 /\ i <= Len(b) + 1
  <2>1. CASE i = 1  BY <1>1, <2>1
  <2>2. CASE i # 1
    <3>1. i - 1 \in 1 .. i - 1  BY <2>2
    <3>2. At(a, i - 1) # 0 /\ At(b, i - 1) # 0  BY <3>1
    <3> QED  BY <1>1, <3>2 DEF At
  <2> QED  BY <2>1, <2>2
<1>3. \A j \in 1 .. i - 1 : a[j] = b[j]
  BY <1>1, <1>2 DEF At
<1> PICK x \in 0 .. 255, y \in 0 .. 255 : x = At(a, i) /\ y = At(b, i)
  BY TextHas
<1>4. CASE At(a, i) = At(b, i)
  <2>1. i = Len(a) + 1 /\ i = Len(b) + 1
    <3>1. At(a, i) = 0 /\ At(b, i) = 0  BY <1>4
    <3>2. ~(i <= Len(a)) /\ ~(i <= Len(b))  BY <1>1, <3>1, TextHas
    <3> QED  BY <1>1, <1>2, <3>2
  <2>2. a = b  BY <1>1, <1>3, <2>1, SeqEqual DEF Texts
  <2> QED  BY <1>4, <2>2, <1>1, <2>1 DEF Ordered, Sign, At
<1>5. CASE At(a, i) # At(b, i) /\ i = Len(a) + 1
  <2>1. i <= Len(b) /\ At(a, i) = 0 /\ At(b, i) \in 1 .. 255
    BY <1>1, <1>2, <1>5 DEF At
  <2>2. a # b /\ Len(a) <= Len(b)  BY <1>1, <1>5, <2>1
  <2>3. a = SubSeq(b, 1, Len(a))
    <3>1. PICK c : c = SubSeq(b, 1, Len(a))  OBVIOUS
    <3>2. /\ c \in Texts /\ Len(c) = Len(a)
          /\ \A j \in 1 .. Len(a) : c[j] = b[j]
      BY <1>1, <2>2, <3>1, BeginIs
    <3> QED  BY <1>1, <1>3, <1>5, <3>1, <3>2, SeqEqual DEF Texts
  <2>4. Sign(x - y) = -1
    <3>1. x = 0 /\ y \in 1 .. 255  BY <2>1
    <3>2. x - y < 0  BY <3>1
    <3> QED  BY <3>2 DEF Sign
  <2> QED  BY <2>2, <2>3, <2>4 DEF Ordered, IsBegin
<1>6. CASE At(a, i) # At(b, i) /\ i = Len(b) + 1
  <2>1. i <= Len(a) /\ At(b, i) = 0 /\ At(a, i) \in 1 .. 255
    BY <1>1, <1>2, <1>6 DEF At
  <2>2. a # b /\ Len(b) < Len(a)  BY <1>1, <1>6, <2>1
  <2>3. b = SubSeq(a, 1, Len(b))
    <3>1. PICK c : c = SubSeq(a, 1, Len(b))  OBVIOUS
    <3>2. /\ c \in Texts /\ Len(c) = Len(b)
          /\ \A j \in 1 .. Len(b) : c[j] = a[j]
      BY <1>1, <2>2, <3>1, BeginIs
    <3> QED  BY <1>1, <1>3, <1>6, <3>1, <3>2, SeqEqual DEF Texts
  <2>4. Sign(x - y) = 1
    <3>1. y = 0 /\ x \in 1 .. 255  BY <2>1
    <3>2. x - y > 0 /\ ~(x - y < 0)  BY <3>1
    <3> QED  BY <3>2 DEF Sign
  <2>5. ~IsBegin(a, b) /\ IsBegin(b, a)  BY <1>1, <2>2, <2>3 DEF IsBegin
  <2> QED  BY <2>2, <2>4, <2>5 DEF Ordered
<1>7. CASE At(a, i) # At(b, i) /\ i <= Len(a) /\ i <= Len(b)
  <2>1. At(a, i) = a[i] /\ At(b, i) = b[i] /\ a[i] # b[i]
        /\ a[i] \in 1 .. 255 /\ b[i] \in 1 .. 255 /\ i \in 1 .. Len(a)
    BY <1>1, <1>7 DEF At
  <2>2. \A c, e \in Texts : Len(c) <= Len(e) /\ c = SubSeq(e, 1, Len(c))
                               => \A j \in 1 .. Len(c) : c[j] = e[j]
    BY BeginIs
  <2>3. a # b /\ ~IsBegin(a, b) /\ ~IsBegin(b, a)
    BY <1>1, <1>7, <2>1, <2>2 DEF IsBegin
  <2> DEFINE Differ(k) == a[k] # b[k] /\ SubSeq(a, 1, k - 1) = SubSeq(b, 1, k - 1)
  <2>4. SubSeq(a, 1, i - 1) = SubSeq(b, 1, i - 1)
    <3>1. PICK c, e : c = SubSeq(a, 1, i - 1) /\ e = SubSeq(b, 1, i - 1)  OBVIOUS
    <3>2. c \in Texts /\ Len(c) = i - 1 /\ \A j \in 1 .. i - 1 : c[j] = a[j]
      BY <1>1, <1>7, <3>1, BeginIs
    <3>3. e \in Texts /\ Len(e) = i - 1 /\ \A j \in 1 .. i - 1 : e[j] = b[j]
      BY <1>1, <1>7, <3>1, BeginIs
    <3> QED  BY <1>3, <3>1, <3>2, <3>3, SeqEqual DEF Texts
  <2>5. ASSUME NEW k \in 1 .. Len(a), Differ(k)  PROVE k = i
    <3>1. ~(k < i)  BY <1>3, <2>5
    <3>2. ~(i < k)
      <4> SUFFICES ASSUME i < k  PROVE FALSE
        OBVIOUS
      <4>1. SubSeq(a, 1, k - 1)[i] = a[i] /\ SubSeq(b, 1, k - 1)[i] = b[i]
        BY BeginAt
      <4> QED  BY <2>1, <2>5, <4>1
    <3> QED  BY <3>1, <3>2
  <2>6. PICK k : k = CHOOSE j \in 1 .. Len(a) : Differ(j)  OBVIOUS
  <2>7. k = i  BY <2>1, <2>4, <2>5, <2>6
  <2>8. Ordered(a, b) = IF a[i] < b[i] THEN -1 ELSE 1
    BY <2>3, <2>6, <2>7 DEF Ordered
  <2>9. Ordered(a, b) = Sign(x - y)  BY <2>1, <2>8 DEF Sign
  <2> QED  BY <2>9
<1>8. \/ At(a, i) = At(b, i)
      \/ At(a, i) # At(b, i) /\ i = Len(a) + 1
      \/ At(a, i) # At(b, i) /\ i = Len(b) + 1
      \/ At(a, i) # At(b, i) /\ i <= Len(a) /\ i <= Len(b)
  BY <1>1, <1>2
<1> QED  BY <1>4, <1>5, <1>6, <1>7, <1>8, Zenon

LEMMA CutHas ==
  ASSUME NEW a \in Texts, NEW len \in Nat
  PROVE  /\ Cut(a, len) \in Texts
         /\ \A j \in Nat \ {0} : At(Cut(a, len), j) = IF j <= len THEN At(a, j) ELSE 0
         /\ Len(a) <= len => Cut(a, len) = a
<1>1. Len(a) \in Nat  BY TextHas
<1>2. PICK m \in Nat : m = IF len < Len(a) THEN len ELSE Len(a)  BY <1>1
<1>3. PICK c : c = SubSeq(a, 1, m)  OBVIOUS
<1>4. Cut(a, len) = c  BY <1>2, <1>3 DEF Cut
<1>5. c \in Texts /\ Len(c) = m /\ \A i \in 1 .. m : c[i] = a[i]
  BY <1>1, <1>2, <1>3, BeginIs
<1>6. ASSUME NEW j \in Nat \ {0}
      PROVE  At(c, j) = IF j <= len THEN At(a, j) ELSE 0
  <2>1. CASE j <= m
    <3>1. j \in 1 .. m /\ j <= len /\ j \in 1 .. Len(a)  BY <1>1, <1>2, <2>1
    <3>2. At(c, j) = c[j]  BY <1>5, <3>1, TextHas
    <3>3. At(a, j) = a[j]  BY <3>1, TextHas
    <3> QED  BY <1>5, <3>1, <3>2, <3>3
  <2>2. CASE j > m
    <3>1. At(c, j) = 0  BY <1>5, <2>2, TextHas
    <3>2. j > Len(a) \/ j > len  BY <1>1, <1>2, <2>2
    <3>3. j > Len(a) => At(a, j) = 0  BY TextHas
    <3> QED  BY <3>1, <3>2, <3>3
  <2> QED  BY <2>1, <2>2
<1>7. Len(a) <= len => c = a
  <2> SUFFICES ASSUME Len(a) <= len  PROVE c = a
    OBVIOUS
  <2>1. m = Len(a)  BY <1>1, <1>2
  <2> QED  BY <1>3, <2>1, SubSeqFull DEF Texts
<1> QED  BY <1>4, <1>5, <1>6, <1>7

LEMMA LowerHas ==
  ASSUME NEW a \in Texts
  PROVE  /\ Lower(a) \in Texts /\ Len(Lower(a)) = Len(a)
         /\ \A j \in Nat \ {0} : At(Lower(a), j) = tolower(At(a, j))
<1>1. Len(a) \in Nat  BY TextHas
<1>2. \A i \in 1 .. Len(a) : tolower(a[i]) \in 1 .. 255
  <2> TAKE i \in 1 .. Len(a)
  <2>1. PICK x \in 1 .. 255 : x = a[i]  BY TextHas
  <2>2. tolower(x) \in 1 .. 255  BY DEF tolower
  <2> QED  BY <2>1, <2>2
<1>3. PICK c : c = [i \in 1 .. Len(a) |-> tolower(a[i])]  OBVIOUS
<1>4. c \in Texts /\ Len(c) = Len(a) /\ \A i \in 1 .. Len(a) : c[i] = tolower(a[i])
  BY <1>1, <1>2, <1>3 DEF Texts
<1>5. ASSUME NEW j \in Nat \ {0}
      PROVE  At(c, j) = tolower(At(a, j))
  <2>1. CASE j <= Len(a)
    <3>1. j \in 1 .. Len(a)  BY <1>1, <2>1
    <3>2. At(c, j) = c[j]  BY <1>4, <3>1, TextHas
    <3>3. At(a, j) = a[j]  BY <3>1, TextHas
    <3> QED  BY <1>4, <3>1, <3>2, <3>3
  <2>2. CASE j > Len(a)
    <3>1. At(c, j) = 0 /\ At(a, j) = 0  BY <1>4, <2>2, TextHas
    <3> QED  BY <3>1 DEF tolower
  <2> QED  BY <1>1, <2>1, <2>2
<1> QED  BY <1>3, <1>4, <1>5 DEF Lower

\* Only equal strings are ordered 0.
LEMMA OrderZero ==
  ASSUME NEW a, NEW b
  PROVE  Ordered(a, b) = 0 <=> a = b
<1>1. PICK i : i = CHOOSE j \in 1 .. Len(a) :
                     a[j] # b[j] /\ SubSeq(a, 1, j - 1) = SubSeq(b, 1, j - 1)
  OBVIOUS
<1>2. Ordered(a, b) = IF a = b THEN 0 ELSE IF IsBegin(a, b) THEN -1
                      ELSE IF IsBegin(b, a) THEN 1 ELSE IF a[i] < b[i] THEN -1 ELSE 1
  BY <1>1 DEF Ordered
<1>3. CASE a = b  BY <1>2, <1>3
<1>4. CASE a # b
  <2>1. Ordered(a, b) = -1 \/ Ordered(a, b) = 1  BY <1>2, <1>4
  <2> QED  BY <1>4, <2>1
<1> QED  BY <1>3, <1>4

\* strncmp orders the strings by their first bytes.
LEMMA BoundedOrder ==
  ASSUME NEW a \in Texts, NEW b \in Texts, NEW len \in Nat
  PROVE  Sign(strncmp(a, b, len)) = Ordered(Cut(a, len), Cut(b, len))
<1> DEFINE Stops == { j \in Until(a) : At(a, j) = 0 \/ At(a, j) # At(b, j) }
<1>1. /\ Len(a) \in Nat
      /\ \A j \in Nat \ {0} : At(a, j) \in 0 .. 255 /\ (At(a, j) = 0 <=> j > Len(a))
  BY TextHas
<1>2. \A j \in Nat \ {0} : At(b, j) \in 0 .. 255  BY TextHas
<1>3. Stops \subseteq Nat \ {0} /\ Len(a) + 1 \in Stops
  BY <1>1 DEF Until
<1>4. PICK i : i = Min(Stops \cup {len + 1})  OBVIOUS
<1>5. i \in Stops \cup {len + 1} /\ \A y \in Stops \cup {len + 1} : i <= y
  <2>1. Stops \cup {len + 1} \subseteq Nat /\ Stops \cup {len + 1} # {}  BY <1>3
  <2> HIDE DEF Stops
  <2> QED  BY <1>4, <2>1, LeastIs
<1>6. i \in Nat \ {0} /\ i <= len + 1 /\ i <= Len(a) + 1
  BY <1>3, <1>5
<1>7. ASSUME NEW j \in 1 .. i - 1
      PROVE  At(a, j) = At(b, j) /\ At(a, j) # 0
  <2>1. j \in Until(a) /\ j \notin Stops  BY <1>1, <1>3, <1>5, <1>6 DEF Until
  <2> QED  BY <2>1
<1>8. PICK c, e \in Texts :
         /\ c = Cut(a, len) /\ e = Cut(b, len)
         /\ \A j \in Nat \ {0} : At(c, j) = IF j <= len THEN At(a, j) ELSE 0
         /\ \A j \in Nat \ {0} : At(e, j) = IF j <= len THEN At(b, j) ELSE 0
  BY CutHas
<1>9. \A j \in 1 .. i - 1 : At(c, j) = At(e, j) /\ At(c, j) # 0
  BY <1>6, <1>7, <1>8
<1>10. CASE i = len + 1
  <2>1. At(c, i) = 0 /\ At(e, i) = 0  BY <1>6, <1>8, <1>10
  <2>2. Ordered(c, e) = Sign(At(c, i) - At(e, i))  BY <1>6, <1>9, <2>1, OrderAt
  <2>3. strncmp(a, b, len) = 0  BY <1>4, <1>10 DEF strncmp
  <2> QED  BY <1>8, <2>1, <2>2, <2>3
<1>11. CASE i # len + 1
  <2>1. i \in Stops /\ i <= len  BY <1>5, <1>6, <1>11
  <2>2. At(c, i) = At(a, i) /\ At(e, i) = At(b, i)  BY <1>6, <1>8, <2>1
  <2>3. At(c, i) # At(e, i) \/ At(c, i) = 0  BY <2>1, <2>2
  <2>4. Ordered(c, e) = Sign(At(c, i) - At(e, i))  BY <1>6, <1>9, <2>3, OrderAt
  <2>5. strncmp(a, b, len) = At(a, i) - At(b, i)  BY <1>4, <1>11 DEF strncmp
  <2> QED  BY <1>8, <2>2, <2>4, <2>5
<1> QED  BY <1>10, <1>11

\* strcmp is strncmp with a count beyond the end.
LEMMA WholeOrder ==
  ASSUME NEW a \in Texts, NEW b \in Texts
  PROVE  Sign(strcmp(a, b)) = Ordered(a, b)
<1> DEFINE Stops == { j \in Until(a) : At(a, j) = 0 \/ At(a, j) # At(b, j) }
<1>1. /\ Len(a) \in Nat
      /\ \A j \in Nat \ {0} : At(a, j) \in 0 .. 255 /\ (At(a, j) = 0 <=> j > Len(a))
  BY TextHas
<1>2. Stops \subseteq Nat \ {0} /\ Len(a) + 1 \in Stops
  BY <1>1 DEF Until
<1>3. PICK i : i = Min(Stops)  OBVIOUS
<1>4. i \in Stops /\ \A y \in Stops : i <= y
  BY <1>2, <1>3, LeastIs
<1>5. i \in Nat \ {0} /\ i <= Len(a) + 1  BY <1>2, <1>4
<1>6. ASSUME NEW j \in 1 .. i - 1
      PROVE  At(a, j) = At(b, j) /\ At(a, j) # 0
  <2>1. j \in Until(a) /\ j \notin Stops  BY <1>1, <1>2, <1>4, <1>5 DEF Until
  <2> QED  BY <2>1
<1>7. At(a, i) # At(b, i) \/ At(a, i) = 0  BY <1>4
<1>8. Ordered(a, b) = Sign(At(a, i) - At(b, i))  BY <1>5, <1>6, <1>7, OrderAt
<1>9. strcmp(a, b) = At(a, i) - At(b, i)  BY <1>3 DEF strcmp
<1> QED  BY <1>8, <1>9

\* memcmp looks at the terminators too, and at nothing behind them.
LEMMA MemoryOrder ==
  ASSUME NEW a \in Texts, NEW b \in Texts, NEW len \in Nat,
         len <= Len(a) + 1, len <= Len(b) + 1
  PROVE  Sign(memcmp(a, b, len)) = Ordered(Cut(a, len), Cut(b, len))
<1> DEFINE Stops == { j \in 1 .. len : At(a, j) # At(b, j) }
<1>1. /\ Len(a) \in Nat
      /\ \A j \in Nat \ {0} : At(a, j) \in 0 .. 255 /\ (At(a, j) = 0 <=> j > Len(a))
      /\ Len(b) \in Nat
      /\ \A j \in Nat \ {0} : At(b, j) \in 0 .. 255 /\ (At(b, j) = 0 <=> j > Len(b))
  BY TextHas
<1>2. PICK i : i = Min(Stops \cup {len + 1})  OBVIOUS
<1>3. i \in Stops \cup {len + 1} /\ \A y \in Stops \cup {len + 1} : i <= y
  <2>1. Stops \cup {len + 1} \subseteq Nat /\ Stops \cup {len + 1} # {}  OBVIOUS
  <2> HIDE DEF Stops
  <2> QED  BY <1>2, <2>1, LeastIs
<1>4. i \in Nat \ {0} /\ i <= len + 1  BY <1>3
<1>5. \A j \in 1 .. i - 1 : At(a, j) = At(b, j)
  <2> TAKE j \in 1 .. i - 1
  <2>1. j \in 1 .. len /\ j \notin Stops  BY <1>3, <1>4
  <2> QED  BY <2>1
<1>6. \A j \in 1 .. len - 1 : At(a, j) # 0  BY <1>1
<1>7. PICK c, e \in Texts :
         /\ c = Cut(a, len) /\ e = Cut(b, len)
         /\ \A j \in Nat \ {0} : At(c, j) = IF j <= len THEN At(a, j) ELSE 0
         /\ \A j \in Nat \ {0} : At(e, j) = IF j <= len THEN At(b, j) ELSE 0
  BY CutHas
<1>8. CASE i = len + 1
  <2>1. memcmp(a, b, len) = 0  BY <1>2, <1>8 DEF memcmp
  <2>2. CASE len # 0 /\ At(a, len) = 0
    <3>1. \A j \in 1 .. len - 1 : At(c, j) = At(e, j) /\ At(c, j) # 0
      BY <1>5, <1>6, <1>7, <1>8
    <3>2. At(c, len) = 0 /\ At(e, len) = 0  BY <1>5, <1>7, <1>8, <2>2
    <3>3. Ordered(c, e) = Sign(At(c, len) - At(e, len))  BY <2>2, <3>1, <3>2, OrderAt
    <3> QED  BY <1>7, <2>1, <3>2, <3>3
  <2>3. CASE ~(len # 0 /\ At(a, len) = 0)
    <3>1. \A j \in 1 .. i - 1 : At(c, j) = At(e, j) /\ At(c, j) # 0
      BY <1>5, <1>6, <1>7, <1>8, <2>3
    <3>2. At(c, i) = 0 /\ At(e, i) = 0  BY <1>4, <1>7, <1>8
    <3>3. Ordered(c, e) = Sign(At(c, i) - At(e, i))  BY <1>4, <3>1, <3>2, OrderAt
    <3> QED  BY <1>7, <2>1, <3>2, <3>3
  <2> QED  BY <2>2, <2>3
<1>9. CASE i # len + 1
  <2>1. i \in Stops /\ i <= len  BY <1>3, <1>4, <1>9
  <2>2. At(c, i) = At(a, i) /\ At(e, i) = At(b, i)  BY <1>4, <1>7, <2>1
  <2>3. At(c, i) # At(e, i)  BY <2>1, <2>2
  <2>4. \A j \in 1 .. i - 1 : At(c, j) = At(e, j) /\ At(c, j) # 0
    BY <1>4, <1>5, <1>6, <1>7, <2>1
  <2>5. Ordered(c, e) = Sign(At(c, i) - At(e, i))  BY <1>4, <2>3, <2>4, OrderAt
  <2>6. memcmp(a, b, len) = At(a, i) - At(b, i)  BY <1>2, <1>9 DEF memcmp
  <2> QED  BY <1>7, <2>2, <2>5, <2>6
<1> QED  BY <1>8, <1>9

LEMMA ByteLowers ==
  ASSUME NEW x \in 0 .. 255
  PROVE  /\ tolower(x) \in 0 .. 255 /\ (tolower(x) = 0 <=> x = 0)
         /\ tolower(Char(x)) = IF x >= 128 THEN x - 256 ELSE tolower(x)
<1>1. CASE x \in 65 .. 90
  <2>1. tolower(x) = x + 32 /\ tolower(Char(x)) = x + 32  BY <1>1 DEF tolower, Char
  <2> QED  BY <1>1, <2>1
<1>2. CASE x >= 128
  <2>1. tolower(x) = x /\ tolower(Char(x)) = x - 256  BY <1>2 DEF tolower, Char
  <2> QED  BY <1>2, <2>1
<1>3. CASE x < 128 /\ x \notin 65 .. 90
  <2>1. tolower(x) = x /\ tolower(Char(x)) = x  BY <1>3 DEF tolower, Char
  <2> QED  BY <1>3, <2>1
<1> QED  BY <1>1, <1>2, <1>3

\* Two bytes without their case, as the routines and as C compare them: char is
\* signed, which tells in the order and not in whether they are equal.
ByteDifference(x, y) ==
    IF x = 0 \/ y = 0 THEN Char(x) - Char(y) ELSE tolower(Char(x)) - tolower(Char(y))

LEMMA CaseOfBytes ==
  ASSUME NEW x \in 0 .. 255, NEW y \in 0 .. 255
  PROVE  /\ ByteDifference(x, y) = 0 <=> tolower(x) = tolower(y)
         /\ x < 128 /\ y < 128 =>
               Sign(ByteDifference(x, y)) = Sign(tolower(x) - tolower(y))
<1>1. PICK p, q \in 0 .. 255 : p = tolower(x) /\ q = tolower(y)
  BY ByteLowers
<1>2. PICK u, v \in Int : u = tolower(Char(x)) /\ v = tolower(Char(y))
  <2>1. /\ tolower(Char(x)) = IF x >= 128 THEN x - 256 ELSE p
        /\ tolower(Char(y)) = IF y >= 128 THEN y - 256 ELSE q
    BY <1>1, ByteLowers
  <2> QED  BY <2>1
<1>3. /\ p = (IF x \in 65 .. 90 THEN x + 32 ELSE x)
      /\ q = (IF y \in 65 .. 90 THEN y + 32 ELSE y)
  BY <1>1 DEF tolower
<1>4. /\ u = (IF x >= 128 THEN x - 256 ELSE p)
      /\ v = (IF y >= 128 THEN y - 256 ELSE q)
  BY <1>1, <1>2 DEF tolower, Char
<1>5. PICK e \in Int : /\ e = ByteDifference(x, y)
                       /\ e = IF x = 0 \/ y = 0
                              THEN (IF x >= 128 THEN x - 256 ELSE x)
                                      - (IF y >= 128 THEN y - 256 ELSE y)
                              ELSE u - v
  <2>1. CASE x = 0 \/ y = 0
    <3>1. /\ Char(x) = IF x >= 128 THEN x - 256 ELSE x
          /\ Char(y) = IF y >= 128 THEN y - 256 ELSE y
      BY DEF Char
    <3>2. ByteDifference(x, y) = Char(x) - Char(y)  BY <2>1 DEF ByteDifference
    <3> QED  BY <2>1, <3>1, <3>2
  <2>2. CASE x # 0 /\ y # 0
    <3>1. ByteDifference(x, y) = u - v  BY <1>2, <2>2 DEF ByteDifference
    <3> QED  BY <1>2, <2>2, <3>1
  <2> QED  BY <2>1, <2>2
<1>6. e = 0 <=> p = q  BY <1>3, <1>4, <1>5
<1>7. x < 128 /\ y < 128 => Sign(e) = Sign(p - q)
  <2> SUFFICES ASSUME x < 128, y < 128  PROVE Sign(e) = Sign(p - q)
    OBVIOUS
  <2>1. PICK gap \in Int : gap = p - q  OBVIOUS
  <2>2. (e < 0 <=> gap < 0) /\ (e > 0 <=> gap > 0)  BY <1>3, <1>4, <1>5, <2>1
  <2> QED  BY <2>1, <2>2 DEF Sign
<1> QED  BY <1>1, <1>5, <1>6, <1>7

LEMMA SignedCase ==
  ASSUME NEW x \in 1 .. 255, NEW y \in 1 .. 255
  PROVE  tolower(Char(x)) = tolower(Char(y)) <=> tolower(x) = tolower(y)
<1>1. PICK p, q \in 0 .. 255 : p = tolower(x) /\ q = tolower(y)
  <2>1. x \in 0 .. 255 /\ y \in 0 .. 255  OBVIOUS
  <2> QED  BY <2>1, ByteLowers
<1>2. /\ p = (IF x \in 65 .. 90 THEN x + 32 ELSE x)
      /\ q = (IF y \in 65 .. 90 THEN y + 32 ELSE y)
  BY <1>1 DEF tolower
<1>3. /\ tolower(Char(x)) = IF x >= 128 THEN x - 256 ELSE p
      /\ tolower(Char(y)) = IF y >= 128 THEN y - 256 ELSE q
  BY <1>1, ByteLowers
<1> QED  BY <1>1, <1>2, <1>3

LEMMA BoundedCase ==
  ASSUME NEW a \in Texts, NEW b \in Texts, NEW len \in Nat
  PROVE  /\ strncasecmp(a, b, len) = 0 <=> Lower(Cut(a, len)) = Lower(Cut(b, len))
         /\ AllAscii(a) /\ AllAscii(b) =>
               Sign(strncasecmp(a, b, len)) = Ordered(Lower(Cut(a, len)), Lower(Cut(b, len)))
<1> DEFINE Stops == CaseStops(a, b)
<1>1. /\ Len(a) \in Nat
      /\ \A j \in Nat \ {0} : At(a, j) \in 0 .. 255 /\ (At(a, j) = 0 <=> j > Len(a))
  BY TextHas
<1>2. \A j \in Nat \ {0} : At(b, j) \in 0 .. 255  BY TextHas
<1>3. Stops \subseteq Nat \ {0} /\ Len(a) + 1 \in Stops
  BY <1>1 DEF Until, CaseStops
<1>4. PICK i : i = Min(Stops \cup {len + 1})  OBVIOUS
<1>5. i \in Stops \cup {len + 1} /\ \A y \in Stops \cup {len + 1} : i <= y
  <2>1. Stops \cup {len + 1} \subseteq Nat /\ Stops \cup {len + 1} # {}  BY <1>3
  <2> HIDE DEF Stops
  <2> QED  BY <1>4, <2>1, LeastIs
<1>6. i \in Nat \ {0} /\ i <= len + 1 /\ i <= Len(a) + 1
  BY <1>3, <1>5
<1>7. PICK c, e \in Texts :
         /\ c = Lower(Cut(a, len)) /\ e = Lower(Cut(b, len))
         /\ \A j \in Nat \ {0} : At(c, j) = tolower(At(Cut(a, len), j))
         /\ \A j \in Nat \ {0} : At(e, j) = tolower(At(Cut(b, len), j))
  BY CutHas, LowerHas
<1>8. \A j \in 1 .. len : At(c, j) = tolower(At(a, j)) /\ At(e, j) = tolower(At(b, j))
  BY <1>7, CutHas
<1>9. ASSUME NEW j \in 1 .. i - 1
      PROVE  At(c, j) = At(e, j) /\ At(c, j) # 0
  <2>1. j \in Until(a) /\ j \notin Stops /\ j \in 1 .. len
    BY <1>1, <1>3, <1>5, <1>6 DEF Until
  <2>2. PICK x, y \in 0 .. 255 : x = At(a, j) /\ y = At(b, j)
    <3>1. j \in Nat \ {0}  BY <2>1
    <3> QED  BY <1>1, <1>2, <3>1
  <2>3. x # 0 /\ y # 0 /\ tolower(Char(x)) = tolower(Char(y))
    BY <2>1, <2>2 DEF CaseStops
  <2>4. x \in 1 .. 255 /\ y \in 1 .. 255  BY <2>3
  <2>5. tolower(x) = tolower(y)  BY <2>3, <2>4, SignedCase
  <2>6. tolower(x) # 0  BY <2>3, ByteLowers
  <2> QED  BY <1>8, <2>1, <2>2, <2>5, <2>6
<1>10. CASE i = len + 1
  <2>1. At(c, i) = 0 /\ At(e, i) = 0
    <3>1. At(Cut(a, len), i) = 0 /\ At(Cut(b, len), i) = 0  BY <1>6, <1>10, CutHas
    <3>2. tolower(0) = 0  BY DEF tolower
    <3> QED  BY <1>6, <1>7, <3>1, <3>2
  <2>2. Ordered(c, e) = Sign(At(c, i) - At(e, i))  BY <1>6, <1>9, <2>1, OrderAt
  <2>3. strncasecmp(a, b, len) = 0  BY <1>4, <1>10 DEF strncasecmp
  <2>4. Sign(0 - 0) = 0 /\ Sign(0) = 0  BY DEF Sign
  <2>5. Ordered(c, e) = 0  BY <2>1, <2>2, <2>4
  <2> QED  BY <1>7, <2>3, <2>4, <2>5, OrderZero
<1>11. CASE i # len + 1
  <2>1. i \in Stops /\ i \in 1 .. len  BY <1>5, <1>6, <1>11
  <2>2. PICK x, y \in 0 .. 255 : x = At(a, i) /\ y = At(b, i)
    BY <1>1, <1>2, <1>6
  <2>3. PICK diff : diff = ByteDifference(x, y)  OBVIOUS
  <2>4. strncasecmp(a, b, len) = diff
    BY <1>4, <1>11, <2>2, <2>3 DEF strncasecmp, CaseDifference, ByteDifference
  <2>5. At(c, i) = tolower(x) /\ At(e, i) = tolower(y)  BY <1>8, <2>1, <2>2
  <2>6. x = 0 \/ y = 0 \/ tolower(Char(x)) # tolower(Char(y))
    BY <2>1, <2>2 DEF CaseStops
  <2>7. /\ diff = 0 <=> tolower(x) = tolower(y)
        /\ x < 128 /\ y < 128 => Sign(diff) = Sign(tolower(x) - tolower(y))
    BY <2>3, CaseOfBytes
  <2>8. (tolower(x) = 0 <=> x = 0) /\ (tolower(y) = 0 <=> y = 0)
    BY ByteLowers
  <2>9. At(c, i) # At(e, i) \/ At(c, i) = 0
    <3>1. CASE x = 0 \/ y = 0  BY <2>5, <2>8, <3>1
    <3>2. CASE x # 0 /\ y # 0
      <4>1. x \in 1 .. 255 /\ y \in 1 .. 255  BY <3>2
      <4>2. tolower(Char(x)) # tolower(Char(y))  BY <2>6, <3>2
      <4>3. tolower(x) # tolower(y)  BY <4>1, <4>2, SignedCase
      <4> QED  BY <2>5, <4>3
    <3> QED  BY <3>1, <3>2
  <2>10. Ordered(c, e) = Sign(tolower(x) - tolower(y))
    BY <1>6, <1>9, <2>5, <2>9, OrderAt
  <2>11. diff = 0 <=> c = e
    <3>1. PICK p, q \in 0 .. 255 : p = tolower(x) /\ q = tolower(y)  BY ByteLowers
    <3>2. Sign(p - q) = 0 <=> p = q  BY DEF Sign
    <3> QED  BY <2>7, <2>10, <3>1, <3>2, OrderZero
  <2>12. ASSUME AllAscii(a), AllAscii(b)  PROVE x < 128 /\ y < 128
    <3>1. i <= Len(a) => x = a[i] /\ a[i] < 128
      BY <1>1, <1>6, <2>2, <2>12 DEF AllAscii, At
    <3>2. Len(b) \in Nat /\ (i <= Len(b) => y = b[i] /\ b[i] < 128)
      BY <1>6, <2>2, <2>12, TextHas DEF AllAscii, At
    <3>3. (i > Len(a) => x = 0) /\ (i > Len(b) => y = 0)
      BY <1>6, <2>2, TextHas
    <3> QED  BY <1>1, <1>6, <3>1, <3>2, <3>3
  <2> QED  BY <1>7, <2>4, <2>7, <2>10, <2>11, <2>12
<1> QED  BY <1>10, <1>11

\* strcasecmp is strncasecmp with a count beyond the end.
LEMMA WholeCase ==
  ASSUME NEW a \in Texts, NEW b \in Texts
  PROVE  /\ strcasecmp(a, b) = 0 <=> Lower(a) = Lower(b)
         /\ AllAscii(a) /\ AllAscii(b) =>
               Sign(strcasecmp(a, b)) = Ordered(Lower(a), Lower(b))
<1>1. Len(a) \in Nat /\ Len(b) \in Nat /\ At(a, Len(a) + 1) = 0
  BY TextHas
<1>2. PICK len \in Nat : len = Len(a) + Len(b) + 1  BY <1>1
<1>3. Cut(a, len) = a /\ Cut(b, len) = b  BY <1>1, <1>2, CutHas
<1>4. CaseStops(a, b) \subseteq 1 .. Len(a) + 1 /\ Len(a) + 1 \in CaseStops(a, b)
  BY <1>1 DEF CaseStops, Until
<1>5. PICK i : i = Min(CaseStops(a, b))  OBVIOUS
<1>6. i \in CaseStops(a, b) /\ \A y \in CaseStops(a, b) : i <= y
  BY <1>4, <1>5, LeastIs
<1>7. PICK k : k = Min(CaseStops(a, b) \cup {len + 1})  OBVIOUS
<1>8. k \in CaseStops(a, b) \cup {len + 1} /\ \A y \in CaseStops(a, b) \cup {len + 1} : k <= y
  <2>1. CaseStops(a, b) \cup {len + 1} \subseteq Nat /\ CaseStops(a, b) \cup {len + 1} # {}
    BY <1>4
  <2> QED  BY <1>7, <2>1, LeastIs
<1>9. k = i /\ k # len + 1
  <2>1. i \in 1 .. Len(a) + 1 /\ k <= i  BY <1>4, <1>6, <1>8
  <2>2. k # len + 1  BY <1>1, <1>2, <2>1
  <2>3. k \in CaseStops(a, b) /\ i <= k /\ k \in 1 .. Len(a) + 1  BY <1>4, <1>6, <1>8, <2>2
  <2> QED  BY <2>1, <2>2, <2>3
<1>10. strncasecmp(a, b, len) = strcasecmp(a, b)
  BY <1>5, <1>7, <1>9 DEF strncasecmp, strcasecmp
<1> QED  BY <1>2, <1>3, <1>10, BoundedCase

\* The tail of a string.
LEMMA FromHas ==
  ASSUME NEW a \in Texts, NEW i \in 1 .. Len(a) + 1
  PROVE  /\ From(a, i) \in Texts /\ Len(From(a, i)) = Len(a) + 1 - i
         /\ \A j \in 1 .. Len(a) + 1 - i : From(a, i)[j] = a[i + j - 1]
<1>1. Len(a) \in Nat /\ i \in Nat \ {0}  BY TextHas
<1>2. PICK c : c = SubSeq(a, i, Len(a))  OBVIOUS
<1>3. /\ c \in Seq(1 .. 255)
      /\ Len(c) = IF i <= Len(a) THEN Len(a) - i + 1 ELSE 0
      /\ \A j \in 1 .. Len(a) - i + 1 : c[j] = a[i + j - 1]
  <2>1. \A j \in i .. Len(a) : a[j] \in 1 .. 255  BY <1>1, TextHas
  <2> QED  BY <1>1, <1>2, <2>1, SubSeqProperties
<1>4. Len(c) = Len(a) + 1 - i  BY <1>1, <1>3
<1>5. Len(a) - i + 1 = Len(a) + 1 - i  BY <1>1
<1> QED  BY <1>2, <1>3, <1>4, <1>5 DEF From, Texts

LEMMA BoundedNumber ==
  ASSUME NEW a \in Texts, NEW b \in Texts, NEW len \in Nat
  PROVE  strncmp(a, b, len) \in Int
<1> DEFINE Stops == { j \in Until(a) : At(a, j) = 0 \/ At(a, j) # At(b, j) }
<1>1. Stops \cup {len + 1} \subseteq Nat \ {0}  BY TextHas DEF Until
<1>2. PICK i : i = Min(Stops \cup {len + 1})  OBVIOUS
<1>3. i \in Nat \ {0}
  <2>1. Stops \cup {len + 1} \subseteq Nat /\ Stops \cup {len + 1} # {}  BY <1>1
  <2> HIDE DEF Stops
  <2> QED  BY <1>1, <1>2, <2>1, LeastIs
<1>4. PICK x, y \in 0 .. 255 : x = At(a, i) /\ y = At(b, i)  BY <1>3, TextHas
<1>5. strncmp(a, b, len) = IF i = len + 1 THEN 0 ELSE At(a, i) - At(b, i)
  BY <1>2 DEF strncmp
<1> QED  BY <1>4, <1>5

\* What strstr asks at a place is whether the needle begins there.
LEMMA NeedleAt ==
  ASSUME NEW a \in Texts, NEW needle \in Texts, NEW i \in 1 .. Len(a)
  PROVE  strncmp(From(a, i), needle, Len(needle)) = 0 <=> Occurs(needle, a, i)
<1>1. Len(a) \in Nat /\ Len(needle) \in Nat  BY TextHas
<1>2. i \in 1 .. Len(a) + 1  BY <1>1
<1>3. PICK x \in Texts : x = From(a, i)  BY <1>2, FromHas
<1>4. PICK len \in Nat : len = Len(needle)  BY <1>1
<1>5. Cut(needle, len) = needle  BY <1>4, CutHas
<1>6. PICK z \in Int : z = strncmp(x, needle, len)  BY BoundedNumber
<1>7. Sign(z) = Ordered(Cut(x, len), needle)  BY <1>5, <1>6, BoundedOrder
<1>8. Sign(z) = 0 <=> z = 0  BY DEF Sign
<1>9. z = 0 <=> Cut(x, len) = needle  BY <1>7, <1>8, OrderZero
<1>10. Cut(x, len) = needle <=> len <= Len(x) /\ needle = SubSeq(x, 1, len)
  <2>1. Len(x) \in Nat  BY TextHas
  <2>2. CASE len < Len(x)  BY <1>4, <2>1, <2>2 DEF Cut
  <2>3. CASE len >= Len(x)
    <3>1. Cut(x, len) = x  BY <2>1, <2>3, CutHas
    <3>2. SubSeq(x, 1, Len(x)) = x  BY SubSeqFull DEF Texts
    <3>3. CASE len = Len(x)  BY <3>1, <3>2, <3>3
    <3>4. CASE len > Len(x)  BY <1>4, <2>1, <3>1, <3>4
    <3> QED  BY <2>1, <2>3, <3>3, <3>4
  <2> QED  BY <2>1, <2>2, <2>3
<1> QED  BY <1>3, <1>4, <1>6, <1>9, <1>10 DEF Occurs, IsBegin

\* The searches for a byte find its first and its last place.
LEMMA ByteFound ==
  ASSUME NEW a \in Texts, NEW c, NEW at, NEW last,
         at = strchr(a, c), last = strrchr(a, c)
  PROVE  IF at = 0 THEN last = 0 /\ \A i \in 1 .. Len(a) : a[i] # c
         ELSE /\ a[at] = c /\ a[last] = c
              /\ \A i \in 1 .. Len(a) : a[i] = c => i \in at .. last
<1>1. PICK len \in Nat : len = Len(a)  BY TextHas
<1>2. PICK found : found = { i \in 1 .. len : a[i] = c }  OBVIOUS
<1>3. CASE found = {}
  <2>1. at = 0 /\ last = 0  BY <1>1, <1>2, <1>3 DEF strchr, strrchr
  <2> QED  BY <1>1, <1>2, <1>3, <2>1
<1>4. CASE found # {}
  <2>1. at = Min(found) /\ last = Max(found)
    BY <1>1, <1>2, <1>4 DEF strchr, strrchr
  <2>2. found \subseteq 1 .. len /\ found \subseteq Nat /\ found \subseteq 0 .. len
    BY <1>2
  <2>3. at \in found /\ \A y \in found : at <= y  BY <1>4, <2>1, <2>2, LeastIs
  <2>4. last \in found /\ \A y \in found : y <= last  BY <1>4, <2>1, <2>2, GreatestIs
  <2>5. at # 0 /\ a[at] = c /\ a[last] = c /\ at \in Int /\ last \in Int
    BY <1>2, <2>3, <2>4
  <2>6. \A i \in 1 .. len : a[i] = c => i \in at .. last
    BY <1>2, <2>3, <2>4, <2>5
  <2> QED  BY <1>1, <2>5, <2>6
<1> QED  BY <1>3, <1>4

LEMMA StringFound ==
  ASSUME NEW a \in Texts, NEW needle \in Texts, NEW at, at = strstr(a, needle)
  PROVE  IF at = 0 THEN \A i \in 1 .. Len(a) : ~Occurs(needle, a, i)
         ELSE Occurs(needle, a, at) /\ \A i \in 1 .. at - 1 : ~Occurs(needle, a, i)
<1>1. PICK len \in Nat : len = Len(a)  BY TextHas
<1>2. PICK found : found = { i \in 1 .. len : Occurs(needle, a, i) }  OBVIOUS
<1>3. at = IF needle = <<>> THEN 1 ELSE IF found = {} THEN 0 ELSE Min(found)
  <2>1. { i \in 1 .. len : strncmp(From(a, i), needle, Len(needle)) = 0 } = found
    BY <1>1, <1>2, NeedleAt
  <2> QED  BY <1>1, <2>1 DEF strstr
<1>4. CASE needle = <<>>
  <2>1. PICK x \in Texts : x = From(a, 1)
    <3>1. 1 \in 1 .. Len(a) + 1  BY <1>1
    <3> QED  BY <3>1, FromHas
  <2>2. Len(x) \in Nat /\ SubSeq(x, 1, 0) = <<>>  BY TextHas, SubSeqEmpty
  <2>3. Occurs(needle, a, 1)  BY <1>4, <2>1, <2>2 DEF Occurs, IsBegin
  <2> QED  BY <1>3, <1>4, <2>3
<1>5. CASE needle # <<>> /\ found = {}  BY <1>1, <1>2, <1>3, <1>5
<1>6. CASE needle # <<>> /\ found # {}
  <2>1. found \subseteq Nat  BY <1>2
  <2>2. at \in found /\ \A y \in found : at <= y  BY <1>3, <1>6, <2>1, LeastIs
  <2>3. at \in 1 .. len /\ Occurs(needle, a, at)  BY <1>2, <2>2
  <2>4. \A i \in 1 .. at - 1 : ~Occurs(needle, a, i)  BY <1>2, <2>2, <2>3
  <2> QED  BY <2>3, <2>4
<1> QED  BY <1>4, <1>5, <1>6

\* The last part of a path is the one part that can be a name without slashes.
LEMMA WadFound ==
  ASSUME NEW path \in Texts
  PROVE  fopen(path) <=>
            \E name \in WadNames, i \in Until(path) :
               /\ i = 1 \/ path[i - 1] \in Slashes
               /\ Lower(From(path, i)) = Lower(name)
<1>1. PICK len \in Nat : len = Len(path)  BY TextHas
<1>2. PICK cuts : cuts = { i \in 1 .. len : path[i] \in Slashes } \cup {0}  OBVIOUS
<1>3. PICK m : m = Max(cuts)  OBVIOUS
<1>4. m \in cuts /\ \A y \in cuts : y <= m
  <2>1. cuts \subseteq 0 .. len /\ cuts # {}  BY <1>2
  <2> QED  BY <1>3, <2>1, GreatestIs
<1>5. m \in 0 .. len /\ BaseName(path) = From(path, m + 1)
  BY <1>1, <1>2, <1>3, <1>4 DEF BaseName
<1>6. m + 1 \in 1 .. Len(path) + 1 /\ m + 1 \in Until(path)
  BY <1>1, <1>5 DEF Until
<1>7. BaseName(path) \in Texts  BY <1>5, <1>6, FromHas
<1>8. WadNames \subseteq Texts  BY StringValues DEF Texts
<1>9. fopen(path) <=> \E name \in WadNames : Lower(From(path, m + 1)) = Lower(name)
  BY <1>5, <1>7, <1>8, WholeCase DEF fopen, navine_is_embedded_wad
<1>10. m + 1 = 1 \/ path[(m + 1) - 1] \in Slashes
  BY <1>2, <1>4, <1>5
<1>11. ASSUME NEW name \in WadNames, NEW i \in Until(path),
              i = 1 \/ path[i - 1] \in Slashes, Lower(From(path, i)) = Lower(name)
       PROVE  i = m + 1
  <2>1. i \in 1 .. len + 1  BY <1>1, <1>11 DEF Until
  <2>2. i - 1 \in cuts  BY <1>2, <1>11, <2>1
  <2>3. i - 1 <= m  BY <1>4, <2>2
  <2>4. ASSUME i <= m  PROVE FALSE
    <3>1. m \in 1 .. len /\ path[m] \in Slashes  BY <1>2, <1>4, <1>5, <2>1, <2>4
    <3>2. PICK k \in Nat \ {0} : k = m - i + 1  BY <1>5, <2>1, <2>4
    <3>3. PICK part \in Texts : part = From(path, i)  BY <1>1, <2>1, FromHas
    <3>4. Len(part) = len + 1 - i /\ \A j \in 1 .. len + 1 - i : part[j] = path[i + j - 1]
      BY <1>1, <2>1, <3>3, FromHas
    <3>5. k \in 1 .. Len(part) /\ i + k - 1 = m  BY <1>5, <2>1, <3>1, <3>2, <3>4
    <3>6. part[k] = path[m] /\ At(part, k) = path[m]
      BY <3>4, <3>5, TextHas
    <3>7. PICK x \in 0 .. 255 : x = At(name, k)  BY <1>8, <3>2, TextHas
    <3>8. tolower(path[m]) = tolower(x)
      <4>1. At(Lower(part), k) = tolower(path[m])  BY <3>2, <3>6, LowerHas
      <4>2. At(Lower(name), k) = tolower(x)  BY <1>8, <3>2, <3>7, LowerHas
      <4> QED  BY <1>11, <3>3, <4>1, <4>2
    <3>9. PICK byte : /\ byte = path[m] /\ byte \in 1 .. 255
                      /\ byte \notin 65 .. 90 /\ byte \notin 97 .. 122
      <4>1. \A z \in Slashes : z \in 1 .. 255 /\ z \notin 65 .. 90 /\ z \notin 97 .. 122
        BY StringValues
      <4> QED  BY <3>1, <4>1
    <3>10. x = path[m]
      <4>1. tolower(byte) = byte  BY <3>9 DEF tolower
      <4>2. x \in 65 .. 90 => tolower(x) \in 97 .. 122  BY DEF tolower
      <4>3. x \notin 65 .. 90 => tolower(x) = x  BY DEF tolower
      <4> QED  BY <3>8, <3>9, <4>1, <4>2, <4>3
    <3>11. x # 0  BY <3>9, <3>10
    <3>12. k \in 1 .. Len(name) /\ name[k] = x
      <4>1. name \in Texts  BY <1>8
      <4>2. k <= Len(name)  BY <3>2, <3>7, <3>11, <4>1, TextHas
      <4>3. k \in 1 .. Len(name)  BY <3>2, <4>1, <4>2, TextHas
      <4> QED  BY <3>7, <4>1, <4>3, TextHas
    <3> QED  BY <3>1, <3>10, <3>12, StringValues
  <2> QED  BY <1>5, <2>1, <2>3, <2>4
<1> QED  BY <1>6, <1>9, <1>10, <1>11

StringInv == left \in Texts /\ right \in Texts /\ limit \in Nat

\* The strings of a call are the ones it was made with.
LEMMA StringsStay == Spec => []StringInv
<1>1. Init => StringInv
  <2> SUFFICES ASSUME Init  PROVE StringInv
    OBVIOUS
  <2>1. CASE program = "strings"
    <3>1. left \in LeftStrings /\ right \in RightStrings /\ limit \in Limits
      BY <2>1 DEF Init, StringsInit
    <3> QED  BY <3>1, StringValues DEF StringInv, Texts
  <2>2. CASE program # "strings"
    <3>1. left = <<>> /\ right = <<>> /\ limit = 0  BY <2>2 DEF Init, NoStrings
    <3> QED  BY <3>1 DEF StringInv, Texts
  <2> QED  BY <2>1, <2>2
<1>2. StringInv /\ [Next]_vars => StringInv'
  <2> SUFFICES ASSUME StringInv, [Next]_vars  PROVE StringInv'
    OBVIOUS
  <2>1. UNCHANGED stringVars
    BY DEF Next, vars, Doom, DoomFrames, Dashboard_start, GuiDraws, CanvasFills,
       LibraryHeap, LibraryCopies, NoLibc
  <2> QED  BY <2>1 DEF StringInv, stringVars
<1> QED  BY <1>1, <1>2, PTL DEF Spec

\* The comparisons of the port's C library order every two strings as C says.
THEOREM OrdersCorrect == Spec => []OrdersExact
<1>1. StringInv => OrdersExact
  <2> SUFFICES ASSUME StringInv  PROVE OrdersExact
    OBVIOUS
  <2>1. PICK a, b \in Texts, len \in Nat : a = left /\ b = right /\ len = limit
    BY DEF StringInv
  <2>2. Sign(strcmp(a, b)) = Ordered(a, b)  BY WholeOrder
  <2>3. Sign(strncmp(a, b, len)) = Ordered(Cut(a, len), Cut(b, len))  BY BoundedOrder
  <2>4. len <= Len(a) + 1 /\ len <= Len(b) + 1 =>
           Sign(memcmp(a, b, len)) = Ordered(Cut(a, len), Cut(b, len))
    BY MemoryOrder
  <2>5. /\ strcasecmp(a, b) = 0 <=> Lower(a) = Lower(b)
        /\ AllAscii(a) /\ AllAscii(b) =>
              Sign(strcasecmp(a, b)) = Ordered(Lower(a), Lower(b))
    BY WholeCase
  <2>6. /\ strncasecmp(a, b, len) = 0 <=> Lower(Cut(a, len)) = Lower(Cut(b, len))
        /\ AllAscii(a) /\ AllAscii(b) =>
              Sign(strncasecmp(a, b, len)) = Ordered(Lower(Cut(a, len)), Lower(Cut(b, len)))
    BY BoundedCase
  <2>7. AllAscii(a \o b) => AllAscii(a) /\ AllAscii(b)
    <3> SUFFICES ASSUME AllAscii(a \o b)  PROVE AllAscii(a) /\ AllAscii(b)
      OBVIOUS
    <3>1. PICK m, k \in Nat : m = Len(a) /\ k = Len(b)  BY TextHas
    <3>2. /\ Len(a \o b) = m + k
          /\ \A i \in 1 .. m + k : (a \o b)[i] = IF i <= m THEN a[i] ELSE b[i - m]
      BY <3>1, ConcatProperties DEF Texts
    <3>3. \A i \in 1 .. m + k : (a \o b)[i] < 128  BY <3>2 DEF AllAscii
    <3>4. \A i \in 1 .. m : i \in 1 .. m + k /\ (a \o b)[i] = a[i]  BY <3>2
    <3>5. \A i \in 1 .. k : i + m \in 1 .. m + k /\ (a \o b)[i + m] = b[i]
      <4> TAKE i \in 1 .. k
      <4>1. i + m \in 1 .. m + k /\ ~(i + m <= m) /\ (i + m) - m = i  OBVIOUS
      <4> QED  BY <3>2, <4>1
    <3> QED  BY <3>1, <3>3, <3>4, <3>5 DEF AllAscii
  <2> QED  BY <2>1, <2>2, <2>3, <2>4, <2>5, <2>6, <2>7 DEF OrdersExact
<1> QED  BY <1>1, StringsStay, PTL

\* Its searches find the first and the last place of a byte and the first of a
\* string, and fopen the WAD under its names and nothing else.
THEOREM SearchesCorrect == Spec => []SearchesExact
<1>1. StringInv => SearchesExact
  <2> SUFFICES ASSUME StringInv  PROVE SearchesExact
    OBVIOUS
  <2>1. PICK a, b \in Texts : a = left /\ b = right  BY DEF StringInv
  <2>2. \A c : LET at == strchr(a, c)
                   last == strrchr(a, c)
               IN  IF at = 0 THEN last = 0 /\ \A i \in 1 .. Len(a) : a[i] # c
                   ELSE /\ a[at] = c /\ a[last] = c
                        /\ \A i \in 1 .. Len(a) : a[i] = c => i \in at .. last
    BY ByteFound
  <2>3. LET at == strstr(a, b)
        IN  IF at = 0 THEN \A i \in 1 .. Len(a) : ~Occurs(b, a, i)
            ELSE Occurs(b, a, at) /\ \A i \in 1 .. at - 1 : ~Occurs(b, a, i)
    BY StringFound
  <2>4. fopen(a) <=> \E name \in WadNames, i \in Until(a) :
                        /\ i = 1 \/ a[i - 1] \in Slashes
                        /\ Lower(From(a, i)) = Lower(name)
    BY WadFound
  <2>5. (fopen(left)) = (\E name \in WadNames, i \in Until(left) :
                           /\ i = 1 \/ left[i - 1] \in Slashes
                           /\ Lower(From(left, i)) = Lower(name))
    BY <2>1, <2>4 DEF fopen, navine_is_embedded_wad
  <2> QED  BY <2>1, <2>2, <2>3, <2>5, Zenon DEF SearchesExact
<1> QED  BY <1>1, StringsStay, PTL

-----------------------------------------------------------------------------
(* Numbers in a text. *)

\* What a recursion on the numbers up to N with integers for values defines.
Recursive(N, b, G) ==
    { f \in [0 .. N -> Int] : f[0] = b /\ \A i \in 1 .. N : f[i] = G[<<f[i - 1], i>>] }

LEMMA RecursionSolved ==
  ASSUME NEW N \in Nat, NEW b \in Int, NEW G \in [Int \X (1 .. N) -> Int]
  PROVE  \E f : f \in Recursive(N, b, G)
<1> DEFINE Solves(f, k) == f[0] = b /\ \A i \in 1 .. k : f[i] = G[<<f[i - 1], i>>]
<1> DEFINE Bad == { k \in 0 .. N : ~ \E f \in [0 .. k -> Int] : Solves(f, k) }
<1>1. CASE Bad = {}
  <2>1. N \notin Bad
    <3> HIDE DEF Bad
    <3> QED  BY <1>1
  <2>2. N \in 0 .. N  OBVIOUS
  <2> QED  BY <2>1, <2>2 DEF Recursive
<1>2. CASE Bad # {}
  <2>1. Bad \subseteq Nat  OBVIOUS
  <2>2. PICK k \in Bad : \A j \in Bad : k <= j  BY <1>2, <2>1, LeastOf
  <2>3. k \in 0 .. N /\ ~ \E f \in [0 .. k -> Int] : Solves(f, k)  BY <2>2
  <2>4. k # 0
    <3>1. \E f \in [0 .. 0 -> Int] : Solves(f, 0)
      <4> DEFINE f == [i \in 0 .. 0 |-> b]
      <4>1. f \in [0 .. 0 -> Int] /\ Solves(f, 0)  OBVIOUS
      <4> QED  BY <4>1
    <3> QED  BY <2>3, <3>1
  <2>5. k - 1 \in 0 .. N /\ k - 1 \notin Bad
    <3>1. k - 1 \in 0 .. N /\ ~(k <= k - 1)  BY <2>3, <2>4
    <3> HIDE DEF Bad
    <3> QED  BY <2>2, <3>1
  <2>6. PICK f \in [0 .. k - 1 -> Int] : Solves(f, k - 1)  BY <2>5
  <2>7. PICK v \in Int : v = G[<<f[k - 1], k>>]
    <3>1. f[k - 1] \in Int  BY <2>3, <2>4, <2>6
    <3>2. <<f[k - 1], k>> \in Int \X (1 .. N)  BY <2>3, <2>4, <3>1
    <3> QED  BY <3>2
  <2> DEFINE g == [i \in 0 .. k |-> IF i = k THEN v ELSE f[i]]
  <2>8. /\ k \in Nat \ {0} /\ k - 1 \in 0 .. k
        /\ \A i \in 0 .. k - 1 : i \in 0 .. k /\ i # k
    BY <2>3, <2>4
  <2>9. \A i \in 0 .. k - 1 : g[i] = f[i] /\ f[i] \in Int  BY <2>6, <2>8
  <2>10. g[k] = v  BY <2>8
  <2>11. g \in [0 .. k -> Int]
    <3>1. \A i \in 0 .. k : i = k \/ i \in 0 .. k - 1  BY <2>8
    <3> QED  BY <2>7, <2>9, <2>10, <3>1
  <2> HIDE DEF g
  <2>12. Solves(g, k)
    <3>1. g[0] = b  BY <2>6, <2>8, <2>9
    <3>2. ASSUME NEW i \in 1 .. k  PROVE g[i] = G[<<g[i - 1], i>>]
      <4>1. i - 1 \in 0 .. k - 1 /\ g[i - 1] = f[i - 1]  BY <2>8, <2>9
      <4>2. CASE i = k  BY <2>7, <2>10, <4>1, <4>2
      <4>3. CASE i # k
        <5>1. i \in 1 .. k - 1 /\ i \in 0 .. k - 1  BY <2>8, <4>3
        <5> QED  BY <2>6, <2>9, <4>1, <5>1
      <4> QED  BY <4>2, <4>3
    <3> QED  BY <3>1, <3>2
  <2> QED  BY <2>3, <2>11, <2>12
<1> QED  BY <1>1, <1>2

\* The digits of a number.
LEMMA DigitsAre ==
  ASSUME NEW a \in Texts, IsNumber(a)
  PROVE  /\ Len(a) \in Nat \ {0}
         /\ \A i \in 1 .. Len(a) : a[i] - 48 \in 0 .. 9 /\ At(a, i) = a[i] /\ a[i] # 45
         /\ Endptr(a) = Len(a) + 1
<1>1. Len(a) \in Nat /\ Len(a) # 0  BY TextHas, EmptySeq DEF IsNumber, Texts
<1>2. \A i \in 1 .. Len(a) : a[i] \in 48 .. 57 /\ At(a, i) = a[i]
  BY TextHas DEF IsNumber, isdigit
<1>3. \A i \in 1 .. Len(a) : a[i] - 48 \in 0 .. 9 /\ a[i] # 45  BY <1>2
<1> DEFINE Stops == { i \in Until(a) : ~isdigit(At(a, i)) }
<1>4. Stops = {Len(a) + 1}
  <2>1. Until(a) = 1 .. Len(a) + 1  BY DEF Until
  <2>2. At(a, Len(a) + 1) = 0
    <3>1. Len(a) + 1 \in Nat \ {0} /\ Len(a) + 1 > Len(a)  BY <1>1
    <3> QED  BY <3>1, TextHas
  <2>3. ~isdigit(At(a, Len(a) + 1))  BY <2>2 DEF isdigit
  <2>4. \A i \in 1 .. Len(a) : isdigit(At(a, i))  BY <1>2 DEF isdigit
  <2>5. Len(a) + 1 \in Until(a) /\ \A i \in Until(a) : i = Len(a) + 1 \/ i \in 1 .. Len(a)
    BY <1>1, <2>1
  <2> QED  BY <2>3, <2>4, <2>5
<1>5. Endptr(a) = Len(a) + 1
  <2>1. {Len(a) + 1} \subseteq Nat  BY <1>1
  <2>2. Min({Len(a) + 1}) \in {Len(a) + 1}  BY <2>1, LeastIs
  <2> QED  BY <1>4, <2>2 DEF Endptr
<1> QED  BY <1>1, <1>2, <1>3, <1>5

\* The rest of any integer, and of one less than the modulus.
LEMMA SmallIsItsRest ==
  ASSUME NEW N \in Nat \ {0}, NEW x \in Int
  PROVE  x % N \in Int /\ (x \in 0 .. N - 1 => x % N = x)
<1>1. x % N \in Int  OBVIOUS
<1> QED  BY <1>1, ModSmall

\* Numbers that an int can hold are kept, and of every other something is.
LEMMA WrapIs ==
  ASSUME NEW x \in Int
  PROVE  /\ Wrap(x) \in Int /\ IntMax \in Int
         /\ x \in -IntMax .. IntMax => Wrap(x) = x
<1>1. PICK h \in Nat \ {0} : h = IntWidth \div 2 /\ IntWidth = 2 * h
  BY StringValues
<1>2. Wrap(x) = ((x + h) % (2 * h)) - h /\ IntMax = h - 1
  BY <1>1 DEF Wrap, IntMax
<1>3. 2 * h \in Nat \ {0} /\ x + h \in Int  OBVIOUS
<1>4. /\ (x + h) % (2 * h) \in Int
      /\ x + h \in 0 .. 2 * h - 1 => (x + h) % (2 * h) = x + h
  BY <1>3, SmallIsItsRest
<1>5. x \in -(h - 1) .. h - 1 => x + h \in 0 .. 2 * h - 1  OBVIOUS
<1> QED  BY <1>2, <1>4, <1>5

\* A multiple is no smaller.
LEMMA MultipleOf ==
  ASSUME NEW x \in Nat, NEW w \in Nat \ {0}
  PROVE  x <= x * w
<1>1. PICK v \in Nat : w = v + 1
  <2>1. w - 1 \in Nat /\ w = (w - 1) + 1  OBVIOUS
  <2> QED  BY <2>1
<1>2. x * v \in Nat  OBVIOUS
<1>3. x * (v + 1) = x * v + x  OBVIOUS
<1> QED  BY <1>1, <1>2, <1>3

\* Multiplying by ten before each digit adds them up by their weights, and no
\* number on the way is larger than the last.
LEMMA NumberIs ==
  ASSUME NEW a \in Texts, IsNumber(a), Value(a) <= IntMax
  PROVE  strtol(a) \in 0 .. IntMax /\ strtol(a) = Value(a)
<1> DEFINE ReadStep(f) == [i \in 0 .. Endptr(a) - 1 |-> IF i = 0 THEN 0 ELSE Digit(f[i - 1], i, a)]
           WeightStep(f) == [k \in 0 .. Len(a) |-> IF k = 0 THEN 1 ELSE 10 * f[k - 1]]
           weight == CHOOSE f : f = WeightStep(f)
           SumStep(f) == [i \in 0 .. Len(a) |->
              IF i = 0 THEN 0 ELSE f[i - 1] + (a[i] - 48) * weight[Len(a) - i]]
           upTo == CHOOSE f : f = ReadStep(f)
           sum == CHOOSE f : f = SumStep(f)
<1>1. PICK len \in Nat \ {0} : len = Len(a)  BY DigitsAre
<1>2. PICK digit \in [1 .. len -> 0 .. 9] : \A i \in 1 .. len : digit[i] = a[i] - 48
  <2>1. \A i \in 1 .. len : a[i] - 48 \in 0 .. 9  BY <1>1, DigitsAre
  <2> DEFINE d0 == [i \in 1 .. len |-> a[i] - 48]
  <2>2. d0 \in [1 .. len -> 0 .. 9]  BY <2>1
  <2>3. \A i \in 1 .. len : d0[i] = a[i] - 48  OBVIOUS
  <2> HIDE DEF d0
  <2> QED  BY <2>2, <2>3
<1>3. Endptr(a) - 1 = len  BY <1>1, DigitsAre
<1>4. \A f : ReadStep(f)
           = [i \in 0 .. len |-> IF i = 0 THEN 0 ELSE Wrap(f[i - 1] * 10 + digit[i])]
  BY <1>1, <1>2, <1>3 DEF Digit
<1>5. /\ upTo[0] = 0
      /\ \A i \in 1 .. len : upTo[i] = Wrap(upTo[i - 1] * 10 + digit[i])
  <2> DEFINE G == [x \in Int \X (1 .. len) |-> Wrap(x[1] * 10 + digit[x[2]])]
  <2>1. G \in [Int \X (1 .. len) -> Int]
    <3>1. ASSUME NEW x \in Int \X (1 .. len)  PROVE Wrap(x[1] * 10 + digit[x[2]]) \in Int
      <4>1. x[1] * 10 + digit[x[2]] \in Int  OBVIOUS
      <4> QED  BY <4>1, WrapIs
    <3> QED  BY <3>1
  <2>2. PICK f \in [0 .. len -> Int] :
           f[0] = 0 /\ \A i \in 1 .. len : f[i] = G[<<f[i - 1], i>>]
    <3> HIDE DEF G
    <3>1. len \in Nat /\ 0 \in Int /\ 1 \in Int  OBVIOUS
    <3>2. \E f : f \in Recursive(len, 0, G)  BY <2>1, <3>1, RecursionSolved
    <3> QED  BY <3>2 DEF Recursive
  <2>3. \A i \in 1 .. len : f[i] = Wrap(f[i - 1] * 10 + digit[i])
    <3> TAKE i \in 1 .. len
    <3>1. i - 1 \in 0 .. len  OBVIOUS
    <3>2. <<f[i - 1], i>> \in Int \X (1 .. len)  BY <3>1
    <3> QED  BY <2>2, <3>2
  <2>4. f = ReadStep(f)
    <3>1. \A i \in 0 .. len : f[i] = IF i = 0 THEN 0 ELSE Wrap(f[i - 1] * 10 + digit[i])
      BY <2>2, <2>3
    <3> HIDE DEF ReadStep
    <3> QED  BY <1>4, <3>1
  <2> HIDE DEF ReadStep
  <2>5. upTo = ReadStep(upTo)  BY <2>4
  <2> HIDE DEF upTo
  <2> QED  BY <1>4, <2>5
<1>6. /\ weight[0] = 1
      /\ \A k \in 1 .. len : weight[k] = 10 * weight[k - 1]
  <2> DEFINE G == [x \in Int \X (1 .. len) |-> 10 * x[1]]
  <2>1. G \in [Int \X (1 .. len) -> Int]  OBVIOUS
  <2>2. PICK f \in [0 .. len -> Int] :
           f[0] = 1 /\ \A i \in 1 .. len : f[i] = G[<<f[i - 1], i>>]
    <3> HIDE DEF G
    <3>1. len \in Nat /\ 0 \in Int /\ 1 \in Int  OBVIOUS
    <3>2. \E f : f \in Recursive(len, 1, G)  BY <2>1, <3>1, RecursionSolved
    <3> QED  BY <3>2 DEF Recursive
  <2>3. \A i \in 1 .. len : f[i] = 10 * f[i - 1]
    <3> TAKE i \in 1 .. len
    <3>1. i - 1 \in 0 .. len  OBVIOUS
    <3>2. <<f[i - 1], i>> \in Int \X (1 .. len)  BY <3>1
    <3> QED  BY <2>2, <3>2
  <2>4. f = WeightStep(f)
    <3>1. \A i \in 0 .. len : f[i] = IF i = 0 THEN 1 ELSE 10 * f[i - 1]
      BY <2>2, <2>3
    <3> QED  BY <1>1, <3>1
  <2> HIDE DEF WeightStep
  <2>5. weight = WeightStep(weight)  BY <2>4
  <2> HIDE DEF weight
  <2> QED  BY <1>1, <2>5 DEF WeightStep
<1> HIDE DEF weight
<1>7. \A k \in 0 .. len : weight[k] \in Nat \ {0}
  <2> DEFINE Bad == { k \in 0 .. len : weight[k] \notin Nat \ {0} }
  <2> SUFFICES ASSUME Bad # {}  PROVE FALSE
    OBVIOUS
  <2>1. Bad \subseteq Nat  OBVIOUS
  <2>2. PICK k \in Bad : \A j \in Bad : k <= j  BY <2>1, LeastOf
  <2>3. k \in 1 .. len /\ weight[k] = 10 * weight[k - 1]  BY <1>6, <2>2
  <2>4. k - 1 \in 0 .. len /\ k - 1 \notin Bad  BY <2>2, <2>3
  <2>5. PICK w \in Nat \ {0} : w = weight[k - 1]  BY <2>4
  <2>6. 10 * w \in Nat \ {0}  OBVIOUS
  <2> QED  BY <2>2, <2>3, <2>5, <2>6
<1>8. \A f : SumStep(f) = [i \in 0 .. len |->
                IF i = 0 THEN 0 ELSE f[i - 1] + digit[i] * weight[len - i]]
  BY <1>1, <1>2
<1>9. /\ sum[0] = 0
      /\ \A i \in 1 .. len : sum[i] = sum[i - 1] + digit[i] * weight[len - i]
  <2> DEFINE G == [x \in Int \X (1 .. len) |-> x[1] + digit[x[2]] * weight[len - x[2]]]
  <2>1. G \in [Int \X (1 .. len) -> Int]
    <3>1. \A i \in 1 .. len : digit[i] \in Int /\ weight[len - i] \in Int
      <4> TAKE i \in 1 .. len
      <4>1. len - i \in 0 .. len  OBVIOUS
      <4> QED  BY <1>7, <4>1
    <3> QED  BY <3>1
  <2>2. PICK f \in [0 .. len -> Int] :
           f[0] = 0 /\ \A i \in 1 .. len : f[i] = G[<<f[i - 1], i>>]
    <3> HIDE DEF G
    <3>1. len \in Nat /\ 0 \in Int /\ 1 \in Int  OBVIOUS
    <3>2. \E f : f \in Recursive(len, 0, G)  BY <2>1, <3>1, RecursionSolved
    <3> QED  BY <3>2 DEF Recursive
  <2>3. \A i \in 1 .. len : f[i] = f[i - 1] + digit[i] * weight[len - i]
    <3> TAKE i \in 1 .. len
    <3>1. i - 1 \in 0 .. len  OBVIOUS
    <3>2. <<f[i - 1], i>> \in Int \X (1 .. len)  BY <3>1
    <3> QED  BY <2>2, <3>2
  <2>4. f = SumStep(f)
    <3>1. \A i \in 0 .. len : f[i] = IF i = 0 THEN 0 ELSE f[i - 1] + digit[i] * weight[len - i]
      BY <2>2, <2>3
    <3> HIDE DEF SumStep
    <3> QED  BY <1>8, <3>1
  <2> HIDE DEF SumStep
  <2>5. sum = SumStep(sum)  BY <2>4
  <2> HIDE DEF sum
  <2>6. sum = [i \in 0 .. len |->
                 IF i = 0 THEN 0 ELSE sum[i - 1] + digit[i] * weight[len - i]]
    BY <1>8, <2>5
  <2>7. 0 \in 0 .. len /\ \A i \in 1 .. len : i \in 0 .. len /\ i # 0  OBVIOUS
  <2> QED  BY <2>6, <2>7, Zenon
<1>10. strtol(a) = upTo[len] /\ Value(a) = sum[len]
  <2>1. strtol(a) = upTo[Endptr(a) - 1]  BY DEF strtol
  <2>2. Value(a) = sum[Len(a)]  BY DEF Value, weight
  <2> QED  BY <1>1, <1>3, <2>1, <2>2
<1> HIDE DEF upTo, sum
\* The sum grows, so no sum on the way is larger than the number.
<1>11. \A i \in 0 .. len : sum[i] \in Nat
  <2> DEFINE Bad == { i \in 0 .. len : sum[i] \notin Nat }
  <2> SUFFICES ASSUME Bad # {}  PROVE FALSE
    OBVIOUS
  <2>1. Bad \subseteq Nat  OBVIOUS
  <2>2. PICK i \in Bad : \A j \in Bad : i <= j  BY <2>1, LeastOf
  <2>3. i \in 1 .. len  BY <1>9, <2>2
  <2>4. i - 1 \in 0 .. len /\ i - 1 \notin Bad /\ len - i \in 0 .. len  BY <2>2, <2>3
  <2>5. digit[i] \in Nat /\ weight[len - i] \in Nat /\ sum[i - 1] \in Nat
    <3>1. digit[i] \in Nat  BY <2>3
    <3>2. weight[len - i] \in Nat  BY <1>7, <2>4
    <3>3. sum[i - 1] \in Nat  BY <2>4
    <3> QED  BY <3>1, <3>2, <3>3
  <2>6. digit[i] * weight[len - i] \in Nat  BY <2>5
  <2> QED  BY <1>9, <2>2, <2>3, <2>5, <2>6
<1>12. \A i \in 0 .. len : sum[i] <= sum[len]
  <2> DEFINE Bad == { k \in 0 .. len : ~(sum[len - k] <= sum[len]) }
  <2>1. CASE Bad = {}
    <3> TAKE i \in 0 .. len
    <3>1. len - i \in 0 .. len /\ len - (len - i) = i  OBVIOUS
    <3>2. len - i \notin Bad
      <4> HIDE DEF Bad
      <4> QED  BY <2>1
    <3> QED  BY <3>1, <3>2
  <2>2. CASE Bad # {}
    <3>1. Bad \subseteq Nat  OBVIOUS
    <3>2. PICK k \in Bad : \A j \in Bad : k <= j  BY <2>2, <3>1, LeastOf
    <3>3. k \in 0 .. len /\ ~(sum[len - k] <= sum[len])  BY <3>2
    <3>4. k # 0
      <4>1. len - 0 = len /\ len \in 0 .. len  OBVIOUS
      <4>2. sum[len] <= sum[len]  BY <1>11, <4>1
      <4> QED  BY <3>3, <4>1, <4>2
    <3>5. k - 1 \in 0 .. len /\ ~(k <= k - 1)  BY <3>3, <3>4
    <3>6. k - 1 \notin Bad
      <4> HIDE DEF Bad
      <4> QED  BY <3>2, <3>5
    <3>7. sum[len - (k - 1)] <= sum[len]  BY <3>5, <3>6
    <3>8. PICK i \in 1 .. len : i = len - (k - 1) /\ i - 1 = len - k
      <4>1. len - (k - 1) \in 1 .. len /\ (len - (k - 1)) - 1 = len - k
        BY <3>3, <3>4
      <4> QED  BY <4>1
    <3>9. /\ i - 1 \in 0 .. len /\ i \in 0 .. len /\ len \in 0 .. len
          /\ len - i \in 0 .. len
      OBVIOUS
    <3>10. digit[i] \in Nat /\ weight[len - i] \in Nat  BY <1>7, <3>9
    <3>11. digit[i] * weight[len - i] \in Nat  BY <3>10
    <3>12. sum[i - 1] <= sum[i]  BY <1>9, <1>11, <3>9, <3>11
    <3> QED  BY <1>11, <3>3, <3>7, <3>8, <3>9, <3>12
  <2> QED  BY <2>1, <2>2
\* What was read, moved to its place, is the sum so far.
<1>13. \A i \in 0 .. len : upTo[i] \in 0 .. IntMax /\ upTo[i] * weight[len - i] = sum[i]
  <2> DEFINE Bad == { i \in 0 .. len : ~ (/\ upTo[i] \in 0 .. IntMax
                                          /\ upTo[i] * weight[len - i] = sum[i]) }
  <2> SUFFICES ASSUME Bad # {}  PROVE FALSE
    OBVIOUS
  <2>0. PICK top \in Int : top = IntMax /\ \A i \in 0 .. len : sum[i] <= top
    <3>1. IntMax \in Int  BY WrapIs
    <3>2. len \in 0 .. len  OBVIOUS
    <3>3. sum[len] <= IntMax  BY <1>10
    <3> QED  BY <1>11, <1>12, <3>1, <3>2, <3>3
  <2>1. Bad \subseteq Nat  OBVIOUS
  <2>2. PICK i \in Bad : \A j \in Bad : i <= j  BY <2>1, LeastOf
  <2>3. i # 0
    <3>1. len - 0 \in 0 .. len /\ 0 \in 0 .. len  OBVIOUS
    <3>2. weight[len - 0] \in Int  BY <1>7, <3>1
    <3>3. 0 * weight[len - 0] = 0  BY <3>2
    <3>4. 0 \in 0 .. IntMax
      <4>1. 0 <= top  BY <1>9, <2>0, <3>1
      <4> QED  BY <2>0, <4>1
    <3>5. upTo[0] \in 0 .. IntMax /\ upTo[0] * weight[len - 0] = sum[0]
      BY <1>5, <1>9, <3>3, <3>4
    <3>6. 0 \notin Bad  BY <3>5
    <3> HIDE DEF Bad
    <3> QED  BY <2>2, <3>6
  <2>4. i \in 1 .. len  BY <2>2, <2>3
  <2>5. i - 1 \in 0 .. len /\ i - 1 \notin Bad  BY <2>2, <2>4
  <2>6. PICK u, c \in Nat, w \in Nat \ {0}, s0 \in Int :
           /\ u = upTo[i - 1] /\ s0 = sum[i - 1]
           /\ w = weight[len - i] /\ c = digit[i]
    <3>1. len - i \in 0 .. len  BY <2>4
    <3>2. upTo[i - 1] \in Nat
      <4>1. upTo[i - 1] \in 0 .. IntMax  BY <2>5
      <4> QED  BY <2>0, <4>1
    <3>3. digit[i] \in Nat /\ weight[len - i] \in Nat \ {0}
      BY <1>7, <2>4, <3>1
    <3>4. sum[i - 1] \in Int
      <4>1. sum[i - 1] \in Nat  BY <1>11, <2>5
      <4> QED  BY <4>1
    <3> QED  BY <3>2, <3>3, <3>4
  <2>7. weight[len - (i - 1)] = 10 * w
    <3>1. len - (i - 1) \in 1 .. len /\ (len - (i - 1)) - 1 = len - i  BY <2>4
    <3> QED  BY <1>6, <2>6, <3>1
  <2>8. u * (10 * w) = s0  BY <2>5, <2>6, <2>7
  <2>9. upTo[i] = Wrap(u * 10 + c) /\ sum[i] = s0 + c * w  BY <1>5, <1>9, <2>4, <2>6
  <2>10. (u * 10 + c) * w = u * (10 * w) + c * w
    <3>1. u \in Int /\ w \in Int /\ c \in Int  OBVIOUS
    <3> QED  BY <3>1
  <2>11. PICK x \in Nat : x = u * 10 + c  OBVIOUS
  <2>12. x * w = sum[i]  BY <2>8, <2>9, <2>10, <2>11
  <2>13. x <= top
    <3>1. x <= x * w  BY MultipleOf
    <3>2. x * w \in Int /\ sum[i] <= top  BY <2>0, <2>4
    <3> QED  BY <2>12, <3>1, <3>2
  <2>14. Wrap(x) = x
    <3>1. x \in -IntMax .. IntMax  BY <2>0, <2>13
    <3> QED  BY <3>1, WrapIs
  <2>15. upTo[i] = x  BY <2>9, <2>11, <2>14
  <2>16. upTo[i] \in 0 .. IntMax /\ upTo[i] * weight[len - i] = sum[i]
    <3>1. x \in 0 .. IntMax  BY <2>0, <2>13
    <3> QED  BY <2>6, <2>12, <2>15, <3>1
  <2> QED  BY <2>2, <2>16
<1>14. upTo[len] \in 0 .. IntMax /\ upTo[len] * weight[0] = sum[len]
  <2>1. len \in 0 .. len /\ len - len = 0  OBVIOUS
  <2> QED  BY <1>13, <2>1
<1>15. upTo[len] = sum[len]
  <2>1. IntMax \in Int  BY WrapIs
  <2>2. upTo[len] \in Int  BY <1>14, <2>1
  <2>3. upTo[len] * 1 = sum[len]  BY <1>6, <1>14
  <2> QED  BY <2>2, <2>3
<1> QED  BY <1>10, <1>14, <1>15

\* Every number that an int can hold is read as its value, in however many digits,
\* and with a minus before it as its negative.
THEOREM NumbersCorrect == Spec => []NumbersExact
<1>1. StringInv => NumbersExact
  <2> SUFFICES ASSUME StringInv, IsNumber(left), Value(left) <= IntMax
        PROVE  /\ strtol(left) = Value(left) /\ atoi(left) = Value(left)
               /\ atoi(<<45>> \o left) = -Value(left)
    BY DEF NumbersExact
  <2>1. PICK a \in Texts : a = left  BY DEF StringInv
  <2>2. strtol(a) \in 0 .. IntMax /\ strtol(a) = Value(a)  BY <2>1, NumberIs
  <2>3. atoi(a) = strtol(a)
    <3>1. At(a, 1) # 45
      <4>1. 1 \in 1 .. Len(a)  BY <2>1, DigitsAre
      <4> QED  BY <2>1, <4>1, DigitsAre
    <3> QED  BY <3>1 DEF atoi
  <2>4. atoi(<<45>> \o a) = Wrap(-strtol(a))
    <3>1. PICK b : b = <<45>> \o a  OBVIOUS
    <3>2. <<45>> \in Texts /\ Len(<<45>>) = 1  BY DEF Texts
    <3>3. /\ b \in Texts /\ Len(b) = 1 + Len(a)
          /\ \A i \in 1 .. 1 + Len(a) : b[i] = IF i <= 1 THEN <<45>>[i] ELSE a[i - 1]
      BY <3>1, <3>2, ConcatProperties DEF Texts
    <3>4. PICK len \in Nat \ {0} : len = Len(a)  BY <2>1, DigitsAre
    <3>5. At(b, 1) = 45
      <4>1. 1 \in 1 .. 1 + len  BY <3>4
      <4>2. b[1] = 45  BY <3>3, <3>4, <4>1
      <4>3. 1 <= Len(b)  BY <3>3, <3>4
      <4> QED  BY <4>2, <4>3 DEF At
    <3>6. From(b, 2) = a
      <4>1. 2 \in 1 .. Len(b) + 1 /\ Len(b) + 1 - 2 = len  BY <3>3, <3>4
      <4>2. /\ From(b, 2) \in Texts /\ Len(From(b, 2)) = len
            /\ \A j \in 1 .. len : From(b, 2)[j] = b[2 + j - 1]
        BY <3>3, <4>1, FromHas
      <4>3. \A j \in 1 .. len : b[2 + j - 1] = a[j]
        <5> TAKE j \in 1 .. len
        <5>1. 2 + j - 1 \in 1 .. 1 + len /\ ~(2 + j - 1 <= 1) /\ (2 + j - 1) - 1 = j
          BY <3>4
        <5> QED  BY <3>3, <3>4, <5>1
      <4>4. \A j \in 1 .. len : From(b, 2)[j] = a[j]  BY <4>2, <4>3
      <4> HIDE DEF From
      <4> QED  BY <3>4, <4>2, <4>4, SeqEqual DEF Texts
    <3> QED  BY <3>1, <3>5, <3>6 DEF atoi
  <2>5. Wrap(-strtol(a)) = -strtol(a)
    <3>1. IntMax \in Int  BY WrapIs
    <3>2. -strtol(a) \in Int /\ -strtol(a) \in -IntMax .. IntMax  BY <2>2, <3>1
    <3> QED  BY <3>2, WrapIs
  <2> QED  BY <2>1, <2>2, <2>3, <2>4, <2>5
<1> QED  BY <1>1, StringsStay, PTL

\* The C library copies, compares and searches as C says, except that the searches
\* for a byte never find the terminator.
THEOREM LibraryCorrect == Spec => []LibraryExact
BY CopiesCorrect, OrdersCorrect, SearchesCorrect, PTL DEF LibraryExact
=============================================================================
