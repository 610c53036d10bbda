------------------------------ MODULE Ps2Input -------------------------------
(***************************************************************************)
(* Keyboard and mouse input: the 8042 controller, the interrupt handlers   *)
(* of IRQ 1 and IRQ 12, the polling loop the main loop runs with           *)
(* interrupts off, the 256-byte scan code ring between them and the main   *)
(* loop, and the assembly of three-byte mouse packets.                     *)
(*                                                                         *)
(* Two paths empty the same controller: ps2_poll_all reads the status      *)
(* register and then the data register; the interrupt handlers read the    *)
(* data register at once.  The model has one step per port access of the   *)
(* polling loop and one step per interrupt handler, which runs with        *)
(* interrupts off from its gate to its iretq.                              *)
(*                                                                         *)
(* Between its steps the main loop calls the rest of the system, and such  *)
(* a call may take long or never come back: a search for the gateway, the  *)
(* wait for an answer from the network, a program that was started.  What  *)
(* those calls do is left out, shutdown and panic among them.              *)
(***************************************************************************)
EXTENDS Integers, Sequences

CONSTANTS
  RingSize,   \* slots of key_buffer (256 in the source)
  KeyBytes,   \* the bytes the keyboard may send
  AuxBytes,   \* the bytes the mouse may send
  FbWidth,    \* framebuffer size, at least the 24 pixels of the cursor
  FbHeight,
  PortDepth,  \* bound: bytes waiting in the controller
  MaxBytes    \* bound: bytes the two devices send in a run

Byte == 0..255

ASSUME RingAssumption == RingSize \in Nat \ {0}
ASSUME ByteAssumption == KeyBytes \subseteq Byte /\ AuxBytes \subseteq Byte
ASSUME ScreenAssumption == /\ FbWidth \in Nat /\ FbWidth >= 24
                           /\ FbHeight \in Nat /\ FbHeight >= 24
ASSUME BoundAssumption == PortDepth \in Nat /\ MaxBytes \in Nat

VARIABLES
  port,       \* what the controller holds, the head in its output buffer
  dataReg,    \* what the data port returned last; read again when it is empty
  irr,        \* interrupts latched in the PIC: a subset of {1, 12}
  isr,        \* in service: 1, and 12 on the slave with 2 on the master
  ifl,        \* the interrupt flag of the processor
  key_buffer, key_read_pos, key_write_pos,
  mouse_x, mouse_y, mouse_buttons, mouse_cycle, mouse_packet,
  mouse_irq_active,
  pc,         \* where the main loop is
  away,       \* it is inside a call, with interrupts on
  r12d, r13d, \* registers of mouse_render: where the cursor is drawn
  key,        \* the scan code the main loop read last
  sent,       \* how many bytes the devices have sent
  stored,     \* history: what was put into the ring, with its origin
  stale,      \* history: IRQ 1 was served when no scan code was at hand
  filed,      \* history: what was given to mouse_process_byte
  astray      \* history: something else than a byte of the mouse was

ring  == <<key_buffer, key_write_pos, stored>>
drawn == <<r12d, r13d>>
pic   == <<irr, isr>>
mouse == <<mouse_x, mouse_y, mouse_buttons, mouse_cycle, mouse_packet, filed, astray>>
flow  == <<pc, away>>
vars  == <<port, dataReg, pic, ifl, ring, key_read_pos, mouse,
           mouse_irq_active, flow, drawn, key, sent, stale>>

Irqs == {1, 12}
Level(n) == IF n >= 8 THEN 2 ELSE n   \* priority: the slave hangs on line 2
(* A byte in the controller: its source, its value, and which one it is.   *)
Item == [aux : BOOLEAN, byte : Byte, seq : Nat]

------------------------------------------------------------------------------
(* The mouse packet machine.                                               *)

(* Bit 3 set and the two overflow bits clear: what the driver takes for    *)
(* the first byte of a packet.                                             *)
LooksLikeFirst(b) == (b \div 8) % 2 = 1 /\ b < 64

(* movsx, then the clamp to 24 counts either way, then the doubling.       *)
Signed(b) == IF b < 128 THEN b ELSE b - 256
Clamp(v, lo, hi) == IF v > hi THEN hi ELSE IF v < lo THEN lo ELSE v
Delta(b) == 2 * Clamp(Signed(b), -24, 24)

(* The third byte completes a packet: its flags byte becomes mouse_buttons *)
(* and the pointer moves, y upwards.                                       *)
Complete(packet) ==
  IF packet[0] >= 64 THEN UNCHANGED <<mouse_x, mouse_y, mouse_buttons>>
  ELSE /\ mouse_buttons' = packet[0]
       /\ mouse_x' = mouse_x + Delta(packet[1])
       /\ mouse_y' = mouse_y - Delta(packet[2])

(* .store: the byte goes to its place in a packet of len bytes.            *)
Store(b, len) ==
  /\ mouse_packet' = [mouse_packet EXCEPT ![mouse_cycle] = b]
  /\ mouse_cycle' = IF mouse_cycle + 1 < len THEN mouse_cycle + 1 ELSE 0
  /\ IF mouse_cycle + 1 < len THEN UNCHANGED <<mouse_x, mouse_y, mouse_buttons>>
     ELSE Complete(mouse_packet')

mouse_process_byte(b) ==
  IF mouse_cycle = 0 /\ ~LooksLikeFirst(b)
  THEN UNCHANGED <<mouse_x, mouse_y, mouse_buttons, mouse_cycle, mouse_packet>>
  ELSE Store(b, 3)

(* What both paths do with a byte they take for the mouse's.               *)
File(item) ==
  /\ mouse_process_byte(item.byte)
  /\ filed' = Append(filed, item)

------------------------------------------------------------------------------
(* The 8042 and the PIC.                                                   *)

(* The line a byte raises when it reaches the output buffer.               *)
Line(item) == IF item.aux THEN 12 ELSE 1
Raised(q) == IF q = <<>> THEN {} ELSE {Line(Head(q))}

(* Reading the data port returns the byte of the output buffer and brings  *)
(* up the next one; an empty one returns the same byte as last time.       *)
InData == IF port = <<>> THEN dataReg ELSE Head(port)
AfterRead == IF port = <<>> THEN <<>> ELSE Tail(port)

(* A device sends a byte.  It raises its line only if it goes straight to  *)
(* the output buffer.                                                      *)
Send(aux, b) ==
  /\ sent < MaxBytes /\ Len(port) < PortDepth
  /\ LET item == [aux |-> aux, byte |-> b, seq |-> sent + 1]
     IN  /\ port' = Append(port, item)
         /\ irr' = IF port = <<>> THEN irr \union {Line(item)} ELSE irr
  /\ sent' = sent + 1
  /\ UNCHANGED <<dataReg, isr, ifl, key_read_pos, ring, mouse,
                 mouse_irq_active, flow, drawn, key, stale>>

KeyboardSends == \E b \in KeyBytes : Send(FALSE, b)
MouseSends    == \E b \in AuxBytes : Send(TRUE, b)

------------------------------------------------------------------------------
(* The ring.                                                               *)

(* A slip: the position advanced before it is used.                        *)
Put_inc_first(item) ==
  /\ key_buffer' = [key_buffer EXCEPT ![(key_write_pos + 1) % RingSize] = item.byte]
  /\ key_write_pos' = key_write_pos + 1
  /\ stored' = Append(stored, item)

(* Storing a scan code looks at the write position only: a full ring is    *)
(* not noticed and its oldest byte is overwritten.                         *)
Put(item) ==
  /\ key_buffer' = [key_buffer EXCEPT ![key_write_pos % RingSize] = item.byte]
  /\ key_write_pos' = key_write_pos + 1
  /\ stored' = Append(stored, item)

(* Slips: jg for jge; the positions compared after they are masked, so     *)
(* that a full ring looks empty.                                           *)
keyboard_read_jg ==
  IF key_read_pos > key_write_pos THEN UNCHANGED <<key_read_pos, key>>
  ELSE /\ key' = key_buffer[key_read_pos % RingSize]
       /\ key_read_pos' = key_read_pos + 1
keyboard_read_masked ==
  IF key_read_pos % RingSize = key_write_pos % RingSize
  THEN UNCHANGED <<key_read_pos, key>>
  ELSE /\ key' = key_buffer[key_read_pos % RingSize]
       /\ key_read_pos' = key_read_pos + 1

(* keyboard_read hands out nothing when the ring is empty (it returns 0,   *)
(* and its callers ask keyboard_has_data first or ignore 0).               *)
keyboard_read ==
  IF key_read_pos >= key_write_pos THEN UNCHANGED <<key_read_pos, key>>
  ELSE /\ key' = key_buffer[key_read_pos % RingSize]
       /\ key_read_pos' = key_read_pos + 1

------------------------------------------------------------------------------
(* Interrupt handlers.                                                     *)

(* Interrupt n is taken: the flag is set, the PIC has latched it, nothing  *)
(* of higher priority is latched and nothing as high is in service.        *)
Taken(n) ==
  /\ ifl /\ n \in irr
  /\ \A m \in irr : Level(m) >= Level(n)
  /\ \A m \in isr : Level(m) > Level(n)

(* The chips an acknowledge puts in service, and the ones pic_send_eoi     *)
(* ends: the master always, the slave too for interrupts from 8 on.        *)
InService(n) == isr \union {n, Level(n)}
pic_send_eoi_master(s, n) == s \ {Level(n)}   \* a slip: the slave forgotten
pic_send_eoi(s, n) == s \ {n, Level(n)}

(* The rest of a handler: its latch went with the acknowledge, the byte it *)
(* read made room for the next one, and the EOI ends the service.          *)
Serviced(n) ==
  /\ dataReg' = InData
  /\ port' = AfterRead
  /\ irr' = (irr \ {n}) \union Raised(AfterRead)
  /\ isr' = pic_send_eoi(InService(n), n)
  /\ stale' = (stale \/ (n = 1 /\ (port = <<>> \/ Line(InData) # 1)))
  /\ UNCHANGED <<ifl, key_read_pos, flow, drawn, key, sent>>

irq1_handler ==
  /\ Taken(1)
  /\ Put(InData)
  /\ Serviced(1)
  /\ UNCHANGED <<mouse, mouse_irq_active>>

irq12_handler ==
  /\ Taken(12)
  /\ mouse_irq_active' = TRUE
  /\ File(InData)
  /\ astray' = (astray \/ port = <<>> \/ Line(InData) # 12)
  /\ Serviced(12)
  /\ UNCHANGED ring

------------------------------------------------------------------------------
(* The main loop.                                                          *)

At(place) == pc = place /\ ~away
Goto(place) == pc' = place /\ UNCHANGED away
CallThenGoto(place) == pc' = place /\ away' \in BOOLEAN

(* A slip: the polling loop without its cli.                               *)
PollEnter_no_cli ==
  /\ At("poll")
  /\ Goto("status")
  /\ UNCHANGED <<port, dataReg, pic, ifl, key_read_pos, ring, mouse,
                 mouse_irq_active, drawn, key, sent, stale>>

(* ps2_poll_all saves the flag and turns interrupts off.                   *)
PollEnter ==
  /\ At("poll")
  /\ ifl' = FALSE
  /\ Goto("status")
  /\ UNCHANGED <<port, dataReg, pic, key_read_pos, ring, mouse,
                 mouse_irq_active, drawn, key, sent, stale>>

(* The status register: nothing there, or a mouse byte while the mouse     *)
(* interrupt is known to work, ends the loop and gives the flag back.      *)
(* Then come net_poll, the late start and everything that handles the      *)
(* mouse.                                                                  *)
PollStatus ==
  /\ At("status")
  /\ IF port = <<>> \/ (Head(port).aux /\ mouse_irq_active)
     THEN ifl' = TRUE /\ CallThenGoto("x0")
     ELSE Goto("data") /\ UNCHANGED ifl
  /\ UNCHANGED <<port, dataReg, pic, key_read_pos, ring, mouse,
                 mouse_irq_active, drawn, key, sent, stale>>

(* What a polled byte is taken for: bl still holds the status byte.        *)
TakenForMouse(item) ==
  \/ item.aux
  \/ mouse_cycle # 0
  \/ LooksLikeFirst(item.byte)

(* The data register.  The interrupt of the byte read here may stay        *)
(* latched in the PIC although its line has dropped.                       *)
PollData ==
  /\ At("data")
  /\ dataReg' = InData
  /\ port' = AfterRead
  /\ \E kept \in SUBSET (irr \intersect Raised(port)) :
        irr' = (irr \ Raised(port)) \union kept \union Raised(AfterRead)
  /\ IF TakenForMouse(InData)
     THEN /\ File(InData) /\ UNCHANGED ring
          /\ astray' = (astray \/ ~InData.aux)
     ELSE Put(InData) /\ UNCHANGED mouse
  /\ Goto("status")
  /\ UNCHANGED <<isr, ifl, key_read_pos, mouse_irq_active, drawn, key, sent,
                 stale>>

(* mouse_render clamps each coordinate to the screen by a load and a store *)
(* with interrupts on in between, and draws at what it holds in registers. *)
(* After the drawing comes init_network, the first time.                   *)
RenderLoad ==
  /\ \/ /\ At("x0") /\ Goto("x1")
        /\ r12d' = Clamp(mouse_x, 0, FbWidth - 24) /\ UNCHANGED r13d
     \/ /\ At("y0") /\ Goto("y1")
        /\ r13d' = Clamp(mouse_y, 0, FbHeight - 24) /\ UNCHANGED r12d
  /\ UNCHANGED <<port, dataReg, pic, ifl, key_read_pos, ring, mouse,
                 mouse_irq_active, key, sent, stale>>

RenderStore ==
  /\ \/ At("x1") /\ Goto("y0")  /\ mouse_x' = r12d /\ UNCHANGED mouse_y
     \/ At("y1") /\ CallThenGoto("kb1") /\ mouse_y' = r13d /\ UNCHANGED mouse_x
  /\ UNCHANGED <<port, dataReg, pic, ifl, key_read_pos, ring, mouse_buttons,
                 mouse_cycle, mouse_packet, filed, astray, mouse_irq_active, drawn,
                 key, sent, stale>>

(* The two readers of an iteration: the terminal (or the installer), then  *)
(* poll_keyboard.  Each goes on to what the key asks for.                  *)
ReadKey ==
  /\ \/ At("kb1") /\ CallThenGoto("kb2")
     \/ At("kb2") /\ CallThenGoto("poll")
  /\ keyboard_read
  /\ UNCHANGED <<port, dataReg, pic, ifl, ring, mouse, mouse_irq_active,
                 drawn, sent, stale>>

MainLoop == PollEnter \/ PollStatus \/ PollData \/ RenderLoad \/ RenderStore
            \/ ReadKey

(* A call comes back.                                                      *)
Return ==
  /\ away /\ away' = FALSE
  /\ UNCHANGED <<port, dataReg, pic, ifl, key_read_pos, ring, mouse,
                 mouse_irq_active, pc, drawn, key, sent, stale>>

------------------------------------------------------------------------------
(* The state kernel_main starts from: the drivers initialised, the         *)
(* controller drained, the pointer in the middle, interrupts on.  The      *)
(* acknowledges init_mouse read may have left IRQ 12 latched.              *)
Init ==
  /\ port = <<>>
  /\ dataReg = [aux |-> TRUE, byte |-> 250, seq |-> 0]
  /\ irr \in {{}, {12}} /\ isr = {}
  /\ ifl = TRUE
  /\ key_buffer = [i \in 0..RingSize - 1 |-> 0]
  /\ key_read_pos = 0 /\ key_write_pos = 0
  /\ mouse_x = FbWidth \div 2 /\ mouse_y = FbHeight \div 2
  /\ mouse_buttons = 0 /\ mouse_cycle = 0
  /\ mouse_packet = [i \in 0..2 |-> 0]
  /\ mouse_irq_active = FALSE
  /\ pc = "poll" /\ away = FALSE
  /\ r12d = 0 /\ r13d = 0
  /\ key = 0
  /\ sent = 0
  /\ stored = <<>>
  /\ stale = FALSE
  /\ filed = <<>> /\ astray = FALSE

Next == KeyboardSends \/ MouseSends \/ irq1_handler \/ irq12_handler \/ MainLoop
        \/ Return

(* The main loop goes on whenever it is not inside a call, and a processor *)
(* takes a latched interrupt before the next instruction it runs with the  *)
(* flag set: a handler that is enabled again and again, between the polls, *)
(* is run.  That a call comes back is not assumed.                         *)
Fairness == /\ WF_vars(MainLoop)
            /\ SF_vars(irq1_handler)
            /\ SF_vars(irq12_handler)

Spec == Init /\ [][Next]_vars
FairSpec == Spec /\ Fairness

------------------------------------------------------------------------------
(* Properties.                                                             *)

(* Every variable has its type: in particular mouse_cycle stays an index   *)
(* of mouse_packet, and the positions never go below zero.                 *)
TypeOK ==
  /\ port \in Seq(Item) /\ dataReg \in Item
  /\ irr \in SUBSET Irqs /\ isr \in SUBSET {1, 2, 12}
  /\ ifl \in BOOLEAN
  /\ key_buffer \in [0..RingSize - 1 -> Byte]
  /\ key_read_pos \in Nat /\ key_write_pos \in Nat
  /\ mouse_x \in Int /\ mouse_y \in Int
  /\ mouse_buttons \in Byte /\ mouse_cycle \in 0..2
  /\ mouse_packet \in [0..2 -> Byte]
  /\ mouse_irq_active \in BOOLEAN
  /\ away \in BOOLEAN
  /\ pc \in {"poll", "status", "data", "x0", "x1", "y0", "y1", "kb1", "kb2"}
  /\ r12d \in Int /\ r13d \in Int
  /\ key \in Byte
  /\ sent \in Nat
  /\ stored \in Seq(Item)
  /\ stale \in BOOLEAN
  /\ filed \in Seq(Item) /\ astray \in BOOLEAN

(* The reader never overtakes the writers, and whatever mix of interrupts  *)
(* and polls filled the ring, its slots hold the RingSize scan codes       *)
(* stored last, each where keyboard_read looks for it.                     *)
RingHoldsLatest ==
  /\ key_read_pos <= key_write_pos
  /\ key_write_pos = Len(stored)
  /\ \A i \in 0..key_write_pos - 1 :
        i + RingSize >= key_write_pos
          => key_buffer[i % RingSize] = stored[i + 1].byte

(* The scan codes waiting in the ring.                                     *)
Waiting == [i \in 1..key_write_pos - key_read_pos |->
              stored[key_read_pos + i].byte]
Fifo == INSTANCE KeyFifo WITH queue <- Waiting, Capacity <- RingSize

(* The driver hands scan codes to the main loop as the abstract queue      *)
(* promises: in order, once each, while no more than RingSize wait.        *)
ImplementsKeyFifo == Fifo!Spec

(* The polling loop and the handler of IRQ 1 never take one byte twice and *)
(* never store a mouse byte as a scan code, unless the PIC delivers an     *)
(* IRQ 1 whose byte the polling loop took already.                         *)
KeysStoredOnce ==
  stale \/ \A i \in 1..Len(stored) :
             /\ ~stored[i].aux
             /\ \A j \in 1..i - 1 : stored[j].seq < stored[i].seq

(* Every third byte filed can start a packet, as those of a mouse do.      *)
FiledWhole == \A i \in 1..Len(filed) : i % 3 = 1 => LooksLikeFirst(filed[i].byte)

(* IRQ 12 and the polling loop together assemble whole packets in step.    *)
(* And as long as nothing else was taken for a byte of the mouse, they     *)
(* file each of its bytes once and in order, and none is lost between      *)
(* them: every byte sent is in the controller, in the history of the ring, *)
(* or filed.                                                               *)
MouseBytesFiled ==
  /\ FiledWhole => mouse_cycle = Len(filed) % 3
  /\ stale \/ astray \/
       /\ \A i \in 1..Len(filed) :
             /\ filed[i].aux
             /\ \A j \in 1..i - 1 : filed[j].seq < filed[i].seq
       /\ Len(port) + Len(stored) + Len(filed) = sent

(* The controller never stays full: a mouse byte the polling loop leaves   *)
(* to IRQ 12 does not block the bytes behind it.                           *)
PortDrains == port # <<>> ~> port = <<>>

(* Every scan code that was stored is followed up by the reader, if every  *)
(* call the main loop makes comes back: a key cannot be stuck in the ring  *)
(* for another reason.                                                     *)
KeysRead ==
  \A n \in 1..MaxBytes :
     []<>(~away) => (key_write_pos >= n ~> key_read_pos >= n)
==============================================================================
