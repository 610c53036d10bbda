----------------------------- MODULE SharedPort -----------------------------
(***************************************************************************)
(* The 8042 controller (external) while a native program runs on top of    *)
(* the kernel.  Neither cppapp_launch nor doom_launch_raw turns interrupts *)
(* off, so the program's polling and the kernel's handlers of IRQ 1 and    *)
(* IRQ 12 empty the same controller.                                       *)
(***************************************************************************)
EXTENDS Integers, Sequences, FiniteSets

CONSTANTS KeyBytes, AuxBytes,   \* the bytes the keyboard and the mouse send
          PortDepth,            \* bound: bytes waiting in the controller
          MaxBytes              \* bound: bytes the devices send in a run

ASSUME PortBytes ==
    /\ KeyBytes \cup AuxBytes \subseteq 0 .. 255
    /\ PortDepth \in Nat /\ MaxBytes \in Nat

VARIABLES port,     \* what the controller holds, the head in its output buffer
          dataReg,  \* what the data port returned last
          latched,  \* an interrupt waits to be taken
          sent,     \* how many bytes the devices have sent
          taken     \* (history) what the kernel's handlers took

portVars == <<port, dataReg, latched, sent, taken>>

Item == [aux : BOOLEAN, byte : 0 .. 255, seq : Nat]

PortInit ==
    /\ port = <<>> /\ latched = FALSE /\ sent = 0 /\ taken = {}
    /\ dataReg = [aux |-> FALSE, byte |-> 0, seq |-> 0]

\* An empty controller returns the byte of the last read again.
InData == IF port = <<>> THEN dataReg ELSE Head(port)
AfterRead == IF port = <<>> THEN <<>> ELSE Tail(port)

Send(aux, b) ==
    /\ sent < MaxBytes /\ Len(port) < PortDepth
    /\ port' = Append(port, [aux |-> aux, byte |-> b, seq |-> sent + 1])
    /\ latched' = (latched \/ port = <<>>)
    /\ sent' = sent + 1
    /\ UNCHANGED <<dataReg, taken>>

DeviceSends ==
    \/ \E b \in KeyBytes : Send(FALSE, b)
    \/ \E b \in AuxBytes : Send(TRUE, b)

\* A handler reads the data port without a look at the status.  What it
\* stores, nobody reads while the program runs.
KernelTakes ==
    /\ latched
    /\ dataReg' = InData
    /\ port' = AfterRead
    /\ latched' = (AfterRead # <<>>)
    /\ taken' = IF port = <<>> THEN taken ELSE taken \cup {InData}
    /\ UNCHANGED sent

\* The status port: a byte is there, the keyboard's or the mouse's.
StatusFull == port # <<>>

\* The program reads the data port; the interrupt of the byte may stay.
ProgramReads ==
    /\ dataReg' = InData
    /\ port' = AfterRead
    /\ latched' \in {latched, AfterRead # <<>>}
    /\ UNCHANGED <<sent, taken>>
=============================================================================
