----------------------------- MODULE Interrupts -----------------------------
(***************************************************************************)
(* The interrupt descriptors and the interrupt controllers of the C        *)
(* kernel: kernel/gdt.c, kernel/idt.c and kernel/pic.c, with the pair of   *)
(* 8259A chips (external) that the port writes drive, one write per step.  *)
(* An interrupt may be accepted between two of these writes: its handler   *)
(* runs to its end, which is told to the chips, before the call goes on.   *)
(***************************************************************************)
EXTENDS Integers, Sequences

CONSTANTS Vectors,        \* the entries of the tables that are looked at
          Handlers,       \* the addresses of handlers
          OffsetPairs,    \* the vector offsets to remap to, a value per chip
          FirmwareOffset, \* the offsets the chips have before
          FirmwareMasks,  \* the masks they may have
          NoLine          \* no interrupt is being handled

Chips == {"master", "slave"}

ASSUME ChipValues ==
    /\ OffsetPairs \subseteq [Chips -> Nat]
    /\ FirmwareOffset \in [Chips -> Nat]
    /\ FirmwareMasks \subseteq [Chips -> 0 .. 255]
    /\ NoLine \notin 0 .. 15

VARIABLES gdtLoaded,     \* lgdt and ltr are done
          idt,           \* vector -> the handler of its gate
          irq_handlers,  \* vector -> the registered handler
          pic,           \* (external) chip -> its state
          writes,        \* the port writes a call has still to make
          eois,          \* the port writes the end of a handler has still to make
          line,          \* (external) the interrupt line being served
          wanted         \* (history) chip -> the offset and mask asked for

intVars == <<gdtLoaded, idt, irq_handlers, pic, writes, eois, line, wanted>>

NoHandler == "none"
DefaultInterrupt == "default_interrupt"

InterruptsStart ==
    /\ gdtLoaded = FALSE
    /\ idt = [v \in Vectors |-> NoHandler]
    /\ irq_handlers = [v \in Vectors |-> NoHandler]
    /\ \E masks \in FirmwareMasks :
          /\ pic = [c \in Chips |->
                       [waits |-> "nothing", offset |-> FirmwareOffset[c],
                        mask |-> masks[c], serving |-> FALSE]]
          /\ wanted = [c \in Chips |->
                          [offset |-> FirmwareOffset[c], mask |-> masks[c]]]
    /\ writes = <<>> /\ eois = <<>> /\ line = NoLine

\* Kernel and user segments, and the two slots of the task state.
GdtInit ==
    /\ gdtLoaded' = TRUE
    /\ UNCHANGED <<idt, irq_handlers, pic, writes, eois, line, wanted>>

IdtInit ==
    /\ idt' = [v \in Vectors |-> DefaultInterrupt]
    /\ irq_handlers' = [v \in Vectors |-> NoHandler]
    /\ UNCHANGED <<gdtLoaded, pic, writes, eois, line, wanted>>

IdtSetGate(vector, handler) ==
    /\ idt' = [idt EXCEPT ![vector] = handler]
    /\ UNCHANGED <<gdtLoaded, irq_handlers, pic, writes, eois, line, wanted>>

\* Nothing consults the registry: a gate keeps its own handler.
IrqRegister(irq, handler) ==
    /\ irq_handlers' = [irq_handlers EXCEPT ![irq] = handler]
    /\ UNCHANGED <<gdtLoaded, idt, pic, writes, eois, line, wanted>>

-----------------------------------------------------------------------------
Command(chip, word) == <<chip, "command", word>>
Data(chip, value) == <<chip, "data", value>>

\* Slip: the mode of the second chip is never written.
PicRemap_short(offset) ==
    /\ writes' = << Command("master", "init"), Command("slave", "init"),
                    Data("master", offset["master"]), Data("slave", offset["slave"]),
                    Data("master", 4), Data("slave", 2), Data("master", 1),
                    Data("master", pic["master"].mask),
                    Data("slave", pic["slave"].mask) >>
    /\ wanted' = [c \in Chips |-> [offset |-> offset[c], mask |-> pic[c].mask]]
    /\ UNCHANGED <<gdtLoaded, idt, irq_handlers, pic, eois, line>>

\* The masks are read first and written back last.
PicRemap(offset) ==
    /\ writes' = << Command("master", "init"), Command("slave", "init"),
                    Data("master", offset["master"]), Data("slave", offset["slave"]),
                    Data("master", 4), Data("slave", 2),
                    Data("master", 1), Data("slave", 1),
                    Data("master", pic["master"].mask),
                    Data("slave", pic["slave"].mask) >>
    /\ wanted' = [c \in Chips |-> [offset |-> offset[c], mask |-> pic[c].mask]]
    /\ UNCHANGED <<gdtLoaded, idt, irq_handlers, pic, eois, line>>

PicMaskAll ==
    /\ writes' = << Data("master", 255), Data("slave", 255) >>
    /\ wanted' = [c \in Chips |-> [wanted[c] EXCEPT !.mask = 255]]
    /\ UNCHANGED <<gdtLoaded, idt, irq_handlers, pic, eois, line>>

\* An interrupt of the second chip came through the first.
PicEoi(irq) ==
    /\ eois' = (IF irq >= 8 THEN << Command("slave", "eoi") >> ELSE <<>>)
                  \o << Command("master", "eoi") >>
    /\ line' = NoLine
    /\ UNCHANGED <<gdtLoaded, idt, irq_handlers, pic, writes, wanted>>

\* What a chip does with a write: its first word of an initialization clears
\* the mask, the next three data writes are words of it, others set the mask.
Written(chip, port, value) ==
    CASE port = "command" /\ value = "init" ->
            [chip EXCEPT !.waits = "offset", !.mask = 0, !.serving = FALSE]
      [] port = "command" /\ value = "eoi" -> [chip EXCEPT !.serving = FALSE]
      [] port = "data" /\ chip.waits = "offset" ->
            [chip EXCEPT !.waits = "cascade", !.offset = value]
      [] port = "data" /\ chip.waits = "cascade" ->
            [chip EXCEPT !.waits = "mode"]
      [] port = "data" /\ chip.waits = "mode" ->
            [chip EXCEPT !.waits = "nothing"]
      [] OTHER -> [chip EXCEPT !.mask = value]

PortWrite ==
    /\ writes # <<>>
    /\ LET w == Head(writes)
       IN  pic' = [pic EXCEPT ![w[1]] = Written(@, w[2], w[3])]
    /\ writes' = Tail(writes)
    /\ UNCHANGED <<gdtLoaded, idt, irq_handlers, eois, line, wanted>>

EoiWrite ==
    /\ eois # <<>>
    /\ LET w == Head(eois)
       IN  pic' = [pic EXCEPT ![w[1]] = Written(@, w[2], w[3])]
    /\ eois' = Tail(eois)
    /\ UNCHANGED <<gdtLoaded, idt, irq_handlers, writes, line, wanted>>

\* A handler runs, or tells the chips of its end.  The gates are interrupt
\* gates: no other interrupt is accepted meanwhile.
Handling == line # NoLine \/ eois # <<>>

\* The chips that a line of this number comes through.
Through(irq) == IF irq >= 8 THEN Chips ELSE {"master"}

\* (external) A line is raised that is not masked, through chips that are not
\* being initialized; its handler will end it.
Raise(irq) ==
    /\ ~Handling
    /\ \A c \in Through(irq) : pic[c].waits = "nothing" /\ pic[c].mask # 255
    /\ line' = irq
    /\ pic' = [c \in Chips |->
                  IF c \in Through(irq) THEN [pic[c] EXCEPT !.serving = TRUE]
                  ELSE pic[c]]
    /\ UNCHANGED <<gdtLoaded, idt, irq_handlers, writes, eois, wanted>>

InterruptCall ==
    \/ \E v \in Vectors, h \in Handlers : IdtSetGate(v, h) \/ IrqRegister(v, h)
    \/ PicMaskAll
    \/ \E offset \in OffsetPairs : PicRemap(offset)

(***************************************************************************)
(* Once the writes of a call are made, both chips are out of their         *)
(* initialization with the offset and the mask they should have, whatever  *)
(* interrupts came between the writes (the first word of an initialization *)
(* clears the mask, and a word too many or too few would be taken for      *)
(* one); and no chip waits for the end of an interrupt that has been       *)
(* handled, at any time.                                                   *)
(***************************************************************************)
ChipsAsWanted ==
    /\ writes = <<>> =>
          \A c \in Chips :
              /\ pic[c].waits = "nothing"
              /\ pic[c].offset = wanted[c].offset
              /\ pic[c].mask = wanted[c].mask
    /\ ~Handling => \A c \in Chips : ~pic[c].serving
=============================================================================
