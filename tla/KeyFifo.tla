------------------------------- MODULE KeyFifo -------------------------------
(***************************************************************************)
(* What the keyboard driver promises the main loop, with no ring in sight: *)
(* scan codes are taken in the order they were accepted, none twice and    *)
(* none left out, as long as no more than Capacity are waiting.  Once more *)
(* are waiting the promise says only that some byte is handed over and     *)
(* that one waiting key is used up by it.                                  *)
(***************************************************************************)
EXTENDS Naturals, Sequences

CONSTANTS
  Byte,      \* the values a scan code can have
  Capacity   \* how many scan codes may wait before order is given up

VARIABLES
  queue,     \* accepted and not yet taken
  key        \* the scan code the main loop took last

vars == <<queue, key>>

Init == queue = <<>> /\ key \in Byte

(* The driver accepts a scan code.  (The first conjunct follows from the   *)
(* second; it spares TLC the search for b in every other step.)            *)
Accept == /\ Len(queue') > Len(queue)
          /\ \E b \in Byte : queue' = Append(queue, b)
          /\ UNCHANGED key

(* The main loop takes one.                                                *)
Take == /\ queue # <<>>
        /\ queue' = Tail(queue)
        /\ key' \in Byte
        /\ Len(queue) <= Capacity => key' = Head(queue)

Next == Accept \/ Take

Spec == Init /\ [][Next]_vars
==============================================================================
