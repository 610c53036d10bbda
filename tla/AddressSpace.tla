---------------------------- MODULE AddressSpace ----------------------------
(***************************************************************************)
(* What the page table code of the C kernel promises: every address space  *)
(* is a function from virtual pages to frames, and a call changes the      *)
(* translations it was asked to change, one at a time and in order, and    *)
(* no other one.  A mapping may be dropped (no page was left for a table); *)
(* an unmapping may not.                                                   *)
(***************************************************************************)
EXTENDS Naturals, Sequences

CONSTANTS Roots, Virts, Frames, Absent

VARIABLES mapped,   \* <<root, virtual page>> -> frame or Absent
          pending   \* the edits asked for and not yet made

asVars == <<mapped, pending>>

Edits == [root : Roots, virt : Virts, frame : Frames \cup {Absent}]

Init ==
    /\ mapped = [rv \in Roots \X Virts |-> Absent]
    /\ pending = <<>>

Ask ==
    /\ pending = <<>>
    /\ pending' \in Seq(Edits)
    /\ UNCHANGED mapped

Edit ==
    /\ pending # <<>>
    /\ LET e == Head(pending)
       IN  mapped' = [mapped EXCEPT ![<<e.root, e.virt>>] = e.frame]
    /\ pending' = Tail(pending)

Drop ==
    /\ pending # <<>>
    /\ Head(pending).frame # Absent
    /\ pending' = Tail(pending)
    /\ UNCHANGED mapped

Next == Ask \/ Edit \/ Drop

Spec == Init /\ [][Next]_asVars
=============================================================================
