------------------------------- MODULE Arena --------------------------------
(***************************************************************************)
(* What an allocator over one area of memory promises: a block that is     *)
(* handed out lies in the area and shares no byte with an earlier one.     *)
(* The kernel's heap and the heap of the DOOM port both implement it.      *)
(***************************************************************************)
EXTENDS Integers

CONSTANT AreaSize

VARIABLE blocks     \* the blocks handed out so far

Blocks == [start : Nat, size : Nat]

Bytes(b) == b.start .. b.start + b.size - 1

Fits(b) ==
    /\ b.start + b.size <= AreaSize
    /\ \A c \in blocks : Bytes(b) \cap Bytes(c) = {}

Init == blocks = {}

Allocate ==
    \E b \in blocks' \ blocks :
        /\ b \in Blocks /\ Fits(b)
        /\ blocks' = blocks \cup {b}

Spec == Init /\ [][Allocate]_blocks
=============================================================================
