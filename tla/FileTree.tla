------------------------------ MODULE FileTree ------------------------------
(***************************************************************************)
(* What the virtual file system promises: a tree of named entries below a  *)
(* root, where a path is answered with the entry its names lead to, the    *)
(* newest of two entries of the same name and parent hiding the other.     *)
(***************************************************************************)
EXTENDS Integers, Sequences

CONSTANTS Names, NoNode, Open

VARIABLES entries,  \* the entries in the order they were made; 0 is the root
          asked,    \* the path being looked up
          found     \* the last answer; Open while there is none

ftVars == <<entries, asked, found>>

Nodes == 0 .. Len(entries)

Same(d, name) ==
    { i \in 1 .. Len(entries) : entries[i].parent = d /\ entries[i].name = name }

\* n is the child of that name that a lookup sees.
Child(d, name, n) == n \in Same(d, name) /\ \A i \in Same(d, name) : i <= n

Trail(path, t) ==
    /\ t[0] = 0
    /\ \A k \in 1 .. Len(path) : Child(t[k - 1], path[k], t[k])

Trails(path) == { t \in [0 .. Len(path) -> Nodes] : Trail(path, t) }

Init == entries = <<>> /\ asked = <<>> /\ found = NoNode

Create ==
    /\ found # Open
    /\ \E name \in Names, d \in Nodes :
          entries' = Append(entries, [name |-> name, parent |-> d])
    /\ UNCHANGED <<asked, found>>

Ask ==
    /\ found # Open
    /\ asked' \in Seq(Names)
    /\ found' = Open
    /\ UNCHANGED entries

Answer ==
    /\ found = Open
    /\ found' # Open
    /\ \/ \E t \in Trails(asked) : found' = t[Len(asked)]
       \/ Trails(asked) = {} /\ found' = NoNode
    /\ UNCHANGED <<entries, asked>>

\* A path that is none.
Refuse == found # Open /\ found' = NoNode /\ UNCHANGED <<entries, asked>>

Next == Create \/ Ask \/ Answer \/ Refuse

Spec == Init /\ [][Next]_ftVars
=============================================================================
