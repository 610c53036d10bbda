-------------------------------- MODULE Vfs ---------------------------------
(***************************************************************************)
(* The registry and the path walk of kernel/fs/vfs.c and namei.c: nodes in *)
(* one array, the children of a node chained through first_child and       *)
(* next_sibling, newest first, 0 ending a chain.  A path is the sequence   *)
(* of its segments (a trailing slash adds none); a lookup advances by one  *)
(* node of a chain per step.                                               *)
(***************************************************************************)
EXTENDS Integers, Sequences

CONSTANTS VFS_MAX_NODES, MAX_FS_DRIVERS,
          Names,       \* names and path segments
          NoName,      \* the empty name
          Stored,      \* what a node of that name holds
          Paths,       \* the paths callers look up
          NoNode,      \* the null pointer
          Open         \* no answer yet

ASSUME VfsSizes ==
    /\ VFS_MAX_NODES \in Nat \ {0}
    /\ MAX_FS_DRIVERS \in Nat
    /\ NoName \in Names
    /\ Stored \in [Names -> Names]
    /\ Paths \subseteq Seq(Names)
    /\ NoNode \notin Nat /\ Open \notin Nat /\ Open # NoNode

VARIABLES name, parent, first_child, next_sibling,
          node_count, driver_count,
          path, segment,   \* namei_resolve: its argument, segments matched
          dir, child,      \* its current node, and the child to compare
          found            \* what the last lookup returned

treeVars == <<name, parent, first_child, next_sibling, node_count>>
walkVars == <<path, segment, dir, child, found>>
vfsVars == <<name, parent, first_child, next_sibling, node_count, driver_count,
             path, segment, dir, child, found>>

Slots == 0 .. VFS_MAX_NODES - 1

VfsStart ==
    /\ name = [i \in Slots |-> NoName]
    /\ parent = [i \in Slots |-> 0]
    /\ first_child = [i \in Slots |-> 0]
    /\ next_sibling = [i \in Slots |-> 0]
    /\ node_count = 0 /\ driver_count = 0
    /\ path = <<>> /\ segment = 0 /\ dir = 0 /\ child = 0 /\ found = NoNode

VfsUp == node_count > 0

\* The root's name is never compared.
VfsInit ==
    /\ node_count' = 1
    /\ driver_count' = 0
    /\ parent' = [parent EXCEPT ![0] = 0]
    /\ first_child' = [first_child EXCEPT ![0] = 0]
    /\ next_sibling' = [next_sibling EXCEPT ![0] = 0]
    /\ UNCHANGED <<name, walkVars>>

VfsRegister ==
    /\ IF driver_count >= MAX_FS_DRIVERS THEN UNCHANGED driver_count
       ELSE driver_count' = driver_count + 1
    /\ UNCHANGED <<treeVars, walkVars>>

\* A name that is too long is cut.
copy_name(n) == Stored[n]

\* Slip: the chain is put behind the new node's own children, not its
\* siblings.
VfsCreateStatic_loses(n, p) ==
    /\ IF node_count >= VFS_MAX_NODES THEN UNCHANGED treeVars
       ELSE /\ name' = [name EXCEPT ![node_count] = copy_name(n)]
            /\ parent' = [parent EXCEPT ![node_count] = p]
            /\ next_sibling' = [next_sibling EXCEPT ![node_count] = first_child[node_count]]
            /\ first_child' = [first_child EXCEPT ![p] = node_count]
            /\ node_count' = node_count + 1
    /\ UNCHANGED <<driver_count, walkVars>>

\* The new node goes in front of its parent's chain.  Its own first_child
\* keeps what the slot held.
VfsCreateStatic(n, p) ==
    /\ IF node_count >= VFS_MAX_NODES THEN UNCHANGED treeVars
       ELSE /\ name' = [name EXCEPT ![node_count] = copy_name(n)]
            /\ parent' = [parent EXCEPT ![node_count] = p]
            /\ next_sibling' = [next_sibling EXCEPT ![node_count] = first_child[p]]
            /\ first_child' = [first_child EXCEPT ![p] = node_count]
            /\ node_count' = node_count + 1
    /\ UNCHANGED <<driver_count, walkVars>>

-----------------------------------------------------------------------------
\* namei_resolve starts at the root ("/" alone ends at once).
VfsLookup(p) ==
    /\ path' = p
    /\ segment' = 0
    /\ dir' = 0
    /\ child' = first_child[0]
    /\ found' = Open
    /\ UNCHANGED <<treeVars, driver_count>>

\* A null path or one that does not begin with a slash.
LookupRefused ==
    /\ found' = NoNode
    /\ UNCHANGED <<treeVars, driver_count, path, segment, dir, child>>

Looking == found = Open

Resolved ==
    /\ Looking
    /\ segment = Len(path)
    /\ found' = dir
    /\ UNCHANGED <<treeVars, driver_count, path, segment, dir, child>>

Matches == name[child] = path[segment + 1]

Descend ==
    /\ Looking
    /\ segment < Len(path) /\ child # 0 /\ Matches
    /\ segment' = segment + 1
    /\ dir' = child
    /\ child' = first_child[child]
    /\ UNCHANGED <<treeVars, driver_count, path, found>>

NextSibling ==
    /\ Looking
    /\ segment < Len(path) /\ child # 0 /\ ~Matches
    /\ child' = next_sibling[child]
    /\ UNCHANGED <<treeVars, driver_count, path, segment, dir, found>>

Missing ==
    /\ Looking
    /\ segment < Len(path) /\ child = 0
    /\ found' = NoNode
    /\ UNCHANGED <<treeVars, driver_count, path, segment, dir, child>>

LookupStep == Resolved \/ Descend \/ NextSibling \/ Missing

\* vfs_init is called once, before anything else; parents are nodes in use.
VfsCall ==
    \/ ~VfsUp /\ VfsInit
    \/ VfsRegister
    \/ /\ VfsUp
       /\ \/ \E n \in Names, p \in 0 .. node_count - 1 : VfsCreateStatic(n, p)
          \/ \E p \in Paths : VfsLookup(p)
          \/ LookupRefused

-----------------------------------------------------------------------------
entries == [i \in 1 .. node_count - 1 |->
               [name |-> name[i], parent |-> parent[i]]]

FT == INSTANCE FileTree WITH asked <- path

(***************************************************************************)
(* The chains of indices are the tree the callers built: a lookup that     *)
(* follows them finds the newest entry of the name at every segment, or    *)
(* reports a missing path only when no entry has it.                       *)
(***************************************************************************)
ImplementsFileTree == FT!Spec
=============================================================================
