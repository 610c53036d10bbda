---------------------------- MODULE StorageProofs ----------------------------
(***************************************************************************)
(* What holds of NavineFS for every repository, block size and number of   *)
(* inodes: the machine takes exactly a disk with the magic for mounted,    *)
(* one that has been shut down has its tables on the disk, the disk is one *)
(* name behind the table at most, a name on it stays there, has its block, *)
(* and is counted; a blank disk stays blank, and no download is kept then; *)
(* every variable has its type, and no block is written behind the last.   *)
(***************************************************************************)
EXTENDS Storage, FiniteSetTheorems, WellFoundedInduction, TLAPS

Kinds == {"magic", "inodes", "journal", "data"}
Sectors == [to : Kinds, at : Int, first : BOOLEAN]

(* Sectors of this kind are still to be written by the running sync.       *)
Pending(sectors, kind) == \E i \in 1 .. Len(sectors) : sectors[i].to = kind

(* The invariant behind both theorems: a sync writes tables only of a      *)
(* mounted disk, one that has the magic already, and a table it does not   *)
(* have to write any more is on the disk as it is in memory.               *)
Syncing ==
  /\ pc = "sync" => next \in {"formatted", "store", "halted"}
  /\ Up => (mounted <=> d_magic)
  /\ pc = "sync" /\ todo # <<>> => d_magic
  /\ pc = "sync" /\ mounted /\ ~Pending(todo, "inodes") => d_inodes = inodes
  /\ pc = "sync" /\ mounted /\ ~Pending(todo, "journal") => d_journal = journal
  /\ pc = "halted" /\ mounted => d_inodes = inodes /\ d_journal = journal
  /\ pc = "installer" => ~mounted
IInv == todo \in Seq(Sectors) /\ d_magic \in BOOLEAN /\ mounted \in BOOLEAN /\ Syncing
Counted == dl_count \in Nat

------------------------------------------------------------------------------
(* Taking the head of a sequence leaves the rest of it pending.            *)
LEMMA PendingTail ==
  ASSUME NEW s \in Seq(Sectors), s # <<>>, NEW k, Head(s).to # k
  PROVE  Pending(s, k) <=> Pending(Tail(s), k)
<1>1. Len(s) \in Nat \ {0} /\ Len(Tail(s)) = Len(s) - 1
  OBVIOUS
<1>2. \A i \in 1 .. Len(Tail(s)) : Tail(s)[i] = s[i + 1]
  OBVIOUS
<1>3. s[1].to # k
  OBVIOUS
<1>4. ASSUME Pending(s, k) PROVE Pending(Tail(s), k)
  <2>1. PICK i \in 1 .. Len(s) : s[i].to = k
    BY <1>4 DEF Pending
  <2>2. i # 1 /\ i - 1 \in 1 .. Len(Tail(s)) /\ (i - 1) + 1 = i
    BY <2>1, <1>1, <1>3
  <2>3. Tail(s)[i - 1].to = k
    BY <2>1, <2>2, <1>2
  <2> QED BY <2>2, <2>3 DEF Pending
<1>5. ASSUME Pending(Tail(s), k) PROVE Pending(s, k)
  <2>1. PICK i \in 1 .. Len(Tail(s)) : Tail(s)[i].to = k
    BY <1>5 DEF Pending
  <2>2. i + 1 \in 1 .. Len(s) /\ s[i + 1].to = k
    BY <2>1, <1>1, <1>2
  <2> QED BY <2>2 DEF Pending
<1> QED BY <1>4, <1>5

(* The sectors of a sync are sectors; a sync of a mounted disk has both    *)
(* tables to write, one of a disk that is not mounted and not dirty none.  *)
LEMMA SyncSectors ==
  ASSUME NEW dirty \in BOOLEAN, NEW first \in Int, NEW isMounted \in BOOLEAN,
         NEW then, navinefs_sync(dirty, first, isMounted, then)
  PROVE  /\ todo' \in Seq(Sectors) /\ pc' = "sync" /\ next' = then
         /\ isMounted => Pending(todo', "inodes") /\ Pending(todo', "journal")
         /\ ~isMounted /\ ~dirty => todo' = <<>>
<1> DEFINE front == IF dirty THEN BlockWrites(first) ELSE <<>>
           back  == IF isMounted THEN Tables ELSE <<>>
<1>1. todo' = front \o back /\ pc' = "sync" /\ next' = then
  BY DEF navinefs_sync
<1>2. BlockWrites(first) \in Seq(Sectors)
  <2>1. BlockSectors \in Nat
    BY SizeAssumption
  <2>2. \A i \in 1 .. BlockSectors : Sector("data", first + i - 1, i = 1) \in Sectors
    BY <2>1 DEF Sector, Sectors, Kinds
  <2>3. BlockWrites(first) \in [1 .. BlockSectors -> Sectors]
    BY <2>2 DEF BlockWrites
  <2> QED BY <2>1, <2>3
<1>3. Tables \in Seq(Sectors) /\ Len(Tables) = 3 /\ Tables[2].to = "inodes"
      /\ Tables[3].to = "journal"
  BY DEF Tables, Sector, Sectors, Kinds
<1>4. front \in Seq(Sectors) /\ back \in Seq(Sectors)
  BY <1>2, <1>3
<1> HIDE DEF front
<1>5. todo' \in Seq(Sectors)
  BY <1>1, <1>4
<1>6. ASSUME isMounted PROVE Pending(todo', "inodes") /\ Pending(todo', "journal")
  <2>1. back = Tables
    BY <1>6
  <2> HIDE DEF back
  <2>0. todo' = front \o Tables
    BY <1>1, <2>1
  <2>2. Len(todo') = Len(front) + Len(Tables) /\ Len(front) \in Nat
    <3>1. front \in Seq(Sectors) /\ Tables \in Seq(Sectors)
      BY <1>3, <1>4
    <3>2. Len(front \o Tables) = Len(front) + Len(Tables)
      BY <3>1
    <3>3. Len(front) \in Nat
      BY <3>1
    <3> QED BY <2>0, <3>2, <3>3
  <2>3. todo'[Len(front) + 2] = Tables[2] /\ todo'[Len(front) + 3] = Tables[3]
    BY <1>3, <1>4, <2>0, <2>2
  <2>4. Len(front) + 2 \in 1 .. Len(todo') /\ Len(front) + 3 \in 1 .. Len(todo')
    BY <1>3, <2>2
  <2> QED BY <1>3, <2>3, <2>4 DEF Pending
<1>7. ASSUME ~isMounted, ~dirty PROVE todo' = <<>>
  BY <1>1, <1>7 DEF front
<1> QED BY <1>1, <1>5, <1>6, <1>7

------------------------------------------------------------------------------
(* The count of downloads is a number, also as the late start restores it. *)
LEMMA CountKept == Spec => []Counted
<1>1. Init => Counted
  BY DEF Init, Counted
<1>2. Counted /\ [Next]_vars => Counted'
  <2> SUFFICES ASSUME Counted, [Next]_vars PROVE dl_count' \in Nat
    BY DEF Counted
  <2> USE DEF downloads, Counted
  <2>1. CASE LateInit
    <3> DEFINE found == IF mounted' THEN Found(inodes') ELSE {}
    <3>1. dl_count' = Cardinality(found)
      BY <2>1 DEF LateInit, Restore
    <3>2. Len(Repo) \in Nat
      BY NameAssumption
    <3>3. IsFiniteSet(1 .. Len(Repo)) /\ found \subseteq 1 .. Len(Repo)
      BY <3>2, FS_Interval DEF Found
    <3>4. IsFiniteSet(found)
      BY <3>3, FS_Subset
    <3> QED BY <3>1, <3>4, FS_CardinalityType
  <2>2. CASE Register
    BY <2>2 DEF Register
  <2>3. CASE PowerCut
    BY <2>3 DEF PowerCut
  <2>4. CASE WriteSector \/ SyncDone \/ InstallerFinish \/ Formatted \/ Shutdown \/ DownloadFaults
    BY <2>4 DEF WriteSector, SyncDone, InstallerFinish, Formatted, Shutdown, DownloadFaults
  <2>5. CASE kernel_services_init \/ Download \/ DownloadNowhere
    BY <2>5 DEF kernel_services_init, Download, DownloadNowhere
  <2>6. CASE UNCHANGED vars
    BY <2>6 DEF vars
  <2> QED BY <2>1, <2>2, <2>3, <2>4, <2>5, <2>6 DEF Next
<1> QED BY <1>1, <1>2, PTL DEF Spec

LEMMA InitIInv == Init => IInv
<1> SUFFICES ASSUME Init PROVE IInv
  OBVIOUS
<1> USE DEF Init
<1>0. <<>> \in Seq(Sectors)
  OBVIOUS
<1>1. todo \in Seq(Sectors) /\ d_magic \in BOOLEAN /\ mounted \in BOOLEAN
  BY <1>0
<1>2. ~Up /\ pc # "sync" /\ pc # "halted" /\ ~mounted
  BY DEF Up, FirstStep
<1>3. Syncing
  BY <1>2 DEF Syncing
<1> QED BY <1>1, <1>3 DEF IInv

(* One sector is written.                                                  *)
LEMMA WriteSectorKeeps == IInv /\ WriteSector => IInv'
<1> SUFFICES ASSUME IInv, WriteSector PROVE IInv'
  OBVIOUS
<1> DEFINE h == Head(todo)
<1>1. pc = "sync" /\ pc' = "sync" /\ next' = next /\ mounted' = mounted
      /\ inodes' = inodes /\ journal' = journal
  BY DEF WriteSector, table
<1>2. todo \in Seq(Sectors) /\ todo # <<>> /\ todo' = Tail(todo) /\ h \in Sectors
  BY DEF IInv, WriteSector
<1>3. /\ d_magic' = (d_magic \/ h.to = "magic")
      /\ d_inodes' = IF h.to = "inodes" THEN inodes ELSE d_inodes
      /\ d_journal' = IF h.to = "journal" THEN journal ELSE d_journal
  BY DEF WriteSector
<1>4. d_magic = TRUE /\ d_magic' = TRUE
  BY <1>1, <1>2, <1>3 DEF IInv, Syncing
<1>5. todo' \in Seq(Sectors) /\ mounted' \in BOOLEAN /\ d_magic' \in BOOLEAN
  BY <1>1, <1>2, <1>4 DEF IInv
<1>6. Up' <=> Up
  BY <1>1 DEF Up
<1>7. Up' => (mounted' <=> d_magic')
  BY <1>1, <1>4, <1>6 DEF IInv, Syncing
<1>8. ASSUME mounted', ~Pending(todo', "inodes") PROVE d_inodes' = inodes'
  <2>1. CASE h.to = "inodes"
    BY <2>1, <1>1, <1>3
  <2>2. CASE h.to # "inodes"
    <3>1. ~Pending(todo, "inodes")
      BY <2>2, <1>2, <1>8, PendingTail
    <3> QED BY <3>1, <2>2, <1>1, <1>3, <1>8 DEF IInv, Syncing
  <2> QED BY <2>1, <2>2
<1>9. ASSUME mounted', ~Pending(todo', "journal") PROVE d_journal' = journal'
  <2>1. CASE h.to = "journal"
    BY <2>1, <1>1, <1>3
  <2>2. CASE h.to # "journal"
    <3>1. ~Pending(todo, "journal")
      BY <2>2, <1>2, <1>9, PendingTail
    <3> QED BY <3>1, <2>2, <1>1, <1>3, <1>9 DEF IInv, Syncing
  <2> QED BY <2>1, <2>2
<1>10. next' \in {"formatted", "store", "halted"}
  BY <1>1 DEF IInv, Syncing
<1>11. Syncing'
  BY <1>1, <1>4, <1>7, <1>8, <1>9, <1>10 DEF Syncing
<1> QED BY <1>5, <1>11 DEF IInv

(* A sync begins: on a mounted disk with all tables to write, on another   *)
(* with nothing.                                                           *)
LEMMA SyncKeeps ==
  ASSUME IInv, NEW dirty \in BOOLEAN, NEW first \in Int, NEW then,
         then \in {"formatted", "store", "halted"},
         mounted' \in BOOLEAN, navinefs_sync(dirty, first, mounted', then),
         d_magic' = d_magic, mounted' <=> d_magic, dirty => mounted'
  PROVE  IInv'
<1>1. /\ todo' \in Seq(Sectors) /\ pc' = "sync" /\ next' = then
      /\ mounted' => Pending(todo', "inodes") /\ Pending(todo', "journal")
      /\ ~mounted' /\ ~dirty => todo' = <<>>
  BY SyncSectors
<1>2. d_magic' \in BOOLEAN /\ (mounted' <=> d_magic')
  BY DEF IInv
<1>3. todo' # <<>> => d_magic'
  BY <1>1, <1>2
<1>4. Syncing'
  BY <1>1, <1>2, <1>3 DEF Syncing
<1> QED BY <1>1, <1>2, <1>4 DEF IInv

LEMMA StepKeeps == IInv /\ Counted /\ [Next]_vars => IInv'
<1> SUFFICES ASSUME IInv, Counted, [Next]_vars PROVE IInv'
  OBVIOUS
<1> USE DEF disk, table, downloads, flow
<1>1. CASE WriteSector
  BY <1>1, WriteSectorKeeps
<1>2. CASE SyncDone
  <2>1. pc = "sync" /\ todo = <<>> /\ pc' = next /\ todo' = todo /\ next' = next
        /\ mounted' = mounted /\ d_magic' = d_magic /\ d_inodes' = d_inodes
        /\ d_journal' = d_journal /\ inodes' = inodes /\ journal' = journal
    BY <1>2 DEF SyncDone
  <2>2. ~Pending(todo, "inodes") /\ ~Pending(todo, "journal")
    BY <2>1 DEF Pending
  <2>3. next \in {"formatted", "store", "halted"}
    BY <2>1 DEF IInv, Syncing
  <2>4. Up' => Up
    BY <2>1, <2>3 DEF Up
  <2>5. Syncing'
    BY <2>1, <2>2, <2>3, <2>4 DEF IInv, Syncing
  <2>6. todo' \in Seq(Sectors) /\ d_magic' \in BOOLEAN /\ mounted' \in BOOLEAN
    BY <2>1 DEF IInv
  <2> QED BY <2>5, <2>6 DEF IInv
<1>3. CASE InstallerFinish
  <2>1. mounted' = d_magic /\ d_magic' = d_magic
        /\ navinefs_sync(FALSE, 0, d_magic, "formatted")
    BY <1>3 DEF InstallerFinish
  <2>2. mounted' \in BOOLEAN
    BY <2>1 DEF IInv
  <2>3. navinefs_sync(FALSE, 0, mounted', "formatted")
    BY <2>1
  <2>4. 0 \in Int
    OBVIOUS
  <2> QED BY <2>1, <2>2, <2>3, <2>4, SyncKeeps
<1>4. CASE Formatted
  <2>1. pc' = "late" /\ mounted' = TRUE /\ d_magic' = d_magic /\ todo' = todo
    BY <1>4 DEF Formatted
  <2>2. Syncing'
    BY <2>1 DEF Syncing, Up
  <2> QED BY <2>1, <2>2 DEF IInv
<1>5. CASE LateInit
  <2>1. pc' = "idle" /\ mounted' = d_magic /\ d_magic' = d_magic /\ todo' = todo
    BY <1>5 DEF LateInit, Mount
  <2>2. Syncing'
    BY <2>1 DEF Syncing, Up
  <2> QED BY <2>1, <2>2 DEF IInv
<1>6. CASE Download
  <2>1. pc = "idle" /\ mounted /\ mounted' = mounted /\ d_magic' = d_magic
        /\ navinefs_sync(TRUE, dl_count, TRUE, "store")
    BY <1>6 DEF Download
  <2>2. mounted' = TRUE /\ d_magic = TRUE
    BY <2>1 DEF IInv, Syncing, Up
  <2>3. navinefs_sync(TRUE, dl_count, mounted', "store")
    BY <2>1, <2>2
  <2>4. dl_count \in Int
    BY DEF Counted
  <2> QED BY <2>1, <2>2, <2>3, <2>4, SyncKeeps
<1>7. CASE DownloadNowhere
  <2>1. pc' = pc /\ mounted' = mounted /\ d_magic' = d_magic /\ todo' = todo
        /\ next' = next /\ pc = "idle"
    BY <1>7 DEF DownloadNowhere
  <2>2. Syncing'
    BY <2>1 DEF IInv, Syncing, Up
  <2> QED BY <2>1, <2>2 DEF IInv
<1>8. CASE DownloadFaults
  <2>1. pc' = "fault" /\ mounted' = mounted /\ d_magic' = d_magic /\ todo' = todo
    BY <1>8 DEF DownloadFaults
  <2>2. Syncing'
    BY <2>1 DEF Syncing, Up
  <2> QED BY <2>1, <2>2 DEF IInv
<1>9. CASE Register
  <2>1. pc = "store" /\ pc' = "idle" /\ mounted' = mounted /\ d_magic' = d_magic
        /\ todo' = todo
    BY <1>9 DEF Register
  <2>2. Syncing'
    BY <2>1 DEF IInv, Syncing, Up
  <2> QED BY <2>1, <2>2 DEF IInv
<1>10. CASE Shutdown
  <2>1. pc = "idle" /\ mounted' = mounted /\ d_magic' = d_magic
        /\ navinefs_sync(FALSE, 0, mounted, "halted")
    BY <1>10 DEF Shutdown
  <2>2. mounted' \in BOOLEAN /\ (mounted' <=> d_magic)
    BY <2>1 DEF IInv, Syncing, Up
  <2>3. navinefs_sync(FALSE, 0, mounted', "halted")
    BY <2>1
  <2>4. 0 \in Int
    OBVIOUS
  <2> QED BY <2>1, <2>2, <2>3, <2>4, SyncKeeps
<1>11. CASE PowerCut
  <2>1. pc' \in {"installer", "services"} /\ mounted' = FALSE /\ d_magic' = d_magic
        /\ todo' = <<>>
    BY <1>11 DEF PowerCut, FirstStep
  <2>2. Syncing'
    BY <2>1 DEF Syncing, Up
  <2>3. <<>> \in Seq(Sectors)
    OBVIOUS
  <2> QED BY <2>1, <2>2, <2>3 DEF IInv
<1>12. CASE kernel_services_init
  <2>1. pc' = "idle" /\ mounted' = d_magic /\ d_magic' = d_magic /\ todo' = todo
    BY <1>12 DEF kernel_services_init, Mount
  <2>2. Syncing'
    BY <2>1 DEF Syncing, Up
  <2> QED BY <2>1, <2>2 DEF IInv
<1>13. CASE UNCHANGED vars
  BY <1>13 DEF IInv, Syncing, Up, Pending, vars
<1> QED
  BY <1>1, <1>2, <1>3, <1>4, <1>5, <1>6, <1>7, <1>8, <1>9, <1>10, <1>11, <1>12,
     <1>13 DEF Next

LEMMA Always == Spec => []IInv
BY InitIInv, StepKeeps, CountKept, PTL DEF Spec

------------------------------------------------------------------------------
(* The second mount of kernel_late_init decides alone: whatever            *)
(* navinefs_format has set and wherever the power failed, the running      *)
(* machine holds for mounted exactly a disk with the magic.                *)
THEOREM MountCorrect == Spec => []MountedIffMagic
<1>1. IInv => MountedIffMagic
  BY DEF IInv, Syncing, MountedIffMagic
<1> QED BY <1>1, Always, PTL

(* The terminal's shutdown leaves inodes and journal on a mounted disk as  *)
(* they are in memory.                                                     *)
THEOREM ShutdownCorrect == Spec => []ShutdownSaves
<1>1. IInv => ShutdownSaves
  BY DEF IInv, Syncing, ShutdownSaves
<1> QED BY <1>1, Always, PTL
------------------------------------------------------------------------------
(* The command line edition neither formats nor counts: what its disk has  *)
(* a name for, its mounted table has the same name for.                    *)
Agree ==
  /\ inodes \in [Slots -> Content] /\ d_inodes \in [Slots -> Content]
  /\ cli => pc \notin {"installer", "formatted", "late"}
  /\ cli /\ pc = "sync" => next # "formatted"
  /\ cli /\ mounted => \A s \in Slots : d_inodes[s] # NoName => inodes[s] = d_inodes[s]

(* The first free inode is a free one.                                     *)
LEMMA FirstFreeIsFree ==
  ASSUME Free # {} PROVE FirstFree \in Free
<1>1. Free \subseteq Nat
  BY SizeAssumption DEF Free, Slots
<1>2. PICK s \in Free : \A r \in Free : ~ (<<r, s>> \in OpToRel(<, Nat))
  BY <1>1, NatLessThanWellFounded, WFMin
<1>3. \A r \in Free : s <= r
  <2> SUFFICES ASSUME NEW r \in Free PROVE s <= r
    OBVIOUS
  <2>1. r \in Nat /\ s \in Nat
    BY <1>1
  <2>2. ~ (r < s)
    BY <1>2, <2>1 DEF OpToRel
  <2> QED BY <2>1, <2>2
<1> QED BY <1>2, <1>3 DEF FirstFree

LEMMA InitAgree == Init => Agree
<1> SUFFICES ASSUME Init PROVE Agree
  OBVIOUS
<1>1. NoInodes \in [Slots -> Content]
  BY DEF NoInodes, Content
<1>2. pc = FirstStep /\ ~mounted /\ inodes = NoInodes /\ d_inodes = NoInodes
  BY DEF Init
<1> QED BY <1>1, <1>2 DEF Agree, FirstStep

(* A name on the disk is overwritten only by itself, and an inode in       *)
(* memory takes a name only while it is free.                              *)
LEMMA AgreeKept ==
  IInv /\ cache \in Content /\ Agree /\ [Next]_vars
    => Agree' /\ (cli => \A s \in Slots : d_inodes[s] # NoName => d_inodes'[s] = d_inodes[s])
<1> DEFINE Kept == cli => \A s \in Slots : d_inodes[s] # NoName => d_inodes'[s] = d_inodes[s]
<1> SUFFICES ASSUME IInv, cache \in Content, Agree, [Next]_vars PROVE Agree' /\ Kept
  OBVIOUS
<1> USE DEF disk, table, downloads, flow
<1>0. NoInodes \in [Slots -> Content]
  BY DEF NoInodes, Content
<1>1. CASE WriteSector
  <2>1. pc = "sync" /\ todo # <<>> /\ pc' = pc /\ next' = next /\ mounted' = mounted
        /\ inodes' = inodes /\ cli' = cli
    BY <1>1 DEF WriteSector
  <2>2. d_inodes' = inodes \/ d_inodes' = d_inodes
    BY <1>1 DEF WriteSector
  <2>3. cli => mounted
    BY <2>1 DEF IInv, Syncing, Agree, Up
  <2> QED BY <2>1, <2>2, <2>3 DEF Agree
<1>2. CASE SyncDone
  <2>1. pc = "sync" /\ pc' = next /\ next' = next /\ mounted' = mounted
        /\ inodes' = inodes /\ cli' = cli /\ d_inodes' = d_inodes
    BY <1>2 DEF SyncDone
  <2>2. next \in {"formatted", "store", "halted"}
    BY <2>1 DEF IInv, Syncing
  <2> QED BY <2>1, <2>2 DEF Agree
<1>3. CASE kernel_services_init
  <2>1. pc' = "idle" /\ next' = next /\ cli' = cli /\ d_inodes' = d_inodes
        /\ mounted' = d_magic /\ inodes' = IF d_magic THEN d_inodes ELSE inodes
    BY <1>3 DEF kernel_services_init, Mount
  <2> QED BY <2>1 DEF Agree
<1>4. CASE InstallerFinish \/ Formatted \/ LateInit
  <2>1. pc \in {"installer", "formatted", "late"} /\ cli' = cli /\ d_inodes' = d_inodes
    BY <1>4 DEF InstallerFinish, Formatted, LateInit
  <2>2. ~cli
    BY <2>1 DEF Agree
  <2>3. inodes' \in {NoInodes, inodes, d_inodes}
    BY <1>4 DEF InstallerFinish, Formatted, LateInit, Mount
  <2> QED BY <1>0, <2>1, <2>2, <2>3 DEF Agree
<1>5. CASE Download
  <2>1. pc' = "sync" /\ next' = "store" /\ cli' = cli /\ d_inodes' = d_inodes
        /\ inodes' = inodes /\ mounted' = mounted
    BY <1>5 DEF Download, navinefs_sync
  <2> QED BY <2>1 DEF Agree
<1>6. CASE DownloadNowhere \/ DownloadFaults
  <2>1. pc' \in {"idle", "fault"} /\ next' = next /\ cli' = cli /\ d_inodes' = d_inodes
        /\ inodes' = inodes /\ mounted' = mounted
    BY <1>6 DEF DownloadNowhere, DownloadFaults
  <2> QED BY <2>1 DEF Agree
<1>7. CASE Register
  <2>1. pc' = "idle" /\ next' = next /\ cli' = cli /\ d_inodes' = d_inodes /\ mounted' = mounted
        /\ inodes' = IF Free = {} THEN inodes ELSE [inodes EXCEPT ![FirstFree] = cache]
    BY <1>7 DEF Register
  <2>2. Free # {} => FirstFree \in Slots /\ inodes[FirstFree] = NoName
    BY FirstFreeIsFree DEF Free
  <2>3. inodes' \in [Slots -> Content]
    BY <2>1 DEF Agree
  <2>4. ASSUME NEW s \in Slots, inodes[s] # NoName PROVE inodes'[s] = inodes[s]
    BY <2>1, <2>2, <2>4 DEF Agree
  <2>5. cli /\ mounted => \A s \in Slots : d_inodes[s] # NoName => inodes'[s] = d_inodes[s]
    BY <2>4 DEF Agree
  <2> QED BY <2>1, <2>3, <2>5 DEF Agree
<1>8. CASE Shutdown
  <2>1. pc' = "sync" /\ next' = "halted" /\ cli' = cli /\ d_inodes' = d_inodes
        /\ inodes' = inodes /\ mounted' = mounted
    BY <1>8 DEF Shutdown, navinefs_sync
  <2> QED BY <2>1 DEF Agree
<1>9. CASE PowerCut
  <2>1. pc' = FirstStep /\ cli' = cli /\ d_inodes' = d_inodes /\ mounted' = FALSE
        /\ inodes' = NoInodes
    BY <1>9 DEF PowerCut
  <2> QED BY <1>0, <2>1 DEF Agree, FirstStep
<1>10. CASE UNCHANGED vars
  BY <1>10 DEF Agree, vars
<1> QED
  BY <1>1, <1>2, <1>3, <1>4, <1>5, <1>6, <1>7, <1>8, <1>9, <1>10 DEF Next

(* The cached block is a name of the repository, unknown-pkg or nothing.   *)
LEMMA CacheKept == Counted /\ cache \in Content /\ [Next]_vars => cache' \in Content
<1> SUFFICES ASSUME Counted, cache \in Content, [Next]_vars PROVE cache' \in Content
  OBVIOUS
<1>1. CASE Download
  <2>1. cache' = NameFor(dl_count) /\ dl_count \in Nat
    BY <1>1 DEF Download, Counted
  <2>2. dl_count < Len(Repo) => dl_count + 1 \in DOMAIN Repo
    BY <2>1, NameAssumption
  <2> QED BY <2>1, <2>2 DEF NameFor, Content, Names
<1>2. CASE PowerCut
  BY <1>2 DEF PowerCut, Content
<1>3. CASE UNCHANGED cache
  BY <1>3
<1> QED
  BY <1>1, <1>2, <1>3 DEF Next, vars, WriteSector, SyncDone, kernel_services_init,
     InstallerFinish, Formatted, LateInit, DownloadNowhere, DownloadFaults, Register, Shutdown

(* In the command line edition a name on the disk stays as it is: a mount  *)
(* reads it back into the table before anything is registered, navinefs_   *)
(* register takes free inodes only, and no sync writes a table that was    *)
(* not read.                                                               *)
THEOREM NamesStay == Spec => NamesKept
<1> DEFINE Cached == cache \in Content
<1>1. Init => Agree /\ Cached
  BY InitAgree DEF Init, Content
<1>2. IInv /\ Counted /\ Agree /\ Cached /\ [Next]_vars => Agree' /\ Cached'
  BY AgreeKept, CacheKept
<1>3. IInv /\ Agree /\ Cached /\ [Next]_vars
      => [cli => \A s \in Slots : d_inodes[s] # NoName => d_inodes'[s] = d_inodes[s]]_vars
  BY AgreeKept
<1> QED BY <1>1, <1>2, <1>3, Always, CountKept, PTL DEF Spec, NamesKept

------------------------------------------------------------------------------
(* Between two downloads the disk is at most one name behind.              *)

BehindInv ==
  /\ inodes \in [Slots -> Content] /\ d_inodes \in [Slots -> Content]
  /\ pc = "store" /\ mounted => d_inodes = inodes
  /\ OneNameBehind

LEMMA BehindKept == IInv /\ cache \in Content /\ BehindInv /\ [Next]_vars => BehindInv'
<1> SUFFICES ASSUME IInv, cache \in Content, BehindInv, [Next]_vars PROVE BehindInv'
  OBVIOUS
<1> USE DEF disk, table, downloads, flow, BehindInv
<1>0. NoInodes \in [Slots -> Content]
  BY DEF NoInodes, Content
<1>1. CASE WriteSector
  <2>1. pc' = "sync" /\ inodes' = inodes /\ d_inodes' \in {inodes, d_inodes}
    BY <1>1 DEF WriteSector
  <2> QED BY <2>1 DEF OneNameBehind
<1>2. CASE SyncDone
  <2>1. pc = "sync" /\ todo = <<>> /\ pc' = next /\ mounted' = mounted
        /\ inodes' = inodes /\ d_inodes' = d_inodes
    BY <1>2 DEF SyncDone
  <2>2. next \in {"formatted", "store", "halted"} /\ (mounted => d_inodes = inodes)
    BY <2>1 DEF IInv, Syncing, Pending
  <2> QED BY <2>1, <2>2 DEF OneNameBehind
<1>3. CASE kernel_services_init \/ LateInit
  <2>1. pc' = "idle" /\ mounted' = d_magic /\ d_inodes' = d_inodes
        /\ inodes' = IF d_magic THEN d_inodes ELSE inodes
    BY <1>3 DEF kernel_services_init, LateInit, Mount
  <2>2. mounted' => Behind' = {}
    BY <2>1 DEF Behind
  <2> QED BY <2>1, <2>2 DEF OneNameBehind
<1>4. CASE Register
  <2>1. pc = "store" /\ pc' = "idle" /\ mounted' = mounted /\ d_inodes' = d_inodes
        /\ inodes' = IF Free = {} THEN inodes ELSE [inodes EXCEPT ![FirstFree] = cache]
    BY <1>4 DEF Register
  <2>2. inodes' \in [Slots -> Content]
    BY <2>1
  <2>3. CASE ~mounted
    BY <2>1, <2>2, <2>3 DEF OneNameBehind
  <2>4. CASE mounted
    <3>1. d_inodes = inodes
      BY <2>1, <2>4
    <3>2. Free # {} => FirstFree \in Slots /\ inodes[FirstFree] = NoName
      BY FirstFreeIsFree DEF Free
    <3>3. ASSUME NEW s \in Behind' PROVE Free # {} /\ s = FirstFree /\ d_inodes[s] = NoName
      BY <2>1, <3>1, <3>2, <3>3 DEF Behind
    <3>4. \A s \in Behind' : s = FirstFree /\ d_inodes'[s] = NoName
      BY <2>1, <3>3
    <3> QED BY <2>1, <2>2, <3>4 DEF OneNameBehind
  <2> QED BY <2>3, <2>4
<1>5. CASE DownloadNowhere
  BY <1>5 DEF DownloadNowhere, OneNameBehind
<1>6. CASE InstallerFinish \/ Formatted \/ Download \/ DownloadFaults \/ Shutdown \/ PowerCut
  <2>1. pc' \notin {"idle", "store"} /\ d_inodes' = d_inodes /\ inodes' \in {NoInodes, inodes}
    BY <1>6 DEF InstallerFinish, Formatted, Download, DownloadFaults, Shutdown, PowerCut,
           navinefs_sync, FirstStep
  <2> QED BY <1>0, <2>1 DEF OneNameBehind
<1>7. CASE UNCHANGED vars
  BY <1>7 DEF vars, OneNameBehind, Behind
<1> QED
  BY <1>1, <1>2, <1>3, <1>4, <1>5, <1>6, <1>7 DEF Next

(* In both editions a power cut between two downloads costs one name at    *)
(* most, that of the last: the sync of each writes what all before it have *)
(* registered.                                                             *)
THEOREM BehindCorrect == Spec => []OneNameBehind
<1> DEFINE Cached == cache \in Content
<1>1. Init => BehindInv /\ Cached
  <2> SUFFICES ASSUME Init PROVE BehindInv /\ Cached
    OBVIOUS
  <2>1. NoInodes \in [Slots -> Content]
    BY DEF NoInodes, Content
  <2> QED BY <2>1 DEF Init, BehindInv, OneNameBehind, FirstStep, Content
<1>2. IInv /\ Counted /\ BehindInv /\ Cached /\ [Next]_vars => BehindInv' /\ Cached'
  BY BehindKept, CacheKept
<1>3. BehindInv => OneNameBehind
  BY DEF BehindInv
<1> QED BY <1>1, <1>2, <1>3, Always, CountKept, PTL DEF Spec

(* The disk keeps up with memory through any downloads, power cuts and     *)
(* shutdowns.                                                              *)
THEOREM DiskCorrect == Spec => []DiskKeepsUp
BY BehindCorrect, ShutdownCorrect, PTL DEF DiskKeepsUp

------------------------------------------------------------------------------
(* The desktop: every start formats, so that its downloads are numbered    *)
(* from 0 and the names, the blocks and the count go together.             *)

(* The table after this many downloads.                                    *)
TableOf(count) == [s \in Slots |-> IF s < count THEN NameFor(s) ELSE NoName]

(* The blocks of the first of them.                                        *)
BlocksOf(count) == \A s \in 0 .. count - 1 : d_data[s] = NameFor(s)

Downloading == (pc = "sync" /\ next = "store") \/ pc = "store"
Formatting  == (pc = "sync" /\ next = "formatted") \/ pc \in {"formatted", "late"}

(* Whatever is on the disk, names stand for the downloads of their number, *)
(* and their blocks are there.                                             *)
DiskInv ==
  d_magic => \A s \in Slots : d_inodes[s] # NoName =>
                d_inodes[s] = NameFor(s) /\ d_data[s] = NameFor(s)

(* From the format until the second mount the table is empty, on the disk  *)
(* too once it has been written.                                           *)
FormatInv ==
  Formatting =>
    /\ inodes = NoInodes
    /\ pc = "sync" => (mounted <=> d_magic) /\ ~Pending(todo, "data")
    /\ pc # "sync" /\ d_magic => d_inodes = NoInodes

(* A running machine has registered the downloads it has counted and       *)
(* written their blocks; the disk has no name of a later one.              *)
CountInv ==
  (pc = "idle" \/ Downloading) /\ mounted =>
    /\ dl_count \in 0 .. Len(Repo) + 1
    /\ inodes = TableOf(dl_count)
    /\ BlocksOf(dl_count)
    /\ \A s \in Slots : d_inodes[s] # NoName => s < dl_count

(* A download writes behind the blocks of those before it, and its own     *)
(* first sector before its name can reach the table.                       *)
FirstOf(sector) == sector.to = "data" /\ sector.at = dl_count
BlockInv ==
  Downloading =>
    /\ mounted /\ dl_count <= Len(Repo) /\ cache = NameFor(dl_count)
    /\ pc = "store" => d_data[dl_count] = cache
    /\ pc = "sync" =>
         /\ \A i \in 1 .. Len(todo) : todo[i].to = "data" =>
               todo[i].at >= dl_count /\ (todo[i].first <=> todo[i].at = dl_count)
         /\ (\E i \in 1 .. Len(todo) : FirstOf(todo[i])) \/ d_data[dl_count] = cache

DesktopTyped ==
  /\ inodes \in [Slots -> Content] /\ d_inodes \in [Slots -> Content]
  /\ d_data \in [DataSectors -> Content]
  /\ pc \notin {"halted", "services"} /\ (pc = "sync" => next # "halted")

DesktopInv ==
  ~cli => DesktopTyped /\ DiskInv /\ FormatInv /\ CountInv /\ BlockInv

(* A download has a name of the repository, or repo_unknown.               *)
LEMMA NameForIsName ==
  ASSUME NEW n \in Nat PROVE NameFor(n) \in Content /\ NameFor(n) # NoName
<1>1. n < Len(Repo) => n + 1 \in DOMAIN Repo
  BY NameAssumption
<1>2. NameFor(n) \in Names
  BY <1>1 DEF NameFor, Names
<1> QED BY <1>2, NameAssumption DEF Content

LEMMA EmptyTable == TableOf(0) = NoInodes
<1>1. \A s \in Slots : ~(s < 0)
  BY SizeAssumption DEF Slots
<1> QED BY <1>1 DEF TableOf, NoInodes

(* The sectors of a block: the first of them carries the name.             *)
LEMMA BlockSectorsOf ==
  ASSUME NEW count \in Nat, navinefs_sync(TRUE, count, TRUE, "store")
  PROVE  /\ \A i \in 1 .. Len(todo') : todo'[i].to = "data" =>
                todo'[i].at >= count /\ (todo'[i].first <=> todo'[i].at = count)
         /\ \E i \in 1 .. Len(todo') : todo'[i].to = "data" /\ todo'[i].at = count
<1> DEFINE front == BlockWrites(count)
<1>1. todo' = front \o Tables
  BY DEF navinefs_sync
<1>2. BlockSectors \in Nat \ {0}
  BY SizeAssumption
<1>3. ASSUME NEW i \in 1 .. BlockSectors
      PROVE  front[i].to = "data" /\ front[i].at = count + i - 1 /\ (front[i].first <=> i = 1)
  <2>1. front[i] = [to |-> "data", at |-> count + i - 1, first |-> (i = 1)]
    BY DEF BlockWrites, Sector
  <2>2. front[i].to = "data" /\ front[i].at = count + i - 1
    BY <2>1
  <2>3. front[i].first <=> i = 1
    <3>1. CASE i = 1
      <4>1. (i = 1) = TRUE  BY <3>1
      <4>2. front[i] = [to |-> "data", at |-> count + i - 1, first |-> TRUE]
        BY <2>1, <4>1, Zenon
      <4> QED BY <3>1, <4>2
    <3>2. CASE i # 1
      <4>1. (i = 1) = FALSE  BY <3>2
      <4>2. front[i] = [to |-> "data", at |-> count + i - 1, first |-> FALSE]
        BY <2>1, <4>1, Zenon
      <4> QED BY <3>2, <4>2
    <3> QED BY <3>1, <3>2
  <2> QED BY <2>2, <2>3
<1>4. front \in Seq(Sectors) /\ Len(front) = BlockSectors
  <2>1. \A i \in 1 .. BlockSectors : Sector("data", count + i - 1, i = 1) \in Sectors
    BY <1>2 DEF Sector, Sectors, Kinds
  <2>2. front \in [1 .. BlockSectors -> Sectors]
    BY <2>1 DEF BlockWrites
  <2> QED BY <1>2, <2>2
<1>5. Tables \in Seq(Sectors) /\ Len(Tables) = 3
      /\ \A i \in 1 .. 3 : Tables[i].to # "data"
  BY DEF Tables, Sector, Sectors, Kinds
<1> HIDE DEF front
<1>6. /\ Len(todo') = BlockSectors + 3
      /\ \A i \in 1 .. BlockSectors : todo'[i] = front[i]
      /\ \A i \in BlockSectors + 1 .. BlockSectors + 3 : todo'[i] = Tables[i - BlockSectors]
  <2>0. front \in Seq(Sectors) /\ Tables \in Seq(Sectors)
    BY <1>4, <1>5
  <2>1. Len(front \o Tables) = Len(front) + Len(Tables)
    BY <2>0
  <2>2. \A i \in 1 .. Len(front) + Len(Tables) :
           (front \o Tables)[i] = IF i <= Len(front) THEN front[i] ELSE Tables[i - Len(front)]
    BY <2>0
  <2> QED BY <1>1, <1>2, <1>4, <1>5, <2>1, <2>2
<1>7. ASSUME NEW i \in 1 .. Len(todo'), todo'[i].to = "data"
      PROVE  todo'[i].at >= count /\ (todo'[i].first <=> todo'[i].at = count)
  <2>1. CASE i \in 1 .. BlockSectors
    <3>1. todo'[i].at = count + i - 1 /\ (todo'[i].first <=> i = 1)
      BY <1>3, <1>6, <2>1
    <3>2. count + i - 1 >= count /\ (i = 1 <=> count + i - 1 = count)
      BY <1>2, <2>1
    <3> QED BY <3>1, <3>2
  <2>2. CASE i \notin 1 .. BlockSectors
    <3>1. i \in BlockSectors + 1 .. BlockSectors + 3
      BY <1>2, <1>6, <2>2
    <3>2. todo'[i] = Tables[i - BlockSectors] /\ i - BlockSectors \in 1 .. 3
      BY <1>2, <1>6, <3>1
    <3> QED BY <1>5, <1>7, <3>2
  <2> QED BY <2>1, <2>2
<1>8. 1 \in 1 .. Len(todo') /\ todo'[1].to = "data" /\ todo'[1].at = count
  <2>1. 1 \in 1 .. BlockSectors /\ count + 1 - 1 = count
    BY <1>2
  <2>2. todo'[1].to = "data" /\ todo'[1].at = count
    BY <1>3, <1>6, <2>1
  <2> QED BY <1>2, <1>6, <2>2
<1> QED BY <1>7, <1>8

LEMMA FormatSectors ==
  ASSUME NEW isMounted \in BOOLEAN, NEW then, navinefs_sync(FALSE, 0, isMounted, then)
  PROVE  ~Pending(todo', "data")
<1>1. todo' = <<>> \o (IF isMounted THEN Tables ELSE <<>>)
  BY DEF navinefs_sync
<1>2. Tables \in Seq(Sectors) /\ Len(Tables) = 3
      /\ \A i \in 1 .. 3 : Tables[i].to # "data"
  BY DEF Tables, Sector, Sectors, Kinds
<1>3. CASE isMounted
  <2>1. todo' = Tables
    BY <1>1, <1>2, <1>3
  <2> QED BY <1>2, <2>1 DEF Pending
<1>4. CASE ~isMounted
  <2>1. todo' = <<>>
    BY <1>1, <1>4
  <2> QED BY <2>1 DEF Pending
<1> QED BY <1>3, <1>4

(* A sector is written while a block and its tables are: what lies before  *)
(* the block stays.                                                        *)
LEMMA DownloadSector ==
  ASSUME IInv, Counted, cache \in Content, ~cli, DesktopInv, WriteSector, next = "store"
  PROVE  DesktopTyped' /\ DiskInv' /\ CountInv' /\ BlockInv'
<1> DEFINE h == Head(todo)
<1> USE DEF disk, table, downloads, flow
<1>1. /\ pc = "sync" /\ pc' = "sync" /\ next' = next /\ mounted' = mounted
      /\ inodes' = inodes /\ cache' = cache /\ dl_count' = dl_count /\ todo # <<>>
      /\ todo' = Tail(todo)
      /\ d_inodes' = (IF h.to = "inodes" THEN inodes ELSE d_inodes)
      /\ d_data' = (IF h.to = "data"
                    THEN [d_data EXCEPT ![h.at] = IF h.first THEN cache ELSE NoName]
                    ELSE d_data)
  BY DEF WriteSector
<1>2. DesktopTyped /\ DiskInv /\ CountInv /\ BlockInv /\ Downloading
  BY <1>1 DEF DesktopInv, Downloading
<1>3. todo \in Seq(Sectors) /\ d_magic
  BY <1>1 DEF IInv, Syncing
<1>4. /\ mounted /\ dl_count <= Len(Repo) /\ cache = NameFor(dl_count)
      /\ dl_count \in Nat /\ Len(Repo) \in Nat
      /\ inodes = TableOf(dl_count)
      /\ \A s \in 0 .. dl_count - 1 : d_data[s] = NameFor(s)
      /\ \A s \in Slots : d_inodes[s] # NoName => s < dl_count
  BY <1>2, NameAssumption DEF BlockInv, CountInv, BlocksOf, Counted
<1>5. dl_count \in DataSectors
  BY <1>4, SizeAssumption DEF DataSectors
<1>6. /\ \A i \in 1 .. Len(todo) : todo[i].to = "data" =>
            todo[i].at >= dl_count /\ (todo[i].first <=> todo[i].at = dl_count)
      /\ (\E i \in 1 .. Len(todo) : FirstOf(todo[i])) \/ d_data[dl_count] = cache
  BY <1>1, <1>2 DEF BlockInv
<1>7. /\ Len(todo') = Len(todo) - 1 /\ Len(todo) \in Nat \ {0}
      /\ \A i \in 1 .. Len(todo') : todo'[i] = todo[i + 1]
      /\ h = todo[1] /\ h \in Sectors
  BY <1>1, <1>3
<1>8. h.to = "data" => h.at >= dl_count /\ (h.first <=> h.at = dl_count) /\ h.at \in Int
  BY <1>6, <1>7 DEF Sectors
<1>9. d_data' \in [DataSectors -> Content]
  BY <1>1, <1>2 DEF DesktopTyped, Content
<1>10. \A s \in Int : s < dl_count => d_data'[s] = d_data[s]
  BY <1>1, <1>2, <1>4, <1>8 DEF DesktopTyped
<1>11. DesktopTyped'
  BY <1>1, <1>2, <1>9 DEF DesktopTyped
<1>12. \A s \in Slots : d_inodes'[s] # NoName => s < dl_count
  BY <1>1, <1>4 DEF TableOf
<1>13. DiskInv'
  <2> SUFFICES ASSUME NEW s \in Slots, d_inodes'[s] # NoName
               PROVE  d_inodes'[s] = NameFor(s) /\ d_data'[s] = NameFor(s)
    BY DEF DiskInv
  <2>1. s \in Nat /\ s < dl_count
    BY <1>12, SizeAssumption DEF Slots
  <2>2. d_inodes'[s] = NameFor(s)
    BY <1>1, <1>2, <1>3, <1>4, <2>1 DEF DiskInv, TableOf
  <2>3. d_data'[s] = NameFor(s)
    BY <1>4, <1>10, <2>1
  <2> QED BY <2>2, <2>3
<1>14. CountInv'
  <2>1. \A s \in 0 .. dl_count' - 1 : d_data'[s] = NameFor(s)
    BY <1>1, <1>4, <1>10
  <2>3. dl_count' \in 0 .. Len(Repo) + 1 /\ inodes' = TableOf(dl_count')
    BY <1>1, <1>4
  <2> QED BY <1>1, <1>12, <2>1, <2>3 DEF CountInv, BlocksOf
<1>15. \/ \E i \in 1 .. Len(todo') : todo'[i].to = "data" /\ todo'[i].at = dl_count
       \/ d_data'[dl_count] = cache
  <2>1. CASE h.to = "data" /\ h.at = dl_count
    BY <1>1, <1>2, <1>5, <1>8, <2>1 DEF DesktopTyped
  <2>2. CASE ~(h.to = "data" /\ h.at = dl_count) /\ d_data[dl_count] = cache
    <3>1. d_data'[dl_count] = d_data[dl_count]
      BY <1>1, <1>2, <2>2 DEF DesktopTyped
    <3> QED BY <2>2, <3>1
  <2>3. CASE ~(h.to = "data" /\ h.at = dl_count) /\ d_data[dl_count] # cache
    <3>1. PICK i \in 1 .. Len(todo) : FirstOf(todo[i])
      BY <1>6, <2>3
    <3>2. i # 1
      BY <1>7, <2>3, <3>1 DEF FirstOf
    <3>3. i - 1 \in 1 .. Len(todo') /\ todo'[i - 1] = todo[i]
      BY <1>7, <3>2
    <3> QED BY <1>1, <3>1, <3>3 DEF FirstOf
  <2> QED BY <2>1, <2>2, <2>3
<1>16. \A i \in 1 .. Len(todo') : todo'[i].to = "data" =>
          todo'[i].at >= dl_count /\ (todo'[i].first <=> todo'[i].at = dl_count)
  BY <1>6, <1>7
<1>17. BlockInv'
  BY <1>1, <1>4, <1>15, <1>16 DEF BlockInv, FirstOf
<1> QED BY <1>11, <1>13, <1>14, <1>17

(* A sector is written while the format is: none of a block.               *)
LEMMA FormatSector ==
  ASSUME IInv, ~cli, DesktopInv, WriteSector, next = "formatted"
  PROVE  DesktopInv'
<1> DEFINE h == Head(todo)
<1> USE DEF disk, table, downloads, flow
<1>1. /\ pc = "sync" /\ pc' = "sync" /\ next' = next /\ mounted' = mounted /\ ~cli'
      /\ inodes' = inodes /\ todo # <<>> /\ todo' = Tail(todo)
      /\ d_magic' = (d_magic \/ h.to = "magic")
      /\ d_inodes' = (IF h.to = "inodes" THEN inodes ELSE d_inodes)
      /\ d_data' = (IF h.to = "data"
                    THEN [d_data EXCEPT ![h.at] = IF h.first THEN cache ELSE NoName]
                    ELSE d_data)
  BY DEF WriteSector
<1>2. /\ DesktopTyped /\ DiskInv /\ inodes = NoInodes /\ (mounted <=> d_magic)
      /\ ~Pending(todo, "data")
  BY <1>1 DEF DesktopInv, FormatInv, Formatting
<1>3. todo \in Seq(Sectors) /\ d_magic
  BY <1>1 DEF IInv, Syncing
<1>4. h.to # "data"
  <2>1. 1 \in 1 .. Len(todo) /\ h = todo[1]
    BY <1>1, <1>3
  <2> QED BY <1>2, <2>1 DEF Pending
<1>5. ~Pending(todo', "data")
  BY <1>1, <1>2, <1>3, <1>4, PendingTail
<1>6. \A s \in Slots : d_inodes'[s] # NoName => d_inodes'[s] = d_inodes[s]
  BY <1>1, <1>2 DEF NoInodes
<1>7. d_data' = d_data
  BY <1>1, <1>4
<1>8. d_magic' = TRUE
  BY <1>1, <1>3
<1>9. DesktopTyped'
  BY <1>1, <1>2, <1>7 DEF DesktopTyped
<1>10. DiskInv'
  BY <1>2, <1>3, <1>6, <1>7 DEF DiskInv
<1>11. FormatInv'
  BY <1>1, <1>2, <1>3, <1>5, <1>8 DEF FormatInv, Formatting
<1>12. ~Downloading' /\ pc' # "idle"
  BY <1>1 DEF Downloading
<1>13. CountInv' /\ BlockInv'
  BY <1>12 DEF CountInv, BlockInv
<1> QED BY <1>9, <1>10, <1>11, <1>13 DEF DesktopInv

(* All sectors of a sync are on the disk.                                  *)
LEMMA DesktopSynced ==
  ASSUME IInv, ~cli, DesktopInv, SyncDone
  PROVE  DesktopInv'
<1> USE DEF disk, table, downloads, flow
<1>1. /\ pc = "sync" /\ pc' = next /\ next' = next /\ mounted' = mounted /\ ~cli'
      /\ inodes' = inodes /\ todo = <<>> /\ todo' = todo /\ d_magic' = d_magic
      /\ d_inodes' = d_inodes /\ d_data' = d_data /\ cache' = cache /\ dl_count' = dl_count
  BY DEF SyncDone
<1>2. DesktopTyped /\ DiskInv /\ FormatInv /\ CountInv /\ BlockInv
  BY DEF DesktopInv
<1>3. next \in {"formatted", "store"}
  BY <1>1, <1>2 DEF IInv, Syncing, DesktopTyped
<1>4. mounted => d_inodes = inodes
  BY <1>1 DEF IInv, Syncing, Pending
<1>5. DesktopTyped' /\ DiskInv'
  BY <1>1, <1>2, <1>3 DEF DesktopTyped, DiskInv
<1>6. CASE next = "formatted"
  <2>1. inodes = NoInodes /\ (mounted <=> d_magic)
    BY <1>1, <1>2, <1>6 DEF FormatInv, Formatting
  <2>2. FormatInv'
    BY <1>1, <1>4, <1>6, <2>1 DEF FormatInv, Formatting
  <2>3. CountInv' /\ BlockInv'
    BY <1>1, <1>6 DEF CountInv, BlockInv, Downloading
  <2> QED BY <1>5, <2>2, <2>3 DEF DesktopInv
<1>7. CASE next = "store"
  <2>1. Downloading /\ Downloading' /\ ~Formatting'
    BY <1>1, <1>7 DEF Downloading, Formatting
  <2>2. FormatInv'
    BY <2>1 DEF FormatInv
  <2>3. CountInv'
    BY <1>1, <1>2, <2>1 DEF CountInv, BlocksOf
  <2>4. Len(todo) = 0
    BY <1>1
  <2>5. d_data[dl_count] = cache
    BY <1>1, <1>2, <2>1, <2>4 DEF BlockInv
  <2>6. BlockInv'
    BY <1>1, <1>2, <1>7, <2>1, <2>5 DEF BlockInv
  <2> QED BY <1>5, <2>2, <2>3, <2>6 DEF DesktopInv
<1> QED BY <1>3, <1>6, <1>7

(* The inode a download registers is that of its number.                   *)
LEMMA RegisterNext ==
  ASSUME Counted, dl_count <= Len(Repo), inodes = TableOf(dl_count),
         cache = NameFor(dl_count)
  PROVE  Free # {} /\ [inodes EXCEPT ![FirstFree] = cache] = TableOf(dl_count + 1)
<1>1. /\ dl_count \in Nat /\ dl_count \in Slots /\ Slots \subseteq Nat
  BY NameAssumption, SizeAssumption DEF Counted, Slots
<1>2. \A s \in Slots : inodes[s] = IF s < dl_count THEN NameFor(s) ELSE NoName
  BY DEF TableOf
<1>3. \A s \in Slots : s \in Free <=> ~(s < dl_count)
  BY <1>1, <1>2, NameForIsName DEF Free
<1>4. dl_count \in Free /\ \A r \in Free : dl_count <= r
  BY <1>1, <1>3 DEF Free
<1>5. FirstFree \in Free /\ FirstFree <= dl_count
  <2>1. FirstFree \in Free /\ \A r \in Free : FirstFree <= r
    BY <1>4 DEF FirstFree
  <2> QED BY <1>4, <2>1
<1>6. FirstFree = dl_count
  <2>1. FirstFree \in Nat /\ dl_count <= FirstFree
    BY <1>1, <1>4, <1>5 DEF Free
  <2> QED BY <1>1, <1>5, <2>1
<1>7. \A s \in Slots : [inodes EXCEPT ![dl_count] = cache][s]
                         = IF s < dl_count + 1 THEN NameFor(s) ELSE NoName
  BY <1>1, <1>2 DEF TableOf
<1>8. [inodes EXCEPT ![dl_count] = cache] = TableOf(dl_count + 1)
  BY <1>7 DEF TableOf
<1> QED BY <1>4, <1>6, <1>8

LEMMA DesktopRegisters ==
  ASSUME Counted, ~cli, DesktopInv, Register
  PROVE  DesktopInv'
<1> USE DEF disk, table, downloads, flow
<1>1. /\ pc = "store" /\ pc' = "idle" /\ mounted' = mounted /\ ~cli'
      /\ d_magic' = d_magic /\ d_inodes' = d_inodes /\ d_data' = d_data
      /\ dl_count' = dl_count + 1
      /\ inodes' = IF Free = {} THEN inodes ELSE [inodes EXCEPT ![FirstFree] = cache]
  BY DEF Register
<1>2. DesktopTyped /\ DiskInv /\ CountInv /\ BlockInv /\ Downloading
  BY <1>1 DEF DesktopInv, Downloading
<1>3. /\ mounted /\ dl_count <= Len(Repo) /\ cache = NameFor(dl_count)
      /\ d_data[dl_count] = cache /\ inodes = TableOf(dl_count)
      /\ \A s \in 0 .. dl_count - 1 : d_data[s] = NameFor(s)
      /\ \A s \in Slots : d_inodes[s] # NoName => s < dl_count
      /\ dl_count \in Nat /\ Len(Repo) \in Nat
  BY <1>1, <1>2, NameAssumption DEF CountInv, BlocksOf, BlockInv, Counted
<1>4. inodes' = TableOf(dl_count + 1)
  BY <1>1, <1>3, RegisterNext
<1>5. inodes' \in [Slots -> Content]
  BY <1>4, NameForIsName, SizeAssumption DEF TableOf, Slots, Content
<1>6. DesktopTyped' /\ DiskInv'
  BY <1>1, <1>2, <1>5 DEF DesktopTyped, DiskInv
<1>7. \A s \in 0 .. (dl_count + 1) - 1 : d_data[s] = NameFor(s)
  BY <1>3
<1>8. CountInv'
  <2>1. \A s \in Slots : d_inodes[s] # NoName => s < dl_count + 1
    BY <1>3, SizeAssumption DEF Slots
  <2>2. dl_count' \in 0 .. Len(Repo) + 1 /\ inodes' = TableOf(dl_count')
    BY <1>1, <1>3, <1>4
  <2> QED BY <1>1, <1>7, <2>1, <2>2 DEF CountInv, BlocksOf
<1>9. FormatInv' /\ BlockInv'
  BY <1>1 DEF FormatInv, Formatting, BlockInv, Downloading
<1> QED BY <1>6, <1>8, <1>9 DEF DesktopInv

LEMMA DesktopDownloads ==
  ASSUME Counted, ~cli, DesktopInv, Download
  PROVE  DesktopInv'
<1> USE DEF disk, table, downloads, flow
<1>1. /\ pc = "idle" /\ mounted /\ mounted' = mounted /\ ~cli' /\ dl_count <= Len(Repo)
      /\ d_magic' = d_magic /\ d_inodes' = d_inodes /\ d_data' = d_data
      /\ dl_count' = dl_count /\ inodes' = inodes /\ cache' = NameFor(dl_count)
      /\ navinefs_sync(TRUE, dl_count, TRUE, "store")
  BY DEF Download
<1>2. DesktopTyped /\ DiskInv /\ CountInv
  BY DEF DesktopInv
<1>3. pc' = "sync" /\ next' = "store"
  BY <1>1 DEF navinefs_sync
<1>4. DesktopTyped' /\ DiskInv' /\ FormatInv' /\ Downloading'
  BY <1>1, <1>2, <1>3 DEF DesktopTyped, DiskInv, FormatInv, Formatting, Downloading
<1>5. CountInv'
  BY <1>1, <1>2, <1>3 DEF CountInv, BlocksOf
<1>6. BlockInv'
  <2>1. dl_count \in Nat
    BY DEF Counted
  <2>2. /\ \A i \in 1 .. Len(todo') : todo'[i].to = "data" =>
              todo'[i].at >= dl_count /\ (todo'[i].first <=> todo'[i].at = dl_count)
        /\ \E i \in 1 .. Len(todo') : todo'[i].to = "data" /\ todo'[i].at = dl_count
    BY <1>1, <2>1, BlockSectorsOf
  <2> QED BY <1>1, <1>3, <2>2 DEF BlockInv, FirstOf
<1> QED BY <1>4, <1>5, <1>6 DEF DesktopInv

(* The start: the format, and the second mount that counts nothing.        *)
LEMMA DesktopStarts ==
  ASSUME IInv, ~cli, DesktopInv, InstallerFinish \/ Formatted \/ LateInit
  PROVE  DesktopInv'
<1> USE DEF disk, table, downloads, flow
<1>0. NoInodes \in [Slots -> Content] /\ DesktopTyped /\ DiskInv /\ FormatInv
  BY DEF NoInodes, Content, DesktopInv
<1>1. CASE InstallerFinish
  <2>1. /\ mounted' = d_magic /\ inodes' = NoInodes /\ ~cli' /\ d_magic' = d_magic
        /\ d_inodes' = d_inodes /\ d_data' = d_data /\ pc' = "sync" /\ next' = "formatted"
        /\ navinefs_sync(FALSE, 0, d_magic, "formatted")
    BY <1>1 DEF InstallerFinish, navinefs_sync
  <2>2. ~Pending(todo', "data")
    BY <2>1, FormatSectors DEF IInv
  <2>3. DesktopTyped' /\ DiskInv'
    BY <1>0, <2>1 DEF DesktopTyped, DiskInv
  <2>4. FormatInv'
    BY <2>1, <2>2 DEF FormatInv
  <2>5. CountInv' /\ BlockInv'
    BY <2>1 DEF CountInv, BlockInv, Downloading
  <2> QED BY <2>3, <2>4, <2>5 DEF DesktopInv
<1>2. CASE Formatted
  <2>1. /\ pc = "formatted" /\ pc' = "late" /\ inodes' = inodes /\ ~cli'
        /\ d_magic' = d_magic /\ d_inodes' = d_inodes /\ d_data' = d_data
    BY <1>2 DEF Formatted
  <2>2. DesktopTyped' /\ DiskInv' /\ FormatInv'
    BY <1>0, <2>1 DEF DesktopTyped, DiskInv, FormatInv, Formatting
  <2>3. CountInv' /\ BlockInv'
    BY <2>1 DEF CountInv, BlockInv, Downloading
  <2> QED BY <2>2, <2>3 DEF DesktopInv
<1>3. CASE LateInit
  <2>1. /\ pc = "late" /\ pc' = "idle" /\ mounted' = d_magic /\ ~cli'
        /\ inodes' = (IF d_magic THEN d_inodes ELSE inodes)
        /\ d_magic' = d_magic /\ d_inodes' = d_inodes /\ d_data' = d_data
        /\ dl_count' = Cardinality(IF mounted' THEN Found(inodes') ELSE {})
    BY <1>3 DEF LateInit, Mount, Restore
  <2>2. inodes = NoInodes /\ (d_magic => d_inodes = NoInodes)
    BY <1>0, <2>1 DEF FormatInv, Formatting
  <2>3. inodes' = NoInodes
    BY <2>1, <2>2
  <2>4. Found(NoInodes) = {}
    <3>1. ASSUME NEW i \in 1 .. Len(Repo) PROVE Repo[i] # NoName
      BY NameAssumption
    <3> QED BY <3>1 DEF Found, NoInodes
  <2>5. dl_count' = 0
    BY <2>1, <2>3, <2>4, FS_EmptySet
  <2>6. DesktopTyped' /\ DiskInv'
    BY <1>0, <2>1, <2>3 DEF DesktopTyped, DiskInv
  <2>7. CountInv'
    <3>1. Len(Repo) \in Nat
      BY NameAssumption
    <3>2. \A s \in 0 .. 0 - 1 : d_data[s] = NameFor(s)
      OBVIOUS
    <3>3. d_magic => \A s \in Slots : d_inodes[s] = NoName
      BY <2>2 DEF NoInodes
    <3> QED BY <2>1, <2>3, <2>5, <3>1, <3>2, <3>3, EmptyTable DEF CountInv, BlocksOf
  <2>8. FormatInv' /\ BlockInv'
    BY <2>1 DEF FormatInv, Formatting, BlockInv, Downloading
  <2> QED BY <2>6, <2>7, <2>8 DEF DesktopInv
<1> QED BY <1>1, <1>2, <1>3

LEMMA DesktopKept ==
  ASSUME IInv, Counted, cache \in Content, DesktopInv, [Next]_vars
  PROVE  DesktopInv'
<1> USE DEF disk, table, downloads, flow
<1>0. cli' = cli /\ NoInodes \in [Slots -> Content]
  BY DEF Next, vars, WriteSector, SyncDone, kernel_services_init, InstallerFinish, Formatted,
         LateInit, Download, DownloadNowhere, DownloadFaults, Register, Shutdown, PowerCut,
         NoInodes, Content
<1>1. SUFFICES ASSUME ~cli PROVE DesktopInv'
  BY <1>0 DEF DesktopInv
<1>2. DesktopTyped /\ DiskInv /\ FormatInv /\ CountInv /\ BlockInv
  BY <1>1 DEF DesktopInv
<1>3. CASE WriteSector
  <2>1. next \in {"formatted", "store"} /\ pc' = "sync" /\ next' = next
    BY <1>2, <1>3 DEF WriteSector, IInv, Syncing, DesktopTyped
  <2>2. CASE next = "store"
    <3>1. DesktopTyped' /\ DiskInv' /\ CountInv' /\ BlockInv'
      BY <1>1, <1>3, <2>2, DownloadSector
    <3>2. FormatInv'
      BY <2>1, <2>2 DEF FormatInv, Formatting
    <3> QED BY <3>1, <3>2 DEF DesktopInv
  <2> QED BY <1>1, <1>3, <2>1, <2>2, FormatSector
<1>4. CASE SyncDone  BY <1>1, <1>4, DesktopSynced
<1>5. CASE InstallerFinish \/ Formatted \/ LateInit  BY <1>1, <1>5, DesktopStarts
<1>6. CASE Download  BY <1>1, <1>6, DesktopDownloads
<1>7. CASE Register  BY <1>1, <1>7, DesktopRegisters
<1>8. CASE kernel_services_init \/ Shutdown
  BY <1>1, <1>2, <1>8 DEF kernel_services_init, Shutdown, DesktopTyped
<1>9. CASE DownloadNowhere
  <2>1. /\ pc = "idle" /\ pc' = pc /\ ~mounted' /\ d_magic' = d_magic /\ inodes' = inodes
        /\ d_inodes' = d_inodes /\ d_data' = d_data
    BY <1>9 DEF DownloadNowhere
  <2> QED BY <1>2, <2>1 DEF DesktopInv, DesktopTyped, DiskInv, FormatInv, Formatting, CountInv,
             BlockInv, Downloading
<1>10. CASE DownloadFaults
  <2>1. /\ pc' = "fault" /\ d_magic' = d_magic /\ inodes' = inodes
        /\ d_inodes' = d_inodes /\ d_data' = d_data
    BY <1>10 DEF DownloadFaults
  <2> QED BY <1>2, <2>1 DEF DesktopInv, DesktopTyped, DiskInv, FormatInv, Formatting, CountInv,
             BlockInv, Downloading
<1>11. CASE PowerCut
  <2>1. /\ pc' = "installer" /\ d_magic' = d_magic /\ inodes' = NoInodes
        /\ d_inodes' = d_inodes /\ d_data' = d_data
    BY <1>1, <1>11 DEF PowerCut, FirstStep
  <2> QED BY <1>0, <1>2, <2>1 DEF DesktopInv, DesktopTyped, DiskInv, FormatInv, Formatting,
             CountInv, BlockInv, Downloading
<1>12. CASE UNCHANGED vars
  BY <1>2, <1>12 DEF vars, DesktopInv, DesktopTyped, DiskInv, FormatInv, Formatting, CountInv,
     BlockInv, Downloading, BlocksOf, FirstOf, Pending
<1> QED
  BY <1>3, <1>4, <1>5, <1>6, <1>7, <1>8, <1>9, <1>10, <1>11, <1>12 DEF Next

LEMMA AlwaysDesktop == Spec => []DesktopInv
<1> DEFINE Cached == cache \in Content
<1>1. Init => DesktopInv /\ Cached
  <2> SUFFICES ASSUME Init PROVE DesktopInv /\ Cached
    OBVIOUS
  <2>1. NoInodes \in [Slots -> Content] /\ [n \in DataSectors |-> NoName] \in [DataSectors -> Content]
    BY DEF NoInodes, Content
  <2>2. pc = FirstStep /\ d_inodes = NoInodes /\ inodes = NoInodes /\ cache = NoName
        /\ d_data = [n \in DataSectors |-> NoName]
    BY DEF Init
  <2>3. ~cli => pc = "installer"
    BY <2>2 DEF FirstStep
  <2>4. DiskInv
    BY <2>2 DEF DiskInv, NoInodes
  <2> QED BY <2>1, <2>2, <2>3, <2>4 DEF DesktopInv, DesktopTyped, FormatInv, Formatting,
             CountInv, BlockInv, Downloading, Content
<1>2. IInv /\ Counted /\ DesktopInv /\ Cached /\ [Next]_vars => DesktopInv' /\ Cached'
  BY DesktopKept, CacheKept
<1> QED BY <1>1, <1>2, Always, CountKept, PTL DEF Spec

(* Whenever the power fails, a name on the desktop's disk has its block    *)
(* there: a download writes behind the blocks of all that have a name, and *)
(* its first sector before its name.                                       *)
THEOREM BlocksCorrect == Spec => []NamedBlocksWritten
<1>1. DesktopInv => NamedBlocksWritten
  BY DEF DesktopInv, DiskInv, NamedBlocksWritten
<1> QED BY <1>1, AlwaysDesktop, PTL

(* The mounted flag and the count of downloads tell what is so: the next   *)
(* download's block and inode have one number.                             *)
THEOREM FlagsCorrect == Spec => []FlagsTrue
<1>1. DesktopInv => CountMatchesTable
  <2> SUFFICES ASSUME DesktopInv, ~cli, pc = "idle", mounted
               PROVE  {s \in Slots : inodes[s] # NoName} = 0 .. dl_count - 1
    BY DEF CountMatchesTable
  <2>1. dl_count \in 0 .. Len(Repo) + 1 /\ inodes = TableOf(dl_count) /\ Len(Repo) \in Nat
    BY NameAssumption DEF DesktopInv, CountInv
  <2>2. \A s \in Slots : inodes[s] # NoName <=> s < dl_count
    BY <2>1, NameForIsName, SizeAssumption DEF TableOf, Slots
  <2> QED BY <2>1, <2>2, SizeAssumption DEF Slots
<1> QED BY <1>1, AlwaysDesktop, MountCorrect, PTL DEF FlagsTrue


------------------------------------------------------------------------------
(* A blank disk.                                                           *)

BlankInv ==
  ~d_magic => /\ d_inodes = NoInodes /\ d_journal = NoJournal
              /\ \A n \in DataSectors : d_data[n] = NoName

(* Sectors are written while a sync has some left, and it has some only on *)
(* a disk with the magic.                                                  *)
LEMMA BlankStep ==
  ASSUME IInv, [Next]_vars
  PROVE  ~d_magic => UNCHANGED disk
<1>1. CASE WriteSector
  <2>1. d_magic  BY <1>1 DEF WriteSector, IInv, Syncing
  <2> QED  BY <2>1
<1>2. CASE ~WriteSector
  BY <1>2 DEF Next, vars, SyncDone, kernel_services_init, InstallerFinish, Formatted,
     LateInit, Download, DownloadNowhere, DownloadFaults, Register, Shutdown, PowerCut
<1> QED  BY <1>1, <1>2

(* Nothing the program does, formatting in the installer included, writes  *)
(* a single sector of a disk that was blank when the machine was switched  *)
(* on.                                                                     *)
THEOREM BlankStays == Spec => [][~d_magic => UNCHANGED disk]_vars
BY Always, BlankStep, PTL DEF Spec

(* The download that is reported complete is then missing, every time.     *)
THEOREM BlankSavesNothing ==
  Spec => [](~d_magic /\ asked # NoName => \A n \in DataSectors : d_data[n] # asked)
<1> DEFINE Missing == ~d_magic /\ asked # NoName => \A n \in DataSectors : d_data[n] # asked
<1>1. Init => BlankInv  BY DEF Init, BlankInv
<1>2. BlankInv /\ IInv /\ [Next]_vars => BlankInv'
  <2> SUFFICES ASSUME BlankInv, IInv, [Next]_vars  PROVE BlankInv'
    OBVIOUS
  <2>1. d_magic => d_magic'
    BY DEF Next, vars, disk, WriteSector, SyncDone, kernel_services_init, InstallerFinish,
       Formatted, LateInit, Download, DownloadNowhere, DownloadFaults, Register, Shutdown,
       PowerCut
  <2>2. ~d_magic => UNCHANGED disk  BY BlankStep
  <2> QED  BY <2>1, <2>2 DEF BlankInv, disk
<1>3. BlankInv => Missing  BY DEF BlankInv
<1> QED  BY <1>1, <1>2, <1>3, Always, PTL DEF Spec

------------------------------------------------------------------------------
(* Types.                                                                  *)

(* A download begins while there is a name left, so that the count, the    *)
(* journal's entries and the sectors of a block stay in range.             *)
CountBound ==
  /\ dl_count \in 0 .. Len(Repo) + 1
  /\ Downloading => dl_count <= Len(Repo)

SectorsInRange == \A i \in 1 .. Len(todo) : todo[i].to = "data" => todo[i].at \in DataSectors

LEMMA RestoreCounts ==
  ASSUME Restore
  PROVE  dl_count' \in 0 .. Len(Repo)
<1> DEFINE found == IF mounted' THEN Found(inodes') ELSE {}
<1>1. dl_count' = Cardinality(found)  BY DEF Restore
<1>2. Len(Repo) \in Nat  BY NameAssumption
<1>3. IsFiniteSet(1 .. Len(Repo)) /\ Cardinality(1 .. Len(Repo)) = Len(Repo)
  <2>1. PICK len \in Nat : len = Len(Repo)  BY <1>2
  <2>2. IsFiniteSet(1 .. len) /\ Cardinality(1 .. len) = IF 1 > len THEN 0 ELSE len - 1 + 1
    BY FS_Interval
  <2> QED  BY <2>1, <2>2
<1>4. found \subseteq 1 .. Len(Repo)  BY DEF Found
<1> HIDE DEF found
<1>5. IsFiniteSet(found) /\ Cardinality(found) <= Len(Repo)  BY <1>3, <1>4, FS_Subset
<1>6. Cardinality(found) \in Nat  BY <1>5, FS_CardinalityType
<1> QED  BY <1>1, <1>2, <1>5, <1>6

LEMMA CountStep ==
  ASSUME IInv, CountBound, [Next]_vars
  PROVE  CountBound'
<1> USE DEF CountBound, Downloading
<1>0. Len(Repo) \in Nat  BY NameAssumption
<1>1. CASE WriteSector
  BY <1>1 DEF WriteSector, downloads
<1>2. CASE SyncDone
  <2>1. next \in {"formatted", "store", "halted"}  BY <1>2 DEF SyncDone, IInv, Syncing
  <2> QED  BY <1>2, <2>1 DEF SyncDone, downloads
<1>3. CASE LateInit
  <2>1. dl_count' \in 0 .. Len(Repo) /\ pc' = "idle"  BY <1>3, RestoreCounts DEF LateInit
  <2> QED  BY <1>0, <2>1
<1>4. CASE Download
  <2>1. dl_count' = dl_count /\ dl_count <= Len(Repo)  BY <1>4 DEF Download
  <2> QED  BY <2>1
<1>5. CASE Register
  <2>1. dl_count' = dl_count + 1 /\ pc = "store" /\ pc' = "idle"  BY <1>5 DEF Register
  <2> QED  BY <1>0, <2>1
<1>6. CASE InstallerFinish \/ Shutdown
  <2>1. dl_count' = dl_count /\ pc' = "sync" /\ next' # "store"
    BY <1>6 DEF InstallerFinish, Shutdown, downloads, navinefs_sync
  <2> QED  BY <2>1
<1>7. CASE kernel_services_init \/ Formatted \/ DownloadNowhere \/ DownloadFaults
  <2>1. dl_count' = dl_count /\ pc' \in {"idle", "late", "fault"}
    BY <1>7 DEF kernel_services_init, Formatted, DownloadNowhere, DownloadFaults, downloads, flow
  <2> QED  BY <2>1
<1>8. CASE PowerCut
  <2>1. dl_count' = 0 /\ pc' \in {"installer", "services"}
    BY <1>8 DEF PowerCut, FirstStep
  <2> QED  BY <1>0, <2>1
<1>9. CASE UNCHANGED vars
  BY <1>9 DEF vars, downloads, flow
<1> QED  BY <1>1, <1>2, <1>3, <1>4, <1>5, <1>6, <1>7, <1>8, <1>9 DEF Next

LEMMA SectorsStep ==
  ASSUME IInv, CountBound, SectorsInRange, [Next]_vars
  PROVE  SectorsInRange'
<1> USE DEF SectorsInRange
<1>0. /\ Len(Repo) \in Nat /\ MaxDownloads \in Nat /\ BlockSectors \in Nat \ {0}
      /\ Len(Repo) + 1 <= MaxDownloads
  BY NameAssumption, SizeAssumption
<1>1. CASE WriteSector
  <2>1. todo \in Seq(Sectors) /\ todo # <<>> /\ todo' = Tail(todo)
    BY <1>1 DEF WriteSector, IInv
  <2>2. /\ Len(todo) \in Nat /\ Len(todo') = Len(todo) - 1
        /\ \A i \in 1 .. Len(todo') : i + 1 \in 1 .. Len(todo) /\ todo'[i] = todo[i + 1]
    BY <2>1
  <2> QED  BY <2>2
<1>2. ASSUME NEW dirty \in BOOLEAN, NEW first \in 0 .. Len(Repo), NEW isMounted, NEW then,
             navinefs_sync(dirty, first, isMounted, then)
      PROVE  SectorsInRange'
  <2> DEFINE front == IF dirty THEN BlockWrites(first) ELSE <<>>
             back  == IF isMounted THEN Tables ELSE <<>>
  <2>1. todo' = front \o back  BY <1>2 DEF navinefs_sync
  <2>2. BlockWrites(first) \in Seq(Sectors) /\ Len(BlockWrites(first)) = BlockSectors
    <3>1. \A i \in 1 .. BlockSectors : Sector("data", first + i - 1, i = 1) \in Sectors
      BY <1>0 DEF Sector, Sectors, Kinds
    <3>2. BlockWrites(first) \in [1 .. BlockSectors -> Sectors]  BY <3>1 DEF BlockWrites
    <3> QED  BY <1>0, <3>2
  <2>3. \A i \in 1 .. BlockSectors : BlockWrites(first)[i].at \in DataSectors
    <3> TAKE i \in 1 .. BlockSectors
    <3>1. BlockWrites(first)[i].at = first + i - 1  BY DEF BlockWrites, Sector
    <3> QED  BY <1>0, <3>1 DEF DataSectors
  <2>4. Tables \in Seq(Sectors) /\ \A i \in 1 .. Len(Tables) : Tables[i].to # "data"
    BY DEF Tables, Sector, Sectors, Kinds
  <2>5. front \in Seq(Sectors) /\ \A i \in 1 .. Len(front) : front[i].at \in DataSectors
    BY <2>2, <2>3
  <2>6. back \in Seq(Sectors) /\ \A i \in 1 .. Len(back) : back[i].to # "data"
    BY <2>4
  <2> HIDE DEF front, back
  <2>7. PICK m, k \in Nat : m = Len(front) /\ k = Len(back)  BY <2>5, <2>6
  <2>8. /\ Len(todo') = m + k
        /\ \A i \in 1 .. m : todo'[i] = front[i]
        /\ \A i \in m + 1 .. m + k : todo'[i] = back[i - m]
    BY <2>1, <2>5, <2>6, <2>7
  <2>9. ASSUME NEW i \in 1 .. Len(todo'), todo'[i].to = "data"
        PROVE  todo'[i].at \in DataSectors
    <3>1. CASE i <= m  BY <2>5, <2>7, <2>8, <2>9, <3>1
    <3>2. CASE i > m
      <4>1. i \in m + 1 .. m + k /\ i - m \in 1 .. k  BY <2>7, <2>8, <3>2
      <4> QED  BY <2>6, <2>7, <2>8, <2>9, <4>1
    <3> QED  BY <2>7, <2>8, <3>1, <3>2
  <2> QED  BY <2>9
<1>3. CASE Download
  <2>1. navinefs_sync(TRUE, dl_count, TRUE, "store") /\ dl_count <= Len(Repo)
    BY <1>3 DEF Download
  <2>2. dl_count \in 0 .. Len(Repo)  BY <1>0, <2>1 DEF CountBound
  <2> QED  BY <1>2, <2>1, <2>2
<1>4. CASE InstallerFinish
  <2>1. navinefs_sync(FALSE, 0, d_magic, "formatted")  BY <1>4 DEF InstallerFinish
  <2>2. 0 \in 0 .. Len(Repo)  BY <1>0
  <2> QED  BY <1>2, <2>1, <2>2
<1>5. CASE Shutdown
  <2>1. navinefs_sync(FALSE, 0, mounted, "halted")  BY <1>5 DEF Shutdown
  <2>2. 0 \in 0 .. Len(Repo)  BY <1>0
  <2> QED  BY <1>2, <2>1, <2>2
<1>6. CASE PowerCut  BY <1>6 DEF PowerCut
<1>7. CASE UNCHANGED todo  BY <1>7
<1> QED
  BY <1>1, <1>3, <1>4, <1>5, <1>6, <1>7 DEF Next, vars, flow, SyncDone,
     kernel_services_init, Formatted, LateInit, DownloadNowhere, DownloadFaults, Register

LEMMA FirstIsName == Repo[1] \in Content
<1>1. Repo \in Seq(Names) /\ Repo # <<>>  BY NameAssumption
<1> QED  BY <1>1 DEF Content

LEMMA TypeInit == Init => TypeOK
<1> SUFFICES ASSUME Init  PROVE TypeOK
  OBVIOUS
<1>1. NoInodes \in [Slots -> Content] /\ [n \in DataSectors |-> NoName] \in [DataSectors -> Content]
      /\ NoName \in Content
  BY DEF NoInodes, Content
<1>2. NoJournal \in [0 .. Entries - 1 -> -1 .. MaxDownloads]
  BY SizeAssumption DEF NoJournal
<1>3. 0 \in 0 .. Entries - 1 /\ 0 \in 0 .. MaxDownloads /\ 1 \in Nat
  BY SizeAssumption
<1>4. pc \in Steps /\ next \in Steps  BY DEF Init, FirstStep, Steps
<1> QED  BY <1>1, <1>2, <1>3, <1>4 DEF Init, TypeOK

LEMMA TypeStep ==
  ASSUME TypeOK, IInv, CountBound, CountBound', [Next]_vars
  PROVE  TypeOK'
<1> USE DEF disk, table, downloads, flow
<1>0. /\ Len(Repo) \in Nat /\ MaxDownloads \in Nat /\ Entries \in Nat \ {0}
      /\ Len(Repo) + 1 <= MaxDownloads
  BY NameAssumption, SizeAssumption
<1>1. /\ NoInodes \in [Slots -> Content] /\ NoName \in Content
      /\ NoJournal \in [0 .. Entries - 1 -> -1 .. MaxDownloads]
      /\ 0 \in 0 .. Entries - 1
  BY <1>0 DEF NoInodes, NoJournal, Content
<1>2. dl_count' \in 0 .. MaxDownloads  BY <1>0 DEF CountBound
<1>3. cache' \in Content
  <2>1. Counted  BY DEF TypeOK, Counted
  <2> QED  BY <2>1, CacheKept DEF TypeOK
<1>4. CASE WriteSector
  <2>1. d_magic' \in BOOLEAN  BY <1>4 DEF WriteSector
  <2>2. d_inodes' \in {inodes, d_inodes} /\ d_journal' \in {journal, d_journal}
    BY <1>4 DEF WriteSector
  <2>3. d_data' \in [DataSectors -> Content]
    BY <1>1, <1>4 DEF WriteSector, TypeOK
  <2> QED  BY <1>4, <2>1, <2>2, <2>3 DEF WriteSector, TypeOK
<1>5. CASE SyncDone  BY <1>5 DEF SyncDone, TypeOK
<1>6. CASE kernel_services_init \/ LateInit
  <2>1. /\ mounted' = d_magic /\ inodes' \in {d_inodes, inodes}
        /\ journal' \in {d_journal, journal} /\ jhead' \in {jhead, 0} /\ pc' = "idle"
    BY <1>6 DEF kernel_services_init, LateInit, Mount
  <2>2. /\ UNCHANGED <<cli, d_magic, d_inodes, d_journal, d_data, cache, asked, next, starts>>
    BY <1>6 DEF kernel_services_init, LateInit, Restore
  <2> QED  BY <1>1, <1>2, <2>1, <2>2 DEF TypeOK, Steps
<1>7. CASE InstallerFinish
  <2>1. pc' = "sync" /\ next' = "formatted"  BY <1>7 DEF InstallerFinish, navinefs_sync
  <2> QED  BY <1>1, <1>7, <2>1 DEF InstallerFinish, TypeOK, Steps
<1>8. CASE Formatted  BY <1>8 DEF Formatted, TypeOK, Steps
<1>9. CASE Download
  <2>1. journal' = [journal EXCEPT ![jhead] = dl_count] /\ jhead' = (jhead + 1) % Entries
    BY <1>9 DEF Download, journal_append
  <2>2. dl_count \in -1 .. MaxDownloads  BY <1>0 DEF TypeOK
  <2>3. journal' \in [0 .. Entries - 1 -> -1 .. MaxDownloads]  BY <2>1, <2>2 DEF TypeOK
  <2>4. jhead' \in 0 .. Entries - 1
    <3>1. jhead + 1 \in Nat  BY DEF TypeOK
    <3> QED  BY <1>0, <2>1, <3>1
  <2>5. asked' \in Content
    <3>1. asked' = Repo[1] /\ dl_count <= Len(Repo)  BY <1>9 DEF Download
    <3> QED  BY <3>1, FirstIsName
  <2>6. pc' = "sync" /\ next' = "store"  BY <1>9 DEF Download, navinefs_sync
  <2> QED  BY <1>3, <1>9, <2>3, <2>4, <2>5, <2>6 DEF Download, TypeOK, Steps
<1>10. CASE DownloadNowhere
  <2>1. asked' \in Content  BY <1>10, FirstIsName DEF DownloadNowhere
  <2> QED  BY <1>10, <2>1 DEF DownloadNowhere, TypeOK
<1>11. CASE DownloadFaults  BY <1>11 DEF DownloadFaults, TypeOK, Steps
<1>12. CASE Register
  <2>1. inodes' \in [Slots -> Content]  BY <1>12 DEF Register, TypeOK
  <2> QED  BY <1>2, <1>12, <2>1 DEF Register, TypeOK, Steps
<1>13. CASE Shutdown
  <2>1. pc' = "sync" /\ next' = "halted"  BY <1>13 DEF Shutdown, navinefs_sync
  <2> QED  BY <1>13, <2>1 DEF Shutdown, TypeOK, Steps
<1>14. CASE PowerCut
  <2>1. pc' \in Steps /\ next' \in Steps  BY <1>14 DEF PowerCut, FirstStep, Steps
  <2>2. /\ mounted' = FALSE /\ inodes' = NoInodes /\ journal' = NoJournal /\ jhead' = 0
        /\ asked' = NoName /\ starts' = starts + 1
        /\ UNCHANGED <<cli, d_magic, d_inodes, d_journal, d_data>>
    BY <1>14 DEF PowerCut
  <2>3. starts' \in Nat  BY <2>2 DEF TypeOK
  <2> QED  BY <1>1, <1>2, <1>3, <2>1, <2>2, <2>3 DEF TypeOK
<1>15. CASE UNCHANGED vars  BY <1>15 DEF vars, TypeOK
<1> QED
  BY <1>4, <1>5, <1>6, <1>7, <1>8, <1>9, <1>10, <1>11, <1>12, <1>13, <1>14, <1>15 DEF Next

LEMMA AlwaysCounted == Spec => [](CountBound /\ SectorsInRange)
<1>1. Init => CountBound /\ SectorsInRange
  <2>1. Len(Repo) \in Nat  BY NameAssumption
  <2> QED  BY <2>1 DEF Init, CountBound, SectorsInRange, Downloading, FirstStep
<1>2. IInv /\ CountBound /\ SectorsInRange /\ [Next]_vars => (CountBound /\ SectorsInRange)'
  BY CountStep, SectorsStep
<1> QED  BY <1>1, <1>2, Always, PTL DEF Spec

(* Every variable has its type: no block is written behind the last, no    *)
(* journal entry behind its table, and the count of downloads stays below  *)
(* the sixteen that downloads has room for.                                *)
THEOREM TypeCorrect == Spec => []TypeOK
<1>1. TypeOK /\ IInv /\ CountBound /\ CountBound' /\ [Next]_vars => TypeOK'
  BY TypeStep
<1> QED  BY <1>1, TypeInit, Always, AlwaysCounted, PTL DEF Spec

(* Every sector of a block that is written lies before the sector behind   *)
(* the last block, although the blocks overlap and the number of the block *)
(* is the number of the download.                                          *)
THEOREM SectorsCorrect == Spec => []SectorsInRange
BY AlwaysCounted, PTL
==============================================================================
