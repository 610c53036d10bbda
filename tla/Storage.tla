------------------------------- MODULE Storage -------------------------------
(***************************************************************************)
(* NavineFS and the only program that writes to it, the terminal's         *)
(* download command, from power on to power off, in both editions of the   *)
(* kernel.  The desktop's installer mounts and formats, its late start     *)
(* mounts again and counts what it finds; the command line edition only    *)
(* mounts.  A download writes its block, synchronises and only then        *)
(* registers its name.  The shutdown command synchronises once more; it    *)
(* can be typed in the command line edition only, for the desktop takes    *)
(* the letter h for itself.  No edition can type the colon of a            *)
(* download:<name> address.                                                *)
(*                                                                         *)
(* The disk is written one sector at a time with the main loop waiting, so *)
(* the power may fail between any two sectors.  Memory is then lost and    *)
(* the desktop runs its installer again: nothing reads the flag sector     *)
(* that says it has run.  A sector that is written is written in full.     *)
(***************************************************************************)
EXTENDS Integers, FiniteSets, Sequences

CONSTANTS
  Repo,         \* names of the repository, in the order of repo_table
  Unknown,      \* repo_unknown, the name past the end of the table
  NoName,       \* a free inode, an unwritten block
  Inodes,       \* NAVINEFS_MAX_INODES (64), in one sector here and not in four
  Entries,      \* NAVINEFS_JOURNAL_ENTRIES (64)
  MaxDownloads, \* 16
  BlockSectors, \* sectors of a block (8)
  MaxStarts     \* bound: how often the machine is switched on

Names == {Repo[i] : i \in DOMAIN Repo} \union {Unknown}
Slots == 0 .. Inodes - 1
(* Sectors after the first data sector, as far as the last block reaches.  *)
DataSectors == 0 .. MaxDownloads + BlockSectors

ASSUME NameAssumption == /\ Repo \in Seq(Names) \ {<<>>} /\ NoName \notin Names
                         /\ \A i, j \in DOMAIN Repo : Repo[i] = Repo[j] => i = j
ASSUME SizeAssumption == /\ Inodes \in Nat \ {0} /\ Entries \in Nat \ {0}
                         /\ MaxDownloads \in Nat /\ BlockSectors \in Nat \ {0}
                         \* the fault comes before the limit of 16
                         /\ Len(Repo) + 1 <= MaxDownloads
                         /\ Len(Repo) + 2 <= Inodes
ASSUME BoundAssumption == MaxStarts \in Nat

VARIABLES
  cli,        \* which edition is on the disk
  \* on the disk
  d_magic,    \* the super block holds NAVINEFS_MAGIC
  d_inodes, d_journal, d_data,
  \* in memory
  mounted, inodes, journal, jhead,
  cache,      \* navinefs_cache; never dirty outside of navinefs_write
  dl_count,   \* downloads, and entries of dl_repo_index
  pc, todo,   \* where the main loop is; sectors the running sync has to write
  next,       \* where it goes on when they are written
  asked,      \* the package the last download was asked for
  starts      \* how often the machine has been switched on

disk  == <<d_magic, d_inodes, d_journal, d_data>>
table == <<inodes, journal, jhead>>
downloads == <<dl_count, asked>>
flow  == <<pc, todo, next>>
vars  == <<cli, disk, mounted, table, cache, downloads, flow, starts>>

NoInodes  == [s \in Slots |-> NoName]
NoJournal == [e \in 0 .. Entries - 1 |-> -1]

FirstStep == IF cli THEN "services" ELSE "installer"

(* A disk is blank, or was formatted by someone else: this program never   *)
(* writes the magic to a blank one.                                        *)
Init ==
  /\ cli \in BOOLEAN
  /\ d_magic \in BOOLEAN
  /\ d_inodes = NoInodes /\ d_journal = NoJournal
  /\ d_data = [n \in DataSectors |-> NoName]
  /\ mounted = FALSE /\ inodes = NoInodes /\ journal = NoJournal /\ jhead = 0
  /\ cache = NoName
  /\ dl_count = 0 /\ asked = NoName
  /\ pc = FirstStep /\ todo = <<>> /\ next = "idle"
  /\ starts = 1

------------------------------------------------------------------------------
(* NavineFS.                                                               *)

(* init_navinefs: without the magic what memory holds stays there.         *)
Mount ==
  /\ mounted' = d_magic
  /\ IF d_magic THEN inodes' = d_inodes /\ journal' = d_journal
     ELSE UNCHANGED <<inodes, journal>>
  /\ jhead' = IF d_magic THEN jhead ELSE 0

(* The tables of a mounted disk - super block, inodes and journal - and    *)
(* the sectors of a block.                                                 *)
Sector(kind, n, head) == [to |-> kind, at |-> n, first |-> head]
Tables == <<Sector("magic", 0, FALSE), Sector("inodes", 0, FALSE), Sector("journal", 0, FALSE)>>
(* A slip: a block taken to begin one sector further on.                   *)
BlockWrites_next(first) ==
  [i \in 1 .. BlockSectors |-> Sector("data", first + i, i = 1)]
BlockWrites(first) ==
  [i \in 1 .. BlockSectors |-> Sector("data", first + i - 1, i = 1)]

(* A slip: the tables only with a dirty block.                             *)
navinefs_sync_if_dirty(dirty, first, isMounted, then) ==
  /\ todo' = IF dirty THEN BlockWrites(first) \o (IF isMounted THEN Tables ELSE <<>>)
             ELSE <<>>
  /\ pc' = "sync" /\ next' = then

(* The sectors navinefs_sync writes, in its order: the cached block if it  *)
(* is dirty and, on a mounted disk, the tables.                            *)
navinefs_sync(dirty, first, isMounted, then) ==
  /\ todo' = (IF dirty THEN BlockWrites(first) ELSE <<>>)
             \o (IF isMounted THEN Tables ELSE <<>>)
  /\ pc' = "sync" /\ next' = then

(* One sector reaches the disk.  A block is the name of its package in its *)
(* first sector and zeros in the others.                                   *)
WriteSector ==
  /\ pc = "sync" /\ todo # <<>>
  /\ LET sector == Head(todo) IN
     /\ d_magic'   = (d_magic \/ sector.to = "magic")
     /\ d_inodes'  = IF sector.to = "inodes" THEN inodes ELSE d_inodes
     /\ d_journal' = IF sector.to = "journal" THEN journal ELSE d_journal
     /\ d_data' = IF sector.to = "data"
                  THEN [d_data EXCEPT ![sector.at] =
                          IF sector.first THEN cache ELSE NoName]
                  ELSE d_data
  /\ todo' = Tail(todo)
  /\ UNCHANGED <<cli, mounted, table, cache, downloads, pc, next, starts>>

SyncDone ==
  /\ pc = "sync" /\ todo = <<>>
  /\ pc' = next
  /\ UNCHANGED <<cli, disk, mounted, table, cache, downloads, todo, next, starts>>

------------------------------------------------------------------------------
(* The start.                                                              *)

(* A slip: the tables of a mounted disk are not read.                      *)
kernel_services_init_no_read ==
  /\ pc = "services"
  /\ mounted' = d_magic /\ UNCHANGED table
  /\ pc' = "idle"
  /\ UNCHANGED <<cli, disk, cache, downloads, todo, next, starts>>

(* Of the command line edition, whose count of downloads starts from 0     *)
(* whatever the table holds.                                               *)
kernel_services_init ==
  /\ pc = "services" /\ Mount
  /\ pc' = "idle"
  /\ UNCHANGED <<cli, disk, cache, downloads, todo, next, starts>>

(* installer_try_finish: kernel_services_init mounts, then navinefs_format *)
(* empties the tables and synchronises - which writes them only if the     *)
(* mount before it found a file system.                                    *)
InstallerFinish ==
  /\ pc = "installer"
  /\ mounted' = d_magic
  /\ inodes' = NoInodes /\ journal' = NoJournal /\ jhead' = 0
  /\ navinefs_sync(FALSE, 0, d_magic, "formatted")
  /\ UNCHANGED <<cli, disk, cache, downloads, starts>>

Formatted ==
  /\ pc = "formatted"
  /\ mounted' = TRUE /\ pc' = "late"
  /\ UNCHANGED <<cli, disk, table, cache, downloads, todo, next, starts>>

(* The packages of the repository that are in the table.                   *)
Found(names) == {i \in 1 .. Len(Repo) : \E s \in Slots : names[s] = Repo[i]}

(* browser_restore_downloads counts them.                                  *)
Restore ==
  /\ dl_count' = Cardinality(IF mounted' THEN Found(inodes') ELSE {})
  /\ UNCHANGED asked

(* kernel_late_init: mounts again and restores the list of downloads.      *)
LateInit ==
  /\ pc = "late" /\ Mount
  /\ Restore
  /\ pc' = "idle"
  /\ UNCHANGED <<cli, disk, cache, todo, next, starts>>

------------------------------------------------------------------------------
(* Downloads.                                                              *)

(* download_start looks the name up by the number of the download, not by  *)
(* the package it found: past the end of the table comes repo_unknown.     *)
NameFor(n) == IF n < Len(Repo) THEN Repo[n + 1] ELSE Unknown

(* navinefs_journal_append: an entry of 16 bytes, the block written.       *)
journal_append(n) ==
  /\ journal' = [journal EXCEPT ![jhead] = n]
  /\ jhead' = (jhead + 1) % Entries

(* download_default asks for the first package.  navinefs_write puts the   *)
(* name into the block of that number and synchronises before the name has *)
(* an inode.                                                               *)
Download ==
  /\ pc = "idle" /\ mounted /\ dl_count <= Len(Repo)
  /\ asked' = Repo[1]
  /\ cache' = NameFor(dl_count)
  /\ journal_append(dl_count)
  /\ navinefs_sync(TRUE, dl_count, TRUE, "store")
  /\ UNCHANGED <<cli, disk, mounted, inodes, dl_count, starts>>

(* Without a file system the terminal reports it saved all the same.       *)
DownloadNowhere ==
  /\ pc = "idle" /\ ~mounted
  /\ asked' = Repo[1]
  /\ UNCHANGED <<cli, disk, mounted, table, cache, dl_count, flow, starts>>

(* One download more: what follows repo_unknown is text, and taken for the *)
(* address of a name it stops the machine in a fault.                      *)
DownloadFaults ==
  /\ pc = "idle" /\ mounted /\ dl_count > Len(Repo)
  /\ pc' = "fault"
  /\ UNCHANGED <<cli, disk, mounted, table, cache, downloads, todo, next, starts>>

(* navinefs_register takes the first free inode; whether there was one is  *)
(* not looked at.                                                          *)
Free == {s \in Slots : inodes[s] = NoName}
FirstFree == CHOOSE s \in Free : \A r \in Free : s <= r
(* A slip: the count stays behind.                                         *)
Register_no_count ==
  /\ pc = "store"
  /\ inodes' = IF Free = {} THEN inodes ELSE [inodes EXCEPT ![FirstFree] = cache]
  /\ pc' = "idle"
  /\ UNCHANGED <<cli, disk, mounted, journal, jhead, cache, downloads, todo, next, starts>>
Register ==
  /\ pc = "store"
  /\ inodes' = IF Free = {} THEN inodes ELSE [inodes EXCEPT ![FirstFree] = cache]
  /\ dl_count' = dl_count + 1
  /\ pc' = "idle"
  /\ UNCHANGED <<cli, disk, mounted, journal, jhead, cache, asked, todo, next, starts>>

------------------------------------------------------------------------------
Shutdown ==
  /\ cli /\ pc = "idle"
  /\ navinefs_sync(FALSE, 0, mounted, "halted")
  /\ UNCHANGED <<cli, disk, mounted, table, cache, downloads, starts>>

(* The power fails, or is switched off, and comes back.                    *)
PowerCut ==
  /\ starts < MaxStarts
  /\ mounted' = FALSE /\ inodes' = NoInodes /\ journal' = NoJournal /\ jhead' = 0
  /\ cache' = NoName
  /\ dl_count' = 0 /\ asked' = NoName
  /\ pc' = FirstStep /\ todo' = <<>> /\ next' = "idle"
  /\ starts' = starts + 1
  /\ UNCHANGED <<cli, disk>>

Next ==
  \/ WriteSector \/ SyncDone \/ kernel_services_init \/ InstallerFinish \/ Formatted
  \/ LateInit \/ Download \/ DownloadNowhere \/ DownloadFaults \/ Register \/ Shutdown \/ PowerCut

Spec == Init /\ [][Next]_vars

------------------------------------------------------------------------------
(* Properties.                                                             *)

Content == Names \union {NoName}
Steps == {"installer", "services", "sync", "formatted", "late", "idle", "store", "halted", "fault"}

(* Every variable has its type: blocks and journal entries stay in range.  *)
TypeOK ==
  /\ cli \in BOOLEAN /\ d_magic \in BOOLEAN /\ d_inodes \in [Slots -> Content]
  /\ d_journal \in [0 .. Entries - 1 -> -1 .. MaxDownloads]
  /\ d_data \in [DataSectors -> Content]
  /\ mounted \in BOOLEAN /\ inodes \in [Slots -> Content]
  /\ journal \in [0 .. Entries - 1 -> -1 .. MaxDownloads]
  /\ jhead \in 0 .. Entries - 1
  /\ cache \in Content /\ dl_count \in 0 .. MaxDownloads
  /\ asked \in Content
  /\ pc \in Steps /\ next \in Steps /\ starts \in Nat

(* Once the machine is up, it holds the disk for mounted exactly when the  *)
(* disk can be mounted: the flag navinefs_format sets by itself does not   *)
(* outlive the second mount.                                               *)
Up == pc \in {"idle", "store", "halted"} \/ (pc = "sync" /\ next # "formatted")
MountedIffMagic == Up => (mounted <=> d_magic)

(* Between two downloads the disk knows every name but the last: a power   *)
(* cut costs at most that one.                                             *)
Behind == {s \in Slots : inodes[s] # d_inodes[s]}
OneNameBehind ==
  pc = "idle" /\ mounted =>
    /\ \A s \in Behind : d_inodes[s] = NoName
    /\ \A s, r \in Behind : s = r

(* In the command line edition, which never formats, a name that reached   *)
(* the disk stays there through every later download, shutdown and start.  *)
NamesKept ==
  [][cli => \A s \in Slots : d_inodes[s] # NoName => d_inodes'[s] = d_inodes[s]]_vars

(* A machine that has been shut down has everything on its disk.           *)
ShutdownSaves ==
  pc = "halted" /\ mounted => d_inodes = inodes /\ d_journal = journal

(* The disk keeps up with memory: it lacks one name at most while the      *)
(* machine runs, and nothing once the machine has been shut down, although *)
(* the sync of a download comes before the name it stores.                 *)
DiskKeepsUp == OneNameBehind /\ ShutdownSaves

(* In the desktop the count of downloads, which chooses the next block,    *)
(* and the inode table, which chooses the next slot, agree whatever        *)
(* earlier runs left.                                                      *)
CountMatchesTable ==
  ~cli /\ pc = "idle" /\ mounted => {s \in Slots : inodes[s] # NoName} = 0 .. dl_count - 1

(* After any sequence of starts, formats, downloads and power cuts the     *)
(* variables that stand for the disk, the flag and the count, tell of it   *)
(* what is so.                                                             *)
FlagsTrue == MountedIffMagic /\ CountMatchesTable

(* In the desktop, whenever the power fails: a name on the disk has its    *)
(* block on the disk, although each block written runs over the first      *)
(* sectors of the ones that follow and although the names of earlier runs  *)
(* lie under new data.                                                     *)
NamedBlocksWritten ==
  ~cli /\ d_magic => \A s \in Slots : d_inodes[s] # NoName => d_data[s] = d_inodes[s]

(* What the terminal and docs/HYBRID_EDITION.md say of a download: it is   *)
(* saved, the package is written to the disk.                              *)
DownloadStored ==
  pc = "idle" /\ asked # NoName => \E n \in DataSectors : d_data[n] = asked
==============================================================================
