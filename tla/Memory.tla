------------------------------- MODULE Memory -------------------------------
(***************************************************************************)
(* The memory managers of the C kernel: the bitmap of physical pages       *)
(* (kernel/mm/pmm.c), the page tables (vmm.c) and mmap.c on top of both.   *)
(*                                                                         *)
(* pmm_init is its loop, one entry of the memory map per step; vmm_map is  *)
(* its walk, one ensure_table per step, so a walk that finds no page stops *)
(* half way with the tables it has made.  A page number stands for the     *)
(* address PAGE_SIZE * page; a table entry is a page number or Absent.     *)
(* The boot loader's 2 MiB pages are left out: Virts lie above the memory  *)
(* it maps.                                                                *)
(***************************************************************************)
EXTENDS Integers, FiniteSets, Sequences

CONSTANTS MaxPages,     \* PMM_MAX_PAGES
          PageSize,     \* PAGE_SIZE
          MemoryMap,    \* the E820 entries of the boot information
          KernelEnd,    \* kernel_end of the boot information, in bytes
          Index,        \* the indices of a table
          Virts,        \* virtual pages, as their four indices
          Regions,      \* runs of consecutive virtual pages
          DeviceFrames, \* frames outside the memory map, mapped for a device
          BootTables,   \* the tables that exist before the kernel runs
          BootRanks,    \* ... and their levels
          Roots,        \* the top level tables
          BootRoot,     \* the one in CR3 when the kernel starts
          Absent        \* an entry without the present bit; the null pointer

Pages == 0 .. MaxPages - 1
Frames == Pages \cup DeviceFrames
Reserved == { p \in Pages : p < (KernelEnd + PageSize - 1) \div PageSize }

PagesOf(e) ==
    { p \in Pages : /\ (e.base + PageSize - 1) \div PageSize <= p
                    /\ p < (e.base + e.length) \div PageSize }

MapIndices == 1 .. Len(MemoryMap)
Usable(i) == IF MemoryMap[i].usable THEN PagesOf(MemoryMap[i]) ELSE {}

ASSUME MemorySize ==
    /\ MaxPages \in Nat \ {0}
    /\ PageSize \in Nat \ {0}
    /\ KernelEnd \in Nat
    /\ MemoryMap \in Seq([base : Nat, length : Nat, usable : BOOLEAN])
    /\ DeviceFrames \cap Pages = {}
    /\ Absent \notin Frames

\* The firmware's entries do not overlap: pmm_init counts a page once for
\* every usable entry it lies in.
ASSUME EntriesApart ==
    \A i, j \in MapIndices : i # j => Usable(i) \cap Usable(j) = {}

\* The boot loader's tables lie below the kernel's end and form a tree: a
\* table has one parent at most, and a root none.
ASSUME BootTree ==
    /\ Virts \subseteq [1 .. 4 -> Index]
    /\ Regions \subseteq Seq(Virts)
    /\ DOMAIN BootTables \subseteq Reserved
    /\ BootTables \in [DOMAIN BootTables -> [Index -> Frames \cup {Absent}]]
    /\ BootRanks \in [DOMAIN BootTables -> 1 .. 4]
    /\ BootRoot \in Roots
    /\ Roots = { t \in DOMAIN BootTables : BootRanks[t] = 1 }
    /\ \A t \in DOMAIN BootTables, i \in Index :
          BootTables[t][i] # Absent =>
             /\ BootRanks[t] < 4
             /\ BootTables[t][i] \in DOMAIN BootTables
             /\ BootRanks[BootTables[t][i]] = BootRanks[t] + 1
             /\ \A u \in DOMAIN BootTables, j \in Index :
                   BootTables[u][j] = BootTables[t][i] => <<u, j>> = <<t, i>>

VARIABLES pmm_bitmap,     \* the pages whose bit is set
          pmm_free_pages,
          mapIndex,       \* the loop of pmm_init: 0 before, Len + 2 after
          given,          \* (history) the pages callers hold
          tables,         \* the page tables in memory: page -> index -> entry
          rank,           \* (history) the level a table was made for
          active_pml4,
          pending,        \* the changes of translations a call still has to make
          at, level       \* vmm_map's walk: its table, and the table's level

pmmVars == <<pmm_bitmap, pmm_free_pages, mapIndex, given>>
vmmVars == <<tables, rank, active_pml4, pending, at, level>>
memVars == <<pmm_bitmap, pmm_free_pages, mapIndex, given,
             tables, rank, active_pml4, pending, at, level>>

MemoryInit ==
    /\ pmm_bitmap = {} /\ pmm_free_pages = 0 /\ mapIndex = 0 /\ given = {}
    /\ tables = BootTables /\ rank = BootRanks
    /\ active_pml4 = Absent /\ pending = <<>> /\ at = Absent /\ level = 0

MemoryUp == mapIndex = Len(MemoryMap) + 2

-----------------------------------------------------------------------------
(* pmm.c *)

\* Every page starts out as taken.
PmmFill ==
    /\ mapIndex = 0
    /\ mapIndex' = 1
    /\ pmm_bitmap' = Pages
    /\ pmm_free_pages' = 0
    /\ UNCHANGED <<given, vmmVars>>

\* The pages that lie wholly in a usable entry become free; each is counted.
PmmEntry ==
    /\ mapIndex \in MapIndices
    /\ mapIndex' = mapIndex + 1
    /\ pmm_bitmap' = pmm_bitmap \ Usable(mapIndex)
    /\ pmm_free_pages' = pmm_free_pages + Cardinality(Usable(mapIndex))
    /\ UNCHANGED <<given, vmmVars>>

\* Slip: pages that are already taken are counted off again.
PmmReserve_counts_all ==
    /\ mapIndex = Len(MemoryMap) + 1
    /\ mapIndex' = mapIndex + 1
    /\ pmm_bitmap' = pmm_bitmap \cup Reserved
    /\ pmm_free_pages' = pmm_free_pages - Cardinality(Reserved)
    /\ UNCHANGED <<given, vmmVars>>

\* What the kernel and everything below it occupies is taken back.
PmmReserve ==
    /\ mapIndex = Len(MemoryMap) + 1
    /\ mapIndex' = mapIndex + 1
    /\ pmm_bitmap' = pmm_bitmap \cup Reserved
    /\ pmm_free_pages' = pmm_free_pages - Cardinality(Reserved \ pmm_bitmap)
    /\ UNCHANGED <<given, vmmVars>>

\* pmm_alloc never gives page 0: its address is the null pointer.
Allocatable == { p \in 1 .. MaxPages - 1 : p \notin pmm_bitmap }

FirstFree(p) == p \in Allocatable /\ \A q \in Allocatable : p <= q

TakePage(p) ==
    /\ pmm_bitmap' = pmm_bitmap \cup {p}
    /\ pmm_free_pages' = pmm_free_pages - 1

PmmAlloc ==
    /\ \/ \E p \in Allocatable :
             /\ FirstFree(p)
             /\ TakePage(p)
             /\ given' = given \cup {p}
       \/ Allocatable = {} /\ UNCHANGED <<pmm_bitmap, pmm_free_pages, given>>
    /\ UNCHANGED <<mapIndex, vmmVars>>

Run(start, pages) == start .. start + pages - 1

\* The starts of the runs of free pages, the upper end included.
Starts(pages) ==
    { s \in 1 .. MaxPages - pages : Run(s, pages) \cap pmm_bitmap = {} }

PmmAllocN(pages) ==
    /\ \/ \E s \in Starts(pages) :
             /\ pages \in 1 .. MaxPages
             /\ \A r \in Starts(pages) : s <= r
             /\ pmm_bitmap' = pmm_bitmap \cup Run(s, pages)
             /\ pmm_free_pages' = pmm_free_pages - pages
             /\ given' = given \cup Run(s, pages)
       \/ /\ pages \notin 1 .. MaxPages \/ Starts(pages) = {}
          /\ UNCHANGED <<pmm_bitmap, pmm_free_pages, given>>
    /\ UNCHANGED <<mapIndex, vmmVars>>

\* mmap_anonymous finds the frames and maps nothing.
MmapAnonymous(pages) == PmmAllocN(pages)

\* Only a page whose bit is set becomes free.  pmm_free is a run of one.
PmmFreeN(start, pages) ==
    LET freed == Run(start, pages) \cap Pages \cap pmm_bitmap
    IN  /\ pmm_bitmap' = pmm_bitmap \ freed
        /\ pmm_free_pages' = pmm_free_pages + Cardinality(freed)
        /\ given' = given \ freed
        /\ UNCHANGED <<mapIndex, vmmVars>>

-----------------------------------------------------------------------------
(* vmm.c and mmap.c *)

\* CR3 holds the boot loader's table.
VmmInit ==
    /\ active_pml4' = BootRoot
    /\ UNCHANGED <<pmmVars, tables, rank, pending, at, level>>

VmmSwitch(root) ==
    /\ active_pml4' = root
    /\ UNCHANGED <<pmmVars, tables, rank, pending, at, level>>

\* vmm_map begins its walk at the given table.
VmmMap(root, virt, frame) ==
    /\ pending = <<>>
    /\ pending' = << [root |-> root, virt |-> virt, frame |-> frame] >>
    /\ at' = root
    /\ level' = 1
    /\ UNCHANGED <<pmmVars, tables, rank, active_pml4>>

Walking == level # 0

Entry == Head(pending).virt[level]

\* The table the entry names, when it is present.
EnsureFound ==
    /\ level \in 1 .. 3
    /\ tables[at][Entry] # Absent
    /\ at' = tables[at][Entry]
    /\ level' = level + 1
    /\ UNCHANGED <<pmmVars, tables, rank, active_pml4, pending>>

\* Slip: the new table is not cleared and holds what the page held.
NewTable_uncleared(p) ==
    /\ tables' = [t \in DOMAIN tables \cup {p} |->
                     IF t = p THEN [i \in Index |-> p]
                     ELSE IF t = at THEN [tables[t] EXCEPT ![Entry] = p]
                     ELSE tables[t]]
    /\ rank' = [t \in DOMAIN rank \cup {p} |->
                   IF t = p THEN level + 1 ELSE rank[t]]

\* Otherwise a page is taken for a new table, which is cleared.
NewTable(p) ==
    /\ tables' = [t \in DOMAIN tables \cup {p} |->
                     IF t = p THEN [i \in Index |-> Absent]
                     ELSE IF t = at THEN [tables[t] EXCEPT ![Entry] = p]
                     ELSE tables[t]]
    /\ rank' = [t \in DOMAIN rank \cup {p} |->
                   IF t = p THEN level + 1 ELSE rank[t]]

EnsureNew ==
    /\ level \in 1 .. 3
    /\ tables[at][Entry] = Absent
    /\ \E p \in Allocatable :
          /\ FirstFree(p)
          /\ TakePage(p)
          /\ NewTable(p)
          /\ at' = p
    /\ level' = level + 1
    /\ UNCHANGED <<mapIndex, given, active_pml4, pending>>

\* No page for a table: the mapping is dropped, and the caller not told.
EnsureFails ==
    /\ level \in 1 .. 3
    /\ tables[at][Entry] = Absent
    /\ Allocatable = {}
    /\ pending' = Tail(pending)
    /\ at' = Absent /\ level' = 0
    /\ UNCHANGED <<pmmVars, tables, rank, active_pml4>>

\* The last table is there: the entry is written, whatever it held.
MapLeaf ==
    /\ level = 4
    /\ tables' = [tables EXCEPT ![at][Entry] = Head(pending).frame]
    /\ pending' = Tail(pending)
    /\ at' = Absent /\ level' = 0
    /\ UNCHANGED <<pmmVars, rank, active_pml4>>

\* vmm_unmap and munmap_region ask for translations to be taken away.
AskUnmap(root, virts) ==
    /\ pending = <<>>
    /\ pending' = [i \in 1 .. Len(virts) |->
                      [root |-> root, virt |-> virts[i], frame |-> Absent]]
    /\ UNCHANGED <<pmmVars, tables, rank, active_pml4, at, level>>

VmmUnmap(root, virt) == AskUnmap(root, <<virt>>)

MunmapRegion(virts) == AskUnmap(active_pml4, virts)

Below(t, i) == IF t = Absent THEN Absent ELSE tables[t][i]

LastTable(root, virt) == Below(Below(Below(root, virt[1]), virt[2]), virt[3])

\* Clears the last entry of the walk; a missing table on the way ends it.
\* Tables and frames stay allocated.
Unmap ==
    /\ ~Walking
    /\ pending # <<>>
    /\ LET e == Head(pending)
           pt == LastTable(e.root, e.virt)
       IN  tables' = IF pt = Absent THEN tables
                     ELSE [tables EXCEPT ![pt][e.virt[4]] = Absent]
    /\ pending' = Tail(pending)
    /\ UNCHANGED <<pmmVars, rank, active_pml4, at, level>>

-----------------------------------------------------------------------------
PmmInitStep == PmmFill \/ PmmEntry \/ PmmReserve

MemoryStep == EnsureFound \/ EnsureNew \/ EnsureFails \/ MapLeaf \/ Unmap

MemoryIdle == pending = <<>>

\* A caller frees what it was given, or a part of it.
MemoryCall ==
    \/ PmmAlloc
    \/ \E n \in 0 .. MaxPages + 1 : PmmAllocN(n) \/ MmapAnonymous(n)
    \/ \E s \in given, n \in 0 .. MaxPages :
          Run(s, n) \subseteq given /\ PmmFreeN(s, n)
    \/ \E r \in Roots : VmmSwitch(r)
    \/ \E r \in Roots, v \in Virts :
          \/ \E f \in given \cup DeviceFrames : VmmMap(r, v, f)
          \/ VmmUnmap(r, v)
    \/ \E region \in Regions : MunmapRegion(region)

-----------------------------------------------------------------------------
\* What a virtual page translates to.
mapped ==
    [rv \in Roots \X Virts |->
        Below(LastTable(rv[1], rv[2]), rv[2][4])]

AS == INSTANCE AddressSpace

\* The kernel's pages, and those the firmware does not give.
Held == Reserved \cup (Pages \ UNION { Usable(i) : i \in MapIndices })

(***************************************************************************)
(* The counter of free pages is the number of clear bits, from the first   *)
(* step of pmm_init on, and every page whose bit is set has one owner: it  *)
(* is the kernel's, a caller's, a page table, or memory the firmware does  *)
(* not give.  pmm.c keeps the counter by hand in seven places.             *)
(***************************************************************************)
FramesAccounted ==
    /\ mapIndex > 0 => pmm_free_pages = Cardinality(Pages \ pmm_bitmap)
    /\ MemoryUp =>
          /\ pmm_bitmap = Held \cup given \cup DOMAIN tables
          /\ given \cap (Held \cup DOMAIN tables) = {}
          /\ Held \cap DOMAIN tables = DOMAIN BootTables

(***************************************************************************)
(* Seen through the walk, the page tables are the abstract address spaces: *)
(* making a table, running out of pages half way and writing an entry of a *)
(* shared table change only the translation that was asked for.            *)
(***************************************************************************)
ImplementsAddressSpace == AS!Spec
=============================================================================
