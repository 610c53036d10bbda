---------------------------- MODULE MemoryProofs ----------------------------
(***************************************************************************)
(* Proofs about the memory managers of the C kernel, for every memory map, *)
(* every number of pages and any number of calls: the counter of pmm.c is  *)
(* the number of free pages and every other page has one owner, what vmm.c *)
(* writes into its tables are the abstract address spaces, a step changes  *)
(* one translation at most, and no last table serves two address spaces.   *)
(***************************************************************************)
EXTENDS Scaffold, FiniteSetTheorems, SequenceTheorems, TLAPS

-----------------------------------------------------------------------------
(* What a step of the kernel means for the memory managers. *)

\* The stages of the boot after pmm_init, and those after vmm_init.
AfterPmm == {"vmm", "heap", "scheduler", "idle"}
AfterVmm == {"heap", "scheduler", "idle"}

\* The steps of the other parts.
Elsewhere ==
    /\ UNCHANGED memVars
    /\ boot' \in AfterPmm => boot \in AfterPmm
    /\ boot' \in AfterVmm => boot \in AfterVmm

LEMMA MemorySteps ==
  ASSUME [Next]_vars
  PROVE  \/ BootPmm
         \/ BootVmm
         \/ MemoryStep /\ boot' = boot
         \/ CallMemory
         \/ Elsewhere
<1>1. CASE UNCHANGED vars
  BY <1>1 DEF vars, memVars, kernelVars, Elsewhere
<1>2. CASE Boot
  <2>1. CASE BootConsole
    BY <2>1 DEF BootConsole, Boots, OthersThanConsole, Elsewhere, AfterPmm, AfterVmm
  <2>2. CASE BootCheck
    BY <2>2 DEF BootCheck, Boots, OthersThanConsole, Elsewhere, AfterPmm, AfterVmm
  <2>3. CASE BootPanic
    BY <2>3 DEF BootPanic, Boots, OthersThanConsole, Elsewhere, AfterPmm, AfterVmm
  <2>4. CASE BootGdt
    BY <2>4 DEF BootGdt, Boots, OthersThanInterrupts, Elsewhere, AfterPmm, AfterVmm
  <2>5. CASE BootIdt
    BY <2>5 DEF BootIdt, Boots, OthersThanInterrupts, Elsewhere, AfterPmm, AfterVmm
  <2>6. CASE BootHeap
    BY <2>6 DEF BootHeap, Boots, OthersThanHeap, Elsewhere, AfterPmm, AfterVmm
  <2>7. CASE BootScheduler
    BY <2>7 DEF BootScheduler, Boots, OthersThanTasks, Elsewhere, AfterPmm, AfterVmm
  <2> QED  BY <1>2, <2>1, <2>2, <2>3, <2>4, <2>5, <2>6, <2>7 DEF Boot
<1>3. CASE Step
  BY <1>3 DEF Step, Goes, kernelVars, OthersThanVfs, OthersThanConsole,
              OthersThanInterrupts, Elsewhere
<1>4. CASE Call
  BY <1>4 DEF Call, CallHeap, CallVfs, CallTasks, CallInterrupts, CallPrint,
              CallPanic, Calls, OthersThanHeap, OthersThanVfs, OthersThanTasks,
              OthersThanInterrupts, OthersThanConsole, Elsewhere, AfterPmm, AfterVmm
<1>5. CASE Interrupt \/ Handler
  BY <1>5 DEF Interrupt, Handler, Goes, kernelVars, OthersThanInterrupts, Elsewhere,
              AfterPmm, AfterVmm
<1> QED  BY <1>1, <1>2, <1>3, <1>4, <1>5 DEF Next

-----------------------------------------------------------------------------
(* Counting pages. *)

\* Taking free pages, and giving taken ones back.
LEMMA CountTaken ==
  ASSUME NEW B \in SUBSET Pages, NEW S \in SUBSET (Pages \ B)
  PROVE  /\ Cardinality(Pages \ (B \cup S)) = Cardinality(Pages \ B) - Cardinality(S)
         /\ Cardinality(Pages \ B) \in Nat /\ Cardinality(S) \in Nat
<1>1. IsFiniteSet(Pages)  BY FS_Interval, MemorySize DEF Pages
<1>2. IsFiniteSet(Pages \ B) /\ IsFiniteSet(S)  BY <1>1, FS_Subset
<1>3. (Pages \ B) \ S = Pages \ (B \cup S) /\ (Pages \ B) \cap S = S  OBVIOUS
<1>4. Cardinality((Pages \ B) \ S) = Cardinality(Pages \ B) - Cardinality((Pages \ B) \cap S)
  BY <1>2, FS_Difference
<1> QED  BY <1>2, <1>3, <1>4, FS_CardinalityType

LEMMA CountGiven ==
  ASSUME NEW B \in SUBSET Pages, NEW S \in SUBSET B
  PROVE  /\ Cardinality(Pages \ (B \ S)) = Cardinality(Pages \ B) + Cardinality(S)
         /\ Cardinality(Pages \ B) \in Nat /\ Cardinality(S) \in Nat
<1>1. /\ B \ S \in SUBSET Pages /\ S \in SUBSET (Pages \ (B \ S))
      /\ (B \ S) \cup S = B
  OBVIOUS
<1>2. PICK C : C = B \ S  OBVIOUS
<1>3. /\ Cardinality(Pages \ (C \cup S)) = Cardinality(Pages \ C) - Cardinality(S)
      /\ Cardinality(Pages \ C) \in Nat /\ Cardinality(S) \in Nat
  BY <1>1, <1>2, CountTaken
<1>4. Cardinality(Pages \ B) \in Nat
  <2>1. {} \in SUBSET (Pages \ B)  OBVIOUS
  <2> QED  BY <2>1, CountTaken
<1>5. Cardinality(Pages \ (C \cup S)) = Cardinality(Pages \ B)
  <2>1. C \cup S = B  BY <1>1, <1>2
  <2> QED  BY <2>1
<1>6. Cardinality(Pages \ (B \ S)) = Cardinality(Pages \ C)  BY <1>2
<1> QED  BY <1>3, <1>4, <1>5, <1>6

-----------------------------------------------------------------------------
(* The frames. *)

LEMMA IntervalGrows ==
  ASSUME NEW m \in Nat, m > 0
  PROVE  1 .. m = (1 .. m - 1) \cup {m}
OBVIOUS

\* The usable entries the loop of pmm_init has seen.
Seen == UNION { Usable(i) : i \in 1 .. mapIndex - 1 }

Owned ==
    /\ pmm_bitmap = Held \cup given \cup DOMAIN tables
    /\ given \cap (Held \cup DOMAIN tables) = {}
    /\ Held \cap DOMAIN tables = DOMAIN BootTables

FrameInv ==
    /\ pmm_bitmap \subseteq Pages
    /\ mapIndex \in 0 .. Len(MemoryMap) + 2
    /\ mapIndex > 0 => pmm_free_pages = Cardinality(Pages \ pmm_bitmap)
    /\ mapIndex \in 1 .. Len(MemoryMap) + 1 => pmm_bitmap = Pages \ Seen
    /\ ~MemoryUp => /\ given = {} /\ tables = BootTables
                    /\ pending = <<>> /\ level = 0
    /\ MemoryUp => Owned
    /\ boot \in AfterPmm => MemoryUp

LEMMA MapFacts ==
  /\ Len(MemoryMap) \in Nat
  /\ Reserved \subseteq Pages
  /\ \A i \in MapIndices : Usable(i) \subseteq Pages
  /\ DOMAIN BootTables \subseteq Reserved
BY MemorySize, BootTree, LenProperties DEF Reserved, Usable, PagesOf

LEMMA FramesStart ==
  ASSUME Init
  PROVE  FrameInv
BY MapFacts DEF Init, MemoryInit, FrameInv, MemoryUp, AfterPmm

LEMMA BootKeepsFrames ==
  ASSUME FrameInv, BootPmm
  PROVE  FrameInv'
<1> DEFINE last == Len(MemoryMap) + 2
<1>1. /\ Len(MemoryMap) \in Nat /\ mapIndex \in Nat /\ mapIndex \in 0 .. last
  BY MapFacts DEF FrameInv
<1>2. boot' = IF mapIndex' = last THEN "vmm" ELSE "pmm"
  BY DEF BootPmm, Boots
<1>3. /\ pmm_bitmap \subseteq Pages
      /\ mapIndex > 0 => pmm_free_pages = Cardinality(Pages \ pmm_bitmap)
      /\ mapIndex \in 1 .. Len(MemoryMap) + 1 => pmm_bitmap = Pages \ Seen
      /\ mapIndex # last => /\ given = {} /\ tables = BootTables
                            /\ pending = <<>> /\ level = 0
  BY DEF FrameInv, MemoryUp
<1>4. CASE PmmFill
  <2>1. /\ mapIndex = 0 /\ mapIndex' = 1 /\ pmm_bitmap' = Pages
        /\ pmm_free_pages' = 0
        /\ given' = given /\ tables' = tables /\ pending' = pending /\ level' = level
    BY <1>4 DEF PmmFill, vmmVars
  <2>2. pmm_free_pages' = Cardinality(Pages \ pmm_bitmap')
    <3>1. Pages \ pmm_bitmap' = {}  BY <2>1
    <3> QED  BY <2>1, <3>1, FS_EmptySet
  <2>3. pmm_bitmap' = Pages \ Seen'
    <3>1. 1 .. mapIndex' - 1 = {}  BY <2>1
    <3>2. Seen' = {}  BY <3>1 DEF Seen
    <3> QED  BY <2>1, <3>2
  <2>4. mapIndex' # last /\ mapIndex' \in 0 .. last  BY <1>1, <2>1
  <2> QED  BY <1>1, <1>2, <1>3, <2>1, <2>2, <2>3, <2>4 DEF FrameInv, MemoryUp, AfterPmm
<1>5. CASE PmmEntry
  <2>1. /\ mapIndex \in MapIndices /\ mapIndex' = mapIndex + 1
        /\ pmm_bitmap' = pmm_bitmap \ Usable(mapIndex)
        /\ pmm_free_pages' = pmm_free_pages + Cardinality(Usable(mapIndex))
        /\ given' = given /\ tables' = tables /\ pending' = pending /\ level' = level
    BY <1>5 DEF PmmEntry, vmmVars
  <2>2. /\ mapIndex \in 1 .. Len(MemoryMap) /\ mapIndex' # last
        /\ mapIndex' \in 1 .. Len(MemoryMap) + 1
        /\ mapIndex \in 1 .. Len(MemoryMap) + 1
        /\ mapIndex' - 1 = mapIndex
        /\ mapIndex > 0 /\ mapIndex # last
    BY <1>1, <2>1 DEF MapIndices
  <2>3. pmm_bitmap = Pages \ Seen  BY <1>3, <2>2
  <2>4. Usable(mapIndex) \subseteq pmm_bitmap
    <3>1. ASSUME NEW i \in 1 .. mapIndex - 1
          PROVE  Usable(mapIndex) \cap Usable(i) = {}
      <4>1. i \in MapIndices /\ i # mapIndex  BY <1>1, <2>2 DEF MapIndices
      <4> QED  BY <2>1, <4>1, EntriesApart
    <3>2. Usable(mapIndex) \cap Seen = {}  BY <3>1 DEF Seen
    <3> QED  BY <2>1, <2>3, <3>2, MapFacts
  <2>5. pmm_free_pages' = Cardinality(Pages \ pmm_bitmap')
    BY <1>3, <2>1, <2>2, <2>4, CountGiven
  <2>6. Seen' = Seen \cup Usable(mapIndex)
    <3>1. 1 .. mapIndex' - 1 = (1 .. mapIndex - 1) \cup {mapIndex}
      BY <1>1, <2>2, IntervalGrows
    <3> QED  BY <3>1 DEF Seen
  <2>7. pmm_bitmap' = Pages \ Seen'  BY <2>1, <2>3, <2>6
  <2>8. mapIndex' \in 0 .. last  BY <1>1, <2>2
  <2> QED  BY <1>2, <1>3, <2>1, <2>2, <2>5, <2>7, <2>8 DEF FrameInv, MemoryUp, AfterPmm
<1>6. CASE PmmReserve
  <2>1. /\ mapIndex = Len(MemoryMap) + 1 /\ mapIndex' = mapIndex + 1
        /\ pmm_bitmap' = pmm_bitmap \cup Reserved
        /\ pmm_free_pages' = pmm_free_pages - Cardinality(Reserved \ pmm_bitmap)
        /\ given' = given /\ tables' = tables
    BY <1>6 DEF PmmReserve, vmmVars
  <2>2. /\ mapIndex' = last /\ mapIndex > 0 /\ mapIndex # last
        /\ mapIndex \in 1 .. Len(MemoryMap) + 1
        /\ 1 .. mapIndex - 1 = MapIndices
        /\ mapIndex' \in 0 .. last /\ mapIndex' \notin 1 .. Len(MemoryMap) + 1
    BY <1>1, <2>1 DEF MapIndices
  <2>3. pmm_free_pages' = Cardinality(Pages \ pmm_bitmap')
    <3>1. PICK S : S = Reserved \ pmm_bitmap  OBVIOUS
    <3>2. S \in SUBSET (Pages \ pmm_bitmap) /\ pmm_bitmap' = pmm_bitmap \cup S
      BY <2>1, <3>1, MapFacts
    <3> QED  BY <1>3, <2>1, <2>2, <3>1, <3>2, CountTaken
  <2>4. pmm_bitmap' = Held
    <3>1. pmm_bitmap = Pages \ UNION { Usable(i) : i \in MapIndices }
      BY <1>3, <2>2 DEF Seen
    <3> QED  BY <2>1, <3>1 DEF Held
  <2>5. given' = {} /\ tables' = BootTables  BY <1>3, <2>1, <2>2
  <2>6. Owned'
    BY <2>4, <2>5, MapFacts DEF Owned, Held
  <2>7. pmm_bitmap' \subseteq Pages  BY <1>3, <2>1, MapFacts
  <2> QED  BY <2>2, <2>3, <2>6, <2>7 DEF FrameInv, MemoryUp
<1> QED  BY <1>4, <1>5, <1>6 DEF BootPmm, PmmInitStep

\* A step that leaves the frames alone.
LEMMA FramesAlone ==
  ASSUME FrameInv, UNCHANGED pmmVars, DOMAIN tables' = DOMAIN tables,
         MemoryUp, boot' \in AfterPmm => boot \in AfterPmm
  PROVE  FrameInv'
<1>1. /\ pmm_bitmap' = pmm_bitmap /\ pmm_free_pages' = pmm_free_pages
      /\ mapIndex' = mapIndex /\ given' = given
  BY DEF pmmVars
<1>2. Owned'  BY <1>1 DEF FrameInv, Owned
<1>3. MemoryUp'  BY <1>1 DEF MemoryUp
<1>4. Seen' = Seen  BY <1>1 DEF Seen
<1> QED  BY <1>1, <1>2, <1>3, <1>4 DEF FrameInv

\* Free pages go to a caller or become a table.
LEMMA FramesTaken ==
  ASSUME FrameInv, MemoryUp, NEW S \in SUBSET (Pages \ pmm_bitmap),
         pmm_bitmap' = pmm_bitmap \cup S,
         pmm_free_pages' = pmm_free_pages - Cardinality(S),
         mapIndex' = mapIndex, boot' = boot,
         \/ given' = given \cup S /\ DOMAIN tables' = DOMAIN tables
         \/ given' = given /\ DOMAIN tables' = DOMAIN tables \cup S
  PROVE  FrameInv'
<1>1. /\ pmm_bitmap \in SUBSET Pages
      /\ mapIndex = Len(MemoryMap) + 2 /\ Len(MemoryMap) \in Nat
      /\ mapIndex > 0 /\ mapIndex \notin 1 .. Len(MemoryMap) + 1
      /\ pmm_free_pages = Cardinality(Pages \ pmm_bitmap)
  BY MapFacts DEF FrameInv, MemoryUp
<1>2. pmm_free_pages' = Cardinality(Pages \ pmm_bitmap')
  BY <1>1, CountTaken
<1>3. Owned'
  BY DEF FrameInv, Owned
<1>4. MemoryUp'  BY <1>1 DEF MemoryUp
<1> QED  BY <1>1, <1>2, <1>3, <1>4 DEF FrameInv

LEMMA OnePage ==
  ASSUME NEW p, FirstFree(p), TakePage(p)
  PROVE  /\ p \in Pages \ pmm_bitmap
         /\ pmm_bitmap' = pmm_bitmap \cup {p}
         /\ pmm_free_pages' = pmm_free_pages - Cardinality({p})
<1>1. p \in 1 .. MaxPages - 1 /\ p \notin pmm_bitmap
  BY DEF FirstFree, Allocatable
<1>2. p \in Pages  BY <1>1, MemorySize DEF Pages
<1>3. Cardinality({p}) = 1  BY FS_Singleton
<1> QED  BY <1>1, <1>2, <1>3 DEF TakePage

LEMMA TableKeepsFrames ==
  ASSUME FrameInv, MemoryStep, boot' = boot
  PROVE  FrameInv'
<1>1. MemoryUp
  BY DEF FrameInv, MemoryStep, EnsureFound, EnsureNew, EnsureFails, MapLeaf, Unmap
<1>2. CASE EnsureFound
  BY <1>1, <1>2, FramesAlone DEF EnsureFound
<1>3. CASE EnsureNew
  <2>1. PICK p : FirstFree(p) /\ TakePage(p) /\ NewTable(p)
    BY <1>3 DEF EnsureNew
  <2>2. DOMAIN tables' = DOMAIN tables \cup {p}  BY <2>1 DEF NewTable
  <2>3. given' = given /\ mapIndex' = mapIndex  BY <1>3 DEF EnsureNew
  <2>4. PICK S : S = {p}  OBVIOUS
  <2>5. /\ S \in SUBSET (Pages \ pmm_bitmap) /\ pmm_bitmap' = pmm_bitmap \cup S
        /\ pmm_free_pages' = pmm_free_pages - Cardinality(S)
        /\ DOMAIN tables' = DOMAIN tables \cup S
    BY <2>1, <2>2, <2>4, OnePage
  <2> QED  BY <1>1, <2>3, <2>5, FramesTaken
<1>4. CASE EnsureFails
  BY <1>1, <1>4, FramesAlone DEF EnsureFails
<1>5. CASE MapLeaf
  <2>1. UNCHANGED pmmVars /\ DOMAIN tables' = DOMAIN tables  BY <1>5 DEF MapLeaf
  <2> QED  BY <1>1, <2>1, FramesAlone
<1>6. CASE Unmap
  <2>1. UNCHANGED pmmVars /\ DOMAIN tables' = DOMAIN tables  BY <1>6 DEF Unmap
  <2> QED  BY <1>1, <2>1, FramesAlone
<1> QED  BY <1>2, <1>3, <1>4, <1>5, <1>6 DEF MemoryStep

LEMMA RunIsCounted ==
  ASSUME NEW s \in 1 .. MaxPages, NEW n \in 1 .. MaxPages, s <= MaxPages - n
  PROVE  Run(s, n) \subseteq Pages /\ Cardinality(Run(s, n)) = n
<1>1. s \in Int /\ n \in Int /\ s + n - 1 \in Int /\ ~(s > s + n - 1)
  BY MemorySize
<1>2. Cardinality(Run(s, n)) = (s + n - 1) - s + 1  BY <1>1, FS_Interval DEF Run
<1> QED  BY <1>1, <1>2, MemorySize DEF Run, Pages

LEMMA AllocNKeepsFrames ==
  ASSUME FrameInv, MemoryUp, boot' = boot, NEW n \in 0 .. MaxPages + 1, PmmAllocN(n)
  PROVE  FrameInv'
<1>1. mapIndex' = mapIndex /\ tables' = tables  BY DEF PmmAllocN, vmmVars
<1>2. CASE UNCHANGED <<pmm_bitmap, pmm_free_pages, given>>
  <2>1. UNCHANGED pmmVars  BY <1>1, <1>2 DEF pmmVars
  <2> QED  BY <1>1, <2>1, FramesAlone
<1>3. CASE \E s \in Starts(n) :
             /\ n \in 1 .. MaxPages
             /\ pmm_bitmap' = pmm_bitmap \cup Run(s, n)
             /\ pmm_free_pages' = pmm_free_pages - n
             /\ given' = given \cup Run(s, n)
  <2>1. PICK s \in Starts(n) :
             /\ n \in 1 .. MaxPages
             /\ pmm_bitmap' = pmm_bitmap \cup Run(s, n)
             /\ pmm_free_pages' = pmm_free_pages - n
             /\ given' = given \cup Run(s, n)
    BY <1>3
  <2>2. s \in 1 .. MaxPages - n /\ Run(s, n) \cap pmm_bitmap = {}  BY DEF Starts
  <2>3. s \in 1 .. MaxPages /\ s <= MaxPages - n  BY <2>1, <2>2, MemorySize
  <2>4. Run(s, n) \in SUBSET (Pages \ pmm_bitmap) /\ Cardinality(Run(s, n)) = n
    BY <2>1, <2>2, <2>3, RunIsCounted
  <2>5. PICK S : S = Run(s, n)  OBVIOUS
  <2> QED  BY <1>1, <2>1, <2>4, <2>5, FramesTaken
<1> QED  BY <1>2, <1>3 DEF PmmAllocN

LEMMA CallKeepsFrames ==
  ASSUME FrameInv, CallMemory
  PROVE  FrameInv'
<1>1. boot = "idle" /\ boot' = boot /\ MemoryCall  BY DEF CallMemory, Calls
<1>2. MemoryUp  BY <1>1 DEF FrameInv, AfterPmm
<1>3. CASE PmmAlloc
  <2>1. mapIndex' = mapIndex /\ tables' = tables  BY <1>3 DEF PmmAlloc, vmmVars
  <2>2. CASE UNCHANGED <<pmm_bitmap, pmm_free_pages, given>>
    <3>1. UNCHANGED pmmVars  BY <2>1, <2>2 DEF pmmVars
    <3> QED  BY <1>1, <1>2, <2>1, <3>1, FramesAlone
  <2>3. CASE \E p : FirstFree(p) /\ TakePage(p) /\ given' = given \cup {p}
    <3>1. PICK p : FirstFree(p) /\ TakePage(p) /\ given' = given \cup {p}  BY <2>3
    <3>2. PICK S : S = {p}  OBVIOUS
    <3> QED  BY <1>1, <1>2, <2>1, <3>1, <3>2, OnePage, FramesTaken
  <2> QED  BY <1>3, <2>2, <2>3 DEF PmmAlloc
<1>4. ASSUME NEW n \in 0 .. MaxPages + 1, PmmAllocN(n) \/ MmapAnonymous(n)
      PROVE  FrameInv'
  BY <1>1, <1>2, <1>4, AllocNKeepsFrames DEF MmapAnonymous
<1>5. ASSUME NEW s \in given, NEW n \in 0 .. MaxPages,
             Run(s, n) \subseteq given, PmmFreeN(s, n)
      PROVE  FrameInv'
  <2>1. PICK S : S = Run(s, n) \cap Pages \cap pmm_bitmap  OBVIOUS
  <2>2. /\ pmm_bitmap' = pmm_bitmap \ S
        /\ pmm_free_pages' = pmm_free_pages + Cardinality(S)
        /\ given' = given \ S /\ mapIndex' = mapIndex /\ tables' = tables
    BY <1>5, <2>1 DEF PmmFreeN, vmmVars
  <2>3. S \in SUBSET pmm_bitmap /\ S \subseteq given  BY <1>5, <2>1
  <2>4. /\ pmm_bitmap \in SUBSET Pages /\ Owned
        /\ mapIndex = Len(MemoryMap) + 2 /\ Len(MemoryMap) \in Nat
        /\ mapIndex > 0 /\ mapIndex \notin 1 .. Len(MemoryMap) + 1
        /\ pmm_free_pages = Cardinality(Pages \ pmm_bitmap)
    BY <1>2, MapFacts DEF FrameInv, MemoryUp
  <2>5. pmm_free_pages' = Cardinality(Pages \ pmm_bitmap')
    BY <2>2, <2>3, <2>4, CountGiven
  <2>6. Owned'  BY <2>2, <2>3, <2>4 DEF Owned
  <2>7. MemoryUp'  BY <2>2, <2>4 DEF MemoryUp
  <2> QED  BY <1>1, <2>2, <2>4, <2>5, <2>6, <2>7 DEF FrameInv
<1>6. CASE UNCHANGED pmmVars /\ tables' = tables
  BY <1>1, <1>2, <1>6, FramesAlone
<1>7. ASSUME NEW r, VmmSwitch(r)  PROVE UNCHANGED pmmVars /\ tables' = tables
  BY <1>7 DEF VmmSwitch
<1>8. ASSUME NEW r, NEW v, NEW f, VmmMap(r, v, f)
      PROVE  UNCHANGED pmmVars /\ tables' = tables
  BY <1>8 DEF VmmMap
<1>9. ASSUME NEW r, NEW v, VmmUnmap(r, v)  PROVE UNCHANGED pmmVars /\ tables' = tables
  BY <1>9 DEF VmmUnmap, AskUnmap
<1>10. ASSUME NEW v, MunmapRegion(v)  PROVE UNCHANGED pmmVars /\ tables' = tables
  BY <1>10 DEF MunmapRegion, AskUnmap
<1> QED  BY <1>1, <1>3, <1>4, <1>5, <1>6, <1>7, <1>8, <1>9, <1>10 DEF MemoryCall

LEMMA FramesStep ==
  ASSUME FrameInv, [Next]_vars
  PROVE  FrameInv'
<1>1. CASE BootVmm
  <2>1. /\ boot = "vmm" /\ boot' = "heap" /\ UNCHANGED pmmVars /\ tables' = tables
    BY <1>1 DEF BootVmm, Boots, VmmInit
  <2> QED  BY <2>1, FramesAlone DEF FrameInv, AfterPmm
<1>2. CASE Elsewhere
  BY <1>2 DEF Elsewhere, memVars, FrameInv, MemoryUp, Seen, Owned
<1> QED
  BY <1>1, <1>2, MemorySteps, BootKeepsFrames, TableKeepsFrames, CallKeepsFrames

\* However pages are taken and given back, one by one, in runs, or half way
\* through a page table walk that runs out, the counter of pmm.c agrees with
\* its bitmap and no page has two owners.
THEOREM FramesCorrect == Spec => []FramesAccounted
<1>1. Init => FrameInv  BY FramesStart
<1>2. FrameInv /\ [Next]_vars => FrameInv'  BY FramesStep
<1>3. FrameInv => FramesAccounted  BY DEF FrameInv, FramesAccounted, Owned
<1> QED  BY <1>1, <1>2, <1>3, PTL DEF Spec

-----------------------------------------------------------------------------
(* Page tables as trees. *)

\* What entry i of table t holds in the tables T; nothing where t is missing.
Holds(T, t, i) == IF t = Absent THEN Absent ELSE T[t][i]

\* The tables on the way to virtual page v, and what v translates to.
Second(T, r, v) == Holds(T, r, v[1])
Third(T, r, v) == Holds(T, Second(T, r, v), v[2])
Fourth(T, r, v) == Holds(T, Third(T, r, v), v[3])
Leaf(T, r, v) == Holds(T, Fourth(T, r, v), v[4])

\* The table the way reaches at level k.
Reached(T, k, r, v) ==
    IF k = 1 THEN r
    ELSE IF k = 2 THEN Second(T, r, v)
    ELSE IF k = 3 THEN Third(T, r, v) ELSE Fourth(T, r, v)

\* T is a set of tables of the levels R: an entry above the last level names
\* a table of the next level that no other entry names.
Tree(T, R) ==
    /\ T \in [DOMAIN T -> [Index -> Frames \cup {Absent}]]
    /\ R \in [DOMAIN T -> 1 .. 4]
    /\ DOMAIN T \subseteq Pages
    /\ \A r \in Roots : r \in DOMAIN T /\ R[r] = 1
    /\ \A t \in DOMAIN T, i \in Index :
          R[t] < 4 /\ T[t][i] # Absent =>
             T[t][i] \in DOMAIN T /\ R[T[t][i]] = R[t] + 1
    /\ \A t, u \in DOMAIN T : \A i, j \in Index :
          R[t] < 4 /\ R[u] < 4 /\ T[t][i] # Absent /\ T[u][j] = T[t][i]
             => t = u /\ i = j

\* What the steps write: one entry, and a cleared table behind an entry.
WithEntry(T, t, i, f) == [T EXCEPT ![t][i] = f]

WithTable(T, t, i, p) ==
    [u \in DOMAIN T \cup {p} |-> IF u = p THEN [j \in Index |-> Absent]
                                ELSE IF u = t THEN [T[u] EXCEPT ![i] = p]
                                ELSE T[u]]

WithLevel(R, p, k) == [u \in DOMAIN R \cup {p} |-> IF u = p THEN k ELSE R[u]]

Translations(T) == [rv \in Roots \X Virts |-> Leaf(T, rv[1], rv[2])]

IsTable(T, R, t, k) == t \in DOMAIN T /\ R[t] = k

LEMMA VirtIs ==
  ASSUME NEW v \in Virts
  PROVE  /\ v \in [1 .. 4 -> Index]
         /\ v[1] \in Index /\ v[2] \in Index /\ v[3] \in Index /\ v[4] \in Index
BY BootTree

\* Every table on the way has the level of its place.
LEMMA WayHasLevels ==
  ASSUME NEW T, NEW R, Tree(T, R), NEW r \in Roots, NEW v \in Virts
  PROVE  /\ IsTable(T, R, r, 1)
         /\ Second(T, r, v) = Absent \/ IsTable(T, R, Second(T, r, v), 2)
         /\ Third(T, r, v) = Absent \/ IsTable(T, R, Third(T, r, v), 3)
         /\ Fourth(T, r, v) = Absent \/ IsTable(T, R, Fourth(T, r, v), 4)
<1>1. ASSUME NEW t, NEW k \in 1 .. 3, NEW i \in Index, IsTable(T, R, t, k),
             Holds(T, t, i) # Absent
      PROVE  IsTable(T, R, Holds(T, t, i), k + 1)
  BY <1>1 DEF Tree, IsTable, Holds
<1>2. IsTable(T, R, r, 1)  BY DEF Tree, IsTable
<1>3. \A i : Holds(T, Absent, i) = Absent  BY DEF Holds
<1>4. Second(T, r, v) = Absent \/ IsTable(T, R, Second(T, r, v), 2)
  BY <1>1, <1>2, VirtIs DEF Second
<1>5. Third(T, r, v) = Absent \/ IsTable(T, R, Third(T, r, v), 3)
  BY <1>1, <1>3, <1>4, VirtIs DEF Third
<1>6. Fourth(T, r, v) = Absent \/ IsTable(T, R, Fourth(T, r, v), 4)
  BY <1>1, <1>3, <1>5, VirtIs DEF Fourth
<1> QED  BY <1>2, <1>4, <1>5, <1>6

\* The way back from a table is unique.
LEMMA WayIsUnique ==
  ASSUME NEW T, NEW R, Tree(T, R), NEW r \in Roots, NEW v \in Virts,
         NEW s \in Roots, NEW w \in Virts,
         Fourth(T, r, v) # Absent, Fourth(T, s, w) = Fourth(T, r, v)
  PROVE  r = s /\ v[1] = w[1] /\ v[2] = w[2] /\ v[3] = w[3]
<1>1. ASSUME NEW t, NEW u, NEW k \in 1 .. 3, NEW i \in Index, NEW j \in Index,
             t = Absent \/ IsTable(T, R, t, k), u = Absent \/ IsTable(T, R, u, k),
             Holds(T, t, i) # Absent, Holds(T, u, j) = Holds(T, t, i)
      PROVE  t = u /\ i = j /\ t # Absent
  BY <1>1 DEF Tree, IsTable, Holds
<1>2. Third(T, r, v) = Third(T, s, w) /\ v[3] = w[3] /\ Third(T, r, v) # Absent
  BY <1>1, WayHasLevels, VirtIs DEF Fourth
<1>3. Second(T, r, v) = Second(T, s, w) /\ v[2] = w[2] /\ Second(T, r, v) # Absent
  <2>1. PICK t, u : t = Second(T, r, v) /\ u = Second(T, s, w)  OBVIOUS
  <2>2. /\ t = Absent \/ IsTable(T, R, t, 2)
        /\ u = Absent \/ IsTable(T, R, u, 2)
    BY <2>1, WayHasLevels
  <2>3. /\ Holds(T, t, v[2]) # Absent /\ Holds(T, u, w[2]) = Holds(T, t, v[2])
        /\ 2 \in 1 .. 3 /\ v[2] \in Index /\ w[2] \in Index
    BY <1>2, <2>1, VirtIs DEF Third
  <2> QED  BY <1>1, <2>1, <2>2, <2>3
<1>4. r = s /\ v[1] = w[1]
  <2>1. IsTable(T, R, r, 1) /\ IsTable(T, R, s, 1)  BY WayHasLevels
  <2>2. /\ Holds(T, r, v[1]) # Absent /\ Holds(T, s, w[1]) = Holds(T, r, v[1])
        /\ 1 \in 1 .. 3 /\ v[1] \in Index /\ w[1] \in Index
    BY <1>3, VirtIs DEF Second
  <2> QED  BY <1>1, <2>1, <2>2
<1> QED  BY <1>2, <1>3, <1>4

LEMMA AbsentIsNoTable ==
  ASSUME NEW T, NEW R, Tree(T, R)
  PROVE  Absent \notin DOMAIN T
BY MemorySize DEF Tree, Frames

\* Writing an entry of a last table changes the one translation.
LEMMA LeafWritten ==
  ASSUME NEW T, NEW R, Tree(T, R), NEW r \in Roots, NEW v \in Virts,
         Fourth(T, r, v) # Absent, NEW f \in Frames \cup {Absent}
  PROVE  /\ Tree(WithEntry(T, Fourth(T, r, v), v[4], f), R)
         /\ \A s \in Roots, w \in Virts :
               Leaf(WithEntry(T, Fourth(T, r, v), v[4], f), s, w) =
                  IF s = r /\ w = v THEN f ELSE Leaf(T, s, w)
<1>0. PICK U : U = WithEntry(T, Fourth(T, r, v), v[4], f)  OBVIOUS
<1> DEFINE last == Fourth(T, r, v)
<1>1. /\ last \in DOMAIN T /\ R[last] = 4 /\ v[4] \in Index
      /\ Absent \notin DOMAIN T
  BY WayHasLevels, VirtIs, AbsentIsNoTable DEF IsTable
<1>2. T \in [DOMAIN T -> [Index -> Frames \cup {Absent}]]  BY DEF Tree
<1> HIDE DEF last
<1>3. U = [T EXCEPT ![last][v[4]] = f]  BY <1>0 DEF last, WithEntry
<1>4. /\ DOMAIN U = DOMAIN T
      /\ U \in [DOMAIN U -> [Index -> Frames \cup {Absent}]]
      /\ \A t \in DOMAIN T : t # last => U[t] = T[t]
      /\ \A i \in Index : U[last][i] = IF i = v[4] THEN f ELSE T[last][i]
  <2>1. PICK e : e = v[4]  OBVIOUS
  <2>2. PICK row : row = [T[last] EXCEPT ![e] = f]  OBVIOUS
  <2>3. T[last] \in [Index -> Frames \cup {Absent}]  BY <1>1, <1>2
  <2>4. /\ row \in [Index -> Frames \cup {Absent}]
        /\ \A i \in Index : row[i] = IF i = e THEN f ELSE T[last][i]
    BY <1>1, <2>1, <2>2, <2>3
  <2>5. U = [T EXCEPT ![last] = row]  BY <1>3, <2>1, <2>2
  <2> QED  BY <1>1, <1>2, <2>1, <2>4, <2>5
<1>5. \A t \in DOMAIN T : R[t] < 4 => U[t] = T[t]
  BY <1>1, <1>4
<1>6. Tree(U, R)
  BY <1>4, <1>5 DEF Tree
<1>7. ASSUME NEW s \in Roots, NEW w \in Virts
      PROVE  Leaf(U, s, w) = IF s = r /\ w = v THEN f ELSE Leaf(T, s, w)
  <2>1. ASSUME NEW t, t = Absent \/ (t \in DOMAIN T /\ R[t] < 4)
        PROVE  \A i : Holds(U, t, i) = Holds(T, t, i)
    BY <1>5, <2>1 DEF Holds
  <2>2. /\ s \in DOMAIN T /\ R[s] < 4
        /\ Second(T, s, w) = Absent
              \/ (Second(T, s, w) \in DOMAIN T /\ R[Second(T, s, w)] < 4)
        /\ Third(T, s, w) = Absent
              \/ (Third(T, s, w) \in DOMAIN T /\ R[Third(T, s, w)] < 4)
    BY WayHasLevels DEF IsTable
  <2>3. Second(U, s, w) = Second(T, s, w) /\ Third(U, s, w) = Third(T, s, w)
    <3>1. Second(U, s, w) = Second(T, s, w)  BY <2>1, <2>2 DEF Second
    <3>2. \A i : Holds(U, Second(T, s, w), i) = Holds(T, Second(T, s, w), i)
      BY <2>1, <2>2
    <3> QED  BY <3>1, <3>2 DEF Third
  <2>4. Fourth(U, s, w) = Fourth(T, s, w)
    <3>1. \A i : Holds(U, Third(T, s, w), i) = Holds(T, Third(T, s, w), i)
      BY <2>1, <2>2
    <3> QED  BY <2>3, <3>1 DEF Fourth
  <2>5. PICK t : t = Fourth(T, s, w)  OBVIOUS
  <2>6. /\ Leaf(U, s, w) = Holds(U, t, w[4]) /\ Leaf(T, s, w) = Holds(T, t, w[4])
        /\ w[4] \in Index
        /\ t = Absent \/ t \in DOMAIN T
    BY <2>4, <2>5, WayHasLevels, VirtIs DEF Leaf, IsTable
  <2>7. CASE t = last
    <3>1. s = r /\ v[1] = w[1] /\ v[2] = w[2] /\ v[3] = w[3]
      <4>1. Fourth(T, s, w) = Fourth(T, r, v)  BY <2>5, <2>7 DEF last
      <4> QED  BY <4>1, WayIsUnique
    <3>2. v[4] = w[4] => v = w
      BY <3>1, VirtIs
    <3>3. Leaf(U, s, w) = IF w[4] = v[4] THEN f ELSE Leaf(T, s, w)
      BY <1>1, <1>4, <2>6, <2>7 DEF Holds
    <3> QED  BY <3>1, <3>2, <3>3
  <2>8. CASE t # last
    <3>1. ~(s = r /\ w = v)  BY <2>5, <2>8 DEF last
    <3>2. Leaf(U, s, w) = Leaf(T, s, w)
      BY <1>4, <2>6, <2>8 DEF Holds
    <3> QED  BY <3>1, <3>2
  <2> QED  BY <2>7, <2>8
<1> QED  BY <1>0, <1>6, <1>7

\* A cleared table behind an absent entry changes no translation.
LEMMA TableAdded ==
  ASSUME NEW T, NEW R, Tree(T, R), NEW t0 \in DOMAIN T, NEW k \in 1 .. 3,
         R[t0] = k, NEW i0 \in Index, T[t0][i0] = Absent,
         NEW p \in Pages \ DOMAIN T,
         NEW U, U = WithTable(T, t0, i0, p), NEW Q, Q = WithLevel(R, p, k + 1)
  PROVE  /\ Tree(U, Q)
         /\ \A s \in Roots, w \in Virts :
               /\ Leaf(U, s, w) = Leaf(T, s, w)
               /\ Reached(T, k, s, w) = t0 /\ w[k] = i0 => Reached(U, k + 1, s, w) = p
         /\ p \in DOMAIN U /\ Q[p] = k + 1
<1>1. /\ T \in [DOMAIN T -> [Index -> Frames \cup {Absent}]]
      /\ R \in [DOMAIN T -> 1 .. 4] /\ DOMAIN T \subseteq Pages
      /\ Absent \notin DOMAIN T /\ DOMAIN R = DOMAIN T
      /\ p \in Frames /\ p # Absent /\ p \notin DOMAIN T /\ p # t0
  BY AbsentIsNoTable, MemorySize DEF Tree, Frames
<1>2. /\ DOMAIN U = DOMAIN T \cup {p} /\ DOMAIN Q = DOMAIN U
      /\ \A i \in Index : U[p][i] = Absent
      /\ \A t \in DOMAIN T : t # t0 => U[t] = T[t]
      /\ \A i \in Index : U[t0][i] = IF i = i0 THEN p ELSE T[t0][i]
      /\ Q[p] = k + 1 /\ \A t \in DOMAIN T : Q[t] = R[t]
  BY <1>1 DEF WithTable, WithLevel
<1>3. \A t \in DOMAIN U : U[t] \in [Index -> Frames \cup {Absent}]
  BY <1>1 DEF WithTable
<1>4. /\ U \in [DOMAIN U -> [Index -> Frames \cup {Absent}]]
      /\ Q \in [DOMAIN U -> 1 .. 4]
  <2>1. U = [t \in DOMAIN U |-> U[t]] /\ Q = [t \in DOMAIN U |-> Q[t]]
    BY <1>2 DEF WithTable, WithLevel
  <2>2. \A t \in DOMAIN U : Q[t] \in 1 .. 4  BY <1>1, <1>2
  <2> QED  BY <1>3, <2>1, <2>2
<1>5. \A t \in DOMAIN T, i \in Index :
        U[t][i] = T[t][i] \/ (t = t0 /\ i = i0 /\ U[t][i] = p)
  BY <1>2
<1>6. \A t \in DOMAIN T, i \in Index :
        R[t] < 4 /\ T[t][i] # Absent => T[t][i] \in DOMAIN T /\ R[T[t][i]] = R[t] + 1
  BY DEF Tree
<1>7. ASSUME NEW t \in DOMAIN U, NEW i \in Index, Q[t] < 4, U[t][i] # Absent
      PROVE  U[t][i] \in DOMAIN U /\ Q[U[t][i]] = Q[t] + 1
  <2>1. t \in DOMAIN T  BY <1>2, <1>7
  <2>2. CASE U[t][i] = T[t][i]  BY <1>2, <1>6, <1>7, <2>1, <2>2
  <2>3. CASE t = t0 /\ U[t][i] = p  BY <1>2, <2>3
  <2> QED  BY <1>5, <2>1, <2>2, <2>3
<1>8. ASSUME NEW t \in DOMAIN U, NEW u \in DOMAIN U, NEW i \in Index, NEW j \in Index,
             Q[t] < 4, Q[u] < 4, U[t][i] # Absent, U[u][j] = U[t][i]
      PROVE  t = u /\ i = j
  <2>1. t \in DOMAIN T /\ u \in DOMAIN T /\ R[t] < 4 /\ R[u] < 4  BY <1>2, <1>8
  <2>2. T[t][i] # p /\ T[u][j] # p  BY <1>1, <1>6, <2>1
  <2>3. CASE U[t][i] = T[t][i] /\ U[u][j] = T[u][j]
    BY <1>8, <2>1, <2>3 DEF Tree
  <2>4. CASE U[t][i] = p
    BY <1>5, <1>8, <2>1, <2>2, <2>4
  <2> QED  BY <1>5, <1>8, <2>1, <2>2, <2>3, <2>4
<1>9. \A r \in Roots : r \in DOMAIN U /\ Q[r] = 1
  BY <1>2 DEF Tree
<1>10. Tree(U, Q)
  <2>1. DOMAIN U \subseteq Pages  BY <1>1, <1>2
  <2> QED  BY <1>4, <1>7, <1>8, <1>9, <2>1 DEF Tree
<1>11. ASSUME NEW s \in Roots, NEW w \in Virts
       PROVE  /\ Leaf(U, s, w) = Leaf(T, s, w)
              /\ Reached(T, k, s, w) = t0 /\ w[k] = i0 => Reached(U, k + 1, s, w) = p
  <2>1. /\ w[1] \in Index /\ w[2] \in Index /\ w[3] \in Index /\ w[4] \in Index
    BY VirtIs
  <2>2. ASSUME NEW a, NEW b, NEW n \in 1 .. 4, NEW i \in Index,
               b = Absent \/ IsTable(T, R, b, n), a = b \/ (a = p /\ b = Absent)
        PROVE  /\ \/ Holds(U, a, i) = Holds(T, b, i)
                  \/ n = k /\ Holds(U, a, i) = p /\ Holds(T, b, i) = Absent
               /\ b = t0 /\ i = i0 => Holds(U, a, i) = p
    BY <1>1, <1>2, <2>2 DEF Holds, IsTable
  <2>3. PICK b2, b3, b4, a2, a3, a4 :
          /\ b2 = Second(T, s, w) /\ b3 = Third(T, s, w) /\ b4 = Fourth(T, s, w)
          /\ a2 = Second(U, s, w) /\ a3 = Third(U, s, w) /\ a4 = Fourth(U, s, w)
    OBVIOUS
  <2>4. /\ IsTable(T, R, s, 1)
        /\ b2 = Absent \/ IsTable(T, R, b2, 2)
        /\ b3 = Absent \/ IsTable(T, R, b3, 3)
        /\ b4 = Absent \/ IsTable(T, R, b4, 4)
    BY <2>3, WayHasLevels
  <2>5. /\ a2 = Holds(U, s, w[1]) /\ a3 = Holds(U, a2, w[2]) /\ a4 = Holds(U, a3, w[3])
        /\ b2 = Holds(T, s, w[1]) /\ b3 = Holds(T, b2, w[2]) /\ b4 = Holds(T, b3, w[3])
        /\ Leaf(U, s, w) = Holds(U, a4, w[4]) /\ Leaf(T, s, w) = Holds(T, b4, w[4])
    BY <2>3 DEF Second, Third, Fourth, Leaf
  <2>6. 1 \in 1 .. 4 /\ 2 \in 1 .. 4 /\ 3 \in 1 .. 4 /\ 4 \in 1 .. 4 /\ 4 # k
    OBVIOUS
  <2>7. /\ a2 = b2 \/ (a2 = p /\ b2 = Absent)
        /\ s = t0 /\ w[1] = i0 => a2 = p
    BY <2>1, <2>2, <2>4, <2>5, <2>6
  <2>8. /\ a3 = b3 \/ (a3 = p /\ b3 = Absent)
        /\ b2 = t0 /\ w[2] = i0 => a3 = p
    BY <2>1, <2>2, <2>4, <2>5, <2>6, <2>7
  <2>9. /\ a4 = b4 \/ (a4 = p /\ b4 = Absent)
        /\ b3 = t0 /\ w[3] = i0 => a4 = p
    BY <2>1, <2>2, <2>4, <2>5, <2>6, <2>8
  <2>10. Leaf(U, s, w) = Leaf(T, s, w)
    BY <2>1, <2>2, <2>4, <2>5, <2>6, <2>9
  <2>11. Reached(T, k, s, w) = t0 /\ w[k] = i0 => Reached(U, k + 1, s, w) = p
    <3>1. CASE k = 1  BY <2>3, <2>7, <3>1 DEF Reached
    <3>2. CASE k = 2  BY <2>3, <2>8, <3>2 DEF Reached
    <3>3. CASE k = 3  BY <2>3, <2>9, <3>3 DEF Reached
    <3> QED  BY <3>1, <3>2, <3>3
  <2> QED  BY <2>10, <2>11
<1> QED  BY <1>2, <1>10, <1>11

-----------------------------------------------------------------------------
(* The address spaces. *)

\* The edit vmm_map is making, and how far its walk has come.
Walked ==
    /\ Len(pending) = 1 /\ pending[1].frame \in Frames
    /\ at \in DOMAIN tables /\ rank[at] = level
    /\ Reached(tables, level, pending[1].root, pending[1].virt) = at

SpaceInv ==
    /\ Tree(tables, rank)
    /\ boot \in AfterVmm => active_pml4 \in Roots
    /\ pending \in Seq(AS!Edits)
    /\ level \in 0 .. 4
    /\ level = 0 => \A k \in 1 .. Len(pending) : pending[k].frame = Absent
    /\ level # 0 => Walked

LEMMA MappedIs ==
  mapped = Translations(tables)
BY DEF mapped, Translations, LastTable, Below, Leaf, Fourth, Third, Second, Holds

LEMMA MappedIsNext ==
  mapped' = Translations(tables')
BY DEF mapped, Translations, LastTable, Below, Leaf, Fourth, Third, Second, Holds

LEMMA BootTreeIsTree == Tree(BootTables, BootRanks)
<1>1. DOMAIN BootTables \subseteq Pages  BY MapFacts
<1>2. BootRanks \in [DOMAIN BootTables -> 1 .. 4]  BY BootTree
<1>3. BootTables \in [DOMAIN BootTables -> [Index -> Frames \cup {Absent}]]  BY BootTree
<1>4. \A r \in Roots : r \in DOMAIN BootTables /\ BootRanks[r] = 1  BY BootTree
<1>5. ASSUME NEW t \in DOMAIN BootTables, NEW u \in DOMAIN BootTables,
             NEW i \in Index, NEW j \in Index,
             BootTables[t][i] # Absent, BootTables[u][j] = BootTables[t][i]
      PROVE  t = u /\ i = j
  <2>1. <<u, j>> = <<t, i>>  BY <1>5, BootTree
  <2> QED  BY <2>1
<1> QED  BY <1>1, <1>2, <1>3, <1>4, <1>5, BootTree DEF Tree

LEMMA SpacesStart ==
  ASSUME Init
  PROVE  SpaceInv /\ AS!Init
<1>1. /\ tables = BootTables /\ rank = BootRanks /\ pending = <<>> /\ level = 0
      /\ boot = "console"
  BY DEF Init, MemoryInit
<1>2. SpaceInv
  <2>1. pending \in Seq(AS!Edits) /\ Len(pending) = 0
    BY <1>1, EmptySeq
  <2> QED  BY <1>1, <2>1, BootTreeIsTree DEF SpaceInv, AfterVmm
<1>3. ASSUME NEW r \in Roots, NEW v \in Virts  PROVE  Leaf(tables, r, v) = Absent
  <2>1. PICK t : t = Fourth(BootTables, r, v)  OBVIOUS
  <2>2. t = Absent \/ (t \in DOMAIN BootTables /\ BootRanks[t] = 4)
    BY <2>1, BootTreeIsTree, WayHasLevels DEF IsTable
  <2>3. v[4] \in Index  BY VirtIs
  <2>4. Holds(BootTables, t, v[4]) = Absent
    BY <2>2, <2>3, BootTree DEF Holds
  <2> QED  BY <1>1, <2>1, <2>4 DEF Leaf
<1>4. mapped = [rv \in Roots \X Virts |-> Absent]
  BY <1>3, MappedIs DEF Translations
<1> QED  BY <1>1, <1>2, <1>4 DEF AS!Init

\* The edit at the head of what is pending.
LEMMA HeadIs ==
  ASSUME SpaceInv, pending # <<>>
  PROVE  /\ Head(pending) = pending[1] /\ pending[1] \in AS!Edits
         /\ Len(pending) \in Nat /\ Len(pending) > 0
         /\ Tail(pending) \in Seq(AS!Edits)
         /\ Len(Tail(pending)) = Len(pending) - 1
         /\ \A k \in 1 .. Len(pending) - 1 : Tail(pending)[k] = pending[k + 1]
<1>1. pending \in Seq(AS!Edits)  BY DEF SpaceInv
<1>2. Len(pending) \in Nat /\ Len(pending) # 0  BY <1>1, LenProperties, EmptySeq
<1>3. pending[1] \in AS!Edits  BY <1>1, <1>2, ElementOfSeq
<1>4. /\ Head(pending) = pending[1]
      /\ Tail(pending) \in Seq(AS!Edits)
      /\ Len(Tail(pending)) = Len(pending) - 1
      /\ \A k \in 1 .. Len(pending) - 1 : Tail(pending)[k] = pending[k + 1]
  BY <1>1, HeadTailProperties
<1> QED  BY <1>2, <1>3, <1>4

\* What a step of the walk begins with.
LEMMA WalkIs ==
  ASSUME SpaceInv, level # 0
  PROVE  /\ pending # <<>>
         /\ Head(pending).root \in Roots /\ Head(pending).virt \in Virts
         /\ Head(pending).frame \in Frames
         /\ at \in DOMAIN tables /\ rank[at] = level /\ level \in 1 .. 4
         /\ Entry = Head(pending).virt[level] /\ Entry \in Index
         /\ Reached(tables, level, Head(pending).root, Head(pending).virt) = at
         /\ Tail(pending) = <<>>
<1>1. Len(pending) = 1 /\ pending \in Seq(AS!Edits) /\ level \in 1 .. 4
  BY DEF SpaceInv, Walked
<1>2. pending # <<>>
  <2>1. Len(<<>>) = 0  OBVIOUS
  <2> QED  BY <1>1, <2>1
<1>3. Head(pending) = pending[1] /\ pending[1] \in AS!Edits  BY <1>2, HeadIs
<1>4. Head(pending).virt[level] \in Index
  <2>1. Head(pending).virt \in Virts  BY <1>3 DEF AS!Edits
  <2>2. Head(pending).virt \in [1 .. 4 -> Index]  BY <2>1, VirtIs
  <2> QED  BY <1>1, <2>2
<1>5. Tail(pending) = <<>>
  <2>1. Len(Tail(pending)) = 0 /\ Tail(pending) \in Seq(AS!Edits)
    BY <1>1, <1>2, HeadIs
  <2> QED  BY <2>1, EmptySeq
<1> QED  BY <1>1, <1>2, <1>3, <1>4, <1>5 DEF SpaceInv, Walked, AS!Edits, Entry

\* Nothing is pending any more.
LEMMA NothingPending ==
  ASSUME NEW s, s = <<>>
  PROVE  s \in Seq(AS!Edits) /\ Len(s) = 0
BY EmptySeq

\* One translation differs.
Changed(m, r, v, f) == [m EXCEPT ![<<r, v>>] = f]

LEMMA OneChanged ==
  ASSUME NEW r \in Roots, NEW v \in Virts, NEW f, NEW T, NEW U,
         \A s \in Roots, w \in Virts :
            Leaf(U, s, w) = IF s = r /\ w = v THEN f ELSE Leaf(T, s, w)
  PROVE  Translations(U) = Changed(Translations(T), r, v, f)
<1> DEFINE m == Translations(T)
<1> DEFINE n == Translations(U)
<1>1. ASSUME NEW rv \in Roots \X Virts
      PROVE  n[rv] = IF rv = <<r, v>> THEN f ELSE m[rv]
  <2>1. rv[1] \in Roots /\ rv[2] \in Virts /\ rv = <<rv[1], rv[2]>>  OBVIOUS
  <2>2. n[rv] = Leaf(U, rv[1], rv[2]) /\ m[rv] = Leaf(T, rv[1], rv[2])
    BY DEF Translations
  <2>3. rv = <<r, v>> <=> rv[1] = r /\ rv[2] = v  BY <2>1
  <2> QED  BY <2>1, <2>2, <2>3
<1>2. [m EXCEPT ![<<r, v>>] = f]
        = [rv \in Roots \X Virts |-> IF rv = <<r, v>> THEN f ELSE m[rv]]
  BY DEF Translations
<1>3. n = [rv \in Roots \X Virts |-> n[rv]]  BY DEF Translations
<1> HIDE DEF m, n
<1>4. n = [m EXCEPT ![<<r, v>>] = f]  BY <1>1, <1>2, <1>3
<1> QED  BY <1>4 DEF m, n, Changed

LEMMA TablesImplement ==
  ASSUME FrameInv, SpaceInv, MemoryStep, boot' = boot
  PROVE  SpaceInv' /\ [AS!Next]_AS!asVars
<1>1. CASE EnsureFound
  <2>1. /\ level \in 1 .. 3 /\ tables[at][Entry] # Absent
        /\ at' = tables[at][Entry] /\ level' = level + 1
        /\ tables' = tables /\ rank' = rank /\ active_pml4' = active_pml4
        /\ pending' = pending
    BY <1>1 DEF EnsureFound
  <2>2. PICK r, v : r = Head(pending).root /\ v = Head(pending).virt  OBVIOUS
  <2>3. /\ r \in Roots /\ v \in Virts /\ at \in DOMAIN tables /\ rank[at] = level
        /\ Entry = v[level] /\ Entry \in Index /\ pending # <<>>
        /\ Reached(tables, level, r, v) = at
    BY <2>1, <2>2, WalkIs
  <2>4. at' \in DOMAIN tables' /\ rank'[at'] = level'
    BY <2>1, <2>3 DEF SpaceInv, Tree
  <2>5. Holds(tables, at, v[level]) = at'
    BY <2>1, <2>3, AbsentIsNoTable DEF Holds, SpaceInv
  <2>6. Reached(tables', level', r, v) = at'
    <3>1. CASE level = 1
      BY <2>1, <2>3, <2>5, <3>1 DEF Reached, Second
    <3>2. CASE level = 2
      BY <2>1, <2>3, <2>5, <3>2 DEF Reached, Third
    <3>3. CASE level = 3
      BY <2>1, <2>3, <2>5, <3>3 DEF Reached, Fourth
    <3> QED  BY <2>1, <3>1, <3>2, <3>3
  <2>7. /\ Head(pending) = pending[1] /\ Len(pending) = 1
        /\ pending[1].frame \in Frames
    BY <2>1, <2>3, HeadIs DEF SpaceInv, Walked
  <2>8. Walked'
    BY <2>1, <2>2, <2>4, <2>6, <2>7 DEF Walked
  <2>9. SpaceInv'
    BY <2>1, <2>8 DEF SpaceInv
  <2>10. UNCHANGED AS!asVars
    BY <2>1, MappedIs, MappedIsNext DEF AS!asVars
  <2> QED  BY <2>9, <2>10
<1>2. CASE EnsureNew
  <2>1. /\ level \in 1 .. 3 /\ tables[at][Entry] = Absent
        /\ level' = level + 1 /\ active_pml4' = active_pml4 /\ pending' = pending
    BY <1>2 DEF EnsureNew
  <2>2. PICK p : FirstFree(p) /\ TakePage(p) /\ NewTable(p) /\ at' = p
    BY <1>2 DEF EnsureNew
  <2>3. PICK r, v : r = Head(pending).root /\ v = Head(pending).virt  OBVIOUS
  <2>4. /\ r \in Roots /\ v \in Virts /\ at \in DOMAIN tables /\ rank[at] = level
        /\ Entry = v[level] /\ Entry \in Index /\ pending # <<>>
        /\ Reached(tables, level, r, v) = at
    BY <2>1, <2>3, WalkIs
  <2>5. p \in Pages \ DOMAIN tables
    <3>1. MemoryUp  BY <2>1 DEF FrameInv
    <3>2. DOMAIN tables \subseteq pmm_bitmap  BY <3>1 DEF FrameInv, Owned
    <3> QED  BY <2>2, <3>2, OnePage
  <2>6. PICK T, R, U, Q, t0, k, i0 :
           /\ T = tables /\ R = rank /\ U = tables' /\ Q = rank'
           /\ t0 = at /\ k = level /\ i0 = Entry
    OBVIOUS
  <2>7. /\ Tree(T, R) /\ t0 \in DOMAIN T /\ k \in 1 .. 3 /\ R[t0] = k
        /\ i0 \in Index /\ T[t0][i0] = Absent /\ p \in Pages \ DOMAIN T
        /\ Reached(T, k, r, v) = t0 /\ v[k] = i0
    BY <2>1, <2>4, <2>5, <2>6 DEF SpaceInv
  <2>8. U = WithTable(T, t0, i0, p) /\ Q = WithLevel(R, p, k + 1)
    BY <2>2, <2>6 DEF NewTable, WithTable, WithLevel
  <2>90. /\ Tree(U, Q)
         /\ \A s \in Roots, w \in Virts :
               /\ Leaf(U, s, w) = Leaf(T, s, w)
               /\ Reached(T, k, s, w) = t0 /\ w[k] = i0 => Reached(U, k + 1, s, w) = p
         /\ p \in DOMAIN U /\ Q[p] = k + 1
    BY <2>7, <2>8, TableAdded
  <2>9. /\ Tree(U, Q)
        /\ \A s \in Roots, w \in Virts : Leaf(U, s, w) = Leaf(T, s, w)
        /\ Reached(U, k + 1, r, v) = p
        /\ p \in DOMAIN U /\ Q[p] = k + 1
    BY <2>4, <2>7, <2>90
  <2>10. /\ Head(pending) = pending[1] /\ Len(pending) = 1
         /\ pending[1].frame \in Frames
    BY <2>1, <2>4, HeadIs DEF SpaceInv, Walked
  <2>11. Walked'
    BY <2>1, <2>2, <2>3, <2>6, <2>9, <2>10 DEF Walked
  <2>12. SpaceInv'
    <3>1. level' # 0 /\ level' \in 0 .. 4  BY <2>1
    <3>2. Tree(tables', rank')  BY <2>6, <2>9
    <3> QED  BY <2>1, <2>11, <3>1, <3>2 DEF SpaceInv
  <2>13. mapped' = mapped
    <3>1. Translations(U) = Translations(T)  BY <2>9 DEF Translations
    <3> QED  BY <2>6, <3>1, MappedIs, MappedIsNext
  <2> QED  BY <2>1, <2>12, <2>13 DEF AS!asVars
<1>3. CASE EnsureFails
  <2>1. /\ level \in 1 .. 3 /\ pending' = Tail(pending) /\ level' = 0
        /\ tables' = tables /\ rank' = rank /\ active_pml4' = active_pml4
    BY <1>3 DEF EnsureFails
  <2>2. pending # <<>> /\ pending' = <<>>  BY <2>1, WalkIs
  <2>3. SpaceInv'
    <3>1. pending' \in Seq(AS!Edits) /\ Len(pending') = 0  BY <2>2, NothingPending
    <3>2. 1 .. Len(pending') = {}  BY <3>1
    <3> QED  BY <2>1, <3>1, <3>2 DEF SpaceInv
  <2>4. mapped' = mapped  BY <2>1, MappedIs, MappedIsNext
  <2>5. Head(pending).frame # Absent
    BY <2>1, WalkIs, MemorySize
  <2> QED  BY <2>1, <2>2, <2>3, <2>4, <2>5 DEF AS!Drop, AS!Next, AS!asVars
<1>4. CASE MapLeaf
  <2>1. /\ level = 4 /\ pending' = Tail(pending) /\ level' = 0
        /\ tables' = [tables EXCEPT ![at][Entry] = Head(pending).frame]
        /\ rank' = rank /\ active_pml4' = active_pml4
    BY <1>4 DEF MapLeaf
  <2>2. PICK T, U, R, r, v, f :
           /\ T = tables /\ U = tables' /\ R = rank
           /\ r = Head(pending).root /\ v = Head(pending).virt
           /\ f = Head(pending).frame
    OBVIOUS
  <2>3. /\ r \in Roots /\ v \in Virts /\ at \in DOMAIN T /\ Entry = v[4]
        /\ pending # <<>> /\ pending' = <<>> /\ Reached(T, 4, r, v) = at
        /\ f \in Frames
    BY <2>1, <2>2, WalkIs
  <2>4. Tree(T, R)  BY <2>2 DEF SpaceInv
  <2>5. Fourth(T, r, v) = at /\ Fourth(T, r, v) # Absent
    BY <2>3, <2>4, AbsentIsNoTable DEF Reached
  <2>6. U = WithEntry(T, Fourth(T, r, v), v[4], f)
    BY <2>1, <2>2, <2>3, <2>5 DEF WithEntry
  <2>7. /\ Tree(U, R)
        /\ \A s \in Roots, w \in Virts :
              Leaf(U, s, w) = IF s = r /\ w = v THEN f ELSE Leaf(T, s, w)
    <3>1. f \in Frames \cup {Absent}  BY <2>3
    <3>2. /\ Tree(WithEntry(T, Fourth(T, r, v), v[4], f), R)
         /\ \A s \in Roots, w \in Virts :
               Leaf(WithEntry(T, Fourth(T, r, v), v[4], f), s, w) =
                  IF s = r /\ w = v THEN f ELSE Leaf(T, s, w)
      BY <2>3, <2>4, <2>5, <3>1, LeafWritten
    <3> QED  BY <2>6, <3>2
  <2>8. SpaceInv'
    BY <2>1, <2>2, <2>3, <2>7, NothingPending DEF SpaceInv
  <2>9. mapped' = [mapped EXCEPT ![<<r, v>>] = f]
    <3>1. Translations(U) = Changed(Translations(T), r, v, f)
      BY <2>3, <2>7, OneChanged
    <3> QED  BY <2>2, <3>1, MappedIs, MappedIsNext DEF Changed
  <2>10. AS!Edit
    BY <2>1, <2>2, <2>3, <2>9 DEF AS!Edit
  <2> QED  BY <2>8, <2>10 DEF AS!Next
<1>5. CASE Unmap
  <2>1. /\ level = 0 /\ pending # <<>> /\ pending' = Tail(pending)
        /\ level' = level /\ rank' = rank /\ active_pml4' = active_pml4
    BY <1>5 DEF Unmap, Walking
  <2>2. PICK r, v, T, U, R : /\ r = Head(pending).root /\ v = Head(pending).virt
                             /\ T = tables /\ U = tables' /\ R = rank
    OBVIOUS
  <2>3. /\ Head(pending) = pending[1] /\ pending[1] \in AS!Edits
        /\ Len(pending) \in Nat /\ Len(pending) > 0
        /\ pending' \in Seq(AS!Edits) /\ Len(pending') = Len(pending) - 1
        /\ \A k \in 1 .. Len(pending) - 1 : pending'[k] = pending[k + 1]
    BY <2>1, HeadIs
  <2>4. /\ r \in Roots /\ v \in Virts /\ Head(pending).frame = Absent
        /\ Tree(T, R)
    BY <2>1, <2>2, <2>3 DEF SpaceInv, AS!Edits
  <2>5. U = IF Fourth(T, r, v) = Absent THEN T
            ELSE WithEntry(T, Fourth(T, r, v), v[4], Absent)
    BY <1>5, <2>2 DEF WithEntry, Unmap, LastTable, Below, Fourth, Third, Second, Holds
  <2>11. PICK f : f = Absent /\ f \in Frames \cup {Absent}  OBVIOUS
  <2>6. /\ Tree(U, R)
        /\ \A s \in Roots, w \in Virts :
              Leaf(U, s, w) = IF s = r /\ w = v THEN f ELSE Leaf(T, s, w)
    <3>1. CASE Fourth(T, r, v) = Absent
      BY <2>4, <2>5, <2>11, <3>1 DEF Leaf, Holds
    <3>2. CASE Fourth(T, r, v) # Absent
      <4>1. U = WithEntry(T, Fourth(T, r, v), v[4], f)  BY <2>5, <2>11, <3>2
      <4>2. /\ Tree(WithEntry(T, Fourth(T, r, v), v[4], f), R)
           /\ \A s \in Roots, w \in Virts :
                 Leaf(WithEntry(T, Fourth(T, r, v), v[4], f), s, w) =
                    IF s = r /\ w = v THEN f ELSE Leaf(T, s, w)
        BY <2>4, <2>11, <3>2, LeafWritten
      <4> QED  BY <4>1, <4>2
    <3> QED  BY <3>1, <3>2
  <2>7. \A k \in 1 .. Len(pending') : pending'[k].frame = Absent
    BY <2>1, <2>3 DEF SpaceInv
  <2>8. SpaceInv'
    BY <2>1, <2>2, <2>3, <2>6, <2>7 DEF SpaceInv
  <2>9. mapped' = [mapped EXCEPT ![<<r, v>>] = Absent]
    <3>1. Translations(U) = Changed(Translations(T), r, v, f)
      BY <2>4, <2>6, <2>11, OneChanged
    <3> QED  BY <2>2, <2>11, <3>1, MappedIs, MappedIsNext DEF Changed
  <2>10. AS!Edit
    BY <2>1, <2>2, <2>4, <2>9 DEF AS!Edit
  <2> QED  BY <2>8, <2>10 DEF AS!Next
<1> QED  BY <1>1, <1>2, <1>3, <1>4, <1>5 DEF MemoryStep

\* Calls ask for edits, and change no translation.
LEMMA CallAsks ==
  ASSUME SpaceInv, FrameInv, CallMemory
  PROVE  SpaceInv' /\ [AS!Next]_AS!asVars
<1>1. /\ boot = "idle" /\ boot' = boot /\ MemoryCall /\ pending = <<>>
  BY DEF CallMemory, Calls, Ready, MemoryIdle
<1>2. level = 0
  <2>1. Len(<<>>) = 0  OBVIOUS
  <2> QED  BY <1>1, <2>1 DEF SpaceInv, Walked
<1>3. CASE UNCHANGED vmmVars
  BY <1>1, <1>3, MappedIs, MappedIsNext DEF vmmVars, SpaceInv, Walked, AS!asVars
<1>4. ASSUME NEW n, PmmAlloc \/ PmmAllocN(n) \/ MmapAnonymous(n)
      PROVE  UNCHANGED vmmVars
  BY <1>4 DEF PmmAlloc, PmmAllocN, MmapAnonymous
<1>5. ASSUME NEW s, NEW n, PmmFreeN(s, n)  PROVE UNCHANGED vmmVars
  BY <1>5 DEF PmmFreeN
<1>6. ASSUME NEW r \in Roots, VmmSwitch(r)  PROVE SpaceInv' /\ UNCHANGED AS!asVars
  BY <1>1, <1>2, <1>6, MappedIs, MappedIsNext DEF VmmSwitch, SpaceInv, AS!asVars
<1>7. ASSUME NEW r \in Roots, NEW v \in Virts, NEW f \in given \cup DeviceFrames,
             VmmMap(r, v, f)
      PROVE  SpaceInv' /\ AS!Ask
  <2>1. /\ pending' = << [root |-> r, virt |-> v, frame |-> f] >>
        /\ at' = r /\ level' = 1 /\ tables' = tables /\ rank' = rank
        /\ active_pml4' = active_pml4
    BY <1>7 DEF VmmMap
  <2>2. f \in Frames
    <3>1. MemoryUp  BY <1>1 DEF FrameInv, AfterPmm
    <3>2. given \subseteq Pages  BY <3>1 DEF FrameInv, Owned
    <3> QED  BY <3>2 DEF Frames
  <2>3. [root |-> r, virt |-> v, frame |-> f] \in AS!Edits  BY <2>2 DEF AS!Edits
  <2>4. /\ pending' \in Seq(AS!Edits) /\ Len(pending') = 1
        /\ pending'[1] = [root |-> r, virt |-> v, frame |-> f]
    BY <2>1, <2>3
  <2>5. r \in DOMAIN tables /\ rank[r] = 1  BY DEF SpaceInv, Tree
  <2>6. Reached(tables', level', pending'[1].root, pending'[1].virt) = r
    BY <2>1, <2>4 DEF Reached
  <2>7. Walked'
    BY <2>1, <2>2, <2>4, <2>5, <2>6 DEF Walked
  <2>8. SpaceInv'
    <3>1. level' # 0 /\ level' \in 0 .. 4  BY <2>1
    <3> QED  BY <1>1, <2>1, <2>4, <2>7, <3>1 DEF SpaceInv
  <2>9. mapped' = mapped  BY <2>1, MappedIs, MappedIsNext
  <2> QED  BY <1>1, <2>4, <2>8, <2>9 DEF AS!Ask
<1>8. ASSUME NEW r \in Roots, NEW virts \in Seq(Virts), AskUnmap(r, virts)
      PROVE  SpaceInv' /\ AS!Ask
  <2>1. /\ pending' = [i \in 1 .. Len(virts) |->
                         [root |-> r, virt |-> virts[i], frame |-> Absent]]
        /\ tables' = tables /\ rank' = rank /\ active_pml4' = active_pml4
        /\ at' = at /\ level' = level
    BY <1>8 DEF AskUnmap
  <2>2. Len(virts) \in Nat  BY LenProperties
  <2>3. ASSUME NEW i \in 1 .. Len(virts)
        PROVE  /\ pending'[i] \in AS!Edits /\ pending'[i].frame = Absent
    <3>1. virts[i] \in Virts  BY ElementOfSeq
    <3>2. pending'[i] = [root |-> r, virt |-> virts[i], frame |-> Absent]  BY <2>1
    <3> QED  BY <3>1, <3>2 DEF AS!Edits
  <2>4. pending' \in Seq(AS!Edits) /\ Len(pending') = Len(virts)
    <3>1. pending' \in [1 .. Len(virts) -> AS!Edits]  BY <2>1, <2>3
    <3> QED  BY <2>2, <3>1
  <2>5. SpaceInv'
    BY <1>1, <1>2, <2>1, <2>3, <2>4 DEF SpaceInv
  <2>6. mapped' = mapped  BY <2>1, MappedIs, MappedIsNext
  <2> QED  BY <1>1, <2>4, <2>5, <2>6 DEF AS!Ask
<1>9. ASSUME NEW r \in Roots, NEW v \in Virts, VmmUnmap(r, v)
      PROVE  SpaceInv' /\ AS!Ask
  <2>1. <<v>> \in Seq(Virts)  OBVIOUS
  <2> QED  BY <1>8, <1>9, <2>1 DEF VmmUnmap
<1>10. ASSUME NEW region \in Regions, MunmapRegion(region)
       PROVE  SpaceInv' /\ AS!Ask
  <2>1. active_pml4 \in Roots  BY <1>1 DEF SpaceInv, AfterVmm
  <2>2. region \in Seq(Virts)  BY BootTree
  <2> QED  BY <1>8, <1>10, <2>1, <2>2 DEF MunmapRegion
<1> QED
  BY <1>1, <1>3, <1>4, <1>5, <1>6, <1>7, <1>9, <1>10 DEF MemoryCall, AS!Next

LEMMA SpacesStep ==
  ASSUME FrameInv, SpaceInv, [Next]_vars
  PROVE  SpaceInv' /\ [AS!Next]_AS!asVars
<1>1. CASE BootPmm
  <2>1. UNCHANGED vmmVars
    BY <1>1 DEF BootPmm, PmmInitStep, PmmFill, PmmEntry, PmmReserve
  <2>2. boot' \notin AfterVmm
    BY <1>1 DEF BootPmm, Boots, AfterVmm
  <2> QED  BY <2>1, <2>2, MappedIs, MappedIsNext DEF vmmVars, SpaceInv, Walked, AS!asVars
<1>2. CASE BootVmm
  <2>1. /\ active_pml4' = BootRoot /\ tables' = tables /\ rank' = rank
        /\ pending' = pending /\ at' = at /\ level' = level
    BY <1>2 DEF BootVmm, VmmInit
  <2> QED
    BY <2>1, BootTree, MappedIs, MappedIsNext DEF SpaceInv, Walked, AS!asVars
<1>3. CASE Elsewhere
  BY <1>3, MappedIs, MappedIsNext DEF Elsewhere, memVars, SpaceInv, Walked, AS!asVars
<1> QED  BY <1>1, <1>2, <1>3, MemorySteps, TablesImplement, CallAsks

\* Whatever vmm_map finds on its way, a table, none, or no page for one, and
\* whatever shares the tables it writes, exactly the translations that were
\* asked for change.
THEOREM SpacesCorrect == Spec => ImplementsAddressSpace
<1>1. Init => SpaceInv /\ AS!Init  BY SpacesStart
<1>2. FrameInv /\ SpaceInv /\ [Next]_vars => SpaceInv' /\ [AS!Next]_AS!asVars
  BY SpacesStep
<1>3. Init => FrameInv  BY FramesStart
<1>4. FrameInv /\ [Next]_vars => FrameInv'  BY FramesStep
<1> QED  BY <1>1, <1>2, <1>3, <1>4, PTL DEF Spec, ImplementsAddressSpace, AS!Spec

-----------------------------------------------------------------------------
(* What a reader of the tables and an owner of a page may rely on. *)

\* No call changes two translations at once, in one address space or in two:
\* a reader of the tables between two steps of munmap_region finds each page
\* as it was or as it was asked to become.
OneAtATime ==
    \A x, y \in Roots \X Virts :
        mapped'[x] # mapped[x] /\ mapped'[y] # mapped[y] => x = y

\* vmm_map writes one entry of a last table, vmm_unmap clears one, and
\* munmap_region clears one page after the other.
THEOREM OneTranslation == Spec => [][OneAtATime]_vars
<1>1. ASSUME [AS!Next]_AS!asVars  PROVE OneAtATime
  <2>1. CASE UNCHANGED mapped  BY <2>1 DEF OneAtATime
  <2>2. CASE AS!Edit
    <3>1. PICK z, f : mapped' = [mapped EXCEPT ![z] = f]  BY <2>2 DEF AS!Edit
    <3>2. DOMAIN mapped = Roots \X Virts  BY DEF mapped
    <3>3. \A x \in Roots \X Virts : x # z => mapped'[x] = mapped[x]
      BY <3>1, <3>2
    <3> QED  BY <3>3 DEF OneAtATime
  <2> QED  BY <1>1, <2>1, <2>2 DEF AS!Next, AS!Ask, AS!Drop, AS!asVars
<1> QED  BY <1>1, SpacesCorrect, PTL DEF ImplementsAddressSpace, AS!Spec

\* The last table on the way to a page is the allocator's to keep, no caller
\* holds it, and no page of another address space or of another two
\* megabytes has it on its way: what vmm_map makes is never shared, however
\* pages are given back and taken again.
TablesPrivate ==
    MemoryUp => \A r \in Roots, v \in Virts :
        LastTable(r, v) # Absent =>
            /\ LastTable(r, v) \in pmm_bitmap \ given
            /\ \A s \in Roots, w \in Virts :
                  LastTable(s, w) = LastTable(r, v) =>
                      s = r /\ \A k \in 1 .. 3 : w[k] = v[k]

\* ensure_table and the page allocator together keep the tables apart.
THEOREM TablesStayPrivate == Spec => []TablesPrivate
<1>1. Init => FrameInv  BY FramesStart
<1>2. FrameInv /\ [Next]_vars => FrameInv'  BY FramesStep
<1>3. Init => SpaceInv  BY SpacesStart
<1>4. FrameInv /\ SpaceInv /\ [Next]_vars => SpaceInv'  BY SpacesStep
<1>5. SpaceInv /\ FramesAccounted => TablesPrivate
  <2> SUFFICES ASSUME SpaceInv, FramesAccounted, MemoryUp,
                      NEW r \in Roots, NEW v \in Virts, LastTable(r, v) # Absent
               PROVE  /\ LastTable(r, v) \in pmm_bitmap \ given
                      /\ \A s \in Roots, w \in Virts :
                            LastTable(s, w) = LastTable(r, v) =>
                                s = r /\ \A k \in 1 .. 3 : w[k] = v[k]
    BY DEF TablesPrivate
  <2>1. \A s \in Roots, w \in Virts : LastTable(s, w) = Fourth(tables, s, w)
    BY DEF LastTable, Below, Fourth, Third, Second, Holds
  <2>2. Tree(tables, rank)  BY DEF SpaceInv
  <2>3. LastTable(r, v) \in DOMAIN tables
    <3>1. Fourth(tables, r, v) = Absent \/ IsTable(tables, rank, Fourth(tables, r, v), 4)
      BY <2>2, WayHasLevels
    <3> QED  BY <2>1, <3>1 DEF IsTable
  <2>4. LastTable(r, v) \in pmm_bitmap \ given
    BY <2>3 DEF FramesAccounted
  <2>5. ASSUME NEW s \in Roots, NEW w \in Virts, LastTable(s, w) = LastTable(r, v)
        PROVE  s = r /\ \A k \in 1 .. 3 : w[k] = v[k]
    <3>1. Fourth(tables, r, v) # Absent /\ Fourth(tables, s, w) = Fourth(tables, r, v)
      BY <2>1, <2>5
    <3>2. r = s /\ v[1] = w[1] /\ v[2] = w[2] /\ v[3] = w[3]
      BY <2>2, <3>1, WayIsUnique
    <3> QED  BY <3>2
  <2> QED  BY <2>4, <2>5
<1> QED  BY <1>1, <1>2, <1>3, <1>4, <1>5, FramesCorrect, PTL DEF Spec
=============================================================================
