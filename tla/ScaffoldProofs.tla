--------------------------- MODULE ScaffoldProofs ---------------------------
(***************************************************************************)
(* Proofs about the C kernel (Scaffold) for every size of its tables and   *)
(* any number of calls: the heap implements the arena, a task keeps its    *)
(* slot, the early console prints on the screen, the chains of the file    *)
(* system are the tree its callers built, and the interrupt controllers    *)
(* end as they were asked to.                                              *)
(***************************************************************************)
EXTENDS Scaffold, SequenceTheorems, TLAPS

-----------------------------------------------------------------------------
(* Arithmetic of rounding. *)

\* Quotient and remainder, as the solver knows them.
LEMMA DivMod ==
  ASSUME NEW N \in Nat \ {0}, NEW i \in Nat
  PROVE  /\ i \div N \in Int
         /\ i % N \in 0 .. N - 1
         /\ i = N * (i \div N) + (i % N)
OBVIOUS

\* Less than the modulus is left as it is.
LEMMA ModSmall ==
  ASSUME NEW N \in Nat \ {0}, NEW i \in Nat, i < N
  PROVE  i % N = i
OBVIOUS

\* Rounding up to a multiple does not go below.
LEMMA RoundsUp ==
  ASSUME NEW a \in Nat \ {0}, NEW v \in Nat
  PROVE  /\ ((v + a - 1) \div a) * a \in Int
         /\ v <= ((v + a - 1) \div a) * a
         /\ ((v + a - 1) \div a) * a < v + a
<1> DEFINE i == v + a - 1
<1> DEFINE q == i \div a
<1>1. i \in Nat  OBVIOUS
<1>2. /\ q \in Int
      /\ i % a \in 0 .. a - 1
      /\ i = a * q + (i % a)
  BY <1>1, DivMod
<1>3. q * a = a * q  BY <1>2
<1>4. v <= a * q  BY <1>2
<1>5. a * q < v + a  BY <1>2
<1>6. a * q \in Int  BY <1>2
<1> QED  BY <1>3, <1>4, <1>5, <1>6

-----------------------------------------------------------------------------
(* The heap. *)

HeapInv ==
  /\ heap_used \in 0 .. HEAP_SIZE
  /\ heapBlocks \subseteq KernelArena!Blocks
  /\ \A b \in heapBlocks : b.start + b.size <= heap_used

\* Before the kernel is up nobody has a block.
NoBlocks == boot \notin {"idle", "panic"} => heapBlocks = {}

\* A block that is handed out begins where the used part ends, or behind it.
LEMMA KmallocAllocates ==
  ASSUME HeapInv, NEW size \in Nat, NEW align \in Nat,
         size + HEAP_SIZE + MinAlign <= SizeWidth,
         size + HEAP_SIZE + align <= SizeWidth,
         KmallocAligned(size, align)
  PROVE  HeapInv' /\ [KernelArena!Allocate]_heapBlocks
<1> DEFINE al == IF align < MinAlign THEN MinAlign ELSE align
<1> DEFINE start == align_up(heap_used, al)
<1> DEFINE end == (start + size) % SizeWidth
<1>1. /\ al \in Nat \ {0}
      /\ size + HEAP_SIZE + al <= SizeWidth
  BY HeapSizes
<1>2. /\ heap_used \in Nat /\ heap_used <= HEAP_SIZE
      /\ HEAP_SIZE \in Nat /\ SizeWidth \in Nat
  BY HeapSizes DEF HeapInv
<1> HIDE DEF al
<1>3. (heap_used + al - 1) % SizeWidth = heap_used + al - 1
  <2>1. heap_used + al - 1 \in Nat /\ heap_used + al - 1 < SizeWidth  BY <1>1, <1>2
  <2> QED  BY <2>1, <1>2, ModSmall
<1>4. start = ((heap_used + al - 1) \div al) * al
  BY <1>3 DEF align_up
<1>5. start \in Int /\ heap_used <= start /\ start < heap_used + al
  BY <1>1, <1>2, <1>4, RoundsUp
<1> HIDE DEF start
<1>6. end = start + size
  <2>1. start + size \in Nat /\ start + size < SizeWidth  BY <1>1, <1>2, <1>5
  <2> QED  BY <2>1, <1>2, ModSmall
<1>7. CASE UNCHANGED heapVars
  BY <1>7 DEF HeapInv, heapVars
<1>8. CASE /\ end <= HEAP_SIZE
           /\ heap_used' = end
           /\ heapBlocks' = heapBlocks \cup {[start |-> start, size |-> size]}
  <2> DEFINE new == [start |-> start, size |-> size]
  <2>1. start \in Nat /\ new \in KernelArena!Blocks
    BY <1>2, <1>5 DEF KernelArena!Blocks
  <2>2. new.start = start /\ new.size = size /\ new.start + new.size = end
    BY <1>6
  <2>3. heap_used' \in 0 .. HEAP_SIZE /\ heap_used <= heap_used'
    BY <1>8, <1>2, <1>5, <1>6, <2>1
  <2>4. \A b \in heapBlocks : b.start + b.size <= start
    BY <1>2, <1>5, <2>1 DEF HeapInv, KernelArena!Blocks
  <2> HIDE DEF new
  <2>5. \A b \in heapBlocks : b.start + b.size <= heap_used'
    BY <1>2, <2>3 DEF HeapInv, KernelArena!Blocks
  <2>6. HeapInv'
    <3>1. \A b \in heapBlocks' : b.start + b.size <= heap_used'
      BY <1>8, <2>2, <2>3, <2>5 DEF new
    <3> QED  BY <1>8, <2>1, <2>3, <3>1 DEF HeapInv, new
  <2>7. \A b \in heapBlocks : KernelArena!Bytes(new) \cap KernelArena!Bytes(b) = {}
    <3> SUFFICES ASSUME NEW b \in heapBlocks
                 PROVE  KernelArena!Bytes(new) \cap KernelArena!Bytes(b) = {}
      OBVIOUS
    <3>1. b.start \in Nat /\ b.size \in Nat /\ b.start + b.size <= start
      BY <2>4 DEF HeapInv, KernelArena!Blocks
    <3> QED  BY <3>1, <2>1, <2>2 DEF KernelArena!Bytes
  <2>8. CASE new \in heapBlocks
    <3>1. heapBlocks' = heapBlocks  BY <1>8, <2>8 DEF new
    <3> QED  BY <3>1, <2>6
  <2>9. CASE new \notin heapBlocks
    <3>1. new \in heapBlocks' \ heapBlocks /\ heapBlocks' = heapBlocks \cup {new}
      BY <1>8, <2>9 DEF new
    <3>2. new.start + new.size <= HEAP_SIZE  BY <1>8, <2>2
    <3>3. KernelArena!Fits(new)  BY <3>2, <2>7 DEF KernelArena!Fits
    <3>4. KernelArena!Allocate  BY <3>1, <3>3, <2>1 DEF KernelArena!Allocate
    <3> QED  BY <3>4, <2>6
  <2> QED  BY <2>8, <2>9
<1>9. \/ UNCHANGED heapVars
      \/ /\ ~(end > HEAP_SIZE)
         /\ heap_used' = end
         /\ heapBlocks' = heapBlocks \cup {[start |-> start, size |-> size]}
  BY DEF KmallocAligned, al, start
<1>10. end \in Int  BY <1>5, <1>6
<1> HIDE DEF end
<1>11. ~(end > HEAP_SIZE) => end <= HEAP_SIZE  BY <1>2, <1>10
<1> QED  BY <1>7, <1>8, <1>9, <1>11

LEMMA HeapCallAllocates ==
  ASSUME HeapInv, HeapCall
  PROVE  HeapInv' /\ [KernelArena!Allocate]_heapBlocks
<1>1. PICK size \in Sizes : \/ Kmalloc(size)
                            \/ Krealloc(size)
                            \/ \E align \in Aligns : KmallocAligned(size, align)
  BY DEF HeapCall
<1>2. /\ size \in Nat /\ MinAlign \in Nat
      /\ size + HEAP_SIZE + MinAlign <= SizeWidth
  BY HeapSizes
<1>3. CASE KmallocAligned(size, MinAlign)
  BY <1>2, <1>3, KmallocAllocates
<1>4. ASSUME NEW align \in Aligns, KmallocAligned(size, align)
      PROVE  HeapInv' /\ [KernelArena!Allocate]_heapBlocks
  <2>1. align \in Nat /\ size + HEAP_SIZE + align <= SizeWidth  BY HeapSizes
  <2> QED  BY <1>2, <1>4, <2>1, KmallocAllocates
<1> QED  BY <1>1, <1>3, <1>4 DEF Kmalloc, Krealloc

\* What a step does to the heap, seen from the kernel.
LEMMA HeapSteps ==
  ASSUME [Next]_vars
  PROVE  \/ UNCHANGED heapVars /\ (NoBlocks => NoBlocks')
         \/ boot = "heap" /\ boot' = "scheduler" /\ HeapInit
         \/ boot = "idle" /\ boot' = "idle" /\ HeapCall
<1>1. CASE Boot
  BY <1>1 DEF Boot, BootConsole, BootCheck, BootPanic, BootGdt, BootIdt, BootPmm, BootVmm,
     BootHeap, BootScheduler, Boots, OthersThanConsole, OthersThanInterrupts,
     OthersThanMemory, OthersThanTasks, heapVars, NoBlocks
<1>2. CASE Step
  BY <1>2 DEF Step, OthersThanMemory, OthersThanVfs, OthersThanConsole,
     OthersThanInterrupts, Goes, kernelVars, heapVars, NoBlocks
<1>3. CASE Call
  BY <1>3 DEF Call, CallMemory, CallHeap, CallVfs, CallTasks, CallInterrupts, CallPrint,
     CallPanic, Calls, OthersThanMemory, OthersThanVfs, OthersThanConsole,
     OthersThanTasks, OthersThanInterrupts, heapVars, NoBlocks
<1>4. CASE UNCHANGED vars
  BY <1>4 DEF vars, kernelVars, heapVars, NoBlocks
<1>5. CASE Interrupt \/ Handler
  BY <1>5 DEF Interrupt, Handler, OthersThanInterrupts, Goes, kernelVars, heapVars, NoBlocks
<1> QED  BY <1>1, <1>2, <1>3, <1>4, <1>5 DEF Next

\* Every block of the kernel's heap lies in it and apart from the others.
THEOREM HeapCorrect == Spec => HeapImplementsArena
<1>1. Init => HeapInv /\ NoBlocks /\ KernelArena!Init
  <2> SUFFICES ASSUME Init  PROVE HeapInv /\ NoBlocks /\ KernelArena!Init
    OBVIOUS
  <2>1. heap_used = 0 /\ heapBlocks = {}  BY DEF Init, KernelHeapInit
  <2>2. HEAP_SIZE \in Nat  BY HeapSizes
  <2> QED  BY <2>1, <2>2 DEF HeapInv, NoBlocks, KernelArena!Init
<1>2. HeapInv /\ NoBlocks /\ [Next]_vars =>
         HeapInv' /\ NoBlocks' /\ [KernelArena!Allocate]_heapBlocks
  <2> SUFFICES ASSUME HeapInv, NoBlocks, [Next]_vars
               PROVE  HeapInv' /\ NoBlocks' /\ [KernelArena!Allocate]_heapBlocks
    OBVIOUS
  <2>1. CASE UNCHANGED heapVars /\ (NoBlocks => NoBlocks')
    BY <2>1 DEF HeapInv, heapVars
  <2>2. CASE boot = "heap" /\ boot' = "scheduler" /\ HeapInit
    <3>1. heap_used' = 0 /\ heapBlocks = {} /\ heapBlocks' = heapBlocks
      BY <2>2 DEF HeapInit, NoBlocks
    <3>2. HEAP_SIZE \in Nat  BY HeapSizes
    <3> QED  BY <3>1, <3>2 DEF HeapInv, NoBlocks
  <2>3. CASE boot = "idle" /\ boot' = "idle" /\ HeapCall
    <3>1. NoBlocks'  BY <2>3 DEF NoBlocks
    <3> QED  BY <2>3, <3>1, HeapCallAllocates
  <2> QED  BY <2>1, <2>2, <2>3, HeapSteps
<1> QED  BY <1>1, <1>2, PTL DEF Spec, HeapImplementsArena, KernelArena!Spec

(* What the arena's promise comes to, call after call: a driver's block    *)
(* lies in the heap and no two drivers ever hold the same byte, whichever  *)
(* sizes and alignments they asked for.                                    *)
HeapApart ==
  /\ \A b \in heapBlocks : b \in KernelArena!Blocks /\ b.start + b.size <= HEAP_SIZE
  /\ \A b, c \in heapBlocks : b # c => KernelArena!Bytes(b) \cap KernelArena!Bytes(c) = {}

\* kmalloc keeps the blocks of all its callers apart.
THEOREM HeapBlocksApart == Spec => []HeapApart
<1>1. KernelArena!Init => HeapApart  BY DEF KernelArena!Init, HeapApart
<1>2. HeapApart /\ [KernelArena!Allocate]_heapBlocks => HeapApart'
  <2> SUFFICES ASSUME HeapApart, KernelArena!Allocate  PROVE HeapApart'
    BY DEF HeapApart
  <2>1. PICK new \in heapBlocks' \ heapBlocks :
          /\ new \in KernelArena!Blocks /\ KernelArena!Fits(new)
          /\ heapBlocks' = heapBlocks \cup {new}
    BY DEF KernelArena!Allocate
  <2>2. new.start + new.size <= HEAP_SIZE  BY <2>1 DEF KernelArena!Fits
  <2>3. \A b \in heapBlocks : KernelArena!Bytes(new) \cap KernelArena!Bytes(b) = {}
    BY <2>1 DEF KernelArena!Fits
  <2>4. \A b, c \in heapBlocks' :
           b # c => KernelArena!Bytes(b) \cap KernelArena!Bytes(c) = {}
    BY <2>1, <2>3 DEF HeapApart
  <2> QED  BY <2>1, <2>2, <2>4 DEF HeapApart
<1> QED  BY <1>1, <1>2, HeapCorrect, PTL DEF HeapImplementsArena, KernelArena!Spec

-----------------------------------------------------------------------------
(* Tasks. *)

TasksTyped ==
  /\ taskState \in [TaskSlots -> {"running", "ready", "stopped", "zombie"}]
  /\ pid \in [TaskSlots -> Nat]
  /\ created \in Seq(TaskSlots)
  /\ current_task \in {NoTask, 0}

TasksInv == TasksTyped /\ SlotsKept

\* Before the kernel is up nobody has a task.
NoTasks == boot \notin {"idle", "panic"} => created = <<>>

LEMMA FirstSlot == 0 \in TaskSlots /\ 0 # NoTask
BY TaskSizes DEF TaskSlots

\* Slots found stopped are nobody's, so what was created stays apart.
LEMMA CreateKeepsSlots ==
  ASSUME TasksInv, TaskCreateKernel
  PROVE  TasksInv'
<1>1. CASE Stopped = {} /\ UNCHANGED <<taskState, pid, created>>
  BY <1>1 DEF TaskCreateKernel, TasksInv, TasksTyped, SlotsKept, Created
<1>2. ASSUME NEW t \in Stopped,
             pid' = [pid EXCEPT ![t] = t + 1],
             taskState' = [taskState EXCEPT ![t] = "ready"],
             created' = Append(created, t)
      PROVE  TasksInv'
  <2>1. /\ t \in TaskSlots /\ t \in Nat /\ taskState[t] = "stopped"
        /\ current_task' = current_task
    BY TaskSizes DEF Stopped, TaskSlots, TaskCreateKernel
  <2>2. TasksTyped'
    BY <1>2, <2>1 DEF TasksInv, TasksTyped
  <2>3. CASE current_task = NoTask
    BY <2>1, <2>2, <2>3 DEF TasksInv, SlotsKept
  <2>4. CASE current_task # NoTask
    <3>1. t \notin Created \cup {0}
      BY <2>1, <2>4 DEF TasksInv, SlotsKept
    <3>2. /\ DOMAIN created = 1 .. Len(created) /\ Len(created) \in Nat
          /\ DOMAIN created' = 1 .. Len(created) + 1
          /\ created'[Len(created) + 1] = t
          /\ \A i \in DOMAIN created : created'[i] = created[i]
      BY <1>2, <2>1 DEF TasksInv, TasksTyped
    <3>3. Created' = Created \cup {t}
      BY <3>2 DEF Created
    <3>4. \A i, j \in DOMAIN created' : created'[i] = created'[j] => i = j
      <4> SUFFICES ASSUME NEW i \in DOMAIN created', NEW j \in DOMAIN created',
                          created'[i] = created'[j]
                   PROVE  i = j
        OBVIOUS
      <4>1. CASE i \in DOMAIN created /\ j \in DOMAIN created
        BY <3>2, <4>1, <2>4 DEF TasksInv, SlotsKept
      <4>2. CASE i \notin DOMAIN created /\ j \notin DOMAIN created
        BY <3>2, <4>2
      <4>3. CASE i \in DOMAIN created /\ j \notin DOMAIN created
        <5>1. created'[i] \in Created /\ created'[j] = t  BY <3>2, <4>3 DEF Created
        <5> QED  BY <5>1, <3>1
      <4>4. CASE i \notin DOMAIN created /\ j \in DOMAIN created
        <5>1. created'[j] \in Created /\ created'[i] = t  BY <3>2, <4>4 DEF Created
        <5> QED  BY <5>1, <3>1
      <4> QED  BY <4>1, <4>2, <4>3, <4>4
    <3>5. 0 \notin Created'
      BY <3>1, <3>3, <2>4 DEF TasksInv, SlotsKept
    <3>6. ASSUME NEW u \in TaskSlots
          PROVE  /\ taskState'[u] = "stopped" <=> u \notin Created' \cup {0}
                 /\ pid'[u] = IF u \in Created' \cup {0} THEN u + 1 ELSE 0
      <4>1. CASE u = t
        BY <1>2, <2>1, <3>3, <4>1 DEF TasksInv, TasksTyped
      <4>2. CASE u # t
        BY <1>2, <2>1, <3>3, <4>2, <2>4 DEF TasksInv, TasksTyped, SlotsKept
      <4> QED  BY <4>1, <4>2
    <3> QED  BY <2>2, <3>4, <3>5, <3>6 DEF TasksInv, SlotsKept
  <2> QED  BY <2>3, <2>4
<1> QED  BY <1>1, <1>2 DEF TaskCreateKernel

\* A task that is ended keeps its slot.
LEMMA EndKeepsSlots ==
  ASSUME TasksInv, NEW t \in Created \cup {0}, EndTask(t)
  PROVE  TasksInv'
<1>1. TasksTyped'
  BY DEF TasksInv, TasksTyped, EndTask
<1>2. UNCHANGED <<pid, current_task, created>> /\ Created' = Created
  BY DEF EndTask, Created
<1>3. ASSUME current_task # NoTask, NEW u \in TaskSlots
      PROVE  taskState'[u] = "stopped" <=> u \notin Created \cup {0}
  BY <1>3 DEF TasksInv, TasksTyped, SlotsKept, EndTask
<1> QED  BY <1>1, <1>2, <1>3 DEF TasksInv, SlotsKept

LEMMA TaskCallKeepsSlots ==
  ASSUME TasksInv, TaskCall
  PROVE  TasksInv'
<1>1. CASE TaskCreateKernel  BY <1>1, CreateKeepsSlots
<1>2. CASE SchedulerTick
  BY <1>2 DEF SchedulerTick, TasksInv, TasksTyped, SlotsKept, Created
<1>3. CASE UNCHANGED taskVars
  BY <1>3 DEF taskVars, TasksInv, TasksTyped, SlotsKept, Created
<1>4. ASSUME NEW t \in Created \cup {NoTask, current_task}, NEW s \in Signals,
             SignalSend(t, s)
      PROVE  TasksInv'
  <2>1. t # NoTask => t \in Created \cup {0}  BY DEF TasksInv, TasksTyped
  <2> QED  BY <1>3, <1>4, <2>1, EndKeepsSlots DEF SignalSend
<1>5. ASSUME NEW n \in SyscallNumbers, SyscallDispatch(n)
      PROVE  TasksInv'
  <2>1. current_task # NoTask => current_task \in Created \cup {0}
    BY DEF TasksInv, TasksTyped
  <2> QED  BY <1>3, <1>5, <2>1, EndKeepsSlots DEF SyscallDispatch
<1> QED  BY <1>1, <1>2, <1>3, <1>4, <1>5 DEF TaskCall, SchedulerYield, WaitForChild

\* What a step does to the tasks, seen from the kernel.
LEMMA TaskSteps ==
  ASSUME [Next]_vars
  PROVE  \/ UNCHANGED taskVars /\ (NoTasks => NoTasks')
         \/ boot = "scheduler" /\ boot' = "idle" /\ SchedulerInit
         \/ boot = "idle" /\ boot' = "idle" /\ TaskCall
<1>1. CASE Boot
  BY <1>1 DEF Boot, BootConsole, BootCheck, BootPanic, BootGdt, BootIdt, BootPmm, BootVmm,
     BootHeap, BootScheduler, Boots, OthersThanConsole, OthersThanInterrupts,
     OthersThanMemory, OthersThanHeap, taskVars, NoTasks
<1>2. CASE Step
  BY <1>2 DEF Step, OthersThanMemory, OthersThanVfs, OthersThanConsole,
     OthersThanInterrupts, Goes, kernelVars, taskVars, NoTasks
<1>3. CASE Call
  BY <1>3 DEF Call, CallMemory, CallHeap, CallVfs, CallTasks, CallInterrupts, CallPrint,
     CallPanic, Calls, OthersThanMemory, OthersThanVfs, OthersThanConsole,
     OthersThanHeap, OthersThanInterrupts, taskVars, NoTasks
<1>4. CASE UNCHANGED vars
  BY <1>4 DEF vars, kernelVars, taskVars, NoTasks
<1>5. CASE Interrupt \/ Handler
  BY <1>5 DEF Interrupt, Handler, OthersThanInterrupts, Goes, kernelVars, taskVars, NoTasks
<1> QED  BY <1>1, <1>2, <1>3, <1>4, <1>5 DEF Next

\* No slot is handed out twice, whatever ends in between.
THEOREM SlotsCorrect == Spec => []SlotsKept
<1>1. Init => TasksInv /\ NoTasks
  <2> SUFFICES ASSUME Init  PROVE TasksInv /\ NoTasks
    OBVIOUS
  <2>1. TasksStart  BY DEF Init
  <2>2. created = <<>> /\ <<>> \in Seq(TaskSlots)  BY <2>1 DEF TasksStart
  <2> QED  BY <2>1, <2>2 DEF TasksStart, TasksInv, TasksTyped, SlotsKept, NoTasks
<1>2. TasksInv /\ NoTasks /\ [Next]_vars => TasksInv' /\ NoTasks'
  <2> SUFFICES ASSUME TasksInv, NoTasks, [Next]_vars  PROVE TasksInv' /\ NoTasks'
    OBVIOUS
  <2>1. CASE UNCHANGED taskVars /\ (NoTasks => NoTasks')
    BY <2>1 DEF taskVars, TasksInv, TasksTyped, SlotsKept, Created
  <2>2. CASE boot = "scheduler" /\ boot' = "idle" /\ SchedulerInit
    <3>1. created = <<>> /\ created' = <<>> /\ Created' = {}
      BY <2>2 DEF NoTasks, SchedulerInit, Created
    <3>2. TasksTyped'
      BY <2>2, <3>1 DEF SchedulerInit, TasksInv, TasksTyped
    <3>3. ASSUME NEW u \in TaskSlots
          PROVE  /\ taskState'[u] = "stopped" <=> u \notin {0}
                 /\ pid'[u] = IF u \in {0} THEN u + 1 ELSE 0
      BY <2>2 DEF SchedulerInit
    <3> QED  BY <2>2, <3>1, <3>2, <3>3 DEF TasksInv, SlotsKept, NoTasks
  <2>3. CASE boot = "idle" /\ boot' = "idle" /\ TaskCall
    BY <2>3, TaskCallKeepsSlots DEF NoTasks
  <2> QED  BY <2>1, <2>2, <2>3, TaskSteps
<1>3. TasksInv => SlotsKept  BY DEF TasksInv
<1> QED  BY <1>1, <1>2, <1>3, PTL DEF Spec
-----------------------------------------------------------------------------
(* The early console. *)

\* What is drawn at a lies wholly above b, or before it on the same line.
Precedes(a, b) ==
  \/ a[2] + 10 <= b[2]
  \/ a[2] = b[2] /\ a[1] + 7 <= b[1]

OnScreen(a, s) == a[1] + 5 <= s.width /\ a[2] + 7 <= s.height

ScreenOK ==
  /\ screen \in [width : Nat, height : Nat, usable : BOOLEAN]
  /\ usable \in BOOLEAN
  /\ usable => screen.width > 31 /\ screen.height > 8

CursorOK ==
  /\ cursor_x \in Nat /\ cursor_y \in Nat
  /\ usable => cursor_x + 7 < screen.width

GlyphsOK ==
  /\ glyphs \in Seq(Nat \X Nat)
  /\ ~usable => glyphs = <<>>
  /\ \A i \in 1 .. Len(glyphs) :
        OnScreen(glyphs[i], screen) /\ Precedes(glyphs[i], <<cursor_x, cursor_y>>)
  /\ \A i, j \in 1 .. Len(glyphs) : i < j => Precedes(glyphs[i], glyphs[j])

ConsoleInv == ScreenOK /\ CursorOK /\ GlyphsOK

\* The console is taken over once, before anything is printed.
NotYet == boot = "console" => ~usable /\ boot_info \in BootInfos

LEMMA EmptyGlyphs ==
  /\ <<>> \in Seq(Nat \X Nat) /\ Len(<<>>) = 0
  /\ \A i \in 1 .. Len(<<>>) : FALSE
OBVIOUS

LEMMA PairOf ==
  ASSUME NEW p \in Nat \X Nat
  PROVE  p[1] \in Nat /\ p[2] \in Nat
OBVIOUS

LEMMA PrecedesOn ==
  ASSUME NEW a \in Nat \X Nat, NEW x \in Nat, NEW y \in Nat, NEW u \in Nat, NEW v \in Nat,
         Precedes(a, <<x, y>>), v >= y + 10 \/ (v = y /\ u >= x)
  PROVE  Precedes(a, <<u, v>>)
<1>1. a[1] \in Nat /\ a[2] \in Nat  BY PairOf
<1>2. a[2] + 10 <= y \/ (a[2] = y /\ a[1] + 7 <= x)  BY DEF Precedes
<1>3. a[2] + 10 <= v \/ (a[2] = v /\ a[1] + 7 <= u)  BY <1>1, <1>2
<1> QED  BY <1>3 DEF Precedes

\* The cursor only moves on, so what precedes it still does.
LEMMA CursorMovesOn ==
  ASSUME ConsoleInv, UNCHANGED <<screen, usable, glyphs>>,
         cursor_x' \in Nat, cursor_y' \in Nat,
         usable => cursor_x' + 7 < screen.width,
         \/ cursor_y' >= cursor_y + 10
         \/ cursor_y' = cursor_y /\ cursor_x' >= cursor_x
  PROVE  ConsoleInv'
<1>1. ScreenOK' /\ CursorOK'
  BY DEF ConsoleInv, ScreenOK, CursorOK
<1>2. ASSUME NEW i \in 1 .. Len(glyphs)
      PROVE  /\ OnScreen(glyphs[i], screen')
             /\ Precedes(glyphs[i], <<cursor_x', cursor_y'>>)
  <2>1. /\ glyphs[i] \in Nat \X Nat
        /\ Precedes(glyphs[i], <<cursor_x, cursor_y>>)
        /\ OnScreen(glyphs[i], screen)
    BY ElementOfSeq DEF ConsoleInv, GlyphsOK
  <2>2. cursor_x \in Nat /\ cursor_y \in Nat
    BY DEF ConsoleInv, CursorOK
  <2>3. Precedes(glyphs[i], <<cursor_x', cursor_y'>>)
    BY <2>1, <2>2, PrecedesOn
  <2> QED  BY <2>1, <2>3
<1> QED  BY <1>1, <1>2 DEF ConsoleInv, GlyphsOK

\* A glyph is drawn where nothing is, and the cursor goes on behind it.
LEMMA GlyphFits ==
  ASSUME ScreenOK, GlyphsOK, usable, UNCHANGED <<screen, usable>>,
         cursor_x \in Nat, cursor_y \in Nat,
         NEW shown \in Seq(Nat \X Nat), NEW x \in Nat, NEW y \in Nat,
         \A i \in 1 .. Len(shown) : OnScreen(shown[i], screen) /\ Precedes(shown[i], <<x, y>>),
         \A i, j \in 1 .. Len(shown) : i < j => Precedes(shown[i], shown[j]),
         OnScreen(<<x, y>>, screen),
         glyphs' \in {shown, Append(shown, <<x, y>>)},
         cursor_x' \in Nat, cursor_y' \in Nat,
         \/ cursor_y' = y /\ cursor_x' = x + 7
         \/ cursor_y' = y + 10 /\ cursor_x' = 0
  PROVE  GlyphsOK'
<1> DEFINE next == <<cursor_x', cursor_y'>>
<1>1. Precedes(<<x, y>>, next)
  BY DEF Precedes
<1>2. ASSUME NEW i \in 1 .. Len(shown)
      PROVE  Precedes(shown[i], next) /\ OnScreen(shown[i], screen)
  <2>1. shown[i] \in Nat \X Nat /\ Precedes(shown[i], <<x, y>>)
    BY ElementOfSeq
  <2>2. \/ cursor_y' >= y + 10
        \/ cursor_y' = y /\ cursor_x' >= x
    OBVIOUS
  <2>3. Precedes(shown[i], next)  BY <2>1, <2>2, PrecedesOn
  <2> QED  BY <2>3
<1>4. CASE glyphs' = shown
  BY <1>2, <1>4 DEF GlyphsOK
<1>5. CASE glyphs' = Append(shown, <<x, y>>)
  <2>1. /\ Len(shown) \in Nat /\ glyphs' \in Seq(Nat \X Nat)
        /\ Len(glyphs') = Len(shown) + 1
        /\ \A i \in 1 .. Len(shown) : glyphs'[i] = shown[i]
        /\ glyphs'[Len(shown) + 1] = <<x, y>>
    BY <1>5
  <2>2. ASSUME NEW i \in 1 .. Len(glyphs')
        PROVE  OnScreen(glyphs'[i], screen) /\ Precedes(glyphs'[i], next)
    <3>1. CASE i \in 1 .. Len(shown)  BY <1>2, <2>1, <3>1
    <3>2. CASE i = Len(shown) + 1  BY <1>1, <2>1, <3>2
    <3> QED  BY <2>1, <3>1, <3>2
  <2>3. ASSUME NEW i \in 1 .. Len(glyphs'), NEW j \in 1 .. Len(glyphs'), i < j
        PROVE  Precedes(glyphs'[i], glyphs'[j])
    <3>1. i \in 1 .. Len(shown)  BY <2>1, <2>3
    <3>2. CASE j \in 1 .. Len(shown)  BY <2>1, <2>3, <3>1, <3>2
    <3>3. CASE j = Len(shown) + 1  BY <2>1, <3>1, <3>3
    <3> QED  BY <2>1, <3>2, <3>3
  <2> QED  BY <2>1, <2>2, <2>3 DEF GlyphsOK
<1> QED  BY <1>4, <1>5

LEMMA NewlineKeeps ==
  ASSUME ConsoleInv, DrawNewline
  PROVE  ConsoleInv'
<1>1. /\ cursor_x' = 0 /\ cursor_y' = cursor_y + 10
      /\ UNCHANGED <<screen, usable, glyphs>>
  BY DEF DrawNewline
<1>2. /\ cursor_x' \in Nat /\ cursor_y' \in Nat
      /\ usable => cursor_x' + 7 < screen.width
      /\ cursor_y' >= cursor_y + 10
  BY <1>1 DEF ConsoleInv, CursorOK, ScreenOK
<1> QED  BY <1>1, <1>2, CursorMovesOn

LEMMA CharKeeps ==
  ASSUME ConsoleInv, DrawChar
  PROVE  ConsoleInv'
<1> DEFINE wraps == cursor_y + 8 >= screen.height
<1> DEFINE x == IF wraps THEN 0 ELSE cursor_x
<1> DEFINE y == IF wraps THEN 0 ELSE cursor_y
<1> DEFINE shown == IF wraps THEN <<>> ELSE glyphs
<1> DEFINE full == x + 7 + 7 >= screen.width
<1>1. /\ glyphs' = IF usable /\ Head(printing) = "glyph"
                   THEN Append(shown, <<x, y>>) ELSE shown
      /\ cursor_x' = (IF full THEN 0 ELSE x + 7)
      /\ cursor_y' = (IF full THEN y + 10 ELSE y)
      /\ UNCHANGED <<screen, usable>>
  BY DEF DrawChar
<1>2. /\ cursor_x \in Nat /\ cursor_y \in Nat
      /\ screen.width \in Nat /\ screen.height \in Nat
      /\ glyphs \in Seq(Nat \X Nat)
      /\ usable => cursor_x + 7 < screen.width
      /\ usable => screen.width > 31 /\ screen.height > 8
  BY DEF ConsoleInv, ScreenOK, CursorOK, GlyphsOK
<1>3. /\ x \in Nat /\ y \in Nat
      /\ usable => x + 7 < screen.width /\ y + 8 <= screen.height
  BY <1>2
<1>4. /\ shown \in Seq(Nat \X Nat)
      /\ \A i \in 1 .. Len(shown) : OnScreen(shown[i], screen) /\ Precedes(shown[i], <<x, y>>)
      /\ \A i, j \in 1 .. Len(shown) : i < j => Precedes(shown[i], shown[j])
  <2>1. CASE wraps
    BY <2>1, EmptyGlyphs
  <2>2. CASE ~wraps
    BY <2>2 DEF ConsoleInv, GlyphsOK
  <2> QED  BY <2>1, <2>2
<1>5. ~usable => shown = <<>>
  BY DEF ConsoleInv, GlyphsOK
<1> HIDE DEF wraps, shown
<1>6. /\ cursor_x' \in Nat /\ cursor_y' \in Nat
      /\ usable => cursor_x' + 7 < screen.width
      /\ \/ cursor_y' = y /\ cursor_x' = x + 7
         \/ cursor_y' = y + 10 /\ cursor_x' = 0
  <2> HIDE DEF x, y
  <2> QED  BY <1>1, <1>2, <1>3
<1>7. ScreenOK' /\ CursorOK'
  BY <1>1, <1>6 DEF ConsoleInv, ScreenOK, CursorOK
<1>8. CASE usable
  <2> HIDE DEF x, y, full
  <2>1. OnScreen(<<x, y>>, screen)  BY <1>2, <1>3, <1>8 DEF OnScreen
  <2>2. glyphs' \in {shown, Append(shown, <<x, y>>)}  BY <1>1
  <2>3. ScreenOK /\ GlyphsOK  BY DEF ConsoleInv
  <2>4. GlyphsOK'
    BY <1>1, <1>2, <1>3, <1>4, <1>6, <1>8, <2>1, <2>2, <2>3, GlyphFits
  <2> QED  BY <1>7, <2>4 DEF ConsoleInv
<1>9. CASE ~usable
  <2>1. glyphs' = <<>> /\ ~usable'  BY <1>1, <1>5, <1>9
  <2> QED  BY <1>7, <2>1, EmptyGlyphs DEF ConsoleInv, GlyphsOK
<1> QED  BY <1>8, <1>9

LEMMA PanicKeeps ==
  ASSUME ConsoleInv, KernelPanic
  PROVE  ConsoleInv'
<1>1. /\ glyphs' = <<>> /\ cursor_x' = 24 /\ cursor_y' = 24
      /\ UNCHANGED <<screen, usable>>
  BY DEF KernelPanic
<1>2. ScreenOK'  BY <1>1 DEF ConsoleInv, ScreenOK
<1>3. CursorOK'  BY <1>1 DEF ConsoleInv, ScreenOK, CursorOK
<1>4. GlyphsOK'  BY <1>1, EmptyGlyphs DEF GlyphsOK
<1> QED  BY <1>2, <1>3, <1>4 DEF ConsoleInv

LEMMA TakeOverKeeps ==
  ASSUME ConsoleInv, ~usable, NEW s \in Screens \cup {NoScreen}, EarlyConsoleInit(s)
  PROVE  ConsoleInv'
<1>1. glyphs' = <<>>  BY DEF EarlyConsoleInit, ConsoleInv, GlyphsOK
<1>2. GlyphsOK'  BY <1>1, EmptyGlyphs DEF GlyphsOK
<1>3. CASE s.usable
  <2>1. s \in Screens  BY <1>3 DEF NoScreen
  <2>2. /\ s \in [width : Nat, height : Nat, usable : BOOLEAN]
        /\ s.width > 31 /\ s.height > 8
    BY <1>3, <2>1, ScreenSizes
  <2>3. screen' = s /\ usable' = TRUE /\ cursor_x' = 16 /\ cursor_y' = 16
    BY <1>3 DEF EarlyConsoleInit
  <2> QED  BY <1>2, <2>2, <2>3 DEF ConsoleInv, ScreenOK, CursorOK
<1>4. CASE ~s.usable
  BY <1>2, <1>4 DEF EarlyConsoleInit, ConsoleInv, ScreenOK, CursorOK
<1> QED  BY <1>3, <1>4

\* What a step does to the console, seen from the kernel.
LEMMA ConsoleSteps ==
  ASSUME [Next]_vars
  PROVE  \/ UNCHANGED <<screen, usable, cursor_x, cursor_y, glyphs>> /\ (NotYet => NotYet')
         \/ BootConsole
         \/ boot' # "console" /\ KernelPanic
         \/ boot' = boot /\ boot_info' = boot_info /\ UNCHANGED usable /\ PrintStep
<1>1. CASE Boot
  BY <1>1 DEF Boot, BootCheck, BootPanic, BootGdt, BootIdt, BootPmm, BootVmm,
     BootHeap, BootScheduler, Boots, EarlyPuts, OthersThanTasks, OthersThanInterrupts,
     OthersThanMemory, OthersThanHeap, conVars, NotYet
<1>2. CASE Step
  BY <1>2 DEF Step, OthersThanMemory, OthersThanVfs, OthersThanInterrupts, Goes,
     kernelVars, conVars, NotYet, PrintStep, DrawNewline, DrawChar
<1>3. CASE Call
  BY <1>3 DEF Call, CallMemory, CallHeap, CallVfs, CallTasks, CallInterrupts, CallPrint,
     CallPanic, Calls, EarlyPuts, OthersThanMemory, OthersThanVfs, OthersThanTasks,
     OthersThanHeap, OthersThanInterrupts, conVars, NotYet
<1>4. CASE UNCHANGED vars
  BY <1>4 DEF vars, kernelVars, conVars, NotYet
<1>5. CASE Interrupt \/ Handler
  BY <1>5 DEF Interrupt, Handler, OthersThanInterrupts, Goes, kernelVars, conVars, NotYet
<1> QED  BY <1>1, <1>2, <1>3, <1>4, <1>5 DEF Next

LEMMA ConsoleSettled ==
  ASSUME ConsoleInv, UNCHANGED <<screen, usable, cursor_x, cursor_y, glyphs>>
  PROVE  ConsoleInv'
<1>1. ScreenOK' /\ CursorOK'  BY DEF ConsoleInv, ScreenOK, CursorOK
<1>2. \A i \in 1 .. Len(glyphs) : OnScreen(glyphs[i], screen')
  BY DEF ConsoleInv, GlyphsOK, OnScreen
<1> QED  BY <1>1, <1>2 DEF ConsoleInv, GlyphsOK

\* Glyphs of which one precedes the other share no pixel.
LEMMA InOrderIsApart ==
  ASSUME NEW a \in Nat \X Nat, NEW b \in Nat \X Nat, Precedes(a, b)
  PROVE  ~Overlap(a, b) /\ ~Overlap(b, a)
BY DEF Precedes, Overlap

\* What is printed is on the screen, and nothing over anything else.
THEOREM TextCorrect == Spec => []ScreenText
<1>1. Init => ConsoleInv /\ NotYet
  <2> SUFFICES ASSUME Init  PROVE ConsoleInv /\ NotYet
    OBVIOUS
  <2>1. ConsoleStart /\ boot_info \in BootInfos  BY DEF Init
  <2>2. ScreenOK /\ CursorOK /\ ~usable  BY <2>1 DEF ConsoleStart, NoScreen, ScreenOK, CursorOK
  <2>3. GlyphsOK  BY <2>1, EmptyGlyphs DEF ConsoleStart, GlyphsOK
  <2> QED  BY <2>1, <2>2, <2>3 DEF ConsoleInv, NotYet
<1>2. ConsoleInv /\ NotYet /\ [Next]_vars => ConsoleInv' /\ NotYet'
  <2> SUFFICES ASSUME ConsoleInv, NotYet, [Next]_vars  PROVE ConsoleInv' /\ NotYet'
    OBVIOUS
  <2>1. CASE UNCHANGED <<screen, usable, cursor_x, cursor_y, glyphs>> /\ (NotYet => NotYet')
    BY <2>1, ConsoleSettled
  <2>2. CASE BootConsole
    <3>1. /\ boot = "console" /\ boot' = "check"
          /\ EarlyConsoleInit(IF boot_info = NoBootInfo THEN NoScreen ELSE boot_info.screen)
      BY <2>2 DEF BootConsole, Boots
    <3>2. ~usable /\ boot_info \in BootInfos  BY <3>1 DEF NotYet
    <3>3. boot_info # NoBootInfo => boot_info.screen \in Screens
      BY <3>2, ScaffoldValues
    <3>4. ConsoleInv'
      <4>1. CASE boot_info = NoBootInfo
        BY <3>1, <3>2, <4>1, TakeOverKeeps
      <4>2. CASE boot_info # NoBootInfo
        BY <3>1, <3>2, <3>3, <4>2, TakeOverKeeps
      <4> QED  BY <4>1, <4>2
    <3> QED  BY <3>1, <3>4 DEF NotYet
  <2>3. CASE boot' # "console" /\ KernelPanic
    BY <2>3, PanicKeeps DEF NotYet
  <2>4. CASE boot' = boot /\ boot_info' = boot_info /\ UNCHANGED usable /\ PrintStep
    <3>1. ConsoleInv'  BY <2>4, NewlineKeeps, CharKeeps DEF PrintStep
    <3>2. NotYet'  BY <2>4 DEF NotYet
    <3> QED  BY <3>1, <3>2
  <2> QED  BY <2>1, <2>2, <2>3, <2>4, ConsoleSteps
<1>3. ConsoleInv => ScreenText
  <2> SUFFICES ASSUME ConsoleInv  PROVE ScreenText
    OBVIOUS
  <2>1. /\ DOMAIN glyphs = 1 .. Len(glyphs) /\ Len(glyphs) \in Nat
        /\ \A i \in 1 .. Len(glyphs) : glyphs[i] \in Nat \X Nat
    BY DEF ConsoleInv, GlyphsOK
  <2>2. ASSUME NEW i \in 1 .. Len(glyphs), NEW j \in 1 .. Len(glyphs), i # j
        PROVE  ~Overlap(glyphs[i], glyphs[j])
    <3>1. CASE i < j
      BY <2>1, <3>1, InOrderIsApart DEF ConsoleInv, GlyphsOK
    <3>2. CASE j < i
      BY <2>1, <3>2, InOrderIsApart DEF ConsoleInv, GlyphsOK
    <3> QED  BY <2>2, <3>1, <3>2
  <2>3. \A i \in 1 .. Len(glyphs) :
           glyphs[i][1] + 5 <= screen.width /\ glyphs[i][2] + 7 <= screen.height
    BY DEF ConsoleInv, GlyphsOK, OnScreen
  <2> QED  BY <2>1, <2>2, <2>3 DEF ScreenText
<1> QED  BY <1>1, <1>2, <1>3, PTL DEF Spec
-----------------------------------------------------------------------------
(* The tree of files. *)

Kids(d) == { m \in 1 .. node_count - 1 : parent[m] = d }

Newest(c, S) == \/ c = 0 /\ S = {}
                \/ c \in S /\ \A m \in S : m <= c

TreeTyped ==
  /\ name \in [Slots -> Names] /\ parent \in [Slots -> Nat]
  /\ first_child \in [Slots -> Nat] /\ next_sibling \in [Slots -> Nat]
  /\ node_count \in 0 .. VFS_MAX_NODES
  /\ \A m \in 1 .. node_count - 1 : parent[m] \in 0 .. node_count - 1

\* A chain begins with the newest child and goes on with the next older one.
ChainsOK ==
  /\ \A d \in Slots : Newest(first_child[d], Kids(d))
  /\ \A n \in 1 .. node_count - 1 :
        Newest(next_sibling[n], { m \in Kids(parent[n]) : m < n })

\* t follows the first so many names of the path.
Follows(t, steps) ==
  /\ t \in [0 .. Len(path) -> 0 .. node_count - 1]
  /\ t[0] = 0
  /\ \A k \in 1 .. steps : FT!Child(t[k - 1], path[k], t[k])

WalkOK ==
  /\ node_count > 0 /\ path \in Seq(Names) /\ segment \in 0 .. Len(path)
  /\ dir \in 0 .. node_count - 1 /\ child \in Kids(dir) \cup {0}
  /\ \E t : Follows(t, segment) /\ t[segment] = dir
  /\ \A t : Follows(t, segment) => t[segment] = dir
  /\ segment < Len(path) =>
        \A m \in Kids(dir) : m > child => name[m] # path[segment + 1]

FilesInv == TreeTyped /\ ChainsOK /\ (Looking => WalkOK)

\* A function on 1 .. n is a sequence of length n.
LEMMA FunctionIsSeq ==
  ASSUME NEW S, NEW n \in Nat, NEW f \in [1 .. n -> S]
  PROVE  f \in Seq(S) /\ Len(f) = n
OBVIOUS

\* Two sequences of the same length with the same elements are equal.
LEMMA SameSeq ==
  ASSUME NEW S, NEW s \in Seq(S), NEW t \in Seq(S), Len(s) = Len(t),
         \A i \in 1 .. Len(s) : s[i] = t[i]
  PROVE  s = t
OBVIOUS

Entry_ == [name : Names, parent : Nat]

LEMMA SlotsAre ==
  ASSUME TreeTyped
  PROVE  /\ VFS_MAX_NODES \in Nat \ {0} /\ node_count \in Nat
         /\ \A m \in 1 .. node_count - 1 : m \in Slots /\ m \in Nat
         /\ \A m \in 0 .. node_count - 1 : m \in Slots
BY VfsSizes DEF TreeTyped, Slots

LEMMA EntriesAre ==
  ASSUME TreeTyped
  PROVE  /\ entries \in Seq(Entry_)
         /\ node_count = 0 => entries = <<>>
         /\ node_count > 0 => Len(entries) = node_count - 1
         /\ \A i \in 1 .. node_count - 1 :
               entries[i].name = name[i] /\ entries[i].parent = parent[i]
<1>1. entries \in [1 .. node_count - 1 -> Entry_]
  <2>1. \A i \in 1 .. node_count - 1 : name[i] \in Names /\ parent[i] \in Nat
    BY SlotsAre DEF TreeTyped
  <2> QED  BY <2>1 DEF entries, Entry_
<1>2. \A i \in 1 .. node_count - 1 :
         entries[i].name = name[i] /\ entries[i].parent = parent[i]
  BY DEF entries
<1>3. CASE node_count = 0
  <2>1. 1 .. node_count - 1 = 1 .. 0  BY <1>3
  <2>2. entries \in [1 .. 0 -> Entry_]  BY <1>1, <2>1
  <2>3. entries \in Seq(Entry_) /\ Len(entries) = 0  BY <2>2, FunctionIsSeq
  <2>4. entries = <<>>  BY <2>3, EmptySeq
  <2> QED  BY <1>2, <1>3, <2>3, <2>4
<1>4. CASE node_count > 0
  <2>1. node_count - 1 \in Nat  BY <1>4, SlotsAre
  <2>2. entries \in Seq(Entry_) /\ Len(entries) = node_count - 1
    BY <1>1, <2>1, FunctionIsSeq
  <2> QED  BY <1>2, <1>4, <2>2
<1> QED  BY <1>3, <1>4, SlotsAre

\* Children of a name, seen through the entries.
LEMMA ChildIs ==
  ASSUME TreeTyped, node_count > 0, NEW d, NEW n, NEW c
  PROVE  FT!Child(d, n, c) <=>
            /\ c \in Kids(d) /\ name[c] = n
            /\ \A m \in Kids(d) : name[m] = n => m <= c
<1>1. Len(entries) = node_count - 1
  BY EntriesAre
<1>2. FT!Same(d, n) = { m \in Kids(d) : name[m] = n }
  BY <1>1, EntriesAre DEF FT!Same, Kids
<1> QED  BY <1>2 DEF FT!Child

\* A new node is put in front of its parent's chain.
LEMMA CreateKeepsChains ==
  ASSUME TreeTyped, ChainsOK, NEW n \in Names, NEW p \in 0 .. node_count - 1,
         VfsCreateStatic(n, p)
  PROVE  /\ TreeTyped' /\ ChainsOK'
         /\ UNCHANGED entries \/ entries' = Append(entries, [name |-> copy_name(n), parent |-> p])
<1> DEFINE k == node_count
<1>1. /\ VFS_MAX_NODES \in Nat \ {0} /\ k \in Nat /\ k > 0 /\ p \in Nat /\ p < k
      /\ p \in Slots
      /\ copy_name(n) \in Names
  BY SlotsAre, VfsSizes DEF copy_name
<1>2. CASE UNCHANGED treeVars
  BY <1>2 DEF treeVars, TreeTyped, ChainsOK, Kids, entries
<1>3. CASE /\ k < VFS_MAX_NODES
           /\ name' = [name EXCEPT ![k] = copy_name(n)]
           /\ parent' = [parent EXCEPT ![k] = p]
           /\ next_sibling' = [next_sibling EXCEPT ![k] = first_child[p]]
           /\ first_child' = [first_child EXCEPT ![p] = k]
           /\ node_count' = k + 1
  <2>1. /\ k \in Slots
        /\ first_child[p] \in Nat
        /\ \A m \in 1 .. k - 1 : m # k /\ m \in Slots
        /\ \A m \in 1 .. k : m \in Slots /\ (m = k \/ m \in 1 .. k - 1)
    BY <1>1, <1>3 DEF Slots, TreeTyped
  <2>2. TreeTyped'
    <3>1. /\ name' \in [Slots -> Names] /\ parent' \in [Slots -> Nat]
          /\ first_child' \in [Slots -> Nat] /\ next_sibling' \in [Slots -> Nat]
          /\ node_count' \in 0 .. VFS_MAX_NODES /\ node_count' - 1 = k
      BY <1>1, <1>3, <2>1 DEF TreeTyped
    <3>2. ASSUME NEW m \in 1 .. k  PROVE parent'[m] \in 0 .. k
      BY <1>1, <1>3, <2>1 DEF TreeTyped
    <3> QED  BY <3>1, <3>2 DEF TreeTyped
  <2>3. ASSUME NEW d  PROVE Kids(d)' = IF d = p THEN Kids(d) \cup {k} ELSE Kids(d)
    <3>1. Kids(d)' = { m \in 1 .. k : parent'[m] = d }
      BY <1>1, <1>3 DEF Kids
    <3>2. /\ parent'[k] = p
          /\ \A m \in 1 .. k - 1 : parent'[m] = parent[m]
      BY <1>3, <2>1 DEF TreeTyped
    <3> QED  BY <1>1, <2>1, <3>1, <3>2 DEF Kids
  <2>4. \A d : \A m \in Kids(d) : m \in Nat /\ m < k
    BY <1>1 DEF Kids
  <2>5. ASSUME NEW d \in Slots  PROVE Newest(first_child'[d], Kids(d)')
    <3>1. CASE d = p
      <4>1. first_child'[d] = k /\ Kids(d)' = Kids(d) \cup {k}
        BY <1>3, <2>3, <3>1 DEF TreeTyped
      <4> QED  BY <1>1, <2>4, <4>1 DEF Newest
    <3>2. CASE d # p
      <4>1. first_child'[d] = first_child[d] /\ Kids(d)' = Kids(d)
        BY <1>3, <2>3, <3>2 DEF TreeTyped
      <4> QED  BY <4>1 DEF ChainsOK
    <3> QED  BY <3>1, <3>2
  <2>6. ASSUME NEW m \in 1 .. k, NEW q, parent'[m] = q
        PROVE  Newest(next_sibling'[m], { j \in Kids(q)' : j < m })
    <3>1. CASE m = k
      <4>1. q = p /\ next_sibling'[m] = first_child[p]
        BY <1>3, <2>1, <2>6, <3>1 DEF TreeTyped
      <4>2. { j \in Kids(p)' : j < k } = Kids(p)
        BY <1>1, <2>3, <2>4
      <4>3. Newest(first_child[p], Kids(p))  BY <1>1 DEF ChainsOK
      <4> QED  BY <3>1, <4>1, <4>2, <4>3
    <3>2. CASE m \in 1 .. k - 1
      <4>1. parent[m] = q /\ next_sibling'[m] = next_sibling[m] /\ m < k
        BY <1>1, <1>3, <2>1, <2>6, <3>2 DEF TreeTyped
      <4>2. { j \in Kids(q)' : j < m } = { j \in Kids(q) : j < m }
        BY <1>1, <2>3, <2>4, <4>1, <3>2
      <4>3. Newest(next_sibling[m], { j \in Kids(q) : j < m })
        BY <3>2, <4>1 DEF ChainsOK
      <4> QED  BY <4>1, <4>2, <4>3
    <3> QED  BY <2>1, <3>1, <3>2
  <2>7. ChainsOK'
    <3>1. node_count' - 1 = k  BY <1>1, <1>3
    <3>2. ASSUME NEW m \in 1 .. k
          PROVE  Newest(next_sibling[m], { j \in Kids(parent[m]) : j < m })'
      <4>1. PICK q : parent'[m] = q  OBVIOUS
      <4>2. Newest(next_sibling'[m], { j \in Kids(q)' : j < m })  BY <2>6, <4>1
      <4>3. Kids(parent[m])' = Kids(q)'  BY <4>1 DEF Kids
      <4> QED  BY <4>2, <4>3
    <3> QED  BY <2>5, <3>1, <3>2 DEF ChainsOK
  <2> DEFINE new == [name |-> copy_name(n), parent |-> p]
  <2>8. entries' = Append(entries, new)
    <3>1. new \in Entry_  BY <1>1 DEF Entry_
    <3>2. entries \in Seq(Entry_) /\ Len(entries) = k - 1
      BY <1>1, EntriesAre
    <3>3. entries' \in [1 .. k -> Entry_]
      <4>1. entries' = [i \in 1 .. k |-> [name |-> name'[i], parent |-> parent'[i]]]
        BY <1>1, <1>3 DEF entries
      <4>2. \A i \in 1 .. k : name'[i] \in Names /\ parent'[i] \in Nat
        BY <2>1, <2>2 DEF TreeTyped
      <4> QED  BY <4>1, <4>2 DEF Entry_
    <3>4. entries' \in Seq(Entry_) /\ Len(entries') = k
      BY <1>1, <3>3, FunctionIsSeq
    <3>5. \A i \in 1 .. k :
             entries'[i] = [name |-> name'[i], parent |-> parent'[i]]
      BY <1>1, <1>3 DEF entries
    <3>6. \A i \in 1 .. k - 1 :
             entries[i] = [name |-> name[i], parent |-> parent[i]]
      BY DEF entries
    <3> DEFINE grown == Append(entries, new)
    <3>7. grown \in Seq(Entry_) /\ Len(grown) = k
      BY <1>1, <3>1, <3>2
    <3>8. ASSUME NEW i \in 1 .. k  PROVE entries'[i] = grown[i]
      <4>1. CASE i = k
        <5>1. name'[k] = copy_name(n) /\ parent'[k] = p
          BY <1>3, <2>1 DEF TreeTyped
        <5>2. grown[k] = new
          BY <1>1, <3>1, <3>2, AppendProperties
        <5> QED  BY <3>5, <4>1, <5>1, <5>2
      <4>2. CASE i \in 1 .. k - 1
        <5>1. name'[i] = name[i] /\ parent'[i] = parent[i]
          BY <1>3, <2>1, <4>2 DEF TreeTyped
        <5>2. grown[i] = entries[i]
          BY <3>1, <3>2, <4>2, AppendProperties
        <5> QED  BY <3>5, <3>6, <4>2, <5>1, <5>2
      <4> QED  BY <2>1, <4>1, <4>2
    <3> HIDE DEF grown
    <3>9. entries' = grown  BY <3>4, <3>7, <3>8, SameSeq
    <3> QED  BY <3>9 DEF grown
  <2> QED  BY <2>2, <2>7, <2>8
<1>4. ~(k >= VFS_MAX_NODES) => k < VFS_MAX_NODES  BY <1>1
<1>5. \/ UNCHANGED treeVars
      \/ /\ ~(k >= VFS_MAX_NODES)
         /\ name' = [name EXCEPT ![k] = copy_name(n)]
         /\ parent' = [parent EXCEPT ![k] = p]
         /\ next_sibling' = [next_sibling EXCEPT ![k] = first_child[p]]
         /\ first_child' = [first_child EXCEPT ![p] = k]
         /\ node_count' = k + 1
  BY DEF VfsCreateStatic
<1> QED  BY <1>2, <1>3, <1>4, <1>5
\* A step that leaves the tree alone leaves the children alone.
LEMMA SameTree ==
  ASSUME UNCHANGED treeVars
  PROVE  /\ entries' = entries
         /\ \A d : Kids(d)' = Kids(d)
         /\ \A d, n, c : FT!Child(d, n, c)' <=> FT!Child(d, n, c)
         /\ TreeTyped /\ ChainsOK => TreeTyped' /\ ChainsOK'
<1>1. entries' = entries  BY DEF treeVars, entries
<1>2. \A d : Kids(d)' = Kids(d)  BY DEF treeVars, Kids
<1>3. \A d, n, c : FT!Child(d, n, c)' <=> FT!Child(d, n, c)
  BY <1>1 DEF FT!Child, FT!Same
<1>4. TreeTyped /\ ChainsOK => TreeTyped' /\ ChainsOK'
  BY DEF treeVars, TreeTyped, ChainsOK, Kids
<1> QED  BY <1>1, <1>2, <1>3, <1>4

LEMMA LookupStarts ==
  ASSUME TreeTyped, ChainsOK, node_count > 0, NEW p \in Paths, VfsLookup(p)
  PROVE  WalkOK'
<1>1. /\ path' = p /\ p \in Seq(Names) /\ Len(p) \in Nat
      /\ segment' = 0 /\ dir' = 0 /\ child' = first_child[0]
      /\ UNCHANGED treeVars /\ node_count' = node_count
  BY VfsSizes DEF VfsLookup, treeVars
<1>2. /\ node_count \in Nat /\ 0 \in Slots  BY SlotsAre
<1>3. Newest(first_child[0], Kids(0))  BY <1>2 DEF ChainsOK
<1>4. /\ child' \in Kids(0)' \cup {0}
      /\ \A m \in Kids(0)' : ~(m > child')
  <2>1. Kids(0)' = Kids(0)  BY <1>1, SameTree
  <2>2. \A m \in Kids(0) : m \in Nat  BY DEF Kids
  <2>3. first_child[0] \in Nat  BY <1>2 DEF TreeTyped
  <2> QED  BY <1>1, <1>3, <2>1, <2>2, <2>3 DEF Newest
<1>5. Follows([k \in 0 .. Len(p) |-> 0], 0)'
  BY <1>1, <1>2 DEF Follows
<1>6. \A t : Follows(t, 0)' => t[0] = 0
  BY DEF Follows
<1>7. \E t : Follows(t, 0)' /\ t[0] = 0
  BY <1>5, <1>6
<1> QED  BY <1>1, <1>2, <1>4, <1>6, <1>7 DEF WalkOK

LEMMA DescendWalks ==
  ASSUME TreeTyped, ChainsOK, WalkOK, Descend
  PROVE  WalkOK'
<1> DEFINE n == path[segment + 1]
<1>1. /\ segment < Len(path) /\ child # 0 /\ name[child] = n
      /\ segment' = segment + 1 /\ dir' = child /\ child' = first_child[child]
      /\ path' = path /\ UNCHANGED treeVars /\ node_count' = node_count
  BY DEF Descend, Matches, treeVars
<1>2. /\ segment \in Nat /\ Len(path) \in Nat /\ path \in Seq(Names)
      /\ segment' \in 0 .. Len(path) /\ node_count > 0
      /\ child \in Kids(dir) /\ child \in Nat
      /\ child \in 1 .. node_count - 1 /\ child \in Slots
      /\ \A m \in Kids(dir) : m \in Nat
  BY <1>1, SlotsAre DEF WalkOK, Kids
<1>3. FT!Child(dir, n, child)
  <2>1. \A m \in Kids(dir) : m > child => name[m] # n
    BY <1>1 DEF WalkOK
  <2> HIDE DEF n
  <2>2. ASSUME NEW m \in Kids(dir), name[m] = n  PROVE m <= child
    <3>1. m \in Nat /\ child \in Nat  BY <1>2
    <3>2. ~(m > child)  BY <2>1, <2>2
    <3> QED  BY <3>1, <3>2
  <2> QED  BY <1>1, <1>2, <2>2, ChildIs
<1>4. \A a, k, c : FT!Child(a, path[k], c)' <=> FT!Child(a, path[k], c)
  <2>1. entries' = entries  BY <1>1, SameTree
  <2> QED  BY <1>1, <2>1 DEF FT!Child, FT!Same
<1>5. \E t : Follows(t, segment)' /\ t[segment + 1] = child
  <2>1. PICK t : Follows(t, segment) /\ t[segment] = dir  BY DEF WalkOK
  <2>2. /\ t \in [0 .. Len(path) -> 0 .. node_count - 1]
        /\ segment + 1 \in 0 .. Len(path)
        /\ child \in 0 .. node_count - 1
    BY <1>1, <1>2, <2>1 DEF Follows
  <2>3. PICK u : u = [t EXCEPT ![segment + 1] = child]  OBVIOUS
  <2>4. /\ u \in [0 .. Len(path) -> 0 .. node_count - 1]
        /\ u[segment + 1] = child
        /\ \A k \in 0 .. segment : u[k] = t[k]
    BY <1>2, <2>2, <2>3
  <2>5. u[0] = 0  BY <1>2, <2>1, <2>4 DEF Follows
  <2>6. ASSUME NEW k \in 1 .. segment + 1
        PROVE  FT!Child(u[k - 1], path[k], u[k])
    <3>1. CASE k \in 1 .. segment
      <4>1. u[k - 1] = t[k - 1] /\ u[k] = t[k]  BY <1>2, <2>4, <3>1
      <4> QED  BY <2>1, <3>1, <4>1 DEF Follows
    <3>2. CASE k = segment + 1
      <4>1. u[k - 1] = dir /\ u[k] = child /\ path[k] = n
        BY <1>2, <2>1, <2>4, <3>2
      <4> QED  BY <1>3, <4>1
    <3> QED  BY <1>2, <3>1, <3>2
  <2>7. Follows(u, segment)'
    BY <1>1, <2>4, <2>5, <2>6, <1>4 DEF Follows
  <2> QED  BY <2>4, <2>7
<1>6. ASSUME NEW t, Follows(t, segment)'
      PROVE  t[segment + 1] = child
  <2>1. /\ t \in [0 .. Len(path) -> 0 .. node_count - 1] /\ t[0] = 0
        /\ \A k \in 1 .. segment + 1 : FT!Child(t[k - 1], path[k], t[k])
    BY <1>1, <1>6, <1>4 DEF Follows
  <2>2. Follows(t, segment)  BY <1>2, <2>1 DEF Follows
  <2>3. t[segment] = dir  BY <2>2 DEF WalkOK
  <2>4. FT!Child(dir, n, t[segment + 1])
    <3>1. segment + 1 \in 1 .. segment + 1 /\ (segment + 1) - 1 = segment  BY <1>2
    <3> QED  BY <2>1, <2>3, <3>1
  <2> HIDE DEF n
  <2>5. PICK c : c = t[segment + 1]  OBVIOUS
  <2>6. FT!Child(dir, n, c)  BY <2>4, <2>5
  <2>7. /\ c \in Kids(dir) /\ name[c] = n
        /\ \A m \in Kids(dir) : name[m] = n => m <= c
    BY <1>2, <2>6, ChildIs
  <2>8. /\ name[child] = n
        /\ \A m \in Kids(dir) : name[m] = n => m <= child
    BY <1>2, <1>3, ChildIs
  <2>9. c <= child /\ child <= c  BY <1>2, <2>7, <2>8
  <2>10. c \in Nat  BY <1>2, <2>7
  <2> QED  BY <1>2, <2>5, <2>9, <2>10
<1>7. /\ child' \in Kids(child) \cup {0}
      /\ \A m \in Kids(child) : ~(m > child')
  <2>1. Newest(first_child[child], Kids(child))  BY <1>2 DEF ChainsOK
  <2>2. first_child[child] \in Nat /\ \A m \in Kids(child) : m \in Nat
    BY <1>2 DEF TreeTyped, Kids
  <2> QED  BY <1>1, <2>1, <2>2 DEF Newest
<1>8. Kids(dir)' = Kids(child)  BY <1>1 DEF Kids, treeVars
<1>9. /\ \E t : Follows(t, segment)' /\ t[segment'] = dir'
      /\ \A t : Follows(t, segment)' => t[segment'] = dir'
  BY <1>1, <1>5, <1>6
<1>10. dir' \in 0 .. node_count' - 1  BY <1>1, <1>2
<1> QED  BY <1>1, <1>2, <1>7, <1>8, <1>9, <1>10 DEF WalkOK

LEMMA SiblingWalks ==
  ASSUME TreeTyped, ChainsOK, WalkOK, NextSibling
  PROVE  WalkOK'
<1>1. /\ segment < Len(path) /\ child # 0 /\ name[child] # path[segment + 1]
      /\ child' = next_sibling[child]
      /\ path' = path /\ segment' = segment /\ dir' = dir
      /\ UNCHANGED treeVars /\ node_count' = node_count /\ name' = name
  BY DEF NextSibling, Matches, treeVars
<1>2. /\ child \in Kids(dir) /\ child \in Nat /\ child \in 1 .. node_count - 1
      /\ parent[child] = dir /\ child \in Slots
      /\ \A m \in Kids(dir) : m \in Nat
  BY <1>1, SlotsAre DEF WalkOK, Kids
<1>3. Newest(next_sibling[child], { m \in Kids(dir) : m < child })
  BY <1>2 DEF ChainsOK
<1>4. next_sibling[child] \in Nat  BY <1>2 DEF TreeTyped
<1>5. /\ child' \in Kids(dir) \cup {0}
      /\ \A m \in Kids(dir) : m > child' => name[m] # path[segment + 1]
  <2>1. \A m \in Kids(dir) : m > child => name[m] # path[segment + 1]
    BY <1>1 DEF WalkOK
  <2>2. \A m \in Kids(dir) : m < child => m <= next_sibling[child]
    BY <1>2, <1>3, <1>4 DEF Newest
  <2>3. next_sibling[child] \in Kids(dir) \cup {0}  BY <1>3 DEF Newest
  <2> QED  BY <1>1, <1>2, <1>4, <2>1, <2>2, <2>3
<1>6. Kids(dir)' = Kids(dir)  BY <1>1 DEF Kids, treeVars
<1>7. \A t : Follows(t, segment)' <=> Follows(t, segment)
  BY <1>1, SameTree DEF Follows
<1> QED  BY <1>1, <1>5, <1>6, <1>7 DEF WalkOK

\* What a step does to the file system, seen from the kernel.
LEMMA VfsSteps ==
  ASSUME [Next]_vars
  PROVE  \/ UNCHANGED vfsVars
         \/ LookupStep
         \/ ~Looking /\ VfsCall
<1>1. CASE Boot
  BY <1>1 DEF Boot, BootConsole, BootCheck, BootPanic, BootGdt, BootIdt, BootPmm, BootVmm,
     BootHeap, BootScheduler, OthersThanConsole, OthersThanInterrupts,
     OthersThanMemory, OthersThanTasks, OthersThanHeap
<1>2. CASE Step
  BY <1>2 DEF Step, OthersThanMemory, OthersThanConsole, OthersThanInterrupts
<1>3. CASE Call
  BY <1>3 DEF Call, CallMemory, CallHeap, CallVfs, CallTasks, CallInterrupts, CallPrint,
     CallPanic, Calls, Ready, OthersThanMemory, OthersThanHeap, OthersThanConsole,
     OthersThanTasks, OthersThanInterrupts
<1>4. CASE UNCHANGED vars
  BY <1>4 DEF vars
<1>5. CASE Interrupt \/ Handler
  BY <1>5 DEF Interrupt, Handler, OthersThanInterrupts
<1> QED  BY <1>1, <1>2, <1>3, <1>4, <1>5 DEF Next

LEMMA FilesSettled ==
  ASSUME FilesInv, UNCHANGED vfsVars
  PROVE  FilesInv' /\ UNCHANGED FT!ftVars
<1>1. UNCHANGED treeVars /\ UNCHANGED <<path, segment, dir, child, found>>
  BY DEF vfsVars, treeVars
<1>2. Looking' = Looking  BY <1>1 DEF Looking
<1>3. WalkOK => WalkOK'
  <2>1. Kids(dir)' = Kids(dir)  BY <1>1 DEF Kids, treeVars
  <2>2. \A t : Follows(t, segment)' <=> Follows(t, segment)
    BY <1>1, SameTree DEF Follows, treeVars
  <2>3. UNCHANGED <<name, node_count>>  BY <1>1 DEF treeVars
  <2> QED  BY <1>1, <2>1, <2>2, <2>3 DEF WalkOK
<1> QED  BY <1>1, <1>2, <1>3, SameTree DEF FilesInv, FT!ftVars

\* An answer is the node the names lead to, or that there is none.
LEMMA AnswerIsRight ==
  ASSUME TreeTyped, WalkOK, Looking, Resolved \/ Missing
  PROVE  FT!Answer /\ ~Looking' /\ UNCHANGED treeVars
<1>1. UNCHANGED treeVars /\ path' = path
  BY DEF Resolved, Missing, treeVars
<1>2. entries' = entries  BY <1>1, SameTree
<1>3. /\ Len(entries) = node_count - 1 /\ segment \in Nat /\ Len(path) \in Nat
      /\ node_count \in Nat
  BY EntriesAre, SlotsAre DEF WalkOK
<1>4. ASSUME NEW t
      PROVE  t \in FT!Trails(path) <=> Follows(t, Len(path))
  BY <1>3 DEF FT!Trails, FT!Trail, FT!Nodes, Follows
<1>5. CASE Resolved
  <2>1. segment = Len(path) /\ found' = dir  BY <1>5 DEF Resolved
  <2>2. PICK t : Follows(t, segment) /\ t[segment] = dir  BY DEF WalkOK
  <2>3. t \in FT!Trails(path) /\ found' = t[Len(path)]  BY <1>4, <2>1, <2>2
  <2>4. found' # Open  BY <2>1, VfsSizes DEF WalkOK
  <2> QED  BY <1>1, <1>2, <2>3, <2>4 DEF FT!Answer, Looking
<1>6. CASE Missing
  <2>1. segment < Len(path) /\ child = 0 /\ found' = NoNode  BY <1>6 DEF Missing
  <2>2. found' # Open  BY <2>1, VfsSizes
  <2>3. FT!Trails(path) = {}
    <3> SUFFICES ASSUME NEW t \in FT!Trails(path)  PROVE FALSE
      OBVIOUS
    <3>1. Follows(t, Len(path))  BY <1>4
    <3>2. Follows(t, segment)  BY <1>3, <2>1, <3>1 DEF Follows
    <3>3. t[segment] = dir  BY <3>2 DEF WalkOK
    <3>4. /\ segment + 1 \in 1 .. Len(path) /\ (segment + 1) - 1 = segment
      BY <1>3, <2>1
    <3>5. FT!Child(dir, path[segment + 1], t[segment + 1])
      BY <3>1, <3>3, <3>4 DEF Follows
    <3>6. /\ t[segment + 1] \in Kids(dir) /\ name[t[segment + 1]] = path[segment + 1]
          /\ t[segment + 1] > 0
      <4>1. node_count > 0  BY DEF WalkOK
      <4>2. \A m \in Kids(dir) : m > 0  BY <1>3 DEF Kids
      <4> QED  BY <3>5, <4>1, <4>2, ChildIs
    <3> QED  BY <2>1, <3>6 DEF WalkOK
  <2> QED  BY <1>1, <1>2, <2>1, <2>2, <2>3 DEF FT!Answer, Looking
<1> QED  BY <1>5, <1>6

LEMMA LookupImplements ==
  ASSUME FilesInv, LookupStep
  PROVE  FilesInv' /\ [FT!Next]_(FT!ftVars)
<1>1. Looking /\ WalkOK /\ TreeTyped /\ ChainsOK
  BY DEF LookupStep, Resolved, Descend, NextSibling, Missing, FilesInv
<1>2. CASE Resolved \/ Missing
  BY <1>1, <1>2, AnswerIsRight, SameTree DEF FilesInv, FT!Next
<1>3. CASE Descend
  <2>1. UNCHANGED treeVars /\ path' = path /\ found' = found
    BY <1>3 DEF Descend
  <2>2. UNCHANGED FT!ftVars  BY <2>1, SameTree DEF FT!ftVars
  <2> QED  BY <1>1, <1>3, <2>1, <2>2, SameTree, DescendWalks DEF FilesInv
<1>4. CASE NextSibling
  <2>1. UNCHANGED treeVars /\ path' = path /\ found' = found
    BY <1>4 DEF NextSibling
  <2>2. UNCHANGED FT!ftVars  BY <2>1, SameTree DEF FT!ftVars
  <2> QED  BY <1>1, <1>4, <2>1, <2>2, SameTree, SiblingWalks DEF FilesInv
<1> QED  BY <1>2, <1>3, <1>4 DEF LookupStep

LEMMA VfsInitKeeps ==
  ASSUME FilesInv, ~VfsUp, VfsInit
  PROVE  TreeTyped' /\ ChainsOK' /\ UNCHANGED <<entries, path, found>>
<1>1. /\ VFS_MAX_NODES \in Nat \ {0} /\ node_count = 0 /\ 0 \in Slots
  BY VfsSizes DEF FilesInv, TreeTyped, VfsUp, Slots
<1>2. /\ node_count' = 1 /\ name' = name
      /\ parent' = [parent EXCEPT ![0] = 0]
      /\ first_child' = [first_child EXCEPT ![0] = 0]
      /\ next_sibling' = [next_sibling EXCEPT ![0] = 0]
      /\ UNCHANGED <<path, found>>
  BY DEF VfsInit, walkVars
<1>3. 1 .. node_count - 1 = {} /\ 1 .. node_count' - 1 = {}
  BY <1>1, <1>2
<1>4. (\A d : Kids(d) = {}) /\ (\A d : Kids(d)' = {})
  BY <1>3 DEF Kids
<1>5. TreeTyped'
  BY <1>1, <1>2, <1>3 DEF FilesInv, TreeTyped
<1>6. \A d \in Slots : Newest(first_child'[d], Kids(d)')
  <2>1. \A d \in Slots : first_child[d] = 0
    BY <1>4 DEF FilesInv, ChainsOK, Newest
  <2> QED  BY <1>2, <1>4, <2>1 DEF FilesInv, TreeTyped, Newest
<1>7. ChainsOK'  BY <1>3, <1>6 DEF ChainsOK
<1>8. entries = <<>>
  BY <1>1, EntriesAre DEF FilesInv
<1>9. entries' = <<>>
  <2>1. entries' \in [1 .. 0 -> Entry_]
    BY <1>2 DEF entries
  <2> QED  BY <2>1, FunctionIsSeq, EmptySeq
<1> QED  BY <1>2, <1>5, <1>7, <1>8, <1>9

LEMMA VfsCallImplements ==
  ASSUME FilesInv, ~Looking, VfsCall
  PROVE  FilesInv' /\ [FT!Next]_(FT!ftVars)
<1>1. TreeTyped /\ ChainsOK /\ found # Open
  BY DEF FilesInv, Looking
<1>2. CASE ~VfsUp /\ VfsInit
  <2>1. found' = found  BY <1>2 DEF VfsInit, walkVars
  <2> QED  BY <1>1, <1>2, <2>1, VfsInitKeeps DEF FilesInv, Looking, FT!ftVars
<1>3. CASE VfsRegister
  <2>1. UNCHANGED treeVars /\ UNCHANGED <<path, found>>
    BY <1>3 DEF VfsRegister, walkVars
  <2> QED  BY <1>1, <2>1, SameTree DEF FilesInv, Looking, FT!ftVars
<1>4. ASSUME VfsUp, NEW n \in Names, NEW p \in 0 .. node_count - 1, VfsCreateStatic(n, p)
      PROVE  FilesInv' /\ [FT!Next]_(FT!ftVars)
  <2>1. UNCHANGED <<path, found>>  BY <1>4 DEF VfsCreateStatic, walkVars
  <2>2. /\ TreeTyped' /\ ChainsOK'
        /\ \/ UNCHANGED entries
           \/ entries' = Append(entries, [name |-> copy_name(n), parent |-> p])
    BY <1>1, <1>4, CreateKeepsChains
  <2>3. FilesInv'  BY <1>1, <2>1, <2>2 DEF FilesInv, Looking
  <2>4. copy_name(n) \in Names  BY VfsSizes DEF copy_name
  <2>5. p \in FT!Nodes
    <3>1. Len(entries) = node_count - 1
      BY <1>1, <1>4, EntriesAre DEF VfsUp
    <3> QED  BY <3>1 DEF FT!Nodes
  <2>6. CASE UNCHANGED entries
    BY <2>1, <2>3, <2>6 DEF FT!ftVars
  <2>7. CASE entries' = Append(entries, [name |-> copy_name(n), parent |-> p])
    <3>1. FT!Create
      BY <1>1, <2>1, <2>4, <2>5, <2>7 DEF FT!Create
    <3> QED  BY <2>3, <3>1 DEF FT!Next
  <2> QED  BY <2>2, <2>6, <2>7
<1>5. ASSUME VfsUp, NEW p \in Paths, VfsLookup(p)
      PROVE  FilesInv' /\ [FT!Next]_(FT!ftVars)
  <2>1. UNCHANGED treeVars /\ path' = p /\ found' = Open  BY <1>5 DEF VfsLookup
  <2>2. FilesInv'
    BY <1>1, <1>5, <2>1, SameTree, LookupStarts DEF FilesInv, VfsUp
  <2>3. FT!Ask
    BY <1>1, <2>1, SameTree, VfsSizes DEF FT!Ask
  <2> QED  BY <2>2, <2>3 DEF FT!Next
<1>6. CASE LookupRefused
  <2>1. UNCHANGED treeVars /\ path' = path /\ found' = NoNode  BY <1>6 DEF LookupRefused
  <2>2. FilesInv'  BY <1>1, <2>1, SameTree, VfsSizes DEF FilesInv, Looking
  <2>3. FT!Refuse  BY <1>1, <2>1, SameTree DEF FT!Refuse
  <2> QED  BY <2>2, <2>3 DEF FT!Next
<1> QED  BY <1>2, <1>3, <1>4, <1>5, <1>6 DEF VfsCall

\* The chains are the tree: a lookup answers with the newest entries.
THEOREM FilesCorrect == Spec => ImplementsFileTree
<1>1. Init => FilesInv /\ FT!Init
  <2> SUFFICES ASSUME Init  PROVE FilesInv /\ FT!Init
    OBVIOUS
  <2>1. VfsStart  BY DEF Init
  <2>2. /\ name = [i \in Slots |-> NoName] /\ parent = [i \in Slots |-> 0]
        /\ first_child = [i \in Slots |-> 0] /\ next_sibling = [i \in Slots |-> 0]
        /\ node_count = 0 /\ path = <<>> /\ found = NoNode
    BY <2>1 DEF VfsStart
  <2>3. TreeTyped  BY <2>2, VfsSizes DEF TreeTyped
  <2>4. \A d : Kids(d) = {}  BY <2>2 DEF Kids
  <2>5. ChainsOK  BY <2>2, <2>4 DEF ChainsOK, Newest
  <2>6. ~Looking  BY <2>2, VfsSizes DEF Looking
  <2>7. entries = <<>>  BY <2>2, <2>3, EntriesAre
  <2> QED  BY <2>2, <2>3, <2>5, <2>6, <2>7 DEF FilesInv, FT!Init
<1>2. FilesInv /\ [Next]_vars => FilesInv' /\ [FT!Next]_(FT!ftVars)
  BY VfsSteps, FilesSettled, LookupImplements, VfsCallImplements
<1> QED  BY <1>1, <1>2, PTL DEF Spec, ImplementsFileTree, FT!Spec

-----------------------------------------------------------------------------
(* The interrupt controllers. *)

Ports == {"command", "data"}
PortWrites == Chips \X Ports \X (Nat \cup {"init", "eoi"})

\* The word a chip is to get when it has this many of its five to get: the
\* last is its mask, which is all that PicMaskAll writes.
Word(c, own) ==
    CASE own = 5 -> Command(c, "init")
      [] own = 4 -> Data(c, wanted[c].offset)
      [] own = 3 -> Data(c, IF c = "master" THEN 4 ELSE 2)
      [] own = 2 -> Data(c, 1)
      [] own = 1 -> Data(c, wanted[c].mask)

\* The chips get their words by turns, the first chip first.
WordLeft(left) == Word(IF left % 2 = 0 THEN "master" ELSE "slave", (left + 1) \div 2)

\* Where a chip is when it has this many words to get.
Stage(c, own) ==
    /\ own = 4 => pic[c].waits = "offset"
    /\ own = 3 => pic[c].waits = "cascade"
    /\ own = 2 => pic[c].waits = "mode"
    /\ own <= 1 => pic[c].waits = "nothing"
    /\ own <= 3 => pic[c].offset = wanted[c].offset
    /\ own = 0 => pic[c].mask = wanted[c].mask

ChipsTyped ==
    /\ pic \in [Chips -> [waits : {"nothing", "offset", "cascade", "mode"},
                          offset : Nat, mask : Nat, serving : BOOLEAN]]
    /\ wanted \in [Chips -> [offset : Nat, mask : Nat]]
    /\ writes \in Seq(PortWrites) /\ eois \in Seq(PortWrites)
    /\ line \in {NoLine, 1, 12}

\* A call that initializes or masks is under way, or just over.
DataCall ==
    /\ Len(writes) \in 0 .. 10
    /\ \A i \in 1 .. Len(writes) : writes[i] = WordLeft(Len(writes) + 1 - i)
    /\ Stage("master", Len(writes) \div 2)
    /\ Stage("slave", (Len(writes) + 1) \div 2)

\* The end of an interrupt is under way, or just over.
Ends(i, c) == eois[i] = Command(c, "eoi")
EndCall == \A i \in 1 .. Len(eois) : \E c \in Chips : Ends(i, c)

\* A chip serves an interrupt that has not been handled, or is about to learn
\* of its end.
ServingKnown ==
    \A c \in Chips : pic[c].serving =>
        \/ line # NoLine /\ (c = "slave" => line = 12)
        \/ \E i \in 1 .. Len(eois) : Ends(i, c)

ChipsInv ==
    /\ ChipsTyped
    /\ DataCall /\ EndCall
    /\ line # NoLine => eois = <<>>
    /\ ServingKnown

\* What a chip does with a data write depends on what it waits for.
LEMMA DataWritten ==
  ASSUME NEW chip, NEW v
  PROVE  /\ chip.waits = "offset" => Written(chip, "data", v)
               = [chip EXCEPT !.waits = "cascade", !.offset = v]
         /\ chip.waits = "cascade" => Written(chip, "data", v) = [chip EXCEPT !.waits = "mode"]
         /\ chip.waits = "mode" => Written(chip, "data", v) = [chip EXCEPT !.waits = "nothing"]
         /\ chip.waits = "nothing" => Written(chip, "data", v) = [chip EXCEPT !.mask = v]
<1>1. "data" # "command" /\ "offset" # "cascade" /\ "offset" # "mode" /\ "cascade" # "mode"
      /\ "nothing" \notin {"offset", "cascade", "mode"}
  OBVIOUS
<1> QED  BY <1>1, Zenon DEF Written

\* Its next word takes a chip to its next stage and leaves the other one.
LEMMA ChipTakesWord ==
  ASSUME ChipsTyped, NEW c \in Chips, NEW j \in 1 .. 5, Stage(c, j),
         wanted' = wanted,
         pic' = [pic EXCEPT ![Word(c, j)[1]] = Written(@, Word(c, j)[2], Word(c, j)[3])]
  PROVE  /\ Stage(c, j - 1)'
         /\ pic' \in [Chips -> [waits : {"nothing", "offset", "cascade", "mode"},
                                offset : Nat, mask : Nat, serving : BOOLEAN]]
         /\ \A d \in Chips : pic'[d].serving => pic[d].serving
         /\ \A d \in Chips \ {c} : pic'[d] = pic[d]
<1> DEFINE Chip == [waits : {"nothing", "offset", "cascade", "mode"},
                    offset : Nat, mask : Nat, serving : BOOLEAN]
<1>1. pic \in [Chips -> Chip] /\ wanted[c].offset \in Nat /\ wanted[c].mask \in Nat
  BY DEF ChipsTyped
<1>2. ASSUME NEW new, new \in Chip, pic' = [pic EXCEPT ![c] = new],
             new.serving => pic[c].serving
      PROVE  /\ pic' \in [Chips -> Chip]
             /\ pic'[c] = new
             /\ \A d \in Chips : pic'[d].serving => pic[d].serving
             /\ \A d \in Chips \ {c} : pic'[d] = pic[d]
  <2>1. pic'[c] = new /\ \A d \in Chips \ {c} : pic'[d] = pic[d]
    BY <1>1, <1>2
  <2>2. pic' \in [Chips -> Chip]  BY <1>1, <1>2
  <2>3. ASSUME NEW d \in Chips, pic'[d].serving  PROVE pic[d].serving
    BY <1>2, <2>1, <2>3, Zenon
  <2> QED  BY <2>1, <2>2, <2>3
<1>3. pic[c] \in Chip  BY <1>1
<1>4. CASE j = 5
  <2> DEFINE new == [pic[c] EXCEPT !.waits = "offset", !.mask = 0, !.serving = FALSE]
  <2>1. pic' = [pic EXCEPT ![c] = new]
    BY <1>4 DEF Word, Command, Written
  <2>2. new \in Chip /\ new.waits = "offset" /\ ~new.serving  BY <1>3
  <2> HIDE DEF new
  <2>3. pic'[c].waits = "offset"  BY <1>2, <2>1, <2>2
  <2>4. Stage(c, j - 1)'  BY <1>4, <2>3 DEF Stage
  <2>5. new.serving => pic[c].serving  BY <2>2, Zenon
  <2> QED  BY <1>2, <2>1, <2>2, <2>4, <2>5
<1>5. CASE j = 4
  <2> DEFINE new == [pic[c] EXCEPT !.waits = "cascade", !.offset = wanted[c].offset]
  <2>0. /\ Word(c, j)[1] = c /\ Word(c, j)[2] = "data"
        /\ Word(c, j)[3] = wanted[c].offset
        /\ pic[c].waits = "offset"
    BY <1>5 DEF Word, Data, Stage
  <2>1. pic' = [pic EXCEPT ![c] = new]
    <3>1. pic' = [pic EXCEPT ![c] = Written(pic[c], "data", Word(c, j)[3])]
      BY <2>0
    <3>2. Written(pic[c], "data", Word(c, j)[3])
            = [pic[c] EXCEPT !.waits = "cascade", !.offset = Word(c, j)[3]]
      BY <2>0, DataWritten
    <3>3. Written(pic[c], "data", Word(c, j)[3]) = new  BY <2>0, <3>2
    <3> QED  BY <3>1, <3>3, Zenon
  <2>2. /\ new \in Chip /\ new.waits = "cascade" /\ new.offset = wanted[c].offset
        /\ new.serving = pic[c].serving
    BY <1>1, <1>3
  <2> HIDE DEF new
  <2>3. pic'[c].waits = "cascade" /\ pic'[c].offset = wanted[c].offset
    BY <1>2, <2>1, <2>2
  <2>4. Stage(c, j - 1)'  BY <1>5, <2>3 DEF Stage
  <2>5. new.serving => pic[c].serving  BY <2>2, Zenon
  <2> QED  BY <1>2, <2>1, <2>2, <2>4, <2>5
<1>6. CASE j = 3
  <2> DEFINE new == [pic[c] EXCEPT !.waits = "mode"]
  <2>0. /\ Word(c, j)[1] = c /\ Word(c, j)[2] = "data"
        /\ Word(c, j)[3] = (IF c = "master" THEN 4 ELSE 2)
        /\ pic[c].waits = "cascade"
    BY <1>6 DEF Word, Data, Stage
  <2>1. pic' = [pic EXCEPT ![c] = new]
    <3>1. pic' = [pic EXCEPT ![c] = Written(pic[c], "data", Word(c, j)[3])]
      BY <2>0
    <3>2. Written(pic[c], "data", Word(c, j)[3]) = new  BY <2>0, DataWritten, Zenon
    <3> QED  BY <3>1, <3>2, Zenon
  <2>2. /\ new \in Chip /\ new.waits = "mode" /\ new.offset = wanted[c].offset
        /\ new.serving = pic[c].serving
    BY <1>3, <1>6 DEF Stage
  <2> HIDE DEF new
  <2>3. pic'[c].waits = "mode" /\ pic'[c].offset = wanted[c].offset
    BY <1>2, <2>1, <2>2
  <2>4. Stage(c, j - 1)'  BY <1>6, <2>3 DEF Stage
  <2>5. new.serving => pic[c].serving  BY <2>2, Zenon
  <2> QED  BY <1>2, <2>1, <2>2, <2>4, <2>5
<1>7. CASE j = 2
  <2> DEFINE new == [pic[c] EXCEPT !.waits = "nothing"]
  <2>0. /\ Word(c, j)[1] = c /\ Word(c, j)[2] = "data"
        /\ Word(c, j)[3] = 1
        /\ pic[c].waits = "mode"
    BY <1>7 DEF Word, Data, Stage
  <2>1. pic' = [pic EXCEPT ![c] = new]
    <3>1. pic' = [pic EXCEPT ![c] = Written(pic[c], "data", Word(c, j)[3])]
      BY <2>0
    <3>2. Written(pic[c], "data", Word(c, j)[3]) = new  BY <2>0, DataWritten, Zenon
    <3> QED  BY <3>1, <3>2, Zenon
  <2>2. /\ new \in Chip /\ new.waits = "nothing" /\ new.offset = wanted[c].offset
        /\ new.serving = pic[c].serving
    BY <1>3, <1>7 DEF Stage
  <2> HIDE DEF new
  <2>3. pic'[c].waits = "nothing" /\ pic'[c].offset = wanted[c].offset
    BY <1>2, <2>1, <2>2
  <2>4. Stage(c, j - 1)'  BY <1>7, <2>3 DEF Stage
  <2>5. new.serving => pic[c].serving  BY <2>2, Zenon
  <2> QED  BY <1>2, <2>1, <2>2, <2>4, <2>5
<1>8. CASE j = 1
  <2> DEFINE new == [pic[c] EXCEPT !.mask = wanted[c].mask]
  <2>0. /\ Word(c, j)[1] = c /\ Word(c, j)[2] = "data"
        /\ Word(c, j)[3] = wanted[c].mask
        /\ pic[c].waits = "nothing"
    BY <1>8 DEF Word, Data, Stage
  <2>1. pic' = [pic EXCEPT ![c] = new]
    <3>1. pic' = [pic EXCEPT ![c] = Written(pic[c], "data", Word(c, j)[3])]
      BY <2>0
    <3>2. Written(pic[c], "data", Word(c, j)[3])
            = [pic[c] EXCEPT !.mask = Word(c, j)[3]]
      BY <2>0, DataWritten
    <3>3. Written(pic[c], "data", Word(c, j)[3]) = new  BY <2>0, <3>2
    <3> QED  BY <3>1, <3>3, Zenon
  <2>2. /\ new \in Chip /\ new.waits = "nothing" /\ new.offset = wanted[c].offset
        /\ new.mask = wanted[c].mask /\ new.serving = pic[c].serving
    BY <1>1, <1>3, <1>8 DEF Stage
  <2> HIDE DEF new
  <2>3. /\ pic'[c].waits = "nothing" /\ pic'[c].offset = wanted[c].offset
        /\ pic'[c].mask = wanted[c].mask
    BY <1>2, <2>1, <2>2
  <2>4. Stage(c, j - 1)'  BY <1>8, <2>3 DEF Stage
  <2>5. new.serving => pic[c].serving  BY <2>2, Zenon
  <2> QED  BY <1>2, <2>1, <2>2, <2>4, <2>5
<1> QED  BY <1>4, <1>5, <1>6, <1>7, <1>8

\* With no write of a call left to make, the chips have what they should have.
LEMMA ChipsSettled ==
  ASSUME ChipsInv, writes = <<>>
  PROVE  \A c \in Chips : Stage(c, 0)
<1>1. Len(writes) = 0  OBVIOUS
<1>2. 0 \div 2 = 0 /\ (0 + 1) \div 2 = 0  OBVIOUS
<1>3. Stage("master", 0) /\ Stage("slave", 0)
  BY <1>1, <1>2 DEF ChipsInv, DataCall
<1> QED  BY <1>3, Zenon DEF Chips

\* With no handler left to end, no chip waits for the end of an interrupt.
LEMMA NothingServed ==
  ASSUME ChipsInv, ~Handling
  PROVE  \A c \in Chips : ~pic[c].serving
<1>1. line = NoLine /\ Len(eois) = 0
  <2>1. line = NoLine /\ eois = <<>>  BY DEF Handling
  <2> QED  BY <2>1
<1>2. ASSUME NEW c \in Chips  PROVE ~\E i \in 1 .. Len(eois) : Ends(i, c)
  BY <1>1
<1> QED  BY <1>1, <1>2, Zenon DEF ChipsInv, ServingKnown

\* The first of some writes and the others.
LEMMA FirstAndOthers ==
  ASSUME NEW s \in Seq(PortWrites), s # <<>>
  PROVE  /\ Len(s) \in Nat \ {0} /\ Head(s) = s[1]
         /\ Tail(s) \in Seq(PortWrites) /\ Len(Tail(s)) = Len(s) - 1
         /\ \A i \in 1 .. Len(Tail(s)) : Tail(s)[i] = s[i + 1]
OBVIOUS

\* The first of the writes of a call is made, the others stay.
LEMMA FirstWritten ==
  ASSUME ChipsInv, PortWrite
  PROVE  /\ Len(writes) \in Nat \ {0}
         /\ writes' \in Seq(PortWrites)
         /\ Len(writes') = Len(writes) - 1
         /\ \A i \in 1 .. Len(writes') : writes'[i] = writes[i + 1]
         /\ pic' = [pic EXCEPT ![writes[1][1]] = Written(@, writes[1][2], writes[1][3])]
         /\ eois' = eois /\ line' = line /\ wanted' = wanted
<1>1. writes \in Seq(PortWrites) /\ writes # <<>> /\ writes' = Tail(writes)
  BY DEF ChipsInv, ChipsTyped, PortWrite
<1>2. /\ Len(writes) \in Nat \ {0} /\ Head(writes) = writes[1]
      /\ writes' \in Seq(PortWrites) /\ Len(writes') = Len(writes) - 1
      /\ \A i \in 1 .. Len(writes') : writes'[i] = writes[i + 1]
  BY <1>1, FirstAndOthers
<1> QED  BY <1>2 DEF PortWrite

\* The same for the writes at the end of a handler.
LEMMA FirstEndWritten ==
  ASSUME ChipsInv, EoiWrite
  PROVE  /\ Len(eois) \in Nat \ {0}
         /\ eois' \in Seq(PortWrites)
         /\ Len(eois') = Len(eois) - 1
         /\ \A i \in 1 .. Len(eois') : eois'[i] = eois[i + 1]
         /\ pic' = [pic EXCEPT ![eois[1][1]] = Written(@, eois[1][2], eois[1][3])]
         /\ writes' = writes /\ line = NoLine /\ line' = line /\ wanted' = wanted
<1>1. eois \in Seq(PortWrites) /\ eois # <<>> /\ eois' = Tail(eois)
  BY DEF ChipsInv, ChipsTyped, EoiWrite
<1>2. /\ Len(eois) \in Nat \ {0} /\ Head(eois) = eois[1]
      /\ eois' \in Seq(PortWrites) /\ Len(eois') = Len(eois) - 1
      /\ \A i \in 1 .. Len(eois') : eois'[i] = eois[i + 1]
  BY <1>1, FirstAndOthers
<1>3. line = NoLine  BY <1>1 DEF ChipsInv
<1> QED  BY <1>2, <1>3 DEF EoiWrite

\* What is still to be written to the chips does not depend on what they serve.
LEMMA SameWords ==
  ASSUME DataCall, writes' = writes, wanted' = wanted,
         \A c \in Chips : /\ pic'[c].waits = pic[c].waits
                          /\ pic'[c].offset = pic[c].offset
                          /\ pic'[c].mask = pic[c].mask
  PROVE  DataCall'
<1>1. ASSUME NEW c \in Chips, NEW own, Stage(c, own)  PROVE Stage(c, own)'
  BY <1>1 DEF Stage
<1>2. "master" \in Chips /\ "slave" \in Chips  BY DEF Chips
<1>3. /\ Stage("master", Len(writes) \div 2)'
      /\ Stage("slave", (Len(writes) + 1) \div 2)'
  <2> DEFINE k == Len(writes)
  <2>1. Stage("master", k \div 2) /\ Stage("slave", (k + 1) \div 2)  BY DEF DataCall
  <2>2. k' = k  OBVIOUS
  <2> HIDE DEF k
  <2>3. Stage("master", k \div 2)' /\ Stage("slave", (k + 1) \div 2)'
    BY <1>2, <2>1, <2>2 DEF Stage
  <2> QED  BY <2>3 DEF k
<1>4. \A left : WordLeft(left)' = WordLeft(left)  BY DEF WordLeft, Word, Command, Data
<1> QED  BY <1>3, <1>4 DEF DataCall

\* Which chip is next, and how many words it and the other one have to get.
LEMMA Turns ==
  ASSUME NEW k \in 1 .. 10
  PROVE  \E j \in 1 .. 5 :
            \/ /\ k % 2 = 0 /\ (k + 1) \div 2 = j
               /\ k \div 2 = j /\ (k - 1) \div 2 = j - 1
            \/ /\ k % 2 # 0 /\ (k + 1) \div 2 = j
               /\ k \div 2 = j - 1 /\ (k - 1) \div 2 = j - 1
<1>1. (k + 1) \div 2 \in 1 .. 5  OBVIOUS
<1> QED  BY <1>1

LEMMA DataWriteKeeps ==
  ASSUME ChipsInv, PortWrite
  PROVE  ChipsInv'
<1>0. PICK k \in 1 .. 10 : k = Len(writes)
  <2>1. Len(writes) \in 0 .. 10 /\ Len(writes) \in Nat \ {0}
    BY FirstWritten DEF ChipsInv, DataCall
  <2> QED  BY <2>1
<1>1. /\ writes[1] = WordLeft(k)
      /\ Stage("master", k \div 2) /\ Stage("slave", (k + 1) \div 2)
  <2>1. 1 \in 1 .. k /\ k + 1 - 1 = k  OBVIOUS
  <2>2. writes[1] = WordLeft(k + 1 - 1)  BY <1>0, <2>1 DEF ChipsInv, DataCall
  <2>3. Stage("master", k \div 2) /\ Stage("slave", (k + 1) \div 2)
    BY <1>0 DEF ChipsInv, DataCall
  <2> QED  BY <2>1, <2>2, <2>3
<1>2. Len(writes') = k - 1  BY <1>0, FirstWritten
<1>3. ASSUME NEW i \in 1 .. k - 1
      PROVE  writes'[i] = WordLeft(k - i)'
  <2>1. i + 1 \in 1 .. k /\ k + 1 - (i + 1) = k - i  OBVIOUS
  <2>2. writes'[i] = writes[i + 1]  BY <1>2, <1>3, FirstWritten
  <2>3. writes[i + 1] = WordLeft(k - i)
    <3>1. writes[i + 1] = WordLeft(k + 1 - (i + 1))  BY <1>0, <2>1 DEF ChipsInv, DataCall
    <3> QED  BY <2>1, <3>1
  <2>4. wanted' = wanted  BY FirstWritten
  <2>5. \A own : \A c : Word(c, own)' = Word(c, own)
    BY <2>4 DEF Word, Command, Data
  <2>6. WordLeft(k - i)' = WordLeft(k - i)  BY <2>5 DEF WordLeft
  <2> QED  BY <2>2, <2>3, <2>6
<1> DEFINE Chip == [waits : {"nothing", "offset", "cascade", "mode"},
                    offset : Nat, mask : Nat, serving : BOOLEAN]
<1>4. /\ Stage("master", (k - 1) \div 2)' /\ Stage("slave", k \div 2)'
      /\ pic' \in [Chips -> Chip]
      /\ \A c \in Chips : pic'[c].serving => pic[c].serving
  <2>0. ChipsTyped  BY DEF ChipsInv
  <2>1. PICK j \in 1 .. 5 :
            \/ /\ k % 2 = 0 /\ (k + 1) \div 2 = j
               /\ k \div 2 = j /\ (k - 1) \div 2 = j - 1
            \/ /\ k % 2 # 0 /\ (k + 1) \div 2 = j
               /\ k \div 2 = j - 1 /\ (k - 1) \div 2 = j - 1
    BY Turns
  <2>2. CASE k % 2 = 0
    <3>1. writes[1] = Word("master", j)  BY <1>1, <2>1, <2>2 DEF WordLeft
    <3>2. Stage("master", j) /\ Stage("slave", j)  BY <1>1, <2>1, <2>2
    <3>3. /\ Stage("master", j - 1)' /\ pic' \in [Chips -> Chip]
          /\ \A d \in Chips : pic'[d].serving => pic[d].serving
          /\ \A d \in Chips \ {"master"} : pic'[d] = pic[d]
      BY <2>0, <3>1, <3>2, FirstWritten, ChipTakesWord DEF Chips
    <3>4. Stage("slave", j)'
      <4>1. pic'["slave"] = pic["slave"] /\ wanted' = wanted
        BY <3>3, FirstWritten DEF Chips
      <4> QED  BY <3>2, <4>1 DEF Stage
    <3> QED  BY <2>1, <2>2, <3>3, <3>4
  <2>3. CASE k % 2 # 0
    <3>1. writes[1] = Word("slave", j)  BY <1>1, <2>1, <2>3 DEF WordLeft
    <3>2. Stage("master", j - 1) /\ Stage("slave", j)  BY <1>1, <2>1, <2>3
    <3>3. /\ Stage("slave", j - 1)' /\ pic' \in [Chips -> Chip]
          /\ \A d \in Chips : pic'[d].serving => pic[d].serving
          /\ \A d \in Chips \ {"slave"} : pic'[d] = pic[d]
      BY <2>0, <3>1, <3>2, FirstWritten, ChipTakesWord DEF Chips
    <3>4. Stage("master", j - 1)'
      <4>1. pic'["master"] = pic["master"] /\ wanted' = wanted
        BY <3>3, FirstWritten DEF Chips
      <4> QED  BY <3>2, <4>1 DEF Stage
    <3> QED  BY <2>1, <2>3, <3>3, <3>4
  <2> QED  BY <2>2, <2>3
<1>5. DataCall'
  <2>1. k - 1 \in 0 .. 10 /\ (k - 1) + 1 = k  OBVIOUS
  <2>2. \A i \in 1 .. k - 1 : writes'[i] = WordLeft(k - 1 + 1 - i)'
    <3> SUFFICES ASSUME NEW i \in 1 .. k - 1
                 PROVE  writes'[i] = WordLeft(k - 1 + 1 - i)'
      OBVIOUS
    <3>1. k - 1 + 1 - i = k - i  OBVIOUS
    <3> QED  BY <1>3, <3>1
  <2> QED  BY <1>2, <1>4, <2>1, <2>2 DEF DataCall
<1>6. ServingKnown' /\ EndCall'
  <2>1. eois' = eois /\ line' = line  BY FirstWritten
  <2>2. EndCall'  BY <2>1 DEF ChipsInv, EndCall, Ends, Command
  <2>3. ServingKnown'
    BY <1>4, <2>1, Zenon DEF ChipsInv, ServingKnown, Ends, Command
  <2> QED  BY <2>2, <2>3
<1>7. ChipsTyped'
  BY <1>4, FirstWritten DEF ChipsInv, ChipsTyped
<1>8. (line # NoLine => eois = <<>>)'  BY FirstWritten DEF ChipsInv
<1> QED  BY <1>5, <1>6, <1>7, <1>8 DEF ChipsInv

LEMMA EndWriteKeeps ==
  ASSUME ChipsInv, EoiWrite
  PROVE  ChipsInv'
<1> DEFINE Chip == [waits : {"nothing", "offset", "cascade", "mode"},
                    offset : Nat, mask : Nat, serving : BOOLEAN]
<1>1. PICK c \in Chips : eois[1] = Command(c, "eoi")
  <2>1. 1 \in 1 .. Len(eois)  BY FirstEndWritten
  <2> QED  BY <2>1 DEF ChipsInv, EndCall, Ends
<1>2. pic \in [Chips -> Chip]  BY DEF ChipsInv, ChipsTyped
<1> DEFINE new == [pic[c] EXCEPT !.serving = FALSE]
<1>3. pic' = [pic EXCEPT ![c] = new]
  BY <1>1, FirstEndWritten DEF Command, Written
<1>4. /\ new \in Chip /\ ~new.serving /\ new.waits = pic[c].waits
      /\ new.offset = pic[c].offset /\ new.mask = pic[c].mask
  BY <1>2
<1> HIDE DEF new
<1>5. pic' \in [Chips -> Chip] /\ pic'[c] = new /\ \A d \in Chips \ {c} : pic'[d] = pic[d]
  BY <1>2, <1>3, <1>4
<1>6. DataCall'
  <2>1. \A d \in Chips : /\ pic'[d].waits = pic[d].waits
                         /\ pic'[d].offset = pic[d].offset
                         /\ pic'[d].mask = pic[d].mask
    BY <1>4, <1>5
  <2> QED  BY <2>1, FirstEndWritten, SameWords DEF ChipsInv
<1>7. \A i \in 1 .. Len(eois') : \E d \in Chips : Ends(i, d)'
  <2> SUFFICES ASSUME NEW i \in 1 .. Len(eois')
               PROVE  \E d \in Chips : Ends(i, d)'
    OBVIOUS
  <2>1. i + 1 \in 1 .. Len(eois) /\ eois'[i] = eois[i + 1]  BY FirstEndWritten
  <2>2. PICK d \in Chips : eois[i + 1] = Command(d, "eoi")
    BY <2>1 DEF ChipsInv, EndCall, Ends
  <2> QED  BY <2>1, <2>2 DEF Ends, Command
<1>8. ServingKnown'
  <2> SUFFICES ASSUME NEW d \in Chips, pic'[d].serving
               PROVE  \E i \in 1 .. Len(eois') : Ends(i, d)'
    BY DEF ServingKnown
  <2>1. d # c /\ pic[d].serving  BY <1>4, <1>5, Zenon
  <2>2. PICK i \in 1 .. Len(eois) : eois[i] = Command(d, "eoi")
    <3>1. line = NoLine  BY FirstEndWritten
    <3> QED  BY <2>1, <3>1, Zenon DEF ChipsInv, ServingKnown, Ends
  <2>3. i # 1  BY <1>1, <2>1, <2>2 DEF Command
  <2>4. i - 1 \in 1 .. Len(eois') /\ (i - 1) + 1 = i  BY <2>2, <2>3, FirstEndWritten
  <2>5. eois'[i - 1] = Command(d, "eoi")  BY <2>2, <2>4, FirstEndWritten
  <2> QED  BY <2>4, <2>5 DEF Ends, Command
<1>9. ChipsTyped'
  BY <1>5, FirstEndWritten DEF ChipsInv, ChipsTyped
<1>10. (line # NoLine => eois = <<>>)'  BY FirstEndWritten
<1>11. EndCall'  BY <1>7 DEF EndCall
<1> QED  BY <1>6, <1>8, <1>9, <1>10, <1>11 DEF ChipsInv

\* A call that writes to the chips leaves alone what the handlers have to do.
LEMMA HandlersUnmoved ==
  ASSUME ServingKnown, EndCall, line # NoLine => eois = <<>>,
         pic' = pic, line' = line, eois' = eois
  PROVE  ServingKnown' /\ EndCall' /\ (line # NoLine => eois = <<>>)'
<1>1. EndCall'  BY DEF EndCall, Ends, Command
<1>2. ServingKnown'  BY Zenon DEF ServingKnown, Ends, Command
<1> QED  BY <1>1, <1>2

\* An initialization is ten writes, a word for each chip by turns.
LEMMA RemapKeeps ==
  ASSUME ChipsInv, NEW offset \in OffsetPairs, PicRemap(offset)
  PROVE  ChipsInv'
<1>1. /\ pic \in [Chips -> [waits : {"nothing", "offset", "cascade", "mode"},
                            offset : Nat, mask : Nat, serving : BOOLEAN]]
      /\ pic' = pic /\ line' = line /\ eois' = eois
  BY DEF ChipsInv, ChipsTyped, PicRemap
<1>2. /\ "master" \in Chips /\ "slave" \in Chips
      /\ offset["master"] \in Nat /\ offset["slave"] \in Nat
      /\ pic["master"].mask \in Nat /\ pic["slave"].mask \in Nat
  BY <1>1, ChipValues DEF Chips
<1>3. /\ wanted' \in [Chips -> [offset : Nat, mask : Nat]]
      /\ \A c \in Chips : wanted'[c].offset = offset[c] /\ wanted'[c].mask = pic[c].mask
  <2>1. wanted' = [c \in Chips |-> [offset |-> offset[c], mask |-> pic[c].mask]]
    BY DEF PicRemap
  <2>2. \A c \in Chips : offset[c] \in Nat /\ pic[c].mask \in Nat
    BY <1>1, ChipValues
  <2> QED  BY <2>1, <2>2
<1>4. writes' = << Command("master", "init"), Command("slave", "init"),
                   Data("master", offset["master"]), Data("slave", offset["slave"]),
                   Data("master", 4), Data("slave", 2),
                   Data("master", 1), Data("slave", 1),
                   Data("master", pic["master"].mask),
                   Data("slave", pic["slave"].mask) >>
  BY DEF PicRemap
<1>5. /\ Command("master", "init") \in PortWrites /\ Command("slave", "init") \in PortWrites
      /\ \A v \in Nat : Data("master", v) \in PortWrites /\ Data("slave", v) \in PortWrites
  BY DEF Command, Data, PortWrites, Ports, Chips
<1>6. writes' \in Seq(PortWrites) /\ Len(writes') = 10
  <2> SUFFICES ASSUME NEW a \in PortWrites, NEW b \in PortWrites, NEW c \in PortWrites,
                      NEW d \in PortWrites, NEW e \in PortWrites, NEW f \in PortWrites,
                      NEW g \in PortWrites, NEW h \in PortWrites, NEW i \in PortWrites,
                      NEW j \in PortWrites
               PROVE  /\ <<a, b, c, d, e, f, g, h, i, j>> \in Seq(PortWrites)
                      /\ Len(<<a, b, c, d, e, f, g, h, i, j>>) = 10
    BY <1>2, <1>4, <1>5
  <2> QED  OBVIOUS
<1>7. \A i \in 1 .. 10 : writes'[i] = WordLeft(10 + 1 - i)'
  <2>1. /\ writes'[1] = Word("master", 5)' /\ writes'[2] = Word("slave", 5)'
        /\ writes'[3] = Word("master", 4)' /\ writes'[4] = Word("slave", 4)'
        /\ writes'[5] = Word("master", 3)' /\ writes'[6] = Word("slave", 3)'
        /\ writes'[7] = Word("master", 2)' /\ writes'[8] = Word("slave", 2)'
        /\ writes'[9] = Word("master", 1)' /\ writes'[10] = Word("slave", 1)'
    BY <1>2, <1>3, <1>4 DEF Word
  <2>2. /\ WordLeft(10)' = Word("master", 5)' /\ WordLeft(9)' = Word("slave", 5)'
        /\ WordLeft(8)' = Word("master", 4)' /\ WordLeft(7)' = Word("slave", 4)'
        /\ WordLeft(6)' = Word("master", 3)' /\ WordLeft(5)' = Word("slave", 3)'
        /\ WordLeft(4)' = Word("master", 2)' /\ WordLeft(3)' = Word("slave", 2)'
        /\ WordLeft(2)' = Word("master", 1)' /\ WordLeft(1)' = Word("slave", 1)'
    BY DEF WordLeft
  <2> SUFFICES ASSUME NEW i \in 1 .. 10  PROVE writes'[i] = WordLeft(10 + 1 - i)'
    OBVIOUS
  <2>3. i \in {1, 2, 3, 4, 5, 6, 7, 8, 9, 10}  OBVIOUS
  <2>4. /\ 10 + 1 - 1 = 10 /\ 10 + 1 - 2 = 9
        /\ 10 + 1 - 3 = 8 /\ 10 + 1 - 4 = 7
        /\ 10 + 1 - 5 = 6 /\ 10 + 1 - 6 = 5
        /\ 10 + 1 - 7 = 4 /\ 10 + 1 - 8 = 3
        /\ 10 + 1 - 9 = 2 /\ 10 + 1 - 10 = 1
    OBVIOUS
  <2> QED  BY <2>1, <2>2, <2>3, <2>4
<1>8. DataCall'
  <2>1. Stage("master", 5)' /\ Stage("slave", 5)'  BY DEF Stage
  <2>2. 10 \div 2 = 5 /\ (10 + 1) \div 2 = 5 /\ 10 \in 0 .. 10  OBVIOUS
  <2> QED  BY <1>6, <1>7, <2>1, <2>2 DEF DataCall
<1>9. ServingKnown' /\ EndCall' /\ (line # NoLine => eois = <<>>)'
  BY <1>1, HandlersUnmoved DEF ChipsInv
<1>10. ChipsTyped'
  BY <1>1, <1>3, <1>6 DEF ChipsInv, ChipsTyped
<1> QED  BY <1>8, <1>9, <1>10 DEF ChipsInv

\* Masking is the last words of an initialization.
LEMMA MaskKeeps ==
  ASSUME ChipsInv, writes = <<>>, PicMaskAll
  PROVE  ChipsInv'
<1>1. /\ wanted \in [Chips -> [offset : Nat, mask : Nat]]
      /\ pic' = pic /\ line' = line /\ eois' = eois
      /\ writes' = << Data("master", 255), Data("slave", 255) >>
      /\ wanted' = [c \in Chips |-> [wanted[c] EXCEPT !.mask = 255]]
  BY DEF ChipsInv, ChipsTyped, PicMaskAll
<1>2. "master" \in Chips /\ "slave" \in Chips  BY DEF Chips
<1>3. /\ wanted' \in [Chips -> [offset : Nat, mask : Nat]]
      /\ \A c \in Chips : wanted'[c].offset = wanted[c].offset /\ wanted'[c].mask = 255
  <2>1. ASSUME NEW c \in Chips
        PROVE  /\ wanted'[c] \in [offset : Nat, mask : Nat]
               /\ wanted'[c].offset = wanted[c].offset /\ wanted'[c].mask = 255
    <3>1. wanted[c] \in [offset : Nat, mask : Nat]  BY <1>1
    <3>2. wanted'[c] = [wanted[c] EXCEPT !.mask = 255]  BY <1>1
    <3> QED  BY <3>1, <3>2
  <2>2. wanted' = [c \in Chips |-> wanted'[c]]  BY <1>1
  <2> QED  BY <2>1, <2>2
<1>4. writes' \in Seq(PortWrites) /\ Len(writes') = 2
  <2>1. Data("master", 255) \in PortWrites /\ Data("slave", 255) \in PortWrites
    BY DEF Data, PortWrites, Ports, Chips
  <2> QED  BY <1>1, <2>1
<1>5. \A i \in 1 .. 2 : writes'[i] = WordLeft(2 + 1 - i)'
  <2>1. writes'[1] = Word("master", 1)' /\ writes'[2] = Word("slave", 1)'
    BY <1>1, <1>2, <1>3 DEF Word
  <2>2. WordLeft(2)' = Word("master", 1)' /\ WordLeft(1)' = Word("slave", 1)'
    BY DEF WordLeft
  <2> SUFFICES ASSUME NEW i \in 1 .. 2  PROVE writes'[i] = WordLeft(2 + 1 - i)'
    OBVIOUS
  <2>3. i \in {1, 2} /\ 2 + 1 - 1 = 2 /\ 2 + 1 - 2 = 1  OBVIOUS
  <2> QED  BY <2>1, <2>2, <2>3
<1>6. DataCall'
  <2>1. Stage("master", 1)' /\ Stage("slave", 1)'
    BY <1>1, <1>2, <1>3, ChipsSettled DEF Stage
  <2>2. 2 \div 2 = 1 /\ (2 + 1) \div 2 = 1 /\ 2 \in 0 .. 10  OBVIOUS
  <2> QED  BY <1>4, <1>5, <2>1, <2>2 DEF DataCall
<1>7. ServingKnown' /\ EndCall' /\ (line # NoLine => eois = <<>>)'
  BY <1>1, HandlersUnmoved DEF ChipsInv
<1>8. ChipsTyped'
  BY <1>1, <1>3, <1>4 DEF ChipsInv, ChipsTyped
<1> QED  BY <1>6, <1>7, <1>8 DEF ChipsInv

\* A line that is raised makes chips serve it, and nothing else.
LEMMA RaiseKeeps ==
  ASSUME ChipsInv, NEW irq \in {1, 12}, Raise(irq)
  PROVE  ChipsInv'
<1> DEFINE Chip == [waits : {"nothing", "offset", "cascade", "mode"},
                    offset : Nat, mask : Nat, serving : BOOLEAN]
<1>1. /\ pic \in [Chips -> Chip] /\ line' = irq /\ eois = <<>>
      /\ writes' = writes /\ eois' = eois /\ wanted' = wanted
      /\ pic' = [c \in Chips |-> IF c = "master" \/ irq >= 8
                                 THEN [pic[c] EXCEPT !.serving = TRUE] ELSE pic[c]]
  <2>1. \A c \in Chips : c \in Through(irq) <=> c = "master" \/ irq >= 8
    BY DEF Through
  <2>2. pic' = [c \in Chips |-> IF c \in Through(irq)
                               THEN [pic[c] EXCEPT !.serving = TRUE] ELSE pic[c]]
    BY DEF Raise
  <2> QED  BY <2>1, <2>2 DEF ChipsInv, ChipsTyped, Raise, Handling
<1>2. ASSUME NEW c \in Chips
      PROVE  /\ pic'[c] \in Chip /\ pic'[c].waits = pic[c].waits
             /\ pic'[c].offset = pic[c].offset /\ pic'[c].mask = pic[c].mask
             /\ c = "slave" /\ irq # 12 => pic'[c] = pic[c]
  <2>1. pic[c] \in Chip  BY <1>1
  <2>2. CASE c = "master" \/ irq >= 8
    <3>1. pic'[c] = [pic[c] EXCEPT !.serving = TRUE]  BY <1>1, <2>2
    <3>2. ~(c = "slave" /\ irq # 12)  BY <2>2
    <3> QED  BY <2>1, <3>1, <3>2
  <2>3. CASE ~(c = "master" \/ irq >= 8)
    <3>1. pic'[c] = pic[c]  BY <1>1, <2>3
    <3> QED  BY <2>1, <3>1
  <2> QED  BY <2>2, <2>3
<1>3. pic' \in [Chips -> Chip]  BY <1>1, <1>2
<1>4. ChipsTyped'
  BY <1>1, <1>3 DEF ChipsInv, ChipsTyped
<1>5. DataCall' /\ EndCall'
  <2>1. 1 .. Len(eois') = {}  BY <1>1
  <2>2. EndCall'  BY <2>1 DEF EndCall
  <2> QED  BY <1>1, <1>2, <2>2, SameWords DEF ChipsInv
<1>6. line' # NoLine /\ line' \in {1, 12}  BY <1>1, ChipValues
<1>7. ServingKnown'
  <2> SUFFICES ASSUME NEW c \in Chips, pic'[c].serving, c = "slave"  PROVE line' = 12
    BY <1>6, Zenon DEF ServingKnown
  <2> SUFFICES ASSUME irq # 12  PROVE FALSE
    BY <1>1
  <2>1. pic'[c] = pic[c]  BY <1>2
  <2>2. pic[c].serving  BY <2>1, Zenon
  <2> QED  BY <2>2, NothingServed, Zenon DEF Raise
<1>8. (line # NoLine => eois = <<>>)'  BY <1>1
<1> QED  BY <1>4, <1>5, <1>7, <1>8 DEF ChipsInv

\* The end of an interrupt is told to every chip that serves it.
LEMMA EoiKeeps ==
  ASSUME ChipsInv, line # NoLine, PicEoi(line)
  PROVE  ChipsInv'
<1>1. /\ line \in {1, 12} /\ line' = NoLine /\ pic' = pic /\ wanted' = wanted
      /\ writes' = writes /\ eois = <<>>
      /\ eois' = (IF line >= 8 THEN << Command("slave", "eoi") >> ELSE <<>>)
                      \o << Command("master", "eoi") >>
  BY DEF ChipsInv, ChipsTyped, PicEoi
<1>2. \/ line = 12 /\ eois' = << Command("slave", "eoi"), Command("master", "eoi") >>
      \/ line = 1 /\ eois' = << Command("master", "eoi") >>
  <2>1. ASSUME NEW a, NEW b
        PROVE  <<a>> \o <<b>> = <<a, b>> /\ <<>> \o <<b>> = <<b>>
    <3>1. <<a>> \in Seq({a, b}) /\ <<>> \in Seq({a, b}) /\ <<b>> \in Seq({a, b})
      OBVIOUS
    <3>2. <<a>> \o <<b>> = Append(<<a>>, b)  BY <3>1, AppendIsConcat
    <3>3. Append(<<a>>, b) = <<a, b>>
      <4>1. /\ Append(<<a>>, b) \in Seq({a, b}) /\ Len(Append(<<a>>, b)) = 2
            /\ Append(<<a>>, b)[1] = a /\ Append(<<a>>, b)[2] = b
        BY <3>1, AppendProperties
      <4>2. /\ <<a, b>> \in Seq({a, b}) /\ Len(<<a, b>>) = 2
            /\ <<a, b>>[1] = a /\ <<a, b>>[2] = b
        OBVIOUS
      <4>3. 1 .. 2 = {1, 2}  OBVIOUS
      <4> QED  BY <4>1, <4>2, <4>3, SeqEqual
    <3> QED  BY <3>1, <3>2, <3>3, ConcatEmptySeq
  <2>2. CASE line = 12
    <3>1. eois' = << Command("slave", "eoi") >> \o << Command("master", "eoi") >>
      BY <1>1, <2>2
    <3> QED  BY <2>1, <2>2, <3>1
  <2>3. CASE line = 1
    <3>1. eois' = <<>> \o << Command("master", "eoi") >>  BY <1>1, <2>3
    <3> QED  BY <2>1, <2>3, <3>1
  <2> QED  BY <1>1, <2>2, <2>3
<1>3. /\ Command("slave", "eoi") \in PortWrites /\ Command("master", "eoi") \in PortWrites
      /\ "master" \in Chips /\ "slave" \in Chips
  BY DEF Command, PortWrites, Ports, Chips
<1>4. eois' \in Seq(PortWrites)
  <2>1. \A a, b \in PortWrites : <<a, b>> \in Seq(PortWrites) /\ <<b>> \in Seq(PortWrites)
    OBVIOUS
  <2> QED  BY <1>2, <1>3, <2>1
<1>5. \A i \in 1 .. Len(eois') : \E c \in Chips : Ends(i, c)'
  <2>1. CASE line = 12
    <3>1. eois' = << Command("slave", "eoi"), Command("master", "eoi") >>
      BY <1>2, <2>1
    <3>2. /\ Len(eois') = 2 /\ eois'[1] = Command("slave", "eoi")
          /\ eois'[2] = Command("master", "eoi")
      BY <3>1
    <3> QED  BY <1>3, <3>2 DEF Ends, Command
  <2>2. CASE line = 1
    <3>1. eois' = << Command("master", "eoi") >>  BY <1>2, <2>2
    <3>2. Len(eois') = 1 /\ eois'[1] = Command("master", "eoi")  BY <3>1
    <3> QED  BY <1>3, <3>2 DEF Ends, Command
  <2> QED  BY <1>1, <2>1, <2>2
<1>6. DataCall' /\ EndCall'
  <2>1. EndCall'  BY <1>5 DEF EndCall
  <2> QED  BY <1>1, <2>1, SameWords DEF ChipsInv
<1>7. ServingKnown'
  <2> SUFFICES ASSUME NEW c \in Chips, pic'[c].serving
               PROVE  \E i \in 1 .. Len(eois') : Ends(i, c)'
    BY DEF ServingKnown
  <2>0. pic[c].serving  BY <1>1, Zenon
  <2>1. c = "slave" => line = 12
    <3>1. ~\E i \in 1 .. Len(eois) : Ends(i, c)
      <4>1. Len(eois) = 0  BY <1>1
      <4> QED  BY <4>1
    <3> QED  BY <2>0, <3>1, Zenon DEF ChipsInv, ServingKnown
  <2>2. CASE line = 12
    <3>1. eois' = << Command("slave", "eoi"), Command("master", "eoi") >>
      BY <1>2, <2>2
    <3>2. /\ Len(eois') = 2 /\ eois'[1] = Command("slave", "eoi")
          /\ eois'[2] = Command("master", "eoi")
      BY <3>1
    <3>3. Ends(1, "slave")' /\ Ends(2, "master")'  BY <3>2 DEF Ends, Command
    <3> QED  BY <3>2, <3>3 DEF Chips
  <2>3. CASE line = 1
    <3>1. eois' = << Command("master", "eoi") >>  BY <1>2, <2>3
    <3>2. Len(eois') = 1 /\ eois'[1] = Command("master", "eoi")  BY <3>1
    <3>3. Ends(1, "master")'  BY <3>2 DEF Ends, Command
    <3>4. c = "master"  BY <2>1, <2>3 DEF Chips
    <3> QED  BY <3>2, <3>3, <3>4
  <2> QED  BY <1>1, <2>2, <2>3
<1>8. ChipsTyped'
  BY <1>1, <1>4 DEF ChipsInv, ChipsTyped
<1>9. (line # NoLine => eois = <<>>)'  BY <1>1
<1> QED  BY <1>6, <1>7, <1>8, <1>9 DEF ChipsInv

\* What a step does to the chips, seen from the kernel.
LEMMA ChipSteps ==
  ASSUME [Next]_vars
  PROVE  \/ UNCHANGED <<pic, writes, eois, line, wanted>>
         \/ PortWrite
         \/ EoiWrite
         \/ \E irq \in {1, 12} : Raise(irq)
         \/ line # NoLine /\ PicEoi(line)
         \/ writes = <<>> /\ InterruptCall
<1>1. CASE Boot
  BY <1>1 DEF Boot, BootConsole, BootCheck, BootPanic, BootGdt, BootIdt, BootPmm, BootVmm,
     BootHeap, BootScheduler, OthersThanConsole, OthersThanTasks, OthersThanMemory,
     OthersThanHeap, intVars, GdtInit, IdtInit
<1>2. CASE Step
  BY <1>2 DEF Step, OthersThanMemory, OthersThanVfs, OthersThanConsole, intVars
<1>3. CASE Interrupt
  BY <1>3 DEF Interrupt
<1>4. CASE Handler
  BY <1>4 DEF Handler
<1>5. CASE Call
  BY <1>5 DEF Call, CallMemory, CallHeap, CallVfs, CallTasks, CallInterrupts, CallPrint,
     CallPanic, Calls, Ready, OthersThanMemory, OthersThanVfs, OthersThanConsole,
     OthersThanHeap, OthersThanTasks, intVars
<1>6. CASE UNCHANGED vars
  BY <1>6 DEF vars, intVars
<1> QED  BY <1>1, <1>2, <1>3, <1>4, <1>5, <1>6 DEF Next

\* After every call both chips have the vectors and the mask they should have,
\* whatever interrupts were handled between its port writes, and no chip waits
\* for the end of an interrupt that has been handled.
THEOREM ChipsCorrect == Spec => []ChipsAsWanted
<1>1. Init => ChipsInv
  <2> SUFFICES ASSUME Init  PROVE ChipsInv
    OBVIOUS
  <2>1. PICK masks \in FirmwareMasks :
           /\ pic = [c \in Chips |-> [waits |-> "nothing", offset |-> FirmwareOffset[c],
                                      mask |-> masks[c], serving |-> FALSE]]
           /\ wanted = [c \in Chips |-> [offset |-> FirmwareOffset[c], mask |-> masks[c]]]
    BY DEF Init, InterruptsStart
  <2>2. \A c \in Chips : FirmwareOffset[c] \in Nat /\ masks[c] \in Nat
    <3>1. masks \in [Chips -> 0 .. 255]  BY ChipValues
    <3> QED  BY <3>1, ChipValues
  <2>3. writes = <<>> /\ eois = <<>> /\ line = NoLine  BY DEF Init, InterruptsStart
  <2>4. ChipsTyped  BY <2>1, <2>2, <2>3 DEF ChipsTyped
  <2>5. DataCall
    <3>1. Len(writes) = 0 /\ 0 \div 2 = 0 /\ (0 + 1) \div 2 = 0  BY <2>3
    <3>2. Stage("master", 0) /\ Stage("slave", 0)  BY <2>1 DEF Stage, Chips
    <3> QED  BY <3>1, <3>2 DEF DataCall
  <2>6. EndCall
    <3>1. 1 .. Len(eois) = {}  BY <2>3
    <3> QED  BY <3>1 DEF EndCall
  <2>7. ServingKnown
    <3>1. \A c \in Chips : pic[c].serving = FALSE  BY <2>1
    <3> QED  BY <3>1, Zenon DEF ServingKnown
  <2> QED  BY <2>3, <2>4, <2>5, <2>6, <2>7 DEF ChipsInv
<1>2. ChipsInv /\ [Next]_vars => ChipsInv'
  <2> SUFFICES ASSUME ChipsInv, [Next]_vars  PROVE ChipsInv'
    OBVIOUS
  <2>1. CASE UNCHANGED <<pic, writes, eois, line, wanted>>
    <3>1. /\ pic' = pic /\ writes' = writes /\ eois' = eois /\ line' = line
          /\ wanted' = wanted
      BY <2>1
    <3>2. DataCall'  BY <3>1, SameWords DEF ChipsInv
    <3>3. ServingKnown' /\ EndCall' /\ (line # NoLine => eois = <<>>)'
      BY <3>1, HandlersUnmoved DEF ChipsInv
    <3> QED  BY <3>1, <3>2, <3>3 DEF ChipsInv, ChipsTyped
  <2>2. CASE PortWrite
    BY <2>2, DataWriteKeeps
  <2>3. CASE EoiWrite
    BY <2>3, EndWriteKeeps
  <2>4. CASE \E irq \in {1, 12} : Raise(irq)
    BY <2>4, RaiseKeeps
  <2>5. CASE line # NoLine /\ PicEoi(line)
    BY <2>5, EoiKeeps
  <2>6. CASE writes = <<>> /\ InterruptCall
    <3>1. ASSUME NEW v \in Vectors, NEW h \in Handlers, IdtSetGate(v, h) \/ IrqRegister(v, h)
          PROVE  UNCHANGED <<pic, writes, eois, line, wanted>>
      BY <3>1 DEF IdtSetGate, IrqRegister
    <3> QED
      BY <2>1, <2>6, <3>1, RemapKeeps, MaskKeeps DEF InterruptCall
  <2> QED  BY <2>1, <2>2, <2>3, <2>4, <2>5, <2>6, ChipSteps
<1>3. ChipsInv => ChipsAsWanted
  <2> SUFFICES ASSUME ChipsInv  PROVE ChipsAsWanted
    OBVIOUS
  <2>1. ASSUME writes = <<>>, NEW c \in Chips
        PROVE  /\ pic[c].waits = "nothing"
               /\ pic[c].offset = wanted[c].offset
               /\ pic[c].mask = wanted[c].mask
    <3>1. Stage(c, 0)  BY <2>1, ChipsSettled
    <3> QED  BY <3>1 DEF Stage
  <2>2. ~Handling => \A c \in Chips : ~pic[c].serving  BY NothingServed, Zenon
  <2> QED  BY <2>1, <2>2 DEF ChipsAsWanted
<1> QED  BY <1>1, <1>2, <1>3, PTL DEF Spec
=============================================================================
