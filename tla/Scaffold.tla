------------------------------ MODULE Scaffold ------------------------------
(***************************************************************************)
(* The C kernel (kernel/main.c): kernel_main brings the parts up in order, *)
(* or panics when the boot information is not the boot loader's, and then  *)
(* waits.  From there on drivers call the parts' interfaces; the kernel is *)
(* single threaded, so a call ends before the next begins.  No driver in C *)
(* exists yet: the calls are those the interfaces allow, MaxCalls of them, *)
(* to the parts in uses.  Nor does any C code enable interrupts yet; a     *)
(* driver of the controllers will, so with that part in use they arrive at *)
(* any point after the start, between the writes of a call too.            *)
(***************************************************************************)
EXTENDS Memory, KernelHeap, Vfs, Tasks, EarlyConsole, Interrupts

CONSTANTS BootInfos,   \* the boot information: valid, screen
          NoBootInfo,  \* the null pointer
          Banner,      \* "Navine C kernel scaffold"
          Workloads,   \* the sets of parts drivers may use
          MaxCalls     \* bound

Parts == {"memory", "heap", "files", "tasks", "console", "interrupts"}

ASSUME ScaffoldValues ==
    /\ Workloads \subseteq SUBSET Parts
    /\ MaxCalls \in Nat
    /\ BootInfos \subseteq [valid : BOOLEAN, screen : Screens] \cup {NoBootInfo}
    /\ Banner \in Seq({"newline", "space", "glyph"})

VARIABLES boot_info, boot, uses, calls

kernelVars == <<boot_info, boot, uses, calls>>
vars == <<memVars, heapVars, vfsVars, taskVars, conVars, intVars, kernelVars>>

Init ==
    /\ MemoryInit /\ KernelHeapInit /\ VfsStart /\ TasksStart /\ ConsoleStart
    /\ InterruptsStart
    /\ boot_info \in BootInfos
    /\ boot = "console"
    /\ uses \in Workloads
    /\ calls = 0

\* What is left alone by a step of one part.
OthersThanMemory == UNCHANGED <<heapVars, vfsVars, taskVars, conVars, intVars>>
OthersThanHeap == UNCHANGED <<memVars, vfsVars, taskVars, conVars, intVars>>
OthersThanVfs == UNCHANGED <<memVars, heapVars, taskVars, conVars, intVars>>
OthersThanTasks == UNCHANGED <<memVars, heapVars, vfsVars, conVars, intVars>>
OthersThanConsole == UNCHANGED <<memVars, heapVars, vfsVars, taskVars, intVars>>
OthersThanInterrupts == UNCHANGED <<memVars, heapVars, vfsVars, taskVars, conVars>>

-----------------------------------------------------------------------------
(* kernel_main *)

Boots(from, to) ==
    boot = from /\ boot' = to /\ UNCHANGED <<boot_info, uses, calls>>

\* The console reads the boot information before its magic is looked at.
BootConsole ==
    /\ Boots("console", "check")
    /\ EarlyConsoleInit(IF boot_info = NoBootInfo THEN NoScreen ELSE boot_info.screen)
    /\ OthersThanConsole

boot_info_valid == boot_info # NoBootInfo /\ boot_info.valid

BootCheck ==
    /\ boot_info_valid
    /\ Boots("check", "gdt")
    /\ EarlyPuts(Banner)
    /\ OthersThanConsole

BootPanic ==
    /\ ~boot_info_valid
    /\ Boots("check", "panic")
    /\ KernelPanic
    /\ OthersThanConsole

BootGdt ==
    ~Printing /\ Boots("gdt", "idt") /\ GdtInit /\ OthersThanInterrupts

BootIdt == Boots("idt", "pmm") /\ IdtInit /\ OthersThanInterrupts

BootPmm ==
    /\ PmmInitStep
    /\ Boots("pmm", IF mapIndex' = Len(MemoryMap) + 2 THEN "vmm" ELSE "pmm")
    /\ OthersThanMemory

BootVmm == Boots("vmm", "heap") /\ VmmInit /\ OthersThanMemory

BootHeap == Boots("heap", "scheduler") /\ HeapInit /\ OthersThanHeap

BootScheduler == Boots("scheduler", "idle") /\ SchedulerInit /\ OthersThanTasks

Boot ==
    \/ BootConsole \/ BootCheck \/ BootPanic \/ BootGdt \/ BootIdt
    \/ BootPmm \/ BootVmm \/ BootHeap \/ BootScheduler

-----------------------------------------------------------------------------
(* A call goes on to its end, handlers of interrupts between its steps. *)

Goes == UNCHANGED kernelVars

Step ==
    /\ ~Handling
    /\ \/ MemoryStep /\ OthersThanMemory /\ Goes
       \/ LookupStep /\ OthersThanVfs /\ Goes
       \/ PrintStep /\ OthersThanConsole /\ Goes
       \/ PortWrite /\ OthersThanInterrupts /\ Goes

(* An interrupt and its handler. *)

Interrupt ==
    /\ boot = "idle" /\ "interrupts" \in uses
    /\ calls < MaxCalls
    /\ calls' = calls + 1
    /\ \E irq \in {1, 12} : Raise(irq)
    /\ OthersThanInterrupts
    /\ UNCHANGED <<boot_info, boot, uses>>

Handler ==
    /\ (line # NoLine /\ PicEoi(line)) \/ EoiWrite
    /\ OthersThanInterrupts /\ Goes

(* The next call. *)

Ready == ~Handling /\ MemoryIdle /\ ~Looking /\ ~Printing /\ writes = <<>>

Calls(part) ==
    /\ boot = "idle" /\ Ready
    /\ part \in uses
    /\ calls < MaxCalls
    /\ calls' = calls + 1
    /\ UNCHANGED <<boot_info, boot, uses>>

CallMemory == Calls("memory") /\ MemoryCall /\ OthersThanMemory
CallHeap == Calls("heap") /\ HeapCall /\ OthersThanHeap
CallVfs == Calls("files") /\ VfsCall /\ OthersThanVfs
CallTasks == Calls("tasks") /\ TaskCall /\ OthersThanTasks
CallInterrupts == Calls("interrupts") /\ InterruptCall /\ OthersThanInterrupts

CallPrint ==
    Calls("console") /\ (\E t \in Texts : EarlyPuts(t)) /\ OthersThanConsole

\* Any part may find that it cannot go on.
CallPanic ==
    /\ boot = "idle" /\ Ready /\ "console" \in uses
    /\ boot' = "panic"
    /\ KernelPanic
    /\ OthersThanConsole
    /\ UNCHANGED <<boot_info, uses, calls>>

Call ==
    \/ CallMemory \/ CallHeap \/ CallVfs \/ CallTasks \/ CallInterrupts
    \/ CallPrint \/ CallPanic

Next == Boot \/ Step \/ Interrupt \/ Handler \/ Call

Spec == Init /\ [][Next]_vars
=============================================================================
