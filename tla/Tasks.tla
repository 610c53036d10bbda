------------------------------- MODULE Tasks --------------------------------
(***************************************************************************)
(* The task table, the tick and the calls that end a task:                 *)
(* kernel/proc/process.c, scheduler.c, signal.c, syscall.c and wait.c.     *)
(* A task is its index in the table.                                       *)
(***************************************************************************)
EXTENDS Integers, Sequences

CONSTANTS MAX_TASKS,
          NoTask,       \* the null pointer
          Signals,      \* signal numbers callers send
          SyscallNumbers,
          SYS_EXIT

ASSUME TaskSizes ==
    /\ MAX_TASKS \in Nat \ {0}
    /\ NoTask \notin Nat
    /\ Signals \subseteq Int

VARIABLES taskState, pid, cpuTime, current_task, ticks,
          created   \* (history) the tasks callers were given, in order

taskVars == <<taskState, pid, cpuTime, current_task, ticks, created>>

TaskSlots == 0 .. MAX_TASKS - 1

\* Zeroed memory reads as a table of running tasks without a number.
TasksStart ==
    /\ taskState = [t \in TaskSlots |-> "running"]
    /\ pid = [t \in TaskSlots |-> 0]
    /\ cpuTime = [t \in TaskSlots |-> 0]
    /\ current_task = NoTask /\ ticks = 0 /\ created = <<>>

\* scheduler_init, with process_table_init.
SchedulerInit ==
    /\ ticks' = 0
    /\ taskState' = [t \in TaskSlots |-> IF t = 0 THEN "running" ELSE "stopped"]
    /\ pid' = [t \in TaskSlots |-> IF t = 0 THEN 1 ELSE 0]
    /\ current_task' = 0
    /\ UNCHANGED <<cpuTime, created>>

\* Slip: the slot of a dead task is taken for a stopped one.
Stopped_and_dead == { t \in TaskSlots : taskState[t] \in {"stopped", "zombie"} }

Stopped == { t \in TaskSlots : taskState[t] = "stopped" }

\* The first stopped slot; nothing when there is none.
TaskCreateKernel ==
    /\ \/ /\ Stopped = {}
          /\ UNCHANGED <<taskState, pid, created>>
       \/ \E t \in Stopped :
             /\ \A u \in Stopped : t <= u
             /\ pid' = [pid EXCEPT ![t] = t + 1]
             /\ taskState' = [taskState EXCEPT ![t] = "ready"]
             /\ created' = Append(created, t)
    /\ UNCHANGED <<cpuTime, current_task, ticks>>

\* cpu_time_ns and vruntime advance together.
SchedulerTick ==
    /\ ticks' = ticks + 1
    /\ cpuTime' = IF current_task = NoTask THEN cpuTime
                  ELSE [cpuTime EXCEPT ![current_task] = @ + 1]
    /\ UNCHANGED <<taskState, pid, current_task, created>>

SchedulerYield == UNCHANGED taskVars

EndTask(t) ==
    /\ taskState' = [taskState EXCEPT ![t] = "zombie"]
    /\ UNCHANGED <<pid, cpuTime, current_task, ticks, created>>

SignalSend(t, signal) ==
    IF t # NoTask /\ signal = 9 THEN EndTask(t) ELSE UNCHANGED taskVars

\* Every call but SYS_EXIT returns a number and changes nothing.
SyscallDispatch(num) ==
    IF num = SYS_EXIT /\ current_task # NoTask THEN EndTask(current_task)
    ELSE UNCHANGED taskVars

\* wait_for_child knows no children.
WaitForChild == UNCHANGED taskVars

Created == { created[i] : i \in DOMAIN created }

TaskCall ==
    \/ TaskCreateKernel
    \/ SchedulerTick
    \/ SchedulerYield
    \/ WaitForChild
    \/ \E t \in Created \cup {NoTask, current_task}, s \in Signals : SignalSend(t, s)
    \/ \E n \in SyscallNumbers : SyscallDispatch(n)

(***************************************************************************)
(* A caller's task keeps its slot for good: task_create_kernel never hands *)
(* out the slot of a task that still counts as alive, of a zombie nobody   *)
(* has waited for, or the boot task's; so two tasks never share a number,  *)
(* and a task that was killed is not revived by a later creation.          *)
(***************************************************************************)
SlotsKept ==
    current_task # NoTask =>
        /\ \A i, j \in DOMAIN created : created[i] = created[j] => i = j
        /\ 0 \notin Created
        /\ \A t \in TaskSlots :
              /\ taskState[t] = "stopped" <=> t \notin Created \cup {0}
              /\ pid[t] = IF t \in Created \cup {0} THEN t + 1 ELSE 0
=============================================================================
