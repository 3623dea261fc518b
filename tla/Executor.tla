------------------------------ MODULE Executor ------------------------------
(***************************************************************************)
(* The cooperative executor (task/executor.rs, task/mod.rs): the ready     *)
(* queue of task ids, the poll loop, and the disable / check / sti;hlt     *)
(* sequence that puts the single core to sleep.  Interrupt handlers run    *)
(* with interrupts disabled and to completion, so a handler is one atomic  *)
(* action, enabled between any two steps of the interrupted code while     *)
(* `interrupts' is TRUE.  What the polled tasks do is left open here: a    *)
(* task may wake itself or any task it can hold a waker of, suspend or     *)
(* finish.  KeyboardPath gives the keyboard task its real steps.           *)
(***************************************************************************)
EXTENDS Integers, Sequences, Functions

CONSTANTS
    TaskCap,   \* capacity of the ArrayQueue of ready tasks (100 in the code)
    MaxTasks   \* how many tasks main spawns (2 in the code)

ASSUME ExecutorConstants ==
    /\ TaskCap \in Nat \ {0}
    /\ MaxTasks \in Nat \ {0}

VARIABLES
    next_id,      \* TaskId::new's counter
    tasks,        \* keys of Executor.tasks
    task_queue,   \* the ArrayQueue<TaskId> shared with the wakers
    waker_cache,  \* keys of Executor.waker_cache
    pc,           \* where the main code is
    current,      \* the task being polled
    interrupts    \* the interrupt flag of the processor

evars == <<next_id, tasks, task_queue, waker_cache, pc, current, interrupts>>

TaskIds == 0 .. MaxTasks - 1
NoTask == -1

\* "main": kernel_main spawning; "run": the head of run_ready_tasks' loop;
\* "poll": inside Task::poll; "cli", "check", "sti_hlt", "sti": sleep_if_idle;
\* "hlt": halted; "panic": the panic handler's hlt_loop.
PCs == {"main", "run", "poll", "cli", "check", "sti_hlt", "sti", "hlt", "panic"}

Init ==
    /\ next_id = 0
    /\ tasks = {}
    /\ task_queue = <<>>
    /\ waker_cache = {}
    /\ pc = "main"
    /\ current = NoTask
    /\ interrupts = TRUE
-----------------------------------------------------------------------------
\* ArrayQueue::push followed by expect: a full queue panics.
Push(t, next) ==
    \/ /\ Len(task_queue) < TaskCap
       /\ task_queue' = Append(task_queue, t)
       /\ pc' = next
       /\ UNCHANGED current
    \/ /\ Len(task_queue) >= TaskCap
       /\ pc' = "panic"
       /\ current' = NoTask
       /\ UNCHANGED task_queue

Spawn ==
    /\ pc = "main"
    /\ next_id < MaxTasks
    /\ next_id' = next_id + 1
    /\ tasks' = tasks \cup {next_id}
    /\ Push(next_id, "main")
    /\ UNCHANGED <<waker_cache, interrupts>>

Run ==
    /\ pc = "main"
    /\ next_id = MaxTasks
    /\ pc' = "run"
    /\ UNCHANGED <<next_id, tasks, task_queue, waker_cache, current, interrupts>>

\* Bugs: the waker is made for the poll and not cached; the newest id is popped.
PopTask_NoCache ==
    /\ pc = "run"
    /\ task_queue # <<>>
    /\ task_queue' = Tail(task_queue)
    /\ IF Head(task_queue) \in tasks
       THEN current' = Head(task_queue) /\ pc' = "poll"
       ELSE UNCHANGED <<current, pc>>
    /\ UNCHANGED <<next_id, tasks, waker_cache, interrupts>>

PopTask_Newest ==
    /\ pc = "run"
    /\ task_queue # <<>>
    /\ task_queue' = SubSeq(task_queue, 1, Len(task_queue) - 1)
    /\ LET id == task_queue[Len(task_queue)] IN
       IF id \in tasks
       THEN waker_cache' = waker_cache \cup {id} /\ current' = id /\ pc' = "poll"
       ELSE UNCHANGED <<waker_cache, current, pc>>
    /\ UNCHANGED <<next_id, tasks, interrupts>>

PopTask ==
    /\ pc = "run"
    /\ task_queue # <<>>
    /\ task_queue' = Tail(task_queue)
    /\ IF Head(task_queue) \in tasks
       THEN /\ waker_cache' = waker_cache \cup {Head(task_queue)}
            /\ current' = Head(task_queue)
            /\ pc' = "poll"
       ELSE UNCHANGED <<waker_cache, current, pc>>
    /\ UNCHANGED <<next_id, tasks, interrupts>>

QueueDrained ==
    /\ pc = "run"
    /\ task_queue = <<>>
    /\ pc' = "cli"
    /\ UNCHANGED <<next_id, tasks, task_queue, waker_cache, current, interrupts>>

\* A bug: sleep_if_idle without interrupts::disable().
DisableInterrupts_Missing ==
    /\ pc = "cli"
    /\ pc' = "check"
    /\ UNCHANGED <<next_id, tasks, task_queue, waker_cache, current, interrupts>>

DisableInterrupts ==
    /\ pc = "cli"
    /\ pc' = "check"
    /\ interrupts' = FALSE
    /\ UNCHANGED <<next_id, tasks, task_queue, waker_cache, current>>

\* The is_empty test of sleep_if_idle.
CheckIdle ==
    /\ pc = "check"
    /\ pc' = IF task_queue = <<>> THEN "sti_hlt" ELSE "sti"
    /\ UNCHANGED <<next_id, tasks, task_queue, waker_cache, current, interrupts>>

\* enable_and_hlt: no interrupt is taken between sti and the hlt after it.
EnableAndHlt ==
    /\ pc = "sti_hlt"
    /\ pc' = "hlt"
    /\ interrupts' = TRUE
    /\ UNCHANGED <<next_id, tasks, task_queue, waker_cache, current>>

EnableInterrupts ==
    /\ pc = "sti"
    /\ pc' = "run"
    /\ interrupts' = TRUE
    /\ UNCHANGED <<next_id, tasks, task_queue, waker_cache, current>>

\* A bug: the cached waker is dropped after every poll.
PollPending_DropsWaker ==
    /\ pc = "poll" /\ interrupts
    /\ pc' = "run"
    /\ current' = NoTask
    /\ waker_cache' = waker_cache \ {current}
    /\ UNCHANGED <<next_id, tasks, task_queue, interrupts>>

PollPending ==
    /\ pc = "poll" /\ interrupts
    /\ pc' = "run"
    /\ current' = NoTask
    /\ UNCHANGED <<next_id, tasks, task_queue, waker_cache, interrupts>>

PollReady ==
    /\ pc = "poll" /\ interrupts
    /\ tasks' = tasks \ {current}
    /\ waker_cache' = waker_cache \ {current}
    /\ pc' = "run"
    /\ current' = NoTask
    /\ UNCHANGED <<next_id, task_queue, interrupts>>

\* yield_now().await: the task wakes itself, then its poll returns Pending.
yield_now ==
    /\ pc = "poll" /\ interrupts
    /\ \/ /\ Len(task_queue) < TaskCap
          /\ task_queue' = Append(task_queue, current)
          /\ pc' = "run"
       \/ /\ Len(task_queue) >= TaskCap
          /\ pc' = "panic"
          /\ UNCHANGED task_queue
    /\ current' = NoTask
    /\ UNCHANGED <<next_id, tasks, waker_cache, interrupts>>

\* interrupts::without_interrupts around a critical section of a task.
EnterCritical ==
    /\ pc = "poll" /\ interrupts
    /\ interrupts' = FALSE
    /\ UNCHANGED <<next_id, tasks, task_queue, waker_cache, pc, current>>

LeaveCritical ==
    /\ pc = "poll" /\ ~interrupts
    /\ interrupts' = TRUE
    /\ UNCHANGED <<next_id, tasks, task_queue, waker_cache, pc, current>>
-----------------------------------------------------------------------------
\* A waker is created at a task's first poll; clones may outlive the task.
Wakeable == {t \in 0 .. next_id - 1 : t \in waker_cache \/ t \notin tasks}

\* Waker::wake_by_ref from inside a poll: TaskWaker::wake_task.
WakeInPoll(t) ==
    /\ pc = "poll"
    /\ t \in Wakeable
    /\ Push(t, "poll")
    /\ UNCHANGED <<next_id, tasks, waker_cache, interrupts>>

\* The point the main code goes on from when a handler returns: an interrupt
\* ends hlt, and sleep_if_idle returns to run's loop.
Resumed == IF pc = "hlt" THEN "run" ELSE pc

\* A handler that wakes t (the keyboard handler), and one that only signals
\* end of interrupt (timer, ATA).
InterruptWake(t) ==
    /\ interrupts /\ pc # "panic"
    /\ t \in Wakeable
    /\ Push(t, Resumed)
    /\ UNCHANGED <<next_id, tasks, waker_cache, interrupts>>

timer_interrupt_handler ==
    /\ interrupts /\ pc # "panic"
    /\ pc' = Resumed
    /\ UNCHANGED <<next_id, tasks, task_queue, waker_cache, current, interrupts>>

hlt_loop == pc = "panic" /\ UNCHANGED evars

RunLoop ==
    \/ PopTask \/ QueueDrained
    \/ DisableInterrupts \/ CheckIdle \/ EnableAndHlt \/ EnableInterrupts

Next ==
    \/ Spawn \/ Run \/ RunLoop
    \/ PollPending \/ PollReady \/ yield_now \/ EnterCritical \/ LeaveCritical
    \/ \E t \in TaskIds : WakeInPoll(t) \/ InterruptWake(t)
    \/ timer_interrupt_handler
    \/ hlt_loop

Spec == Init /\ [][Next]_evars

\* The core executes the main code, and every poll returns.
Fairness ==
    /\ WF_evars(Spawn \/ Run \/ RunLoop)
    /\ WF_evars(LeaveCritical)
    /\ SF_evars(PollPending \/ PollReady \/ yield_now)

FairSpec == Spec /\ Fairness
-----------------------------------------------------------------------------
Queued(t) == t \in Range(task_queue)

\* The executor's state is well formed: the ready queue keeps to its capacity and
\* waker_cache holds wakers of live tasks only.
TypeOK ==
    /\ next_id \in 0 .. MaxTasks
    /\ tasks \subseteq 0 .. next_id - 1
    /\ task_queue \in Seq(TaskIds)
    /\ Len(task_queue) <= TaskCap
    /\ waker_cache \subseteq tasks
    /\ pc \in PCs
    /\ current \in TaskIds \cup {NoTask}
    /\ interrupts \in BOOLEAN

\* The task being polled is a live task with a cached waker: the &mut Task and
\* the &Waker that run_ready_tasks holds across task.poll stay valid, and the
\* interrupt handler that drops its clone of the waker never drops the last one.
PollHoldsWaker == pc = "poll" => current \in waker_cache

\* sleep_if_idle halts the core only while no task is ready, and no ready task
\* can appear while it stays halted (the race ARCHITECTURE.md section 4 names).
HaltedMeansIdle == pc = "hlt" => task_queue = <<>>

\* A queued live task is polled, however many other wake-ups come in meanwhile
\* (unless a wake-up found the queue full, which panics).
WokenTaskIsPolled ==
    \A t \in TaskIds :
        (t \in tasks /\ Queued(t)) ~> (pc = "panic" \/ current = t)

Abstract == INSTANCE Scheduler WITH
    Tasks <- TaskIds, None <- NoTask,
    live <- tasks,
    runnable <- Range(task_queue),
    running <- current,
    mode <- CASE pc = "panic" -> "panicked" [] pc = "hlt" -> "asleep" [] OTHER -> "awake"

\* The executor implements the scheduler it promises to be.
ImplementsScheduler == Abstract!Spec
=============================================================================
