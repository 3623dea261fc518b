----------------------------- MODULE TaskProofs -----------------------------
(***************************************************************************)
(* Proofs about Executor and KeyboardPath, for all capacities and numbers  *)
(* of tasks and any number of scancodes.  InputInv says where the keyboard *)
(* task and its waker are; OrderInv, on top of it, where each scancode is. *)
(* Last come the proofs about Pong, on a court of any size.                *)
(***************************************************************************)
EXTENDS KeyboardPath, Pong, SequenceTheorems, TLAPS

\* What the queue operations do to the elements of a queue: Append is push, Head
\* and Tail are pop.

\* An element is in the queue exactly when it is at one of its positions.
LEMMA InQueue ==
    ASSUME NEW S, NEW q \in Seq(S), NEW x
    PROVE  x \in Range(q) <=> \E i \in 1 .. Len(q) : q[i] = x
  BY DEF Range

\* A queue without elements is the empty queue.
LEMMA EmptyQueue ==
    ASSUME NEW S, NEW q \in Seq(S)
    PROVE  Range(q) = {} <=> q = <<>>
  BY DEF Range

\* push adds its element and nothing else.
LEMMA PushElements ==
    ASSUME NEW S, NEW q \in Seq(S), NEW x \in S
    PROVE  Range(Append(q, x)) = Range(q) \cup {x}
  <1>1. /\ Append(q, x) \in Seq(S)
        /\ Len(Append(q, x)) = Len(q) + 1
        /\ \A i \in 1 .. Len(q) : Append(q, x)[i] = q[i]
        /\ Append(q, x)[Len(q) + 1] = x
    OBVIOUS
  <1>2. ASSUME NEW y \in Range(Append(q, x)) PROVE y \in Range(q) \cup {x}
    <2>1. PICK i \in 1 .. Len(Append(q, x)) : Append(q, x)[i] = y
      <3>1. Append(q, x) \in Seq(S)
        BY <1>1, Zenon
      <3> QED
        BY <1>2, <3>1, InQueue, Zenon
    <2>2. CASE i \in 1 .. Len(q)
      BY <1>1, <2>1, <2>2, InQueue, Zenon
    <2>3. CASE i = Len(q) + 1
      BY <1>1, <2>1, <2>3, Zenon
    <2> QED
      BY <1>1, <2>1, <2>2, <2>3
  <1>3. ASSUME NEW y \in Range(q) PROVE y \in Range(Append(q, x))
    <2>1. PICK i \in 1 .. Len(q) : q[i] = y
      BY InQueue, Zenon
    <2>2. i \in 1 .. Len(Append(q, x)) /\ Append(q, x)[i] = y
      BY <1>1, <2>1
    <2> QED
      BY <1>1, <2>2, InQueue, Zenon
  <1>4. x \in Range(Append(q, x))
    <2>1. Len(q) + 1 \in 1 .. Len(Append(q, x))
      BY <1>1
    <2> QED
      BY <1>1, <2>1, InQueue, Zenon
  <1> QED
    BY <1>2, <1>3, <1>4, Zenon

\* pop removes one occurrence of the head, and no other element.
LEMMA PopElements ==
    ASSUME NEW S, NEW q \in Seq(S), q # <<>>
    PROVE  /\ Head(q) \in Range(q)
           /\ Range(q) = Range(Tail(q)) \cup {Head(q)}
  <1>1. /\ Len(q) > 0
        /\ Tail(q) \in Seq(S)
        /\ Len(Tail(q)) = Len(q) - 1
        /\ \A i \in 1 .. Len(q) - 1 : Tail(q)[i] = q[i + 1]
        /\ Head(q) = q[1]
    OBVIOUS
  <1>2. Head(q) \in Range(q)
    BY <1>1, InQueue
  <1>3. ASSUME NEW y \in Range(q), y # Head(q) PROVE y \in Range(Tail(q))
    <2>1. PICK i \in 1 .. Len(q) : q[i] = y
      BY InQueue, Zenon
    <2>2. i - 1 \in 1 .. Len(Tail(q)) /\ Tail(q)[i - 1] = y
      BY <1>1, <1>3, <2>1
    <2> QED
      BY <1>1, <2>2, InQueue, Zenon
  <1>4. ASSUME NEW y \in Range(Tail(q)) PROVE y \in Range(q)
    <2>0. Tail(q) \in Seq(S)
      BY <1>1, Zenon
    <2>1. PICK i \in 1 .. Len(Tail(q)) : Tail(q)[i] = y
      BY <2>0, InQueue, Zenon
    <2>2. i + 1 \in 1 .. Len(q) /\ q[i + 1] = y
      BY <1>1, <2>1
    <2> QED
      BY <2>2, InQueue, Zenon
  <1> QED
    BY <1>2, <1>3, <1>4
-----------------------------------------------------------------------------
\* What sleep_if_idle relies on: interrupts are off from the disable to the
\* enable, so the emptiness it saw still holds when it executes sti;hlt.
SleepWindow ==
    /\ pc \in {"check", "sti_hlt", "sti"} => ~interrupts
    /\ pc = "sti_hlt" => task_queue = <<>>

\* A task is being polled exactly while `current' names one.
PollNamesTask == pc = "poll" <=> current # NoTask

\* The inductive invariant of the executor.
ExecInv == TypeOK /\ PollHoldsWaker /\ HaltedMeansIdle /\ SleepWindow /\ PollNamesTask

\* The ready queue stays a queue of task ids within its capacity when a wake-up
\* is pushed, or else the push panics.
LEMMA PushTyped ==
    ASSUME TypeOK, NEW t \in TaskIds, NEW next \in PCs \ {"panic"}, Push(t, next)
    PROVE  /\ task_queue' \in Seq(TaskIds)
           /\ Len(task_queue') <= TaskCap
           /\ pc' \in {next, "panic"}
           /\ current' \in {current, NoTask}
           /\ pc' = "panic" => current' = NoTask
           /\ pc' # "panic" => current' = current
  BY ExecutorConstants DEF TypeOK, Push, NoTask, PCs

\* Task ids that can be woken are ids that were issued.
LEMMA WakeableTyped == TypeOK => Wakeable \subseteq TaskIds
  BY ExecutorConstants DEF TypeOK, Wakeable, TaskIds

\* The executor starts in its inductive invariant.
LEMMA ExecInvInit == Init => ExecInv
  BY ExecutorConstants DEF Init, ExecInv, TypeOK, PollHoldsWaker, HaltedMeansIdle,
     SleepWindow, PollNamesTask, TaskIds, NoTask, PCs

\* Every step of the executor, of a polled task and of a handler preserves the
\* invariant.
LEMMA ExecInvNext == ExecInv /\ [Next]_evars => ExecInv'
  <1> SUFFICES ASSUME ExecInv, [Next]_evars PROVE ExecInv'
    BY Zenon
  <1> USE ExecutorConstants
  <1> USE DEF ExecInv, TypeOK, PollHoldsWaker, HaltedMeansIdle, SleepWindow,
              PollNamesTask, NoTask, PCs
  <1>1. CASE Spawn
    <2>1. next_id \in TaskIds
      BY <1>1 DEF Spawn, TaskIds
    <2>2. Push(next_id, "main")
      BY <1>1, Zenon DEF Spawn
    <2>3. /\ task_queue' \in Seq(TaskIds)
          /\ Len(task_queue') <= TaskCap
          /\ pc' \in {"main", "panic"}
          /\ pc' = "panic" => current' = NoTask
          /\ pc' # "panic" => current' = current
      BY <2>1, <2>2, PushTyped, Zenon
    <2> QED
      BY <1>1, <2>3 DEF Spawn, TaskIds
  <1>2. CASE Run
    BY <1>2, Zenon DEF Run
  <1>3. CASE PopTask
    <2>1. Head(task_queue) \in TaskIds /\ Tail(task_queue) \in Seq(TaskIds)
          /\ Len(Tail(task_queue)) <= TaskCap
      BY <1>3 DEF PopTask
    <2>2. CASE Head(task_queue) \in tasks
      <3>1. Head(task_queue) # NoTask
        BY <2>1 DEF TaskIds
      <3>2. /\ task_queue' = Tail(task_queue) /\ waker_cache' = waker_cache \cup {Head(task_queue)}
            /\ current' = Head(task_queue) /\ pc' = "poll"
            /\ UNCHANGED <<next_id, tasks, interrupts>>
        BY <1>3, <2>2, Zenon DEF PopTask
      <3> QED
        BY <2>1, <2>2, <3>1, <3>2, Zenon
    <2>3. CASE Head(task_queue) \notin tasks
      BY <1>3, <2>1, <2>3, Zenon DEF PopTask
    <2> QED
      BY <2>2, <2>3, Zenon
  <1>4. CASE QueueDrained
    BY <1>4, Zenon DEF QueueDrained
  <1>5. CASE DisableInterrupts
    BY <1>5, Zenon DEF DisableInterrupts
  <1>6. CASE CheckIdle
    BY <1>6, Zenon DEF CheckIdle
  <1>7. CASE EnableAndHlt
    BY <1>7, Zenon DEF EnableAndHlt
  <1>8. CASE EnableInterrupts
    BY <1>8, Zenon DEF EnableInterrupts
  <1>9. CASE PollPending
    BY <1>9, Zenon DEF PollPending
  <1>10. CASE PollReady
    BY <1>10, Zenon DEF PollReady
  <1>11. CASE yield_now
    <2>1. current \in TaskIds
      BY <1>11, Zenon DEF yield_now
    <2>2. /\ pc' \in {"run", "panic"} /\ current' = NoTask
          /\ UNCHANGED <<next_id, tasks, waker_cache, interrupts>>
      BY <1>11, Zenon DEF yield_now
    <2>3. task_queue' \in Seq(TaskIds) /\ Len(task_queue') <= TaskCap
      <3>1. CASE Len(task_queue) < TaskCap /\ task_queue' = Append(task_queue, current)
        BY <2>1, <3>1
      <3>2. CASE UNCHANGED task_queue
        BY <3>2, Zenon
      <3> QED
        BY <1>11, <3>1, <3>2, Zenon DEF yield_now
    <2> QED
      BY <2>2, <2>3, Zenon
  <1>12. CASE EnterCritical
    BY <1>12, Zenon DEF EnterCritical
  <1>13. CASE LeaveCritical
    BY <1>13, Zenon DEF LeaveCritical
  <1>14. ASSUME NEW t \in TaskIds, WakeInPoll(t) PROVE ExecInv'
    <2>1. Push(t, "poll")
      BY <1>14, Zenon DEF WakeInPoll
    <2>2. /\ task_queue' \in Seq(TaskIds)
          /\ Len(task_queue') <= TaskCap
          /\ pc' \in {"poll", "panic"}
          /\ pc' = "panic" => current' = NoTask
          /\ pc' # "panic" => current' = current
      BY <2>1, PushTyped, Zenon
    <2> QED
      BY <1>14, <2>2, Zenon DEF WakeInPoll
  <1>15. ASSUME NEW t \in TaskIds, InterruptWake(t) PROVE ExecInv'
    <2>1. Push(t, Resumed) /\ Resumed \in PCs \ {"panic"}
      BY <1>15, Zenon DEF InterruptWake, Resumed
    <2>2. /\ task_queue' \in Seq(TaskIds)
          /\ Len(task_queue') <= TaskCap
          /\ pc' \in {Resumed, "panic"}
          /\ pc' = "panic" => current' = NoTask
          /\ pc' # "panic" => current' = current
      BY <2>1, PushTyped, Zenon
    <2> QED
      BY <1>15, <2>2, Zenon DEF InterruptWake, Resumed
  <1>16. CASE timer_interrupt_handler
    BY <1>16, Zenon DEF timer_interrupt_handler, Resumed
  <1>17. CASE UNCHANGED evars
    BY <1>17, Zenon DEF evars
  <1> QED
    BY <1>1, <1>2, <1>3, <1>4, <1>5, <1>6, <1>7, <1>8, <1>9, <1>10, <1>11,
       <1>12, <1>13, <1>14, <1>15, <1>16, <1>17, Zenon
       DEF Next, RunLoop, hlt_loop

\* The executor keeps its inductive invariant.
THEOREM ExecutorInvariant == Spec => []ExecInv
  BY ExecInvInit, ExecInvNext, PTL DEF Spec

\* Type correctness of the executor, for any capacity and any number of tasks.
THEOREM ExecutorTypeOK == Spec => []TypeOK
  <1>1. ExecInv => TypeOK
    BY Zenon DEF ExecInv
  <1> QED
    BY <1>1, ExecutorInvariant, PTL

\* The core never sleeps while a task is ready.
THEOREM ExecutorHaltedMeansIdle == Spec => []HaltedMeansIdle
  <1>1. ExecInv => HaltedMeansIdle
    BY Zenon DEF ExecInv
  <1> QED
    BY <1>1, ExecutorInvariant, PTL

\* The task being polled stays live and keeps its cached waker.
THEOREM ExecutorPollHoldsWaker == Spec => []PollHoldsWaker
  <1>1. ExecInv => PollHoldsWaker
    BY Zenon DEF ExecInv
  <1> QED
    BY <1>1, ExecutorInvariant, PTL
-----------------------------------------------------------------------------
\* A push that finds room is a wake-up of the scheduler, one that does not is
\* its panic.
LEMMA PushIsWake ==
    ASSUME ExecInv, NEW t \in TaskIds, Push(t, Resumed), pc # "panic",
           UNCHANGED tasks
    PROVE  Abstract!Wake(t) \/ Abstract!Panic
  <1>1. CASE Len(task_queue) < TaskCap
    <2>1. /\ task_queue' = Append(task_queue, t)
          /\ pc' = Resumed /\ current' = current
      BY <1>1, ExecutorConstants DEF Push, ExecInv, TypeOK
    <2>2. Range(task_queue') = Range(task_queue) \cup {t}
      BY <2>1, PushElements DEF ExecInv, TypeOK
    <2> QED
      BY <2>1, <2>2, Zenon DEF Abstract!Wake, Resumed
  <1>2. CASE Len(task_queue) >= TaskCap
    <2>1. pc' = "panic" /\ current' = NoTask /\ UNCHANGED task_queue
      BY <1>2, ExecutorConstants DEF Push, ExecInv, TypeOK
    <2>2. {} \in SUBSET TaskIds /\ tasks' = tasks \cup {}
      BY Zenon
    <2> QED
      BY <2>1, <2>2, Zenon DEF Abstract!Panic
  <1> QED
    BY <1>1, <1>2, ExecutorConstants DEF ExecInv, TypeOK

\* Every step of the executor is a step of the scheduler or leaves it alone.
LEMMA ExecutorStepIsSchedulerStep ==
    ExecInv /\ [Next]_evars => [Abstract!Next]_(Abstract!svars)
  <1> SUFFICES ASSUME ExecInv, [Next]_evars
               PROVE  Abstract!Next \/ UNCHANGED Abstract!svars
    BY Zenon
  <1> USE DEF Abstract!svars
  <1>1. CASE Spawn
    <2>1. next_id \in TaskIds /\ next_id \notin tasks /\ current = NoTask
      BY <1>1, ExecutorConstants
      DEF Spawn, TaskIds, ExecInv, TypeOK, PollNamesTask
    <2>2. CASE Len(task_queue) < TaskCap
      <3>1. /\ task_queue' = Append(task_queue, next_id)
            /\ pc' = "main" /\ current' = current
        BY <1>1, <2>2, ExecutorConstants DEF Spawn, Push, ExecInv, TypeOK
      <3>2. Range(task_queue') = Range(task_queue) \cup {next_id}
        BY <2>1, <3>1, PushElements DEF ExecInv, TypeOK
      <3> QED
        BY <1>1, <2>1, <3>1, <3>2, Zenon DEF Spawn, Abstract!Next, Abstract!Spawn
    <2>3. CASE Len(task_queue) >= TaskCap
      <3>1. /\ pc' = "panic" /\ current' = NoTask /\ UNCHANGED task_queue
            /\ tasks' = tasks \cup {next_id}
        BY <1>1, <2>3, ExecutorConstants DEF Spawn, Push, ExecInv, TypeOK
      <3>2. {next_id} \in SUBSET TaskIds
        BY <2>1, Zenon
      <3>3. Abstract!Panic
        BY <3>1, <3>2, Zenon DEF Abstract!Panic
      <3> QED
        BY <3>3, Zenon DEF Abstract!Next
    <2> QED
      BY <2>2, <2>3, ExecutorConstants DEF ExecInv, TypeOK
  <1>2. CASE Run
    BY <1>2, Zenon DEF Run
  <1>3. CASE PopTask
    <2>1. /\ Head(task_queue) \in TaskIds
          /\ Head(task_queue) \in Range(task_queue)
          /\ Range(task_queue) = Range(Tail(task_queue)) \cup {Head(task_queue)}
          /\ task_queue' = Tail(task_queue)
      BY <1>3, PopElements DEF PopTask, ExecInv, TypeOK
    <2>2. Range(task_queue') \in {Range(task_queue), Range(task_queue) \ {Head(task_queue)}}
      BY <2>1, Zenon
    <2>3. pc = "run" /\ current = NoTask
      BY <1>3, Zenon DEF PopTask, ExecInv, PollNamesTask
    <2>4. CASE Head(task_queue) \in tasks
      <3>1. Abstract!Start(Head(task_queue))
        BY <1>3, <2>1, <2>2, <2>3, <2>4, Zenon DEF PopTask, Abstract!Start
      <3> QED
        BY <2>1, <3>1, Zenon DEF Abstract!Next
    <2>5. CASE Head(task_queue) \notin tasks
      <3>1. Abstract!Discard(Head(task_queue))
        BY <1>3, <2>1, <2>2, <2>3, <2>5, Zenon DEF PopTask, Abstract!Discard
      <3> QED
        BY <2>1, <3>1, Zenon DEF Abstract!Next
    <2> QED
      BY <2>4, <2>5, Zenon
  <1>4. CASE QueueDrained
    BY <1>4, Zenon DEF QueueDrained
  <1>5. CASE DisableInterrupts
    BY <1>5, Zenon DEF DisableInterrupts
  <1>6. CASE CheckIdle
    BY <1>6, Zenon DEF CheckIdle
  <1>7. CASE EnableAndHlt
    <2>1. Abstract!Sleep
      BY <1>7, EmptyQueue, Zenon
      DEF EnableAndHlt, Abstract!Sleep, ExecInv, TypeOK, SleepWindow, PollNamesTask
    <2> QED
      BY <2>1, Zenon DEF Abstract!Next
  <1>8. CASE EnableInterrupts
    BY <1>8, Zenon DEF EnableInterrupts
  <1>9. CASE PollPending
    <2>1. Abstract!Suspend
      BY <1>9, Zenon DEF PollPending, Abstract!Suspend, ExecInv, PollNamesTask
    <2> QED
      BY <2>1, Zenon DEF Abstract!Next
  <1>10. CASE PollReady
    <2>1. Abstract!Finish
      BY <1>10, Zenon DEF PollReady, Abstract!Finish, ExecInv, PollNamesTask
    <2> QED
      BY <2>1, Zenon DEF Abstract!Next
  <1>11. CASE yield_now
    <2>1. current # NoTask /\ current \in TaskIds /\ pc = "poll"
      BY <1>11, Zenon DEF yield_now, ExecInv, TypeOK, PollNamesTask
    <2>2. CASE Len(task_queue) < TaskCap
      <3>1. task_queue' = Append(task_queue, current) /\ pc' = "run"
        BY <1>11, <2>2, ExecutorConstants DEF yield_now, ExecInv, TypeOK
      <3>2. Range(task_queue') = Range(task_queue) \cup {current}
        BY <2>1, <3>1, PushElements DEF ExecInv, TypeOK
      <3>3. Abstract!Yield
        BY <1>11, <2>1, <3>1, <3>2, Zenon DEF yield_now, Abstract!Yield
      <3> QED
        BY <3>3, Zenon DEF Abstract!Next
    <2>3. CASE Len(task_queue) >= TaskCap
      <3>1. pc' = "panic" /\ UNCHANGED task_queue
        BY <1>11, <2>3, ExecutorConstants DEF yield_now, ExecInv, TypeOK
      <3>2. current' = NoTask /\ UNCHANGED tasks
        BY <1>11, Zenon DEF yield_now
      <3>3. {} \in SUBSET TaskIds /\ tasks' = tasks \cup {}
        BY <3>2, Zenon
      <3>4. Abstract!Panic
        BY <3>1, <3>2, <3>3, Zenon DEF Abstract!Panic
      <3> QED
        BY <3>4, Zenon DEF Abstract!Next
    <2> QED
      BY <2>2, <2>3, ExecutorConstants DEF ExecInv, TypeOK
  <1>12. CASE EnterCritical
    BY <1>12, Zenon DEF EnterCritical
  <1>13. CASE LeaveCritical
    BY <1>13, Zenon DEF LeaveCritical
  <1>14. ASSUME NEW t \in TaskIds, WakeInPoll(t)
         PROVE  Abstract!Next
    <2>1. Resumed = "poll"
      BY <1>14, Zenon DEF WakeInPoll, Resumed
    <2>2. Abstract!Wake(t) \/ Abstract!Panic
      BY <1>14, <2>1, PushIsWake, Zenon DEF WakeInPoll
    <2> QED
      BY <2>2, Zenon DEF Abstract!Next
  <1>15. ASSUME NEW t \in TaskIds, InterruptWake(t)
         PROVE  Abstract!Next
    <2>1. Abstract!Wake(t) \/ Abstract!Panic
      BY <1>15, PushIsWake, Zenon DEF InterruptWake
    <2> QED
      BY <2>1, Zenon DEF Abstract!Next
  <1>16. CASE timer_interrupt_handler
    <2>1. CASE pc = "hlt"
      <3>1. Abstract!Rouse
        BY <1>16, <2>1, Zenon DEF timer_interrupt_handler, Resumed, Abstract!Rouse
      <3> QED
        BY <3>1, Zenon DEF Abstract!Next
    <2>2. CASE pc # "hlt"
      BY <1>16, <2>2, Zenon DEF timer_interrupt_handler, Resumed
    <2> QED
      BY <2>1, <2>2, Zenon
  <1>17. CASE UNCHANGED evars
    BY <1>17, Zenon DEF evars
  <1> QED
    BY <1>1, <1>2, <1>3, <1>4, <1>5, <1>6, <1>7, <1>8, <1>9, <1>10, <1>11,
       <1>12, <1>13, <1>14, <1>15, <1>16, <1>17, Zenon
       DEF Next, RunLoop, hlt_loop

\* The executor implements the scheduler: whatever wakes a task, that task stays
\* runnable until it is polled, and the core sleeps only when none is runnable.
THEOREM ExecutorImplementsScheduler == Spec => ImplementsScheduler
  <1>1. Init => Abstract!Init
    BY DEF Init, Abstract!Init, Range
  <1> QED
    BY <1>1, ExecutorInvariant, ExecutorStepIsSchedulerStep, PTL
    DEF Spec, ImplementsScheduler, Abstract!Spec
-----------------------------------------------------------------------------
\* The keyboard path.

AtKbd == pc = "poll" /\ current = Kbd

\* The keyboard task is live from its spawn on: print_keypresses never returns.
KbdLives == next_id > 0 => Kbd \in tasks

\* Which parts of print_keypresses a poll can be suspended in: before its first
\* poll and before the first pop of poll_next.
KbdControl ==
    /\ kpc = "start" <=> ~queue_ready
    /\ ~queue_ready => scancode_queue = <<>> /\ waker_slot = NoTask
    /\ kpc \notin {"start", "pop"} /\ pc # "panic" => AtKbd
    /\ kpc # "start" => next_id > 0

\* The AtomicWaker is busy exactly while register is between its two CASes.
WakerControl ==
    pc # "panic" =>
        /\ waker_state # "WAITING" <=> kpc \in {"store", "commit"}
        /\ kpc = "commit" => waker_slot = Kbd

\* The keyboard task can be reached: it is in the ready queue, or being polled,
\* or its waker is registered for the next interrupt.
KbdReachable ==
    pc # "panic" =>
        /\ kpc = "start" /\ next_id > 0 /\ ~AtKbd => Queued(Kbd)
        /\ kpc = "pop" /\ ~AtKbd => waker_slot = Kbd \/ Queued(Kbd)
        /\ kpc = "recheck" => waker_slot = Kbd \/ Queued(Kbd)

\* WRITER is locked only by the polled task, and with interrupts off unless
\* `clear' holds it.
WriterControl ==
    /\ writer # "free" /\ pc # "panic" => pc = "poll" /\ current # Kbd
    /\ writer = "print" => ~interrupts
    /\ pc \in {"main", "run", "cli", "hlt"} => interrupts
    /\ pc = "poll" /\ writer # "print" => interrupts
    /\ DeadlockNeedsClear

\* The inductive invariant of the keyboard path.
InputInv ==
    /\ ExecInv /\ InputTypeOK /\ HandlerNeverFrees /\ NoLostWakeup
    /\ KbdLives /\ KbdControl /\ WakerControl /\ KbdReachable /\ WriterControl

\* The keyboard path starts in its inductive invariant.
LEMMA InputInvInit == InputInit => InputInv
  <1> SUFFICES ASSUME InputInit PROVE InputInv
    BY Zenon
  <1>1. ExecInv
    BY ExecInvInit, Zenon DEF InputInit
  <1>2. InputTypeOK
    <2>1. TypeOK /\ ScancodeCap \in Nat /\ MaxScancodes \in Nat
      BY <1>1, KeyboardConstants, Zenon DEF ExecInv
    <2>2. /\ scancode_queue \in Seq(1 .. MaxScancodes)
          /\ Len(scancode_queue) <= ScancodeCap
          /\ key_event_queue \in Seq(0 .. MaxScancodes)
          /\ delivered \in Seq(0 .. MaxScancodes)
          /\ scancode \in 0 .. MaxScancodes
          /\ accepted \in 0 .. MaxScancodes
      BY <2>1 DEF InputInit
    <2> QED
      BY <2>1, <2>2, Zenon DEF InputInit, InputTypeOK, KPCs
  <1> QED
    BY <1>1, <1>2 DEF InputInit, Init, InputInv, HandlerNeverFrees, NoLostWakeup,
       KbdLives, KbdControl, WakerControl, KbdReachable, WriterControl, DeadlockNeedsClear,
       AtKbd, NoTask
-----------------------------------------------------------------------------
\* A push that does not panic leaves the pushed task in the ready queue, along
\* with every task that was there.
LEMMA PushQueues ==
    ASSUME TypeOK, NEW t \in TaskIds, NEW next, Push(t, next)
    PROVE  \/ /\ pc' = next /\ current' = current
              /\ Range(task_queue') = Range(task_queue) \cup {t}
           \/ /\ pc' = "panic" /\ current' = NoTask
              /\ task_queue' = task_queue
  <1>1. CASE Len(task_queue) < TaskCap /\ task_queue' = Append(task_queue, t)
             /\ pc' = next /\ UNCHANGED current
    BY <1>1, PushElements DEF TypeOK
  <1> QED
    BY <1>1, Zenon DEF Push

\* The handler's wake, told by what it does to the executor.
LEMMA WakeCases ==
    ASSUME InputInv, Wake
    PROVE  \/ /\ waker_state = "WAITING" /\ waker_slot = Kbd
              /\ waker_slot' = NoTask /\ waker_state' = waker_state
              /\ Push(Kbd, Resumed)
           \/ /\ waker_state = "WAITING" /\ waker_slot = NoTask
              /\ pc' = Resumed
              /\ UNCHANGED <<waker_state, waker_slot, task_queue, current>>
           \/ /\ waker_state # "WAITING" /\ waker_state' = "REGISTERING|WAKING"
              /\ pc' = Resumed
              /\ UNCHANGED <<waker_slot, task_queue, current>>
  BY Zenon DEF InputInv, InputTypeOK, Wake, Kbd, NoTask

\* A registered waker names a task the executor can be asked to wake.
LEMMA SlotWakeable ==
    ASSUME InputInv, waker_slot = Kbd
    PROVE  Kbd \in Wakeable /\ Kbd \in TaskIds
  BY ExecutorConstants
  DEF InputInv, ExecInv, TypeOK, HandlerNeverFrees, Wakeable, Kbd, NoTask, TaskIds

\* Every step of the composition is a step of the executor or leaves it alone.
LEMMA InputStepIsExecutorStep ==
    ASSUME InputInv, [InputNext]_vars
    PROVE  [Next]_evars
  <1>1. CASE ExecutorStep
    BY <1>1, Zenon DEF ExecutorStep, Next
  <1>2. CASE KeyboardTask
    <2>1. CASE RegisterCommit
      <3>1. CASE waker_state = "REGISTERING"
        BY <2>1, <3>1, Zenon DEF RegisterCommit, evars
      <3>2. CASE waker_state # "REGISTERING"
        <4>1. waker_slot = Kbd /\ pc = "poll"
          BY <2>1, Zenon DEF InputInv, WakerControl, RegisterCommit, PollingKbd
        <4>2. WakeInPoll(Kbd)
          BY <2>1, <3>2, <4>1, SlotWakeable, Zenon DEF RegisterCommit, WakeInPoll
        <4> QED
          BY <4>1, <4>2, SlotWakeable, Zenon DEF Next
      <3> QED
        BY <3>1, <3>2, Zenon
    <2>2. CASE PollNextRecheck
      BY <2>2, Zenon DEF PollNextRecheck, Next
    <2> QED
      BY <1>2, <2>1, <2>2, Zenon DEF KeyboardTask, StreamNew, PollNextPop, RegisterBegin,
         RegisterStore, Decode
  <1>3. CASE OtherTask
    BY <1>3, Zenon DEF OtherTask, pop_key, PrintLock, PrintUnlock, ClearLock, ClearUnlock,
       OtherEnds, Next
  <1>4. CASE keyboard_interrupt_handler
    <2>1. CASE Accept
      <3>1. CASE waker_slot' = NoTask /\ Push(Kbd, Resumed) /\ waker_slot = Kbd
        <4>1. InterruptWake(Kbd)
          BY <1>4, <3>1, SlotWakeable, Zenon DEF keyboard_interrupt_handler, InterruptWake
        <4> QED
          BY <3>1, <4>1, SlotWakeable, Zenon DEF Next
      <3>2. CASE pc' = Resumed /\ UNCHANGED <<task_queue, current>>
        <4>1. timer_interrupt_handler
          BY <1>4, <3>2, Zenon DEF keyboard_interrupt_handler, timer_interrupt_handler
        <4> QED
          BY <4>1, Zenon DEF Next
      <3> QED
        BY <2>1, <3>1, <3>2, WakeCases, Zenon DEF Accept
    <2>2. CASE DropScancode
      <3>1. timer_interrupt_handler \/ UNCHANGED evars
        BY <1>4, <2>2, Zenon DEF keyboard_interrupt_handler, DropScancode,
           timer_interrupt_handler, evars
      <3> QED
        BY <3>1, Zenon DEF Next
    <2> QED
      BY <1>4, <2>1, <2>2, Zenon DEF keyboard_interrupt_handler
  <1>5. CASE TimerInterrupt
    BY <1>5, Zenon DEF TimerInterrupt, Next
  <1>6. CASE Stopped \/ UNCHANGED vars
    BY <1>6, Zenon DEF Stopped, vars
  <1> QED
    BY <1>1, <1>2, <1>3, <1>4, <1>5, <1>6, Zenon DEF InputNext

\* Steps of the composition preserve the executor's invariant, being its steps.
LEMMA ExecInvPreserved ==
    ASSUME InputInv, [InputNext]_vars
    PROVE  ExecInv'
  BY InputStepIsExecutorStep, ExecInvNext, Zenon DEF InputInv

\* Type correctness is preserved.
LEMMA InputTypePreserved ==
    ASSUME InputInv, [InputNext]_vars
    PROVE  InputTypeOK'
  <1> USE DEF InputTypeOK
  <1>0. TypeOK' /\ InputTypeOK
    BY ExecInvPreserved, Zenon DEF ExecInv, InputInv
  <1> USE KeyboardConstants
  <1>1. CASE ExecutorStep \/ TimerInterrupt \/ OtherEnds
    BY <1>0, <1>1, Zenon DEF ExecutorStep, TimerInterrupt, OtherEnds, kvars
  <1>2. CASE StreamNew \/ RegisterBegin \/ RegisterStore \/ RegisterCommit
    BY <1>0, <1>2, Zenon DEF StreamNew, RegisterBegin, RegisterStore, RegisterCommit, KPCs
  <1>3. CASE PollNextPop \/ PollNextRecheck
    <2>1. CASE scancode_queue = <<>>
      BY <1>0, <1>3, <2>1, Zenon DEF PollNextPop, PollNextRecheck, KPCs
    <2>2. CASE scancode_queue # <<>>
      <3>1. /\ scancode' = Head(scancode_queue)
            /\ scancode_queue' = Tail(scancode_queue)
            /\ kpc' = "decode"
        BY <1>3, <2>2, Zenon DEF PollNextPop, PollNextRecheck
      <3>2. /\ Head(scancode_queue) \in 1 .. MaxScancodes
            /\ Tail(scancode_queue) \in Seq(1 .. MaxScancodes)
            /\ Len(Tail(scancode_queue)) <= ScancodeCap
        BY <1>0, <2>2
      <3>3. scancode' \in 0 .. MaxScancodes
        BY <3>1, <3>2
      <3> QED
        BY <1>0, <1>3, <3>1, <3>2, <3>3, Zenon DEF PollNextPop, PollNextRecheck, KPCs
    <2> QED
      BY <2>1, <2>2, Zenon
  <1>4. CASE Decode
    <2>1. key_event_queue' \in Seq(0 .. MaxScancodes)
      <3>1. key_event_queue' \in {key_event_queue, Append(key_event_queue, scancode)}
        BY <1>4, Zenon DEF Decode
      <3>2. Append(key_event_queue, scancode) \in Seq(0 .. MaxScancodes)
        BY <1>0
      <3> QED
        BY <1>0, <3>1, <3>2, Zenon
    <2>2. silent' \subseteq 0 .. MaxScancodes
      BY <1>0, <1>4, Zenon DEF Decode
    <2>3. scancode' \in 0 .. MaxScancodes
      BY <1>4 DEF Decode
    <2> QED
      BY <1>0, <1>4, <2>1, <2>2, <2>3, Zenon DEF Decode, KPCs
  <1>5. CASE pop_key
    <2>1. /\ key_event_queue' \in Seq(0 .. MaxScancodes)
          /\ delivered' \in Seq(0 .. MaxScancodes)
      BY <1>0, <1>5 DEF pop_key
    <2> QED
      BY <1>0, <1>5, <2>1, Zenon DEF pop_key
  <1>6. CASE PrintLock \/ PrintUnlock \/ ClearLock \/ ClearUnlock
    <2>1. /\ writer' \in {"free", "print", "clear"}
          /\ UNCHANGED <<scancode_queue, queue_ready, waker_state, waker_slot, kpc, scancode,
                         key_event_queue, spinning, accepted, silent, delivered>>
      <3>1. CASE PrintLock
        BY <3>1, Zenon DEF PrintLock
      <3>2. CASE PrintUnlock
        BY <3>2, Zenon DEF PrintUnlock
      <3>3. CASE ClearLock
        BY <3>3, Zenon DEF ClearLock
      <3>4. CASE ClearUnlock
        BY <3>4, Zenon DEF ClearUnlock
      <3> QED
        BY <1>6, <3>1, <3>2, <3>3, <3>4, Zenon
    <2> QED
      BY <1>0, <2>1, Zenon
  <1>7. CASE keyboard_interrupt_handler
    <2>1. CASE Accept
      <3>1. accepted' \in 0 .. MaxScancodes /\ accepted + 1 \in 1 .. MaxScancodes
        BY <1>0, <2>1 DEF Accept
      <3>2. scancode_queue' \in Seq(1 .. MaxScancodes) /\ Len(scancode_queue') <= ScancodeCap
        <4>1. /\ scancode_queue' = Append(scancode_queue, accepted + 1)
              /\ Len(scancode_queue) < ScancodeCap
          BY <2>1, Zenon DEF Accept
        <4>2. scancode_queue \in Seq(1 .. MaxScancodes) /\ ScancodeCap \in Nat
          BY <1>0, KeyboardConstants, Zenon
        <4> HIDE DEF InputTypeOK
        <4> QED
          BY <3>1, <4>1, <4>2
      <3>3. /\ waker_state' \in {"WAITING", "REGISTERING", "REGISTERING|WAKING"}
            /\ waker_slot' \in {Kbd, NoTask}
        BY <1>0, <2>1, WakeCases, Zenon DEF Accept
      <3> QED
        BY <1>0, <1>7, <2>1, <3>1, <3>2, <3>3, Zenon DEF keyboard_interrupt_handler, Accept
    <2>2. CASE DropScancode
      BY <1>0, <1>7, <2>2, Zenon DEF keyboard_interrupt_handler, DropScancode
    <2> QED
      BY <1>7, <2>1, <2>2, Zenon DEF keyboard_interrupt_handler
  <1>8. CASE Stopped \/ UNCHANGED vars
    BY <1>0, <1>8, Zenon DEF Stopped, vars, kvars
  <1> QED
    BY <1>1, <1>2, <1>3, <1>4, <1>5, <1>6, <1>7, <1>8, Zenon
    DEF InputNext, KeyboardTask, OtherTask

\* What the executor's own steps do to the keyboard task: they keep it live,
\* and take it off the ready queue only to poll it.
LEMMA ExecutorStepKeepsKbd ==
    ASSUME InputInv, ExecutorStep
    PROVE  /\ KbdLives'
           /\ waker_cache \subseteq waker_cache'
           /\ next_id' >= next_id
           /\ pc' # "panic" /\ ~AtKbd' =>
                 /\ next_id > 0 /\ Queued(Kbd) => Queued(Kbd)'
                 /\ next_id = 0 /\ next_id' > 0 => Queued(Kbd)'
           /\ AtKbd => pc' = "panic"
           /\ pc = "panic" => pc' = "panic"
  <1> USE DEF InputInv, ExecInv, TypeOK, KbdLives, Kbd, NoTask, Queued, AtKbd, PCs
  <1>1. CASE Spawn
    <2>1. next_id \in TaskIds /\ next_id \in Nat /\ next_id' = next_id + 1 /\ pc = "main"
      BY <1>1, ExecutorConstants DEF Spawn, TaskIds
    <2>2. \/ /\ pc' = "main" /\ current' = current
             /\ Range(task_queue') = Range(task_queue) \cup {next_id}
          \/ pc' = "panic" /\ current' = NoTask
      BY <1>1, <2>1, PushQueues, Zenon DEF Spawn
    <2>3. tasks' = tasks \cup {next_id} /\ waker_cache' = waker_cache
      BY <1>1, Zenon DEF Spawn
    <2> QED
      BY <2>1, <2>2, <2>3
  <1>2. CASE PopTask
    <2>1. /\ Range(task_queue) = Range(Tail(task_queue)) \cup {Head(task_queue)}
          /\ Head(task_queue) \in Range(task_queue)
          /\ Head(task_queue) \in TaskIds
      BY <1>2, PopElements DEF PopTask
    <2>2. next_id > 0 => Kbd \in tasks
      BY Zenon
    <2>3. /\ task_queue' = Tail(task_queue) /\ pc = "run"
          /\ tasks' = tasks /\ next_id' = next_id
          /\ waker_cache \subseteq waker_cache'
          /\ Head(task_queue) \in tasks => pc' = "poll" /\ current' = Head(task_queue)
          /\ pc' # "panic"
      BY <1>2, Zenon DEF PopTask
    <2> QED
      BY <2>1, <2>2, <2>3
  <1>3. CASE Run \/ QueueDrained \/ DisableInterrupts \/ CheckIdle \/ EnableAndHlt
             \/ EnableInterrupts
    BY <1>3 DEF Run, QueueDrained, DisableInterrupts, CheckIdle, EnableAndHlt,
       EnableInterrupts
  <1> QED
    BY <1>1, <1>2, <1>3, Zenon DEF ExecutorStep, RunLoop

\* The conjuncts of the invariant about the keyboard task and its waker.
Control == HandlerNeverFrees /\ NoLostWakeup /\ KbdLives /\ KbdControl
               /\ WakerControl /\ KbdReachable

\* The executor's steps preserve what relates the keyboard task, its waker and the
\* scancode queue.
LEMMA ControlExecutorStep ==
    ASSUME InputInv, ExecutorStep, TypeOK'
    PROVE  Control'
  <1>1. UNCHANGED kvars
    BY Zenon DEF ExecutorStep
  <1>2. /\ KbdLives'
        /\ waker_cache \subseteq waker_cache'
        /\ next_id' >= next_id
        /\ pc' # "panic" /\ ~AtKbd' =>
              /\ next_id > 0 /\ Queued(Kbd) => Queued(Kbd)'
              /\ next_id = 0 /\ next_id' > 0 => Queued(Kbd)'
        /\ AtKbd => pc' = "panic"
        /\ pc = "panic" => pc' = "panic"
    BY ExecutorStepKeepsKbd, Zenon
  <1>3. next_id \in Nat /\ next_id' \in Nat
    BY DEF InputInv, ExecInv, TypeOK
  <1> QED
    BY <1>1, <1>2, <1>3
    DEF Control, kvars, InputInv, HandlerNeverFrees, NoLostWakeup, KbdControl,
        WakerControl, KbdReachable, AtKbd

\* Each step of print_keypresses preserves it, registration included.
LEMMA ControlKeyboardTask ==
    ASSUME InputInv, KeyboardTask
    PROVE  Control'
  <1> USE DEF Control, HandlerNeverFrees, NoLostWakeup, KbdLives, KbdControl,
              WakerControl, KbdReachable, AtKbd, PollingKbd
  <1>1. /\ HandlerNeverFrees /\ NoLostWakeup /\ KbdLives /\ KbdControl
        /\ WakerControl /\ KbdReachable
        /\ pc = "poll" => current \in waker_cache
        /\ waker_slot \in {Kbd, NoTask}
        /\ waker_state \in {"WAITING", "REGISTERING", "REGISTERING|WAKING"}
    BY Zenon DEF InputInv, ExecInv, PollHoldsWaker, InputTypeOK
  <1>2. next_id > 0 \/ ~AtKbd
    BY ExecutorConstants DEF InputInv, ExecInv, TypeOK, PollHoldsWaker, Kbd
  <1>3. CASE StreamNew
    BY <1>1, <1>2, <1>3, Zenon DEF StreamNew, evars, Queued
  <1>4. CASE PollNextPop
    BY <1>1, <1>4, Zenon DEF PollNextPop, evars, Queued
  <1>5. CASE RegisterBegin
    BY <1>1, <1>5, Zenon DEF RegisterBegin, evars, Queued
  <1>6. CASE RegisterStore
    BY <1>1, <1>6, Zenon DEF RegisterStore, evars, Queued
  <1>7. CASE RegisterCommit
    <2>1. CASE waker_state = "REGISTERING"
      BY <1>1, <1>7, <2>1, Zenon DEF RegisterCommit, Queued
    <2>2. CASE waker_state # "REGISTERING"
      <3>1. waker_slot = Kbd /\ Push(Kbd, "poll") /\ Kbd \in TaskIds
        BY <1>1, <1>7, <2>2, ExecutorConstants DEF RegisterCommit, Kbd, TaskIds
      <3>2. \/ /\ pc' = "poll" /\ current' = current
               /\ Range(task_queue') = Range(task_queue) \cup {Kbd}
            \/ pc' = "panic" /\ current' = NoTask /\ task_queue' = task_queue
        BY <3>1, PushQueues, Zenon DEF InputInv, ExecInv
      <3> QED
        BY <1>1, <1>7, <2>2, <3>1, <3>2, Zenon DEF RegisterCommit, Queued
    <2> QED
      BY <2>1, <2>2, Zenon
  <1>8. CASE PollNextRecheck
    <2>1. CASE scancode_queue = <<>>
      BY <1>1, <1>8, <2>1, Zenon DEF PollNextRecheck, PollPending, Queued
    <2>2. CASE scancode_queue # <<>>
      BY <1>1, <1>8, <2>2, Zenon DEF PollNextRecheck, evars, Queued
    <2> HIDE DEF Control
    <2> QED
      BY <2>1, <2>2, Zenon
  <1>9. CASE Decode
    BY <1>1, <1>9, Zenon DEF Decode, evars, Queued
  <1> HIDE DEF Control
  <1> QED
    BY <1>3, <1>4, <1>5, <1>6, <1>7, <1>8, <1>9, Zenon DEF KeyboardTask

\* So does every step of another task.
LEMMA ControlOtherTask ==
    ASSUME InputInv, OtherTask
    PROVE  Control'
  <1> USE DEF Control, HandlerNeverFrees, NoLostWakeup, KbdLives, KbdControl,
              WakerControl, KbdReachable, AtKbd, PollingOther
  <1>1. /\ HandlerNeverFrees /\ NoLostWakeup /\ KbdLives /\ KbdControl
        /\ WakerControl /\ KbdReachable
        /\ waker_slot \in {Kbd, NoTask}
    BY Zenon DEF InputInv, InputTypeOK
  <1>2. CASE pop_key \/ ClearLock \/ ClearUnlock
    BY <1>1, <1>2 DEF pop_key, ClearLock, ClearUnlock, evars, Queued
  <1>3. CASE PrintLock \/ PrintUnlock
    BY <1>1, <1>3 DEF PrintLock, PrintUnlock, EnterCritical, LeaveCritical, Queued
  <1>4. CASE OtherEnds /\ (PollPending \/ PollReady)
    BY <1>1, <1>4, Zenon DEF OtherEnds, PollPending, PollReady, kvars, Queued
  <1>5. CASE OtherEnds /\ yield_now
    <2>1. \/ pc' = "run" /\ Range(task_queue') = Range(task_queue) \cup {current}
          \/ pc' = "panic"
      <3>1. current \in TaskIds /\ task_queue \in Seq(TaskIds)
        BY <1>5, Zenon DEF OtherEnds, InputInv, ExecInv, TypeOK, PollNamesTask
      <3>2. CASE pc' = "run" /\ task_queue' = Append(task_queue, current)
        BY <3>1, <3>2, PushElements
      <3> QED
        BY <1>5, <3>2, Zenon DEF yield_now
    <2> QED
      BY <1>1, <1>5, <2>1, Zenon DEF OtherEnds, yield_now, kvars, Queued
  <1> QED
    BY <1>2, <1>3, <1>4, <1>5, Zenon DEF OtherTask, OtherEnds

\* So does an interrupt, wherever it hits: the wake finds the waker or leaves the
\* WAKING flag.
LEMMA ControlInterrupt ==
    ASSUME InputInv, keyboard_interrupt_handler
    PROVE  Control'
  <1> USE DEF Control, HandlerNeverFrees, NoLostWakeup, KbdLives, KbdControl,
              WakerControl, KbdReachable, AtKbd
  <1>1. /\ HandlerNeverFrees /\ NoLostWakeup /\ KbdLives /\ KbdControl
        /\ WakerControl /\ KbdReachable /\ pc # "panic"
        /\ waker_slot \in {Kbd, NoTask} /\ Kbd # NoTask
    BY DEF InputInv, InputTypeOK, keyboard_interrupt_handler, Kbd, NoTask
  <1>2. CASE Accept
    <2>1. /\ Resumed = "poll" <=> pc = "poll"
          /\ Resumed # "panic"
      BY <1>1, Zenon DEF Resumed
    <2>2. queue_ready /\ kpc # "start"
      BY <1>1, <1>2, Zenon DEF Accept
    <2>3. CASE waker_state = "WAITING" /\ waker_slot = Kbd
               /\ waker_slot' = NoTask /\ waker_state' = waker_state
               /\ Push(Kbd, Resumed)
      <3>1. \/ /\ pc' = Resumed /\ current' = current
               /\ Range(task_queue') = Range(task_queue) \cup {Kbd}
            \/ pc' = "panic"
        BY <2>3, PushQueues, SlotWakeable, Zenon DEF InputInv, ExecInv
      <3> QED
        BY <1>1, <1>2, <2>1, <2>2, <2>3, <3>1, Zenon
        DEF Queued, keyboard_interrupt_handler, Accept
    <2>4. CASE waker_state = "WAITING" /\ waker_slot = NoTask /\ pc' = Resumed
               /\ UNCHANGED <<waker_state, waker_slot, task_queue, current>>
      BY <1>1, <1>2, <2>1, <2>2, <2>4, Zenon DEF Queued, keyboard_interrupt_handler, Accept
    <2>5. CASE waker_state # "WAITING" /\ waker_state' = "REGISTERING|WAKING"
               /\ pc' = Resumed /\ UNCHANGED <<waker_slot, task_queue, current>>
      BY <1>1, <1>2, <2>1, <2>2, <2>5, Zenon DEF Queued, keyboard_interrupt_handler, Accept
    <2> HIDE DEF Control
    <2> QED
      BY <1>2, <2>3, <2>4, <2>5, WakeCases, Zenon DEF Accept
  <1>3. CASE DropScancode
    BY <1>1, <1>3, Zenon DEF DropScancode, Resumed, Queued, keyboard_interrupt_handler
  <1> HIDE DEF Control
  <1> QED
    BY <1>2, <1>3, Zenon DEF keyboard_interrupt_handler

\* WRITER's lock and the interrupt flag.
LEMMA WriterPreserved ==
    ASSUME InputInv, [InputNext]_vars
    PROVE  WriterControl'
  <1> USE DEF WriterControl, DeadlockNeedsClear
  <1>1. /\ WriterControl
        /\ writer \in {"free", "print", "clear"}
        /\ interrupts \in BOOLEAN /\ spinning \in BOOLEAN
        /\ pc \in PCs
        /\ Kbd # NoTask
        /\ pc = "poll" <=> current # NoTask
    BY KeyboardConstants DEF InputInv, InputTypeOK, TypeOK, ExecInv, PollNamesTask,
       Kbd, NoTask
  <1>2. CASE ExecutorStep
    <2>1. UNCHANGED <<writer, spinning>>
      BY <1>2, Zenon DEF ExecutorStep, kvars
    <2>2. CASE Spawn
      BY <1>1, <2>1, <2>2, Zenon DEF Spawn, Push
    <2>3. CASE Run \/ RunLoop
      BY <1>1, <2>1, <2>3, Zenon DEF Run, RunLoop, PopTask, QueueDrained, DisableInterrupts,
         CheckIdle, EnableAndHlt, EnableInterrupts
    <2> QED
      BY <1>2, <2>2, <2>3, Zenon DEF ExecutorStep
  <1>3. CASE KeyboardTask
    <2>1. writer = "free" /\ interrupts
      BY <1>1, <1>3, Zenon DEF KeyboardTask, StreamNew, PollNextPop, RegisterBegin,
         RegisterStore, RegisterCommit, PollNextRecheck, Decode, PollingKbd
    <2>2. UNCHANGED <<writer, spinning, interrupts>>
      BY <1>3, Zenon DEF KeyboardTask, StreamNew, PollNextPop, RegisterBegin, RegisterStore,
         RegisterCommit, PollNextRecheck, Decode, PollPending, evars
    <2> QED
      BY <1>1, <2>1, <2>2, Zenon
  <1>4. CASE pop_key \/ PrintLock \/ PrintUnlock
    BY <1>1, <1>4 DEF pop_key, PrintLock, PrintUnlock, EnterCritical, LeaveCritical,
       PollingOther, evars
  <1>5. CASE ClearLock \/ ClearUnlock
    BY <1>1, <1>5 DEF ClearLock, ClearUnlock, PollingOther, evars
  <1>6. CASE OtherEnds
    BY <1>1, <1>6 DEF OtherEnds, PollPending, PollReady, yield_now, kvars
  <1>7. CASE keyboard_interrupt_handler
    <2>1. /\ interrupts /\ UNCHANGED <<writer, interrupts>> /\ pc # "panic"
          /\ pc' = "poll" => pc = "poll" /\ current' = current
          /\ pc = "poll" /\ pc' # "panic" => pc' = "poll" /\ current' = current
      <3>1. CASE Accept
        BY <1>7, <3>1, Zenon DEF keyboard_interrupt_handler, Accept, Wake, Push, Resumed
      <3>2. CASE DropScancode
        BY <1>7, <3>2, Zenon DEF keyboard_interrupt_handler, DropScancode, Resumed
      <3> QED
        BY <1>7, <3>1, <3>2, Zenon DEF keyboard_interrupt_handler
    <2>2. DeadlockNeedsClear'
      BY <1>1, <1>7, Zenon DEF keyboard_interrupt_handler, Accept, DropScancode, DeadlockNeedsClear
    <2> QED
      BY <1>1, <2>1, <2>2, Zenon
  <1>8. CASE TimerInterrupt
    BY <1>1, <1>8, Zenon DEF TimerInterrupt, timer_interrupt_handler, Resumed, kvars
  <1>9. CASE Stopped \/ UNCHANGED vars
    BY <1>1, <1>9 DEF Stopped, vars, evars, kvars
  <1> QED
    BY <1>2, <1>3, <1>4, <1>5, <1>6, <1>7, <1>8, <1>9, Zenon DEF InputNext, OtherTask
-----------------------------------------------------------------------------
\* Every step of the keyboard path preserves its inductive invariant.
LEMMA InputInvNext == InputInv /\ [InputNext]_vars => InputInv'
  <1> SUFFICES ASSUME InputInv, [InputNext]_vars PROVE InputInv'
    BY Zenon
  <1>1. ExecInv' /\ InputTypeOK' /\ WriterControl' /\ TypeOK'
    BY ExecInvPreserved, InputTypePreserved, WriterPreserved, Zenon DEF ExecInv
  <1>2. Control'
    <2>1. CASE TimerInterrupt \/ Stopped \/ UNCHANGED vars
      <3>1. Control
        BY Zenon DEF InputInv, Control
      <3>2. /\ UNCHANGED kvars
            /\ UNCHANGED <<next_id, tasks, task_queue, waker_cache, current>>
            /\ pc' = pc \/ (pc = "hlt" /\ pc' = "run")
        BY <2>1, Zenon DEF TimerInterrupt, timer_interrupt_handler, Resumed, Stopped, vars, evars
      <3> QED
        BY <3>1, <3>2, Zenon DEF Control, HandlerNeverFrees, NoLostWakeup, KbdLives, KbdControl,
           WakerControl, KbdReachable, AtKbd, Queued, kvars
    <2> QED
      BY <1>1, <2>1, ControlExecutorStep, ControlKeyboardTask, ControlOtherTask,
         ControlInterrupt, Zenon DEF InputNext
  <1> QED
    BY <1>1, <1>2, Zenon DEF InputInv, Control

\* The keyboard path keeps its inductive invariant.
THEOREM InputInvariant == InputSpec => []InputInv
  BY InputInvInit, InputInvNext, PTL DEF InputSpec

\* Type correctness of the keyboard path, for any capacities.
THEOREM InputTypeCorrect == InputSpec => []InputTypeOK
  <1>1. InputInv => InputTypeOK
    BY Zenon DEF InputInv
  <1> QED
    BY <1>1, InputInvariant, PTL

\* No wake-up of the keyboard task is lost, wherever the interrupt hits
\* poll_next, register or the executor.
THEOREM KeyboardNoLostWakeup == InputSpec => []NoLostWakeup
  <1>1. InputInv => NoLostWakeup
    BY Zenon DEF InputInv
  <1> QED
    BY <1>1, InputInvariant, PTL

\* The handler never drops the last reference to a waker.
THEOREM KeyboardHandlerNeverFrees == InputSpec => []HandlerNeverFrees
  <1>1. InputInv => HandlerNeverFrees
    BY Zenon DEF InputInv
  <1> QED
    BY <1>1, InputInvariant, PTL

\* The handler never spins on WRITER unless `clear', whose lock is taken with
\* interrupts enabled, was interrupted: without_interrupts in _print is enough.
THEOREM KeyboardDeadlockNeedsClear == InputSpec => []DeadlockNeedsClear
  <1>1. InputInv => DeadlockNeedsClear
    BY Zenon DEF InputInv, WriterControl
  <1> QED
    BY <1>1, InputInvariant, PTL

\* The keyboard path runs on the executor, so everything proved of Executor
\* holds of it.
THEOREM InputRefinesExecutor == InputSpec => RefinesExecutor
  <1>1. InputInit => Init
    BY Zenon DEF InputInit
  <1>2. InputInv /\ [InputNext]_vars => [Next]_evars
    BY InputStepIsExecutorStep, Zenon
  <1> QED
    BY <1>1, <1>2, InputInvariant, PTL DEF InputSpec, RefinesExecutor, Spec
-----------------------------------------------------------------------------
\* Order, loss and duplication along the keyboard path.

\* A sequence whose elements grow, and its elements.
Growing(p) == \A i, j \in 1 .. Len(p) : i < j => p[i] < p[j]
Members(p) == {p[i] : i \in 1 .. Len(p)}

\* A larger element at the end.
LEMMA GrowingAppend ==
    ASSUME NEW p \in Seq(Nat), NEW x \in Nat, Growing(p), \A y \in Members(p) : y < x
    PROVE  Growing(Append(p, x)) /\ Members(Append(p, x)) = Members(p) \cup {x}
  <1> DEFINE q == Append(p, x)
             n == Len(p)
  <1>1. n \in Nat /\ Len(q) = n + 1 /\ q[n + 1] = x /\ \A i \in 1 .. n : q[i] = p[i]
    BY AppendProperties, LenProperties
  <1>2. \A i \in 1 .. n : p[i] \in Members(p) /\ p[i] \in Nat
    BY ElementOfSeq, Zenon DEF Members
  <1> HIDE DEF q, n
  <1>3. ASSUME NEW i \in 1 .. n + 1, NEW j \in 1 .. n + 1, i < j PROVE q[i] < q[j]
    <2>1. i \in 1 .. n
      BY <1>1, <1>3
    <2>2. CASE j = n + 1
      BY <1>1, <1>2, <2>1, <2>2, Zenon
    <2>3. CASE j # n + 1
      BY <1>1, <1>3, <2>1, <2>3 DEF Growing, n
    <2> QED
      BY <2>2, <2>3, Zenon
  <1>4. {q[i] : i \in 1 .. n + 1} = {p[i] : i \in 1 .. n} \cup {x}
    BY <1>1
  <1> QED
    BY <1>1, <1>3, <1>4, Zenon DEF Growing, Members, q, n

\* An element taken out of the middle.
LEMMA GrowingRemove ==
    ASSUME NEW a \in Seq(Nat), NEW x \in Nat, NEW b \in Seq(Nat), Growing((a \o <<x>>) \o b)
    PROVE  Growing(a \o b) /\ Members(a \o b) = Members((a \o <<x>>) \o b) \ {x}
  <1> DEFINE p == (a \o <<x>>) \o b
             ax == a \o <<x>>
             r == a \o b
             n == Len(a)
             m == Len(b)
             at(i) == IF i <= n THEN i ELSE i + 1
  <1>1. n \in Nat /\ m \in Nat
    BY LenProperties, Zenon
  <1>2. Len(r) = n + m /\ \A i \in 1 .. n + m : r[i] = IF i <= n THEN a[i] ELSE b[i - n]
    BY ConcatProperties, Zenon
  <1>3. ax \in Seq(Nat) /\ Len(ax) = n + 1
        /\ \A i \in 1 .. n + 1 : ax[i] = IF i <= n THEN a[i] ELSE x
    OBVIOUS
  <1>4. p \in Seq(Nat) /\ Len(p) = (n + 1) + m
        /\ \A i \in 1 .. (n + 1) + m : p[i] = IF i <= n + 1 THEN ax[i] ELSE b[i - (n + 1)]
    BY <1>3, ConcatProperties
  <1> HIDE DEF p, ax, r, n, m
  <1>5. ASSUME NEW i \in 1 .. (n + 1) + m
        PROVE  p[i] = IF i <= n THEN a[i] ELSE IF i = n + 1 THEN x ELSE b[i - (n + 1)]
    <2>1. CASE i <= n + 1
      <3>1. i \in 1 .. n + 1
        BY <1>1, <2>1
      <3> QED
        BY <1>1, <1>3, <1>4, <2>1, <3>1
    <2>2. CASE ~(i <= n + 1)
      BY <1>1, <1>4, <2>2
    <2> QED
      BY <2>1, <2>2, Zenon
  <1>6. \A i \in 1 .. n + m : at(i) \in 1 .. (n + 1) + m /\ at(i) # n + 1 /\ r[i] = p[at(i)]
    <2>1. ASSUME NEW i \in 1 .. n + m, i <= n
          PROVE  i \in 1 .. (n + 1) + m /\ i # n + 1 /\ r[i] = p[i]
      <3>1. i \in 1 .. (n + 1) + m /\ i # n + 1
        BY <1>1, <2>1
      <3> QED
        BY <1>2, <1>5, <2>1, <3>1, Zenon
    <2>2. ASSUME NEW i \in 1 .. n + m, ~(i <= n)
          PROVE  i + 1 \in 1 .. (n + 1) + m /\ i + 1 # n + 1 /\ r[i] = p[i + 1]
      <3>1. i + 1 \in 1 .. (n + 1) + m /\ ~(i + 1 <= n) /\ i + 1 # n + 1
            /\ (i + 1) - (n + 1) = i - n
        BY <1>1, <2>2
      <3>2. r[i] = b[i - n]
        BY <1>2, <2>2, Zenon
      <3>3. p[i + 1] = b[(i + 1) - (n + 1)]
        BY <1>5, <3>1, Zenon
      <3> QED
        BY <3>1, <3>2, <3>3, Zenon
    <2> QED
      BY <2>1, <2>2, Zenon
  <1>7. n + 1 \in 1 .. (n + 1) + m /\ p[n + 1] = x
    BY <1>1, <1>5
  <1>8. \A i, j \in 1 .. (n + 1) + m : i < j => p[i] < p[j]
    BY <1>4, Zenon DEF Growing, p
  <1>9. \A i \in 1 .. (n + 1) + m : p[i] \in Nat
    BY <1>4, ElementOfSeq, Zenon
  <1>10. \A i, j \in 1 .. n + m : i < j => r[i] < r[j]
    <2> SUFFICES ASSUME NEW i \in 1 .. n + m, NEW j \in 1 .. n + m, i < j PROVE r[i] < r[j]
      BY Zenon
    <2>1. at(i) < at(j)
      BY <1>1
    <2> QED
      BY <1>6, <1>8, <2>1, Zenon
  <1>11. \A i \in 1 .. (n + 1) + m : i # n + 1 => p[i] # x
    <2> SUFFICES ASSUME NEW i \in 1 .. (n + 1) + m, i # n + 1 PROVE p[i] # x
      BY Zenon
    <2>1. i < n + 1 \/ n + 1 < i
      BY <1>1
    <2> QED
      BY <1>7, <1>8, <1>9, <2>1
  <1>12. \A i \in 1 .. (n + 1) + m : i # n + 1 => \E k \in 1 .. n + m : r[k] = p[i]
    <2> SUFFICES ASSUME NEW i \in 1 .. (n + 1) + m, i # n + 1
                 PROVE  \E k \in 1 .. n + m : r[k] = p[i]
      BY Zenon
    <2>1. CASE i <= n
      <3>1. i \in 1 .. n + m /\ at(i) = i
        BY <1>1, <2>1
      <3> QED
        BY <1>6, <3>1, Zenon
    <2>2. CASE ~(i <= n)
      <3>1. i - 1 \in 1 .. n + m /\ at(i - 1) = i
        BY <1>1, <2>2
      <3> QED
        BY <1>6, <3>1, Zenon
    <2> QED
      BY <2>1, <2>2, Zenon
  <1>13. {r[k] : k \in 1 .. n + m} = {p[i] : i \in 1 .. (n + 1) + m} \ {x}
    <2>1. ASSUME NEW k \in 1 .. n + m
          PROVE  r[k] \in {p[i] : i \in 1 .. (n + 1) + m} \ {x}
      <3>1. PICK i \in 1 .. (n + 1) + m : i # n + 1 /\ r[k] = p[i]
        BY <1>6, Zenon
      <3> QED
        BY <1>11, <3>1, Zenon
    <2>2. ASSUME NEW i \in 1 .. (n + 1) + m, p[i] # x
          PROVE  p[i] \in {r[k] : k \in 1 .. n + m}
      <3>1. i # n + 1
        BY <1>7, <2>2, Zenon
      <3> QED
        BY <1>12, <3>1, Zenon
    <2> QED
      BY <2>1, <2>2, Zenon
  <1> QED
    BY <1>2, <1>4, <1>10, <1>13, Zenon DEF Growing, Members, p, r

\* What the order rests on: the keyboard task holds a scancode exactly while it
\* decodes it, and only accepted scancodes are silent.
OrderInv ==
    /\ InOrderOnce
    /\ kpc = "decode" <=> scancode # 0
    /\ silent \subseteq 1 .. accepted

\* The parts of the pipeline are sequences of numbers.
LEMMA PipelineTyped ==
    ASSUME InputTypeOK
    PROVE  /\ delivered \in Seq(Nat) /\ key_event_queue \in Seq(Nat)
           /\ InHand \in Seq(Nat) /\ scancode_queue \in Seq(Nat)
           /\ delivered \o key_event_queue \in Seq(Nat)
           /\ (delivered \o key_event_queue) \o InHand \in Seq(Nat)
           /\ Pipeline \in Seq(Nat)
           /\ scancode \in Nat /\ accepted \in Nat
  <1>1. 0 .. MaxScancodes \subseteq Nat /\ 1 .. MaxScancodes \subseteq Nat
    BY KeyboardConstants
  <1>2. delivered \in Seq(Nat) /\ key_event_queue \in Seq(Nat) /\ scancode_queue \in Seq(Nat)
        /\ scancode \in Nat /\ accepted \in Nat
    BY <1>1, SeqMonotonic, Zenon DEF InputTypeOK
  <1>3. InHand \in Seq(Nat)
    BY <1>2 DEF InHand
  <1>4. delivered \o key_event_queue \in Seq(Nat)
    BY <1>2, ConcatProperties, Zenon
  <1>5. (delivered \o key_event_queue) \o InHand \in Seq(Nat)
    BY <1>3, <1>4, ConcatProperties, Zenon
  <1>6. Pipeline \in Seq(Nat)
    BY <1>2, <1>5, ConcatProperties, Zenon DEF Pipeline
  <1> QED
    BY <1>2, <1>3, <1>4, <1>5, <1>6, Zenon

\* Taking the head of one sequence to the end of another leaves the whole as it is.
LEMMA HeadMoves ==
    ASSUME NEW a \in Seq(Nat), NEW b \in Seq(Nat), b # <<>>
    PROVE  (a \o <<Head(b)>>) \o Tail(b) = a \o b
  <1>1. Head(b) \in Nat /\ Tail(b) \in Seq(Nat) /\ <<Head(b)>> \in Seq(Nat)
    BY HeadTailProperties
  <1>2. <<Head(b)>> \o Tail(b) = b
    <2>1. 1 \in 1 .. Len(b) /\ Len(b) \in 1 .. Len(b) /\ Head(b) = b[1]
      BY LenProperties, EmptySeq
    <2>2. SubSeq(b, 1, Len(b)) = <<b[1]>> \o SubSeq(b, 1 + 1, Len(b))
      BY <2>1, SubSeqRecursiveFirst, Zenon
    <2>3. SubSeq(b, 1, Len(b)) = b
      BY SubSeqFull, Zenon
    <2>4. Tail(b) = SubSeq(b, 2, Len(b))
      BY TailIsSubSeq, Zenon
    <2>5. 1 + 1 = 2
      OBVIOUS
    <2> QED
      BY <2>1, <2>2, <2>3, <2>4, <2>5, Zenon
  <1>3. (a \o <<Head(b)>>) \o Tail(b) = a \o (<<Head(b)>> \o Tail(b))
    BY <1>1, ConcatAssociative
  <1> QED
    BY <1>2, <1>3, Zenon

\* The order is kept where the pipeline stays as it is.
LEMMA OrderKept ==
    ASSUME OrderInv, Pipeline' = Pipeline, UNCHANGED <<accepted, silent>>,
           kpc' = "decode" <=> scancode' # 0
    PROVE  OrderInv'
  <1>1. InOrderOnce'
    BY Zenon DEF OrderInv, InOrderOnce
  <1> QED
    BY <1>1, Zenon DEF OrderInv

\* A scancode taken from SCANCODE_QUEUE stays in its place.
LEMMA OrderPop ==
    ASSUME InputInv, OrderInv, PollNextPop \/ PollNextRecheck
    PROVE  OrderInv'
  <1>0. InputTypeOK
    BY Zenon DEF InputInv
  <1>1. UNCHANGED <<accepted, silent, delivered, key_event_queue>> /\ scancode = 0
        /\ kpc # "decode"
    BY Zenon DEF PollNextPop, PollNextRecheck, OrderInv
  <1> DEFINE a == delivered \o key_event_queue
  <1>2. a \in Seq(Nat) /\ scancode_queue \in Seq(Nat) /\ a' = a /\ InHand = <<>>
    BY <1>0, <1>1, PipelineTyped, Zenon DEF InHand
  <1>3. Pipeline = a \o scancode_queue /\ Pipeline' = (a \o InHand') \o scancode_queue'
    <2>1. a \o <<>> = a
      BY <1>2, ConcatEmptySeq, Zenon
    <2> QED
      BY <1>2, <2>1, Zenon DEF Pipeline
  <1>4. CASE scancode_queue = <<>>
    <2>1. UNCHANGED <<scancode, scancode_queue>> /\ kpc' # "decode"
      BY <1>4, Zenon DEF PollNextPop, PollNextRecheck
    <2>2. Pipeline' = Pipeline
      BY <1>1, <2>1, Zenon DEF Pipeline, InHand
    <2> QED
      BY <1>1, <2>1, <2>2, OrderKept, Zenon
  <1>5. CASE scancode_queue # <<>>
    <2>1. scancode' = Head(scancode_queue) /\ scancode_queue' = Tail(scancode_queue)
          /\ kpc' = "decode"
      BY <1>5, Zenon DEF PollNextPop, PollNextRecheck
    <2>2. scancode' \in 1 .. MaxScancodes
      <3>1. scancode_queue \in Seq(1 .. MaxScancodes)
        BY <1>0, Zenon DEF InputTypeOK
      <3> QED
        BY <1>5, <2>1, <3>1, HeadTailProperties, Zenon
    <2>3. scancode' # 0 /\ InHand' = <<Head(scancode_queue)>>
      BY <2>1, <2>2 DEF InHand
    <2> HIDE DEF a
    <2>4. (a \o <<Head(scancode_queue)>>) \o Tail(scancode_queue) = a \o scancode_queue
      BY <1>2, <1>5, HeadMoves, Zenon
    <2>5. Pipeline' = Pipeline
      BY <1>3, <2>1, <2>3, <2>4, Zenon
    <2> QED
      BY <1>1, <2>1, <2>3, <2>5, OrderKept, Zenon
  <1> QED
    BY <1>4, <1>5, Zenon

\* A decoded scancode becomes a key event in its place, or leaves the pipeline.
LEMMA OrderDecode ==
    ASSUME InputInv, OrderInv, Decode
    PROVE  OrderInv'
  <1>0. InputTypeOK
    BY Zenon DEF InputInv
  <1>1. /\ UNCHANGED <<accepted, delivered, scancode_queue>> /\ kpc' = "pop" /\ scancode' = 0
        /\ scancode # 0 /\ InHand = <<scancode>> /\ InHand' = <<>>
    BY Zenon DEF Decode, OrderInv, InHand
  <1> DEFINE d == delivered
             k == key_event_queue
             q == scancode_queue
             x == scancode
  <1>2. d \in Seq(Nat) /\ k \in Seq(Nat) /\ q \in Seq(Nat) /\ x \in Nat /\ <<x>> \in Seq(Nat)
        /\ d \o k \in Seq(Nat)
    BY <1>0, PipelineTyped
  <1>3. Pipeline = ((d \o k) \o <<x>>) \o q
    BY <1>1, Zenon DEF Pipeline
  <1>4. CASE key_event_queue' = Append(key_event_queue, scancode) /\ UNCHANGED silent
    <2>1. Append(k, x) = k \o <<x>> /\ Append(k, x) \in Seq(Nat)
      BY <1>2, AppendIsConcat, AppendProperties, Zenon
    <2>2. d \o Append(k, x) = (d \o k) \o <<x>>
      BY <1>2, <2>1, ConcatAssociative
    <2>3. (d \o Append(k, x)) \o <<>> = d \o Append(k, x)
      BY <1>2, <2>1, ConcatProperties, ConcatEmptySeq
    <2>4. Pipeline' = ((d \o Append(k, x)) \o <<>>) \o q
      BY <1>1, <1>4, Zenon DEF Pipeline
    <2>5. Pipeline' = Pipeline
      BY <1>3, <2>2, <2>3, <2>4, Zenon
    <2> QED
      BY <1>1, <1>4, <2>5, OrderKept, Zenon
  <1>5. CASE silent' = silent \cup {scancode} /\ UNCHANGED key_event_queue
    <2>1. (d \o k) \o <<>> = d \o k
      BY <1>2, ConcatEmptySeq, Zenon
    <2>2. Pipeline' = (d \o k) \o q
      BY <1>1, <1>5, <2>1, Zenon DEF Pipeline
    <2>3. Growing(Pipeline) /\ Members(Pipeline) = (1 .. accepted) \ silent
      BY Zenon DEF OrderInv, InOrderOnce, Growing, Members
    <2>4. Growing(Pipeline') /\ Members(Pipeline') = Members(Pipeline) \ {x}
      BY <1>2, <1>3, <2>2, <2>3, GrowingRemove, Zenon
    <2>5. x \in Members(Pipeline)
      <3>1. ((d \o k) \o <<x>>) \in Seq(Nat) /\ Len((d \o k) \o <<x>>) = Len(d \o k) + 1
            /\ ((d \o k) \o <<x>>)[Len(d \o k) + 1] = x /\ Len(d \o k) \in Nat
        <4> DEFINE a == d \o k
        <4>1. a \in Seq(Nat) /\ x \in Nat
          BY <1>2, Zenon
        <4> HIDE DEF a, x
        <4>2. a \o <<x>> \in Seq(Nat) /\ Len(a \o <<x>>) = Len(a) + 1
              /\ (a \o <<x>>)[Len(a) + 1] = x /\ Len(a) \in Nat
          BY <4>1
        <4> QED
          BY <4>2, Zenon DEF a, x
      <3> DEFINE b == (d \o k) \o <<x>>
      <3>2. Len(b \o q) = Len(b) + Len(q)
            /\ \A i \in 1 .. Len(b) + Len(q) :
                  (b \o q)[i] = IF i <= Len(b) THEN b[i] ELSE q[i - Len(b)]
        BY <1>2, <3>1, ConcatProperties
      <3>3. Len(b) \in 1 .. Len(b) + Len(q) /\ Len(b) <= Len(b) /\ b[Len(b)] = x
        <4>1. Len(q) \in Nat
          BY <1>2, LenProperties, Zenon
        <4> QED
          BY <3>1, <4>1
      <3> HIDE DEF b, x
      <3>4. (b \o q)[Len(b)] = x /\ Len(b) \in 1 .. Len(b \o q)
        BY <3>2, <3>3, Zenon
      <3>5. Pipeline = b \o q
        BY <1>3, Zenon DEF b, x
      <3> QED
        BY <3>4, <3>5, Zenon DEF Members
    <2>6. Members(Pipeline') = (1 .. accepted') \ silent'
      BY <1>1, <1>5, <2>3, <2>4, Zenon
    <2>7. InOrderOnce'
      BY <2>4, <2>6, Zenon DEF InOrderOnce, Growing, Members
    <2>8. silent' \subseteq 1 .. accepted'
      BY <1>1, <1>5, <2>3, <2>5, Zenon DEF OrderInv
    <2> QED
      BY <1>1, <2>7, <2>8, Zenon DEF OrderInv
  <1> QED
    BY <1>4, <1>5, Zenon DEF Decode

\* A key event is popped in its turn.
LEMMA OrderDeliver ==
    ASSUME InputInv, OrderInv, pop_key
    PROVE  OrderInv'
  <1>0. InputTypeOK
    BY Zenon DEF InputInv
  <1> DEFINE d == delivered
             k == key_event_queue
  <1>1. /\ UNCHANGED <<accepted, silent, scancode_queue, kpc, scancode>> /\ k # <<>>
        /\ delivered' = Append(d, Head(k)) /\ key_event_queue' = Tail(k)
        /\ InHand' = InHand
    BY Zenon DEF pop_key, InHand
  <1>2. d \in Seq(Nat) /\ k \in Seq(Nat)
    BY <1>0, PipelineTyped, Zenon
  <1>3. Append(d, Head(k)) = d \o <<Head(k)>>
    <2>1. Head(k) \in Nat
      BY <1>1, <1>2, HeadTailProperties, Zenon
    <2> QED
      BY <1>2, <2>1, AppendIsConcat, Zenon
  <1>4. (d \o <<Head(k)>>) \o Tail(k) = d \o k
    BY <1>1, <1>2, HeadMoves, Zenon
  <1>5. Pipeline' = Pipeline
    BY <1>1, <1>3, <1>4, Zenon DEF Pipeline
  <1> QED
    BY <1>1, <1>5, OrderKept, Zenon DEF OrderInv

\* An accepted scancode is the newest.
LEMMA OrderAccept ==
    ASSUME InputInv, OrderInv, keyboard_interrupt_handler
    PROVE  OrderInv'
  <1>0. InputTypeOK
    BY Zenon DEF InputInv
  <1>1. UNCHANGED <<silent, delivered, key_event_queue, kpc, scancode>> /\ InHand' = InHand
    BY Zenon DEF keyboard_interrupt_handler, InHand
  <1>2. CASE DropScancode
    <2>1. UNCHANGED <<accepted, scancode_queue>>
      BY <1>2, Zenon DEF DropScancode
    <2>2. Pipeline' = Pipeline
      BY <1>1, <2>1, Zenon DEF Pipeline
    <2> QED
      BY <1>1, <2>1, <2>2, OrderKept, Zenon DEF OrderInv
  <1>3. CASE Accept
    <2> DEFINE a == (delivered \o key_event_queue) \o InHand
               q == scancode_queue
               n == accepted
    <2>1. accepted' = n + 1 /\ scancode_queue' = Append(q, n + 1)
      BY <1>3, Zenon DEF Accept
    <2>2. a \in Seq(Nat) /\ q \in Seq(Nat) /\ n \in Nat /\ n + 1 \in Nat /\ <<n + 1>> \in Seq(Nat)
          /\ a \o q \in Seq(Nat)
      BY <1>0, PipelineTyped DEF Pipeline
    <2>3. a \o Append(q, n + 1) = Append(a \o q, n + 1)
      <3> HIDE DEF a, q
      <3>1. Append(q, n + 1) = q \o <<n + 1>> /\ Append(a \o q, n + 1) = (a \o q) \o <<n + 1>>
        BY <2>2, AppendIsConcat, Zenon
      <3>2. (a \o q) \o <<n + 1>> = a \o (q \o <<n + 1>>)
        BY <2>2, ConcatAssociative
      <3> QED
        BY <3>1, <3>2, Zenon
    <2>4. Pipeline = a \o q /\ Pipeline' = Append(Pipeline, n + 1)
      BY <1>1, <2>1, <2>3, Zenon DEF Pipeline
    <2>5. Growing(Pipeline) /\ Members(Pipeline) = (1 .. n) \ silent /\ silent \subseteq 1 .. n
      BY Zenon DEF OrderInv, InOrderOnce, Growing, Members
    <2>6. \A y \in Members(Pipeline) : y < n + 1
      BY <2>2, <2>5
    <2>7. Growing(Pipeline') /\ Members(Pipeline') = Members(Pipeline) \cup {n + 1}
      BY <2>2, <2>4, <2>5, <2>6, GrowingAppend, Zenon
    <2>8. Members(Pipeline') = (1 .. accepted') \ silent' /\ silent' \subseteq 1 .. accepted'
      BY <1>1, <2>1, <2>2, <2>5, <2>7
    <2>9. InOrderOnce'
      BY <2>7, <2>8, Zenon DEF InOrderOnce, Growing, Members
    <2> QED
      BY <1>1, <2>8, <2>9, Zenon DEF OrderInv
  <1> QED
    BY <1>2, <1>3, Zenon DEF keyboard_interrupt_handler

\* Every step keeps the order.
LEMMA OrderPreserved == InputInv /\ OrderInv /\ [InputNext]_vars => OrderInv'
  <1> SUFFICES ASSUME InputInv, OrderInv, [InputNext]_vars PROVE OrderInv'
    BY Zenon
  <1>1. ASSUME UNCHANGED <<scancode_queue, scancode, key_event_queue, accepted, silent, delivered>>,
               kpc' = "decode" <=> kpc = "decode"
        PROVE  OrderInv'
    <2>1. Pipeline' = Pipeline
      BY <1>1, Zenon DEF Pipeline, InHand
    <2> QED
      BY <1>1, <2>1, OrderKept, Zenon DEF OrderInv
  <1>2. CASE StreamNew \/ RegisterBegin \/ RegisterStore \/ RegisterCommit
    BY <1>1, <1>2, Zenon DEF StreamNew, RegisterBegin, RegisterStore, RegisterCommit
  <1>3. CASE ExecutorStep \/ TimerInterrupt \/ OtherEnds \/ Stopped \/ UNCHANGED vars
    <2>1. UNCHANGED kvars
      BY <1>3, Zenon DEF ExecutorStep, TimerInterrupt, OtherEnds, Stopped, vars
    <2> QED
      BY <1>1, <2>1, Zenon DEF kvars
  <1>4. CASE PrintLock \/ PrintUnlock \/ ClearLock \/ ClearUnlock
    BY <1>1, <1>4, Zenon DEF PrintLock, PrintUnlock, ClearLock, ClearUnlock
  <1> QED
    BY <1>2, <1>3, <1>4, OrderPop, OrderDecode, OrderDeliver, OrderAccept, Zenon
    DEF InputNext, KeyboardTask, OtherTask

\* From the interrupt to the consumer no accepted scancode is lost, duplicated or
\* overtaken, however the handler and the tasks interleave.
THEOREM KeyboardInOrderOnce == InputSpec => []InOrderOnce
  <1>1. InputInit => OrderInv
    <2> SUFFICES ASSUME InputInit PROVE OrderInv
      BY Zenon
    <2>1. Pipeline = <<>> /\ accepted = 0 /\ silent = {} /\ kpc # "decode" /\ scancode = 0
      BY DEF InputInit, Pipeline, InHand
    <2> QED
      BY <2>1 DEF OrderInv, InOrderOnce
  <1>2. OrderInv => InOrderOnce
    BY Zenon DEF OrderInv
  <1> QED
    BY <1>1, <1>2, OrderPreserved, InputInvariant, PTL DEF InputSpec
-----------------------------------------------------------------------------
(* Pong.  BallOnScreen is not inductive: a wall must have turned the ball  *)
(* when it touches it.                                                     *)

\* At a wall the ball moves away from it.
WallsTurnBall ==
    /\ ball_y = 0 => dy = 1
    /\ ball_y = Bottom => dy = -1

PongInv == PongTypeOK /\ BallOnScreen /\ WallsTurnBall

\* The paddle's move keeps it within its bounds, the upper one by assumption.
LEMMA MovedInRange ==
    ASSUME NEW y \in MinPaddle .. Bottom - Height,
           NEW up \in BOOLEAN, NEW down \in BOOLEAN
    PROVE  Moved(y, up, down) \in Int /\ Moved(y, up, down) <= Bottom - Height
  BY PongConstants DEF Moved, MinPaddle

\* The game starts in the invariant.
LEMMA PongInvInit == PongInit => PongInv
<1> SUFFICES ASSUME PongInit PROVE PongInv
    OBVIOUS
<1>1. paddle1_y \in MinPaddle .. Bottom - Height /\ paddle2_y \in MinPaddle .. Bottom - Height
    BY PongConstants DEF PongInit, MinPaddle
<1>2. ball_x \in Int /\ ball_y \in Int /\ dx \in {-1, 1} /\ dy \in {-1, 1}
    BY PongConstants DEF PongInit
<1>3. BallOnScreen
    BY PongConstants DEF PongInit, BallOnScreen
<1>4. WallsTurnBall
    BY PongConstants DEF PongInit, WallsTurnBall
<1>5. /\ w_pressed \in BOOLEAN /\ s_pressed \in BOOLEAN
      /\ up_pressed \in BOOLEAN /\ down_pressed \in BOOLEAN
    BY Zenon DEF PongInit
<1>6. ppc \in {"keys", "update", "check", "over"}
    BY DEF PongInit
<1> QED
    BY <1>1, <1>2, <1>3, <1>4, <1>5, <1>6 DEF PongInv, PongTypeOK

\* A step of the update keeps the types.
LEMMA UpdateTyped == PongTypeOK /\ update => PongTypeOK'
<1> SUFFICES ASSUME PongTypeOK, update PROVE PongTypeOK'
    OBVIOUS
<1>1. paddle1_y' \in MinPaddle .. Bottom - Height
    BY MovedInRange, PongConstants DEF PongTypeOK, update, MinPaddle
<1>2. paddle2_y' \in MinPaddle .. Bottom - Height
    BY MovedInRange, PongConstants DEF PongTypeOK, update, MinPaddle
<1>3. dy' \in {-1, 1} /\ ball_x' \in Int /\ ball_y' \in Int
    BY DEF PongTypeOK, update
<1>4. dx' \in {-1, 1}
    BY DEF PongTypeOK, update
<1>5. /\ w_pressed' = w_pressed /\ s_pressed' = s_pressed
      /\ up_pressed' = up_pressed /\ down_pressed' = down_pressed
      /\ ppc' = "check"
    BY DEF update, keys
<1> QED
    BY <1>1, <1>2, <1>3, <1>4, <1>5 DEF PongTypeOK

\* Every step preserves the invariant: the ball moves by one in each direction,
\* and only while it is between the sides.
LEMMA PongInvNext == PongInv /\ [PongNext]_pvars => PongInv'
<1> SUFFICES ASSUME PongInv, [PongNext]_pvars PROVE PongInv'
    OBVIOUS
<1>1. CASE Keys
    BY <1>1 DEF Keys, ball, paddles, PongInv, PongTypeOK, BallOnScreen, WallsTurnBall
<1>2. CASE update
    <2>1. PongTypeOK'
        BY <1>2, UpdateTyped DEF PongInv
    <2>2. ball_x' \in 0 .. Right + 1 /\ ball_y' \in 0 .. Bottom
        BY <1>2, PongConstants
        DEF PongInv, PongTypeOK, BallOnScreen, WallsTurnBall, update
    <2>3. WallsTurnBall'
        BY <1>2, <2>2, PongConstants
        DEF PongInv, PongTypeOK, BallOnScreen, WallsTurnBall, update
    <2>4. ppc' = "check"
        BY <1>2 DEF update
    <2> QED
        BY <2>1, <2>2, <2>3, <2>4 DEF PongInv, BallOnScreen
<1>3. CASE CheckWin
    BY <1>3, PongConstants
    DEF CheckWin, ball, paddles, keys, PongInv, PongTypeOK, BallOnScreen, WallsTurnBall
<1>4. CASE UNCHANGED pvars
    BY <1>4 DEF pvars, ball, paddles, keys, PongInv, PongTypeOK, BallOnScreen, WallsTurnBall
<1> QED
    BY <1>1, <1>2, <1>3, <1>4 DEF PongNext

\* The game keeps its inductive invariant.
THEOREM PongInvariant == PongSpec => []PongInv
  BY PongInvInit, PongInvNext, PTL DEF PongSpec

\* The ball stays on the screen and leaves it by the sides only.
THEOREM PongBallOnScreen == PongSpec => []BallOnScreen
<1>1. PongInv => BallOnScreen
    BY DEF PongInv
<1> QED
    BY <1>1, PongInvariant, PTL

\* Between the paddles' zones nothing turns the ball.
THEOREM PongReturnedBallCrosses == PongSpec => ReturnedBallCrosses
<1>1. PongInv /\ [PongNext]_pvars =>
        [/\ dx = 1 /\ ball_x + 1 < RightZone => dx' = 1
         /\ dx = -1 /\ ball_x - 1 >= Reach => dx' = -1]_pvars
    <2> SUFFICES ASSUME PongInv, PongNext
                 PROVE /\ dx = 1 /\ ball_x + 1 < RightZone => dx' = 1
                       /\ dx = -1 /\ ball_x - 1 >= Reach => dx' = -1
        BY DEF pvars
    <2>1. CASE update
        BY <2>1, PongConstants DEF PongInv, PongTypeOK, update
    <2>2. CASE Keys \/ CheckWin
        BY <2>2 DEF Keys, CheckWin, ball
    <2> QED
        BY <2>1, <2>2 DEF PongNext
<1> QED
    BY <1>1, PongInvariant, PTL DEF PongSpec, ReturnedBallCrosses
=============================================================================
