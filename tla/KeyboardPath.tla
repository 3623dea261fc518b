---------------------------- MODULE KeyboardPath ----------------------------
(***************************************************************************)
(* The way of a key press (interrupts.rs, task/keyboard.rs, input.rs): the *)
(* keyboard interrupt handler puts a scancode in SCANCODE_QUEUE and wakes  *)
(* the keyboard task through an AtomicWaker; the task, polled by the       *)
(* executor, decodes scancodes and appends key events to KEY_EVENT_QUEUE;  *)
(* another task pops them.  The handler may run between any two steps of   *)
(* the tasks.  A scancode is represented by its number among the accepted  *)
(* ones, so order, loss and duplication can be seen.                       *)
(*                                                                         *)
(* The handler also prints when it drops a scancode, which takes WRITER's  *)
(* spinlock; the tasks take the same lock to print (interrupts disabled)   *)
(* and in the `clear' command (interrupts enabled).                        *)
(***************************************************************************)
EXTENDS Executor

CONSTANTS
    ScancodeCap,   \* capacity of SCANCODE_QUEUE (100 in the code)
    MaxScancodes   \* bound: how many scancodes are accepted in a behaviour

ASSUME KeyboardConstants ==
    /\ ScancodeCap \in Nat \ {0}
    /\ MaxScancodes \in Nat

VARIABLES
    scancode_queue,   \* SCANCODE_QUEUE
    queue_ready,      \* SCANCODE_QUEUE's OnceCell is initialised
    waker_state,      \* AtomicWaker's state word
    waker_slot,       \* the waker stored in WAKER: a task id or NoTask
    kpc,              \* where print_keypresses is, or resumes when polled
    scancode,         \* the scancode print_keypresses holds, 0 when none
    key_event_queue,  \* KEY_EVENT_QUEUE
    writer,           \* WRITER's lock: "free", "print" or "clear"
    spinning,         \* the handler spins on WRITER's lock
    accepted,         \* number of scancodes accepted so far
    silent,           \* scancodes that completed no key event
    delivered         \* key events popped by the consumer, in order

kvars == <<scancode_queue, queue_ready, waker_state, waker_slot, kpc, scancode,
           key_event_queue, writer, spinning, accepted, silent, delivered>>
vars == <<evars, kvars>>

Kbd == 0   \* kernel_main spawns print_keypresses first

KPCs == {"start", "pop", "register", "store", "commit", "recheck", "decode"}

InputInit ==
    /\ Init
    /\ scancode_queue = <<>>
    /\ queue_ready = FALSE
    /\ waker_state = "WAITING"
    /\ waker_slot = NoTask
    /\ kpc = "start"
    /\ scancode = 0
    /\ key_event_queue = <<>>
    /\ writer = "free"
    /\ spinning = FALSE
    /\ accepted = 0
    /\ silent = {}
    /\ delivered = <<>>
-----------------------------------------------------------------------------
\* The keyboard interrupt handler, add_scancode and AtomicWaker::wake.

\* AtomicWaker::wake: a stored waker is taken and woken; while a registration
\* is under way only the WAKING flag is left behind.
Wake ==
    CASE waker_state = "WAITING" /\ waker_slot # NoTask ->
            /\ waker_slot' = NoTask
            /\ Push(waker_slot, Resumed)
            /\ UNCHANGED waker_state
      [] waker_state = "WAITING" /\ waker_slot = NoTask ->
            /\ pc' = Resumed
            /\ UNCHANGED <<waker_state, waker_slot, task_queue, current>>
      [] OTHER ->
            /\ waker_state' = "REGISTERING|WAKING"
            /\ pc' = Resumed
            /\ UNCHANGED <<waker_slot, task_queue, current>>

\* A bug: force_push, which overwrites the oldest scancode of a full queue.
Accept_ForcePush ==
    /\ queue_ready
    /\ accepted < MaxScancodes
    /\ accepted' = accepted + 1
    /\ scancode_queue' =
          Append(IF Len(scancode_queue) < ScancodeCap THEN scancode_queue
                 ELSE Tail(scancode_queue), accepted + 1)
    /\ Wake
    /\ UNCHANGED spinning

Accept ==
    /\ queue_ready /\ Len(scancode_queue) < ScancodeCap
    /\ accepted < MaxScancodes
    /\ accepted' = accepted + 1
    /\ scancode_queue' = Append(scancode_queue, accepted + 1)
    /\ Wake
    /\ UNCHANGED spinning

\* The two WARNING lines: println! from the handler.  WRITER's lock is held by
\* the interrupted code or free; a held one is never released.
DropScancode ==
    /\ ~queue_ready \/ Len(scancode_queue) >= ScancodeCap
    /\ IF writer = "free"
       THEN /\ pc' = Resumed
            /\ UNCHANGED spinning
       ELSE /\ spinning' = TRUE
            /\ UNCHANGED pc
    /\ UNCHANGED <<accepted, scancode_queue, waker_state, waker_slot,
                   task_queue, current>>

\* A bug: the handler is installed as a trap gate and can nest.
keyboard_interrupt_handler_TrapGate ==
    /\ pc # "panic" /\ ~spinning
    /\ Accept \/ DropScancode
    /\ UNCHANGED <<next_id, tasks, waker_cache, interrupts, queue_ready, kpc,
                   scancode, key_event_queue, writer, silent, delivered>>

keyboard_interrupt_handler ==
    /\ interrupts /\ pc # "panic" /\ ~spinning
    /\ Accept \/ DropScancode
    /\ UNCHANGED <<next_id, tasks, waker_cache, interrupts, queue_ready, kpc,
                   scancode, key_event_queue, writer, silent, delivered>>
-----------------------------------------------------------------------------
\* print_keypresses.  All of its steps happen while the executor polls it.
PollingKbd == pc = "poll" /\ current = Kbd /\ ~spinning

\* ScancodeStream::new, at the first poll.
StreamNew ==
    /\ PollingKbd /\ kpc = "start"
    /\ queue_ready' = TRUE
    /\ kpc' = "pop"
    /\ UNCHANGED evars
    /\ UNCHANGED <<scancode_queue, waker_state, waker_slot, scancode,
                   key_event_queue, writer, spinning, accepted, silent, delivered>>

\* The first pop of poll_next.
PollNextPop ==
    /\ PollingKbd /\ kpc = "pop"
    /\ IF scancode_queue # <<>>
       THEN /\ scancode' = Head(scancode_queue)
            /\ scancode_queue' = Tail(scancode_queue)
            /\ kpc' = "decode"
       ELSE /\ kpc' = "register"
            /\ UNCHANGED <<scancode, scancode_queue>>
    /\ UNCHANGED evars
    /\ UNCHANGED <<queue_ready, waker_state, waker_slot, key_event_queue, writer,
                   spinning, accepted, silent, delivered>>

\* WAKER.register in its three atomic parts.
RegisterBegin ==
    /\ PollingKbd /\ kpc = "register"
    /\ waker_state' = "REGISTERING"
    /\ kpc' = "store"
    /\ UNCHANGED evars
    /\ UNCHANGED <<scancode_queue, queue_ready, waker_slot, scancode,
                   key_event_queue, writer, spinning, accepted, silent, delivered>>

RegisterStore ==
    /\ PollingKbd /\ kpc = "store"
    /\ waker_slot' = Kbd
    /\ kpc' = "commit"
    /\ UNCHANGED evars
    /\ UNCHANGED <<scancode_queue, queue_ready, waker_state, scancode,
                   key_event_queue, writer, spinning, accepted, silent, delivered>>

RegisterCommit ==
    /\ PollingKbd /\ kpc = "commit"
    /\ waker_state' = "WAITING"
    /\ kpc' = "recheck"
    /\ IF waker_state = "REGISTERING"
       THEN UNCHANGED <<waker_slot, task_queue, pc, current>>
       ELSE /\ waker_slot' = NoTask
            /\ Push(waker_slot, "poll")
    /\ UNCHANGED <<next_id, tasks, waker_cache, interrupts>>
    /\ UNCHANGED <<scancode_queue, queue_ready, scancode, key_event_queue, writer,
                   spinning, accepted, silent, delivered>>

\* A bug: poll_next without the second pop.
PollNextRecheck_NoPop ==
    /\ PollingKbd /\ kpc = "recheck"
    /\ kpc' = "pop"
    /\ PollPending
    /\ UNCHANGED <<scancode, scancode_queue>>
    /\ UNCHANGED <<queue_ready, waker_state, waker_slot, key_event_queue, writer,
                   spinning, accepted, silent, delivered>>

\* The second pop of poll_next; a Pending answer suspends the task.
PollNextRecheck ==
    /\ PollingKbd /\ kpc = "recheck"
    /\ IF scancode_queue # <<>>
       THEN /\ scancode' = Head(scancode_queue)
            /\ scancode_queue' = Tail(scancode_queue)
            /\ kpc' = "decode"
            /\ UNCHANGED evars
       ELSE /\ kpc' = "pop"
            /\ PollPending
            /\ UNCHANGED <<scancode, scancode_queue>>
    /\ UNCHANGED <<queue_ready, waker_state, waker_slot, key_event_queue, writer,
                   spinning, accepted, silent, delivered>>

\* keyboard.add_byte: the decoder completes a key event, or the byte is a
\* prefix or unknown and completes none.
Decode ==
    /\ PollingKbd /\ kpc = "decode"
    /\ \/ /\ key_event_queue' = Append(key_event_queue, scancode)
          /\ UNCHANGED silent
       \/ /\ silent' = silent \cup {scancode}
          /\ UNCHANGED key_event_queue
    /\ scancode' = 0
    /\ kpc' = "pop"
    /\ UNCHANGED evars
    /\ UNCHANGED <<scancode_queue, queue_ready, waker_state, waker_slot, writer,
                   spinning, accepted, delivered>>

KeyboardTask ==
    \/ StreamNew \/ PollNextPop \/ RegisterBegin \/ RegisterStore
    \/ RegisterCommit \/ PollNextRecheck \/ Decode
-----------------------------------------------------------------------------
\* The other tasks, as far as they meet the keyboard path: they pop key events,
\* print, clear the screen, yield, suspend and finish.
PollingOther == pc = "poll" /\ current # Kbd /\ ~spinning

pop_key ==
    /\ PollingOther /\ writer = "free"
    /\ key_event_queue # <<>>
    /\ delivered' = Append(delivered, Head(key_event_queue))
    /\ key_event_queue' = Tail(key_event_queue)
    /\ UNCHANGED evars
    /\ UNCHANGED <<scancode_queue, queue_ready, waker_state, waker_slot, kpc,
                   scancode, writer, spinning, accepted, silent>>

\* A bug: _print without interrupts::without_interrupts.
PrintLock_Interruptible ==
    /\ PollingOther /\ writer = "free"
    /\ writer' = "print"
    /\ UNCHANGED evars
    /\ UNCHANGED <<scancode_queue, queue_ready, waker_state, waker_slot, kpc,
                   scancode, key_event_queue, spinning, accepted, silent, delivered>>

\* vga_buffer::_print: WRITER is locked with interrupts disabled.
PrintLock ==
    /\ PollingOther /\ writer = "free"
    /\ writer' = "print"
    /\ EnterCritical
    /\ UNCHANGED <<scancode_queue, queue_ready, waker_state, waker_slot, kpc,
                   scancode, key_event_queue, spinning, accepted, silent, delivered>>

PrintUnlock ==
    /\ PollingOther /\ writer = "print"
    /\ writer' = "free"
    /\ LeaveCritical
    /\ UNCHANGED <<scancode_queue, queue_ready, waker_state, waker_slot, kpc,
                   scancode, key_event_queue, spinning, accepted, silent, delivered>>

\* commands::clear: WRITER.lock().clear() with interrupts enabled.
ClearLock ==
    /\ PollingOther /\ writer = "free"
    /\ writer' = "clear"
    /\ UNCHANGED evars
    /\ UNCHANGED <<scancode_queue, queue_ready, waker_state, waker_slot, kpc,
                   scancode, key_event_queue, spinning, accepted, silent, delivered>>

ClearUnlock ==
    /\ PollingOther /\ writer = "clear"
    /\ writer' = "free"
    /\ UNCHANGED evars
    /\ UNCHANGED <<scancode_queue, queue_ready, waker_state, waker_slot, kpc,
                   scancode, key_event_queue, spinning, accepted, silent, delivered>>

OtherEnds ==
    /\ PollingOther /\ writer = "free"
    /\ PollPending \/ PollReady \/ yield_now
    /\ UNCHANGED kvars

OtherTask ==
    \/ pop_key \/ PrintLock \/ PrintUnlock \/ ClearLock \/ ClearUnlock
    \/ OtherEnds
-----------------------------------------------------------------------------
ExecutorStep ==
    /\ ~spinning
    /\ Spawn \/ Run \/ RunLoop
    /\ UNCHANGED kvars

TimerInterrupt ==
    /\ ~spinning
    /\ timer_interrupt_handler
    /\ UNCHANGED kvars

\* The panic handler's hlt_loop, or a handler spinning for ever.
Stopped ==
    /\ pc = "panic" \/ spinning
    /\ UNCHANGED vars

InputNext ==
    \/ ExecutorStep \/ KeyboardTask \/ OtherTask
    \/ keyboard_interrupt_handler \/ TimerInterrupt \/ Stopped

InputSpec == InputInit /\ [][InputNext]_vars

\* The core executes the main code, and every poll of another task returns.
InputFairness ==
    /\ WF_vars(ExecutorStep)
    /\ WF_vars(KeyboardTask)
    /\ WF_vars(PrintUnlock) /\ WF_vars(ClearUnlock)
    /\ SF_vars(OtherEnds)

InputFairSpec == InputSpec /\ InputFairness
-----------------------------------------------------------------------------
\* The keyboard path's state is well formed: SCANCODE_QUEUE keeps to its capacity
\* and WAKER holds no waker but the keyboard task's.
InputTypeOK ==
    /\ TypeOK
    /\ scancode_queue \in Seq(1 .. MaxScancodes)
    /\ Len(scancode_queue) <= ScancodeCap
    /\ queue_ready \in BOOLEAN
    /\ waker_state \in {"WAITING", "REGISTERING", "REGISTERING|WAKING"}
    /\ waker_slot \in {Kbd, NoTask}
    /\ kpc \in KPCs
    /\ scancode \in 0 .. MaxScancodes
    /\ key_event_queue \in Seq(0 .. MaxScancodes)
    /\ writer \in {"free", "print", "clear"}
    /\ spinning \in BOOLEAN
    /\ accepted \in 0 .. MaxScancodes
    /\ silent \subseteq 0 .. MaxScancodes
    /\ delivered \in Seq(0 .. MaxScancodes)

\* While the keyboard task is suspended, a scancode in SCANCODE_QUEUE means the
\* task is in the ready queue: the handler's push and wake cannot fall into the
\* window between poll_next's first pop and its registration and be lost.
NoLostWakeup ==
    scancode_queue # <<>> /\ pc # "panic" /\ ~(pc = "poll" /\ current = Kbd)
        => Queued(Kbd)

\* The AtomicWaker only ever holds a clone of a cached waker, so the handler,
\* which drops the clone it wakes, never frees memory (the heap is a spinlock).
HandlerNeverFrees ==
    waker_slot # NoTask => waker_slot \in waker_cache

\* From the interrupt to the consumer every accepted scancode is in exactly one
\* place, and the order of arrival is the order of delivery.
InHand == IF scancode = 0 THEN <<>> ELSE <<scancode>>
Pipeline == delivered \o key_event_queue \o InHand \o scancode_queue
InOrderOnce ==
    /\ \A i, j \in 1 .. Len(Pipeline) : i < j => Pipeline[i] < Pipeline[j]
    /\ {Pipeline[i] : i \in 1 .. Len(Pipeline)} = (1 .. accepted) \ silent

\* The interrupt handler never waits for a lock that the code it interrupted
\* holds (ARCHITECTURE.md sections 5 and 11).
NoHandlerDeadlock == ~spinning

\* The handler can meet WRITER locked by the `clear' command only, which locks it
\* with interrupts enabled: everywhere else without_interrupts keeps it out.
DeadlockNeedsClear == spinning => writer = "clear"

\* Every accepted scancode is decoded, unless the machine has panicked or the
\* handler spins.
ScancodeIsDecoded ==
    \A n \in 1 .. MaxScancodes :
        (accepted >= n) ~>
            (\/ n \in silent
             \/ \E i \in 1 .. Len(delivered \o key_event_queue) :
                    (delivered \o key_event_queue)[i] = n
             \/ pc = "panic" \/ spinning)

\* The composition runs on the executor: each of its steps is one of Executor's.
RefinesExecutor == Spec
=============================================================================
