----------------------------- MODULE Scheduler -----------------------------
(***************************************************************************)
(* What the executor promises the rest of the kernel, without its queue:   *)
(* a wake-up is remembered until the woken task is polled, one task runs   *)
(* at a time, and the processor sleeps only when no task is runnable.      *)
(***************************************************************************)
EXTENDS Naturals

CONSTANTS Tasks, None

VARIABLES
    live,      \* tasks spawned and not finished
    runnable,  \* tasks with a wake-up that no poll has answered yet
    running,   \* the task being polled, or None
    mode       \* "awake", "asleep" or "panicked"

svars == <<live, runnable, running, mode>>

Init ==
    /\ live = {}
    /\ runnable = {}
    /\ running = None
    /\ mode = "awake"

Spawn(t) ==
    /\ mode = "awake" /\ running = None /\ t \notin live
    /\ live' = live \cup {t}
    /\ runnable' = runnable \cup {t}
    /\ UNCHANGED <<running, mode>>

\* A wake-up can come at any time, from the running task or an interrupt, and
\* also for a task that has finished.
Wake(t) ==
    /\ mode # "panicked"
    /\ runnable' = runnable \cup {t}
    /\ mode' = "awake"
    /\ UNCHANGED <<live, running>>

\* Several wake-ups of one task may be answered by one poll or by several, so
\* starting a task need not clear its wake-up.
Start(t) ==
    /\ mode = "awake" /\ running = None
    /\ t \in runnable \cap live
    /\ running' = t
    /\ runnable' \in {runnable, runnable \ {t}}
    /\ UNCHANGED <<live, mode>>

\* A wake-up of a finished task is dropped.
Discard(t) ==
    /\ mode = "awake" /\ running = None
    /\ t \in runnable \ live
    /\ runnable' \in {runnable, runnable \ {t}}
    /\ UNCHANGED <<live, running, mode>>

Suspend ==
    /\ mode = "awake" /\ running # None
    /\ running' = None
    /\ UNCHANGED <<live, runnable, mode>>

\* A task that yields is runnable again at once.
Yield ==
    /\ mode = "awake" /\ running # None
    /\ running' = None
    /\ runnable' = runnable \cup {running}
    /\ UNCHANGED <<live, mode>>

Finish ==
    /\ mode = "awake" /\ running # None
    /\ running' = None
    /\ live' = live \ {running}
    /\ UNCHANGED <<runnable, mode>>

Sleep ==
    /\ mode = "awake" /\ running = None /\ runnable = {}
    /\ mode' = "asleep"
    /\ UNCHANGED <<live, runnable, running>>

\* An interrupt that wakes no task ends the sleep all the same.
Rouse ==
    /\ mode = "asleep"
    /\ mode' = "awake"
    /\ UNCHANGED <<live, runnable, running>>

\* A panic, possibly of a spawn that has registered its task already.
Panic ==
    /\ mode' = "panicked"
    /\ running' = None
    /\ \E new \in SUBSET Tasks : live' = live \cup new
    /\ UNCHANGED runnable

Next ==
    \/ \E t \in Tasks : Spawn(t) \/ Wake(t) \/ Start(t) \/ Discard(t)
    \/ Suspend \/ Yield \/ Finish \/ Sleep \/ Rouse \/ Panic

Spec == Init /\ [][Next]_svars
=============================================================================
