-------------------------------- MODULE Shell --------------------------------
(***************************************************************************)
(* The shell's loop (commands.rs, shell.rs) and the foreground command it  *)
(* awaits, both of which take keys from KEY_EVENT_QUEUE and decode them    *)
(* with a Keyboard of their own.  The keyboard task adds to the queue, and *)
(* on one core runs only while shell_task is suspended: at its yield_now   *)
(* or inside the command it awaits.                                        *)
(*                                                                         *)
(* Of the modifiers the model has Shift.  A decoded character is the key   *)
(* with the decoder's idea of Shift; a key event carries Shift's real      *)
(* state too, which the code does not see.                                 *)
(***************************************************************************)
EXTENDS Lists

CONSTANTS
    Letters,   \* keys that type a character other than white space
    MaxKeys    \* bound: key events in a behaviour

ASSUME ShellConstants ==
    /\ MaxKeys \in Nat
    /\ Letters \cap {"Space", "Enter", "Backspace", "ShiftDown", "ShiftUp"} = {}

Keys == Letters \cup {"Space", "Enter", "Backspace", "ShiftDown", "ShiftUp"}

VARIABLES
    key_event_queue,
    current_cmd, past_cmd,  \* SHELL
    command_pending,        \* COMMAND_PENDING
    shift,                  \* the shell's decoder: Shift is down
    spc,                    \* "drain", "take", "yield", or "await" a command
    held, arrived,          \* the real Shift; key events so far
    typed, lines,           \* the line typed so far; the lines entered, blank
                            \*   ones left out
    clean                   \* no key followed an Enter in one drain, and no
                            \*   command took a Shift event from the shell

svars == <<key_event_queue, current_cmd, past_cmd, command_pending, shift, spc,
           held, arrived, typed, lines, clean>>

ShellInit ==
    /\ key_event_queue = <<>> /\ current_cmd = <<>> /\ past_cmd = <<>>
    /\ command_pending = FALSE /\ shift = FALSE /\ spc = "drain"
    /\ held = FALSE /\ arrived = 0
    /\ typed = <<>> /\ lines = <<>> /\ clean = TRUE

\* The keyboard task queues a decoded key event; Shift goes down and up in turn.
KeyArrives ==
    /\ spc \in {"yield", "await"} /\ arrived < MaxKeys
    /\ \E k \in Keys :
          /\ k = "ShiftDown" => ~held
          /\ k = "ShiftUp" => held
          /\ held' = (IF k = "ShiftDown" THEN TRUE ELSE IF k = "ShiftUp" THEN FALSE ELSE held)
          /\ key_event_queue' = Append(key_event_queue, [key |-> k, held |-> held])
    /\ arrived' = arrived + 1
    /\ UNCHANGED <<current_cmd, past_cmd, command_pending, shift, spc, typed, lines,
                   clean>>

\* String::pop, which does nothing to an empty string.
Pop(s) == SubSeq(s, 1, Len(s) - 1)

\* split_whitespace: the maximal runs of characters that are not white space.
Words(line) ==
    LET n == Len(line)
        dark(i) == i \in 1 .. n /\ line[i][1] # "Space"
        starts == Ascending({i \in 1 .. n : dark(i) /\ ~dark(i - 1)})
        ends == Ascending({i \in 1 .. n : dark(i) /\ ~dark(i + 1)})
    IN  [k \in 1 .. Len(starts) |-> SubSeq(line, starts[k], ends[k])]

\* What the person at the keyboard has typed, by the real state of Shift.
Intent(e) ==
    /\ typed' = CASE e.key \in Letters \cup {"Space"} -> Append(typed, <<e.key, e.held>>)
                  [] e.key = "Backspace" -> Pop(typed)
                  [] e.key = "Enter" -> <<>>
                  [] OTHER -> typed
    /\ lines' = IF e.key = "Enter" /\ Words(typed) # <<>>
                THEN Append(lines, Words(typed)) ELSE lines

\* One round of `while let Some(key_event) = pop_key()`.
Drain ==
    /\ spc = "drain" /\ key_event_queue # <<>>
    /\ LET e == Head(key_event_queue) IN
       /\ key_event_queue' = Tail(key_event_queue)
       /\ Intent(e)
       /\ shift' = (IF e.key = "ShiftDown" THEN TRUE
                    ELSE IF e.key = "ShiftUp" THEN FALSE ELSE shift)
       /\ current_cmd' = CASE e.key \in Letters \cup {"Space"} ->
                                 Append(current_cmd, <<e.key, shift>>)
                           [] e.key = "Backspace" -> Pop(current_cmd)
                           [] OTHER -> current_cmd
       /\ command_pending' = (command_pending \/ e.key = "Enter")
       /\ clean' = (clean /\ ~command_pending)
    /\ UNCHANGED <<past_cmd, spc, held, arrived>>

Drained ==
    /\ spc = "drain" /\ key_event_queue = <<>>
    /\ spc' = "take"
    /\ UNCHANGED <<key_event_queue, current_cmd, past_cmd, command_pending, shift,
                   held, arrived, typed, lines, clean>>

\* A bug: the line is not cleared when it is taken.
Take_NotCleared ==
    /\ spc = "take"
    /\ command_pending' = FALSE
    /\ IF command_pending /\ Words(current_cmd) # <<>>
       THEN /\ past_cmd' = Append(past_cmd, Words(current_cmd))
            /\ spc' \in {"await", "yield"}
       ELSE UNCHANGED past_cmd /\ spc' = "yield"
    /\ UNCHANGED <<key_event_queue, current_cmd, shift, held, arrived, typed, lines, clean>>

\* A bug: the flag is loaded and not swapped.
Take_NoSwap ==
    /\ spc = "take"
    /\ current_cmd' = IF command_pending THEN <<>> ELSE current_cmd
    /\ IF command_pending /\ Words(current_cmd) # <<>>
       THEN /\ past_cmd' = Append(past_cmd, Words(current_cmd))
            /\ spc' \in {"await", "yield"}
       ELSE UNCHANGED past_cmd /\ spc' = "yield"
    /\ UNCHANGED <<key_event_queue, command_pending, shift, held, arrived, typed, lines, clean>>

\* The pending line is taken with getcmd, remembered and cleared, and run_cmd's
\* future awaited; an unknown command, or one that ends at once, comes straight
\* back to the prompt.
Take ==
    /\ spc = "take"
    /\ command_pending' = FALSE
    /\ current_cmd' = IF command_pending THEN <<>> ELSE current_cmd
    /\ IF command_pending /\ Words(current_cmd) # <<>>
       THEN /\ past_cmd' = Append(past_cmd, Words(current_cmd))
            /\ spc' \in {"await", "yield"}
       ELSE UNCHANGED past_cmd /\ spc' = "yield"
    /\ UNCHANGED <<key_event_queue, shift, held, arrived, typed, lines, clean>>

\* The editor or pong, in the foreground, takes a key for itself.
CommandTakesKey ==
    /\ spc = "await" /\ key_event_queue # <<>>
    /\ key_event_queue' = Tail(key_event_queue)
    /\ clean' = (clean /\ Head(key_event_queue).key \notin {"ShiftDown", "ShiftUp"})
    /\ UNCHANGED <<current_cmd, past_cmd, command_pending, shift, spc, held, arrived,
                   typed, lines>>

\* The command's future is ready; the prompt is printed and the shell yields.
CommandEnds ==
    /\ spc = "await"
    /\ spc' = "yield"
    /\ UNCHANGED <<key_event_queue, current_cmd, past_cmd, command_pending, shift,
                   held, arrived, typed, lines, clean>>

\* A bug: yield_now returns Pending without waking its task.
Resume_NotWoken == spc = "yield" /\ UNCHANGED svars

\* The executor polls the shell again after yield_now.
Resume ==
    /\ spc = "yield"
    /\ spc' = "drain"
    /\ UNCHANGED <<key_event_queue, current_cmd, past_cmd, command_pending, shift,
                   held, arrived, typed, lines, clean>>

\* What shell_task does by itself, a command apart.
ShellStep == Drain \/ Drained \/ Take \/ Resume
-----------------------------------------------------------------------------
\* The lines the shell takes as commands and keeps in past_cmd are the lines that
\* were entered, character for character with Backspace and Shift applied, in
\* order and each once, as long as no key follows an Enter within one drain and no command
\* takes a Shift event: after either the shell may join lines or mistake case.
LineFidelity ==
    clean =>
        /\ lines = IF command_pending /\ Words(current_cmd) # <<>>
                   THEN Append(past_cmd, Words(current_cmd)) ELSE past_cmd
        /\ ~command_pending => typed = current_cmd

\* A line is taken only with every key that arrived before it drained, so a
\* suspended shell never has an Enter it has seen and not served.
SuspendedWithNothingPending == spc \in {"yield", "await"} => ~command_pending
=============================================================================
