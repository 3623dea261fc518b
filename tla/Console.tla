------------------------------ MODULE Console -------------------------------
(***************************************************************************)
(* The shell and the console together: shell_task echoes the keys it       *)
(* drains, prints what its commands come to and the prompt (commands.rs),  *)
(* and a foreground command draws on the same grid.  What the person at    *)
(* the keyboard sees is the grid; what the shell runs is current_cmd.      *)
(***************************************************************************)
EXTENDS Shell, Screen

CONSTANTS
    Upper,     \* the character a letter types with Shift
    Outputs,   \* bound: what commands print
    Cells      \* bound: where a foreground command draws, <<x, y>>

ASSUME ConsoleConstants ==
    /\ Upper \in [Letters -> Printable] /\ Letters \subseteq Printable /\ ">" \in Printable
    /\ Outputs \subseteq Seq(Printable \cup Control \cup {Blank, NL})

VARIABLES
    prompt,    \* the prompt of the current line: at boot none is printed
    apart      \* an erased character was only on the screen or only in the line,
               \*   or the prompt did not start a row

vars == <<svars, scvars, prompt, apart>>

Prompt == <<">", Blank>>

Init == ShellInit /\ ScreenInit /\ prompt = <<>> /\ apart = FALSE

\* A character of the line as print! is given it.
Shown(c) == IF c[1] = "Space" THEN Blank ELSE IF c[2] THEN Upper[c[1]] ELSE c[1]

\* A bug: Backspace is printed like the other characters.
Echo_Backspace(e) ==
    CASE e.key \in Letters \cup {"Space"} -> _print(Writer, <<Shown(<<e.key, shift>>)>>)
      [] e.key = "Backspace" -> _print(Writer, <<"0x08">>)
      [] e.key = "Enter" -> _print(Writer, <<NL>>)
      [] OTHER -> Writer

\* What shell_task does on the screen with a key.
Echo(e) ==
    CASE e.key \in Letters \cup {"Space"} -> _print(Writer, <<Shown(<<e.key, shift>>)>>)
      [] e.key = "Backspace" -> _backspace(Writer)
      [] e.key = "Enter" -> _print(Writer, <<NL>>)
      [] OTHER -> Writer

DrainAndEcho ==
    /\ Drain
    /\ LET e == Head(key_event_queue) IN
       /\ Shows(Echo(e))
       /\ apart' = (\/ apart
                    \/ e.key = "Backspace" /\ (current_cmd = <<>>) # (column_position = 0))
    /\ UNCHANGED prompt

\* The prompt follows what a command has left on the screen.
PrintPrompt(w) == Shows(_print(w, Prompt)) /\ prompt' = Prompt /\ apart' = (w.column # 0)

\* What a command prints, or the command clear's doing.
Finished == {_print(Writer, s) : s \in Outputs} \cup {clear(Writer)}

OffScreen == UNCHANGED <<scvars, prompt, apart>>

TakeAndRun ==
    /\ Take
    /\ IF spc' = "await" \/ ~command_pending THEN OffScreen
       ELSE \E w \in IF Words(current_cmd) = <<>> THEN {Writer} ELSE Finished : PrintPrompt(w)

\* The editor or pong draws a cell, or clears the screen.
Draw ==
    /\ spc = "await"
    /\ Shows(clear(Writer)) \/ \E c \in Cells : Shows(write_char_at(Writer, c[1], c[2], "#"))
    /\ UNCHANGED <<svars, prompt, apart>>

EndAndPrompt == CommandEnds /\ \E w \in Finished : PrintPrompt(w)

Next ==
    \/ DrainAndEcho \/ TakeAndRun \/ Draw \/ EndAndPrompt
    \/ (KeyArrives \/ Drained \/ CommandTakesKey \/ Resume) /\ OffScreen

\* The executor polls shell_task again after every yield_now.
Spec == Init /\ [][Next]_vars /\ WF_svars(ShellStep)
-----------------------------------------------------------------------------
\* Keys waiting at the prompt are taken, whatever arrives meanwhile: a drain is
\* finite because the keyboard task cannot run during it.
KeysAreTaken == (spc = "yield" /\ key_event_queue # <<>>) ~> key_event_queue = <<>> \/ spc = "await"

Line == prompt \o [i \in DOMAIN current_cmd |-> Shown(current_cmd[i])]

\* The line on the screen, up to the cursor and back over the rows it has wrapped
\* from, is the prompt and the line that Enter would run, and nothing stands after
\* it: as long as no Backspace has reached the prompt or a row the line has wrapped
\* from, and nothing is drawn on the last row.
ScreenShowsLine ==
    spc # "await" /\ ~command_pending /\ ~apart /\ ~smudged =>
        LET first == (Height - 1) * Width + column_position - Len(Line)
            cell(n) == chars[n \div Width][n % Width]
        IN  /\ first % Width = 0
            /\ \A i \in DOMAIN Line : first + i >= 1 => cell(first + i - 1) = Line[i]
            /\ \A c \in column_position .. Width - 1 : chars[Height - 1][c] = Blank
=============================================================================
