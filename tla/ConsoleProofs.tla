---------------------------- MODULE ConsoleProofs ----------------------------
(***************************************************************************)
(* The shell runs the lines that were typed (LineFidelity), the screen     *)
(* shows what was printed (ShowsLastRows), and of the line at the prompt   *)
(* it shows what Enter would run (ScreenShowsLine): for any letters and    *)
(* any number of keys, a screen of any size and any output of commands.    *)
(* The screen plays no part in the first: no step of the shell reads it.   *)
(***************************************************************************)
EXTENDS Console, DataLemmas

Event == [key : Keys, held : BOOLEAN]

\* The real state of Shift after a key event.
After(e) == IF e.key = "ShiftDown" THEN TRUE ELSE IF e.key = "ShiftUp" THEN FALSE ELSE e.held

\* The events that are queued carry on from the shell's decoder, each from the one
\* before it, up to the key that arrives next.
ShiftTracked ==
    LET q == key_event_queue IN
    /\ q = <<>> => shift = held
    /\ q # <<>> => q[1].held = shift /\ After(q[Len(q)]) = held
    /\ \A i \in 1 .. Len(q) - 1 : q[i + 1].held = After(q[i])

\* The inductive invariant: nothing is typed between an Enter and the line it ends,
\* and the shell's decoder lags behind the keyboard by the queue alone.
ShellInv ==
    /\ key_event_queue \in Seq(Event) /\ held \in BOOLEAN /\ shift \in BOOLEAN
    /\ command_pending \in BOOLEAN /\ clean \in BOOLEAN
    /\ SuspendedWithNothingPending /\ LineFidelity
    /\ clean => ShiftTracked /\ (command_pending => typed = <<>>)

\* A queue without events has length 0.
LEMMA NoLength == Len(<<>>) = 0
  OBVIOUS

\* One string printed after another: its length and its bytes.
LEMMA Joined ==
    ASSUME NEW S, NEW a \in Seq(S), NEW b \in Seq(S)
    PROVE  /\ a \o b \in Seq(S) /\ Len(a \o b) = Len(a) + Len(b)
           /\ \A i \in 1 .. Len(a) + Len(b) :
                 (a \o b)[i] = IF i <= Len(a) THEN a[i] ELSE b[i - Len(a)]
  OBVIOUS

\* Nothing is typed before the first key arrives.
LEMMA InitShellInv == Init => ShellInv
<1> SUFFICES ASSUME Init PROVE ShellInv
    OBVIOUS
<1> USE DEF Init, ShellInit
<1>1. key_event_queue \in Seq(Event)
    OBVIOUS
<1>4. held \in BOOLEAN /\ shift \in BOOLEAN /\ command_pending \in BOOLEAN /\ clean \in BOOLEAN
    BY Zenon
<1>2. SuspendedWithNothingPending /\ LineFidelity
    BY DEF SuspendedWithNothingPending, LineFidelity
<1>5. 1 .. Len(<<>>) - 1 = {}
    OBVIOUS
<1>3. ShiftTracked /\ (command_pending => typed = <<>>)
    BY <1>5, Zenon DEF ShiftTracked
<1> QED
    BY <1>1, <1>2, <1>3, <1>4 DEF ShellInv

\* The keyboard task: the new event starts from where the last one left Shift.
LEMMA KeyArrivesKeeps == ShellInv /\ KeyArrives => ShellInv'
<1> SUFFICES ASSUME ShellInv, KeyArrives PROVE ShellInv'
    OBVIOUS
<1> DEFINE q == key_event_queue
<1>1. PICK k \in Keys :
        /\ k = "ShiftDown" => ~held
        /\ k = "ShiftUp" => held
        /\ held' = (IF k = "ShiftDown" THEN TRUE ELSE IF k = "ShiftUp" THEN FALSE ELSE held)
        /\ q' = Append(q, [key |-> k, held |-> held])
    BY Zenon DEF KeyArrives
<1> DEFINE e == [key |-> k, held |-> held]
<1>2. q \in Seq(Event) /\ e \in Event /\ held \in BOOLEAN
    BY DEF ShellInv, Event
<1>3. q' \in Seq(Event) /\ Len(q') = Len(q) + 1 /\ Len(q) \in Nat /\ q'[Len(q')] = e
      /\ (\A i \in 1 .. Len(q) : q'[i] = q[i])
    BY <1>1, <1>2
<1>4. held' = After(e) /\ held' \in BOOLEAN
    BY <1>1, <1>2, Zenon DEF After
<1>5. ShiftTracked => ShiftTracked'
    <2> SUFFICES ASSUME ShiftTracked PROVE ShiftTracked'
        OBVIOUS
    <2>1. q' # <<>> /\ shift' = shift
        BY <1>3 DEF KeyArrives
    <2>2. q'[1].held = shift'
        <3>1. CASE q = <<>>
            <4>1. Len(q) = 0 /\ q'[1] = e
                BY <3>1, <1>3
            <4> QED
                BY <3>1, <4>1, <2>1 DEF ShiftTracked
        <3>2. CASE q # <<>>
            <4>1. Len(q) >= 1 /\ q'[1] = q[1]
                BY <3>2, <1>2, <1>3
            <4> QED
                BY <3>2, <4>1, <2>1 DEF ShiftTracked
        <3> QED
            BY <3>1, <3>2
    <2>3. ASSUME NEW i \in 1 .. Len(q') - 1 PROVE q'[i + 1].held = After(q'[i])
        <3>1. CASE i < Len(q)
            <4>1. q'[i + 1] = q[i + 1] /\ q'[i] = q[i] /\ i \in 1 .. Len(q) - 1
                BY <3>1, <1>3
            <4> QED
                BY <4>1 DEF ShiftTracked
        <3>2. CASE i = Len(q)
            <4>1. q # <<>> /\ q'[i + 1] = e /\ q'[i] = q[Len(q)]
                BY <3>2, <1>2, <1>3
            <4> QED
                BY <4>1 DEF ShiftTracked
        <3> QED
            BY <3>1, <3>2, <1>3
    <2> QED
        BY <2>1, <2>2, <2>3, <1>3, <1>4 DEF ShiftTracked
<1> QED
    BY <1>3, <1>4, <1>5, Zenon
    DEF KeyArrives, ShellInv, SuspendedWithNothingPending, LineFidelity

\* Taking the first event, with the decoder following it, keeps the rest in step.
LEMMA TailTracked ==
    ASSUME key_event_queue \in Seq(Event), key_event_queue # <<>>, ShiftTracked,
           key_event_queue' = Tail(key_event_queue),
           shift' = After(Head(key_event_queue)), held' = held
    PROVE  ShiftTracked'
<1> DEFINE q == key_event_queue
<1>1. Len(q) \in Nat /\ Len(q) >= 1 /\ Len(q') = Len(q) - 1 /\ Head(q) = q[1]
      /\ (\A i \in 1 .. Len(q) - 1 : q'[i] = q[i + 1])
    OBVIOUS
<1>2. CASE q' = <<>>
    <2>1. Len(q) = 1
        <3>1. Len(q') = 0
            BY <1>2, NoLength, Zenon
        <3> QED
            BY <3>1, <1>1
    <2>2. 1 .. Len(q') - 1 = {} /\ q[Len(q)] = Head(q)
        BY <2>1, <1>1
    <2> QED
        BY <2>2, <1>2 DEF ShiftTracked
<1>3. CASE q' # <<>>
    <2>1. Len(q) >= 2
        BY <1>1, <1>3
    <2>2. q'[1] = q[2] /\ q[2].held = After(q[1]) /\ q'[Len(q')] = q[Len(q)]
        <3>1. 1 \in 1 .. Len(q) - 1 /\ Len(q) - 1 \in 1 .. Len(q) - 1
            BY <2>1, <1>1
        <3>2. q[1 + 1].held = After(q[1])
            BY <3>1 DEF ShiftTracked
        <3> QED
            BY <3>1, <3>2, <1>1
    <2>3. ASSUME NEW i \in 1 .. Len(q') - 1 PROVE q'[i + 1].held = After(q'[i])
        <3>1. i + 1 \in 1 .. Len(q) - 1 /\ i \in 1 .. Len(q) - 1
            BY <1>1
        <3>2. q[(i + 1) + 1].held = After(q[i + 1])
            BY <3>1 DEF ShiftTracked
        <3> QED
            BY <3>1, <3>2, <1>1
    <2> QED
        BY <2>2, <2>3, <1>1, <1>3 DEF ShiftTracked
<1> QED
    BY <1>2, <1>3

\* The shell drains a key: the decoder's Shift is the real one, so the character it
\* adds is the one that was typed, and after an Enter nothing has been typed.
LEMMA DrainKeeps == ShellInv /\ Drain => ShellInv'
<1> SUFFICES ASSUME ShellInv, Drain PROVE ShellInv'
    OBVIOUS
<1> DEFINE q == key_event_queue
           e == Head(key_event_queue)
<1>1. q \in Seq(Event) /\ q # <<>> /\ e \in Event /\ q' = Tail(q) /\ q' \in Seq(Event)
      /\ e = q[1]
    BY DEF ShellInv, Drain
<1>2. /\ held' = held /\ past_cmd' = past_cmd /\ spc' = spc /\ spc = "drain"
      /\ shift' = (IF e.key = "ShiftDown" THEN TRUE ELSE IF e.key = "ShiftUp" THEN FALSE ELSE shift)
      /\ command_pending' = (command_pending \/ e.key = "Enter")
      /\ clean' = (clean /\ ~command_pending)
      /\ Intent(e)
      /\ current_cmd' = CASE e.key \in Letters \cup {"Space"} -> Append(current_cmd, <<e.key, shift>>)
                          [] e.key = "Backspace" -> Pop(current_cmd)
                          [] OTHER -> current_cmd
    BY DEF Drain
<1>3. e.key \in Keys /\ e.held \in BOOLEAN
    BY <1>1 DEF Event
<1>4. held' \in BOOLEAN /\ shift' \in BOOLEAN /\ command_pending' \in BOOLEAN /\ clean' \in BOOLEAN
    BY <1>2, Zenon DEF ShellInv
<1>5. ASSUME clean'
      PROVE  ShiftTracked' /\ LineFidelity' /\ (command_pending' => typed' = <<>>)
    <2>1. clean /\ ~command_pending
        BY <1>5, <1>2, Zenon DEF ShellInv
    <2>2. ShiftTracked /\ typed = current_cmd /\ lines = past_cmd
        BY <2>1 DEF ShellInv, LineFidelity
    <2>3. e.held = shift
        BY <2>2, <1>1 DEF ShiftTracked
    <2>4. shift' = After(e)
        BY <2>3, <1>2, Zenon DEF After
    <2>5. ShiftTracked'
        BY <1>1, <1>2, <2>2, <2>4, TailTracked, Zenon
    <2>6. CASE e.key = "Enter"
        <3>1. typed' = <<>> /\ current_cmd' = current_cmd /\ command_pending'
              /\ lines' = IF Words(typed) # <<>> THEN Append(lines, Words(typed)) ELSE lines
            BY <2>6, <1>2, ShellConstants, Zenon DEF Intent
        <3>2. Words(current_cmd)' = Words(typed)
            BY <3>1, <2>2
        <3> QED
            BY <3>1, <3>2, <2>2, <2>5, <1>2, Zenon DEF LineFidelity
    <2>7. CASE e.key # "Enter"
        <3>1. lines' = lines /\ ~command_pending'
            BY <2>7, <2>1, <1>2, Zenon DEF Intent
        <3>2. typed' = current_cmd'
            <4>1. CASE e.key \in Letters \cup {"Space"}
                BY <4>1, <2>2, <2>3, <1>2, ShellConstants, Zenon DEF Intent
            <4>2. CASE e.key = "Backspace"
                BY <4>2, <2>2, <1>2, ShellConstants DEF Intent
            <4>3. CASE e.key \in {"ShiftDown", "ShiftUp"}
                BY <4>3, <2>2, <1>2, ShellConstants DEF Intent
            <4> QED
                BY <4>1, <4>2, <4>3, <2>7, <1>3 DEF Keys
        <3> QED
            BY <3>1, <3>2, <2>2, <2>5, <1>2 DEF LineFidelity
    <2> QED
        BY <2>6, <2>7
<1>6. SuspendedWithNothingPending'
    BY <1>2 DEF SuspendedWithNothingPending
<1>7. LineFidelity'
    BY <1>5 DEF LineFidelity
<1> QED
    BY <1>1, <1>2, <1>4, <1>5, <1>6, <1>7, Zenon DEF ShellInv

\* The shell takes the pending line: it is the last of the lines that were entered.
LEMMA TakeKeeps == ShellInv /\ Take => ShellInv'
<1> SUFFICES ASSUME ShellInv, Take PROVE ShellInv'
    OBVIOUS
<1>1. /\ command_pending' = FALSE /\ clean' = clean /\ lines' = lines /\ typed' = typed
      /\ current_cmd' = (IF command_pending THEN <<>> ELSE current_cmd)
      /\ UNCHANGED <<key_event_queue, shift, held>>
    BY DEF Take
<1>2. past_cmd' = IF command_pending /\ Words(current_cmd) # <<>>
                  THEN Append(past_cmd, Words(current_cmd)) ELSE past_cmd
    BY DEF Take
<1>3. ShiftTracked => ShiftTracked'
    BY <1>1 DEF ShiftTracked
<1>4. LineFidelity'
    BY <1>1, <1>2 DEF ShellInv, LineFidelity
<1> QED
    BY <1>1, <1>3, <1>4 DEF ShellInv, SuspendedWithNothingPending

\* A foreground command takes an event that leaves Shift alone, or the shell's
\* decoder is known to be wrong from then on.
LEMMA CommandTakesKeyKeeps == ShellInv /\ CommandTakesKey => ShellInv'
<1> SUFFICES ASSUME ShellInv, CommandTakesKey PROVE ShellInv'
    OBVIOUS
<1> DEFINE q == key_event_queue
<1>1. /\ q \in Seq(Event) /\ q # <<>> /\ q' = Tail(q) /\ q' \in Seq(Event)
      /\ Head(q) = q[1]
      /\ clean' = (clean /\ Head(q).key \notin {"ShiftDown", "ShiftUp"})
      /\ UNCHANGED <<current_cmd, past_cmd, command_pending, shift, spc, held, typed, lines>>
    BY DEF ShellInv, CommandTakesKey
<1>2. ASSUME clean' PROVE ShiftTracked'
    <2>1. ShiftTracked /\ Head(q).key \notin {"ShiftDown", "ShiftUp"}
        BY <1>1, <1>2, Zenon DEF ShellInv
    <2>2. shift' = After(Head(q))
        BY <1>1, <2>1 DEF ShiftTracked, After
    <2> QED
        BY <1>1, <2>1, <2>2, TailTracked
<1>3. LineFidelity'
    <2>1. Words(current_cmd)' = Words(current_cmd)
        BY <1>1
    <2> QED
        BY <1>1, <2>1 DEF ShellInv, LineFidelity
<1> QED
    BY <1>1, <1>2, <1>3 DEF ShellInv, SuspendedWithNothingPending

\* The steps that move the shell's loop on, and the ones outside of it.
LEMMA LoopKeeps ==
    ASSUME ShellInv,
           UNCHANGED <<key_event_queue, current_cmd, past_cmd, command_pending, shift, held,
                       typed, lines, clean>>,
           command_pending => spc' \notin {"yield", "await"}
    PROVE  ShellInv'
<1>1. ShiftTracked => ShiftTracked'
    BY DEF ShiftTracked
<1>2. Words(current_cmd)' = Words(current_cmd)
    OBVIOUS
<1>3. LineFidelity'
    BY <1>2 DEF ShellInv, LineFidelity
<1> QED
    BY <1>1, <1>3 DEF ShellInv, SuspendedWithNothingPending

\* Every step keeps the invariant.
LEMMA NextShellInv == ShellInv /\ [Next]_vars => ShellInv'
<1> SUFFICES ASSUME ShellInv, [Next]_vars PROVE ShellInv'
    OBVIOUS
<1>1. CASE Drain
    BY <1>1, DrainKeeps
<1>2. CASE Take
    BY <1>2, TakeKeeps
<1>3. CASE KeyArrives
    BY <1>3, KeyArrivesKeeps
<1>4. CASE CommandTakesKey
    BY <1>4, CommandTakesKeyKeeps
<1>5. CASE Drained
    BY <1>5, LoopKeeps DEF Drained
<1>6. CASE CommandEnds
    BY <1>6, LoopKeeps DEF CommandEnds, ShellInv, SuspendedWithNothingPending
<1>7. CASE Resume
    BY <1>7, LoopKeeps DEF Resume
<1>8. CASE UNCHANGED svars
    BY <1>8, LoopKeeps DEF svars, ShellInv, SuspendedWithNothingPending
<1> QED
    BY <1>1, <1>2, <1>3, <1>4, <1>5, <1>6, <1>7, <1>8, Zenon
    DEF Next, DrainAndEcho, TakeAndRun, Draw, EndAndPrompt, vars

\* ShellInv holds throughout.
LEMMA SpecShellInv == Spec => []ShellInv
BY InitShellInv, NextShellInv, PTL DEF Spec

\* The lines that shell_task takes as commands are the ones typed, for any keys.
THEOREM ShellRunsWhatIsTyped == Spec => []LineFidelity
<1>1. ShellInv => LineFidelity
    BY DEF ShellInv
<1> QED
    BY SpecShellInv, <1>1, PTL

\* A suspended shell_task never has COMMAND_PENDING set.
THEOREM ShellSuspendsWithNothingPending == Spec => []SuspendedWithNothingPending
<1>1. ShellInv => SuspendedWithNothingPending
    BY DEF ShellInv
<1> QED
    BY SpecShellInv, <1>1, PTL

-----------------------------------------------------------------------------
\* The screen shows what was printed.

\* What write_string puts on the screen.
Glyphs == Printable \cup {Blank, Block}

\* The row of the grid that shows rows' part of it.
RowOf(rows, r) ==
    LET n == Len(rows) - (Height - 1 - r) IN IF n >= 1 THEN Padded(rows[n]) ELSE BlankRow

\* A grid and a column that show the last of these rows.
Match(grid, col, rows) ==
    /\ rows \in Seq(Seq(Glyphs)) /\ Len(rows) >= 1
    /\ col = Len(rows[Len(rows)]) /\ col <= Width
    /\ grid = [r \in Rows |-> RowOf(rows, r)]

\* new_line's grid.
Up(grid) == [r \in Rows |-> IF r < Height - 1 THEN grid[r + 1] ELSE BlankRow]

\* An empty row is shown blank.
LEMMA PaddedEmpty == Padded(<<>>) = BlankRow
  BY ScreenConstants DEF Padded, BlankRow, Cols

\* new_line starts a row.
LEMMA MatchBreak ==
    ASSUME NEW grid, NEW col, NEW rows, Match(grid, col, rows)
    PROVE  Match(Up(grid), 0, Append(rows, <<>>))
  <1>1. rows \in Seq(Seq(Glyphs)) /\ Len(rows) \in Nat \ {0} /\ Width \in Nat \ {0}
        /\ Height \in Nat \ {0, 1} /\ grid = [r \in Rows |-> RowOf(rows, r)]
    BY ScreenConstants DEF Match
  <1> DEFINE more == Append(rows, <<>>)
  <1>2. /\ more \in Seq(Seq(Glyphs)) /\ Len(more) = Len(rows) + 1 /\ more[Len(more)] = <<>>
        /\ \A i \in 1 .. Len(rows) : more[i] = rows[i]
    BY <1>1
  <1> HIDE DEF more
  <1>3. ASSUME NEW r \in Rows PROVE Up(grid)[r] = RowOf(more, r)
    <2>1. CASE r < Height - 1
      <3>1. r + 1 \in Rows /\ Up(grid)[r] = RowOf(rows, r + 1)
        BY <1>1, <2>1 DEF Rows, Up
      <3> DEFINE n == Len(rows) - (Height - 1 - (r + 1))
      <3>2. n = Len(more) - (Height - 1 - r) /\ n \in Int /\ n <= Len(rows)
        BY <1>1, <1>2, <2>1 DEF Rows
      <3>3. RowOf(rows, r + 1) = IF n >= 1 THEN Padded(rows[n]) ELSE BlankRow
        BY Zenon DEF RowOf
      <3>4. RowOf(more, r) = IF n >= 1 THEN Padded(more[n]) ELSE BlankRow
        BY <3>2, Zenon DEF RowOf
      <3> HIDE DEF n
      <3>5. n >= 1 => more[n] = rows[n]
        <4>1. Len(rows) \in Nat /\ n \in Int /\ n <= Len(rows)
          BY <1>1, <3>2
        <4>2. n >= 1 => n \in 1 .. Len(rows)
          BY <4>1
        <4> QED
          BY <1>2, <4>2, Zenon
      <3> QED
        BY <3>1, <3>3, <3>4, <3>5, Zenon
    <2>2. CASE ~(r < Height - 1)
      <3>1. r = Height - 1 /\ Up(grid)[r] = BlankRow
        BY <1>1, <2>2 DEF Rows, Up
      <3>2. Len(more) - (Height - 1 - r) = Len(more) /\ Len(more) >= 1
        BY <1>1, <1>2, <3>1
      <3>3. RowOf(more, r) = Padded(<<>>)
        BY <1>2, <3>2, Zenon DEF RowOf
      <3> QED
        BY <3>1, <3>3, PaddedEmpty, Zenon
    <2> QED
      BY <2>1, <2>2, Zenon
  <1>4. Up(grid) = [r \in Rows |-> RowOf(more, r)]
    <2>1. Up(grid) = [r \in Rows |-> Up(grid)[r]]
      BY Zenon DEF Up
    <2> QED
      BY <1>3, <2>1, Zenon
  <1>5. Len(<<>>) = 0 /\ 0 <= Width
    BY <1>1
  <1>6. Match(Up(grid), 0, more)
    BY <1>1, <1>2, <1>4, <1>5 DEF Match
  <1> QED
    BY <1>6, Zenon DEF more

\* A row that scrolls out of the grid is not missed.
LEMMA MatchTail ==
    ASSUME NEW grid, NEW col, NEW rows, Match(grid, col, rows), Len(rows) > Height
    PROVE  Match(grid, col, Tail(rows))
  <1>1. rows \in Seq(Seq(Glyphs)) /\ Len(rows) \in Nat /\ Height \in Nat \ {0, 1}
    BY ScreenConstants DEF Match
  <1>0. grid = [r \in Rows |-> RowOf(rows, r)]
    BY Zenon DEF Match
  <1> DEFINE less == Tail(rows)
  <1>2. /\ less \in Seq(Seq(Glyphs)) /\ Len(less) = Len(rows) - 1 /\ Len(less) >= 1
        /\ \A i \in 2 .. Len(rows) : less[i - 1] = rows[i]
    BY <1>1
  <1> HIDE DEF less
  <1>3. less[Len(less)] = rows[Len(rows)]
    <2>1. Len(rows) \in 2 .. Len(rows) /\ Len(less) = Len(rows) - 1
      BY <1>1, <1>2
    <2> QED
      BY <1>2, <2>1, Zenon
  <1>4. ASSUME NEW r \in Rows PROVE RowOf(rows, r) = RowOf(less, r)
    <2> DEFINE n == Len(rows) - (Height - 1 - r)
    <2>1. n \in 2 .. Len(rows) /\ Len(less) - (Height - 1 - r) = n - 1
      <3>1. r \in Int /\ 0 <= r /\ r <= Height - 1
        BY <1>1 DEF Rows
      <3>2. Len(less) = Len(rows) - 1 /\ Len(rows) > Height
        BY <1>2
      <3> QED
        BY <1>1, <3>1, <3>2
    <2>2. RowOf(rows, r) = IF n >= 1 THEN Padded(rows[n]) ELSE BlankRow
      BY Zenon DEF RowOf
    <2>3. RowOf(less, r) = IF n - 1 >= 1 THEN Padded(less[n - 1]) ELSE BlankRow
      BY <2>1, Zenon DEF RowOf
    <2> HIDE DEF n
    <2>4. n >= 1 /\ n - 1 >= 1 /\ less[n - 1] = rows[n]
      BY <1>2, <2>1
    <2> QED
      BY <2>2, <2>3, <2>4, Zenon
  <1>5. grid = [r \in Rows |-> RowOf(less, r)]
    BY <1>0, <1>4, Zenon
  <1>6. Match(grid, col, less)
    BY <1>2, <1>3, <1>5, Zenon DEF Match
  <1> QED
    BY <1>6, Zenon DEF less

\* Sequences with the same elements are the same.
LEMMA SameElements ==
    ASSUME NEW S, NEW s \in Seq(S), NEW t \in Seq(S), Len(s) = Len(t),
           \A i \in 1 .. Len(s) : s[i] = t[i]
    PROVE  s = t
  OBVIOUS

\* Vec::pop keeps the elements before the last.
LEMMA FrontLaws ==
    ASSUME NEW S, NEW s \in Seq(S), Len(s) >= 1
    PROVE  /\ Front(s) \in Seq(S) /\ Len(Front(s)) = Len(s) - 1
           /\ \A i \in 1 .. Len(s) - 1 : Front(s)[i] = s[i]
  <1> DEFINE n == Len(s) - 1
  <1>1. n \in 0 .. Len(s) /\ Front(s) = SubSeq(s, 1, n)
    BY DEF Front
  <1> HIDE DEF n
  <1>2. /\ SubSeq(s, 1, n) \in Seq(S) /\ Len(SubSeq(s, 1, n)) = n
        /\ \A i \in 1 .. n : SubSeq(s, 1, n)[i] = s[i]
    BY <1>1
  <1> QED
    BY <1>1, <1>2, Zenon DEF n

\* The last row is written anew.
LEMMA MatchReplace ==
    ASSUME NEW grid, NEW col, NEW rows, Match(grid, col, rows),
           NEW row \in Seq(Glyphs), Len(row) <= Width
    PROVE  Match([grid EXCEPT ![Height - 1] = Padded(row)], Len(row),
                 Append(Front(rows), row))
  <1>1. rows \in Seq(Seq(Glyphs)) /\ Len(rows) \in Nat \ {0} /\ Height \in Nat \ {0, 1}
    BY ScreenConstants DEF Match
  <1>0. grid = [r \in Rows |-> RowOf(rows, r)]
    BY Zenon DEF Match
  <1> DEFINE new == Append(Front(rows), row)
             after == [grid EXCEPT ![Height - 1] = Padded(row)]
  <1>2. /\ new \in Seq(Seq(Glyphs)) /\ Len(new) = Len(rows) /\ new[Len(rows)] = row
        /\ \A i \in 1 .. Len(rows) - 1 : new[i] = rows[i]
    <2> DEFINE f == Front(rows)
    <2>1. f \in Seq(Seq(Glyphs)) /\ Len(f) = Len(rows) - 1
          /\ \A i \in 1 .. Len(rows) - 1 : f[i] = rows[i]
      BY <1>1, FrontLaws
    <2> HIDE DEF f
    <2>2. /\ Append(f, row) \in Seq(Seq(Glyphs)) /\ Len(Append(f, row)) = Len(f) + 1
          /\ Append(f, row)[Len(f) + 1] = row
          /\ \A i \in 1 .. Len(f) : Append(f, row)[i] = f[i]
      BY <2>1
    <2>3. Len(f) + 1 = Len(rows)
      BY <1>1, <2>1
    <2> QED
      BY <2>1, <2>2, <2>3, Zenon DEF f
  <1> HIDE DEF new
  <1>3. ASSUME NEW r \in Rows PROVE after[r] = RowOf(new, r)
    <2> DEFINE n == Len(rows) - (Height - 1 - r)
    <2>1. n \in Int /\ n <= Len(rows) /\ (n = Len(rows) <=> r = Height - 1)
      <3>1. r \in Int /\ 0 <= r /\ r <= Height - 1
        BY <1>1 DEF Rows
      <3>2. CASE r = Height - 1
        BY <1>1, <3>2
      <3>3. CASE r < Height - 1
        BY <1>1, <3>1, <3>3
      <3> QED
        BY <1>1, <3>1, <3>2, <3>3
    <2>2. RowOf(rows, r) = IF n >= 1 THEN Padded(rows[n]) ELSE BlankRow
      BY Zenon DEF RowOf
    <2>3. RowOf(new, r) = IF n >= 1 THEN Padded(new[n]) ELSE BlankRow
      BY <1>2, Zenon DEF RowOf
    <2>4. after[r] = IF r = Height - 1 THEN Padded(row) ELSE RowOf(rows, r)
      BY <1>0, Zenon
    <2> HIDE DEF n, after
    <2>5. n >= 1 => new[n] = IF n = Len(rows) THEN row ELSE rows[n]
      <3>1. n >= 1 /\ n # Len(rows) => n \in 1 .. Len(rows) - 1
        BY <1>1, <2>1
      <3> QED
        BY <1>2, <3>1, Zenon
    <2>6. n = Len(rows) => n >= 1
      BY <1>1
    <2> QED
      BY <2>1, <2>2, <2>3, <2>4, <2>5, <2>6, Zenon
  <1>4. after = [r \in Rows |-> RowOf(new, r)]
    <2>1. after = [r \in Rows |-> after[r]]
      BY <1>0, Zenon
    <2> HIDE DEF after
    <2> QED
      BY <1>3, <2>1, Zenon
  <1> HIDE DEF after
  <1>5. Match(after, Len(row), new)
    BY <1>1, <1>2, <1>4 DEF Match
  <1> QED
    BY <1>5, Zenon DEF new, after

\* The last row of the grid shows the last of the rows.
LEMMA MatchLast ==
    ASSUME NEW grid, NEW col, NEW rows, Match(grid, col, rows)
    PROVE  /\ grid[Height - 1] = Padded(Last(rows)) /\ Last(rows) \in Seq(Glyphs)
           /\ col = Len(Last(rows)) /\ col \in 0 .. Width
  <1>1. rows \in Seq(Seq(Glyphs)) /\ Len(rows) \in Nat \ {0} /\ Height \in Nat \ {0, 1}
        /\ Width \in Nat
    BY ScreenConstants DEF Match
  <1>2. grid = [r \in Rows |-> RowOf(rows, r)] /\ col = Len(rows[Len(rows)]) /\ col <= Width
    BY Zenon DEF Match
  <1>3. Height - 1 \in Rows /\ Len(rows) - (Height - 1 - (Height - 1)) = Len(rows)
        /\ Len(rows) >= 1
    BY <1>1 DEF Rows
  <1>4. RowOf(rows, Height - 1) = Padded(rows[Len(rows)])
    BY <1>3, Zenon DEF RowOf
  <1>5. rows[Len(rows)] \in Seq(Glyphs)
    BY <1>1
  <1>6. Len(rows[Len(rows)]) \in Nat
    BY <1>5
  <1> QED
    BY <1>1, <1>2, <1>3, <1>4, <1>5, <1>6 DEF Last

\* A character at the end of a row.
LEMMA PaddedPut ==
    ASSUME NEW row \in Seq(Glyphs), NEW g, Len(row) < Width
    PROVE  [Padded(row) EXCEPT ![Len(row)] = g] = Padded(Append(row, g))
  <1>1. Len(row) \in Nat /\ Width \in Nat
    BY ScreenConstants
  <1>2. Len(Append(row, g)) = Len(row) + 1 /\ Append(row, g)[Len(row) + 1] = g
        /\ \A i \in 1 .. Len(row) : Append(row, g)[i] = row[i]
    BY <1>1
  <1> DEFINE longer == Append(row, g)
  <1> HIDE DEF longer
  <1>3. ASSUME NEW c \in Cols
        PROVE  (IF c = Len(row) THEN g ELSE IF c < Len(row) THEN row[c + 1] ELSE Blank)
               = IF c < Len(longer) THEN longer[c + 1] ELSE Blank
    <2>1. c \in Nat
      BY <1>1 DEF Cols
    <2>2. Len(longer) = Len(row) + 1 /\ longer[Len(row) + 1] = g
          /\ \A i \in 1 .. Len(row) : longer[i] = row[i]
      BY <1>2, Zenon DEF longer
    <2>3. CASE c < Len(row)
      <3>1. c + 1 \in 1 .. Len(row) /\ c # Len(row) /\ c < Len(longer)
        BY <1>1, <2>1, <2>2, <2>3
      <3> QED
        BY <2>2, <2>3, <3>1, Zenon
    <2>4. CASE c = Len(row)
      <3>1. c < Len(longer)
        BY <1>1, <2>2, <2>4
      <3> QED
        BY <2>2, <2>4, <3>1, Zenon
    <2>5. CASE c > Len(row)
      <3>1. ~(c < Len(longer)) /\ c # Len(row) /\ ~(c < Len(row))
        BY <1>1, <2>1, <2>2, <2>5
      <3> QED
        BY <3>1, Zenon
    <2> QED
      BY <1>1, <2>1, <2>3, <2>4, <2>5
  <1>4. [Padded(row) EXCEPT ![Len(row)] = g] =
        [c \in Cols |-> IF c = Len(row) THEN g ELSE Padded(row)[c]]
    BY Zenon DEF Padded
  <1>5. \A c \in Cols : Padded(row)[c] = IF c < Len(row) THEN row[c + 1] ELSE Blank
    BY Zenon DEF Padded
  <1>6. Padded(longer) = [c \in Cols |-> IF c < Len(longer) THEN longer[c + 1] ELSE Blank]
    BY Zenon DEF Padded
  <1>7. [c \in Cols |-> IF c = Len(row) THEN g ELSE Padded(row)[c]] = Padded(longer)
    BY <1>3, <1>5, <1>6, Zenon
  <1> QED
    BY <1>4, <1>7, Zenon DEF longer

\* The last character of a row goes.
LEMMA PaddedErase ==
    ASSUME NEW row \in Seq(Glyphs), Len(row) >= 1
    PROVE  [Padded(row) EXCEPT ![Len(row) - 1] = Blank] = Padded(Front(row))
  <1>1. Len(row) \in Nat /\ Width \in Nat
    BY ScreenConstants
  <1>2. Len(Front(row)) = Len(row) - 1
        /\ \A i \in 1 .. Len(row) - 1 : Front(row)[i] = row[i]
    BY FrontLaws, Zenon
  <1>3. ASSUME NEW c \in Cols
        PROVE  (IF c = Len(row) - 1 THEN Blank ELSE IF c < Len(row) THEN row[c + 1] ELSE Blank)
               = IF c < Len(Front(row)) THEN Front(row)[c + 1] ELSE Blank
    <2>1. c \in Nat
      BY <1>1 DEF Cols
    <2>3. CASE c < Len(row) - 1
      <3>1. c + 1 \in 1 .. Len(row) - 1 /\ c # Len(row) - 1 /\ c < Len(Front(row)) /\ c < Len(row)
        BY <1>1, <1>2, <2>1, <2>3
      <3> QED
        BY <1>2, <3>1, Zenon
    <2>4. CASE c >= Len(row) - 1
      <3>1. ~(c < Len(Front(row))) /\ (c # Len(row) - 1 => ~(c < Len(row)))
        BY <1>1, <1>2, <2>1, <2>4
      <3> QED
        BY <3>1, Zenon
    <2> QED
      BY <1>1, <2>1, <2>3, <2>4
  <1>4. [Padded(row) EXCEPT ![Len(row) - 1] = Blank] =
        [c \in Cols |-> IF c = Len(row) - 1 THEN Blank ELSE Padded(row)[c]]
    BY Zenon DEF Padded
  <1>5. \A c \in Cols : Padded(row)[c] = IF c < Len(row) THEN row[c + 1] ELSE Blank
    BY Zenon DEF Padded
  <1>6. Padded(Front(row)) =
        [c \in Cols |-> IF c < Len(Front(row)) THEN Front(row)[c + 1] ELSE Blank]
    BY Zenon DEF Padded
  <1>7. [c \in Cols |-> IF c = Len(row) - 1 THEN Blank ELSE Padded(row)[c]] = Padded(Front(row))
    BY <1>3, <1>5, <1>6, Zenon
  <1> QED
    BY <1>4, <1>7, Zenon

\* A character is put at the end of the last row.
LEMMA MatchPut ==
    ASSUME NEW grid, NEW col, NEW rows, Match(grid, col, rows), NEW g \in Glyphs, col < Width
    PROVE  Match([grid EXCEPT ![Height - 1][col] = g], col + 1,
                 Append(Front(rows), Append(Last(rows), g)))
  <1> DEFINE row == Append(Last(rows), g)
  <1>1. /\ grid[Height - 1] = Padded(Last(rows)) /\ Last(rows) \in Seq(Glyphs)
        /\ col = Len(Last(rows)) /\ col \in 0 .. Width
    BY MatchLast, Zenon
  <1>2. row \in Seq(Glyphs) /\ Len(row) = col + 1 /\ Width \in Nat
    BY <1>1, ScreenConstants
  <1>3. Len(row) <= Width
    BY <1>1, <1>2
  <1>4. [grid[Height - 1] EXCEPT ![col] = g] = Padded(row)
    BY <1>1, PaddedPut, Zenon
  <1> HIDE DEF row
  <1>5. [grid EXCEPT ![Height - 1][col] = g] = [grid EXCEPT ![Height - 1] = Padded(row)]
    BY <1>4, Zenon
  <1>6. Match([grid EXCEPT ![Height - 1] = Padded(row)], Len(row), Append(Front(rows), row))
    BY <1>2, <1>3, MatchReplace, Zenon
  <1> QED
    BY <1>2, <1>5, <1>6, Zenon DEF row

\* The last character is erased.
LEMMA MatchErase ==
    ASSUME NEW grid, NEW col, NEW rows, Match(grid, col, rows), col # 0
    PROVE  Match([grid EXCEPT ![Height - 1][col - 1] = Blank], col - 1,
                 Append(Front(rows), Front(Last(rows))))
  <1> DEFINE row == Front(Last(rows))
  <1>1. /\ grid[Height - 1] = Padded(Last(rows)) /\ Last(rows) \in Seq(Glyphs)
        /\ col = Len(Last(rows)) /\ col \in 0 .. Width
    BY MatchLast, Zenon
  <1>2. Len(Last(rows)) >= 1 /\ Width \in Nat
    BY <1>1, ScreenConstants
  <1>3. row \in Seq(Glyphs) /\ Len(row) = col - 1
    BY <1>1, <1>2, FrontLaws, Zenon
  <1>4. [grid[Height - 1] EXCEPT ![col - 1] = Blank] = Padded(row)
    BY <1>1, <1>2, PaddedErase, Zenon
  <1> HIDE DEF row
  <1>7. Len(row) <= Width
    BY <1>1, <1>2, <1>3
  <1>5. [grid EXCEPT ![Height - 1][col - 1] = Blank] = [grid EXCEPT ![Height - 1] = Padded(row)]
    BY <1>4, Zenon
  <1>6. Match([grid EXCEPT ![Height - 1] = Padded(row)], Len(row), Append(Front(rows), row))
    BY <1>3, <1>7, MatchReplace, Zenon
  <1> QED
    BY <1>3, <1>5, <1>6, Zenon DEF row

\* The rows above the last are blanked and forgotten.
LEMMA MatchClear ==
    ASSUME NEW grid, NEW col, NEW rows, Match(grid, col, rows)
    PROVE  Match([r \in Rows |-> IF r < Height - 1 THEN BlankRow ELSE grid[r]], col, <<Last(rows)>>)
  <1> DEFINE after == [r \in Rows |-> IF r < Height - 1 THEN BlankRow ELSE grid[r]]
             row == Last(rows)
  <1>1. /\ grid[Height - 1] = Padded(row) /\ row \in Seq(Glyphs)
        /\ col = Len(row) /\ col \in 0 .. Width
    BY MatchLast, Zenon
  <1> HIDE DEF row
  <1>2. <<row>> \in Seq(Seq(Glyphs)) /\ Len(<<row>>) = 1 /\ <<row>>[1] = row
    BY <1>1
  <1>3. Height \in Nat \ {0, 1} /\ Width \in Nat
    BY ScreenConstants
  <1>4. ASSUME NEW r \in Rows PROVE after[r] = RowOf(<<row>>, r)
    <2>1. CASE r < Height - 1
      <3>1. ~(1 - (Height - 1 - r) >= 1)
        <4>1. r \in Int
          BY <1>3, SMTT(30) DEF Rows
        <4> QED
          BY <1>3, <2>1, <4>1
      <3>2. RowOf(<<row>>, r) = BlankRow
        BY <1>2, <3>1, Zenon DEF RowOf
      <3> QED
        BY <2>1, <3>2, Zenon
    <2>2. CASE ~(r < Height - 1)
      <3>1. r = Height - 1 /\ 1 - (Height - 1 - r) = 1 /\ 1 >= 1
        BY <1>3, <2>2 DEF Rows
      <3>2. RowOf(<<row>>, r) = Padded(row)
        BY <1>2, <3>1, Zenon DEF RowOf
      <3> QED
        BY <1>1, <2>2, <3>1, <3>2, Zenon
    <2> QED
      BY <2>1, <2>2, Zenon
  <1>5. after = [r \in Rows |-> RowOf(<<row>>, r)]
    <2>1. after = [r \in Rows |-> after[r]]
      BY Zenon
    <2> HIDE DEF after
    <2> QED
      BY <1>4, <2>1, Zenon
  <1> HIDE DEF after
  <1>6. Match(after, col, <<row>>)
    BY <1>1, <1>2, <1>3, <1>5 DEF Match
  <1> QED
    BY <1>6, Zenon DEF after, row

\* A Writer has these fields.
IsWriter(w) ==
    w = [chars |-> w.chars, column |-> w.column, log |-> w.log, plain |-> w.plain,
         smudged |-> w.smudged]

\* What the parts of write_byte do to the fields.
LEMMA WriterFields ==
    ASSUME NEW w, IsWriter(w), NEW g
    PROVE  /\ new_line(w) = [chars |-> Up(w.chars), column |-> 0, log |-> w.log,
                             plain |-> w.plain, smudged |-> FALSE]
           /\ put(w, g) = [chars |-> [w.chars EXCEPT ![Height - 1][w.column] = g],
                           column |-> w.column + 1, log |-> w.log, plain |-> w.plain,
                           smudged |-> w.smudged]
  <1> DEFINE a == w.chars
             b == w.column
             c == w.log
             d == w.plain
             e == w.smudged
  <1>1. w = [chars |-> a, column |-> b, log |-> c, plain |-> d, smudged |-> e]
    BY Zenon DEF IsWriter
  <1> DEFINE up == Up(a)
             x == [a EXCEPT ![Height - 1][b] = g]
             n == b + 1
  <1>2. new_line(w) = [w EXCEPT !.chars = up, !.column = 0, !.smudged = FALSE]
    BY Zenon DEF new_line, Up
  <1>3. put(w, g) = [w EXCEPT !.chars = x, !.column = n]
    BY Zenon DEF put
  <1> HIDE DEF a, b, c, d, e, up, x, n
  <1>4. [w EXCEPT !.chars = up, !.column = 0, !.smudged = FALSE] =
        [chars |-> up, column |-> 0, log |-> c, plain |-> d, smudged |-> FALSE]
    <2> DEFINE v1 == [w EXCEPT !.chars = up]
               v2 == [v1 EXCEPT !.column = 0]
    <2>1. v1 = [chars |-> up, column |-> b, log |-> c, plain |-> d, smudged |-> e]
      BY <1>1, SMTT(30)
    <2> HIDE DEF v1
    <2>2. v2 = [chars |-> up, column |-> 0, log |-> c, plain |-> d, smudged |-> e]
      BY <2>1
    <2> DEFINE no == FALSE
    <2> HIDE DEF v2, no
    <2>3. [v2 EXCEPT !.smudged = no] =
          [chars |-> up, column |-> 0, log |-> c, plain |-> d, smudged |-> no]
      BY <2>2
    <2> QED
      BY <2>3, Zenon DEF v1, v2, no
  <1>5. [w EXCEPT !.chars = x, !.column = n] =
        [chars |-> x, column |-> n, log |-> c, plain |-> d, smudged |-> e]
    <2> DEFINE v1 == [w EXCEPT !.chars = x]
    <2>1. v1 = [chars |-> x, column |-> b, log |-> c, plain |-> d, smudged |-> e]
      BY <1>1
    <2> HIDE DEF v1
    <2>2. [v1 EXCEPT !.column = n] =
          [chars |-> x, column |-> n, log |-> c, plain |-> d, smudged |-> e]
      BY <2>1
    <2> QED
      BY <2>2, Zenon DEF v1
  <1> QED
    BY <1>2, <1>3, <1>4, <1>5, Zenon DEF a, b, c, d, e, up, x, n

\* A byte breaks the row, or breaks it and starts the next one, or joins it.
LEMMA TypedFields ==
    ASSUME NEW w, IsWriter(w), NEW byte
    PROVE  LET g == Glyph(byte)
               up == Up(w.chars)
               l == Logged(w.log, byte)
           IN  /\ g = NL => Typed(w, byte) =
                      [chars |-> up, column |-> 0, log |-> l, plain |-> w.plain,
                       smudged |-> FALSE]
               /\ g # NL /\ w.column >= Width => Typed(w, byte) =
                      [chars |-> [up EXCEPT ![Height - 1][0] = g], column |-> 0 + 1, log |-> l,
                       plain |-> w.plain, smudged |-> FALSE]
               /\ g # NL /\ ~(w.column >= Width) => Typed(w, byte) =
                      [chars |-> [w.chars EXCEPT ![Height - 1][w.column] = g],
                       column |-> w.column + 1, log |-> l, plain |-> w.plain,
                       smudged |-> w.smudged]
  <1> DEFINE g == Glyph(byte)
             up == Up(w.chars)
             l == Logged(w.log, byte)
             n == new_line(w)
  <1>1. n = [chars |-> up, column |-> 0, log |-> w.log, plain |-> w.plain, smudged |-> FALSE]
    BY WriterFields, Zenon
  <1>2. put(w, g) = [chars |-> [w.chars EXCEPT ![Height - 1][w.column] = g],
                     column |-> w.column + 1, log |-> w.log, plain |-> w.plain,
                     smudged |-> w.smudged]
    BY WriterFields, Zenon
  <1>3. put(n, g) = [chars |-> [up EXCEPT ![Height - 1][0] = g], column |-> 0 + 1,
                     log |-> w.log, plain |-> w.plain, smudged |-> FALSE]
    <2> HIDE DEF n, g, up
    <2>1. n.chars = up /\ n.column = 0 /\ n.log = w.log /\ n.plain = w.plain /\ n.smudged = FALSE
      BY <1>1, Zenon
    <2>2. IsWriter(n)
      BY <1>1, <2>1, Zenon DEF IsWriter
    <2>3. put(n, g) = [chars |-> [n.chars EXCEPT ![Height - 1][n.column] = g],
                       column |-> n.column + 1, log |-> n.log, plain |-> n.plain,
                       smudged |-> n.smudged]
      BY <2>2, WriterFields, Zenon
    <2> QED
      BY <2>1, <2>3, Zenon
  <1>4. ASSUME NEW ch, NEW co, NEW sm,
               write_byte(w, g) = [chars |-> ch, column |-> co, log |-> w.log,
                                   plain |-> w.plain, smudged |-> sm]
        PROVE  Typed(w, byte) = [chars |-> ch, column |-> co, log |-> l, plain |-> w.plain,
                                 smudged |-> sm]
    <2> DEFINE v == write_byte(w, g)
    <2>1. Typed(w, byte) = [v EXCEPT !.log = Logged(@, byte)]
      BY Zenon DEF Typed
    <2> DEFINE d == w.log
               p == w.plain
    <2>2. v = [chars |-> ch, column |-> co, log |-> d, plain |-> p, smudged |-> sm]
      BY <1>4, Zenon
    <2> HIDE DEF v, d, p
    <2>3. [v EXCEPT !.log = Logged(@, byte)] =
          [chars |-> ch, column |-> co, log |-> Logged(d, byte), plain |-> p, smudged |-> sm]
      BY <2>2
    <2> QED
      BY <2>1, <2>3, Zenon DEF d, p
  <1>5. g = NL => write_byte(w, g) = n
    BY Zenon DEF write_byte
  <1>6. g # NL /\ w.column >= Width => write_byte(w, g) = put(n, g)
    BY Zenon DEF write_byte
  <1>7. g # NL /\ ~(w.column >= Width) => write_byte(w, g) = put(w, g)
    BY Zenon DEF write_byte
  <1> HIDE DEF n, g, up, l
  <1>8. g = NL => Typed(w, byte) = [chars |-> up, column |-> 0, log |-> l, plain |-> w.plain,
                                    smudged |-> FALSE]
    BY <1>1, <1>4, <1>5, Zenon
  <1>9. g # NL /\ w.column >= Width => Typed(w, byte) =
          [chars |-> [up EXCEPT ![Height - 1][0] = g], column |-> 0 + 1, log |-> l,
           plain |-> w.plain, smudged |-> FALSE]
    BY <1>3, <1>4, <1>6, Zenon
  <1>10. g # NL /\ ~(w.column >= Width) => Typed(w, byte) =
           [chars |-> [w.chars EXCEPT ![Height - 1][w.column] = g],
            column |-> w.column + 1, log |-> l, plain |-> w.plain, smudged |-> w.smudged]
    BY <1>2, <1>4, <1>7, Zenon
  <1> QED
    BY <1>8, <1>9, <1>10, Zenon DEF g, up, l

\* A Writer that shows the rows it has printed, as many as the grid has.
GridOK(w) == IsWriter(w) /\ Match(w.chars, w.column, w.log) /\ Len(w.log) <= Height

\* What print! is given.
Byte == Printable \cup Control \cup {Blank, NL}

\* Only the newline breaks a row, and everything else has a glyph.
LEMMA GlyphKinds ==
    ASSUME NEW byte \in Byte
    PROVE  (Glyph(byte) = NL <=> byte = NL) /\ (byte # NL => Glyph(byte) \in Glyphs)
  <1>1. NL \notin Control /\ NL \notin Printable /\ Blank # NL /\ Block # NL
    BY ScreenConstants, Zenon DEF Blank, NL, Block
  <1> QED
    BY <1>1, Zenon DEF Byte, Glyph, Glyphs

\* As many rows are kept as the grid has.
LEMMA MatchKept ==
    ASSUME NEW grid, NEW col, NEW rows, Match(grid, col, rows), Len(rows) <= Height + 1
    PROVE  LET kept == IF Len(rows) > Height THEN Tail(rows) ELSE rows
           IN  Match(grid, col, kept) /\ Len(kept) <= Height
  <1>1. Len(rows) \in Nat /\ Height \in Nat \ {0, 1} /\ rows \in Seq(Seq(Glyphs))
    BY ScreenConstants DEF Match
  <1>2. CASE Len(rows) > Height
    <2>1. Len(Tail(rows)) = Len(rows) - 1
      BY <1>1, <1>2
    <2>2. Len(Tail(rows)) <= Height
      BY <1>1, <2>1
    <2> QED
      BY <1>2, <2>2, MatchTail, Zenon
  <1>3. CASE ~(Len(rows) > Height)
    <2>1. Len(rows) <= Height
      BY <1>1, <1>3, SMTT(30)
    <2> QED
      BY <1>3, <2>1, Zenon
  <1> QED
    BY <1>2, <1>3, Zenon

\* The row that new_line starts is taken back.
LEMMA LastAppended ==
    ASSUME NEW S, NEW s \in Seq(S), NEW x \in S
    PROVE  Last(Append(s, x)) = x /\ Front(Append(s, x)) = s /\ Len(Append(s, x)) = Len(s) + 1
  <1> DEFINE t == Append(s, x)
  <1>1. t \in Seq(S) /\ Len(t) = Len(s) + 1 /\ t[Len(s) + 1] = x /\ Len(s) \in Nat
        /\ \A i \in 1 .. Len(s) : t[i] = s[i]
    OBVIOUS
  <1> HIDE DEF t
  <1>2. Last(t) = x
    BY <1>1, Zenon DEF Last
  <1>3. Len(t) >= 1 /\ Len(t) - 1 = Len(s)
    BY <1>1
  <1>4. Front(t) \in Seq(S) /\ Len(Front(t)) = Len(s)
        /\ \A i \in 1 .. Len(s) : Front(t)[i] = t[i]
    BY <1>1, <1>3, FrontLaws, Zenon
  <1>5. \A i \in 1 .. Len(s) : Front(t)[i] = s[i]
    BY <1>1, <1>4, Zenon
  <1>6. Front(t) = s
    BY <1>4, <1>5, SameElements, SMTT(30)
  <1> QED
    BY <1>1, <1>2, <1>6, Zenon DEF t

\* One turn of write_string's loop.
LEMMA TypedGrid ==
    ASSUME NEW w, GridOK(w), NEW byte \in Byte
    PROVE  GridOK(Typed(w, byte)) /\ Typed(w, byte).plain = w.plain
  <1> DEFINE g == Glyph(byte)
             up == Up(w.chars)
             l == Logged(w.log, byte)
             c == w.column
             rows == w.log
  <1>0. IsWriter(w) /\ Match(w.chars, c, rows) /\ Len(rows) <= Height
    BY Zenon DEF GridOK
  <1>1. /\ (g = NL <=> byte = NL) /\ (byte # NL => g \in Glyphs)
    BY GlyphKinds, Zenon
  <1>2. Last(rows) \in Seq(Glyphs) /\ c = Len(Last(rows)) /\ c \in 0 .. Width
    BY <1>0, MatchLast, Zenon
  <1>3. rows \in Seq(Seq(Glyphs)) /\ Len(rows) \in Nat \ {0} /\ Width \in Nat \ {0}
        /\ Height \in Nat \ {0, 1}
    BY <1>0, ScreenConstants DEF Match
  <1>4. ASSUME NEW ch, NEW co, NEW all, NEW sm, Match(ch, co, all), Len(all) <= Height + 1,
               l = IF Len(all) > Height THEN Tail(all) ELSE all,
               Typed(w, byte) = [chars |-> ch, column |-> co, log |-> l, plain |-> w.plain,
                                 smudged |-> sm]
        PROVE  GridOK(Typed(w, byte)) /\ Typed(w, byte).plain = w.plain
    <2>1. Match(ch, co, l) /\ Len(l) <= Height
      BY <1>4, MatchKept, Zenon
    <2> DEFINE v == Typed(w, byte)
               p == w.plain
    <2> HIDE DEF v, l, p
    <2>2. v = [chars |-> ch, column |-> co, log |-> l, plain |-> p, smudged |-> sm]
      BY <1>4, Zenon DEF v, p
    <2>3. v.chars = ch /\ v.column = co /\ v.log = l /\ v.plain = p /\ v.smudged = sm
      BY <2>2, Zenon
    <2>4. GridOK(v) /\ v.plain = p
      BY <2>1, <2>2, <2>3, Zenon DEF GridOK, IsWriter
    <2> QED
      BY <2>4, Zenon DEF v, p
  <1>5. <<>> \in Seq(Glyphs)
    OBVIOUS
  <1> DEFINE ended == Append(rows, <<>>)
  <1>6. Match(up, 0, ended)
    BY <1>0, MatchBreak, Zenon
  <1>7. Last(ended) = <<>> /\ Front(ended) = rows /\ Len(ended) = Len(rows) + 1
    BY <1>3, <1>5, LastAppended, Zenon
  <1>8. CASE byte = NL
    <2>1. l = IF Len(ended) > Height THEN Tail(ended) ELSE ended
      BY <1>8, Zenon DEF Logged
    <2>2. Typed(w, byte) = [chars |-> up, column |-> 0, log |-> l, plain |-> w.plain,
                            smudged |-> FALSE]
      BY <1>0, <1>1, <1>8, TypedFields, Zenon
    <2>3. Len(ended) <= Height + 1
      BY <1>0, <1>3, <1>7
    <2> HIDE DEF ended, l, up
    <2> QED
      BY <1>4, <1>6, <2>1, <2>2, <2>3, Zenon
  <1>9. CASE byte # NL /\ c >= Width
    <2> DEFINE all == Append(rows, <<g>>)
               ch == [up EXCEPT ![Height - 1][0] = g]
    <2>1. Len(Last(rows)) = Width
      BY <1>2, <1>3, <1>9
    <2>2. l = IF Len(all) > Height THEN Tail(all) ELSE all
      BY <1>9, <2>1, Zenon DEF Logged
    <2>3. Typed(w, byte) = [chars |-> ch, column |-> 0 + 1, log |-> l, plain |-> w.plain,
                            smudged |-> FALSE]
      BY <1>0, <1>1, <1>9, TypedFields, Zenon
    <2>4. 0 < Width
      BY <1>3
    <2>5. Match(ch, 0 + 1, Append(Front(ended), Append(Last(ended), g)))
      BY <1>1, <1>6, <1>9, <2>4, MatchPut, Zenon
    <2>6. Append(<<>>, g) = <<g>>
      BY SMTT(30)
    <2>7. Match(ch, 0 + 1, all)
      BY <1>7, <2>5, <2>6, Zenon
    <2>8. <<g>> \in Seq(Glyphs)
      BY <1>1, <1>9
    <2>9. Len(all) = Len(rows) + 1
      BY <1>3, <2>8, LastAppended, Zenon
    <2>10. Len(all) <= Height + 1
      BY <1>0, <1>3, <2>9
    <2> HIDE DEF all, ch, l
    <2> QED
      BY <1>4, <2>2, <2>3, <2>7, <2>10, Zenon
  <1>10. CASE byte # NL /\ ~(c >= Width)
    <2> DEFINE all == Append(Front(rows), Append(Last(rows), g))
               ch == [w.chars EXCEPT ![Height - 1][c] = g]
    <2>1. Len(Last(rows)) # Width /\ c < Width
      BY <1>2, <1>3, <1>10
    <2>2. l = IF Len(all) > Height THEN Tail(all) ELSE all
      BY <1>10, <2>1, Zenon DEF Logged
    <2>3. Typed(w, byte) = [chars |-> ch, column |-> c + 1, log |-> l, plain |-> w.plain,
                            smudged |-> w.smudged]
      BY <1>0, <1>1, <1>10, TypedFields, Zenon
    <2>4. Match(ch, c + 1, all)
      BY <1>0, <1>1, <1>10, <2>1, MatchPut, Zenon
    <2>5. Front(rows) \in Seq(Seq(Glyphs)) /\ Len(Front(rows)) = Len(rows) - 1
      <3>1. Len(rows) >= 1
        BY <1>3
      <3> QED
        BY <1>3, <3>1, FrontLaws, Zenon
    <2>6. Append(Last(rows), g) \in Seq(Glyphs)
      BY <1>1, <1>2, <1>10
    <2>7. Len(all) = Len(Front(rows)) + 1
      BY <2>5, <2>6, LastAppended, Zenon
    <2>8. Len(all) <= Height + 1
      BY <1>0, <1>3, <2>5, <2>7
    <2> HIDE DEF all, ch, l
    <2> QED
      BY <1>4, <2>2, <2>3, <2>4, <2>8, Zenon
  <1> QED
    BY <1>8, <1>9, <1>10, Zenon

\* A grid has cells.
IsGrid(grid) == grid = [r \in Rows |-> [c \in Cols |-> grid[r][c]]]

\* The column is in the row or just after it, and what follows it in the last row
\* is blank unless it was drawn.
Tidy(w) ==
    /\ w.column \in 0 .. Width /\ IsGrid(w.chars)
    /\ w.plain \in BOOLEAN /\ w.smudged \in BOOLEAN
    /\ w.smudged = FALSE =>
          \A c \in Cols : c >= w.column => w.chars[Height - 1][c] = Blank

\* A Writer that shows its rows while nothing is drawn.
ScreenOK(w) == IsWriter(w) /\ Tidy(w) /\ (w.plain = TRUE => GridOK(w))

Rec(a, b, c, d, e) == [chars |-> a, column |-> b, log |-> c, plain |-> d, smudged |-> e]

\* When its fields are in order, a Writer is.
LEMMA RecordScreenOK ==
    ASSUME NEW a, NEW b, NEW c, NEW d, NEW e,
           b \in 0 .. Width, IsGrid(a), d \in BOOLEAN, e \in BOOLEAN,
           e = FALSE => \A i \in Cols : i >= b => a[Height - 1][i] = Blank,
           d = TRUE => Match(a, b, c) /\ Len(c) <= Height
    PROVE  ScreenOK(Rec(a, b, c, d, e))
  <1> DEFINE w == Rec(a, b, c, d, e)
  <1>0. w = [chars |-> a, column |-> b, log |-> c, plain |-> d, smudged |-> e]
    BY Zenon DEF Rec
  <1> HIDE DEF w
  <1>4. w.chars = a /\ w.column = b /\ w.log = c /\ w.plain = d /\ w.smudged = e
    BY <1>0, Zenon
  <1>1. IsWriter(w) /\ w.chars = a /\ w.column = b /\ w.log = c /\ w.plain = d /\ w.smudged = e
    BY <1>0, <1>4, Zenon DEF IsWriter
  <1>2. Tidy(w)
    BY <1>1, Zenon DEF Tidy
  <1>3. w.plain = TRUE => GridOK(w)
    BY <1>1, Zenon DEF GridOK
  <1> QED
    BY <1>1, <1>2, <1>3, Zenon DEF ScreenOK, w

\* new_line leaves a grid whose last row is blank.
LEMMA UpGrid ==
    ASSUME NEW grid, IsGrid(grid)
    PROVE  /\ IsGrid(Up(grid)) /\ Up(grid)[Height - 1] = BlankRow
           /\ \A c \in Cols : Up(grid)[Height - 1][c] = Blank
  <1>1. Height \in Nat \ {0, 1}
    BY ScreenConstants
  <1>2. Height - 1 \in Rows /\ ~(Height - 1 < Height - 1)
        /\ \A r \in Rows : r < Height - 1 => r + 1 \in Rows
    BY <1>1, SMTT(30) DEF Rows
  <1>3. Up(grid)[Height - 1] = BlankRow
    BY <1>2, Zenon DEF Up
  <1>4. BlankRow = [c \in Cols |-> Blank] /\ \A c \in Cols : BlankRow[c] = Blank
    BY Zenon DEF BlankRow
  <1>5. \A r \in Rows : grid[r] = [c \in Cols |-> grid[r][c]]
    BY Zenon DEF IsGrid
  <1>6. ASSUME NEW r \in Rows PROVE Up(grid)[r] = [c \in Cols |-> Up(grid)[r][c]]
    <2>1. Up(grid)[r] = IF r < Height - 1 THEN grid[r + 1] ELSE BlankRow
      BY Zenon DEF Up
    <2>2. BlankRow = [c \in Cols |-> BlankRow[c]]
      BY Zenon DEF BlankRow
    <2> QED
      BY <1>2, <1>5, <2>1, <2>2, Zenon
  <1>7. Up(grid) = [r \in Rows |-> Up(grid)[r]]
    BY Zenon DEF Up
  <1>8. IsGrid(Up(grid))
    BY <1>6, <1>7, Zenon DEF IsGrid
  <1> QED
    BY <1>3, <1>4, <1>8, Zenon

\* A cell is written.
Put(grid, y, x, byte) == [grid EXCEPT ![y][x] = byte]
HasPut(after, grid, y, x, byte) ==
    /\ IsGrid(after)
    /\ \A r \in Rows, c \in Cols :
          after[r][c] = IF r = y /\ c = x THEN byte ELSE grid[r][c]

\* Writing a cell leaves the others alone.
LEMMA PutGrid ==
    ASSUME NEW grid, IsGrid(grid), NEW y, NEW x, NEW byte
    PROVE  HasPut(Put(grid, y, x, byte), grid, y, x, byte)
  <1> DEFINE after == Put(grid, y, x, byte)
  <1>1. grid = [r \in Rows |-> grid[r]] /\ \A r \in Rows : grid[r] = [c \in Cols |-> grid[r][c]]
    BY Zenon DEF IsGrid
  <1>2. after = [r \in Rows |-> IF r = y THEN [grid[y] EXCEPT ![x] = byte] ELSE grid[r]]
    BY <1>1, Zenon DEF Put
  <1> HIDE DEF after
  <1>3. ASSUME NEW r \in Rows
        PROVE  after[r] = [c \in Cols |-> IF r = y /\ c = x THEN byte ELSE grid[r][c]]
    <2>1. CASE r = y
      <3>1. after[r] = [grid[r] EXCEPT ![x] = byte]
        BY <1>2, <2>1, Zenon
      <3>2. [grid[r] EXCEPT ![x] = byte] = [c \in Cols |-> IF c = x THEN byte ELSE grid[r][c]]
        BY <1>1, Zenon
      <3> QED
        BY <2>1, <3>1, <3>2, Zenon
    <2>2. CASE r # y
      BY <1>1, <1>2, <2>2, Zenon
    <2> QED
      BY <2>1, <2>2, Zenon
  <1>4. \A r \in Rows, c \in Cols :
           after[r][c] = IF r = y /\ c = x THEN byte ELSE grid[r][c]
    <2> SUFFICES ASSUME NEW r \in Rows, NEW c \in Cols
                 PROVE  after[r][c] = IF r = y /\ c = x THEN byte ELSE grid[r][c]
      BY Zenon
    <2>1. after[r] = [d \in Cols |-> IF r = y /\ d = x THEN byte ELSE grid[r][d]]
      BY <1>3, Zenon
    <2> QED
      BY <2>1, Zenon
  <1>5. ASSUME NEW r \in Rows PROVE after[r] = [c \in Cols |-> after[r][c]]
    BY <1>3, Zenon
  <1>6. after = [r \in Rows |-> after[r]]
    BY <1>2, Zenon
  <1>7. IsGrid(after)
    BY <1>5, <1>6, Zenon DEF IsGrid
  <1> QED
    BY <1>4, <1>7, Zenon DEF after, HasPut

\* The Writer after each of the first n bytes.
Written(w, s, n) ==
    LET written[i \in 0 .. n] == IF i = 0 THEN w ELSE Typed(written[i - 1], s[i])
    IN  written
IsWritten(f, w, s, n) == f = [i \in 0 .. n |-> IF i = 0 THEN w ELSE Typed(f[i - 1], s[i])]

\* The loop of write_string has a result after every turn.
LEMMA WrittenExists ==
    ASSUME NEW w, NEW s, NEW n \in Nat
    PROVE  \E f : IsWritten(f, w, s, n)
  <1> DEFINE T == {m \in Nat : ~\E f : f = [i \in 0 .. m |-> IF i = 0 THEN w
                                                             ELSE Typed(f[i - 1], s[i])]}
  <1>1. SUFFICES ASSUME T # {} PROVE FALSE
    BY Zenon DEF IsWritten
  <1>2. PICK m \in T : \A k \in T : m <= k
    BY <1>1, LeastNumber, Zenon
  <1>3. CASE m = 0
    <2> DEFINE f == [i \in 0 .. m |-> w]
    <2>1. f = [i \in 0 .. m |-> IF i = 0 THEN w ELSE Typed(f[i - 1], s[i])]
      BY <1>3
    <2> QED
      BY <1>2, <2>1, Zenon
  <1>4. CASE m # 0
    <2>1. m - 1 \in Nat /\ m - 1 \notin T
      <3>1. m \in Nat
        BY Zenon
      <3> HIDE DEF T
      <3> QED
        BY <1>2, <1>4, <3>1
    <2>2. PICK f : f = [i \in 0 .. m - 1 |-> IF i = 0 THEN w ELSE Typed(f[i - 1], s[i])]
      BY <2>1, Zenon
    <2> DEFINE h == [i \in 0 .. m |-> IF i < m THEN f[i] ELSE Typed(f[i - 1], s[i])]
    <2>3. ASSUME NEW i \in 0 .. m PROVE h[i] = IF i = 0 THEN w ELSE Typed(h[i - 1], s[i])
      <3>1. i # 0 => i - 1 \in 0 .. m - 1 /\ h[i - 1] = f[i - 1]
        BY SMTT(30)
      <3>2. CASE i = m
        BY <1>4, <3>1, <3>2
      <3>3. CASE i # m
        <4>1. i \in 0 .. m - 1 /\ h[i] = f[i]
          BY <3>3
        <4>2. f[i] = IF i = 0 THEN w ELSE Typed(f[i - 1], s[i])
          BY <2>2, <4>1, Zenon
        <4> HIDE DEF h
        <4> QED
          BY <3>1, <4>1, <4>2, Zenon
      <3> QED
        BY <3>2, <3>3, Zenon
    <2>4. h = [i \in 0 .. m |-> IF i = 0 THEN w ELSE Typed(h[i - 1], s[i])]
      <3>1. h = [i \in 0 .. m |-> h[i]]
        BY Zenon
      <3> HIDE DEF h
      <3> QED
        BY <2>3, <3>1, Zenon
    <2> HIDE DEF h
    <2> QED
      BY <1>2, <2>4, Zenon
  <1> QED
    BY <1>3, <1>4, Zenon

\* What each turn of the loop does.
LEMMA WrittenTurns ==
    ASSUME NEW w, NEW s, NEW n \in Nat
    PROVE  /\ Written(w, s, n)[0] = w
           /\ \A i \in 1 .. n : Written(w, s, n)[i] = Typed(Written(w, s, n)[i - 1], s[i])
  <1> DEFINE Step(f) == [i \in 0 .. n |-> IF i = 0 THEN w ELSE Typed(f[i - 1], s[i])]
             v == CHOOSE f : f = Step(f)
  <1>1. Written(w, s, n) = v
    BY Zenon DEF Written
  <1>0. \E f : IsWritten(f, w, s, n)
    BY WrittenExists, Zenon
  <1>2. \E f : f = Step(f)
    BY <1>0, Zenon DEF IsWritten
  <1>3. v = Step(v)
    BY <1>2, Zenon
  <1> HIDE DEF v
  <1>4. \A i \in 0 .. n : v[i] = IF i = 0 THEN w ELSE Typed(v[i - 1], s[i])
    BY <1>3, Zenon
  <1>5. 0 \in 0 .. n /\ \A i \in 1 .. n : i \in 0 .. n /\ i # 0
    OBVIOUS
  <1>6. v[0] = w
    BY <1>4, <1>5, Zenon
  <1>7. \A i \in 1 .. n : v[i] = Typed(v[i - 1], s[i])
    BY <1>4, <1>5, Zenon
  <1> QED
    BY <1>1, <1>6, <1>7, Zenon

\* One turn of write_string's loop keeps the Writer in order.
LEMMA TypedScreen ==
    ASSUME NEW w, ScreenOK(w), NEW byte \in Byte
    PROVE  ScreenOK(Typed(w, byte))
  <1> DEFINE g == Glyph(byte)
             up == Up(w.chars)
             l == Logged(w.log, byte)
             c == w.column
             p == w.plain
  <1>1. /\ IsWriter(w) /\ c \in 0 .. Width /\ IsGrid(w.chars) /\ p \in BOOLEAN
        /\ w.smudged \in BOOLEAN /\ (p = TRUE => GridOK(w))
        /\ w.smudged = FALSE => \A i \in Cols : i >= c => w.chars[Height - 1][i] = Blank
    BY Zenon DEF ScreenOK, Tidy
  <1>2. Width \in Nat \ {0} /\ Height \in Nat \ {0, 1} /\ Height - 1 \in Rows
    BY ScreenConstants, SMTT(30) DEF Rows
  <1>3. /\ IsGrid(up) /\ \A i \in Cols : up[Height - 1][i] = Blank
    BY <1>1, UpGrid, Zenon
  <1>4. ASSUME NEW a, NEW b, NEW d, Typed(w, byte) = Rec(a, b, l, p, d),
               b \in 0 .. Width, IsGrid(a), d \in BOOLEAN,
               d = FALSE => \A i \in Cols : i >= b => a[Height - 1][i] = Blank
        PROVE  ScreenOK(Typed(w, byte))
    <2>1. Rec(a, b, l, p, d).chars = a /\ Rec(a, b, l, p, d).column = b
          /\ Rec(a, b, l, p, d).log = l
      BY Zenon DEF Rec
    <2>2. p = TRUE => Match(a, b, l) /\ Len(l) <= Height
      BY <1>1, <1>4, <2>1, TypedGrid, Zenon DEF GridOK
    <2> HIDE DEF l, p
    <2>3. ScreenOK(Rec(a, b, l, p, d))
      BY <1>1, <1>4, <2>2, RecordScreenOK, Zenon
    <2> QED
      BY <1>4, <2>3, Zenon
  <1>5. CASE g = NL
    <2>1. Typed(w, byte) = Rec(up, 0, l, p, FALSE)
      BY <1>1, <1>5, TypedFields, Zenon DEF Rec
    <2>2. 0 \in 0 .. Width
      BY <1>2, SMTT(30)
    <2> HIDE DEF up, l, p
    <2> QED
      BY <1>3, <1>4, <2>1, <2>2, Zenon
  <1>6. CASE g # NL /\ c >= Width
    <2> DEFINE a == [up EXCEPT ![Height - 1][0] = g]
    <2>1. Typed(w, byte) = Rec(a, 1, l, p, FALSE)
      <3>1. 0 + 1 = 1
        OBVIOUS
      <3>2. Typed(w, byte) = Rec(a, 0 + 1, l, p, FALSE)
        BY <1>1, <1>6, TypedFields, Zenon DEF Rec
      <3> QED
        BY <3>1, <3>2, Zenon
    <2>2. 1 \in 0 .. Width
      BY <1>2
    <2>3. IsGrid(a) /\ \A i \in Cols :
             a[Height - 1][i] = IF Height - 1 = Height - 1 /\ i = 0 THEN g ELSE up[Height - 1][i]
      <3>1. a = Put(up, Height - 1, 0, g)
        BY Zenon DEF Put
      <3> HIDE DEF a
      <3>2. HasPut(Put(up, Height - 1, 0, g), up, Height - 1, 0, g)
        BY <1>2, <1>3, PutGrid, Zenon
      <3> QED
        BY <1>2, <3>1, <3>2, Zenon DEF HasPut
    <2>4. \A i \in Cols : i >= 1 => i # 0
      BY <1>2 DEF Cols
    <2>5. \A i \in Cols : i >= 1 => a[Height - 1][i] = Blank
      BY <1>3, <2>3, <2>4, Zenon
    <2> HIDE DEF a, l, p
    <2> QED
      BY <1>4, <2>1, <2>2, <2>3, <2>5, Zenon
  <1>7. CASE g # NL /\ ~(c >= Width)
    <2> DEFINE a == [w.chars EXCEPT ![Height - 1][c] = g]
               b == c + 1
    <2>1. Typed(w, byte) = Rec(a, b, l, p, w.smudged)
      BY <1>1, <1>7, TypedFields, Zenon DEF Rec
    <2>2. b \in 0 .. Width
      BY <1>1, <1>2, <1>7
    <2>3. IsGrid(a) /\ \A i \in Cols :
             a[Height - 1][i] = IF Height - 1 = Height - 1 /\ i = c THEN g ELSE w.chars[Height - 1][i]
      <3>1. a = Put(w.chars, Height - 1, c, g)
        BY Zenon DEF Put
      <3> HIDE DEF a
      <3>2. HasPut(Put(w.chars, Height - 1, c, g), w.chars, Height - 1, c, g)
        BY <1>1, <1>2, PutGrid, Zenon
      <3> QED
        BY <1>2, <3>1, <3>2, Zenon DEF HasPut
    <2>4. \A i \in Cols : i >= b => i # c /\ i >= c
      BY <1>1, <1>2 DEF Cols
    <2>5. w.smudged = FALSE => \A i \in Cols : i >= b => a[Height - 1][i] = Blank
      BY <1>1, <2>3, <2>4, Zenon
    <2> HIDE DEF a, b, l, p
    <2> QED
      BY <1>1, <1>4, <2>1, <2>2, <2>3, <2>5, Zenon
  <1> QED
    BY <1>5, <1>6, <1>7, Zenon

\* print! keeps the Writer in order, and the screen in step with the rows printed.
LEMMA PrintScreen ==
    ASSUME NEW w, ScreenOK(w), NEW s \in Seq(Byte)
    PROVE  ScreenOK(_print(w, s))
  <1> DEFINE u == Written(w, s, Len(s))
             T == {i \in 0 .. Len(s) : ~ScreenOK(u[i])}
  <1>1. Len(s) \in Nat /\ \A i \in 1 .. Len(s) : s[i] \in Byte
    OBVIOUS
  <1>2. _print(w, s) = u[Len(s)]
    BY Zenon DEF _print, write_string, Written
  <1>3. u[0] = w /\ \A i \in 1 .. Len(s) : u[i] = Typed(u[i - 1], s[i])
    BY <1>1, WrittenTurns
  <1> HIDE DEF u
  <1>4. T = {}
    <2> SUFFICES ASSUME T # {} PROVE FALSE
      BY Zenon
    <2>1. PICK i \in T : \A j \in T : i <= j
      <3>1. T \in SUBSET Nat
        BY <1>1
      <3> QED
        BY <3>1, LeastNumber, Zenon
    <2>2. CASE i = 0
      BY <1>3, <2>1, <2>2, Zenon
    <2>3. CASE i # 0
      <3>1. i \in 1 .. Len(s) /\ i - 1 \in 0 .. Len(s) /\ i - 1 \notin T
        <4>1. i \in 0 .. Len(s)
          BY Zenon
        <4> HIDE DEF T
        <4> QED
          BY <1>1, <2>1, <2>3, <4>1
      <3>2. ScreenOK(u[i - 1])
        BY <3>1, Zenon
      <3>3. ScreenOK(Typed(u[i - 1], s[i]))
        BY <1>1, <3>1, <3>2, TypedScreen, Zenon
      <3> QED
        BY <1>3, <2>1, <3>1, <3>3, Zenon
    <2> QED
      BY <2>2, <2>3, Zenon
  <1>5. Len(s) \in 0 .. Len(s)
    BY <1>1
  <1>6. ScreenOK(u[Len(s)])
    BY <1>4, <1>5, Zenon
  <1> QED
    BY <1>2, <1>6, Zenon

\* A Writer with one more cell drawn.
Drawn(v, w, x, y, byte) ==
    \E d, e : /\ d = FALSE /\ (e <=> w.smudged \/ y = Height - 1) /\ e \in BOOLEAN
              /\ v = [chars |-> [w.chars EXCEPT ![y][x] = byte], column |-> w.column,
                      log |-> w.log, plain |-> d, smudged |-> e]

\* What the other operations do to the fields.
LEMMA OtherFields ==
    ASSUME NEW w, IsWriter(w), NEW x, NEW y, NEW byte
    PROVE  /\ clear(w) =
                 [chars |-> [r \in Rows |-> IF r < Height - 1 THEN BlankRow ELSE w.chars[r]],
                  column |-> w.column, log |-> <<Last(w.log)>>, plain |-> w.plain,
                  smudged |-> w.smudged]
           /\ w.column # 0 => _backspace(w) =
                 [chars |-> [w.chars EXCEPT ![Height - 1][w.column - 1] = Blank],
                  column |-> w.column - 1,
                  log |-> Append(Front(w.log), Front(Last(w.log))), plain |-> w.plain,
                  smudged |-> w.smudged]
           /\ ~(x >= Width \/ y >= Height) => Drawn(write_char_at(w, x, y, byte), w, x, y, byte)
  <1> DEFINE a == w.chars
             b == w.column
             c == w.log
             d == w.plain
             e == w.smudged
  <1>1. w = [chars |-> a, column |-> b, log |-> c, plain |-> d, smudged |-> e]
    BY Zenon DEF IsWriter
  <1> DEFINE a1 == [r \in Rows |-> IF r < Height - 1 THEN BlankRow ELSE a[r]]
             c1 == <<Last(c)>>
             a2 == [a EXCEPT ![Height - 1][b - 1] = Blank]
             b2 == b - 1
             c2 == Append(Front(c), Front(Last(c)))
             a3 == [a EXCEPT ![y][x] = byte]
             d3 == FALSE
             e3 == e \/ y = Height - 1
  <1>2. clear(w) = [w EXCEPT !.chars = a1, !.log = c1]
    BY Zenon DEF clear
  <1>3. b # 0 => _backspace(w) = [w EXCEPT !.column = b2, !.chars = a2, !.log = c2]
    BY Zenon DEF _backspace
  <1>4. ~(x >= Width \/ y >= Height) =>
           write_char_at(w, x, y, byte) = [w EXCEPT !.chars = a3, !.plain = d3, !.smudged = e3]
    BY Zenon DEF write_char_at
  <1> HIDE DEF a, b, c, d, e, a1, c1, a2, b2, c2, a3, d3, e3
  <1>5. [w EXCEPT !.chars = a1, !.log = c1] =
        [chars |-> a1, column |-> b, log |-> c1, plain |-> d, smudged |-> e]
    <2> DEFINE v == [w EXCEPT !.chars = a1]
    <2>1. v = [chars |-> a1, column |-> b, log |-> c, plain |-> d, smudged |-> e]
      BY <1>1
    <2> HIDE DEF v
    <2>2. [v EXCEPT !.log = c1] =
          [chars |-> a1, column |-> b, log |-> c1, plain |-> d, smudged |-> e]
      BY <2>1
    <2> QED
      BY <2>2, Zenon DEF v
  <1>6. [w EXCEPT !.column = b2, !.chars = a2, !.log = c2] =
        [chars |-> a2, column |-> b2, log |-> c2, plain |-> d, smudged |-> e]
    <2> DEFINE v == [w EXCEPT !.column = b2]
               u == [v EXCEPT !.chars = a2]
    <2>1. v = [chars |-> a, column |-> b2, log |-> c, plain |-> d, smudged |-> e]
      BY <1>1
    <2> HIDE DEF v
    <2>2. u = [chars |-> a2, column |-> b2, log |-> c, plain |-> d, smudged |-> e]
      BY <2>1
    <2> HIDE DEF u
    <2>3. [u EXCEPT !.log = c2] =
          [chars |-> a2, column |-> b2, log |-> c2, plain |-> d, smudged |-> e]
      BY <2>2
    <2> QED
      BY <2>3, Zenon DEF u, v
  <1>7. [w EXCEPT !.chars = a3, !.plain = d3, !.smudged = e3] =
        [chars |-> a3, column |-> b, log |-> c, plain |-> d3, smudged |-> e3]
    <2> DEFINE v == [w EXCEPT !.chars = a3]
               u == [v EXCEPT !.plain = d3]
    <2>1. v = [chars |-> a3, column |-> b, log |-> c, plain |-> d, smudged |-> e]
      BY <1>1
    <2> HIDE DEF v
    <2>2. u = [chars |-> a3, column |-> b, log |-> c, plain |-> d3, smudged |-> e]
      BY <2>1
    <2> HIDE DEF u
    <2>3. [u EXCEPT !.smudged = e3] =
          [chars |-> a3, column |-> b, log |-> c, plain |-> d3, smudged |-> e3]
      BY <2>2
    <2> QED
      BY <2>3, Zenon DEF u, v
  <1>8. clear(w) = [chars |-> a1, column |-> b, log |-> c1, plain |-> d, smudged |-> e]
    BY <1>2, <1>5, Zenon
  <1>9. b # 0 => _backspace(w) =
                 [chars |-> a2, column |-> b2, log |-> c2, plain |-> d, smudged |-> e]
    BY <1>3, <1>6, Zenon
  <1>10. ~(x >= Width \/ y >= Height) => write_char_at(w, x, y, byte) =
                 [chars |-> a3, column |-> b, log |-> c, plain |-> d3, smudged |-> e3]
    BY <1>4, <1>7, Zenon
  <1>11. d3 = FALSE /\ (e3 <=> w.smudged \/ y = Height - 1) /\ e3 \in BOOLEAN
    BY Zenon DEF d3, e3, e
  <1> QED
    <2>1. clear(w) =
            [chars |-> [r \in Rows |-> IF r < Height - 1 THEN BlankRow ELSE w.chars[r]],
             column |-> w.column, log |-> <<Last(w.log)>>, plain |-> w.plain,
             smudged |-> w.smudged]
      BY <1>8, Zenon DEF a, b, c, d, e, a1, c1
    <2>2. w.column # 0 => _backspace(w) =
            [chars |-> [w.chars EXCEPT ![Height - 1][w.column - 1] = Blank],
             column |-> w.column - 1, log |-> Append(Front(w.log), Front(Last(w.log))),
             plain |-> w.plain, smudged |-> w.smudged]
      BY <1>9, Zenon DEF a, b, c, d, e, a2, b2, c2
    <2>3. ~(x >= Width \/ y >= Height) => write_char_at(w, x, y, byte) =
            [chars |-> [w.chars EXCEPT ![y][x] = byte], column |-> w.column,
             log |-> w.log, plain |-> d3, smudged |-> e3]
      BY <1>10, Zenon DEF a, b, c, a3
    <2>4. ~(x >= Width \/ y >= Height) => Drawn(write_char_at(w, x, y, byte), w, x, y, byte)
      BY <1>11, <2>3, Zenon DEF Drawn
    <2> QED
      BY <2>1, <2>2, <2>4, Zenon

\* _backspace keeps the Writer in order.
LEMMA BackspaceScreen ==
    ASSUME NEW w, ScreenOK(w)
    PROVE  ScreenOK(_backspace(w))
  <1>1. CASE w.column = 0
    <2>1. _backspace(w) = w
      BY <1>1, Zenon DEF _backspace
    <2> QED
      BY <2>1, Zenon
  <1>2. CASE w.column # 0
    <2> DEFINE a == [w.chars EXCEPT ![Height - 1][w.column - 1] = Blank]
               b == w.column - 1
               c == Append(Front(w.log), Front(Last(w.log)))
    <2>1. /\ IsWriter(w) /\ w.column \in 0 .. Width /\ IsGrid(w.chars) /\ w.plain \in BOOLEAN
          /\ w.smudged \in BOOLEAN /\ (w.plain = TRUE => GridOK(w))
          /\ w.smudged = FALSE =>
                \A i \in Cols : i >= w.column => w.chars[Height - 1][i] = Blank
      BY Zenon DEF ScreenOK, Tidy
    <2>0. Width \in Nat \ {0} /\ Height \in Nat \ {0, 1} /\ Height - 1 \in Rows
      BY ScreenConstants DEF Rows
    <2>2. _backspace(w) = Rec(a, b, c, w.plain, w.smudged)
      BY <1>2, <2>1, OtherFields, Zenon DEF Rec
    <2>3. w.plain = TRUE => Match(a, b, c) /\ Len(c) <= Height
      <3> SUFFICES ASSUME w.plain = TRUE PROVE Match(a, b, c) /\ Len(c) <= Height
        BY Zenon
      <3>1. Match(w.chars, w.column, w.log) /\ Len(w.log) <= Height
        BY <2>1, Zenon DEF GridOK
      <3>2. Match(a, b, c)
        BY <1>2, <3>1, MatchErase, Zenon
      <3>3. w.log \in Seq(Seq(Glyphs)) /\ Len(w.log) >= 1 /\ Last(w.log) \in Seq(Glyphs)
            /\ w.column = Len(Last(w.log)) /\ w.column \in 0 .. Width
        BY <3>1, MatchLast, Zenon DEF Match
      <3>4. Len(Last(w.log)) >= 1
        BY <1>2, <3>3, ScreenConstants
      <3>5. Front(Last(w.log)) \in Seq(Glyphs) /\ Front(w.log) \in Seq(Seq(Glyphs))
            /\ Len(Front(w.log)) = Len(w.log) - 1
        BY <3>3, <3>4, FrontLaws, Zenon
      <3>6. Len(c) = Len(Front(w.log)) + 1
        BY <3>5, LastAppended, Zenon
      <3>7. Len(c) <= Height
        <4> HIDE DEF c
        <4> QED
          BY <3>1, <3>3, <3>5, <3>6
      <3> QED
        BY <3>2, <3>7, Zenon
    <2>4. IsGrid(a) /\ \A i \in Cols :
             a[Height - 1][i] = IF Height - 1 = Height - 1 /\ i = b THEN Blank
                                ELSE w.chars[Height - 1][i]
      <3>1. a = Put(w.chars, Height - 1, b, Blank)
        BY Zenon DEF Put
      <3> HIDE DEF a
      <3>2. HasPut(Put(w.chars, Height - 1, b, Blank), w.chars, Height - 1, b, Blank)
        BY <2>0, <2>1, PutGrid, Zenon
      <3> QED
        BY <2>0, <3>1, <3>2, Zenon DEF HasPut
    <2>5. b \in 0 .. Width /\ \A i \in Cols : i >= b => i = b \/ i >= w.column
      BY <1>2, <2>0, <2>1 DEF Cols
    <2>6. w.smudged = FALSE => \A i \in Cols : i >= b => a[Height - 1][i] = Blank
      BY <2>1, <2>4, <2>5, Zenon
    <2> HIDE DEF a, b, c
    <2>7. ScreenOK(Rec(a, b, c, w.plain, w.smudged))
      BY <2>1, <2>3, <2>4, <2>5, <2>6, RecordScreenOK, Zenon
    <2> QED
      BY <2>2, <2>7, Zenon
  <1> QED
    BY <1>1, <1>2, Zenon

\* Writer::clear keeps it in order.
LEMMA ClearScreen ==
    ASSUME NEW w, ScreenOK(w)
    PROVE  ScreenOK(clear(w))
  <1> DEFINE a == [r \in Rows |-> IF r < Height - 1 THEN BlankRow ELSE w.chars[r]]
             c == <<Last(w.log)>>
  <1>1. /\ IsWriter(w) /\ w.column \in 0 .. Width /\ IsGrid(w.chars) /\ w.plain \in BOOLEAN
        /\ w.smudged \in BOOLEAN /\ (w.plain = TRUE => GridOK(w))
        /\ w.smudged = FALSE =>
              \A i \in Cols : i >= w.column => w.chars[Height - 1][i] = Blank
    BY Zenon DEF ScreenOK, Tidy
  <1>2. clear(w) = Rec(a, w.column, c, w.plain, w.smudged)
    BY <1>1, OtherFields, Zenon DEF Rec
  <1>3. w.plain = TRUE => Match(a, w.column, c)
    BY <1>1, MatchClear, Zenon DEF GridOK
  <1>4. Len(c) <= Height
    BY ScreenConstants
  <1>5. Height - 1 \in Rows /\ ~(Height - 1 < Height - 1)
    BY ScreenConstants DEF Rows
  <1>6. a[Height - 1] = w.chars[Height - 1]
    BY <1>5, Zenon
  <1>7. IsGrid(a)
    <2>1. BlankRow = [i \in Cols |-> BlankRow[i]]
      BY Zenon DEF BlankRow
    <2>2. \A r \in Rows : w.chars[r] = [i \in Cols |-> w.chars[r][i]]
      BY <1>1, Zenon DEF IsGrid
    <2>3. ASSUME NEW r \in Rows PROVE a[r] = [i \in Cols |-> a[r][i]]
      BY <2>1, <2>2, Zenon
    <2>4. a = [r \in Rows |-> a[r]]
      BY Zenon
    <2> HIDE DEF a
    <2> QED
      BY <2>3, <2>4, Zenon DEF IsGrid
  <1> HIDE DEF a, c
  <1>8. w.smudged = FALSE => \A i \in Cols : i >= w.column => a[Height - 1][i] = Blank
    BY <1>1, <1>6, Zenon
  <1>9. ScreenOK(Rec(a, w.column, c, w.plain, w.smudged))
    BY <1>1, <1>3, <1>4, <1>7, <1>8, RecordScreenOK, Zenon
  <1> QED
    BY <1>2, <1>9, Zenon

\* What is drawn is not plain, and the last row is smudged when it is drawn on.
LEMMA DrawScreen ==
    ASSUME NEW w, ScreenOK(w), NEW x, NEW y, NEW byte
    PROVE  ScreenOK(write_char_at(w, x, y, byte))
  <1>1. CASE x >= Width \/ y >= Height
    <2>1. write_char_at(w, x, y, byte) = w
      BY <1>1, Zenon DEF write_char_at
    <2> QED
      BY <2>1, Zenon
  <1>2. CASE ~(x >= Width \/ y >= Height)
    <2>1. /\ IsWriter(w) /\ w.column \in 0 .. Width /\ IsGrid(w.chars)
          /\ w.smudged \in BOOLEAN
          /\ w.smudged = FALSE =>
                \A i \in Cols : i >= w.column => w.chars[Height - 1][i] = Blank
      BY Zenon DEF ScreenOK, Tidy
    <2> DEFINE a == [w.chars EXCEPT ![y][x] = byte]
    <2>3. PICK d, e :
            /\ d = FALSE /\ (e <=> w.smudged \/ y = Height - 1) /\ e \in BOOLEAN
            /\ write_char_at(w, x, y, byte) =
                  [chars |-> [w.chars EXCEPT ![y][x] = byte], column |-> w.column,
                   log |-> w.log, plain |-> d, smudged |-> e]
      <3>1. Drawn(write_char_at(w, x, y, byte), w, x, y, byte)
        BY <1>2, <2>1, OtherFields, Zenon
      <3> QED
        BY <3>1, Zenon DEF Drawn
    <2>2. write_char_at(w, x, y, byte) = Rec(a, w.column, w.log, d, e)
      BY <2>3, Zenon DEF Rec
    <2>4. Height - 1 \in Rows
      BY ScreenConstants DEF Rows
    <2>5. IsGrid(a) /\ \A i \in Cols :
             a[Height - 1][i] = IF Height - 1 = y /\ i = x THEN byte
                                ELSE w.chars[Height - 1][i]
      <3>1. a = Put(w.chars, y, x, byte)
        BY Zenon DEF Put
      <3> HIDE DEF a
      <3>2. HasPut(Put(w.chars, y, x, byte), w.chars, y, x, byte)
        BY <2>1, <2>4, PutGrid, Zenon
      <3> QED
        BY <2>4, <3>1, <3>2, Zenon DEF HasPut
    <2>6. d \in BOOLEAN /\ d # TRUE
      BY <2>3, Zenon
    <2>7. e = FALSE => w.smudged = FALSE /\ y # Height - 1
      BY <2>1, <2>3, Zenon
    <2>8. e = FALSE => \A i \in Cols : i >= w.column => a[Height - 1][i] = Blank
      BY <2>1, <2>5, <2>7, Zenon
    <2> HIDE DEF a
    <2>9. ScreenOK(Rec(a, w.column, w.log, d, e))
      BY <2>1, <2>3, <2>5, <2>6, <2>8, RecordScreenOK, Zenon
    <2> QED
      BY <2>2, <2>9, Zenon
  <1> QED
    BY <1>1, <1>2, Zenon

\* A step that shows a Writer in order leaves one in order.
LEMMA ShowsKeeps ==
    ASSUME NEW w, ScreenOK(w), Shows(w)
    PROVE  Writer' = w /\ ScreenOK(Writer)'
  <1>1. Writer' = [chars |-> w.chars, column |-> w.column, log |-> w.log, plain |-> w.plain,
                   smudged |-> w.smudged]
    BY Zenon DEF Shows, Writer
  <1>2. Writer' = w
    BY <1>1, Zenon DEF ScreenOK, IsWriter
  <1> QED
    BY <1>2, Zenon

\* The empty screen shows the empty row.
LEMMA InitScreen == ScreenInit => ScreenOK(Writer)
  <1> SUFFICES ASSUME ScreenInit PROVE ScreenOK(Writer)
    OBVIOUS
  <1> DEFINE rows == <<<<>>>>
             blank == [r \in Rows |-> BlankRow]
  <1>1. Writer = Rec(blank, 0, rows, TRUE, FALSE)
    BY Zenon DEF ScreenInit, Writer, Rec
  <1>2. Width \in Nat \ {0} /\ Height \in Nat \ {0, 1} /\ Height - 1 \in Rows /\ 0 \in 0 .. Width
        /\ 0 <= Width /\ 1 <= Height
    BY ScreenConstants DEF Rows
  <1>3. rows \in Seq(Seq(Glyphs)) /\ Len(rows) = 1 /\ rows[1] = <<>> /\ Len(rows[1]) = 0
    OBVIOUS
  <1> HIDE DEF rows
  <1>4. ASSUME NEW r \in Rows PROVE RowOf(rows, r) = BlankRow
    <2> DEFINE n == Len(rows) - (Height - 1 - r)
    <2>1. n >= 1 => n = 1
      BY <1>2, <1>3 DEF Rows
    <2>2. RowOf(rows, r) = IF n >= 1 THEN Padded(rows[n]) ELSE BlankRow
      BY Zenon DEF RowOf
    <2> HIDE DEF n
    <2> QED
      BY <1>3, <2>1, <2>2, PaddedEmpty, Zenon
  <1>5. blank = [r \in Rows |-> RowOf(rows, r)]
    BY <1>4, Zenon
  <1>6. IsGrid(blank) /\ \A i \in Cols : blank[Height - 1][i] = Blank
    BY <1>2, Zenon DEF IsGrid, BlankRow
  <1> HIDE DEF blank
  <1>7. Match(blank, 0, rows) /\ Len(rows) <= Height
    <2>1. Len(rows) >= 1 /\ Len(rows) <= Height
      BY <1>2, <1>3
    <2> QED
      BY <1>2, <1>3, <1>5, <2>1, Zenon DEF Match
  <1>8. PICK d, e : d = TRUE /\ e = FALSE /\ d \in BOOLEAN /\ e \in BOOLEAN
    BY Zenon
  <1>9. ScreenOK(Rec(blank, 0, rows, d, e))
    BY <1>2, <1>6, <1>7, <1>8, RecordScreenOK, Zenon
  <1> QED
    BY <1>1, <1>8, <1>9, Zenon

\* A character of the line is one that print! knows.
LEMMA ShownByte ==
    ASSUME NEW k \in Letters \cup {"Space"}, NEW sh \in BOOLEAN
    PROVE  /\ Shown(<<k, sh>>) \in Byte /\ Shown(<<k, sh>>) # NL
           /\ Shown(<<k, sh>>) \in Printable \cup {Blank}
  <1>1. Shown(<<k, sh>>) \in Printable \cup {Blank}
    <2>1. Shown(<<k, sh>>) = IF k = "Space" THEN Blank ELSE IF sh THEN Upper[k] ELSE k
      BY SMTT(30) DEF Shown
    <2>2. k \in Letters => Upper[k] \in Printable /\ k \in Printable
      BY ConsoleConstants
    <2> QED
      BY <2>1, <2>2, Zenon
  <1>2. NL \notin Printable /\ Blank # NL
    BY ScreenConstants, Zenon DEF Blank, NL, Block
  <1> QED
    BY <1>1, <1>2, Zenon DEF Byte

\* The text of one byte is a string of bytes, and so is the prompt.
LEMMA Texts ==
    /\ \A b \in Byte : <<b>> \in Seq(Byte)
    /\ Prompt \in Seq(Byte) /\ <<NL>> \in Seq(Byte) /\ Outputs \subseteq Seq(Byte)
  <1>1. ">" \in Byte /\ Blank \in Byte /\ NL \in Byte
    BY ConsoleConstants, Zenon DEF Byte
  <1>2. \A b \in Byte : <<b>> \in Seq(Byte)
    BY SMTT(30)
  <1>3. Prompt \in Seq(Byte)
    BY <1>1, SMTT(30) DEF Prompt
  <1>4. Outputs \subseteq Seq(Byte)
    BY ConsoleConstants, Zenon DEF Byte
  <1> QED
    BY <1>1, <1>2, <1>3, <1>4, Zenon

\* What a key or a command leaves on the screen is in order.
LEMMA EchoScreen ==
    ASSUME ScreenOK(Writer), NEW e \in Event, shift \in BOOLEAN
    PROVE  ScreenOK(Echo(e))
  <1>1. CASE e.key \in Letters \cup {"Space"}
    <2>1. Echo(e) = _print(Writer, <<Shown(<<e.key, shift>>)>>)
      BY <1>1, ShellConstants DEF Echo
    <2>2. <<Shown(<<e.key, shift>>)>> \in Seq(Byte)
      BY <1>1, ShownByte, Texts, Zenon
    <2> QED
      BY <2>1, <2>2, PrintScreen, Zenon
  <1>2. CASE e.key = "Backspace"
    <2>1. Echo(e) = _backspace(Writer)
      BY <1>2, ShellConstants DEF Echo
    <2> QED
      BY <2>1, BackspaceScreen, Zenon
  <1>3. CASE e.key = "Enter"
    <2>1. Echo(e) = _print(Writer, <<NL>>)
      BY <1>3, ShellConstants, SMTT(30) DEF Echo
    <2> QED
      BY <2>1, Texts, PrintScreen, Zenon
  <1>4. CASE e.key \in {"ShiftDown", "ShiftUp"}
    <2>1. Echo(e) = Writer
      BY <1>4, ShellConstants DEF Echo
    <2> QED
      BY <2>1, Zenon
  <1>5. e.key \in Keys
    BY DEF Event
  <1> QED
    BY <1>1, <1>2, <1>3, <1>4, <1>5, Zenon DEF Keys

\* What a command leaves on the screen is in order, and so is the prompt after it.
LEMMA FinishedScreen ==
    ASSUME ScreenOK(Writer), NEW w \in Finished \cup {Writer}
    PROVE  ScreenOK(w) /\ ScreenOK(_print(w, Prompt))
  <1>1. ScreenOK(w)
    <2>1. CASE w = Writer
      BY <2>1, Zenon
    <2>2. CASE w = clear(Writer)
      BY <2>2, ClearScreen, Zenon
    <2>3. CASE \E s \in Outputs : w = _print(Writer, s)
      BY <2>3, Texts, PrintScreen, Zenon
    <2> QED
      BY <2>1, <2>2, <2>3, Zenon DEF Finished
  <1> QED
    BY <1>1, Texts, PrintScreen, Zenon

\* Every step of the shell and of the command it awaits keeps the screen in order.
LEMMA ScreenStep == ShellInv /\ ScreenOK(Writer) /\ [Next]_vars => ScreenOK(Writer)'
  <1> SUFFICES ASSUME ShellInv, ScreenOK(Writer), [Next]_vars PROVE ScreenOK(Writer)'
    BY SMTT(30)
  <1>1. CASE DrainAndEcho
    <2>1. Head(key_event_queue) \in Event /\ shift \in BOOLEAN
      BY <1>1 DEF DrainAndEcho, Drain, ShellInv
    <2>2. Shows(Echo(Head(key_event_queue)))
      BY <1>1, Zenon DEF DrainAndEcho
    <2> QED
      BY <2>1, <2>2, EchoScreen, ShowsKeeps, Zenon
  <1>2. ASSUME UNCHANGED scvars PROVE ScreenOK(Writer)'
    BY <1>2, Zenon DEF scvars, Writer
  <1>3. ASSUME NEW w \in Finished \cup {Writer}, PrintPrompt(w) PROVE ScreenOK(Writer)'
    <2>1. ScreenOK(_print(w, Prompt)) /\ Shows(_print(w, Prompt))
      BY <1>3, FinishedScreen, Zenon DEF PrintPrompt
    <2> QED
      BY <2>1, ShowsKeeps, Zenon
  <1>4. CASE TakeAndRun
    BY <1>2, <1>3, <1>4, Zenon DEF TakeAndRun, OffScreen
  <1>5. CASE Draw
    <2>1. CASE Shows(clear(Writer))
      BY <2>1, ClearScreen, ShowsKeeps, Zenon
    <2>2. ASSUME NEW c \in Cells, Shows(write_char_at(Writer, c[1], c[2], "#"))
          PROVE  ScreenOK(Writer)'
      BY <2>2, DrawScreen, ShowsKeeps, Zenon
    <2> QED
      BY <1>5, <2>1, <2>2, Zenon DEF Draw
  <1>6. CASE EndAndPrompt
    BY <1>3, <1>6, Zenon DEF EndAndPrompt
  <1>7. CASE OffScreen
    BY <1>2, <1>7, Zenon DEF OffScreen
  <1>8. CASE UNCHANGED vars
    BY <1>2, <1>8, Zenon DEF vars
  <1> QED
    BY <1>1, <1>4, <1>5, <1>6, <1>7, <1>8, Zenon DEF Next

\* A Writer in order shows its rows.
LEMMA ScreenOKShows == ScreenOK(Writer) => ShowsLastRows
  <1> SUFFICES ASSUME ScreenOK(Writer), plain PROVE
                 /\ column_position = Len(Last(log))
                 /\ \A r \in Rows :
                       LET n == Len(log) - (Height - 1 - r) IN
                       chars[r] = IF n >= 1 THEN Padded(log[n]) ELSE BlankRow
    BY Zenon DEF ShowsLastRows
  <1>1. Writer.plain = plain /\ Writer.chars = chars /\ Writer.column = column_position
        /\ Writer.log = log
    BY Zenon DEF Writer
  <1>2. Writer.plain \in BOOLEAN /\ (Writer.plain = TRUE => GridOK(Writer))
    BY Zenon DEF ScreenOK, Tidy
  <1>3. plain = TRUE
    BY <1>1, <1>2, Zenon
  <1>4. Match(chars, column_position, log)
    BY <1>1, <1>2, <1>3, Zenon DEF GridOK
  <1>5. column_position = Len(Last(log))
    BY <1>4, MatchLast, Zenon
  <1>6. \A r \in Rows : chars[r] = RowOf(log, r)
    BY <1>4, Zenon DEF Match
  <1> QED
    BY <1>5, <1>6, Zenon DEF RowOf

\* The screen is in order throughout.
LEMMA SpecScreen == Spec => [](ShellInv /\ ScreenOK(Writer))
  <1>1. Init => ShellInv /\ ScreenOK(Writer)
    BY InitShellInv, InitScreen, Zenon DEF Init
  <1>2. ShellInv /\ ScreenOK(Writer) /\ [Next]_vars => (ShellInv /\ ScreenOK(Writer))'
    BY NextShellInv, ScreenStep, Zenon
  <1> QED
    BY <1>1, <1>2, PTL DEF Spec

\* The screen shows the last rows printed, for a screen of any size, any keys and
\* whatever the commands print, until something is drawn.
THEOREM ScreenShowsWhatWasPrinted == Spec => []ShowsLastRows
  <1> QED
    BY SpecScreen, ScreenOKShows, PTL

-----------------------------------------------------------------------------
\* The line on the screen.

\* The cells of the grid in reading order, as ScreenShowsLine counts them, and the
\* number of those before the last row.
Cell(grid, n) == grid[n \div Width][n % Width]
Base == (Height - 1) * Width
Places == 0 .. Base + Width - 1

\* Every place is on the grid, and those before the last row are above it.
LEMMA PlaceOnGrid ==
    ASSUME NEW n \in Places
    PROVE  /\ n \div Width \in Rows /\ n % Width \in Cols
           /\ n = (n \div Width) * Width + (n % Width)
           /\ n < Base => n \div Width < Height - 1
           /\ Base \in Nat
  <1> DEFINE q == n \div Width
             r == n % Width
  <1>1. Width \in Nat \ {0} /\ Height \in Nat \ {0, 1}
    BY ScreenConstants
  <1>2. Base = (Height - 1) * Width /\ Base \in Nat
    BY <1>1 DEF Base
  <1>3. n \in Int /\ 0 <= n /\ n < Base + Width
    BY <1>1, <1>2 DEF Places
  <1>4. q \in Int /\ r \in 0 .. Width - 1 /\ n = q * Width + r
    BY <1>1, <1>3, DivMod
  <1> HIDE DEF q, r
  <1>5. q >= 0
    <2>1. q <= -1 => q * Width <= -Width
      BY <1>1, <1>4, Multiples
    <2> QED
      BY <1>1, <1>3, <1>4, <2>1
  <1>6. ASSUME NEW m \in Int, n < m * Width PROVE q < m
    <2>1. q - m \in Int /\ (q - m) * Width = q * Width - m * Width
      BY <1>1, <1>4, SMTT(30)
    <2>2. q - m >= 1 => (q - m) * Width >= Width
      BY <1>1, <2>1, Multiples, SMTT(30)
    <2>3. q * Width \in Int /\ m * Width \in Int
      BY <1>1, <1>4
    <2>4. q * Width < m * Width
      BY <1>1, <1>4, <1>6, <2>3
    <2> QED
      BY <1>1, <1>4, <2>1, <2>2, <2>3, <2>4
  <1>7. Base + Width = Height * Width
    BY <1>1, <1>2
  <1>8. q < Height /\ (n < Base => q < Height - 1)
    BY <1>1, <1>2, <1>3, <1>6, <1>7
  <1>9. q \in Rows /\ r \in Cols
    BY <1>1, <1>4, <1>5, <1>8 DEF Rows, Cols
  <1> QED
    BY <1>2, <1>4, <1>8, <1>9, Zenon DEF q, r

\* Breaking the row moves every cell one row back.
LEMMA UpCell ==
    ASSUME NEW grid, NEW n \in Places, n < Base
    PROVE  Cell(Up(grid), n) = Cell(grid, n + Width) /\ n + Width \in Places
  <1> DEFINE q == n \div Width
             r == n % Width
  <1>1. q \in Rows /\ r \in Cols /\ n = q * Width + r /\ q < Height - 1 /\ Base \in Nat
    BY PlaceOnGrid, Zenon
  <1>2. Width \in Nat \ {0} /\ Height \in Nat \ {0, 1} /\ q \in Int /\ r \in 0 .. Width - 1
    BY <1>1, ScreenConstants DEF Rows, Cols
  <1>3. n + Width \in Places
    BY <1>1, <1>2 DEF Places
  <1> HIDE DEF q, r
  <1>4. n + Width = (q + 1) * Width + r /\ q + 1 \in Int
    BY <1>1, <1>2
  <1>5. (n + Width) \div Width = q + 1 /\ (n + Width) % Width = r
    BY <1>2, <1>4, DivModUnique, Zenon
  <1>6. Up(grid)[q] = grid[q + 1]
    BY <1>1, Zenon DEF Up
  <1> QED
    BY <1>3, <1>5, <1>6, Zenon DEF Cell, q, r

\* What a byte put in the last row does to a cell, counted in reading order.
CellPut(grid, c, g, n) ==
    /\ n = Base + c => Cell(Put(grid, Height - 1, c, g), n) = g
    /\ n # Base + c => Cell(Put(grid, Height - 1, c, g), n) = Cell(grid, n)

\* It is the only cell that changes.
LEMMA PutCell ==
    ASSUME NEW grid, IsGrid(grid), NEW c \in Cols, NEW g, NEW n \in Places
    PROVE  CellPut(grid, c, g, n)
  <1> DEFINE q == n \div Width
             r == n % Width
  <1>1. q \in Rows /\ r \in Cols /\ n = q * Width + r /\ Base \in Nat
    BY PlaceOnGrid, Zenon
  <1>2. HasPut(Put(grid, Height - 1, c, g), grid, Height - 1, c, g)
    BY PutGrid, Zenon
  <1>3. Put(grid, Height - 1, c, g)[q][r] = IF q = Height - 1 /\ r = c THEN g ELSE grid[q][r]
    BY <1>1, <1>2, Zenon DEF HasPut
  <1>4. Width \in Nat \ {0} /\ Height \in Nat \ {0, 1} /\ q \in Int /\ r \in 0 .. Width - 1
        /\ c \in 0 .. Width - 1 /\ Height - 1 \in Int
    BY <1>1, ScreenConstants DEF Rows, Cols
  <1>5. ((Height - 1) * Width + c) \div Width = Height - 1
        /\ ((Height - 1) * Width + c) % Width = c
    BY <1>4, DivModUnique, Zenon
  <1>6. q = Height - 1 /\ r = c <=> n = Base + c
    BY <1>1, <1>5, Zenon DEF Base, q, r
  <1> QED
    BY <1>3, <1>6, Zenon DEF Cell, CellPut, q, r

\* The first n characters of `text' that are on the grid, from the place `first' on.
Holds(grid, first, n, text) ==
    \A i \in 1 .. n : first + i >= 1 => Cell(grid, first + i - 1) = text[i]

\* The line `text' ends at the cursor and starts a row, and every character of it
\* that has not scrolled away is on the screen.
LineAt(w, text) ==
    LET first == Base + w.column - Len(text) IN
    first % Width = 0 /\ Holds(w.chars, first, Len(text), text)

HasFields(w, a, b) == w.chars = a /\ w.column = b

\* The fields of a Writer.
LEMMA RecFields ==
    ASSUME NEW a, NEW b, NEW c, NEW d, NEW e
    PROVE  HasFields(Rec(a, b, c, d, e), a, b)
  BY Zenon DEF Rec, HasFields

\* A byte put at the cursor is the next character of the line before it.
LEMMA PutLine ==
    ASSUME NEW grid, IsGrid(grid), NEW c \in Cols, NEW n \in Nat, NEW first \in Int,
           first + n = Base + c, NEW text, NEW more, NEW g,
           Holds(grid, first, n, text), \A i \in 1 .. n : more[i] = text[i], more[n + 1] = g
    PROVE  Holds(Put(grid, Height - 1, c, g), first, n + 1, more)
  <1> SUFFICES ASSUME NEW i \in 1 .. n + 1, first + i >= 1
               PROVE  Cell(Put(grid, Height - 1, c, g), first + i - 1) = more[i]
    BY Zenon DEF Holds
  <1>1. Width \in Nat \ {0} /\ Height \in Nat \ {0, 1} /\ Base \in Nat /\ c \in 0 .. Width - 1
    BY ScreenConstants, SMTT(30) DEF Base, Cols
  <1>2. /\ first + i - 1 \in Places /\ (first + i - 1 = Base + c <=> i = n + 1)
        /\ i # n + 1 => i \in 1 .. n
    BY <1>1 DEF Places
  <1>3. CellPut(grid, c, g, first + i - 1)
    BY <1>2, PutCell, Zenon
  <1>4. CASE i = n + 1
    BY <1>2, <1>3, <1>4, Zenon DEF CellPut
  <1>5. CASE i # n + 1
    BY <1>2, <1>3, <1>5, Zenon DEF Holds, CellPut
  <1> QED
    BY <1>4, <1>5, Zenon

\* When a full row is broken the line moves up with it.
LEMMA UpLine ==
    ASSUME NEW grid, NEW n \in Nat, NEW first \in Int, first + n = Base + Width, NEW text,
           first % Width = 0, Holds(grid, first, n, text)
    PROVE  (first - Width) % Width = 0 /\ Holds(Up(grid), first - Width, n, text)
  <1>1. Width \in Nat \ {0} /\ Height \in Nat \ {0, 1} /\ Base \in Nat
    BY ScreenConstants DEF Base
  <1>2. (first - Width) % Width = 0
    <2> DEFINE q == first \div Width
    <2>1. q \in Int /\ first = q * Width + (first % Width)
      BY <1>1, DivMod, Zenon
    <2>2. first = q * Width /\ 0 \in 0 .. Width - 1
      BY <1>1, <2>1, SMTT(30)
    <2> HIDE DEF q
    <2>3. first - Width = (q - 1) * Width + 0 /\ q - 1 \in Int
      BY <1>1, <2>1, <2>2, SMTT(30)
    <2>4. ((q - 1) * Width + 0) % Width = 0
      <3>1. Width \in Nat \ {0}
        BY <1>1, Zenon
      <3>2. q - 1 \in Int /\ 0 \in 0 .. Width - 1
        BY <2>2, <2>3, Zenon
      <3> QED
        BY <3>1, <3>2, DivModUnique, Zenon
    <2> QED
      BY <2>3, <2>4, Zenon
  <1>3. ASSUME NEW i \in 1 .. n, (first - Width) + i >= 1
        PROVE  Cell(Up(grid), (first - Width) + i - 1) = text[i]
    <2>1. (first - Width) + i - 1 \in Places /\ (first - Width) + i - 1 < Base
          /\ (first - Width) + i - 1 + Width = first + i - 1 /\ first + i >= 1
      BY <1>1, <1>3 DEF Places
    <2>2. Cell(Up(grid), (first - Width) + i - 1) = Cell(grid, (first - Width) + i - 1 + Width)
      BY <2>1, UpCell, Zenon
    <2> QED
      BY <2>1, <2>2, Zenon DEF Holds
  <1> QED
    BY <1>2, <1>3, Zenon DEF Holds

\* A character that is typed is the next one of the line.
LEMMA TypedLine ==
    ASSUME NEW w, ScreenOK(w), NEW byte \in Byte, byte # NL, NEW text, Len(text) \in Nat,
           LineAt(w, text), NEW more, Len(more) = Len(text) + 1,
           more[Len(text) + 1] = Glyph(byte), \A i \in 1 .. Len(text) : more[i] = text[i]
    PROVE  LineAt(Typed(w, byte), more)
  <1> DEFINE g == Glyph(byte)
             up == Up(w.chars)
             n == Len(text)
             c == w.column
             first == Base + c - n
  <1>1. IsWriter(w) /\ c \in 0 .. Width /\ IsGrid(w.chars)
    BY Zenon DEF ScreenOK, Tidy
  <1>2. Width \in Nat \ {0} /\ Base \in Nat /\ g # NL /\ 0 \in Cols
    <2>1. g # NL
      BY GlyphKinds, Zenon
    <2> QED
      BY <2>1, ScreenConstants DEF Base, Cols
  <1>3. first % Width = 0 /\ Holds(w.chars, first, n, text)
    BY Zenon DEF LineAt
  <1>4. CASE ~(c >= Width)
    <2> DEFINE a == Put(w.chars, Height - 1, c, g)
    <2>1. Typed(w, byte) = Rec(a, c + 1, Logged(w.log, byte), w.plain, w.smudged)
      BY <1>1, <1>2, <1>4, TypedFields, Zenon DEF Rec, Put
    <2>2. Typed(w, byte).chars = a /\ Typed(w, byte).column = c + 1
      <3>1. HasFields(Rec(a, c + 1, Logged(w.log, byte), w.plain, w.smudged), a, c + 1)
        BY RecFields, Zenon
      <3> QED
        BY <2>1, <3>1, Zenon DEF HasFields
    <2> HIDE DEF a, c
    <2>3. c \in Cols /\ Base + (c + 1) - Len(more) = first /\ first \in Int
          /\ first + n = Base + c
      BY <1>1, <1>2, <1>4 DEF Cols
    <2>4. Holds(a, first, n + 1, more)
      <3> HIDE DEF g, n, first
      <3>1. n \in Nat /\ more[n + 1] = g /\ \A i \in 1 .. n : more[i] = text[i]
        BY Zenon DEF n, g
      <3> QED
        BY <1>1, <1>3, <2>3, <3>1, PutLine, Zenon DEF a
    <2> HIDE DEF first
    <2> QED
      BY <1>3, <2>2, <2>3, <2>4, Zenon DEF LineAt
  <1>5. CASE c >= Width
    <2> DEFINE a == Put(up, Height - 1, 0, g)
    <2>1. PICK e : Typed(w, byte) = Rec(a, 0 + 1, Logged(w.log, byte), w.plain, e)
      BY <1>1, <1>2, <1>5, TypedFields, Zenon DEF Rec, Put
    <2>2. Typed(w, byte).chars = a /\ Typed(w, byte).column = 0 + 1
      <3>1. HasFields(Rec(a, 0 + 1, Logged(w.log, byte), w.plain, e), a, 0 + 1)
        BY RecFields, Zenon
      <3> QED
        BY <2>1, <3>1, Zenon DEF HasFields
    <2> HIDE DEF a, c
    <2>3. Base + (0 + 1) - Len(more) = first - Width /\ first \in Int /\ first - Width \in Int
          /\ first + n = Base + Width /\ (first - Width) + n = Base + 0
      BY <1>1, <1>2, <1>5
    <2> DEFINE after == first - Width
    <2>4. IsGrid(up)
      BY <1>1, <1>2, UpGrid, Zenon
    <2>5. after % Width = 0 /\ Holds(up, after, n, text)
      <3> HIDE DEF n, first
      <3>1. n \in Nat
        BY Zenon DEF n
      <3> QED
        BY <1>3, <2>3, <3>1, UpLine, Zenon
    <2> HIDE DEF after
    <2>6. Holds(a, after, n + 1, more)
      <3> HIDE DEF g, n, first, up
      <3>1. n \in Nat /\ more[n + 1] = g /\ \A i \in 1 .. n : more[i] = text[i]
        BY Zenon DEF n, g
      <3>2. after \in Int /\ after + n = Base + 0
        BY <2>3, Zenon DEF after
      <3> QED
        BY <1>2, <2>4, <2>5, <3>1, <3>2, PutLine, Zenon DEF a
    <2>7. Base + (0 + 1) - Len(more) = after
      BY <2>3, Zenon DEF after
    <2> QED
      BY <2>2, <2>5, <2>6, <2>7, Zenon DEF LineAt
  <1> QED
    BY <1>4, <1>5, Zenon

\* Backspace takes the line's last character off the row it is on.
LEMMA BackspaceLine ==
    ASSUME NEW w, ScreenOK(w), w.column # 0, NEW text, Len(text) \in Nat \ {0}, LineAt(w, text),
           NEW less, Len(less) = Len(text) - 1, \A i \in 1 .. Len(less) : less[i] = text[i]
    PROVE  LineAt(_backspace(w), less)
  <1> DEFINE n == Len(text)
             c == w.column
             first == Base + c - n
             a == Put(w.chars, Height - 1, c - 1, Blank)
  <1>1. IsWriter(w) /\ c \in 0 .. Width /\ IsGrid(w.chars)
    BY Zenon DEF ScreenOK, Tidy
  <1>2. Width \in Nat \ {0} /\ Height \in Nat \ {0, 1} /\ Base \in Nat
    BY ScreenConstants DEF Base
  <1>3. first % Width = 0 /\ Holds(w.chars, first, n, text)
    BY Zenon DEF LineAt
  <1>4. _backspace(w) = Rec(a, c - 1, Append(Front(w.log), Front(Last(w.log))), w.plain,
                            w.smudged)
    BY <1>1, OtherFields, Zenon DEF Rec, Put
  <1>5. _backspace(w).chars = a /\ _backspace(w).column = c - 1
    <2>1. HasFields(Rec(a, c - 1, Append(Front(w.log), Front(Last(w.log))), w.plain, w.smudged), a, c - 1)
      BY RecFields, Zenon
    <2> QED
      BY <1>4, <2>1, Zenon DEF HasFields
  <1>6. c # 0
    BY SMTT(30)
  <1> HIDE DEF c
  <1>7. c - 1 \in Cols /\ Base + (c - 1) - Len(less) = first /\ first \in Int
        /\ first + n = Base + c
    BY <1>1, <1>2, <1>6 DEF Cols
  <1>8. ASSUME NEW i \in 1 .. Len(less), first + i >= 1
        PROVE  Cell(a, first + i - 1) = less[i]
    <2> HIDE DEF first
    <2>1. first + i - 1 \in Places /\ first + i - 1 # Base + (c - 1) /\ i \in 1 .. n
      BY <1>1, <1>2, <1>7, <1>8 DEF Places
    <2> HIDE DEF n
    <2>2. CellPut(w.chars, c - 1, Blank, first + i - 1)
      BY <1>1, <1>7, <2>1, PutCell, Zenon
    <2>3. Cell(a, first + i - 1) = Cell(w.chars, first + i - 1)
      BY <2>1, <2>2, Zenon DEF CellPut
    <2> QED
      BY <1>3, <1>8, <2>1, <2>3, Zenon DEF Holds
  <1> HIDE DEF n, first, a
  <1>9. Holds(a, first, Len(less), less)
    BY <1>8, Zenon DEF Holds
  <1> QED
    BY <1>3, <1>5, <1>7, <1>9, Zenon DEF LineAt

\* A line starts where a row does.
LEMMA StartLine ==
    ASSUME NEW w, w.column = 0, NEW text, Len(text) = 0
    PROVE  LineAt(w, text)
  <1>1. Width \in Nat \ {0} /\ Base = (Height - 1) * Width + 0 /\ Base \in Nat
        /\ Height - 1 \in Int /\ 0 \in 0 .. Width - 1
    BY ScreenConstants DEF Base
  <1>2. Base % Width = 0
    BY <1>1, DivModUnique, Zenon
  <1>3. Base + w.column - Len(text) = Base /\ 1 .. Len(text) = {}
    BY <1>1
  <1> QED
    BY <1>2, <1>3, Zenon DEF LineAt, Holds

\* print! of one byte and of two.
LEMMA PrintShort ==
    ASSUME NEW w, NEW s
    PROVE  /\ Len(s) = 1 => _print(w, s) = Typed(w, s[1])
           /\ Len(s) = 2 => _print(w, s) = Typed(Typed(w, s[1]), s[2])
  <1> DEFINE u == Written(w, s, Len(s))
  <1>1. 1 - 1 = 0 /\ 2 - 1 = 1 /\ 1 \in 1 .. 1 /\ 1 \in 1 .. 2 /\ 2 \in 1 .. 2
        /\ (Len(s) \in {1, 2} => Len(s) \in Nat)
    OBVIOUS
  <1>2. _print(w, s) = u[Len(s)]
    BY Zenon DEF _print, write_string, Written
  <1>3. Len(s) \in Nat => u[0] = w /\ \A i \in 1 .. Len(s) : u[i] = Typed(u[i - 1], s[i])
    BY WrittenTurns
  <1> HIDE DEF u
  <1>4. CASE Len(s) = 1
    <2>1. u[1] = Typed(u[1 - 1], s[1]) /\ u[0] = w
      BY <1>1, <1>3, <1>4, Zenon
    <2>2. _print(w, s) = Typed(w, s[1]) /\ Len(s) # 2
      BY <1>1, <1>2, <1>4, <2>1
    <2> QED
      BY <2>2, Zenon
  <1>5. CASE Len(s) = 2
    <2>1. u[1] = Typed(u[1 - 1], s[1]) /\ u[2] = Typed(u[2 - 1], s[2]) /\ u[0] = w
      BY <1>1, <1>3, <1>5, Zenon
    <2>2. _print(w, s) = Typed(Typed(w, s[1]), s[2]) /\ Len(s) # 1
      BY <1>1, <1>2, <1>5, <2>1
    <2> QED
      BY <2>2, Zenon
  <1> QED
    BY <1>4, <1>5, Zenon

\* A character of current_cmd, and the line that it makes after the prompt.
Char == (Letters \cup {"Space"}) \X BOOLEAN
Text(before, cmd) == before \o [i \in DOMAIN cmd |-> Shown(cmd[i])]

\* The line's characters.
LEMMA TextLaws ==
    ASSUME NEW before \in Seq(Byte), NEW cmd \in Seq(Char)
    PROVE  /\ Text(before, cmd) \in Seq(Byte)
           /\ Len(Text(before, cmd)) = Len(before) + Len(cmd)
           /\ Len(before) \in Nat /\ Len(cmd) \in Nat
           /\ \A i \in 1 .. Len(before) : Text(before, cmd)[i] = before[i]
           /\ \A i \in 1 .. Len(cmd) : Text(before, cmd)[Len(before) + i] = Shown(cmd[i])
  <1> DEFINE shown == [i \in DOMAIN cmd |-> Shown(cmd[i])]
  <1>1. Len(cmd) \in Nat /\ DOMAIN cmd = 1 .. Len(cmd) /\ \A i \in 1 .. Len(cmd) : cmd[i] \in Char
    BY SMTT(30)
  <1>2. ASSUME NEW i \in 1 .. Len(cmd) PROVE Shown(cmd[i]) \in Byte
    <2>1. PICK k \in Letters \cup {"Space"}, sh \in BOOLEAN : cmd[i] = <<k, sh>>
      BY <1>1 DEF Char
    <2> QED
      BY <2>1, ShownByte, Zenon
  <1>3. shown = [i \in 1 .. Len(cmd) |-> Shown(cmd[i])]
    BY <1>1, Zenon
  <1>4. shown \in Seq(Byte) /\ Len(shown) = Len(cmd)
        /\ \A i \in 1 .. Len(cmd) : shown[i] = Shown(cmd[i])
    BY <1>1, <1>2, <1>3
  <1> HIDE DEF shown
  <1>5. Text(before, cmd) = before \o shown
    BY Zenon DEF Text, shown
  <1>6. /\ before \o shown \in Seq(Byte) /\ Len(before \o shown) = Len(before) + Len(shown)
        /\ \A i \in 1 .. Len(before) + Len(shown) :
              (before \o shown)[i] = IF i <= Len(before) THEN before[i]
                                    ELSE shown[i - Len(before)]
    BY <1>4, Joined, Zenon
  <1>7. Len(before) \in Nat
    OBVIOUS
  <1>8. ASSUME NEW i \in 1 .. Len(before) PROVE Text(before, cmd)[i] = before[i]
    <2>1. i \in 1 .. Len(before) + Len(shown) /\ i <= Len(before)
      BY <1>1, <1>4, <1>7
    <2> QED
      BY <1>5, <1>6, <2>1, Zenon
  <1>9. ASSUME NEW i \in 1 .. Len(cmd) PROVE Text(before, cmd)[Len(before) + i] = Shown(cmd[i])
    <2> DEFINE k == Len(before) + i
    <2>1. k \in 1 .. Len(before) + Len(shown) /\ ~(k <= Len(before)) /\ k - Len(before) = i
      BY <1>1, <1>4, <1>7
    <2> HIDE DEF k
    <2>2. (before \o shown)[k] = shown[k - Len(before)]
      BY <1>6, <2>1, Zenon
    <2> QED
      BY <1>4, <1>5, <2>1, <2>2, Zenon DEF k
  <1> QED
    BY <1>1, <1>4, <1>5, <1>6, <1>7, <1>8, <1>9, Zenon

\* What a line is before and after one more character, and one less.
LEMMA TextTyped ==
    ASSUME NEW before \in Seq(Byte), NEW cmd \in Seq(Char), NEW c \in Char
    PROVE  LET text == Text(before, cmd)
               more == Text(before, Append(cmd, c))
           IN  /\ Len(text) \in Nat /\ Len(more) = Len(text) + 1
               /\ more[Len(text) + 1] = Shown(c)
               /\ \A i \in 1 .. Len(text) : more[i] = text[i]
  <1> DEFINE text == Text(before, cmd)
             longer == Append(cmd, c)
             more == Text(before, longer)
  <1>1. longer \in Seq(Char) /\ Len(longer) = Len(cmd) + 1 /\ longer[Len(cmd) + 1] = c
        /\ \A i \in 1 .. Len(cmd) : longer[i] = cmd[i]
    OBVIOUS
  <1> HIDE DEF longer
  <1>2. /\ Len(text) = Len(before) + Len(cmd) /\ Len(before) \in Nat /\ Len(cmd) \in Nat
        /\ \A i \in 1 .. Len(before) : text[i] = before[i]
        /\ \A i \in 1 .. Len(cmd) : text[Len(before) + i] = Shown(cmd[i])
    BY TextLaws, Zenon
  <1>3. /\ Len(more) = Len(before) + Len(longer)
        /\ \A i \in 1 .. Len(before) : more[i] = before[i]
        /\ \A i \in 1 .. Len(longer) : more[Len(before) + i] = Shown(longer[i])
    BY <1>1, TextLaws, Zenon
  <1> HIDE DEF text, more
  <1>4. Len(text) \in Nat /\ Len(more) = Len(text) + 1
    BY <1>1, <1>2, <1>3
  <1>5. more[Len(text) + 1] = Shown(c)
    <2>1. Len(text) + 1 = Len(before) + (Len(cmd) + 1) /\ Len(cmd) + 1 \in 1 .. Len(longer)
      BY <1>1, <1>2
    <2> QED
      BY <1>1, <1>3, <2>1, Zenon
  <1>6. ASSUME NEW i \in 1 .. Len(text) PROVE more[i] = text[i]
    <2>1. CASE i \in 1 .. Len(before)
      BY <1>2, <1>3, <2>1, Zenon
    <2>2. CASE i \notin 1 .. Len(before)
      <3> DEFINE j == i - Len(before)
      <3>1. j \in 1 .. Len(cmd) /\ j \in 1 .. Len(longer) /\ i = Len(before) + j
        BY <1>1, <1>2, <2>2
      <3> HIDE DEF j
      <3> QED
        BY <1>1, <1>2, <1>3, <3>1, Zenon
    <2> QED
      BY <2>1, <2>2, Zenon
  <1> QED
    BY <1>4, <1>5, <1>6, Zenon DEF text, more, longer

\* One less.
LEMMA TextErased ==
    ASSUME NEW before \in Seq(Byte), NEW cmd \in Seq(Char), cmd # <<>>
    PROVE  LET text == Text(before, cmd)
               less == Text(before, Pop(cmd))
           IN  /\ Pop(cmd) \in Seq(Char) /\ Len(text) \in Nat \ {0} /\ Len(less) = Len(text) - 1
               /\ \A i \in 1 .. Len(less) : less[i] = text[i]
  <1> DEFINE short == Pop(cmd)
             c == cmd[Len(cmd)]
             text == Text(before, Append(short, c))
             less == Text(before, short)
  <1>1. short \in Seq(Char) /\ Len(cmd) \in Nat \ {0} /\ Len(short) = Len(cmd) - 1
        /\ (\A i \in 1 .. Len(short) : short[i] = cmd[i]) /\ c \in Char
    <2>1. short = Front(cmd)
      BY Zenon DEF Pop, Front
    <2>2. Len(cmd) \in Nat \ {0} /\ Len(cmd) >= 1 /\ c \in Char
      OBVIOUS
    <2>3. Front(cmd) \in Seq(Char) /\ Len(Front(cmd)) = Len(cmd) - 1
          /\ \A i \in 1 .. Len(cmd) - 1 : Front(cmd)[i] = cmd[i]
      BY <2>2, FrontLaws, Zenon
    <2> QED
      BY <2>1, <2>2, <2>3, Zenon
  <1>2. Append(short, c) = cmd
    <2> HIDE DEF short
    <2>1. /\ Append(short, c) \in Seq(Char) /\ Len(Append(short, c)) = Len(cmd)
          /\ \A i \in 1 .. Len(cmd) : Append(short, c)[i] = cmd[i]
      BY <1>1
    <2> HIDE DEF c
    <2> QED
      BY <2>1, SameElements
  <1> HIDE DEF short, c
  <1>3. Len(less) \in Nat /\ Len(text) = Len(less) + 1 /\ \A i \in 1 .. Len(less) : text[i] = less[i]
    BY <1>1, TextTyped, Zenon
  <1> HIDE DEF text, less
  <1>4. Len(text) \in Nat \ {0} /\ Len(less) = Len(text) - 1
    BY <1>3
  <1>5. \A i \in 1 .. Len(less) : less[i] = text[i]
    BY <1>3, Zenon
  <1>6. text = Text(before, cmd)
    BY <1>2, Zenon DEF text
  <1> QED
    BY <1>1, <1>4, <1>5, <1>6, Zenon DEF less, short

\* The inductive invariant of the line: between the prompt and Enter the screen
\* shows the line that the shell has, and a command that is awaited has taken it.
LineInv ==
    /\ prompt \in {<<>>, Prompt} /\ current_cmd \in Seq(Char) /\ apart \in BOOLEAN
    /\ spc = "await" => current_cmd = <<>>
    /\ spc # "await" /\ ~command_pending /\ ~apart => LineAt(Writer, Text(prompt, current_cmd))

\* A line of no characters.
LEMMA NoText ==
    /\ <<>> \in Seq(Byte) /\ <<>> \in Seq(Char) /\ Len(Text(<<>>, <<>>)) = 0
    /\ Len(Text(Prompt, <<>>)) = 2 /\ Text(Prompt, <<>>)[1] = ">" /\ Text(Prompt, <<>>)[2] = Blank
  <1>1. <<>> \in Seq(Byte) /\ <<>> \in Seq(Char) /\ Len(<<>>) = 0
    BY SMTT(30)
  <1>2. Prompt \in Seq(Byte) /\ Len(Prompt) = 2 /\ Prompt[1] = ">" /\ Prompt[2] = Blank
        /\ 1 \in 1 .. 2 /\ 2 \in 1 .. 2
    BY Texts DEF Prompt
  <1>3. /\ Len(Text(<<>>, <<>>)) = Len(<<>>) + Len(<<>>)
        /\ Len(Text(Prompt, <<>>)) = Len(Prompt) + Len(<<>>)
        /\ \A i \in 1 .. Len(Prompt) : Text(Prompt, <<>>)[i] = Prompt[i]
    BY <1>1, <1>2, TextLaws, Zenon
  <1>4. Len(Text(<<>>, <<>>)) = 0 /\ Len(Text(Prompt, <<>>)) = 2
    BY <1>1, <1>2, <1>3
  <1> QED
    BY <1>1, <1>2, <1>3, <1>4, Zenon

\* The prompt, printed where a row starts, is the line.
LEMMA PromptLine ==
    ASSUME NEW w, ScreenOK(w), w.column = 0
    PROVE  LineAt(_print(w, Prompt), Text(Prompt, <<>>))
  <1> DEFINE a == ">"
             v == Typed(w, a)
             one == <<a>>
             none == <<>>
             two == Text(Prompt, <<>>)
  <1>1. _print(w, Prompt) = Typed(v, Blank)
    <2>1. Len(Prompt) = 2 /\ Prompt[1] = a /\ Prompt[2] = Blank
      BY DEF Prompt
    <2> HIDE DEF a
    <2>2. _print(w, Prompt) = Typed(Typed(w, Prompt[1]), Prompt[2])
      BY <2>1, PrintShort, Zenon
    <2> QED
      BY <2>1, <2>2, Zenon
  <1>2. a \in Byte /\ Blank \in Byte /\ a # NL /\ Blank # NL /\ Glyph(a) = a /\ Glyph(Blank) = Blank
    <2>1. a \in Printable /\ NL \notin Printable /\ Printable \cap Control = {}
          /\ Blank \notin Control /\ Blank # NL
      BY ConsoleConstants, ScreenConstants, Zenon DEF Blank, NL, Block
    <2> HIDE DEF a
    <2> QED
      BY <2>1, Zenon DEF Byte, Glyph
  <1>3. Len(none) = 0 /\ Len(none) \in Nat /\ Len(one) = Len(none) + 1 /\ one[Len(none) + 1] = a
        /\ (\A i \in 1 .. Len(none) : one[i] = none[i])
        /\ Len(one) \in Nat /\ Len(one) = 1 /\ 1 + 1 = 2 /\ one[1] = a
        /\ \A i \in 1 .. Len(one) : i = 1
    OBVIOUS
  <1>4. Len(two) = 2 /\ two[1] = a /\ two[2] = Blank
    BY NoText, Zenon
  <1> HIDE DEF a, one, none, two
  <1>5. LineAt(w, none) /\ one[Len(none) + 1] = Glyph(a)
    BY <1>2, <1>3, StartLine, Zenon
  <1>6. ScreenOK(v)
    BY <1>2, TypedScreen, Zenon
  <1>7. LineAt(v, one)
    <2>1. a \in Byte /\ a # NL /\ Len(none) \in Nat /\ Len(one) = Len(none) + 1
          /\ \A i \in 1 .. Len(none) : one[i] = none[i]
      BY <1>2, <1>3, Zenon
    <2> QED
      BY <1>5, <2>1, TypedLine, Zenon
  <1> HIDE DEF v
  <1>8. Len(two) = Len(one) + 1 /\ two[Len(one) + 1] = Glyph(Blank)
        /\ \A i \in 1 .. Len(one) : two[i] = one[i]
    BY <1>2, <1>3, <1>4, Zenon
  <1>9. LineAt(Typed(v, Blank), two)
    BY <1>2, <1>3, <1>6, <1>7, <1>8, TypedLine, Zenon
  <1> QED
    BY <1>1, <1>9, Zenon DEF two

\* At boot nothing is typed and nothing is printed.
LEMMA InitLine == Init => LineInv
  <1> SUFFICES ASSUME Init PROVE LineInv
    OBVIOUS
  <1>1. prompt = <<>> /\ current_cmd = <<>> /\ apart = FALSE /\ column_position = 0
    BY Zenon DEF Init, ShellInit, ScreenInit
  <1>2. Writer.column = 0
    BY <1>1, Zenon DEF Writer
  <1>3. LineAt(Writer, Text(<<>>, <<>>))
    BY <1>2, NoText, StartLine, Zenon
  <1>4. apart \in BOOLEAN
    BY <1>1, Zenon
  <1> QED
    BY <1>1, <1>3, <1>4, NoText, Zenon DEF LineInv

\* A key that is echoed: the screen's line and the shell's change alike, unless a
\* Backspace finds only one of the two to change.
LEMMA EchoLine ==
    ASSUME ShellInv, ScreenOK(Writer), LineInv, DrainAndEcho
    PROVE  LineInv'
  <1> DEFINE e == Head(key_event_queue)
             text == Text(prompt, current_cmd)
  <1>1. e \in Event /\ shift \in BOOLEAN /\ command_pending \in BOOLEAN
    BY SMTT(30) DEF DrainAndEcho, Drain, ShellInv
  <1>2. e.key \in Keys
    BY <1>1 DEF Event
  <1>3. /\ spc = "drain" /\ spc' = spc /\ prompt' = prompt
        /\ command_pending' = (command_pending \/ e.key = "Enter")
        /\ apart' = (\/ apart
                     \/ e.key = "Backspace" /\ (current_cmd = <<>>) # (column_position = 0))
        /\ current_cmd' = CASE e.key \in Letters \cup {"Space"} ->
                                  Append(current_cmd, <<e.key, shift>>)
                            [] e.key = "Backspace" -> Pop(current_cmd)
                            [] OTHER -> current_cmd
        /\ Shows(Echo(e))
    BY Zenon DEF DrainAndEcho, Drain
  <1>4. Writer' = Echo(e)
    BY <1>1, <1>3, EchoScreen, ShowsKeeps, Zenon
  <1>5. prompt \in {<<>>, Prompt} /\ prompt \in Seq(Byte) /\ current_cmd \in Seq(Char)
        /\ apart \in BOOLEAN
    BY Texts, NoText, Zenon DEF LineInv
  <1>6. spc' # "await" /\ (spc' = "await" => current_cmd' = <<>>)
    BY <1>3
  <1>7. ~command_pending /\ ~apart => LineAt(Writer, text)
    <2>1. spc # "await"
      BY <1>3
    <2> QED
      BY <2>1, Zenon DEF LineInv
  <1>8. apart' \in BOOLEAN /\ (~apart' => ~apart) /\ (~command_pending' => ~command_pending)
    <2>1. apart' \in BOOLEAN /\ (~apart' => ~apart)
      <3> DEFINE odd == e.key = "Backspace" /\ (current_cmd = <<>>) # (column_position = 0)
      <3>1. odd \in BOOLEAN
        OBVIOUS
      <3> HIDE DEF odd
      <3>2. apart' = (apart \/ odd)
        BY <1>3, Zenon DEF odd
      <3> QED
        BY <1>5, <3>1, <3>2
    <2>2. ~command_pending' => ~command_pending
      BY <1>1, <1>3
    <2> QED
      BY <2>1, <2>2, Zenon
  <1>9. SUFFICES /\ current_cmd' \in Seq(Char)
                 /\ ~command_pending' /\ ~apart' => LineAt(Writer', Text(prompt, current_cmd'))
    BY <1>3, <1>5, <1>6, <1>8, Zenon DEF LineInv
  <1>10. CASE e.key \in Letters \cup {"Space"}
    <2> DEFINE c == <<e.key, shift>>
               b == Shown(c)
               more == Text(prompt, Append(current_cmd, c))
    <2>1. current_cmd' = Append(current_cmd, c)
      BY <1>3, <1>10, ShellConstants
    <2>2. c \in Char /\ b \in Byte /\ b # NL
      BY <1>1, <1>10, ShownByte, Zenon DEF Char
    <2>3. Append(current_cmd, c) \in Seq(Char)
      BY <1>5, <2>2, SMTT(30)
    <2>4. Writer' = Typed(Writer, b)
      <3>1. Echo(e) = _print(Writer, <<b>>)
        BY <1>10, ShellConstants DEF Echo
      <3> HIDE DEF b
      <3>2. Len(<<b>>) = 1 /\ <<b>>[1] = b
        OBVIOUS
      <3>3. _print(Writer, <<b>>) = Typed(Writer, <<b>>[1])
        BY <3>2, PrintShort, Zenon
      <3> QED
        BY <1>4, <3>1, <3>2, <3>3, Zenon
    <2>5. Glyph(b) = b
      <3>1. b \notin Control
        <4>1. b \in Printable \cup {Blank}
          BY <1>1, <1>10, ShownByte, Zenon
        <4> QED
          BY <4>1, ScreenConstants, Zenon
      <3> QED
        BY <3>1, Zenon DEF Glyph
    <2> HIDE DEF c, b
    <2>6. /\ Len(text) \in Nat /\ Len(more) = Len(text) + 1
          /\ more[Len(text) + 1] = Shown(c)
          /\ \A i \in 1 .. Len(text) : more[i] = text[i]
      BY <1>5, <2>2, TextTyped, Zenon
    <2>7. more[Len(text) + 1] = Glyph(b)
      BY <2>5, <2>6, Zenon DEF b
    <2> HIDE DEF text, more
    <2>8. ASSUME ~command_pending', ~apart' PROVE LineAt(Typed(Writer, b), more)
      <3>1. LineAt(Writer, text)
        BY <1>7, <1>8, <2>8, Zenon
      <3>2. Len(text) \in Nat /\ Len(more) = Len(text) + 1
            /\ \A i \in 1 .. Len(text) : more[i] = text[i]
        BY <2>6, Zenon
      <3> QED
        BY <2>2, <2>7, <3>1, <3>2, TypedLine, Zenon
    <2> QED
      BY <2>1, <2>3, <2>4, <2>8, Zenon DEF more
  <1>11. CASE e.key = "Backspace"
    <2>1. current_cmd' = Pop(current_cmd) /\ Writer' = _backspace(Writer)
      BY <1>3, <1>4, <1>11, ShellConstants DEF Echo
    <2>2. Writer.column = column_position
      BY Zenon DEF Writer
    <2>3. ~apart' => (current_cmd = <<>> <=> Writer.column = 0)
      <3> DEFINE none == current_cmd = <<>>
                 zero == column_position = 0
      <3>1. none \in BOOLEAN /\ zero \in BOOLEAN
        OBVIOUS
      <3> HIDE DEF none, zero
      <3>2. apart' = (apart \/ (e.key = "Backspace" /\ none # zero))
        BY <1>3, Zenon DEF none, zero
      <3>3. ~apart' => (none <=> zero)
        BY <1>11, <3>1, <3>2, SMTT(30)
      <3> QED
        BY <2>2, <3>3, Zenon DEF none, zero
    <2>4. CASE current_cmd = <<>>
      <3>1. Pop(current_cmd) = <<>>
        BY <2>4, NoText DEF Pop
      <3>2. ~apart' => Writer' = Writer
        BY <2>1, <2>3, <2>4, Zenon DEF _backspace
      <3> QED
        BY <1>5, <1>7, <1>8, <2>1, <2>4, <3>1, <3>2, NoText, Zenon
    <2>5. CASE current_cmd # <<>>
      <3> DEFINE less == Text(prompt, Pop(current_cmd))
      <3>1. /\ Pop(current_cmd) \in Seq(Char) /\ Len(text) \in Nat \ {0}
            /\ Len(less) = Len(text) - 1 /\ \A i \in 1 .. Len(less) : less[i] = text[i]
        BY <1>5, <2>5, TextErased, Zenon
      <3> HIDE DEF text, less
      <3>2. ASSUME ~command_pending', ~apart' PROVE LineAt(_backspace(Writer), less)
        <4>1. LineAt(Writer, text) /\ Writer.column # 0
          BY <1>7, <1>8, <2>3, <2>5, <3>2, Zenon
        <4> QED
          BY <3>1, <4>1, BackspaceLine, Zenon
      <3> QED
        BY <2>1, <3>1, <3>2, Zenon DEF less
    <2> QED
      BY <2>4, <2>5, Zenon
  <1>12. CASE e.key = "Enter"
    <2>1. command_pending' = TRUE /\ current_cmd' = current_cmd
      BY <1>1, <1>3, <1>12, ShellConstants, Zenon
    <2> QED
      BY <1>5, <2>1, Zenon
  <1>13. CASE e.key \in {"ShiftDown", "ShiftUp"}
    <2>1. current_cmd' = current_cmd /\ Writer' = Writer
      BY <1>3, <1>4, <1>13, ShellConstants DEF Echo
    <2> QED
      BY <1>5, <1>7, <1>8, <2>1, Zenon
  <1> QED
    BY <1>2, <1>10, <1>11, <1>12, <1>13, Zenon DEF Keys

\* The prompt that follows a command starts the next line.
LEMMA PrintPromptLine ==
    ASSUME ScreenOK(Writer), NEW w \in Finished \cup {Writer}, PrintPrompt(w),
           current_cmd' = <<>>
    PROVE  LineInv'
  <1>1. ScreenOK(w) /\ ScreenOK(_print(w, Prompt)) /\ Shows(_print(w, Prompt))
        /\ prompt' = Prompt /\ apart' = (w.column # 0)
    BY FinishedScreen, Zenon DEF PrintPrompt
  <1>2. Writer' = _print(w, Prompt)
    BY <1>1, ShowsKeeps, Zenon
  <1>3. apart' \in BOOLEAN /\ (~apart' => w.column = 0)
    BY <1>1, Zenon
  <1>4. ~apart' => LineAt(Writer', Text(Prompt, <<>>))
    BY <1>1, <1>2, <1>3, PromptLine, Zenon
  <1> QED
    BY <1>1, <1>3, <1>4, NoText, Zenon DEF LineInv

\* A step that leaves the line and the screen alone.
LEMMA QuietLine ==
    ASSUME LineInv, UNCHANGED <<scvars, prompt, apart, current_cmd>>,
           spc' = "await" => current_cmd = <<>>,
           spc' # "await" /\ ~command_pending' => spc # "await" /\ ~command_pending
    PROVE  LineInv'
  <1>1. Writer' = Writer /\ prompt' = prompt /\ apart' = apart /\ current_cmd' = current_cmd
    BY Zenon DEF scvars, Writer
  <1>2. apart' \in BOOLEAN /\ (~apart' => ~apart)
    BY <1>1, SMTT(30) DEF LineInv
  <1>3. LineAt(Writer, Text(prompt, current_cmd)) => LineAt(Writer', Text(prompt', current_cmd'))
    BY <1>1, Zenon
  <1>4. prompt' \in {<<>>, Prompt} /\ current_cmd' \in Seq(Char)
        /\ (spc' = "await" => current_cmd' = <<>>)
    BY <1>1, Zenon DEF LineInv
  <1>5. spc' # "await" /\ ~command_pending' /\ ~apart' =>
           LineAt(Writer', Text(prompt', current_cmd'))
    BY <1>2, <1>3, Zenon DEF LineInv
  <1> QED
    BY <1>2, <1>4, <1>5, Zenon DEF LineInv

\* Every step of the console keeps the line.
LEMMA LineStep == ShellInv /\ ScreenOK(Writer) /\ LineInv /\ [Next]_vars => LineInv'
  <1> SUFFICES ASSUME ShellInv, ScreenOK(Writer), LineInv, [Next]_vars PROVE LineInv'
    BY SMTT(30)
  <1>1. CASE DrainAndEcho
    BY <1>1, EchoLine, Zenon
  <1>2. CASE TakeAndRun
    <2>1. /\ spc = "take" /\ (command_pending => current_cmd' = <<>>)
          /\ (~command_pending => current_cmd' = current_cmd /\ spc' = "yield")
      BY <1>2 DEF TakeAndRun, Take
    <2>2. CASE ~command_pending
      <3>1. UNCHANGED <<scvars, prompt, apart>>
        BY <1>2, <2>2, Zenon DEF TakeAndRun, OffScreen
      <3>2. spc # "await" /\ spc' # "await"
        BY <2>1, <2>2
      <3> QED
        BY <2>1, <2>2, <3>1, <3>2, QuietLine, Zenon
    <2>3. CASE command_pending /\ spc' = "await"
      <3>1. UNCHANGED <<scvars, prompt, apart>>
        BY <1>2, <2>3, Zenon DEF TakeAndRun, OffScreen
      <3>2. prompt' \in {<<>>, Prompt} /\ current_cmd' = <<>> /\ current_cmd' \in Seq(Char)
        BY <2>1, <2>3, <3>1, NoText, Zenon DEF LineInv
      <3>3. apart' \in BOOLEAN
        BY <3>1 DEF LineInv
      <3> QED
        BY <2>3, <3>2, <3>3, Zenon DEF LineInv
    <2>4. CASE command_pending /\ spc' # "await"
      <3>1. PICK w \in Finished \cup {Writer} : PrintPrompt(w)
        BY <1>2, <2>4, Zenon DEF TakeAndRun
      <3> QED
        BY <2>1, <2>4, <3>1, PrintPromptLine, Zenon
    <2> QED
      BY <2>2, <2>3, <2>4, Zenon
  <1>3. CASE Draw
    <2>1. spc = "await" /\ UNCHANGED <<svars, prompt, apart>>
      BY <1>3, Zenon DEF Draw
    <2>2. spc' = "await" /\ current_cmd' = current_cmd
      BY <2>1, Zenon DEF svars
    <2>3. apart' \in BOOLEAN
      BY <2>1 DEF LineInv
    <2> QED
      BY <2>1, <2>2, <2>3, Zenon DEF LineInv
  <1>4. CASE EndAndPrompt
    <2>1. current_cmd' = <<>>
      BY <1>4, Zenon DEF EndAndPrompt, CommandEnds, LineInv
    <2>2. PICK w \in Finished \cup {Writer} : PrintPrompt(w)
      BY <1>4, Zenon DEF EndAndPrompt
    <2> QED
      BY <2>1, <2>2, PrintPromptLine, Zenon
  <1>5. CASE (KeyArrives \/ Drained \/ CommandTakesKey \/ Resume) /\ OffScreen
    <2>1. UNCHANGED <<scvars, prompt, apart>>
      BY <1>5, Zenon DEF OffScreen
    <2>2. UNCHANGED <<current_cmd, command_pending>> /\ (spc' = "await" <=> spc = "await")
      <3>1. CASE KeyArrives
        BY <3>1, Zenon DEF KeyArrives
      <3>2. CASE Drained
        BY <3>2 DEF Drained
      <3>3. CASE CommandTakesKey
        BY <3>3, Zenon DEF CommandTakesKey
      <3>4. CASE Resume
        BY <3>4, SMTT(30) DEF Resume
      <3> QED
        BY <1>5, <3>1, <3>2, <3>3, <3>4, Zenon
    <2>3. ~command_pending' => ~command_pending
      BY <2>2, SMTT(30) DEF ShellInv
    <2> QED
      BY <2>1, <2>2, <2>3, QuietLine, Zenon DEF LineInv
  <1>6. CASE UNCHANGED vars
    <2>1. UNCHANGED <<scvars, prompt, apart, current_cmd>> /\ spc' = spc
          /\ command_pending' = command_pending
      BY <1>6, Zenon DEF vars, svars
    <2>2. ~command_pending' => ~command_pending
      BY <2>1, SMTT(30) DEF ShellInv
    <2> QED
      BY <2>1, <2>2, QuietLine, Zenon DEF LineInv
  <1> QED
    BY <1>1, <1>2, <1>3, <1>4, <1>5, <1>6, Zenon DEF Next

\* The line on the screen and what follows it, as ScreenShowsLine states them.
LEMMA LineShows == ScreenOK(Writer) /\ LineInv => ScreenShowsLine
  <1> SUFFICES ASSUME ScreenOK(Writer), LineInv,
                      spc # "await", ~command_pending, ~apart, ~smudged
               PROVE  LET first == (Height - 1) * Width + column_position - Len(Line)
                          cell(n) == chars[n \div Width][n % Width]
                      IN  /\ first % Width = 0
                          /\ \A i \in DOMAIN Line : first + i >= 1 =>
                                cell(first + i - 1) = Line[i]
                          /\ \A c \in column_position .. Width - 1 : chars[Height - 1][c] = Blank
    BY Zenon DEF ScreenShowsLine
  <1> DEFINE first == (Height - 1) * Width + column_position - Len(Line)
  <1>1. Line = Text(prompt, current_cmd)
    BY Zenon DEF Line, Text
  <1>2. prompt \in Seq(Byte) /\ current_cmd \in Seq(Char)
    BY Texts, NoText, Zenon DEF LineInv
  <1>3. Line \in Seq(Byte)
    BY <1>1, <1>2, TextLaws, Zenon
  <1>4. DOMAIN Line = 1 .. Len(Line)
    BY <1>3
  <1>5. Writer.chars = chars /\ Writer.column = column_position /\ Writer.smudged = smudged
    BY Zenon DEF Writer
  <1>6. LineAt(Writer, Line)
    BY <1>1, Zenon DEF LineInv
  <1>7. first % Width = 0 /\ Holds(chars, first, Len(Line), Line)
    BY <1>5, <1>6, Zenon DEF LineAt, Base
  <1>8. column_position \in 0 .. Width /\ smudged \in BOOLEAN
        /\ (smudged = FALSE =>
              \A c \in Cols : c >= column_position => chars[Height - 1][c] = Blank)
    BY <1>5, Zenon DEF ScreenOK, Tidy
  <1>9. ASSUME NEW c \in column_position .. Width - 1 PROVE chars[Height - 1][c] = Blank
    <2>1. c \in Cols /\ c >= column_position
      BY <1>8, ScreenConstants DEF Cols
    <2>2. smudged = FALSE
      BY <1>8, Zenon
    <2> QED
      BY <1>8, <2>1, <2>2, Zenon
  <1> HIDE DEF first
  <1>10. \A i \in DOMAIN Line : first + i >= 1 =>
            chars[(first + i - 1) \div Width][(first + i - 1) % Width] = Line[i]
    BY <1>4, <1>7, Zenon DEF Holds, Cell
  <1> QED
    BY <1>7, <1>9, <1>10, Zenon DEF first

\* As long as no Backspace has reached the prompt or a row the line has wrapped
\* from, the line on the screen is the line that Enter would run, on a screen of
\* any size and whatever was typed and printed before.
THEOREM ScreenShowsTheLine == Spec => []ScreenShowsLine
  <1>1. Init => LineInv
    BY InitLine
  <1>2. ShellInv /\ ScreenOK(Writer) /\ LineInv /\ [Next]_vars => LineInv'
    BY LineStep
  <1> QED
    BY <1>1, <1>2, SpecScreen, LineShows, PTL DEF Spec
=============================================================================
