------------------------------- MODULE Editor -------------------------------
(***************************************************************************)
(* The eden editor (editor/mod.rs): the lines, the cursor, one action per  *)
(* key, and the load and save of run_editor around them.                   *)
(*                                                                         *)
(* A line is a sequence of bytes, because cursor_x is a byte index into a  *)
(* String.  A character is one byte of Chars, or, in a file made elsewhere,*)
(* the two bytes Wide, of which no String index may separate the second.   *)
(***************************************************************************)
EXTENDS Integers, Sequences, Functions

CONSTANTS
    Chars,     \* one-byte characters, as the keyboard types them
    NL,        \* the line break
    Lead, Cont,\* the bytes of a character of two bytes
    InitTexts, \* contents the file may have when the editor is first opened
    Absent,    \* there is no such file
    Damaged,   \* what a failed overwrite_file leaves
    MaxKeys    \* bound: keys in a behaviour

ASSUME EditorConstants ==
    /\ NL \notin Chars /\ {Lead, Cont} \cap (Chars \cup {NL}) = {} /\ Lead # Cont
    /\ InitTexts \subseteq Seq(Chars \cup {NL, Lead, Cont})
    /\ Absent \notin Seq(Chars \cup {NL, Lead, Cont})
    /\ Damaged \notin Seq(Chars \cup {NL, Lead, Cont}) \cup {Absent}
    /\ MaxKeys \in Nat

VARIABLES
    lines, cursor_x, cursor_y,
    mode,   \* "editing", "closed", or "panic"
    file,   \* the file's content on the disk
    saved,  \* whether the last save succeeded
    keys    \* keys so far

evars == <<lines, cursor_x, cursor_y, mode, file, saved, keys>>

Line == lines[cursor_y + 1]

\* String::insert, Vec::insert and Vec::remove, at a position counted from 1.
InsertAt(s, i, x) == SubSeq(s, 1, i - 1) \o <<x>> \o SubSeq(s, i, Len(s))
RemoveAt(s, i) == SubSeq(s, 1, i - 1) \o SubSeq(s, i + 1, Len(s))

\* A bug: a split that also drops the empty pieces.
Lines_DropsEmpty(text) ==
    LET upto[i \in 0 .. Len(text)] ==
            IF i = 0 THEN [done |-> <<>>, rest |-> <<>>]
            ELSE LET so_far == upto[i - 1] IN
                 IF text[i] # NL THEN [so_far EXCEPT !.rest = Append(@, text[i])]
                 ELSE IF so_far.rest = <<>> THEN so_far
                 ELSE [done |-> Append(so_far.done, so_far.rest), rest |-> <<>>]
        all == upto[Len(text)]
    IN  IF all.rest = <<>> THEN all.done ELSE Append(all.done, all.rest)

\* str::lines: the pieces between line breaks, without an empty last one.
Lines(text) ==
    LET upto[i \in 0 .. Len(text)] ==
            IF i = 0 THEN [done |-> <<>>, rest |-> <<>>]
            ELSE LET so_far == upto[i - 1] IN
                 IF text[i] # NL THEN [so_far EXCEPT !.rest = Append(@, text[i])]
                 ELSE [done |-> Append(so_far.done, so_far.rest), rest |-> <<>>]
        all == upto[Len(text)]
    IN  IF all.rest = <<>> THEN all.done ELSE Append(all.done, all.rest)

\* lines.join("\n")
Join(ls) ==
    LET join[i \in 1 .. Len(ls)] ==
            IF i = 1 THEN ls[1] ELSE join[i - 1] \o <<NL>> \o ls[i]
    IN  join[Len(ls)]

\* A String may be split or changed at index i (counted from 0) of this line;
\* anywhere else insert, remove and split_off panic.
Boundary(line, i) == i = Len(line) \/ (i < Len(line) /\ line[i + 1] # Cont)

\* Editor::new on the file's content, or on nothing.
New(text) ==
    /\ lines' = IF Lines(text) = <<>> THEN <<<<>>>> ELSE Lines(text)
    /\ cursor_x' = 0 /\ cursor_y' = 0

Init ==
    /\ lines = <<<<>>>> /\ cursor_x = 0 /\ cursor_y = 0
    /\ mode = "closed" /\ saved = TRUE /\ keys = 0
    /\ file \in InitTexts \cup {Absent}

\* run_editor up to its loop.
Open ==
    /\ mode = "closed" /\ file # Damaged /\ keys < MaxKeys
    /\ New(IF file = Absent THEN <<>> ELSE file)
    /\ mode' = "editing"
    /\ UNCHANGED <<file, saved, keys>>

Key == mode = "editing" /\ keys < MaxKeys /\ keys' = keys + 1
Kept == UNCHANGED <<mode, file, saved>>
Panic == mode' = "panic" /\ UNCHANGED <<lines, cursor_x, cursor_y, file, saved>>

insert_char(c) ==
    /\ Key /\ c # NL
    /\ IF Boundary(Line, cursor_x)
       THEN /\ lines' = [lines EXCEPT ![cursor_y + 1] =
                            InsertAt(Line, cursor_x + 1, c)]
            /\ cursor_x' = cursor_x + 1
            /\ UNCHANGED cursor_y /\ Kept
       ELSE Panic

\* A bug: the rest of the line is copied to the new one and not cut off.
insert_newline_KeepsTail ==
    /\ Key
    /\ IF Boundary(Line, cursor_x)
       THEN /\ lines' = InsertAt(lines, cursor_y + 2,
                            SubSeq(Line, cursor_x + 1, Len(Line)))
            /\ cursor_y' = cursor_y + 1 /\ cursor_x' = 0
            /\ Kept
       ELSE Panic

insert_newline ==
    /\ Key
    /\ IF Boundary(Line, cursor_x)
       THEN /\ lines' = InsertAt([lines EXCEPT ![cursor_y + 1] =
                                     SubSeq(Line, 1, cursor_x)],
                                 cursor_y + 2,
                                 SubSeq(Line, cursor_x + 1, Len(Line)))
            /\ cursor_y' = cursor_y + 1 /\ cursor_x' = 0
            /\ Kept
       ELSE Panic

\* remove takes a whole character out: two bytes when the first is Lead.
backspace ==
    /\ Key
    /\ IF cursor_x > 0
       THEN IF Boundary(Line, cursor_x - 1)
            THEN LET width == IF Line[cursor_x] = Lead THEN 2 ELSE 1 IN
                 /\ cursor_x' = cursor_x - 1
                 /\ lines' = [lines EXCEPT ![cursor_y + 1] =
                                 SubSeq(Line, 1, cursor_x - 1)
                                 \o SubSeq(Line, cursor_x + width, Len(Line))]
                 /\ UNCHANGED cursor_y /\ Kept
            ELSE Panic
       ELSE IF cursor_y > 0
       THEN /\ lines' = RemoveAt([lines EXCEPT ![cursor_y] = @ \o Line], cursor_y + 1)
            /\ cursor_y' = cursor_y - 1
            /\ cursor_x' = Len(lines[cursor_y])
            /\ Kept
       ELSE UNCHANGED <<lines, cursor_x, cursor_y>> /\ Kept

move_cursor_left ==
    /\ Key
    /\ IF cursor_x > 0
       THEN cursor_x' = cursor_x - 1 /\ UNCHANGED cursor_y
       ELSE IF cursor_y > 0
       THEN cursor_y' = cursor_y - 1 /\ cursor_x' = Len(lines[cursor_y])
       ELSE UNCHANGED <<cursor_x, cursor_y>>
    /\ UNCHANGED lines /\ Kept

move_cursor_right ==
    /\ Key
    /\ IF cursor_x < Len(Line)
       THEN cursor_x' = cursor_x + 1 /\ UNCHANGED cursor_y
       ELSE IF cursor_y < Len(lines) - 1
       THEN cursor_y' = cursor_y + 1 /\ cursor_x' = 0
       ELSE UNCHANGED <<cursor_x, cursor_y>>
    /\ UNCHANGED lines /\ Kept

\* The cursor moves to line y, no further right than its end.
ClampedMove(y) ==
    /\ cursor_y' = y
    /\ cursor_x' = IF cursor_x > Len(lines[y + 1]) THEN Len(lines[y + 1]) ELSE cursor_x

move_cursor_up ==
    /\ Key
    /\ IF cursor_y > 0 THEN ClampedMove(cursor_y - 1)
       ELSE UNCHANGED <<cursor_x, cursor_y>>
    /\ UNCHANGED lines /\ Kept

\* A bug: the column is kept on a shorter line.
move_cursor_down_NoClamp ==
    /\ Key
    /\ IF cursor_y < Len(lines) - 1
       THEN cursor_y' = cursor_y + 1 /\ UNCHANGED cursor_x
       ELSE UNCHANGED <<cursor_x, cursor_y>>
    /\ UNCHANGED lines /\ Kept

move_cursor_down ==
    /\ Key
    /\ IF cursor_y < Len(lines) - 1 THEN ClampedMove(cursor_y + 1)
       ELSE UNCHANGED <<cursor_x, cursor_y>>
    /\ UNCHANGED lines /\ Kept

\* Escape saves over the file or into a new one and leaves, whatever the file
\* system answered; without a file system nothing is written.
Save ==
    /\ Key
    /\ mode' = "closed"
    /\ \/ file' = Join(lines) /\ saved' = TRUE
       \/ saved' = FALSE /\ (file' = file \/ (file # Absent /\ file' = Damaged))
    /\ UNCHANGED <<lines, cursor_x, cursor_y>>

Next ==
    \/ Open \/ Save
    \/ \E c \in Chars : insert_char(c)
    \/ insert_newline \/ backspace
    \/ move_cursor_left \/ move_cursor_right \/ move_cursor_up \/ move_cursor_down

Spec == Init /\ [][Next]_evars
-----------------------------------------------------------------------------
\* The text before the cursor, and the rest, as a user counts them.
Before == Join(SubSeq(lines, 1, cursor_y) \o <<SubSeq(Line, 1, cursor_x)>>)
After == Join(<<SubSeq(Line, cursor_x + 1, Len(Line))>>
              \o SubSeq(lines, cursor_y + 2, Len(lines)))

\* The file the editor was opened on is made of one-byte characters only.
OneByte == file \in {Absent, Damaged} \/ {Lead, Cont} \cap Range(file) = {}
Shown(text) == IF mode = "editing" /\ OneByte THEN text ELSE <<>>

Buffer == INSTANCE TextBuffer WITH before <- Shown(Before), after <- Shown(After)

\* With one-byte characters every key does to the text what TextBuffer says:
\* the Vec of lines, its splits and joins, and the two cursor numbers are an
\* implementation of a text with a cursor.
ImplementsTextBuffer == Buffer!Spec

\* Opening the file just saved and reopening it shows the same lines, except
\* that one empty last line is dropped: join writes no final line break.
ReopenShowsSaved ==
    [][Open /\ file # Absent =>
         LET text == Join(lines') IN text = file \/ Append(text, NL) = file]_evars

\* A key stops the kernel only in a file with a character of several bytes,
\* where the arrows and backspace step by bytes and cursor_x may stand inside
\* the character when insert, remove or split_off is called.
PanicNeedsWideCharacter == mode = "panic" => ~OneByte
=============================================================================
