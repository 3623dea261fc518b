------------------------------- MODULE Screen -------------------------------
(***************************************************************************)
(* The text console (vga_buffer.rs): the character grid at 0xb8000, the    *)
(* Writer behind print!, and the direct writes of the editor.  Each        *)
(* operation runs under WRITER's lock, so it is one step.  Colours are     *)
(* left out, and bytes are told apart only as far as write_string does.    *)
(***************************************************************************)
EXTENDS Lists

CONSTANTS
    Width, Height,  \* BUFFER_WIDTH and BUFFER_HEIGHT
    Printable,      \* the bytes 0x20 to 0x7e, without the space
    Control         \* the other bytes, without the newline

Blank == "space"
NL == "newline"
Block == "0xfe"

ASSUME ScreenConstants ==
    /\ Width \in Nat \ {0} /\ Height \in Nat \ {0, 1}
    /\ {Blank, NL, Block} \cap (Printable \cup Control) = {} /\ Printable \cap Control = {}

VARIABLES
    chars,           \* the grid, chars[row][col], both counted from 0
    column_position, \* Writer's column
    log,             \* the last rows printed, oldest first, the current one last
    plain,           \* nothing has been drawn on the grid
    smudged          \* the last row has been drawn on since it was blank

scvars == <<chars, column_position, log, plain, smudged>>

Rows == 0 .. Height - 1
Cols == 0 .. Width - 1
BlankRow == [c \in Cols |-> Blank]

ScreenInit ==
    /\ chars = [r \in Rows |-> BlankRow] /\ column_position = 0
    /\ log = <<<<>>>> /\ plain = TRUE /\ smudged = FALSE

\* The Writer and the grid, as a record that the operations transform.
Writer == [chars |-> chars, column |-> column_position, log |-> log, plain |-> plain,
           smudged |-> smudged]
Shows(w) ==
    /\ chars' = w.chars /\ column_position' = w.column
    /\ log' = w.log /\ plain' = w.plain /\ smudged' = w.smudged

\* Every row moves up by one and the last is cleared.
new_line(w) ==
    [w EXCEPT !.chars = [r \in Rows |-> IF r < Height - 1 THEN w.chars[r + 1] ELSE BlankRow],
              !.column = 0, !.smudged = FALSE]

put(w, byte) ==
    [w EXCEPT !.chars[Height - 1][w.column] = byte, !.column = @ + 1]

\* A bug: the row is broken one column early.
write_byte_Early(w, byte) ==
    IF byte = NL THEN new_line(w)
    ELSE put(IF w.column >= Width - 1 THEN new_line(w) ELSE w, byte)

\* The row is broken when a byte finds it full, not when it becomes full.
write_byte(w, byte) ==
    IF byte = NL THEN new_line(w)
    ELSE put(IF w.column >= Width THEN new_line(w) ELSE w, byte)

Glyph(byte) == IF byte \in Control THEN Block ELSE byte

\* The rows printed, with one more byte: the last row breaks where it is full, and
\* as many rows are kept as the grid has.
Logged(rows, byte) ==
    LET all == IF byte = NL THEN Append(rows, <<>>)
               ELSE IF Len(Last(rows)) = Width THEN Append(rows, <<Glyph(byte)>>)
               ELSE Append(Front(rows), Append(Last(rows), Glyph(byte)))
    IN  IF Len(all) > Height THEN Tail(all) ELSE all

\* One turn of write_string's loop.
Typed(w, byte) == [write_byte(w, Glyph(byte)) EXCEPT !.log = Logged(@, byte)]

write_string(w, s) ==
    LET written[i \in 0 .. Len(s)] == IF i = 0 THEN w ELSE Typed(written[i - 1], s[i])
    IN  written[Len(s)]

_print(w, s) == write_string(w, s)

\* _backspace and delete_byte: the last byte of the row goes, if there is one.
_backspace(w) ==
    IF w.column = 0 THEN w
    ELSE [w EXCEPT !.column = @ - 1, !.chars[Height - 1][w.column - 1] = Blank,
                   !.log = Append(Front(@), Front(Last(@)))]

\* Writer::clear blanks the rows 0 to 23 and leaves the last row and the column.
clear(w) ==
    [w EXCEPT !.chars = [r \in Rows |-> IF r < Height - 1 THEN BlankRow ELSE @[r]],
              !.log = <<Last(@)>>]

\* Out of the grid nothing is written.  Drawing and print! share the grid.
write_char_at(w, x, y, byte) ==
    IF x >= Width \/ y >= Height THEN w
    ELSE [w EXCEPT !.chars[y][x] = byte, !.plain = FALSE, !.smudged = @ \/ y = Height - 1]
-----------------------------------------------------------------------------
Padded(row) == [c \in Cols |-> IF c < Len(row) THEN row[c + 1] ELSE Blank]

\* The screen shows the last rows of what was printed, current row at the bottom,
\* through every mix of wrapping, scrolling, backspaces and clears.
ShowsLastRows ==
    plain =>
        /\ column_position = Len(Last(log))
        /\ \A r \in Rows :
              LET n == Len(log) - (Height - 1 - r) IN
              chars[r] = IF n >= 1 THEN Padded(log[n]) ELSE BlankRow
=============================================================================
