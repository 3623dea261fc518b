----------------------------- MODULE LispReader -----------------------------
(***************************************************************************)
(* The text side of the reader of the Lisp interpreter (parser.rs): the    *)
(* split of a program into statements and the tokenizer.  A character that *)
(* is not special stands for a run of letters.                             *)
(***************************************************************************)
EXTENDS Lists

CONSTANT Letters   \* characters that are not special

Quote == "\""
Special == {"(", ")", Quote, "#", ";", " "}

ASSUME ReaderConstants == Letters \cap Special = {}

Start == [tokens |-> <<>>, current_token |-> <<>>, in_string |-> FALSE, in_comment |-> FALSE]

\* `if !current_token.is_empty()`: the token is pushed and cleared.
Flush(s) ==
    IF s.current_token = <<>> THEN s
    ELSE [s EXCEPT !.tokens = Append(@, s.current_token), !.current_token = <<>>]

Push(s, c) == [s EXCEPT !.current_token = Append(@, c)]

\* A bug: a comment does not end the token before it.
scan_CommentJoins(s, c) ==
    IF s.in_comment THEN [s EXCEPT !.in_comment = (c # "#")]
    ELSE IF s.in_string
    THEN IF c = Quote THEN Flush([Push(s, c) EXCEPT !.in_string = FALSE]) ELSE Push(s, c)
    ELSE CASE c = "#" -> [s EXCEPT !.in_comment = TRUE]
           [] c = Quote -> Push([Flush(s) EXCEPT !.in_string = TRUE], c)
           [] c \in {"(", ")"} -> [Flush(s) EXCEPT !.tokens = Append(@, <<c>>)]
           [] c = " " -> Flush(s)
           [] OTHER -> Push(s, c)

\* The body of the tokenizer's loop.
scan(s, c) ==
    IF s.in_comment THEN [s EXCEPT !.in_comment = (c # "#")]
    ELSE IF s.in_string
    THEN IF c = Quote THEN Flush([Push(s, c) EXCEPT !.in_string = FALSE]) ELSE Push(s, c)
    ELSE CASE c = "#" -> [Flush(s) EXCEPT !.in_comment = TRUE]
           [] c = Quote -> Push([Flush(s) EXCEPT !.in_string = TRUE], c)
           [] c \in {"(", ")"} -> [Flush(s) EXCEPT !.tokens = Append(@, <<c>>)]
           [] c = " " -> Flush(s)
           [] OTHER -> Push(s, c)

\* The tokenizer's state behind expr.
scanned(expr) ==
    LET behind[i \in 0 .. Len(expr)] == IF i = 0 THEN Start ELSE scan(behind[i - 1], expr[i])
    IN  behind[Len(expr)]

tokenize(expr) == Flush(scanned(expr)).tokens

\* A bug: a statement keeps its semicolon (split_inclusive).
Split_Inclusive(code) ==
    LET cuts == Ascending({0, Len(code)} \cup {i \in DOMAIN code : code[i] = ";"})
    IN  [k \in 1 .. Len(cuts) - 1 |-> SubSeq(code, cuts[k] + 1, cuts[k + 1])]

\* str::split(";"): the pieces between the semicolons, the last one included.
Split(code) ==
    LET cuts == Ascending({0, Len(code) + 1} \cup {i \in DOMAIN code : code[i] = ";"})
    IN  [k \in 1 .. Len(cuts) - 1 |-> SubSeq(code, cuts[k] + 1, cuts[k + 1] - 1)]

\* The statements of a program: what follows the last semicolon is dropped.
statments(code) == Front(Split(code))
=============================================================================
