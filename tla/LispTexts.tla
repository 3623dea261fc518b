------------------------------ MODULE LispTexts ------------------------------
(***************************************************************************)
(* The tokenizer of LispReader fed every text, a character a step, with    *)
(* the grammar its tokens are checked against.                             *)
(***************************************************************************)
EXTENDS LispReader

CONSTANT MaxText   \* bound: characters of a text

ASSUME TextConstants == MaxText \in Nat

VARIABLES
    text,                               \* expr, as far as it is read
    tokens, current_token, in_string, in_comment

rvars == <<text, tokens, current_token, in_string, in_comment>>

Scanner == [tokens |-> tokens, current_token |-> current_token,
            in_string |-> in_string, in_comment |-> in_comment]

Init ==
    /\ text = <<>> /\ tokens = <<>> /\ current_token = <<>>
    /\ in_string = FALSE /\ in_comment = FALSE

Read ==
    /\ Len(text) < MaxText
    /\ \E c \in Special \cup Letters :
          LET s == scan(Scanner, c) IN
          /\ text' = Append(text, c)
          /\ tokens' = s.tokens /\ current_token' = s.current_token
          /\ in_string' = s.in_string /\ in_comment' = s.in_comment

Spec == Init /\ [][Read]_rvars
-----------------------------------------------------------------------------
Tokens == Flush(Scanner).tokens

\* The grammar of the tokens, without a machine: how a text is cut into lexemes.
Plain(s) == \A i \in DOMAIN s : s[i] \notin Special \ {";"}
Opens(s) == s[1] \in {Quote, "#"} /\ \A i \in 2 .. Len(s) : s[i] # s[1]
Closed(s) == Len(s) >= 2 /\ Opens(Front(s)) /\ Last(s) = s[1]
Lexeme(s) == Plain(s) \/ Closed(s) \/ s \in {<<"(">>, <<")">>, <<" ">>}
Cut(t, cuts) ==
    LET b == Ascending(cuts \cup {0, Len(t)})
    IN  [k \in 1 .. Len(b) - 1 |-> SubSeq(t, b[k] + 1, b[k + 1])]
Lexemes(p) ==
    /\ \A k \in DOMAIN p : Lexeme(p[k]) \/ (k = Len(p) /\ Opens(p[k]))
    /\ \A k \in 1 .. Len(p) - 1 : ~(Plain(p[k]) /\ Plain(p[k + 1]))

\* The lexemes that are tokens: not the blanks and the comments.
Kept(p) ==
    LET kept[k \in 0 .. Len(p)] ==
            IF k = 0 THEN <<>>
            ELSE IF p[k] = <<" ">> \/ p[k][1] = "#" THEN kept[k - 1]
            ELSE Append(kept[k - 1], p[k])
    IN  kept[Len(p)]

\* The tokens are the lexemes of the text, without the blanks and the comments,
\* and there is only one way to cut a text into lexemes: nothing is lost, joined
\* or read twice at any mix of quotes, pound signs, brackets and blanks.
TokensAreLexemes ==
    LET cuts == {c \in SUBSET (1 .. Len(text) - 1) : Lexemes(Cut(text, c))} IN
    text # <<>> => \E c \in cuts : cuts = {c} /\ Tokens = Kept(Cut(text, c))

\* Character i of t is read inside a string or a comment.
Inside(t, i) == LET s == scanned(SubSeq(t, 1, i - 1)) IN s.in_string \/ s.in_comment
Blanked(t) == [i \in DOMAIN t |-> IF t[i] = ";" THEN " " ELSE t[i]]
TokensOf(pieces) == FlattenSeq([k \in DOMAIN pieces |-> tokenize(pieces[k])])

\* Splitting at semicolons before the tokenizer runs agrees with reading the
\* whole text, a semicolon between statements being a blank, as long as no
\* semicolon is inside a string or a comment: there the split breaks it in two.
SplitKeepsTokens ==
    (\A i \in DOMAIN text : text[i] = ";" => ~Inside(text, i)) =>
        TokensOf(Split(text)) = tokenize(Blanked(text))
=============================================================================
