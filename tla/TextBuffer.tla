----------------------------- MODULE TextBuffer -----------------------------
(***************************************************************************)
(* What the keys of the eden editor do, as a user sees it: a text with a   *)
(* cursor between two of its characters, line breaks being characters.     *)
(***************************************************************************)
EXTENDS Integers, Sequences, FiniteSets

CONSTANTS Chars, NL

VARIABLES before, after   \* the text on either side of the cursor

Text == before \o after
Front(s) == SubSeq(s, 1, Len(s) - 1)
Last(s) == s[Len(s)]

Insert ==
    /\ \E c \in Chars \cup {NL} : before' = Append(before, c)
    /\ UNCHANGED after

Backspace ==
    /\ before # <<>> /\ before' = Front(before)
    /\ UNCHANGED after

Left ==
    /\ before # <<>>
    /\ before' = Front(before) /\ after' = <<Last(before)>> \o after

Right ==
    /\ after # <<>>
    /\ before' = Append(before, Head(after)) /\ after' = Tail(after)

LineNumber(s) == Cardinality({i \in 1 .. Len(s) : s[i] = NL})
Column(s) == Len(s) - CHOOSE i \in 0 .. Len(s) :
                /\ i = 0 \/ s[i] = NL
                /\ \A j \in i + 1 .. Len(s) : s[j] # NL

\* Up and down go one line away, to the same column or, on a shorter line, to
\* its end.
Vertical ==
    /\ before' \o after' = Text
    /\ LineNumber(before') - LineNumber(before) \in {-1, 1}
    /\ Column(before') <= Column(before)
    /\ \/ Column(before') = Column(before)
       \/ after' = <<>> \/ Head(after') = NL

\* Opening a file replaces the text and puts the cursor at its start; leaving
\* the editor empties it.
Open == before' = <<>> /\ after' \in Seq(Chars \cup {NL})

Next == Insert \/ Backspace \/ Left \/ Right \/ Vertical \/ Open

Spec == (before = <<>> /\ after \in Seq(Chars \cup {NL})) /\ [][Next]_<<before, after>>
=============================================================================
