------------------------------- MODULE Lists -------------------------------
(***************************************************************************)
(* The few operators on sequences that the models with proofs use.  They   *)
(* are those of SequencesExt, without the bags and folds which that module *)
(* would add to the context of every proof step.                           *)
(***************************************************************************)
EXTENDS Integers, Sequences, FiniteSets

Last(s) == s[Len(s)]
Front(s) == SubSeq(s, 1, Len(s) - 1)

\* The sequences of ss one after the other.
FlattenSeq(ss) ==
    IF Len(ss) = 0 THEN <<>>
    ELSE LET joined[i \in 1 .. Len(ss)] ==
                 IF i = 1 THEN ss[i] ELSE joined[i - 1] \o ss[i]
         IN  joined[Len(ss)]

\* The members of a set of numbers, in ascending order.
Ascending(S) == [k \in 1 .. Cardinality(S) |->
                    CHOOSE x \in S : Cardinality({y \in S : y < x}) = k - 1]
=============================================================================
