---------------------------- MODULE ReaderProofs ----------------------------
(***************************************************************************)
(* The tokenizer finds the lexemes of every text, of any length and over   *)
(* any letters.                                                            *)
(***************************************************************************)
EXTENDS LispTexts, DataLemmas, SequenceTheorems, FiniteSetTheorems
-----------------------------------------------------------------------------
(* Recursive functions on an interval.                                     *)

\* f starts at v and applies step i to get from one value to the next.
Follows(f, a, n, v, step) ==
    f = [i \in a .. n |-> IF i = a THEN v ELSE step[i][f[i - 1]]]

\* There is such a function.
LEMMA FollowsExists ==
    ASSUME NEW V, NEW a \in Nat, NEW n \in Nat, a <= n, NEW v \in V,
           NEW step \in [a + 1 .. n -> [V -> V]]
    PROVE  \E f \in [a .. n -> V] : Follows(f, a, n, v, step)
  <1> DEFINE T == {m \in Nat : a <= m /\ m <= n /\ ~\E f \in [a .. m -> V] : Follows(f, a, m, v, step)}
  <1>1. SUFFICES ASSUME T # {} PROVE FALSE
    BY <1>1
  <1>2. PICK m \in T : \A k \in T : m <= k
    BY <1>1, LeastNumber, Zenon
  <1>3. CASE m = a
    <2> DEFINE f == [i \in a .. m |-> v]
    <2>1. f \in [a .. m -> V]
      OBVIOUS
    <2>2. \A i \in a .. m : i = a
      BY <1>3
    <2>3. Follows(f, a, m, v, step)
      BY <2>2, Zenon DEF Follows
    <2> QED
      BY <2>1, <2>3, <1>2, Zenon
  <1>4. CASE m # a
    <2>1. m - 1 \in Nat /\ a <= m - 1 /\ m - 1 <= n /\ ~(m <= m - 1) /\ m - 1 \notin T
      BY <1>2, <1>4
    <2>2. PICK f \in [a .. m - 1 -> V] : Follows(f, a, m - 1, v, step)
      BY <2>1, Zenon
    <2> DEFINE g == [i \in a .. m |-> IF i = m THEN step[m][f[m - 1]] ELSE f[i]]
    <2>3. m \in a + 1 .. n /\ m - 1 \in a .. m - 1 /\ \A i \in a .. m : i # m => i \in a .. m - 1
      BY <1>2, <1>4
    <2>4. step[m] \in [V -> V] /\ f[m - 1] \in V
      BY <2>3, Zenon
    <2>5. g \in [a .. m -> V]
      BY <2>3, <2>4, Zenon
    <2>6. ASSUME NEW i \in a .. m, i # a
          PROVE  i - 1 \in a .. m /\ i - 1 # m /\ (i # m => i \in a .. m - 1)
      BY <2>6, <1>2
    <2>7. ASSUME NEW i \in a .. m PROVE g[i] = IF i = a THEN v ELSE step[i][g[i - 1]]
      <3>1. CASE i = m
        BY <3>1, <1>4, <2>6, <2>7, Zenon
      <3>2. CASE i # m
        <4>1. f[i] = IF i = a THEN v ELSE step[i][f[i - 1]]
          BY <2>2, <2>3, <3>2, Zenon DEF Follows
        <4>2. i # a => g[i - 1] = f[i - 1]
          BY <2>6, <2>7, Zenon
        <4> QED
          BY <3>2, <4>1, <4>2, Zenon
      <3> QED
        BY <3>1, <3>2, Zenon
    <2>8. g = [i \in a .. m |-> g[i]]
      BY Zenon
    <2> HIDE DEF g
    <2>9. Follows(g, a, m, v, step)
      BY <2>7, <2>8, Zenon DEF Follows
    <2> QED
      BY <1>2, <2>5, <2>9, Zenon
  <1> QED
    BY <1>3, <1>4, Zenon

\* Two functions that start alike and take the same steps, and that agree.
StepAlike(f, g, a, n) ==
    f[a] = g[a] /\ \A i \in a + 1 .. n : f[i - 1] = g[i - 1] => f[i] = g[i]
Alike(f, g, a, n) == \A i \in a .. n : f[i] = g[i]

\* The first do the second.
LEMMA SameSteps ==
    ASSUME NEW a \in Nat, NEW n \in Nat, NEW f, NEW g, StepAlike(f, g, a, n)
    PROVE  Alike(f, g, a, n)
  <1> DEFINE T == {i \in Nat : a <= i /\ i <= n /\ f[i] # g[i]}
  <1>1. SUFFICES T = {}
    BY DEF Alike
  <1>2. SUFFICES ASSUME T # {} PROVE FALSE
    BY <1>2
  <1>3. PICK m \in T : \A k \in T : m <= k
    BY <1>2, LeastNumber, Zenon
  <1>0. m # a
    BY <1>3, Zenon DEF StepAlike
  <1>4. m \in a + 1 .. n /\ m - 1 \in Nat /\ a <= m - 1 /\ m - 1 <= n /\ ~(m <= m - 1)
    BY <1>0, <1>3
  <1>5. m - 1 \notin T
    BY <1>3, <1>4, Zenon
  <1>6. f[m - 1] = g[m - 1]
    BY <1>4, <1>5, Zenon
  <1> QED
    BY <1>3, <1>4, <1>6, Zenon DEF StepAlike
-----------------------------------------------------------------------------
(* The body of the tokenizer's loop.                                       *)

Chars == Special \cup Letters
Texts == Seq(Chars)

\* The flags, as names that the provers do not take for formulas.
Yes == TRUE
No == FALSE

\* The tokenizer's variables: tokens, current_token, in_string, in_comment.
St(a, b, d, e) == [tokens |-> a, current_token |-> b, in_string |-> d, in_comment |-> e]
States == [tokens : Seq(Texts), current_token : Texts, in_string : BOOLEAN, in_comment : BOOLEAN]

\* The tokens once current_token is pushed.
Ended(a, b) == IF b = <<>> THEN a ELSE Append(a, b)

\* The members of States.
LEMMA StateFields ==
    ASSUME NEW s \in States
    PROVE  /\ s = St(s.tokens, s.current_token, s.in_string, s.in_comment)
           /\ s.tokens \in Seq(Texts) /\ s.current_token \in Texts
           /\ s.in_string \in BOOLEAN /\ s.in_comment \in BOOLEAN
  BY DEF States, St

\* The fields of a state.
LEMMA FieldsOf ==
    ASSUME NEW a, NEW b, NEW d, NEW e
    PROVE  /\ St(a, b, d, e).tokens = a /\ St(a, b, d, e).current_token = b
           /\ St(a, b, d, e).in_string = d /\ St(a, b, d, e).in_comment = e
  BY Zenon DEF St

\* A state is of States when its fields are.
LEMMA IsState ==
    ASSUME NEW a \in Seq(Texts), NEW b \in Texts, NEW d \in BOOLEAN, NEW e \in BOOLEAN
    PROVE  St(a, b, d, e) \in States
  BY Zenon DEF St, States

\* One field set.
SetTokens(s, x) == [s EXCEPT !.tokens = x]
SetToken(s, x) == [s EXCEPT !.current_token = x]
SetString(s, x) == [s EXCEPT !.in_string = x]
SetComment(s, x) == [s EXCEPT !.in_comment = x]

\* It takes its value and the others stay.
LEMMA FieldSet ==
    ASSUME NEW a, NEW b, NEW d, NEW e, NEW x
    PROVE  /\ SetTokens(St(a, b, d, e), x) = St(x, b, d, e)
           /\ SetToken(St(a, b, d, e), x) = St(a, x, d, e)
           /\ SetString(St(a, b, d, e), x) = St(a, b, x, e)
           /\ SetComment(St(a, b, d, e), x) = St(a, b, d, x)
  <1>1. SetTokens(St(a, b, d, e), x) = St(x, b, d, e)
    BY SMT DEF St, SetTokens
  <1>2. SetToken(St(a, b, d, e), x) = St(a, x, d, e)
    BY SMT DEF St, SetToken
  <1>3. SetString(St(a, b, d, e), x) = St(a, b, x, e)
    BY SMT DEF St, SetString
  <1>4. SetComment(St(a, b, d, e), x) = St(a, b, d, x)
    BY SMT DEF St, SetComment
  <1> QED
    BY <1>1, <1>2, <1>3, <1>4, Zenon

\* A character joins the token.
LEMMA PushIs ==
    ASSUME NEW a, NEW b, NEW d, NEW e, NEW c
    PROVE  Push(St(a, b, d, e), c) = St(a, Append(b, c), d, e)
  <1> DEFINE s == St(a, b, d, e)
  <1>1. s.current_token = b
    BY Zenon DEF St
  <1>2. Push(s, c) = SetToken(s, Append(b, c))
    <2> HIDE DEF s
    <2> QED
      BY <1>1, Zenon DEF Push, SetToken
  <1> QED
    BY <1>2, FieldSet, SMT

\* The token is pushed and cleared; there may be none.
LEMMA FlushIs ==
    ASSUME NEW a, NEW b, NEW d, NEW e
    PROVE  Flush(St(a, b, d, e)) = St(Ended(a, b), <<>>, d, e)
  <1> DEFINE s == St(a, b, d, e)
             r == St(Append(a, b), b, d, e)
             none == <<>>
  <1>1. s.current_token = b /\ s.tokens = a
    BY Zenon DEF St
  <1>2. SetTokens(s, Append(a, b)) = r
    BY FieldSet, SMT
  <1>3. SetToken(r, none) = St(Append(a, b), none, d, e)
    BY FieldSet, SMT
  <1> HIDE DEF s, r
  <1>4. Flush(s) = IF b = <<>> THEN s ELSE SetToken(r, none)
    BY <1>1, <1>2, Zenon DEF Flush, SetTokens, SetToken
  <1>5. CASE b = <<>>
    <2>1. Ended(a, b) = a /\ Flush(s) = s
      BY <1>4, <1>5, Zenon DEF Ended
    <2> QED
      BY <1>5, <2>1, Zenon DEF s
  <1>6. CASE b # <<>>
    <2>1. Ended(a, b) = Append(a, b)
      BY <1>6, Zenon DEF Ended
    <2>2. Flush(s) = St(Append(a, b), none, d, e)
      BY <1>3, <1>4, <1>6, Zenon
    <2> QED
      BY <2>1, <2>2, Zenon DEF s
  <1> QED
    BY <1>5, <1>6, Zenon

\* A text with a character more is not empty.
LEMMA NotEmpty ==
    ASSUME NEW b \in Texts, NEW c \in Chars
    PROVE  Append(b, c) # <<>> /\ Append(b, c) \in Texts
  BY AppendProperties DEF Texts

\* In a comment only the pound sign counts.
LEMMA ScanComment ==
    ASSUME NEW a, NEW b, NEW d, NEW c
    PROVE  /\ c = "#" => scan(St(a, b, d, Yes), c) = St(a, b, d, No)
           /\ c # "#" => scan(St(a, b, d, Yes), c) = St(a, b, d, Yes)
  <1> DEFINE s == St(a, b, d, Yes)
  <1>1. s.in_comment = Yes
    BY Zenon DEF St
  <1>2. SetComment(s, Yes) = St(a, b, d, Yes) /\ SetComment(s, No) = St(a, b, d, No)
    BY FieldSet, SMT
  <1> HIDE DEF s
  <1>3. scan(s, c) = SetComment(s, c # "#")
    BY <1>1, Zenon DEF scan, SetComment, Yes
  <1>4. CASE c = "#"
    <2>1. (c # "#") = No
      BY <1>4 DEF No
    <2>2. scan(s, c) = SetComment(s, No)
      BY <1>3, <2>1, Zenon
    <2> QED
      BY <1>2, <1>4, <2>2, Zenon DEF s
  <1>5. CASE c # "#"
    <2>1. (c # "#") = Yes
      BY <1>5 DEF Yes
    <2>2. scan(s, c) = SetComment(s, Yes)
      BY <1>3, <2>1, Zenon
    <2> QED
      BY <1>2, <1>5, <2>2, Zenon DEF s
  <1> QED
    BY <1>4, <1>5, Zenon

\* In a string only the quote counts.
LEMMA ScanString ==
    ASSUME NEW a, NEW b \in Texts, NEW c \in Chars
    PROVE  LET s == St(a, b, Yes, No) IN
           /\ c = Quote => scan(s, c) = St(Append(a, Append(b, c)), <<>>, No, No)
           /\ c # Quote => scan(s, c) = St(a, Append(b, c), Yes, No)
  <1> DEFINE s == St(a, b, Yes, No)
             q == Append(b, c)
             r == St(a, q, No, No)
  <1>1. Ended(a, q) = Append(a, q)
    BY NotEmpty, Zenon DEF Ended
  <1>2. Push(s, c) = St(a, q, Yes, No)
    BY PushIs, SMT
  <1>3. SetString(St(a, q, Yes, No), No) = r
    BY FieldSet, SMT
  <1>4. Flush(r) = St(Ended(a, q), <<>>, No, No)
    BY FlushIs, SMT
  <1>5. s.in_comment = No /\ s.in_string = Yes
    BY Zenon DEF St
  <1> HIDE DEF s, q, r
  <1>6. scan(s, c) = IF c = Quote THEN Flush([Push(s, c) EXCEPT !.in_string = FALSE])
                     ELSE Push(s, c)
    BY <1>5, Zenon DEF scan, Yes, No
  <1>7. [Push(s, c) EXCEPT !.in_string = FALSE] = r
    BY <1>2, <1>3, Zenon DEF No, SetString
  <1> QED
    BY <1>1, <1>2, <1>4, <1>6, <1>7, Zenon DEF s, q

\* The kind of characters that join a token.
Joins(c) == c \notin Special \ {";"}

\* A turn outside both: from tokens a and current_token b to state r.
PlainTurn(a, b, c, r) ==
    LET t == Ended(a, b) IN
    /\ c = "#" => r = St(t, <<>>, No, Yes)
    /\ c = Quote => r = St(t, Append(<<>>, c), Yes, No)
    /\ c \in {"(", ")"} => r = St(Append(t, <<c>>), <<>>, No, No)
    /\ c = " " => r = St(t, <<>>, No, No)
    /\ Joins(c) => r = St(a, Append(b, c), No, No)

\* Outside both, a special character ends the token and another one joins it.
LEMMA ScanPlain ==
    ASSUME NEW a, NEW b, NEW c
    PROVE  PlainTurn(a, b, c, scan(St(a, b, No, No), c))
  <1> DEFINE s == St(a, b, No, No)
             t == Ended(a, b)
             f == Flush(s)
             none == <<>>
             one == <<c>>
  <1>1. f = St(t, none, No, No)
    BY FlushIs, SMT
  <1>2. s.in_comment = No /\ s.in_string = No
    BY Zenon DEF St
  <1>6. Push(s, c) = St(a, Append(b, c), No, No)
    BY PushIs, SMT
  <1> HIDE DEF t, f, none, one, s
  <1>3. SetComment(f, Yes) = St(t, none, No, Yes)
    BY <1>1, FieldSet, SMT
  <1>4. Push(SetString(f, Yes), c) = St(t, Append(none, c), Yes, No)
    <2>1. SetString(f, Yes) = St(t, none, Yes, No)
      BY <1>1, FieldSet, SMT
    <2> QED
      BY <2>1, PushIs, SMT
  <1>5. SetTokens(f, Append(f.tokens, one)) = St(Append(t, one), none, No, No)
    <2>1. f.tokens = t
      BY <1>1, Zenon DEF St
    <2> QED
      BY <1>1, <2>1, FieldSet, SMT
  <1> DEFINE v1 == SetComment(f, Yes)
             v2 == Push(SetString(f, Yes), c)
             v3 == SetTokens(f, Append(f.tokens, one))
             v5 == Push(s, c)
  <1>8. scan(s, c) = CASE c = "#" -> v1 [] c = Quote -> v2 [] c \in {"(", ")"} -> v3
                       [] c = " " -> f [] OTHER -> v5
    BY <1>2, Zenon DEF scan, f, one, Yes, No, SetTokens, SetString, SetComment
  <1> HIDE DEF v1, v2, v3, v5
  <1>9. /\ c = "#" => scan(s, c) = v1
        /\ c = Quote => scan(s, c) = v2
        /\ c \in {"(", ")"} => scan(s, c) = v3
        /\ c = " " => scan(s, c) = f
        /\ Joins(c) => scan(s, c) = v5
    BY <1>8, Zenon DEF Special, Quote, Joins
  <1> QED
    BY <1>1, <1>3, <1>4, <1>5, <1>6, <1>9, Zenon DEF s, t, v1, v2, v3, v5, none, one, PlainTurn

\* The kinds of characters.
LEMMA Kinds ==
    ASSUME NEW c
    PROVE  /\ c = "#" \/ c = Quote \/ c \in {"(", ")"} \/ c = " " \/ Joins(c)
           /\ c = ";" => Joins(c)
           /\ Joins(c) => c # "#" /\ c # Quote /\ c # " " /\ c # "(" /\ c # ")"
           /\ Quote # "#" /\ Quote # " " /\ Quote # "(" /\ Quote # ")" /\ Quote # ";"
           /\ " " \in Chars
  BY Zenon DEF Special, Joins, Quote, Chars

\* The tokens of a state are texts, the pushed one too.
LEMMA EndedTyped ==
    ASSUME NEW a \in Seq(Texts), NEW b \in Texts
    PROVE  Ended(a, b) \in Seq(Texts)
  <1>1. Append(a, b) \in Seq(Texts)
    BY AppendProperties
  <1> QED
    BY <1>1, Zenon DEF Ended

\* The loop's body keeps the variables' types.
LEMMA ScanTyped ==
    ASSUME NEW s \in States, NEW c \in Chars
    PROVE  scan(s, c) \in States
  <1> DEFINE a == s.tokens
             b == s.current_token
             d == s.in_string
             e == s.in_comment
             q == Append(b, c)
             none == <<>>
             one == <<c>>
             first == Append(none, c)
  <1>1. s = St(a, b, d, e) /\ a \in Seq(Texts) /\ b \in Texts /\ d \in BOOLEAN /\ e \in BOOLEAN
    BY StateFields, Zenon
  <1>2. q \in Texts /\ none \in Texts /\ one \in Texts /\ first \in Texts
    BY <1>1, NotEmpty DEF Texts
  <1>3. /\ Ended(a, b) \in Seq(Texts)
        /\ Append(a, q) \in Seq(Texts) /\ Append(Ended(a, b), one) \in Seq(Texts)
    BY <1>1, <1>2, EndedTyped, AppendProperties, Zenon
  <1>4. Yes \in BOOLEAN /\ No \in BOOLEAN
    BY DEF Yes, No
  <1> HIDE DEF a, b, d, e, q, none, one, first
  <1>5. CASE e = TRUE
    <2>1. s = St(a, b, d, Yes)
      BY <1>1, <1>5, Zenon DEF Yes
    <2>2. scan(s, c) = St(a, b, d, No) \/ scan(s, c) = St(a, b, d, Yes)
      BY <2>1, ScanComment
    <2> QED
      BY <1>1, <1>4, <2>2, IsState, Zenon
  <1>6. CASE e = FALSE /\ d = TRUE
    <2>1. s = St(a, b, Yes, No)
      BY <1>1, <1>6, Zenon DEF Yes, No
    <2>2. scan(s, c) = St(Append(a, q), none, No, No) \/ scan(s, c) = St(a, q, Yes, No)
      BY <1>1, <2>1, ScanString, Zenon DEF q, none
    <2> QED
      BY <1>1, <1>2, <1>3, <1>4, <2>2, IsState, Zenon
  <1>7. CASE e = FALSE /\ d = FALSE
    <2>1. s = St(a, b, No, No)
      BY <1>1, <1>7, Zenon DEF No
    <2>2. \/ scan(s, c) = St(Ended(a, b), none, No, Yes)
          \/ scan(s, c) = St(Ended(a, b), first, Yes, No)
          \/ scan(s, c) = St(Append(Ended(a, b), one), none, No, No)
          \/ scan(s, c) = St(Ended(a, b), none, No, No)
          \/ scan(s, c) = St(a, q, No, No)
      <3>1. PlainTurn(a, b, c, scan(s, c))
        BY <2>1, ScanPlain, Zenon
      <3> QED
        BY <3>1, Kinds, Zenon DEF PlainTurn, q, none, one, first
    <2> QED
      BY <1>1, <1>2, <1>3, <1>4, <2>2, IsState, Zenon
  <1> QED
    BY <1>1, <1>5, <1>6, <1>7, Zenon

\* The tokenizer starts with nothing.
LEMMA StartIs == Start = St(<<>>, <<>>, No, No) /\ Start \in States
  <1>1. <<>> \in Seq(Texts) /\ <<>> \in Texts /\ No \in BOOLEAN
    BY DEF Texts, No
  <1>2. Start = St(<<>>, <<>>, No, No)
    BY Zenon DEF Start, St, No
  <1> QED
    BY <1>1, <1>2, IsState, Zenon

\* The empty text.
LEMMA EmptyText == <<>> \in Texts /\ Len(<<>>) = 0
  BY DEF Texts
-----------------------------------------------------------------------------
(* The tokens among the lexemes.                                           *)

\* A blank or a comment.
Skipped(q) == q = <<" ">> \/ q[1] = "#"

\* kept of Kept.
IsKept(f, p) ==
    f = [k \in 0 .. Len(p) |-> IF k = 0 THEN <<>>
                               ELSE IF Skipped(p[k]) THEN f[k - 1] ELSE Append(f[k - 1], p[k])]

\* It exists.
LEMMA KeptExists ==
    ASSUME NEW p \in Seq(Texts)
    PROVE  \E f \in [0 .. Len(p) -> Seq(Texts)] : IsKept(f, p)
  <1> DEFINE n == Len(p)
             none == <<>>
             V == Seq(Texts)
             step == [i \in 0 + 1 .. n |-> [s \in V |-> IF Skipped(p[i]) THEN s ELSE Append(s, p[i])]]
  <1>1. n \in Nat /\ 0 <= n /\ 0 \in Nat /\ none \in V /\ \A i \in 0 + 1 .. n : p[i] \in Texts
    OBVIOUS
  <1>2. \A i \in 0 + 1 .. n, s \in V : Append(s, p[i]) \in V
    BY <1>1, AppendProperties
  <1>3. step \in [0 + 1 .. n -> [V -> V]]
    BY <1>2, Zenon
  <1>4. ASSUME NEW i \in 0 .. n, i # 0 PROVE i \in 0 + 1 .. n /\ i - 1 \in 0 .. n
    BY <1>1, <1>4
  <1>5. \A i \in 0 + 1 .. n, s \in V : step[i][s] = IF Skipped(p[i]) THEN s ELSE Append(s, p[i])
    BY Zenon
  <1> HIDE DEF step, V, none
  <1>6. PICK f \in [0 .. n -> V] : Follows(f, 0, n, none, step)
    BY <1>1, <1>3, FollowsExists, Zenon
  <1>7. ASSUME NEW i \in 0 .. n
        PROVE  f[i] = IF i = 0 THEN none
                      ELSE IF Skipped(p[i]) THEN f[i - 1] ELSE Append(f[i - 1], p[i])
    <2>1. f[i] = IF i = 0 THEN none ELSE step[i][f[i - 1]]
      BY <1>6, Zenon DEF Follows
    <2>2. i # 0 => f[i - 1] \in V /\ i \in 0 + 1 .. n
      BY <1>4, <1>6, Zenon
    <2>3. i # 0 => step[i][f[i - 1]] = IF Skipped(p[i]) THEN f[i - 1] ELSE Append(f[i - 1], p[i])
      BY <1>5, <2>2, Zenon
    <2> QED
      BY <2>1, <2>3, Zenon
  <1>8. f = [i \in 0 .. n |-> f[i]]
    BY <1>6, Zenon
  <1>9. IsKept(f, p)
    BY <1>7, <1>8, Zenon DEF IsKept, none
  <1> QED
    BY <1>6, <1>9, Zenon DEF V

\* Kept is its last value.
LEMMA KeptIs ==
    ASSUME NEW p \in Seq(Texts), NEW f, IsKept(f, p)
    PROVE  Kept(p) = f[Len(p)]
  <1> DEFINE Step(g) == [k \in 0 .. Len(p) |->
                            IF k = 0 THEN <<>>
                            ELSE IF p[k] = <<" ">> \/ p[k][1] = "#" THEN g[k - 1]
                            ELSE Append(g[k - 1], p[k])]
             v == CHOOSE g : g = Step(g)
  <1>1. Kept(p) = v[Len(p)]
    BY Zenon DEF Kept
  <1>2. \E g : g = Step(g)
    BY Zenon DEF IsKept, Skipped
  <1>3. v = Step(v)
    BY <1>2, Zenon
  <1> HIDE DEF v
  <1>4. IsKept(v, p)
    BY <1>3, Zenon DEF IsKept, Skipped
  <1>5. \A k \in 0 .. Len(p) :
          /\ v[k] = IF k = 0 THEN <<>> ELSE IF Skipped(p[k]) THEN v[k - 1] ELSE Append(v[k - 1], p[k])
          /\ f[k] = IF k = 0 THEN <<>> ELSE IF Skipped(p[k]) THEN f[k - 1] ELSE Append(f[k - 1], p[k])
    BY <1>4, Zenon DEF IsKept
  <1>6. Len(p) \in Nat /\ 0 \in 0 .. Len(p) /\ Len(p) \in 0 .. Len(p)
        /\ \A i \in 0 + 1 .. Len(p) : i \in 0 .. Len(p) /\ i # 0
    OBVIOUS
  <1>7. StepAlike(f, v, 0, Len(p)) /\ 0 \in Nat
    BY <1>5, <1>6, Zenon DEF StepAlike
  <1>8. Alike(f, v, 0, Len(p))
    BY <1>6, <1>7, SameSteps, Zenon
  <1> QED
    BY <1>1, <1>6, <1>8, Zenon DEF Alike

\* A lexeme more is a token more, unless it is skipped.
LEMMA KeptAppend ==
    ASSUME NEW p \in Seq(Texts), NEW q \in Texts
    PROVE  /\ Append(p, q) \in Seq(Texts) /\ Kept(p) \in Seq(Texts)
           /\ Skipped(q) => Kept(Append(p, q)) = Kept(p)
           /\ ~Skipped(q) => Kept(Append(p, q)) = Append(Kept(p), q)
  <1> DEFINE u == Append(p, q)
             n == Len(p)
  <1>1. u \in Seq(Texts) /\ n \in Nat /\ Len(u) = n + 1 /\ u[n + 1] = q /\ \A i \in 1 .. n : u[i] = p[i]
    BY AppendProperties
  <1> HIDE DEF u
  <1>2. PICK f \in [0 .. n -> Seq(Texts)] : IsKept(f, p)
    BY KeptExists, Zenon
  <1>3. PICK g \in [0 .. Len(u) -> Seq(Texts)] : IsKept(g, u)
    BY <1>1, KeptExists, Zenon
  <1>4. Kept(p) = f[n] /\ Kept(u) = g[n + 1]
    BY <1>1, <1>2, <1>3, KeptIs, Zenon
  <1>5. /\ n \in 0 .. n /\ n + 1 \in 0 .. n + 1 /\ n + 1 # 0 /\ (n + 1) - 1 = n
        /\ 0 \in 0 .. n /\ 0 \in 0 .. n + 1 /\ 0 \in Nat
        /\ \A i \in 0 + 1 .. n : i \in 0 .. n /\ i \in 0 .. n + 1 /\ i # 0 /\ i \in 1 .. n
    BY <1>1
  <1>6. \A k \in 0 .. n :
          f[k] = IF k = 0 THEN <<>> ELSE IF Skipped(p[k]) THEN f[k - 1] ELSE Append(f[k - 1], p[k])
    BY <1>2, Zenon DEF IsKept
  <1>7. \A k \in 0 .. n + 1 :
          g[k] = IF k = 0 THEN <<>> ELSE IF Skipped(u[k]) THEN g[k - 1] ELSE Append(g[k - 1], u[k])
    BY <1>1, <1>3, Zenon DEF IsKept
  <1>8. f[0] = g[0]
    BY <1>5, <1>6, <1>7, Zenon
  <1>9. ASSUME NEW i \in 0 + 1 .. n, f[i - 1] = g[i - 1] PROVE f[i] = g[i]
    <2>1. u[i] = p[i] /\ i # 0 /\ i \in 0 .. n /\ i \in 0 .. n + 1
      BY <1>1, <1>5, Zenon
    <2>2. f[i] = IF Skipped(p[i]) THEN f[i - 1] ELSE Append(f[i - 1], p[i])
      BY <1>6, <2>1, Zenon
    <2>3. g[i] = IF Skipped(p[i]) THEN g[i - 1] ELSE Append(g[i - 1], p[i])
      BY <1>7, <2>1, Zenon
    <2> QED
      BY <1>9, <2>2, <2>3, Zenon
  <1>10. StepAlike(f, g, 0, n)
    BY <1>8, <1>9, Zenon DEF StepAlike
  <1>11. Alike(f, g, 0, n)
    BY <1>1, <1>5, <1>10, SameSteps, Zenon
  <1>12. f[n] = g[n]
    BY <1>5, <1>11, Zenon DEF Alike
  <1>13. g[n + 1] = IF Skipped(q) THEN g[n] ELSE Append(g[n], q)
    BY <1>1, <1>5, <1>7, Zenon
  <1>14. f[n] \in Seq(Texts)
    BY <1>2, <1>5, Zenon
  <1> QED
    BY <1>1, <1>4, <1>12, <1>13, <1>14, Zenon DEF u

\* No lexeme, no token.
LEMMA KeptEmpty == Kept(<<>>) = <<>> /\ <<>> \in Seq(Texts)
  <1>1. <<>> \in Seq(Texts) /\ Len(<<>>) = 0 /\ 0 \in 0 .. 0
    OBVIOUS
  <1>2. PICK f \in [0 .. Len(<<>>) -> Seq(Texts)] : IsKept(f, <<>>)
    BY <1>1, KeptExists, Zenon
  <1>3. Kept(<<>>) = f[0]
    BY <1>1, <1>2, KeptIs
  <1>4. f[0] = <<>>
    BY <1>1, <1>2, Zenon DEF IsKept
  <1> QED
    BY <1>1, <1>3, <1>4, Zenon
-----------------------------------------------------------------------------
(* Numbers in ascending order.                                             *)

\* How many members of S are below x.
Rank(S, x) == Cardinality({y \in S : y < x})

\* The rank grows with the member.
LEMMA RankGrows ==
    ASSUME NEW S \in SUBSET Nat, IsFiniteSet(S), NEW x \in S, NEW z \in S, x < z
    PROVE  Rank(S, x) \in Nat /\ Rank(S, z) \in Nat /\ Rank(S, x) < Rank(S, z)
  <1> DEFINE A == {y \in S : y < x}
             B == {y \in S : y < z}
  <1>0. S \subseteq Nat /\ ~(x < x) /\ \A y \in S : y < x => y < z
    OBVIOUS
  <1>1. A \subseteq S /\ B \subseteq S /\ A \subseteq B /\ x \in B /\ x \notin A
    BY <1>0, Zenon
  <1>2. IsFiniteSet(A) /\ IsFiniteSet(B)
    BY <1>1, FS_Subset, Zenon
  <1>3. Cardinality(A) \in Nat /\ Cardinality(B) \in Nat
    BY <1>2, FS_CardinalityType, Zenon
  <1>4. A # B
    BY <1>1, Zenon
  <1> HIDE DEF A, B
  <1>5. Cardinality(A) <= Cardinality(B) /\ (Cardinality(B) = Cardinality(A) => B = A)
    BY <1>1, <1>2, FS_Subset, Zenon
  <1>6. Cardinality(A) < Cardinality(B)
    BY <1>3, <1>4, <1>5
  <1> QED
    BY <1>3, <1>6, Zenon DEF Rank, A, B

\* So no two members have the same rank.
NoTies(S) == \A x, z \in S : Rank(S, x) = Rank(S, z) => x = z
LEMMA RankUnique ==
    ASSUME NEW S \in SUBSET Nat, IsFiniteSet(S)
    PROVE  NoTies(S)
  <1> SUFFICES ASSUME NEW x \in S, NEW z \in S, Rank(S, x) = Rank(S, z)
               PROVE  x = z
    BY Zenon DEF NoTies
  <1>1. x \in Nat /\ z \in Nat
    OBVIOUS
  <1>2. ~(x < z)
    <2> SUFFICES ASSUME x < z PROVE FALSE
      OBVIOUS
    <2>1. Rank(S, x) \in Nat /\ Rank(S, z) \in Nat /\ Rank(S, x) < Rank(S, z)
      BY RankGrows, Zenon
    <2> QED
      BY <2>1
  <1>3. ~(z < x)
    <2> SUFFICES ASSUME z < x PROVE FALSE
      OBVIOUS
    <2>1. Rank(S, x) \in Nat /\ Rank(S, z) \in Nat /\ Rank(S, z) < Rank(S, x)
      BY RankGrows, Zenon
    <2> QED
      BY <2>1
  <1> QED
    BY <1>1, <1>2, <1>3

\* R is S with one more number, which leaves the others' ranks and has the last.
Topped(S, m, R) ==
    /\ R \in SUBSET Nat /\ IsFiniteSet(R)
    /\ Cardinality(S) \in Nat /\ Cardinality(R) = Cardinality(S) + 1
    /\ Rank(R, m) = Cardinality(S)
    /\ \A x \in S : Rank(R, x) = Rank(S, x)

\* So it is when the number is above all the others.
LEMMA RankAdd ==
    ASSUME NEW S \in SUBSET Nat, IsFiniteSet(S), NEW m \in Nat, \A y \in S : y < m
    PROVE  Topped(S, m, S \cup {m})
  <1> DEFINE R == S \cup {m}
  <1>1. m \notin S /\ R \in SUBSET Nat
    OBVIOUS
  <1>2. IsFiniteSet(R) /\ Cardinality(S) \in Nat /\ Cardinality(R) = Cardinality(S) + 1
    BY <1>1, FS_AddElement, FS_CardinalityType
  <1>0. ~(m < m) /\ \A x \in S : ~(m < x)
    OBVIOUS
  <1>3. {y \in R : y < m} = S
    BY <1>0, Zenon
  <1>4. \A x \in S : {y \in R : y < x} = {y \in S : y < x}
    BY <1>0, Zenon
  <1> HIDE DEF R
  <1>5. Rank(R, m) = Cardinality(S) /\ \A x \in S : Rank(R, x) = Rank(S, x)
    BY <1>3, <1>4, Zenon DEF Rank
  <1> QED
    BY <1>1, <1>2, <1>5, Zenon DEF R, Topped

\* Every rank is taken.
Ranked(S) == IsFiniteSet(S) /\ \A k \in 0 .. Cardinality(S) - 1 : \E x \in S : Rank(S, x) = k

\* Adding a number above keeps that.
LEMMA RankedAdd ==
    ASSUME NEW S \in SUBSET Nat, Ranked(S), NEW m \in Nat, \A y \in S : y < m
    PROVE  Ranked(S \cup {m})
  <1> DEFINE R == S \cup {m}
  <1>1. /\ R \in SUBSET Nat /\ IsFiniteSet(R) /\ Cardinality(S) \in Nat
        /\ Cardinality(R) = Cardinality(S) + 1 /\ Rank(R, m) = Cardinality(S)
        /\ \A x \in S : Rank(R, x) = Rank(S, x)
    <2>1. Topped(S, m, R)
      BY RankAdd, Zenon DEF Ranked
    <2> HIDE DEF R
    <2> QED
      BY <2>1, Zenon DEF Topped
  <1>2. m \in R /\ S \subseteq R
    OBVIOUS
  <1> HIDE DEF R
  <1>3. ASSUME NEW k \in 0 .. Cardinality(R) - 1 PROVE \E x \in R : Rank(R, x) = k
    <2>1. k = Cardinality(S) \/ k \in 0 .. Cardinality(S) - 1
      BY <1>1
    <2>2. CASE k = Cardinality(S)
      BY <1>1, <1>2, <2>2, Zenon
    <2>3. CASE k \in 0 .. Cardinality(S) - 1
      <3>1. PICK x \in S : Rank(S, x) = k
        BY <2>3, Zenon DEF Ranked
      <3> QED
        BY <1>1, <1>2, <3>1, Zenon
    <2> QED
      BY <2>1, <2>2, <2>3, Zenon
  <1> QED
    BY <1>1, <1>3, Zenon DEF Ranked, R

\* Every set of numbers up to some bound is ranked.
LEMMA AllRanked ==
    ASSUME NEW n \in Nat, NEW S \in SUBSET (0 .. n)
    PROVE  Ranked(S) /\ S \in SUBSET Nat
  <1> DEFINE T == {k \in Nat : \E R \in SUBSET Nat : (\A y \in R : y < k) /\ ~Ranked(R)}
  <1>1. T = {}
    <2> SUFFICES ASSUME T # {} PROVE FALSE
      OBVIOUS
    <2>1. PICK k \in T : \A j \in T : k <= j
      BY LeastNumber, Zenon
    <2>2. PICK R \in SUBSET Nat : (\A y \in R : y < k) /\ ~Ranked(R)
      BY <2>1, Zenon
    <2>3. CASE R = {}
      <3>1. IsFiniteSet({}) /\ Cardinality({}) = 0
        BY FS_EmptySet
      <3>2. Ranked({})
        BY <3>1 DEF Ranked
      <3> QED
        BY <2>2, <2>3, <3>2, Zenon
    <2>4. CASE R # {}
      <3>1. k - 1 \in Nat /\ ~(k <= k - 1)
        <4>1. PICK y \in R : y \in Nat /\ y < k
          BY <2>2, <2>4, Zenon
        <4> QED
          BY <2>1, <4>1
      <3>2. k - 1 \notin T
        BY <2>1, <3>1, Zenon
      <3>3. CASE k - 1 \notin R
        <4>1. \A y \in R : y < k - 1
          BY <2>1, <2>2, <3>1, <3>3
        <4> QED
          BY <2>2, <3>1, <3>2, <4>1, Zenon
      <3>4. CASE k - 1 \in R
        <4> DEFINE Q == R \ {k - 1}
        <4>1. Q \in SUBSET Nat /\ \A y \in Q : y < k - 1
          BY <2>1, <2>2, <3>1
        <4>2. R = Q \cup {k - 1}
          BY <3>4, Zenon
        <4> HIDE DEF Q
        <4>3. Ranked(Q)
          BY <3>1, <3>2, <4>1, Zenon
        <4>4. Ranked(Q \cup {k - 1})
          BY <3>1, <4>1, <4>3, RankedAdd, Zenon
        <4> QED
          BY <2>2, <4>2, <4>4, Zenon
      <3> QED
        BY <3>3, <3>4, Zenon
    <2> QED
      BY <2>3, <2>4, Zenon
  <1>2. n + 1 \in Nat /\ S \in SUBSET Nat /\ \A y \in S : y < n + 1
    OBVIOUS
  <1> QED
    BY <1>1, <1>2, Zenon

\* Member k in ascending order has rank k - 1.
LEMMA AscendingIs ==
    ASSUME NEW S \in SUBSET Nat, Ranked(S)
    PROVE  /\ Cardinality(S) \in Nat
           /\ Ascending(S) = [k \in 1 .. Cardinality(S) |-> Ascending(S)[k]]
           /\ \A k \in 1 .. Cardinality(S) : /\ Ascending(S)[k] \in S
                                             /\ Rank(S, Ascending(S)[k]) = k - 1
  <1>1. Cardinality(S) \in Nat
    BY FS_CardinalityType, Zenon DEF Ranked
  <1>2. Ascending(S) = [k \in 1 .. Cardinality(S) |-> CHOOSE x \in S : Rank(S, x) = k - 1]
    BY Zenon DEF Ascending, Rank
  <1>3. ASSUME NEW k \in 1 .. Cardinality(S)
        PROVE  Ascending(S)[k] \in S /\ Rank(S, Ascending(S)[k]) = k - 1
    <2>1. k - 1 \in 0 .. Cardinality(S) - 1
      BY <1>1
    <2>2. \E x \in S : Rank(S, x) = k - 1
      BY <2>1, Zenon DEF Ranked
    <2>3. Ascending(S)[k] = CHOOSE x \in S : Rank(S, x) = k - 1
      BY <1>2, Zenon
    <2> QED
      BY <2>2, <2>3, Zenon
  <1> QED
    BY <1>1, <1>2, <1>3, Zenon

\* R is S and a number that comes last.
ComesLast(S, m, R) ==
    /\ Ascending(S) \in Seq(S) /\ Ascending(R) = Append(Ascending(S), m)
    /\ Len(Ascending(S)) = Cardinality(S)

\* So it is when the number is above all the others.
LEMMA AscendingAppend ==
    ASSUME NEW S \in SUBSET Nat, Ranked(S), NEW m \in Nat, \A y \in S : y < m
    PROVE  ComesLast(S, m, S \cup {m})
  <1> DEFINE R == S \cup {m}
             n == Cardinality(S)
             f == Ascending(S)
             g == Ascending(R)
  <1>1. /\ R \in SUBSET Nat /\ Cardinality(R) = n + 1 /\ Rank(R, m) = n /\ IsFiniteSet(R)
        /\ \A x \in S : Rank(R, x) = Rank(S, x)
    <2>1. Topped(S, m, R)
      BY RankAdd, Zenon DEF Ranked
    <2> HIDE DEF R
    <2> QED
      BY <2>1, Zenon DEF Topped
  <1>2. Ranked(R)
    BY RankedAdd, Zenon
  <1>3. /\ n \in Nat /\ f = [k \in 1 .. n |-> f[k]]
        /\ \A k \in 1 .. n : f[k] \in S /\ Rank(S, f[k]) = k - 1
    BY AscendingIs, Zenon
  <1>4. /\ g = [k \in 1 .. n + 1 |-> g[k]]
        /\ \A k \in 1 .. n + 1 : g[k] \in R /\ Rank(R, g[k]) = k - 1
    <2>1. /\ g = [k \in 1 .. Cardinality(R) |-> g[k]]
          /\ \A k \in 1 .. Cardinality(R) : g[k] \in R /\ Rank(R, g[k]) = k - 1
      BY <1>1, <1>2, AscendingIs, Zenon
    <2> QED
      BY <1>1, <2>1, Zenon
  <1>5. m \in R /\ S \subseteq R
    OBVIOUS
  <1> HIDE DEF R, n, f, g
  <1>6. /\ \A k \in 1 .. n : k \in 1 .. n + 1 /\ k \in Nat
        /\ n + 1 \in 1 .. n + 1 /\ (n + 1) - 1 = n
    BY <1>3
  <1>11. NoTies(R)
    BY <1>1, RankUnique, Zenon
  <1>7. \A k \in 1 .. n : g[k] = f[k]
    <2> SUFFICES ASSUME NEW k \in 1 .. n PROVE g[k] = f[k]
      BY Zenon
    <2>1. g[k] \in R /\ f[k] \in R /\ Rank(R, g[k]) = Rank(R, f[k])
      BY <1>1, <1>3, <1>4, <1>5, <1>6, Zenon
    <2> QED
      BY <1>11, <2>1, Zenon DEF NoTies
  <1>8. g[n + 1] = m
    <2>1. g[n + 1] \in R /\ Rank(R, g[n + 1]) = Rank(R, m)
      BY <1>1, <1>4, <1>6, Zenon
    <2> QED
      BY <1>5, <1>11, <2>1, Zenon DEF NoTies
  <1>9. f \in Seq(S) /\ Len(f) = n
    BY <1>3, SMTT(30)
  <1>10. g = Append(f, m)
    <2>1. f \in Seq(Nat) /\ g \in Seq(Nat) /\ Len(g) = n + 1
      <3>1. \A k \in 1 .. n + 1 : g[k] \in Nat
        BY <1>1, <1>4
      <3>2. \A k \in 1 .. n : f[k] \in Nat
        BY <1>3
      <3> QED
        <4>1. f \in [1 .. n -> Nat]
          BY <1>3, <3>2, Zenon
        <4>2. g \in [1 .. n + 1 -> Nat]
          BY <1>4, <3>1, Zenon
        <4>3. n \in Nat /\ n + 1 \in Nat
          BY <1>3
        <4> QED
          BY <4>1, <4>2, <4>3
    <2>2. Append(f, m) \in Seq(Nat) /\ Len(Append(f, m)) = n + 1
          /\ Append(f, m)[n + 1] = m /\ \A k \in 1 .. n : Append(f, m)[k] = f[k]
      BY <1>9, <2>1, AppendProperties
    <2>3. \A k \in 1 .. n + 1 : k = n + 1 \/ k \in 1 .. n
      BY <1>3
    <2>4. \A k \in 1 .. n + 1 : g[k] = Append(f, m)[k]
      BY <1>7, <1>8, <2>2, <2>3, Zenon
    <2> QED
      BY <2>1, <2>2, <2>4, SeqEqual
  <1> QED
    BY <1>9, <1>10, Zenon DEF R, n, f, g, ComesLast
-----------------------------------------------------------------------------
(* Cutting a text.                                                         *)

\* A part of a text is a text.
LEMMA PartTyped ==
    ASSUME NEW t \in Texts, NEW i \in Nat, NEW j \in Int, j <= Len(t)
    PROVE  SubSeq(t, i + 1, j) \in Texts
  <1>1. \A k \in i + 1 .. j : t[k] \in Chars
    BY DEF Texts
  <1> QED
    BY <1>1, SubSeqProperties DEF Texts

SamePart(u, t, i, j) == SubSeq(u, i + 1, j) = SubSeq(t, i + 1, j)

\* A part that ends within t is the same once t has a character more.
LEMMA PartSame ==
    ASSUME NEW t \in Texts, NEW x \in Chars, NEW i \in Nat, NEW j \in Int, j <= Len(t)
    PROVE  SamePart(Append(t, x), t, i, j)
  <1> DEFINE u == Append(t, x)
  <1>1. u \in Texts /\ Len(u) = Len(t) + 1 /\ Len(t) \in Nat /\ \A k \in 1 .. Len(t) : u[k] = t[k]
    BY AppendProperties DEF Texts
  <1> HIDE DEF u
  <1>2. /\ \A k \in i + 1 .. j : t[k] \in Chars
        /\ \A k \in i + 1 .. j : u[k] \in Chars
        /\ \A k \in i + 1 .. j : u[k] = t[k]
    BY <1>1 DEF Texts
  <1> DEFINE p == SubSeq(t, i + 1, j)
             q == SubSeq(u, i + 1, j)
  <1>3. p \in Texts /\ q \in Texts /\ Len(p) = Len(q)
        /\ Len(p) = (IF i + 1 <= j THEN j - (i + 1) + 1 ELSE 0)
        /\ \A k \in 1 .. j - (i + 1) + 1 : p[k] = t[i + 1 + k - 1] /\ q[k] = u[i + 1 + k - 1]
    BY <1>2, SubSeqProperties DEF Texts
  <1> HIDE DEF p, q
  <1>4. \A k \in 1 .. Len(p) : k \in 1 .. j - (i + 1) + 1 /\ i + 1 + k - 1 \in i + 1 .. j
    BY <1>3
  <1>5. \A k \in 1 .. Len(p) : p[k] = q[k]
    BY <1>2, <1>3, <1>4, Zenon
  <1>6. p = q
    BY <1>3, <1>5, SeqEqual, Zenon DEF Texts
  <1> QED
    BY <1>6, Zenon DEF p, q, u, SamePart

\* The last part has the character more.
LEMMA PartMore ==
    ASSUME NEW t \in Texts, NEW x \in Chars, NEW i \in Nat, i <= Len(t)
    PROVE  SubSeq(Append(t, x), i + 1, Len(t) + 1) = Append(SubSeq(t, i + 1, Len(t)), x)
  <1> DEFINE u == Append(t, x)
             n == Len(t)
             p == SubSeq(t, i + 1, n)
  <1>1. u \in Texts /\ Len(u) = n + 1 /\ n \in Nat /\ u[n + 1] = x
    BY AppendProperties DEF Texts
  <1>2. SubSeq(u, i + 1, n) = p /\ p \in Texts
    <2>1. n \in Int /\ n <= Len(t)
      BY <1>1
    <2>2. SamePart(u, t, i, n) /\ p \in Texts
      BY <2>1, PartSame, PartTyped, Zenon
    <2> QED
      BY <2>2, Zenon DEF SamePart
  <1> HIDE DEF u, n
  <1>3. SubSeq(u, i + 1, n + 1) = SubSeq(u, i + 1, (n + 1) - 1) \o <<u[n + 1]>>
    <2>1. i + 1 \in 1 .. Len(u) /\ n + 1 \in i + 1 .. Len(u) /\ u \in Seq(Chars)
      BY <1>1 DEF Texts, n
    <2> QED
      BY <2>1, SubSeqRecursiveSecond, Zenon
  <1>4. (n + 1) - 1 = n
    BY <1>1
  <1>5. SubSeq(u, i + 1, n + 1) = p \o <<x>>
    BY <1>1, <1>2, <1>3, <1>4
  <1>6. Append(p, x) = p \o <<x>>
    BY <1>2, AppendIsConcat, Zenon DEF Texts
  <1> QED
    BY <1>5, <1>6, Zenon DEF u, n

\* The parts of t between the cuts of b, without the last o characters of each.
Parts(t, b, o) == [k \in 1 .. Len(b) - 1 |-> SubSeq(t, b[k] + 1, b[k + 1] - o)]
Cuts(b, n) == b \in Seq(0 .. n) /\ Len(b) \in Nat \ {0}

\* They are texts.
LEMMA PartsTyped ==
    ASSUME NEW t \in Texts, NEW o \in {0, 1}, NEW b, Cuts(b, Len(t) + o)
    PROVE  Parts(t, b, o) \in Seq(Texts) /\ Len(Parts(t, b, o)) = Len(b) - 1
  <1>1. Len(t) \in Nat /\ Len(b) - 1 \in Nat
    BY DEF Texts, Cuts
  <1>2. ASSUME NEW k \in 1 .. Len(b) - 1 PROVE SubSeq(t, b[k] + 1, b[k + 1] - o) \in Texts
    <2>1. b[k] \in Nat /\ b[k + 1] - o \in Int /\ b[k + 1] - o <= Len(t)
      BY <1>1 DEF Cuts
    <2> QED
      BY <2>1, PartTyped, Zenon
  <1>3. Parts(t, b, o) \in [1 .. Len(b) - 1 -> Texts]
    BY <1>2, Zenon DEF Parts
  <1> QED
    BY <1>1, <1>3, SMTT(30)

\* One cut more makes one part more.
LEMMA PartsAppend ==
    ASSUME NEW t \in Texts, NEW o \in {0, 1}, NEW b, Cuts(b, Len(t) + o), NEW e \in 0 .. Len(t) + o
    PROVE  /\ Cuts(Append(b, e), Len(t) + o)
           /\ Parts(t, Append(b, e), o) = Append(Parts(t, b, o), SubSeq(t, b[Len(b)] + 1, e - o))
  <1> DEFINE d == Append(b, e)
             m == Len(b)
             p == Parts(t, b, o)
             r == Parts(t, d, o)
             q == SubSeq(t, b[m] + 1, e - o)
  <1>1. /\ d \in Seq(0 .. Len(t) + o) /\ m \in Nat \ {0} /\ Len(d) = m + 1 /\ d[m + 1] = e
        /\ \A k \in 1 .. m : d[k] = b[k]
    BY AppendProperties DEF Cuts
  <1> HIDE DEF d
  <1>2. Cuts(d, Len(t) + o)
    BY <1>1 DEF Cuts
  <1>3. p \in Seq(Texts) /\ Len(p) = m - 1
    BY PartsTyped, Zenon
  <1>4. r \in Seq(Texts) /\ Len(r) = (m + 1) - 1
    BY <1>1, <1>2, PartsTyped, Zenon
  <1>5. q \in Texts
    <2>1. b[m] \in Nat /\ e - o \in Int /\ e - o <= Len(t)
      BY <1>1 DEF Cuts, Texts
    <2> QED
      BY <2>1, PartTyped, Zenon
  <1>6. /\ \A k \in 1 .. m - 1 : p[k] = SubSeq(t, b[k] + 1, b[k + 1] - o)
        /\ \A k \in 1 .. (m + 1) - 1 : r[k] = SubSeq(t, d[k] + 1, d[k + 1] - o)
    BY <1>1, Zenon DEF Parts
  <1> HIDE DEF p, r, q
  <1>7. /\ (m + 1) - 1 = m /\ m \in 1 .. m
        /\ \A k \in 1 .. m - 1 : k \in 1 .. m /\ k + 1 \in 1 .. m
        /\ \A k \in 1 .. m : k = m \/ k \in 1 .. m - 1
    BY <1>1
  <1>8. \A k \in 1 .. m - 1 : r[k] = p[k]
    BY <1>1, <1>6, <1>7, Zenon
  <1>9. r[m] = q
    BY <1>1, <1>6, <1>7, Zenon DEF q
  <1> DEFINE s == Append(p, q)
  <1>10. s \in Seq(Texts) /\ Len(s) = m /\ s[m] = q /\ \A k \in 1 .. m - 1 : s[k] = p[k]
    BY <1>1, <1>3, <1>5, AppendProperties
  <1> HIDE DEF s
  <1>11. \A k \in 1 .. m : r[k] = s[k]
    BY <1>7, <1>8, <1>9, <1>10, Zenon
  <1>12. r = s
    BY <1>4, <1>7, <1>10, <1>11, SeqEqual
  <1> QED
    BY <1>2, <1>12, Zenon DEF d, p, r, q, s

\* The parts of t are parts of t with a character more.
LEMMA PartsSame ==
    ASSUME NEW t \in Texts, NEW x \in Chars, NEW o \in {0, 1}, NEW b, Cuts(b, Len(t) + o)
    PROVE  Parts(Append(t, x), b, o) = Parts(t, b, o)
  <1> DEFINE u == Append(t, x)
  <1>1. ASSUME NEW k \in 1 .. Len(b) - 1
        PROVE  SubSeq(u, b[k] + 1, b[k + 1] - o) = SubSeq(t, b[k] + 1, b[k + 1] - o)
    <2>1. b[k] \in Nat /\ b[k + 1] - o \in Int /\ b[k + 1] - o <= Len(t)
      BY DEF Cuts, Texts
    <2> QED
      BY <2>1, PartSame, Zenon DEF SamePart, u
  <1> HIDE DEF u
  <1>2. Parts(u, b, o) = Parts(t, b, o)
    BY <1>1, Zenon DEF Parts
  <1> QED
    BY <1>2, Zenon DEF u

\* Numbers up to n, and with them m, which comes last.
EndAt(n, S, m, R) ==
    /\ Ascending(S) \in Seq(0 .. n) /\ Ascending(R) = Append(Ascending(S), m)
    /\ Len(Ascending(S)) \in Nat
    /\ S # {} => Cuts(Ascending(S), n) /\ Ascending(S)[Len(Ascending(S))] \in S

\* So it is when m is above them.
LEMMA CutsEnd ==
    ASSUME NEW n \in Nat, NEW S \in SUBSET (0 .. n), NEW m \in Nat, \A y \in S : y < m
    PROVE  EndAt(n, S, m, S \cup {m})
  <1>1. Ranked(S) /\ S \in SUBSET Nat
    BY AllRanked, Zenon
  <1>2. ComesLast(S, m, S \cup {m})
    BY <1>1, AscendingAppend, Zenon
  <1> DEFINE a == Ascending(S)
  <1>3. a \in Seq(S) /\ Ascending(S \cup {m}) = Append(a, m) /\ Len(a) = Cardinality(S)
    BY <1>2, Zenon DEF ComesLast
  <1>4. IsFiniteSet(S) /\ Cardinality(S) \in Nat /\ (Cardinality(S) = 0 => S = {})
    BY <1>1, FS_EmptySet, FS_CardinalityType, Zenon DEF Ranked
  <1> HIDE DEF a
  <1>5. a \in Seq(0 .. n)
    <2>1. S \subseteq 0 .. n
      BY Zenon
    <2> QED
      BY <1>3, <2>1, SeqMonotonic, Zenon
  <1>6. S # {} => Len(a) \in Nat \ {0} /\ a[Len(a)] \in S
    <2> SUFFICES ASSUME S # {} PROVE Len(a) \in Nat \ {0} /\ a[Len(a)] \in S
      BY Zenon
    <2>1. Len(a) \in Nat /\ Len(a) # 0
      BY <1>3, <1>4, Zenon
    <2>2. Len(a) \in 1 .. Len(a)
      BY <2>1
    <2>3. a[Len(a)] \in S
      BY <1>3, <2>2, ElementOfSeq, Zenon
    <2> QED
      BY <2>1, <2>3, Zenon
  <1> QED
    BY <1>3, <1>4, <1>5, <1>6, Zenon DEF a, Cuts, EndAt

\* A cut of a text in parts.
LEMMA CutIs ==
    ASSUME NEW t \in Texts, NEW c, Cuts(Ascending(c \cup {0, Len(t)}), Len(t))
    PROVE  Cut(t, c) = Parts(t, Ascending(c \cup {0, Len(t)}), 0)
  <1> DEFINE b == Ascending(c \cup {0, Len(t)})
  <1>1. Cut(t, c) = [k \in 1 .. Len(b) - 1 |-> SubSeq(t, b[k] + 1, b[k + 1])]
    BY Zenon DEF Cut
  <1> HIDE DEF b
  <1>2. \A k \in 1 .. Len(b) - 1 : b[k + 1] - 0 = b[k + 1]
    BY DEF Cuts, b
  <1>3. Cut(t, c) = Parts(t, b, 0)
    BY <1>1, <1>2, Zenon DEF Parts
  <1> QED
    BY <1>3, Zenon DEF b

\* The cuts of t, and the new character as a lexeme of its own.
Fresh(t, c, x, d) == Cut(Append(t, x), d) = Append(Cut(t, c), <<x>>) /\ Cut(t, c) \in Seq(Texts)

\* Cutting before it makes it one.
LEMMA CutFresh ==
    ASSUME NEW t \in Texts, NEW x \in Chars, NEW c \in SUBSET (1 .. Len(t) - 1), NEW d,
           d \cup {0, Len(t) + 1} = c \cup {0, Len(t), Len(t) + 1}
    PROVE  Fresh(t, c, x, d)
  <1> DEFINE n == Len(t)
             u == Append(t, x)
             S == (c \cup {0}) \ {n}
             a == Ascending(S)
             b == Append(a, n)
             e == Append(b, n + 1)
  <1>1. n \in Nat /\ n + 1 \in Nat /\ u \in Texts /\ Len(u) = n + 1 /\ 0 \in {0, 1} /\ n + 0 = n
        /\ (n + 1) + 0 = n + 1 /\ (n + 1) - 0 = n + 1
    BY AppendProperties DEF Texts
  <1> HIDE DEF n, u
  <1>2. /\ S \in SUBSET (0 .. n) /\ (\A y \in S : y < n) /\ S \cup {n} = c \cup {0, n}
        /\ S \cup {n} \in SUBSET (0 .. n) /\ (\A y \in S \cup {n} : y < n + 1)
        /\ (S \cup {n}) \cup {n + 1} = d \cup {0, n + 1} /\ S \cup {n} # {}
    <2>1. c \in SUBSET (1 .. n - 1) /\ d \cup {0, n + 1} = c \cup {0, n, n + 1}
      BY Zenon DEF n
    <2>2. (\A y \in c : y \in 0 .. n /\ y < n) /\ (0 # n => 0 < n) /\ 0 \in 0 .. n /\ n \in 0 .. n
          /\ n < n + 1 /\ \A y \in 0 .. n : y < n + 1
      BY <1>1, <2>1
    <2>3. S \in SUBSET (0 .. n) /\ (\A y \in S : y < n) /\ S \cup {n} = c \cup {0, n}
      BY <2>2, Zenon
    <2>4. S \cup {n} \in SUBSET (0 .. n) /\ (\A y \in S \cup {n} : y < n + 1) /\ S \cup {n} # {}
      BY <2>2, <2>3, Zenon
    <2>5. (c \cup {0, n}) \cup {n + 1} = c \cup {0, n, n + 1}
      BY Zenon
    <2> QED
      BY <2>1, <2>3, <2>4, <2>5, Zenon
  <1> HIDE DEF S
  <1>3. a \in Seq(0 .. n) /\ Ascending(S \cup {n}) = b /\ Len(a) \in Nat
    <2>1. EndAt(n, S, n, S \cup {n})
      BY <1>1, <1>2, CutsEnd, Zenon
    <2> QED
      BY <2>1, Zenon DEF EndAt
  <1>4. Ascending((S \cup {n}) \cup {n + 1}) = e /\ Cuts(b, n)
    <2> DEFINE R == S \cup {n}
    <2>1. R \in SUBSET (0 .. n) /\ (\A y \in R : y < n + 1) /\ R # {} /\ Ascending(R) = b
      BY <1>2, <1>3, Zenon
    <2> HIDE DEF R
    <2>2. EndAt(n, R, n + 1, R \cup {n + 1})
      BY <1>1, <2>1, CutsEnd, Zenon
    <2>3. Ascending(R \cup {n + 1}) = e /\ Cuts(b, n)
      BY <2>1, <2>2, Zenon DEF EndAt
    <2> QED
      BY <2>3, Zenon DEF R
  <1>5. Len(b) = Len(a) + 1 /\ b[Len(b)] = n
    BY <1>1, <1>3, AppendProperties
  <1> HIDE DEF a, b, e
  <1>6. Cut(t, c) = Parts(t, b, 0) /\ Parts(t, b, 0) \in Seq(Texts)
    <2>1. Ascending(c \cup {0, Len(t)}) = b /\ Cuts(b, Len(t)) /\ Cuts(b, Len(t) + 0)
      BY <1>1, <1>2, <1>3, <1>4, Zenon DEF n
    <2>2. Cut(t, c) = Parts(t, b, 0)
      BY <2>1, CutIs
    <2> QED
      BY <1>1, <2>1, <2>2, PartsTyped, Zenon
  <1>7. Cuts(b, n + 1)
    BY <1>1, <1>4 DEF Cuts
  <1>8. /\ Cuts(e, n + 1)
        /\ Parts(u, e, 0) = Append(Parts(u, b, 0), SubSeq(u, b[Len(b)] + 1, (n + 1) - 0))
    <2>1. n + 1 \in 0 .. Len(u) + 0 /\ Len(u) + 0 = n + 1
      BY <1>1
    <2> QED
      BY <1>1, <1>7, <2>1, PartsAppend, Zenon DEF e
  <1>9. Cut(u, d) = Parts(u, e, 0)
    <2>1. Ascending(d \cup {0, Len(u)}) = e /\ Cuts(e, Len(u))
      BY <1>1, <1>2, <1>4, <1>8, Zenon
    <2> QED
      BY <1>1, <2>1, CutIs
  <1>10. Parts(u, b, 0) = Parts(t, b, 0)
    BY <1>1, <1>4, PartsSame, Zenon DEF u, n
  <1>11. SubSeq(u, n + 1, n + 1) = <<x>>
    <2>1. SubSeq(u, n + 1, n + 1) = Append(SubSeq(t, n + 1, n), x)
      BY <1>1, PartMore DEF u, n
    <2>2. SubSeq(t, n + 1, n) = <<>>
      BY <1>1, SubSeqEmpty
    <2>3. Append(<<>>, x) = <<x>>
      OBVIOUS
    <2> QED
      BY <2>1, <2>2, <2>3, Zenon
  <1> QED
    BY <1>1, <1>5, <1>6, <1>8, <1>9, <1>10, <1>11, Zenon DEF Fresh, u

\* The new character in the last lexeme.
Joined(t, c, x, p, q) ==
    /\ p \in Seq(Texts) /\ q \in Texts /\ q # <<>> /\ Cut(t, c) = Append(p, q)
    /\ Cut(Append(t, x), c) = Append(p, Append(q, x))

\* Not cutting before it puts it there.
LEMMA CutJoined ==
    ASSUME NEW t \in Texts, NEW x \in Chars, NEW c \in SUBSET (1 .. Len(t) - 1), Len(t) # 0
    PROVE  \E p, q : Joined(t, c, x, p, q)
  <1> DEFINE n == Len(t)
             u == Append(t, x)
             S == c \cup {0}
             a == Ascending(S)
             i == a[Len(a)]
             p == Parts(t, a, 0)
             q == SubSeq(t, i + 1, n)
  <1>1. /\ n \in Nat \ {0}
        /\ n + 1 \in Nat
        /\ u \in Texts
        /\ Len(u) = n + 1
        /\ 0 \in {0, 1}
        /\ n + 0 = n
        /\ (n + 1) + 0 = n + 1 /\ (n + 1) - 0 = n + 1 /\ n - 0 = n /\ n \in Nat
    BY AppendProperties, SMTT(30) DEF Texts
  <1> HIDE DEF n, u
  <1>2. /\ S \in SUBSET (0 .. n) /\ (\A y \in S : y < n) /\ (\A y \in S : y < n + 1) /\ S # {}
        /\ S \cup {n} = c \cup {0, n} /\ S \cup {n + 1} = c \cup {0, n + 1}
    BY <1>1 DEF n
  <1> HIDE DEF S
  <1>3. Cuts(a, n) /\ i \in S /\ Ascending(S \cup {n}) = Append(a, n)
    <2>1. EndAt(n, S, n, S \cup {n})
      BY <1>1, <1>2, CutsEnd, Zenon
    <2> QED
      BY <1>2, <2>1, Zenon DEF EndAt
  <1>4. Ascending(S \cup {n + 1}) = Append(a, n + 1)
    <2>1. EndAt(n, S, n + 1, S \cup {n + 1})
      BY <1>1, <1>2, CutsEnd, Zenon
    <2> QED
      BY <2>1, Zenon DEF EndAt
  <1> HIDE DEF a
  <1>5. Cuts(a, n + 1) /\ i \in Nat /\ i < n /\ i <= n
    BY <1>1, <1>2, <1>3 DEF Cuts
  <1>6. /\ Cuts(Append(a, n), n) /\ p \in Seq(Texts)
        /\ Parts(t, Append(a, n), 0) = Append(p, SubSeq(t, i + 1, n - 0))
    <2>1. n \in 0 .. Len(t) + 0 /\ Len(t) + 0 = n
      BY <1>1 DEF n
    <2> QED
      BY <1>1, <1>3, <2>1, PartsAppend, PartsTyped, Zenon
  <1>7. /\ Cuts(Append(a, n + 1), n + 1)
        /\ Parts(u, Append(a, n + 1), 0) = Append(Parts(u, a, 0), SubSeq(u, i + 1, (n + 1) - 0))
    <2>1. n + 1 \in 0 .. Len(u) + 0 /\ Len(u) + 0 = n + 1
      BY <1>1
    <2> QED
      BY <1>1, <1>5, <2>1, PartsAppend, Zenon
  <1>8. Parts(u, a, 0) = p
    BY <1>1, <1>3, PartsSame, Zenon DEF u, n
  <1>9. SubSeq(u, i + 1, n + 1) = Append(q, x)
    BY <1>1, <1>5, PartMore, Zenon DEF u, n
  <1>10. q \in Texts /\ q # <<>>
    <2>1. \A k \in i + 1 .. n : t[k] \in Chars
      BY <1>5, SMTT(30) DEF Texts, n
    <2>2. q \in Seq(Chars) /\ Len(q) = n - (i + 1) + 1
      BY <1>1, <1>5, <2>1, SubSeqProperties, SMTT(30)
    <2>3. Len(q) # 0 /\ Len(<<>>) = 0
      BY <1>1, <1>5, <2>2
    <2> QED
      BY <2>2, <2>3, Zenon DEF Texts
  <1>11. Cut(t, c) = Append(p, q)
    <2>1. /\ Cuts(Ascending(c \cup {0, Len(t)}), Len(t))
          /\ Ascending(c \cup {0, Len(t)}) = Append(a, n)
      BY <1>2, <1>3, <1>6, Zenon DEF n
    <2>2. Cut(t, c) = Parts(t, Append(a, n), 0)
      BY <2>1, CutIs, Zenon
    <2> QED
      BY <1>1, <1>6, <2>2, Zenon
  <1>12. Cut(u, c) = Append(p, Append(q, x))
    <2>1. /\ Cuts(Ascending(c \cup {0, Len(u)}), Len(u))
          /\ Ascending(c \cup {0, Len(u)}) = Append(a, n + 1)
      BY <1>1, <1>2, <1>4, <1>7, Zenon
    <2>2. Cut(u, c) = Parts(u, Append(a, n + 1), 0)
      BY <1>1, <2>1, CutIs, Zenon
    <2> QED
      BY <1>1, <1>7, <1>8, <1>9, <2>2, Zenon
  <1> HIDE DEF p, q
  <1>13. Joined(t, c, x, p, q)
    BY <1>6, <1>10, <1>11, <1>12, Zenon DEF Joined, u
  <1> QED
    BY <1>13, Zenon
-----------------------------------------------------------------------------
(* Lexemes.                                                                *)

\* The lexemes of one special character.
LEMMA Brackets ==
    /\ Len(<<"(">>) = 1 /\ Len(<<")">>) = 1 /\ Len(<<" ">>) = 1
    /\ <<"(">>[1] = "(" /\ <<")">>[1] = ")" /\ <<" ">>[1] = " "
  BY SMTT(30)

\* The first character, and whether the last is it, of a text with one more.
LEMMA MoreText ==
    ASSUME NEW q \in Texts, q # <<>>, NEW x \in Chars
    PROVE  LET r == Append(q, x) IN
           /\ r \in Texts /\ r # <<>> /\ r[1] = q[1] /\ Len(r) = Len(q) + 1 /\ Len(q) \in Nat \ {0}
           /\ (\A i \in 1 .. Len(q) : r[i] = q[i]) /\ r[Len(r)] = x
           /\ Front(r) = q /\ Last(r) = x
  <1> DEFINE r == Append(q, x)
             n == Len(q)
  <1>1. r \in Texts /\ r # <<>> /\ Len(r) = n + 1 /\ n \in Nat \ {0}
        /\ (\A i \in 1 .. n : r[i] = q[i]) /\ r[n + 1] = x
    BY AppendProperties, EmptySeq DEF Texts
  <1>2. Front(r) = q
    <2>1. SubSeq(r, 1, n) = q
      <3>1. SamePart(r, q, 0, n)
        <4>1. 0 \in Nat /\ n \in Int /\ n <= Len(q)
          BY <1>1
        <4> QED
          BY <4>1, PartSame, Zenon
      <3>2. SubSeq(r, 1, n) = SubSeq(q, 1, n)
        BY <3>1 DEF SamePart
      <3> QED
        BY <3>2, SubSeqFull DEF Texts
    <2>2. Len(r) - 1 = n
      BY <1>1
    <2> QED
      BY <2>1, <2>2, Zenon DEF Front
  <1> HIDE DEF r, n
  <1>3. r[1] = q[1]
    BY <1>1
  <1> QED
    BY <1>1, <1>2, <1>3, Zenon DEF r, n, Last

\* A character more on a lexeme, or on one that has begun.
Extends(q, x, r) ==
    /\ Plain(r) <=> Plain(q) /\ Joins(x)
    /\ Opens(r) <=> Opens(q) /\ x # q[1]
    /\ Closed(r) <=> Opens(q) /\ x = q[1]
    /\ Lexeme(r) <=> Plain(r) \/ Closed(r)

\* What becomes of it.
LEMMA ExtendsIt ==
    ASSUME NEW q \in Texts, q # <<>>, NEW x \in Chars
    PROVE  Extends(q, x, Append(q, x))
  <1> DEFINE r == Append(q, x)
             n == Len(q)
  <1>1. /\ r \in Texts /\ r # <<>> /\ r[1] = q[1] /\ Len(r) = n + 1 /\ n \in Nat \ {0}
        /\ (\A i \in 1 .. n : r[i] = q[i]) /\ r[n + 1] = x
        /\ Front(r) = q /\ Last(r) = x
    BY MoreText, SMTT(30)
  <1>2. DOMAIN r = 1 .. n + 1 /\ DOMAIN q = 1 .. n
    BY <1>1, SMTT(30) DEF Texts
  <1> HIDE DEF r, n
  <1>3. /\ \A i \in 1 .. n + 1 : i = n + 1 \/ i \in 1 .. n
        /\ \A i \in 2 .. n + 1 : i = n + 1 \/ i \in 2 .. n
        /\ \A i \in 2 .. n : i \in 1 .. n /\ i \in 2 .. n + 1
        /\ \A i \in 1 .. n : i \in 1 .. n + 1
        /\ n + 1 \in 1 .. n + 1 /\ n + 1 \in 2 .. n + 1 /\ n + 1 >= 2
    BY <1>1
  <1>4. Plain(r) <=> Plain(q) /\ Joins(x)
    BY <1>1, <1>2, <1>3, Zenon DEF Plain, Joins
  <1>5. Opens(r) <=> Opens(q) /\ x # q[1]
    <2>1. Opens(r) <=> r[1] \in {Quote, "#"} /\ \A i \in 2 .. n + 1 : r[i] # r[1]
      BY <1>1, Zenon DEF Opens
    <2>2. Opens(q) <=> q[1] \in {Quote, "#"} /\ \A i \in 2 .. n : q[i] # q[1]
      BY Zenon DEF Opens, n
    <2> QED
      BY <1>1, <1>3, <2>1, <2>2, Zenon
  <1>6. Closed(r) <=> Opens(q) /\ x = q[1]
    BY <1>1, <1>3, Zenon DEF Closed
  <1>7. r \notin {<<"(">>, <<")">>, <<" ">>}
    <2>1. Len(r) # 1
      BY <1>1
    <2> QED
      BY <2>1, Brackets, Zenon
  <1>8. Lexeme(r) <=> Plain(r) \/ Closed(r)
    BY <1>7, Zenon DEF Lexeme
  <1> QED
    BY <1>4, <1>5, <1>6, <1>8, Zenon DEF Extends, r

\* A lexeme that has begun with a quote or a pound sign is not complete.
LEMMA OpensNot ==
    ASSUME NEW q \in Texts, q # <<>>, Opens(q)
    PROVE  ~Plain(q) /\ ~Lexeme(q)
  <1>1. Len(q) \in Nat \ {0} /\ DOMAIN q = 1 .. Len(q) /\ 1 \in 1 .. Len(q)
    BY EmptySeq DEF Texts
  <1>2. q[1] \in Special \ {";"} /\ q[1] \notin {"(", ")", " "}
    BY Zenon DEF Opens, Special, Quote
  <1>3. ~Plain(q)
    BY <1>1, <1>2, Zenon DEF Plain
  <1>4. ~Closed(q)
    <2> SUFFICES ASSUME Closed(q) PROVE FALSE
      BY Zenon
    <2>1. Len(q) >= 2 /\ q[Len(q)] = q[1]
      BY Zenon DEF Closed, Last
    <2>2. Len(q) \in 2 .. Len(q)
      BY <1>1, <2>1
    <2> QED
      BY <2>1, <2>2, Zenon DEF Opens
  <1>5. q \notin {<<"(">>, <<")">>, <<" ">>}
    BY <1>2, Brackets, Zenon
  <1> QED
    BY <1>3, <1>4, <1>5, Zenon DEF Lexeme

\* A character by itself.
OneIs(x, q) ==
    /\ q \in Texts /\ q # <<>> /\ q[1] = x
    /\ Plain(q) <=> Joins(x)
    /\ x \in {Quote, "#"} => Opens(q)
    /\ x \in {"(", ")", " "} => Lexeme(q)
    /\ Lexeme(q) \/ Opens(q)

\* What it is.
LEMMA OneChar ==
    ASSUME NEW x \in Chars
    PROVE  OneIs(x, <<x>>)
  <1> DEFINE q == <<x>>
  <1>1. q \in Texts /\ q # <<>> /\ q[1] = x /\ Len(q) = 1 /\ DOMAIN q = {1} /\ 2 .. 1 = {}
    BY DEF Texts
  <1>2. x \in {"(", ")", " "} => q \in {<<"(">>, <<")">>, <<" ">>}
    BY Zenon
  <1> HIDE DEF q
  <1>3. Plain(q) <=> Joins(x)
    BY <1>1, Zenon DEF Plain, Joins
  <1>4. x \in {Quote, "#"} => Opens(q)
    BY <1>1, Zenon DEF Opens
  <1>5. x \in {"(", ")", " "} => Lexeme(q)
    BY <1>2, Zenon DEF Lexeme
  <1>6. x \in {Quote, "#"} \/ x \in {"(", ")", " "} \/ Joins(x)
    BY Kinds, Zenon
  <1>7. Plain(q) => Lexeme(q)
    BY Zenon DEF Lexeme
  <1> QED
    BY <1>1, <1>3, <1>4, <1>5, <1>6, <1>7, Zenon DEF OneIs, q

\* Lexemes that are all complete, and two plain ones side by side.
Complete(p) ==
    /\ \A k \in DOMAIN p : Lexeme(p[k])
    /\ \A k \in 1 .. Len(p) - 1 : ~(Plain(p[k]) /\ Plain(p[k + 1]))
Clash(p, q) == p # <<>> /\ Plain(p[Len(p)]) /\ Plain(q)

\* Lexemes with one more at the end.
EndsWith(p, q, r) ==
    /\ Lexemes(r) <=> Complete(p) /\ (Lexeme(q) \/ Opens(q)) /\ ~Clash(p, q)
    /\ Complete(r) <=> Complete(p) /\ Lexeme(q) /\ ~Clash(p, q)

\* What that takes.
LEMMA LexemesAppend ==
    ASSUME NEW p \in Seq(Texts), NEW q \in Texts
    PROVE  EndsWith(p, q, Append(p, q))
  <1> DEFINE r == Append(p, q)
             n == Len(p)
  <1>1. /\ r \in Seq(Texts) /\ Len(r) = n + 1 /\ n \in Nat /\ (\A k \in 1 .. n : r[k] = p[k])
        /\ r[n + 1] = q /\ DOMAIN r = 1 .. n + 1 /\ DOMAIN p = 1 .. n /\ (p = <<>> <=> n = 0)
    BY AppendProperties, EmptySeq, SMTT(30)
  <1> HIDE DEF r, n
  <1>2. /\ \A k \in 1 .. n + 1 : k = n + 1 \/ (k \in 1 .. n /\ k # n + 1)
        /\ n + 1 \in 1 .. n + 1 /\ (n + 1) - 1 = n /\ \A k \in 1 .. n : k \in 1 .. n + 1
        /\ \A k \in 1 .. n : k = n \/ k \in 1 .. n - 1
        /\ \A k \in 1 .. n - 1 : k \in 1 .. n /\ k + 1 \in 1 .. n
        /\ n # 0 => n \in 1 .. n
    BY <1>1
  <1> DEFINE Near(s, m) == \A k \in 1 .. m : ~(Plain(s[k]) /\ Plain(s[k + 1]))
  <1>3. Near(r, n) <=> Near(p, n - 1) /\ ~Clash(p, q)
    <2>1. ASSUME Near(r, n) PROVE Near(p, n - 1) /\ ~Clash(p, q)
      <3>1. Near(p, n - 1)
        BY <1>1, <1>2, <2>1, Zenon
      <3>2. ~Clash(p, q)
        BY <1>1, <1>2, <2>1, Zenon DEF Clash, n
      <3> QED
        BY <3>1, <3>2, Zenon
    <2>2. ASSUME Near(p, n - 1), ~Clash(p, q) PROVE Near(r, n)
      <3> SUFFICES ASSUME NEW k \in 1 .. n PROVE ~(Plain(r[k]) /\ Plain(r[k + 1]))
        BY Zenon
      <3>1. CASE k = n
        <4>1. n # 0 /\ p # <<>>
          BY <1>1, SMTT(30)
        <4>2. r[k] = p[Len(p)] /\ r[k + 1] = q
          BY <1>1, <3>1, Zenon DEF n
        <4> QED
          BY <2>2, <4>1, <4>2, Zenon DEF Clash
      <3>2. CASE k \in 1 .. n - 1
        <4>1. r[k] = p[k] /\ r[k + 1] = p[k + 1]
          BY <1>1, <1>2, <3>2, Zenon
        <4> QED
          BY <2>2, <3>2, <4>1, Zenon
      <3> QED
        BY <1>2, <3>1, <3>2, Zenon
    <2> QED
      BY <2>1, <2>2, Zenon
  <1>4. Complete(p) <=> (\A k \in 1 .. n : Lexeme(p[k])) /\ Near(p, n - 1)
    BY <1>1, Zenon DEF Complete, n
  <1>5. Complete(r) <=> (\A k \in 1 .. n + 1 : Lexeme(r[k])) /\ Near(r, n)
    BY <1>1, <1>2, Zenon DEF Complete
  <1>6. Lexemes(r) <=> /\ \A k \in 1 .. n + 1 : Lexeme(r[k]) \/ (k = n + 1 /\ Opens(r[k]))
                       /\ Near(r, n)
    BY <1>1, <1>2, Zenon DEF Lexemes
  <1> HIDE DEF Near
  <1>7. (\A k \in 1 .. n + 1 : Lexeme(r[k])) <=> (\A k \in 1 .. n : Lexeme(p[k])) /\ Lexeme(q)
    BY <1>1, <1>2, Zenon
  <1>8. (\A k \in 1 .. n + 1 : Lexeme(r[k]) \/ (k = n + 1 /\ Opens(r[k])))
          <=> (\A k \in 1 .. n : Lexeme(p[k])) /\ (Lexeme(q) \/ Opens(q))
    <2>1. /\ \A k \in 1 .. n : r[k] = p[k] /\ k # n + 1 /\ k \in 1 .. n + 1
          /\ r[n + 1] = q
      BY <1>1
    <2> QED
      BY <1>2, <2>1, Zenon
  <1> QED
    BY <1>3, <1>4, <1>5, <1>6, <1>7, <1>8, Zenon DEF EndsWith, r

\* No lexemes are complete.
LEMMA CompleteEmpty == Complete(<<>>) /\ Lexemes(<<>>)
  <1>1. DOMAIN <<>> = {} /\ Len(<<>>) = 0 /\ 1 .. 0 - 1 = {}
    OBVIOUS
  <1> QED
    BY <1>1, SMTT(30) DEF Complete, Lexemes

\* The next character goes to the last lexeme.
Goes(q, x) == Opens(q) \/ (Plain(q) /\ Joins(x))

\* A character more in the last lexeme, or as a new one: just one of the two.
NextIs(p, q, x) ==
    /\ Lexemes(Append(p, Append(q, x))) <=> Lexemes(Append(p, q)) /\ Goes(q, x)
    /\ Lexemes(Append(Append(p, q), <<x>>)) <=> Lexemes(Append(p, q)) /\ ~Goes(q, x)

\* Which one the last lexeme and the character tell.
LEMMA NextLexeme ==
    ASSUME NEW p \in Seq(Texts), NEW q \in Texts, q # <<>>, NEW x \in Chars
    PROVE  NextIs(p, q, x)
  <1> DEFINE r == Append(q, x)
             s == Append(p, q)
             one == <<x>>
  <1>1. r \in Texts /\ r # <<>>
    BY NotEmpty, Zenon
  <1>2. Extends(q, x, r)
    BY ExtendsIt, Zenon
  <1>3. OneIs(x, one)
    BY OneChar, Zenon
  <1>4. s \in Seq(Texts) /\ s # <<>> /\ s[Len(s)] = q
    BY AppendProperties
  <1>5. EndsWith(p, q, s) /\ EndsWith(p, r, Append(p, r))
    BY <1>1, LexemesAppend, Zenon
  <1> HIDE DEF s, one, r
  <1>6. EndsWith(s, one, Append(s, one))
    BY <1>3, <1>4, LexemesAppend, Zenon DEF OneIs
  <1>7. Opens(q) => ~Plain(q) /\ ~Lexeme(q)
    BY OpensNot, Zenon
  <1>8. Plain(q) => Lexeme(q)
    BY Zenon DEF Lexeme
  <1>9. Clash(s, one) <=> Plain(q) /\ Joins(x)
    BY <1>3, <1>4, Zenon DEF Clash, OneIs
  <1>10. Lexemes(Append(s, one)) <=> Lexemes(s) /\ ~Goes(q, x)
    BY <1>3, <1>5, <1>6, <1>7, <1>9, Zenon DEF EndsWith, OneIs, Goes
  <1>11. Lexeme(r) \/ Opens(r) <=> Goes(q, x)
    BY <1>2, Zenon DEF Extends, Goes
  <1>12. Goes(q, x) => (Plain(r) <=> Plain(q))
    BY <1>2, <1>7, Zenon DEF Extends, Goes
  <1>13. Goes(q, x) => (Clash(p, r) <=> Clash(p, q)) /\ (Lexeme(q) \/ Opens(q))
    BY <1>8, <1>12, Zenon DEF Clash, Goes
  <1>14. Lexemes(Append(p, r)) <=> Lexemes(s) /\ Goes(q, x)
    BY <1>5, <1>11, <1>13, Zenon DEF EndsWith
  <1> QED
    BY <1>10, <1>14, Zenon DEF NextIs, r, s, one

\* A plain lexeme is a token.
LEMMA PlainKept ==
    ASSUME NEW q \in Texts, q # <<>>, Plain(q)
    PROVE  ~Skipped(q) /\ Joins(q[1])
  <1>1. 1 \in DOMAIN q
    BY EmptySeq DEF Texts
  <1>2. Joins(q[1])
    BY <1>1, Zenon DEF Plain, Joins
  <1> QED
    BY <1>2, Kinds, Brackets, Zenon DEF Skipped
-----------------------------------------------------------------------------
(* The scanner and the lexemes of what it has read.                        *)

\* p ends in a lexeme q that is not complete, or that may still grow.
Ends(p, q, rest) == rest \in Seq(Texts) /\ q \in Texts /\ q # <<>> /\ p = Append(rest, q)

\* s has read all of p: it ends in no plain lexeme.
AtRest(p, s) ==
    /\ s = St(Kept(p), <<>>, No, No) /\ p \in Seq(Texts)
    /\ p = <<>> \/ \E q, rest : Ends(p, q, rest) /\ Lexeme(q) /\ ~Plain(q)
\* s is in a string, in a comment, in a plain token.
InString(p, s) ==
    \E q, rest : Ends(p, q, rest) /\ Opens(q) /\ q[1] = Quote /\ s = St(Kept(rest), q, Yes, No)
InComment(p, s) ==
    \E q, rest : Ends(p, q, rest) /\ Opens(q) /\ q[1] = "#" /\ s = St(Kept(rest), <<>>, No, Yes)
InToken(p, s) ==
    \E q, rest : Ends(p, q, rest) /\ Plain(q) /\ s = St(Kept(rest), q, No, No)
Reads(p, s) == AtRest(p, s) \/ InString(p, s) \/ InComment(p, s) \/ InToken(p, s)

\* The tokens at the end of the input are the lexemes that are kept.
LEMMA ReadsTokens ==
    ASSUME NEW p, NEW s, Reads(p, s)
    PROVE  Flush(s).tokens = Kept(p)
  <1> DEFINE none == <<>>
  <1>0. ASSUME NEW a, NEW b, NEW d, NEW e, s = St(a, b, d, e)
        PROVE  Flush(s).tokens = Ended(a, b)
    <2>1. Flush(s) = St(Ended(a, b), none, d, e)
      BY <1>0, FlushIs
    <2>2. St(Ended(a, b), none, d, e).tokens = Ended(a, b)
      BY Zenon DEF St
    <2> QED
      BY <2>1, <2>2, Zenon
  <1>1. \A a : Ended(a, none) = a
    BY Zenon DEF Ended
  <1>2. CASE AtRest(p, s)
    <2>1. s = St(Kept(p), none, No, No)
      BY <1>2, Zenon DEF AtRest
    <2> QED
      BY <1>0, <1>1, <2>1
  <1>3. CASE InString(p, s)
    <2>1. PICK q, rest : Ends(p, q, rest) /\ q[1] = Quote /\ s = St(Kept(rest), q, Yes, No)
      BY <1>3, Zenon DEF InString
    <2>2. rest \in Seq(Texts) /\ q \in Texts /\ q # <<>> /\ p = Append(rest, q)
      BY <2>1, Zenon DEF Ends
    <2>3. ~Skipped(q)
      BY <2>1, Kinds, Brackets, Zenon DEF Skipped
    <2>4. Kept(p) = Append(Kept(rest), q)
      BY <2>2, <2>3, KeptAppend, Zenon
    <2>5. Ended(Kept(rest), q) = Append(Kept(rest), q)
      BY <2>2, Zenon DEF Ended
    <2> QED
      BY <1>0, <2>1, <2>4, <2>5
  <1>4. CASE InComment(p, s)
    <2>1. PICK q, rest : Ends(p, q, rest) /\ q[1] = "#" /\ s = St(Kept(rest), none, No, Yes)
      BY <1>4, Zenon DEF InComment
    <2>2. rest \in Seq(Texts) /\ q \in Texts /\ q # <<>> /\ p = Append(rest, q)
      BY <2>1, Zenon DEF Ends
    <2>3. Kept(p) = Kept(rest)
      BY <2>1, <2>2, KeptAppend, Zenon DEF Skipped
    <2> QED
      BY <1>0, <1>1, <2>1, <2>3
  <1>5. CASE InToken(p, s)
    <2>1. PICK q, rest : Ends(p, q, rest) /\ Plain(q) /\ s = St(Kept(rest), q, No, No)
      BY <1>5, Zenon DEF InToken
    <2>2. rest \in Seq(Texts) /\ q \in Texts /\ q # <<>> /\ p = Append(rest, q)
      BY <2>1, Zenon DEF Ends
    <2>3. ~Skipped(q)
      BY <2>1, <2>2, PlainKept, Zenon
    <2>4. Kept(p) = Append(Kept(rest), q)
      BY <2>2, <2>3, KeptAppend, Zenon
    <2>5. Ended(Kept(rest), q) = Append(Kept(rest), q)
      BY <2>2, Zenon DEF Ended
    <2> QED
      BY <1>0, <2>1, <2>4, <2>5
  <1> QED
    BY <1>2, <1>3, <1>4, <1>5, Zenon DEF Reads

\* A character that starts a lexeme: outside a string and a comment, p is kept
\* once the token is pushed, and the character does not join the token.
LEMMA FreshRead ==
    ASSUME NEW p \in Seq(Texts), NEW a, NEW b, Ended(a, b) = Kept(p), NEW x \in Chars,
           Joins(x) => b = <<>>
    PROVE  Reads(Append(p, <<x>>), scan(St(a, b, No, No), x))
  <1> DEFINE one == <<x>>
             none == <<>>
             r == Append(p, one)
             s == scan(St(a, b, No, No), x)
             k == Kept(p)
  <1>1. OneIs(x, one)
    BY OneChar, Zenon
  <1>2. Append(none, x) = one /\ (x = " " <=> one = <<" ">>)
    OBVIOUS
  <1>3. /\ x = "#" => s = St(k, none, No, Yes)
        /\ x = Quote => s = St(k, one, Yes, No)
        /\ x \in {"(", ")"} => s = St(Append(k, one), none, No, No)
        /\ x = " " => s = St(k, none, No, No)
        /\ Joins(x) => s = St(a, Append(b, x), No, No)
    <2>1. PlainTurn(a, b, x, s)
      BY ScanPlain, Zenon
    <2> QED
      BY <1>2, <2>1, Zenon DEF PlainTurn
  <1>4. Skipped(one) <=> x = " " \/ x = "#"
    BY <1>1, <1>2, Zenon DEF Skipped, OneIs
  <1> HIDE DEF one, none, s
  <1>5. one \in Texts /\ one # <<>> /\ one[1] = x
    BY <1>1, Zenon DEF OneIs
  <1>6. Ends(r, one, p)
    BY <1>5, Zenon DEF Ends
  <1>7. /\ r \in Seq(Texts) /\ (Skipped(one) => Kept(r) = k)
        /\ (~Skipped(one) => Kept(r) = Append(k, one))
    BY <1>5, KeptAppend, Zenon
  <1> HIDE DEF k, r
  <1>8. CASE x = "#"
    <2>1. Opens(one)
      BY <1>1, <1>8, Zenon DEF OneIs
    <2>2. InComment(r, s)
      BY <1>3, <1>5, <1>6, <1>8, <2>1, Zenon DEF InComment, k, none
    <2> QED
      BY <2>2, Zenon DEF Reads, r, s, one
  <1>9. CASE x = Quote
    <2>1. Opens(one)
      BY <1>1, <1>9, Zenon DEF OneIs
    <2>2. InString(r, s)
      BY <1>3, <1>5, <1>6, <1>9, <2>1, Zenon DEF InString, k
    <2> QED
      BY <2>2, Zenon DEF Reads, r, s, one
  <1>10. CASE x \in {"(", ")", " "}
    <2>1. ~Joins(x) /\ x # "#" /\ (x = " " \/ x \in {"(", ")"})
      BY <1>10, Kinds, Zenon
    <2>2. Lexeme(one) /\ ~Plain(one)
      BY <1>1, <1>10, <2>1, Zenon DEF OneIs
    <2>3. s = St(Kept(r), none, No, No)
      <3>1. CASE x = " "
        BY <1>3, <1>4, <1>7, <3>1, Zenon
      <3>2. CASE x \in {"(", ")"} /\ x # " "
        BY <1>3, <1>4, <1>7, <2>1, <3>2, Zenon
      <3> QED
        BY <2>1, <3>1, <3>2, Zenon
    <2>4. AtRest(r, s)
      BY <1>6, <1>7, <2>2, <2>3, Zenon DEF AtRest, none
    <2> QED
      BY <2>4, Zenon DEF Reads, r, s, one
  <1>11. CASE Joins(x)
    <2>1. b = none /\ a = k
      BY <1>11, Zenon DEF Ended, none, k
    <2>2. s = St(k, one, No, No)
      BY <1>2, <1>3, <1>11, <2>1, Zenon
    <2>3. Plain(one)
      BY <1>1, <1>11, Zenon DEF OneIs
    <2>4. InToken(r, s)
      BY <1>6, <2>2, <2>3, Zenon DEF InToken, k
    <2> QED
      BY <2>4, Zenon DEF Reads, r, s, one
  <1> QED
    BY <1>8, <1>9, <1>10, <1>11, Kinds, Zenon

\* A character that goes to the last lexeme.
LEMMA JoinedRead ==
    ASSUME NEW p \in Seq(Texts), NEW q \in Texts, q # <<>>, NEW s, NEW x \in Chars,
           \/ Opens(q) /\ q[1] = Quote /\ s = St(Kept(p), q, Yes, No)
           \/ Opens(q) /\ q[1] = "#" /\ s = St(Kept(p), <<>>, No, Yes)
           \/ Plain(q) /\ Joins(x) /\ s = St(Kept(p), q, No, No)
    PROVE  Reads(Append(p, Append(q, x)), scan(s, x))
  <1> DEFINE r == Append(q, x)
             w == Append(p, r)
             k == Kept(p)
             none == <<>>
  <1>1. r \in Texts /\ r # <<>> /\ r[1] = q[1] /\ Len(r) = Len(q) + 1 /\ Len(q) \in Nat \ {0}
    BY MoreText
  <1>2. Extends(q, x, r)
    BY ExtendsIt, Zenon
  <1>3. Ends(w, r, p)
    BY <1>1, Zenon DEF Ends
  <1>4. /\ w \in Seq(Texts) /\ (Skipped(r) => Kept(w) = k)
        /\ (~Skipped(r) => Kept(w) = Append(k, r))
    BY <1>1, KeptAppend, Zenon
  <1>5. Opens(q) => ~Plain(q)
    BY OpensNot, Zenon
  <1> HIDE DEF w, k, none
  <1>6. CASE Opens(q) /\ q[1] = Quote /\ s = St(k, q, Yes, No)
    <2>1. /\ x = Quote => scan(s, x) = St(Append(k, r), none, No, No)
          /\ x # Quote => scan(s, x) = St(k, r, Yes, No)
      BY <1>6, ScanString, Zenon DEF none
    <2>2. CASE x = Quote
      <3>1. Lexeme(r) /\ ~Plain(r)
        BY <1>2, <1>5, <1>6, <2>2, Zenon DEF Extends
      <3>2. ~Skipped(r)
        BY <1>1, <1>6, Kinds, Brackets, Zenon DEF Skipped
      <3>3. AtRest(w, scan(s, x))
        BY <1>3, <1>4, <2>1, <2>2, <3>1, <3>2, Zenon DEF AtRest, none
      <3> QED
        BY <3>3, Zenon DEF Reads, w
    <2>3. CASE x # Quote
      <3>1. Opens(r)
        BY <1>2, <1>6, <2>3, Zenon DEF Extends
      <3>2. InString(w, scan(s, x))
        BY <1>1, <1>3, <1>6, <2>1, <2>3, <3>1, Zenon DEF InString, k
      <3> QED
        BY <3>2, Zenon DEF Reads, w
    <2> QED
      BY <2>2, <2>3, Zenon
  <1>7. CASE Opens(q) /\ q[1] = "#" /\ s = St(k, none, No, Yes)
    <2>1. /\ x = "#" => scan(s, x) = St(k, none, No, No)
          /\ x # "#" => scan(s, x) = St(k, none, No, Yes)
      BY <1>7, ScanComment
    <2>2. CASE x = "#"
      <3>1. Lexeme(r) /\ ~Plain(r)
        BY <1>2, <1>5, <1>7, <2>2, Zenon DEF Extends
      <3>2. Skipped(r)
        BY <1>1, <1>7, Zenon DEF Skipped
      <3>3. AtRest(w, scan(s, x))
        BY <1>3, <1>4, <2>1, <2>2, <3>1, <3>2, Zenon DEF AtRest, none
      <3> QED
        BY <3>3, Zenon DEF Reads, w
    <2>3. CASE x # "#"
      <3>1. Opens(r)
        BY <1>2, <1>7, <2>3, Zenon DEF Extends
      <3>2. InComment(w, scan(s, x))
        BY <1>1, <1>3, <1>7, <2>1, <2>3, <3>1, Zenon DEF InComment, k, none
      <3> QED
        BY <3>2, Zenon DEF Reads, w
    <2> QED
      BY <2>2, <2>3, Zenon
  <1>8. CASE Plain(q) /\ Joins(x) /\ s = St(k, q, No, No)
    <2>1. scan(s, x) = St(k, r, No, No)
      <3>1. PlainTurn(k, q, x, scan(s, x))
        BY <1>8, ScanPlain, Zenon
      <3> QED
        BY <1>8, <3>1, Zenon DEF PlainTurn
    <2>2. Plain(r)
      BY <1>2, <1>8, Zenon DEF Extends
    <2>3. InToken(w, scan(s, x))
      BY <1>3, <2>1, <2>2, Zenon DEF InToken, k
    <2> QED
      BY <2>3, Zenon DEF Reads, w
  <1> QED
    BY <1>6, <1>7, <1>8, Zenon DEF k, none

\* The last lexeme is the one that ends p.
LEMMA SameEnd ==
    ASSUME NEW p, NEW q, NEW rest, Ends(p, q, rest),
           NEW q2, NEW rest2, Ends(p, q2, rest2)
    PROVE  q2 = q /\ rest2 = rest
  <1>1. rest \in Seq(Texts) /\ q \in Texts /\ rest2 \in Seq(Texts) /\ q2 \in Texts
    BY Zenon DEF Ends
  <1>2. Append(rest, q) = Append(rest2, q2) <=> rest = rest2 /\ q = q2
    BY <1>1, AppendInjective, SMT
  <1> QED
    BY <1>2, Zenon DEF Ends

\* The tokenizer starts a lexeme where the grammar does.
LEMMA ReadsFresh ==
    ASSUME NEW p, NEW q, NEW rest, Ends(p, q, rest), NEW s, Reads(p, s),
           NEW x \in Chars, ~Goes(q, x)
    PROVE  Reads(Append(p, <<x>>), scan(s, x))
  <1>1. p \in Seq(Texts) /\ rest \in Seq(Texts) /\ q \in Texts /\ q # <<>> /\ p = Append(rest, q)
    BY AppendProperties, Zenon DEF Ends
  <1>2. CASE AtRest(p, s)
    <2>1. s = St(Kept(p), <<>>, No, No) /\ Ended(Kept(p), <<>>) = Kept(p)
      BY <1>2, Zenon DEF AtRest, Ended
    <2> QED
      BY <1>1, <2>1, FreshRead, Zenon
  <1>3. CASE InString(p, s)
    BY <1>3, SameEnd, Zenon DEF InString, Goes
  <1>4. CASE InComment(p, s)
    BY <1>4, SameEnd, Zenon DEF InComment, Goes
  <1>5. CASE InToken(p, s)
    <2>1. Plain(q) /\ s = St(Kept(rest), q, No, No)
      BY <1>5, SameEnd, Zenon DEF InToken
    <2>2. ~Joins(x)
      BY <2>1, Zenon DEF Goes
    <2>3. Ended(Kept(rest), q) = Kept(p)
      BY <1>1, <2>1, PlainKept, KeptAppend, Zenon DEF Ended
    <2> QED
      BY <1>1, <2>1, <2>2, <2>3, FreshRead, Zenon
  <1> QED
    BY <1>2, <1>3, <1>4, <1>5, Zenon DEF Reads

\* It goes on with the last lexeme where the grammar does.
LEMMA ReadsJoined ==
    ASSUME NEW p, NEW q, NEW rest, Ends(p, q, rest), NEW s, Reads(p, s),
           NEW x \in Chars, Goes(q, x)
    PROVE  Reads(Append(rest, Append(q, x)), scan(s, x))
  <1>1. p \in Seq(Texts) /\ rest \in Seq(Texts) /\ q \in Texts /\ q # <<>> /\ p = Append(rest, q)
    BY AppendProperties, Zenon DEF Ends
  <1>2. CASE AtRest(p, s)
    <2>1. p # <<>>
      BY <1>1, AppendProperties, Zenon
    <2>2. Lexeme(q) /\ ~Plain(q)
      BY <1>2, <2>1, SameEnd, Zenon DEF AtRest
    <2> QED
      BY <1>1, <2>2, OpensNot, Zenon DEF Goes
  <1>3. CASE InString(p, s)
    <2>1. Opens(q) /\ q[1] = Quote /\ s = St(Kept(rest), q, Yes, No)
      BY <1>3, SameEnd, Zenon DEF InString
    <2> QED
      BY <1>1, <2>1, JoinedRead, Zenon
  <1>4. CASE InComment(p, s)
    <2>1. Opens(q) /\ q[1] = "#" /\ s = St(Kept(rest), <<>>, No, Yes)
      BY <1>4, SameEnd, Zenon DEF InComment
    <2> QED
      BY <1>1, <2>1, JoinedRead, Zenon
  <1>5. CASE InToken(p, s)
    <2>1. Plain(q) /\ s = St(Kept(rest), q, No, No)
      BY <1>5, SameEnd, Zenon DEF InToken
    <2>2. Joins(x)
      BY <1>1, <2>1, OpensNot, Zenon DEF Goes
    <2> QED
      BY <1>1, <2>1, <2>2, JoinedRead, Zenon
  <1> QED
    BY <1>2, <1>3, <1>4, <1>5, Zenon DEF Reads

-----------------------------------------------------------------------------
(* The tokenizer follows the only cut of the text into lexemes.            *)

Spots(t) == SUBSET (1 .. Len(t) - 1)

\* c is the only cut of t into lexemes.
OnlyCut(t, c) == c \in Spots(t) /\ \A d \in Spots(t) : Lexemes(Cut(t, d)) <=> d = c

\* The inductive invariant of the tokenizer: there is one, and s has read it.
LexInv(t, s) == \E c : OnlyCut(t, c) /\ Reads(Cut(t, c), s)

\* The empty text has no lexemes.
LEMMA CutEmpty == Cut(<<>>, {}) = <<>>
  <1>0. <<>> \in Texts /\ Len(<<>>) = 0
    BY EmptyText, Zenon
  <1>1. EndAt(0, {}, 0, {} \cup {0})
    BY CutsEnd, SMT
  <1>2. Ascending({0}) = Append(Ascending({}), 0) /\ Ascending({}) = <<>>
    <2>1. {} \cup {0} = {0}
      BY SMTT(30)
    <2>2. Ascending({}) = <<>>
      <3>1. Cardinality({}) = 0
        BY FS_EmptySet, Zenon
      <3> QED
        BY <3>1, SMT DEF Ascending
    <2> QED
      BY <1>1, <2>1, <2>2, Zenon DEF EndAt
  <1>3. Ascending({} \cup {0, Len(<<>>)}) = <<0>>
    <2>1. {} \cup {0, Len(<<>>)} = {0}
      BY <1>0, Zenon
    <2>2. Append(<<>>, 0) = <<0>>
      BY SMT
    <2> QED
      BY <2>1, <2>2, <1>2, Zenon
  <1>4. Cuts(<<0>>, 0) /\ Len(<<0>>) - 1 = 0
    BY SMT DEF Cuts
  <1>5. Cut(<<>>, {}) = Parts(<<>>, <<0>>, 0)
    BY <1>0, <1>3, <1>4, CutIs, Zenon
  <1> QED
    BY <1>4, <1>5, SMT DEF Parts

\* The empty text.
LEMMA LexBase == LexInv(<<>>, Start)
  <1>1. <<>> \in Texts /\ Len(<<>>) = 0
    BY EmptyText, Zenon
  <1>2. Spots(<<>>) = {{}}
    <2>1. 1 .. Len(<<>>) - 1 = {}
      BY <1>1, SMT
    <2> QED
      BY <2>1, Zenon DEF Spots
  <1>3. Cut(<<>>, {}) = <<>>
    BY CutEmpty, Zenon
  <1>4. OnlyCut(<<>>, {})
    BY <1>2, <1>3, CompleteEmpty, Zenon DEF OnlyCut
  <1>5. AtRest(<<>>, Start)
    BY StartIs, KeptEmpty, Zenon DEF AtRest
  <1> QED
    BY <1>3, <1>4, <1>5, Zenon DEF LexInv, Reads

\* The first character is a lexeme, or begins one.
LEMMA LexFirst ==
    ASSUME NEW s, LexInv(<<>>, s), NEW x \in Chars
    PROVE  LexInv(Append(<<>>, x), scan(s, x))
  <1> DEFINE u == Append(<<>>, x)
  <1>1. <<>> \in Texts /\ Len(<<>>) = 0 /\ Len(u) = 1
    <2>1. <<>> \in Texts
      BY EmptyText, Zenon
    <2> QED
      BY <2>1, AppendProperties, SMT DEF Texts
  <1>2. {} \in Spots(<<>>) /\ Spots(<<>>) = {{}} /\ Spots(u) = {{}}
    <2>1. 1 .. Len(<<>>) - 1 = {} /\ 1 .. Len(u) - 1 = {}
      BY <1>1, SMT
    <2> QED
      BY <2>1, Zenon DEF Spots
  <1>3. PICK c : OnlyCut(<<>>, c) /\ Reads(Cut(<<>>, c), s)
    BY Zenon DEF LexInv
  <1>4. c = {}
    BY <1>2, <1>3, Zenon DEF OnlyCut
  <1>5. Fresh(<<>>, {}, x, {})
    <2>1. {} \cup {0, Len(<<>>) + 1} = {} \cup {0, Len(<<>>), Len(<<>>) + 1}
      BY <1>1, SMT
    <2> QED
      BY <1>1, <1>2, <2>1, CutFresh, Zenon DEF Spots
  <1> DEFINE p == Cut(<<>>, {})
  <1>6. p = <<>>
    BY CutEmpty, Zenon
  <1>7. Cut(u, {}) = Append(p, <<x>>) /\ p \in Seq(Texts)
    BY <1>5, Zenon DEF Fresh, u, p
  <1>8. Lexemes(Cut(u, {}))
    <2>1. OneIs(x, <<x>>)
      BY OneChar, Zenon
    <2>2. EndsWith(p, <<x>>, Append(p, <<x>>))
      BY <1>7, <2>1, LexemesAppend, Zenon DEF OneIs
    <2> QED
      BY <1>6, <1>7, <2>1, <2>2, CompleteEmpty, Zenon DEF EndsWith, OneIs, Clash
  <1>9. OnlyCut(u, {})
    BY <1>2, <1>8, Zenon DEF OnlyCut
  <1>10. s = St(Kept(p), <<>>, No, No)
    <2>1. ASSUME NEW q, NEW rest, Ends(p, q, rest) PROVE FALSE
      <3>1. rest \in Seq(Texts) /\ q \in Texts
        BY <2>1, Zenon DEF Ends
      <3>2. Append(rest, q) # <<>>
        BY <3>1, AppendProperties, SMTT(30)
      <3> QED
        BY <1>6, <2>1, <3>2, Zenon DEF Ends
    <2> QED
      BY <1>3, <1>4, <2>1, Zenon DEF Reads, AtRest, InString, InComment, InToken
  <1>11. Ended(Kept(p), <<>>) = Kept(p)
    BY Zenon DEF Ended
  <1>12. Reads(Append(p, <<x>>), scan(s, x))
    BY <1>7, <1>10, <1>11, FreshRead, Zenon
  <1> QED
    BY <1>7, <1>9, <1>12, Zenon DEF LexInv, u

\* Another character goes to the last lexeme or is one, and just one of the two
\* cuts is a cut into lexemes.
LEMMA LexNext ==
    ASSUME NEW t \in Texts, Len(t) # 0, NEW s, LexInv(t, s), NEW x \in Chars
    PROVE  LexInv(Append(t, x), scan(s, x))
  <1> DEFINE u == Append(t, x)
             n == Len(t)
  <1>1. n \in Nat \ {0} /\ Len(u) = n + 1
    BY AppendProperties, LenProperties, SMT DEF Texts
  <1>2. Spots(u) = SUBSET (1 .. n)
    <2>1. 1 .. Len(u) - 1 = 1 .. n
      BY <1>1, SMT
    <2> QED
      BY <2>1, Zenon DEF Spots
  <1>3. PICK c : OnlyCut(t, c) /\ Reads(Cut(t, c), s)
    BY Zenon DEF LexInv
  \* The two ways to extend a cut d of t, as Goes tells them apart.
  <1> DEFINE Two(d) == \E p, q : /\ Ends(Cut(t, d), q, p)
                                 /\ Cut(u, d) = Append(p, Append(q, x))
                                 /\ Cut(u, d \cup {n}) = Append(Cut(t, d), <<x>>)
                                 /\ NextIs(p, q, x)
  <1>4. ASSUME NEW d \in Spots(t) PROVE Two(d)
    <2>1. d \in SUBSET (1 .. Len(t) - 1)
      BY Zenon DEF Spots
    <2>2. PICK p, q : Joined(t, d, x, p, q)
      BY <2>1, <1>1, CutJoined, Zenon
    <2>3. Fresh(t, d, x, d \cup {n})
      <3>1. (d \cup {n}) \cup {0, Len(t) + 1} = d \cup {0, Len(t), Len(t) + 1}
        BY Zenon
      <3> QED
        BY <2>1, <3>1, CutFresh, Zenon
    <2>4. NextIs(p, q, x)
      BY <2>2, NextLexeme, Zenon DEF Joined
    <2> QED
      BY <2>2, <2>3, <2>4, Zenon DEF Joined, Fresh, Ends
  <1>5. ASSUME NEW e \in Spots(u) PROVE e \ {n} \in Spots(t)
    <2>1. 1 .. n = (1 .. n - 1) \cup {n}
      BY <1>1, SMT
    <2> QED
      BY <1>2, <2>1, Zenon DEF Spots
  <1>6. c \in Spots(t) /\ c \in Spots(u) /\ c \cup {n} \in Spots(u) /\ n \notin c
    <2>1. 1 .. n = (1 .. n - 1) \cup {n} /\ n \notin 1 .. n - 1
      BY <1>1, SMT
    <2> QED
      BY <1>2, <1>3, <2>1, Zenon DEF Spots, OnlyCut
  <1>7. PICK p, q : /\ Ends(Cut(t, c), q, p)
                    /\ Cut(u, c) = Append(p, Append(q, x))
                    /\ Cut(u, c \cup {n}) = Append(Cut(t, c), <<x>>)
                    /\ NextIs(p, q, x)
    BY <1>4, <1>6, Zenon
  \* A cut of u into lexemes is one of t, and so it is c or c with n.
  <1>8. ASSUME NEW e \in Spots(u), Lexemes(Cut(u, e))
        PROVE  e \ {n} = c
    <2> DEFINE d == e \ {n}
    <2>1. d \in Spots(t) /\ Two(d)
      BY <1>4, <1>5, Zenon
    <2>2. e = d \/ e = d \cup {n}
      BY Zenon
    <2>3. Lexemes(Cut(t, d))
      <3>1. PICK p2, q2 : /\ Ends(Cut(t, d), q2, p2)
                          /\ Cut(u, d) = Append(p2, Append(q2, x))
                          /\ Cut(u, d \cup {n}) = Append(Cut(t, d), <<x>>)
                          /\ NextIs(p2, q2, x)
        BY <2>1, Zenon
      <3>2. Cut(t, d) = Append(p2, q2)
        BY <3>1, Zenon DEF Ends
      <3>3. Cut(u, d \cup {n}) = Append(Append(p2, q2), <<x>>)
        BY <3>1, <3>2, Zenon
      <3>4. CASE e = d
        BY <1>8, <3>1, <3>2, <3>4, Zenon DEF NextIs
      <3>5. CASE e = d \cup {n}
        BY <1>8, <3>1, <3>2, <3>3, <3>5, Zenon DEF NextIs
      <3> QED
        BY <2>2, <3>4, <3>5, Zenon
    <2> QED
      BY <1>3, <2>1, <2>3, Zenon DEF OnlyCut
  <1>9. Lexemes(Append(p, q)) /\ Cut(t, c) = Append(p, q)
    BY <1>3, <1>7, Zenon DEF OnlyCut, Ends
  <1>10. Lexemes(Cut(u, c)) <=> Goes(q, x)
    BY <1>7, <1>9, Zenon DEF NextIs
  <1>11. Lexemes(Cut(u, c \cup {n})) <=> ~Goes(q, x)
    BY <1>7, <1>9, Zenon DEF NextIs
  <1>12. ASSUME NEW e, e \ {n} = c PROVE e = c \/ e = c \cup {n}
    BY <1>12, Zenon
  <1>13. CASE Goes(q, x)
    <2>1. OnlyCut(u, c)
      BY <1>6, <1>8, <1>10, <1>11, <1>12, <1>13, Zenon DEF OnlyCut
    <2>2. Reads(Cut(u, c), scan(s, x))
      BY <1>3, <1>7, <1>13, ReadsJoined, Zenon
    <2> QED
      BY <2>1, <2>2, Zenon DEF LexInv, u
  <1>14. CASE ~Goes(q, x)
    <2>1. OnlyCut(u, c \cup {n})
      BY <1>6, <1>8, <1>10, <1>11, <1>12, <1>14, Zenon DEF OnlyCut
    <2>2. Reads(Cut(u, c \cup {n}), scan(s, x))
      BY <1>3, <1>7, <1>14, ReadsFresh, Zenon
    <2> QED
      BY <2>1, <2>2, Zenon DEF LexInv, u
  <1> QED
    BY <1>13, <1>14, Zenon

-----------------------------------------------------------------------------
(* The theorem.                                                            *)

\* The inductive invariant: the tokenizer's variables are the state behind the
\* text, which has read the only cut of the text into lexemes.
ReaderInv ==
    /\ text \in Texts /\ Scanner \in States
    /\ LexInv(text, Scanner)

\* The tokenizer starts in it.
LEMMA ReaderInit == Init => ReaderInv
  <1> SUFFICES ASSUME Init PROVE ReaderInv
    BY SMTT(30)
  <1>1. Scanner = Start /\ text = <<>>
    BY Zenon DEF Init, Scanner, Start
  <1> QED
    BY <1>1, StartIs, EmptyText, LexBase, Zenon DEF ReaderInv

\* A turn of the tokenizer's loop keeps it.
LEMMA ReaderStep == ReaderInv /\ [Read]_rvars => ReaderInv'
  <1> SUFFICES ASSUME ReaderInv, [Read]_rvars PROVE ReaderInv'
    OBVIOUS
  <1>1. CASE Read
    <2>1. PICK c \in Chars : LET s == scan(Scanner, c) IN
             /\ text' = Append(text, c)
             /\ tokens' = s.tokens /\ current_token' = s.current_token
             /\ in_string' = s.in_string /\ in_comment' = s.in_comment
      BY <1>1, Zenon DEF Read, Chars
    <2> DEFINE s == scan(Scanner, c)
    <2>2. text \in Texts /\ Scanner \in States /\ LexInv(text, Scanner)
      BY Zenon DEF ReaderInv
    <2>3. s \in States
      BY <2>2, ScanTyped, Zenon
    <2>4. Scanner' = s
      <3>1. Scanner' = St(tokens', current_token', in_string', in_comment')
        BY Zenon DEF Scanner, St
      <3> QED
        BY <2>1, <2>3, <3>1, StateFields, Zenon
    <2>5. text' \in Texts
      BY <2>1, <2>2, NotEmpty, Zenon
    <2>6. LexInv(text', s)
      <3>1. CASE Len(text) = 0
        <4>1. text = <<>>
          BY <2>2, <3>1, EmptySeq, SMT DEF Texts
        <4> QED
          BY <2>1, <2>2, <4>1, LexFirst, Zenon
      <3>2. CASE Len(text) # 0
        BY <2>1, <2>2, <3>2, LexNext, Zenon
      <3> QED
        BY <3>1, <3>2, Zenon
    <2> QED
      BY <2>3, <2>4, <2>5, <2>6, Zenon DEF ReaderInv
  <1>2. CASE UNCHANGED rvars
    <2>1. text' = text /\ Scanner' = Scanner
      BY <1>2, Zenon DEF rvars, Scanner
    <2> QED
      BY <2>1, Zenon DEF ReaderInv
  <1> QED
    BY <1>1, <1>2, Zenon

\* It holds throughout.
LEMMA ReaderAlways == Spec => []ReaderInv
  BY ReaderInit, ReaderStep, PTL DEF Spec

\* For texts of any length over any letters, the tokens that tokenize returns are
\* the lexemes of the text, which can be cut into lexemes in just one way.
THEOREM TokensAreLexemesAlways == Spec => []TokensAreLexemes
  <1>1. ReaderInv => TokensAreLexemes
    <2> SUFFICES ASSUME ReaderInv PROVE TokensAreLexemes
      OBVIOUS
    <2>1. PICK c : OnlyCut(text, c) /\ Reads(Cut(text, c), Scanner)
      BY Zenon DEF ReaderInv, LexInv
    <2> DEFINE cuts == {d \in SUBSET (1 .. Len(text) - 1) : Lexemes(Cut(text, d))}
    <2>2. cuts = {c} /\ c \in cuts
      BY <2>1, Zenon DEF OnlyCut, Spots
    <2>3. Tokens = Kept(Cut(text, c))
      BY <2>1, ReadsTokens, Zenon DEF Tokens
    <2> QED
      BY <2>2, <2>3, Zenon DEF TokensAreLexemes
  <1> QED
    BY <1>1, ReaderAlways, PTL
=============================================================================
