---------------------------- MODULE SplitProofs ----------------------------
(***************************************************************************)
(* Splitting a program at its semicolons keeps its tokens, for texts of    *)
(* any length and over any letters.                                        *)
(***************************************************************************)
EXTENDS ReaderProofs
-----------------------------------------------------------------------------
(* The tokenizer's state behind a text.                                    *)

\* behind of scanned.
IsScanned(f, t) == f = [i \in 0 .. Len(t) |-> IF i = 0 THEN Start ELSE scan(f[i - 1], t[i])]

\* It exists.
LEMMA ScannedExists ==
    ASSUME NEW t \in Texts
    PROVE  \E f \in [0 .. Len(t) -> States] : IsScanned(f, t)
  <1> DEFINE n == Len(t)
             step == [i \in 0 + 1 .. n |-> [s \in States |-> scan(s, t[i])]]
  <1>1. n \in Nat /\ 0 <= n /\ \A i \in 0 + 1 .. n : t[i] \in Chars
    BY DEF Texts
  <1>2. step \in [0 + 1 .. n -> [States -> States]]
    BY <1>1, ScanTyped, Zenon
  <1>3. ASSUME NEW i \in 0 .. n, i # 0 PROVE i \in 0 + 1 .. n /\ i - 1 \in 0 .. n
    BY <1>1, <1>3
  <1>4. \A i \in 0 + 1 .. n, s \in States : step[i][s] = scan(s, t[i])
    BY Zenon
  <1> HIDE DEF step
  <1>5. PICK f \in [0 .. n -> States] : Follows(f, 0, n, Start, step)
    BY <1>1, <1>2, StartIs, FollowsExists, Zenon
  <1>6. ASSUME NEW i \in 0 .. n PROVE f[i] = IF i = 0 THEN Start ELSE scan(f[i - 1], t[i])
    <2>1. f[i] = IF i = 0 THEN Start ELSE step[i][f[i - 1]]
      BY <1>5, Zenon DEF Follows
    <2>2. i # 0 => f[i - 1] \in States /\ i \in 0 + 1 .. n
      BY <1>3, <1>5, Zenon
    <2>3. i # 0 => step[i][f[i - 1]] = scan(f[i - 1], t[i])
      BY <1>4, <2>2, Zenon
    <2> QED
      BY <2>1, <2>3, Zenon
  <1>7. f = [i \in 0 .. n |-> f[i]]
    BY <1>5, Zenon
  <1>8. IsScanned(f, t)
    BY <1>6, <1>7, Zenon DEF IsScanned
  <1> QED
    BY <1>5, <1>8, Zenon

\* scanned is its last value.
LEMMA ScannedIs ==
    ASSUME NEW t \in Texts, NEW f, IsScanned(f, t)
    PROVE  scanned(t) = f[Len(t)]
  <1> DEFINE Step(g) == [i \in 0 .. Len(t) |-> IF i = 0 THEN Start ELSE scan(g[i - 1], t[i])]
             v == CHOOSE g : g = Step(g)
  <1>1. scanned(t) = v[Len(t)]
    BY Zenon DEF scanned
  <1>2. \E g : g = Step(g)
    BY Zenon DEF IsScanned
  <1>3. v = Step(v)
    BY <1>2, Zenon
  <1> HIDE DEF v
  <1>4. \A i \in 0 .. Len(t) : /\ v[i] = IF i = 0 THEN Start ELSE scan(v[i - 1], t[i])
                               /\ f[i] = IF i = 0 THEN Start ELSE scan(f[i - 1], t[i])
    BY <1>3, Zenon DEF IsScanned
  <1>5. Len(t) \in Nat /\ 0 \in 0 .. Len(t) /\ Len(t) \in 0 .. Len(t)
        /\ \A i \in 0 + 1 .. Len(t) : i \in 0 .. Len(t) /\ i # 0
    BY DEF Texts
  <1>6. f[0] = v[0]
    BY <1>4, <1>5, Zenon
  <1>7. \A i \in 0 + 1 .. Len(t) : f[i - 1] = v[i - 1] => f[i] = v[i]
    BY <1>4, <1>5, Zenon
  <1>8. StepAlike(f, v, 0, Len(t)) /\ 0 \in Nat
    BY <1>6, <1>7, Zenon DEF StepAlike
  <1>9. Alike(f, v, 0, Len(t))
    BY <1>5, <1>8, SameSteps, Zenon
  <1> QED
    BY <1>1, <1>5, <1>9, Zenon DEF Alike

\* Reading a text with a character more is one more turn of the loop.
LEMMA ScannedAppend ==
    ASSUME NEW t \in Texts, NEW c \in Chars
    PROVE  /\ scanned(t) \in States /\ Append(t, c) \in Texts
           /\ scanned(Append(t, c)) = scan(scanned(t), c)
  <1> DEFINE u == Append(t, c)
             n == Len(t)
  <1>1. u \in Texts /\ n \in Nat /\ Len(u) = n + 1 /\ u[n + 1] = c /\ \A i \in 1 .. n : u[i] = t[i]
    BY AppendProperties DEF Texts
  <1> HIDE DEF u
  <1>2. PICK f \in [0 .. n -> States] : IsScanned(f, t)
    BY ScannedExists, Zenon
  <1>3. PICK g \in [0 .. Len(u) -> States] : IsScanned(g, u)
    BY <1>1, ScannedExists, Zenon
  <1>4. scanned(t) = f[n] /\ scanned(u) = g[n + 1]
    BY <1>1, <1>2, <1>3, ScannedIs, Zenon
  <1>5. /\ n \in 0 .. n /\ n + 1 \in 0 .. n + 1 /\ n + 1 # 0 /\ (n + 1) - 1 = n
        /\ 0 \in 0 .. n /\ 0 \in 0 .. n + 1
        /\ \A i \in 0 + 1 .. n : i \in 0 .. n /\ i \in 0 .. n + 1 /\ i # 0 /\ i \in 1 .. n
    BY <1>1
  <1>6. /\ \A i \in 0 .. n : f[i] = IF i = 0 THEN Start ELSE scan(f[i - 1], t[i])
        /\ \A i \in 0 .. n + 1 : g[i] = IF i = 0 THEN Start ELSE scan(g[i - 1], u[i])
    BY <1>1, <1>2, <1>3, Zenon DEF IsScanned
  <1>7. f[0] = g[0]
    BY <1>5, <1>6, Zenon
  <1>8. \A i \in 0 + 1 .. n : f[i - 1] = g[i - 1] => f[i] = g[i]
    BY <1>1, <1>5, <1>6, Zenon
  <1>9. \A i \in 0 .. n : f[i] = g[i]
    <2>1. StepAlike(f, g, 0, n) /\ 0 \in Nat
      BY <1>7, <1>8, Zenon DEF StepAlike
    <2>2. Alike(f, g, 0, n)
      BY <1>1, <2>1, SameSteps, Zenon
    <2> QED
      BY <2>2, Zenon DEF Alike
  <1>10. g[n + 1] = scan(g[n], c)
    BY <1>1, <1>5, <1>6, Zenon
  <1> QED
    BY <1>1, <1>2, <1>4, <1>5, <1>9, <1>10, Zenon DEF u

\* Nothing read, nothing done.
LEMMA ScannedEmpty == scanned(<<>>) = Start /\ <<>> \in Texts
  <1>1. <<>> \in Texts /\ Len(<<>>) = 0 /\ 0 \in 0 .. 0
    BY DEF Texts
  <1>2. PICK f \in [0 .. Len(<<>>) -> States] : IsScanned(f, <<>>)
    BY <1>1, ScannedExists, Zenon
  <1>3. scanned(<<>>) = f[0]
    BY <1>1, <1>2, ScannedIs
  <1>4. f[0] = Start
    BY <1>1, <1>2, Zenon DEF IsScanned
  <1> QED
    BY <1>1, <1>3, <1>4, Zenon
-----------------------------------------------------------------------------
(* The tokens of several pieces.                                           *)

\* joined of FlattenSeq.
IsFlat(f, ss) == f = [i \in 1 .. Len(ss) |-> IF i = 1 THEN ss[i] ELSE f[i - 1] \o ss[i]]

\* It exists.
LEMMA FlatExists ==
    ASSUME NEW ss \in Seq(Seq(Texts)), Len(ss) # 0
    PROVE  \E f \in [1 .. Len(ss) -> Seq(Texts)] : IsFlat(f, ss)
  <1> DEFINE n == Len(ss)
             V == Seq(Texts)
             step == [i \in 1 + 1 .. n |-> [s \in V |-> s \o ss[i]]]
  <1>1. n \in Nat /\ 1 <= n /\ 1 \in Nat /\ \A i \in 1 .. n : ss[i] \in V
    OBVIOUS
  <1>2. /\ 1 \in 1 .. n /\ \A i \in 1 + 1 .. n : i \in 1 .. n
        /\ \A i \in 1 .. n : i # 1 => i \in 1 + 1 .. n /\ i - 1 \in 1 .. n
    BY <1>1
  <1>3. \A i \in 1 + 1 .. n, s \in V : s \o ss[i] \in V
    BY <1>1, <1>2, ConcatProperties
  <1>4. step \in [1 + 1 .. n -> [V -> V]]
    BY <1>3, Zenon
  <1>5. \A i \in 1 + 1 .. n, s \in V : step[i][s] = s \o ss[i]
    BY Zenon
  <1> HIDE DEF step, V
  <1>6. PICK f \in [1 .. n -> V] : Follows(f, 1, n, ss[1], step)
    BY <1>1, <1>2, <1>4, FollowsExists, Zenon
  <1>7. ASSUME NEW i \in 1 .. n PROVE f[i] = IF i = 1 THEN ss[i] ELSE f[i - 1] \o ss[i]
    <2>1. f[i] = IF i = 1 THEN ss[1] ELSE step[i][f[i - 1]]
      BY <1>6, Zenon DEF Follows
    <2>2. i # 1 => f[i - 1] \in V /\ i \in 1 + 1 .. n
      BY <1>2, <1>6, Zenon
    <2>3. i # 1 => step[i][f[i - 1]] = f[i - 1] \o ss[i]
      BY <1>5, <2>2, Zenon
    <2> QED
      BY <2>1, <2>3, Zenon
  <1>8. f = [i \in 1 .. n |-> f[i]]
    BY <1>6, Zenon
  <1>9. IsFlat(f, ss)
    BY <1>7, <1>8, Zenon DEF IsFlat
  <1> QED
    BY <1>6, <1>9, Zenon DEF V

\* FlattenSeq is its last value.
LEMMA FlatIs ==
    ASSUME NEW ss \in Seq(Seq(Texts)), Len(ss) # 0, NEW f, IsFlat(f, ss)
    PROVE  FlattenSeq(ss) = f[Len(ss)]
  <1> DEFINE Step(g) == [i \in 1 .. Len(ss) |-> IF i = 1 THEN ss[i] ELSE g[i - 1] \o ss[i]]
             v == CHOOSE g : g = Step(g)
  <1>1. FlattenSeq(ss) = v[Len(ss)]
    BY Zenon DEF FlattenSeq
  <1>2. \E g : g = Step(g)
    BY Zenon DEF IsFlat
  <1>3. v = Step(v)
    BY <1>2, Zenon
  <1> HIDE DEF v
  <1>4. \A i \in 1 .. Len(ss) : /\ v[i] = IF i = 1 THEN ss[i] ELSE v[i - 1] \o ss[i]
                                /\ f[i] = IF i = 1 THEN ss[i] ELSE f[i - 1] \o ss[i]
    BY <1>3, Zenon DEF IsFlat
  <1>5. Len(ss) \in Nat /\ 1 \in Nat /\ 1 \in 1 .. Len(ss) /\ Len(ss) \in 1 .. Len(ss)
        /\ \A i \in 1 + 1 .. Len(ss) : i \in 1 .. Len(ss) /\ i # 1
    OBVIOUS
  <1>6. StepAlike(f, v, 1, Len(ss))
    BY <1>4, <1>5, Zenon DEF StepAlike
  <1>7. Alike(f, v, 1, Len(ss))
    BY <1>5, <1>6, SameSteps, Zenon
  <1> QED
    BY <1>1, <1>5, <1>7, Zenon DEF Alike

\* The tokens of one piece more come last.
LEMMA FlatAppend ==
    ASSUME NEW ss \in Seq(Seq(Texts)), NEW s \in Seq(Texts), Len(ss) # 0
    PROVE  FlattenSeq(ss) \in Seq(Texts) /\ FlattenSeq(Append(ss, s)) = FlattenSeq(ss) \o s
  <1> DEFINE u == Append(ss, s)
             n == Len(ss)
  <1>1. /\ u \in Seq(Seq(Texts)) /\ n \in Nat /\ Len(u) = n + 1 /\ n + 1 # 0
        /\ u[n + 1] = s /\ \A i \in 1 .. n : u[i] = ss[i]
    BY AppendProperties
  <1> HIDE DEF u
  <1>2. PICK f \in [1 .. n -> Seq(Texts)] : IsFlat(f, ss)
    BY FlatExists, Zenon
  <1>3. PICK g \in [1 .. Len(u) -> Seq(Texts)] : IsFlat(g, u)
    BY <1>1, FlatExists, Zenon
  <1>4. FlattenSeq(ss) = f[n] /\ FlattenSeq(u) = g[n + 1]
    BY <1>1, <1>2, <1>3, FlatIs, Zenon
  <1>5. /\ n \in 1 .. n /\ n + 1 \in 1 .. n + 1 /\ n + 1 # 1 /\ (n + 1) - 1 = n
        /\ 1 \in 1 .. n /\ 1 \in 1 .. n + 1 /\ 1 \in Nat
        /\ \A i \in 1 + 1 .. n : i \in 1 .. n /\ i \in 1 .. n + 1 /\ i # 1
    BY <1>1
  <1>6. /\ \A i \in 1 .. n : f[i] = IF i = 1 THEN ss[i] ELSE f[i - 1] \o ss[i]
        /\ \A i \in 1 .. n + 1 : g[i] = IF i = 1 THEN u[i] ELSE g[i - 1] \o u[i]
    BY <1>1, <1>2, <1>3, Zenon DEF IsFlat
  <1>7. StepAlike(f, g, 1, n)
    <2>1. f[1] = ss[1] /\ g[1] = u[1] /\ u[1] = ss[1]
      BY <1>1, <1>5, <1>6, Zenon
    <2>2. ASSUME NEW i \in 1 + 1 .. n, f[i - 1] = g[i - 1] PROVE f[i] = g[i]
      <3>1. i \in 1 .. n /\ i \in 1 .. n + 1 /\ i # 1
        BY <1>5, Zenon
      <3>2. f[i] = f[i - 1] \o ss[i] /\ g[i] = g[i - 1] \o u[i] /\ u[i] = ss[i]
        BY <1>1, <1>6, <3>1, Zenon
      <3> QED
        BY <2>2, <3>2, Zenon
    <2> QED
      BY <2>1, <2>2, Zenon DEF StepAlike
  <1>8. Alike(f, g, 1, n)
    BY <1>1, <1>5, <1>7, SameSteps, Zenon
  <1>9. f[n] = g[n] /\ f[n] \in Seq(Texts)
    BY <1>2, <1>5, <1>8, Zenon DEF Alike
  <1>10. g[n + 1] = g[n] \o s
    BY <1>1, <1>5, <1>6, Zenon
  <1> QED
    BY <1>4, <1>9, <1>10, Zenon DEF u

\* One piece.
LEMMA FlatOne ==
    ASSUME NEW s \in Seq(Texts)
    PROVE  FlattenSeq(<<s>>) = s
  <1> DEFINE ss == <<s>>
  <1>1. ss \in Seq(Seq(Texts)) /\ Len(ss) = 1 /\ 1 # 0 /\ ss[1] = s /\ 1 \in 1 .. 1
    OBVIOUS
  <1> HIDE DEF ss
  <1>2. PICK f \in [1 .. Len(ss) -> Seq(Texts)] : IsFlat(f, ss)
    BY <1>1, FlatExists, Zenon
  <1>3. FlattenSeq(ss) = f[1]
    BY <1>1, <1>2, FlatIs, Zenon
  <1>4. f[1] = s
    BY <1>1, <1>2, Zenon DEF IsFlat
  <1> QED
    BY <1>3, <1>4, Zenon DEF ss
-----------------------------------------------------------------------------
(* The split at the semicolons.                                            *)

Blank(x) == IF x = ";" THEN " " ELSE x

\* A text with its semicolons blanked, with a character more.
LEMMA BlankedAppend ==
    ASSUME NEW t \in Texts, NEW x \in Chars
    PROVE  /\ Blanked(t) \in Texts /\ Blank(x) \in Chars
           /\ Blanked(Append(t, x)) = Append(Blanked(t), Blank(x))
  <1> DEFINE u == Append(t, x)
             n == Len(t)
  <1>1. Blank(x) \in Chars /\ \A i \in DOMAIN t : Blank(t[i]) \in Chars
    <2>1. \A i \in DOMAIN t : t[i] \in Chars
      BY LenProperties, ElementOfSeq, Zenon DEF Texts
    <2> QED
      BY <2>1, Kinds, Zenon DEF Blank
  <1>2. n \in Nat /\ DOMAIN t = 1 .. n
    BY LenProperties, Zenon DEF Texts
  <1>3. u \in Texts /\ Len(u) = n + 1 /\ (\A i \in 1 .. n : u[i] = t[i]) /\ u[n + 1] = x
    BY AppendProperties, SMT DEF Texts
  <1>4. DOMAIN u = 1 .. n + 1
    BY <1>3, LenProperties, Zenon DEF Texts
  <1>5. /\ Blanked(t) = [i \in 1 .. n |-> Blank(t[i])]
        /\ Blanked(u) = [i \in 1 .. n + 1 |-> Blank(u[i])]
    BY <1>2, <1>4, Zenon DEF Blanked, Blank
  <1>6. Blanked(t) \in Texts /\ Len(Blanked(t)) = n /\ \A i \in 1 .. n : Blanked(t)[i] = Blank(t[i])
    BY <1>1, <1>2, <1>5, SMTT(30) DEF Texts
  <1> DEFINE w == Append(Blanked(t), Blank(x))
  <1>7. w \in Seq(Chars) /\ Len(w) = n + 1 /\ w[n + 1] = Blank(x) /\ \A i \in 1 .. n : w[i] = Blank(t[i])
    <2>1. /\ w \in Seq(Chars) /\ Len(w) = Len(Blanked(t)) + 1
          /\ \A i \in 1 .. Len(Blanked(t)) : w[i] = Blanked(t)[i]
          /\ w[Len(Blanked(t)) + 1] = Blank(x)
      BY <1>1, <1>6, AppendProperties, SMT DEF Texts
    <2> QED
      BY <1>6, <2>1, Zenon
  <1>8. \A i \in 1 .. n + 1 : w[i] = Blank(u[i])
    <2>1. \A i \in 1 .. n + 1 : i \in 1 .. n \/ i = n + 1
      BY <1>2, SMT
    <2> QED
      BY <1>3, <1>7, <2>1, Zenon
  <1>9. w = [i \in 1 .. n + 1 |-> w[i]]
    <2>1. w \in [1 .. n + 1 -> Chars]
      BY <1>7, LenProperties, Zenon
    <2> QED
      BY <2>1, Zenon
  <1>10. w = Blanked(u)
    BY <1>5, <1>8, <1>9, Zenon
  <1> QED
    BY <1>1, <1>6, <1>10, Zenon

\* The empty text has nothing to blank.
LEMMA BlankedEmpty == Blanked(<<>>) = <<>>
  BY SMTT(30) DEF Blanked

\* No semicolon is inside a string or a comment.
Clean(t) == \A i \in DOMAIN t : t[i] = ";" => ~Inside(t, i)
Within(s) == s.in_string \/ s.in_comment

\* Neither is one of the text without its last character, nor is that.
LEMMA CleanAppend ==
    ASSUME NEW t \in Texts, NEW x \in Chars, Clean(Append(t, x))
    PROVE  Clean(t) /\ (x = ";" => ~Within(scanned(t)))
  <1> DEFINE u == Append(t, x)
             n == Len(t)
  <1>1. n \in Nat /\ DOMAIN t = 1 .. n
    BY LenProperties, Zenon DEF Texts
  <1>2. u \in Texts /\ Len(u) = n + 1 /\ (\A i \in 1 .. n : u[i] = t[i]) /\ u[n + 1] = x
    BY AppendProperties, SMTT(30) DEF Texts
  <1>3. DOMAIN u = 1 .. n + 1
    BY <1>2, LenProperties, Zenon DEF Texts
  <1>4. ASSUME NEW i \in 1 .. n + 1 PROVE SubSeq(u, 1, i - 1) = SubSeq(t, 1, i - 1)
    <2>1. 0 \in Nat /\ i - 1 \in Int /\ i - 1 <= n /\ 0 + 1 = 1
      BY <1>1, SMTT(30)
    <2>2. SamePart(u, t, 0, i - 1)
      BY <2>1, PartSame, Zenon
    <2> QED
      BY <2>1, <2>2, Zenon DEF SamePart
  <1>5. ASSUME NEW i \in 1 .. n, t[i] = ";" PROVE ~Inside(t, i)
    <2>1. i \in 1 .. n + 1
      BY <1>1, SMTT(30)
    <2>2. ~Inside(u, i)
      BY <1>2, <1>3, <1>5, <2>1, Zenon DEF Clean
    <2> QED
      BY <1>4, <2>1, <2>2, Zenon DEF Inside
  <1>6. ASSUME x = ";" PROVE ~Within(scanned(t))
    <2>1. n + 1 \in 1 .. n + 1 /\ (n + 1) - 1 = n
      BY <1>1, SMT
    <2>2. ~Inside(u, n + 1)
      BY <1>2, <1>3, <1>6, <2>1, Zenon DEF Clean
    <2>3. SubSeq(u, 1, (n + 1) - 1) = SubSeq(t, 1, (n + 1) - 1)
      BY <1>4, <2>1, Zenon
    <2>4. SubSeq(t, 1, n) = t
      BY SubSeqFull, Zenon DEF Texts
    <2> QED
      BY <2>1, <2>2, <2>3, <2>4, Zenon DEF Inside, Within
  <1> QED
    BY <1>1, <1>5, <1>6, Zenon DEF Clean

\* The pieces of a text: ps, and q behind the last semicolon.
SplitInto(t, ps, q) == Split(t) = Append(ps, q) /\ ps \in Seq(Texts) /\ q \in Texts

Stops(t) == {0} \cup {i \in DOMAIN t : t[i] = ";"}

\* The pieces as parts of the text.
LEMMA SplitIs ==
    ASSUME NEW t \in Texts
    PROVE  LET b == Ascending(Stops(t)) IN
           /\ Cuts(b, Len(t)) /\ Cuts(b, Len(t) + 1)
           /\ SplitInto(t, Parts(t, b, 1), SubSeq(t, b[Len(b)] + 1, Len(t)))
  <1> DEFINE n == Len(t)
             S == Stops(t)
             b == Ascending(S)
  <1>1. n \in Nat /\ DOMAIN t = 1 .. n
    BY LenProperties, Zenon DEF Texts
  <1>2. S \in SUBSET (0 .. n) /\ S # {}
    <2>1. 0 \in 0 .. n /\ \A i \in 1 .. n : i \in 0 .. n
      BY <1>1, SMT
    <2> QED
      BY <1>1, <2>1, Zenon DEF Stops
  <1>3. n + 1 \in Nat /\ \A y \in S : y < n + 1
    <2>1. n + 1 \in Nat /\ \A y \in 0 .. n : y < n + 1
      BY <1>1, SMT
    <2> QED
      BY <1>2, <2>1, Zenon
  <1>4. EndAt(n, S, n + 1, S \cup {n + 1})
    BY <1>1, <1>2, <1>3, CutsEnd, Zenon
  <1>5. Ascending(S \cup {n + 1}) = Append(b, n + 1) /\ Cuts(b, n) /\ b[Len(b)] \in S
    BY <1>2, <1>4, Zenon DEF EndAt
  <1>6. Cuts(b, n + 1)
    <2>1. 0 .. n \subseteq 0 .. n + 1
      BY <1>1, SMT
    <2> QED
      BY <1>5, <2>1, SeqMonotonic, Zenon DEF Cuts
  <1>7. n + 1 \in 0 .. n + 1 /\ 1 \in {0, 1} /\ (n + 1) - 1 = n
    BY <1>1, SMT
  <1>8. /\ Cuts(Append(b, n + 1), n + 1)
        /\ Parts(t, Append(b, n + 1), 1) = Append(Parts(t, b, 1), SubSeq(t, b[Len(b)] + 1, (n + 1) - 1))
    BY <1>6, <1>7, PartsAppend, Zenon
  <1>9. Split(t) = Parts(t, Append(b, n + 1), 1)
    <2>1. {0, n + 1} \cup {i \in DOMAIN t : t[i] = ";"} = S \cup {n + 1}
      BY Zenon DEF Stops
    <2> QED
      BY <1>5, <2>1, Zenon DEF Split, Parts
  <1>10. Parts(t, b, 1) \in Seq(Texts)
    BY <1>6, <1>7, PartsTyped, Zenon
  <1>11. SubSeq(t, b[Len(b)] + 1, n) \in Texts
    <2>1. b[Len(b)] \in Nat /\ n \in Int /\ n <= Len(t)
      BY <1>1, <1>2, <1>5, SMT
    <2> QED
      BY <2>1, PartTyped, Zenon
  <1> QED
    BY <1>5, <1>6, <1>7, <1>8, <1>9, <1>10, <1>11, Zenon DEF SplitInto

\* How the pieces of t become those of t with a character more.
SplitGrows(t, x, ps, q) ==
    /\ SplitInto(t, ps, q)
    /\ x # ";" => SplitInto(Append(t, x), ps, Append(q, x))
    /\ x = ";" => SplitInto(Append(t, x), Append(ps, q), <<>>)

\* The character joins the last piece, or as a semicolon begins another.
LEMMA SplitNext ==
    ASSUME NEW t \in Texts, NEW x \in Chars
    PROVE  \E ps, q : SplitGrows(t, x, ps, q)
  <1> DEFINE u == Append(t, x)
             n == Len(t)
             b == Ascending(Stops(t))
             ps == Parts(t, b, 1)
             q == SubSeq(t, b[Len(b)] + 1, n)
  <1>1. n \in Nat /\ DOMAIN t = 1 .. n
    BY LenProperties, Zenon DEF Texts
  <1>2. u \in Texts /\ Len(u) = n + 1 /\ (\A i \in 1 .. n : u[i] = t[i]) /\ u[n + 1] = x
    BY AppendProperties, SMT DEF Texts
  <1>3. DOMAIN u = (1 .. n) \cup {n + 1}
    <2>1. DOMAIN u = 1 .. Len(u)
      BY <1>2, LenProperties, Zenon DEF Texts
    <2> QED
      BY <1>1, <1>2, <2>1, SMT
  <1>4. Cuts(b, n) /\ Cuts(b, n + 1) /\ SplitInto(t, ps, q)
    BY SplitIs, Zenon
  <1>5. SplitInto(u, Parts(u, Ascending(Stops(u)), 1),
                  SubSeq(u, Ascending(Stops(u))[Len(Ascending(Stops(u)))] + 1, n + 1))
    BY <1>2, SplitIs, Zenon
  <1>6. b[Len(b)] \in 0 .. n
    <2>1. b \in Seq(0 .. n) /\ Len(b) \in 1 .. Len(b)
      BY <1>4, SMTT(30) DEF Cuts
    <2> QED
      BY <2>1, ElementOfSeq, Zenon
  <1>7. Parts(u, b, 1) = ps
    BY <1>4, PartsSame, Zenon
  <1>8. CASE x # ";"
    <2>1. Stops(u) = Stops(t)
      <3>1. \A i \in DOMAIN u : u[i] = ";" <=> i \in DOMAIN t /\ t[i] = ";"
        <4>1. n + 1 \notin 1 .. n
          BY <1>1, SMTT(30)
        <4> QED
          BY <1>1, <1>2, <1>3, <1>8, <4>1, Zenon
      <3> QED
        BY <1>1, <1>3, <3>1, Zenon DEF Stops
    <2>2. SubSeq(u, b[Len(b)] + 1, n + 1) = Append(q, x)
      <3>1. b[Len(b)] \in Nat /\ b[Len(b)] <= n
        BY <1>1, <1>6, SMTT(30)
      <3> QED
        BY <3>1, PartMore, Zenon
    <2>3. SplitInto(u, ps, Append(q, x))
      BY <1>5, <1>7, <2>1, <2>2, Zenon
    <2> QED
      BY <1>4, <1>8, <2>3, Zenon DEF SplitGrows
  <1>9. CASE x = ";"
    <2>1. Stops(u) = Stops(t) \cup {n + 1}
      BY <1>1, <1>2, <1>3, <1>9, Zenon DEF Stops
    <2>2. Ascending(Stops(u)) = Append(b, n + 1)
      <3>1. Stops(t) \in SUBSET (0 .. n)
        <4>1. 0 \in 0 .. n /\ \A i \in 1 .. n : i \in 0 .. n
          BY <1>1, SMTT(30)
        <4> QED
          BY <1>1, <4>1, Zenon DEF Stops
      <3>2. n + 1 \in Nat /\ \A y \in Stops(t) : y < n + 1
        <4>1. n + 1 \in Nat /\ \A y \in 0 .. n : y < n + 1
          BY <1>1, SMTT(30)
        <4> QED
          BY <3>1, <4>1, Zenon
      <3>3. EndAt(n, Stops(t), n + 1, Stops(t) \cup {n + 1})
        BY <1>1, <3>1, <3>2, CutsEnd, Zenon
      <3> QED
        BY <2>1, <3>3, Zenon DEF EndAt
    <2>3. n + 1 \in 0 .. Len(u) + 1 /\ 1 \in {0, 1} /\ (n + 1) - 1 = n /\ Cuts(b, Len(u) + 1)
      <3>1. n + 1 \in 0 .. Len(u) + 1 /\ 1 \in {0, 1} /\ (n + 1) - 1 = n
        BY <1>1, <1>2, SMTT(30)
      <3>2. 0 .. n \subseteq 0 .. Len(u) + 1
        BY <1>1, <1>2, SMTT(30)
      <3> QED
        BY <1>4, <3>1, <3>2, SeqMonotonic, Zenon DEF Cuts
    <2>4. Parts(u, Append(b, n + 1), 1) = Append(Parts(u, b, 1), SubSeq(u, b[Len(b)] + 1, (n + 1) - 1))
      BY <1>2, <2>3, PartsAppend, Zenon
    <2>5. SubSeq(u, b[Len(b)] + 1, n) = q
      <3>1. b[Len(b)] \in Nat /\ n \in Int /\ n <= Len(t)
        BY <1>1, <1>6, SMTT(30)
      <3>2. SamePart(u, t, b[Len(b)], n)
        BY <3>1, PartSame, Zenon
      <3> QED
        BY <3>2, Zenon DEF SamePart
    <2>6. Parts(u, Append(b, n + 1), 1) = Append(ps, q)
      BY <1>7, <2>3, <2>4, <2>5, Zenon
    <2>7. Append(b, n + 1)[Len(Append(b, n + 1))] = n + 1
      <3>1. b \in Seq(Nat) /\ n + 1 \in Nat
        BY <1>1, <1>4, SMTT(30) DEF Cuts
      <3> QED
        BY <3>1, AppendProperties, SMTT(30)
    <2>8. SubSeq(u, (n + 1) + 1, n + 1) = <<>>
      BY <1>1, SubSeqEmpty, SMTT(30)
    <2>9. SplitInto(u, Append(ps, q), <<>>)
      BY <1>5, <2>2, <2>6, <2>7, <2>8, Zenon
    <2> QED
      BY <1>4, <1>9, <2>9, Zenon DEF SplitGrows
  <1> QED
    BY <1>8, <1>9, Zenon

\* Of the empty text there is one piece, empty too.
LEMMA SplitEmpty == SplitInto(<<>>, <<>>, <<>>)
  <1>1. <<>> \in Texts /\ Len(<<>>) = 0 /\ DOMAIN <<>> = {}
    <2>1. <<>> \in Texts /\ Len(<<>>) = 0
      BY ScannedEmpty, EmptySeq, Zenon
    <2>2. DOMAIN <<>> = {}
      BY SMT
    <2> QED
      BY <2>1, <2>2, Zenon
  <1>2. Stops(<<>>) = {0}
    BY <1>1, Zenon DEF Stops
  <1>3. Ascending({0}) = <<0>>
    <2>1. EndAt(0, {}, 0, {} \cup {0})
      BY CutsEnd, SMT
    <2>2. {} \cup {0} = {0}
      OBVIOUS
    <2>3. Ascending({}) = <<>>
      <3>1. Cardinality({}) = 0
        BY FS_EmptySet, Zenon
      <3> QED
        BY <3>1, SMT DEF Ascending
    <2>4. Append(<<>>, 0) = <<0>>
      BY SMT
    <2> QED
      BY <2>1, <2>2, <2>3, <2>4, Zenon DEF EndAt
  <1>4. SplitInto(<<>>, Parts(<<>>, <<0>>, 1), SubSeq(<<>>, <<0>>[Len(<<0>>)] + 1, 0))
    BY <1>1, <1>2, <1>3, SplitIs, Zenon
  <1>5. Len(<<0>>) - 1 = 0 /\ <<0>>[Len(<<0>>)] + 1 = 1
    BY SMT
  <1>6. Parts(<<>>, <<0>>, 1) = <<>>
    BY <1>5, SMT DEF Parts
  <1>7. SubSeq(<<>>, <<0>>[Len(<<0>>)] + 1, 0) = <<>>
    BY <1>5, SubSeqEmpty, SMT
  <1> QED
    BY <1>4, <1>6, <1>7, Zenon

\* The tokenizer's state behind q, and its tokens.
Behind(q, a, b, d, e) == a \in Seq(Texts) /\ b \in Texts /\ scanned(q) = St(a, b, d, e)
TokensAre(q, a, b) == tokenize(q) = Ended(a, b) /\ tokenize(q) \in Seq(Texts)

\* The ones tell the others.
LEMMA TokenizeIs ==
    ASSUME NEW q, NEW a, NEW b, NEW d, NEW e, Behind(q, a, b, d, e)
    PROVE  TokensAre(q, a, b)
  <1>1. Flush(St(a, b, d, e)) = St(Ended(a, b), <<>>, d, e)
    BY FlushIs, SMTT(30)
  <1>2. St(Ended(a, b), <<>>, d, e).tokens = Ended(a, b)
    BY FieldsOf, SMT
  <1> QED
    BY <1>1, <1>2, EndedTyped, Zenon DEF tokenize, Behind, TokensAre

\* tokenize returns texts.
LEMMA TokenizeTyped ==
    ASSUME NEW q \in Texts
    PROVE  tokenize(q) \in Seq(Texts) /\ scanned(q) \in States
  <1>1. PICK x : x \in Chars
    BY Kinds, Zenon
  <1>2. scanned(q) \in States
    BY <1>1, ScannedAppend, Zenon
  <1> QED
    <2> DEFINE s == scanned(q)
    <2>1. /\ scanned(q) = St(s.tokens, s.current_token, s.in_string, s.in_comment)
          /\ s.tokens \in Seq(Texts) /\ s.current_token \in Texts
      BY <1>2, StateFields, Zenon
    <2> QED
      BY <1>2, <2>1, TokenizeIs, Zenon DEF Behind, TokensAre

\* The tokens of one piece more come last.
LEMMA TokensOfAppend ==
    ASSUME NEW ps \in Seq(Texts), NEW q \in Texts
    PROVE  /\ TokensOf(ps) \in Seq(Texts)
           /\ TokensOf(Append(ps, q)) = TokensOf(ps) \o tokenize(q)
  <1> DEFINE Each(p) == [k \in DOMAIN p |-> tokenize(p[k])]
             n == Len(ps)
             r == Append(ps, q)
  <1>1. n \in Nat /\ DOMAIN ps = 1 .. n /\ \A k \in 1 .. n : ps[k] \in Texts
    BY LenProperties, ElementOfSeq, Zenon
  <1>2. r \in Seq(Texts) /\ Len(r) = n + 1 /\ (\A k \in 1 .. n : r[k] = ps[k]) /\ r[n + 1] = q
    BY AppendProperties, SMT
  <1>3. DOMAIN r = 1 .. n + 1
    BY <1>2, LenProperties, Zenon
  <1>4. Each(ps) \in Seq(Seq(Texts)) /\ Len(Each(ps)) = n /\ \A k \in 1 .. n : Each(ps)[k] = tokenize(ps[k])
    <2>1. \A k \in 1 .. n : tokenize(ps[k]) \in Seq(Texts)
      BY <1>1, TokenizeTyped, Zenon
    <2> QED
      BY <1>1, <2>1, SMTT(30)
  <1> DEFINE w == Append(Each(ps), tokenize(q))
  <1>5. tokenize(q) \in Seq(Texts)
    BY TokenizeTyped, Zenon
  <1>6. Each(r) = w
    <2>1. /\ w \in Seq(Seq(Texts)) /\ Len(w) = Len(Each(ps)) + 1
          /\ \A k \in 1 .. Len(Each(ps)) : w[k] = Each(ps)[k]
          /\ w[Len(Each(ps)) + 1] = tokenize(q)
      <3> HIDE DEF Each
      <3> QED
        BY <1>4, <1>5, AppendProperties, SMT
    <2> HIDE DEF w
    <2>2. \A k \in 1 .. n + 1 : k \in 1 .. n \/ k = n + 1
      BY <1>1, SMTT(30)
    <2>3. \A k \in 1 .. n + 1 : w[k] = tokenize(r[k])
      BY <1>2, <1>4, <2>1, <2>2, Zenon
    <2>4. w \in [1 .. n + 1 -> Seq(Texts)]
      BY <1>4, <2>1, LenProperties, Zenon
    <2> QED
      BY <1>3, <2>3, <2>4, Zenon
  <1>7. TokensOf(ps) = FlattenSeq(Each(ps)) /\ TokensOf(r) = FlattenSeq(w)
    BY <1>6, Zenon DEF TokensOf
  <1> HIDE DEF Each
  <1>8. CASE n = 0
    <2>1. Each(ps) = <<>>
      BY <1>4, <1>8, EmptySeq, SMTT(30)
    <2>2. FlattenSeq(<<>>) = <<>>
      BY EmptySeq, Zenon DEF FlattenSeq
    <2>3. w = <<tokenize(q)>>
      BY <2>1, SMT
    <2>4. FlattenSeq(w) = tokenize(q)
      BY <1>5, <2>3, FlatOne, Zenon
    <2>5. <<>> \o tokenize(q) = tokenize(q) /\ <<>> \in Seq(Texts)
      BY <1>5, ConcatEmptySeq, EmptySeq, SMTT(30)
    <2> QED
      BY <1>7, <2>1, <2>2, <2>4, <2>5, Zenon
  <1>9. CASE n # 0
    <2> DEFINE ss == Each(ps)
               s == tokenize(q)
    <2>1. ss \in Seq(Seq(Texts)) /\ s \in Seq(Texts) /\ Len(ss) # 0
      BY <1>4, <1>5, <1>9, Zenon
    <2> HIDE DEF ss, s
    <2>2. FlattenSeq(ss) \in Seq(Texts) /\ FlattenSeq(Append(ss, s)) = FlattenSeq(ss) \o s
      BY <2>1, FlatAppend, Zenon
    <2> QED
      BY <1>7, <2>2, Zenon DEF ss, s
  <1> QED
    BY <1>8, <1>9, Zenon

\* Tokens behind others.
Shifted(k, a, b) ==
    /\ k \o a \in Seq(Texts) /\ Append(a, b) \in Seq(Texts)
    /\ Append(k \o a, b) = k \o Append(a, b)
    /\ Ended(k \o a, b) = k \o Ended(a, b)

\* A token is pushed behind them all.
LEMMA ShiftedIs ==
    ASSUME NEW k \in Seq(Texts), NEW a \in Seq(Texts), NEW b \in Texts
    PROVE  Shifted(k, a, b)
  <1>1. k \o a \in Seq(Texts) /\ Append(a, b) \in Seq(Texts)
    BY ConcatProperties, AppendProperties, SMT
  <1>2. Append(k \o a, b) = (k \o a) \o <<b>> /\ Append(a, b) = a \o <<b>> /\ <<b>> \in Seq(Texts)
    <2>1. Append(k \o a, b) = (k \o a) \o <<b>> /\ Append(a, b) = a \o <<b>>
      BY <1>1, AppendIsConcat, Zenon
    <2>2. <<b>> \in Seq(Texts)
      OBVIOUS
    <2> QED
      BY <2>1, <2>2, Zenon
  <1>3. (k \o a) \o <<b>> = k \o (a \o <<b>>)
    BY <1>2, ConcatAssociative, SMT
  <1>4. Append(k \o a, b) = k \o Append(a, b)
    BY <1>2, <1>3, Zenon
  <1>5. Ended(k \o a, b) = k \o Ended(a, b)
    BY <1>4, Zenon DEF Ended
  <1> QED
    BY <1>1, <1>4, <1>5, Zenon DEF Shifted

\* r has read the last piece, s the text with blanks for semicolons, where the
\* tokens k come before it, and f the text: all in the same mode.
AlongAt(k, r, s, f, a, b, d, e, g, h) ==
    /\ a \in Seq(Texts) /\ b \in Texts /\ d \in BOOLEAN /\ e \in BOOLEAN
    /\ g \in Seq(Texts) /\ h \in Texts
    /\ r = St(a, b, d, e) /\ s = St(k \o a, b, d, e) /\ f = St(g, h, d, e)
Along(k, r, s, f) == \E a, b, d, e, g, h : AlongAt(k, r, s, f, a, b, d, e, g, h)

\* They read a character alike.
LEMMA AlongScan ==
    ASSUME NEW k \in Seq(Texts), NEW r, NEW s, NEW f, Along(k, r, s, f), NEW c \in Chars
    PROVE  Along(k, scan(r, c), scan(s, c), scan(f, c))
  <1>0. PICK a, b, d, e, g, h : AlongAt(k, r, s, f, a, b, d, e, g, h)
    BY Zenon DEF Along
  <1>1. /\ a \in Seq(Texts) /\ b \in Texts /\ d \in BOOLEAN /\ e \in BOOLEAN
        /\ g \in Seq(Texts) /\ h \in Texts
        /\ r = St(a, b, d, e) /\ s = St(k \o a, b, d, e) /\ f = St(g, h, d, e)
    BY <1>0, Zenon DEF AlongAt
  <1>2. Yes \in BOOLEAN /\ No \in BOOLEAN /\ <<>> \in Texts
    BY ScannedEmpty, Zenon DEF Yes, No
  <1>3. /\ Append(b, c) \in Texts
        /\ Append(h, c) \in Texts
        /\ Append(<<>>, c) \in Texts
        /\ <<c>> \in Texts
    <2>1. Append(b, c) \in Texts /\ Append(h, c) \in Texts /\ Append(<<>>, c) \in Texts
      BY <1>1, <1>2, NotEmpty, Zenon
    <2>2. OneIs(c, <<c>>)
      BY OneChar, Zenon
    <2> QED
      BY <2>1, <2>2, Zenon DEF OneIs
  <1>4. CASE e = Yes
    <2>1. CASE c = "#"
      <3>1. /\ scan(r, c) = St(a, b, d, No)
            /\ scan(s, c) = St(k \o a, b, d, No)
            /\ scan(f, c) = St(g, h, d, No)
        BY <1>1, <1>4, <2>1, ScanComment, Zenon
      <3>9. AlongAt(k, scan(r, c), scan(s, c), scan(f, c), a, b, d, No, g, h)
        BY <1>1, <1>2, <3>1, Zenon DEF AlongAt
      <3> QED
        BY <3>9, Zenon DEF Along
    <2>2. CASE c # "#"
      <3>1. /\ scan(r, c) = St(a, b, d, Yes)
            /\ scan(s, c) = St(k \o a, b, d, Yes)
            /\ scan(f, c) = St(g, h, d, Yes)
        BY <1>1, <1>4, <2>2, ScanComment, Zenon
      <3>9. AlongAt(k, scan(r, c), scan(s, c), scan(f, c), a, b, d, Yes, g, h)
        BY <1>1, <1>2, <3>1, Zenon DEF AlongAt
      <3> QED
        BY <3>9, Zenon DEF Along
    <2> QED
      BY <2>1, <2>2, Zenon
  <1>5. CASE e = No /\ d = Yes
    <2>1. CASE c = Quote
      <3>1. /\ scan(r, c) = St(Append(a, Append(b, c)), <<>>, No, No)
            /\ scan(s, c) = St(Append(k \o a, Append(b, c)), <<>>, No, No)
            /\ scan(f, c) = St(Append(g, Append(h, c)), <<>>, No, No)
        BY <1>1, <1>5, <2>1, ScanString, Zenon
      <3>2. Shifted(k, a, Append(b, c)) /\ Shifted(k, g, Append(h, c))
        BY <1>1, <1>3, ShiftedIs, Zenon
      <3>3. Append(k \o a, Append(b, c)) = k \o Append(a, Append(b, c))
        BY <3>2, Zenon DEF Shifted
      <3>4. Append(a, Append(b, c)) \in Seq(Texts) /\ Append(g, Append(h, c)) \in Seq(Texts)
        BY <3>2, Zenon DEF Shifted
      <3>9. AlongAt(k, scan(r, c), scan(s, c), scan(f, c),
                    Append(a, Append(b, c)), <<>>, No, No, Append(g, Append(h, c)), <<>>)
        BY <1>1, <1>2, <3>1, <3>3, <3>4, Zenon DEF AlongAt
      <3> QED
        BY <3>9, Zenon DEF Along
    <2>2. CASE c # Quote
      <3>1. /\ scan(r, c) = St(a, Append(b, c), Yes, No)
            /\ scan(s, c) = St(k \o a, Append(b, c), Yes, No)
            /\ scan(f, c) = St(g, Append(h, c), Yes, No)
        BY <1>1, <1>5, <2>2, ScanString, Zenon
      <3>9. AlongAt(k, scan(r, c), scan(s, c), scan(f, c),
                    a, Append(b, c), Yes, No, g, Append(h, c))
        BY <1>1, <1>2, <1>3, <3>1, Zenon DEF AlongAt
      <3> QED
        BY <3>9, Zenon DEF Along
    <2> QED
      BY <2>1, <2>2, Zenon
  <1>6. CASE e = No /\ d = No
    <2>1. /\ PlainTurn(a, b, c, scan(r, c))
          /\ PlainTurn(k \o a, b, c, scan(s, c))
          /\ PlainTurn(g, h, c, scan(f, c))
      BY <1>1, <1>6, ScanPlain, Zenon
    <2> DEFINE t == Ended(a, b)
               v == Ended(g, h)
    <2>2. t \in Seq(Texts) /\ v \in Seq(Texts)
      BY <1>1, EndedTyped, Zenon
    <2>3. Ended(k \o a, b) = k \o t
      BY <1>1, ShiftedIs, Zenon DEF Shifted
    <2>4. CASE c = "#"
      <3>1. /\ scan(r, c) = St(t, <<>>, No, Yes)
            /\ scan(s, c) = St(k \o t, <<>>, No, Yes)
            /\ scan(f, c) = St(v, <<>>, No, Yes)
        BY <2>1, <2>3, <2>4, Zenon DEF PlainTurn
      <3>9. AlongAt(k, scan(r, c), scan(s, c), scan(f, c), t, <<>>, No, Yes, v, <<>>)
        BY <1>1, <1>2, <2>2, <3>1, Zenon DEF AlongAt
      <3> QED
        BY <3>9, Zenon DEF Along
    <2>5. CASE c = Quote
      <3>1. /\ scan(r, c) = St(t, Append(<<>>, c), Yes, No)
            /\ scan(s, c) = St(k \o t, Append(<<>>, c), Yes, No)
            /\ scan(f, c) = St(v, Append(<<>>, c), Yes, No)
        BY <2>1, <2>3, <2>5, Zenon DEF PlainTurn
      <3>9. AlongAt(k, scan(r, c), scan(s, c), scan(f, c),
                    t, Append(<<>>, c), Yes, No, v, Append(<<>>, c))
        BY <1>1, <1>2, <1>3, <2>2, <3>1, Zenon DEF AlongAt
      <3> QED
        BY <3>9, Zenon DEF Along
    <2>6. CASE c \in {"(", ")"}
      <3>1. /\ scan(r, c) = St(Append(t, <<c>>), <<>>, No, No)
            /\ scan(s, c) = St(Append(k \o t, <<c>>), <<>>, No, No)
            /\ scan(f, c) = St(Append(v, <<c>>), <<>>, No, No)
        BY <2>1, <2>3, <2>6, Zenon DEF PlainTurn
      <3>2. Shifted(k, t, <<c>>) /\ Shifted(k, v, <<c>>)
        BY <1>3, <2>2, ShiftedIs, Zenon
      <3>3. Append(k \o t, <<c>>) = k \o Append(t, <<c>>)
        BY <3>2, Zenon DEF Shifted
      <3>4. Append(t, <<c>>) \in Seq(Texts) /\ Append(v, <<c>>) \in Seq(Texts)
        BY <3>2, Zenon DEF Shifted
      <3>9. AlongAt(k, scan(r, c), scan(s, c), scan(f, c),
                    Append(t, <<c>>), <<>>, No, No, Append(v, <<c>>), <<>>)
        BY <1>1, <1>2, <3>1, <3>3, <3>4, Zenon DEF AlongAt
      <3> QED
        BY <3>9, Zenon DEF Along
    <2>7. CASE c = " "
      <3>1. /\ scan(r, c) = St(t, <<>>, No, No)
            /\ scan(s, c) = St(k \o t, <<>>, No, No)
            /\ scan(f, c) = St(v, <<>>, No, No)
        BY <2>1, <2>3, <2>7, Zenon DEF PlainTurn
      <3>9. AlongAt(k, scan(r, c), scan(s, c), scan(f, c), t, <<>>, No, No, v, <<>>)
        BY <1>1, <1>2, <2>2, <3>1, Zenon DEF AlongAt
      <3> QED
        BY <3>9, Zenon DEF Along
    <2>8. CASE Joins(c)
      <3>1. /\ scan(r, c) = St(a, Append(b, c), No, No)
            /\ scan(s, c) = St(k \o a, Append(b, c), No, No)
            /\ scan(f, c) = St(g, Append(h, c), No, No)
        BY <2>1, <2>8, Zenon DEF PlainTurn
      <3>9. AlongAt(k, scan(r, c), scan(s, c), scan(f, c), a, Append(b, c), No, No, g, Append(h, c))
        BY <1>1, <1>2, <1>3, <3>1, Zenon DEF AlongAt
      <3> QED
        BY <3>9, Zenon DEF Along
    <2> QED
      BY <2>4, <2>5, <2>6, <2>7, <2>8, Kinds, Zenon
  <1>7. (e = Yes \/ e = No) /\ (d = Yes \/ d = No)
    BY <1>1, Zenon DEF Yes, No
  <1> QED
    BY <1>4, <1>5, <1>6, <1>7, Zenon

\* The tokens are those of the pieces, read one by one.
LEMMA AlongTokens ==
    ASSUME NEW k \in Seq(Texts), NEW q \in Texts, NEW w \in Texts, NEW f,
           Along(k, scanned(q), scanned(w), f)
    PROVE  tokenize(w) = k \o tokenize(q)
  <1>0. PICK a, b, d, e, g, h : AlongAt(k, scanned(q), scanned(w), f, a, b, d, e, g, h)
    BY Zenon DEF Along
  <1>1. /\ a \in Seq(Texts) /\ b \in Texts
        /\ scanned(q) = St(a, b, d, e) /\ scanned(w) = St(k \o a, b, d, e)
    BY <1>0, Zenon DEF AlongAt
  <1>2. Shifted(k, a, b)
    BY <1>1, ShiftedIs, Zenon
  <1>3. tokenize(q) = Ended(a, b)
    <2>1. Behind(q, a, b, d, e)
      BY <1>1, Zenon DEF Behind
    <2> QED
      BY <2>1, TokenizeIs, Zenon DEF TokensAre
  <1>4. tokenize(w) = Ended(k \o a, b)
    <2>1. Behind(w, k \o a, b, d, e)
      BY <1>1, <1>2, Zenon DEF Behind, Shifted
    <2> QED
      BY <2>1, TokenizeIs, Zenon DEF TokensAre
  <1> QED
    BY <1>2, <1>3, <1>4, Zenon DEF Shifted

\* At a semicolon outside strings and comments a new piece starts from nothing
\* where the blank ends the token.
LEMMA AlongStop ==
    ASSUME NEW k \in Seq(Texts), NEW q \in Texts, NEW w \in Texts, NEW f,
           Along(k, scanned(q), scanned(w), f), ~Within(f)
    PROVE  Along(k \o tokenize(q), Start, scan(scanned(w), " "), scan(f, ";"))
  <1>0. PICK a, b, d, e, g, h : AlongAt(k, scanned(q), scanned(w), f, a, b, d, e, g, h)
    BY Zenon DEF Along
  <1>1. /\ a \in Seq(Texts) /\ b \in Texts /\ d \in BOOLEAN /\ e \in BOOLEAN
        /\ g \in Seq(Texts) /\ h \in Texts
        /\ scanned(q) = St(a, b, d, e) /\ scanned(w) = St(k \o a, b, d, e) /\ f = St(g, h, d, e)
    BY <1>0, Zenon DEF AlongAt
  <1>2. d = No /\ e = No
    <2>1. f.in_string = d /\ f.in_comment = e
      BY <1>1, FieldsOf, SMT
    <2>2. ~d /\ ~e
      BY <2>1, Zenon DEF Within
    <2> QED
      BY <1>1, <2>2, Zenon DEF No
  <1>3. Shifted(k, a, b) /\ tokenize(q) = Ended(a, b)
    <2>1. Behind(q, a, b, d, e)
      BY <1>1, Zenon DEF Behind
    <2>2. TokensAre(q, a, b)
      BY <2>1, TokenizeIs, Zenon
    <2> QED
      BY <1>1, <2>2, ShiftedIs, Zenon DEF TokensAre
  <1>4. scan(scanned(w), " ") = St(Ended(k \o a, b), <<>>, No, No)
    <2>1. PlainTurn(k \o a, b, " ", scan(scanned(w), " "))
      BY <1>1, <1>2, ScanPlain, Zenon
    <2> QED
      BY <2>1, Zenon DEF PlainTurn
  <1>5. scan(f, ";") = St(g, Append(h, ";"), No, No)
    <2>1. PlainTurn(g, h, ";", scan(f, ";"))
      BY <1>1, <1>2, ScanPlain, Zenon
    <2> QED
      BY <2>1, Kinds, Zenon DEF PlainTurn
  <1>6. k \o tokenize(q) \in Seq(Texts) /\ (k \o tokenize(q)) \o <<>> = k \o tokenize(q)
    <2>1. tokenize(q) \in Seq(Texts)
      BY TokenizeTyped, Zenon
    <2> QED
      BY <2>1, ConcatProperties, ConcatEmptySeq, SMT
  <1>7. scan(scanned(w), " ") = St((k \o tokenize(q)) \o <<>>, <<>>, No, No)
    BY <1>3, <1>4, <1>6, Zenon DEF Shifted
  <1>8. Append(h, ";") \in Texts
    <2>1. ";" \in Chars
      BY Zenon DEF Chars, Special
    <2> QED
      BY <1>1, <2>1, NotEmpty, Zenon
  <1>9. Start = St(<<>>, <<>>, No, No) /\ <<>> \in Seq(Texts) /\ <<>> \in Texts /\ No \in BOOLEAN
    BY StartIs, KeptEmpty, ScannedEmpty, Zenon DEF No
  <1> QED
    <2>1. AlongAt(k \o tokenize(q), Start, scan(scanned(w), " "), scan(f, ";"),
                  <<>>, <<>>, No, No, g, Append(h, ";"))
      BY <1>1, <1>5, <1>7, <1>8, <1>9, Zenon DEF AlongAt
    <2> QED
      BY <2>1, Zenon DEF Along

\* The pieces ps are read, their tokens come first, and q is being read.
PiecesRead(t, ps, q) ==
    /\ SplitInto(t, ps, q)
    /\ Along(TokensOf(ps), scanned(q), scanned(Blanked(t)), scanned(t))

\* So it is for a text with no semicolon inside a string or a comment.
SplitInv(t) == Clean(t) => \E ps, q : PiecesRead(t, ps, q)

\* The empty text is such.
LEMMA SplitBase == SplitInv(<<>>)
  <1>1. TokensOf(<<>>) = <<>>
    <2>1. DOMAIN <<>> = {} /\ Len(<<>>) = 0
      BY SMT
    <2>2. [k \in DOMAIN <<>> |-> tokenize(<<>>[k])] = <<>>
      BY <2>1, SMT
    <2>3. FlattenSeq(<<>>) = <<>>
      BY <2>1, Zenon DEF FlattenSeq
    <2> QED
      BY <2>2, <2>3, Zenon DEF TokensOf
  <1>2. <<>> \o <<>> = <<>> /\ <<>> \in Seq(Texts) /\ <<>> \in Texts /\ No \in BOOLEAN
    <2>1. <<>> \o <<>> = <<>>
      BY KeptEmpty, ConcatEmptySeq, SMT
    <2> QED
      BY <2>1, KeptEmpty, ScannedEmpty, Zenon DEF No
  <1>3. AlongAt(<<>>, Start, Start, Start, <<>>, <<>>, No, No, <<>>, <<>>)
    BY <1>2, StartIs, Zenon DEF AlongAt
  <1>4. Along(<<>>, Start, Start, Start)
    BY <1>3, Zenon DEF Along
  <1>5. PiecesRead(<<>>, <<>>, <<>>)
    BY <1>1, <1>4, SplitEmpty, BlankedEmpty, ScannedEmpty, Zenon DEF PiecesRead
  <1> QED
    BY <1>5, Zenon DEF SplitInv

\* A character more keeps it.
LEMMA SplitStep ==
    ASSUME NEW t \in Texts, NEW x \in Chars, SplitInv(t)
    PROVE  SplitInv(Append(t, x))
  <1> DEFINE u == Append(t, x)
             w == Blanked(t)
  <1> SUFFICES ASSUME Clean(u) PROVE \E ps, q : PiecesRead(u, ps, q)
    BY Zenon DEF SplitInv
  <1>1. Clean(t) /\ (x = ";" => ~Within(scanned(t)))
    BY CleanAppend, Zenon
  <1>2. PICK ps, q : PiecesRead(t, ps, q)
    BY <1>1, Zenon DEF SplitInv
  <1>3. PICK ps2, q2 : SplitGrows(t, x, ps2, q2)
    BY SplitNext, Zenon
  <1>4. SplitInto(t, ps, q) /\ SplitInto(t, ps2, q2)
    BY <1>2, <1>3, Zenon DEF PiecesRead, SplitGrows
  <1>5. ps2 = ps /\ q2 = q
    <2>1. /\ Append(ps, q) = Append(ps2, q2)
          /\ ps \in Seq(Texts) /\ q \in Texts /\ ps2 \in Seq(Texts) /\ q2 \in Texts
      BY <1>4, Zenon DEF SplitInto
    <2> QED
      BY <2>1, AppendInjective, SMT
  <1>6. ps \in Seq(Texts) /\ q \in Texts
    BY <1>4, Zenon DEF SplitInto
  <1>7. TokensOf(ps) \in Seq(Texts) /\ TokensOf(Append(ps, q)) = TokensOf(ps) \o tokenize(q)
    BY <1>6, TokensOfAppend, Zenon
  <1>8. w \in Texts /\ Blank(x) \in Chars /\ Blanked(u) = Append(w, Blank(x))
    BY BlankedAppend, Zenon
  <1>9. scanned(Blanked(u)) = scan(scanned(w), Blank(x)) /\ scanned(u) = scan(scanned(t), x)
    BY <1>8, ScannedAppend, Zenon
  <1>10. Along(TokensOf(ps), scanned(q), scanned(w), scanned(t))
    BY <1>2, Zenon DEF PiecesRead
  <1>11. CASE x # ";"
    <2>1. Blank(x) = x
      BY <1>11, Zenon DEF Blank
    <2>2. scanned(Append(q, x)) = scan(scanned(q), x)
      BY <1>6, ScannedAppend, Zenon
    <2>3. Along(TokensOf(ps), scan(scanned(q), x), scan(scanned(w), x), scan(scanned(t), x))
      BY <1>7, <1>10, AlongScan, Zenon
    <2>4. SplitInto(u, ps, Append(q, x))
      BY <1>3, <1>5, <1>11, Zenon DEF SplitGrows
    <2>5. PiecesRead(u, ps, Append(q, x))
      BY <1>9, <2>1, <2>2, <2>3, <2>4, Zenon DEF PiecesRead
    <2> QED
      BY <2>5, Zenon
  <1>12. CASE x = ";"
    <2>1. Blank(x) = " "
      BY <1>12, Zenon DEF Blank
    <2>2. Along(TokensOf(ps) \o tokenize(q), Start, scan(scanned(w), " "), scan(scanned(t), ";"))
      BY <1>1, <1>6, <1>7, <1>8, <1>10, <1>12, AlongStop, Zenon
    <2>3. SplitInto(u, Append(ps, q), <<>>)
      BY <1>3, <1>5, <1>12, Zenon DEF SplitGrows
    <2>4. PiecesRead(u, Append(ps, q), <<>>)
      BY <1>7, <1>9, <1>12, <2>1, <2>2, <2>3, ScannedEmpty, Zenon DEF PiecesRead
    <2> QED
      BY <2>4, Zenon
  <1> QED
    BY <1>11, <1>12, Zenon
-----------------------------------------------------------------------------
(* The theorem.                                                            *)

\* The inductive invariant: the pieces between the semicolons give the tokens of
\* the text with blanks for them.
PiecesInv == text \in Texts /\ SplitInv(text)

\* It holds of the empty text.
LEMMA PiecesInit == Init => PiecesInv
  <1> SUFFICES ASSUME Init PROVE PiecesInv
    BY SMTT(30)
  <1>1. text = <<>>
    BY Zenon DEF Init
  <1> QED
    BY <1>1, ScannedEmpty, SplitBase, Zenon DEF PiecesInv

\* A turn of the tokenizer's loop keeps it.
LEMMA PiecesStep == PiecesInv /\ [Read]_rvars => PiecesInv'
  <1> SUFFICES ASSUME PiecesInv, [Read]_rvars PROVE PiecesInv'
    OBVIOUS
  <1>0. text \in Texts /\ SplitInv(text)
    BY Zenon DEF PiecesInv
  <1>1. CASE Read
    <2>1. PICK c \in Chars : text' = Append(text, c)
      BY <1>1, Zenon DEF Read, Chars
    <2>2. text' \in Texts /\ SplitInv(text')
      BY <1>0, <2>1, NotEmpty, SplitStep, Zenon
    <2> QED
      BY <2>2, Zenon DEF PiecesInv
  <1>2. CASE UNCHANGED rvars
    BY <1>0, <1>2, Zenon DEF PiecesInv, rvars
  <1> QED
    BY <1>1, <1>2, Zenon

\* For programs of any length, splitting at the semicolons first and reading the
\* pieces one by one gives the tokens of the whole text with a blank for each
\* semicolon, when no semicolon is inside a string or a comment.
THEOREM SplitKeepsTokensAlways == Spec => []SplitKeepsTokens
  <1>1. PiecesInv => SplitKeepsTokens
    <2> SUFFICES ASSUME PiecesInv, Clean(text)
                 PROVE  TokensOf(Split(text)) = tokenize(Blanked(text))
      BY Zenon DEF SplitKeepsTokens, Clean
    <2>1. text \in Texts /\ \E ps, q : PiecesRead(text, ps, q)
      BY Zenon DEF PiecesInv, SplitInv
    <2>2. PICK ps, q : PiecesRead(text, ps, q)
      BY <2>1, Zenon
    <2>3. /\ Split(text) = Append(ps, q) /\ ps \in Seq(Texts) /\ q \in Texts
          /\ Along(TokensOf(ps), scanned(q), scanned(Blanked(text)), scanned(text))
      BY <2>2, Zenon DEF PiecesRead, SplitInto
    <2>4. TokensOf(ps) \in Seq(Texts) /\ TokensOf(Append(ps, q)) = TokensOf(ps) \o tokenize(q)
      BY <2>3, TokensOfAppend, Zenon
    <2>5. Blanked(text) \in Texts
      BY <2>1, Kinds, BlankedAppend, Zenon
    <2>6. tokenize(Blanked(text)) = TokensOf(ps) \o tokenize(q)
      BY <2>3, <2>4, <2>5, AlongTokens, Zenon
    <2> QED
      BY <2>3, <2>4, <2>6, Zenon
  <1> QED
    BY <1>1, PiecesInit, PiecesStep, PTL DEF Spec
=============================================================================
