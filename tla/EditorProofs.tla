---------------------------- MODULE EditorProofs ----------------------------
(***************************************************************************)
(* The editor is a text with a cursor, for every text and any keys: the    *)
(* lines joined are the text, the numbers cursor_y and cursor_x say where  *)
(* in it the cursor stands, and what is saved is what is reopened.         *)
(*                                                                         *)
(* What the loops of str::lines and join compute is shown by the least     *)
(* counterexample: LeastNumber stands in for induction.                    *)
(***************************************************************************)
EXTENDS Editor, DataLemmas, SequenceTheorems, FiniteSetTheorems

\* The bytes of a line.
Bytes == Chars \cup {Lead, Cont}

\* A list with one more in front.
Cons(x, s) == <<x>> \o s

-----------------------------------------------------------------------------
\* join.

\* The loop of join has a result after every turn.
LEMMA JoinExists ==
    ASSUME NEW ls, NEW n \in Nat
    PROVE  \E g : g = [i \in 1 .. n |-> IF i = 1 THEN ls[1] ELSE (g[i - 1] \o <<NL>>) \o ls[i]]
  <1> DEFINE T == {m \in Nat : ~\E g : g = [i \in 1 .. m |-> IF i = 1 THEN ls[1]
                                            ELSE (g[i - 1] \o <<NL>>) \o ls[i]]}
  <1>1. SUFFICES ASSUME T # {} PROVE FALSE
    BY Zenon
  <1>2. PICK m \in T : \A k \in T : m <= k
    BY <1>1, LeastNumber, Zenon
  <1>3. CASE m = 0
    <2> DEFINE g == [i \in 1 .. m |-> <<>>]
    <2>1. g = [i \in 1 .. m |-> IF i = 1 THEN ls[1] ELSE (g[i - 1] \o <<NL>>) \o ls[i]]
      BY <1>3
    <2> QED
      BY <1>2, <2>1, Zenon
  <1>4. CASE m # 0
    <2>1. m - 1 \in Nat /\ m - 1 \notin T
      <3>1. m \in Nat
        BY Zenon
      <3> HIDE DEF T
      <3> QED
        BY <1>2, <1>4, <3>1
    <2>2. PICK g : g = [i \in 1 .. m - 1 |-> IF i = 1 THEN ls[1]
                                             ELSE (g[i - 1] \o <<NL>>) \o ls[i]]
      BY <2>1, Zenon
    <2> DEFINE h == [i \in 1 .. m |-> IF i < m THEN g[i] ELSE IF i = 1 THEN ls[1]
                                      ELSE (g[i - 1] \o <<NL>>) \o ls[i]]
    <2>3. ASSUME NEW i \in 1 .. m
          PROVE  h[i] = IF i = 1 THEN ls[1] ELSE (h[i - 1] \o <<NL>>) \o ls[i]
      <3>1. i # 1 => i - 1 \in 1 .. m - 1 /\ h[i - 1] = g[i - 1]
        OBVIOUS
      <3>2. CASE i = m
        BY <3>1, <3>2
      <3>3. CASE i # m
        <4>1. i \in 1 .. m - 1 /\ h[i] = g[i]
          BY <3>3
        <4>2. g[i] = IF i = 1 THEN ls[1] ELSE (g[i - 1] \o <<NL>>) \o ls[i]
          BY <2>2, <4>1, Zenon
        <4> HIDE DEF h
        <4> QED
          BY <3>1, <4>1, <4>2, Zenon
      <3> QED
        BY <3>2, <3>3, Zenon
    <2>4. h = [i \in 1 .. m |-> IF i = 1 THEN ls[1] ELSE (h[i - 1] \o <<NL>>) \o ls[i]]
      <3>1. h = [i \in 1 .. m |-> h[i]]
        BY Zenon
      <3> HIDE DEF h
      <3> QED
        BY <2>3, <3>1, Zenon
    <2> HIDE DEF h
    <2> QED
      BY <1>2, <2>4, Zenon
  <1> QED
    BY <1>3, <1>4, Zenon

\* The first n of the lines, joined.
Joined(ls, n) ==
    LET join[i \in 1 .. n] == IF i = 1 THEN ls[1] ELSE join[i - 1] \o <<NL>> \o ls[i]
    IN  join

\* What each turn of the loop does.
LEMMA JoinedTurns ==
    ASSUME NEW ls, NEW n \in Nat \ {0}
    PROVE  /\ Joined(ls, n)[1] = ls[1]
           /\ \A i \in 2 .. n : Joined(ls, n)[i] = (Joined(ls, n)[i - 1] \o <<NL>>) \o ls[i]
  <1> DEFINE Step(g) == [i \in 1 .. n |-> IF i = 1 THEN ls[1]
                                          ELSE (g[i - 1] \o <<NL>>) \o ls[i]]
             w == CHOOSE g : g = Step(g)
  <1>1. Joined(ls, n) = w
    BY Zenon DEF Joined
  <1>2. \E g : g = Step(g)
    BY JoinExists, Zenon
  <1>3. w = Step(w)
    BY <1>2, Zenon
  <1> HIDE DEF w
  <1>4. \A i \in 1 .. n : w[i] = IF i = 1 THEN ls[1] ELSE (w[i - 1] \o <<NL>>) \o ls[i]
    BY <1>3, Zenon
  <1>5. 1 \in 1 .. n /\ \A i \in 2 .. n : i \in 1 .. n /\ i # 1
    OBVIOUS
  <1>6. w[1] = ls[1]
    BY <1>4, <1>5, Zenon
  <1>7. \A i \in 2 .. n : w[i] = (w[i - 1] \o <<NL>>) \o ls[i]
    BY <1>4, <1>5, Zenon
  <1> QED
    BY <1>1, <1>6, <1>7, Zenon

\* A turn depends only on the lines it has come to.
LEMMA JoinedAgree ==
    ASSUME NEW ls, NEW ms, NEW n \in Nat \ {0}, NEW m \in Nat \ {0}, NEW k \in 1 .. n, k <= m,
           \A i \in 1 .. k : ls[i] = ms[i]
    PROVE  Joined(ls, n)[k] = Joined(ms, m)[k]
  <1> DEFINE T == {i \in 1 .. k : Joined(ls, n)[i] # Joined(ms, m)[i]}
  <1> SUFFICES ASSUME T # {} PROVE FALSE
    OBVIOUS
  <1>1. PICK i \in T : \A j \in T : i <= j
    <2>1. T \in SUBSET Nat
      OBVIOUS
    <2> QED
      BY <2>1, LeastNumber, Zenon
  <1>2. i \in 1 .. k /\ k \in Nat /\ ls[i] = ms[i] /\ 1 \in 1 .. k /\ ls[1] = ms[1]
    BY <1>1
  <1>3. CASE i = 1
    BY <1>1, <1>2, <1>3, JoinedTurns, Zenon
  <1>4. CASE i # 1
    <2>1. i \in 2 .. n /\ i \in 2 .. m /\ i - 1 \in 1 .. k /\ i - 1 \notin T
      BY <1>1, <1>2, <1>4
    <2>2. Joined(ls, n)[i - 1] = Joined(ms, m)[i - 1]
      BY <2>1, Zenon
    <2>3. Joined(ls, n)[i] = (Joined(ls, n)[i - 1] \o <<NL>>) \o ls[i]
      BY <2>1, JoinedTurns, Zenon
    <2>4. Joined(ms, m)[i] = (Joined(ms, m)[i - 1] \o <<NL>>) \o ms[i]
      BY <2>1, JoinedTurns, Zenon
    <2> QED
      BY <1>1, <1>2, <2>2, <2>3, <2>4, Zenon
  <1> QED
    BY <1>3, <1>4, Zenon

\* One line is joined to itself.
LEMMA JoinOne == \A l : Join(<<l>>) = l
  <1> SUFFICES ASSUME NEW l PROVE Join(<<l>>) = l
    BY Zenon
  <1>1. Join(<<l>>) = Joined(<<l>>, 1)[1]
    BY Zenon DEF Join, Joined
  <1>2. Joined(<<l>>, 1)[1] = <<l>>[1]
    <2> DEFINE ls == <<l>>
    <2>1. 1 \in Nat \ {0}
      OBVIOUS
    <2> HIDE DEF ls
    <2>2. Joined(ls, 1)[1] = ls[1]
      BY <2>1, JoinedTurns, Zenon
    <2> QED
      BY <2>2, Zenon DEF ls
  <1> QED
    BY <1>1, <1>2, Zenon

\* The last of several lines is joined by a line break.
LEMMA JoinAppend ==
    ASSUME NEW S, NEW ls \in Seq(S), ls # <<>>, NEW l \in S
    PROVE  Join(Append(ls, l)) = (Join(ls) \o <<NL>>) \o l
  <1> DEFINE ms == Append(ls, l)
             n == Len(ls)
  <1>1. n \in Nat \ {0} /\ Len(ms) = n + 1 /\ ms[n + 1] = l /\ \A i \in 1 .. n : ms[i] = ls[i]
    BY AppendProperties, LenProperties, EmptySeq
  <1>2. Join(ls) = Joined(ls, n)[n] /\ Join(ms) = Joined(ms, Len(ms))[Len(ms)]
    BY Zenon DEF Join, Joined
  <1> HIDE DEF ms, n
  <1>3. Joined(ms, n + 1)[n + 1] = (Joined(ms, n + 1)[(n + 1) - 1] \o <<NL>>) \o ms[n + 1]
    <2>1. n + 1 \in 2 .. n + 1 /\ n + 1 \in Nat \ {0}
      BY <1>1
    <2> QED
      BY <2>1, JoinedTurns, Zenon
  <1>4. Joined(ms, n + 1)[n] = Joined(ls, n)[n] /\ (n + 1) - 1 = n
    <2>1. n + 1 \in Nat \ {0} /\ n \in 1 .. n + 1 /\ n <= n
      BY <1>1
    <2> QED
      BY <1>1, <2>1, JoinedAgree
  <1> QED
    BY <1>1, <1>2, <1>3, <1>4, Zenon DEF ms

\* Joined lines are a text.
LEMMA JoinTyped ==
    ASSUME NEW B, NEW ls \in Seq(Seq(B)), ls # <<>>
    PROVE  Join(ls) \in Seq(B \cup {NL})
  <1> DEFINE n == Len(ls)
             J(i) == Joined(ls, n)[i]
             T == {i \in 1 .. n : J(i) \notin Seq(B \cup {NL})}
  <1>1. n \in Nat \ {0} /\ \A i \in 1 .. n : ls[i] \in Seq(B \cup {NL})
    <2>1. n \in Nat \ {0} /\ \A i \in 1 .. n : ls[i] \in Seq(B)
      BY EmptySeq, ElementOfSeq, Zenon
    <2> QED
      BY <2>1, SeqMonotonic, Zenon
  <1>2. Join(ls) = J(n)
    BY Zenon DEF Join, Joined
  <1> HIDE DEF n
  <1>3. ASSUME T # {} PROVE FALSE
    <2>1. PICK i \in T : \A j \in T : i <= j
      <3>1. T \in SUBSET Nat
        OBVIOUS
      <3> QED
        BY <1>3, <3>1, LeastNumber, Zenon
    <2>2. i \in 1 .. n /\ J(i) \notin Seq(B \cup {NL})
      BY Zenon
    <2>3. CASE i = 1
      BY <1>1, <2>2, <2>3, JoinedTurns, Zenon
    <2>4. CASE i # 1
      <3>1. i - 1 \in 1 .. n /\ i \in 2 .. n /\ i - 1 \notin T
        <4>1. i - 1 \in 1 .. n /\ i \in 2 .. n /\ ~(i <= i - 1)
          BY <1>1, <2>2, <2>4
        <4> HIDE DEF T
        <4> QED
          BY <2>1, <4>1, Zenon
      <3>2. J(i - 1) \in Seq(B \cup {NL})
        BY <3>1, Zenon
      <3>3. J(i) = (J(i - 1) \o <<NL>>) \o ls[i]
        BY <1>1, <3>1, JoinedTurns, Zenon
      <3> HIDE DEF J
      <3>4. J(i - 1) \o <<NL>> \in Seq(B \cup {NL})
        <4>1. <<NL>> \in Seq(B \cup {NL})
          OBVIOUS
        <4> QED
          BY <3>2, <4>1, ConcatProperties, Zenon
      <3>5. J(i) \in Seq(B \cup {NL})
        BY <1>1, <2>2, <3>3, <3>4, ConcatProperties
      <3> QED
        BY <2>2, <3>5, Zenon DEF J
    <2> QED
      BY <2>3, <2>4, Zenon
  <1>4. J(n) \in Seq(B \cup {NL})
    <2>1. n \in 1 .. n
      BY <1>1
    <2> QED
      BY <1>3, <2>1, Zenon
  <1> QED
    BY <1>2, <1>4, Zenon

-----------------------------------------------------------------------------
\* Sequences and what is done to them, named so that the provers may reason
\* from their laws instead of from their elements.
List(S) == Seq(S)
Cat(s, t) == s \o t
Push(s, e) == Append(s, e)
Pre(s, i) == SubSeq(s, 1, i)
Post(s, i) == SubSeq(s, i + 1, Len(s))
Put(s, i, e) == [s EXCEPT ![i] = e]

\* Concatenation adds lengths.
LEMMA CatLaws ==
    ASSUME NEW S
    PROVE  /\ <<>> \in List(S) /\ Len(<<>>) = 0
           /\ \A s \in List(S) : /\ Len(s) \in Nat /\ (Len(s) = 0 => s = <<>>)
                                 /\ Cat(s, <<>>) = s /\ Cat(<<>>, s) = s
           /\ \A s, t \in List(S) : Cat(s, t) \in List(S) /\ Len(Cat(s, t)) = Len(s) + Len(t)
  <1>1. <<>> \in List(S) /\ Len(<<>>) = 0
    BY DEF List
  <1>2. ASSUME NEW s \in Seq(S)
        PROVE  Len(s) \in Nat /\ (Len(s) = 0 => s = <<>>) /\ s \o <<>> = s /\ <<>> \o s = s
    OBVIOUS
  <1>3. ASSUME NEW s \in Seq(S), NEW t \in Seq(S)
        PROVE  s \o t \in Seq(S) /\ Len(s \o t) = Len(s) + Len(t)
    OBVIOUS
  <1> QED
    BY <1>1, <1>2, <1>3, Zenon DEF List, Cat

\* The same, for two parts only.
LEMMA CatLength ==
    ASSUME NEW S, NEW s \in List(S), NEW t \in List(S)
    PROVE  Cat(s, t) \in List(S) /\ Len(Cat(s, t)) = Len(s) + Len(t)
    BY CatLaws, Zenon

\* Concatenation is associative.
LEMMA CatAssoc ==
    ASSUME NEW S
    PROVE  \A s, t, u \in List(S) : Cat(Cat(s, t), u) = Cat(s, Cat(t, u))
    BY DEF List, Cat

\* Four parts regrouped.
LEMMA Regroup ==
    ASSUME NEW S
    PROVE  \A s, t, u, v \in List(S) : Cat(Cat(Cat(s, t), u), v) = Cat(s, Cat(Cat(t, u), v))
  <1> SUFFICES ASSUME NEW s \in List(S), NEW t \in List(S), NEW u \in List(S), NEW v \in List(S)
               PROVE  Cat(Cat(Cat(s, t), u), v) = Cat(s, Cat(Cat(t, u), v))
    BY Zenon
  <1>1. Cat(t, u) \in List(S) /\ Cat(Cat(s, t), u) = Cat(s, Cat(t, u))
    BY CatLaws, CatAssoc
  <1>2. Cat(Cat(s, Cat(t, u)), v) = Cat(s, Cat(Cat(t, u), v))
    BY <1>1, CatAssoc
  <1> QED
    BY <1>1, <1>2, Zenon

\* The laws of one element at either end.
LEMMA EndLaws ==
    ASSUME NEW S
    PROVE  /\ \A s \in List(S), e \in S :
                 /\ Push(s, e) \in List(S) /\ Len(Push(s, e)) = Len(s) + 1 /\ Push(s, e) # <<>>
                 /\ Cons(e, s) \in List(S) /\ Len(Cons(e, s)) = Len(s) + 1 /\ Cons(e, s) # <<>>
                 /\ Push(s, e)[Len(s) + 1] = e
           /\ \A s, t \in List(S), e \in S :
                 /\ Cat(Push(s, e), t) = Cat(s, Cons(e, t))
                 /\ Cat(s, Push(t, e)) = Push(Cat(s, t), e)
                 /\ Cat(Cons(e, s), t) = Cons(e, Cat(s, t))
           /\ \A e \in S : Cons(e, <<>>) = <<e>> /\ Push(<<>>, e) = <<e>>
           /\ \A s \in List(S) : s # <<>> => /\ \E r \in List(S), e \in S : s = Push(r, e)
                                             /\ \E r \in List(S), e \in S : s = Cons(e, r)
  <1>1. ASSUME NEW s \in List(S), NEW e \in S
        PROVE  /\ Push(s, e) \in List(S) /\ Len(Push(s, e)) = Len(s) + 1 /\ Push(s, e) # <<>>
               /\ Push(s, e)[Len(s) + 1] = e
    BY AppendProperties DEF List, Push
  <1>2. ASSUME NEW s \in List(S), NEW e \in S
        PROVE  Cons(e, s) \in List(S) /\ Len(Cons(e, s)) = Len(s) + 1 /\ Cons(e, s) # <<>>
    BY DEF List, Cons
  <1>3. ASSUME NEW s \in List(S), NEW t \in List(S), NEW e \in S
        PROVE  /\ Cat(Push(s, e), t) = Cat(s, Cons(e, t))
               /\ Cat(Cons(e, s), t) = Cons(e, Cat(s, t))
    <2> DEFINE d == <<e>>
    <2>1. d \in Seq(S) /\ Append(s, e) = s \o d
      BY AppendIsConcat DEF List
    <2> HIDE DEF d
    <2>2. (s \o d) \o t = s \o (d \o t) /\ (d \o s) \o t = d \o (s \o t)
      BY <2>1 DEF List
    <2> QED
      BY <2>1, <2>2, Zenon DEF d, Cat, Push, Cons
  <1>4. ASSUME NEW s \in List(S), NEW t \in List(S), NEW e \in S
        PROVE  Cat(s, Push(t, e)) = Push(Cat(s, t), e)
    BY DEF List, Cat, Push
  <1>5. ASSUME NEW e \in S PROVE Cons(e, <<>>) = <<e>> /\ Push(<<>>, e) = <<e>>
    BY DEF Cons, Push
  <1>6. ASSUME NEW s \in List(S), s # <<>>
        PROVE  /\ \E r \in List(S), e \in S : s = Push(r, e)
               /\ \E r \in List(S), e \in S : s = Cons(e, r)
    <2>1. \E r \in Seq(S), e \in S : s = Append(r, e)
      BY <1>6, SequenceEmptyOrAppend, Zenon DEF List
    <2>2. Head(s) \in S /\ Tail(s) \in Seq(S) /\ s = <<Head(s)>> \o Tail(s)
      BY <1>6, HeadTailProperties DEF List
    <2>3. \E r \in List(S), e \in S : s = Push(r, e)
      BY <2>1, Zenon DEF List, Push
    <2>4. Tail(s) \in List(S) /\ s = Cons(Head(s), Tail(s))
      BY <2>2, Zenon DEF List, Cons
    <2> QED
      BY <2>2, <2>3, <2>4, Zenon
  <1>7. \A s \in List(S), e \in S :
           /\ Push(s, e) \in List(S) /\ Len(Push(s, e)) = Len(s) + 1 /\ Push(s, e) # <<>>
           /\ Cons(e, s) \in List(S) /\ Len(Cons(e, s)) = Len(s) + 1 /\ Cons(e, s) # <<>>
           /\ Push(s, e)[Len(s) + 1] = e
    BY <1>1, <1>2, Zenon
  <1>8. \A s, t \in List(S), e \in S :
           /\ Cat(Push(s, e), t) = Cat(s, Cons(e, t))
           /\ Cat(s, Push(t, e)) = Push(Cat(s, t), e)
           /\ Cat(Cons(e, s), t) = Cons(e, Cat(s, t))
    BY <1>3, <1>4, Zenon
  <1> QED
    BY <1>5, <1>6, <1>7, <1>8, Zenon

\* A sequence in two parts is cut where they meet.
LEMMA CutLaws ==
    ASSUME NEW S
    PROVE  /\ \A s, t \in List(S) : Pre(Cat(s, t), Len(s)) = s /\ Post(Cat(s, t), Len(s)) = t
           /\ \A s \in List(S) : \A i \in 0 .. Len(s) :
                 /\ Pre(s, i) \in List(S) /\ Len(Pre(s, i)) = i /\ Post(s, i) \in List(S)
                 /\ s = Cat(Pre(s, i), Post(s, i))
  <1>1. ASSUME NEW s \in List(S), NEW t \in List(S)
        PROVE  Pre(Cat(s, t), Len(s)) = s /\ Post(Cat(s, t), Len(s)) = t
    <2> DEFINE u == s \o t
    <2>1. /\ u \in Seq(S) /\ Len(u) = Len(s) + Len(t) /\ Len(s) \in Nat /\ Len(t) \in Nat
          /\ \A i \in 1 .. Len(s) : u[i] = s[i]
          /\ \A i \in 1 .. Len(t) : u[Len(s) + i] = t[i]
      BY ConcatProperties, LenProperties DEF List
    <2> HIDE DEF u
    <2>2. SubSeq(u, 1, Len(s)) = s
      BY <2>1 DEF List
    <2>3. SubSeq(u, Len(s) + 1, Len(u)) = t
      BY <2>1 DEF List
    <2> QED
      BY <2>2, <2>3, Zenon DEF u, Pre, Post, Cat
  <1>2. ASSUME NEW s \in List(S), NEW i \in 0 .. Len(s)
        PROVE  /\ Pre(s, i) \in List(S) /\ Len(Pre(s, i)) = i /\ Post(s, i) \in List(S)
               /\ s = Cat(Pre(s, i), Post(s, i))
    <2>1. Len(s) \in Nat /\ \A j \in 1 .. Len(s) : s[j] \in S
      BY LenProperties, ElementOfSeq, Zenon DEF List
    <2>2. (\A j \in 1 .. i : s[j] \in S) /\ (\A j \in i + 1 .. Len(s) : s[j] \in S)
      BY <2>1
    <2>3. SubSeq(s, 1, i) \in Seq(S) /\ Len(SubSeq(s, 1, i)) = i
      BY <2>1, <2>2, SubSeqProperties
    <2>4. SubSeq(s, i + 1, Len(s)) \in Seq(S)
      BY <2>1, <2>2, SubSeqProperties
    <2>5. SubSeq(s, 1, i) \o SubSeq(s, i + 1, Len(s)) = SubSeq(s, 1, Len(s))
      <3>1. 1 \in 1 .. Len(s) + 1 /\ i \in 1 - 1 .. Len(s) /\ Len(s) \in i .. Len(s)
        BY <2>1
      <3> QED
        BY <3>1, ConcatAdjacentSubSeq, Zenon DEF List
    <2>6. SubSeq(s, 1, Len(s)) = s
      BY SubSeqFull, Zenon DEF List
    <2>7. s = Cat(Pre(s, i), Post(s, i))
      BY <2>5, <2>6, Zenon DEF Cat, Pre, Post
    <2> QED
      BY <2>3, <2>4, <2>7, Zenon DEF Pre, Post, List
  <1> QED
    BY <1>1, <1>2, Zenon

\* The laws of an element in the middle.
LEMMA MiddleLaws ==
    ASSUME NEW S
    PROVE  \A s, t \in List(S), e \in S :
              /\ Cat(Push(s, e), t)[Len(s) + 1] = e
              /\ Pre(Cat(Push(s, e), t), Len(s)) = s
              /\ Post(Cat(Push(s, e), t), Len(s) + 1) = t
              /\ \A f \in S : Put(Cat(Push(s, e), t), Len(s) + 1, f) = Cat(Push(s, f), t)
  <1> SUFFICES ASSUME NEW s \in List(S), NEW t \in List(S), NEW e \in S
               PROVE  /\ Cat(Push(s, e), t)[Len(s) + 1] = e
                      /\ Pre(Cat(Push(s, e), t), Len(s)) = s
                      /\ Post(Cat(Push(s, e), t), Len(s) + 1) = t
                      /\ \A f \in S : Put(Cat(Push(s, e), t), Len(s) + 1, f) = Cat(Push(s, f), t)
    BY Zenon
  <1>1. Pre(Cat(Push(s, e), t), Len(s)) = s
    BY CutLaws, EndLaws
  <1>2. Post(Cat(Push(s, e), t), Len(s) + 1) = t
    BY CutLaws, EndLaws
  <1> DEFINE at(f) == Append(s, f) \o t
  <1>3. ASSUME NEW f \in S
        PROVE  /\ at(f) \in Seq(S) /\ Len(at(f)) = Len(s) + 1 + Len(t) /\ at(f)[Len(s) + 1] = f
               /\ \A i \in 1 .. Len(s) : at(f)[i] = s[i]
               /\ \A i \in 1 .. Len(t) : at(f)[Len(s) + 1 + i] = t[i]
    <2> DEFINE c == Append(s, f)
    <2>1. c \in Seq(S) /\ Len(c) = Len(s) + 1 /\ Len(s) \in Nat /\ c[Len(s) + 1] = f
          /\ \A i \in 1 .. Len(s) : c[i] = s[i]
      BY AppendProperties, LenProperties DEF List
    <2> HIDE DEF c
    <2>2. c \o t \in Seq(S) /\ Len(c \o t) = Len(c) + Len(t) /\ Len(t) \in Nat
          /\ (\A i \in 1 .. Len(c) : (c \o t)[i] = c[i])
          /\ (\A i \in 1 .. Len(t) : (c \o t)[Len(c) + i] = t[i])
      <3>1. t \in Seq(S) /\ c \in Seq(S)
        BY <2>1, Zenon DEF List
      <3>2. /\ c \o t \in Seq(S) /\ Len(c \o t) = Len(c) + Len(t)
            /\ Len(t) \in Nat /\ Len(c) \in Nat
            /\ \A i \in 1 .. Len(c) + Len(t) :
                  (c \o t)[i] = IF i <= Len(c) THEN c[i] ELSE t[i - Len(c)]
        BY <3>1, ConcatProperties, LenProperties, Zenon
      <3> DEFINE v == c \o t
      <3> HIDE DEF v
      <3>3. \A i \in 1 .. Len(c) : v[i] = c[i]
        BY <3>2 DEF v
      <3>4. \A i \in 1 .. Len(t) : v[Len(c) + i] = t[i]
        <4> SUFFICES ASSUME NEW i \in 1 .. Len(t) PROVE v[Len(c) + i] = t[i]
          BY Zenon
        <4>1. Len(c) + i \in 1 .. Len(c) + Len(t) /\ ~(Len(c) + i <= Len(c))
              /\ (Len(c) + i) - Len(c) = i
          BY <3>2
        <4> QED
          BY <3>2, <4>1, Zenon DEF v
      <3> QED
        BY <3>2, <3>3, <3>4, Zenon DEF v
    <2> DEFINE u == c \o t
    <2> HIDE DEF u
    <2>3. /\ u \in Seq(S) /\ Len(u) = Len(s) + 1 + Len(t) /\ u[Len(s) + 1] = f
          /\ \A i \in 1 .. Len(s) : u[i] = s[i]
          /\ \A i \in 1 .. Len(t) : u[Len(s) + 1 + i] = t[i]
      BY <2>1, <2>2 DEF u
    <2> QED
      BY <2>3, Zenon DEF u, c
  <1>4. Len(s) \in Nat /\ Len(t) \in Nat
    BY LenProperties, Zenon DEF List
  <1> HIDE DEF at
  <1>5. ASSUME NEW f \in S PROVE [at(e) EXCEPT ![Len(s) + 1] = f] = at(f)
    <2> DEFINE d == [at(e) EXCEPT ![Len(s) + 1] = f]
    <2>1. Len(s) + 1 \in 1 .. Len(at(e))
      BY <1>3, <1>4
    <2>2. d \in Seq(S) /\ Len(d) = Len(at(e))
          /\ \A j \in 1 .. Len(at(e)) : d[j] = IF j = Len(s) + 1 THEN f ELSE at(e)[j]
      BY <1>3, <2>1, ExceptSeq
    <2> HIDE DEF d
    <2>3. Len(d) = Len(at(f)) /\ Len(d) = Len(s) + 1 + Len(t)
      BY <1>3, <2>2, Zenon
    <2>4. ASSUME NEW j \in 1 .. Len(d) PROVE d[j] = at(f)[j]
      <3>1. d[j] = IF j = Len(s) + 1 THEN f ELSE at(e)[j]
        BY <2>2, Zenon
      <3>2. CASE j = Len(s) + 1
        BY <1>3, <3>1, <3>2, Zenon
      <3>3. CASE j \in 1 .. Len(s)
        BY <1>3, <1>4, <3>1, <3>3
      <3>4. CASE j > Len(s) + 1
        <4>1. j - (Len(s) + 1) \in 1 .. Len(t) /\ Len(s) + 1 + (j - (Len(s) + 1)) = j
          BY <1>4, <2>3, <3>4
        <4>2. at(e)[j] = t[j - (Len(s) + 1)] /\ at(f)[j] = t[j - (Len(s) + 1)]
          BY <1>3, <4>1
        <4> QED
          BY <1>4, <3>1, <3>4, <4>2
      <3> QED
        BY <1>4, <2>3, <3>2, <3>3, <3>4
    <2>5. d = at(f)
      BY <1>3, <2>2, <2>3, <2>4, SeqEqual, Zenon
    <2> QED
      BY <2>5, Zenon DEF d
  <1>6. Cat(Push(s, e), t)[Len(s) + 1] = e
    BY <1>3, Zenon DEF at, Cat, Push
  <1>7. ASSUME NEW f \in S PROVE Put(Cat(Push(s, e), t), Len(s) + 1, f) = Cat(Push(s, f), t)
    BY <1>5, Zenon DEF at, Cat, Push, Put
  <1> QED
    BY <1>1, <1>2, <1>6, <1>7, Zenon

\* Inserting and removing are cutting and putting together.
LEMMA EditLaws ==
    ASSUME NEW S
    PROVE  /\ \A s \in List(S), e \in S : \A i \in 0 .. Len(s) :
                 InsertAt(s, i + 1, e) = Cat(Push(Pre(s, i), e), Post(s, i))
           /\ \A s \in List(S) : \A i \in Nat :
                 RemoveAt(s, i + 1) = Cat(Pre(s, i), Post(s, i + 1))
  <1>1. ASSUME NEW s \in List(S), NEW e \in S, NEW i \in 0 .. Len(s)
        PROVE  InsertAt(s, i + 1, e) = Cat(Push(Pre(s, i), e), Post(s, i))
    <2>1. SubSeq(s, 1, i) \in Seq(S)
      BY CutLaws, Zenon DEF Pre, List
    <2>2. Append(SubSeq(s, 1, i), e) = SubSeq(s, 1, i) \o <<e>>
      BY <2>1, AppendIsConcat, Zenon
    <2>3. (i + 1) - 1 = i
      OBVIOUS
    <2>4. InsertAt(s, i + 1, e) = (SubSeq(s, 1, (i + 1) - 1) \o <<e>>) \o SubSeq(s, i + 1, Len(s))
      BY Zenon DEF InsertAt
    <2> QED
      BY <2>2, <2>3, <2>4, Zenon DEF Cat, Push, Pre, Post
  <1>2. ASSUME NEW s \in List(S), NEW i \in Nat
        PROVE  RemoveAt(s, i + 1) = Cat(Pre(s, i), Post(s, i + 1))
    <2>1. (i + 1) - 1 = i
      OBVIOUS
    <2>2. RemoveAt(s, i + 1) = SubSeq(s, 1, (i + 1) - 1) \o SubSeq(s, (i + 1) + 1, Len(s))
      BY Zenon DEF RemoveAt
    <2> QED
      BY <2>1, <2>2, Zenon DEF Cat, Pre, Post
  <1> QED
    BY <1>1, <1>2, Zenon

-----------------------------------------------------------------------------
\* The lines of bytes B, the text they make, and what is between them.
Vec(B) == List(List(B))
Text(B) == List(B \cup {NL})
Break == <<NL>>

\* Joining lines one by one.
LEMMA JoinLaws ==
    ASSUME NEW B
    PROVE  /\ Break \in Text(B)
           /\ \A l \in List(B) : l \in Text(B) /\ Join(<<l>>) = l
           /\ \A ls \in Vec(B) : ls # <<>> => Join(ls) \in Text(B)
           /\ \A ls \in Vec(B), l \in List(B) :
                 ls # <<>> => Join(Push(ls, l)) = Cat(Cat(Join(ls), Break), l)
  <1>1. Break \in Text(B)
    BY DEF Break, Text, List
  <1>2. \A l \in List(B) : l \in Text(B)
    BY SeqMonotonic, Zenon DEF Text, List
  <1>3. \A ls \in Vec(B) : ls # <<>> => Join(ls) \in Text(B)
    BY JoinTyped, Zenon DEF Vec, Text, List
  <1>4. \A ls \in Vec(B), l \in List(B) :
           ls # <<>> => Join(Push(ls, l)) = Cat(Cat(Join(ls), Break), l)
    BY JoinAppend, Zenon DEF Vec, List, Break, Cat, Push
  <1> QED
    BY <1>1, <1>2, <1>3, <1>4, JoinOne, Zenon

\* Lines joined in two parts.
LEMMA JoinCat ==
    ASSUME NEW B, NEW a \in Vec(B), a # <<>>, NEW b \in Vec(B), b # <<>>
    PROVE  Join(Cat(a, b)) = Cat(Cat(Join(a), Break), Join(b))
  <1> DEFINE Holds(c) == Join(Cat(a, c)) = Cat(Cat(Join(a), Break), Join(c))
             T == {n \in Nat : \E c \in Vec(B) : c # <<>> /\ Len(c) = n /\ ~Holds(c)}
  <1> SUFFICES ASSUME T # {} PROVE FALSE
    <2>1. ~Holds(b) => Len(b) \in T
      BY CatLaws, Zenon DEF Vec
    <2> QED
      BY <2>1, Zenon
  <1>1. PICK n \in T : \A m \in T : n <= m
    BY LeastNumber, Zenon
  <1>2. PICK c \in Vec(B) : c # <<>> /\ Len(c) = n /\ ~Holds(c)
    BY Zenon
  <1>3. PICK q \in Vec(B), l \in List(B) : c = Push(q, l)
    BY <1>2, EndLaws DEF Vec
  <1>4. Len(c) = Len(q) + 1 /\ Len(q) \in Nat
    BY <1>3, EndLaws, CatLaws DEF Vec
  <1>5. Cat(a, c) = Push(Cat(a, q), l)
    BY <1>3, EndLaws DEF Vec
  <1>6. Len(q) \notin T
    <2>1. ~(n <= Len(q))
      BY <1>2, <1>4
    <2> HIDE DEF T
    <2> QED
      BY <1>1, <2>1, Zenon
  <1> DEFINE A == Cat(Join(a), Break)
  <1>7. Join(a) \in Text(B) /\ Break \in Text(B) /\ l \in Text(B) /\ A \in Text(B)
    BY JoinLaws, CatLaws, Zenon DEF Text
  <1>8. CASE q = <<>>
    <2>1. Cat(a, c) = Push(a, l) /\ c = <<l>>
      BY <1>3, <1>5, <1>8, CatLaws, EndLaws, Zenon DEF Vec
    <2>2. Join(Push(a, l)) = Cat(A, l) /\ Join(<<l>>) = l
      BY JoinLaws, Zenon
    <2> QED
      BY <1>2, <2>1, <2>2, Zenon
  <1>9. CASE q # <<>>
    <2>1. Join(Cat(a, q)) = Cat(A, Join(q))
      BY <1>4, <1>6, <1>9, Zenon
    <2>2. Cat(a, q) \in Vec(B) /\ Cat(a, q) # <<>>
      <3>1. Cat(a, q) \in Vec(B) /\ Len(Cat(a, q)) = Len(a) + Len(q) /\ Len(a) \in Nat /\ Len(q) # 0
            /\ Len(<<>>) = 0
        BY <1>9, CatLaws, Zenon DEF Vec
      <3> QED
        BY <1>4, <3>1
    <2> DEFINE Q == Join(q)
    <2>3. Q \in Text(B)
      BY <1>9, JoinLaws, Zenon
    <2>4. Join(Cat(a, c)) = Cat(Cat(Cat(A, Q), Break), l)
      BY <1>5, <2>1, <2>2, JoinLaws
    <2>5. Join(c) = Cat(Cat(Q, Break), l)
      BY <1>3, <1>9, JoinLaws, Zenon
    <2> HIDE DEF A, Q, T
    <2>6. Cat(Cat(Cat(A, Q), Break), l) = Cat(A, Cat(Cat(Q, Break), l))
      BY <1>7, <2>3, Regroup DEF Text
    <2> QED
      BY <1>2, <2>4, <2>5, <2>6, Zenon DEF A
  <1> QED
    BY <1>8, <1>9, Zenon

-----------------------------------------------------------------------------
\* Where the cursor stands, and what the keys do to the lines.

\* The lines above the cursor, the cursor's line left and right of it, and the
\* lines below.
View(B, ls, x, y, a, l, r, b) ==
    /\ a \in Vec(B) /\ l \in List(B) /\ r \in List(B) /\ b \in Vec(B)
    /\ ls = Cat(Push(a, Cat(l, r)), b)
    /\ y = Len(a) /\ x = Len(l)

\* cursor_y is the index of a line and cursor_x of a byte in it or of its end.
Placed(B, ls, x, y) ==
    /\ ls \in Vec(B) /\ y \in 0 .. Len(ls) - 1 /\ x \in 0 .. Len(ls[y + 1])

\* A cursor that is placed sees the text around it.
LEMMA PlacedSees ==
    ASSUME NEW B, NEW ls, NEW x, NEW y, Placed(B, ls, x, y)
    PROVE  \E a, b \in Vec(B), l, r \in List(B) : View(B, ls, x, y, a, l, r, b)
  <1> DEFINE L == List(B)
             a == Pre(ls, y)
             d == Post(ls, y)
  <1>1. ls \in List(L) /\ Len(ls) \in Nat /\ y \in 0 .. Len(ls) - 1 /\ y \in 0 .. Len(ls)
    BY CatLaws DEF Placed, Vec
  <1>2. a \in List(L) /\ d \in List(L) /\ Len(a) = y /\ ls = Cat(a, d)
    BY <1>1, CutLaws, Zenon
  <1> HIDE DEF L, a, d
  <1>3. Len(ls) = Len(a) + Len(d) /\ Len(d) \in Nat
    BY <1>2, CatLaws, Zenon
  <1>4. d # <<>>
    BY <1>1, <1>2, <1>3
  <1>5. PICK b \in List(L), m \in L : d = Cons(m, b)
    BY <1>2, <1>4, EndLaws
  <1>6. ls = Cat(Push(a, m), b)
    BY <1>2, <1>5, EndLaws
  <1>7. ls[y + 1] = m
    BY <1>2, <1>6, MiddleLaws
  <1>8. m \in List(B) /\ x \in 0 .. Len(m)
    BY <1>5, <1>7, Zenon DEF Placed, L
  <1>9. Pre(m, x) \in List(B) /\ Post(m, x) \in List(B) /\ Len(Pre(m, x)) = x
        /\ m = Cat(Pre(m, x), Post(m, x))
    BY <1>8, CutLaws
  <1>10. a \in Vec(B) /\ b \in Vec(B)
    BY <1>2, <1>5, Zenon DEF L, Vec
  <1>11. View(B, ls, x, y, a, Pre(m, x), Post(m, x), b)
    BY <1>2, <1>6, <1>9, <1>10, Zenon DEF View
  <1> QED
    BY <1>9, <1>10, <1>11, Zenon

\* What is seen is where the cursor is placed.
LEMMA SeenPlaced ==
    ASSUME NEW B, NEW ls, NEW x, NEW y, NEW a, NEW l, NEW r, NEW b, View(B, ls, x, y, a, l, r, b)
    PROVE  /\ Placed(B, ls, x, y)
           /\ ls[y + 1] = Cat(l, r) /\ Cat(l, r) \in List(B) /\ Len(Cat(l, r)) = x + Len(r)
           /\ Pre(ls, y) = a /\ Post(ls, y + 1) = b
           /\ Pre(ls[y + 1], x) = l /\ Post(ls[y + 1], x) = r
           /\ Len(ls) = y + 1 + Len(b) /\ x \in Nat /\ y \in Nat /\ Len(r) \in Nat /\ Len(b) \in Nat
  <1> DEFINE m == Cat(l, r)
             L == List(B)
  <1>1. /\ l \in List(B) /\ r \in List(B) /\ x = Len(l) /\ y = Len(a)
        /\ ls = Cat(Push(a, m), b) /\ a \in List(L) /\ b \in List(L)
    BY Zenon DEF View, Vec
  <1>2. m \in List(B) /\ Len(m) = Len(l) + Len(r) /\ Pre(m, Len(l)) = l /\ Post(m, Len(l)) = r
    BY <1>1, CutLaws, CatLaws
  <1>3. Len(a) \in Nat /\ Len(b) \in Nat /\ Len(l) \in Nat /\ Len(r) \in Nat
    BY <1>1, CatLaws, Zenon
  <1> HIDE DEF m, L
  <1>4. m \in L
    BY <1>2, Zenon DEF L
  <1>5. ls \in List(L) /\ Len(ls) = Len(a) + 1 + Len(b)
    <2>1. Push(a, m) \in List(L) /\ Len(Push(a, m)) = Len(a) + 1
      BY <1>1, <1>4, EndLaws
    <2>2. ls \in List(L) /\ Len(ls) = Len(Push(a, m)) + Len(b)
      BY <1>1, <2>1, CatLength, Zenon
    <2> QED
      BY <2>1, <2>2, Zenon
  <1>6. ls[Len(a) + 1] = m /\ Pre(ls, Len(a)) = a /\ Post(ls, Len(a) + 1) = b
    BY <1>1, <1>4, MiddleLaws
  <1>7. y \in 0 .. Len(ls) - 1 /\ x \in 0 .. Len(m)
    BY <1>1, <1>2, <1>3, <1>5
  <1>8. ls \in Vec(B)
    BY <1>5, Zenon DEF L, Vec
  <1>9. Placed(B, ls, x, y)
    BY <1>1, <1>6, <1>7, <1>8, Zenon DEF Placed
  <1> QED
    BY <1>1, <1>2, <1>3, <1>5, <1>6, <1>9, Zenon DEF m

\* The cursor's line may be replaced.
LEMMA ReplacedView ==
    ASSUME NEW B, NEW ls, NEW x, NEW y, NEW a, NEW l, NEW r, NEW b, View(B, ls, x, y, a, l, r, b),
           NEW k \in List(B), NEW s \in List(B)
    PROVE  View(B, Put(ls, y + 1, Cat(k, s)), Len(k), y, a, k, s, b)
  <1>1. /\ y = Len(a) /\ ls = Cat(Push(a, Cat(l, r)), b) /\ a \in List(List(B)) /\ b \in List(List(B))
        /\ l \in List(B) /\ r \in List(B)
    BY Zenon DEF View, Vec
  <1>2. Cat(l, r) \in List(B) /\ Cat(k, s) \in List(B)
    BY <1>1, CatLaws, Zenon
  <1>3. Put(ls, y + 1, Cat(k, s)) = Cat(Push(a, Cat(k, s)), b)
    BY <1>1, <1>2, MiddleLaws
  <1> QED
    BY <1>1, <1>3, Zenon DEF View, Vec

\* insert_char puts a character into the line at the cursor.
LEMMA TypedView ==
    ASSUME NEW B, NEW ls, NEW x, NEW y, NEW a, NEW l, NEW r, NEW b, View(B, ls, x, y, a, l, r, b),
           NEW c \in B
    PROVE  View(B, Put(ls, y + 1, InsertAt(ls[y + 1], x + 1, c)), x + 1, y, a, Push(l, c), r, b)
  <1> DEFINE m == ls[y + 1]
             k == Push(l, c)
  <1>1. l \in List(B) /\ r \in List(B) /\ x = Len(l)
    BY Zenon DEF View
  <1>2. m \in List(B) /\ x \in 0 .. Len(m) /\ Pre(m, x) = l /\ Post(m, x) = r
    BY SeenPlaced DEF Placed
  <1>3. k \in List(B) /\ Len(k) = x + 1
    BY <1>1, EndLaws
  <1> HIDE DEF m
  <1>4. InsertAt(m, x + 1, c) = Cat(k, r)
    BY <1>2, EditLaws, Zenon
  <1> HIDE DEF k
  <1>5. View(B, Put(ls, y + 1, Cat(k, r)), Len(k), y, a, k, r, b)
    BY <1>1, <1>3, ReplacedView, Zenon
  <1> QED
    BY <1>3, <1>4, <1>5, Zenon DEF m, k

\* insert_newline cuts the line at the cursor.
LEMMA BrokenView ==
    ASSUME NEW B, NEW ls, NEW x, NEW y, NEW a, NEW l, NEW r, NEW b, View(B, ls, x, y, a, l, r, b)
    PROVE  View(B, InsertAt(Put(ls, y + 1, Pre(ls[y + 1], x)), y + 2, Post(ls[y + 1], x)),
                0, y + 1, Push(a, l), <<>>, r, b)
  <1> DEFINE ms == Put(ls, y + 1, l)
             c == Push(a, l)
             L == List(B)
  <1>1. Pre(ls[y + 1], x) = l /\ Post(ls[y + 1], x) = r /\ Cat(l, r) \in L /\ y \in Nat
    BY SeenPlaced, Zenon
  <1>2. /\ l \in L /\ r \in L /\ y = Len(a) /\ a \in List(L) /\ b \in List(L)
        /\ ls = Cat(Push(a, Cat(l, r)), b)
    BY Zenon DEF View, Vec
  <1>3. Cat(<<>>, r) = r /\ <<>> \in List(B) /\ Len(<<>>) = 0
    BY <1>2, CatLaws, Zenon
  <1> HIDE DEF L
  <1>4. ms = Cat(c, b)
    BY <1>1, <1>2, MiddleLaws
  <1>5. c \in List(L) /\ Len(c) = y + 1 /\ c \in Vec(B) /\ b \in Vec(B)
    BY <1>2, EndLaws DEF L, Vec
  <1> HIDE DEF ms, c
  <1>6. Pre(ms, y + 1) = c /\ Post(ms, y + 1) = b
    BY <1>2, <1>4, <1>5, CutLaws, Zenon
  <1>7. ms \in List(L) /\ y + 1 \in 0 .. Len(ms) /\ y + 2 = (y + 1) + 1
    <2>1. ms \in List(L) /\ Len(ms) = Len(c) + Len(b)
      BY <1>2, <1>4, <1>5, CatLength, Zenon
    <2>2. Len(b) \in Nat
      BY <1>2, CatLaws, Zenon
    <2> QED
      BY <1>1, <1>5, <2>1, <2>2
  <1>8. InsertAt(ms, (y + 1) + 1, r) = Cat(Push(Pre(ms, y + 1), r), Post(ms, y + 1))
    BY <1>2, <1>7, EditLaws, Zenon
  <1>9. InsertAt(ms, y + 2, r) = Cat(Push(c, Cat(<<>>, r)), b)
    BY <1>3, <1>6, <1>7, <1>8, Zenon
  <1>10. View(B, InsertAt(ms, y + 2, r), 0, y + 1, c, <<>>, r, b)
    BY <1>2, <1>3, <1>5, <1>9, Zenon DEF View, L
  <1> QED
    BY <1>1, <1>10, Zenon DEF ms, c

\* backspace in a line takes out what is left of the cursor.
LEMMA ErasedView ==
    ASSUME NEW B, NEW ls, NEW x, NEW y, NEW a, NEW l, NEW r, NEW b, View(B, ls, x, y, a, l, r, b),
           NEW k \in List(B), NEW c \in B, l = Push(k, c), NEW s \in List(B)
    PROVE  /\ ls[y + 1][x] = c /\ x > 0
           /\ View(B, Put(ls, y + 1, Cat(Pre(ls[y + 1], x - 1), s)), x - 1, y, a, k, s, b)
  <1> DEFINE m == ls[y + 1]
  <1>1. r \in List(B) /\ x = Len(l)
    BY Zenon DEF View
  <1>2. m = Cat(Push(k, c), r)
    BY SeenPlaced, Zenon
  <1>3. Len(l) = Len(k) + 1 /\ Len(k) \in Nat
    BY EndLaws, CatLaws
  <1>4. m[Len(k) + 1] = c /\ Pre(m, Len(k)) = k
    BY <1>1, <1>2, MiddleLaws
  <1>5. Len(k) + 1 = x /\ x - 1 = Len(k) /\ x > 0
    BY <1>1, <1>3
  <1> HIDE DEF m
  <1>6. View(B, Put(ls, y + 1, Cat(k, s)), Len(k), y, a, k, s, b)
    BY ReplacedView, Zenon
  <1> QED
    BY <1>4, <1>5, <1>6, Zenon DEF m

\* The start of a line and the end of the line above it: backspace joins the
\* two lines, left only moves.
LEMMA LineAboveView ==
    ASSUME NEW B, NEW ls, NEW x, NEW y, NEW a, NEW l, NEW r, NEW b, View(B, ls, x, y, a, l, r, b),
           l = <<>>, NEW h \in Vec(B), NEW k \in List(B), a = Push(h, k)
    PROVE  /\ y > 0 /\ x = 0 /\ ls[y] = k
           /\ View(B, RemoveAt(Put(ls, y, Cat(ls[y], ls[y + 1])), y + 1), Len(ls[y]), y - 1,
                   h, k, r, b)
           /\ View(B, ls, Len(ls[y]), y - 1, h, k, <<>>, Cons(r, b))
  <1> DEFINE L == List(B)
             n == Cat(k, r)
             d == Cons(r, b)
             ms == Put(ls, y, n)
  <1>1. k \in L /\ r \in L /\ h \in List(L) /\ b \in List(L) /\ y = Len(a) /\ x = Len(<<>>)
    BY Zenon DEF View, Vec
  <1>2. Cat(<<>>, r) = r /\ Cat(k, <<>>) = k /\ n \in L /\ <<>> \in L /\ Len(<<>>) = 0
    BY <1>1, CatLaws, Zenon
  <1>3. ls = Cat(Push(a, r), b) /\ ls[y + 1] = r
    <2>1. ls = Cat(Push(a, Cat(<<>>, r)), b)
      BY Zenon DEF View
    <2>2. ls[y + 1] = Cat(l, r)
      BY SeenPlaced
    <2> QED
      BY <1>2, <2>1, <2>2, Zenon
  <1> HIDE DEF L, n
  <1>4. y = Len(h) + 1 /\ Len(h) \in Nat /\ a \in List(L)
    BY <1>1, EndLaws, CatLaws
  <1>5. ls = Cat(Push(h, k), d) /\ d \in List(L)
    BY <1>1, <1>3, <1>4, EndLaws
  <1>6. ls[y] = k /\ ms = Cat(Push(h, n), d)
    BY <1>1, <1>2, <1>4, <1>5, MiddleLaws
  <1> DEFINE e == Push(h, n)
  <1>7. e \in List(L) /\ Len(e) = y
    BY <1>1, <1>2, <1>4, EndLaws
  <1> HIDE DEF ms, e
  <1>8. ms = Cat(Push(e, r), b)
    BY <1>1, <1>6, <1>7, EndLaws DEF e
  <1>9. Pre(ms, y) = e /\ Post(ms, y + 1) = b
    BY <1>1, <1>7, <1>8, MiddleLaws
  <1>10. RemoveAt(ms, y + 1) = Cat(e, b)
    <2>1. ms \in List(L) /\ y \in Nat
      BY <1>4, <1>5, <1>6, <1>7, CatLaws, Zenon DEF e
    <2> QED
      BY <1>9, <2>1, EditLaws, Zenon
  <1>11. View(B, RemoveAt(ms, y + 1), Len(k), y - 1, h, k, r, b)
    <2>1. y - 1 = Len(h) /\ r \in List(B) /\ b \in Vec(B)
      BY <1>1, <1>4 DEF L, Vec
    <2> QED
      BY <1>10, <2>1, Zenon DEF View, e, n
  <1>12. View(B, ls, Len(k), y - 1, h, k, <<>>, d)
    <2>1. y - 1 = Len(h) /\ <<>> \in List(B) /\ d \in Vec(B)
      BY <1>2, <1>4, <1>5 DEF L, Vec
    <2> QED
      BY <1>2, <1>5, <2>1, Zenon DEF View
  <1>13. y > 0 /\ x = 0
    BY <1>1, <1>2, <1>4
  <1> QED
    BY <1>3, <1>6, <1>11, <1>12, <1>13, Zenon DEF ms, n

\* One byte to the left in a line.
LEMMA LeftView ==
    ASSUME NEW B, NEW ls, NEW x, NEW y, NEW a, NEW l, NEW r, NEW b, View(B, ls, x, y, a, l, r, b),
           NEW k \in List(B), NEW c \in B, l = Push(k, c)
    PROVE  View(B, ls, x - 1, y, a, k, Cons(c, r), b)
  <1>1. r \in List(B) /\ x = Len(l) /\ Len(k) \in Nat
    BY CatLaws, Zenon DEF View
  <1>2. Cat(Push(k, c), r) = Cat(k, Cons(c, r)) /\ Cons(c, r) \in List(B) /\ Len(l) = Len(k) + 1
    BY <1>1, EndLaws
  <1>3. x - 1 = Len(k)
    BY <1>1, <1>2
  <1> QED
    BY <1>2, <1>3, Zenon DEF View

\* One byte to the right in a line.
LEMMA RightView ==
    ASSUME NEW B, NEW ls, NEW x, NEW y, NEW a, NEW l, NEW r, NEW b, View(B, ls, x, y, a, l, r, b),
           NEW s \in List(B), NEW c \in B, r = Cons(c, s)
    PROVE  View(B, ls, x + 1, y, a, Push(l, c), s, b)
  <1>1. l \in List(B) /\ x = Len(l)
    BY Zenon DEF View
  <1>2. Cat(Push(l, c), s) = Cat(l, r) /\ Push(l, c) \in List(B) /\ Len(Push(l, c)) = x + 1
    BY <1>1, EndLaws
  <1> QED
    BY <1>2, Zenon DEF View

\* The end of a line and the start of the line below it.
LEMMA LineBelowView ==
    ASSUME NEW B, NEW ls, NEW x, NEW y, NEW a, NEW l, NEW r, NEW b, View(B, ls, x, y, a, l, r, b),
           r = <<>>, NEW k \in List(B), NEW d \in Vec(B), b = Cons(k, d)
    PROVE  View(B, ls, 0, y + 1, Push(a, l), <<>>, k, d)
  <1> DEFINE L == List(B)
             c == Push(a, l)
  <1>1. k \in L /\ l \in L /\ a \in List(L) /\ d \in List(L) /\ y = Len(a)
    BY Zenon DEF View, Vec
  <1>2. Cat(l, <<>>) = l /\ Cat(<<>>, k) = k /\ <<>> \in List(B) /\ Len(<<>>) = 0
    BY <1>1, CatLaws, Zenon
  <1>3. ls = Cat(c, b)
    BY <1>2, Zenon DEF View
  <1> HIDE DEF L
  <1>4. c \in List(L) /\ Len(c) = y + 1
    BY <1>1, EndLaws
  <1> HIDE DEF c
  <1>5. Cat(Push(c, k), d) = Cat(c, b)
    BY <1>1, <1>4, EndLaws
  <1>6. c \in Vec(B)
    BY <1>4, Zenon DEF L, Vec
  <1>7. View(B, ls, 0, y + 1, c, <<>>, k, d)
    BY <1>2, <1>3, <1>4, <1>5, <1>6, Zenon DEF View
  <1> QED
    BY <1>7, Zenon DEF c

-----------------------------------------------------------------------------
\* The text on either side of the cursor.
Above(a) == IF a = <<>> THEN <<>> ELSE Cat(Join(a), Break)
Below(b) == IF b = <<>> THEN <<>> ELSE Cat(Break, Join(b))

\* What is before the cursor ends with its line, what is after it starts so.
LEMMA AboveBelow ==
    ASSUME NEW B, NEW a \in Vec(B), NEW l \in List(B)
    PROVE  /\ Above(a) \in Text(B) /\ Join(Push(a, l)) = Cat(Above(a), l)
           /\ Below(a) \in Text(B) /\ Join(Cons(l, a)) = Cat(l, Below(a))
           /\ l \in Text(B) /\ Join(Push(a, l)) \in Text(B) /\ Join(Cons(l, a)) \in Text(B)
  <1>1. l \in Text(B) /\ Break \in Text(B) /\ Join(<<l>>) = l
    BY JoinLaws, Zenon
  <1>2. CASE a = <<>>
    <2>1. Push(a, l) = <<l>> /\ Cons(l, a) = <<l>>
      BY <1>2, EndLaws, Zenon
    <2>2. Cat(<<>>, l) = l /\ Cat(l, <<>>) = l /\ <<>> \in Text(B)
      BY CatLaws, Zenon DEF Text
    <2> QED
      BY <1>1, <1>2, <2>1, <2>2, Zenon DEF Above, Below
  <1>3. CASE a # <<>>
    <2>1. Join(a) \in Text(B) /\ Join(Push(a, l)) = Cat(Cat(Join(a), Break), l)
      BY <1>3, JoinLaws, Zenon
    <2>2. Cat(Join(a), Break) \in Text(B) /\ Cat(Break, Join(a)) \in Text(B)
      BY <1>1, <2>1, CatLength, Zenon DEF Text
    <2>3. Join(Cons(l, a)) = Cat(l, Cat(Break, Join(a)))
      <3>1. <<l>> \in Vec(B) /\ <<l>> # <<>> /\ Cons(l, a) = Cat(<<l>>, a)
        <4>1. <<l>> = Push(<<>>, l) /\ <<>> \in Vec(B) /\ Cat(<<>>, Cons(l, a)) = Cons(l, a)
          BY EndLaws, CatLaws, Zenon DEF Vec
        <4>2. Push(<<>>, l) \in Vec(B) /\ Push(<<>>, l) # <<>>
              /\ Cat(Push(<<>>, l), a) = Cat(<<>>, Cons(l, a))
          BY <4>1, EndLaws DEF Vec
        <4> QED
          BY <4>1, <4>2, Zenon
      <3>2. Join(Cat(<<l>>, a)) = Cat(Cat(Join(<<l>>), Break), Join(a))
        BY <1>3, <3>1, JoinCat, Zenon
      <3>3. Cat(Cat(l, Break), Join(a)) = Cat(l, Cat(Break, Join(a)))
        BY <1>1, <2>1, CatAssoc DEF Text
      <3> QED
        BY <1>1, <3>1, <3>2, <3>3, Zenon
    <2>4. Cat(Above(a), l) \in Text(B) /\ Cat(l, Below(a)) \in Text(B)
      BY <1>1, <1>3, <2>2, CatLength, Zenon DEF Text, Above, Below
    <2> QED
      BY <1>1, <1>3, <2>1, <2>2, <2>3, <2>4, Zenon DEF Above, Below
  <1> QED
    BY <1>2, <1>3, Zenon

\* How the text before the cursor grows, and the text after it.
LEMMA TextLaws ==
    ASSUME NEW B, NEW a \in Vec(B), NEW l \in List(B)
    PROVE  /\ \A c \in B : /\ Join(Push(a, Push(l, c))) = Push(Join(Push(a, l)), c)
                           /\ Join(Cons(Cons(c, l), a)) = Cons(c, Join(Cons(l, a)))
           /\ Join(Push(Push(a, l), <<>>)) = Push(Join(Push(a, l)), NL)
           /\ Join(Cons(<<>>, Cons(l, a))) = Cons(NL, Join(Cons(l, a)))
  <1> DEFINE p == Join(Push(a, l))
             n == Join(Cons(l, a))
  <1>1. p = Cat(Above(a), l) /\ n = Cat(l, Below(a)) /\ p \in Text(B) /\ n \in Text(B)
        /\ Above(a) \in Text(B) /\ Below(a) \in Text(B) /\ l \in Text(B)
    BY AboveBelow, Zenon
  <1>2. ASSUME NEW c \in B PROVE Join(Push(a, Push(l, c))) = Push(p, c)
    <2>1. Push(l, c) \in List(B)
      BY EndLaws, Zenon
    <2>2. Join(Push(a, Push(l, c))) = Cat(Above(a), Push(l, c))
      BY <2>1, AboveBelow, Zenon
    <2>3. c \in B \cup {NL}
      BY Zenon
    <2> HIDE DEF p, n
    <2>4. Cat(Above(a), Push(l, c)) = Push(Cat(Above(a), l), c)
      BY <1>1, <2>3, EndLaws DEF Text
    <2> QED
      BY <1>1, <2>2, <2>4, Zenon
  <1>3. ASSUME NEW c \in B PROVE Join(Cons(Cons(c, l), a)) = Cons(c, n)
    <2>1. Cons(c, l) \in List(B)
      BY EndLaws, Zenon
    <2>2. Join(Cons(Cons(c, l), a)) = Cat(Cons(c, l), Below(a))
      BY <2>1, AboveBelow, Zenon
    <2>3. c \in B \cup {NL}
      BY Zenon
    <2> HIDE DEF p, n
    <2>4. Cat(Cons(c, l), Below(a)) = Cons(c, Cat(l, Below(a)))
      BY <1>1, <2>3, EndLaws DEF Text
    <2> QED
      BY <1>1, <2>2, <2>4, Zenon
  <1>4. <<>> \in List(B)
    BY CatLaws, Zenon
  <1>5. NL \in B \cup {NL}
    BY Zenon
  <1>6. Join(Push(Push(a, l), <<>>)) = Push(p, NL)
    <2>1. Push(a, l) \in Vec(B) /\ Push(a, l) # <<>>
      BY EndLaws DEF Vec
    <2>2. Join(Push(Push(a, l), <<>>)) = Cat(Cat(p, Break), <<>>)
      BY <1>4, <2>1, JoinLaws, Zenon
    <2> HIDE DEF p, n
    <2>3. Cat(p, Break) = Push(p, NL)
      <3>1. Break = Push(<<>>, NL) /\ Cat(p, <<>>) = p /\ <<>> \in Text(B)
        BY <1>1, <1>5, CatLaws, EndLaws, Zenon DEF Break, Text
      <3>2. Cat(p, Push(<<>>, NL)) = Push(Cat(p, <<>>), NL)
        BY <1>1, <1>5, <3>1, EndLaws DEF Text
      <3> QED
        BY <3>1, <3>2, Zenon
    <2>4. Push(p, NL) \in Text(B)
      BY <1>1, <1>5, EndLaws, Zenon DEF Text
    <2>5. Cat(Push(p, NL), <<>>) = Push(p, NL)
      BY <2>4, CatLaws, Zenon DEF Text
    <2> QED
      BY <2>2, <2>3, <2>5, Zenon
  <1>7. Join(Cons(<<>>, Cons(l, a))) = Cons(NL, n)
    <2>1. Cons(l, a) \in Vec(B) /\ Cons(l, a) # <<>>
      BY EndLaws DEF Vec
    <2>2. Join(Cons(<<>>, Cons(l, a))) = Cat(<<>>, Below(Cons(l, a))) /\ Below(Cons(l, a)) \in Text(B)
      BY <1>4, <2>1, AboveBelow, Zenon
    <2>3. Below(Cons(l, a)) = Cat(Break, n)
      BY <2>1, Zenon DEF Below
    <2> HIDE DEF p, n
    <2>4. Cat(Break, n) = Cons(NL, n)
      <3>1. Break = Cons(NL, <<>>) /\ Cat(<<>>, n) = n /\ <<>> \in Text(B)
        BY <1>1, <1>5, CatLaws, EndLaws, Zenon DEF Break, Text
      <3>2. Cat(Cons(NL, <<>>), n) = Cons(NL, Cat(<<>>, n))
        BY <1>1, <1>5, <3>1, EndLaws DEF Text
      <3> QED
        BY <3>1, <3>2, Zenon
    <2>5. Cat(<<>>, Below(Cons(l, a))) = Below(Cons(l, a))
      BY <2>2, CatLaws, Zenon DEF Text
    <2> QED
      BY <2>2, <2>3, <2>4, <2>5, Zenon
  <1> QED
    BY <1>2, <1>3, <1>6, <1>7, Zenon

\* The text around the cursor is the text of the lines.
LEMMA WholeText ==
    ASSUME NEW B, NEW ls, NEW x, NEW y, NEW a, NEW l, NEW r, NEW b, View(B, ls, x, y, a, l, r, b)
    PROVE  Cat(Join(Push(a, l)), Join(Cons(r, b))) = Join(ls)
  <1> DEFINE m == Cat(l, r)
  <1>1. a \in Vec(B) /\ l \in List(B) /\ r \in List(B) /\ b \in Vec(B) /\ ls = Cat(Push(a, m), b)
    BY Zenon DEF View
  <1>2. Join(Push(a, l)) = Cat(Above(a), l) /\ Join(Cons(r, b)) = Cat(r, Below(b))
        /\ Above(a) \in Text(B) /\ l \in Text(B) /\ r \in Text(B) /\ Below(b) \in Text(B)
    BY <1>1, AboveBelow, Zenon
  <1>3. m \in List(B) /\ m \in Text(B)
    <2>1. m \in List(B)
      BY <1>1, CatLength, Zenon
    <2> HIDE DEF m
    <2> QED
      BY <2>1, JoinLaws, Zenon
  <1>4. Cat(Cat(Above(a), l), Cat(r, Below(b))) = Cat(Cat(Above(a), m), Below(b))
    <2> DEFINE u == Above(a)
               v == Below(b)
    <2>1. u \in Text(B) /\ v \in Text(B) /\ Cat(u, l) \in Text(B)
      BY <1>2, CatLength, Zenon DEF Text
    <2> HIDE DEF u, v
    <2>2. Cat(Cat(u, l), Cat(r, v)) = Cat(Cat(Cat(u, l), r), v)
      BY <1>2, <2>1, CatAssoc DEF Text
    <2>3. Cat(Cat(u, l), r) = Cat(u, m)
      BY <1>2, <2>1, CatAssoc DEF Text
    <2> QED
      BY <2>2, <2>3, Zenon DEF u, v
  <1> HIDE DEF m
  <1>5. Join(Push(a, m)) = Cat(Above(a), m) /\ Push(a, m) \in Vec(B) /\ Push(a, m) # <<>>
    BY <1>1, <1>3, AboveBelow, EndLaws DEF Vec
  <1>6. CASE b = <<>>
    <2>1. Below(b) = <<>> /\ Cat(Push(a, m), <<>>) = Push(a, m)
      BY <1>5, <1>6, CatLaws, Zenon DEF Below, Vec
    <2>2. Cat(Above(a), m) \in Text(B)
      BY <1>2, <1>3, CatLength, Zenon DEF Text
    <2>3. Cat(Cat(Above(a), m), <<>>) = Cat(Above(a), m)
      BY <2>2, CatLaws, Zenon DEF Text
    <2> QED
      BY <1>1, <1>2, <1>4, <1>5, <1>6, <2>1, <2>3, Zenon
  <1>7. CASE b # <<>>
    <2> DEFINE u == Join(Push(a, m))
               v == Join(b)
    <2>1. Join(ls) = Cat(Cat(u, Break), v)
      BY <1>1, <1>5, <1>7, JoinCat, Zenon
    <2>2. u \in Text(B) /\ v \in Text(B) /\ Break \in Text(B)
      BY <1>1, <1>5, <1>7, JoinLaws, Zenon
    <2>3. Below(b) = Cat(Break, v)
      BY <1>7, Zenon DEF Below
    <2> HIDE DEF u, v
    <2>4. Cat(Cat(u, Break), v) = Cat(u, Cat(Break, v))
      BY <2>2, CatAssoc DEF Text
    <2> QED
      BY <1>2, <1>4, <1>5, <2>1, <2>3, <2>4, Zenon DEF u
  <1> QED
    BY <1>6, <1>7, Zenon

\* Before and After, for any lines and cursor.
BeforeOf(ls, x, y) == Join(SubSeq(ls, 1, y) \o <<SubSeq(ls[y + 1], 1, x)>>)
AfterOf(ls, x, y) == Join(<<SubSeq(ls[y + 1], x + 1, Len(ls[y + 1]))>> \o SubSeq(ls, y + 2, Len(ls)))

\* They are the text that the cursor sees.
LEMMA SeenText ==
    ASSUME NEW B, NEW ls, NEW x, NEW y, NEW a, NEW l, NEW r, NEW b, View(B, ls, x, y, a, l, r, b)
    PROVE  /\ BeforeOf(ls, x, y) = Join(Push(a, l)) /\ AfterOf(ls, x, y) = Join(Cons(r, b))
           /\ Join(Push(a, l)) \in Text(B) /\ Join(Cons(r, b)) \in Text(B)
  <1>1. Pre(ls, y) = a /\ Post(ls, y + 1) = b /\ Pre(ls[y + 1], x) = l /\ Post(ls[y + 1], x) = r
        /\ y \in Nat
    BY SeenPlaced, Zenon
  <1>2. a \in Vec(B) /\ l \in List(B) /\ r \in List(B) /\ b \in Vec(B)
    BY Zenon DEF View
  <1>3. BeforeOf(ls, x, y) = Join(Cat(Pre(ls, y), <<Pre(ls[y + 1], x)>>))
    BY Zenon DEF BeforeOf, Cat, Pre
  <1>4. AfterOf(ls, x, y) = Join(Cons(Post(ls[y + 1], x), Post(ls, y + 1)))
    <2>1. (y + 1) + 1 = y + 2
      BY <1>1
    <2> QED
      BY <2>1, Zenon DEF AfterOf, Cons, Post
  <1>5. Cat(a, <<l>>) = Push(a, l)
    <2>1. <<l>> = Push(<<>>, l) /\ <<>> \in Vec(B) /\ Cat(a, <<>>) = a
      BY <1>2, EndLaws, CatLaws, Zenon DEF Vec
    <2>2. Cat(a, Push(<<>>, l)) = Push(Cat(a, <<>>), l)
      BY <1>2, <2>1, EndLaws DEF Vec
    <2> QED
      BY <2>1, <2>2, Zenon
  <1>6. Join(Push(a, l)) \in Text(B) /\ Join(Cons(r, b)) \in Text(B)
    BY <1>2, AboveBelow, Zenon
  <1> QED
    BY <1>1, <1>3, <1>4, <1>5, <1>6, Zenon

-----------------------------------------------------------------------------
\* The line and the column of the cursor, counted in the text.

\* The ends of a text.
LEMMA TextEnds ==
    ASSUME NEW S, NEW p \in List(S), NEW c \in S
    PROVE  /\ Buffer!Front(Push(p, c)) = p /\ Buffer!Last(Push(p, c)) = c
           /\ Head(Cons(c, p)) = c /\ Tail(Cons(c, p)) = p
           /\ Push(p, c) # <<>> /\ Cons(c, p) # <<>>
  <1> DEFINE q == Append(p, c)
  <1>1. p \in Seq(S)
    BY Zenon DEF List
  <1>2. q \in Seq(S) /\ Len(q) = Len(p) + 1 /\ Len(p) \in Nat /\ q[Len(p) + 1] = c
        /\ \A i \in 1 .. Len(p) : q[i] = p[i]
    BY <1>1, AppendProperties, LenProperties
  <1> HIDE DEF q
  <1>3. SubSeq(q, 1, Len(q) - 1) = p
    <2>1. Len(q) - 1 = Len(p)
      BY <1>2
    <2>2. SubSeq(q, 1, Len(p)) = p
      BY <1>1, <1>2
    <2> QED
      BY <2>1, <2>2, Zenon
  <1>4. Buffer!Front(Push(p, c)) = p /\ Buffer!Last(Push(p, c)) = c
    BY <1>2, <1>3, Zenon DEF q, Push, Buffer!Front, Buffer!Last
  <1>5. Head(<<c>> \o p) = c /\ Tail(<<c>> \o p) = p
    BY <1>1
  <1>6. Push(p, c) # <<>> /\ Cons(c, p) # <<>>
    BY EndLaws
  <1> QED
    BY <1>4, <1>5, <1>6, Zenon DEF Cons

\* Line breaks, by their places.
Breaks(s) == {i \in 1 .. Len(s) : s[i] = NL}

\* A line has none, and a line break is one more.
LEMMA BreaksGrow ==
    ASSUME NEW B, NL \notin B, NEW p \in Text(B), NEW l \in List(B)
    PROVE  /\ Breaks(Cat(p, l)) = Breaks(p)
           /\ Breaks(Push(p, NL)) = Breaks(p) \cup {Len(p) + 1} /\ Len(p) + 1 \notin Breaks(p)
  <1> DEFINE C == B \cup {NL}
  <1>1. p \in Seq(C) /\ l \in Seq(B) /\ l \in Seq(C) /\ NL \in C
    <2>1. l \in Text(B)
      BY JoinLaws, Zenon
    <2> QED
      BY <2>1, Zenon DEF Text, List
  <1>2. Len(p) \in Nat /\ Len(l) \in Nat /\ \A i \in 1 .. Len(l) : l[i] # NL
    <2>1. Len(p) \in Nat /\ Len(l) \in Nat
      BY <1>1, LenProperties, Zenon
    <2>2. \A i \in 1 .. Len(l) : l[i] \in B
      BY <1>1, ElementOfSeq, Zenon
    <2> QED
      BY <2>1, <2>2, Zenon
  <1> HIDE DEF C
  <1>3. Breaks(Cat(p, l)) = Breaks(p)
    <2> DEFINE s == p \o l
    <2>1. Len(s) = Len(p) + Len(l) /\ \A i \in 1 .. Len(p) + Len(l) :
             s[i] = IF i <= Len(p) THEN p[i] ELSE l[i - Len(p)]
      BY <1>1, ConcatProperties, Zenon
    <2> HIDE DEF s
    <2>2. ASSUME NEW i \in 1 .. Len(s) PROVE s[i] = NL <=> i \in 1 .. Len(p) /\ p[i] = NL
      <3>1. CASE i <= Len(p)
        BY <1>2, <2>1, <3>1
      <3>2. CASE i > Len(p)
        <4>1. i - Len(p) \in 1 .. Len(l) /\ ~(i <= Len(p))
          BY <1>2, <2>1, <3>2
        <4>2. s[i] = l[i - Len(p)]
          BY <1>2, <2>1, <4>1, Zenon
        <4> QED
          BY <1>2, <4>1, <4>2
      <3> QED
        BY <1>2, <2>1, <3>1, <3>2
    <2>3. \A i \in 1 .. Len(p) : i \in 1 .. Len(s)
      BY <1>2, <2>1
    <2>4. Breaks(s) = Breaks(p)
      BY <2>2, <2>3, Zenon DEF Breaks
    <2> QED
      BY <2>4, Zenon DEF s, Cat
  <1>4. Breaks(Push(p, NL)) = Breaks(p) \cup {Len(p) + 1}
    <2> DEFINE s == Append(p, NL)
    <2>1. Len(s) = Len(p) + 1 /\ s[Len(p) + 1] = NL /\ \A i \in 1 .. Len(p) : s[i] = p[i]
      BY <1>1, AppendProperties
    <2> HIDE DEF s
    <2>2. Breaks(s) = Breaks(p) \cup {Len(p) + 1}
      BY <1>2, <2>1 DEF Breaks
    <2> QED
      BY <2>2, Zenon DEF s, Push
  <1>5. Len(p) + 1 \notin Breaks(p)
    BY <1>2 DEF Breaks
  <1> QED
    BY <1>3, <1>4, <1>5, Zenon

\* Above a line that is not the first one the text ends with a line break.
LEMMA AboveEnds ==
    ASSUME NEW B, NEW a \in Vec(B), NEW l \in List(B)
    PROVE  /\ Above(Push(a, l)) = Push(Cat(Above(a), l), NL) /\ Cat(Above(a), l) \in Text(B)
           /\ Above(a) \in Text(B)
  <1> DEFINE p == Join(Push(a, l))
  <1>1. p \in Text(B) /\ p = Cat(Above(a), l) /\ Above(a) \in Text(B)
    BY AboveBelow, Zenon
  <1>2. Above(Push(a, l)) = Cat(p, Break)
    BY EndLaws DEF Above, Vec
  <1> HIDE DEF p
  <1>3. NL \in B \cup {NL}
    BY Zenon
  <1>4. Break = Push(<<>>, NL) /\ Cat(p, <<>>) = p /\ <<>> \in Text(B)
    BY <1>1, <1>3, CatLaws, EndLaws, Zenon DEF Break, Text
  <1>5. Cat(p, Push(<<>>, NL)) = Push(Cat(p, <<>>), NL)
    BY <1>1, <1>3, <1>4, EndLaws DEF Text
  <1> QED
    BY <1>1, <1>2, <1>4, <1>5, Zenon

\* There is a line break for every line above the cursor.
LEMMA AboveCounts ==
    ASSUME NEW B, NL \notin B, NEW a \in Vec(B)
    PROVE  IsFiniteSet(Breaks(Above(a))) /\ Cardinality(Breaks(Above(a))) = Len(a)
  <1> DEFINE Holds(c) == IsFiniteSet(Breaks(Above(c))) /\ Cardinality(Breaks(Above(c))) = Len(c)
             T == {n \in Nat : \E c \in Vec(B) : Len(c) = n /\ ~Holds(c)}
  <1> SUFFICES ASSUME T # {} PROVE FALSE
    <2>1. ~Holds(a) => Len(a) \in T
      BY CatLaws, Zenon DEF Vec
    <2> QED
      BY <2>1, Zenon
  <1>1. PICK n \in T : \A m \in T : n <= m
    BY LeastNumber, Zenon
  <1>2. PICK c \in Vec(B) : Len(c) = n /\ ~Holds(c)
    BY Zenon
  <1>3. CASE c = <<>>
    <2>1. Above(c) = <<>> /\ Breaks(<<>>) = {} /\ Len(c) = 0
      BY <1>3 DEF Above, Breaks
    <2> QED
      BY <1>2, <2>1, FS_EmptySet, Zenon
  <1>4. CASE c # <<>>
    <2>1. PICK q \in Vec(B), l \in List(B) : c = Push(q, l)
      BY <1>4, EndLaws DEF Vec
    <2>2. Len(c) = Len(q) + 1 /\ Len(q) \in Nat
      BY <2>1, EndLaws, CatLaws DEF Vec
    <2>3. Len(q) \notin T
      <3>1. ~(n <= Len(q))
        BY <1>2, <2>2
      <3> HIDE DEF T
      <3> QED
        BY <1>1, <3>1, Zenon
    <2>4. Holds(q)
      BY <2>2, <2>3, Zenon
    <2> DEFINE p == Cat(Above(q), l)
    <2>5. Above(c) = Push(p, NL) /\ p \in Text(B) /\ Above(q) \in Text(B)
      BY <2>1, AboveEnds, Zenon
    <2>6. Breaks(p) = Breaks(Above(q))
      BY <2>5, BreaksGrow, Zenon
    <2> HIDE DEF p
    <2>7. Breaks(Above(c)) = Breaks(p) \cup {Len(p) + 1} /\ Len(p) + 1 \notin Breaks(p)
      BY <2>5, BreaksGrow, Zenon
    <2>8. IsFiniteSet(Breaks(Above(c))) /\ Cardinality(Breaks(Above(c))) = Cardinality(Breaks(p)) + 1
      <3> DEFINE S == Breaks(p)
                 x == Len(p) + 1
      <3>1. IsFiniteSet(S)
        BY <2>4, <2>6, Zenon
      <3>2. x \notin S /\ Breaks(Above(c)) = S \cup {x}
        BY <2>7, Zenon
      <3> HIDE DEF S, x
      <3>3. IsFiniteSet(S \cup {x}) /\ Cardinality(S \cup {x}) = Cardinality(S) + 1
        BY <3>1, <3>2, FS_AddElement, Zenon
      <3> QED
        BY <3>2, <3>3, Zenon DEF S
    <2> QED
      BY <1>2, <2>2, <2>4, <2>6, <2>8, Zenon
  <1> QED
    BY <1>3, <1>4, Zenon

\* cursor_y is the line's number in the text and cursor_x its column.
LEMMA CursorPlace ==
    ASSUME NEW B, NL \notin B, NEW a \in Vec(B), NEW l \in List(B)
    PROVE  /\ Buffer!LineNumber(Join(Push(a, l))) = Len(a)
           /\ Buffer!Column(Join(Push(a, l))) = Len(l)
  <1> DEFINE p == Above(a)
             s == Cat(p, l)
             k == Len(p)
             Starts(i) == (i = 0 \/ s[i] = NL) /\ \A j \in i + 1 .. Len(s) : s[j] # NL
  <1>1. p \in Text(B) /\ Join(Push(a, l)) = s /\ l \in Text(B)
    BY AboveBelow, Zenon
  <1>2. Buffer!LineNumber(s) = Len(a)
    <2>1. Breaks(s) = Breaks(p)
      BY <1>1, BreaksGrow, Zenon
    <2>2. Cardinality(Breaks(p)) = Len(a)
      BY AboveCounts, Zenon
    <2> HIDE DEF s, p
    <2> QED
      BY <2>1, <2>2, Zenon DEF Buffer!LineNumber, Buffer!Cardinality, Cardinality, Breaks
  <1>3. k \in Nat /\ Len(l) \in Nat /\ Len(s) = k + Len(l)
    BY <1>1, CatLaws, Zenon DEF Text
  <1>4. \A i \in 1 .. k : s[i] = p[i]
    <2>1. p \in Seq(B \cup {NL}) /\ l \in Seq(B \cup {NL})
      BY <1>1, Zenon DEF Text, List
    <2> HIDE DEF p
    <2> QED
      BY <2>1, ConcatProperties DEF Cat
  <1>5. \A i \in k + 1 .. Len(s) : s[i] # NL
    <2>1. p \in Seq(B \cup {NL}) /\ l \in Seq(B \cup {NL}) /\ l \in Seq(B)
      BY <1>1, Zenon DEF Text, List
    <2> SUFFICES ASSUME NEW i \in k + 1 .. Len(s) PROVE s[i] # NL
      BY Zenon
    <2>2. i \in 1 .. k + Len(l) /\ ~(i <= k) /\ i - k \in 1 .. Len(l)
      BY <1>3
    <2>3. s[i] = l[i - k]
      <3> HIDE DEF p
      <3> QED
        BY <2>1, <2>2, ConcatProperties, Zenon DEF Cat
    <2>4. l[i - k] \in B
      BY <2>1, <2>2, ElementOfSeq, Zenon
    <2> QED
      BY <2>3, <2>4, Zenon
  <1>6. k = 0 \/ (k > 0 /\ p[k] = NL)
    <2>1. CASE a = <<>>
      BY <2>1, Zenon DEF Above
    <2>2. CASE a # <<>>
      <3>1. PICK q \in Vec(B), m \in List(B) : a = Push(q, m)
        BY <2>2, EndLaws DEF Vec
      <3> DEFINE t == Cat(Above(q), m)
      <3>2. p = Push(t, NL) /\ t \in Text(B)
        BY <3>1, AboveEnds, Zenon
      <3>3. t \in Seq(B \cup {NL})
        BY <3>2, Zenon DEF Text, List
      <3> HIDE DEF p, t
      <3>4. Len(t) \in Nat /\ Len(p) = Len(t) + 1 /\ p[Len(t) + 1] = NL
        BY <3>2, <3>3, AppendProperties, LenProperties DEF Push
      <3> QED
        BY <3>4
    <2> QED
      BY <2>1, <2>2, Zenon
  <1> HIDE DEF s, p
  <1>7. Starts(k) /\ k \in 0 .. Len(s)
    BY <1>3, <1>4, <1>5, <1>6
  <1>8. ASSUME NEW i \in 0 .. Len(s), Starts(i) PROVE i = k
    BY <1>3, <1>4, <1>5, <1>6, <1>8
  <1> DEFINE C == CHOOSE i \in 0 .. Len(s) : Starts(i)
  <1>9. C = k
    BY <1>7, <1>8, Zenon
  <1>10. Buffer!Column(s) = Len(s) - C
    BY Zenon DEF Buffer!Column
  <1> HIDE DEF C
  <1>11. Buffer!Column(s) = Len(l)
    BY <1>3, <1>9, <1>10
  <1> QED
    BY <1>1, <1>2, <1>11, Zenon

-----------------------------------------------------------------------------
\* str::lines.

\* The pieces before the first character, and what a character does to them.
Start == [done |-> <<>>, rest |-> <<>>]
Turn(p, c) == IF c # NL THEN [p EXCEPT !.rest = Append(@, c)]
              ELSE [done |-> Append(p.done, p.rest), rest |-> <<>>]

\* The pieces after each of the first n characters.
Upto(text, n) ==
    LET upto[i \in 0 .. n] == IF i = 0 THEN Start ELSE Turn(upto[i - 1], text[i])
    IN  upto

\* The loop of lines has a result after every turn.
LEMMA UptoExists ==
    ASSUME NEW text, NEW n \in Nat
    PROVE  \E g : g = [i \in 0 .. n |-> IF i = 0 THEN Start ELSE Turn(g[i - 1], text[i])]
  <1> DEFINE T == {m \in Nat : ~\E g : g = [i \in 0 .. m |-> IF i = 0 THEN Start
                                                             ELSE Turn(g[i - 1], text[i])]}
  <1>1. SUFFICES ASSUME T # {} PROVE FALSE
    BY Zenon
  <1>2. PICK m \in T : \A k \in T : m <= k
    BY <1>1, LeastNumber, Zenon
  <1>3. CASE m = 0
    <2> DEFINE g == [i \in 0 .. m |-> Start]
    <2>1. g = [i \in 0 .. m |-> IF i = 0 THEN Start ELSE Turn(g[i - 1], text[i])]
      BY <1>3
    <2> QED
      BY <1>2, <2>1, Zenon
  <1>4. CASE m # 0
    <2>1. m - 1 \in Nat /\ m - 1 \notin T
      <3>1. m \in Nat
        BY Zenon
      <3> HIDE DEF T
      <3> QED
        BY <1>2, <1>4, <3>1
    <2>2. PICK g : g = [i \in 0 .. m - 1 |-> IF i = 0 THEN Start ELSE Turn(g[i - 1], text[i])]
      BY <2>1, Zenon
    <2> DEFINE h == [i \in 0 .. m |-> IF i < m THEN g[i] ELSE Turn(g[i - 1], text[i])]
    <2>3. ASSUME NEW i \in 0 .. m PROVE h[i] = IF i = 0 THEN Start ELSE Turn(h[i - 1], text[i])
      <3>1. i # 0 => i - 1 \in 0 .. m - 1 /\ h[i - 1] = g[i - 1]
        OBVIOUS
      <3>2. CASE i = m
        BY <1>4, <3>1, <3>2
      <3>3. CASE i # m
        <4>1. i \in 0 .. m - 1 /\ h[i] = g[i]
          BY <3>3
        <4>2. g[i] = IF i = 0 THEN Start ELSE Turn(g[i - 1], text[i])
          BY <2>2, <4>1, Zenon
        <4> HIDE DEF h
        <4> QED
          BY <3>1, <4>1, <4>2, Zenon
      <3> QED
        BY <3>2, <3>3, Zenon
    <2>4. h = [i \in 0 .. m |-> IF i = 0 THEN Start ELSE Turn(h[i - 1], text[i])]
      <3>1. h = [i \in 0 .. m |-> h[i]]
        BY Zenon
      <3> HIDE DEF h
      <3> QED
        BY <2>3, <3>1, Zenon
    <2> HIDE DEF h
    <2> QED
      BY <1>2, <2>4, Zenon
  <1> QED
    BY <1>3, <1>4, Zenon

\* What each turn of the loop does.
LEMMA UptoTurns ==
    ASSUME NEW text, NEW n \in Nat
    PROVE  /\ Upto(text, n)[0] = Start
           /\ \A i \in 1 .. n : Upto(text, n)[i] = Turn(Upto(text, n)[i - 1], text[i])
  <1> DEFINE Step(g) == [i \in 0 .. n |-> IF i = 0 THEN Start ELSE Turn(g[i - 1], text[i])]
             w == CHOOSE g : g = Step(g)
  <1>1. Upto(text, n) = w
    BY Zenon DEF Upto
  <1>2. \E g : g = Step(g)
    BY UptoExists, Zenon
  <1>3. w = Step(w)
    BY <1>2, Zenon
  <1> HIDE DEF w
  <1>4. \A i \in 0 .. n : w[i] = IF i = 0 THEN Start ELSE Turn(w[i - 1], text[i])
    BY <1>3, Zenon
  <1>5. 0 \in 0 .. n /\ \A i \in 1 .. n : i \in 0 .. n /\ i # 0
    OBVIOUS
  <1>6. w[0] = Start
    BY <1>4, <1>5, Zenon
  <1>7. \A i \in 1 .. n : w[i] = Turn(w[i - 1], text[i])
    BY <1>4, <1>5, Zenon
  <1> QED
    BY <1>1, <1>6, <1>7, Zenon

\* The pieces hold all that the loop has come to: p is p.done, each line with its
\* line break, and p.rest.
Holding(B, p, t) ==
    \E a \in Vec(B), l \in List(B) :
        p = [done |-> a, rest |-> l] /\ Cat(Above(a), l) = t

\* A turn adds its character to them.
LEMMA TurnHolds ==
    ASSUME NEW B, NL \notin B, NEW p, NEW t, Holding(B, p, t), NEW c \in B \cup {NL}
    PROVE  Holding(B, Turn(p, c), Push(t, c))
  <1>1. PICK a \in Vec(B), l \in List(B) : p = [done |-> a, rest |-> l] /\ Cat(Above(a), l) = t
    BY Zenon DEF Holding
  <1>2. Above(a) \in Text(B) /\ t \in Text(B) /\ Above(Push(a, l)) = Push(t, NL) /\ l \in Text(B)
    BY <1>1, AboveEnds, AboveBelow, Zenon
  <1>3. CASE c # NL
    <2>1. Push(l, c) \in List(B) /\ Cat(Above(a), Push(l, c)) = Push(Cat(Above(a), l), c)
      BY <1>2, <1>3, EndLaws DEF Text
    <2>2. Turn(p, c) = [done |-> a, rest |-> Push(l, c)]
      BY <1>1, <1>3, Zenon DEF Turn, Push
    <2> QED
      BY <1>1, <2>1, <2>2, Zenon DEF Holding
  <1>4. CASE c = NL
    <2>1. Turn(p, c) = [done |-> Push(a, l), rest |-> <<>>]
      BY <1>1, <1>4, Zenon DEF Turn, Push
    <2>2. Push(a, l) \in Vec(B) /\ <<>> \in List(B) /\ Push(t, NL) \in Text(B)
      BY <1>2, EndLaws, CatLaws, Zenon DEF Vec, Text
    <2>3. Cat(Push(t, NL), <<>>) = Push(t, NL)
      BY <2>2, CatLaws, Zenon DEF Text
    <2> QED
      BY <1>2, <1>4, <2>1, <2>2, <2>3, Zenon DEF Holding
  <1> QED
    BY <1>3, <1>4, Zenon

\* The text up to a character, by the character.
LEMMA PreGrows ==
    ASSUME NEW S, NEW s \in List(S)
    PROVE  /\ Pre(s, 0) = <<>> /\ Pre(s, Len(s)) = s
           /\ \A i \in 1 .. Len(s) : Pre(s, i) = Push(Pre(s, i - 1), s[i]) /\ s[i] \in S
  <1>1. s \in Seq(S)
    BY Zenon DEF List
  <1>2. SubSeq(s, 1, 0) = <<>> /\ SubSeq(s, 1, Len(s)) = s
    BY <1>1
  <1>3. ASSUME NEW i \in 1 .. Len(s)
        PROVE  SubSeq(s, 1, i) = Append(SubSeq(s, 1, i - 1), s[i]) /\ s[i] \in S
    BY <1>1
  <1> QED
    BY <1>2, <1>3, Zenon DEF Pre, Push

\* After every turn the pieces hold the text so far.
LEMMA UptoHolds ==
    ASSUME NEW B, NL \notin B, NEW text \in Text(B), NEW n \in 0 .. Len(text)
    PROVE  Holding(B, Upto(text, Len(text))[n], Pre(text, n))
  <1> DEFINE u == Upto(text, Len(text))
             T == {i \in 0 .. Len(text) : ~Holding(B, u[i], Pre(text, i))}
  <1> SUFFICES ASSUME T # {} PROVE FALSE
    BY Zenon
  <1>1. Len(text) \in Nat
    BY CatLaws, Zenon DEF Text
  <1>2. PICK i \in T : \A j \in T : i <= j
    <2>1. T \in SUBSET Nat
      BY <1>1
    <2> QED
      BY <2>1, LeastNumber, Zenon
  <1>3. u[0] = Start /\ \A j \in 1 .. Len(text) : u[j] = Turn(u[j - 1], text[j])
    BY <1>1, UptoTurns, Zenon
  <1> HIDE DEF u
  <1>4. Holding(B, u[0], Pre(text, 0))
    <2>1. <<>> \in Vec(B) /\ <<>> \in List(B) /\ Pre(text, 0) = <<>>
      BY CatLaws, PreGrows, Zenon DEF Vec, Text
    <2>2. Cat(Above(<<>>), <<>>) = <<>>
      BY <2>1, CatLaws, Zenon DEF Above
    <2> QED
      BY <1>3, <2>1, <2>2, Zenon DEF Holding, Start
  <1>5. CASE i # 0
    <2>1. i \in 1 .. Len(text) /\ i - 1 \in 0 .. Len(text) /\ i - 1 \notin T
      <3>1. i \in 0 .. Len(text)
        BY Zenon
      <3> HIDE DEF T
      <3> QED
        BY <1>1, <1>2, <1>5, <3>1
    <2>2. Holding(B, u[i - 1], Pre(text, i - 1))
      BY <2>1, Zenon
    <2>3. Pre(text, i) = Push(Pre(text, i - 1), text[i]) /\ text[i] \in B \cup {NL}
      BY <2>1, PreGrows, Zenon DEF Text
    <2>4. Holding(B, Turn(u[i - 1], text[i]), Push(Pre(text, i - 1), text[i]))
      BY <2>2, <2>3, TurnHolds, Zenon
    <2> QED
      BY <1>2, <1>3, <2>1, <2>3, <2>4, Zenon
  <1> QED
    BY <1>2, <1>4, <1>5, Zenon

\* The lines of a text are the text, but for a line break at its end.
LEMMA LinesOfText ==
    ASSUME NEW B, NL \notin B, NEW text \in Text(B)
    PROVE  /\ Lines(text) \in Vec(B)
           /\ Lines(text) = <<>> => text = <<>>
           /\ Lines(text) # <<>> => Join(Lines(text)) = text \/ Push(Join(Lines(text)), NL) = text
  <1> DEFINE all == Upto(text, Len(text))[Len(text)]
  <1>1. Lines(text) = IF all.rest = <<>> THEN all.done ELSE Append(all.done, all.rest)
    BY Zenon DEF Lines, Upto, Turn, Start
  <1>2. Len(text) \in Nat /\ Pre(text, Len(text)) = text
    BY CatLaws, PreGrows, Zenon DEF Text
  <1>3. Holding(B, all, text)
    <2>1. Len(text) \in 0 .. Len(text)
      BY <1>2
    <2> QED
      BY <1>2, <2>1, UptoHolds, Zenon
  <1> HIDE DEF all
  <1>4. PICK a \in Vec(B), l \in List(B) : all = [done |-> a, rest |-> l] /\ Cat(Above(a), l) = text
    BY <1>3, Zenon DEF Holding
  <1>5. Lines(text) = IF l = <<>> THEN a ELSE Push(a, l)
    BY <1>1, <1>4, Zenon DEF Push
  <1>6. CASE l # <<>>
    <2>1. Push(a, l) \in Vec(B) /\ Push(a, l) # <<>>
      BY EndLaws DEF Vec
    <2>2. Join(Push(a, l)) = Cat(Above(a), l)
      BY AboveBelow, Zenon
    <2> QED
      BY <1>4, <1>5, <1>6, <2>1, <2>2, Zenon
  <1>7. CASE l = <<>> /\ a = <<>>
    <2>1. Cat(<<>>, <<>>) = <<>>
      BY CatLaws, Zenon
    <2> QED
      BY <1>4, <1>5, <1>7, <2>1, Zenon DEF Above
  <1>8. CASE l = <<>> /\ a # <<>>
    <2>1. PICK q \in Vec(B), m \in List(B) : a = Push(q, m)
      BY <1>8, EndLaws DEF Vec
    <2>2. Above(a) = Push(Cat(Above(q), m), NL) /\ Join(a) = Cat(Above(q), m)
      BY <2>1, AboveEnds, AboveBelow, Zenon
    <2>3. Cat(Above(a), <<>>) = Above(a)
      <3>1. Above(a) \in Text(B)
        BY AboveBelow, <2>1, AboveEnds, Zenon
      <3> QED
        BY <3>1, CatLaws, Zenon DEF Text
    <2> QED
      BY <1>4, <1>5, <1>8, <2>2, <2>3
  <1> QED
    BY <1>6, <1>7, <1>8, Zenon

-----------------------------------------------------------------------------
\* The keys.  B stands for the bytes of the lines: Bytes, or Chars in a file that
\* has only these.

\* The text on either side of the cursor, before and after a step.
LEMMA StateText ==
    /\ Before = BeforeOf(lines, cursor_x, cursor_y) /\ After = AfterOf(lines, cursor_x, cursor_y)
    /\ Before' = BeforeOf(lines', cursor_x', cursor_y')
    /\ After' = AfterOf(lines', cursor_x', cursor_y')
  BY Zenon DEF Before, After, BeforeOf, AfterOf, Line

\* What a cursor that sees (a, l, r, b) has before and after it.
LEMMA TextSeen ==
    ASSUME NEW B, NEW a, NEW l, NEW r, NEW b
    PROVE  /\ View(B, lines, cursor_x, cursor_y, a, l, r, b) =>
                /\ Placed(B, lines, cursor_x, cursor_y)
                /\ Before = Join(Push(a, l)) /\ After = Join(Cons(r, b))
                /\ Before \in Text(B) /\ After \in Text(B)
           /\ View(B, lines', cursor_x', cursor_y', a, l, r, b) =>
                /\ Placed(B, lines', cursor_x', cursor_y')
                /\ Before' = Join(Push(a, l)) /\ After' = Join(Cons(r, b))
                /\ Before' \in Text(B) /\ After' \in Text(B)
  <1>1. ASSUME View(B, lines, cursor_x, cursor_y, a, l, r, b)
        PROVE  /\ Placed(B, lines, cursor_x, cursor_y)
               /\ Before = Join(Push(a, l)) /\ After = Join(Cons(r, b))
               /\ Before \in Text(B) /\ After \in Text(B)
    BY <1>1, SeenPlaced, SeenText, StateText
  <1>2. ASSUME View(B, lines', cursor_x', cursor_y', a, l, r, b)
        PROVE  /\ Placed(B, lines', cursor_x', cursor_y')
               /\ Before' = Join(Push(a, l)) /\ After' = Join(Cons(r, b))
               /\ Before' \in Text(B) /\ After' \in Text(B)
    BY <1>2, SeenPlaced, SeenText, StateText
  <1> QED
    BY <1>1, <1>2, Zenon

\* insert_char puts its character before the cursor.
LEMMA InsertStep ==
    ASSUME NEW B, NEW c \in B, Placed(B, lines, cursor_x, cursor_y), insert_char(c), mode' # "panic"
    PROVE  /\ Placed(B, lines', cursor_x', cursor_y')
           /\ Before' = Push(Before, c) /\ After' = After
  <1>1. PICK a, b \in Vec(B), l, r \in List(B) : View(B, lines, cursor_x, cursor_y, a, l, r, b)
    BY PlacedSees, Zenon
  <1>2. /\ lines' = Put(lines, cursor_y + 1, InsertAt(lines[cursor_y + 1], cursor_x + 1, c))
        /\ cursor_x' = cursor_x + 1 /\ cursor_y' = cursor_y
    BY SMTT(30) DEF insert_char, Line, Put, Panic
  <1>3. View(B, lines', cursor_x', cursor_y', a, Push(l, c), r, b)
    BY <1>1, <1>2, TypedView, Zenon
  <1>4. Join(Push(a, Push(l, c))) = Push(Join(Push(a, l)), c)
    BY TextLaws
  <1> QED
    BY <1>1, <1>3, <1>4, TextSeen

\* insert_newline puts a line break before the cursor.
LEMMA NewlineStep ==
    ASSUME NEW B, Placed(B, lines, cursor_x, cursor_y), insert_newline, mode' # "panic"
    PROVE  /\ Placed(B, lines', cursor_x', cursor_y')
           /\ Before' = Push(Before, NL) /\ After' = After
  <1>1. PICK a, b \in Vec(B), l, r \in List(B) : View(B, lines, cursor_x, cursor_y, a, l, r, b)
    BY PlacedSees, Zenon
  <1>2. /\ lines' = InsertAt(Put(lines, cursor_y + 1, Pre(lines[cursor_y + 1], cursor_x)),
                             cursor_y + 2, Post(lines[cursor_y + 1], cursor_x))
        /\ cursor_x' = 0 /\ cursor_y' = cursor_y + 1
    BY Zenon DEF insert_newline, Line, Put, Pre, Post, Panic
  <1>3. View(B, lines', cursor_x', cursor_y', Push(a, l), <<>>, r, b)
    BY <1>1, <1>2, BrokenView, Zenon
  <1>4. Join(Push(Push(a, l), <<>>)) = Push(Join(Push(a, l)), NL)
    BY TextLaws, Zenon
  <1> QED
    BY <1>1, <1>3, <1>4, TextSeen

\* The text is the same, cursor included.
SameText == Before' = Before /\ After' = After

\* What is cut from a list is a list, wherever it is cut.
LEMMA PostTyped ==
    ASSUME NEW S, NEW s \in List(S), NEW i \in Nat
    PROVE  Post(s, i) \in List(S)
  <1>1. s \in Seq(S) /\ Len(s) \in Nat
    BY LenProperties, Zenon DEF List
  <1>2. \A j \in i + 1 .. Len(s) : s[j] \in S
    BY <1>1
  <1>3. SubSeq(s, i + 1, Len(s)) \in Seq(S)
    BY <1>1, <1>2, SubSeqProperties
  <1> QED
    BY <1>3, Zenon DEF Post, List

\* backspace takes out the character or the line break before the cursor; of a
\* character of two bytes, both.
LEMMA BackspaceStep ==
    ASSUME NEW B, Placed(B, lines, cursor_x, cursor_y), backspace, mode' # "panic"
    PROVE  /\ Placed(B, lines', cursor_x', cursor_y') /\ Before' \in Text(B)
           /\ Lead \notin B => \/ SameText
                               \/ \E c \in B \cup {NL} : Before = Push(Before', c) /\ After' = After
  <1>1. PICK a, b \in Vec(B), l, r \in List(B) : View(B, lines, cursor_x, cursor_y, a, l, r, b)
    BY PlacedSees, Zenon
  <1>2. cursor_x = Len(l) /\ cursor_y = Len(a) /\ cursor_x \in Nat /\ cursor_y \in Nat
    BY <1>1, SeenPlaced DEF View
  <1>3. CASE l # <<>>
    <2> DEFINE m == lines[cursor_y + 1]
    <2>1. PICK k \in List(B), c \in B : l = Push(k, c)
      BY <1>3, EndLaws
    <2>2. m[cursor_x] = c /\ cursor_x > 0
      BY <1>1, <2>1, ErasedView
    <2> DEFINE s == IF c = Lead THEN Post(m, cursor_x + 1) ELSE Post(m, cursor_x)
    <2>3. m \in List(B) /\ Post(m, cursor_x) = r
      BY <1>1, SeenPlaced
    <2>4. s \in List(B)
      BY <1>2, <2>3, PostTyped
    <2>5. /\ lines' = Put(lines, cursor_y + 1, Cat(Pre(m, cursor_x - 1), s))
          /\ cursor_x' = cursor_x - 1 /\ cursor_y' = cursor_y
      <3>1. /\ lines' = [lines EXCEPT ![cursor_y + 1] = SubSeq(m, 1, cursor_x - 1)
                           \o SubSeq(m, cursor_x + (IF m[cursor_x] = Lead THEN 2 ELSE 1), Len(m))]
            /\ cursor_x' = cursor_x - 1 /\ cursor_y' = cursor_y
        BY <2>2, Zenon DEF backspace, Line, Panic
      <3>2. SubSeq(m, cursor_x + (IF m[cursor_x] = Lead THEN 2 ELSE 1), Len(m)) = s
        <4>1. CASE c = Lead
          <5>1. (cursor_x + 1) + 1 = cursor_x + 2
            BY <1>2
          <5> QED
            BY <2>2, <4>1, <5>1, Zenon DEF Post
        <4>2. CASE c # Lead
          BY <2>2, <4>2, Zenon DEF Post
        <4> QED
          BY <4>1, <4>2, Zenon
      <3> HIDE DEF s, m
      <3> QED
        BY <3>1, <3>2, Zenon DEF Put, Cat, Pre
    <2>6. View(B, lines', cursor_x', cursor_y', a, k, s, b)
      <3> HIDE DEF s
      <3> QED
        BY <1>1, <2>1, <2>4, <2>5, ErasedView, Zenon
    <2>7. Join(Push(a, Push(k, c))) = Push(Join(Push(a, k)), c)
      BY TextLaws
    <2>8. Lead \notin B => s = r
      BY <2>3, Zenon
    <2> HIDE DEF s, m
    <2>9. /\ Placed(B, lines', cursor_x', cursor_y') /\ Before' \in Text(B)
          /\ Before = Join(Push(a, l)) /\ After = Join(Cons(r, b))
          /\ Before' = Join(Push(a, k)) /\ After' = Join(Cons(s, b))
      BY <1>1, <2>6, TextSeen, Zenon
    <2> QED
      BY <2>1, <2>7, <2>8, <2>9, Zenon
  <1>4. CASE l = <<>> /\ a # <<>>
    <2>1. PICK h \in Vec(B), k \in List(B) : a = Push(h, k)
      BY <1>4, EndLaws DEF Vec
    <2> DEFINE ms == RemoveAt(Put(lines, cursor_y, Cat(lines[cursor_y], lines[cursor_y + 1])),
                              cursor_y + 1)
    <2>2. /\ cursor_y > 0 /\ cursor_x = 0
          /\ View(B, ms, Len(lines[cursor_y]), cursor_y - 1, h, k, r, b)
      BY <1>1, <1>4, <2>1, LineAboveView
    <2>3. lines' = ms /\ cursor_y' = cursor_y - 1 /\ cursor_x' = Len(lines[cursor_y])
      BY <2>2 DEF backspace, Line, Put, Cat
    <2> HIDE DEF ms
    <2>4. View(B, lines', cursor_x', cursor_y', h, k, r, b)
      BY <2>2, <2>3, Zenon
    <2>5. Join(Push(Push(h, k), <<>>)) = Push(Join(Push(h, k)), NL)
      BY TextLaws, Zenon
    <2>6. /\ Placed(B, lines', cursor_x', cursor_y') /\ Before' \in Text(B)
          /\ Before = Join(Push(a, l)) /\ After = Join(Cons(r, b))
          /\ Before' = Join(Push(h, k)) /\ After' = Join(Cons(r, b))
      BY <1>1, <2>4, TextSeen, Zenon
    <2> QED
      BY <1>4, <2>1, <2>5, <2>6, Zenon
  <1>5. CASE l = <<>> /\ a = <<>>
    <2>1. cursor_x = 0 /\ cursor_y = 0
      BY <1>2, <1>5, Zenon
    <2>2. lines' = lines /\ cursor_x' = cursor_x /\ cursor_y' = cursor_y
      BY <2>1 DEF backspace
    <2>3. View(B, lines', cursor_x', cursor_y', a, l, r, b)
      BY <1>1, <2>2, Zenon
    <2>4. SameText /\ Before' \in Text(B)
      BY <1>1, <2>3, TextSeen DEF SameText
    <2> QED
      BY <1>1, <2>2, <2>4, Zenon
  <1> QED
    BY <1>3, <1>4, <1>5, Zenon

\* move_cursor_left goes over the character or the line break before the cursor.
LEMMA LeftStep ==
    ASSUME NEW B, Placed(B, lines, cursor_x, cursor_y), move_cursor_left
    PROVE  /\ Placed(B, lines', cursor_x', cursor_y') /\ Before' \in Text(B)
           /\ \/ SameText
              \/ \E c \in B \cup {NL} : Before = Push(Before', c) /\ After' = Cons(c, After)
  <1>1. PICK a, b \in Vec(B), l, r \in List(B) : View(B, lines, cursor_x, cursor_y, a, l, r, b)
    BY PlacedSees, Zenon
  <1>2. cursor_x = Len(l) /\ cursor_y = Len(a) /\ cursor_x \in Nat /\ cursor_y \in Nat
    BY <1>1, SeenPlaced DEF View
  <1>3. CASE l # <<>>
    <2>1. PICK k \in List(B), c \in B : l = Push(k, c)
      BY <1>3, EndLaws
    <2>2. cursor_x > 0
      BY <1>2, <2>1, EndLaws, CatLaws
    <2>3. lines' = lines /\ cursor_x' = cursor_x - 1 /\ cursor_y' = cursor_y
      BY <2>2, Zenon DEF move_cursor_left
    <2>4. View(B, lines', cursor_x', cursor_y', a, k, Cons(c, r), b)
      BY <1>1, <2>1, <2>3, LeftView, Zenon
    <2>5. /\ Join(Push(a, Push(k, c))) = Push(Join(Push(a, k)), c)
          /\ Join(Cons(Cons(c, r), b)) = Cons(c, Join(Cons(r, b)))
      BY TextLaws
    <2>6. /\ Placed(B, lines', cursor_x', cursor_y') /\ Before' \in Text(B)
          /\ Before = Join(Push(a, l)) /\ After = Join(Cons(r, b))
          /\ Before' = Join(Push(a, k)) /\ After' = Join(Cons(Cons(c, r), b))
      BY <1>1, <2>4, TextSeen, Zenon
    <2> QED
      BY <2>1, <2>5, <2>6, Zenon
  <1>4. CASE l = <<>> /\ a # <<>>
    <2>1. PICK h \in Vec(B), k \in List(B) : a = Push(h, k)
      BY <1>4, EndLaws DEF Vec
    <2>2. /\ cursor_y > 0 /\ cursor_x = 0
          /\ View(B, lines, Len(lines[cursor_y]), cursor_y - 1, h, k, <<>>, Cons(r, b))
      BY <1>1, <1>4, <2>1, LineAboveView
    <2>3. lines' = lines /\ cursor_y' = cursor_y - 1 /\ cursor_x' = Len(lines[cursor_y])
      BY <2>2 DEF move_cursor_left
    <2>4. View(B, lines', cursor_x', cursor_y', h, k, <<>>, Cons(r, b))
      BY <2>2, <2>3, Zenon
    <2>5. /\ Join(Push(Push(h, k), <<>>)) = Push(Join(Push(h, k)), NL)
          /\ Join(Cons(<<>>, Cons(r, b))) = Cons(NL, Join(Cons(r, b)))
      BY TextLaws, Zenon
    <2>6. /\ Placed(B, lines', cursor_x', cursor_y') /\ Before' \in Text(B)
          /\ Before = Join(Push(a, l)) /\ After = Join(Cons(r, b))
          /\ Before' = Join(Push(h, k)) /\ After' = Join(Cons(<<>>, Cons(r, b)))
      BY <1>1, <2>4, TextSeen, Zenon
    <2> QED
      BY <1>4, <2>1, <2>5, <2>6, Zenon
  <1>5. CASE l = <<>> /\ a = <<>>
    <2>1. cursor_x = 0 /\ cursor_y = 0
      BY <1>2, <1>5, Zenon
    <2>2. lines' = lines /\ cursor_x' = cursor_x /\ cursor_y' = cursor_y
      BY <2>1 DEF move_cursor_left
    <2>3. View(B, lines', cursor_x', cursor_y', a, l, r, b)
      BY <1>1, <2>2, Zenon
    <2>4. SameText /\ Before' \in Text(B)
      BY <1>1, <2>3, TextSeen DEF SameText
    <2> QED
      BY <1>1, <2>2, <2>4, Zenon
  <1> QED
    BY <1>3, <1>4, <1>5, Zenon

\* move_cursor_right goes over the character or the line break after the cursor.
LEMMA RightStep ==
    ASSUME NEW B, Placed(B, lines, cursor_x, cursor_y), move_cursor_right
    PROVE  /\ Placed(B, lines', cursor_x', cursor_y') /\ After' \in Text(B)
           /\ \/ SameText
              \/ \E c \in B \cup {NL} : Before' = Push(Before, c) /\ After = Cons(c, After')
  <1>1. PICK a, b \in Vec(B), l, r \in List(B) : View(B, lines, cursor_x, cursor_y, a, l, r, b)
    BY PlacedSees, Zenon
  <1>2. /\ Len(Line) = cursor_x + Len(r) /\ Len(lines) = cursor_y + 1 + Len(b)
        /\ cursor_x \in Nat /\ cursor_y \in Nat /\ Len(r) \in Nat /\ Len(b) \in Nat
    BY <1>1, SeenPlaced DEF Line
  <1>3. CASE r # <<>>
    <2>1. PICK s \in List(B), c \in B : r = Cons(c, s)
      BY <1>3, EndLaws
    <2>2. cursor_x < Len(Line)
      <3>1. Len(r) # 0
        BY <1>3, CatLaws, Zenon
      <3> QED
        BY <1>2, <3>1
    <2>3. lines' = lines /\ cursor_x' = cursor_x + 1 /\ cursor_y' = cursor_y
      BY <2>2, Zenon DEF move_cursor_right
    <2>4. View(B, lines', cursor_x', cursor_y', a, Push(l, c), s, b)
      BY <1>1, <2>1, <2>3, RightView, Zenon
    <2>5. /\ Join(Push(a, Push(l, c))) = Push(Join(Push(a, l)), c)
          /\ Join(Cons(Cons(c, s), b)) = Cons(c, Join(Cons(s, b)))
      BY TextLaws
    <2>6. /\ Placed(B, lines', cursor_x', cursor_y') /\ After' \in Text(B)
          /\ Before = Join(Push(a, l)) /\ After = Join(Cons(r, b))
          /\ Before' = Join(Push(a, Push(l, c))) /\ After' = Join(Cons(s, b))
      BY <1>1, <2>4, TextSeen, Zenon
    <2> QED
      BY <2>1, <2>5, <2>6, Zenon
  <1>4. CASE r = <<>> /\ b # <<>>
    <2>1. PICK k \in List(B), d \in Vec(B) : b = Cons(k, d)
      BY <1>4, EndLaws DEF Vec
    <2>2. ~(cursor_x < Len(Line)) /\ cursor_y < Len(lines) - 1
      <3>1. Len(b) # 0 /\ Len(r) = 0
        BY <1>4, CatLaws, Zenon DEF Vec
      <3> QED
        BY <1>2, <3>1
    <2>3. lines' = lines /\ cursor_y' = cursor_y + 1 /\ cursor_x' = 0
      BY <2>2, Zenon DEF move_cursor_right
    <2>4. View(B, lines', cursor_x', cursor_y', Push(a, l), <<>>, k, d)
      BY <1>1, <1>4, <2>1, <2>3, LineBelowView, Zenon
    <2>5. /\ Join(Push(Push(a, l), <<>>)) = Push(Join(Push(a, l)), NL)
          /\ Join(Cons(<<>>, Cons(k, d))) = Cons(NL, Join(Cons(k, d)))
      BY TextLaws, Zenon
    <2>6. /\ Placed(B, lines', cursor_x', cursor_y') /\ After' \in Text(B)
          /\ Before = Join(Push(a, l)) /\ After = Join(Cons(r, b))
          /\ Before' = Join(Push(Push(a, l), <<>>)) /\ After' = Join(Cons(k, d))
      BY <1>1, <2>4, TextSeen, Zenon
    <2> QED
      BY <1>4, <2>1, <2>5, <2>6, Zenon
  <1>5. CASE r = <<>> /\ b = <<>>
    <2>1. ~(cursor_x < Len(Line)) /\ ~(cursor_y < Len(lines) - 1)
      <3>1. Len(b) = 0 /\ Len(r) = 0
        BY <1>5, CatLaws, Zenon
      <3> QED
        BY <1>2, <3>1
    <2>2. lines' = lines /\ cursor_x' = cursor_x /\ cursor_y' = cursor_y
      BY <2>1, Zenon DEF move_cursor_right
    <2>3. View(B, lines', cursor_x', cursor_y', a, l, r, b)
      BY <1>1, <2>2, Zenon
    <2>4. SameText /\ After' \in Text(B)
      BY <1>1, <2>3, TextSeen DEF SameText
    <2> QED
      BY <1>1, <2>2, <2>4, Zenon
  <1> QED
    BY <1>3, <1>4, <1>5, Zenon

\* After the end of a line comes a line break, or nothing.
LEMMA AfterLineEnd ==
    ASSUME NEW B, NEW b \in Vec(B)
    PROVE  Join(Cons(<<>>, b)) = <<>> \/ Head(Join(Cons(<<>>, b))) = NL
  <1>1. <<>> \in List(B) /\ Cat(<<>>, <<>>) = <<>>
    BY CatLaws, Zenon
  <1>2. CASE b = <<>>
    <2>1. Join(Cons(<<>>, b)) = Cat(<<>>, Below(b))
      BY <1>1, AboveBelow, Zenon
    <2> QED
      BY <1>1, <1>2, <2>1, Zenon DEF Below
  <1>3. CASE b # <<>>
    <2>1. PICK k \in List(B), d \in Vec(B) : b = Cons(k, d)
      BY <1>3, EndLaws DEF Vec
    <2> DEFINE n == Join(Cons(k, d))
    <2>2. Join(Cons(<<>>, Cons(k, d))) = Cons(NL, n)
      BY TextLaws, Zenon
    <2>3. n \in List(B \cup {NL}) /\ NL \in B \cup {NL}
      BY AboveBelow, Zenon DEF Text
    <2> HIDE DEF n
    <2>4. Head(Cons(NL, n)) = NL
      BY <2>3, TextEnds, Zenon
    <2> QED
      BY <2>1, <2>2, <2>4, Zenon
  <1> QED
    BY <1>2, <1>3, Zenon

\* What Up and Down promise, as TextBuffer says it.
OneLineAway ==
    /\ Cat(Before', After') = Cat(Before, After)
    /\ Buffer!LineNumber(Before') - Buffer!LineNumber(Before) \in {-1, 1}
    /\ Buffer!Column(Before') <= Buffer!Column(Before)
    /\ \/ Buffer!Column(Before') = Buffer!Column(Before)
       \/ After' = <<>> \/ Head(After') = NL

\* A move to another line keeps the column or stops at the line's end.
LEMMA ClampedStep ==
    ASSUME NEW B, NL \notin B, Placed(B, lines, cursor_x, cursor_y), NEW y \in 0 .. Len(lines) - 1,
           y = cursor_y - 1 \/ y = cursor_y + 1, ClampedMove(y), lines' = lines
    PROVE  Placed(B, lines', cursor_x', cursor_y') /\ OneLineAway
  <1> DEFINE m == lines[y + 1]
  <1>1. PICK a, b \in Vec(B), l, r \in List(B) : View(B, lines, cursor_x, cursor_y, a, l, r, b)
    BY PlacedSees, Zenon
  <1>2. cursor_x \in Nat /\ cursor_y \in Nat /\ cursor_x = Len(l) /\ cursor_y = Len(a)
    BY <1>1, SeenPlaced DEF View
  <1>3. lines \in Vec(B) /\ m \in List(B) /\ Len(m) \in Nat
    <2>1. lines \in Vec(B)
      BY Zenon DEF Placed
    <2>2. lines \in Seq(List(B)) /\ y + 1 \in 1 .. Len(lines)
      <3>1. Len(lines) \in Nat
        BY <2>1, CatLaws, Zenon DEF Vec
      <3> QED
        BY <2>1, <3>1 DEF Vec, List
    <2>3. m \in List(B)
      BY <2>2, ElementOfSeq, Zenon
    <2> QED
      BY <2>1, <2>3, CatLaws, Zenon
  <1>4. /\ cursor_y' = y /\ cursor_x' \in 0 .. Len(m) /\ cursor_x' <= cursor_x
        /\ cursor_x' = cursor_x \/ cursor_x' = Len(m)
    <2>1. cursor_y' = y /\ cursor_x' = IF cursor_x > Len(m) THEN Len(m) ELSE cursor_x
      BY Zenon DEF ClampedMove
    <2> HIDE DEF m
    <2> QED
      BY <1>2, <1>3, <2>1
  <1>5. Placed(B, lines', cursor_x', cursor_y')
    BY <1>3, <1>4, Zenon DEF Placed
  <1>6. PICK c, d \in Vec(B), k, s \in List(B) : View(B, lines', cursor_x', cursor_y', c, k, s, d)
    BY <1>5, PlacedSees, Zenon
  <1>7. /\ cursor_x' \in Nat /\ cursor_y' \in Nat /\ cursor_x' = Len(k) /\ cursor_y' = Len(c)
        /\ Len(m) = cursor_x' + Len(s) /\ Len(s) \in Nat
    <2>1. lines'[cursor_y' + 1] = Cat(k, s) /\ Len(Cat(k, s)) = cursor_x' + Len(s) /\ Len(s) \in Nat
          /\ cursor_x' \in Nat /\ cursor_y' \in Nat
      BY <1>6, SeenPlaced
    <2>2. lines'[cursor_y' + 1] = m
      BY <1>4, Zenon
    <2>3. cursor_x' = Len(k) /\ cursor_y' = Len(c)
      BY <1>6, Zenon DEF View
    <2> QED
      BY <2>1, <2>2, <2>3, Zenon
  <1> HIDE DEF m
  <1>8. /\ Before = Join(Push(a, l)) /\ After = Join(Cons(r, b))
        /\ Before' = Join(Push(c, k)) /\ After' = Join(Cons(s, d))
    BY <1>1, <1>6, TextSeen, Zenon
  <1>9. Cat(Before', After') = Cat(Before, After)
    <2>1. Cat(Join(Push(a, l)), Join(Cons(r, b))) = Join(lines)
      BY <1>1, WholeText
    <2>2. Cat(Join(Push(c, k)), Join(Cons(s, d))) = Join(lines')
      BY <1>6, WholeText
    <2> QED
      BY <1>8, <2>1, <2>2, Zenon
  <1>10. /\ Buffer!LineNumber(Before) = cursor_y /\ Buffer!Column(Before) = cursor_x
         /\ Buffer!LineNumber(Before') = cursor_y' /\ Buffer!Column(Before') = cursor_x'
    BY <1>2, <1>7, <1>8, CursorPlace, Zenon
  <1>11. cursor_x' = cursor_x \/ After' = <<>> \/ Head(After') = NL
    <2> SUFFICES ASSUME cursor_x' # cursor_x PROVE After' = <<>> \/ Head(After') = NL
      BY SMTT(30)
    <2>1. Len(s) = 0
      BY <1>4, <1>7
    <2>2. s = <<>>
      BY <2>1, CatLaws, Zenon
    <2> QED
      BY <1>8, <2>2, AfterLineEnd, Zenon
  <1>12. cursor_y' - cursor_y \in {-1, 1}
    BY <1>2, <1>4
  <1> QED
    BY <1>4, <1>5, <1>9, <1>10, <1>11, <1>12, Zenon DEF OneLineAway

\* Up and Down go one line away, or nowhere from the first or the last line.
LEMMA VerticalStep ==
    ASSUME NEW B, NL \notin B, Placed(B, lines, cursor_x, cursor_y),
           move_cursor_up \/ move_cursor_down
    PROVE  Placed(B, lines', cursor_x', cursor_y') /\ (SameText \/ OneLineAway)
  <1>1. lines' = lines
    BY SMTT(30) DEF move_cursor_up, move_cursor_down
  <1>2. cursor_y \in 0 .. Len(lines) - 1 /\ Len(lines) \in Nat
    BY CatLaws, Zenon DEF Placed, Vec
  <1>3. CASE cursor_x' = cursor_x /\ cursor_y' = cursor_y
    <2>1. SameText
      BY <1>1, <1>3, StateText, Zenon DEF SameText
    <2> QED
      BY <1>1, <1>3, <2>1, Zenon
  <1>4. CASE move_cursor_up /\ cursor_y > 0
    <2>1. ClampedMove(cursor_y - 1)
      BY <1>4, Zenon DEF move_cursor_up
    <2>2. cursor_y - 1 \in 0 .. Len(lines) - 1
      BY <1>2, <1>4
    <2> QED
      BY <1>1, <2>1, <2>2, ClampedStep, Zenon
  <1>5. CASE move_cursor_down /\ cursor_y < Len(lines) - 1
    <2>1. ClampedMove(cursor_y + 1)
      BY <1>5, Zenon DEF move_cursor_down
    <2>2. cursor_y + 1 \in 0 .. Len(lines) - 1
      BY <1>2, <1>5
    <2> QED
      BY <1>1, <2>1, <2>2, ClampedStep, Zenon
  <1>6. \/ cursor_x' = cursor_x /\ cursor_y' = cursor_y
        \/ move_cursor_up /\ cursor_y > 0
        \/ move_cursor_down /\ cursor_y < Len(lines) - 1
    BY Zenon DEF move_cursor_up, move_cursor_down
  <1> QED
    BY <1>3, <1>4, <1>5, <1>6, Zenon

\* Editor::new shows the text from its start.
LEMMA NewStep ==
    ASSUME NEW B, NL \notin B, NEW text \in Text(B), New(text)
    PROVE  /\ Placed(B, lines', cursor_x', cursor_y') /\ Before' = <<>> /\ After' \in Text(B)
           /\ Join(lines') = text \/ Push(Join(lines'), NL) = text
  <1>1. <<>> \in List(B) /\ <<<<>>>> = Push(<<>>, <<>>) /\ <<>> \in Vec(B)
    BY CatLaws, EndLaws, Zenon DEF Vec
  <1>2. Push(<<>>, <<>>) \in Vec(B) /\ Push(<<>>, <<>>) # <<>>
    BY <1>1, EndLaws DEF Vec
  <1>3. Join(<<<<>>>>) = <<>>
    BY JoinLaws, <1>1, Zenon
  <1>4. /\ Lines(text) \in Vec(B)
        /\ Lines(text) = <<>> => text = <<>>
        /\ Lines(text) # <<>> => Join(Lines(text)) = text \/ Push(Join(Lines(text)), NL) = text
    BY LinesOfText, Zenon
  <1>5. /\ lines' = IF Lines(text) = <<>> THEN <<<<>>>> ELSE Lines(text)
        /\ cursor_x' = 0 /\ cursor_y' = 0
    BY Zenon DEF New
  <1>6. lines' \in Vec(B) /\ lines' # <<>>
    BY <1>1, <1>2, <1>4, <1>5, Zenon
  <1>7. Join(lines') = text \/ Push(Join(lines'), NL) = text
    BY <1>3, <1>4, <1>5, Zenon
  <1>8. Placed(B, lines', cursor_x', cursor_y')
    <2>1. Len(lines') \in Nat /\ Len(lines') # 0
      BY <1>6, CatLaws, Zenon DEF Vec
    <2>2. 0 \in 0 .. Len(lines') - 1 /\ 1 \in 1 .. Len(lines')
      BY <2>1
    <2>3. lines'[1] \in List(B)
      <3>1. lines' \in Seq(List(B))
        BY <1>6, Zenon DEF Vec, List
      <3> QED
        BY <2>2, <3>1, ElementOfSeq, Zenon
    <2>4. Len(lines'[0 + 1]) \in Nat
      BY <2>3, CatLaws
    <2> QED
      BY <1>5, <1>6, <2>2, <2>4 DEF Placed
  <1>9. PICK a, b \in Vec(B), l, r \in List(B) : View(B, lines', cursor_x', cursor_y', a, l, r, b)
    BY <1>8, PlacedSees, Zenon
  <1>10. a = <<>> /\ l = <<>>
    <2>1. Len(a) = 0 /\ Len(l) = 0
      BY <1>5, <1>9, Zenon DEF View
    <2> QED
      BY <2>1, CatLaws, Zenon DEF Vec
  <1>11. Before' = <<>> /\ After' \in Text(B)
    <2>1. Before' = Join(Push(a, l)) /\ After' \in Text(B)
      BY <1>9, TextSeen, Zenon
    <2> QED
      BY <1>1, <1>3, <1>10, <2>1, Zenon
  <1> QED
    BY <1>7, <1>8, <1>11, Zenon

-----------------------------------------------------------------------------
\* The inductive invariant: the cursor is placed in lines of bytes, a file of
\* one-byte characters is shown as lines of these, and the file is a text.
EditorInv ==
    /\ mode \in {"editing", "closed", "panic"}
    /\ file \in Text(Bytes) \cup {Absent, Damaged}
    /\ Placed(Bytes, lines, cursor_x, cursor_y)
    /\ mode = "editing" /\ OneByte => Placed(Chars, lines, cursor_x, cursor_y)
    /\ PanicNeedsWideCharacter

\* The keys that edit or move.
Edit ==
    \/ \E c \in Chars : insert_char(c)
    \/ insert_newline \/ backspace
    \/ move_cursor_left \/ move_cursor_right \/ move_cursor_up \/ move_cursor_down

\* The line break is no byte of a line, and a character of two bytes is none of
\* the characters of one.
LEMMA ByteFacts ==
    /\ NL \notin Chars /\ NL \notin Bytes /\ Chars \subseteq Bytes
    /\ Lead \notin Chars /\ Cont \notin Chars
    /\ Bytes \cup {NL} = Chars \cup {NL, Lead, Cont}
  BY EditorConstants, Zenon DEF Bytes

\* A text without the bytes of wide characters is a text of one-byte characters.
LEMMA OneByteText ==
    ASSUME file \in Text(Bytes), OneByte, file # Absent, file # Damaged
    PROVE  file \in Text(Chars)
  <1>1. file \in Seq(Bytes \cup {NL})
    BY Zenon DEF Text, List
  <1>2. {Lead, Cont} \cap Range(file) = {}
    BY Zenon DEF OneByte
  <1>3. \A i \in 1 .. Len(file) : file[i] \in Chars \cup {NL}
    <2> SUFFICES ASSUME NEW i \in 1 .. Len(file) PROVE file[i] \in Chars \cup {NL}
      BY Zenon
    <2>1. file[i] \in Bytes \cup {NL} /\ file[i] \in Range(file)
      BY <1>1 DEF Range
    <2> QED
      BY <1>2, <2>1, Zenon DEF Bytes
  <1>4. file \in Seq(Chars \cup {NL})
    BY <1>1, <1>3
  <1> QED
    BY <1>4, Zenon DEF Text, List

\* A placed cursor stays placed, whatever the key.
LEMMA EditPlaced ==
    ASSUME NEW B, Chars \subseteq B, NL \notin B, Placed(B, lines, cursor_x, cursor_y),
           Edit, mode' # "panic"
    PROVE  Placed(B, lines', cursor_x', cursor_y')
  BY InsertStep, NewlineStep, BackspaceStep, LeftStep, RightStep, VerticalStep, Zenon DEF Edit

\* Between one-byte characters every index is the start of a character.
LEMMA EditKept ==
    ASSUME Placed(Chars, lines, cursor_x, cursor_y), Edit
    PROVE  Kept
  <1>1. /\ Boundary(Line, cursor_x)
        /\ cursor_x > 0 => Boundary(Line, cursor_x - 1)
    <2>1. lines \in Seq(List(Chars)) /\ cursor_y + 1 \in 1 .. Len(lines) /\ cursor_x \in 0 .. Len(Line)
      <3>1. Len(lines) \in Nat /\ lines \in Seq(List(Chars))
        BY CatLaws, Zenon DEF Placed, Vec, List
      <3> QED
        BY <3>1 DEF Placed, Line
    <2>2. Line \in Seq(Chars)
      <3>1. lines[cursor_y + 1] \in List(Chars)
        BY <2>1, ElementOfSeq, Zenon
      <3> QED
        BY <3>1, Zenon DEF Line, List
    <2>3. Len(Line) \in Nat /\ \A i \in 1 .. Len(Line) : Line[i] # Cont
      BY <2>2, ByteFacts
    <2> QED
      BY <2>1, <2>3 DEF Boundary
  <1> QED
    BY <1>1, Zenon DEF Edit, insert_char, insert_newline, backspace, move_cursor_left,
       move_cursor_right, move_cursor_up, move_cursor_down

\* What a key leaves alone.
LEMMA EditFrame ==
    ASSUME Edit
    PROVE  /\ mode = "editing" /\ mode' \in {"editing", "panic"} /\ file' = file
           /\ OneByte' = OneByte /\ (mode' = "panic" => lines' = lines /\ cursor_x' = cursor_x
                                                        /\ cursor_y' = cursor_y)
  <1>1. /\ mode = "editing" /\ mode' \in {"editing", "panic"} /\ file' = file
        /\ mode' = "panic" => lines' = lines /\ cursor_x' = cursor_x /\ cursor_y' = cursor_y
    BY Zenon DEF Edit, insert_char, insert_newline, backspace, move_cursor_left, move_cursor_right,
       move_cursor_up, move_cursor_down, Key, Kept, Panic
  <1>2. OneByte' = OneByte
    BY <1>1, Zenon DEF OneByte
  <1> QED
    BY <1>1, <1>2, Zenon

\* Next, by what its steps do to the file.
LEMMA NextCases == Next => Open \/ Save \/ Edit
  BY Zenon DEF Next, Edit

\* The editor starts with one empty line.
LEMMA EditorInit == Init => EditorInv
  <1> SUFFICES ASSUME Init PROVE EditorInv
    BY Zenon
  <1>1. mode = "closed" /\ lines = <<<<>>>> /\ cursor_x = 0 /\ cursor_y = 0
        /\ file \in InitTexts \cup {Absent}
    BY SMTT(30) DEF Init
  <1>2. file \in Text(Bytes) \cup {Absent, Damaged}
    BY <1>1, EditorConstants, ByteFacts, Zenon DEF Text, List
  <1>3. Placed(Bytes, lines, cursor_x, cursor_y)
    <2>1. <<>> \in List(Bytes) /\ <<>> \in Vec(Bytes) /\ <<<<>>>> = Push(<<>>, <<>>)
          /\ Cat(<<>>, <<>>) = <<>> /\ Len(<<>>) = 0
      BY CatLaws, EndLaws, Zenon DEF Vec
    <2>2. Push(<<>>, <<>>) \in Vec(Bytes)
      BY <2>1, EndLaws, Zenon DEF Vec
    <2>3. Cat(Push(<<>>, Cat(<<>>, <<>>)), <<>>) = Push(<<>>, <<>>)
      BY <2>1, <2>2, CatLaws, Zenon DEF Vec
    <2>4. View(Bytes, lines, cursor_x, cursor_y, <<>>, <<>>, <<>>, <<>>)
      BY <1>1, <2>1, <2>3, Zenon DEF View
    <2> QED
      BY <2>4, SeenPlaced, Zenon
  <1> QED
    BY <1>1, <1>2, <1>3, Zenon DEF EditorInv, PanicNeedsWideCharacter

\* The text that is opened: of the file's bytes, or nothing.
LEMMA OpenStep ==
    ASSUME EditorInv, Open
    PROVE  /\ Placed(Bytes, lines', cursor_x', cursor_y')
           /\ file # Absent => Join(lines') = file \/ Push(Join(lines'), NL) = file
           /\ OneByte => /\ Placed(Chars, lines', cursor_x', cursor_y')
                         /\ Before' = <<>> /\ After' \in Text(Chars)
  <1> DEFINE text == IF file = Absent THEN <<>> ELSE file
  <1>1. New(text) /\ file # Damaged
    BY SMTT(30) DEF Open
  <1>2. <<>> \in Text(Bytes) /\ <<>> \in Text(Chars)
    BY CatLaws, Zenon DEF Text
  <1>3. text \in Text(Bytes)
    BY <1>1, <1>2, Zenon DEF EditorInv
  <1>4. OneByte => text \in Text(Chars)
    BY <1>1, <1>2, <1>3, OneByteText, Zenon
  <1>5. file # Absent => text = file
    BY SMTT(30)
  <1> HIDE DEF text
  <1>6. /\ Placed(Bytes, lines', cursor_x', cursor_y')
        /\ Join(lines') = text \/ Push(Join(lines'), NL) = text
    BY <1>1, <1>3, ByteFacts, NewStep, Zenon
  <1>7. OneByte => /\ Placed(Chars, lines', cursor_x', cursor_y')
                   /\ Before' = <<>> /\ After' \in Text(Chars)
    BY <1>1, <1>4, ByteFacts, NewStep, Zenon
  <1> QED
    BY <1>5, <1>6, <1>7, Zenon

\* The text that is saved is a text.
LEMMA SaveStep ==
    ASSUME EditorInv, Save
    PROVE  file' \in Text(Bytes) \cup {Absent, Damaged}
  <1>1. lines \in Vec(Bytes) /\ lines # <<>>
    <2>1. lines \in Vec(Bytes) /\ cursor_y \in 0 .. Len(lines) - 1
      BY Zenon DEF EditorInv, Placed
    <2> QED
      BY <2>1, CatLaws
  <1>2. Join(lines) \in Text(Bytes)
    BY <1>1, JoinLaws, Zenon
  <1> QED
    BY <1>2, Zenon DEF Save, EditorInv

\* Every step keeps the invariant.
LEMMA EditorNext == EditorInv /\ [Next]_evars => EditorInv'
  <1> SUFFICES ASSUME EditorInv, [Next]_evars PROVE EditorInv'
    BY SMTT(30)
  <1>1. CASE Open
    <2>1. mode' = "editing" /\ file' = file
      BY <1>1 DEF Open
    <2>2. OneByte' = OneByte
      BY <2>1 DEF OneByte
    <2> QED
      BY <1>1, <2>1, <2>2, OpenStep, Zenon DEF EditorInv, PanicNeedsWideCharacter
  <1>2. CASE Save
    <2>1. mode' = "closed" /\ lines' = lines /\ cursor_x' = cursor_x /\ cursor_y' = cursor_y
      BY <1>2 DEF Save
    <2> QED
      BY <1>2, <2>1, SaveStep DEF EditorInv, PanicNeedsWideCharacter
  <1>3. CASE Edit
    <2>1. /\ mode = "editing" /\ mode' \in {"editing", "panic"} /\ file' = file
          /\ OneByte' = OneByte /\ (mode' = "panic" => lines' = lines /\ cursor_x' = cursor_x
                                                       /\ cursor_y' = cursor_y)
      BY <1>3, EditFrame
    <2>2. Placed(Bytes, lines', cursor_x', cursor_y')
      BY <1>3, <2>1, ByteFacts, EditPlaced DEF EditorInv
    <2>3. ASSUME OneByte PROVE mode' # "panic" /\ Placed(Chars, lines', cursor_x', cursor_y')
      <3>1. Placed(Chars, lines, cursor_x, cursor_y)
        BY <2>1, <2>3 DEF EditorInv
      <3>2. mode' = mode
        BY <1>3, <3>1, EditKept DEF Kept
      <3> QED
        BY <1>3, <2>1, <3>1, <3>2, ByteFacts, EditPlaced
    <2> QED
      BY <2>1, <2>2, <2>3 DEF EditorInv, PanicNeedsWideCharacter
  <1>4. CASE UNCHANGED evars
    <2>1. /\ mode' = mode /\ file' = file /\ lines' = lines /\ cursor_x' = cursor_x
          /\ cursor_y' = cursor_y
      BY <1>4 DEF evars
    <2>2. OneByte' = OneByte
      BY <2>1 DEF OneByte
    <2> QED
      BY <2>1, <2>2 DEF EditorInv, PanicNeedsWideCharacter
  <1> QED
    BY <1>1, <1>2, <1>3, <1>4, NextCases, Zenon

\* The cursor is always in the text, and the file always a text, for all texts
\* and any number of keys.
THEOREM EditorInvariant == Spec => []EditorInv
  BY EditorInit, EditorNext, PTL DEF Spec

\* No key stops the kernel in a file of one-byte characters: insert, remove and
\* split_off are only called at the start of a character.
THEOREM EditorPanicNeedsWideCharacter == Spec => []PanicNeedsWideCharacter
  <1>1. EditorInv => PanicNeedsWideCharacter
    BY DEF EditorInv
  <1> QED
    BY <1>1, EditorInvariant, PTL

\* What was saved is what is shown when the file is opened again, but for an empty
\* last line.
THEOREM EditorReopenShowsSaved == Spec => ReopenShowsSaved
  <1>1. EditorInv /\ [Next]_evars =>
          [Open /\ file # Absent =>
             LET text == Join(lines') IN text = file \/ Append(text, NL) = file]_evars
    <2> SUFFICES ASSUME EditorInv, Open, file # Absent
                 PROVE  Join(lines') = file \/ Append(Join(lines'), NL) = file
      OBVIOUS
    <2> QED
      BY OpenStep DEF Push
  <1> QED
    BY <1>1, EditorInvariant, PTL DEF Spec, ReopenShowsSaved

-----------------------------------------------------------------------------
\* The editor implements TextBuffer.

\* What the user sees of the text, before and after a step.
LEMMA ShownText ==
    /\ mode = "editing" /\ OneByte => Shown(Before) = Before /\ Shown(After) = After
    /\ mode' = "editing" /\ OneByte' => Shown(Before)' = Before' /\ Shown(After)' = After'
    /\ ~(mode = "editing" /\ OneByte) => Shown(Before) = <<>> /\ Shown(After) = <<>>
    /\ ~(mode' = "editing" /\ OneByte') => Shown(Before)' = <<>> /\ Shown(After)' = <<>>
  BY SMTT(30) DEF Shown

\* In a file of one-byte characters each key does what TextBuffer says.
LEMMA EditRefines ==
    ASSUME Placed(Chars, lines, cursor_x, cursor_y), Edit, mode = "editing", mode' = "editing",
           OneByte, OneByte'
    PROVE  Buffer!Next \/ UNCHANGED <<Shown(Before), Shown(After)>>
  <1>1. /\ Shown(Before) = Before /\ Shown(After) = After
        /\ Shown(Before)' = Before' /\ Shown(After)' = After'
    BY ShownText
  <1>2. CASE SameText
    BY <1>1, <1>2 DEF SameText
  <1>3. CASE \E c \in Chars : insert_char(c)
    <2>1. PICK c \in Chars : insert_char(c)
      BY <1>3
    <2>2. Before' = Push(Before, c) /\ After' = After
      BY <2>1, InsertStep
    <2> QED
      BY <1>1, <2>2 DEF Push, Buffer!Next, Buffer!Insert
  <1>4. CASE insert_newline
    <2>1. Before' = Push(Before, NL) /\ After' = After
      BY <1>4, NewlineStep
    <2> QED
      BY <1>1, <2>1 DEF Push, Buffer!Next, Buffer!Insert
  <1>5. CASE backspace /\ ~SameText
    <2>1. PICK c \in Chars \cup {NL} : Before = Push(Before', c) /\ After' = After
      BY <1>5, ByteFacts, BackspaceStep
    <2>2. Before' \in List(Chars \cup {NL})
      BY <1>5, BackspaceStep DEF Text
    <2>3. Before # <<>> /\ Before' = Buffer!Front(Before)
      BY <2>1, <2>2, TextEnds
    <2> QED
      BY <1>1, <2>1, <2>3 DEF Buffer!Next, Buffer!Backspace
  <1>6. CASE move_cursor_left /\ ~SameText
    <2>1. PICK c \in Chars \cup {NL} : Before = Push(Before', c) /\ After' = Cons(c, After)
      BY <1>6, LeftStep
    <2>2. Before' \in List(Chars \cup {NL})
      BY <1>6, LeftStep DEF Text
    <2>3. Before # <<>> /\ Before' = Buffer!Front(Before) /\ Buffer!Last(Before) = c
      BY <2>1, <2>2, TextEnds
    <2>4. After' = <<Buffer!Last(Before)>> \o After
      BY <2>1, <2>3 DEF Cons
    <2> QED
      BY <1>1, <2>3, <2>4 DEF Buffer!Next, Buffer!Left
  <1>7. CASE move_cursor_right /\ ~SameText
    <2>1. PICK c \in Chars \cup {NL} : Before' = Push(Before, c) /\ After = Cons(c, After')
      BY <1>7, RightStep
    <2>2. After' \in List(Chars \cup {NL})
      BY <1>7, RightStep DEF Text
    <2>3. After # <<>> /\ Head(After) = c /\ Tail(After) = After'
      BY <2>1, <2>2, TextEnds
    <2>4. Before' = Append(Before, Head(After)) /\ After' = Tail(After)
      BY <2>1, <2>3 DEF Push
    <2> QED
      BY <1>1, <2>3, <2>4 DEF Buffer!Next, Buffer!Right
  <1>8. CASE (move_cursor_up \/ move_cursor_down) /\ ~SameText
    <2>1. OneLineAway
      BY <1>8, ByteFacts, VerticalStep
    <2> QED
      BY <1>1, <2>1 DEF OneLineAway, Cat, Buffer!Next, Buffer!Vertical, Buffer!Text
  <1> QED
    BY <1>2, <1>3, <1>4, <1>5, <1>6, <1>7, <1>8 DEF Edit

\* With one-byte characters the lines and the two cursor numbers are a text with a
\* cursor, and every key, open and save is an operation of it or changes nothing.
THEOREM EditorImplementsTextBuffer == Spec => ImplementsTextBuffer
  <1>1. Init => Shown(Before) = <<>> /\ Shown(After) \in Seq(Chars \cup {NL})
    BY ShownText DEF Init
  <1>2. EditorInv /\ [Next]_evars => [Buffer!Next]_<<Shown(Before), Shown(After)>>
    <2> SUFFICES ASSUME EditorInv, [Next]_evars
                 PROVE  Buffer!Next \/ UNCHANGED <<Shown(Before), Shown(After)>>
      BY SMTT(30)
    <2>1. CASE Open
      <3>1. mode = "closed" /\ mode' = "editing" /\ file' = file
        BY <2>1 DEF Open
      <3>2. OneByte' = OneByte
        BY <3>1 DEF OneByte
      <3>3. CASE OneByte
        <4>1. Before' = <<>> /\ After' \in Seq(Chars \cup {NL})
          BY <2>1, <3>3, OpenStep DEF Text, List
        <4>2. Shown(Before)' = Before' /\ Shown(After)' = After'
          BY <3>1, <3>2, <3>3, ShownText
        <4> QED
          BY <4>1, <4>2 DEF Buffer!Next, Buffer!Open
      <3>4. CASE ~OneByte
        BY <3>1, <3>2, <3>4, ShownText
      <3> QED
        BY <3>3, <3>4
    <2>2. CASE Save
      <3>1. mode' = "closed"
        BY <2>2 DEF Save
      <3>2. Shown(Before)' = <<>> /\ Shown(After)' = <<>>
        BY <3>1, ShownText
      <3> QED
        BY <3>2 DEF Buffer!Next, Buffer!Open
    <2>3. CASE Edit
      <3>1. mode = "editing" /\ mode' \in {"editing", "panic"} /\ OneByte' = OneByte
        BY <2>3, EditFrame
      <3>2. CASE OneByte
        <4>1. Placed(Chars, lines, cursor_x, cursor_y)
          BY <3>1, <3>2 DEF EditorInv
        <4>2. mode' = mode
          BY <2>3, <4>1, EditKept DEF Kept
        <4> QED
          BY <2>3, <3>1, <3>2, <4>1, <4>2, EditRefines
      <3>3. CASE ~OneByte
        BY <3>1, <3>3, ShownText
      <3> QED
        BY <3>2, <3>3
    <2>4. CASE UNCHANGED evars
      <3>1. /\ mode' = mode /\ file' = file /\ lines' = lines /\ cursor_x' = cursor_x
            /\ cursor_y' = cursor_y
        BY <2>4 DEF evars
      <3>2. OneByte' = OneByte
        BY <3>1 DEF OneByte
      <3>3. Before' = Before /\ After' = After
        BY <3>1, StateText
      <3> QED
        BY <3>1, <3>2, <3>3, ShownText
    <2> QED
      BY <2>1, <2>2, <2>3, <2>4, NextCases
  <1> QED
    BY <1>1, <1>2, EditorInvariant, PTL DEF Spec, ImplementsTextBuffer, Buffer!Spec

=============================================================================
