----------------------------- MODULE LispParser -----------------------------
(***************************************************************************)
(* The recursive-descent parser of the Lisp interpreter (parser.rs).  A    *)
(* numeral is one character.  An expression is a pair <<kind, value>>, as  *)
(* a RispExp is.                                                           *)
(***************************************************************************)
EXTENDS LispReader, TLC

CONSTANT Numbers   \* the numbers that programs spell

Numeral(n) == <<ToString(n)>>

ASSUME ParserConstants ==
    /\ Numbers \subseteq Int
    /\ Letters \cap {ToString(n) : n \in Numbers} = {}

\* `token[1..token.len() - 1]` panics on a token that is one quote.
parse_atom(token) ==
    CASE token = <<"true">> -> <<"bool", TRUE>>
      [] token = <<"false">> -> <<"bool", FALSE>>
      [] Head(token) = Quote /\ Last(token) = Quote ->
            IF Len(token) = 1 THEN <<"panic", token>>
            ELSE <<"str", SubSeq(token, 2, Len(token) - 1)>>
      [] \E n \in Numbers : token = Numeral(n) ->
            <<"num", CHOOSE n \in Numbers : token = Numeral(n)>>
      [] OTHER -> <<"sym", token>>

Fail(why) == [r |-> <<"err", why>>, rest |-> <<>>]

RECURSIVE parse(_)
RECURSIVE read_seq(_, _)

\* A bug: the rest starts at the closing bracket, not behind it.
read_seq_KeepsClose(res, xs) ==
    IF xs = <<>> THEN Fail("could not find closing")
    ELSE IF Head(xs) = <<")">> THEN [r |-> <<"ok", <<"list", res>>>>, rest |-> xs]
    ELSE LET p == parse(xs) IN
         IF p.r[1] = "ok" THEN read_seq(Append(res, p.r[2]), p.rest) ELSE p

\* res is the list so far, xs the tokens that follow.
read_seq(res, xs) ==
    IF xs = <<>> THEN Fail("could not find closing")
    ELSE IF Head(xs) = <<")">> THEN [r |-> <<"ok", <<"list", res>>>>, rest |-> Tail(xs)]
    ELSE LET p == parse(xs) IN
         IF p.r[1] = "ok" THEN read_seq(Append(res, p.r[2]), p.rest) ELSE p

parse(toks) ==
    IF toks = <<>> THEN Fail("could not get token")
    ELSE CASE Head(toks) = <<"(">> -> read_seq(<<>>, Tail(toks))
           [] Head(toks) = <<")">> -> Fail("unexpected )")
           [] OTHER -> LET a == parse_atom(Head(toks)) IN
                       [r |-> IF a[1] = "panic" THEN <<"dead", "panic">> ELSE <<"ok", a>>,
                        rest |-> Tail(toks)]
=============================================================================
