---------------------------- MODULE LispGrammar ----------------------------
(***************************************************************************)
(* The grammar the parser's expressions are checked against, on the tokens *)
(* of every text.                                                          *)
(***************************************************************************)
EXTENDS LispTexts, LispParser

RECURSIVE Unparse(_)
\* The tokens an expression was read from.
Unparse(exp) ==
    CASE exp[1] = "list" -> <<<<"(">>>> \o FlattenSeq([i \in DOMAIN exp[2] |-> Unparse(exp[2][i])])
                            \o <<<<")">>>>
      [] exp[1] = "str" -> <<<<Quote>> \o exp[2] \o <<Quote>>>>
      [] OTHER -> <<exp[2]>>

Depth(toks, n) == Cardinality({i \in 1 .. n : toks[i] = <<"(">>})
                  - Cardinality({i \in 1 .. n : toks[i] = <<")">>})
\* Where the first expression ends: the shortest prefix whose brackets balance.
Ends(toks) == {n \in DOMAIN toks : /\ \A m \in 1 .. n - 1 : Depth(toks, m) > 0
                                   /\ Depth(toks, n) = 0}

\* The parser reads the shortest balanced prefix of the tokens and nothing more:
\* it succeeds when there is one, the expression it makes spells that prefix, and
\* the rest is what follows.  It panics just when a text ends at an opening quote
\* that belongs to the expression being read.
ParseReadsOneExpression ==
    LET p == parse(Tokens)
        lone(n) == Tokens[n] = <<Quote>>
    IN  /\ p.r[1] = "ok" <=> \E n \in Ends(Tokens) : ~lone(n)
        /\ p.r[1] = "ok" => Unparse(p.r[2]) \o p.rest = Tokens
        /\ p.r[1] = "dead" <=>
              \E n \in DOMAIN Tokens : lone(n) /\ \A m \in 1 .. n - 1 : Depth(Tokens, m) > 0
=============================================================================
