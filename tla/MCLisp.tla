------------------------------- MODULE MCLisp -------------------------------
\* Lisp with statements that define, redefine and call functions, that change
\* lists and maps, that loop, fail and raise errors, and that reach the commands.
EXTENDS Lisp

A(w) == <<w>>
P(parts) == <<"(">> \o Join(parts) \o <<")">>
F(ws) == P([i \in DOMAIN ws |-> <<ws[i]>>])
S(w) == <<Quote, w, Quote>>

DefX == F(<<"def", "x", "1">>)
IncX == P(<<A("def"), A("x"), F(<<"+", "x", "1">>)>>)
DefF == P(<<A("def"), A("f"), P(<<A("fn"), F(<<"y">>), F(<<"+", "y", "x">>)>>)>>)
RecF == P(<<A("def"), A("f"), P(<<A("fn"), F(<<"y">>),
            P(<<A("if"), F(<<"<", "y", "1">>), A("0"), P(<<A("f"), F(<<"-", "y", "1">>)>>)>>)>>)>>)
SelfF == P(<<A("def"), A("f"), P(<<A("fn"), F(<<"y">>), F(<<"f", "y">>)>>)>>)
LocalF == P(<<A("def"), A("g"), P(<<A("fn"), F(<<"y">>),
              P(<<A("do"), F(<<"def", "x", "0">>), F(<<"append", "l", "y">>), F(<<"f", "x">>)>>)>>)>>)
CallF == P(<<A("def"), A("r"), F(<<"f", "x">>)>>)
CallG == F(<<"g", "1">>)
DefL == P(<<A("def"), A("l"), F(<<"list", "x", "n0">>)>>)
AddL == P(<<A("append"), A("l"), F(<<"g", "x">>)>>)
PopL == P(<<A("def"), A("x"), F(<<"pop", "l">>)>>)
AtL == P(<<A("def"), A("x"), F(<<"!!", "l", "-1">>)>>)
DefM == P(<<A("def"), A("m"), P(<<A("map"), A("x"), F(<<"quote", "x">>)>>)>>)
SetM == P(<<A("mset"), A("m"), S("a"), F(<<"mkeys", "m">>)>>)
KeyM == F(<<"mset", "m", "[]", "b0">>)
DelM == F(<<"mdel", "m", "x">>)
Loop == P(<<A("for"), P(<<A("and"), F(<<">", "x", "0">>), F(<<"or", "b0", "true">>)>>),
            P(<<A("def"), A("x"), F(<<"-", "x", "1">>)>>)>>)
Spin == F(<<"for", "true", "x">>)
Handler == P(<<A("def"), A("error"), P(<<A("fn"), F(<<"s">>),
               P(<<A("do"), F(<<"def", "x", "0">>), F(<<"error", "s">>)>>)>>)>>)
Raise == P(<<A("error"), S("a")>>)
Echo == F(<<"sys", "echo", "m">>)
Call == F(<<"sys", "c", "x">>)

SomeStatements == {DefX, IncX, DefF, RecF, SelfF, LocalF, CallF, CallG, DefL, AddL, PopL, AtL,
                  DefM, SetM, KeyM, DelM, Loop, Spin, Handler, Raise, Echo, Call}

EchoArg == F(<<"sys", "echo", "n0">>) \o <<";">>
CallC == F(<<"sys", "c", "n0">>) \o <<";">>
RunP == F(<<"sys", "run", "p">>) \o <<";">>
RaiseTwice == Raise \o <<";">> \o Raise \o <<";">>
Script == DefX \o <<";">> \o F(<<"sys", "c", "b0">>) \o <<";">>

AllLines == {<<A("bind"), A("c"), EchoArg>>, <<A("bind"), A("c"), CallC>>,
             <<A("bind"), A("echo"), RaiseTwice>>, <<A("bind"), A("c"), RunP>>,
             <<A("run"), A("p"), A("true")>>, <<A("parse"), Raise, A(";"), CallC>>, <<A("c")>>}
Numerals == -1 .. 1
BoundTexts == UNION {{statments(c)[i] : i \in DOMAIN statments(c)} :
                     c \in {EchoArg, CallC, RaiseTwice, Script, RunP,
                           Raise \o <<" ", ";", " ">> \o CallC}}
Scripts == A("p") :> Script
Arguments == {<<>>, <<A("1"), A("true")>>}
Keys == <<<<"str", <<"a">>>>, <<"num", -1>>, <<"num", 0>>, <<"num", 1>>,
          <<"num", 2>>, <<"num", 3>>>>
=============================================================================
