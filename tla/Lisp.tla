-------------------------------- MODULE Lisp --------------------------------
(***************************************************************************)
(* The Lisp interpreter (parser.rs) and the commands it shares COMMANDS    *)
(* with: echo, parse, bind, run and what bind has bound (commands.rs).     *)
(* The futures of eval that wait for one another are a stack of frames:    *)
(* a form that waits for a part of it, a call, an error handler, a program *)
(* that interpret runs.  ctl is what the innermost one is about: an        *)
(* expression to evaluate, or the value or error that the last evaluation  *)
(* gave to the frame on top.                                               *)
(*                                                                         *)
(* A text is a sequence of characters as in LispReader, numbers are        *)
(* integers, and `/` and `&` are left out.  The statements of a program    *)
(* entered at the prompt are chosen as they are reached, for nothing in    *)
(* the code reads ahead of them.                                           *)
(***************************************************************************)
EXTENDS LispParser, FiniteSetsExt

Seqs == INSTANCE SequencesExt

CONSTANTS
    Statements,     \* bound: the statements of the programs, texts
    Programs,       \* bound: the arguments that programs are started with
    CommandLines,   \* bound: the other lines entered, sequences of texts
    Texts,          \* bound: the other statements that the lines and scripts lead to
    Files,          \* the scripts on the disk, texts by name
    KeyOrder,       \* the map keys that occur, in the order of RispKey
    MaxLines, MaxStatements,
    MaxDepth        \* bound: frames on the stack, past which a program is deep

ASSUME LispConstants ==
    /\ {MaxLines, MaxStatements, MaxDepth} \subseteq Nat
    /\ \A i, j \in DOMAIN KeyOrder :
          LET rank(k) == CASE k[1] = "str" -> 0 [] k[1] = "num" -> 1 [] k[1] = "bool" -> 2
              a == KeyOrder[i]
              b == KeyOrder[j]
          IN  i < j => /\ a # b /\ rank(a) <= rank(b)
                       /\ a[1] = "num" /\ b[1] = "num" => a[2] < b[2]
                       /\ a[1] = "bool" /\ b[1] = "bool" => b[2]

VARIABLES
    cmds, held,     \* COMMANDS and its lock
    ctl,            \* <<"eval", exp>>; <<"ok", value>>; <<"err", text>>, a RispErr, or
                    \*   <<"raised", text>> when it is the form error's; <<"dead", why>>;
                    \*   <<"idle", outcome of the last line>> at the prompt
    stack,          \* the frames, the innermost last
    env,            \* the environment of the innermost frame
    lines, ran,     \* lines entered; statements of this program that have run
    start           \* the statement of the program at the prompt, and env before it

lvars == <<cmds, held, ctl, stack, env, lines, ran, start>>
boundvars == <<lines, ran, start>>

Bind(f, k, v) == (k :> v) @@ f                                    \* insert
Joined(texts, sep) ==                                             \* join
    IF texts = <<>> THEN <<>>
    ELSE Seqs!FoldLeft(LAMBDA acc, t : acc \o sep \o t, Head(texts), Tail(texts))
Join(texts) == Joined(texts, <<" ">>)
Sum(ns) == Seqs!FoldLeft(LAMBDA a, b : a + b, 0, ns)
Err(why) == <<"err", <<why>>>>
Sym(w) == <<"sym", <<w>>>>

exp_to_key(v) ==
    IF v[1] \in {"str", "num", "bool"} THEN <<"ok", v>>
    ELSE <<"err", <<"only strings, numbers, and bools can be map keys">>>>

\* ensure_tonicity: the relation holds between every two neighbours.
Tonic(f, ns) ==
    \A i \in 1 .. Len(ns) - 1 :
        LET a == ns[i]
            b == ns[i + 1]
        IN  CASE f = "=" -> a = b [] f = "!=" -> a # b
              [] f = ">" -> a > b [] f = ">=" -> a >= b
              [] f = "<" -> a < b [] f = "<=" -> a <= b

Arithmetic == {"+", "*", "-", "=", "!=", ">", ">=", "<", "<="}

arithmetic(f, args) ==
    LET ns == [i \in DOMAIN args |-> args[i][2]] IN
    IF \E i \in DOMAIN args : args[i][1] # "num" THEN <<"err", <<"expected a number">>>>
    ELSE IF args = <<>> /\ f \notin {"+", "*"}
    THEN <<"err", <<"expected at least one number">>>>
    ELSE <<"ok", CASE f = "+" -> <<"num", Sum(ns)>>
                   [] f = "*" -> <<"num", Seqs!FoldLeft(LAMBDA a, b : a * b, 1, ns)>>
                   [] f = "-" -> <<"num", ns[1] - Sum(Tail(ns))>>
                   [] OTHER -> <<"bool", Tonic(f, ns)>>>>

len(args) ==
    IF args # <<>> /\ args[1][1] \in {"list", "str"} THEN <<"ok", <<"num", Len(args[1][2])>>>>
    ELSE <<"err", <<"len only works on lists and strings">>>>

\* The operator !!: a negative index counts from the end, a missing key is "".
index(args) ==
    IF Len(args) # 2 THEN <<"err", <<"!! requires exactly 2 arguments">>>>
    ELSE LET c == args[1]
             key == exp_to_key(args[2])
             at == IF args[2][1] # "num" THEN 0
                   ELSE IF args[2][2] < 0 THEN Len(c[2]) + args[2][2] + 1 ELSE args[2][2] + 1
         IN  CASE c[1] = "list" /\ args[2][1] = "num" /\ at \in DOMAIN c[2] -> <<"ok", c[2][at]>>
               [] c[1] = "map" /\ key[1] = "ok" ->
                     <<"ok", IF key[2] \in DOMAIN c[2] THEN c[2][key[2]] ELSE <<"str", <<>>>>>>
               [] OTHER -> <<"err", <<"index">>>>

map(args) ==
    IF Len(args) % 2 # 0 THEN <<"err", <<"map requires an even number of arguments">>>>
    ELSE Seqs!FoldLeft(LAMBDA m, i : IF m[1] = "err" \/ exp_to_key(args[2 * i - 1])[1] = "err"
                                THEN <<"err", <<"map key">>>>
                                ELSE <<"ok", <<"map", Bind(m[2][2], args[2 * i - 1], args[2 * i])>>>>,
                  <<"ok", <<"map", <<>>>>>>, [i \in 1 .. Len(args) \div 2 |-> i])

mkeys(args) ==
    IF args # <<>> /\ args[1][1] = "map"
    THEN <<"ok", <<"list", SelectSeq(KeyOrder, LAMBDA k : k \in DOMAIN args[1][2])>>>>
    ELSE <<"err", <<"mkeys only works on maps">>>>

\* A builtin is a pure function of its arguments.
builtin(f, args) ==
    CASE f \in Arithmetic -> arithmetic(f, args)
      [] f = "list" -> <<"ok", <<"list", args>>>>
      [] f = "len" -> len(args)
      [] f = "!!" -> index(args)
      [] f = "map" -> map(args)
      [] f = "mkeys" -> mkeys(args)

default_env ==
    (<<"[]">> :> <<"list", <<>>>>)
    @@ [k \in {<<f>> : f \in Arithmetic \cup {"list", "len", "!!", "map", "mkeys"}} |-> <<"func", k[1]>>]

RECURSIVE Display(_)
\* The text of a value, as sys passes it to a command.
Display(v) ==
    CASE v[1] = "bool" -> <<IF v[2] THEN "true" ELSE "false">>
      [] v[1] \in {"sym", "str"} -> v[2]
      [] v[1] = "num" -> Numeral(v[2])
      [] v[1] = "list" -> <<"(">> \o Join([i \in DOMAIN v[2] |-> Display(v[2][i])]) \o <<")">>
      [] v[1] = "map" ->
            LET ks == mkeys(<<v>>)[2][2]
                key(k) == IF k[1] = "str" THEN <<Quote>> \o k[2] \o <<Quote>> ELSE Display(k)
                entry(k) == key(k) \o <<":", " ">> \o Display(v[2][k])
            IN  <<"{">> \o Joined([i \in DOMAIN ks |-> entry(ks[i])], <<",", " ">>) \o <<"}">>
      [] OTHER -> <<v[1]>>
-----------------------------------------------------------------------------
Top == Last(stack)
Below == Front(stack)
Failing == ctl[1] \in {"err", "raised"}

\* Evaluation goes on with exp, or ends with an outcome, over this stack.
Go(c, st) == ctl' = c /\ stack' = st
Eval(exp, st) == Go(<<"eval", exp>>, st)
Quiet == UNCHANGED <<cmds, held, boundvars>>

Forms == {"if", "def", "fn", "sys", "quote", "and", "or", "for", "append", "pop", "mset", "mdel",
          "do", "error"}
Evaluating == ctl[1] = "eval" /\ Len(stack) < MaxDepth
IsForm == /\ Evaluating /\ ctl[2][1] = "list" /\ ctl[2][2] # <<>>
          /\ \E f \in Forms : Head(ctl[2][2]) = Sym(f)
Form == Head(ctl[2][2])[2][1]
Args == Tail(ctl[2][2])

\* The bound on the depth is reached: the model gives the program up.
Deep ==
    /\ ctl[1] = "eval" /\ Len(stack) >= MaxDepth
    /\ Go(<<"dead", "deep">>, stack)
    /\ Quiet /\ UNCHANGED env

\* A form that is not a list, or an empty list.
eval_atom ==
    /\ Evaluating
    /\ LET exp == ctl[2] IN
       \/ /\ exp[1] \in {"bool", "num", "str", "map"}
          /\ Go(<<"ok", exp>>, stack)
       \/ /\ exp[1] = "sym"
          /\ Go(IF exp[2] \in DOMAIN env THEN <<"ok", env[exp[2]]>> ELSE Err("unexpected symbol"),
                stack)
       \/ /\ exp = <<"list", <<>>>>
          /\ Go(Err("expected a non-empty list"), stack)
    /\ Quiet /\ UNCHANGED env

\* The checks that a form makes before it evaluates anything.
WellFormed(form, args) ==
    LET named == args # <<>> /\ args[1][1] = "sym" IN
    CASE form = "def" -> named /\ Len(args) = 2
      [] form = "append" -> named /\ Len(args) >= 2
      [] form = "mset" -> named /\ Len(args) >= 3
      [] form = "mdel" -> named /\ Len(args) >= 2
      [] form = "for" -> Len(args) >= 2
      [] form \in {"if", "sys", "error"} -> args # <<>>
      [] OTHER -> TRUE

\* The forms that evaluate a part of themselves first.
eval_form ==
    /\ IsForm /\ Form \notin {"fn", "quote", "pop"}
    /\ IF ~WellFormed(Form, Args) THEN Go(Err(Form), stack)
       ELSE IF Args = <<>>
       THEN Go(<<"ok", IF Form = "do" THEN <<"list", <<>>>> ELSE <<"bool", Form = "and">>>>, stack)
       ELSE Eval(Args[IF Form \in {"def", "append", "mset", "mdel"} THEN 2 ELSE 1],
                 Append(stack, [k |-> Form, args |-> Args, vals |-> <<>>]))
    /\ Quiet /\ UNCHANGED env

\* The environment is copied into the function.
eval_lambda_args ==
    /\ IsForm /\ Form = "fn"
    /\ Go(IF Len(Args) # 2 THEN Err("fn")
          ELSE <<"ok", <<"lambda", [params |-> Args[1], body |-> Args[2], captured |-> env]>>>>, stack)
    /\ Quiet /\ UNCHANGED env

eval_quote ==
    /\ IsForm /\ Form = "quote"
    /\ Go(IF Args = <<>> THEN Err("expected form to quote") ELSE <<"ok", Args[1]>>, stack)
    /\ Quiet /\ UNCHANGED env

\* The list that a name is bound to, and the map.
Holds(name, kind) == name[2] \in DOMAIN env /\ env[name[2]][1] = kind

eval_pop ==
    /\ IsForm /\ Form = "pop"
    /\ IF Args = <<>> \/ Args[1][1] # "sym" \/ ~Holds(Args[1], "list") \/ env[Args[1][2]][2] = <<>>
       THEN Go(Err("pop"), stack) /\ UNCHANGED env
       ELSE /\ Go(<<"ok", Last(env[Args[1][2]][2])>>, stack)
            /\ env' = Bind(env, Args[1][2], <<"list", Front(env[Args[1][2]][2])>>)
    /\ Quiet

\* Any other list is an application: its first form is evaluated first.
eval_first ==
    /\ Evaluating /\ ctl[2][1] = "list" /\ ctl[2][2] # <<>> /\ ~IsForm
    /\ Eval(Head(ctl[2][2]), Append(stack, [k |-> "first", args |-> Args, vals |-> <<>>]))
    /\ Quiet /\ UNCHANGED env
-----------------------------------------------------------------------------
\* A frame of this kind is given the value v.
Given(kind) == ctl[1] = "ok" /\ stack # <<>> /\ Top.k = kind
v == ctl[2]

if_tested ==
    /\ Given("if")
    /\ LET i == IF v = <<"bool", TRUE>> THEN 2 ELSE 3 IN
       IF v[1] # "bool" \/ i \notin DOMAIN Top.args THEN Go(Err("if"), Below)
       ELSE Eval(Top.args[i], Below)
    /\ Quiet /\ UNCHANGED env

def_bound ==
    /\ Given("def")
    /\ env' = Bind(env, Top.args[1][2], v)
    /\ Go(<<"ok", Top.args[1]>>, Below)
    /\ Quiet

\* and stops at the first false, or at the first true.
and_or_tested ==
    /\ Given("and") \/ Given("or")
    /\ IF v[1] # "bool" THEN Go(Err("expects booleans"), Below)
       ELSE IF v[2] = (Top.k = "or") \/ Len(Top.args) = 1 THEN Go(ctl, Below)
       ELSE Eval(Top.args[2], Append(Below, [Top EXCEPT !.args = Tail(@)]))
    /\ Quiet /\ UNCHANGED env

do_next ==
    /\ Given("do")
    /\ IF Len(Top.args) = 1 THEN Go(ctl, Below)
       ELSE Eval(Top.args[2], Append(Below, [Top EXCEPT !.args = Tail(@)]))
    /\ Quiet /\ UNCHANGED env

\* The condition and the body in turn; vals tells them apart.
for_next ==
    /\ Given("for")
    /\ IF Top.vals # <<>> THEN Eval(Top.args[1], Append(Below, [Top EXCEPT !.vals = <<>>]))
       ELSE IF v[1] # "bool" THEN Go(Err("loop condition must be boolean"), Below)
       ELSE IF v[2] THEN Eval(Top.args[2], Append(Below, [Top EXCEPT !.vals = <<v>>]))
       ELSE Go(ctl, Below)
    /\ Quiet /\ UNCHANGED env

\* The list is read after the value is evaluated.
append_value ==
    /\ Given("append")
    /\ LET name == Top.args[1]
           l == <<"list", Append(env[name[2]][2], v)>>
       IN  IF ~Holds(name, "list") THEN Go(Err("not a list"), Below) /\ UNCHANGED env
           ELSE Go(<<"ok", l>>, Below) /\ env' = Bind(env, name[2], l)
    /\ Quiet

\* The key, and then the value, are evaluated before the map is read.
mset_value ==
    /\ Given("mset")
    /\ LET name == Top.args[1] IN
       IF Top.vals = <<>>
       THEN /\ IF exp_to_key(v)[1] = "err" THEN Go(exp_to_key(v), Below)
               ELSE Eval(Top.args[3], Append(Below, [Top EXCEPT !.vals = <<v>>]))
            /\ UNCHANGED env
       ELSE IF ~Holds(name, "map") THEN Go(Err("not a map"), Below) /\ UNCHANGED env
       ELSE /\ Go(ctl, Below)
            /\ env' = Bind(env, name[2], <<"map", Bind(env[name[2]][2], Top.vals[1], v)>>)
    /\ Quiet

mdel_key ==
    /\ Given("mdel")
    /\ LET name == Top.args[1]
           old == env[name[2]][2]
       IN  IF exp_to_key(v)[1] = "err" THEN Go(exp_to_key(v), Below) /\ UNCHANGED env
           ELSE IF ~Holds(name, "map") THEN Go(Err("not a map"), Below) /\ UNCHANGED env
           ELSE /\ Go(<<"ok", <<"bool", TRUE>>>>, Below)
                /\ env' = Bind(env, name[2], <<"map", [x \in DOMAIN old \ {v} |-> old[x]]>>)
    /\ Quiet
-----------------------------------------------------------------------------
\* The parameters, each with its argument.
Params(f, args) ==
    LET ks == [i \in DOMAIN args |-> f.params[2][i][2]]
    IN  Seqs!FoldLeft(LAMBDA m, i : Bind(m, ks[i], args[i]), <<>>, [i \in DOMAIN args |-> i])

Callable(f, args) ==
    /\ f.params[1] = "list" /\ Len(f.params[2]) = Len(args)
    /\ \A i \in DOMAIN f.params[2] : f.params[2][i][1] = "sym"

\* A bug: the caller's bindings override the captured ones.
env_for_lambda_CallerWins(f, args) == Params(f, args) @@ env @@ f.captured

\* A copy of the caller's environment, overridden by the captured one and that by
\* the parameters.
env_for_lambda(f, args) == Params(f, args) @@ f.captured @@ env

\* The body runs in an environment of its own; the caller's is kept for its end.
call(f, args, st) ==
    IF ~Callable(f, args) THEN Go(Err("expected arguments"), st) /\ UNCHANGED env
    ELSE /\ Eval(f.body, Append(st, [k |-> "call", f |-> f, vals |-> args, saved |-> env]))
         /\ env' = env_for_lambda(f, args)

apply(f, args, st) ==
    IF f[1] = "lambda" THEN call(f[2], args, st)
    ELSE Go(builtin(f[2], args), st) /\ UNCHANGED env

\* The function comes first, and must be one before an argument is evaluated.
apply_value ==
    /\ Given("first")
    /\ LET vals == Append(Top.vals, v)
           done == Len(vals) > Len(Top.args)
       IN  IF Top.vals = <<>> /\ v[1] \notin {"func", "lambda"}
           THEN Go(Err("first form must be a function"), Below) /\ UNCHANGED env
           ELSE IF done THEN apply(vals[1], Tail(vals), Below)
           ELSE Eval(Top.args[Len(vals)], Append(Below, [Top EXCEPT !.vals = vals])) /\ UNCHANGED env
    /\ Quiet

\* A bug: the caller goes on in the environment of the call.
call_returns_InPlace ==
    /\ Given("call")
    /\ Go(ctl, Below) /\ UNCHANGED env
    /\ Quiet

call_returns ==
    /\ Given("call")
    /\ Go(ctl, Below) /\ env' = Top.saved
    /\ Quiet

\* The handler bound to `error` runs, if it is a function of one parameter.
error_message ==
    /\ Given("error")
    /\ LET h == env[<<"error">>]
           st == Append(Below, [k |-> "handler", vals |-> <<v>>])
       IN  IF <<"error">> \in DOMAIN env /\ h[1] = "lambda" /\ Callable(h[2], <<v>>)
           THEN call(h[2], <<v>>, st)
           ELSE Go(<<"raised", Display(v)>>, Below) /\ UNCHANGED env
    /\ Quiet

\* What the handler came to is dropped; the message is the error.
handler_done ==
    /\ ctl[1] \in {"ok", "err", "raised"} /\ stack # <<>> /\ Top.k = "handler"
    /\ Go(<<"raised", Display(Top.vals[1])>>, Below)
    /\ Quiet /\ UNCHANGED env

\* `?`: an error ends the forms and calls that wait for it, up to a handler or a
\* program.
Unwind ==
    /\ Failing /\ stack # <<>> /\ Top.k \notin {"handler", "program"}
    /\ Go(ctl, Below)
    /\ env' = IF Top.k = "call" THEN Top.saved ELSE env
    /\ Quiet
-----------------------------------------------------------------------------
\* What a command comes to: the shell prints it, and the form sys goes on with it.
Result(r, args, st) ==
    IF st = <<>> THEN <<"idle", r>>
    ELSE IF r[1] = "ok" THEN <<"ok", <<"syscall", args>>>> ELSE Err("Syscall failed")
Reply(r, args, st) == Go(Result(r, args, st), st)

\* n0, n1, ... are the numbers among the arguments and b0, b1, ... the booleans.
Numbered(prefix, args) ==
    LET name(i) == <<prefix \o ToString(i - 1)>>
    IN  [k \in {name(i) : i \in DOMAIN args} |->
            parse_atom(args[CHOOSE i \in DOMAIN args : k = name(i)])]
Seeded == [k \in {<<"n0">>, <<"n1">>} |-> <<"num", 0>>]
          @@ [k \in {<<"b0">>, <<"b1">>} |-> <<"bool", FALSE>>]

\* The environment a program starts in.  The names of the commands override the
\* builtins, and (def error (fn (s) (sys echo s))) has been evaluated.
Fresh(args) ==
    LET bools == SelectSeq(args, LAMBDA a : a \in {<<"true">>, <<"false">>})
        nums == SelectSeq(args, LAMBDA a : \E n \in Numbers : a = Numeral(n))
        e == Numbered("b", bools) @@ Numbered("n", nums) @@ Seeded
             @@ [c \in DOMAIN cmds |-> <<"sym", c>>] @@ default_env
    IN  Bind(e, <<"error">>,
             <<"lambda", [params |-> <<"list", <<Sym("s")>>>>,
                          body |-> <<"list", <<Sym("sys"), Sym("echo"), Sym("s")>>>>,
                          captured |-> e]>>)

\* A program starts: expr has its name, its text and its arguments.
interpret(expr, args, st) ==
    LET code == statments(expr[2]) IN
    IF Len(expr) < 2 \/ code = <<>> THEN Reply(Err("no statements"), args, st) /\ UNCHANGED env
    ELSE /\ Go(<<"ok", "started">>,
               Append(st, [k |-> "program", code |-> code, verdict |-> <<"ok", "">>,
                           args |-> args, saved |-> env]))
         /\ env' = Fresh(SubSeq(expr, 3, Len(expr)))

\* The text it prints is left out.
echo(args, st) ==
    /\ Reply(IF Len(args) < 2 THEN Err("Not enough arguments!") ELSE <<"ok", "">>, args, st)
    /\ UNCHANGED <<cmds, env>>

bind(args, st) ==
    /\ IF Len(args) < 3 THEN Reply(Err("invalid number of args"), args, st) /\ UNCHANGED cmds
       ELSE /\ Reply(<<"ok", "">>, args, st)
            /\ cmds' = Bind(cmds, args[2], <<"bound", Join(SubSeq(args, 3, Len(args)))>>)
    /\ UNCHANGED env

parse_cmd(args, st) ==
    IF Len(args) < 2 THEN Reply(Err("expected at least two params"), args, st) /\ UNCHANGED env
    ELSE interpret(<<args[1], Join(Tail(args))>>, args, st)

\* The file system's lock is released before the script runs.
run_file(args, st) ==
    IF Len(args) < 2 \/ args[2] \notin DOMAIN Files
    THEN Reply(Err("Script not found"), args, st) /\ UNCHANGED env
    ELSE interpret(<<<<"exec">>, Files[args[2]]>> \o SubSeq(args, 3, Len(args)), args, st)

command(c, args, st) ==
    \/ c[1] = "echo" /\ echo(args, st)
    \/ c[1] = "bind" /\ bind(args, st)
    \/ c[1] = "parse" /\ parse_cmd(args, st) /\ UNCHANGED cmds
    \/ c[1] = "run" /\ run_file(args, st) /\ UNCHANGED cmds
    \/ /\ c[1] = "bound" /\ interpret(<<<<"exec">>, c[2]>> \o Tail(args), args, st)
       /\ UNCHANGED cmds

\* A bug: COMMANDS stays locked while the command runs.
run_cmd_HoldsLock(args, st) ==
    /\ ~held
    /\ IF args[1] \in DOMAIN cmds THEN command(cmds[args[1]], args, st)
       ELSE Reply(Err("command not found"), args, st) /\ UNCHANGED <<cmds, env>>
    /\ held' = (stack' # st)

\* The command is looked up under the lock, and runs when it is released.
run_cmd(args, st) ==
    /\ ~held /\ held' = FALSE
    /\ IF args[1] \in DOMAIN cmds THEN command(cmds[args[1]], args, st)
       ELSE Reply(Err("command not found"), args, st) /\ UNCHANGED <<cmds, env>>

\* The commands modelled print their result themselves (print_code is false).
sys_value ==
    /\ Given("sys")
    /\ LET vals == Append(Top.vals, v)
           unfit == \E i \in DOMAIN vals : vals[i][1] \in {"func", "lambda", "syscall"}
       IN  IF Len(vals) < Len(Top.args)
           THEN /\ Eval(Top.args[Len(vals) + 1], Append(Below, [Top EXCEPT !.vals = vals]))
                /\ UNCHANGED <<cmds, held, env>>
           ELSE IF unfit THEN Go(Err("sys args"), Below) /\ UNCHANGED <<cmds, held, env>>
           ELSE run_cmd([i \in DOMAIN vals |-> Display(vals[i])], Below)
    /\ UNCHANGED boundvars

\* What the reader makes of each statement.
Reading == [code \in Statements \cup Texts |-> parse(tokenize(code)).r]

\* A statement is read and evaluated.
parse_eval(code, st) ==
    LET r == Reading[code] IN
    Go(IF r[1] = "ok" THEN <<"eval", r[2]>> ELSE IF r[1] = "err" THEN Err(r[2]) ELSE r, st)

\* The program with the outcome of the statement that is over: an error is kept,
\* and the statements after it run all the same.
Judged == [Top EXCEPT !.verdict = IF Failing THEN ctl ELSE @]
AtProgram == ctl[1] \in {"ok", "err", "raised"} /\ stack # <<>> /\ Top.k = "program"
Open == Len(stack) = 1 /\ Top.args = <<>>   \* the program entered at the prompt

program_next ==
    /\ AtProgram /\ Top.code # <<>>
    /\ parse_eval(Head(Top.code), Append(Below, [Judged EXCEPT !.code = Tail(@)]))
    /\ Quiet /\ UNCHANGED env

NoStatement == [exp |-> <<"list", <<>>>>, env |-> <<>>]

program_ends ==
    /\ AtProgram /\ Top.code = <<>> /\ (Open => ran > 0)
    /\ Go(Result(Judged.verdict, Top.args, Below), Below)
    /\ env' = Top.saved
    /\ ran' = (IF Below = <<>> THEN 0 ELSE ran)
    /\ start' = (IF Below = <<>> THEN NoStatement ELSE start)
    /\ UNCHANGED <<cmds, held, lines>>
-----------------------------------------------------------------------------
init_cmds == [c \in {<<"echo">>, <<"bind">>, <<"parse">>, <<"run">>} |-> <<c[1]>>]

Init ==
    /\ cmds = init_cmds /\ held = FALSE /\ ctl = <<"idle", <<"ok", "">>>>
    /\ stack = <<>> /\ env = <<>> /\ lines = 0 /\ ran = 0
    /\ start = NoStatement

\* The shell runs a line.
Enter ==
    /\ ctl[1] = "idle" /\ lines < MaxLines
    /\ \E line \in CommandLines : run_cmd(line, <<>>)
    /\ lines' = lines + 1
    /\ UNCHANGED <<ran, start>>

\* The shell starts a program whose statements follow.
Begin ==
    /\ ctl[1] = "idle" /\ lines < MaxLines
    /\ \E args \in Programs : env' = Fresh(args)
    /\ Go(<<"ok", "started">>, <<[k |-> "program", code |-> <<>>, verdict |-> <<"ok", "">>,
                                 args |-> <<>>, saved |-> <<>>]>>)
    /\ lines' = lines + 1
    /\ UNCHANGED <<cmds, held, ran, start>>

Expression(code) == IF Reading[code][1] = "ok" THEN Reading[code][2] ELSE <<"list", <<>>>>

\* The next statement of that program.
Statement ==
    /\ AtProgram /\ Open /\ ran < MaxStatements
    /\ \E code \in Statements :
          /\ parse_eval(code, <<Judged>>)
          /\ start' = [exp |-> Expression(code), env |-> env]
    /\ ran' = ran + 1
    /\ UNCHANGED <<cmds, held, env, lines>>

Step ==
    \/ Deep \/ eval_atom \/ eval_form \/ eval_lambda_args \/ eval_quote \/ eval_pop \/ eval_first
    \/ if_tested \/ def_bound \/ and_or_tested \/ do_next \/ for_next
    \/ append_value \/ mset_value \/ mdel_key
    \/ apply_value \/ call_returns \/ error_message \/ handler_done \/ Unwind
    \/ sys_value \/ program_next \/ program_ends

Next == Enter \/ Begin \/ Statement \/ Step

\* The executor polls the shell's future, and the interpreter inside it, on and on.
Spec == Init /\ [][Next]_lvars /\ WF_lvars(Step)
-----------------------------------------------------------------------------
RECURSIVE Targets(_)
\* The names that an expression assigns itself, outside the functions and the data
\* in it.
Targets(exp) ==
    IF exp[1] # "list" \/ exp[2] = <<>> \/ Head(exp[2]) \in {Sym("fn"), Sym("quote")} THEN {}
    ELSE UNION {Targets(exp[2][i]) : i \in DOMAIN exp[2]}
         \cup (IF /\ Head(exp[2]) \in {Sym("def"), Sym("append"), Sym("pop"), Sym("mset"), Sym("mdel")}
                  /\ Len(exp[2]) >= 2 /\ exp[2][2][1] = "sym"
               THEN {exp[2][2][2]} ELSE {})

Same(e, f, k) == k \in DOMAIN e /\ k \in DOMAIN f /\ e[k] = f[k]

\* A statement changes no binding of its program but the ones it assigns by name
\* itself: not in the functions it calls, in the error handler, in the bound
\* commands and scripts it reaches, nor when it fails half way through them.
OnlyTargetsChange ==
    AtProgram /\ Open /\ ran > 0 =>
        \A k \in (DOMAIN env \cup DOMAIN start.env) \ Targets(start.exp) : Same(env, start.env, k)

\* The environment that frame i runs in.
EnvOf(i) ==
    LET owners == {j \in i + 1 .. Len(stack) : stack[j].k \in {"call", "program"}}
    IN  IF owners = {} THEN env ELSE stack[Min(owners)].saved

\* While a function runs, its parameters are its arguments and the names it has
\* captured have the values they had when it was made, except the ones its body
\* assigns itself: whatever the caller has bound, and whatever the calls, handlers
\* and commands inside it have done.
CapturedBindingsHold ==
    \A i \in DOMAIN stack : stack[i].k = "call" =>
        LET f == stack[i].f
            own == Params(f, stack[i].vals) @@ f.captured
        IN  \A k \in DOMAIN own \ Targets(f.body) : Same(EnvOf(i), own, k)

RECURSIVE Symbols(_)
Symbols(exp) ==
    CASE exp[1] = "sym" -> {exp[2]}
      [] exp[1] = "list" -> UNION {Symbols(exp[2][i]) : i \in DOMAIN exp[2]}
      [] OTHER -> {}

RECURSIVE Closed(_)
\* A function that does not loop and has captured all it uses, down to the
\* functions it calls.
Closed(f) ==
    LET free == Symbols(f.body) \ (Symbols(f.params) \cup {<<w>> : w \in Forms \ {"error", "for"}})
    IN  \A k \in free : /\ k \in DOMAIN f.captured
                        /\ f.captured[k][1] = "lambda" => Closed(f.captured[k][2])

\* The program loops or recurses, or may: it has a `for`, a function that is not
\* closed, or a bound command that calls a bound command, itself included, through
\* the error handler's echo or with a function or a script of its own.
MayLoop ==
    LET bound == {c \in DOMAIN cmds : cmds[c][1] = "bound"}
        loops == {"for", "fn", "run"} \cup {c[1] : c \in bound}
                 \cup (IF <<"echo">> \in bound THEN {"error"} ELSE {})
    IN  \/ \E c \in bound : Range(cmds[c][2]) \cap loops # {}
        \/ <<"for">> \in Symbols(start.exp)
        \/ \E k \in DOMAIN start.env : start.env[k][1] = "lambda" /\ ~Closed(start.env[k][2])

\* A statement comes back to its program when nothing in it may loop: a function
\* cannot reach itself through what it has captured, not even when it redefines a
\* function of its own name, and no command waits for COMMANDS' lock.
EndsWithoutLoops == (stack # <<>> /\ ~MayLoop) ~> (AtProgram /\ Open) \/ stack = <<>> \/ MayLoop

\* docs/lisp.md: (error "message") runs the handler "and then forcefully terminates
\* the program": no statement starts after one that raised an error.
ErrorEndsProgram == ctl[1] = "eval" /\ Len(stack) = 1 => Top.verdict[1] # "raised"
=============================================================================
