------------------------------- MODULE PyFile -------------------------------
(***************************************************************************)
(* The Python files that the checkers of src/analyzers read and rewrite,   *)
(* as far as a fix can tell them apart: whether the lines still parse, and *)
(* how a call of the function ends.                                        *)
(*                                                                         *)
(* A file is one function of the parameters Params, a sequence of lines    *)
(* [indent, form, does].  "open" and "close" are the first and the last    *)
(* line of a simple statement that is too long for one.  What a line does  *)
(* is [act, var, n, of]; every variable holds a number: a value, a length, *)
(* or 1 for a key, an object or a path that exists and 0 for one that does *)
(* not.  An access to n fails when the variable has no more than n.        *)
(***************************************************************************)
EXTENDS Integers, Sequences, SequencesExt, FiniteSetsExt

CONSTANT Params          \* the names of the function's parameters

Does(act, var, n, of) == [act |-> act, var |-> var, n |-> n, of |-> of]
Line(indent, form, does) == [indent |-> indent, form |-> form, does |-> does]
IsLine(l) ==
    /\ l = Line(l.indent, l.form, l.does) /\ l.indent \in Int
    /\ l.does = Does(l.does.act, l.does.var, l.does.n, l.does.of) /\ l.does.n \in Nat

\* v[0], t / v, t / len(v), v["key"], v.attr, open(v), int(v)
Raises == [index |-> "IndexError", div |-> "ZeroDivisionError",
           divlen |-> "ZeroDivisionError", key |-> "KeyError",
           attr |-> "AttributeError", open |-> "FileNotFoundError",
           int |-> "ValueError"]
Accesses == DOMAIN Raises

\* The tests of an if: true when the variable has more than n, or no more.
MoreThan == {"v", "len >", ">", "in", "is not None", "exists"}
NoMore == {"not v", "len <=", "len ==", "==", "not in", "is None"}

Heads == {"def", "if", "with", "try", "except"}
Test(act, var, n) == Does(act, var, n, "none")

-----------------------------------------------------------------------------
(* ast.parse()                                                             *)

\* A line at the indentation of line k follows it, with deeper ones between.
Sibling(lines, k, j) ==
    /\ k < j /\ lines[j].indent = lines[k].indent
    /\ \A m \in k + 1 .. j - 1 : lines[m].indent > lines[k].indent

Blocks(lines) ==
    \A k \in DOMAIN lines :
        /\ IF k = 1 THEN lines[1].indent = 0
           ELSE \/ lines[k].indent > lines[k - 1].indent
                \/ \E j \in 1 .. k - 1 : Sibling(lines, j, k)
        /\ lines[k].form \in Heads <=>
               k < Len(lines) /\ lines[k + 1].indent > lines[k].indent
        /\ lines[k].form = "try" =>
               \E j \in DOMAIN lines : lines[j].form = "except" /\ Sibling(lines, k, j)
        /\ lines[k].form = "except" =>
               \E j \in 1 .. k - 1 : lines[j].form = "try" /\ Sibling(lines, j, k)

Statements(lines) ==
    \A k \in 0 .. Len(lines) :
        (k > 0 /\ lines[k].form = "open")
            <=> (k < Len(lines) /\ lines[k + 1].form = "close")

Parses(lines) ==
    /\ Statements(lines)
    /\ Blocks(SelectSeq(lines, LAMBDA l : l.form # "close"))

-----------------------------------------------------------------------------
(* A call of the function.  A run is [env, json, over, deep]: the bound    *)
(* variables, what a response would hold, the exception on its way ("none" *)
(* if there is none, "return" on the way out) and the indentation beyond   *)
(* which lines are passed over.                                            *)

Deepest == 99

Reads(d) == IF d.act = "get" THEN {d.of}
            ELSE IF d.act \in Accesses \cup MoreThan \cup NoMore \cup {"grow"}
                 THEN {d.var} ELSE {}

Failure(d, env) ==
    IF ~ Reads(d) \subseteq DOMAIN env THEN "UnboundLocalError"
    ELSE IF d.act \in Accesses /\ env[d.var] <= d.n THEN Raises[d.act]
    ELSE IF d.act = "raise" THEN d.of
    ELSE IF d.act = "return" THEN "return" ELSE "none"

Holds(d, env) == IF d.act \in MoreThan THEN env[d.var] > d.n ELSE env[d.var] <= d.n

Bind(d, run) ==
    LET With(x) == [v \in DOMAIN run.env \cup {d.var} |-> IF v = d.var THEN x ELSE run.env[v]]
    IN  IF d.act = "set" THEN With(d.n)
        ELSE IF d.act = "get" THEN With(IF run.env[d.of] > d.n THEN 1 ELSE 0)
        ELSE IF d.act = "json" THEN With(run.json)
        ELSE IF d.act = "grow" THEN With(run.env[d.var] + 1)
        ELSE run.env

Reached(run, line) ==
    run.over = "none" /\ line.indent <= run.deep /\ line.form \notin {"except", "close"}

Step(run, line) ==
    IF line.indent > run.deep \/ line.form = "close" THEN run
    ELSE IF run.over # "none"
    THEN IF line.form = "except" /\ line.indent < run.deep
              /\ run.over # "return" /\ line.does.of \in {run.over, "Exception"}
         THEN [run EXCEPT !.over = "none", !.deep = Deepest]
         ELSE [run EXCEPT !.deep = line.indent]
    ELSE IF line.form = "except" THEN [run EXCEPT !.deep = line.indent]
    ELSE LET failure == Failure(line.does, run.env)
         IN  IF failure # "none" THEN [run EXCEPT !.over = failure, !.deep = line.indent]
             ELSE [run EXCEPT
                     !.env = Bind(line.does, run),
                     !.deep = IF line.form = "if" /\ ~Holds(line.does, run.env)
                              THEN line.indent ELSE Deepest]

\* in gives the arguments and, as "json", the content of a response.
Run(lines, in) ==
    LET after[k \in 0 .. Len(lines)] ==
            IF k = 0 THEN [env |-> [v \in Params |-> in[v]], json |-> in["json"],
                           over |-> "none", deep |-> Deepest]
            ELSE Step(after[k - 1], lines[k])
    IN  after[Len(lines)]

=============================================================================
