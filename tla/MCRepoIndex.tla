---------------------------- MODULE MCRepoIndex -----------------------------
(***************************************************************************)
(* Two files, one of which says all sorts of things.                       *)
(***************************************************************************)
EXTENDS RepoIndex

Line(form, text) == [form |-> form, text |-> text]
Lines == {Line("def", "f"), Line("body", "f"), Line("code", "x"), Line("blank", "")}

\* A body belongs to what begins above it; lines are not repeated, except for
\* functions.
WellFormed(lines) ==
    \A k \in DOMAIN lines :
        /\ lines[k].form = "body" => k > 1 /\ lines[k - 1].form = "def"
        /\ k > 1 /\ lines[k].form # "def" => lines[k] # lines[k - 1]

Content(parses, lines) == [parses |-> parses, lines |-> lines]
Short == {lines \in UNION {[1 .. n -> Lines] : n \in 0 .. 3} : WellFormed(lines)}

MCFiles == {"a.py", "b.py"}
Other == Content(TRUE, <<Line("def", "f")>>)
MCWritten ==
    "a.py" :> {Content(TRUE, lines) : lines \in Short}
                 \cup {Content(FALSE, <<Line("code", "x")>> \o lines) :
                         lines \in {s \in Short : Len(s) <= 1}}
    @@ "b.py" :> {Other, NoFile}
MCRevisions ==
    "a.py" :> {Content(TRUE, << >>), Content(TRUE, <<Line("code", "y"), Line("def", "f")>>)}
    @@ "b.py" :> {NoFile, Other}

=============================================================================
