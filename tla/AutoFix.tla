------------------------------ MODULE AutoFix -------------------------------
(***************************************************************************)
(* A file under review: every commit is reviewed, and the fixes on offer   *)
(* get into the file one at a time, when somebody accepts a suggestion, or *)
(* all at once, when review-pr is run with --auto-apply.                   *)
(***************************************************************************)
EXTENDS Checkers, ApplyFixes

CONSTANTS Files,        \* the files as their authors wrote them
          Inputs,       \* the arguments of a call
          MaxCommits    \* a bound: commits that apply fixes

ASSUME FilesAssumption == \A f \in Files : IsSeq(f) /\ \A k \in DOMAIN f : IsLine(f[k])
ASSUME InputsAssumption == Inputs \subseteq [Params \cup {"json"} -> Nat]

VARIABLES file,         \* its lines by now
          written,      \* its lines as they were written
          applied,      \* the findings whose fixes the last commit applied
          raised,       \* the exceptions that the fixes applied so far raise
          commits
vars == <<file, written, applied, raised, commits>>

Init ==
    /\ written \in {f \in Files : Parses(f)}
    /\ file = written
    /\ applied = {} /\ raised = {} /\ commits = 0

\* apply_fixes_to_file() and the push of what it made of the file.
Commit(findings) ==
    LET patch == Patch(file, SetToSeq(findings))
    IN  /\ patch.applied # << >>
        /\ file' = patch.lines
        /\ applied' = ToSet(patch.applied)
        /\ raised' = raised \cup {f.raises : f \in applied'}
        /\ commits' = commits + 1
        /\ UNCHANGED written

AutoApply(found) == Commit(found)

\* A suggestion of the review is accepted: a commit with its fix alone.
AcceptSuggestion(found) == \E f \in found : Commit({f})

\* Either follows a review of the file as it is.
Next ==
    /\ commits < MaxCommits
    /\ \E found \in {RunDeterministicCheckers(file)} :
           AutoApply(found) \/ AcceptSuggestion(found)

Spec == Init /\ [][Next]_vars

-----------------------------------------------------------------------------

\* A review that found something in a file can be repeated on what the fixes
\* made of it: no fix, and no combination of fixes, breaks the file.
StillParses == Parses(file)

\* Over all fixes a file has been given, a call ends as it did in the file as
\* it was written, or with an exception one of the fixes has announced; a call
\* that failed is not made to succeed.
FixesOnlyRaise ==
    file # written => \A in \in Inputs :
        LET was == Run(written, in)
            is == Run(file, in)
        IN  \/ is.over = was.over /\ is.env = was.env
            \/ is.over \in raised \ {"none"}

\* "Guaranteed every time this line runs": a run that comes to the line of a
\* CRITICAL literal finding fails there, unless the variable is not assigned but
\* grown somewhere (`count += 1`, `items.append()`), which is not looked at, or is
\* a parameter, which has its caller's value before it is assigned the literal.
CriticalIsCertain ==
    \A f \in RunDeterministicCheckers(file) :
        f.certain /\ f.var \notin Params /\ Sites(file, {"grow"}, f.var) = {} =>
            \A in \in Inputs :
                LET run == Run(SubSeq(file, 1, f.line - 1), in)
                IN  Reached(run, file[f.line])
                        => Failure(file[f.line].does, run.env) \notin {"none", "return"}

Found(lines, f) ==
    {g \in RunDeterministicCheckers(lines) :
        g.source = f.source /\ g.var = f.var /\ g.certain = f.certain}

Settled(f) ==
    Cardinality(Found(file', f)) <=
        Cardinality(Found(file, f)) - Cardinality(applied' \cap Found(file, f))

\* What a commit has fixed is not found again when it is reviewed: a checker
\* recognises the guard it asked for.  (A literal's raise leaves the access in
\* place and makes no such claim.)
GuardsAreRecognised == [][\A f \in applied' : ~f.certain => Settled(f)]_vars

=============================================================================
