----------------------------- MODULE MCReviewPr -----------------------------
(* Instances of ReviewPr for TLC.                                          *)
EXTENDS ReviewPr

CONSTANTS a, b

TwoPaths == {a, b}

Alphabetical == [S \in SUBSET Paths |-> SelectSeq(<<a, b>>, LAMBDA p : p \in S)]

\* Lines: "ok", "bug" (the finding has a fix for the line), "wide" (a fix for
\* the line and the one after it), "leak" (critical, without a fix).
\* In OverlapFile the first two findings are in conflict, the third is not.
OverlapFile == <<"wide", "bug", "bug">>
OverlapLeft == <<"wide", "bug", "ok">>
SpreadFile  == <<"wide", "ok", "bug", "leak">>
SpreadLeft  == <<"ok", "ok", "leak">>
FourFiles == {OverlapFile, OverlapLeft, SpreadFile, SpreadLeft}

Finding(n, end, fix, hasFix, critical) ==
    [line |-> n, end |-> end, fix |-> fix, has_fix |-> hasFix, critical |-> critical]

FindingsAt(c, n) ==
    CASE c[n] = "bug"  -> <<Finding(n, 0, <<"ok">>, TRUE, FALSE)>>
      [] c[n] = "wide" -> <<Finding(n, n + 1, <<"ok">>, TRUE, FALSE)>>
      [] c[n] = "leak" -> <<Finding(n, 0, << >>, FALSE, TRUE)>>
      [] OTHER -> << >>

Checked(c) == FlattenSeq([n \in DOMAIN c |-> FindingsAt(c, n)])

\* The model answers, with a fix for a line past the end of the file and a remark
\* on the first two lines; or it does not.
Remarks == <<Finding(9, 0, <<"ok">>, TRUE, FALSE), Finding(1, 2, << >>, FALSE, FALSE)>>

TwoReviews == [c \in Contents |->
    {[status |-> "completed", findings |-> Checked(c) \o Remarks],
     [status |-> "degraded", findings |-> Checked(c)]}]

ASSUME FindingsDiffer

TwoFiles == {a :> SpreadFile @@ b :> OverlapFile}

=============================================================================
