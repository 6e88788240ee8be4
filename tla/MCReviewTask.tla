---------------------------- MODULE MCReviewTask ----------------------------
(* Instances of ReviewTask for TLC.                                        *)
EXTENDS ReviewTask, TLC

CONSTANTS c1, c2, f1, f2, p1, p2

\* One commit, delivered twice by the sender; the second delivery has no
\* pr_number.
OneCommit == p1 :> c1 @@ p2 :> c1

OnePush == p1 :> c1

\* Two commits.
TwoCommits == p1 :> c1 @@ p2 :> c2

OneFile == [c \in Commits |-> {f1}]

TwoFiles == [c \in Commits |-> {f1, f2}]

\* The outcome a green check needs, and one that forbids it.
TwoOutcomes == {[status |-> "completed", critical |-> FALSE],
                [status |-> "degraded", critical |-> FALSE]}

=============================================================================
