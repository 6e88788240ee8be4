---------------------------- MODULE MCPublisher ----------------------------
(* Instances of Publisher for TLC.                                         *)
EXTENDS Publisher, TLC

CONSTANTS worker, cli

\* One result for each of the three decisions.
ThreeOutcomes == {[status |-> "completed", critical |-> FALSE],
                  [status |-> "completed", critical |-> TRUE],
                  [status |-> "degraded", critical |-> FALSE]}

Symmetry == Permutations(Publishers)

=============================================================================
