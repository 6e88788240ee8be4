---------------------------- MODULE MCReviewCode ----------------------------
(* Instances of ReviewCode for TLC.                                        *)
EXTENDS ReviewCode, TLC

CONSTANTS p1, p2, f1, f2, f3, f4

=============================================================================
