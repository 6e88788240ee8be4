-------------------------------- MODULE Gate --------------------------------
(***************************************************************************)
(* The verdict on one review: core/pr_gate.py, the parts of                *)
(* core/models.py it reads, the conclusion integrations/github_client.py   *)
(* gives the check run and the significance test of                        *)
(* notifications/notifier.py.                                              *)
(*                                                                         *)
(* A ReviewResult is abstracted to what these four tell apart: its status  *)
(* and whether any of its findings is critical.                            *)
(***************************************************************************)

ReviewStatus == {"completed", "degraded", "failed"}

Results == [status : ReviewStatus, critical : BOOLEAN]

GateDecision == {"approve", "block", "review_required"}

\* Mutant of Decide: the status is only looked at when there is a critical
\* finding, so an incomplete review that found nothing is approved.
DecideOnFindings(r) ==
    IF ~r.critical THEN "approve"
    ELSE IF r.status = "completed" THEN "block" ELSE "review_required"

Decide(r) ==
    IF r.status # "completed" THEN "review_required"
    ELSE IF r.critical THEN "block" ELSE "approve"

Conclusions == {"success", "failure", "action_required"}

Conclusion(d) ==
    CASE d = "approve"         -> "success"
      [] d = "block"           -> "failure"
      [] d = "review_required" -> "action_required"

ShouldNotify(r) == r.status # "completed" \/ r.critical

=============================================================================
