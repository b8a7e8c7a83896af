---------------------------- MODULE ReviewModels ----------------------------
(***************************************************************************)
(* The vocabulary of src/src/review/models.py: the states of a review, the *)
(* lifecycle table, and the audit entries that record its transitions.     *)
(* Free text (rationale, correction, analyst_action) is left out: no code  *)
(* path branches on it.                                                    *)
(***************************************************************************)
EXTENDS Naturals, Sequences

ReviewStatus == {"OPEN", "IN_REVIEW", "RESOLVED", "ESCALATED"}

\* No row for the review id: what a SELECT that finds nothing returns.
Absent == "ABSENT"
StatusOrAbsent == ReviewStatus \cup {Absent}

ALLOWED_TRANSITIONS ==
    [s \in ReviewStatus |->
        CASE s = "OPEN"      -> {"IN_REVIEW"}
          [] s = "IN_REVIEW" -> {"RESOLVED", "ESCALATED"}
          [] OTHER           -> {}]

\* The states find_open_review_for_case looks for.
NonTerminal == {"OPEN", "IN_REVIEW"}
Terminal == {s \in ReviewStatus : ALLOWED_TRANSITIONS[s] = {}}

\* The columns of a review_audit_log row that carry state.
AuditEntry == [prior : ReviewStatus, new : ReviewStatus]

\* The status the history h leaves a review in; a review is created OPEN.
StatusAfter(h) == IF h = <<>> THEN "OPEN" ELSE h[Len(h)].new

\* No row of h records a change the lifecycle table does not list.
LegalRows(h) == \A k \in 1..Len(h) : h[k].new \in ALLOWED_TRANSITIONS[h[k].prior]

\* h is a run of the lifecycle: each entry starts where the one before ended.
Chained(h) ==
    /\ LegalRows(h)
    /\ \A k \in 1..Len(h) : h[k].prior = IF k = 1 THEN "OPEN" ELSE h[k-1].new
=============================================================================
