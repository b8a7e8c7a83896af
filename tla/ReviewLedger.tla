---------------------------- MODULE ReviewLedger ----------------------------
(***************************************************************************)
(* What a review repository promises: each review is created OPEN, moves   *)
(* along the lifecycle one atomic transition at a time, each transition    *)
(* leaves one audit entry, and only a purge takes anything away, the       *)
(* review and its entries together.  ReviewStore implements this with a    *)
(* lock, a connection and several SQL statements.                          *)
(***************************************************************************)
EXTENDS ReviewModels

CONSTANTS Reviews       \* The ids a review may get.

VARIABLES status,       \* status[r]: the stored status, Absent if no row.
          log           \* log[r]: the audit entries of r, oldest first.

ledgerVars == <<status, log>>

Init ==
    /\ status = [r \in Reviews |-> Absent]
    /\ log = [r \in Reviews |-> <<>>]

\* ReviewRepository.create_review.
CreateReview(r) ==
    /\ status[r] = Absent
    /\ log[r] = <<>>
    /\ status' = [status EXCEPT ![r] = "OPEN"]
    /\ UNCHANGED log

\* ReviewRepository.apply_transition.
ApplyTransition(r, new) ==
    /\ status[r] # Absent
    /\ new \in ALLOWED_TRANSITIONS[status[r]]
    /\ status' = [status EXCEPT ![r] = new]
    /\ log' = [log EXCEPT ![r] = Append(@, [prior |-> status[r], new |-> new])]

\* ReviewRepository.purge_review.
PurgeReview(r) ==
    /\ status' = [status EXCEPT ![r] = Absent]
    /\ log' = [log EXCEPT ![r] = <<>>]

Next ==
    \E r \in Reviews :
        \/ CreateReview(r)
        \/ \E new \in ReviewStatus : ApplyTransition(r, new)
        \/ PurgeReview(r)

Spec == Init /\ [][Next]_ledgerVars
-----------------------------------------------------------------------------
\* The history of every stored review is a run of the lifecycle that ends in
\* the stored status; a review that is gone has left no entries.
LedgerConsistent ==
    \A r \in Reviews :
        IF status[r] = Absent
          THEN log[r] = <<>>
          ELSE Chained(log[r]) /\ status[r] = StatusAfter(log[r])
=============================================================================
