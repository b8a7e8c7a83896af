------------------------ MODULE ReviewStoreProperties ------------------------
(***************************************************************************)
(* What ReviewStore is meant to guarantee.  The first group holds for any  *)
(* number of stores on one file; the second only while one store has the   *)
(* file to itself; the last is what the documentation says and the code    *)
(* does not keep.                                                          *)
(***************************************************************************)
EXTENDS ReviewStore

Ledger == INSTANCE ReviewLedger WITH Reviews <- Reviews, status <- status, log <- log

-----------------------------------------------------------------------------
(* Any number of stores. *)

\* The UPDATE and the audit INSERT of a transition commit together: whatever
\* crashes, times out or is retried inside a transaction left open, a stored
\* status is the new_state of the review's newest audit row, and no row
\* records a transition the lifecycle forbids.
AuditTrailSound ==
    \A r \in Reviews :
        /\ status[r] # Absent => status[r] = StatusAfter(log[r])
        /\ LegalRows(log[r])

\* Once apply_transition has committed, and so before its caller hears of it,
\* its audit row is in the file and stays there: only a purge removes it.
AcknowledgedIsRecorded ==
    \A t \in Threads : pc[t] = "reread" =>
        LET r == rev[t]
        IN  \/ status[r] = Absent
            \/ \E k \in 1..Len(log[r]) : log[r][k] = [prior |-> seen[t], new |-> want[t]]

\* Audit rows are insert-only: a step keeps the rows of a review and may add
\* to them, or is the purge that removes the review with all of them.
HistoryAppendOnly ==
    [][\A r \in Reviews :
          \/ /\ Len(log'[r]) >= Len(log[r])
             /\ \A k \in 1..Len(log[r]) : log'[r][k] = log[r][k]
          \/ status'[r] = Absent /\ log'[r] = <<>>]_vars

\* No call keeps a store's lock for ever: every path through a critical
\* section, the error paths and the waits on the file included, releases it.
LockAlwaysFreed == \A s \in Stores : lock[s] # Nobody ~> lock[s] = Nobody

-----------------------------------------------------------------------------
(* One store on the file. *)

\* The SQL statements, critical sections and crashes of the store amount to
\* the atomic ledger: every commit is one creation, one legal transition with
\* its audit row, or one purge.
ImplementsLedger == Ledger!Spec

\* The audit rows of a review are a run of the lifecycle from OPEN to its
\* stored status, and a review that is gone has no rows.
LedgerConsistent == Ledger!LedgerConsistent

\* RESOLVED and ESCALATED are left only by a purge.
TerminalIsFinal ==
    [][\A r \in Reviews :
          status[r] \in Terminal => status'[r] \in {status[r], Absent}]_vars

\* The store never leaves a transaction, nor a lock on the file, behind when
\* it lets the next thread in, although no error path rolls back.
NoTransactionLeftOpen ==
    \A s \in Stores : lock[s] = Nobody => tx[s] = "none"

\* What apply_transition returns is read after its critical section: it shows
\* the requested status, or one some later transition reached from it, or
\* None once the review was purged; never an earlier one.
ReplyNotEarlier ==
    [][\A t \in Threads :
          pc[t] = "reread" /\ pc'[t] = "idle" /\ reply'[t].kind = "updated" =>
              reply'[t].status \in {want[t], Absent} \cup ALLOWED_TRANSITIONS[want[t]]]_vars

-----------------------------------------------------------------------------
(* One thread opens reviews. *)

\* A case has at most one review that is not terminal: opening again returns
\* the review already open.  True only while opens do not overlap.
OneOpenReviewPerCase ==
    \A r1, r2 \in Reviews :
        /\ CaseOf[r1] = CaseOf[r2]
        /\ status[r1] \in NonTerminal
        /\ status[r2] \in NonTerminal
        => r1 = r2
=============================================================================
