-------------------------- MODULE ReviewLedgerProofs --------------------------
(***************************************************************************)
(* The abstract ledger keeps every history a run of the lifecycle.         *)
(***************************************************************************)
EXTENDS ReviewLedger, ReviewModelsProofs

LedgerType ==
    /\ status \in [Reviews -> StatusOrAbsent]
    /\ log \in [Reviews -> Seq(AuditEntry)]

LedgerInv == LedgerType /\ LedgerConsistent

\* A creation, a transition and a purge each keep the ledger consistent.
LEMMA LedgerNext == LedgerInv /\ [Next]_ledgerVars => LedgerInv'
<1> SUFFICES ASSUME LedgerInv, [Next]_ledgerVars PROVE LedgerInv'
  OBVIOUS
<1> USE DEF LedgerInv, LedgerType, LedgerConsistent
<1>1. ASSUME NEW r \in Reviews, CreateReview(r) PROVE LedgerInv'
  BY <1>1, EmptyHistory DEF CreateReview, StatusOrAbsent, ReviewStatus, Absent
<1>2. ASSUME NEW r \in Reviews, NEW new \in ReviewStatus, ApplyTransition(r, new)
      PROVE  LedgerInv'
  <2> DEFINE row == [prior |-> status[r], new |-> new]
  <2>1. status[r] \in ReviewStatus /\ row \in AuditEntry
    BY <1>2 DEF ApplyTransition, StatusOrAbsent, AuditEntry
  <2>2. Chained(log[r]) /\ row.prior = StatusAfter(log[r])
    BY <1>2 DEF ApplyTransition
  <2>3. row.new \in ALLOWED_TRANSITIONS[row.prior]
    BY <1>2 DEF ApplyTransition
  <2>4. Chained(Append(log[r], row)) /\ StatusAfter(Append(log[r], row)) = new
    BY <2>1, <2>2, <2>3, ChainedAppend, StatusAfterAppend
  <2>5. /\ status' = [status EXCEPT ![r] = new]
        /\ log' = [log EXCEPT ![r] = Append(log[r], row)]
    BY <1>2 DEF ApplyTransition
  <2>6. LedgerType'
    BY <2>1, <2>5 DEF StatusOrAbsent
  <2>7. LedgerConsistent'
    BY <2>4, <2>5 DEF ReviewStatus, Absent
  <2>8. QED
    BY <2>6, <2>7
<1>3. ASSUME NEW r \in Reviews, PurgeReview(r) PROVE LedgerInv'
  <2>1. <<>> \in Seq(AuditEntry)
    OBVIOUS
  <2>2. QED
    BY <1>3, <2>1 DEF PurgeReview, StatusOrAbsent
<1>4. CASE UNCHANGED ledgerVars
  BY <1>4 DEF ledgerVars
<1>5. QED
  BY <1>1, <1>2, <1>3, <1>4 DEF Next

\* The ledger starts empty.
LEMMA LedgerStart == Init => LedgerInv
<1>1. <<>> \in Seq(AuditEntry)
  OBVIOUS
<1>2. QED
  BY <1>1 DEF Init, LedgerInv, LedgerType, LedgerConsistent, StatusOrAbsent

\* In every behaviour of the ledger the rows of a stored review are a run of
\* the lifecycle that ends in its status, and a purged one has none.
THEOREM LedgerAlwaysConsistent == Spec => []LedgerConsistent
<1>1. LedgerInv => LedgerConsistent
  BY DEF LedgerInv
<1>2. QED
  BY <1>1, LedgerStart, LedgerNext, PTL DEF Spec
===============================================================================
