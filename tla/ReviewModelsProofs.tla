-------------------------- MODULE ReviewModelsProofs --------------------------
(***************************************************************************)
(* What appending one audit entry does to a history, and that the purge's  *)
(* empty history is sound.                                                 *)
(***************************************************************************)
EXTENDS ReviewModels, TLAPS

\* The status a history leaves a review in is that of its newest entry.
LEMMA StatusAfterAppend ==
    ASSUME NEW h \in Seq(AuditEntry), NEW row \in AuditEntry
    PROVE  StatusAfter(Append(h, row)) = row.new
  BY DEF StatusAfter

\* A permitted transition keeps a history legal.
LEMMA LegalRowsAppend ==
    ASSUME NEW h \in Seq(AuditEntry), NEW row \in AuditEntry,
           LegalRows(h), row.new \in ALLOWED_TRANSITIONS[row.prior]
    PROVE  LegalRows(Append(h, row))
  BY DEF LegalRows

\* A permitted transition out of the status a run ended in extends the run.
LEMMA ChainedAppend ==
    ASSUME NEW h \in Seq(AuditEntry), NEW row \in AuditEntry,
           Chained(h), row.new \in ALLOWED_TRANSITIONS[row.prior],
           row.prior = StatusAfter(h)
    PROVE  Chained(Append(h, row))
<1>1. LegalRows(Append(h, row))
  BY LegalRowsAppend DEF Chained
<1>2. ASSUME NEW k \in 1..Len(Append(h, row))
      PROVE  Append(h, row)[k].prior = IF k = 1 THEN "OPEN" ELSE Append(h, row)[k-1].new
  <2>1. CASE k \in 1..Len(h)
    BY <2>1 DEF Chained
  <2>2. CASE k = Len(h) + 1
    BY <2>2 DEF StatusAfter
  <2>3. QED
    BY <2>1, <2>2
<1>3. QED
  BY <1>1, <1>2 DEF Chained

\* A review without audit rows is a review just opened.
LEMMA EmptyHistory == LegalRows(<<>>) /\ Chained(<<>>) /\ StatusAfter(<<>>) = "OPEN"
  BY DEF LegalRows, Chained, StatusAfter
==============================================================================
