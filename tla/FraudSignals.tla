---------------------------- MODULE FraudSignals -----------------------------
(***************************************************************************)
(* src/fraud_signals: which findings of the other stages are also signals  *)
(* of fraud, and how severe.                                               *)
(***************************************************************************)
EXTENDS EvidenceValidation, IdentityResolution

Signal(category, severity) == [category |-> category, severity |-> severity]

TemporalAnomalyRules == {"TEMPORAL-ISSUE-NOT-FUTURE", "ISSUEDATE-BEFORE-EXPIRY", "DOB-BEFORE-ISSUE"}

\* The marker scan, the temporal anomalies, the extraction inconsistencies.
AssessDocumentFraudSignals(text, results) ==
    LET failed == {r.rule : r \in Failed(results)}
    IN  {Signal("tamper_marker", "CRITICAL") : m \in text.marks \cap {"tampered"}}
            \cup {Signal("temporal_anomaly", "HIGH") : r \in failed \cap TemporalAnomalyRules}
            \cup {Signal("field_inconsistency", "MEDIUM") : r \in failed \cap {"SCHEMA-001"}}
            \cup {Signal("extraction_inconsistency", "MEDIUM") : r \in failed \cap {"DOCNUM-FORMAT"}}

\* Sources in conflict, and documents of one type.
AssessCaseFraud(identity, duplicates) ==
    {Signal("identity_conflict", IF p.attribute = "date_of_birth" THEN "HIGH" ELSE "MEDIUM") :
        p \in {x \in identity.pairs : x.status = "CONFLICT"}}
        \cup {Signal("document_duplication", "MEDIUM") : r \in Failed({duplicates})}

=============================================================================
