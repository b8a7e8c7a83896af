--------------------------- MODULE DecisionPolicy ----------------------------
(***************************************************************************)
(* src/decision_policy: every finding about a case as a risk factor, and   *)
(* the decision taken from the factors.  The code's list of factors is a   *)
(* set here, and a factor is what the decision and the priority read of    *)
(* it: neither depends on the order of the list or on repetitions.         *)
(***************************************************************************)
EXTENDS DocumentRules, FraudSignals

Factor(category, severity, hardStop) ==
    [category |-> category, severity |-> severity, hardStop |-> hardStop]

\* What verify_document returns of one document.
VerifyDocument(text) ==
    LET evidence == BuildDocumentEvidence(text)
        results == ValidateDocument(evidence)
    IN  [legacy     |-> Evaluate(Parsed(text), text),
         reasons    |-> Reasons(Parsed(text), text),
         evidence   |-> evidence,
         validation |-> results,
         signals    |-> AssessDocumentFraudSignals(text, results)]

ValidationRiskFactors(results) ==
    {Factor("validation_failure", r.severity, r.severity = "CRITICAL") : r \in Failed(results)}

DocumentRiskFactors(doc) ==
    {Factor("document_decision", "CRITICAL", TRUE) : d \in {doc.legacy} \cap {"REJECT"}}
        \cup {Factor("document_decision", "MEDIUM", FALSE) : d \in {doc.legacy} \cap {"REVIEW"}}
        \cup {Factor("evidence_quality", "MEDIUM", FALSE) :
                q \in {doc.evidence.quality} \cap {"incomplete_unreadable"}}
        \cup {Factor("evidence_quality", "MEDIUM", FALSE) :
                r \in {x \in doc.validation : x.status = "UNKNOWN"}}
        \cup ValidationRiskFactors(doc.validation)

\* The attributes that resolved to a status.
OfStatus(identity, status) == {a \in Attributes : identity.status[a] = status}

IdentityRiskFactorsReviewed(identity) ==
    {Factor("identity_conflict", IF a = "date_of_birth" THEN "CRITICAL" ELSE "HIGH", FALSE) :
        a \in OfStatus(identity, "CONFLICT")}

IdentityRiskFactorsStrict(identity) ==
    {Factor("identity_conflict", "CRITICAL", TRUE) : a \in OfStatus(identity, "CONFLICT")}

IdentityRiskFactors(identity) ==
    {Factor("identity_conflict", IF a = "date_of_birth" THEN "CRITICAL" ELSE "HIGH",
            a = "date_of_birth") : a \in OfStatus(identity, "CONFLICT")}
        \cup {Factor("identity_uncertainty", "MEDIUM", FALSE) : a \in OfStatus(identity, "FUZZY_MATCH")}
        \cup {Factor("identity_uncertainty", "LOW", FALSE) :
                a \in OfStatus(identity, "INSUFFICIENT_EVIDENCE")}

FraudRiskFactors(signals) ==
    {Factor("fraud_signal", s.severity, s.severity = "CRITICAL") : s \in signals}

\* docs is the sequence of verified documents, signals those of the whole case.
DeriveRiskFactors(docs, identity, signals, duplicates) ==
    (UNION {DocumentRiskFactors(docs[i]) : i \in DOMAIN docs})
        \cup IdentityRiskFactors(identity)
        \cup FraudRiskFactors(signals)
        \cup ValidationRiskFactors({duplicates})

Decide(factors) ==
    IF \E f \in factors : f.hardStop THEN "REJECT"
    ELSE IF factors # {} THEN "REVIEW" ELSE "APPROVE"

\* review/workflow.py: the priority of a review is that of its severest factor.
DerivePriority(factors) ==
    IF \E f \in factors : SeverityRank[f.severity] >= SeverityRank["HIGH"] THEN "HIGH"
    ELSE IF \E f \in factors : f.severity = "MEDIUM" THEN "MEDIUM" ELSE "LOW"

=============================================================================
