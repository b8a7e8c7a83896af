---------------------------- MODULE DocumentRules ----------------------------
(***************************************************************************)
(* src/rules.py: the decision on one document from its parsed fields and   *)
(* its text alone, older than the evidence stages and kept beside them.    *)
(***************************************************************************)
EXTENDS EvidenceValidation

\* round(present / mandatory, 3) < 0.75
Insufficient(fields) ==
    4 * Cardinality(PresentAmong(fields, MandatoryFields)) < 3 * Cardinality(MandatoryFields)

InvalidNumber(fields) ==
    /\ fields["document_type"] \in SupportedTypes
    /\ Present(fields, "document_number")
    /\ fields["document_number"] # fields["document_type"]

Reasons(fields, text) ==
    LET expiry == fields["expiry_date"]
    IN  {r \in {"INSUFFICIENT_MANDATORY_FIELDS", "INVALID_DOCUMENT_NUMBER_FORMAT",
                "DOCUMENT_EXPIRED", "INVALID_EXPIRY_DATE", "SUSPECTED_TAMPERING"} :
            CASE r = "INSUFFICIENT_MANDATORY_FIELDS"  -> Insufficient(fields)
              [] r = "INVALID_DOCUMENT_NUMBER_FORMAT" -> InvalidNumber(fields)
              [] r = "DOCUMENT_EXPIRED"    -> expiry \in Dates /\ expiry < ReferenceDate
              [] r = "INVALID_EXPIRY_DATE" -> Present(fields, "expiry_date") /\ expiry \notin Dates
              [] r = "SUSPECTED_TAMPERING" -> "tampered" \in text.marks}

Warned(text) ==
    text.marks \cap {"degraded", "degraded_word", "rotated", "rotated_word"} # {}

Evaluate(fields, text) ==
    CASE Reasons(fields, text) \cap {"SUSPECTED_TAMPERING", "DOCUMENT_EXPIRED"} # {} -> "REJECT"
      [] Reasons(fields, text) = {} /\ ~Warned(text) -> "APPROVE"
      [] OTHER -> "REVIEW"

Decisions == {"APPROVE", "REVIEW", "REJECT"}

=============================================================================
