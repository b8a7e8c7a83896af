------------------------- MODULE EvidenceValidation -------------------------
(***************************************************************************)
(* The validation rules of src/evidence_validation: each rule of a         *)
(* document gives one result, a status and, unless the rule does not       *)
(* apply, the severity of failing it.                                      *)
(***************************************************************************)
EXTENDS DocumentIntelligence

CONSTANT ReferenceDate    \* the frozen "today" of src/rules.py

ASSUME ReferenceAssumption == ReferenceDate \in Int

Severities == {"INFO", "LOW", "MEDIUM", "HIGH", "CRITICAL"}
SeverityRank == [INFO |-> 0, LOW |-> 1, MEDIUM |-> 2, HIGH |-> 3, CRITICAL |-> 4]
ValidationStatuses == {"PASS", "FAIL", "UNKNOWN", "NOT_APPLICABLE", "NOT_IMPLEMENTED"}

MandatoryRule == [full_name       |-> "MANDATORY-FULL_NAME",
                  date_of_birth   |-> "MANDATORY-DATE_OF_BIRTH",
                  document_number |-> "MANDATORY-DOCUMENT_NUMBER",
                  expiry_date     |-> "MANDATORY-EXPIRY_DATE"]
DateFormatRule == [date_of_birth |-> "DATE-FORMAT-DATE_OF_BIRTH",
                   issue_date    |-> "DATE-FORMAT-ISSUE_DATE",
                   expiry_date   |-> "DATE-FORMAT-EXPIRY_DATE"]

Result(rule, status, severity) == [rule |-> rule, status |-> status, severity |-> severity]

\* A rule that gives a verdict only where it applies.
Ruled(rule, severity, applies, holds) ==
    IF ~applies THEN Result(rule, "NOT_APPLICABLE", "INFO")
    ELSE Result(rule, IF holds THEN "PASS" ELSE "FAIL", severity)

\* _safe_parse_date of an extracted value is not None
Dated(evidence, name) == Extracted(evidence, name) /\ evidence.fields[name] \in Dates

Known(evidence) == evidence.type # "unknown"

CheckSchema(evidence) ==
    Ruled("SCHEMA-001", "HIGH", Known(evidence), DOMAIN evidence.fields = FieldsByType(evidence.type))

CheckMandatoryFieldsListed(evidence) ==
    {Ruled(MandatoryRule[name], "HIGH", Known(evidence), name \in DOMAIN evidence.fields) :
        name \in MandatoryFields}

CheckMandatoryFields(evidence) ==
    {IF Known(evidence) /\ ~Extracted(evidence, name) /\ evidence.quality = "incomplete_unreadable"
     THEN Result(MandatoryRule[name], "UNKNOWN", "HIGH")
     ELSE Ruled(MandatoryRule[name], "HIGH", Known(evidence), Extracted(evidence, name)) :
        name \in MandatoryFields}

CheckDocumentNumberFormat(evidence) ==
    Ruled("DOCNUM-FORMAT", "MEDIUM",
          Known(evidence) /\ Extracted(evidence, "document_number"),
          evidence.fields["document_number"] = evidence.type)

CheckDateFormats(evidence) ==
    {Ruled(DateFormatRule[name], "MEDIUM", Extracted(evidence, name), Dated(evidence, name)) :
        name \in DateFields}

CheckTemporalIssueNotFuture(evidence) ==
    Ruled("TEMPORAL-ISSUE-NOT-FUTURE", "MEDIUM", Dated(evidence, "issue_date"),
          evidence.fields["issue_date"] <= ReferenceDate)

CheckExpiryAfterToday(evidence) ==
    Ruled("EXPIRY-NOT-PAST", "HIGH", Dated(evidence, "expiry_date"),
          evidence.fields["expiry_date"] > ReferenceDate)

CheckExpiryNotPast(evidence) ==
    Ruled("EXPIRY-NOT-PAST", "HIGH", Dated(evidence, "expiry_date"),
          evidence.fields["expiry_date"] >= ReferenceDate)

CheckIssueBeforeExpiry(evidence) ==
    Ruled("ISSUEDATE-BEFORE-EXPIRY", "HIGH",
          Dated(evidence, "issue_date") /\ Dated(evidence, "expiry_date"),
          evidence.fields["issue_date"] < evidence.fields["expiry_date"])

CheckDobBeforeIssue(evidence) ==
    Ruled("DOB-BEFORE-ISSUE", "MEDIUM",
          Dated(evidence, "date_of_birth") /\ Dated(evidence, "issue_date"),
          evidence.fields["date_of_birth"] < evidence.fields["issue_date"])

CheckDocumentTypeSupported(evidence) ==
    Ruled("DOCTYPE-SUPPORTED", "HIGH", TRUE, evidence.type \in SupportedTypes)

CheckChecksumSignature(evidence) == Result("CHECKSUM-SIGNATURE", "NOT_IMPLEMENTED", "INFO")

ValidateDocument(evidence) ==
    {CheckSchema(evidence), CheckDocumentNumberFormat(evidence),
     CheckTemporalIssueNotFuture(evidence), CheckExpiryNotPast(evidence),
     CheckIssueBeforeExpiry(evidence), CheckDobBeforeIssue(evidence),
     CheckDocumentTypeSupported(evidence), CheckChecksumSignature(evidence)}
        \cup CheckMandatoryFields(evidence) \cup CheckDateFormats(evidence)

\* The one rule on a case: no two documents of the same known type.
CheckNoDuplicateDocumentType(evidences) ==
    Ruled("CROSSDOC-NO-DUPLICATE-TYPE", "MEDIUM", TRUE,
          \A i, j \in DOMAIN evidences :
              i # j /\ Known(evidences[i]) => evidences[i].type # evidences[j].type)

Failed(results) == {r \in results : r.status = "FAIL"}

=============================================================================
