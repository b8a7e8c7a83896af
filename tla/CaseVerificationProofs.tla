----------------------- MODULE CaseVerificationProofs ------------------------
(***************************************************************************)
(* For any number of applications, documents, dates, names and addresses:  *)
(* a case is rejected exactly on a hard stop of its inputs and approved    *)
(* exactly when all of them pass, whatever the order of its documents, and *)
(* the two generations of rules agree.  The argument follows the pipeline: *)
(* what one stage can contribute to the factors, what of it is a hard      *)
(* stop, when it contributes nothing, what an exchange of documents leaves *)
(* alone, and an invariant that ties the result of every stage to the      *)
(* application.                                                            *)
(***************************************************************************)
EXTENDS CaseProperties, FiniteSetTheorems, WellFoundedInduction, TLAPS

-----------------------------------------------------------------------------
(* Severities. *)

\* No rule of evidence_validation is of critical severity
\* (docs/data_dictionary.md:282, "no current rule reaches CRITICAL").
LEMMA NoRuleIsCritical ==
    ASSUME NEW evidence, NEW r \in ValidateDocument(evidence)
    PROVE  r.severity \in {"INFO", "MEDIUM", "HIGH"}
  <1> DEFINE Mild(x) == x.severity \in {"INFO", "MEDIUM", "HIGH"}
  <1>1. ASSUME NEW rule, NEW applies, NEW holds, NEW severity \in {"MEDIUM", "HIGH"}
        PROVE  Mild(Ruled(rule, severity, applies, holds))
    BY <1>1 DEF Ruled, Result
  <1>2. ASSUME NEW rule, NEW status, NEW severity \in {"INFO", "HIGH"}
        PROVE  Mild(Result(rule, status, severity))
    BY <1>2 DEF Result
  <1> HIDE DEF Mild
  <1>3. Mild(CheckSchema(evidence)) /\ Mild(CheckDocumentNumberFormat(evidence))
    BY <1>1 DEF CheckSchema, CheckDocumentNumberFormat
  <1>4. Mild(CheckTemporalIssueNotFuture(evidence)) /\ Mild(CheckExpiryNotPast(evidence))
    BY <1>1 DEF CheckTemporalIssueNotFuture, CheckExpiryNotPast
  <1>5. Mild(CheckIssueBeforeExpiry(evidence)) /\ Mild(CheckDobBeforeIssue(evidence))
    BY <1>1 DEF CheckIssueBeforeExpiry, CheckDobBeforeIssue
  <1>6. Mild(CheckDocumentTypeSupported(evidence)) /\ Mild(CheckChecksumSignature(evidence))
    BY <1>1, <1>2 DEF CheckDocumentTypeSupported, CheckChecksumSignature
  <1>7. \A x \in CheckMandatoryFields(evidence) : Mild(x)
    BY <1>1, <1>2 DEF CheckMandatoryFields
  <1>8. \A x \in CheckDateFormats(evidence) : Mild(x)
    BY <1>1 DEF CheckDateFormats
  <1>9. Mild(r)
    BY <1>3, <1>4, <1>5, <1>6, <1>7, <1>8 DEF ValidateDocument
  <1> QED BY <1>9 DEF Mild

\* A factor is critical exactly when it is a hard stop, whichever stage it is from.
LEMMA CriticalIsHardStop ==
    ASSUME NEW verified, NEW resolved, NEW found, NEW checked,
           NEW f \in DeriveRiskFactors(verified, resolved, found, checked)
    PROVE  (f.severity = "CRITICAL") <=> f.hardStop
  <1> DEFINE Flagged(x) == (x.severity = "CRITICAL") <=> x.hardStop
  <1>0. ASSUME NEW category, NEW severity
        PROVE  Flagged(Factor(category, severity, severity = "CRITICAL"))
    BY Zenon DEF Factor
  <1>1. ASSUME NEW results, NEW x \in ValidationRiskFactors(results) PROVE Flagged(x)
    <2> HIDE DEF Flagged
    <2> QED BY <1>0, <1>1 DEF ValidationRiskFactors
  <1>2. ASSUME NEW doc, NEW x \in DocumentRiskFactors(doc) PROVE Flagged(x)
    <2> HIDE DEF Flagged
    <2>1. Flagged(Factor("document_decision", "CRITICAL", TRUE))
      BY DEF Flagged, Factor
    <2>2. ASSUME NEW category PROVE Flagged(Factor(category, "MEDIUM", FALSE))
      BY DEF Flagged, Factor
    <2> QED BY <1>1, <1>2, <2>1, <2>2 DEF DocumentRiskFactors
  <1>3. ASSUME NEW x \in IdentityRiskFactors(resolved) PROVE Flagged(x)
    <2> DEFINE Conflict(a) == Factor("identity_conflict",
                                     IF a = "date_of_birth" THEN "CRITICAL" ELSE "HIGH",
                                     a = "date_of_birth")
    <2>1. ASSUME NEW a PROVE Flagged(Conflict(a))
      <3>1. CASE a = "date_of_birth"
        BY <3>1 DEF Factor
      <3>2. CASE a # "date_of_birth"
        BY <3>2 DEF Factor
      <3> QED BY <3>1, <3>2
    <2>2. Flagged(Factor("identity_uncertainty", "MEDIUM", FALSE))
      BY DEF Factor
    <2>3. Flagged(Factor("identity_uncertainty", "LOW", FALSE))
      BY DEF Factor
    <2> HIDE DEF Flagged
    <2> QED BY <1>3, <2>1, <2>2, <2>3 DEF IdentityRiskFactors
  <1>4. ASSUME NEW x \in FraudRiskFactors(found) PROVE Flagged(x)
    <2> HIDE DEF Flagged
    <2> QED BY <1>0, <1>4 DEF FraudRiskFactors
  <1> HIDE DEF Flagged
  <1>5. Flagged(f)
    BY <1>1, <1>2, <1>3, <1>4 DEF DeriveRiskFactors
  <1> QED BY <1>5 DEF Flagged

-----------------------------------------------------------------------------
(* What of each stage is a hard stop. *)

\* src/rules.py rejects a document for tampering and for expiry, for nothing else.
LEMMA RejectedByRules ==
    ASSUME NEW text
    PROVE  Evaluate(Parsed(text), text) = "REJECT" <=> "tampered" \in text.marks \/ Expired(text)
  <1> DEFINE reasons == Reasons(Parsed(text), text)
  <1>1. "SUSPECTED_TAMPERING" \in reasons <=> "tampered" \in text.marks
    BY DEF Reasons
  <1>2. "DOCUMENT_EXPIRED" \in reasons <=> Expired(text)
    BY DEF Reasons, Expired
  <1> HIDE DEF reasons
  <1>3. Evaluate(Parsed(text), text) = "REJECT"
            <=> reasons \cap {"SUSPECTED_TAMPERING", "DOCUMENT_EXPIRED"} # {}
    BY DEF Evaluate, reasons
  <1> QED BY <1>1, <1>2, <1>3

\* The tamper marker is the only signal of a document that is critical.
LEMMA CriticalSignals ==
    ASSUME NEW text, NEW results
    PROVE  (\E s \in AssessDocumentFraudSignals(text, results) : s.severity = "CRITICAL")
              <=> "tampered" \in text.marks
  <1> DEFINE all == AssessDocumentFraudSignals(text, results)
             Critical(s) == s.severity = "CRITICAL"
  <1>1. Critical(Signal("tamper_marker", "CRITICAL"))
    BY DEF Signal
  <1>2. ASSUME NEW category, NEW severity \in {"HIGH", "MEDIUM"}
        PROVE  ~Critical(Signal(category, severity))
    BY DEF Signal
  <1> HIDE DEF Critical
  <1>3. ASSUME "tampered" \in text.marks
        PROVE  \E s \in all : Critical(s)
    <2>1. Signal("tamper_marker", "CRITICAL") \in all
      BY <1>3 DEF AssessDocumentFraudSignals
    <2> QED BY <1>1, <2>1
  <1>4. ASSUME "tampered" \notin text.marks, NEW s \in all
        PROVE  ~Critical(s)
    <2>1. text.marks \cap {"tampered"} = {}
      BY <1>4
    <2> QED BY <1>2, <1>4, <2>1 DEF AssessDocumentFraudSignals
  <1>5. (\E s \in all : Critical(s)) <=> "tampered" \in text.marks
    BY <1>3, <1>4
  <1> QED BY <1>5 DEF Critical

\* A case adds no critical signal to those of its documents.
LEMMA NoCaseSignalIsCritical ==
    ASSUME NEW resolved, NEW checked, NEW s \in AssessCaseFraud(resolved, checked)
    PROVE  s.severity # "CRITICAL"
  BY DEF AssessCaseFraud, Signal

\* The rule on duplicate types is of medium severity.
LEMMA DuplicatesNotCritical ==
    ASSUME NEW evidences
    PROVE  CheckNoDuplicateDocumentType(evidences).severity # "CRITICAL"
  BY DEF CheckNoDuplicateDocumentType, Ruled, Result

\* The hard stops among the factors: a document rejected, two dates of birth, or
\* a critical signal.
LEMMA HardStopFactors ==
    ASSUME NEW verified, NEW resolved, NEW found, NEW checked,
           \A i \in DOMAIN verified : \A r \in verified[i].validation : r.severity # "CRITICAL",
           checked.severity # "CRITICAL"
    PROVE  (\E f \in DeriveRiskFactors(verified, resolved, found, checked) : f.hardStop)
              <=> \/ \E i \in DOMAIN verified : verified[i].legacy = "REJECT"
                  \/ resolved.status["date_of_birth"] = "CONFLICT"
                  \/ \E s \in found : s.severity = "CRITICAL"
  <1> DEFINE all == DeriveRiskFactors(verified, resolved, found, checked)
             Critical(set) == \E f \in set : f.severity = "CRITICAL"
  <1>1. (\E f \in all : f.hardStop) <=> Critical(all)
    BY CriticalIsHardStop, Zenon
  <1>2. ASSUME NEW results, \A r \in results : r.severity # "CRITICAL"
        PROVE  ~Critical(ValidationRiskFactors(results))
    BY <1>2 DEF ValidationRiskFactors, Factor, Failed
  <1>3. ASSUME NEW i \in DOMAIN verified
        PROVE  Critical(DocumentRiskFactors(verified[i])) <=> verified[i].legacy = "REJECT"
    <2>1. ~Critical(ValidationRiskFactors(verified[i].validation))
      BY <1>2
    <2>2. Factor("document_decision", "CRITICAL", TRUE).severity = "CRITICAL"
      BY DEF Factor
    <2>3. ASSUME NEW category PROVE Factor(category, "MEDIUM", FALSE).severity # "CRITICAL"
      BY DEF Factor
    <2>4. CASE verified[i].legacy = "REJECT"
      <3>1. Factor("document_decision", "CRITICAL", TRUE) \in DocumentRiskFactors(verified[i])
        BY <2>4 DEF DocumentRiskFactors
      <3> QED BY <2>2, <2>4, <3>1
    <2>5. CASE verified[i].legacy # "REJECT"
      BY <2>1, <2>3, <2>5 DEF DocumentRiskFactors
    <2> QED BY <2>4, <2>5
  <1>4. Critical(IdentityRiskFactors(resolved)) <=> resolved.status["date_of_birth"] = "CONFLICT"
    <2> DEFINE Conflict(a) == Factor("identity_conflict",
                                     IF a = "date_of_birth" THEN "CRITICAL" ELSE "HIGH",
                                     a = "date_of_birth")
    <2>1. Conflict("date_of_birth").severity = "CRITICAL"
      BY DEF Factor
    <2>2. ASSUME NEW a, a # "date_of_birth" PROVE Conflict(a).severity # "CRITICAL"
      BY <2>2 DEF Factor
    <2>3. /\ Factor("identity_uncertainty", "MEDIUM", FALSE).severity # "CRITICAL"
          /\ Factor("identity_uncertainty", "LOW", FALSE).severity # "CRITICAL"
      BY DEF Factor
    <2>4. ASSUME resolved.status["date_of_birth"] = "CONFLICT"
          PROVE  Conflict("date_of_birth") \in IdentityRiskFactors(resolved)
      <3>1. "date_of_birth" \in OfStatus(resolved, "CONFLICT")
        BY <2>4 DEF OfStatus, Attributes
      <3> QED BY <3>1 DEF IdentityRiskFactors
    <2>5. ASSUME NEW f \in IdentityRiskFactors(resolved), f.severity = "CRITICAL"
          PROVE  resolved.status["date_of_birth"] = "CONFLICT"
      <3>1. PICK a \in OfStatus(resolved, "CONFLICT") : f = Conflict(a)
        <4> HIDE DEF Conflict
        <4>1. f \in {Conflict(a) : a \in OfStatus(resolved, "CONFLICT")}
          BY <2>3, <2>5 DEF IdentityRiskFactors, Conflict
        <4> QED BY <4>1
      <3>2. a = "date_of_birth"
        BY <2>2, <2>5, <3>1
      <3> QED BY <3>1, <3>2 DEF OfStatus
    <2> HIDE DEF Conflict
    <2> QED BY <2>1, <2>4, <2>5
  <1>5. Critical(FraudRiskFactors(found)) <=> \E s \in found : s.severity = "CRITICAL"
    <2> DEFINE Raised(s) == Factor("fraud_signal", s.severity, s.severity = "CRITICAL")
    <2>1. \A s \in found : Raised(s).severity = s.severity
      BY DEF Factor
    <2>2. FraudRiskFactors(found) = {Raised(s) : s \in found}
      BY DEF FraudRiskFactors
    <2> HIDE DEF Raised
    <2> QED BY <2>1, <2>2
  <1>6. ~Critical(ValidationRiskFactors({checked}))
    BY <1>2
  <1>7. Critical(all) <=> \/ \E i \in DOMAIN verified : Critical(DocumentRiskFactors(verified[i]))
                        \/ Critical(IdentityRiskFactors(resolved))
                        \/ Critical(FraudRiskFactors(found))
                        \/ Critical(ValidationRiskFactors({checked}))
    BY DEF DeriveRiskFactors
  <1> HIDE DEF Critical, all
  <1>8. (\E f \in all : f.hardStop)
            <=> \/ \E i \in DOMAIN verified : verified[i].legacy = "REJECT"
                \/ resolved.status["date_of_birth"] = "CONFLICT"
                \/ \E s \in found : s.severity = "CRITICAL"
    BY <1>1, <1>3, <1>4, <1>5, <1>6, <1>7
  <1> QED BY <1>8 DEF all

-----------------------------------------------------------------------------
(* What a text reads. *)

\* The parser keeps the last of the lines with a label: there is one.
LEMMA LastOf ==
    ASSUME NEW n \in Nat, NEW T \in SUBSET (1..n), T # {}
    PROVE  \E i \in T : \A j \in T : j <= i
  <1> DEFINE From(i) == i..n
             tails == {From(i) : i \in T}
             order == StrictSubsetOrdering(1..n)
  <1>1. IsWellFoundedOn(order, FiniteSubsetsOf(1..n))
    BY FS_StrictSubsetOrderingWellFounded
  <1>2. tails \subseteq FiniteSubsetsOf(1..n) /\ tails # {}
    <2>1. IsFiniteSet(1..n)
      BY FS_Interval
    <2>2. ASSUME NEW i \in T PROVE From(i) \in SUBSET (1..n)
      OBVIOUS
    <2>3. ASSUME NEW i \in T PROVE IsFiniteSet(From(i))
      BY <2>1, <2>2, FS_Subset
    <2> HIDE DEF From
    <2> QED BY <2>2, <2>3 DEF FiniteSubsetsOf
  <1>3. \E s \in tails : \A t \in tails : <<t, s>> \notin order
    <2> HIDE DEF tails, order
    <2> QED BY <1>1, <1>2, WFMin
  <1>4. PICK i \in T : \A j \in T : <<From(j), From(i)>> \notin order
    <2> HIDE DEF From, order
    <2> QED BY <1>3
  <1>5. ASSUME NEW j \in T, ~(j <= i) PROVE FALSE
    <2>1. From(j) \subseteq From(i) /\ i \in From(i) /\ i \notin From(j)
      BY <1>5
    <2>2. From(j) \in SUBSET (1..n) /\ From(i) \in SUBSET (1..n)
      OBVIOUS
    <2> HIDE DEF From
    <2>3. <<From(j), From(i)>> \in order
      BY <2>1, <2>2 DEF StrictSubsetOrdering
    <2> QED BY <1>4, <2>3
  <1> QED BY <1>5

\* What is read for a label is a value written under it, or nothing.
LEMMA ParsedTyped ==
    ASSUME NEW text, IsText(text), NEW key \in CanonicalFields \cup {"document_type"}
    PROVE  Parsed(text)[key] \in Values(key) \cup {Absent, Blank}
  <1> DEFINE lines == text.lines
             at == {i \in DOMAIN lines : lines[i].key = key}
             last == CHOOSE i \in at : \A j \in at : j <= i
  <1>1. Parsed(text)[key] = IF at = {} THEN Absent ELSE lines[last].value
    BY DEF Parsed
  <1>2. CASE at = {}
    BY <1>1, <1>2
  <1>3. CASE at # {}
    <2>1. DOMAIN lines = 1..Len(lines) /\ Len(lines) \in Nat
      BY DEF IsText
    <2>2. \E i \in at : \A j \in at : j <= i
      BY <1>3, <2>1, LastOf
    <2>3. last \in DOMAIN lines /\ lines[last].key = key
      BY <2>2
    <2>4. lines[last].value \in Values(key) \cup {Blank}
      BY <2>3 DEF IsText
    <2> QED BY <1>1, <1>3, <2>4
  <1> QED BY <1>2, <1>3

\* A name or an address read from a text is one of those of the instance.
LEMMA ReadTyped ==
    ASSUME NEW text, IsText(text), NEW name \in CanonicalFields, Present(Parsed(text), name)
    PROVE  Parsed(text)[name] \in Values(name)
  BY ParsedTyped DEF Present

-----------------------------------------------------------------------------
(* Which rules a document fails. *)

Fails(evidence, rule) == \E r \in Failed(ValidateDocument(evidence)) : r.rule = rule

\* A rule fails where it applies and does not hold, and its result says which it is.
LEMMA RuledFails ==
    ASSUME NEW rule, NEW severity, NEW applies, NEW holds
    PROVE  /\ Ruled(rule, severity, applies, holds).rule = rule
           /\ Ruled(rule, severity, applies, holds).status = "FAIL" <=> applies /\ ~holds
           /\ Ruled(rule, severity, applies, holds).status \in {"PASS", "FAIL", "NOT_APPLICABLE"}
           /\ Ruled(rule, severity, applies, holds).severity \in {"INFO", severity}
  BY DEF Ruled, Result

\* The rules with one result per document.
LEMMA SingleRules ==
    ASSUME NEW evidence
    PROVE  /\ CheckSchema(evidence).rule = "SCHEMA-001"
           /\ CheckSchema(evidence).status = "FAIL"
                 <=> Known(evidence) /\ DOMAIN evidence.fields # FieldsByType(evidence.type)
           /\ CheckDocumentNumberFormat(evidence).rule = "DOCNUM-FORMAT"
           /\ CheckDocumentNumberFormat(evidence).status = "FAIL"
                 <=> /\ Known(evidence) /\ Extracted(evidence, "document_number")
                     /\ evidence.fields["document_number"] # evidence.type
           /\ CheckTemporalIssueNotFuture(evidence).rule = "TEMPORAL-ISSUE-NOT-FUTURE"
           /\ CheckTemporalIssueNotFuture(evidence).status = "FAIL"
                 <=> Dated(evidence, "issue_date") /\ ~(evidence.fields["issue_date"] <= ReferenceDate)
           /\ CheckExpiryNotPast(evidence).rule = "EXPIRY-NOT-PAST"
           /\ CheckExpiryNotPast(evidence).status = "FAIL"
                 <=> Dated(evidence, "expiry_date") /\ ~(evidence.fields["expiry_date"] >= ReferenceDate)
           /\ CheckIssueBeforeExpiry(evidence).rule = "ISSUEDATE-BEFORE-EXPIRY"
           /\ CheckIssueBeforeExpiry(evidence).status = "FAIL"
                 <=> /\ Dated(evidence, "issue_date") /\ Dated(evidence, "expiry_date")
                     /\ ~(evidence.fields["issue_date"] < evidence.fields["expiry_date"])
           /\ CheckDobBeforeIssue(evidence).rule = "DOB-BEFORE-ISSUE"
           /\ CheckDobBeforeIssue(evidence).status = "FAIL"
                 <=> /\ Dated(evidence, "date_of_birth") /\ Dated(evidence, "issue_date")
                     /\ ~(evidence.fields["date_of_birth"] < evidence.fields["issue_date"])
           /\ CheckDocumentTypeSupported(evidence).rule = "DOCTYPE-SUPPORTED"
           /\ CheckDocumentTypeSupported(evidence).status = "FAIL"
                 <=> evidence.type \notin SupportedTypes
           /\ CheckChecksumSignature(evidence).rule = "CHECKSUM-SIGNATURE"
           /\ CheckChecksumSignature(evidence).status = "NOT_IMPLEMENTED"
  <1>1. /\ CheckSchema(evidence).rule = "SCHEMA-001"
        /\ CheckSchema(evidence).status = "FAIL"
              <=> Known(evidence) /\ DOMAIN evidence.fields # FieldsByType(evidence.type)
    BY DEF CheckSchema, Ruled, Result
  <1>2. /\ CheckDocumentNumberFormat(evidence).rule = "DOCNUM-FORMAT"
        /\ CheckDocumentNumberFormat(evidence).status = "FAIL"
              <=> /\ Known(evidence) /\ Extracted(evidence, "document_number")
                  /\ evidence.fields["document_number"] # evidence.type
    BY DEF CheckDocumentNumberFormat, Ruled, Result
  <1>3. /\ CheckTemporalIssueNotFuture(evidence).rule = "TEMPORAL-ISSUE-NOT-FUTURE"
        /\ CheckTemporalIssueNotFuture(evidence).status = "FAIL"
              <=> Dated(evidence, "issue_date") /\ ~(evidence.fields["issue_date"] <= ReferenceDate)
    BY DEF CheckTemporalIssueNotFuture, Ruled, Result
  <1>4. /\ CheckExpiryNotPast(evidence).rule = "EXPIRY-NOT-PAST"
        /\ CheckExpiryNotPast(evidence).status = "FAIL"
              <=> Dated(evidence, "expiry_date") /\ ~(evidence.fields["expiry_date"] >= ReferenceDate)
    BY DEF CheckExpiryNotPast, Ruled, Result
  <1>5. /\ CheckIssueBeforeExpiry(evidence).rule = "ISSUEDATE-BEFORE-EXPIRY"
        /\ CheckIssueBeforeExpiry(evidence).status = "FAIL"
              <=> /\ Dated(evidence, "issue_date") /\ Dated(evidence, "expiry_date")
                  /\ ~(evidence.fields["issue_date"] < evidence.fields["expiry_date"])
    BY DEF CheckIssueBeforeExpiry, Ruled, Result
  <1>6. /\ CheckDobBeforeIssue(evidence).rule = "DOB-BEFORE-ISSUE"
        /\ CheckDobBeforeIssue(evidence).status = "FAIL"
              <=> /\ Dated(evidence, "date_of_birth") /\ Dated(evidence, "issue_date")
                  /\ ~(evidence.fields["date_of_birth"] < evidence.fields["issue_date"])
    BY DEF CheckDobBeforeIssue, Ruled, Result
  <1>7. /\ CheckDocumentTypeSupported(evidence).rule = "DOCTYPE-SUPPORTED"
        /\ CheckDocumentTypeSupported(evidence).status = "FAIL" <=> evidence.type \notin SupportedTypes
    BY DEF CheckDocumentTypeSupported, Ruled, Result
  <1>8. /\ CheckChecksumSignature(evidence).rule = "CHECKSUM-SIGNATURE"
        /\ CheckChecksumSignature(evidence).status = "NOT_IMPLEMENTED"
    BY DEF CheckChecksumSignature, Result
  <1> QED BY <1>1, <1>2, <1>3, <1>4, <1>5, <1>6, <1>7, <1>8

\* The check of one mandatory field, and of one date.
MandatoryCheck(evidence, name) ==
    IF Known(evidence) /\ ~Extracted(evidence, name) /\ evidence.quality = "incomplete_unreadable"
    THEN Result(MandatoryRule[name], "UNKNOWN", "HIGH")
    ELSE Ruled(MandatoryRule[name], "HIGH", Known(evidence), Extracted(evidence, name))

DateCheck(evidence, name) ==
    Ruled(DateFormatRule[name], "MEDIUM", Extracted(evidence, name), Dated(evidence, name))

\* The rules with one result per field.
LEMMA FieldRules ==
    ASSUME NEW evidence
    PROVE  /\ CheckMandatoryFields(evidence) = {MandatoryCheck(evidence, name) : name \in MandatoryFields}
           /\ \A name \in MandatoryFields :
                 /\ MandatoryCheck(evidence, name).rule = MandatoryRule[name]
                 /\ MandatoryCheck(evidence, name).status \in {"FAIL", "UNKNOWN"}
                       <=> Known(evidence) /\ ~Extracted(evidence, name)
           /\ CheckDateFormats(evidence) = {DateCheck(evidence, name) : name \in DateFields}
           /\ \A name \in DateFields :
                 /\ DateCheck(evidence, name).rule = DateFormatRule[name]
                 /\ DateCheck(evidence, name).status = "FAIL"
                       <=> Extracted(evidence, name) /\ ~Dated(evidence, name)
                 /\ DateCheck(evidence, name).status # "UNKNOWN"
  <1>1. CheckMandatoryFields(evidence) = {MandatoryCheck(evidence, name) : name \in MandatoryFields}
    BY DEF CheckMandatoryFields, MandatoryCheck
  <1>2. CheckDateFormats(evidence) = {DateCheck(evidence, name) : name \in DateFields}
    BY DEF CheckDateFormats, DateCheck
  <1>3. ASSUME NEW name
        PROVE  /\ MandatoryCheck(evidence, name).rule = MandatoryRule[name]
               /\ MandatoryCheck(evidence, name).status \in {"FAIL", "UNKNOWN"}
                     <=> Known(evidence) /\ ~Extracted(evidence, name)
    BY DEF MandatoryCheck, Ruled, Result
  <1>4. ASSUME NEW name
        PROVE  /\ DateCheck(evidence, name).rule = DateFormatRule[name]
               /\ DateCheck(evidence, name).status = "FAIL"
                     <=> Extracted(evidence, name) /\ ~Dated(evidence, name)
               /\ DateCheck(evidence, name).status # "UNKNOWN"
    BY DEF DateCheck, Ruled, Result
  <1> QED BY <1>1, <1>2, <1>3, <1>4

\* Each of the three rules that src/rules.py has too is failed on its own account.
LEMMA SharedRules ==
    ASSUME NEW evidence
    PROVE  /\ Fails(evidence, "EXPIRY-NOT-PAST")
                 <=> Dated(evidence, "expiry_date") /\ ~(evidence.fields["expiry_date"] >= ReferenceDate)
           /\ Fails(evidence, "DATE-FORMAT-EXPIRY_DATE")
                 <=> Extracted(evidence, "expiry_date") /\ ~Dated(evidence, "expiry_date")
           /\ Fails(evidence, "DOCNUM-FORMAT")
                 <=> /\ Known(evidence) /\ Extracted(evidence, "document_number")
                     /\ evidence.fields["document_number"] # evidence.type
  <1> DEFINE single == {CheckSchema(evidence), CheckDocumentNumberFormat(evidence),
                        CheckTemporalIssueNotFuture(evidence), CheckExpiryNotPast(evidence),
                        CheckIssueBeforeExpiry(evidence), CheckDobBeforeIssue(evidence),
                        CheckDocumentTypeSupported(evidence), CheckChecksumSignature(evidence)}
             all == single \cup CheckMandatoryFields(evidence) \cup CheckDateFormats(evidence)
  <1>1. all = ValidateDocument(evidence)
    BY DEF ValidateDocument
  <1>2. ASSUME NEW r \in CheckMandatoryFields(evidence)
        PROVE  r.rule \in {"MANDATORY-FULL_NAME", "MANDATORY-DATE_OF_BIRTH",
                           "MANDATORY-DOCUMENT_NUMBER", "MANDATORY-EXPIRY_DATE"}
    <2>1. PICK name \in MandatoryFields : r.rule = MandatoryRule[name]
      BY <1>2, FieldRules
    <2> QED BY <2>1 DEF MandatoryFields, MandatoryRule
  <1>3. ASSUME NEW r \in CheckDateFormats(evidence)
        PROVE  \/ r.rule \in {"DATE-FORMAT-DATE_OF_BIRTH", "DATE-FORMAT-ISSUE_DATE"}
               \/ r.rule = "DATE-FORMAT-EXPIRY_DATE" /\ r = DateCheck(evidence, "expiry_date")
    <2>1. PICK name \in DateFields : r = DateCheck(evidence, name)
      BY <1>3, FieldRules
    <2>2. r.rule = DateFormatRule[name]
      BY <2>1, FieldRules
    <2> QED BY <2>1, <2>2 DEF DateFields, DateFormatRule
  <1>4. ASSUME NEW r \in single
        PROVE  /\ r.rule = "EXPIRY-NOT-PAST" => r = CheckExpiryNotPast(evidence)
               /\ r.rule = "DOCNUM-FORMAT" => r = CheckDocumentNumberFormat(evidence)
               /\ r.rule # "DATE-FORMAT-EXPIRY_DATE"
    BY <1>4, SingleRules
  <1>5. /\ CheckExpiryNotPast(evidence) \in all
        /\ CheckDocumentNumberFormat(evidence) \in all
        /\ DateCheck(evidence, "expiry_date") \in all
    BY FieldRules DEF DateFields
  <1> HIDE DEF single
  <1>6. \A r \in all :
           /\ r.rule = "EXPIRY-NOT-PAST" => r = CheckExpiryNotPast(evidence)
           /\ r.rule = "DOCNUM-FORMAT" => r = CheckDocumentNumberFormat(evidence)
           /\ r.rule = "DATE-FORMAT-EXPIRY_DATE" => r = DateCheck(evidence, "expiry_date")
    <2> TAKE r \in all
    <2>1. CASE r \in single
      BY <1>4, <2>1
    <2>2. CASE r \in CheckMandatoryFields(evidence)
      BY <1>2, <2>2
    <2>3. CASE r \in CheckDateFormats(evidence)
      BY <1>3, <2>3
    <2> QED BY <2>1, <2>2, <2>3
  <1> HIDE DEF all
  <1>7. \A rule : Fails(evidence, rule) <=> \E r \in all : r.status = "FAIL" /\ r.rule = rule
    BY <1>1 DEF Fails, Failed
  <1>8. DateCheck(evidence, "expiry_date").rule = "DATE-FORMAT-EXPIRY_DATE"
    BY FieldRules DEF DateFields, DateFormatRule
  <1>9. Fails(evidence, "EXPIRY-NOT-PAST") <=> CheckExpiryNotPast(evidence).status = "FAIL"
    <2>1. CheckExpiryNotPast(evidence).rule = "EXPIRY-NOT-PAST"
      BY SingleRules, Zenon
    <2> QED BY <1>5, <1>6, <1>7, <2>1
  <1>10. Fails(evidence, "DOCNUM-FORMAT") <=> CheckDocumentNumberFormat(evidence).status = "FAIL"
    <2>1. CheckDocumentNumberFormat(evidence).rule = "DOCNUM-FORMAT"
      BY SingleRules, Zenon
    <2> QED BY <1>5, <1>6, <1>7, <2>1
  <1>11. Fails(evidence, "DATE-FORMAT-EXPIRY_DATE") <=> DateCheck(evidence, "expiry_date").status = "FAIL"
    BY <1>5, <1>6, <1>7, <1>8
  <1>12. "expiry_date" \in DateFields
    BY DEF DateFields
  <1>13. DateCheck(evidence, "expiry_date").status = "FAIL"
            <=> Extracted(evidence, "expiry_date") /\ ~Dated(evidence, "expiry_date")
    BY <1>12, FieldRules
  <1> QED BY <1>9, <1>10, <1>11, <1>13, SingleRules, Zenon

Unremarkable(results) == \A r \in results : r.status \notin {"FAIL", "UNKNOWN"}

\* The rules have nothing to remark on a document exactly when each of them holds
\* where it applies; a mandatory field missing is remarked whichever way it is missing.
LEMMA RulesSatisfied ==
    ASSUME NEW evidence
    PROVE  Unremarkable(ValidateDocument(evidence))
              <=> /\ evidence.type \in SupportedTypes
                  /\ Known(evidence) => DOMAIN evidence.fields = FieldsByType(evidence.type)
                  /\ \A name \in MandatoryFields : Known(evidence) => Extracted(evidence, name)
                  /\ Known(evidence) /\ Extracted(evidence, "document_number")
                        => evidence.fields["document_number"] = evidence.type
                  /\ \A name \in DateFields : Extracted(evidence, name) => Dated(evidence, name)
                  /\ Dated(evidence, "expiry_date") => evidence.fields["expiry_date"] >= ReferenceDate
                  /\ Dated(evidence, "issue_date") => evidence.fields["issue_date"] <= ReferenceDate
                  /\ Dated(evidence, "issue_date") /\ Dated(evidence, "expiry_date")
                        => evidence.fields["issue_date"] < evidence.fields["expiry_date"]
                  /\ Dated(evidence, "date_of_birth") /\ Dated(evidence, "issue_date")
                        => evidence.fields["date_of_birth"] < evidence.fields["issue_date"]
  <1> DEFINE Quiet(r) == r.status \notin {"FAIL", "UNKNOWN"}
  <1>1. /\ Quiet(CheckSchema(evidence)) <=> CheckSchema(evidence).status # "FAIL"
        /\ Quiet(CheckDocumentNumberFormat(evidence))
              <=> CheckDocumentNumberFormat(evidence).status # "FAIL"
        /\ Quiet(CheckTemporalIssueNotFuture(evidence))
              <=> CheckTemporalIssueNotFuture(evidence).status # "FAIL"
        /\ Quiet(CheckExpiryNotPast(evidence)) <=> CheckExpiryNotPast(evidence).status # "FAIL"
        /\ Quiet(CheckIssueBeforeExpiry(evidence))
              <=> CheckIssueBeforeExpiry(evidence).status # "FAIL"
        /\ Quiet(CheckDobBeforeIssue(evidence)) <=> CheckDobBeforeIssue(evidence).status # "FAIL"
        /\ Quiet(CheckDocumentTypeSupported(evidence))
              <=> CheckDocumentTypeSupported(evidence).status # "FAIL"
        /\ Quiet(CheckChecksumSignature(evidence))
    BY DEF CheckSchema, CheckDocumentNumberFormat, CheckTemporalIssueNotFuture,
           CheckExpiryNotPast, CheckIssueBeforeExpiry, CheckDobBeforeIssue,
           CheckDocumentTypeSupported, CheckChecksumSignature, Ruled, Result
  <1>2. (\A r \in CheckMandatoryFields(evidence) : Quiet(r))
           <=> \A name \in MandatoryFields : Known(evidence) => Extracted(evidence, name)
    BY FieldRules
  <1>3. (\A r \in CheckDateFormats(evidence) : Quiet(r))
           <=> \A name \in DateFields : Extracted(evidence, name) => Dated(evidence, name)
    BY FieldRules
  <1> HIDE DEF Quiet
  <1>4. Unremarkable(ValidateDocument(evidence))
           <=> /\ Quiet(CheckSchema(evidence)) /\ Quiet(CheckDocumentNumberFormat(evidence))
               /\ Quiet(CheckTemporalIssueNotFuture(evidence)) /\ Quiet(CheckExpiryNotPast(evidence))
               /\ Quiet(CheckIssueBeforeExpiry(evidence)) /\ Quiet(CheckDobBeforeIssue(evidence))
               /\ Quiet(CheckDocumentTypeSupported(evidence))
               /\ Quiet(CheckChecksumSignature(evidence))
               /\ \A r \in CheckMandatoryFields(evidence) : Quiet(r)
               /\ \A r \in CheckDateFormats(evidence) : Quiet(r)
    <2>1. Unremarkable(ValidateDocument(evidence)) <=> \A r \in ValidateDocument(evidence) : Quiet(r)
      BY DEF Unremarkable, Quiet
    <2> QED BY <2>1 DEF ValidateDocument
  <1> QED BY <1>1, <1>2, <1>3, <1>4, SingleRules

-----------------------------------------------------------------------------
(* From a text to its evidence, and the two generations of rules on it. *)

\* What a document's evidence gives for a field is what its text reads; only an
\* address a passport's schema has no place for is left out.
LEMMA FieldRead ==
    ASSUME NEW text, NEW name \in CanonicalFields \ {"nationality"}
    PROVE  LET evidence == BuildDocumentEvidence(text)
               read == Parsed(text)
           IN  /\ Extracted(evidence, name)
                     <=> Present(read, name) /\ ~(name = "address" /\ Type(text) = "passport")
               /\ Extracted(evidence, name) => evidence.fields[name] = read[name]
  <1> DEFINE read == Parsed(text)
             evidence == BuildDocumentEvidence(text)
             type == ClassifyDocument(read)
             found == PresentAmong(read, CanonicalFields)
             names == IF type = "unknown" THEN found ELSE FieldsByType(type)
  <1>1. evidence.fields = [n \in names |-> IF n \in found THEN read[n] ELSE Absent]
    BY DEF BuildDocumentEvidence
  <1>2. name \in found <=> Present(read, name)
    BY DEF PresentAmong
  <1>3. Present(read, name) => read[name] # Absent
    BY DEF Present
  <1>4. Present(read, name) => (name \in names <=> ~(name = "address" /\ Type(text) = "passport"))
    BY <1>2 DEF FieldsByType, CanonicalFields, Type
  <1> HIDE DEF read, evidence, found, names
  <1>5. /\ Extracted(evidence, name)
              <=> Present(read, name) /\ ~(name = "address" /\ Type(text) = "passport")
        /\ Extracted(evidence, name) => evidence.fields[name] = read[name]
    BY <1>1, <1>2, <1>3, <1>4 DEF Extracted
  <1> QED BY <1>5 DEF read, evidence

\* On one document the two generations of rules answer their common questions alike.
LEMMA DocumentRulesAgree ==
    ASSUME NEW text
    PROVE  LET doc == VerifyDocument(text)
           IN  /\ "DOCUMENT_EXPIRED" \in doc.reasons <=> Fails(doc.evidence, "EXPIRY-NOT-PAST")
               /\ "INVALID_EXPIRY_DATE" \in doc.reasons
                     <=> Fails(doc.evidence, "DATE-FORMAT-EXPIRY_DATE")
               /\ "INVALID_DOCUMENT_NUMBER_FORMAT" \in doc.reasons
                     <=> Fails(doc.evidence, "DOCNUM-FORMAT")
               /\ "SUSPECTED_TAMPERING" \in doc.reasons
                     <=> \E s \in doc.signals : s.severity = "CRITICAL"
  <1> DEFINE read == Parsed(text)
             evidence == BuildDocumentEvidence(text)
             reasons == Reasons(read, text)
             doc == VerifyDocument(text)
  <1>1. /\ doc.reasons = reasons
        /\ doc.evidence = evidence
        /\ doc.signals = AssessDocumentFraudSignals(text, ValidateDocument(evidence))
    BY DEF VerifyDocument
  <1>2. /\ Extracted(evidence, "expiry_date") <=> Present(read, "expiry_date")
        /\ Extracted(evidence, "expiry_date") => evidence.fields["expiry_date"] = read["expiry_date"]
        /\ Extracted(evidence, "document_number") <=> Present(read, "document_number")
        /\ Extracted(evidence, "document_number")
              => evidence.fields["document_number"] = read["document_number"]
    BY FieldRead DEF CanonicalFields
  <1>3. read["expiry_date"] \in Dates => Present(read, "expiry_date")
    BY ValuesAssumption DEF Present
  <1>4. evidence.type = ClassifyDocument(read)
    BY DEF BuildDocumentEvidence
  <1>5. "DOCUMENT_EXPIRED" \in reasons
           <=> read["expiry_date"] \in Dates /\ read["expiry_date"] < ReferenceDate
    BY DEF Reasons
  <1>6. "INVALID_EXPIRY_DATE" \in reasons
           <=> Present(read, "expiry_date") /\ read["expiry_date"] \notin Dates
    BY DEF Reasons
  <1>7. "INVALID_DOCUMENT_NUMBER_FORMAT" \in reasons <=> InvalidNumber(read)
    BY DEF Reasons
  <1>8. "SUSPECTED_TAMPERING" \in reasons <=> "tampered" \in text.marks
    BY DEF Reasons
  <1> HIDE DEF read, evidence, reasons, doc
  <1>9. "DOCUMENT_EXPIRED" \in reasons <=> Fails(evidence, "EXPIRY-NOT-PAST")
    <2>1. \A d \in Dates : d < ReferenceDate <=> ~(d >= ReferenceDate)
      BY DatesAssumption, ReferenceAssumption
    <2>2. Dated(evidence, "expiry_date") <=> read["expiry_date"] \in Dates
      BY <1>2, <1>3 DEF Dated
    <2>3. Dated(evidence, "expiry_date") => evidence.fields["expiry_date"] = read["expiry_date"]
      BY <1>2 DEF Dated
    <2>4. Fails(evidence, "EXPIRY-NOT-PAST")
             <=> Dated(evidence, "expiry_date") /\ ~(evidence.fields["expiry_date"] >= ReferenceDate)
      BY SharedRules, Zenon
    <2> QED BY <1>5, <2>1, <2>2, <2>3, <2>4
  <1>10. "INVALID_EXPIRY_DATE" \in reasons <=> Fails(evidence, "DATE-FORMAT-EXPIRY_DATE")
    <2>1. Fails(evidence, "DATE-FORMAT-EXPIRY_DATE")
             <=> Extracted(evidence, "expiry_date") /\ ~Dated(evidence, "expiry_date")
      BY SharedRules, Zenon
    <2> QED BY <1>2, <1>6, <2>1 DEF Dated
  <1>11. "INVALID_DOCUMENT_NUMBER_FORMAT" \in reasons <=> Fails(evidence, "DOCNUM-FORMAT")
    <2>1. Fails(evidence, "DOCNUM-FORMAT")
             <=> /\ Known(evidence) /\ Extracted(evidence, "document_number")
                 /\ evidence.fields["document_number"] # evidence.type
      BY SharedRules, Zenon
    <2>2. InvalidNumber(read)
             <=> /\ evidence.type # "unknown" /\ Present(read, "document_number")
                 /\ read["document_number"] # evidence.type
      BY <1>4, WordsAssumption
         DEF InvalidNumber, ClassifyDocument, Inferred, Present, SupportedTypes
    <2> QED BY <1>2, <1>7, <2>1, <2>2 DEF Known
  <1>12. "SUSPECTED_TAMPERING" \in reasons <=> \E s \in doc.signals : s.severity = "CRITICAL"
    BY <1>1, <1>8, CriticalSignals
  <1> QED BY <1>1, <1>9, <1>10, <1>11, <1>12 DEF doc

-----------------------------------------------------------------------------
(* When there is nothing to remark on a document. *)

\* How many fields a complete document has, and how many it must have.
LEMMA FieldCounts ==
    /\ IsFiniteSet(CanonicalFields)
    /\ Cardinality(MandatoryFields) = 4
    /\ \A type \in SupportedTypes : Cardinality(FieldsByType(type)) = 6
  <1> DEFINE names2 == {"full_name"} \cup {"date_of_birth"}
             names3 == names2 \cup {"document_number"}
             names4 == names3 \cup {"expiry_date"}
             names5 == names4 \cup {"issue_date"}
  <1>1. IsFiniteSet({"full_name"}) /\ Cardinality({"full_name"}) = 1
    BY FS_Singleton
  <1>2. IsFiniteSet(names2) /\ Cardinality(names2) = 2
    BY <1>1, FS_AddElement
  <1>3. IsFiniteSet(names3) /\ Cardinality(names3) = 3
    <2>1. "document_number" \notin names2
      OBVIOUS
    <2> HIDE DEF names2
    <2> QED BY <1>2, <2>1, FS_AddElement
  <1>4. IsFiniteSet(names4) /\ Cardinality(names4) = 4
    <2>1. "expiry_date" \notin names3
      OBVIOUS
    <2> HIDE DEF names3
    <2> QED BY <1>3, <2>1, FS_AddElement
  <1>5. IsFiniteSet(names5) /\ Cardinality(names5) = 5
    <2>1. "issue_date" \notin names4
      OBVIOUS
    <2> HIDE DEF names4
    <2> QED BY <1>4, <2>1, FS_AddElement
  <1>6. ASSUME NEW x, x \notin names5
        PROVE  IsFiniteSet(names5 \cup {x}) /\ Cardinality(names5 \cup {x}) = 6
    <2> HIDE DEF names5
    <2> QED BY <1>5, <1>6, FS_AddElement
  <1>7. MandatoryFields = names4
    BY DEF MandatoryFields
  <1>8. ASSUME NEW type \in SupportedTypes
        PROVE  Cardinality(FieldsByType(type)) = 6
    <2> DEFINE place == IF type = "passport" THEN "nationality" ELSE "address"
    <2>1. FieldsByType(type) = names5 \cup {place}
      BY DEF FieldsByType, CanonicalFields, SupportedTypes
    <2>2. place \notin names5
      OBVIOUS
    <2> HIDE DEF place, names5
    <2> QED BY <1>6, <2>1, <2>2
  <1>9. IsFiniteSet(CanonicalFields)
    <2>1. IsFiniteSet(names5 \cup {"address"})
      BY <1>6
    <2>2. CanonicalFields = (names5 \cup {"address"}) \cup {"nationality"}
      BY DEF CanonicalFields
    <2> HIDE DEF names5
    <2> QED BY <2>1, <2>2, FS_AddElement
  <1> QED BY <1>4, <1>7, <1>8, <1>9

\* A document with the mandatory fields is enough of one for either generation of
\* rules: neither the rate of present fields nor the quality is remarked on.
LEMMA EnoughIsPresent ==
    ASSUME NEW text, \A name \in MandatoryFields : Present(Parsed(text), name),
           Type(text) \in SupportedTypes
    PROVE  /\ ~Insufficient(Parsed(text))
           /\ BuildDocumentEvidence(text).quality # "incomplete_unreadable"
  <1> DEFINE read == Parsed(text)
             found == PresentAmong(read, CanonicalFields)
             expected == FieldsByType(Type(text))
  <1>1. PresentAmong(read, MandatoryFields) = MandatoryFields
    BY DEF PresentAmong
  <1>2. ~Insufficient(read)
    BY <1>1, FieldCounts DEF Insufficient
  <1>3. text.lines # <<>>
    <2>1. SUFFICES ASSUME text.lines = <<>> PROVE FALSE
      OBVIOUS
    <2>2. {i \in DOMAIN text.lines : text.lines[i].key = "full_name"} = {}
      BY <2>1
    <2>3. read["full_name"] = Absent
      BY <2>2 DEF Parsed, CanonicalFields
    <2> QED BY <2>3 DEF Present, MandatoryFields
  <1>4. ~(2 * Cardinality(found) < Cardinality(expected))
    <2>1. MandatoryFields \in SUBSET found /\ found \in SUBSET CanonicalFields
      BY DEF PresentAmong, MandatoryFields, CanonicalFields
    <2>2. IsFiniteSet(found)
      BY <2>1, FieldCounts, FS_Subset
    <2>3. Cardinality(found) \in Nat /\ 4 <= Cardinality(found)
      BY <2>1, <2>2, FieldCounts, FS_Subset, FS_CardinalityType
    <2>4. Cardinality(expected) = 6
      BY FieldCounts
    <2> HIDE DEF found, expected
    <2> QED BY <2>3, <2>4
  <1>5. BuildDocumentEvidence(text).quality
            = AssessQuality(text, Cardinality(found), Cardinality(expected))
    BY DEF BuildDocumentEvidence, Type
  <1>6. BuildDocumentEvidence(text).quality # "incomplete_unreadable"
    <2> HIDE DEF found, expected
    <2> QED BY <1>3, <1>4, <1>5 DEF AssessQuality
  <1> QED BY <1>2, <1>6

\* The part of a passing document that is about its fields: the rules see it exactly.
PassingFields(text) ==
    LET read == Parsed(text)
        issued == read["issue_date"]
    IN  /\ Type(text) # "unknown"
        /\ \A name \in MandatoryFields : Present(read, name)
        /\ read["document_number"] = Type(text)
        /\ {read["date_of_birth"], read["expiry_date"]} \subseteq Dates
        /\ read["expiry_date"] >= ReferenceDate
        /\ Present(read, "issue_date") =>
               /\ issued \in Dates
               /\ read["date_of_birth"] < issued
               /\ issued < read["expiry_date"]
               /\ issued <= ReferenceDate

LEMMA PassingFieldsAreUnremarkable ==
    ASSUME NEW text
    PROVE  Unremarkable(ValidateDocument(BuildDocumentEvidence(text))) <=> PassingFields(text)
  <1> DEFINE read == Parsed(text)
             evidence == BuildDocumentEvidence(text)
             type == Type(text)
  <1>1. ASSUME NEW name \in {"full_name", "date_of_birth", "document_number",
                             "issue_date", "expiry_date"}
        PROVE  /\ Extracted(evidence, name) <=> Present(read, name)
               /\ Extracted(evidence, name) => evidence.fields[name] = read[name]
    BY FieldRead DEF CanonicalFields
  <1>2. evidence.type = type /\ type \in SupportedTypes \cup {"unknown"}
    BY DEF BuildDocumentEvidence, Type, ClassifyDocument, Inferred
  <1>3. type # "unknown" => DOMAIN evidence.fields = FieldsByType(type)
    BY DEF BuildDocumentEvidence, Type
  <1>4. \A name : read[name] \in Dates => Present(read, name)
    BY ValuesAssumption DEF Present
  <1>5. Known(evidence) <=> type # "unknown"
    BY <1>2 DEF Known
  <1>6. "unknown" \notin SupportedTypes
    BY DEF SupportedTypes
  <1> HIDE DEF read, evidence, type
  <1>7. ASSUME NEW name \in DateFields
        PROVE  /\ Dated(evidence, name) <=> read[name] \in Dates
               /\ Dated(evidence, name) => evidence.fields[name] = read[name]
    BY <1>1, <1>4 DEF Dated, DateFields
  <1>8. Unremarkable(ValidateDocument(evidence))
           <=> /\ type # "unknown"
               /\ \A name \in MandatoryFields : Present(read, name)
               /\ read["document_number"] = type
               /\ \A name \in DateFields : Present(read, name) => read[name] \in Dates
               /\ read["expiry_date"] \in Dates => read["expiry_date"] >= ReferenceDate
               /\ read["issue_date"] \in Dates => read["issue_date"] <= ReferenceDate
               /\ read["issue_date"] \in Dates /\ read["expiry_date"] \in Dates
                     => read["issue_date"] < read["expiry_date"]
               /\ read["date_of_birth"] \in Dates /\ read["issue_date"] \in Dates
                     => read["date_of_birth"] < read["issue_date"]
    <2>1. \A name \in MandatoryFields : Extracted(evidence, name) <=> Present(read, name)
      BY <1>1 DEF MandatoryFields
    <2>2. \A name \in DateFields : Extracted(evidence, name) <=> Present(read, name)
      BY <1>1 DEF DateFields
    <2>3. /\ Extracted(evidence, "document_number") <=> Present(read, "document_number")
          /\ Extracted(evidence, "document_number")
                => evidence.fields["document_number"] = read["document_number"]
      BY <1>1
    <2>4. "document_number" \in MandatoryFields
      BY DEF MandatoryFields
    <2>5. {"date_of_birth", "issue_date", "expiry_date"} = DateFields
      BY DEF DateFields
    <2> QED BY <1>2, <1>3, <1>5, <1>6, <1>7, <2>1, <2>2, <2>3, <2>4, <2>5, RulesSatisfied
  <1>9. PassingFields(text)
           <=> /\ type # "unknown"
               /\ \A name \in MandatoryFields : Present(read, name)
               /\ read["document_number"] = type
               /\ {read["date_of_birth"], read["expiry_date"]} \subseteq Dates
               /\ read["expiry_date"] >= ReferenceDate
               /\ Present(read, "issue_date") =>
                     /\ read["issue_date"] \in Dates
                     /\ read["date_of_birth"] < read["issue_date"]
                     /\ read["issue_date"] < read["expiry_date"]
                     /\ read["issue_date"] <= ReferenceDate
    BY DEF PassingFields, read, type
  <1>10. Unremarkable(ValidateDocument(evidence)) <=> PassingFields(text)
    BY <1>4, <1>8, <1>9 DEF MandatoryFields, DateFields
  <1> QED BY <1>10 DEF evidence

\* A document leaves no factor exactly when it passes, and then no signal either.
LEMMA PassingDocumentHasNoFinding ==
    ASSUME NEW text, IsText(text)
    PROVE  /\ DocumentRiskFactors(VerifyDocument(text)) = {} <=> PassingDocument(text)
           /\ PassingDocument(text) => VerifyDocument(text).signals = {}
  <1> DEFINE read == Parsed(text)
             evidence == BuildDocumentEvidence(text)
             results == ValidateDocument(evidence)
             reasons == Reasons(read, text)
             doc == VerifyDocument(text)
  <1>1. /\ doc.legacy = Evaluate(read, text)
        /\ doc.evidence = evidence
        /\ doc.validation = results
        /\ doc.signals = AssessDocumentFraudSignals(text, results)
    BY DEF VerifyDocument
  <1>2. Evaluate(read, text) \in {"APPROVE", "REVIEW", "REJECT"}
    BY DEF Evaluate
  <1>3. Evaluate(read, text) = "APPROVE" <=> reasons = {} /\ ~Warned(text)
    BY DEF Evaluate
  <1>4. PassingDocument(text) <=> PassingFields(text) /\ text.marks \subseteq {"unlabelled"}
    BY DEF PassingDocument, PassingFields
  <1>5. Unremarkable(results) <=> PassingFields(text)
    BY PassingFieldsAreUnremarkable
  <1>6. text.marks \subseteq {"unlabelled"} <=> "tampered" \notin text.marks /\ ~Warned(text)
    BY DEF IsText, Marks, Warned
  <1>7. PassingFields(text) => ~Insufficient(read) /\ evidence.quality # "incomplete_unreadable"
    <2>1. Type(text) # "unknown" => Type(text) \in SupportedTypes
      BY DEF Type, ClassifyDocument, Inferred
    <2> QED BY <2>1, EnoughIsPresent DEF PassingFields
  <1>8. PassingFields(text) => ~InvalidNumber(read)
    BY WordsAssumption
       DEF PassingFields, InvalidNumber, Type, ClassifyDocument, Inferred, Present, SupportedTypes
  <1>9. PassingFields(text) => read["expiry_date"] \in Dates /\ ~(read["expiry_date"] < ReferenceDate)
    BY DatesAssumption, ReferenceAssumption DEF PassingFields
  <1>10. PassingFields(text) => (reasons = {} <=> "tampered" \notin text.marks)
    BY <1>7, <1>8, <1>9 DEF Reasons
  <1> HIDE DEF read, evidence, results, reasons, doc
  <1>11. DocumentRiskFactors(doc) = {}
            <=> /\ doc.legacy \notin {"REJECT", "REVIEW"}
                /\ doc.evidence.quality # "incomplete_unreadable"
                /\ Unremarkable(doc.validation)
    <2>1. DocumentRiskFactors(doc) = {}
             <=> /\ {doc.legacy} \cap {"REJECT"} = {}
                 /\ {doc.legacy} \cap {"REVIEW"} = {}
                 /\ {doc.evidence.quality} \cap {"incomplete_unreadable"} = {}
                 /\ {x \in doc.validation : x.status = "UNKNOWN"} = {}
                 /\ Failed(doc.validation) = {}
      <3>1. ValidationRiskFactors(doc.validation) = {} <=> Failed(doc.validation) = {}
        BY DEF ValidationRiskFactors
      <3> DEFINE rejected == {Factor("document_decision", "CRITICAL", TRUE) :
                                 d \in {doc.legacy} \cap {"REJECT"}}
                 reviewed == {Factor("document_decision", "MEDIUM", FALSE) :
                                 d \in {doc.legacy} \cap {"REVIEW"}}
                 unreadable == {Factor("evidence_quality", "MEDIUM", FALSE) :
                                   q \in {doc.evidence.quality} \cap {"incomplete_unreadable"}}
                 unknown == {Factor("evidence_quality", "MEDIUM", FALSE) :
                                r \in {x \in doc.validation : x.status = "UNKNOWN"}}
      <3>2. DocumentRiskFactors(doc)
               = rejected \cup reviewed \cup unreadable \cup unknown
                    \cup ValidationRiskFactors(doc.validation)
        BY DEF DocumentRiskFactors
      <3>3. rejected = {} <=> {doc.legacy} \cap {"REJECT"} = {}
        OBVIOUS
      <3>4. reviewed = {} <=> {doc.legacy} \cap {"REVIEW"} = {}
        OBVIOUS
      <3>5. unreadable = {} <=> {doc.evidence.quality} \cap {"incomplete_unreadable"} = {}
        OBVIOUS
      <3>6. unknown = {} <=> {x \in doc.validation : x.status = "UNKNOWN"} = {}
        OBVIOUS
      <3> HIDE DEF rejected, reviewed, unreadable, unknown
      <3>7. DocumentRiskFactors(doc) = {}
               <=> /\ rejected = {} /\ reviewed = {} /\ unreadable = {} /\ unknown = {}
                   /\ ValidationRiskFactors(doc.validation) = {}
        BY <3>2
      <3> QED BY <3>1, <3>3, <3>4, <3>5, <3>6, <3>7
    <2> QED BY <2>1 DEF Unremarkable, Failed
  <1>12. "tampered" \in text.marks => reasons # {}
    BY DEF reasons, Reasons
  <1>13. DocumentRiskFactors(doc) = {} <=> PassingDocument(text)
    BY <1>1, <1>2, <1>3, <1>4, <1>5, <1>6, <1>7, <1>10, <1>11, <1>12
  <1>14. PassingDocument(text) => doc.signals = {}
    <2> SUFFICES ASSUME PassingDocument(text) PROVE doc.signals = {}
      OBVIOUS
    <2>1. Failed(results) = {}
      BY <1>4, <1>5 DEF Unremarkable, Failed
    <2>2. text.marks \cap {"tampered"} = {}
      BY <1>4, <1>6
    <2> QED BY <1>1, <2>1, <2>2 DEF AssessDocumentFraudSignals
  <1> QED BY <1>13, <1>14 DEF doc

-----------------------------------------------------------------------------
(* Two dates of birth. *)

Agreeing == {"EXACT", "NORMALIZED_MATCH"}

\* The most concerning of some statuses: a conflict when one of them is, and
\* agreement when there are some and all of them agree.
LEMMA WorstOf ==
    ASSUME NEW statuses \in SUBSET MatchStatuses
    PROVE  /\ WorstStatus(statuses) \in MatchStatuses
           /\ WorstStatus(statuses) = "CONFLICT" <=> "CONFLICT" \in statuses
           /\ WorstStatus(statuses) \in Agreeing <=> statuses # {} /\ statuses \subseteq Agreeing
  <1> DEFINE Worst(s) == \A t \in statuses : StatusRank[s] <= StatusRank[t]
  <1>1. /\ StatusRank["CONFLICT"] = 0
        /\ StatusRank["INSUFFICIENT_EVIDENCE"] = 1
        /\ StatusRank["FUZZY_MATCH"] = 2
        /\ StatusRank["NORMALIZED_MATCH"] = 3
        /\ StatusRank["EXACT"] = 4
    BY DEF StatusRank
  <1>2. \A s \in statuses : s \in {"CONFLICT", "INSUFFICIENT_EVIDENCE", "FUZZY_MATCH",
                                   "NORMALIZED_MATCH", "EXACT"}
    BY DEF MatchStatuses, Verdicts
  <1>3. CASE statuses = {}
    BY <1>3 DEF WorstStatus, MatchStatuses, Verdicts, Agreeing
  <1>4. CASE statuses # {}
    <2>1. \E s \in statuses : Worst(s)
      <3>1. CASE "CONFLICT" \in statuses
        BY <1>1, <1>2, <3>1
      <3>2. CASE "CONFLICT" \notin statuses /\ "INSUFFICIENT_EVIDENCE" \in statuses
        BY <1>1, <1>2, <3>2
      <3>3. CASE /\ statuses \cap {"CONFLICT", "INSUFFICIENT_EVIDENCE"} = {}
                 /\ "FUZZY_MATCH" \in statuses
        BY <1>1, <1>2, <3>3
      <3>4. CASE /\ statuses \cap {"CONFLICT", "INSUFFICIENT_EVIDENCE", "FUZZY_MATCH"} = {}
                 /\ "NORMALIZED_MATCH" \in statuses
        BY <1>1, <1>2, <3>4
      <3>5. CASE statuses = {"EXACT"}
        BY <1>1, <3>5
      <3> QED BY <1>2, <1>4, <3>1, <3>2, <3>3, <3>4, <3>5
    <2>2. WorstStatus(statuses) = CHOOSE s \in statuses : Worst(s)
      BY <1>4 DEF WorstStatus
    <2>3. WorstStatus(statuses) \in statuses /\ Worst(WorstStatus(statuses))
      BY <2>1, <2>2
    <2>4. "CONFLICT" \in statuses => WorstStatus(statuses) = "CONFLICT"
      BY <1>1, <1>2, <2>3
    <2>5. WorstStatus(statuses) \in Agreeing => statuses \subseteq Agreeing
      BY <1>1, <1>2, <2>3 DEF Agreeing
    <2> QED BY <1>4, <2>3, <2>4, <2>5
  <1> QED BY <1>3, <1>4

\* Two dates of birth conflict exactly when both parse and they differ.
LEMMA DobConflict ==
    ASSUME NEW a, NEW b
    PROVE  /\ CompareDob(a, b) \in MatchStatuses
           /\ CompareDob(a, b) = "CONFLICT" <=> a \in Dates /\ b \in Dates /\ a # b
  BY DEF CompareDob, MatchStatuses, Verdicts

\* The identity is in conflict on the date of birth exactly when the application
\* and the texts read two dates.
LEMMA BirthDateConflict ==
    ASSUME NEW submitted, NEW S, NEW texts \in Seq(S),
           NEW evidences, DOMAIN evidences = DOMAIN texts, Len(evidences) = Len(texts),
           \A i \in DOMAIN texts : evidences[i] = BuildDocumentEvidence(texts[i])
    PROVE  ResolveIdentity(submitted, evidences).status["date_of_birth"] = "CONFLICT"
              <=> \E d, e \in BirthDates(submitted, texts) : d # e
  <1> DEFINE dob == "date_of_birth"
             Of(k) == SourceValue(dob, submitted, evidences, k)
             pairs == Pairwise(dob, submitted, evidences)
             Sources == 0..Len(evidences)
  <1>1. Absent \notin Dates /\ Blank \notin Dates
    BY ValuesAssumption
  <1>2. DOMAIN texts = 1..Len(evidences) /\ Len(evidences) \in Nat
    OBVIOUS
  <1>3. Of(0) = submitted.date_of_birth
    BY DEF SourceValue
  <1>4. ASSUME NEW k \in 1..Len(evidences)
        PROVE  \A d \in Dates : Of(k) = d <=> Parsed(texts[k])[dob] = d
    <2>1. evidences[k] = BuildDocumentEvidence(texts[k])
      BY <1>2, <1>4
    <2>2. k # 0
      BY <1>4
    <2>3. Of(k) = IF Present(Parsed(texts[k]), dob) THEN Parsed(texts[k])[dob] ELSE Absent
      BY <2>1, <2>2, FieldRead DEF SourceValue, CanonicalFields
    <2> QED BY <1>1, <2>3 DEF Present
  <1>5. BirthDates(submitted, texts) = {Of(k) : k \in Sources} \cap Dates
    <2> HIDE DEF Of
    <2>1. ASSUME NEW d \in Dates
          PROVE  d \in BirthDates(submitted, texts) <=> \E k \in Sources : Of(k) = d
      <3>1. (\E k \in Sources : Of(k) = d)
               <=> Of(0) = d \/ \E k \in 1..Len(evidences) : Of(k) = d
        BY <1>2
      <3>2. (\E k \in 1..Len(evidences) : Of(k) = d)
               <=> \E k \in 1..Len(evidences) : Parsed(texts[k])[dob] = d
        BY <1>4
      <3> QED BY <1>2, <1>3, <3>1, <3>2 DEF BirthDates
    <2>2. BirthDates(submitted, texts) \subseteq Dates
      BY DEF BirthDates
    <2> QED BY <2>1, <2>2
  <1>6. \A k, l : Compare(dob, Of(k), Of(l)) = CompareDob(Of(k), Of(l))
    BY DEF Compare
  <1> DEFINE usable == Usable(dob, submitted, evidences)
             ordered == {r \in usable \X usable : r[1] < r[2]}
             Verdict(q) == CompareDob(Of(q[1]), Of(q[2]))
  <1>7. {p.status : p \in pairs} = {Verdict(q) : q \in ordered}
    <2> DEFINE Pair(q) == [attribute |-> dob, status |-> Verdict(q)]
    <2>1. pairs = {Pair(q) : q \in ordered}
      BY <1>6 DEF Pairwise
    <2>2. \A q : Pair(q).status = Verdict(q)
      OBVIOUS
    <2> HIDE DEF pairs, Pair, Verdict, ordered
    <2> QED BY <2>1, <2>2
  <1>8. Usable(dob, submitted, evidences) = {k \in Sources : Of(k) # Absent}
    BY DEF Usable
  <1>9. "CONFLICT" \in {p.status : p \in pairs}
           <=> \E k, l \in Sources : k < l /\ Of(k) \in Dates /\ Of(l) \in Dates /\ Of(k) # Of(l)
    <2> HIDE DEF pairs, Of, Sources
    <2>1. ASSUME "CONFLICT" \in {p.status : p \in pairs}
          PROVE  \E k, l \in Sources : k < l /\ Of(k) \in Dates /\ Of(l) \in Dates /\ Of(k) # Of(l)
      <3>1. PICK q \in ordered : Verdict(q) = "CONFLICT"
        <4> HIDE DEF Verdict, ordered
        <4> QED BY <1>7, <2>1
      <3>2. q[1] \in Sources /\ q[2] \in Sources /\ q[1] < q[2]
        BY <1>8, <3>1
      <3>3. Of(q[1]) \in Dates /\ Of(q[2]) \in Dates /\ Of(q[1]) # Of(q[2])
        BY <3>1, DobConflict
      <3> QED BY <3>2, <3>3
    <2>2. ASSUME NEW k \in Sources, NEW l \in Sources,
                 k < l, Of(k) \in Dates, Of(l) \in Dates, Of(k) # Of(l)
          PROVE  "CONFLICT" \in {p.status : p \in pairs}
      <3>1. k \in usable /\ l \in usable
        BY <1>1, <1>8, <2>2
      <3>2. <<k, l>> \in ordered
        BY <2>2, <3>1
      <3>3. Verdict(<<k, l>>) = "CONFLICT"
        BY <2>2, DobConflict
      <3> HIDE DEF ordered, Verdict
      <3> QED BY <1>7, <3>2, <3>3
    <2> QED BY <2>1, <2>2
  <1>10. {p.status : p \in pairs} \in SUBSET MatchStatuses
    <2>1. \A q : Verdict(q) \in MatchStatuses
      BY DobConflict
    <2> HIDE DEF pairs, Verdict, ordered
    <2> QED BY <1>7, <2>1
  <1>11. ResolveIdentity(submitted, evidences).status[dob] = WorstStatus({p.status : p \in pairs})
    BY DEF ResolveIdentity, Attributes
  <1>12. (\E k, l \in Sources : k < l /\ Of(k) \in Dates /\ Of(l) \in Dates /\ Of(k) # Of(l))
            <=> \E d, e \in BirthDates(submitted, texts) : d # e
    <2> HIDE DEF Of
    <2>1. ASSUME NEW d \in BirthDates(submitted, texts), NEW e \in BirthDates(submitted, texts), d # e
          PROVE  \E k, l \in Sources : k < l /\ Of(k) \in Dates /\ Of(l) \in Dates /\ Of(k) # Of(l)
      <3>1. PICK k \in Sources : Of(k) = d
        BY <1>5
      <3>2. PICK l \in Sources : Of(l) = e
        BY <1>5
      <3>3. d \in Dates /\ e \in Dates
        BY <1>5
      <3>4. k # l
        BY <2>1, <3>1, <3>2
      <3>5. k < l \/ l < k
        BY <1>2, <3>4
      <3> QED BY <2>1, <3>1, <3>2, <3>3, <3>5
    <2> QED BY <1>5, <2>1
  <1> HIDE DEF pairs
  <1> QED BY <1>9, <1>10, <1>11, <1>12, WorstOf

-----------------------------------------------------------------------------
(* When the sources of a case agree. *)

\* The values of an attribute that are compared as names or as addresses are.
Comparable(attribute, value) ==
    /\ attribute = "full_name" => value \in Names
    /\ attribute = "address" => value \in Addresses

IsSubmission(submitted) ==
    /\ submitted.full_name \in Names \cup {Absent, Blank}
    /\ submitted.date_of_birth \in Dates \cup {Malformed, Absent, Blank}
    /\ submitted.address \in Addresses \cup {Absent, Blank}

\* A submission and texts that identity resolution can compare: nothing it raises on.
Resolvable(submitted, texts) ==
    /\ IsSubmission(submitted)
    /\ \A i \in DOMAIN texts : IsText(texts[i])
    /\ \A attribute \in {"full_name", "address"} :
          submitted[attribute] = Blank =>
              \A i \in DOMAIN texts : Given(attribute, submitted, texts)[i] = Absent

\* Comparing two comparable values gives one of the statuses, and whether they agree
\* does not depend on which comes first.
LEMMA CompareTyped ==
    ASSUME NEW attribute \in Attributes, NEW a, NEW b,
           Comparable(attribute, a), Comparable(attribute, b)
    PROVE  /\ Compare(attribute, a, b) \in MatchStatuses
           /\ Compare(attribute, a, b) \in Agreeing => Compare(attribute, b, a) \in Agreeing
  <1>1. CASE attribute = "full_name"
    <2>1. a \in Names /\ b \in Names
      BY <1>1 DEF Comparable
    <2>2. NameVerdict[<<a, b>>] \in Verdicts
      BY <2>1, VerdictsAssumption
    <2>3. NameVerdict[<<a, b>>] = "NORMALIZED_MATCH" => NameVerdict[<<b, a>>] = "NORMALIZED_MATCH"
      BY <2>1, NormalizedSymmetric
    <2>4. /\ Compare(attribute, a, b) = IF a = b THEN "EXACT" ELSE NameVerdict[<<a, b>>]
          /\ Compare(attribute, b, a) = IF b = a THEN "EXACT" ELSE NameVerdict[<<b, a>>]
      BY <1>1 DEF Compare, CompareNames
    <2> QED BY <2>2, <2>3, <2>4 DEF MatchStatuses, Verdicts, Agreeing
  <1>2. CASE attribute = "date_of_birth"
    <2>1. /\ Compare(attribute, a, b) = CompareDob(a, b)
          /\ Compare(attribute, b, a) = CompareDob(b, a)
      BY <1>2 DEF Compare
    <2> QED BY <2>1 DEF CompareDob, MatchStatuses, Verdicts, Agreeing
  <1>3. CASE attribute = "address"
    <2>1. a \in Addresses /\ b \in Addresses
      BY <1>3 DEF Comparable
    <2>2. AddressVerdict[<<a, b>>] \in Verdicts
      BY <2>1, VerdictsAssumption
    <2>3. AddressVerdict[<<a, b>>] = "NORMALIZED_MATCH" => AddressVerdict[<<b, a>>] = "NORMALIZED_MATCH"
      BY <2>1, NormalizedSymmetric
    <2>4. /\ Compare(attribute, a, b) = IF a = b THEN "EXACT" ELSE AddressVerdict[<<a, b>>]
          /\ Compare(attribute, b, a) = IF b = a THEN "EXACT" ELSE AddressVerdict[<<b, a>>]
      BY <1>3 DEF Compare, CompareAddresses
    <2> QED BY <2>2, <2>3, <2>4 DEF MatchStatuses, Verdicts, Agreeing
  <1> QED BY <1>1, <1>2, <1>3 DEF Attributes

\* What identity resolution takes for the value of a source is what the case gives.
LEMMA SourceGiven ==
    ASSUME NEW submitted, NEW texts, NEW evidences, NEW attribute \in Attributes,
           NEW k \in 0..Len(texts), k # 0 => evidences[k] = BuildDocumentEvidence(texts[k])
    PROVE  SourceValue(attribute, submitted, evidences, k) = Given(attribute, submitted, texts)[k]
  <1>1. CASE k = 0
    BY <1>1 DEF SourceValue, Given
  <1>2. CASE k # 0
    <2>1. attribute \in CanonicalFields \ {"nationality"}
      BY DEF Attributes, CanonicalFields
    <2>2. SourceValue(attribute, submitted, evidences, k)
             = IF Extracted(evidences[k], attribute) THEN evidences[k].fields[attribute] ELSE Absent
      BY <1>2 DEF SourceValue
    <2>3. Given(attribute, submitted, texts)[k]
             = IF attribute = "address" /\ Type(texts[k]) = "passport" THEN Absent
               ELSE IF Present(Parsed(texts[k]), attribute) THEN Parsed(texts[k])[attribute]
               ELSE Absent
      BY <1>2 DEF Given
    <2> QED BY <1>2, <2>1, <2>2, <2>3, FieldRead
  <1> QED BY <1>1, <1>2

\* An empty submitted value stops the resolution when a document gives one.
LEMMA RaisesGiven ==
    ASSUME NEW submitted, NEW texts, Len(texts) \in Nat, DOMAIN texts = 1..Len(texts),
           NEW evidences, DOMAIN evidences = DOMAIN texts,
           \A i \in DOMAIN texts : evidences[i] = BuildDocumentEvidence(texts[i])
    PROVE  ~Raises(submitted, evidences)
              <=> \A attribute \in {"full_name", "address"} :
                     submitted[attribute] = Blank =>
                        \A i \in DOMAIN texts : Given(attribute, submitted, texts)[i] = Absent
  <1>1. ASSUME NEW attribute \in {"full_name", "address"}, NEW i \in DOMAIN texts
        PROVE  Extracted(evidences[i], attribute) <=> Given(attribute, submitted, texts)[i] # Absent
    <2>1. Given(attribute, submitted, texts)[i] = SourceValue(attribute, submitted, evidences, i)
      <3>1. attribute \in Attributes
        BY DEF Attributes
      <3>2. i \in 0..Len(texts) /\ evidences[i] = BuildDocumentEvidence(texts[i])
        OBVIOUS
      <3> QED BY <3>1, <3>2, SourceGiven
    <2>2. i # 0
      OBVIOUS
    <2> QED BY <2>1, <2>2 DEF SourceValue, Extracted
  <1> QED BY <1>1 DEF Raises

\* Two sources of a resolvable case that both give an attribute can be compared on it.
LEMMA GivenComparable ==
    ASSUME NEW submitted, NEW S, NEW texts \in Seq(S), Resolvable(submitted, texts),
           NEW attribute \in Attributes, NEW k \in 0..Len(texts), NEW l \in 0..Len(texts), k # l,
           Given(attribute, submitted, texts)[k] # Absent,
           Given(attribute, submitted, texts)[l] # Absent
    PROVE  Comparable(attribute, Given(attribute, submitted, texts)[k])
  <1> DEFINE given == Given(attribute, submitted, texts)
  <1>1. CASE k # 0
    <2>1. k \in DOMAIN texts /\ IsText(texts[k])
      BY <1>1 DEF Resolvable
    <2>2. /\ given[k] = Parsed(texts[k])[attribute]
          /\ Present(Parsed(texts[k]), attribute)
      BY <1>1 DEF Given
    <2>3. attribute \in CanonicalFields
      BY DEF Attributes, CanonicalFields
    <2>4. given[k] \in Values(attribute)
      BY <2>1, <2>2, <2>3, ReadTyped
    <2>5. Values("full_name") = Names /\ Values("address") = Addresses
      BY DEF Values, DateFields
    <2> HIDE DEF given
    <2>6. Comparable(attribute, given[k])
      BY <2>4, <2>5 DEF Comparable
    <2> QED BY <2>6 DEF given
  <1>2. CASE k = 0
    <2>1. l \in DOMAIN texts
      BY <1>2
    <2>2. given[0] = submitted[attribute]
      BY DEF Given
    <2>3. attribute \in {"full_name", "address"} => submitted[attribute] # Blank
      BY <2>1 DEF Resolvable
    <2>4. submitted[attribute] # Absent
      BY <1>2, <2>2
    <2> HIDE DEF given
    <2>5. Comparable(attribute, given[k])
      BY <1>2, <2>2, <2>3, <2>4 DEF Comparable, Resolvable, IsSubmission
    <2> QED BY <2>5 DEF given
  <1> QED BY <1>1, <1>2

\* The comparisons of an attribute are of declared statuses, and the attribute is
\* corroborated when there is one and all of them agree.
LEMMA PairStatuses ==
    ASSUME NEW submitted, NEW S, NEW texts \in Seq(S), Resolvable(submitted, texts),
           NEW evidences, Len(evidences) = Len(texts),
           \A i \in DOMAIN texts : evidences[i] = BuildDocumentEvidence(texts[i]),
           NEW attribute \in Attributes
    PROVE  LET pairs == Pairwise(attribute, submitted, evidences)
           IN  /\ \A p \in pairs : p.status \in MatchStatuses
               /\ Corroborated(attribute, submitted, texts)
                     <=> pairs # {} /\ \A p \in pairs : p.status \in Agreeing
  <1> DEFINE pairs == Pairwise(attribute, submitted, evidences)
             given == Given(attribute, submitted, texts)
             Of(k) == SourceValue(attribute, submitted, evidences, k)
             usable == Usable(attribute, submitted, evidences)
             sources == {k \in DOMAIN given : given[k] # Absent}
             Status(k, l) == Compare(attribute, given[k], given[l])
  <1>1. DOMAIN given = 0..Len(texts) /\ Len(texts) \in Nat /\ DOMAIN texts = 1..Len(texts)
    BY DEF Given
  <1>2. \A k \in 0..Len(texts) : Of(k) = given[k]
    <2> TAKE k \in 0..Len(texts)
    <2>1. k # 0 => evidences[k] = BuildDocumentEvidence(texts[k])
      BY <1>1
    <2> QED BY <2>1, SourceGiven
  <1>3. usable = sources /\ sources \subseteq 0..Len(texts)
    <2>1. usable = {k \in 0..Len(texts) : Of(k) # Absent}
      BY DEF Usable
    <2> HIDE DEF Of, given, usable
    <2> QED BY <1>1, <1>2, <2>1
  <1>4. \A p : p \in pairs <=> \E k, l \in sources :
                                  k < l /\ p = [attribute |-> attribute, status |-> Status(k, l)]
    <2> DEFINE Pair(k, l) == [attribute |-> attribute, status |-> Compare(attribute, Of(k), Of(l))]
    <2>1. pairs = {Pair(q[1], q[2]) : q \in {r \in usable \X usable : r[1] < r[2]}}
      BY DEF Pairwise
    <2>2. \A k, l \in sources : Pair(k, l) = [attribute |-> attribute, status |-> Status(k, l)]
      <3> HIDE DEF given, Of
      <3> QED BY <1>2, <1>3
    <2> HIDE DEF pairs, given, usable, sources, Pair, Status
    <2>3. \A p : p \in pairs <=> \E k, l \in sources : k < l /\ p = Pair(k, l)
      <3>1. ASSUME NEW k \in sources, NEW l \in sources, k < l
            PROVE  Pair(k, l) \in pairs
        <4>1. <<k, l>> \in {r \in usable \X usable : r[1] < r[2]}
          BY <1>3, <3>1
        <4> QED BY <2>1, <4>1
      <3>2. ASSUME NEW p \in pairs
            PROVE  \E k, l \in sources : k < l /\ p = Pair(k, l)
        BY <1>3, <2>1, <3>2
      <3> QED BY <3>1, <3>2
    <2> QED BY <2>2, <2>3
  <1>5. ASSUME NEW k \in sources, NEW l \in sources, k < l
        PROVE  Status(k, l) \in MatchStatuses
    <2>1. k \in 0..Len(texts) /\ l \in 0..Len(texts) /\ k # l
      BY <1>3, <1>5
    <2>2. Comparable(attribute, given[k]) /\ Comparable(attribute, given[l])
      BY <2>1, GivenComparable
    <2> HIDE DEF given
    <2> QED BY <2>2, CompareTyped
  <1> HIDE DEF pairs, given, usable, Status
  <1>6. \A p \in pairs : p.status \in MatchStatuses
    BY <1>4, <1>5
  <1>7. Corroborated(attribute, submitted, texts)
           <=> /\ \E k, l \in sources : k # l
               /\ \A k, l \in sources : k < l => Status(k, l) \in Agreeing
    BY DEF Corroborated, Agreeing, given, Status
  <1>8. (\E k, l \in sources : k # l) <=> \E k, l \in sources : k < l
    BY <1>1, <1>3
  <1> HIDE DEF sources
  <1>9. (\E k, l \in sources : k < l) <=> pairs # {}
    BY <1>4
  <1>10. (\A k, l \in sources : k < l => Status(k, l) \in Agreeing)
            <=> \A p \in pairs : p.status \in Agreeing
    <2>1. ASSUME \A p \in pairs : p.status \in Agreeing,
                 NEW k \in sources, NEW l \in sources, k < l
          PROVE  Status(k, l) \in Agreeing
      <3>1. [attribute |-> attribute, status |-> Status(k, l)] \in pairs
        BY <1>4, <2>1
      <3> QED BY <2>1, <3>1
    <2>2. ASSUME \A k, l \in sources : k < l => Status(k, l) \in Agreeing, NEW p \in pairs
          PROVE  p.status \in Agreeing
      BY <1>4, <2>2
    <2> QED BY <2>1, <2>2
  <1> QED BY <1>6, <1>7, <1>8, <1>9, <1>10 DEF pairs

\* The identity of a resolvable case agrees on an attribute exactly when the case
\* corroborates it, and a case corroborated throughout has no two sources in conflict.
LEMMA CorroboratedResolves ==
    ASSUME NEW submitted, NEW S, NEW texts \in Seq(S), Resolvable(submitted, texts),
           NEW evidences, Len(evidences) = Len(texts),
           \A i \in DOMAIN texts : evidences[i] = BuildDocumentEvidence(texts[i])
    PROVE  LET resolved == ResolveIdentity(submitted, evidences)
           IN  /\ \A attribute \in Attributes :
                     /\ resolved.status[attribute] \in MatchStatuses
                     /\ resolved.status[attribute] \in Agreeing
                           <=> Corroborated(attribute, submitted, texts)
               /\ (\A attribute \in Attributes : Corroborated(attribute, submitted, texts))
                     => \A p \in resolved.pairs : p.status # "CONFLICT"
  <1> DEFINE resolved == ResolveIdentity(submitted, evidences)
             Pairs(attribute) == Pairwise(attribute, submitted, evidences)
             Statuses(attribute) == {p.status : p \in Pairs(attribute)}
  <1>1. /\ \A attribute \in Attributes : resolved.status[attribute] = WorstStatus(Statuses(attribute))
        /\ resolved.pairs = UNION {Pairs(attribute) : attribute \in Attributes}
    BY DEF ResolveIdentity
  <1>2. ASSUME NEW attribute \in Attributes
        PROVE  /\ \A p \in Pairs(attribute) : p.status \in MatchStatuses
               /\ Corroborated(attribute, submitted, texts)
                     <=> /\ Pairs(attribute) # {}
                         /\ \A p \in Pairs(attribute) : p.status \in Agreeing
    BY PairStatuses
  <1> HIDE DEF Pairs
  <1>3. ASSUME NEW attribute \in Attributes
        PROVE  /\ resolved.status[attribute] \in MatchStatuses
               /\ resolved.status[attribute] \in Agreeing
                     <=> Corroborated(attribute, submitted, texts)
    <2>1. Statuses(attribute) \in SUBSET MatchStatuses
      BY <1>2
    <2>2. Corroborated(attribute, submitted, texts)
             <=> Statuses(attribute) # {} /\ Statuses(attribute) \subseteq Agreeing
      BY <1>2
    <2> HIDE DEF Statuses, resolved
    <2> QED BY <1>1, <2>1, <2>2, WorstOf
  <1>4. ASSUME \A attribute \in Attributes : Corroborated(attribute, submitted, texts),
               NEW p \in resolved.pairs
        PROVE  p.status # "CONFLICT"
    <2>1. PICK attribute \in Attributes : p \in Pairs(attribute)
      BY <1>1
    <2>2. p.status \in Agreeing
      BY <1>2, <1>4, <2>1
    <2> QED BY <2>2 DEF Agreeing
  <1> HIDE DEF resolved
  <1>5. /\ \A attribute \in Attributes :
              /\ resolved.status[attribute] \in MatchStatuses
              /\ resolved.status[attribute] \in Agreeing
                    <=> Corroborated(attribute, submitted, texts)
        /\ (\A attribute \in Attributes : Corroborated(attribute, submitted, texts))
              => \A p \in resolved.pairs : p.status # "CONFLICT"
    BY <1>3, <1>4
  <1> QED BY <1>5 DEF resolved

-----------------------------------------------------------------------------
(* The pipeline as a function of what was submitted and of the texts. *)

Verified(texts) == [i \in DOMAIN texts |-> VerifyDocument(texts[i])]

\* The stages of a document see that document alone, in the order of the case.
LEMMA VerifiedStages ==
    ASSUME NEW S, NEW texts \in Seq(S)
    PROVE  /\ DOMAIN texts = 1..Len(texts) /\ Len(texts) \in Nat
           /\ DOMAIN Verified(texts) = DOMAIN texts
           /\ DOMAIN Evidences(Verified(texts)) = DOMAIN texts
           /\ Len(Evidences(Verified(texts))) = Len(texts)
           /\ \A i \in DOMAIN texts :
                 LET doc == Verified(texts)[i]
                 IN  /\ doc.legacy = Evaluate(Parsed(texts[i]), texts[i])
                     /\ doc.reasons = Reasons(Parsed(texts[i]), texts[i])
                     /\ doc.evidence = BuildDocumentEvidence(texts[i])
                     /\ doc.validation = ValidateDocument(doc.evidence)
                     /\ doc.signals = AssessDocumentFraudSignals(texts[i], doc.validation)
                     /\ Evidences(Verified(texts))[i] = BuildDocumentEvidence(texts[i])
  <1>1. DOMAIN texts = 1..Len(texts) /\ Len(texts) \in Nat
    OBVIOUS
  <1>2. DOMAIN Verified(texts) = DOMAIN texts
    BY DEF Verified
  <1>3. ASSUME NEW i \in DOMAIN texts
        PROVE  LET doc == Verified(texts)[i]
               IN  /\ doc.legacy = Evaluate(Parsed(texts[i]), texts[i])
                   /\ doc.reasons = Reasons(Parsed(texts[i]), texts[i])
                   /\ doc.evidence = BuildDocumentEvidence(texts[i])
                   /\ doc.validation = ValidateDocument(doc.evidence)
                   /\ doc.signals = AssessDocumentFraudSignals(texts[i], doc.validation)
    <2>1. Verified(texts)[i] = VerifyDocument(texts[i])
      BY <1>3 DEF Verified
    <2> QED BY <2>1 DEF VerifyDocument
  <1>4. Evidences(Verified(texts)) = [i \in 1..Len(texts) |-> Verified(texts)[i].evidence]
    BY <1>1, <1>2 DEF Evidences
  <1>5. /\ DOMAIN Evidences(Verified(texts)) = DOMAIN texts
        /\ Len(Evidences(Verified(texts))) = Len(texts)
        /\ \A i \in DOMAIN texts : Evidences(Verified(texts))[i] = Verified(texts)[i].evidence
    BY <1>1, <1>4
  <1> QED BY <1>1, <1>2, <1>3, <1>5

\* Whatever was submitted and whatever the texts, the outcome is a rejection
\* exactly on a tampered or expired document or two dates of birth.
LEMMA OutcomeRejects ==
    ASSUME NEW submitted, NEW S, NEW texts \in Seq(S)
    PROVE  Outcome(submitted, texts) = "REJECT" <=> HardStop(submitted, texts)
  <1> DEFINE docs_ == Verified(texts)
             identity_ == ResolveIdentity(submitted, Evidences(docs_))
             duplicates_ == CheckNoDuplicateDocumentType(Evidences(docs_))
             signals_ == DocumentSignals(docs_) \cup AssessCaseFraud(identity_, duplicates_)
             factors_ == DeriveRiskFactors(docs_, identity_, signals_, duplicates_)
  <1>1. Outcome(submitted, texts) = Decide(factors_)
    BY DEF Outcome, Verified
  <1>2. Outcome(submitted, texts) = "REJECT" <=> \E f \in factors_ : f.hardStop
    BY <1>1 DEF Decide
  <1>3. \A i \in DOMAIN docs_ : \A r \in docs_[i].validation : r.severity # "CRITICAL"
    BY VerifiedStages, NoRuleIsCritical
  <1>4. (\E f \in factors_ : f.hardStop)
           <=> \/ \E i \in DOMAIN docs_ : docs_[i].legacy = "REJECT"
               \/ identity_.status["date_of_birth"] = "CONFLICT"
               \/ \E s \in signals_ : s.severity = "CRITICAL"
    BY <1>3, DuplicatesNotCritical, HardStopFactors
  <1>5. \A i \in DOMAIN texts : docs_[i].legacy = "REJECT"
                                   <=> "tampered" \in texts[i].marks \/ Expired(texts[i])
    BY VerifiedStages, RejectedByRules
  <1>6. (\E s \in signals_ : s.severity = "CRITICAL")
            <=> \E i \in DOMAIN texts : "tampered" \in texts[i].marks
    <2>1. (\E s \in signals_ : s.severity = "CRITICAL")
             <=> \E i \in DOMAIN docs_ : \E s \in docs_[i].signals : s.severity = "CRITICAL"
      BY NoCaseSignalIsCritical DEF DocumentSignals
    <2>2. ASSUME NEW i \in DOMAIN texts
          PROVE  (\E s \in docs_[i].signals : s.severity = "CRITICAL")
                    <=> "tampered" \in texts[i].marks
      BY VerifiedStages, CriticalSignals
    <2> QED BY VerifiedStages, <2>1, <2>2
  <1>7. identity_.status["date_of_birth"] = "CONFLICT"
            <=> \E d, e \in BirthDates(submitted, texts) : d # e
    BY VerifiedStages, BirthDateConflict
  <1> HIDE DEF docs_, identity_, duplicates_, signals_, factors_
  <1>8. DOMAIN docs_ = DOMAIN texts
    BY VerifiedStages DEF docs_
  <1> QED BY <1>2, <1>4, <1>5, <1>6, <1>7, <1>8 DEF HardStop

\* Of a case that can be resolved, the outcome is an approval exactly when its inputs
\* pass.
LEMMA OutcomeApproves ==
    ASSUME NEW submitted, NEW S, NEW texts \in Seq(S), Resolvable(submitted, texts)
    PROVE  Outcome(submitted, texts) = "APPROVE" <=> PassingCase(submitted, texts)
  <1> DEFINE docs_ == Verified(texts)
             identity_ == ResolveIdentity(submitted, Evidences(docs_))
             duplicates_ == CheckNoDuplicateDocumentType(Evidences(docs_))
             signals_ == DocumentSignals(docs_) \cup AssessCaseFraud(identity_, duplicates_)
             factors_ == DeriveRiskFactors(docs_, identity_, signals_, duplicates_)
             Distinct_ == \A i, j \in DOMAIN texts :
                             i # j /\ Type(texts[i]) # "unknown" => Type(texts[i]) # Type(texts[j])
             Agreed_ == \A attribute \in Attributes : Corroborated(attribute, submitted, texts)
  <1>1. Outcome(submitted, texts) = "APPROVE" <=> factors_ = {}
    <2>1. Outcome(submitted, texts) = Decide(factors_)
      BY DEF Outcome, Verified
    <2> HIDE DEF factors_
    <2> QED BY <2>1 DEF Decide
  <1>2. DOMAIN docs_ = DOMAIN texts
    BY VerifiedStages
  <1>3. ASSUME NEW i \in DOMAIN texts
        PROVE  /\ DocumentRiskFactors(docs_[i]) = {} <=> PassingDocument(texts[i])
               /\ PassingDocument(texts[i]) => docs_[i].signals = {}
    <2>1. docs_[i] = VerifyDocument(texts[i]) /\ IsText(texts[i])
      BY DEF Verified, Resolvable
    <2> HIDE DEF docs_
    <2> QED BY <2>1, PassingDocumentHasNoFinding
  <1>4. /\ \A a \in Attributes : identity_.status[a] \in MatchStatuses
        /\ \A a \in Attributes :
              identity_.status[a] \in Agreeing <=> Corroborated(a, submitted, texts)
        /\ Agreed_ => \A p \in identity_.pairs : p.status # "CONFLICT"
    BY VerifiedStages, CorroboratedResolves
  <1>5. Failed({duplicates_}) = {} <=> Distinct_
    <2>1. duplicates_.status = "FAIL"
             <=> ~ \A i, j \in DOMAIN Evidences(docs_) :
                      i # j /\ Known(Evidences(docs_)[i])
                         => Evidences(docs_)[i].type # Evidences(docs_)[j].type
      BY DEF CheckNoDuplicateDocumentType, Ruled, Result
    <2>2. ASSUME NEW i \in DOMAIN texts
          PROVE  Evidences(docs_)[i].type = Type(texts[i])
      <3>1. Evidences(docs_)[i] = BuildDocumentEvidence(texts[i])
        BY VerifiedStages
      <3> QED BY <3>1 DEF BuildDocumentEvidence, Type
    <2>3. DOMAIN Evidences(docs_) = DOMAIN texts
      BY VerifiedStages
    <2>4. Failed({duplicates_}) = {} <=> duplicates_.status # "FAIL"
      BY DEF Failed
    <2> DEFINE E == Evidences(docs_)
    <2> HIDE DEF docs_, duplicates_, E
    <2>5. \A i, j \in DOMAIN texts :
             (i # j /\ Known(E[i]) => E[i].type # E[j].type)
                <=> (i # j /\ Type(texts[i]) # "unknown" => Type(texts[i]) # Type(texts[j]))
      BY <2>2 DEF Known, E
    <2> QED BY <2>1, <2>3, <2>4, <2>5 DEF E
  <1> HIDE DEF docs_, identity_, duplicates_, Agreed_
  <1>6. IdentityRiskFactors(identity_) = {} <=> Agreed_
    <2>1. IdentityRiskFactors(identity_) = {}
             <=> /\ OfStatus(identity_, "CONFLICT") = {}
                 /\ OfStatus(identity_, "FUZZY_MATCH") = {}
                 /\ OfStatus(identity_, "INSUFFICIENT_EVIDENCE") = {}
      <3> DEFINE Conflict(a) == Factor("identity_conflict",
                                       IF a = "date_of_birth" THEN "CRITICAL" ELSE "HIGH",
                                       a = "date_of_birth")
                 conflicts == {Conflict(a) : a \in OfStatus(identity_, "CONFLICT")}
                 fuzzy == {Factor("identity_uncertainty", "MEDIUM", FALSE) :
                              a \in OfStatus(identity_, "FUZZY_MATCH")}
                 lacking == {Factor("identity_uncertainty", "LOW", FALSE) :
                                a \in OfStatus(identity_, "INSUFFICIENT_EVIDENCE")}
      <3>1. IdentityRiskFactors(identity_) = conflicts \cup fuzzy \cup lacking
        BY DEF IdentityRiskFactors
      <3> HIDE DEF Conflict
      <3>2. conflicts = {} <=> OfStatus(identity_, "CONFLICT") = {}
        OBVIOUS
      <3>3. fuzzy = {} <=> OfStatus(identity_, "FUZZY_MATCH") = {}
        OBVIOUS
      <3>4. lacking = {} <=> OfStatus(identity_, "INSUFFICIENT_EVIDENCE") = {}
        OBVIOUS
      <3> HIDE DEF conflicts, fuzzy, lacking
      <3>5. IdentityRiskFactors(identity_) = {} <=> conflicts = {} /\ fuzzy = {} /\ lacking = {}
        BY <3>1
      <3> QED BY <3>2, <3>3, <3>4, <3>5
    <2>2. ASSUME NEW a \in Attributes
          PROVE  identity_.status[a] \in Agreeing
                    <=> identity_.status[a] \notin {"CONFLICT", "FUZZY_MATCH", "INSUFFICIENT_EVIDENCE"}
      BY <1>4 DEF Agreeing, MatchStatuses, Verdicts
    <2>3. Agreed_ <=> \A a \in Attributes : identity_.status[a] \in Agreeing
      BY <1>4 DEF Agreed_
    <2> QED BY <2>1, <2>2, <2>3 DEF OfStatus
  <1>7. factors_ = {}
           <=> /\ \A i \in DOMAIN texts : PassingDocument(texts[i])
               /\ Agreed_ /\ signals_ = {} /\ Distinct_
    <2> HIDE DEF signals_, Distinct_
    <2>1. FraudRiskFactors(signals_) = {} <=> signals_ = {}
      BY DEF FraudRiskFactors
    <2>2. ValidationRiskFactors({duplicates_}) = {} <=> Distinct_
      <3>1. ValidationRiskFactors({duplicates_}) = {} <=> Failed({duplicates_}) = {}
        BY DEF ValidationRiskFactors
      <3> QED BY <1>5, <3>1
    <2>3. factors_ = {} <=> /\ \A i \in DOMAIN docs_ : DocumentRiskFactors(docs_[i]) = {}
                            /\ IdentityRiskFactors(identity_) = {}
                            /\ FraudRiskFactors(signals_) = {}
                            /\ ValidationRiskFactors({duplicates_}) = {}
      BY DEF DeriveRiskFactors
    <2> HIDE DEF factors_
    <2> QED BY <1>2, <1>3, <1>6, <2>1, <2>2, <2>3
  <1>8. ASSUME \A i \in DOMAIN texts : PassingDocument(texts[i]), Agreed_, Distinct_
        PROVE  signals_ = {}
    <2>1. DocumentSignals(docs_) = {}
      BY <1>2, <1>3, <1>8 DEF DocumentSignals
    <2>2. {x \in identity_.pairs : x.status = "CONFLICT"} = {}
      BY <1>4, <1>8
    <2>3. AssessCaseFraud(identity_, duplicates_) = {}
      BY <1>5, <1>8, <2>2 DEF AssessCaseFraud
    <2> QED BY <2>1, <2>3
  <1>9. (\A i \in DOMAIN texts : PassingDocument(texts[i]))
            => (Distinct_ <=> \A i, j \in DOMAIN texts : i # j => Type(texts[i]) # Type(texts[j]))
    BY DEF PassingDocument
  <1> HIDE DEF factors_, signals_, Distinct_
  <1> QED BY <1>1, <1>7, <1>8, <1>9 DEF PassingCase, Agreed_

-----------------------------------------------------------------------------
(* The order of the documents. *)

\* A hard stop of some texts is one of any texts they are among.
LEMMA HardStopOfMore ==
    ASSUME NEW submitted, NEW fewer, NEW texts,
           \A k \in DOMAIN fewer : \E l \in DOMAIN texts : fewer[k] = texts[l],
           HardStop(submitted, fewer)
    PROVE  HardStop(submitted, texts)
  <1>1. BirthDates(submitted, fewer) \subseteq BirthDates(submitted, texts)
    BY DEF BirthDates
  <1> QED BY <1>1 DEF HardStop

\* Exchanging documents, each for the one at its place in the other list, leaves a
\* case resolvable and passing: agreement does not depend on which source comes first.
LEMMA PassingWhenExchanged ==
    ASSUME NEW submitted, NEW S, NEW texts \in Seq(S), Resolvable(submitted, texts),
           NEW place \in [0..Len(texts) -> 0..Len(texts)],
           place[0] = 0, \A k \in 0..Len(texts) : place[place[k]] = k,
           NEW others \in Seq(S), Len(others) = Len(texts),
           \A k \in 1..Len(texts) : others[k] = texts[place[k]]
    PROVE  /\ Resolvable(submitted, others)
           /\ PassingCase(submitted, texts) => PassingCase(submitted, others)
  <1>1. /\ DOMAIN texts = 1..Len(texts) /\ DOMAIN others = 1..Len(texts)
        /\ Len(texts) \in Nat
    OBVIOUS
  <1>2. \A k \in 1..Len(texts) : place[k] \in 1..Len(texts)
    <2> TAKE k \in 1..Len(texts)
    <2>1. k \in 0..Len(texts) /\ place[k] \in 0..Len(texts)
      BY <1>1
    <2>2. place[k] # 0
      <3>1. place[place[k]] = k /\ k # 0
        BY <1>1, <2>1
      <3> QED BY <3>1
    <2> QED BY <1>1, <2>1, <2>2
  <1>3. \A j, k \in 0..Len(texts) : j # k => place[j] # place[k]
    <2> TAKE j, k \in 0..Len(texts)
    <2>1. place[place[j]] = j /\ place[place[k]] = k
      OBVIOUS
    <2> QED BY <2>1
  <1>4. ASSUME NEW attribute, NEW k \in 0..Len(texts)
        PROVE  Given(attribute, submitted, others)[k] = Given(attribute, submitted, texts)[place[k]]
    <2>1. CASE k = 0
      BY <1>1, <2>1 DEF Given
    <2>2. CASE k # 0
      <3>1. k \in 1..Len(texts) /\ place[k] \in 1..Len(texts) /\ others[k] = texts[place[k]]
        BY <1>1, <1>2, <2>2
      <3>2. place[k] # 0 /\ place[k] \in 0..Len(texts)
        BY <3>1
      <3> QED BY <2>2, <3>1, <3>2 DEF Given
    <2> QED BY <2>1, <2>2
  <1>5. Resolvable(submitted, others)
    <2>1. \A i \in DOMAIN others : IsText(others[i])
      BY <1>1, <1>2 DEF Resolvable
    <2>2. ASSUME NEW attribute \in {"full_name", "address"}, submitted[attribute] = Blank,
                 NEW i \in DOMAIN others
          PROVE  Given(attribute, submitted, others)[i] = Absent
      <3>1. i \in 0..Len(texts) /\ place[i] \in DOMAIN texts
        BY <1>1, <1>2
      <3>2. Given(attribute, submitted, texts)[place[i]] = Absent
        BY <2>2, <3>1 DEF Resolvable
      <3> QED BY <1>4, <3>1, <3>2
    <2> QED BY <2>1, <2>2 DEF Resolvable
  <1>6. ASSUME NEW attribute \in Attributes, Corroborated(attribute, submitted, texts)
        PROVE  Corroborated(attribute, submitted, others)
    <2> DEFINE given == Given(attribute, submitted, texts)
               moved == Given(attribute, submitted, others)
               sources == {k \in DOMAIN given : given[k] # Absent}
               movedTo == {k \in DOMAIN moved : moved[k] # Absent}
    <2>1. DOMAIN given = 0..Len(texts) /\ DOMAIN moved = 0..Len(texts)
      BY DEF Given
    <2>2. \A k \in 0..Len(texts) : moved[k] = given[place[k]]
      BY <1>4
    <2>3. /\ \E k, l \in sources : k # l
          /\ \A k, l \in sources : k < l => Compare(attribute, given[k], given[l]) \in Agreeing
      BY <1>6 DEF Corroborated, Agreeing
    <2>4. \A k \in sources : place[k] \in movedTo
      <3> HIDE DEF given, moved
      <3> QED BY <2>1, <2>2
    <2>5. \E k, l \in movedTo : k # l
      <3>1. PICK k \in sources, l \in sources : k # l
        BY <2>3
      <3>2. place[k] # place[l]
        BY <1>3, <2>1, <3>1
      <3> HIDE DEF sources, movedTo
      <3> QED BY <2>4, <3>1, <3>2
    <2>6. ASSUME NEW k \in movedTo, NEW l \in movedTo, k < l
          PROVE  Compare(attribute, moved[k], moved[l]) \in Agreeing
      <3>1. /\ place[k] \in sources /\ place[l] \in sources /\ place[k] # place[l]
            /\ moved[k] = given[place[k]] /\ moved[l] = given[place[l]]
        <4>1. k \in 0..Len(texts) /\ l \in 0..Len(texts) /\ k # l
          BY <1>1, <2>1, <2>6
        <4> HIDE DEF given, moved
        <4> QED BY <1>3, <2>1, <2>2, <4>1
      <3>2. place[k] \in 0..Len(texts) /\ place[l] \in 0..Len(texts)
        BY <2>1, <3>1
      <3>3. Comparable(attribute, given[place[k]]) /\ Comparable(attribute, given[place[l]])
        BY <3>1, <3>2, GivenComparable
      <3>4. CASE place[k] < place[l]
        <4> HIDE DEF given, moved, sources
        <4> QED BY <2>3, <3>1, <3>4
      <3>5. CASE place[l] < place[k]
        <4> HIDE DEF given, moved, sources
        <4>1. Compare(attribute, given[place[l]], given[place[k]]) \in Agreeing
          BY <2>3, <3>1, <3>5
        <4> QED BY <3>1, <3>3, <4>1, CompareTyped
      <3> QED BY <1>1, <3>1, <3>2, <3>4, <3>5
    <2> QED BY <2>5, <2>6 DEF Corroborated, Agreeing
  <1>7. ASSUME PassingCase(submitted, texts)
        PROVE  PassingCase(submitted, others)
    <2>1. \A i \in DOMAIN others : PassingDocument(others[i])
      BY <1>1, <1>2, <1>7 DEF PassingCase
    <2>2. ASSUME NEW i \in DOMAIN others, NEW j \in DOMAIN others, i # j
          PROVE  Type(others[i]) # Type(others[j])
      <3>1. i \in 0..Len(texts) /\ j \in 0..Len(texts)
        BY <1>1
      <3>2. place[i] # place[j]
        BY <1>3, <2>2, <3>1
      <3>3. place[i] \in DOMAIN texts /\ place[j] \in DOMAIN texts
        BY <1>1, <1>2
      <3>4. others[i] = texts[place[i]] /\ others[j] = texts[place[j]]
        BY <1>1
      <3> QED BY <1>7, <3>2, <3>3, <3>4 DEF PassingCase
    <2>3. \A attribute \in Attributes : Corroborated(attribute, submitted, others)
      BY <1>6, <1>7 DEF PassingCase
    <2> QED BY <2>1, <2>2, <2>3 DEF PassingCase
  <1> QED BY <1>5, <1>7

\* What is decided of a resolvable case is the same when two of its documents change
\* places.
LEMMA OutcomeOfSwapped ==
    ASSUME NEW submitted, NEW S, NEW texts \in Seq(S), Resolvable(submitted, texts),
           NEW i \in 1..(Len(texts) - 1)
    PROVE  Outcome(submitted, Swapped(texts, i)) = Outcome(submitted, texts)
  <1> DEFINE others == Swapped(texts, i)
             place == [k \in 0..Len(texts) |-> IF k = i THEN i + 1 ELSE IF k = i + 1 THEN i ELSE k]
  <1>1. /\ DOMAIN texts = 1..Len(texts) /\ Len(texts) \in Nat
        /\ i \in DOMAIN texts /\ i + 1 \in DOMAIN texts
    OBVIOUS
  <1>2. others \in Seq(S) /\ Len(others) = Len(texts)
    BY <1>1 DEF Swapped
  <1>3. \A k \in 1..Len(texts) : others[k] = texts[place[k]]
    BY <1>1 DEF Swapped
  <1>4. /\ place \in [0..Len(texts) -> 0..Len(texts)]
        /\ place[0] = 0
        /\ \A k \in 0..Len(texts) : place[place[k]] = k
    BY <1>1
  <1>5. \A k \in 1..Len(texts) : texts[k] = others[place[k]]
    BY <1>1 DEF Swapped
  <1>6. DOMAIN others = 1..Len(texts) /\ \A k \in 1..Len(texts) : place[k] \in 1..Len(texts)
    BY <1>1, <1>2
  <1> HIDE DEF others, place
  <1>7. /\ Resolvable(submitted, others)
        /\ PassingCase(submitted, texts) => PassingCase(submitted, others)
    BY <1>2, <1>3, <1>4, PassingWhenExchanged
  <1>8. PassingCase(submitted, others) => PassingCase(submitted, texts)
    <2>1. place \in [0..Len(others) -> 0..Len(others)]
      BY <1>2, <1>4
    <2> QED BY <1>2, <1>4, <1>5, <1>7, <2>1, PassingWhenExchanged
  <1>9. HardStop(submitted, others) <=> HardStop(submitted, texts)
    <2>1. \A k \in DOMAIN others : \E l \in DOMAIN texts : others[k] = texts[l]
      BY <1>1, <1>3, <1>6
    <2>2. \A k \in DOMAIN texts : \E l \in DOMAIN others : texts[k] = others[l]
      BY <1>1, <1>5, <1>6
    <2> QED BY <2>1, <2>2, HardStopOfMore
  <1>10. /\ Outcome(submitted, others) = "REJECT" <=> Outcome(submitted, texts) = "REJECT"
         /\ Outcome(submitted, others) = "APPROVE" <=> Outcome(submitted, texts) = "APPROVE"
    <2>1. /\ Outcome(submitted, others) = "REJECT" <=> HardStop(submitted, others)
          /\ Outcome(submitted, texts) = "REJECT" <=> HardStop(submitted, texts)
      BY <1>2, OutcomeRejects
    <2>2. /\ Outcome(submitted, others) = "APPROVE" <=> PassingCase(submitted, others)
          /\ Outcome(submitted, texts) = "APPROVE" <=> PassingCase(submitted, texts)
      BY <1>2, <1>7, OutcomeApproves
    <2> QED BY <1>7, <1>8, <1>9, <2>1, <2>2
  <1>11. \A t : Outcome(submitted, t) \in {"REJECT", "REVIEW", "APPROVE"}
    BY DEF Outcome, Decide
  <1>12. Outcome(submitted, others) = Outcome(submitted, texts)
    BY <1>10, <1>11
  <1> QED BY <1>12 DEF others

-----------------------------------------------------------------------------
(* The types of what the stages produce. *)

\* Every result of a rule has one of the declared statuses and severities.
LEMMA ResultsTyped ==
    ASSUME NEW evidence, NEW r \in ValidateDocument(evidence)
    PROVE  r.status \in ValidationStatuses /\ r.severity \in Severities
  <1> DEFINE Typed(x) == x.status \in ValidationStatuses
  <1>1. /\ Typed(CheckSchema(evidence)) /\ Typed(CheckDocumentNumberFormat(evidence))
        /\ Typed(CheckTemporalIssueNotFuture(evidence)) /\ Typed(CheckExpiryNotPast(evidence))
        /\ Typed(CheckIssueBeforeExpiry(evidence)) /\ Typed(CheckDobBeforeIssue(evidence))
        /\ Typed(CheckDocumentTypeSupported(evidence)) /\ Typed(CheckChecksumSignature(evidence))
    BY DEF CheckSchema, CheckDocumentNumberFormat, CheckTemporalIssueNotFuture,
           CheckExpiryNotPast, CheckIssueBeforeExpiry, CheckDobBeforeIssue,
           CheckDocumentTypeSupported, CheckChecksumSignature, Ruled, Result, ValidationStatuses
  <1>2. \A x \in CheckMandatoryFields(evidence) : Typed(x)
    BY DEF CheckMandatoryFields, Ruled, Result, ValidationStatuses
  <1>3. \A x \in CheckDateFormats(evidence) : Typed(x)
    BY DEF CheckDateFormats, Ruled, Result, ValidationStatuses
  <1> HIDE DEF Typed
  <1>4. Typed(r)
    BY <1>1, <1>2, <1>3 DEF ValidateDocument
  <1>5. r.severity \in {"INFO", "MEDIUM", "HIGH"}
    BY NoRuleIsCritical
  <1> QED BY <1>4, <1>5 DEF Typed, Severities

\* What is kept of a document verified.
LEMMA DocumentTyped ==
    ASSUME NEW text
    PROVE  LET doc == VerifyDocument(text)
           IN  /\ doc.legacy \in Decisions
               /\ doc.evidence.type \in SupportedTypes \cup {"unknown"}
               /\ doc.evidence.quality \in Qualities
               /\ \A r \in doc.validation : r.status \in ValidationStatuses /\ r.severity \in Severities
               /\ \A s \in doc.signals : s.severity \in Severities
  <1> DEFINE doc == VerifyDocument(text)
             evidence == BuildDocumentEvidence(text)
             results == ValidateDocument(evidence)
  <1>1. /\ doc.legacy = Evaluate(Parsed(text), text)
        /\ doc.evidence = evidence
        /\ doc.validation = results
        /\ doc.signals = AssessDocumentFraudSignals(text, results)
    BY DEF VerifyDocument
  <1>2. Evaluate(Parsed(text), text) \in Decisions
    BY DEF Evaluate, Decisions
  <1>3. evidence.type \in SupportedTypes \cup {"unknown"}
    BY DEF BuildDocumentEvidence, ClassifyDocument, Inferred
  <1>4. evidence.quality \in Qualities
    <2>1. \A present, expected : AssessQuality(text, present, expected) \in Qualities
      BY DEF AssessQuality, Qualities
    <2> QED BY <2>1 DEF BuildDocumentEvidence
  <1>5. \A r \in results : r.status \in ValidationStatuses /\ r.severity \in Severities
    BY ResultsTyped
  <1>6. \A s \in AssessDocumentFraudSignals(text, results) : s.severity \in Severities
    BY DEF AssessDocumentFraudSignals, Signal, Severities
  <1> HIDE DEF doc, evidence, results
  <1> QED BY <1>1, <1>2, <1>3, <1>4, <1>5, <1>6 DEF doc

\* A factor has the severity of a finding.
LEMMA FactorsTyped ==
    ASSUME NEW verified, NEW resolved, NEW found, NEW checked,
           \A i \in DOMAIN verified : \A r \in verified[i].validation : r.severity \in Severities,
           \A s \in found : s.severity \in Severities, checked.severity \in Severities,
           NEW f \in DeriveRiskFactors(verified, resolved, found, checked)
    PROVE  f.severity \in Severities
  <1>1. ASSUME NEW results, \A r \in results : r.severity \in Severities,
               NEW x \in ValidationRiskFactors(results)
        PROVE  x.severity \in Severities
    BY <1>1 DEF ValidationRiskFactors, Failed, Factor
  <1>2. ASSUME NEW i \in DOMAIN verified, NEW x \in DocumentRiskFactors(verified[i])
        PROVE  x.severity \in Severities
    <2>1. CASE x \in ValidationRiskFactors(verified[i].validation)
      BY <1>1, <2>1
    <2>2. CASE x \notin ValidationRiskFactors(verified[i].validation)
      BY <1>2, <2>2 DEF DocumentRiskFactors, Factor, Severities
    <2> QED BY <2>1, <2>2
  <1>3. \A x \in IdentityRiskFactors(resolved) : x.severity \in Severities
    BY DEF IdentityRiskFactors, Factor, Severities
  <1>4. \A x \in FraudRiskFactors(found) : x.severity \in Severities
    BY DEF FraudRiskFactors, Factor
  <1>5. \A x \in ValidationRiskFactors({checked}) : x.severity \in Severities
    BY <1>1
  <1> QED BY <1>2, <1>3, <1>4, <1>5 DEF DeriveRiskFactors

-----------------------------------------------------------------------------
(* The invariant: the result of every stage that has passed is what that     *)
(* stage makes of the application and of the stages before it.               *)

Assessed == {"verified", "review_open", "not_eligible"}

Resolved == {"validate", "fraud", "decide"} \cup Assessed

Verifications(texts) == {VerifyDocument(texts[i]) : i \in DOMAIN texts}

TracedDocuments ==
    /\ application = NotYet => docs = <<>> /\ stage \in {"load", "not_found"}
    /\ application # NotYet =>
          /\ application \in Applications
          /\ stage # "load"
          /\ docs \in Seq(Verifications(application.texts))
          /\ Len(docs) <= Len(application.texts)
          /\ \A i \in 1..Len(docs) : /\ application.texts[i] # Missing
                                     /\ docs[i] = VerifyDocument(application.texts[i])
          /\ stage \notin {"documents", "not_found"} => Len(docs) = Len(application.texts)

TracedStages ==
    /\ stage \in Stages
    /\ stage \in Resolved =>
          /\ ~Raises(application, Evidences(docs))
          /\ identity = ResolveIdentity(application, Evidences(docs))
    /\ stage \in {"fraud", "decide"} \cup Assessed =>
          duplicates = CheckNoDuplicateDocumentType(Evidences(docs))
    /\ stage \in {"decide"} \cup Assessed =>
          signals = DocumentSignals(docs) \cup AssessCaseFraud(identity, duplicates)
    /\ stage \in Assessed =>
          /\ factors = DeriveRiskFactors(docs, identity, signals, duplicates)
          /\ decision = Decide(factors)
    /\ stage \notin Resolved => identity = NotYet
    /\ stage \notin Assessed => factors = {} /\ decision = NotYet
    /\ priority \in {"HIGH", "MEDIUM", "LOW", NotYet}
    /\ stage = "review_open" => decision = "REVIEW"

Traced == TracedDocuments /\ TracedStages

\* A request that has not begun has produced nothing.
LEMMA InitTraced == Init => Traced
  BY DEF Init, Traced, TracedDocuments, TracedStages, Stages, Assessed, Resolved

\* Each stage after the documents leaves what its inputs make of it.
LEMMA NextTracesStages == TracedStages /\ [Next]_vars => TracedStages'
  <1> SUFFICES ASSUME TracedStages, [Next]_vars PROVE TracedStages'
    OBVIOUS
  <1> USE DEF TracedStages, Stages, Assessed, Resolved
  <1>1. CASE LoadApplication
    BY <1>1 DEF LoadApplication
  <1>2. CASE NotOnFile
    BY <1>2 DEF NotOnFile
  <1>3. CASE VerifyNextDocument
    BY <1>3 DEF VerifyNextDocument
  <1>4. CASE ResolveCaseIdentity
    BY <1>4 DEF ResolveCaseIdentity
  <1>5. CASE ResolutionFails
    BY <1>5 DEF ResolutionFails
  <1>6. CASE ValidateCase
    BY <1>6 DEF ValidateCase
  <1>7. CASE AssessFraud
    BY <1>7 DEF AssessFraud
  <1>8. CASE AssessCaseRisk
    BY <1>8 DEF AssessCaseRisk
  <1>9. CASE OpenReviewCase
    BY <1>9 DEF OpenReviewCase, DerivePriority
  <1>10. CASE RefuseReview
    BY <1>10 DEF RefuseReview
  <1>11. CASE UNCHANGED vars
    BY <1>11 DEF vars
  <1> QED BY <1>1, <1>2, <1>3, <1>4, <1>5, <1>6, <1>7, <1>8, <1>9, <1>10, <1>11 DEF Next

\* The documents verified so far are the first ones of the application.
LEMMA NextTracesDocuments == TracedDocuments /\ TracedStages /\ [Next]_vars => TracedDocuments'
  <1> SUFFICES ASSUME TracedDocuments, stage \in Stages, [Next]_vars PROVE TracedDocuments'
    BY DEF TracedStages
  <1> USE DEF TracedDocuments
  <1>1. CASE LoadApplication
    <2>1. application = NotYet /\ docs = <<>>
      BY <1>1 DEF LoadApplication
    <2>2. application' \in Applications /\ application' # NotYet /\ stage' = "documents" /\ docs' = <<>>
      BY <1>1, <2>1, NotYetAssumption DEF LoadApplication
    <2>3. application'.texts \in Seq({application'.texts[i] : i \in DOMAIN application'.texts})
      BY <2>2, ApplicationsAssumption
    <2>4. Len(application'.texts) \in Nat
      BY <2>3
    <2>5. <<>> \in Seq(Verifications(application'.texts)) /\ Len(<<>>) = 0
      OBVIOUS
    <2> QED BY <2>2, <2>4, <2>5
  <1>2. CASE NotOnFile
    BY <1>2 DEF NotOnFile
  <1>3. CASE VerifyNextDocument
    <2> DEFINE texts == application.texts
               next == Len(docs) + 1
    <2>1. application # NotYet /\ application \in Applications
      BY <1>3 DEF VerifyNextDocument
    <2>2. texts \in Seq({texts[i] : i \in DOMAIN texts})
      BY <2>1, ApplicationsAssumption
    <2>3. docs \in Seq(Verifications(texts)) /\ Len(docs) \in Nat
      BY <2>1
    <2>4. Len(docs) < Len(texts) /\ docs' = Append(docs, VerifyDocument(texts[next]))
      BY <1>3 DEF VerifyNextDocument
    <2>5. next \in DOMAIN texts
      BY <2>2, <2>3, <2>4
    <2>6. VerifyDocument(texts[next]) \in Verifications(texts)
      BY <2>5 DEF Verifications
    <2>7. docs' \in Seq(Verifications(texts)) /\ Len(docs') = next
      BY <2>3, <2>4, <2>6
    <2>8. \A i \in 1..Len(docs') : texts[i] # Missing /\ docs'[i] = VerifyDocument(texts[i])
      <3>1. ASSUME NEW i \in 1..Len(docs)
            PROVE  texts[i] # Missing /\ docs'[i] = VerifyDocument(texts[i])
        BY <2>1, <2>3, <2>4, <2>6, <3>1
      <3>2. texts[next] # Missing /\ docs'[next] = VerifyDocument(texts[next])
        BY <1>3, <2>3, <2>4, <2>6 DEF VerifyNextDocument
      <3> QED BY <2>3, <2>7, <3>1, <3>2
    <2>9. stage = "documents" /\ stage' = stage /\ application' = application
      BY <1>3 DEF VerifyNextDocument
    <2>10. Len(docs') <= Len(texts)
      BY <2>2, <2>3, <2>4, <2>7
    <2> QED BY <2>1, <2>7, <2>8, <2>9, <2>10
  <1>4. CASE ResolveCaseIdentity
    BY <1>4 DEF ResolveCaseIdentity
  <1>5. CASE ResolutionFails
    BY <1>5 DEF ResolutionFails
  <1>6. CASE ValidateCase
    BY <1>6 DEF ValidateCase
  <1>7. CASE AssessFraud
    BY <1>7 DEF AssessFraud
  <1>8. CASE AssessCaseRisk
    BY <1>8 DEF AssessCaseRisk
  <1>9. CASE OpenReviewCase
    BY <1>9 DEF OpenReviewCase
  <1>10. CASE RefuseReview
    BY <1>10 DEF RefuseReview
  <1>11. CASE UNCHANGED vars
    BY <1>11 DEF vars
  <1> QED BY <1>1, <1>2, <1>3, <1>4, <1>5, <1>6, <1>7, <1>8, <1>9, <1>10, <1>11 DEF Next

\* At every step what the stages have produced is what they make of the
\* application loaded: nothing is carried over, lost or computed twice.
THEOREM TracedCorrect == Spec => []Traced
  <1>1. Traced /\ [Next]_vars => Traced'
    BY NextTracesStages, NextTracesDocuments DEF Traced
  <1> QED BY InitTraced, <1>1, PTL DEF Spec

-----------------------------------------------------------------------------
(* The theorems. *)

\* Nothing critical is ever put up for review, and never a case without a finding.
THEOREM NothingCriticalInReviewCorrect == Spec => []NothingCriticalInReview
  <1>1. Traced => NothingCriticalInReview
    <2> SUFFICES ASSUME Traced, stage = "review_open"
                 PROVE  factors # {} /\ \A f \in factors : f.severity # "CRITICAL"
      BY DEF NothingCriticalInReview
    <2>1. /\ factors = DeriveRiskFactors(docs, identity, signals, duplicates)
          /\ Decide(factors) = "REVIEW"
      BY DEF Traced, TracedStages, Assessed
    <2>2. factors # {} /\ ~ \E f \in factors : f.hardStop
      BY <2>1 DEF Decide
    <2> QED BY <2>1, <2>2, CriticalIsHardStop, Zenon
  <1> QED BY <1>1, TracedCorrect, PTL

\* Every document of the case was read from one of the texts on file.
LEMMA DocumentVerified ==
    ASSUME Traced, NEW i \in DOMAIN docs
    PROVE  /\ application \in Applications
           /\ i \in DOMAIN application.texts
           /\ docs[i] = VerifyDocument(application.texts[i])
           /\ IsText(application.texts[i])
  <1>1. application # NotYet
    BY DEF Traced, TracedDocuments
  <1>2. /\ application \in Applications
        /\ docs \in Seq(Verifications(application.texts))
        /\ Len(docs) <= Len(application.texts)
        /\ \A k \in 1..Len(docs) : /\ application.texts[k] # Missing
                                   /\ docs[k] = VerifyDocument(application.texts[k])
    BY <1>1 DEF Traced, TracedDocuments
  <1>3. i \in 1..Len(docs) /\ Len(docs) \in Nat
    BY <1>2
  <1>4. application.texts \in Seq({application.texts[k] : k \in DOMAIN application.texts})
    BY <1>2, ApplicationsAssumption
  <1>5. i \in DOMAIN application.texts
    BY <1>2, <1>3, <1>4
  <1> QED BY <1>2, <1>3, <1>5, ApplicationsAssumption

\* Of every document verified, whatever becomes of the case: the legacy rules and the
\* evidence stages answer the questions they share alike.
THEOREM RulesAgreeCorrect == Spec => []RulesAgree
  <1>1. Traced => RulesAgree
    <2> SUFFICES ASSUME Traced, NEW i \in DOMAIN docs
                 PROVE  LET failed == {r.rule : r \in Failed(docs[i].validation)}
                        IN  /\ "DOCUMENT_EXPIRED" \in docs[i].reasons <=> "EXPIRY-NOT-PAST" \in failed
                            /\ "INVALID_EXPIRY_DATE" \in docs[i].reasons
                                  <=> "DATE-FORMAT-EXPIRY_DATE" \in failed
                            /\ "INVALID_DOCUMENT_NUMBER_FORMAT" \in docs[i].reasons
                                  <=> "DOCNUM-FORMAT" \in failed
                            /\ "SUSPECTED_TAMPERING" \in docs[i].reasons
                                  <=> \E s \in docs[i].signals : s.severity = "CRITICAL"
      BY DEF RulesAgree
    <2>1. PICK text : docs[i] = VerifyDocument(text)
      BY DocumentVerified
    <2>2. docs[i].validation = ValidateDocument(docs[i].evidence)
      BY <2>1 DEF VerifyDocument
    <2>3. \A rule : rule \in {r.rule : r \in Failed(docs[i].validation)} <=> Fails(docs[i].evidence, rule)
      BY <2>2 DEF Fails
    <2> QED BY <2>1, <2>3, DocumentRulesAgree
  <1> QED BY <1>1, TracedCorrect, PTL

\* A case past identity resolution has all its documents on file and could be resolved.
LEMMA ResolvedIsResolvable ==
    ASSUME Traced, stage \in Resolved
    PROVE  /\ application.texts \in Seq({application.texts[i] : i \in DOMAIN application.texts})
           /\ Resolvable(application, application.texts)
           /\ Len(Evidences(docs)) = Len(application.texts)
           /\ \A i \in DOMAIN application.texts :
                 Evidences(docs)[i] = BuildDocumentEvidence(application.texts[i])
  <1> DEFINE texts == application.texts
             S == {texts[i] : i \in DOMAIN texts}
  <1>1. /\ application \in Applications
        /\ docs \in Seq(Verifications(texts))
        /\ Len(docs) = Len(texts)
        /\ \A i \in 1..Len(docs) : /\ texts[i] # Missing
                                   /\ docs[i] = VerifyDocument(texts[i])
        /\ ~Raises(application, Evidences(docs))
    BY DEF Traced, TracedDocuments, TracedStages, Resolved, Assessed
  <1>2. IsSubmission(application)
    BY <1>1, ApplicationsAssumption DEF IsSubmission
  <1>3. texts \in Seq(S)
    BY <1>1, ApplicationsAssumption
  <1>4. DOMAIN texts = 1..Len(docs) /\ DOMAIN docs = 1..Len(docs) /\ Len(docs) \in Nat
    BY <1>1, <1>3
  <1>5. \A i \in DOMAIN texts : IsText(texts[i])
    BY <1>1, <1>4, ApplicationsAssumption
  <1>6. /\ DOMAIN Evidences(docs) = DOMAIN texts
        /\ Len(Evidences(docs)) = Len(texts)
        /\ \A i \in DOMAIN texts : Evidences(docs)[i] = BuildDocumentEvidence(texts[i])
    <2>1. Evidences(docs) = [i \in 1..Len(docs) |-> docs[i].evidence]
      BY <1>4 DEF Evidences
    <2>2. ASSUME NEW i \in DOMAIN texts
          PROVE  docs[i].evidence = BuildDocumentEvidence(texts[i])
      <3>1. docs[i] = VerifyDocument(texts[i])
        BY <1>1, <1>4
      <3> QED BY <3>1 DEF VerifyDocument
    <2> QED BY <1>1, <1>4, <2>1, <2>2
  <1> HIDE DEF texts, S
  <1>7. \A attribute \in {"full_name", "address"} :
           application[attribute] = Blank =>
              \A i \in DOMAIN texts : Given(attribute, application, texts)[i] = Absent
    BY <1>1, <1>4, <1>6, RaisesGiven
  <1>8. Resolvable(application, texts)
    BY <1>2, <1>5, <1>7 DEF Resolvable
  <1> QED BY <1>3, <1>6, <1>8 DEF texts, S

\* Whatever the applications on file, no stage produces a value outside its type.
THEOREM TypeOKCorrect == Spec => []TypeOK
  <1>1. Traced => TypeOK
    <2> SUFFICES ASSUME Traced PROVE TypeOK
      OBVIOUS
    <2>1. /\ stage \in Stages
          /\ stage \notin {"load", "not_found"} => application # NotYet
          /\ application = NotYet => docs = <<>>
          /\ application # NotYet => Len(docs) <= Len(application.texts)
      BY DEF Traced, TracedDocuments, TracedStages
    <2>2. ASSUME NEW i \in DOMAIN docs
          PROVE  /\ docs[i].legacy \in Decisions
                 /\ docs[i].evidence.type \in SupportedTypes \cup {"unknown"}
                 /\ docs[i].evidence.quality \in Qualities
                 /\ \A r \in docs[i].validation :
                       r.status \in ValidationStatuses /\ r.severity \in Severities
                 /\ \A s \in docs[i].signals : s.severity \in Severities
      BY DocumentVerified, DocumentTyped
    <2>3. identity # NotYet => \A a \in Attributes : identity.status[a] \in MatchStatuses
      <3> SUFFICES ASSUME identity # NotYet
                   PROVE  \A a \in Attributes : identity.status[a] \in MatchStatuses
        OBVIOUS
      <3> DEFINE S == {application.texts[i] : i \in DOMAIN application.texts}
      <3>1. stage \in Resolved /\ identity = ResolveIdentity(application, Evidences(docs))
        BY DEF Traced, TracedStages
      <3>2. /\ application.texts \in Seq(S)
            /\ Resolvable(application, application.texts)
            /\ Len(Evidences(docs)) = Len(application.texts)
            /\ \A i \in DOMAIN application.texts :
                  Evidences(docs)[i] = BuildDocumentEvidence(application.texts[i])
        BY <3>1, ResolvedIsResolvable
      <3> HIDE DEF S
      <3> QED BY <3>1, <3>2, CorroboratedResolves
    <2>4. \A f \in factors : f.severity \in Severities
      <3>1. CASE stage \in Assessed
        <4>1. /\ factors = DeriveRiskFactors(docs, identity, signals, duplicates)
              /\ signals = DocumentSignals(docs) \cup AssessCaseFraud(identity, duplicates)
              /\ duplicates = CheckNoDuplicateDocumentType(Evidences(docs))
          BY <3>1 DEF Traced, TracedStages, Resolved
        <4>2. duplicates.severity \in Severities
          BY <4>1 DEF CheckNoDuplicateDocumentType, Ruled, Result, Severities
        <4>3. \A s \in AssessCaseFraud(identity, duplicates) : s.severity \in Severities
          BY DEF AssessCaseFraud, Signal, Severities
        <4>4. \A s \in signals : s.severity \in Severities
          BY <2>2, <4>1, <4>3 DEF DocumentSignals
        <4> QED BY <2>2, <4>1, <4>2, <4>4, FactorsTyped
      <3>2. CASE stage \notin Assessed
        BY <3>2 DEF Traced, TracedStages
      <3> QED BY <3>1, <3>2
    <2>5. decision \in Decisions \cup {NotYet}
      BY DEF Traced, TracedStages, Decide, Decisions
    <2>6. priority \in {"HIGH", "MEDIUM", "LOW", NotYet}
      BY DEF Traced, TracedStages
    <2> QED BY <2>1, <2>2, <2>3, <2>4, <2>5, <2>6 DEF TypeOK
  <1> QED BY <1>1, TracedCorrect, PTL

\* A decision is what the pipeline makes of the application it loaded, all of
\* whose documents were on file.
LEMMA DecisionIsOutcome ==
    ASSUME Traced, Decided
    PROVE  /\ application \in Applications
           /\ application.texts \in Seq({application.texts[i] : i \in DOMAIN application.texts})
           /\ decision = Outcome(application, application.texts)
  <1> DEFINE texts == application.texts
  <1>1. stage \in Assessed
    BY DEF Traced, TracedStages, Decided
  <1>2. /\ application \in Applications
        /\ docs \in Seq(Verifications(texts))
        /\ Len(docs) = Len(texts)
        /\ \A i \in 1..Len(docs) : docs[i] = VerifyDocument(texts[i])
    BY <1>1 DEF Traced, TracedDocuments, Assessed
  <1>3. texts \in Seq({texts[i] : i \in DOMAIN texts})
    BY <1>2, ApplicationsAssumption
  <1>4. docs = Verified(texts)
    <2>1. DOMAIN texts = 1..Len(docs) /\ docs = [i \in 1..Len(docs) |-> docs[i]]
      BY <1>2, <1>3
    <2> QED BY <1>2, <2>1 DEF Verified
  <1>5. decision = Outcome(application, texts)
    BY <1>1, <1>4 DEF Traced, TracedStages, Resolved, Outcome, Verified
  <1> QED BY <1>2, <1>3, <1>5

\* For every set of applications, with any number of documents: rejected exactly on
\* a tampered or expired document or two dates of birth.
THEOREM RejectedExactlyOnHardStopCorrect == Spec => []RejectedExactlyOnHardStop
  <1>1. Traced => RejectedExactlyOnHardStop
    BY DecisionIsOutcome, OutcomeRejects DEF RejectedExactlyOnHardStop
  <1> QED BY <1>1, TracedCorrect, PTL

\* A case that was decided could be resolved.
LEMMA DecidedIsResolvable ==
    ASSUME Traced, Decided
    PROVE  Resolvable(application, application.texts)
  <1>1. stage \in Resolved
    BY DEF Traced, TracedStages, Decided, Resolved
  <1> QED BY <1>1, ResolvedIsResolvable

\* For every set of applications, of any number of documents, and any verdicts on names
\* and addresses: approved exactly when the inputs of the case pass, among them documents
\* with unparsed lines and without an issue date.
THEOREM ApprovedExactlyWhenPassingCorrect == Spec => []ApprovedExactlyWhenPassing
  <1>1. Traced => ApprovedExactlyWhenPassing
    BY DecisionIsOutcome, DecidedIsResolvable, OutcomeApproves DEF ApprovedExactlyWhenPassing
  <1> QED BY <1>1, TracedCorrect, PTL

\* The order in which an application lists its documents decides nothing, though the
\* comparison of two names or addresses may depend on theirs.
THEOREM OrderIndependentCorrect == Spec => []OrderIndependent
  <1>1. Traced => OrderIndependent
    BY DecisionIsOutcome, DecidedIsResolvable, OutcomeOfSwapped DEF OrderIndependent
  <1> QED BY <1>1, TracedCorrect, PTL

\* The parser reads the lines of a text and nothing else.
LEMMA ParsedFromLines ==
    ASSUME NEW t, NEW u, t.lines = u.lines
    PROVE  Parsed(t) = Parsed(u)
  <1> DEFINE Read(lines) ==
               [key \in CanonicalFields \cup {"document_type"} |->
                   LET at == {i \in DOMAIN lines : lines[i].key = key}
                   IN  IF at = {} THEN Absent
                       ELSE lines[CHOOSE i \in at : \A j \in at : j <= i].value]
  <1>1. Parsed(t) = Read(t.lines) /\ Parsed(u) = Read(u.lines)
    BY DEF Parsed
  <1> HIDE DEF Read
  <1> QED BY <1>1

\* Of a case that can be resolved, the outcome does not depend on unparsed lines.
LEMMA OutcomeOfUnparsed ==
    ASSUME NEW submitted, NEW S, NEW texts \in Seq(S), Resolvable(submitted, texts)
    PROVE  Outcome(submitted, WithUnparsedLines(texts)) = Outcome(submitted, texts)
  <1> DEFINE marked == WithUnparsedLines(texts)
             R == {marked[i] : i \in DOMAIN marked}
  <1>1. /\ DOMAIN marked = DOMAIN texts
        /\ marked \in Seq(R)
    <2>1. DOMAIN texts = 1..Len(texts) /\ Len(texts) \in Nat
      OBVIOUS
    <2>2. DOMAIN marked = DOMAIN texts
      BY DEF WithUnparsedLines
    <2>3. marked = [i \in 1..Len(texts) |-> marked[i]]
      BY <2>1 DEF WithUnparsedLines
    <2>4. \A i \in 1..Len(texts) : marked[i] \in R
      BY <2>1, <2>2
    <2> HIDE DEF marked, R
    <2>5. marked \in [1..Len(texts) -> R]
      BY <2>3, <2>4
    <2> QED BY <2>1, <2>2, <2>5
  <1>2. ASSUME NEW i \in DOMAIN texts
        PROVE  /\ marked[i].lines = texts[i].lines
               /\ marked[i].marks = texts[i].marks \cup {"unlabelled"}
               /\ IsText(marked[i])
    <2>1. IsText(texts[i])
      BY DEF Resolvable
    <2>2. /\ marked[i].lines = texts[i].lines
          /\ marked[i].marks = texts[i].marks \cup {"unlabelled"}
      BY DEF WithUnparsedLines
    <2> HIDE DEF marked
    <2> QED BY <2>1, <2>2 DEF IsText, Marks
  <1> HIDE DEF marked, R
  <1>3. \A i \in DOMAIN texts : Parsed(marked[i]) = Parsed(texts[i])
    <2> SUFFICES ASSUME NEW i \in DOMAIN texts PROVE Parsed(marked[i]) = Parsed(texts[i])
      OBVIOUS
    <2>1. marked[i].lines = texts[i].lines
      BY <1>2
    <2> QED BY <2>1, ParsedFromLines
  <1>4. \A i \in DOMAIN texts : Type(marked[i]) = Type(texts[i])
    BY <1>3 DEF Type
  <1>5. \A attribute : Given(attribute, submitted, marked) = Given(attribute, submitted, texts)
    BY <1>1, <1>3, <1>4 DEF Given
  <1>6. Resolvable(submitted, marked)
    BY <1>1, <1>2, <1>5 DEF Resolvable
  <1>7. HardStop(submitted, marked) <=> HardStop(submitted, texts)
    <2>1. BirthDates(submitted, marked) = BirthDates(submitted, texts)
      BY <1>1, <1>3 DEF BirthDates
    <2>2. \A i \in DOMAIN texts :
             /\ "tampered" \in marked[i].marks <=> "tampered" \in texts[i].marks
             /\ Expired(marked[i]) <=> Expired(texts[i])
      BY <1>2, <1>3 DEF Expired
    <2> QED BY <1>1, <2>1, <2>2 DEF HardStop
  <1>8. PassingCase(submitted, marked) <=> PassingCase(submitted, texts)
    <2>1. \A i \in DOMAIN texts :
             marked[i].marks \subseteq {"unlabelled"} <=> texts[i].marks \subseteq {"unlabelled"}
      BY <1>2
    <2>2. \A i \in DOMAIN texts : PassingDocument(marked[i]) <=> PassingDocument(texts[i])
      BY <1>3, <1>4, <2>1 DEF PassingDocument
    <2>3. \A attribute : Corroborated(attribute, submitted, marked)
                            <=> Corroborated(attribute, submitted, texts)
      BY <1>5 DEF Corroborated
    <2> QED BY <1>1, <1>4, <2>2, <2>3 DEF PassingCase
  <1>9. /\ Outcome(submitted, marked) = "REJECT" <=> Outcome(submitted, texts) = "REJECT"
        /\ Outcome(submitted, marked) = "APPROVE" <=> Outcome(submitted, texts) = "APPROVE"
    <2>1. /\ Outcome(submitted, marked) = "REJECT" <=> HardStop(submitted, marked)
          /\ Outcome(submitted, texts) = "REJECT" <=> HardStop(submitted, texts)
      BY <1>1, OutcomeRejects
    <2>2. /\ Outcome(submitted, marked) = "APPROVE" <=> PassingCase(submitted, marked)
          /\ Outcome(submitted, texts) = "APPROVE" <=> PassingCase(submitted, texts)
      BY <1>1, <1>6, OutcomeApproves
    <2> QED BY <1>7, <1>8, <2>1, <2>2
  <1>10. \A t : Outcome(submitted, t) \in {"REJECT", "REVIEW", "APPROVE"}
    BY DEF Outcome, Decide
  <1>11. Outcome(submitted, marked) = Outcome(submitted, texts)
    BY <1>9, <1>10
  <1> QED BY <1>11 DEF marked

\* For every set of applications: lines that the parser could not read change no decision,
\* though the configured policy reviews them.
THEOREM UnparsedLinesOverlookedCorrect == Spec => []UnparsedLinesOverlooked
  <1>1. Traced => UnparsedLinesOverlooked
    BY DecisionIsOutcome, DecidedIsResolvable, OutcomeOfUnparsed DEF UnparsedLinesOverlooked
  <1> QED BY <1>1, TracedCorrect, PTL

\* A further document never turns a rejected case into one that is not.
THEOREM NoDocumentRescuesCorrect == Spec => []NoDocumentRescues
  <1>1. Traced => NoDocumentRescues
    <2> SUFFICES ASSUME Traced, Decided, NEW i \in DOMAIN application.texts,
                        Outcome(application, Without(application.texts, i)) = "REJECT"
                 PROVE  decision = "REJECT"
      BY DEF NoDocumentRescues
    <2> DEFINE texts == application.texts
               fewer == Without(texts, i)
               S == {texts[k] : k \in DOMAIN texts}
    <2>1. texts \in Seq(S) /\ decision = Outcome(application, texts)
      BY DecisionIsOutcome
    <2> HIDE DEF S
    <2>2. /\ DOMAIN texts = 1..Len(texts) /\ Len(texts) \in Nat
          /\ i \in 1..Len(texts)
      BY <2>1
    <2>3. ASSUME NEW k \in 1..(Len(texts) - 1)
          PROVE  (IF k < i THEN k ELSE k + 1) \in DOMAIN texts
      BY <2>2
    <2>4. fewer \in Seq(S)
      BY <2>1, <2>2, <2>3 DEF Without
    <2>5. \A k \in DOMAIN fewer : \E l \in DOMAIN texts : fewer[k] = texts[l]
      BY <2>3 DEF Without
    <2>6. HardStop(application, fewer)
      BY <2>4, OutcomeRejects
    <2> HIDE DEF fewer, texts
    <2>7. HardStop(application, texts)
      BY <2>5, <2>6, HardStopOfMore
    <2> QED BY <2>1, <2>7, OutcomeRejects
  <1> QED BY <1>1, TracedCorrect, PTL

=============================================================================
