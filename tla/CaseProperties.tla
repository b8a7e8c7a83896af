--------------------------- MODULE CaseProperties ----------------------------
(***************************************************************************)
(* What the decision on a case promises of the application and the texts   *)
(* that went in, whatever the stages between did.                          *)
(***************************************************************************)
EXTENDS CaseVerification

Decided == decision # NotYet

-----------------------------------------------------------------------------
(* When a case is approved, said of the inputs alone.  The code is laxer here *)
(* than two of its documents, and PassingDocument says what the code does:    *)
(*   - a document with lines the parser could not read passes: their warning  *)
(*     (parser.py:16) goes into the reply and no stage reads it.  The policy  *)
(*     config/baseline.json:5 says review_if_parse_errors, a key that no code *)
(*     reads, and docs/assessment/risk_register.md:34 (R-11) that any warning *)
(*     forces REVIEW.  UnparsedLinesOverlooked below says it by itself.       *)
(*   - a document without its issue date passes, as every rule about the date *)
(*     is then not applicable; docs/release/production_readiness_report.md:29 *)
(*     says that missing evidence never silently passes.                      *)

Type(text) == ClassifyDocument(Parsed(text))

\* One document no stage objects to: known type, nothing mandatory missing, number
\* of its type, dates that parse and follow each other, not expired, no mark but
\* unlabelled lines, and no issue date or one in order.
PassingDocument(text) ==
    LET read == Parsed(text)
        issued == read["issue_date"]
    IN  /\ Type(text) # "unknown"
        /\ \A name \in MandatoryFields : Present(read, name)
        /\ read["document_number"] = Type(text)
        /\ {read["date_of_birth"], read["expiry_date"]} \subseteq Dates
        /\ read["expiry_date"] >= ReferenceDate
        /\ Present(read, "issue_date") =>
               /\ issued \in Dates
               /\ read["date_of_birth"] < issued
               /\ issued < read["expiry_date"]
               /\ issued <= ReferenceDate
        /\ text.marks \subseteq {"unlabelled"}

\* The values of an attribute a case gives, in order: what was submitted, then
\* what the documents read.  A passport has no address in its schema.
Given(attribute, submitted, texts) ==
    [i \in 0..Len(texts) |->
        IF i = 0 THEN submitted[attribute]
        ELSE IF attribute = "address" /\ Type(texts[i]) = "passport" THEN Absent
        ELSE IF Present(Parsed(texts[i]), attribute) THEN Parsed(texts[i])[attribute]
        ELSE Absent]

\* At least two sources give the attribute and every two of them match.
Corroborated(attribute, submitted, texts) ==
    LET given == Given(attribute, submitted, texts)
        sources == {i \in DOMAIN given : given[i] # Absent}
    IN  /\ \E i, j \in sources : i # j
        /\ \A i, j \in sources :
              i < j => Compare(attribute, given[i], given[j]) \in {"EXACT", "NORMALIZED_MATCH"}

PassingCase(submitted, texts) ==
    /\ \A i \in DOMAIN texts : PassingDocument(texts[i])
    /\ \A i, j \in DOMAIN texts : i # j => Type(texts[i]) # Type(texts[j])
    /\ \A attribute \in Attributes : Corroborated(attribute, submitted, texts)

\* A case is approved exactly when every document passes, no two are of one type
\* and its sources corroborate each other: no stage loses a finding of another on
\* the way to the decision, and none makes one up.  It describes factors.py, not
\* the stricter policy of config/baseline.json (see above).
ApprovedExactlyWhenPassing ==
    Decided => (decision = "APPROVE" <=> PassingCase(application, application.texts))

-----------------------------------------------------------------------------
(* When a case must be rejected. *)

Expired(text) ==
    Parsed(text)["expiry_date"] \in Dates /\ Parsed(text)["expiry_date"] < ReferenceDate

BirthDates(submitted, texts) ==
    ({submitted.date_of_birth} \cup {Parsed(texts[i])["date_of_birth"] : i \in DOMAIN texts})
        \cap Dates

\* A tampered or expired document, or two dates of birth.
HardStop(submitted, texts) ==
    \/ \E i \in DOMAIN texts : "tampered" \in texts[i].marks \/ Expired(texts[i])
    \/ \E d, e \in BirthDates(submitted, texts) : d # e

\* A case is rejected exactly on a hard stop of its inputs, which nothing else in
\* the case outweighs and nothing short of one amounts to.  A malformed number is
\* none of them (rules.py:30): it is reviewed, though docs/data_dictionary.md:277
\* counts the format among the document rules that reject.
RejectedExactlyOnHardStop ==
    Decided => (decision = "REJECT" <=> HardStop(application, application.texts))

-----------------------------------------------------------------------------
(* Relations between the stages, and between cases. *)

\* The two generations of rules (src/rules.py and src/evidence_validation with
\* src/fraud_signals) agree on every question both of them answer.
RulesAgree ==
    \A i \in DOMAIN docs :
        LET failed == {r.rule : r \in Failed(docs[i].validation)}
        IN  /\ "DOCUMENT_EXPIRED" \in docs[i].reasons <=> "EXPIRY-NOT-PAST" \in failed
            /\ "INVALID_EXPIRY_DATE" \in docs[i].reasons <=> "DATE-FORMAT-EXPIRY_DATE" \in failed
            /\ "INVALID_DOCUMENT_NUMBER_FORMAT" \in docs[i].reasons <=> "DOCNUM-FORMAT" \in failed
            /\ "SUSPECTED_TAMPERING" \in docs[i].reasons
                   <=> \E s \in docs[i].signals : s.severity = "CRITICAL"

\* What the pipeline decides of a submission with these texts.
Outcome(submitted, texts) ==
    LET verified == [i \in DOMAIN texts |-> VerifyDocument(texts[i])]
        resolved == ResolveIdentity(submitted, Evidences(verified))
        checked == CheckNoDuplicateDocumentType(Evidences(verified))
    IN  Decide(DeriveRiskFactors(verified, resolved,
                                 DocumentSignals(verified) \cup AssessCaseFraud(resolved, checked),
                                 checked))

Swapped(texts, i) == [texts EXCEPT ![i] = texts[i + 1], ![i + 1] = texts[i]]

\* The decision does not depend on the order the application lists its documents
\* in, though identity resolution compares ordered pairs of them.
OrderIndependent ==
    Decided => \A i \in 1..(Len(application.texts) - 1) :
                  Outcome(application, Swapped(application.texts, i)) = decision

Without(texts, i) == [k \in 1..(Len(texts) - 1) |-> texts[IF k < i THEN k ELSE k + 1]]

\* No further document rescues a case from rejection: contradictions are never
\* averaged away by other sources that agree.
NoDocumentRescues ==
    Decided => \A i \in DOMAIN application.texts :
                  Outcome(application, Without(application.texts, i)) = "REJECT" => decision = "REJECT"

\* The texts with lines in each of them that the parser cannot read.
WithUnparsedLines(texts) ==
    [i \in DOMAIN texts |->
        [lines |-> texts[i].lines, marks |-> texts[i].marks \cup {"unlabelled"}]]

\* Lines the parser cannot read decide nothing, neither for the document nor for
\* its case: an application that is approved is approved with any number of them,
\* where config/baseline.json:5 and docs/assessment/risk_register.md:34 review it.
UnparsedLinesOverlooked ==
    Decided => Outcome(application, WithUnparsedLines(application.texts)) = decision

\* What reaches the review queue has something to review and nothing critical:
\* every finding of critical severity is a hard stop, in whichever stage it arose.
NothingCriticalInReview ==
    stage = "review_open" => factors # {} /\ \A f \in factors : f.severity # "CRITICAL"
=============================================================================
