-------------------------- MODULE CaseVerification ---------------------------
(***************************************************************************)
(* src/service.py verify_case, stage by stage, and the opening of a review *)
(* from its result (src/review/workflow.py): load the application, verify  *)
(* its documents one after the other, resolve the identity, validate the   *)
(* case, assess fraud, decide.  Any stage may end the request early.       *)
(***************************************************************************)
EXTENDS DecisionPolicy

CONSTANTS
    Applications,   \* the applications on file
    Missing,        \* a document whose text is not on file
    NotYet          \* what a stage that has not run has produced

ASSUME ApplicationsAssumption ==
    \A a \in Applications :
        /\ a.full_name \in Names \cup {Absent, Blank}
        /\ a.date_of_birth \in Dates \cup {Malformed, Absent, Blank}
        /\ a.address \in Addresses \cup {Absent, Blank}
        /\ a.texts \in Seq({a.texts[i] : i \in DOMAIN a.texts})
        /\ \A i \in DOMAIN a.texts : a.texts[i] = Missing \/ IsText(a.texts[i])

ASSUME NotYetAssumption == NotYet \notin Applications /\ NotYet \notin Decisions

VARIABLES stage, application, docs, identity, duplicates, signals, factors, decision, priority

vars == <<stage, application, docs, identity, duplicates, signals, factors, decision, priority>>

Evidences(verified) == [i \in DOMAIN verified |-> verified[i].evidence]

DocumentSignals(verified) == UNION {verified[i].signals : i \in DOMAIN verified}

-----------------------------------------------------------------------------

Init ==
    /\ stage = "load"
    /\ application = NotYet
    /\ docs = <<>>
    /\ identity = NotYet
    /\ duplicates = NotYet
    /\ signals = {}
    /\ factors = {}
    /\ decision = NotYet
    /\ priority = NotYet

LoadApplication ==
    /\ stage = "load"
    /\ application' \in Applications
    /\ stage' = "documents"
    /\ UNCHANGED <<docs, identity, duplicates, signals, factors, decision, priority>>

\* FileNotFoundError, from the application or from the text of a document; a
\* file over the size bound ends the request at the same points, with a 400.
NotOnFile ==
    /\ \/ stage = "load"
       \/ /\ stage = "documents"
          /\ Len(docs) < Len(application.texts)
          /\ application.texts[Len(docs) + 1] = Missing
    /\ stage' = "not_found"
    /\ UNCHANGED <<application, docs, identity, duplicates, signals, factors, decision, priority>>

VerifyNextDocument ==
    /\ stage = "documents"
    /\ Len(docs) < Len(application.texts)
    /\ application.texts[Len(docs) + 1] # Missing
    /\ docs' = Append(docs, VerifyDocument(application.texts[Len(docs) + 1]))
    /\ UNCHANGED <<stage, application, identity, duplicates, signals, factors, decision, priority>>

ResolveCaseIdentity ==
    /\ stage = "documents"
    /\ Len(docs) = Len(application.texts)
    /\ ~Raises(application, Evidences(docs))
    /\ identity' = ResolveIdentity(application, Evidences(docs))
    /\ stage' = "validate"
    /\ UNCHANGED <<application, docs, duplicates, signals, factors, decision, priority>>

ResolutionFails ==
    /\ stage = "documents"
    /\ Len(docs) = Len(application.texts)
    /\ Raises(application, Evidences(docs))
    /\ stage' = "internal_error"
    /\ UNCHANGED <<application, docs, identity, duplicates, signals, factors, decision, priority>>

ValidateCase ==
    /\ stage = "validate"
    /\ duplicates' = CheckNoDuplicateDocumentType(Evidences(docs))
    /\ stage' = "fraud"
    /\ UNCHANGED <<application, docs, identity, signals, factors, decision, priority>>

AssessFraud ==
    /\ stage = "fraud"
    /\ signals' = DocumentSignals(docs) \cup AssessCaseFraud(identity, duplicates)
    /\ stage' = "decide"
    /\ UNCHANGED <<application, docs, identity, duplicates, factors, decision, priority>>

AssessCaseRisk ==
    /\ stage = "decide"
    /\ factors' = DeriveRiskFactors(docs, identity, signals, duplicates)
    /\ decision' = Decide(factors')
    /\ stage' = "verified"
    /\ UNCHANGED <<application, docs, identity, duplicates, signals, priority>>

OpenReviewCase ==
    /\ stage = "verified"
    /\ decision = "REVIEW"
    /\ priority' = DerivePriority(factors)
    /\ stage' = "review_open"
    /\ UNCHANGED <<application, docs, identity, duplicates, signals, factors, decision>>

\* ReviewNotEligibleError
RefuseReview ==
    /\ stage = "verified"
    /\ decision # "REVIEW"
    /\ stage' = "not_eligible"
    /\ UNCHANGED <<application, docs, identity, duplicates, signals, factors, decision, priority>>

Next ==
    \/ LoadApplication
    \/ NotOnFile
    \/ VerifyNextDocument
    \/ ResolveCaseIdentity
    \/ ResolutionFails
    \/ ValidateCase
    \/ AssessFraud
    \/ AssessCaseRisk
    \/ OpenReviewCase
    \/ RefuseReview

Spec == Init /\ [][Next]_vars

-----------------------------------------------------------------------------
(* Types. *)

Stages == {"load", "documents", "validate", "fraud", "decide", "verified",
           "review_open", "not_eligible", "not_found", "internal_error"}

\* The types of what the stages produce, one quality and one status of the
\* declared ones each, and the documents verified never more than the case has.
TypeOK ==
    /\ stage \in Stages
    /\ stage \notin {"load", "not_found"} => application # NotYet
    /\ application = NotYet => docs = <<>>
    /\ application # NotYet => Len(docs) <= Len(application.texts)
    /\ \A i \in DOMAIN docs :
          /\ docs[i].legacy \in Decisions
          /\ docs[i].evidence.type \in SupportedTypes \cup {"unknown"}
          /\ docs[i].evidence.quality \in Qualities
          /\ \A r \in docs[i].validation : r.status \in ValidationStatuses /\ r.severity \in Severities
    /\ identity # NotYet => \A a \in Attributes : identity.status[a] \in MatchStatuses
    /\ \A f \in factors : f.severity \in Severities
    /\ decision \in Decisions \cup {NotYet}
    /\ priority \in {"HIGH", "MEDIUM", "LOW", NotYet}

=============================================================================
