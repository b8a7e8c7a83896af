---------------------------- MODULE MCReviewStore ----------------------------
(***************************************************************************)
(* Small instances of ReviewStore: which thread calls which store and      *)
(* plays which role, and which ids belong to which case.                   *)
(***************************************************************************)
EXTENDS ReviewStoreInvariants, TLC

CONSTANTS api, ui,        \* the stores of the API and of the Streamlit console
          t1, t2, t3,     \* threads
          r1, r2,         \* review ids
          c1, c2          \* case c1 is a REVIEW decision, c2 is not

mcReviews == {r1, r2}
mcCaseOf == [r \in mcReviews |-> c1]
mcOneReview == {r1}
mcOneCaseOf == [r \in mcOneReview |-> c1]

\* Every thread in the API process.
mcAllInApi == [t \in {t1, t2, t3} |-> api]

\* t1 and t2 in the API process, t3 in the console.
mcTwoProcesses == [t \in {t1, t2, t3} |-> IF t = t3 THEN ui ELSE api]
=============================================================================
