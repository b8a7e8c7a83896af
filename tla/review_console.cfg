\* Two sessions, the API and purges on two reviews of a case.
SPECIFICATION Spec
CONSTANTS
    s1 = s1  s2 = s2  v1 = v1  v2 = v2  v3 = v3  NoReview = NoReview
    Sessions = {s1, s2}
    Reviews = {v1, v2}
SYMMETRY mcSymmetry
INVARIANTS
    TypeOK
    OneTransitionPerSubmission
    TrailNotOlder
PROPERTY AppliesToStatusItRead
CHECK_DEADLOCK FALSE
