\* Three threads, a limit of two per window of two ticks.
SPECIFICATION Spec
CONSTANTS
    t1 = t1  t2 = t2  t3 = t3
    Threads = {t1, t2, t3}
    Credentials = {"key1"}
    Subjects = {"workshop-reviewer"}
    MaxRequests = 2
    Window = 2
    MaxClock = 4
    MaxAdmitted = 4
SYMMETRY mcSymmetry
INVARIANTS
    TypeOK
    RecentKept
    HitsBounded
    InOrderWindowBound
PROPERTY RefusalJustified
CHECK_DEADLOCK FALSE
