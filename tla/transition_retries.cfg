\* Three threads, one key or none, every hazard on.
SPECIFICATION FairSpec
CONSTANTS
    t1 = t1  t2 = t2  t3 = t3
    r1 = r1
    k1 = k1  k2 = k2
    NoKey = NoKey
    Nobody = Nobody
    NoRequest = NoRequest
    Threads = {t1, t2, t3}
    Reviews = {r1}
    Stored = {r1}
    Keys = {k1}
    NewStatuses = {"IN_REVIEW", "RESOLVED"}
    MaxHits = 2
    Expiring = TRUE
    Restarting = TRUE
    Purging = TRUE
INVARIANTS
    TypeOK
    OneAnswerPerKey
    CachedStatusHappened
    NoTransitionTwice
PROPERTIES
    AppliedOncePerKey
    CacheLockAlwaysFreed
