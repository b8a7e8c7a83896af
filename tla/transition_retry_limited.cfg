\* A client retries after its transition was applied; nothing expires.
SPECIFICATION FairSpec
CONSTANTS
    t1 = t1  t2 = t2  t3 = t3
    r1 = r1
    k1 = k1  k2 = k2
    NoKey = NoKey
    Nobody = Nobody
    NoRequest = NoRequest
    Threads = {t1, t2}
    Reviews = {r1}
    Stored = {r1}
    Keys = {k1}
    NewStatuses = {"IN_REVIEW", "RESOLVED"}
    MaxHits = 1
    Expiring = FALSE
    Restarting = FALSE
    Purging = FALSE
PROPERTY RetryNeverRefused
