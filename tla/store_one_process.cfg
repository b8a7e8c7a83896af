\* One process: three threads on one store; one opens, two review, one purges.
SPECIFICATION FairSpec
CONSTANTS
    api = api  ui = ui
    t1 = t1  t2 = t2  t3 = t3
    r1 = r1  r2 = r2
    c1 = c1  c2 = c2
    Nobody = Nobody
    NoReview = NoReview
    Stores = {api}
    Threads = {t1, t2, t3}
    StoreOf <- mcAllInApi
    Reviews <- mcReviews
    Cases = {c1, c2}
    CaseOf <- mcCaseOf
    ReviewCases = {c1}
    Openers = {t1}
    Reviewers = {t2, t3}
    Purgers = {t2}
    Readers = {}
    Crashing = {api}
    MaxLog = 5
INVARIANTS
    TypeOK
    NoTransactionLeftOpen
    OneOpenReviewPerCase
PROPERTIES
    ImplementsLedger
    TerminalIsFinal
    ReplyNotEarlier
