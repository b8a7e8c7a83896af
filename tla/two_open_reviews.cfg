\* Two threads of one process open a review of the same case.
SPECIFICATION FairSpec
CONSTANTS
    api = api  ui = ui
    t1 = t1  t2 = t2  t3 = t3
    r1 = r1  r2 = r2
    c1 = c1  c2 = c2
    Nobody = Nobody
    NoReview = NoReview
    Stores = {api}
    Threads = {t1, t2, t3}
    StoreOf <- mcAllInApi
    Reviews <- mcReviews
    Cases = {c1, c2}
    CaseOf <- mcCaseOf
    ReviewCases = {c1}
    Openers = {t1, t2}
    Reviewers = {t2, t3}
    Purgers = {}
    Readers = {}
    Crashing = {api}
    MaxLog = 5
INVARIANT OneOpenReviewPerCase
