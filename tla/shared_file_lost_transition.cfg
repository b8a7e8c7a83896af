\* The API and the console move one review at the same time.
SPECIFICATION FairSpec
CONSTANTS
    api = api  ui = ui
    t1 = t1  t2 = t2  t3 = t3
    r1 = r1  r2 = r2
    c1 = c1  c2 = c2
    Nobody = Nobody
    NoReview = NoReview
    Stores = {api, ui}
    Threads = {t1, t2, t3}
    StoreOf <- mcTwoProcesses
    Reviews <- mcOneReview
    Cases = {c1}
    CaseOf <- mcOneCaseOf
    ReviewCases = {c1}
    Openers = {t1}
    Reviewers = {t2, t3}
    Purgers = {}
    Readers = {}
    Crashing = {}
    MaxLog = 3
PROPERTY TerminalIsFinal
