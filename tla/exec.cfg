\* Two goroutines, one permit, one slot of one host.
CONSTANTS
    h1 = h1  t1 = t1  t2 = t2  c1 = c1
    Host = {h1}
    Caller = {t1, t2}
    Client = {c1}
    NoHost = NoHost
    NoClient = NoClient
    MaxPerHost = 1
    Profiles = 3
    FloorBudget = 1
    Attempts = 0
    BaseBackoff = 200
    MaxBackoff = 1200
    Jitter <- LongestJitter
    Backoffs = 2
SPECIFICATION FairSpec
INVARIANTS RetriesContained NothingLeaks
PROPERTIES CallReturns
