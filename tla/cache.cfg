\* Two callers, one background refresh, two versions of one status.
CONSTANTS
    c1 = c1  c2 = c2  b1 = b1
    Key <- OneKey
    Caller = {c1, c2}
    Background = {b1}
    NoKey = NoKey
    NoLeader = NoLeader
    Happening = {"Restart"}
    MaxVersion = 2
SPECIFICATION FairCacheSpec
PROPERTIES MonotonicReads CallReturns StaleRefreshed
