\* Two goroutines contend for one slot of each of two hosts.
CONSTANTS
    h1 = h1  h2 = h2  t1 = t1  t2 = t2  c1 = c1  c2 = c2
    Host = {h1, h2}
    Thread = {t1, t2}
    Client = {c1, c2}
    Cleaner = Cleaner
    NoHost = NoHost
    NoClient = NoClient
    MaxPerHost = 1
SPECIFICATION FairSpec
INVARIANTS SlotAccounting ExclusiveHold NoLostWakeup NoLeakedConnection NoTrafficAfterClose
PROPERTIES CallsReturn ImplementsContract
