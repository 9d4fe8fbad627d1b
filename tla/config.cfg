\* Two processes, one power loss, files of every kind to begin with.
CONSTANTS
    p1 = p1  p2 = p2  a1 = a1  d1 = d1  d2 = d2
    Proc = {p1, p2}
    Alias = {a1}
    Domain = {d1, d2}
    Refused = {d2}
    Originals <- SomeOriginals
    Absent = Absent
    Broken = Broken
    NoProc = NoProc
    None = None
    MaxPowerLoss = 1
SPECIFICATION FairSpec
INVARIANTS StaysLoadable SavedIsDurable MigrationBackedUp
PROPERTY LockIsReleased
