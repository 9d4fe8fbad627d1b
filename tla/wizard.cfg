\* One command at a time, every fault, crash and restart at any step.
CONSTANTS
    p1 = p1  p2 = p2  j1 = j1  s1 = s1  s2 = s2
    Plan = {p1, p2}
    WithDB = {p1}
    Job = {j1}
    StackId = {s1, s2}
    NoPlan = NoPlan
    NoStack = NoStack
    MaxChecks = 1
    Faults <- EveryFault
SPECIFICATION FairSpec
INVARIANTS SnapshotNotBehind CleanRollbackLeavesNothing
 
