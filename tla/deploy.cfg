\* A provision and a rollback, with two faults anywhere.
CONSTANTS
    Clients <- Wirings
    MaxAttempts = 3
    MaxFaults = 2
    Plans <- SomePlans
    MaxJobs = 2
SPECIFICATION FairSpec
INVARIANTS PreexistingSurvives JournalTrue RollbackAnswered
PROPERTIES WorkEnds
