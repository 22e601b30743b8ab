CONSTANTS
    t1 = t1
    t2 = t2
    Identities <- MCIdentities
    Threads <- MCThreads
    TargetGpus <- MCTargetGpus
    SelectorGpus <- MCSelectorGpus
    MaxLease = 2
SPECIFICATION FairSandboxSpec
INVARIANTS
    ActiveTasksExact
    TaskKeepsItsLease
PROPERTIES
    DrainCompletes
    LeaseContract
