SPECIFICATION FairSpec
CONSTANTS
    engine = engine
    Readers <- OneReader
    Targets <- TwoTargets
    DefaultTarget = 1200
    MaxWrites = 3
    Polls <- TwoPolls
    MaxFailures = 1
INVARIANT ConfirmedIsCurrent
PROPERTIES NeverBack MovesOn
CHECK_DEADLOCK FALSE
