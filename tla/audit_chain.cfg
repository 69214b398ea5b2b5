SPECIFICATION FairSpec
CONSTANTS
    acme = acme
    globex = globex
    handler = handler
    engine = engine
    apiA = apiA
    apiB = apiB
    Orgs <- TwoOrgs
    Callers <- TwoCallers
    Processes <- OneProcess
    ProcessOf <- Together
    Faults <- CleanFaults
    MaxCalls = 4
INVARIANTS TypeOK ChainIntact
PROPERTIES KeepsPromise AppendReturns
CHECK_DEADLOCK FALSE
