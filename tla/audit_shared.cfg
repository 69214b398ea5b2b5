SPECIFICATION Spec
CONSTANTS
    acme = acme
    globex = globex
    handler = handler
    engine = engine
    apiA = apiA
    apiB = apiB
    Orgs <- OneOrg
    Callers <- TwoCallers
    Processes <- TwoProcesses
    ProcessOf <- Apart
    Faults <- FaultKinds
    MaxCalls = 4
INVARIANTS VerifyIsExact LaterCallsComeAfter
CHECK_DEADLOCK FALSE
