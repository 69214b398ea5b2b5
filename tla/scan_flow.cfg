SPECIFICATION FairSpec
CONSTANTS
    alpine = alpine
    vllm = vllm
    Scans <- TwoScans
    Faults <- OwnIds
    MaxPolls = 2
INVARIANTS TypeOK CleanPanelIsClean ResultIsOwn EndedIsRecorded
PROPERTIES GoneIsGone SpinnerStops
CHECK_DEADLOCK FALSE
