SPECIFICATION Spec
CONSTANTS
    llama = llama
    surge = surge
    thermal = thermal
    alice = alice
    slot = slot
    Services <- OneService
    Kinds <- OneKind
    Verdicts <- WarningVerdicts
    Operators <- OnePerson
    Slots <- OneSlot
    Faults <- CrashFaults
    MissesBeforeResolve = 2
PROPERTY DecisionStands
