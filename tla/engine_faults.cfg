SPECIFICATION Spec
CONSTANTS
    llama = llama
    surge = surge
    thermal = thermal
    alice = alice
    slot = slot
    Services <- OneService
    Kinds <- TwoKinds
    Verdicts <- AllVerdicts
    Operators <- Nobody
    Slots <- OneSlot
    Faults <- LostFaults
    MissesBeforeResolve = 2
INVARIANTS TypeOK NotifiedIsEarned
