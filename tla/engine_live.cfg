SPECIFICATION FairSpec
CONSTANTS
    llama = llama
    surge = surge
    thermal = thermal
    alice = alice
    slot = slot
    Services <- OneService
    Kinds <- TwoKinds
    Verdicts <- AllVerdicts
    Operators <- Nobody
    Slots <- NoSlot
    Faults <- RetriedFaults
    MissesBeforeResolve = 3
INVARIANT OncePerService
PROPERTIES ResolveNeedsConsecutiveMisses AbsentIsClosed RecurrenceIsListed BreachIsPaged
