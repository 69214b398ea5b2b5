SPECIFICATION Spec
CONSTANTS
    Services <- OneService
    Cards <- ClonedFleet
    Bindings <- AllBound
    Clocks <- SomeClocks
    Rates <- SomeRates
    Baselines <- SomeBaselines
    KvLevels <- SomeKv
    MayFail <- LoadFailures
INVARIANTS TypeOK EvidenceIsTrue XidOutranks BlameIsLocal
CHECK_DEADLOCK FALSE
