SPECIFICATION Spec
CONSTANTS
    berlin = berlin
    tokyo = tokyo
    Clusters <- TwoClusters
    MaxMoves = 2
    MaxFailures = 1
SYMMETRY Symmetry
INVARIANTS NothingMeansNothing SilenceIsShown
CHECK_DEADLOCK FALSE
