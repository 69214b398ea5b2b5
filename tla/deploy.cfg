SPECIFICATION Spec
CONSTANTS
    llama = llama
    bge = bge
    old = old
    new = new
    d1 = d1
    d2 = d2
    Apps <- TwoApps
    Images <- TwoImages
    Inputs <- ThreeInputs
    OnMain <- Main
    Deploys <- TwoDeploys
    DialogInputs <- FromDialog
    FirstInput <- LlamaNew
    Faults <- EverythingFails
    MaxFaults = 1
INVARIANTS TypeOK RepoRests CommitIsRequest LedgerMatchesGit
SYMMETRY DeploysAlike
CHECK_DEADLOCK FALSE
