CONSTANTS
    alpha = alpha
    beta = beta
    Clients <- MCClients
    Depth = 4
    MaxDeposits = 9
SPECIFICATION Spec
SYMMETRY MCSymmetry
INVARIANTS
    RootsAgree
    SnapshotIsEth1Data
    UnfinalizedProvable
    EarlierVersions
