CONSTANTS
    Msgs = {m1, m2, m3}
    Deployments <- MCDeployments
    MaxTx <- MCMaxTx
    BatchSize = 2
    MaxFaults = 1
SPECIFICATION OutFairSpec
INVARIANTS
    OutInv
    CausalOrder
    NudgeSuffices
PROPERTIES
    EventuallyPublished
    KeepsPromise
