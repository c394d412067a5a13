SPECIFICATION ProcSpec
CONSTANTS
    Callers <- MCCallers
    Batches <- MCBatches
    Invalid <- MCInvalid
    QueueSize = 1
    MaxCalls = 2
INVARIANTS
    DrainsInFlightMail
