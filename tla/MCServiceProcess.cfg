SPECIFICATION ProcFairSpec
CONSTANTS
    Callers <- MCCallers
    Batches <- MCBatches
    Invalid <- MCInvalid
    QueueSize = 1
    MaxCalls = 2
INVARIANTS
    ProcInv
    UsersBeforeResources
    AnswerTrue
    GiveUpNotRecorded
PROPERTIES
    CallReturns
    StopsWhenTold
