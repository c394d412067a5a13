SPECIFICATION ScanFairSpec
CONSTANTS
    Keys <- MCKeys
    Workers = 2
    Requested = "a"
    TTL = 2
    CallTime = 1
    MaxChanges = 2
    MaxFaults = 2
INVARIANTS
    AnswersFresh
    
PROPERTIES
    BrokenRepoIsolated
    NeverBackwards
    ReleaseSeen
