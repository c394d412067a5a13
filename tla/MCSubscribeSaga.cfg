\* One subscribe call, one fault: a message may be duplicated or redelivered.
CONSTANTS
    Emails = {alice}
    Repos = {r1}
    Sagas = {s1}
    NoSaga = NoSaga
    TTL = 1
    MaxRequests = 1
    Transport = "nats"
    SagaKey <- OneKey
    MaxRetries = 1
    ConfTTL = 1
    MaxDeliver = 2
    MaxFaults = 1
SPECIFICATION FairSpec
INVARIANTS
    WireTypeOK
PROPERTIES
    ConfirmationAnswered
    RollbackArrives
