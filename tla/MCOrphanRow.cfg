\* One subscribe call, no faults.
CONSTANTS
    Emails = {alice}
    Repos = {r1}
    Sagas = {s1}
    NoSaga = NoSaga
    TTL = 1
    MaxRequests = 1
    Transport = "nats"
    SagaKey <- OneKey
    MaxRetries = 1
    ConfTTL = 1
    MaxDeliver = 2
    MaxFaults = 0
SPECIFICATION Spec
INVARIANT NoOrphanRow
