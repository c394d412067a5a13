\* Compensation by gRPC; one fault, which exhausts the deliveries of a message.
CONSTANTS
    Emails = {alice}
    Repos = {r1}
    Sagas = {s1}
    NoSaga = NoSaga
    TTL = 1
    MaxRequests = 1
    Transport = "grpc"
    SagaKey <- OneKey
    MaxRetries = 1
    ConfTTL = 1
    MaxDeliver = 1
    MaxFaults = 1
SPECIFICATION Spec
INVARIANTS MarkedIsRolledBack
 
