\* One address, two repositories, three subscribe calls (two at a time).
CONSTANTS
    Emails = {alice}
    Repos = {r1, r2}
    Sagas = {s1, s2, s3}
    NoSaga = NoSaga
    TTL = 1
    MaxRequests = 2
SPECIFICATION SubFairSpec
INVARIANTS
    SubTypeOK
    StateMatchesLog
    MembershipAlternates
    RowAnnounced
PROPERTIES
    ConfirmedLeavesByUnsubscribe
    SweepSparesLiveLink
    PendingResolves
