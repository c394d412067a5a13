CONSTANTS
    Emails = {a}
    Watch = Watch
    MaxRetries = 2
    LongTTL = TRUE
    MaxTag = 2
    MaxChanges = 2
    MaxBacklog = 1
    MaxPrunes = 1
    MaxFaults = 1
SPECIFICATION RFFairSpec
PROPERTIES
    FailedRowsResolve
    LastReleaseProcessed
