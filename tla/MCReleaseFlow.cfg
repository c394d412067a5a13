CONSTANTS
    Emails = {a, b}
    Watch = Watch
    MaxRetries = 2
    LongTTL = FALSE
    MaxTag = 2
    MaxChanges = 2
    MaxBacklog = 1
    MaxPrunes = 1
    MaxFaults = 1
SPECIFICATION RFSpec
SYMMETRY EmailSymmetry
INVARIANTS
    RFTypeOK
    
    
    AgainOnlyForAReason
    SeenMeansDelivered

    
