SPECIFICATION CallsSpec
CONSTANTS
    ann = ann
    bob = bob
    Sides <- MCSides
    Polite = ann
    Initiator = ann
    InOrder = FALSE
    PendingLimit = 1
    MaxOffers = 4
    MaxCandidates = 0
    MaxFaults = 2
    MaxAttempts = 1
    Skew = 0
    Tombstone = 1
    LedgerCapacity = 20
INVARIANTS LinkTypeOK NegotiationsAgree FailedLinksAreAttended
PROPERTY CallsDoNotOutliveTheirPeer
CHECK_DEADLOCK FALSE
