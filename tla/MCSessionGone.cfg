SPECIFICATION FairCall
CONSTANTS
    Sides = {ann, bob}
    Polite = ann
    Initiator = ann
    InOrder = TRUE
    PendingLimit = 1
    MaxOffers = 3
    MaxCandidates = 0
    MaxFaults = 2
    MaxAttempts = 1
    Skew = 0
    Tombstone = 1
    LedgerCapacity = 20
INVARIANT SessionGoneIsHeard
CHECK_DEADLOCK FALSE
