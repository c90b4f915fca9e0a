SPECIFICATION FairSpec
CONSTANTS
    Rungs = 2
    Fallbacks = 1
    MaxRetries = 1
    Validity = 1
    MaxHeight = 3
INVARIANTS TypeOK EarlierSendsDead
PROPERTY ImplementsOneSale
CHECK_DEADLOCK FALSE
