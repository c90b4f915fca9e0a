SPECIFICATION FairSpec
CONSTANTS
    Ids = {i1, i2}
    Mints = {m1}
    Openers = {o1}
    Requests = {r1}
    Worker = worker
    Ledger = ledger
    Limits = {1}
    None = none
INVARIANTS TypeOK SlotAccounting OneOpenRound
PROPERTY OperationsEnd
