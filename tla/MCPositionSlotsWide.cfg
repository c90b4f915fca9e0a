SPECIFICATION Spec
CONSTANTS
    Ids = {i1, i2}
    Mints = {m1, m2}
    Openers = {o1, o2}
    Requests = {r1}
    Worker = worker
    Ledger = ledger
    Limits = {1}
    None = none
INVARIANTS TypeOK SlotAccounting OneOpenRound
SYMMETRY Symmetry
