SPECIFICATION Spec
CONSTANTS
    Start = 3
    Tasks = {t1, t2}
    Doubts = {{"history"}, {"wallet"}}
    MaxTx = 2
    MaxLoads = 1
    t1 = t1
    t2 = t2
SYMMETRY Symmetry
INVARIANTS TypeOK EachFillOnce NotSwallowed
CHECK_DEADLOCK FALSE
