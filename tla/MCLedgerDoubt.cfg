SPECIFICATION Spec
CONSTANTS
    Start = 3
    Tasks = {t1}
    Doubts = {{"history", "wallet"}}
    MaxTx = 2
    MaxLoads = 0
    t1 = t1
INVARIANT EachFillOnce
CHECK_DEADLOCK FALSE
