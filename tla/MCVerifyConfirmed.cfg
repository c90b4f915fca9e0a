SPECIFICATION Spec
CONSTANTS
    entry = entry
    add = add
    partial = partial
    partial2 = partial2
    exit = exit
    exit2 = exit2
    None = None
    Sigs = {exit}
    Kind <- OneExit
    MaxRestarts = 0
PROPERTY ConfirmedNeverFailed
CHECK_DEADLOCK FALSE
