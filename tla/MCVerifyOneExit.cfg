SPECIFICATION Spec
CONSTANTS
    entry = entry
    add = add
    partial = partial
    partial2 = partial2
    exit = exit
    exit2 = exit2
    None = None
    Sigs = {add, exit, exit2}
    Kind <- AddAndTwoExits
    MaxRestarts = 0
INVARIANT OneExitInFlight
CHECK_DEADLOCK FALSE
