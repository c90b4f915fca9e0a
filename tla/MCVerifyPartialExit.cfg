SPECIFICATION Spec
CONSTANTS
    entry = entry
    add = add
    partial = partial
    partial2 = partial2
    exit = exit
    exit2 = exit2
    None = None
    Sigs = {partial, exit}
    Kind <- PartialAndExit
    MaxRestarts = 0
INVARIANTS TypeOK BookedOnce FailedNeverLands NothingDropped
CHECK_DEADLOCK FALSE
