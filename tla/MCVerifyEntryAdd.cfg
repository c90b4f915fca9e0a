SPECIFICATION Spec
CONSTANTS
    entry = entry
    add = add
    partial = partial
    partial2 = partial2
    exit = exit
    exit2 = exit2
    None = None
    Sigs = {entry, add}
    Kind <- EntryAndAdd
    MaxRestarts = 1
INVARIANTS BookedOnce FailedNeverLands NothingDropped RemovedHeldNothing
CHECK_DEADLOCK FALSE
