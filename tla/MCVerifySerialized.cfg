SPECIFICATION Spec
CONSTANTS
    entry = entry
    add = add
    partial = partial
    partial2 = partial2
    exit = exit
    exit2 = exit2
    None = None
    Sigs = {partial, partial2, exit}
    Kind <- TwoPartialsAndExit
    MaxRestarts = 0
INVARIANT PartialsSerialized
CHECK_DEADLOCK FALSE
