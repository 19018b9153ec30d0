SPECIFICATION Spec
CONSTANTS
    Digests = {d1}
    None = None
    MaxTransitions = 4
    MaxEdits = 0
    MaxFaults = 0
INVARIANTS
    UninstalledMeansStopped
CHECK_DEADLOCK FALSE
