SPECIFICATION Spec
CONSTANTS
    Digests = {d1, d2}
    None = None
    MaxTransitions = 3
    MaxEdits = 1
    MaxFaults = 1
SYMMETRY Symmetry
INVARIANTS
    StoppedMeansStopped
PROPERTIES
    CustodySpec
CHECK_DEADLOCK FALSE
