SPECIFICATION Spec
CONSTANTS
    Grants = {g1}
    Calls = {c1, c2}
    Kinds = {"contribution", "file", "workspace", "network"}
    MaxHosts = 2
    MaxSteps = 2
    MaxFaults = 1
    MaxExpired = 1
    None = None
SYMMETRY Symmetry
INVARIANTS OnceDeliversOnce 
PROPERTIES RevokedAuthorityEnds
CHECK_DEADLOCK FALSE
