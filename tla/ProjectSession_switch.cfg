SPECIFICATION Spec
CONSTANTS
    Roots = {pa, pb}
    Jobs = {j1}
    Consoles = {c1}
    None = None
    MaxDeaths = 1
    MaxFaults = 2
SYMMETRY Symmetry
CHECK_DEADLOCK FALSE
INVARIANT ProjectsAgree
 
INVARIANT AppRecoverable
