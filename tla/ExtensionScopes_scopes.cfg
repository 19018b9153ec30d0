SPECIFICATION Spec
CONSTANTS
    App = App
    Projects = {p1, p2}
    Workspaces = {w1, w2}
    Roots = {ra}
    Callers = {k1, k2}
    Clients = {c1}
    None = None
CHECK_DEADLOCK FALSE
INVARIANT CallsKeepEffects
INVARIANT NothingLeftBehind
PROPERTY OperationsEnd
