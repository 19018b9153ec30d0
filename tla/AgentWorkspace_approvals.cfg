SPECIFICATION Spec
CONSTANTS
  t1 = t1  t2 = t2  t3 = t3  t4 = t4
  c1 = c1  c2 = c2  c3 = c3
  Turns = {t1, t4}
  Conversations = {c1, c2, c3}
  ConvOf <- MCConvOf
  Consoles = {}
  Requests = {q1}
  Runs = {r1}
  Codes = {a, b}
  Probe = Probe
  Nobody = Nobody
  StartModes = {"ask", "act", "auto"}
  Replies = {"approve", "reject"}
  MaxTurns = 1
  MaxGen = 1
  MaxProject = 1
  MaxSignals = 0
SYMMETRY TurnSymmetry
INVARIANTS
  TypeOK
  
PROPERTIES
  RunsOnlyWhileRunning
CHECK_DEADLOCK FALSE
