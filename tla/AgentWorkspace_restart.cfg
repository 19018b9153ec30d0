SPECIFICATION Spec
CONSTANTS
  t1 = t1  t2 = t2  t3 = t3  t4 = t4
  c1 = c1  c2 = c2  c3 = c3
  Turns = {t1}
  Conversations = {c1, c2, c3}
  ConvOf <- MCConvOf
  Consoles = {u1}
  Requests = {q1}
  Runs = {r1, r2}
  Codes = {a}
  Probe = Probe
  Nobody = Nobody
  StartModes = {"act"}
  Replies = {"approve"}
  MaxTurns = 2
  MaxGen = 2
  MaxProject = 0
  MaxSignals = 1
SYMMETRY RunSymmetry
INVARIANTS
  RevisionsTellRuns
  NoOrphans
PROPERTIES
  TurnOutcomeFinal
CHECK_DEADLOCK FALSE
