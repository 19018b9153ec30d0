SPECIFICATION Spec
CONSTANTS
  P1 = P1
  P2 = P2
  A = A
  B = B
  M = M
  N = N
  Openers = {o1, o2}
  StoreRows <- MCRows
  MigProjects = {"p1"}
  Versions <- MCVersions
  MaxMigFaults = 1
  RecProjects = {P1, P2}
  MaxRuns = 1
  MaxRecords = 1
  MaxMoves = 1
  HistProjects = {P1, P2}
  MaxTurns = 3
  MaxConvs = 2
  HISTORY_LIMIT = 1
  MaxFileOps = 1
  MaxHistFaults = 1
  Providers = {A, B}
  Models = {M, N}
  Tests = {1}
  MaxSaves = 2
  MaxKeySteps = 1
  MaxModelFaults = 1
  GitProjects = {P1, P2}
  Places = 2
  MAX_DIFF_HUNKS = 2
  MaxGitEvents = 2
  MaxGitCalls = 2
INVARIANTS   ConversationsStayWhole SettingsTellTurns
PROPERTIES PromptsTellOwnHistory WritesWhatWasShown
CHECK_DEADLOCK FALSE
