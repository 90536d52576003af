SPECIFICATION MCSpec
CONSTANTS
  j1 = j1
  j2 = j2
  p1 = p1
  p2 = p2
  m1 = m1
  m2 = m2
  Jobs = {j1, j2}
  Pids = {p1, p2}
  Memories = {m1, m2}
  MemoryOf <- MCOwnMemory
  Rank <- MCRank
  Retired = {}
  Pool = 1
  Cycle = Cycle
  Nobody = Nobody
  ReportsPid = TRUE
  ConfirmsAbsence = TRUE
  PromptStart = TRUE
  ClaimSurvives = FALSE
  PidReuse = TRUE
  MaxCrashes = 1
SYMMETRY MCPidSymmetry
INVARIANT PinHeldWhileNeeded
INVARIANT UnstampedNeverTaken
PROPERTY ImplementsLifecycle
INVARIANT PoolCapUnlessLapsed
INVARIANT ExclusiveExecution
