SPECIFICATION AgentsSpec
CONSTANTS
  Editors = {e1, e2}
  e1 = e1
  e2 = e2
  Teams = {1, 2}
  n1 = n1
  Names = {n1}
  p1 = p1
  Prompts = {p1}
  c1 = c1
  c2 = c2
  Channels = {c1, c2}
  A = A
  B = B
  Empty = Empty
  Contents = {Empty, A, B}
  j1 = j1
  Jobs = {j1, j2}
  j2 = j2
  NoAgent = NoAgent
  RunMemory = RunMemory
  OwnMemory = OwnMemory
  NoJob = NoJob
  Missing = Missing
  InitialStates <- MCInitialStates
  FreshForms = TRUE
  MaxOps = 3
  MaxDeaths = 1
SYMMETRY MCEditorSymmetry
CHECK_DEADLOCK FALSE
PROPERTY MovedWhole
PROPERTY ArchiveSparesJobs
INVARIANT AgentsRunnable
