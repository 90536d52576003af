SPECIFICATION MCFairSpec
CONSTANTS
  root = root
  d1 = d1
  d2 = d2
  c1 = c1
  c2 = c2
  j1 = j1
  j2 = j2
  main = main
  w1 = w1
  w2 = w2
  A = A
  B = B
  Procs = {root, d1, d2}
  Root = root
  Platforms = {"posix", "windows"}
  Detaches = FALSE
  PromptReaders = TRUE
  Calls = {c1, c2}
  CallJob <- MCCallJob
  CallOp <- MCCallOp
  CallEnd <- MCCallEnd
  Jobs = {j1, j2}
  Files = {"f"}
  Commits = {0, 1}
  Ancestors <- MCAncestors
  BaseCommit = 0
  Changed <- MCChanged
  LaunchRead <- MCLaunchRead
  LaunchSpace <- MCLaunchSpace
  Refs = {main}
  NoRef = NoRef
  Policies = {"open", "restricted"}
  AllowedRefs <- MCAllowedRefs
  NoPolicy = NoPolicy
  Workspaces = {w1, w2}
  Repositories = {A, B}
  NoRepository = NoRepository
  Objects <- MCObjects
  FirstRepository <- MCFirstRepository
  NoJob = NoJob
  NoCommit = NoCommit
  NoArtifact = NoArtifact
  NoCall = NoCall
  LateSwaps = FALSE
  MaxEdits = 1
  MaxMoves = 1
  MaxRevision = 2
INVARIANT ConfirmedMeansGone
PROPERTY CurrentWhenRetained
CHECK_DEADLOCK FALSE
PROPERTY CapturesEnd
 
