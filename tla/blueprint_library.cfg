SPECIFICATION MCSpec
CONSTANTS
  e1 = e1
  e2 = e2
  j1 = j1
  j2 = j2
  Editors = {e1, e2}
  EditFile <- MCEditFile
  Deletes = {e2}
  Jobs = {j1, j2}
  PromptJobs = {j1}
  FileOrder <- MCFileOrder
  Instructions = "AGENTS.md"
  NoFile = NoFile
  NoTree = NoTree
  Nobody = Nobody
  Original = Original
  Attempts = 2
  SlowReads = FALSE
  LateDamage = FALSE
  MaxTrouble = 1
INVARIANT NothingLost
PROPERTY NoLostEdit
PROPERTY WorkEnds
CHECK_DEADLOCK FALSE
 
