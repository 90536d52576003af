SPECIFICATION FairSpec
CONSTANTS
  Jobs = {j1}
  Saves = {}
  j1 = j1
  A = A
  B = B
  Empty = Empty
  Torn = Torn
  None = None
  Free = Free
  Sweeper = Sweeper
  Blank = Blank
  Contents = {Blank, A, B}
  TornWrites = FALSE
  LateDeaths = FALSE
  FinalFaults = FALSE
  MaxCrashes = 3
  MaxFaults = 0
PROPERTY DeadJobsEnd
PROPERTY OrphanJournalsCleaned
