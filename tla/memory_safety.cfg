SPECIFICATION Spec
CONSTANTS
  Jobs = {j1, j2}
  Saves = {s1}
  j1 = j1
  j2 = j2
  s1 = s1
  A = A
  Empty = Empty
  Torn = Torn
  None = None
  Free = Free
  Sweeper = Sweeper
  Blank = Blank
  Contents = {Blank, A}
  TornWrites = FALSE
  LateDeaths = FALSE
  FinalFaults = FALSE
  MaxCrashes = 2
  MaxFaults = 1
SYMMETRY MCJobSymmetry
INVARIANT NoFailedPublisher
INVARIANT JournalsResolvable
PROPERTY CompletionHoldsContent
 
