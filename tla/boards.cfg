SPECIFICATION Spec
CONSTANTS
  e1 = e1 e2 = e2 t1 = t1 t2 = t2 l1 = l1 l2 = l2 r1 = r1 r2 = r2
  w1 = w1 w2 = w2 s1 = s1 s2 = s2
  Editors = {e1, e2}
  Teams = {t1, t2}
  Paths = {1, 2, 3}
  Libraries = {l1, l2}
  Blueprints = {1, 2}
  Roots = {r1, r2}
  Workflows = {w1, w2}
  Shapes = {s1, s2}
  Definitions <- MCDefinitions
  InitialConfigs <- MCInitialConfigs
  InitialSources <- MCInitialSources
  InitialTickets <- MCInitialTickets
  NoBoard = NoBoard
  NoTeam = NoTeam
  Overlaps <- MCOverlaps
  Missing = Missing
  MaxOps = 2
  MaxEdits = 1
SYMMETRY Symmetry
INVARIANT NoCircularWait
PROPERTY BoardsStayReadable
CHECK_DEADLOCK FALSE
 
