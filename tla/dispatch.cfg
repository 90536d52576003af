SPECIFICATION MCSpec
CONSTANTS
  a = a
  e = e
  None = None
  AtRoutines = {a}
  EveryRoutines = {e}
  At <- MCAt
  Period <- MCPeriod
  CatchUp <- MCCatchUp
  Day = 2
  Grace = 0
  Start = 2
  FirstMarks <- MCFirstMarks
  MaxNow = 3
  LateDeaths = FALSE
  EarlyFailures = FALSE
  MaxFaults = 1
  MaxCrashes = 1
  Mine = c1
  Admins = {a1, a2}
  Configs = {c1, c2}
  Intervals = {5, 15}
  Default = 15
  Absent = Absent
  Torn = Torn
  Platforms = {"linux", "macos", "windows"}
  OverlapOn = {"linux", "windows"}
  LateInterrupts = FALSE
  IgnoredErrors = FALSE
  MaxInterrupts = 1
INVARIANT RetriesOnlyLost
 
 
INVARIANT DashboardIsHonest
 
 
