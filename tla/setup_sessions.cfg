SPECIFICATION Spec
CONSTANTS
  Requests = {r1, r2}
  Sweeper = Sweeper
  Shutdown = Shutdown
  Owners = {o1}
  Selections = {copilot, other}
  Connected = {copilot}
  Conns = {c1}
  Revisions = {v1, v2}
  Ready = {v2}
  ExitVerified = FALSE
  None = None
  MaxLaunches = 2
  MaxRequests = 2
  MaxCancels = 1
INVARIANT CompletionIsEarned
INVARIANT SessionsSound
PROPERTY EverythingEnds
