SPECIFICATION FairSpec
CONSTANTS
  Requests = {r1, r2}
  PromptJobs = {}
  Agents = {a1}
  PromptAgent <- MCPromptAgent
  NoAgent = NoAgent
  NoRun = NoRun
  Transitions <- MCOpenOnly
  FieldKinds <- MCFieldKinds
  FieldValues <- MCFieldValues
  Assessments <- MCAssessments
  States = {"open"}
  Kinds = {"start", "end"}
  Contexts = {"home", "moved"}
  MaxRevision = 4
  MaxFaults = 1
  LateRequests = FALSE
PROPERTY MissingRunCleared
PROPERTY ConfirmedStopReleases
CHECK_DEADLOCK FALSE
