SPECIFICATION Spec
CONSTANTS
  Requests = {r1}
  PromptJobs = {p1}
  Agents = {a1, a2}
  PromptAgent <- MCPromptAgent
  NoAgent = NoAgent
  NoRun = NoRun
  Transitions <- MCTransitions
  FieldKinds <- MCFieldKinds
  FieldValues <- MCFieldValues
  Assessments <- MCAssessments
  States = {"open", "done"}
  Kinds = {"start", "end", "report", "transition", "sign_off"}
  Contexts = {"home"}
  MaxRevision = 4
  MaxFaults = 1
  LateRequests = FALSE
PROPERTY ImplementsOwnership
CHECK_DEADLOCK FALSE
INVARIANT OwnersAccounted
