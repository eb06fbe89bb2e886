SPECIFICATION SurfacesSpec
CONSTANTS
  id = id
  status = status
  Columns <- MCColumns
  Calls <- MCCalls
  Answers <- MCAnswers
  Requests <- MCRequests
  Jobs <- MCJobs
  LiveFlags <- MCLiveFlags
  Workload <- MCWorkload
INVARIANTS
  AgentTypeOK
  DeliveredIsVerified
  EscalationHasReason
  FeedbackIsCurrent
  GateTypeOK
  NothingBadPasses
  FailureHasCause
PROPERTIES
  ImplementsSupervised
  GateEnds
CHECK_DEADLOCK FALSE
