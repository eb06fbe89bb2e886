SPECIFICATION Spec
CONSTANTS
  id = id
  status = status
  Columns <- MCColumns
  Calls <- MCCalls
  Answers <- MCAnswers
INVARIANTS
  RemainingDefectEscalates
CHECK_DEADLOCK FALSE
