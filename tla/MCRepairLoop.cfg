SPECIFICATION Spec
CONSTANTS
  id = id
  status = status
  Columns <- MCColumns
  Calls <- MCCalls
  Answers <- MCAnswers
INVARIANTS
  TypeOK
  ResultIsConsistent
  RewritesAreRecorded
  EscalationIsExhausted
PROPERTIES
  RewriteAddsNoFinding
  OneRoundSettles
  CallEnds
CHECK_DEADLOCK FALSE
