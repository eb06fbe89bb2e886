SPECIFICATION Spec
CONSTANTS
  Sessions = {s1, s2}
  RowCounts <- MCRowCounts
  Cap = 7
  MaxRecords = 2
INVARIANTS
  TypeOK
  OneBaselineEach
  AnswerIsGrounded
  NoAlarmOnSteadyData
  FartherIsWorse
PROPERTIES
  CheckEnds
CHECK_DEADLOCK FALSE
