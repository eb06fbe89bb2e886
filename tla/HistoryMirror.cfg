SPECIFICATION Spec
CONSTANTS
  Sessions = {s1, s2}
  RowCounts <- MCRowCounts
  Cap = 7
  MaxRecords = 2
INVARIANTS
  ExtensionMirrors
CHECK_DEADLOCK FALSE
