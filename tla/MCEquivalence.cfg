SPECIFICATION Spec
CONSTANTS
  Pairs <- MCPairs
  Results <- MCResults
  SampleRows = 2
INVARIANTS
  TypeOK
  
  GroundTruth
PROPERTIES
  ComparisonEnds
CHECK_DEADLOCK FALSE
