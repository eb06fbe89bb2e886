SPECIFICATION Spec
CONSTANTS
  w1 = w1
  w2 = w2
  r1 = r1
  r2 = r2
  Writers <- TwoWriters
  Readers <- OneReader
  Reports <- MCReports
  CrashLeaves <- NoCrash
  Alterations <- NoAlteration
  MaxRecords = 3
INVARIANTS
  NoFalseAlarm
CHECK_DEADLOCK FALSE
