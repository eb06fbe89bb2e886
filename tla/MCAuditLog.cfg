SPECIFICATION Spec
CONSTANTS
  w1 = w1
  w2 = w2
  r1 = r1
  r2 = r2
  Writers <- OneWriter
  Readers <- OneReader
  Reports <- MCReports
  CrashLeaves <- AnyCrash
  Alterations <- AnyAlteration
  MaxRecords = 3
INVARIANTS
  TypeOK
  ChainIntact
  NoFalseAlarm
  AlterationShows
  NoSilentLoss
  EvidenceAddsUp
CHECK_DEADLOCK FALSE
