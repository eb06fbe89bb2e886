SPECIFICATION Spec
CONSTANTS
  orders = orders
  events = events
  nonNegative = nonNegative
  balanced = balanced
  billed = billed
  active = active
  malformed = malformed
  GovernedTables <- MCGovernedTables
  Invariants <- MCInvariants
  Unparsable <- MCUnparsable
  Predicate <- MCPredicate
  Inputs <- MCInputs
  Results <- MCResults
  Boosts <- MCBoosts
  ExecRows = 2
  SampleRows = 2
INVARIANTS
  TypeOK
  ResultBookkeeping
  
  SampledViolationRejects
  RejectionHasCause
  ConfidenceNearNominal
PROPERTIES
  ImplementsVerdict
  CriticOnlyInDoubt
CHECK_DEADLOCK FALSE
