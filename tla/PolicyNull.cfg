SPECIFICATION Spec
CONSTANTS
  orders = orders
  events = events
  nonNegative = nonNegative
  balanced = balanced
  billed = billed
  active = active
  malformed = malformed
  GovernedTables <- MCGovernedTables
  Invariants <- MCInvariants
  Unparsable <- MCUnparsable
  Predicate <- MCPredicate
  Inputs <- MCInputs
  Results <- NullResults
  Boosts <- MCBoosts
  ExecRows = 2
  SampleRows = 2
INVARIANTS
  NullIsNoViolation
CHECK_DEADLOCK FALSE
