------------------------------- MODULE Verify -------------------------------
(***************************************************************************)
(* verisql.verify: the pipeline of twelve checks over one SQL statement,   *)
(* followed by the gated critic (src/src/verisql/verify.py, checks/*.py).  *)
(*                                                                         *)
(* The statement is abstracted to what its checks can see of it, one       *)
(* action runs one check to its end, and every answer of the database and  *)
(* of the critic is a nondeterministic choice made at the moment of the    *)
(* call: two executions of one statement may well end differently.         *)
(***************************************************************************)
EXTENDS Report, PolicyEval, SequencesExt, FiniteSets

CONSTANTS
  Inputs,         \* the calls of verify, a set of Input records
  GovernedTables, \* the tables policy.required_filters names
  Invariants,     \* the predicates policy.invariants may hold
  Unparsable,     \* those of them sqlglot cannot parse
  Predicate,      \* the tree of each of the others
  Results,        \* the results the database may have, sequences of rows
  ExecRows,       \* _EXEC_ROWS, the row cap zero_row asks for
  SampleRows,     \* _SAMPLE_ROWS, the rows the invariants are checked on
  Boosts          \* what 0.15 * verdict.confidence may be, of either sign

ASSUME UnparsableAssumption == Unparsable \subseteq Invariants
ASSUME PredicateAssumption == \A inv \in Invariants \ Unparsable : IsPredicate(Predicate[inv])
ASSUME RowsAssumption == ExecRows \in Nat \ {0} /\ SampleRows \in Nat \ {0}
ASSUME BoostsAssumption == Boosts \subseteq Signed
ASSUME FinitePolicyAssumption == IsFiniteSet(GovernedTables) /\ IsFiniteSet(Invariants)

DefaultChecks == <<
  "ast_parse", "schema_existence", "cartesian_join", "null_semantics",
  "timestamp_equality", "pii_access", "required_filter", "filter_required",
  "date_coverage", "explain_plan", "zero_row_execution", "business_invariant">>

(***************************************************************************)
(* What the checks can see of a SELECT, and of the whole statement.        *)
(***************************************************************************)
SelectFeature == {"where", "dateColumn", "crossJoin", "unjoined", "nullableNotIn",
                  "neqDropsNull", "star", "piiTable", "piiColumn", "unboundedScan"}

Select == [features : SUBSET SelectFeature, unfiltered : SUBSET GovernedTables]

(***************************************************************************)
(* A row of a result, by the names of its columns.                         *)
(***************************************************************************)
IsRow(row) == \A name \in DOMAIN row : row[name] \in Value

Rows == UNION {ToSet(rows) : rows \in Results}

ASSUME ResultsAssumption ==
  /\ \A rows \in Results : rows \in Seq(Rows)
  /\ \A row \in Rows : IsRow(row)

NoResult == [columns |-> "unknown"]

(***************************************************************************)
(* The arguments of a call: the statement, whether a question came with it *)
(* and whether DATE_HINTS matches it, what the connector offers, the three *)
(* parts of the policy (an absent policy behaves as an empty one), and     *)
(* whether there is a critic.                                              *)
(*                                                                         *)
(* A statement that would change the database is a "mutation" if one of    *)
(* _MUTATION_NODES is in its tree, and a "command" if there is none, as in *)
(* a COPY or an ATTACH; "limited" is whether the word limit is in its      *)
(* text, be it in the name of a file.                                      *)
(***************************************************************************)
Query == [parses : BOOLEAN, kind : {"select", "mutation", "command"}, limited : BOOLEAN,
          selects : Seq(Select),
          unknownTable : BOOLEAN, unknownColumn : BOOLEAN, timestampEquality : BOOLEAN]

Input == [query : Query, question : {"none", "plain", "dated"},
          connector : {"none", "no_plan", "explains"},
          policy : [pii : BOOLEAN, filters : BOOLEAN, invariants : SUBSET Invariants],
          critic : BOOLEAN]

ASSUME InputsAssumption == Inputs \subseteq Input

VARIABLES
  input,           \* the arguments of verify, fixed by the call
  at,              \* index in DefaultChecks of the next check
  phase,           \* "checks", then "critic", then "done"
  report,          \* flags, confidence and suggested_review
  executed,        \* report.executed
  row_count,       \* report.row_count, -1 for None
  cache,           \* ctx.cache: NoResult, or the rows and the column names
  critic_invoked,  \* report.critic_invoked
  executions,      \* history: outcome of every connector.execute_readonly
  critic_calls     \* history: how often the critic was called

vars == <<input, at, phase, report, executed, row_count, cache, critic_invoked,
          executions, critic_calls>>

query  == input.query
policy == input.policy

HasConnector == input.connector # "none"
HasQuestion  == input.question # "none"

(***************************************************************************)
(* ZeroRowCheck._column_names: the names of the first SELECT's projection. *)
(* A star yields the single name "*", which is no column of the result.    *)
(***************************************************************************)
Projection ==
  IF query.selects = <<>> THEN "none"
  ELSE IF "star" \in query.selects[1].features THEN "star" ELSE "named"

Init ==
  /\ input \in Inputs
  /\ at = 1
  /\ phase = "checks"
  /\ report = EmptyReport
  /\ executed = FALSE
  /\ row_count = -1
  /\ cache = NoResult
  /\ critic_invoked = FALSE
  /\ executions = <<>>
  /\ critic_calls = 0

-----------------------------------------------------------------------------
(***************************************************************************)
(* Check.applies.  An unparsable statement never gets past ast_parse, so   *)
(* the tree every later check asks for is there.                           *)
(***************************************************************************)
Applies(check) ==
  CASE check \in {"schema_existence", "zero_row_execution"} -> HasConnector
    [] check = "explain_plan"       -> input.connector = "explains"
    [] check = "pii_access"         -> policy.pii
    [] check = "required_filter"    -> policy.filters
    [] check = "business_invariant" -> policy.invariants # {} /\ HasConnector
    [] OTHER -> TRUE

(***************************************************************************)
(* The end of a turn of verify's loop: the flags are in, a blocked         *)
(* ast_parse returns at once, and the last check hands over to the critic. *)
(***************************************************************************)
Turn(check, flags) ==
  /\ report' = Add(report, flags)
  /\ LET halts == check = "ast_parse" /\ HasBlocking(report')
         last  == at = Len(DefaultChecks)
     IN  /\ phase' = IF halts THEN "done" ELSE IF last THEN "critic" ELSE "checks"
         /\ at' = at + 1
  /\ UNCHANGED <<input, critic_invoked, critic_calls>>

Running(check) ==
  /\ phase = "checks"
  /\ DefaultChecks[at] = check
  /\ Applies(check)

KeepsResult == UNCHANGED <<executed, row_count, cache, executions>>

Skip ==
  /\ phase = "checks"
  /\ ~ Applies(DefaultChecks[at])
  /\ Turn("skipped", <<>>)
  /\ KeepsResult

(***************************************************************************)
(* The flags a check adds, select by select, in the order of the tree.     *)
(***************************************************************************)
FlagIf(condition, check, severity) ==
  IF condition THEN <<Flag(check, severity)>> ELSE <<>>

PerSelect(flagsOf(_)) ==
  FlattenSeq([i \in 1 .. Len(query.selects) |-> flagsOf(query.selects[i])])

Somewhere(feature) == \E i \in 1 .. Len(query.selects) : feature \in query.selects[i].features

AstParse ==
  /\ Running("ast_parse")
  /\ Turn("ast_parse", FlagIf(~ query.parses, "ast_parse", "critical"))
  /\ KeepsResult

(***************************************************************************)
(* Reading the catalogue may fail: list_tables takes the whole check with  *)
(* it, a failing list_columns only leaves that column unchecked.           *)
(***************************************************************************)
SchemaExistence ==
  /\ Running("schema_existence")
  /\ \E catalogue \in {"raises", "tables", "columns"} :
       Turn("schema_existence",
            CASE catalogue = "raises" -> <<Flag("schema_existence", "info")>>
              [] catalogue # "raises" /\ query.unknownTable -> <<Flag("schema_existence", "critical")>>
              [] OTHER -> FlagIf(query.unknownColumn /\ catalogue = "columns",
                                 "schema_existence", "error"))
  /\ KeepsResult

CartesianJoin ==
  /\ Running("cartesian_join")
  /\ Turn("cartesian_join",
          PerSelect(LAMBDA s : FlagIf("crossJoin" \in s.features, "cartesian_join", "warn")
                               \o FlagIf("unjoined" \in s.features, "cartesian_join", "critical")))
  /\ KeepsResult

NullSemantics ==
  /\ Running("null_semantics")
  /\ Turn("null_semantics",
          PerSelect(LAMBDA s : FlagIf("nullableNotIn" \in s.features, "null_semantics", "error")
                               \o FlagIf("neqDropsNull" \in s.features, "null_semantics", "warn")))
  /\ KeepsResult

TimestampEquality ==
  /\ Running("timestamp_equality")
  /\ Turn("timestamp_equality", FlagIf(query.timestampEquality, "timestamp_equality", "error"))
  /\ KeepsResult

(***************************************************************************)
(* A star over a governed table is an error and ends that select's turn.   *)
(***************************************************************************)
PiiAccess ==
  /\ Running("pii_access")
  /\ Turn("pii_access",
          PerSelect(LAMBDA s : IF "piiTable" \notin s.features THEN <<>>
                               ELSE IF "star" \in s.features THEN <<Flag("pii_access", "error")>>
                               ELSE FlagIf("piiColumn" \in s.features, "pii_access", "warn")))
  /\ KeepsResult

(***************************************************************************)
(* One error for every governed table that misses its filter.              *)
(***************************************************************************)
RequiredFilter ==
  /\ Running("required_filter")
  /\ Turn("required_filter",
          PerSelect(LAMBDA s : [n \in 1 .. Cardinality(s.unfiltered) |->
                                  Flag("required_filter", "error")]))
  /\ KeepsResult

FilterRequired ==
  /\ Running("filter_required")
  /\ Turn("filter_required",
          PerSelect(LAMBDA s : FlagIf("unboundedScan" \in s.features, "filter_required", "error")))
  /\ KeepsResult

DateCoverage ==
  /\ Running("date_coverage")
  /\ Turn("date_coverage",
          FlagIf(input.question = "dated" /\ ~ Somewhere("dateColumn"), "date_coverage", "error"))
  /\ KeepsResult

(***************************************************************************)
(* A statement guard_mutation refuses gets no plan and no flag here; to a  *)
(* command it has no objection, whatever the database makes of its plan.   *)
(***************************************************************************)
ExplainPlan ==
  /\ Running("explain_plan")
  /\ \E plan \in {"raises", "full_scan", "other"} :
       /\ query.kind = "mutation" => plan = "raises"
       /\ Turn("explain_plan",
               FlagIf(\/ plan = "raises" /\ query.kind # "mutation"
                      \/ plan = "full_scan" /\ Somewhere("where"),
                      "explain_plan", "warn"))
  /\ KeepsResult

-----------------------------------------------------------------------------
(***************************************************************************)
(* connector.execute_readonly: guard_mutation refuses the mutations of a   *)
(* statement that parses, and looks at the list with ATTACH and COPY only  *)
(* if none does; any other statement may fail.  ensure_limited makes a     *)
(* subquery of the statement, which a command cannot be, unless the word   *)
(* limit is in it: then it goes to the database as it is, and uncapped     *)
(* (connectors/base.py).                                                   *)
(***************************************************************************)
FetchedUnguarded(max_rows) ==  \* mutant of Fetched: guard_mutation is not called
  IF query.limited THEN Results
  ELSE IF query.kind # "select" THEN {}
  ELSE {SubSeq(rows, 1, IF Len(rows) < max_rows THEN Len(rows) ELSE max_rows) : rows \in Results}

Fetched(max_rows) ==
  IF query.kind = "mutation" THEN {}
  ELSE IF query.limited THEN Results
  ELSE IF query.kind = "command" THEN {}
  ELSE {SubSeq(rows, 1, IF Len(rows) < max_rows THEN Len(rows) ELSE max_rows) : rows \in Results}

ExecutionFails ==
  /\ executions' = Append(executions, "failed")
  /\ UNCHANGED <<cache, row_count, executed>>

ExecutionReturnsUncached(rows) ==  \* mutant of ExecutionReturns: ctx.cache is not filled
  /\ executions' = Append(executions, "returned")
  /\ UNCHANGED cache

ExecutionReturns(rows) ==
  /\ executions' = Append(executions, "returned")
  /\ cache' = [columns |-> Projection, rows |-> rows]

ZeroRowExecution ==
  /\ Running("zero_row_execution")
  /\ \/ /\ ExecutionFails
        /\ Turn("zero_row_execution", <<Flag("zero_row_execution", "critical")>>)
     \/ \E rows \in Fetched(ExecRows) :
          /\ ExecutionReturns(rows)
          /\ executed' = TRUE
          /\ row_count' = Len(rows)
          /\ Turn("zero_row_execution", FlagIf(rows = <<>>, "zero_row_execution", "warn"))

(***************************************************************************)
(* What the evaluators make of a result: a star projection names no column *)
(* a predicate could refer to; a predicate that raises, in the constructor *)
(* or on a row, takes the whole check with it, the violations included.    *)
(***************************************************************************)
SampleSkipsFirst(rows) == Tail(rows)  \* mutant of Sample: the first row is taken for a header

Sample(rows) == SubSeq(rows, 1, IF Len(rows) < SampleRows THEN Len(rows) ELSE SampleRows)

AsDict(row) ==
  IF Projection = "named" THEN row ELSE [name \in {} |-> Null]

Yields(inv, rows, value) ==
  \E i \in 1 .. Len(Sample(rows)) : Outcome(Predicate[inv], AsDict(Sample(rows)[i])) = value

InvariantFlags(rows) ==
  IF rows = <<>> \/ Projection = "none" THEN <<>>
  ELSE IF \/ policy.invariants \cap Unparsable # {}
          \/ \E inv \in policy.invariants : Yields(inv, rows, "raises")
       THEN <<Flag("business_invariant", "info")>>
  ELSE [n \in 1 .. Cardinality({inv \in policy.invariants : Yields(inv, rows, "fails")}) |->
          Flag("business_invariant", "critical")]

(***************************************************************************)
(* Reuses the cached result; without one it executes the statement itself. *)
(***************************************************************************)
BusinessInvariant ==
  /\ Running("business_invariant")
  /\ \/ /\ cache # NoResult
        /\ Turn("business_invariant", InvariantFlags(cache.rows))
        /\ KeepsResult
     \/ /\ cache = NoResult
        /\ ExecutionFails
        /\ Turn("business_invariant", <<Flag("business_invariant", "warn")>>)
     \/ /\ cache = NoResult
        /\ \E rows \in Fetched(SampleRows) :
             /\ ExecutionReturns(rows)
             /\ Turn("business_invariant", InvariantFlags(rows))
        /\ UNCHANGED <<executed, row_count>>

-----------------------------------------------------------------------------
(***************************************************************************)
(* critic.should_escalate, with the default gate 0.40 .. 0.80.             *)
(***************************************************************************)
ShouldEscalateWhenBlocked ==  \* mutant of ShouldEscalate: a standing rejection is ignored
  /\ HasQuestion
  /\ AtMost(Literal40, report.confidence)
  /\ AtMost(report.confidence, Literal80)

ShouldEscalate ==
  /\ HasQuestion
  /\ ~ HasBlocking(report)
  /\ AtMost(Literal40, report.confidence)
  /\ AtMost(report.confidence, Literal80)

CriticKeeps == UNCHANGED <<input, at, executed, row_count, cache, executions>>

NoCritic ==
  /\ phase = "critic"
  /\ ~ (input.critic /\ ShouldEscalate)
  /\ phase' = "done"
  /\ UNCHANGED <<report, critic_invoked, critic_calls>>
  /\ CriticKeeps

AskCritic ==
  /\ phase = "critic"
  /\ input.critic /\ ShouldEscalate
  /\ critic_calls' = critic_calls + 1
  /\ phase' = "done"
  /\ CriticKeeps

CriticRaises ==
  /\ AskCritic
  /\ report' = Add(report, <<Flag("llm_critic", "info")>>)
  /\ UNCHANGED critic_invoked

CriticDisagrees ==
  /\ AskCritic
  /\ critic_invoked' = TRUE
  /\ report' = Add(report, <<Flag("llm_critic", "error")>>)

CriticAgreesAndClears ==  \* mutant of CriticAgrees: the approval withdraws the review
  /\ AskCritic
  /\ critic_invoked' = TRUE
  /\ \E boost \in Boosts :
       report' = [report EXCEPT !.confidence = Credit(@, boost), !.suggested_review = FALSE]

CriticAgrees ==
  /\ AskCritic
  /\ critic_invoked' = TRUE
  /\ \E boost \in Boosts : report' = [report EXCEPT !.confidence = Credit(@, boost)]

RunCheck ==
  \/ AstParse \/ SchemaExistence \/ CartesianJoin \/ NullSemantics
  \/ TimestampEquality \/ PiiAccess \/ RequiredFilter \/ FilterRequired
  \/ DateCoverage \/ ExplainPlan \/ ZeroRowExecution \/ BusinessInvariant

MaybeRunCritic == NoCritic \/ CriticRaises \/ CriticDisagrees \/ CriticAgrees

Next == Skip \/ RunCheck \/ MaybeRunCritic

(***************************************************************************)
(* verify is a straight-line call: it goes on as long as it can, given     *)
(* that the connector and the critic return or raise.                      *)
(***************************************************************************)
Spec == Init /\ [][Next]_vars /\ WF_vars(Next)

-----------------------------------------------------------------------------
(***************************************************************************)
(* The type invariant of the pipeline.  The confidence is never above 1.0, *)
(* and below 0.0 only by an approval: critic.py:34 has the critic's own    *)
(* confidence in 0..1, but nothing in the code sees to it.                 *)
(***************************************************************************)
TypeOK ==
  /\ input \in Input
  /\ at \in 1 .. Len(DefaultChecks) + 1
  /\ phase \in {"checks", "critic", "done"}
  /\ \A i \in DOMAIN report.flags : report.flags[i].severity \in Severity
  /\ IF critic_invoked THEN report.confidence \in Signed ELSE report.confidence \in Doubles
  /\ AtMost(report.confidence, One)
  /\ report.suggested_review \in BOOLEAN
  /\ executed \in BOOLEAN
  /\ row_count \in Nat \cup {-1}
  /\ cache # NoResult => /\ cache.columns \in {"none", "star", "named"}
                       /\ \A i \in DOMAIN cache.rows : IsRow(cache.rows[i])
  /\ critic_invoked \in BOOLEAN
  /\ executions \in Seq({"failed", "returned"})
  /\ critic_calls \in 0 .. 1

(***************************************************************************)
(* A statement that would change the database and cannot get there: it is  *)
(* refused, or wrapped into something that does not parse.                 *)
(***************************************************************************)
HeldBack == query.kind = "mutation" \/ (query.kind = "command" /\ ~ query.limited)

(***************************************************************************)
(* The mildest decision the statement's own defects allow: those that the  *)
(* checks see in the tree, without an answer of the database.              *)
(***************************************************************************)
Floor ==
  IF \/ ~ query.parses
     \/ Somewhere("unjoined")
     \/ HeldBack /\ HasConnector
  THEN "rejected"
  ELSE IF \/ Somewhere("nullableNotIn") \/ Somewhere("unboundedScan")
          \/ query.timestampEquality
          \/ input.question = "dated" /\ ~ Somewhere("dateColumn")
          \/ \E i \in 1 .. Len(query.selects) :
               \/ policy.pii /\ {"piiTable", "star"} \subseteq query.selects[i].features
               \/ policy.filters /\ query.selects[i].unfiltered # {}
  THEN "review"
  ELSE "delivered"

(***************************************************************************)
(* verify keeps the promise of module Verdict: the decision only becomes   *)
(* more severe, whatever raises on the way and however the critic answers; *)
(* it is not handed out below the floor; and it is handed out.             *)
(***************************************************************************)
Promise == INSTANCE Verdict WITH
  floor <- Floor, decision <- Decision(report), finished <- phase = "done"

ImplementsVerdict == Promise!Spec

(***************************************************************************)
(* The report tells the truth about the execution: executed and row_count  *)
(* are set together, by the execution whose rows later checks reuse; the   *)
(* statement runs a second time only if its first run failed, and then the *)
(* report already rejects it.                                              *)
(***************************************************************************)
ResultBookkeeping ==
  /\ executed <=> row_count >= 0
  /\ executed => executions = <<"returned">> /\ cache # NoResult /\ row_count = Len(cache.rows)
  /\ cache # NoResult /\ ~ executed => executions = <<"failed", "returned">>
  /\ Len(executions) <= 2
  /\ executions # <<>> /\ executions[1] = "failed" => HasBlocking(report)

(***************************************************************************)
(* What becomes of a statement that would change the database, on which    *)
(* explain_plan stays silent because other checks cover it.  It takes      *)
(* effect in one case only: a COPY or ATTACH with the word limit in it,    *)
(* which base.py:7 lists among those that must never run and the guard     *)
(* does not see.  With a connector it is rejected in every other case, and *)
(* one that is not rejected has taken effect exactly once, although two    *)
(* checks may execute the statement.                                       *)
(***************************************************************************)
WritesAreHeldBack ==
  query.kind # "select" =>
    /\ "returned" \in ToSet(executions) => query.kind = "command" /\ query.limited
    /\ phase = "done" /\ HasConnector /\ Decision(report) # "rejected"
         => executions = <<"returned">>

(***************************************************************************)
(* A row of the sample on which an invariant is false, in SQL's sense and  *)
(* with a value for everything it refers to, rejects the statement, unless *)
(* the check itself raised and reports that instead.                       *)
(***************************************************************************)
SampledViolationRejects ==
  (/\ phase = "done"
   /\ cache # NoResult
   /\ cache.columns = "named"
   /\ \E inv \in policy.invariants \ Unparsable : \E i \in DOMAIN cache.rows :
        /\ i <= SampleRows
        /\ Resolvable(Predicate[inv], cache.rows[i])
        /\ Violates(Predicate[inv], cache.rows[i]))
  => Decision(report) = "rejected" \/ Flagged(report, "business_invariant", "info")

(***************************************************************************)
(* No false alarm: a statement is rejected only if it does not parse, has  *)
(* an unjoined table or an unknown one, if it could not be run, or if some *)
(* row of the sample makes an invariant false in SQL's three-valued logic, *)
(* where a NULL is no violation.                                           *)
(***************************************************************************)
SampleViolates ==
  \E inv \in policy.invariants \ Unparsable : \E i \in DOMAIN cache.rows :
    i <= SampleRows /\ Violates(Predicate[inv], cache.rows[i])

RejectionHasCause ==
  Decision(report) = "rejected" =>
    \/ ~ query.parses \/ Somewhere("unjoined") \/ query.unknownTable
    \/ "failed" \in ToSet(executions)
    \/ SampleViolates

(***************************************************************************)
(* A condition under which there is no false alarm: each predicate means   *)
(* something on each row the database may return.                          *)
(***************************************************************************)
PolicyIsWellTyped ==
  \A inv \in Invariants \ Unparsable : \A row \in Rows : WellTyped(Predicate[inv], row)

(***************************************************************************)
(* policy.py:54 promises None for a NULL operand, which never counts as a  *)
(* violation.  Refuted: a NULL that stands for itself under an AND or NOT, *)
(* as a boolean column does, goes through bool() and counts as false.      *)
(***************************************************************************)
NullIsNoViolation ==
  Flagged(report, "business_invariant", "critical") => SampleViolates

NominalConfidence == Nominal(Cost(report.flags))

(***************************************************************************)
(* Until the critic speaks, the rounding of the doubles never moves the    *)
(* confidence away from its decimal value by more than one part in 2^29,   *)
(* and the order of the flags does not matter to it.                       *)
(***************************************************************************)
ConfidenceNearNominal ==
  ~ critic_invoked =>
    report.confidence[1] - HighLimb(NominalConfidence) \in -1 .. 1

(***************************************************************************)
(* A critic's tokens are spent only on a statement in doubt: at most once, *)
(* with a question to judge it by, with no rejection standing, and with a  *)
(* confidence in the band 0.40 .. 0.80 of the README.                      *)
(***************************************************************************)
CriticOnlyInDoubt ==
  [][critic_calls' # critic_calls =>
       /\ critic_calls = 0
       /\ HasQuestion
       /\ Decision(report) # "rejected"
       /\ NominalConfidence \in 40 .. 80]_vars

(***************************************************************************)
(* README.md:234 says the reverse too: a question in the band can escalate.*)
(* Refuted: two errors leave 0.39999999999999997, just below the gate.     *)
(***************************************************************************)
GateCoversBand ==
  phase = "critic" /\ HasQuestion /\ ~ HasBlocking(report) /\ NominalConfidence \in 40 .. 80
    => ShouldEscalate

=============================================================================
