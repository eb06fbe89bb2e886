---------------------------- MODULE MCRepairLoop ----------------------------
(***************************************************************************)
(* Instances of RepairLoop: statements of up to two conjuncts over two     *)
(* columns, in every combination of the pool below.                        *)
(***************************************************************************)
EXTENDS RepairLoop

CONSTANTS id, status

MCColumns == {id, status}

Query(projection, column, where, large) ==
  [projection |-> projection, column |-> column, where |-> where, large |-> large]

On(column, kinds) == {[kind |-> k, column |-> column] : k \in kinds}

NotIn(column, queries) == {[kind |-> "not_in_query", column |-> column, query |-> q] : q \in queries}

Guarded   == <<<<"filter", "not_null">>>>
Unguarded == <<<<"filter">>, <<"filter">>>>

Pool ==
  On(status, {"not_in_list_with_null", "neq", "is_null", "is_true"})
  \cup On(id, {"not_in_list", "neq", "is_not_null", "timestamp_equality", "bad_timestamp_equality"})
  \cup NotIn(id, {Query("column", id, <<>>, TRUE), Query("column", status, Unguarded, FALSE),
                  Query("column", id, Guarded, FALSE)})
  \cup NotIn(status, {Query("expression", id, <<>>, TRUE), Query("expression", status, Unguarded, FALSE)})

Statements ==
  {[parses |-> TRUE, where |-> w] : w \in {<<a>> : a \in Pool} \cup (Pool \X Pool)}
  \cup {[parses |-> FALSE, where |-> <<>>]}

\* Nothing else to report, a warning on either side, an error of a later check.
MCOthers ==
  {NoOthers,
   [before |-> <<Flag("cartesian_join", "warn")>>, between |-> <<Flag("pii_access", "warn")>>, after |-> <<>>],
   [NoOthers EXCEPT !.between = <<Flag("pii_access", "error")>>]}

MCCalls ==
  {[sql |-> s, others |-> o, connector |-> c, max_rounds |-> n] :
     s \in Statements, o \in MCOthers, c \in BOOLEAN, n \in {0, 1, 3}}

\* Nothing to report, an empty result after a schema that could not be read, a failed execution.
MCAnswers ==
  {Silent,
   [before |-> <<Flag("schema_existence", "info")>>, after |-> <<Flag("zero_row_execution", "warn")>>],
   [before |-> <<>>, after |-> <<Flag("zero_row_execution", "critical")>>]}

=============================================================================
