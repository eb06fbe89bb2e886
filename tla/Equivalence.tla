---------------------------- MODULE Equivalence ----------------------------
(***************************************************************************)
(* verify_equivalence: a legacy query and its translation are compared by  *)
(* the structure of their trees and, with a connector, by the rows they    *)
(* return (src/src/verisql/equivalence.py).                                *)
(*                                                                         *)
(* The statements are executed one after the other, each with a cap and    *)
(* without a common order, against one database or two, and others may     *)
(* write in between.                                                       *)
(***************************************************************************)
EXTENDS Integers, Sequences, FiniteSets

CONSTANTS
  Pairs,       \* the trees of the two statements, <<old, new>>
  Results,     \* the results the two statements may have, <<old, new>>
  SampleRows   \* sample_rows, 1000

(***************************************************************************)
(* A row of a result: how many columns it has, and the text str() makes of *)
(* its values, which is what the fingerprint hashes.  (Values of one text, *)
(* such as a NULL and the string 'None', are not told apart.)              *)
(***************************************************************************)
Row == [width : Nat, text : STRING]

(***************************************************************************)
(* execute_readonly returns tuples: those of one result all have its       *)
(* columns.                                                                *)
(***************************************************************************)
Result == {rows \in Seq(Row) : \A m, n \in DOMAIN rows : rows[m].width = rows[n].width}

(***************************************************************************)
(* What the comparison reads off a tree: whether it parses, whether it is  *)
(* a query, a write, or a write of what a query yields; its columns, its   *)
(* WHERE as rendered ("" if there is none), its joins and its GROUP BY.    *)
(* The rest of the tree (DISTINCT, HAVING, subqueries) is not compared.    *)
(* limited: the word limit occurs in the text.                             *)
(***************************************************************************)
Tree == [parses : BOOLEAN, kind : {"query", "write", "write_query"},
         columns : Seq(STRING), where : STRING, joins : Seq(STRING), groups : Seq(STRING),
         limited : BOOLEAN]

Kinds == {"parse", "projection", "filter", "join", "grouping", "rowcount", "data"}

Difference == [kind : Kinds, severity : {"minor", "major", "fatal"}]

ASSUME PairsAssumption == Pairs \subseteq Tree \X Tree
ASSUME SampleRowsAssumption == SampleRows \in Nat \ {0}
ASSUME ResultsAssumption == Results \subseteq Result \X Result

VARIABLES
  pair,         \* the trees, fixed
  connector,    \* whether there is one (for both statements, or one for each)
  full,         \* the results the two statements have at this moment
  stage,        \* "structure", "old", "new", "compare", "finalize", "done"
  differences,  \* report.differences
  executed,     \* report.executed
  old_rows, new_rows,  \* what was fetched
  verdict,      \* report.verdict
  quiet         \* history: nobody has written since the first execution

vars == <<pair, connector, full, stage, differences, executed, old_rows, new_rows, verdict, quiet>>

-----------------------------------------------------------------------------
Diff(kind, severity) == [kind |-> kind, severity |-> severity]

DiffIf(condition, kind, severity) == IF condition THEN <<Diff(kind, severity)>> ELSE <<>>

Has(diffs, severity) == \E i \in DOMAIN diffs : diffs[i].severity = severity

(***************************************************************************)
(* How often each element occurs: two sorted lists are equal iff these are.*)
(***************************************************************************)
Elements(list) == {list[i] : i \in DOMAIN list}

Counted(list) == [e \in Elements(list) |-> Cardinality({i \in DOMAIN list : list[i] = e})]

(***************************************************************************)
(* The signatures of a tree.  Columns, WHERE and GROUP BY are those of the *)
(* first SELECT in it, joins are taken from everywhere.                    *)
(***************************************************************************)
HasSelect(tree) == tree.kind # "write"

ProjectionNames(tree) == IF HasSelect(tree) THEN tree.columns ELSE <<>>

NormalizedWhere(tree) == IF HasSelect(tree) THEN tree.where ELSE ""

JoinSignature(tree) == Counted(tree.joins)

GroupBySignature(tree) == Counted(IF HasSelect(tree) THEN tree.groups ELSE <<>>)

(***************************************************************************)
(* compare_structure.                                                      *)
(***************************************************************************)
CompareColumnCounts(old, new) ==  \* mutant of ProjectionDifferences: columns matched by number
  IF Len(old) # Len(new) THEN <<Diff("projection", "major")>>
  ELSE DiffIf(old # new, "projection", "minor")

ProjectionDifferences(old, new) ==
  IF Elements(old) # Elements(new) THEN <<Diff("projection", "major")>>
  ELSE DiffIf(old # new, "projection", "minor")

StructuralDifferences(old, new) ==
  IF ~ (old.parses /\ new.parses) THEN <<Diff("parse", "fatal")>>
  ELSE ProjectionDifferences(ProjectionNames(old), ProjectionNames(new))
       \o DiffIf(NormalizedWhere(old) # NormalizedWhere(new), "filter", "major")
       \o DiffIf(JoinSignature(old) # JoinSignature(new), "join", "major")
       \o DiffIf(GroupBySignature(old) # GroupBySignature(new), "grouping", "major")

(***************************************************************************)
(* _result_fingerprint: equal for equal bags of row texts, and only then,  *)
(* which is what SHA-256 over the sorted hashes is taken to provide.       *)
(***************************************************************************)
FingerprintOfSet(rows) == Elements([i \in DOMAIN rows |-> rows[i].text])  \* mutant of Fingerprint: no multiplicity

Fingerprint(rows) == Counted([i \in DOMAIN rows |-> rows[i].text])

(***************************************************************************)
(* compare_results, once both statements have returned.                    *)
(***************************************************************************)
DataDifferences(old, new) ==
  IF Len(old) # Len(new) THEN <<Diff("rowcount", "major")>>
  ELSE IF old # <<>> /\ old[1].width # new[1].width THEN <<Diff("data", "major")>>
  ELSE DiffIf(Fingerprint(old) # Fingerprint(new), "data", "major")

(***************************************************************************)
(* EquivalenceReport.finalize.                                             *)
(***************************************************************************)
VerdictOptimistic(diffs, ran) ==  \* mutant of Verdict: a clean structure is enough
  IF Has(diffs, "fatal") THEN "not_equivalent"
  ELSE IF Has(diffs, "major")
       THEN IF ran THEN "not_equivalent" ELSE "likely_not_equivalent"
  ELSE "equivalent"

VerdictUnknown(diffs, ran) ==  \* mutant of Verdict: undecided without an execution
  IF Has(diffs, "fatal") THEN "not_equivalent"
  ELSE IF ~ ran THEN "unknown"
  ELSE IF Has(diffs, "major") THEN "not_equivalent"
  ELSE "equivalent"

Verdict(diffs, ran) ==
  IF Has(diffs, "fatal") THEN "not_equivalent"
  ELSE IF Has(diffs, "major")
       THEN IF ran THEN "not_equivalent" ELSE "likely_not_equivalent"
  ELSE IF ran THEN "equivalent"
  ELSE "likely_equivalent"

(***************************************************************************)
(* The exit code of `verisql diff`.                                        *)
(***************************************************************************)
DiffExit(v) == IF v \in {"equivalent", "likely_equivalent"} THEN 0 ELSE 1

-----------------------------------------------------------------------------
Init ==
  /\ pair \in Pairs
  /\ connector \in BOOLEAN
  /\ full \in Results
  /\ stage = "structure"
  /\ differences = <<>>
  /\ executed = FALSE
  /\ old_rows = <<>> /\ new_rows = <<>>
  /\ verdict = "unknown"
  /\ quiet = TRUE

CompareStructure ==
  /\ stage = "structure"
  /\ differences' = StructuralDifferences(pair[1], pair[2])
  /\ stage' = IF connector /\ ~ Has(differences', "fatal") THEN "old" ELSE "finalize"
  /\ UNCHANGED <<pair, connector, full, executed, old_rows, new_rows, verdict, quiet>>

(***************************************************************************)
(* Whoever else writes to a database the statements read.                  *)
(***************************************************************************)
DataChanges ==
  /\ stage \in {"old", "new"}
  /\ full' \in Results \ {full}
  /\ quiet' = (quiet /\ stage = "old")
  /\ UNCHANGED <<pair, connector, stage, differences, executed, old_rows, new_rows, verdict>>

(***************************************************************************)
(* What execute_readonly may return of a result that has no order: all of  *)
(* it, or any SampleRows of its rows.  A LIMIT switches the cap off.  The  *)
(* guard of the connector lets nothing through that writes.                *)
(***************************************************************************)
Whole(i) == Len(full[i]) <= SampleRows \/ pair[i].limited

Fetched(i) ==
  LET rows == full[i]
  IN
  IF Whole(i) THEN {rows}
  ELSE {[n \in 1 .. SampleRows |-> rows[pick[n]]] :
          pick \in {f \in [1 .. SampleRows -> 1 .. Len(rows)] :
                      \A m, n \in 1 .. SampleRows : m < n => f[m] < f[n]}}

ExecuteOld ==
  /\ stage = "old"
  /\ pair[1].kind = "query"
  /\ old_rows' \in Fetched(1)
  /\ stage' = "new"
  /\ UNCHANGED <<pair, connector, full, differences, executed, new_rows, verdict, quiet>>

ExecuteNew ==
  /\ stage = "new"
  /\ pair[2].kind = "query"
  /\ new_rows' \in Fetched(2)
  /\ stage' = "compare"
  /\ UNCHANGED <<pair, connector, full, differences, executed, old_rows, verdict, quiet>>

(***************************************************************************)
(* Either execution may raise: a fatal difference, and nothing executed.   *)
(***************************************************************************)
ExecutionIgnored ==  \* mutant of ExecutionRaises: an empty result in place of the error
  /\ stage \in {"old", "new"}
  /\ stage' = "compare"
  /\ old_rows' = <<>> /\ new_rows' = <<>>
  /\ UNCHANGED <<pair, connector, full, differences, executed, verdict, quiet>>

ExecutionRaises ==
  /\ stage \in {"old", "new"}
  /\ differences' = Append(differences, Diff("data", "fatal"))
  /\ stage' = "finalize"
  /\ UNCHANGED <<pair, connector, full, executed, old_rows, new_rows, verdict, quiet>>

RetryOnDifference ==  \* mutant of CompareResults: runs both again when they differ
  /\ stage = "compare"
  /\ executed' = TRUE
  /\ differences' = differences
  /\ stage' = IF DataDifferences(old_rows, new_rows) = <<>> THEN "finalize" ELSE "old"
  /\ UNCHANGED <<pair, connector, full, old_rows, new_rows, verdict, quiet>>

CompareResults ==
  /\ stage = "compare"
  /\ executed' = TRUE
  /\ differences' = differences \o DataDifferences(old_rows, new_rows)
  /\ stage' = "finalize"
  /\ UNCHANGED <<pair, connector, full, old_rows, new_rows, verdict, quiet>>

Finalize ==
  /\ stage = "finalize"
  /\ verdict' = Verdict(differences, executed)
  /\ stage' = "done"
  /\ UNCHANGED <<pair, connector, full, differences, executed, old_rows, new_rows, quiet>>

Call == CompareStructure \/ ExecuteOld \/ ExecuteNew \/ ExecutionRaises \/ CompareResults \/ Finalize

Next == DataChanges \/ Call

(***************************************************************************)
(* Writers may write for ever; the call goes on all the same, given that   *)
(* the database answers or raises.                                         *)
(***************************************************************************)
Spec == Init /\ [][Next]_vars /\ WF_vars(Call)

-----------------------------------------------------------------------------
(***************************************************************************)
(* The type invariant of a comparison; a finished one has a verdict.       *)
(***************************************************************************)
TypeOK ==
  /\ pair \in Tree \X Tree
  /\ connector \in BOOLEAN
  /\ full \in Result \X Result
  /\ stage \in {"structure", "old", "new", "compare", "finalize", "done"}
  /\ differences \in Seq(Difference)
  /\ executed \in BOOLEAN
  /\ old_rows \in Result /\ new_rows \in Result
  /\ verdict \in IF stage = "done"
                 THEN {"equivalent", "likely_equivalent", "likely_not_equivalent", "not_equivalent"}
                 ELSE {"unknown"}
  /\ quiet \in BOOLEAN

(***************************************************************************)
(* The comfort of a verdict is earned: "equivalent" only for two queries   *)
(* that were run and have shown the same rows, "likely_equivalent" only    *)
(* without a database.  A translation that adds, loses or renames a        *)
(* column, that has another filter, or a join or a group more or less, is  *)
(* never passed, nor is one that could not be run.                         *)
(***************************************************************************)
SameSignatures ==
  LET old == pair[1]
      new == pair[2]
  IN  /\ old.parses /\ new.parses
      /\ Elements(ProjectionNames(old)) = Elements(ProjectionNames(new))
      /\ NormalizedWhere(old) = NormalizedWhere(new)
      /\ JoinSignature(old) = JoinSignature(new)
      /\ GroupBySignature(old) = GroupBySignature(new)

EquivalentIsProven ==
  stage = "done" /\ DiffExit(verdict) = 0 =>
    /\ SameSignatures
    /\ verdict = "equivalent" <=> connector
    /\ connector => /\ pair[1].kind = "query" /\ pair[2].kind = "query"
                    /\ Fingerprint(old_rows) = Fingerprint(new_rows)

(***************************************************************************)
(* The results decide, as long as nobody writes between the executions and *)
(* both are fetched whole: "equivalent" means that the statements return   *)
(* the same rows, and trees that agree are found not equivalent only if    *)
(* they return different ones, or if an execution failed.                  *)
(***************************************************************************)
SameRows(old, new) ==
  /\ Len(old) = Len(new)
  /\ \E p \in [DOMAIN old -> DOMAIN new] :
       /\ \A i, j \in DOMAIN old : p[i] = p[j] => i = j
       /\ \A i \in DOMAIN old : old[i] = new[p[i]]

GroundTruth ==
  stage = "done" /\ quiet /\ Whole(1) /\ Whole(2) =>
    /\ verdict = "equivalent" => SameRows(full[1], full[2])
    /\ verdict = "not_equivalent" /\ executed /\ SameSignatures =>
         ~ SameRows(full[1], full[2])

(***************************************************************************)
(* Every comparison ends with a verdict, however busy the writers are.     *)
(***************************************************************************)
ComparisonEnds == <>(stage = "done")

=============================================================================
