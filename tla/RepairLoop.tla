----------------------------- MODULE RepairLoop -----------------------------
(***************************************************************************)
(* verify_and_repair: verify, rewrite the tree, verify again, for at most  *)
(* max_rounds rounds (src/src/verisql/repair.py), with the checks the      *)
(* rewrites answer to: null_semantics, timestamp_equality, filter_required.*)
(*                                                                         *)
(* A statement is abstracted to the conjuncts of its WHERE that a check or *)
(* a rewrite looks at.  The rewrites are pure; what the database answers   *)
(* may be different each time the statement is verified.                   *)
(***************************************************************************)
EXTENDS Report, SequencesExt

CONSTANTS
  Columns,     \* the columns of the statement, by their SQL text
  Calls,       \* the calls of verify_and_repair, a set of Call records
  Answers      \* the flags a database may add to one verification

(***************************************************************************)
(* The query of a NOT IN: what it projects, the SQL text of that column,   *)
(* its WHERE as a sequence of disjuncts (none: no WHERE), each a sequence  *)
(* of conjuncts, and whether it reads a large table without a LIMIT.       *)
(***************************************************************************)
Subquery == [projection : {"column", "expression"}, column : Columns,
             where : Seq(Seq({"filter", "not_null"})), large : BOOLEAN]

(***************************************************************************)
(* A conjunct.  "is_null", "is_not_null" and "is_true" are IS predicates   *)
(* the author wrote; "neq_or_null" and "range" are what rewrites leave; a  *)
(* bad timestamp is one whose literal is no date, such as 2026-02-31.      *)
(***************************************************************************)
Atom ==
  [kind : {"not_in_list", "not_in_list_with_null", "neq", "neq_or_null", "is_null", "is_not_null",
           "is_true", "timestamp_equality", "bad_timestamp_equality", "range", "filter"},
   column : Columns]
  \cup [kind : {"not_in_query"}, column : Columns, query : Subquery]

Statement == [parses : BOOLEAN, where : Seq(Atom)]

(***************************************************************************)
(* others: the flags of the checks no rewrite has an influence on, by      *)
(* their place in DEFAULT_CHECKS: before null_semantics (cartesian_join),  *)
(* between timestamp_equality and filter_required (pii_access,             *)
(* required_filter), or after it (date_coverage).                          *)
(***************************************************************************)
Others == [before : Seq(Finding), between : Seq(Finding), after : Seq(Finding)]

Call == [sql : Statement, others : Others, connector : BOOLEAN, max_rounds : Nat]

(***************************************************************************)
(* What a database adds: schema_existence comes before the checks above,   *)
(* explain_plan, zero_row and business_invariant come after them.          *)
(***************************************************************************)
Answer == [before : Seq(Finding), after : Seq(Finding)]

NoOthers == [before |-> <<>>, between |-> <<>>, after |-> <<>>]
Silent == [before |-> <<>>, after |-> <<>>]

ASSUME CallsAssumption == Calls \subseteq Call
ASSUME AnswersAssumption == Answers \subseteq Answer

VARIABLES
  call,          \* the arguments, fixed
  current,       \* the statement the loop works on
  round_no,      \* result.rounds
  repairs,       \* result.repairs, by rule
  final_report,  \* result.final_report
  final_sql,     \* result.final_sql
  verified,      \* result.verified
  escalate,      \* result.escalate
  phase,         \* "verify", "repair", "final", "returned" or "raised"
  judged         \* history: the statements verified so far

vars == <<call, current, round_no, repairs, final_report, final_sql, verified, escalate, phase,
          judged>>

-----------------------------------------------------------------------------
(***************************************************************************)
(* NullSemanticsCheck._subquery_null_safe: some NOT .. IS NULL on the      *)
(* projected column occurs somewhere in the subquery's WHERE.              *)
(***************************************************************************)
SubqueryNullSafe(q) ==
  q.projection = "column" /\ \E i \in DOMAIN q.where : "not_null" \in ToSet(q.where[i])

(***************************************************************************)
(* The columns some IS NULL refers to, inside a subquery or outside.       *)
(***************************************************************************)
NullTested(where) ==
  {a.column : a \in {b \in ToSet(where) : b.kind \in {"is_null", "is_not_null", "neq_or_null"}}}
  \cup {a.query.column : a \in {b \in ToSet(where) :
          b.kind = "not_in_query" /\ \E i \in DOMAIN b.query.where :
                                       "not_null" \in ToSet(b.query.where[i])}}

(***************************************************************************)
(* _has_null_guard asks for IS NULL; the rewrite's own guard accepts any   *)
(* IS predicate.                                                           *)
(***************************************************************************)
AnyIs(where) ==
  NullTested(where) \cup {a.column : a \in {b \in ToSet(where) : b.kind = "is_true"}}

NotInOffender(a, where) ==
  /\ a.column \notin NullTested(where)
  /\ \/ a.kind = "not_in_list_with_null"
     \/ a.kind = "not_in_query" /\ ~ SubqueryNullSafe(a.query)

NeqOffender(a, where) ==
  a.kind = "neq" /\ a.column \notin NullTested(where)

TimestampOffender(a) == a.kind \in {"timestamp_equality", "bad_timestamp_equality"}

UnboundedSubquery(a) == a.kind = "not_in_query" /\ a.query.large /\ a.query.where = <<>>

FlagIf(condition, check, severity) ==
  IF condition THEN <<Flag(check, severity)>> ELSE <<>>

(***************************************************************************)
(* verify on one statement, given the answers of the database.  The order  *)
(* is that of the checks: a warning asks for a review only if what was     *)
(* deducted before it has brought the confidence low enough.               *)
(***************************************************************************)
ReportOn(sql, others, answer) ==
  IF ~ sql.parses THEN Add(EmptyReport, <<Flag("ast_parse", "critical")>>)
  ELSE LET atoms == ToSet(sql.where)
       IN  Add(EmptyReport,
               answer.before \o others.before
               \o FlagIf(\E a \in atoms : NotInOffender(a, sql.where), "null_semantics", "error")
               \o FlagIf(\E a \in atoms : NeqOffender(a, sql.where), "null_semantics", "warn")
               \o FlagIf(\E a \in atoms : TimestampOffender(a), "timestamp_equality", "error")
               \o others.between
               \o [n \in 1 .. Quantify(DOMAIN sql.where, LAMBDA i : UnboundedSubquery(sql.where[i])) |->
                     Flag("filter_required", "error")]
               \o others.after \o answer.after)

CleanReport(report) == ~ HasBlocking(report) /\ ~ report.suggested_review

-----------------------------------------------------------------------------
(***************************************************************************)
(* _fix_not_in_null drops the NULLs of a list, and appends a guard to the  *)
(* query of every NOT IN that projects one column, guarded or not.  The    *)
(* new AND is not parenthesised: read again it binds to the last disjunct. *)
(***************************************************************************)
GuardOverwrites(q) == <<<<"filter">>>>  \* mutant of GuardAppended: replaces the WHERE, guards the alias

GuardAppended(q) ==
  IF q.where = <<>> THEN <<<<"not_null">>>>
  ELSE [q.where EXCEPT ![Len(q.where)] = Append(@, "not_null")]

FixesAnyList(a) ==  \* mutant of FixesNotIn: records a repair for a list without NULL too
  a.kind \in {"not_in_list", "not_in_list_with_null"}

FixesNotIn(a) ==
  \/ a.kind = "not_in_list_with_null"
  \/ a.kind = "not_in_query" /\ a.query.projection = "column"

FixNotIn(a) ==
  IF a.kind = "not_in_list_with_null" THEN [a EXCEPT !.kind = "not_in_list"]
  ELSE IF a.kind = "not_in_query" /\ FixesNotIn(a)
       THEN [a EXCEPT !.query.where = GuardAppended(a.query)]
  ELSE a

FixTimestamp(a) == IF a.kind = "timestamp_equality" THEN [a EXCEPT !.kind = "range"] ELSE a

(***************************************************************************)
(* _fix_neq_null_drop, with the columns some IS already referred to.       *)
(***************************************************************************)
FixesNeq(a, guarded) == a.kind = "neq" /\ a.column \notin guarded

FixNeq(a, guarded) == IF FixesNeq(a, guarded) THEN [a EXCEPT !.kind = "neq_or_null"] ELSE a

Map(f(_), where) == [i \in DOMAIN where |-> f(where[i])]

Rules(rule, test(_), where) ==
  [n \in 1 .. Quantify(DOMAIN where, LAMBDA i : test(where[i])) |-> rule]

(***************************************************************************)
(* repair_sql: the three rewrites in their order.  Each works on conjuncts *)
(* of its own; but the guards the first one adds are there when the last   *)
(* looks for columns that are guarded already.  date.fromisoformat raises  *)
(* on a bad literal, and nothing between it and the caller catches that.   *)
(***************************************************************************)
RepairRaises(sql) ==
  sql.parses /\ \E a \in ToSet(sql.where) : a.kind = "bad_timestamp_equality"

RepairSqlOneRule(sql) ==  \* mutant of RepairSql: returns after the first rule that applied
  LET lists == Map(FixNotIn, sql.where)
      times == Map(FixTimestamp, sql.where)
  IN  IF lists # sql.where THEN [sql |-> [sql EXCEPT !.where = lists], repairs |-> <<"not_in_null">>]
      ELSE IF times # sql.where THEN [sql |-> [sql EXCEPT !.where = times], repairs |-> <<"timestamp_equality">>]
      ELSE [sql |-> sql, repairs |-> <<>>]

RepairSql(sql) ==
  IF ~ sql.parses THEN [sql |-> sql, repairs |-> <<>>]
  ELSE LET guarded == AnyIs(Map(FixNotIn, sql.where))
           Rewrite(a) == FixNeq(FixTimestamp(FixNotIn(a)), guarded)
           IsNeq(a) == FixesNeq(a, guarded)
       IN  [sql     |-> [sql EXCEPT !.where = Map(Rewrite, sql.where)],
            repairs |-> Rules("not_in_null", FixesNotIn, sql.where)
                        \o Rules("timestamp_equality", TimestampOffender, sql.where)
                        \o Rules("neq_null_drop", IsNeq, sql.where)]

-----------------------------------------------------------------------------
Init ==
  /\ call \in Calls
  /\ current = call.sql
  /\ round_no = 0
  /\ repairs = <<>>
  /\ final_report = EmptyReport
  /\ final_sql = call.sql
  /\ verified = FALSE
  /\ escalate = FALSE
  /\ phase = "verify"
  /\ judged = <<>>

Verification ==
  /\ final_report' \in {ReportOn(current, call.others, answer) :
                          answer \in IF call.connector THEN Answers ELSE {Silent}}
  /\ judged' = Append(judged, current)

(***************************************************************************)
(* The head of a round: a clean report ends the loop with this statement.  *)
(***************************************************************************)
VerifyRoundUnlimited ==  \* mutant of VerifyRound: the limit is not looked at
  /\ phase = "verify"
  /\ round_no' = round_no + 1
  /\ Verification
  /\ phase' = IF CleanReport(final_report') THEN "returned" ELSE "repair"
  /\ UNCHANGED <<call, current, repairs, final_sql, verified, escalate>>

VerifyRound ==
  /\ phase = "verify"
  /\ round_no < call.max_rounds
  /\ round_no' = round_no + 1
  /\ Verification
  /\ IF CleanReport(final_report')
     THEN /\ phase' = "returned"
          /\ final_sql' = current
          /\ verified' = TRUE
     ELSE /\ phase' = "repair"
          /\ UNCHANGED <<final_sql, verified>>
  /\ UNCHANGED <<call, current, repairs, escalate>>

RoundsExceeded ==  \* mutant of RoundsExhausted: off by one
  /\ phase = "verify"
  /\ round_no > call.max_rounds
  /\ phase' = "final"
  /\ UNCHANGED <<call, current, round_no, repairs, final_report, final_sql, verified, escalate, judged>>

RoundsExhausted ==
  /\ phase = "verify"
  /\ round_no = call.max_rounds
  /\ phase' = "final"
  /\ UNCHANGED <<call, current, round_no, repairs, final_report, final_sql, verified, escalate, judged>>

(***************************************************************************)
(* The rest of a round: without a rewrite the loop breaks.                 *)
(***************************************************************************)
RepairRoundGivesUp ==  \* mutant of RepairRound: the loop ends after its first rewrite
  /\ phase = "repair"
  /\ ~ RepairRaises(current)
  /\ phase' = "final"
  /\ UNCHANGED <<call, current, round_no, repairs, final_report, final_sql, verified, escalate, judged>>

RepairRound ==
  /\ phase = "repair"
  /\ ~ RepairRaises(current)
  /\ \E done \in {RepairSql(current)} :
         IF done.repairs = <<>>
         THEN phase' = "final" /\ UNCHANGED <<current, repairs>>
         ELSE /\ phase' = "verify"
              /\ repairs' = repairs \o done.repairs
              /\ current' = done.sql
  /\ UNCHANGED <<call, round_no, final_report, final_sql, verified, escalate, judged>>

RepairFails ==
  /\ phase = "repair"
  /\ RepairRaises(current)
  /\ phase' = "raised"
  /\ UNCHANGED <<call, current, round_no, repairs, final_report, final_sql, verified, escalate, judged>>

(***************************************************************************)
(* After the loop the statement is verified once more and that decides.    *)
(***************************************************************************)
FinalVerifySkipped ==  \* mutant of FinalVerify: the report of the last round stands
  /\ phase = "final"
  /\ final_sql' = current
  /\ escalate' = TRUE
  /\ phase' = "returned"
  /\ UNCHANGED <<call, current, round_no, repairs, final_report, verified, judged>>

FinalVerify ==
  /\ phase = "final"
  /\ Verification
  /\ final_sql' = current
  /\ verified' = CleanReport(final_report')
  /\ escalate' = ~ verified'
  /\ phase' = "returned"
  /\ UNCHANGED <<call, current, round_no, repairs>>

Next == VerifyRound \/ RoundsExhausted \/ RepairRound \/ RepairFails \/ FinalVerify

(***************************************************************************)
(* A straight-line call, given that the database answers or raises.        *)
(***************************************************************************)
Spec == Init /\ [][Next]_vars /\ WF_vars(Next)

-----------------------------------------------------------------------------
(***************************************************************************)
(* The type invariant of the loop.                                         *)
(***************************************************************************)
TypeOK ==
  /\ call \in Call
  /\ current \in Statement
  /\ round_no \in 0 .. call.max_rounds
  /\ repairs \in Seq({"not_in_null", "timestamp_equality", "neq_null_drop"})
  /\ final_report.confidence \in Doubles
  /\ final_sql \in Statement
  /\ verified \in BOOLEAN /\ escalate \in BOOLEAN
  /\ phase \in {"verify", "repair", "final", "returned", "raised"}
  /\ judged \in Seq(Statement)

(***************************************************************************)
(* The result speaks of one statement: the report handed out is the one of *)
(* the SQL handed out, and verified and escalate are its two outcomes.  A  *)
(* verified statement compares no timestamp with a bare date and has no    *)
(* NOT IN that null_semantics reports; one that an IS NULL on its column   *)
(* hides may be left (RemainingDefectEscalates).  A != that loses NULLs is *)
(* only a warning and may be handed out as verified at the first look; but *)
(* once anything was rewritten, none is left whose column no IS refers to. *)
(***************************************************************************)
ResultIsConsistent ==
  phase = "returned" =>
    /\ judged # <<>> /\ Last(judged) = final_sql
    /\ verified <=> CleanReport(final_report)
    /\ escalate <=> ~ verified
    /\ verified =>
         /\ final_sql.parses
         /\ \A a \in ToSet(final_sql.where) :
              ~ TimestampOffender(a) /\ ~ NotInOffender(a, final_sql.where)
    /\ repairs # <<>> =>
         \A a \in ToSet(final_sql.where) : a.kind = "neq" => a.column \in AnyIs(final_sql.where)

(***************************************************************************)
(* The audit trail of the repairs is complete: the statement differs from  *)
(* the one submitted exactly if some repair is recorded, and one that is   *)
(* clean at the first look is handed back as it came.                      *)
(***************************************************************************)
RewritesAreRecorded ==
  /\ current = call.sql <=> repairs = <<>>
  /\ Len(judged) = 1 /\ verified => final_sql = call.sql

(***************************************************************************)
(* The loop gives up only when it must: every escalation has used up its   *)
(* rounds, or nothing deterministic is left to fix.  The statement is      *)
(* verified at most max_rounds + 1 times.                                  *)
(***************************************************************************)
EscalationIsExhausted ==
  /\ phase = "returned" /\ escalate =>
       round_no = call.max_rounds \/ RepairSql(final_sql).repairs = <<>>
  /\ Len(judged) <= call.max_rounds + 1

(***************************************************************************)
(* The checks a statement fails without the help of a database.            *)
(***************************************************************************)
Failing(sql) ==
  LET flags == ReportOn(sql, NoOthers, Silent).flags
  IN  {<<flags[i].check, flags[i].severity>> : i \in DOMAIN flags}

(***************************************************************************)
(* A rewrite never makes a statement fail a check it passed.               *)
(***************************************************************************)
RewriteAddsNoFinding == [][Failing(current') \subseteq Failing(current)]_vars

(***************************************************************************)
(* One round of rewrites is enough: after it, later rounds only append     *)
(* guards to the queries of NOT INs, and every other conjunct is settled.  *)
(***************************************************************************)
OneRoundSettles ==
  [][current' # current /\ repairs # <<>> =>
       \A i \in DOMAIN current.where :
         current.where[i].kind # "not_in_query" => current'.where[i] = current.where[i]]_vars

(***************************************************************************)
(* However the database answers, the call ends: with a result, or with the *)
(* exception of a literal that is no date.                                 *)
(***************************************************************************)
CallEnds == <>(phase \in {"returned", "raised"})

(***************************************************************************)
(* A NOT IN whose query may yield a NULL, which empties the whole result.  *)
(***************************************************************************)
CanYieldNull(q) ==
  \/ q.projection = "expression"
  \/ q.where = <<>>
  \/ \E i \in DOMAIN q.where : "not_null" \notin ToSet(q.where[i])

(***************************************************************************)
(* repair.py:41 sets escalate "when issues remain that we can't auto-fix". *)
(* Refuted: no rewrite touches a NOT IN over an expression, but the IS     *)
(* NULL that the != rewrite adds for the same column silences the check    *)
(* that has reported it, and the statement is handed out as verified.      *)
(***************************************************************************)
RemainingDefectEscalates ==
  (/\ phase = "returned"
   /\ \E a \in ToSet(call.sql.where) :
        /\ NotInOffender(a, call.sql.where)
        /\ a \in ToSet(final_sql.where)
        /\ a.kind = "not_in_query" /\ CanYieldNull(a.query))
  => escalate

=============================================================================
