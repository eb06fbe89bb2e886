-------------------------- MODULE RepairLoopProofs --------------------------
(***************************************************************************)
(* What is proved of RepairLoop, for all statements, numbers of rounds and *)
(* answers of the database.                                                *)
(***************************************************************************)
EXTENDS RepairLoop, ReportProofs, FiniteSetTheorems, SequenceTheorems

(***************************************************************************)
(* The flags a statement raises of itself, by check.                       *)
(***************************************************************************)
NotInFlags(sql) ==
  FlagIf(\E a \in ToSet(sql.where) : NotInOffender(a, sql.where), "null_semantics", "error")
NeqFlags(sql) ==
  FlagIf(\E a \in ToSet(sql.where) : NeqOffender(a, sql.where), "null_semantics", "warn")
TimestampFlags(sql) ==
  FlagIf(\E a \in ToSet(sql.where) : TimestampOffender(a), "timestamp_equality", "error")
UnboundedFlags(sql) ==
  [n \in 1 .. Quantify(DOMAIN sql.where, LAMBDA i : UnboundedSubquery(sql.where[i])) |->
     Flag("filter_required", "error")]

Own(sql) == ToSet(NotInFlags(sql)) \cup ToSet(NeqFlags(sql)) \cup ToSet(TimestampFlags(sql))
            \cup ToSet(UnboundedFlags(sql))

LEMMA FlagType ==
  ASSUME NEW check \in CheckName, NEW severity \in Severity
  PROVE  Flag(check, severity) \in Finding
  BY DEF Flag, Finding

LEMMA Singleton ==
  ASSUME NEW S, NEW f \in S
  PROVE  <<f>> \in Seq(S) /\ ToSet(<<f>>) = {f}
  <1>1. <<f>> \in Seq(S) /\ DOMAIN <<f>> = {1} /\ <<f>>[1] = f
    OBVIOUS
  <1> QED
    BY <1>1 DEF ToSet

LEMMA EmptySequence ==
  ASSUME NEW S
  PROVE  <<>> \in Seq(S) /\ ToSet(<<>>) = {}
  <1>1. <<>> \in Seq(S) /\ DOMAIN <<>> = {}
    OBVIOUS
  <1> QED
    BY <1>1 DEF ToSet

LEMMA FlagIfType ==
  ASSUME NEW condition, NEW check \in CheckName, NEW severity \in Severity
  PROVE  /\ FlagIf(condition, check, severity) \in Seq(Finding)
         /\ condition => ToSet(FlagIf(condition, check, severity)) = {Flag(check, severity)}
  <1> DEFINE f == Flag(check, severity)
  <1>1. f \in Finding
    BY FlagType
  <1>2. FlagIf(condition, check, severity) = IF condition THEN <<f>> ELSE <<>>
    BY DEF FlagIf
  <1> HIDE DEF f
  <1>3. /\ <<f>> \in Seq(Finding) /\ ToSet(<<f>>) = {f}
        /\ <<>> \in Seq(Finding)
    BY <1>1, Singleton, EmptySequence
  <1>4. /\ FlagIf(condition, check, severity) \in Seq(Finding)
        /\ condition => ToSet(FlagIf(condition, check, severity)) = {f}
    BY <1>2, <1>3
  <1> QED
    BY <1>4 DEF f

(***************************************************************************)
(* A test holds of a natural number of conjuncts, and of none exactly if   *)
(* there is no such conjunct.                                              *)
(***************************************************************************)
LEMMA CountType ==
  ASSUME NEW S, NEW where \in Seq(S), NEW T \in SUBSET DOMAIN where
  PROVE  Cardinality(T) \in Nat
  <1>1. DOMAIN where = 1 .. Len(where) /\ Len(where) \in Nat
    OBVIOUS
  <1>2. IsFiniteSet(1 .. Len(where))
    BY <1>1, FS_Interval
  <1>3. IsFiniteSet(T)
    BY <1>1, <1>2, FS_Subset
  <1> QED
    BY <1>3, FS_CardinalityType

LEMMA UnboundedType ==
  ASSUME NEW sql \in Statement
  PROVE  /\ UnboundedFlags(sql) \in Seq(Finding)
         /\ ToSet(UnboundedFlags(sql)) \subseteq {Flag("filter_required", "error")}
  <1> DEFINE n == Quantify(DOMAIN sql.where, LAMBDA i : UnboundedSubquery(sql.where[i]))
  <1>1. n \in Nat
    <2>1. sql.where \in Seq(Atom)
      BY DEF Statement
    <2>2. {i \in DOMAIN sql.where : UnboundedSubquery(sql.where[i])} \in SUBSET DOMAIN sql.where
      OBVIOUS
    <2> QED
      BY <2>1, <2>2, CountType DEF Quantify
  <1>2. Flag("filter_required", "error") \in Finding
    <2>1. "filter_required" \in CheckName /\ "error" \in Severity
      BY DEF CheckName, Severity
    <2> QED
      BY <2>1, FlagType
  <1>3. UnboundedFlags(sql) = [k \in 1 .. n |-> Flag("filter_required", "error")]
    BY DEF UnboundedFlags
  <1> DEFINE f == Flag("filter_required", "error")
  <1> HIDE DEF n, f
  <1>4. [k \in 1 .. n |-> f] \in Seq(Finding) /\ ToSet([k \in 1 .. n |-> f]) \subseteq {f}
    <2>1. [k \in 1 .. n |-> f] \in [1 .. n -> Finding]
      BY <1>2 DEF f
    <2>2. [k \in 1 .. n |-> f] \in Seq(Finding)
      BY <1>1, <2>1, SeqDef
    <2> QED
      BY <2>2 DEF ToSet
  <1>5. UnboundedFlags(sql) = [k \in 1 .. n |-> f]
    BY <1>3 DEF f
  <1>6. UnboundedFlags(sql) \in Seq(Finding) /\ ToSet(UnboundedFlags(sql)) \subseteq {f}
    BY <1>4, <1>5
  <1> QED
    BY <1>6 DEF f

LEMMA OwnFlags ==
  ASSUME NEW sql
  PROVE  /\ NotInFlags(sql) \in Seq(Finding)
         /\ NeqFlags(sql) \in Seq(Finding)
         /\ TimestampFlags(sql) \in Seq(Finding)
         /\ (\E a \in ToSet(sql.where) : NotInOffender(a, sql.where)) =>
              Flag("null_semantics", "error") \in ToSet(NotInFlags(sql))
         /\ (\E a \in ToSet(sql.where) : TimestampOffender(a)) =>
              Flag("timestamp_equality", "error") \in ToSet(TimestampFlags(sql))
  <1> DEFINE p == \E a \in ToSet(sql.where) : NotInOffender(a, sql.where)
             q == \E a \in ToSet(sql.where) : NeqOffender(a, sql.where)
             t == \E a \in ToSet(sql.where) : TimestampOffender(a)
  <1>1. /\ NotInFlags(sql) = FlagIf(p, "null_semantics", "error")
        /\ NeqFlags(sql) = FlagIf(q, "null_semantics", "warn")
        /\ TimestampFlags(sql) = FlagIf(t, "timestamp_equality", "error")
    BY DEF NotInFlags, NeqFlags, TimestampFlags
  <1>2. "null_semantics" \in CheckName /\ "timestamp_equality" \in CheckName
    BY DEF CheckName
  <1>3. "error" \in Severity /\ "warn" \in Severity
    BY DEF Severity
  <1> HIDE DEF p, q, t
  <1>4. /\ FlagIf(p, "null_semantics", "error") \in Seq(Finding)
        /\ FlagIf(q, "null_semantics", "warn") \in Seq(Finding)
        /\ FlagIf(t, "timestamp_equality", "error") \in Seq(Finding)
        /\ p => ToSet(FlagIf(p, "null_semantics", "error")) = {Flag("null_semantics", "error")}
        /\ t => ToSet(FlagIf(t, "timestamp_equality", "error")) = {Flag("timestamp_equality", "error")}
    BY <1>2, <1>3, FlagIfType
  <1>5. /\ p => Flag("null_semantics", "error") \in ToSet(NotInFlags(sql))
        /\ t => Flag("timestamp_equality", "error") \in ToSet(TimestampFlags(sql))
    BY <1>1, <1>4
  <1> QED
    BY <1>1, <1>4, <1>5 DEF p, t

LEMMA FindingsOfThree ==
  ASSUME NEW a \in Seq(Finding), NEW b \in Seq(Finding), NEW c \in Seq(Finding)
  PROVE  /\ a \o b \o c \in Seq(Finding)
         /\ ToSet(a \o b \o c) = ToSet(a) \cup ToSet(b) \cup ToSet(c)
  <1> DEFINE d == a \o b
  <1>1. d \in Seq(Finding) /\ ToSet(d) = ToSet(a) \cup ToSet(b)
    BY FindingsOfConcat
  <1> HIDE DEF d
  <1>2. d \o c \in Seq(Finding) /\ ToSet(d \o c) = ToSet(d) \cup ToSet(c)
    BY <1>1, FindingsOfConcat
  <1> QED
    BY <1>1, <1>2 DEF d

(***************************************************************************)
(* What other checks and the database have to say.                         *)
(***************************************************************************)
Foreign(others, answer) ==
  ToSet(answer.before) \cup ToSet(others.before) \cup ToSet(others.between)
  \cup ToSet(others.after) \cup ToSet(answer.after)

LEMMA Quiet == NoOthers \in Others /\ Silent \in Answer /\ Foreign(NoOthers, Silent) = {}
  <1>1. <<>> \in Seq(Finding) /\ ToSet(<<>>) = {}
    BY EmptySequence
  <1> QED
    BY <1>1 DEF NoOthers, Silent, Others, Answer, Foreign

(***************************************************************************)
(* A report on a statement that parses: the flags it holds, and the review *)
(* its errors ask for.                                                     *)
(***************************************************************************)
LEMMA ReportFlags ==
  ASSUME NEW sql \in Statement, sql.parses, NEW others \in Others, NEW answer \in Answer
  PROVE  LET report == ReportOn(sql, others, answer)
         IN  /\ report.flags \in Seq(Finding)
             /\ ToSet(report.flags) = Foreign(others, answer) \cup Own(sql)
             /\ (\E f \in ToSet(report.flags) : f.severity \in {"error", "critical"})
                  => report.suggested_review
             /\ report.flags = <<>> => ~ report.suggested_review
  <1> DEFINE a == NotInFlags(sql)
             b == NeqFlags(sql)
             c == TimestampFlags(sql)
             d == UnboundedFlags(sql)
             p == answer.before
             q == others.before
             r == others.between
             x == others.after
             y == answer.after
             fs == p \o q \o a \o b \o c \o r \o d \o x \o y
             report == ReportOn(sql, others, answer)
  <1>1. report = Add(EmptyReport, fs)
    BY DEF ReportOn, NotInFlags, NeqFlags, TimestampFlags, UnboundedFlags
  <1>2. a \in Seq(Finding) /\ b \in Seq(Finding) /\ c \in Seq(Finding)
    BY OwnFlags
  <1>3. d \in Seq(Finding)
    BY UnboundedType
  <1>4. Own(sql) = ToSet(a) \cup ToSet(b) \cup ToSet(c) \cup ToSet(d)
    BY DEF Own
  <1>5. /\ p \in Seq(Finding) /\ q \in Seq(Finding) /\ r \in Seq(Finding)
        /\ x \in Seq(Finding) /\ y \in Seq(Finding)
    BY DEF Others, Answer
  <1>6. Foreign(others, answer) = ToSet(p) \cup ToSet(q) \cup ToSet(r) \cup ToSet(x) \cup ToSet(y)
    BY DEF Foreign
  <1> DEFINE s1 == p \o q \o a
             s2 == s1 \o b \o c
             s3 == s2 \o r \o d
  <1> HIDE DEF a, b, c, d, p, q, r, x, y
  <1>7. s1 \in Seq(Finding) /\ ToSet(s1) = ToSet(p) \cup ToSet(q) \cup ToSet(a)
    BY <1>2, <1>5, FindingsOfThree
  <1> HIDE DEF s1
  <1>8. s2 \in Seq(Finding) /\ ToSet(s2) = ToSet(s1) \cup ToSet(b) \cup ToSet(c)
    BY <1>2, <1>7, FindingsOfThree
  <1> HIDE DEF s2
  <1>9. s3 \in Seq(Finding) /\ ToSet(s3) = ToSet(s2) \cup ToSet(r) \cup ToSet(d)
    BY <1>3, <1>5, <1>8, FindingsOfThree
  <1> HIDE DEF s3
  <1>10. /\ s3 \o x \o y \in Seq(Finding)
         /\ ToSet(s3 \o x \o y) = ToSet(s3) \cup ToSet(x) \cup ToSet(y)
    BY <1>5, <1>9, FindingsOfThree
  <1>11. fs \in Seq(Finding) /\ ToSet(fs) = Foreign(others, answer) \cup Own(sql)
    <2>1. fs = s3 \o x \o y
      BY DEF s1, s2, s3
    <2> HIDE DEF fs
    <2> QED
      BY <1>4, <1>6, <1>7, <1>8, <1>9, <1>10, <2>1
  <1> HIDE DEF fs, report
  <1>12. /\ report.flags = fs
         /\ \A i \in 1 .. Len(fs) : fs[i].severity \in {"error", "critical"} => report.suggested_review
         /\ fs = <<>> => ~ report.suggested_review
    BY <1>1, <1>11, FreshReport
  <1>13. ASSUME NEW f \in ToSet(fs), f.severity \in {"error", "critical"}
         PROVE  report.suggested_review
    <2>1. PICK i \in 1 .. Len(fs) : f = fs[i]
      BY <1>11 DEF ToSet
    <2> QED
      BY <1>12, <1>13, <2>1
  <1> QED
    BY <1>11, <1>12, <1>13 DEF report

(***************************************************************************)
(* A report on a statement that does not parse blocks it.                  *)
(***************************************************************************)
LEMMA UnparsedBlocks ==
  ASSUME NEW sql, NEW others, NEW answer, ~ sql.parses
  PROVE  LET report == ReportOn(sql, others, answer)
         IN  report.flags = <<Flag("ast_parse", "critical")>> /\ HasBlocking(report)
  <1> DEFINE f == Flag("ast_parse", "critical")
             fs == <<f>>
             report == ReportOn(sql, others, answer)
  <1>0. "ast_parse" \in CheckName /\ "critical" \in Severity
    BY DEF CheckName, Severity
  <1>1. f \in Finding /\ fs \in Seq(Finding)
    BY <1>0, FlagType, Singleton
  <1>2. report = Add(EmptyReport, fs)
    BY DEF ReportOn
  <1>3. report.flags = fs
    BY <1>1, <1>2, FreshReport
  <1>4. 1 \in 1 .. Len(fs) /\ fs[1].severity = "critical"
    BY DEF Flag
  <1> QED
    BY <1>3, <1>4 DEF HasBlocking

(***************************************************************************)
(* What a clean report says of the statement, whatever else was found and  *)
(* whatever the database answered.                                         *)
(***************************************************************************)
LEMMA CleanStatement ==
  ASSUME NEW sql \in Statement, NEW others \in Others, NEW answer \in Answer,
         CleanReport(ReportOn(sql, others, answer))
  PROVE  /\ sql.parses
         /\ \A a \in ToSet(sql.where) : ~ TimestampOffender(a) /\ ~ NotInOffender(a, sql.where)
         /\ \A finding \in Failing(sql) : finding[2] \in {"info", "warn"}
  <1> DEFINE report == ReportOn(sql, others, answer)
             bare == ReportOn(sql, NoOthers, Silent)
  <1>1. sql.parses
    BY UnparsedBlocks DEF CleanReport
  <1>2. NoOthers \in Others /\ Silent \in Answer /\ Foreign(NoOthers, Silent) = {}
    BY Quiet
  <1>3. /\ ToSet(report.flags) = Foreign(others, answer) \cup Own(sql)
        /\ (\E f \in ToSet(report.flags) : f.severity \in {"error", "critical"})
             => report.suggested_review
    BY <1>1, ReportFlags
  <1>4. bare.flags \in Seq(Finding) /\ ToSet(bare.flags) = Own(sql)
    <2>1. /\ bare.flags \in Seq(Finding)
          /\ ToSet(bare.flags) = Foreign(NoOthers, Silent) \cup Own(sql)
      BY <1>1, <1>2, ReportFlags
    <2> QED
      BY <1>2, <2>1
  <1>5. ~ report.suggested_review
    BY DEF CleanReport
  <1> HIDE DEF report
  <1>6. \A f \in Own(sql) : f.severity \notin {"error", "critical"}
    BY <1>3, <1>5, Zenon
  <1>7. ASSUME NEW a \in ToSet(sql.where), TimestampOffender(a) PROVE FALSE
    <2>3. Flag("timestamp_equality", "error") \in Own(sql)
      BY <1>7, OwnFlags DEF Own
    <2> QED
      BY <1>6, <2>3 DEF Flag
  <1>8. ASSUME NEW a \in ToSet(sql.where), NotInOffender(a, sql.where) PROVE FALSE
    <2>3. Flag("null_semantics", "error") \in Own(sql)
      BY <1>8, OwnFlags DEF Own
    <2> QED
      BY <1>6, <2>3 DEF Flag
  <1>9. ASSUME NEW finding \in Failing(sql) PROVE finding[2] \in {"info", "warn"}
    <2>1. PICK i \in DOMAIN bare.flags : finding = <<bare.flags[i].check, bare.flags[i].severity>>
      BY DEF Failing
    <2> HIDE DEF bare
    <2>2. bare.flags[i] \in Own(sql) /\ bare.flags[i] \in Finding
      BY <1>4, <2>1 DEF ToSet
    <2>3. bare.flags[i].severity \in Severity
      BY <2>2 DEF Finding
    <2> QED
      BY <1>6, <2>1, <2>2, <2>3 DEF Severity
  <1> QED
    BY <1>1, <1>7, <1>8, <1>9

-----------------------------------------------------------------------------
(***************************************************************************)
(* The rewrites take statements to statements.                             *)
(***************************************************************************)
LEMMA LastExtended ==
  ASSUME NEW C, NEW x \in C, NEW w \in Seq(Seq(C)), w # <<>>
  PROVE  [w EXCEPT ![Len(w)] = Append(w[Len(w)], x)] \in Seq(Seq(C))
  <1> DEFINE D == Seq(C)
  <1>1. \A d \in D : Append(d, x) \in D
    OBVIOUS
  <1>2. w \in Seq(D)
    OBVIOUS
  <1> HIDE DEF D
  <1>3. Len(w) \in 1 .. Len(w) /\ w[Len(w)] \in D
    BY <1>2
  <1>4. Append(w[Len(w)], x) \in D
    BY <1>1, <1>3
  <1> DEFINE e == Append(w[Len(w)], x)
  <1> HIDE DEF e
  <1>5. [w EXCEPT ![Len(w)] = e] \in Seq(D)
    BY <1>2, <1>3, <1>4 DEF e
  <1> QED
    BY <1>5 DEF D, e

LEMMA GuardType ==
  ASSUME NEW q \in Subquery
  PROVE  [q EXCEPT !.where = GuardAppended(q)] \in Subquery
  <1> DEFINE Conjunct == {"filter", "not_null"}
             Disjunct == Seq(Conjunct)
             w == q.where
  <1>1. w \in Seq(Disjunct) /\ "not_null" \in Conjunct
    BY DEF Subquery
  <1>2. GuardAppended(q) \in Seq(Disjunct)
    <2>1. CASE w = <<>>
      <3>1. <<"not_null">> \in Disjunct
        BY <1>1, Singleton
      <3> HIDE DEF Disjunct
      <3>2. <<<<"not_null">>>> \in Seq(Disjunct)
        BY <3>1, Singleton
      <3> QED
        BY <2>1, <3>2 DEF GuardAppended
    <2>2. CASE w # <<>>
      <3>1. [w EXCEPT ![Len(w)] = Append(w[Len(w)], "not_null")] \in Seq(Disjunct)
        BY <1>1, <2>2, LastExtended
      <3> QED
        BY <2>2, <3>1 DEF GuardAppended
    <2> QED
      BY <2>1, <2>2
  <1> QED
    BY <1>2 DEF Subquery

LEMMA RewriteType ==
  ASSUME NEW a \in Atom, NEW guarded
  PROVE  FixNeq(FixTimestamp(FixNotIn(a)), guarded) \in Atom
  <1> DEFINE Kinds == {"not_in_list", "not_in_list_with_null", "neq", "neq_or_null", "is_null",
                       "is_not_null", "is_true", "timestamp_equality", "bad_timestamp_equality",
                       "range", "filter"}
             Plain == [kind : Kinds, column : Columns]
             WithQuery == [kind : {"not_in_query"}, column : Columns, query : Subquery]
  <1>1. Atom = Plain \cup WithQuery
    BY DEF Atom
  <1>2. /\ {"not_in_list", "range", "neq_or_null"} \subseteq Kinds
        /\ "not_in_query" \notin Kinds
        /\ {"not_in_list_with_null", "timestamp_equality", "neq"} \subseteq Kinds \ {"not_in_query"}
    OBVIOUS
  <1> HIDE DEF Kinds
  <1>3. ASSUME NEW b \in Atom, b.kind # "not_in_query" PROVE b \in Plain
    BY <1>1, <1>3
  <1>4. ASSUME NEW b \in Atom, b.kind = "not_in_query" PROVE b \in WithQuery
    BY <1>1, <1>2, <1>4
  <1>5. ASSUME NEW b \in Plain, NEW k \in Kinds PROVE [b EXCEPT !.kind = k] \in Plain
    OBVIOUS
  <1> HIDE DEF Plain
  <1>6. ASSUME NEW b \in Atom PROVE FixNotIn(b) \in Atom
    <2>1. CASE b.kind = "not_in_list_with_null"
      <3>1. FixNotIn(b) = [b EXCEPT !.kind = "not_in_list"]
        BY <2>1 DEF FixNotIn
      <3>2. "not_in_list" \in Kinds /\ b \in Plain
        BY <1>2, <1>3, <2>1
      <3> QED
        BY <1>1, <1>5, <3>1, <3>2
    <2>2. CASE b.kind = "not_in_query" /\ FixesNotIn(b)
      <3> DEFINE g == [b.query EXCEPT !.where = GuardAppended(b.query)]
      <3>1. b \in WithQuery
        BY <1>4, <2>2
      <3>2. g \in Subquery
        BY <3>1, GuardType
      <3>3. FixNotIn(b) = [b EXCEPT !.query = g]
        BY <2>2 DEF FixNotIn
      <3> HIDE DEF g
      <3>4. [b EXCEPT !.query = g] \in WithQuery
        BY <3>1, <3>2
      <3> QED
        BY <1>1, <3>3, <3>4
    <2>3. CASE b.kind # "not_in_list_with_null" /\ ~ (b.kind = "not_in_query" /\ FixesNotIn(b))
      BY <2>3 DEF FixNotIn
    <2> QED
      BY <2>1, <2>2, <2>3
  <1>7. ASSUME NEW b \in Atom PROVE FixTimestamp(b) \in Atom
    <2>1. CASE b.kind = "timestamp_equality"
      <3>1. "range" \in Kinds /\ b \in Plain
        BY <1>2, <1>3, <2>1
      <3>2. FixTimestamp(b) = [b EXCEPT !.kind = "range"]
        BY <2>1 DEF FixTimestamp
      <3> QED
        BY <1>1, <1>5, <3>1, <3>2
    <2> QED
      BY <2>1 DEF FixTimestamp
  <1>8. ASSUME NEW b \in Atom PROVE FixNeq(b, guarded) \in Atom
    <2>1. CASE FixesNeq(b, guarded)
      <3>1. "neq_or_null" \in Kinds /\ b \in Plain
        BY <1>2, <1>3, <2>1 DEF FixesNeq
      <3>2. FixNeq(b, guarded) = [b EXCEPT !.kind = "neq_or_null"]
        BY <2>1 DEF FixNeq
      <3> QED
        BY <1>1, <1>5, <3>1, <3>2
    <2> QED
      BY <2>1 DEF FixNeq
  <1> QED
    BY <1>6, <1>7, <1>8

LEMMA RepairType ==
  ASSUME NEW sql \in Statement
  PROVE  RepairSql(sql).sql \in Statement
  <1>1. CASE ~ sql.parses
    BY <1>1 DEF RepairSql
  <1>2. CASE sql.parses
    <2> DEFINE guarded == AnyIs(Map(FixNotIn, sql.where))
               Rewrite(a) == FixNeq(FixTimestamp(FixNotIn(a)), guarded)
               fixed == [i \in DOMAIN sql.where |-> Rewrite(sql.where[i])]
    <2>1. RepairSql(sql).sql = [sql EXCEPT !.where = fixed]
      BY <1>2 DEF RepairSql, Map
    <2>2. sql.where \in Seq(Atom)
      BY DEF Statement
    <2>3. \A i \in DOMAIN sql.where : Rewrite(sql.where[i]) \in Atom
      <3>1. \A i \in DOMAIN sql.where : sql.where[i] \in Atom
        BY <2>2
      <3> QED
        BY <3>1, RewriteType
    <2> HIDE DEF Rewrite
    <2>4. fixed \in Seq(Atom)
      <3>1. DOMAIN sql.where = 1 .. Len(sql.where) /\ Len(sql.where) \in Nat
        BY <2>2
      <3>2. fixed \in [1 .. Len(sql.where) -> Atom]
        BY <2>3, <3>1
      <3> QED
        BY <3>1, <3>2, SeqDef
    <2> HIDE DEF fixed
    <2> QED
      BY <2>1, <2>4 DEF Statement
  <1> QED
    BY <1>1, <1>2

-----------------------------------------------------------------------------
(***************************************************************************)
(* The inductive invariant: what the loop knows while it runs, and what    *)
(* its result owes to the last statement verified.                         *)
(***************************************************************************)
Exhausted == round_no = call.max_rounds \/ RepairSql(current).repairs = <<>>

LoopTypeInv ==
  /\ call \in Call
  /\ current \in Statement /\ final_sql \in Statement
  /\ round_no \in 0 .. call.max_rounds
  /\ judged \in Seq(Statement)

RunningInv ==
  phase # "returned" =>
    /\ Len(judged) = round_no
    /\ verified = FALSE /\ escalate = FALSE
    /\ phase = "final" => Exhausted

ReturnedInv ==
  phase = "returned" =>
    /\ Len(judged) \in 1 .. call.max_rounds + 1
    /\ judged[Len(judged)] = final_sql /\ final_sql = current
    /\ \E answer \in Answer : final_report = ReportOn(final_sql, call.others, answer)
    /\ verified <=> CleanReport(final_report)
    /\ escalate <=> ~ verified
    /\ escalate => Exhausted

LoopInv == LoopTypeInv /\ RunningInv /\ ReturnedInv

LEMMA CallType ==
  ASSUME NEW c \in Call
  PROVE  c.sql \in Statement /\ c.others \in Others /\ c.max_rounds \in Nat
  BY DEF Call

LEMMA LoopInit == Init => LoopInv
  <1> SUFFICES ASSUME Init PROVE LoopInv
    OBVIOUS
  <1>1. call \in Call
    BY CallsAssumption DEF Init
  <1>2. call.sql \in Statement /\ call.max_rounds \in Nat
    BY <1>1, CallType
  <1>3. judged = <<>> /\ round_no = 0 /\ Len(judged) = 0 /\ judged \in Seq(Statement)
    BY EmptySequence DEF Init
  <1>4. current \in Statement /\ final_sql \in Statement /\ round_no \in 0 .. call.max_rounds
    BY <1>2, <1>3 DEF Init
  <1>5. phase = "verify" /\ verified = FALSE /\ escalate = FALSE
    BY DEF Init
  <1> QED
    BY <1>1, <1>3, <1>4, <1>5 DEF LoopInv, LoopTypeInv, RunningInv, ReturnedInv

(***************************************************************************)
(* What a verification leaves behind.                                      *)
(***************************************************************************)
LEMMA VerificationFacts ==
  ASSUME LoopTypeInv, Verification
  PROVE  /\ judged' \in Seq(Statement)
         /\ Len(judged') = Len(judged) + 1
         /\ judged'[Len(judged')] = current
         /\ \E answer \in Answer : final_report' = ReportOn(current, call.others, answer)
  <1>1. judged' = Append(judged, current) /\ judged \in Seq(Statement) /\ current \in Statement
    BY DEF LoopTypeInv, Verification
  <1>2. PICK answer \in IF call.connector THEN Answers ELSE {Silent} :
          final_report' = ReportOn(current, call.others, answer)
    BY DEF Verification
  <1>3. answer \in Answer
    BY <1>2, Quiet, AnswersAssumption
  <1>4. /\ judged' \in Seq(Statement)
        /\ Len(judged') = Len(judged) + 1
        /\ judged'[Len(judged')] = current
    BY <1>1
  <1> QED
    BY <1>2, <1>3, <1>4

LEMMA LoopStep == LoopInv /\ [Next]_vars => LoopInv'
  <1> SUFFICES ASSUME LoopInv, [Next]_vars PROVE LoopInv'
    OBVIOUS
  <1> USE DEF LoopInv
  <1>0. call \in Call /\ call.max_rounds \in Nat /\ judged \in Seq(Statement) /\ Len(judged) \in Nat
    BY CallType DEF LoopTypeInv
  <1>1. CASE VerifyRound
    <2>1. Verification /\ call' = call /\ current' = current /\ round_no' = round_no + 1
          /\ round_no < call.max_rounds /\ phase = "verify" /\ escalate' = escalate
      BY <1>1 DEF VerifyRound
    <2>2. /\ judged' \in Seq(Statement)
          /\ Len(judged') = Len(judged) + 1
          /\ judged'[Len(judged')] = current
          /\ \E answer \in Answer : final_report' = ReportOn(current, call.others, answer)
      BY <2>1, VerificationFacts
    <2>3. round_no' \in 0 .. call'.max_rounds /\ Len(judged') = round_no' /\ escalate' = FALSE
      BY <1>0, <2>1, <2>2 DEF LoopTypeInv, RunningInv
    <2>4. CASE CleanReport(final_report')
      <3>1. phase' = "returned" /\ final_sql' = current /\ verified' = TRUE
        BY <1>1, <2>4 DEF VerifyRound
      <3>2. Len(judged') \in 1 .. call'.max_rounds + 1
        BY <1>0, <2>1, <2>3 DEF LoopTypeInv
      <3>3. LoopTypeInv'
        BY <2>1, <2>2, <2>3, <3>1 DEF LoopTypeInv
      <3>4. ReturnedInv'
        BY <2>1, <2>2, <2>3, <2>4, <3>1, <3>2 DEF ReturnedInv
      <3> QED
        BY <3>1, <3>3, <3>4 DEF RunningInv
    <2>5. CASE ~ CleanReport(final_report')
      <3>1. phase' = "repair" /\ final_sql' = final_sql /\ verified' = verified
        BY <1>1, <2>5 DEF VerifyRound
      <3>2. LoopTypeInv'
        BY <2>1, <2>2, <2>3, <3>1 DEF LoopTypeInv
      <3>3. RunningInv'
        BY <2>1, <2>3, <3>1 DEF RunningInv
      <3> QED
        BY <3>1, <3>2, <3>3 DEF ReturnedInv
    <2> QED
      BY <2>4, <2>5
  <1>2. CASE RoundsExhausted
    <2>1. /\ phase = "verify" /\ phase' = "final" /\ round_no = call.max_rounds
          /\ UNCHANGED <<call, current, round_no, final_sql, verified, escalate, judged>>
      BY <1>2 DEF RoundsExhausted
    <2>2. Exhausted'
      BY <2>1 DEF Exhausted
    <2>3. LoopTypeInv'
      BY <2>1 DEF LoopTypeInv
    <2>4. RunningInv'
      BY <2>1, <2>2 DEF RunningInv
    <2> QED
      BY <2>1, <2>3, <2>4 DEF ReturnedInv
  <1>3. CASE RepairRound
    <2>1. /\ phase = "repair"
          /\ UNCHANGED <<call, round_no, final_sql, verified, escalate, judged>>
      BY <1>3 DEF RepairRound
    <2>2. CASE RepairSql(current).repairs = <<>>
      <3>1. phase' = "final" /\ current' = current
        BY <1>3, <2>2 DEF RepairRound
      <3>2. Exhausted'
        BY <2>1, <2>2, <3>1 DEF Exhausted
      <3>3. LoopTypeInv'
        BY <2>1, <3>1 DEF LoopTypeInv
      <3>4. RunningInv'
        BY <2>1, <3>1, <3>2 DEF RunningInv
      <3> QED
        BY <3>1, <3>3, <3>4 DEF ReturnedInv
    <2>3. CASE RepairSql(current).repairs # <<>>
      <3>1. phase' = "verify" /\ current' = RepairSql(current).sql
        BY <1>3, <2>3 DEF RepairRound
      <3>2. current' \in Statement
        BY <3>1, RepairType DEF LoopTypeInv
      <3>3. LoopTypeInv'
        BY <2>1, <3>2 DEF LoopTypeInv
      <3>4. RunningInv'
        BY <2>1, <3>1 DEF RunningInv
      <3> QED
        BY <3>1, <3>3, <3>4 DEF ReturnedInv
    <2> QED
      BY <2>2, <2>3
  <1>4. CASE RepairFails
    <2>1. /\ phase = "repair" /\ phase' = "raised"
          /\ UNCHANGED <<call, current, round_no, final_sql, verified, escalate, judged>>
      BY <1>4 DEF RepairFails
    <2>2. LoopTypeInv'
      BY <2>1 DEF LoopTypeInv
    <2>3. RunningInv'
      BY <2>1 DEF RunningInv
    <2> QED
      BY <2>1, <2>2, <2>3 DEF ReturnedInv
  <1>5. CASE FinalVerify
    <2>1. /\ phase = "final" /\ phase' = "returned" /\ Verification /\ final_sql' = current
          /\ verified' = CleanReport(final_report') /\ escalate' = ~ verified'
          /\ UNCHANGED <<call, current, round_no>>
      BY <1>5 DEF FinalVerify
    <2>2. /\ judged' \in Seq(Statement)
          /\ Len(judged') = Len(judged) + 1
          /\ judged'[Len(judged')] = current
          /\ \E answer \in Answer : final_report' = ReportOn(current, call.others, answer)
      BY <2>1, VerificationFacts
    <2>3. Len(judged') \in 1 .. call'.max_rounds + 1
      BY <1>0, <2>1, <2>2 DEF LoopTypeInv, RunningInv
    <2>4. Exhausted'
      BY <2>1 DEF RunningInv, Exhausted
    <2>5. LoopTypeInv'
      BY <2>1, <2>2 DEF LoopTypeInv
    <2>6. /\ verified' <=> CleanReport(final_report')
          /\ escalate' <=> ~ verified'
      BY <2>1, Zenon
    <2>7. ReturnedInv'
      BY <2>1, <2>2, <2>3, <2>4, <2>6 DEF ReturnedInv
    <2> QED
      BY <2>1, <2>5, <2>7 DEF RunningInv
  <1>6. CASE UNCHANGED vars
    <2>1. UNCHANGED <<call, current, round_no, final_report, final_sql, verified, escalate, phase, judged>>
      BY <1>6 DEF vars
    <2>2. LoopTypeInv' /\ RunningInv' /\ ReturnedInv'
      BY <2>1 DEF LoopTypeInv, RunningInv, ReturnedInv, Exhausted
    <2> QED
      BY <2>2
  <1> QED
    BY <1>1, <1>2, <1>3, <1>4, <1>5, <1>6 DEF Next

(***************************************************************************)
(* The invariant says what the runs check.                                 *)
(***************************************************************************)
LEMMA LoopInvExhausted == LoopInv => EscalationIsExhausted
  <1> SUFFICES ASSUME LoopInv PROVE EscalationIsExhausted
    OBVIOUS
  <1>1. LoopTypeInv /\ RunningInv /\ ReturnedInv
    BY DEF LoopInv
  <1>2. call.max_rounds \in Nat
    BY <1>1, CallType DEF LoopTypeInv
  <1>3. Len(judged) <= call.max_rounds + 1
    BY <1>1, <1>2 DEF LoopTypeInv, RunningInv, ReturnedInv
  <1>4. phase = "returned" /\ escalate =>
          round_no = call.max_rounds \/ RepairSql(final_sql).repairs = <<>>
    BY <1>1 DEF ReturnedInv, Exhausted
  <1> QED
    BY <1>3, <1>4 DEF EscalationIsExhausted

LEMMA LoopInvariant == Spec => []LoopInv
  BY LoopInit, LoopStep, PTL DEF Spec

(***************************************************************************)
(* The loop escalates only when its rounds are used up or no rewrite is    *)
(* left, and verifies at most max_rounds + 1 times.                        *)
(***************************************************************************)
THEOREM EscalationExhausted == Spec => []EscalationIsExhausted
  BY LoopInvariant, LoopInvExhausted, PTL

-----------------------------------------------------------------------------
(***************************************************************************)
(* One conjunct and its rewrite.  Extent and Progress measure how far the  *)
(* rewrites have got: no rewrite takes them back.                          *)
(***************************************************************************)
RuleName == {"not_in_null", "timestamp_equality", "neq_null_drop"}

Rewritten(a, guarded) == FixNeq(FixTimestamp(FixNotIn(a)), guarded)

Guarded(q) == \E i \in DOMAIN q.where : "not_null" \in ToSet(q.where[i])

Extent(q) == IF q.where = <<>> THEN 0 ELSE 1 + Len(q.where[Len(q.where)])

Progress(a) ==
  IF a.kind \in {"not_in_list", "range", "neq_or_null"} THEN 1
  ELSE IF a.kind = "not_in_query" THEN Extent(a.query)
  ELSE 0

\* a looks at column c with an IS NULL, in a subquery or outside.
Tests(a, c) ==
  \/ a.kind \in {"is_null", "is_not_null", "neq_or_null"} /\ a.column = c
  \/ a.kind = "not_in_query" /\ Guarded(a.query) /\ a.query.column = c

Fixes(a, guarded) == FixesNotIn(a) \/ a.kind = "timestamp_equality" \/ FixesNeq(a, guarded)

LEMMA TestedColumns ==
  ASSUME NEW where, NEW c
  PROVE  /\ c \in NullTested(where) <=> \E a \in ToSet(where) : Tests(a, c)
         /\ c \in AnyIs(where) <=> \E a \in ToSet(where) :
                                     Tests(a, c) \/ (a.kind = "is_true" /\ a.column = c)
  <1>1. c \in NullTested(where) <=> \E a \in ToSet(where) : Tests(a, c)
    BY DEF NullTested, Tests, Guarded
  <1>2. c \in AnyIs(where) <=> c \in NullTested(where)
                                \/ \E a \in ToSet(where) : a.kind = "is_true" /\ a.column = c
    BY DEF AnyIs
  <1> QED
    BY <1>1, <1>2

LEMMA GuardedQuery ==
  ASSUME NEW q \in Subquery
  PROVE  LET g == [q EXCEPT !.where = GuardAppended(q)]
         IN  /\ g \in Subquery /\ g.projection = q.projection /\ g.column = q.column
             /\ g.where # <<>> /\ Guarded(g)
             /\ Extent(q) \in Nat /\ Extent(g) \in Nat /\ Extent(q) < Extent(g)
  <1> DEFINE Conjunct == {"filter", "not_null"}
             w == q.where
             g == [q EXCEPT !.where = GuardAppended(q)]
             v == g.where
  <1>1. w \in Seq(Seq(Conjunct)) /\ "not_null" \in Conjunct
    BY DEF Subquery
  <1>2. /\ g \in Subquery /\ g.projection = q.projection /\ g.column = q.column
        /\ v = GuardAppended(q)
    BY GuardType DEF Subquery
  <1>3. CASE w = <<>>
    <2>1. v = <<<<"not_null">>>>
      BY <1>2, <1>3 DEF GuardAppended
    <2>2. v # <<>> /\ Len(v) = 1 /\ DOMAIN v = {1} /\ v[1] = <<"not_null">> /\ Len(v[1]) = 1
      BY <2>1
    <2>3. "not_null" \in ToSet(v[1])
      BY <2>2, Singleton
    <2>4. Guarded(g)
      BY <2>2, <2>3 DEF Guarded
    <2>5. Extent(q) = 0 /\ Extent(g) = 2
      BY <1>3, <2>2 DEF Extent
    <2> QED
      BY <1>2, <2>2, <2>4, <2>5
  <1>4. CASE w # <<>>
    <2> DEFINE n == Len(w)
               e == Append(w[n], "not_null")
    <2>1. v = [w EXCEPT ![n] = e]
      BY <1>2, <1>4 DEF GuardAppended
    <2>2. n \in 1 .. n /\ n \in Nat /\ DOMAIN w = 1 .. n /\ w[n] \in Seq(Conjunct)
      <3> DEFINE D == Seq(Conjunct)
      <3>1. w \in Seq(D)
        BY <1>1
      <3> HIDE DEF D
      <3>2. Len(w) \in Nat /\ Len(w) # 0 /\ DOMAIN w = 1 .. Len(w)
        BY <1>4, <3>1
      <3>3. w[Len(w)] \in D
        BY <3>1, <3>2
      <3> QED
        BY <3>2, <3>3 DEF D
    <2>3. Len(e) = Len(w[n]) + 1 /\ Len(w[n]) \in Nat /\ "not_null" \in ToSet(e)
      <3> DEFINE d == w[n]
      <3>1. d \in Seq(Conjunct)
        BY <2>2
      <3> HIDE DEF d
      <3>2. /\ Len(Append(d, "not_null")) = Len(d) + 1 /\ Len(d) \in Nat
            /\ Append(d, "not_null")[Len(d) + 1] = "not_null"
            /\ DOMAIN Append(d, "not_null") = 1 .. Len(d) + 1
        BY <1>1, <3>1
      <3>3. "not_null" \in ToSet(Append(d, "not_null"))
        BY <3>2 DEF ToSet
      <3> QED
        BY <3>2, <3>3 DEF d
    <2>4. Len(v) = n /\ v # <<>> /\ DOMAIN v = 1 .. n /\ v[n] = e
      <3> DEFINE D == Seq(Conjunct)
      <3>1. w \in Seq(D) /\ e \in D
        BY <1>1, <2>2
      <3> HIDE DEF D, e
      <3> QED
        BY <2>1, <2>2, <3>1
    <2>5. Guarded(g)
      BY <2>2, <2>3, <2>4 DEF Guarded
    <2>6. Extent(q) = 1 + Len(w[n]) /\ Extent(g) = 1 + Len(e)
      BY <1>4, <2>4 DEF Extent
    <2> QED
      BY <1>2, <2>3, <2>4, <2>5, <2>6
  <1> QED
    BY <1>3, <1>4

(***************************************************************************)
(* At most one of the rewrites works on a conjunct.                        *)
(***************************************************************************)
LEMMA RewriteCases ==
  ASSUME NEW a \in Atom, NEW guarded
  PROVE  /\ a.kind = "not_in_list_with_null" => Rewritten(a, guarded) = [a EXCEPT !.kind = "not_in_list"]
         /\ a.kind = "timestamp_equality" => Rewritten(a, guarded) = [a EXCEPT !.kind = "range"]
         /\ FixesNeq(a, guarded) => Rewritten(a, guarded) = [a EXCEPT !.kind = "neq_or_null"]
         /\ a.kind = "not_in_query" /\ FixesNotIn(a) =>
              Rewritten(a, guarded) = [a EXCEPT !.query = [a.query EXCEPT !.where = GuardAppended(a.query)]]
         /\ ~ Fixes(a, guarded) => Rewritten(a, guarded) = a
  <1>1. \A b \in Atom : \A k : [b EXCEPT !.kind = k].kind = k
    BY DEF Atom
  <1>2. ASSUME a.kind = "not_in_list_with_null"
        PROVE  Rewritten(a, guarded) = [a EXCEPT !.kind = "not_in_list"]
    <2> DEFINE b == [a EXCEPT !.kind = "not_in_list"]
    <2>1. b.kind = "not_in_list" /\ FixNotIn(a) = b
      BY <1>1, <1>2 DEF FixNotIn
    <2> HIDE DEF b
    <2>2. FixTimestamp(b) = b /\ FixNeq(b, guarded) = b
      BY <2>1 DEF FixTimestamp, FixNeq, FixesNeq
    <2> QED
      BY <2>1, <2>2 DEF Rewritten, b
  <1>3. ASSUME a.kind = "timestamp_equality"
        PROVE  Rewritten(a, guarded) = [a EXCEPT !.kind = "range"]
    <2> DEFINE b == [a EXCEPT !.kind = "range"]
    <2>1. b.kind = "range" /\ FixNotIn(a) = a /\ FixTimestamp(a) = b
      BY <1>1, <1>3 DEF FixNotIn, FixTimestamp
    <2> HIDE DEF b
    <2>2. FixNeq(b, guarded) = b
      BY <2>1 DEF FixNeq, FixesNeq
    <2> QED
      BY <2>1, <2>2 DEF Rewritten, b
  <1>4. ASSUME FixesNeq(a, guarded)
        PROVE  Rewritten(a, guarded) = [a EXCEPT !.kind = "neq_or_null"]
    <2>1. a.kind = "neq"
      BY <1>4 DEF FixesNeq
    <2>2. FixNotIn(a) = a /\ FixTimestamp(a) = a
      BY <2>1 DEF FixNotIn, FixTimestamp
    <2> QED
      BY <1>4, <2>2 DEF Rewritten, FixNeq
  <1>5. ASSUME a.kind = "not_in_query", FixesNotIn(a)
        PROVE  Rewritten(a, guarded)
                 = [a EXCEPT !.query = [a.query EXCEPT !.where = GuardAppended(a.query)]]
    <2> DEFINE g == [a.query EXCEPT !.where = GuardAppended(a.query)]
               b == [a EXCEPT !.query = g]
    <2>1. FixNotIn(a) = b
      BY <1>5 DEF FixNotIn
    <2> HIDE DEF g
    <2>2. b.kind = "not_in_query"
      BY <1>5 DEF Atom
    <2> HIDE DEF b
    <2>3. FixTimestamp(b) = b /\ FixNeq(b, guarded) = b
      BY <2>2 DEF FixTimestamp, FixNeq, FixesNeq
    <2> QED
      BY <2>1, <2>3 DEF Rewritten, b, g
  <1>6. ASSUME ~ Fixes(a, guarded) PROVE Rewritten(a, guarded) = a
    <2>1. FixNotIn(a) = a
      BY <1>6 DEF Fixes, FixNotIn, FixesNotIn
    <2>2. FixTimestamp(a) = a /\ FixNeq(a, guarded) = a
      BY <1>6 DEF Fixes, FixTimestamp, FixNeq
    <2> QED
      BY <2>1, <2>2 DEF Rewritten
  <1> QED
    BY <1>2, <1>3, <1>4, <1>5, <1>6

LEMMA RewriteFacts ==
  ASSUME NEW a \in Atom, NEW guarded, NEW b, b = Rewritten(a, guarded)
  PROVE  /\ b \in Atom
         /\ \A c : Tests(a, c) => Tests(b, c)
         /\ a.kind = "is_true" => b = a
         /\ Progress(a) \in Nat /\ Progress(b) \in Nat /\ Progress(a) <= Progress(b)
         /\ Fixes(a, guarded) => Progress(a) < Progress(b)
         /\ ~ Fixes(a, guarded) => b = a
         /\ b.kind \notin {"not_in_list_with_null", "timestamp_equality"}
         /\ b.kind = "neq" => b = a /\ a.column \in guarded
         /\ b.kind = "not_in_query" => b = a \/ (SubqueryNullSafe(b.query) /\ b.query.where # <<>>)
  <1>1. b \in Atom
    BY RewriteType DEF Rewritten
  <1>2. /\ [a EXCEPT !.kind = "not_in_list"].kind = "not_in_list"
        /\ [a EXCEPT !.kind = "range"].kind = "range"
        /\ [a EXCEPT !.kind = "neq_or_null"].kind = "neq_or_null"
        /\ [a EXCEPT !.kind = "neq_or_null"].column = a.column
    BY DEF Atom
  <1>3. CASE a.kind = "not_in_list_with_null"
    <2>1. b.kind = "not_in_list"
      BY <1>2, <1>3, RewriteCases
    <2> QED
      BY <1>1, <1>3, <2>1 DEF Tests, Progress, Fixes, FixesNotIn
  <1>4. CASE a.kind = "timestamp_equality"
    <2>1. b.kind = "range"
      BY <1>2, <1>4, RewriteCases
    <2> QED
      BY <1>1, <1>4, <2>1 DEF Tests, Progress, Fixes
  <1>5. CASE FixesNeq(a, guarded)
    <2>1. b.kind = "neq_or_null" /\ a.kind = "neq"
      BY <1>2, <1>5, RewriteCases DEF FixesNeq
    <2> QED
      BY <1>1, <1>5, <2>1 DEF Tests, Progress, Fixes
  <1>6. CASE a.kind = "not_in_query" /\ FixesNotIn(a)
    <2> DEFINE q == a.query
               g == [q EXCEPT !.where = GuardAppended(q)]
    <2>1. q \in Subquery /\ q.projection = "column"
      BY <1>6 DEF Atom, FixesNotIn
    <2>2. b = [a EXCEPT !.query = g]
      BY <1>6, RewriteCases
    <2>3. /\ g \in Subquery /\ g.projection = q.projection /\ g.column = q.column
          /\ g.where # <<>> /\ Guarded(g)
          /\ Extent(q) \in Nat /\ Extent(g) \in Nat /\ Extent(q) < Extent(g)
      BY <2>1, GuardedQuery
    <2> HIDE DEF g
    <2>4. b.kind = "not_in_query" /\ b.query = g
      BY <1>6, <2>2 DEF Atom
    <2>5. SubqueryNullSafe(g)
      BY <2>1, <2>3 DEF SubqueryNullSafe, Guarded
    <2>6. \A c : Tests(a, c) => Tests(b, c)
      BY <1>6, <2>3, <2>4 DEF Tests
    <2>7. Progress(a) = Extent(q) /\ Progress(b) = Extent(g)
      BY <1>6, <2>4 DEF Progress
    <2> QED
      BY <1>1, <1>6, <2>3, <2>4, <2>5, <2>6, <2>7 DEF Fixes
  <1>7. CASE ~ Fixes(a, guarded)
    <2>1. b = a
      BY <1>7, RewriteCases
    <2>2. a.kind \notin {"not_in_list_with_null", "timestamp_equality"}
      BY <1>7 DEF Fixes, FixesNotIn
    <2>3. a.kind = "neq" => a.column \in guarded
      BY <1>7 DEF Fixes, FixesNeq
    <2>4. Progress(a) \in Nat
      <3>1. a.kind = "not_in_query" => a.query \in Subquery
        BY DEF Atom
      <3> QED
        BY <3>1, GuardedQuery DEF Progress
    <2> QED
      BY <1>1, <1>7, <2>1, <2>2, <2>3, <2>4
  <1> QED
    BY <1>3, <1>4, <1>5, <1>6, <1>7 DEF Fixes, FixesNotIn

\* No rewrite takes a null test back, neither the first one nor those that follow it.
LEMMA FirstRewriteTests ==
  ASSUME NEW a \in Atom
  PROVE  /\ \A c : Tests(a, c) => Tests(FixNotIn(a), c)
         /\ a.kind = "is_true" => FixNotIn(a) = a
         /\ \A guarded, c : Tests(FixNotIn(a), c) => Tests(Rewritten(a, guarded), c)
  <1>1. CASE a.kind = "not_in_query" /\ FixesNotIn(a)
    <2>1. \A guarded : Rewritten(a, guarded) = FixNotIn(a)
      BY <1>1, RewriteCases DEF FixNotIn
    <2>2. \A c : Tests(a, c) => Tests(FixNotIn(a), c)
      BY <2>1, RewriteFacts
    <2> QED
      BY <1>1, <2>1, <2>2
  <1>2. CASE a.kind = "not_in_list_with_null"
    <2>1. \A guarded : Rewritten(a, guarded) = FixNotIn(a)
      BY <1>2, RewriteCases DEF FixNotIn
    <2>2. \A c : Tests(a, c) => Tests(FixNotIn(a), c)
      BY <2>1, RewriteFacts
    <2> QED
      BY <1>2, <2>1, <2>2
  <1>3. CASE a.kind # "not_in_list_with_null" /\ ~ (a.kind = "not_in_query" /\ FixesNotIn(a))
    <2>1. FixNotIn(a) = a
      BY <1>3 DEF FixNotIn
    <2> QED
      BY <2>1, RewriteFacts
  <1> QED
    BY <1>1, <1>2, <1>3

(***************************************************************************)
(* The WHERE of a statement, before and after a round of rewrites.         *)
(***************************************************************************)
RewriteRound(old, new, guarded) ==
  /\ old \in Seq(Atom) /\ new \in Seq(Atom)
  /\ DOMAIN new = DOMAIN old
  /\ guarded = AnyIs(Map(FixNotIn, old))
  /\ \A i \in DOMAIN old : new[i] = Rewritten(old[i], guarded)

LEMMA RoundKeepsTests ==
  ASSUME NEW old, NEW new, NEW guarded, RewriteRound(old, new, guarded)
  PROVE  /\ NullTested(old) \subseteq NullTested(new)
         /\ guarded \subseteq AnyIs(new)
         /\ guarded \subseteq AnyIs(Map(FixNotIn, new))
  <1>1. \A i \in DOMAIN old : /\ old[i] \in Atom /\ new[i] \in Atom
                              /\ new[i] = Rewritten(old[i], guarded)
    BY DEF RewriteRound
  <1>2. DOMAIN new = DOMAIN old
    BY DEF RewriteRound
  <1>3. ASSUME NEW c \in NullTested(old) PROVE c \in NullTested(new)
    <2>1. PICK i \in DOMAIN old : Tests(old[i], c)
      BY <1>3, TestedColumns DEF ToSet
    <2>2. Tests(new[i], c)
      BY <1>1, <2>1, RewriteFacts
    <2>3. new[i] \in ToSet(new)
      BY <1>2 DEF ToSet
    <2> QED
      BY <2>2, <2>3, TestedColumns
  <1>4. ASSUME NEW c \in guarded PROVE c \in AnyIs(new) /\ c \in AnyIs(Map(FixNotIn, new))
    <2> DEFINE first == Map(FixNotIn, old)
               next == Map(FixNotIn, new)
    <2>1. DOMAIN first = DOMAIN old /\ \A i \in DOMAIN old : first[i] = FixNotIn(old[i])
      BY DEF Map
    <2>2. DOMAIN next = DOMAIN old /\ \A i \in DOMAIN old : next[i] = FixNotIn(new[i])
      BY <1>2 DEF Map
    <2>3. c \in AnyIs(first)
      BY <1>4 DEF RewriteRound
    <2> HIDE DEF first, next
    <2>4. PICK a \in ToSet(first) : Tests(a, c) \/ (a.kind = "is_true" /\ a.column = c)
      BY <2>3, TestedColumns
    <2>5. PICK i \in DOMAIN old : a = FixNotIn(old[i])
      BY <2>1, <2>4 DEF ToSet
    <2>6. next[i] \in ToSet(next) /\ next[i] = FixNotIn(new[i]) /\ new[i] \in ToSet(new)
      BY <1>2, <2>2 DEF ToSet
    <2>7. CASE Tests(a, c)
      <3>1. Tests(new[i], c)
        BY <1>1, <2>5, <2>7, FirstRewriteTests
      <3>2. Tests(next[i], c)
        BY <1>1, <2>6, <3>1, FirstRewriteTests
      <3> QED
        BY <2>6, <3>1, <3>2, TestedColumns DEF next
    <2>8. CASE a.kind = "is_true" /\ a.column = c
      <3>1. old[i] = a
        <4>1. old[i].kind # "not_in_list_with_null"
          BY <1>1, <2>5, <2>8 DEF FixNotIn, Atom
        <4>2. ~ (old[i].kind = "not_in_query" /\ FixesNotIn(old[i]))
          BY <1>1, <2>5, <2>8 DEF FixNotIn, Atom
        <4> QED
          BY <2>5, <4>1, <4>2 DEF FixNotIn
      <3>2. new[i] = a
        BY <1>1, <2>8, <3>1, RewriteFacts
      <3>3. next[i] = a
        BY <1>1, <2>6, <2>8, <3>2, FirstRewriteTests
      <3> QED
        BY <2>6, <2>8, <3>2, <3>3, TestedColumns DEF next
    <2> QED
      BY <2>4, <2>7, <2>8
  <1> QED
    BY <1>3, <1>4

(***************************************************************************)
(* What repair_sql records, and what it records nothing of.                *)
(***************************************************************************)
LEMMA RuleSequence ==
  ASSUME NEW rule \in RuleName, NEW where \in Seq(Atom), NEW T \in SUBSET DOMAIN where
  PROVE  /\ [n \in 1 .. Cardinality(T) |-> rule] \in Seq(RuleName)
         /\ [n \in 1 .. Cardinality(T) |-> rule] = <<>> <=> T = {}
  <1> DEFINE k == Cardinality(T)
             s == [n \in 1 .. k |-> rule]
  <1>1. k \in Nat /\ IsFiniteSet(T)
    <2>1. DOMAIN where = 1 .. Len(where) /\ Len(where) \in Nat
      OBVIOUS
    <2>2. IsFiniteSet(1 .. Len(where))
      BY <2>1, FS_Interval
    <2>3. IsFiniteSet(T)
      BY <2>1, <2>2, FS_Subset
    <2> QED
      BY <2>3, FS_CardinalityType
  <1>2. k = 0 <=> T = {}
    BY <1>1, FS_EmptySet
  <1> HIDE DEF k
  <1>3. s \in [1 .. k -> RuleName]
    OBVIOUS
  <1>4. s \in Seq(RuleName)
    BY <1>1, <1>3, SeqDef
  <1>5. s = <<>> <=> k = 0
    <2>1. Len(s) = k
      BY <1>1, <1>4
    <2> HIDE DEF s
    <2> QED
      BY <1>4, <2>1
  <1> QED
    BY <1>2, <1>4, <1>5 DEF k

LEMMA ThreeParts ==
  ASSUME NEW S, NEW x \in Seq(S), NEW y \in Seq(S), NEW z \in Seq(S)
  PROVE  /\ x \o y \o z \in Seq(S)
         /\ x \o y \o z = <<>> <=> x = <<>> /\ y = <<>> /\ z = <<>>
  OBVIOUS

LEMMA Repaired ==
  ASSUME NEW sql \in Statement, sql.parses, ~ RepairRaises(sql),
         NEW guarded, guarded = AnyIs(Map(FixNotIn, sql.where))
  PROVE  /\ RepairSql(sql).sql \in Statement /\ RepairSql(sql).sql.parses
         /\ RewriteRound(sql.where, RepairSql(sql).sql.where, guarded)
         /\ RepairSql(sql).repairs \in Seq(RuleName)
         /\ RepairSql(sql).repairs = <<>> <=> \A i \in DOMAIN sql.where : ~ Fixes(sql.where[i], guarded)
  <1> DEFINE where == sql.where
             new == [i \in DOMAIN where |-> Rewritten(where[i], guarded)]
             lists == {i \in DOMAIN where : FixesNotIn(where[i])}
             times == {i \in DOMAIN where : TimestampOffender(where[i])}
             neqs  == {i \in DOMAIN where : FixesNeq(where[i], guarded)}
             x == [n \in 1 .. Cardinality(lists) |-> "not_in_null"]
             y == [n \in 1 .. Cardinality(times) |-> "timestamp_equality"]
             z == [n \in 1 .. Cardinality(neqs) |-> "neq_null_drop"]
  <1>1. RepairSql(sql) = [sql |-> [sql EXCEPT !.where = new], repairs |-> x \o y \o z]
    BY DEF RepairSql, Map, Rules, Quantify, Rewritten
  <1>2. where \in Seq(Atom)
    BY DEF Statement
  <1>3. RepairSql(sql).sql \in Statement
    BY RepairType
  <1>4. RepairSql(sql).sql.where = new /\ RepairSql(sql).sql.parses
    <2> HIDE DEF new, x, y, z
    <2>1. RepairSql(sql).sql = [sql EXCEPT !.where = new]
      BY <1>1
    <2> QED
      BY <2>1 DEF Statement
  <1>5. RewriteRound(where, new, guarded)
    <2>1. DOMAIN new = DOMAIN where /\ \A i \in DOMAIN where : new[i] = Rewritten(where[i], guarded)
      OBVIOUS
    <2>2. new \in Seq(Atom)
      BY <1>3, <1>4 DEF Statement
    <2> HIDE DEF new
    <2> QED
      BY <1>2, <2>1, <2>2 DEF RewriteRound
  <1>6. /\ x \in Seq(RuleName) /\ (x = <<>> <=> lists = {})
        /\ y \in Seq(RuleName) /\ (y = <<>> <=> times = {})
        /\ z \in Seq(RuleName) /\ (z = <<>> <=> neqs = {})
    <2>1. "not_in_null" \in RuleName /\ "timestamp_equality" \in RuleName /\ "neq_null_drop" \in RuleName
      BY DEF RuleName
    <2>2. lists \in SUBSET DOMAIN where /\ times \in SUBSET DOMAIN where /\ neqs \in SUBSET DOMAIN where
      OBVIOUS
    <2> HIDE DEF lists, times, neqs, where
    <2> QED
      BY <1>2, <2>1, <2>2, RuleSequence
  <1>7. RepairSql(sql).repairs = x \o y \o z
    <2> HIDE DEF new, x, y, z
    <2> QED
      BY <1>1
  <1>8. \A i \in DOMAIN where : TimestampOffender(where[i]) <=> where[i].kind = "timestamp_equality"
    <2>1. \A i \in DOMAIN where : where[i].kind # "bad_timestamp_equality"
      BY DEF RepairRaises, ToSet
    <2> QED
      BY <2>1 DEF TimestampOffender
  <1>9. (lists = {} /\ times = {} /\ neqs = {}) <=> \A i \in DOMAIN where : ~ Fixes(where[i], guarded)
    BY <1>8 DEF Fixes
  <1> HIDE DEF x, y, z, lists, times, neqs
  <1>10. x \o y \o z \in Seq(RuleName) /\ (x \o y \o z = <<>> <=> x = <<>> /\ y = <<>> /\ z = <<>>)
    BY <1>6, ThreeParts
  <1> HIDE DEF where, new
  <1>11. RepairSql(sql).repairs \in Seq(RuleName)
    BY <1>7, <1>10
  <1>12. RepairSql(sql).repairs = <<>> <=> \A i \in DOMAIN where : ~ Fixes(where[i], guarded)
    BY <1>6, <1>7, <1>9, <1>10
  <1> QED
    BY <1>3, <1>4, <1>5, <1>11, <1>12 DEF where

-----------------------------------------------------------------------------
(***************************************************************************)
(* A rewrite adds no finding.                                              *)
(***************************************************************************)
LEMMA OwnByOffenders ==
  ASSUME NEW sql \in Statement, NEW f
  PROVE  f \in Own(sql) <=>
           \/ f = Flag("null_semantics", "error")
              /\ \E a \in ToSet(sql.where) : NotInOffender(a, sql.where)
           \/ f = Flag("null_semantics", "warn")
              /\ \E a \in ToSet(sql.where) : NeqOffender(a, sql.where)
           \/ f = Flag("timestamp_equality", "error")
              /\ \E a \in ToSet(sql.where) : TimestampOffender(a)
           \/ f = Flag("filter_required", "error")
              /\ \E i \in DOMAIN sql.where : UnboundedSubquery(sql.where[i])
  <1>1. \A condition \in BOOLEAN : \A check, severity :
          f \in ToSet(FlagIf(condition, check, severity)) <=> condition /\ f = Flag(check, severity)
    <2> SUFFICES ASSUME NEW condition \in BOOLEAN, NEW check, NEW severity
                 PROVE  f \in ToSet(FlagIf(condition, check, severity))
                          <=> condition /\ f = Flag(check, severity)
      OBVIOUS
    <2> DEFINE g == Flag(check, severity)
    <2>1. FlagIf(condition, check, severity) = IF condition THEN <<g>> ELSE <<>>
      BY DEF FlagIf
    <2> HIDE DEF g
    <2>2. ToSet(<<g>>) = {g} /\ ToSet(<<>>) = {}
      BY Singleton, EmptySequence
    <2>3. f \in ToSet(FlagIf(condition, check, severity)) <=> condition /\ f = g
      BY <2>1, <2>2
    <2> QED
      BY <2>3 DEF g
  <1>2. f \in ToSet(UnboundedFlags(sql)) <=>
          f = Flag("filter_required", "error")
          /\ \E i \in DOMAIN sql.where : UnboundedSubquery(sql.where[i])
    <2> DEFINE where == sql.where
               T == {i \in DOMAIN where : UnboundedSubquery(where[i])}
               g == Flag("filter_required", "error")
               s == [n \in 1 .. Cardinality(T) |-> g]
    <2>1. UnboundedFlags(sql) = s
      BY DEF UnboundedFlags, Quantify
    <2>2. T \in SUBSET DOMAIN where /\ (T = {} <=> ~ \E i \in DOMAIN where : UnboundedSubquery(where[i]))
      OBVIOUS
    <2>3. IsFiniteSet(T)
      <3>1. where \in Seq(Atom)
        BY DEF Statement
      <3>2. DOMAIN where = 1 .. Len(where) /\ Len(where) \in Nat
        BY <3>1
      <3>3. IsFiniteSet(1 .. Len(where))
        BY <3>2, FS_Interval
      <3> QED
        BY <2>2, <3>2, <3>3, FS_Subset
    <2> HIDE DEF T, g
    <2>4. Cardinality(T) \in Nat /\ (Cardinality(T) = 0 <=> T = {})
      BY <2>3, FS_CardinalityType, FS_EmptySet
    <2>5. f \in ToSet(s) <=> f = g /\ T # {}
      <3>1. T # {} => 1 \in 1 .. Cardinality(T)
        BY <2>4
      <3>2. T = {} => 1 .. Cardinality(T) = {}
        BY <2>4
      <3>3. f \in ToSet(s) <=> \E n \in 1 .. Cardinality(T) : f = g
        BY DEF ToSet
      <3> QED
        BY <3>1, <3>2, <3>3
    <2> HIDE DEF s
    <2> QED
      BY <2>1, <2>2, <2>5 DEF g
  <1>3. f \in Own(sql) <=> \/ f \in ToSet(NotInFlags(sql)) \/ f \in ToSet(NeqFlags(sql))
                           \/ f \in ToSet(TimestampFlags(sql)) \/ f \in ToSet(UnboundedFlags(sql))
    BY DEF Own
  <1>4. f \in ToSet(NotInFlags(sql)) <=>
          f = Flag("null_semantics", "error")
          /\ \E a \in ToSet(sql.where) : NotInOffender(a, sql.where)
    BY <1>1 DEF NotInFlags
  <1>5. f \in ToSet(NeqFlags(sql)) <=>
          f = Flag("null_semantics", "warn")
          /\ \E a \in ToSet(sql.where) : NeqOffender(a, sql.where)
    BY <1>1 DEF NeqFlags
  <1>6. f \in ToSet(TimestampFlags(sql)) <=>
          f = Flag("timestamp_equality", "error")
          /\ \E a \in ToSet(sql.where) : TimestampOffender(a)
    BY <1>1 DEF TimestampFlags
  <1> QED
    BY <1>2, <1>3, <1>4, <1>5, <1>6

LEMMA FailingMembers ==
  ASSUME NEW sql \in Statement, sql.parses, NEW finding
  PROVE  finding \in Failing(sql) <=> \E f \in Own(sql) : finding = <<f.check, f.severity>>
  <1> DEFINE flags == ReportOn(sql, NoOthers, Silent).flags
  <1>1. NoOthers \in Others /\ Silent \in Answer /\ Foreign(NoOthers, Silent) = {}
    BY Quiet
  <1>2. ToSet(flags) = Foreign(NoOthers, Silent) \cup Own(sql)
    BY <1>1, ReportFlags
  <1>3. ToSet(flags) = Own(sql)
    BY <1>1, <1>2
  <1>4. finding \in Failing(sql) <=> \E i \in DOMAIN flags : finding = <<flags[i].check, flags[i].severity>>
    BY DEF Failing
  <1> HIDE DEF flags
  <1>5. finding \in Failing(sql) <=> \E f \in ToSet(flags) : finding = <<f.check, f.severity>>
    BY <1>4 DEF ToSet
  <1> QED
    BY <1>3, <1>5

LEMMA RepairAddsNothing ==
  ASSUME NEW sql \in Statement, ~ RepairRaises(sql)
  PROVE  Failing(RepairSql(sql).sql) \subseteq Failing(sql)
  <1>1. CASE ~ sql.parses
    BY <1>1 DEF RepairSql
  <1>2. CASE sql.parses
    <2> DEFINE fixed == RepairSql(sql).sql
               guarded == AnyIs(Map(FixNotIn, sql.where))
    <2>1. fixed \in Statement /\ fixed.parses /\ RewriteRound(sql.where, fixed.where, guarded)
      BY <1>2, Repaired
    <2> HIDE DEF fixed, guarded
    <2> DEFINE old == sql.where
               new == fixed.where
    <2>2. /\ DOMAIN new = DOMAIN old
          /\ \A i \in DOMAIN old : old[i] \in Atom /\ new[i] = Rewritten(old[i], guarded)
      BY <2>1 DEF RewriteRound
    <2>3. NullTested(old) \subseteq NullTested(new)
      BY <2>1, RoundKeepsTests
    <2>4. ASSUME NEW a \in ToSet(new), NotInOffender(a, new)
          PROVE  \E b \in ToSet(old) : NotInOffender(b, old)
      <3>1. PICK i \in DOMAIN old : a = new[i]
        BY <2>2 DEF ToSet
      <3>2. a.kind # "not_in_list_with_null"
        BY <2>2, <3>1, RewriteFacts
      <3>3. a.kind = "not_in_query" /\ ~ SubqueryNullSafe(a.query) /\ a.column \notin NullTested(new)
        BY <2>4, <3>2 DEF NotInOffender
      <3>4. a = old[i]
        BY <2>2, <3>1, <3>3, RewriteFacts
      <3> QED
        BY <2>3, <3>1, <3>3, <3>4 DEF NotInOffender, ToSet
    <2>5. ASSUME NEW a \in ToSet(new), NeqOffender(a, new)
          PROVE  \E b \in ToSet(old) : NeqOffender(b, old)
      <3>1. PICK i \in DOMAIN old : a = new[i]
        BY <2>2 DEF ToSet
      <3>2. a.kind = "neq" /\ a.column \notin NullTested(new)
        BY <2>5 DEF NeqOffender
      <3>3. a = old[i]
        BY <2>2, <3>1, <3>2, RewriteFacts
      <3> QED
        BY <2>3, <3>1, <3>2, <3>3 DEF NeqOffender, ToSet
    <2>6. ASSUME NEW a \in ToSet(new), TimestampOffender(a)
          PROVE  \E b \in ToSet(old) : TimestampOffender(b)
      <3>1. PICK i \in DOMAIN old : a = new[i]
        BY <2>2 DEF ToSet
      <3>2. a.kind = "bad_timestamp_equality"
        BY <2>2, <2>6, <3>1, RewriteFacts DEF TimestampOffender
      <3>3. a = old[i]
        <4>1. ~ Fixes(old[i], guarded)
          <5>1. old[i].kind = "not_in_list_with_null" => a.kind = "not_in_list"
            BY <2>2, <3>1, RewriteCases DEF Atom
          <5>2. old[i].kind = "timestamp_equality" => a.kind = "range"
            BY <2>2, <3>1, RewriteCases DEF Atom
          <5>3. FixesNeq(old[i], guarded) => a.kind = "neq_or_null"
            BY <2>2, <3>1, RewriteCases DEF Atom
          <5>4. old[i].kind = "not_in_query" /\ FixesNotIn(old[i]) => a.kind = "not_in_query"
            BY <2>2, <3>1, RewriteCases DEF Atom
          <5> QED
            BY <3>2, <5>1, <5>2, <5>3, <5>4 DEF Fixes, FixesNotIn
        <4> QED
          BY <2>2, <3>1, <4>1, RewriteFacts
      <3> QED
        BY <2>6, <3>1, <3>3 DEF ToSet
    <2>7. ASSUME NEW i \in DOMAIN new, UnboundedSubquery(new[i])
          PROVE  \E j \in DOMAIN old : UnboundedSubquery(old[j])
      <3>1. new[i].kind = "not_in_query" /\ new[i].query.where = <<>>
        BY <2>7 DEF UnboundedSubquery
      <3>2. new[i] = old[i]
        BY <2>2, <3>1, RewriteFacts
      <3> QED
        BY <2>2, <2>7, <3>2
    <2>8. ASSUME NEW f \in Own(fixed) PROVE f \in Own(sql)
      <3>1. \/ f = Flag("null_semantics", "error") /\ \E a \in ToSet(new) : NotInOffender(a, new)
            \/ f = Flag("null_semantics", "warn") /\ \E a \in ToSet(new) : NeqOffender(a, new)
            \/ f = Flag("timestamp_equality", "error") /\ \E a \in ToSet(new) : TimestampOffender(a)
            \/ f = Flag("filter_required", "error") /\ \E i \in DOMAIN new : UnboundedSubquery(new[i])
        BY <2>1, <2>8, OwnByOffenders
      <3>2. \/ f = Flag("null_semantics", "error") /\ \E a \in ToSet(old) : NotInOffender(a, old)
            \/ f = Flag("null_semantics", "warn") /\ \E a \in ToSet(old) : NeqOffender(a, old)
            \/ f = Flag("timestamp_equality", "error") /\ \E a \in ToSet(old) : TimestampOffender(a)
            \/ f = Flag("filter_required", "error") /\ \E i \in DOMAIN old : UnboundedSubquery(old[i])
        BY <2>4, <2>5, <2>6, <2>7, <3>1
      <3> QED
        BY <3>2, OwnByOffenders
    <2>9. Failing(fixed) \subseteq Failing(sql)
      BY <1>2, <2>1, <2>8, FailingMembers
    <2> QED
      BY <2>9 DEF fixed
  <1> QED
    BY <1>1, <1>2

(***************************************************************************)
(* The other half of the inductive invariant: what the recorded repairs    *)
(* say of the statement.  Once there is one, some conjunct is further on   *)
(* than it was submitted, for good, and what is no query is settled.       *)
(***************************************************************************)
Advanced(old, new) ==
  /\ \A i \in DOMAIN old : Progress(old[i]) <= Progress(new[i])
  /\ \E i \in DOMAIN old : Progress(old[i]) < Progress(new[i])

Settled(where) ==
  \A i \in DOMAIN where :
    /\ where[i].kind \notin {"not_in_list_with_null", "timestamp_equality"}
    /\ where[i].kind = "neq" => /\ where[i].column \in AnyIs(where)
                                /\ where[i].column \in AnyIs(Map(FixNotIn, where))

TrailInv ==
  /\ repairs \in Seq(RuleName)
  /\ final_report.confidence \in Doubles
  /\ verified \in BOOLEAN /\ escalate \in BOOLEAN
  /\ phase \in {"verify", "repair", "final", "returned", "raised"}
  /\ current.parses = call.sql.parses /\ DOMAIN current.where = DOMAIN call.sql.where
  /\ repairs = <<>> => current = call.sql
  /\ repairs # <<>> => Advanced(call.sql.where, current.where) /\ Settled(current.where)
  /\ round_no = 0 => repairs = <<>>
  /\ phase = "repair" => round_no # 0
  /\ phase = "returned" /\ Len(judged) = 1 => repairs = <<>>

LEMMA RoundSettles ==
  ASSUME NEW old, NEW new, NEW guarded, RewriteRound(old, new, guarded)
  PROVE  Settled(new)
  <1>1. DOMAIN new = DOMAIN old /\ \A i \in DOMAIN old : old[i] \in Atom /\ new[i] = Rewritten(old[i], guarded)
    BY DEF RewriteRound
  <1>2. guarded \subseteq AnyIs(new) /\ guarded \subseteq AnyIs(Map(FixNotIn, new))
    BY RoundKeepsTests
  <1>3. \A i \in DOMAIN old :
          /\ new[i].kind \notin {"not_in_list_with_null", "timestamp_equality"}
          /\ new[i].kind = "neq" => new[i].column \in guarded
    BY <1>1, RewriteFacts
  <1> QED
    BY <1>1, <1>2, <1>3 DEF Settled

LEMMA RoundAdvances ==
  ASSUME NEW old, NEW new, NEW guarded, RewriteRound(old, new, guarded),
         NEW first \in Seq(Atom), DOMAIN old = DOMAIN first,
         first = old \/ Advanced(first, old),
         \E i \in DOMAIN old : Fixes(old[i], guarded)
  PROVE  Advanced(first, new)
  <1>1. /\ DOMAIN new = DOMAIN old
        /\ \A i \in DOMAIN old : old[i] \in Atom /\ new[i] = Rewritten(old[i], guarded)
    BY DEF RewriteRound
  <1>2. \A i \in DOMAIN old : /\ Progress(old[i]) \in Nat /\ Progress(new[i]) \in Nat
                              /\ Progress(old[i]) <= Progress(new[i])
                              /\ Fixes(old[i], guarded) => Progress(old[i]) < Progress(new[i])
    BY <1>1, RewriteFacts
  <1>3. \A i \in DOMAIN first : Progress(first[i]) \in Nat
    <2>1. \A i \in DOMAIN first : first[i] \in Atom
      OBVIOUS
    <2> QED
      BY <2>1, RewriteFacts
  <1>4. \A i \in DOMAIN first : Progress(first[i]) <= Progress(old[i])
    BY <1>2, <1>3 DEF Advanced
  <1>5. PICK i \in DOMAIN old : Fixes(old[i], guarded)
    OBVIOUS
  <1>6. Progress(first[i]) < Progress(new[i])
    BY <1>2, <1>3, <1>4, <1>5
  <1>7. \A j \in DOMAIN first : Progress(first[j]) <= Progress(new[j])
    BY <1>2, <1>3, <1>4
  <1> QED
    BY <1>5, <1>6, <1>7 DEF Advanced

LEMMA ReportOnIsTyped ==
  ASSUME NEW sql \in Statement, NEW others \in Others, NEW answer \in Answer
  PROVE  ReportOn(sql, others, answer).confidence \in Doubles
  <1>1. ASSUME NEW fs \in Seq(Finding) PROVE Add(EmptyReport, fs).confidence \in Doubles
    <2>1. Add(EmptyReport, fs) \in ReportType
      BY EmptyReportIsTyped, AddFacts
    <2> QED
      BY <2>1 DEF ReportType, Confidences
  <1>2. CASE ~ sql.parses
    <2>1. "ast_parse" \in CheckName /\ "critical" \in Severity
      BY DEF CheckName, Severity
    <2>2. <<Flag("ast_parse", "critical")>> \in Seq(Finding)
      BY <2>1, FlagType, Singleton
    <2> QED
      BY <1>1, <1>2, <2>2 DEF ReportOn
  <1>3. CASE sql.parses
    <2> DEFINE a == NotInFlags(sql)
               b == NeqFlags(sql)
               c == TimestampFlags(sql)
               d == UnboundedFlags(sql)
               p == answer.before
               q == others.before
               r == others.between
               x == others.after
               y == answer.after
    <2>1. ReportOn(sql, others, answer)
            = Add(EmptyReport, p \o q \o a \o b \o c \o r \o d \o x \o y)
      BY <1>3 DEF ReportOn, NotInFlags, NeqFlags, TimestampFlags, UnboundedFlags
    <2>2. a \in Seq(Finding) /\ b \in Seq(Finding) /\ c \in Seq(Finding) /\ d \in Seq(Finding)
      BY OwnFlags, UnboundedType
    <2>3. /\ p \in Seq(Finding) /\ q \in Seq(Finding) /\ r \in Seq(Finding)
          /\ x \in Seq(Finding) /\ y \in Seq(Finding)
      BY DEF Others, Answer
    <2> HIDE DEF a, b, c, d, p, q, r, x, y
    <2>4. p \o q \o a \o b \o c \o r \o d \o x \o y \in Seq(Finding)
      BY <2>2, <2>3
    <2> QED
      BY <1>1, <2>1, <2>4
  <1> QED
    BY <1>2, <1>3

LEMMA TrailInit == Init => TrailInv
  <1> SUFFICES ASSUME Init PROVE TrailInv
    OBVIOUS
  <1>1. repairs = <<>> /\ round_no = 0 /\ phase = "verify" /\ current = call.sql
        /\ final_report = EmptyReport
    BY DEF Init
  <1>2. verified \in BOOLEAN /\ escalate \in BOOLEAN
    BY Zenon DEF Init
  <1>3. final_report.confidence \in Doubles
    BY <1>1, EmptyReportIsTyped DEF ReportType, Confidences
  <1>4. repairs \in Seq(RuleName)
    BY <1>1, EmptySequence
  <1> QED
    BY <1>1, <1>2, <1>3, <1>4 DEF TrailInv

LEMMA TrailStep == LoopInv /\ TrailInv /\ [Next]_vars => TrailInv'
  <1> SUFFICES ASSUME LoopInv, TrailInv, [Next]_vars PROVE TrailInv'
    OBVIOUS
  <1>0. LoopTypeInv /\ RunningInv
    BY DEF LoopInv
  <1>1. /\ call.sql \in Statement /\ call.others \in Others /\ current \in Statement
        /\ judged \in Seq(Statement) /\ call.max_rounds \in Nat /\ round_no \in Nat
    BY <1>0, CallType DEF LoopTypeInv
  <1>2. ASSUME Verification
        PROVE  final_report'.confidence \in Doubles /\ Len(judged') = Len(judged) + 1 /\ Len(judged) \in Nat
    <2>1. PICK answer \in Answer : final_report' = ReportOn(current, call.others, answer)
      BY <1>0, <1>2, VerificationFacts
    <2>2. Len(judged') = Len(judged) + 1 /\ Len(judged) \in Nat
      BY <1>0, <1>1, <1>2, VerificationFacts
    <2> QED
      BY <1>1, <2>1, <2>2, ReportOnIsTyped
  <1>3. CASE VerifyRound
    <2>1. /\ Verification /\ phase = "verify" /\ round_no' = round_no + 1
          /\ call' = call /\ current' = current /\ repairs' = repairs
          /\ phase' \in {"repair", "returned"}
      BY <1>3 DEF VerifyRound
    <2>2. verified' \in BOOLEAN /\ escalate' \in BOOLEAN
      <3>1. verified' = TRUE \/ verified' = verified
        BY <1>3, Zenon DEF VerifyRound
      <3>2. escalate' = escalate
        BY <1>3, Zenon DEF VerifyRound
      <3> QED
        BY <3>1, <3>2, Zenon DEF TrailInv
    <2>3. Len(judged) = round_no
      BY <1>0, <2>1 DEF RunningInv
    <2>4. Len(judged') = 1 => repairs' = <<>>
      BY <1>2, <2>1, <2>3 DEF TrailInv
    <2>5. round_no' # 0
      BY <1>1, <2>1
    <2> QED
      BY <1>2, <2>1, <2>2, <2>4, <2>5 DEF TrailInv
  <1>4. CASE RoundsExhausted \/ RepairFails
    <2>1. /\ phase' \in {"final", "raised"}
          /\ UNCHANGED <<call, current, round_no, repairs, final_report, verified, escalate, judged>>
      BY <1>4 DEF RoundsExhausted, RepairFails
    <2>2. verified' \in BOOLEAN /\ escalate' \in BOOLEAN
      BY <2>1, Zenon DEF TrailInv
    <2> QED
      BY <2>1, <2>2 DEF TrailInv
  <1>5. CASE RepairRound
    <2>1. /\ phase = "repair" /\ ~ RepairRaises(current)
          /\ UNCHANGED <<call, round_no, final_report, verified, escalate, judged>>
      BY <1>5 DEF RepairRound
    <2>2. verified' \in BOOLEAN /\ escalate' \in BOOLEAN
      BY <2>1, Zenon DEF TrailInv
    <2>3. CASE RepairSql(current).repairs = <<>>
      <3>1. phase' = "final" /\ current' = current /\ repairs' = repairs
        BY <1>5, <2>3 DEF RepairRound
      <3> QED
        BY <2>1, <2>2, <3>1 DEF TrailInv
    <2>4. CASE RepairSql(current).repairs # <<>>
      <3> DEFINE done == RepairSql(current)
                 guarded == AnyIs(Map(FixNotIn, current.where))
      <3>1. /\ phase' = "verify" /\ current' = done.sql
            /\ repairs' = repairs \o done.repairs
        BY <1>5, <2>4 DEF RepairRound
      <3>2. current.parses
        BY <2>4 DEF RepairSql
      <3>3. /\ done.sql \in Statement /\ done.sql.parses
            /\ RewriteRound(current.where, done.sql.where, guarded)
            /\ done.repairs \in Seq(RuleName)
            /\ \E i \in DOMAIN current.where : Fixes(current.where[i], guarded)
        BY <1>1, <2>1, <2>4, <3>2, Repaired
      <3>4. done.repairs # <<>>
        BY <2>4
      <3> HIDE DEF done, guarded
      <3>5. repairs' \in Seq(RuleName) /\ repairs' # <<>>
        BY <3>1, <3>3, <3>4 DEF TrailInv
      <3>6. DOMAIN done.sql.where = DOMAIN current.where
        BY <3>3 DEF RewriteRound
      <3>7. Settled(done.sql.where)
        BY <3>3, RoundSettles
      <3>8. Advanced(call.sql.where, done.sql.where)
        <4>1. call.sql.where \in Seq(Atom) /\ DOMAIN current.where = DOMAIN call.sql.where
          BY <1>1 DEF Statement, TrailInv
        <4>2. call.sql.where = current.where \/ Advanced(call.sql.where, current.where)
          BY DEF TrailInv
        <4> QED
          BY <3>3, <4>1, <4>2, RoundAdvances
      <3>9. current'.parses = call'.sql.parses /\ DOMAIN current'.where = DOMAIN call'.sql.where
        <4>1. call' = call /\ current.parses = call.sql.parses
              /\ DOMAIN current.where = DOMAIN call.sql.where
          BY <2>1 DEF TrailInv
        <4>2. done.sql.parses = TRUE /\ current.parses = TRUE
          BY <1>1, <3>2, <3>3, Zenon DEF Statement
        <4> QED
          BY <3>1, <3>6, <4>1, <4>2
      <3>10. Advanced(call.sql.where, current.where)' /\ Settled(current.where)'
        <4>1. Advanced(call.sql.where, current.where)' <=> Advanced(call.sql.where, done.sql.where)
          BY <2>1, <3>1 DEF Advanced
        <4>2. Settled(current.where)' <=> Settled(done.sql.where)
          BY <3>1 DEF Settled
        <4> QED
          BY <3>7, <3>8, <4>1, <4>2
      <3>11. round_no' # 0 /\ phase' = "verify"
        BY <2>1, <3>1 DEF TrailInv
      <3>12. final_report'.confidence \in Doubles
        BY <2>1 DEF TrailInv
      <3> QED
        BY <2>2, <3>5, <3>9, <3>10, <3>11, <3>12 DEF TrailInv
    <2> QED
      BY <2>3, <2>4
  <1>6. CASE FinalVerify
    <2>1. /\ Verification /\ phase = "final" /\ phase' = "returned"
          /\ call' = call /\ current' = current /\ repairs' = repairs /\ round_no' = round_no
      BY <1>6 DEF FinalVerify
    <2>2. verified' \in BOOLEAN /\ escalate' \in BOOLEAN
      <3>1. verified' = CleanReport(final_report') /\ escalate' = ~ verified'
        BY <1>6, Zenon DEF FinalVerify
      <3>2. CleanReport(final_report') \in BOOLEAN
        BY DEF CleanReport
      <3> QED
        BY <3>1, <3>2, Zenon
    <2>3. Len(judged) = round_no
      BY <1>0, <2>1 DEF RunningInv
    <2>4. Len(judged') = 1 => repairs' = <<>>
      BY <1>2, <2>1, <2>3 DEF TrailInv
    <2> QED
      BY <1>2, <2>1, <2>2, <2>4 DEF TrailInv
  <1>7. CASE UNCHANGED vars
    <2>1. UNCHANGED <<call, current, round_no, repairs, final_report, verified, escalate, phase, judged>>
      BY <1>7 DEF vars
    <2>2. verified' \in BOOLEAN /\ escalate' \in BOOLEAN
      BY <2>1, Zenon DEF TrailInv
    <2> QED
      BY <2>1, <2>2 DEF TrailInv
  <1> QED
    BY <1>3, <1>4, <1>5, <1>6, <1>7 DEF Next

LEMMA TrailInvariant == Spec => [](LoopInv /\ TrailInv)
  BY LoopInit, LoopStep, TrailInit, TrailStep, PTL DEF Spec

-----------------------------------------------------------------------------
(***************************************************************************)
(* The state of a repair always has its type; the number of rounds stays   *)
(* within its limit.                                                       *)
(***************************************************************************)
LEMMA TrailIsTyped == LoopInv /\ TrailInv => TypeOK
  <1> SUFFICES ASSUME LoopInv, TrailInv PROVE TypeOK
    OBVIOUS
  <1>1. verified \in BOOLEAN /\ escalate \in BOOLEAN
    BY DEF TrailInv
  <1>2. /\ repairs \in Seq(RuleName) /\ final_report.confidence \in Doubles
        /\ phase \in {"verify", "repair", "final", "returned", "raised"}
    BY DEF TrailInv
  <1>3. LoopTypeInv
    BY DEF LoopInv
  <1> QED
    BY <1>1, <1>2, <1>3 DEF LoopTypeInv, TypeOK, RuleName

(***************************************************************************)
(* The state of verify_and_repair always has its type; the confidence of   *)
(* the final report is a double in 0.0 .. 1.0.                             *)
(***************************************************************************)
THEOREM RepairIsTyped == Spec => []TypeOK
  BY TrailInvariant, TrailIsTyped, PTL

LEMMA InvConsistent == LoopInv /\ TrailInv => ResultIsConsistent
  <1> SUFFICES ASSUME LoopInv, TrailInv, phase = "returned"
               PROVE  /\ judged # <<>> /\ Last(judged) = final_sql
                      /\ verified <=> CleanReport(final_report)
                      /\ escalate <=> ~ verified
                      /\ verified =>
                           /\ final_sql.parses
                           /\ \A a \in ToSet(final_sql.where) :
                                ~ TimestampOffender(a) /\ ~ NotInOffender(a, final_sql.where)
                      /\ repairs # <<>> =>
                           \A a \in ToSet(final_sql.where) :
                             a.kind = "neq" => a.column \in AnyIs(final_sql.where)
    BY DEF ResultIsConsistent
  <1>1. LoopTypeInv /\ ReturnedInv
    BY DEF LoopInv
  <1>2. judged # <<>> /\ Last(judged) = final_sql
    BY <1>1, EmptySequence DEF ReturnedInv, Last
  <1>3. /\ verified <=> CleanReport(final_report)
        /\ escalate <=> ~ verified
    BY <1>1 DEF ReturnedInv
  <1>4. PICK answer \in Answer : final_report = ReportOn(final_sql, call.others, answer)
    BY <1>1 DEF ReturnedInv
  <1>5. final_sql \in Statement /\ call.others \in Others
    BY <1>1, CallType DEF LoopTypeInv
  <1>6. ASSUME verified
        PROVE  /\ final_sql.parses
               /\ \A a \in ToSet(final_sql.where) :
                    ~ TimestampOffender(a) /\ ~ NotInOffender(a, final_sql.where)
    <2>1. CleanReport(ReportOn(final_sql, call.others, answer))
      BY <1>3, <1>4, <1>6
    <2> QED
      BY <1>5, <2>1, CleanStatement
  <1>7. ASSUME repairs # <<>>, NEW a \in ToSet(final_sql.where), a.kind = "neq"
        PROVE  a.column \in AnyIs(final_sql.where)
    <2>1. Settled(final_sql.where)
      BY <1>1, <1>7 DEF ReturnedInv, TrailInv
    <2>2. PICK i \in DOMAIN final_sql.where : a = final_sql.where[i]
      BY <1>7 DEF ToSet
    <2> QED
      BY <1>7, <2>1, <2>2 DEF Settled
  <1> QED
    BY <1>2, <1>3, <1>6, <1>7

(***************************************************************************)
(* Whatever the statement, the number of rounds and the answers of the     *)
(* database: the result of verify_and_repair speaks of one statement, the  *)
(* last one verified; a verified one compares no timestamp with a bare     *)
(* date and has no NOT IN that null_semantics reports (one hidden by an IS *)
(* NULL on its column is not excluded); and after any repair each != left  *)
(* is on a column that some IS refers to.                                  *)
(***************************************************************************)
THEOREM ResultConsistent == Spec => []ResultIsConsistent
  BY TrailInvariant, InvConsistent, PTL

(***************************************************************************)
(* The audit trail is complete: there is a recorded repair exactly if the  *)
(* statement differs from the one submitted.  Later rounds never undo what *)
(* an earlier one did, so that the trail cannot name repairs of a          *)
(* statement that came out as it went in.                                  *)
(***************************************************************************)
THEOREM RewritesRecorded == Spec => []RewritesAreRecorded
  <1>1. LoopInv /\ TrailInv => RewritesAreRecorded
    <2> SUFFICES ASSUME LoopInv, TrailInv PROVE RewritesAreRecorded
      OBVIOUS
    <2>1. repairs # <<>> => current # call.sql
      <3>1. ASSUME repairs # <<>>, current = call.sql PROVE FALSE
        <4>1. PICK i \in DOMAIN call.sql.where :
                Progress(call.sql.where[i]) < Progress(current.where[i])
          BY <3>1 DEF TrailInv, Advanced
        <4>2. call.sql.where[i] \in Atom
          <5>1. call.sql \in Statement
            BY CallType DEF LoopInv, LoopTypeInv
          <5>2. call.sql.where \in Seq(Atom)
            BY <5>1 DEF Statement
          <5> QED
            BY <5>2
        <4>3. Progress(call.sql.where[i]) \in Nat
          BY <4>2, RewriteFacts
        <4> QED
          BY <3>1, <4>1, <4>3
      <3> QED
        BY <3>1
    <2>2. repairs = <<>> => current = call.sql
      BY DEF TrailInv
    <2>3. Len(judged) = 1 /\ verified => final_sql = call.sql
      <3> SUFFICES ASSUME Len(judged) = 1, verified PROVE final_sql = call.sql
        OBVIOUS
      <3>1. phase = "returned"
        BY Zenon DEF LoopInv, RunningInv
      <3>2. final_sql = current /\ repairs = <<>>
        BY <3>1 DEF LoopInv, ReturnedInv, TrailInv
      <3> QED
        BY <2>2, <3>2
    <2> QED
      BY <2>1, <2>2, <2>3 DEF RewritesAreRecorded
  <1> QED
    BY <1>1, TrailInvariant, PTL

(***************************************************************************)
(* Only a repair round changes the statement.                              *)
(***************************************************************************)
LEMMA OnlyRepairsRewrite ==
  ASSUME Next, current' # current
  PROVE  /\ ~ RepairRaises(current)
         /\ current' = RepairSql(current).sql /\ RepairSql(current).repairs # <<>>
  BY DEF Next, VerifyRound, RoundsExhausted, RepairRound, RepairFails, FinalVerify

(***************************************************************************)
(* No rewrite, of whatever statement, makes it fail a check it passed.     *)
(***************************************************************************)
THEOREM RewritesAreSafe == Spec => RewriteAddsNoFinding
  <1>1. LoopInv /\ [Next]_vars => [Failing(current') \subseteq Failing(current)]_vars
    <2> SUFFICES ASSUME LoopInv, Next PROVE Failing(current') \subseteq Failing(current)
      OBVIOUS
    <2>1. CASE current' = current
      BY <2>1
    <2>2. CASE current' # current
      <3>1. current \in Statement
        BY DEF LoopInv, LoopTypeInv
      <3> QED
        BY <2>2, <3>1, OnlyRepairsRewrite, RepairAddsNothing
    <2> QED
      BY <2>1, <2>2
  <1> QED
    BY <1>1, LoopInvariant, PTL DEF Spec, RewriteAddsNoFinding

(***************************************************************************)
(* The three rewrites need one round: what a second one still changes are  *)
(* the queries of NOT INs, which are guarded again whenever it runs.       *)
(***************************************************************************)
THEOREM OneRoundIsEnough == Spec => OneRoundSettles
  <1> DEFINE Stays == current' # current /\ repairs # <<>> =>
                        \A i \in DOMAIN current.where :
                          current.where[i].kind # "not_in_query" =>
                            current'.where[i] = current.where[i]
  <1>1. LoopInv /\ TrailInv /\ [Next]_vars => [Stays]_vars
    <2> SUFFICES ASSUME LoopInv, TrailInv, Next, current' # current, repairs # <<>>,
                        NEW i \in DOMAIN current.where,
                        current.where[i].kind # "not_in_query"
                 PROVE  current'.where[i] = current.where[i]
      OBVIOUS
    <2> DEFINE a == current.where[i]
               guarded == AnyIs(Map(FixNotIn, current.where))
    <2>1. /\ ~ RepairRaises(current) /\ current \in Statement
          /\ current' = RepairSql(current).sql /\ RepairSql(current).repairs # <<>>
      BY OnlyRepairsRewrite DEF LoopInv, LoopTypeInv
    <2>2. current.parses
      BY <2>1 DEF RepairSql
    <2>3. RewriteRound(current.where, current'.where, guarded)
      BY <2>1, <2>2, Repaired
    <2>4. a \in Atom /\ current'.where[i] = Rewritten(a, guarded)
      <3>1. current.where \in Seq(Atom)
        BY <2>1 DEF Statement
      <3>2. a \in Atom
        BY <3>1
      <3> QED
        BY <2>3, <3>2 DEF RewriteRound
    <2>5. /\ a.kind \notin {"not_in_list_with_null", "timestamp_equality"}
          /\ a.kind = "neq" => a.column \in guarded
      BY DEF TrailInv, Settled
    <2>6. ~ Fixes(a, guarded)
      BY <2>5 DEF Fixes, FixesNotIn, FixesNeq
    <2> HIDE DEF a, guarded
    <2>7. Rewritten(a, guarded) = a
      BY <2>4, <2>6, RewriteCases
    <2> QED
      BY <2>4, <2>7 DEF a
  <1> QED
    BY <1>1, TrailInvariant, PTL DEF Spec, OneRoundSettles

=============================================================================
