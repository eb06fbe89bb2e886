------------------------------ MODULE History ------------------------------
(***************************************************************************)
(* The query-history learner (src/src/verisql/history.py) and its twin in  *)
(* the Postgres extension (src/postgres-extension/verisql--0.1.0.sql): the *)
(* row counts of a tagged query are stored, and a new count is compared    *)
(* with the mean and the spread of the stored ones.                        *)
(*                                                                         *)
(* Several sessions check and record one tag while the data changes.  A    *)
(* call executes the statement, reads the table and writes it in separate  *)
(* steps, and may execute the statement a second time in between.  Tags do *)
(* not interact; the fingerprint is stored and never read.                 *)
(*                                                                         *)
(* A session of QueryHistory is one SQLite connection.  Nothing rolls back *)
(* when a commit raises: the row stays in the connection's transaction,    *)
(* where the same connection reads it.  A call of the extension is taken   *)
(* to be a transaction of its own, and leaves nothing behind if it raises. *)
(***************************************************************************)
EXTENDS Integers, Sequences

CONSTANTS
  Sessions,    \* the processes that use the table
  RowCounts,   \* the numbers of rows the statement may have
  Cap,         \* max_rows of QueryHistory, 10000
  MaxRecords   \* bound: no new call begins with so many records

ASSUME SessionsAssumption == Sessions # {}
ASSUME RowCountsAssumption == RowCounts \subseteq Nat /\ RowCounts # {}
ASSUME BoundsAssumption == Cap \in Nat \ {0} /\ MaxRecords \in Nat

Severities == {"none", "info", "warn", "error"}

(***************************************************************************)
(* A record keeps its row count, and, as history, which session wrote it   *)
(* and whether as the baseline of a first check.                           *)
(***************************************************************************)
Record == [rows : Nat, by : Sessions, baseline : BOOLEAN]

(***************************************************************************)
(* A call: what it is doing, the row count a check has seen, the one that  *)
(* is about to be recorded and whether as a baseline, the counts that were *)
(* read from the table, and the severity that was returned.                *)
(***************************************************************************)
Stages == {"idle", "reading", "executing", "inserting", "answered", "recorded", "raised"}

Session == [stage : Stages, observed : Nat, pending : Nat, baseline : BOOLEAN, measured : Seq(Nat),
            severity : Severities]

VARIABLES
  backend,   \* "sqlite" or "postgres", which rules and which count are used
  rows_now,  \* the rows the statement has at this moment
  history,   \* the table, restricted to the tag: what was committed
  uncommitted,  \* the rows a connection has inserted and not committed
  session,   \* the call each session is in
  steady     \* history: the data has not changed since the start

vars == <<backend, rows_now, history, uncommitted, session, steady>>

-----------------------------------------------------------------------------
(***************************************************************************)
(* The count a statement with n rows is seen to have: len() of the rows    *)
(* fetched, which are capped, or SQL's count, which is not.                *)
(***************************************************************************)
Seen(n) == IF backend = "sqlite" /\ n > Cap THEN Cap ELSE n

(***************************************************************************)
(* Sum and sum of squares of the stored counts.                            *)
(***************************************************************************)
Sum(counts) ==
  LET s[i \in 0 .. Len(counts)] == IF i = 0 THEN 0 ELSE s[i - 1] + counts[i]
  IN  s[Len(counts)]

Squares(counts) == Sum([i \in DOMAIN counts |-> counts[i] * counts[i]])

(***************************************************************************)
(* len(history) squared times the variance.  The comparisons with the mean *)
(* Sum/n and with sigma are multiplied out, so they are exact; the floats  *)
(* of the code agree for the few and small counts of the instances.        *)
(***************************************************************************)
Spread(counts) == Len(counts) * Squares(counts) - Sum(counts) * Sum(counts)

Drifts(counts, observed) ==
  LET away == Len(counts) * observed - Sum(counts)
  IN  Spread(counts) > 0 /\ away * away > 9 * Spread(counts)

(***************************************************************************)
(* mean / max(observed, 1) in Python; avg_rc / nullif(new_rc, 0) in SQL,   *)
(* which is NULL for an empty result, and a NULL condition does not hold.  *)
(***************************************************************************)
StepsNullIf(counts, observed, engine) ==  \* mutant of Steps: nullif in both
  LET n == Len(counts)
  IN  /\ Sum(counts) > 0
      /\ \/ n * observed > 5 * Sum(counts)
         \/ observed > 0 /\ Sum(counts) > 5 * n * observed

Steps(counts, observed, engine) ==
  LET n == Len(counts)
  IN  /\ Sum(counts) > 0
      /\ \/ n * observed > 5 * Sum(counts)
         \/ observed > 0 /\ Sum(counts) > 5 * n * observed
         \/ observed = 0 /\ engine = "sqlite" /\ Sum(counts) > 5 * n

JudgedByReport(counts, observed, engine) ==  \* mutant of Judged: the severities of a flag
  IF Drifts(counts, observed) THEN "critical"
  ELSE IF Steps(counts, observed, engine) THEN "warn"
  ELSE "none"

Judged(counts, observed, engine) ==
  IF Drifts(counts, observed) THEN "error"
  ELSE IF Steps(counts, observed, engine) THEN "warn"
  ELSE "none"

-----------------------------------------------------------------------------
Idle == [stage |-> "idle", observed |-> 0, pending |-> 0, baseline |-> FALSE, measured |-> <<>>,
         severity |-> "none"]

Init ==
  /\ backend \in {"sqlite", "postgres"}
  /\ rows_now \in RowCounts
  /\ history = <<>>
  /\ uncommitted = [s \in Sessions |-> <<>>]
  /\ session = [s \in Sessions |-> Idle]
  /\ steady = TRUE

(***************************************************************************)
(* Whoever else writes to the database.                                    *)
(***************************************************************************)
DataChanges ==
  /\ rows_now' \in RowCounts \ {rows_now}
  /\ steady' = FALSE
  /\ UNCHANGED <<backend, history, uncommitted, session>>

In(s, stage) == session[s].stage = stage

Resting(s) == session[s].stage \in {"idle", "answered", "recorded", "raised"}

Becomes(s, call) ==
  /\ session' = [session EXCEPT ![s] = call]
  /\ UNCHANGED <<backend, rows_now, steady>>

(***************************************************************************)
(* What a SELECT of this connection finds.                                 *)
(***************************************************************************)
Visible(s) == history \o uncommitted[s]

Counts(s) == [i \in DOMAIN Visible(s) |-> Visible(s)[i].rows]

(***************************************************************************)
(* check: the first execution.  It raises if the database or the guard     *)
(* does, and nothing in check catches that.                                *)
(***************************************************************************)
Check(s) ==
  /\ Resting(s) /\ Len(Visible(s)) < MaxRecords
  /\ \/ Becomes(s, [Idle EXCEPT !.stage = "reading", !.observed = Seen(rows_now)])
     \/ Becomes(s, [Idle EXCEPT !.stage = "raised"])
  /\ UNCHANGED <<history, uncommitted>>

(***************************************************************************)
(* check: the stored counts are read, and judged if there are any.  The    *)
(* SELECT raises while another connection is committing.                   *)
(***************************************************************************)
ReadUntilTwo(s) ==  \* mutant of Read: records a baseline until there is a sigma
  /\ In(s, "reading")
  /\ Becomes(s, IF Len(Visible(s)) < 2
                THEN [session[s] EXCEPT !.stage = "executing", !.baseline = TRUE]
                ELSE [session[s] EXCEPT !.stage = "answered", !.measured = Counts(s),
                        !.severity = Judged(Counts(s), session[s].observed, backend)])
  /\ UNCHANGED <<history, uncommitted>>

ReadWaits(s) ==  \* mutant of Read: waits for a baseline instead of recording one
  /\ In(s, "reading")
  /\ Visible(s) # <<>>
  /\ Becomes(s, [session[s] EXCEPT !.stage = "answered", !.measured = Counts(s),
                   !.severity = Judged(Counts(s), session[s].observed, backend)])
  /\ UNCHANGED <<history, uncommitted>>

Read(s) ==
  /\ In(s, "reading")
  /\ \/ Becomes(s, IF Visible(s) = <<>>
                   THEN [session[s] EXCEPT !.stage = "executing", !.baseline = TRUE]
                   ELSE [session[s] EXCEPT !.stage = "answered", !.measured = Counts(s),
                           !.severity = Judged(Counts(s), session[s].observed, backend)])
     \/ Becomes(s, [Idle EXCEPT !.stage = "raised"])
  /\ UNCHANGED <<history, uncommitted>>

(***************************************************************************)
(* record, called by the user.                                             *)
(***************************************************************************)
BeginRecord(s) ==
  /\ Resting(s) /\ Len(Visible(s)) < MaxRecords
  /\ Becomes(s, [Idle EXCEPT !.stage = "executing"])
  /\ UNCHANGED <<history, uncommitted>>

(***************************************************************************)
(* record: its own execution, the second one of a first check.             *)
(***************************************************************************)
ExecuteUncapped(s) ==  \* mutant of Execute: counts the rows in the database, not those fetched
  /\ In(s, "executing")
  /\ \/ Becomes(s, [session[s] EXCEPT !.stage = "inserting", !.pending = rows_now])
     \/ Becomes(s, [Idle EXCEPT !.stage = "raised"])
  /\ UNCHANGED <<history, uncommitted>>

Execute(s) ==
  /\ In(s, "executing")
  /\ \/ Becomes(s, [session[s] EXCEPT !.stage = "inserting", !.pending = Seen(rows_now)])
     \/ Becomes(s, [Idle EXCEPT !.stage = "raised"])
  /\ UNCHANGED <<history, uncommitted>>

(***************************************************************************)
(* record: INSERT and commit, which also commits what an earlier record of *)
(* the connection has left uncommitted.  A first check then says "info".   *)
(* SQLite lets one connection write at a time, from its INSERT on.         *)
(***************************************************************************)
Row(s) == [rows |-> session[s].pending, by |-> s, baseline |-> session[s].baseline]

Recorded(call) ==
  IF call.baseline
  THEN [Idle EXCEPT !.stage = "answered", !.severity = "info", !.observed = call.observed]
  ELSE [Idle EXCEPT !.stage = "recorded"]

NobodyElseWrites(s) == \A t \in Sessions \ {s} : uncommitted[t] = <<>>

InsertUncommitted(s) ==  \* mutant of Insert: the commit is forgotten
  /\ In(s, "inserting") /\ NobodyElseWrites(s)
  /\ uncommitted' = [uncommitted EXCEPT ![s] = Append(@, Row(s))]
  /\ Becomes(s, Recorded(session[s]))
  /\ UNCHANGED history

Insert(s) ==
  /\ In(s, "inserting") /\ NobodyElseWrites(s)
  /\ history' = Append(Visible(s), Row(s))
  /\ uncommitted' = [uncommitted EXCEPT ![s] = <<>>]
  /\ Becomes(s, Recorded(session[s]))

(***************************************************************************)
(* SQLite, a reader is in the way of the commit for too long: the INSERT   *)
(* was carried out and stays in the open transaction.                      *)
(***************************************************************************)
CommitRaises(s) ==
  /\ In(s, "inserting") /\ NobodyElseWrites(s) /\ backend = "sqlite"
  /\ uncommitted' = [uncommitted EXCEPT ![s] = Append(@, Row(s))]
  /\ Becomes(s, [Idle EXCEPT !.stage = "raised"])
  /\ UNCHANGED history

(***************************************************************************)
(* The INSERT raises, or an error (a full disk) makes SQLite roll back all *)
(* of the transaction.  In Postgres two calls with the same now() have the *)
(* same primary key.                                                       *)
(***************************************************************************)
InsertRaises(s) ==
  /\ In(s, "inserting")
  /\ uncommitted' \in {uncommitted, [uncommitted EXCEPT ![s] = <<>>]}
  /\ Becomes(s, [Idle EXCEPT !.stage = "raised"])
  /\ UNCHANGED history

(***************************************************************************)
(* close, or the end of the process in the middle of a call: SQLite and    *)
(* Postgres forget what was not committed.  Another connection follows.    *)
(***************************************************************************)
Close(s) ==
  /\ Becomes(s, Idle)
  /\ uncommitted' = [uncommitted EXCEPT ![s] = <<>>]
  /\ UNCHANGED history

Step(s) == Read(s) \/ Execute(s) \/ Insert(s) \/ CommitRaises(s) \/ InsertRaises(s)

Next == DataChanges \/ \E s \in Sessions : Check(s) \/ BeginRecord(s) \/ Step(s) \/ Close(s)

(***************************************************************************)
(* Nobody has to call, but a call that was begun goes on: it is straight-  *)
(* line code, given that the database answers or raises.                   *)
(***************************************************************************)
Spec == Init /\ [][Next]_vars /\ \A s \in Sessions : WF_vars(Step(s))

-----------------------------------------------------------------------------
(***************************************************************************)
(* The type invariant of the table and of the calls.                       *)
(***************************************************************************)
TypeOK ==
  /\ backend \in {"sqlite", "postgres"}
  /\ rows_now \in RowCounts
  /\ history \in Seq(Record)
  /\ uncommitted \in [Sessions -> Seq(Record)]
  /\ session \in [Sessions -> Session]
  /\ steady \in BOOLEAN

(***************************************************************************)
(* However many first checks run at the same time, every session leaves at *)
(* most one baseline, committed or not: the second execution of a first    *)
(* check and another session's record may come in between, and a baseline  *)
(* whose commit raised may be committed later or be lost, but no session   *)
(* finds the table empty again while a baseline of its own is there.       *)
(***************************************************************************)
OneBaselineEach ==
  \A s \in Sessions : \A i, j \in DOMAIN Visible(s) :
    /\ Visible(s)[i].baseline /\ Visible(s)[i].by = s
    /\ Visible(s)[j].baseline /\ Visible(s)[j].by = s
    => i = j

(***************************************************************************)
(* A check that says "info" has committed its baseline, which is the count *)
(* it reports unless the data changed between its two executions.  Every   *)
(* other answer was measured against at least one row, and those rows stay *)
(* what the connection sees until it calls again: committed ones, followed *)
(* by those of its own transaction.  Only with the latter, which a raising *)
(* commit left behind and which close() loses, is there somebody whose     *)
(* answer no other session could give, and then nobody else can write.     *)
(***************************************************************************)
AnswerIsGrounded ==
  \A s \in Sessions : In(s, "answered") =>
    IF session[s].severity = "info"
    THEN \E i \in DOMAIN history :
           /\ history[i].by = s /\ history[i].baseline
           /\ steady => history[i].rows = session[s].observed
    ELSE /\ Len(session[s].measured) \in 1 .. Len(Visible(s))
         /\ \A i \in DOMAIN session[s].measured : session[s].measured[i] = Visible(s)[i].rows
         /\ Len(session[s].measured) > Len(history) =>
              backend = "sqlite" /\ NobodyElseWrites(s)

(***************************************************************************)
(* While nobody touches the data no check raises an alarm, whoever         *)
(* recorded what, and although a large result is recorded capped.          *)
(***************************************************************************)
NoAlarmOnSteadyData ==
  steady => \A s \in Sessions : session[s].severity \in {"none", "info"}

Grade == [none |-> 0, info |-> 0, warn |-> 1, error |-> 2]

(***************************************************************************)
(* Of two counts on the same side of the mean the farther one is never     *)
(* judged milder: a drift that grows does not disappear, down to an empty  *)
(* result.  For the extension, as long as a row is left.                   *)
(***************************************************************************)
FartherIsWorse ==
  \A s \in Sessions : Visible(s) # <<>> =>
    \A x, y \in {Seen(n) : n \in RowCounts} :
      LET n == Len(Counts(s))
          mean == Sum(Counts(s))
          grade(c) == Grade[Judged(Counts(s), c, backend)]
      IN  /\ mean <= n * x /\ x <= y => grade(x) <= grade(y)
          /\ /\ y <= x /\ n * x <= mean
             /\ backend = "postgres" => y > 0
             => grade(x) <= grade(y)

(***************************************************************************)
(* A check that was begun is answered, or raises, whatever the others do.  *)
(***************************************************************************)
CheckEnds == \A s \in Sessions : In(s, "reading") ~> Resting(s)

(***************************************************************************)
(* history.py:7 says that the extension's history_check mirrors this one.  *)
(* Refuted: a result that has become empty is a step change in Python and  *)
(* nothing at all in SQL, where the quotient by nullif is NULL.            *)
(***************************************************************************)
ExtensionMirrors ==
  \A s \in Sessions : Visible(s) # <<>> =>
    \A x \in RowCounts : Judged(Counts(s), x, "sqlite") = Judged(Counts(s), x, "postgres")

=============================================================================
