--------------------------- MODULE HistoryProofs ---------------------------
(***************************************************************************)
(* What is proved of History, for any number of sessions, any row counts,  *)
(* any cap and any bound on the records.                                   *)
(***************************************************************************)
EXTENDS History, SequenceTheorems, Induction

(***************************************************************************)
(* Only a call that executes or inserts is a first check, and then its     *)
(* session has nothing uncommitted and no baseline in the table yet.       *)
(***************************************************************************)
BaselineIsFirst ==
  \A s \in Sessions : session[s].baseline =>
    /\ session[s].stage \in {"executing", "inserting"}
    /\ uncommitted[s] = <<>>
    /\ \A i \in DOMAIN history : ~ (history[i].by = s /\ history[i].baseline)

(***************************************************************************)
(* While the data is steady, what a call has counted is what there is.     *)
(***************************************************************************)
CallsAreCurrent ==
  steady => \A s \in Sessions :
    /\ In(s, "reading") \/ session[s].baseline => session[s].observed = Seen(rows_now)
    /\ In(s, "inserting") => session[s].pending = Seen(rows_now)

(***************************************************************************)
(* One connection at a time has rows of its own, and only with SQLite.     *)
(***************************************************************************)
OneWriter ==
  \A s \in Sessions : uncommitted[s] # <<>> => backend = "sqlite" /\ NobodyElseWrites(s)

OwnRows == \A s \in Sessions : \A i \in DOMAIN uncommitted[s] : uncommitted[s][i].by = s

(***************************************************************************)
(* What AnswerIsGrounded says without its last line, which follows from    *)
(* OneWriter.                                                              *)
(***************************************************************************)
Grounded(call, s, table, seen) ==
  call.stage = "answered" =>
    IF call.severity = "info"
    THEN \E i \in DOMAIN table :
           /\ table[i].by = s /\ table[i].baseline
           /\ steady => table[i].rows = call.observed
    ELSE /\ Len(call.measured) \in 1 .. Len(seen)
         /\ \A i \in DOMAIN call.measured : call.measured[i] = seen[i].rows

GroundedCalls == \A s \in Sessions : Grounded(session[s], s, history, Visible(s))

HistoryInv ==
  TypeOK /\ BaselineIsFirst /\ CallsAreCurrent /\ OneWriter /\ OwnRows /\ OneBaselineEach /\ GroundedCalls

-----------------------------------------------------------------------------
(***************************************************************************)
(* A table that has grown: the old rows are where they were, and the new   *)
(* ones are all by s.                                                      *)
(***************************************************************************)
Extends(new, old, s) ==
  /\ Len(old) <= Len(new)
  /\ \A i \in DOMAIN old : i \in DOMAIN new /\ new[i] = old[i]
  /\ \A i \in DOMAIN new : i \in DOMAIN old \/ new[i].by = s

OneBaseline(table, s) ==
  \A i, j \in DOMAIN table :
    table[i].baseline /\ table[i].by = s /\ table[j].baseline /\ table[j].by = s => i = j

LEMMA ConcatFacts ==
  ASSUME NEW S, NEW h \in Seq(S), NEW u \in Seq(S)
  PROVE  /\ h \o u \in Seq(S) /\ Len(h \o u) = Len(h) + Len(u)
         /\ DOMAIN (h \o u) = 1 .. Len(h) + Len(u)
         /\ DOMAIN h = 1 .. Len(h) /\ DOMAIN u = 1 .. Len(u) /\ Len(h) \in Nat /\ Len(u) \in Nat
         /\ \A i \in 1 .. Len(h) : (h \o u)[i] = h[i]
         /\ \A i \in 1 .. Len(u) : (h \o u)[Len(h) + i] = u[i]
         /\ u = <<>> => h \o u = h
  OBVIOUS

LEMMA AppendFacts ==
  ASSUME NEW S, NEW h \in Seq(S), NEW r \in S
  PROVE  /\ Append(h, r) \in Seq(S) /\ Len(Append(h, r)) = Len(h) + 1
         /\ DOMAIN Append(h, r) = 1 .. Len(h) + 1 /\ DOMAIN h = 1 .. Len(h) /\ Len(h) \in Nat
         /\ \A i \in 1 .. Len(h) : Append(h, r)[i] = h[i]
         /\ Append(h, r)[Len(h) + 1] = r
  OBVIOUS

LEMMA ExtendsItself ==
  ASSUME NEW old, NEW s, Len(old) \in Nat
  PROVE  Extends(old, old, s)
  BY DEF Extends

(***************************************************************************)
(* What an insertion and a commit do to the table.                         *)
(***************************************************************************)
LEMMA CommitExtends ==
  ASSUME NEW s, NEW h \in Seq(Record), NEW u \in Seq(Record), NEW r \in Record,
         \A i \in DOMAIN u : u[i].by = s, r.by = s
  PROVE  Extends(Append(h \o u, r), h, s)
  <1> DEFINE v == h \o u
             w == Append(v, r)
  <1>1. /\ v \in Seq(Record) /\ Len(v) = Len(h) + Len(u)
        /\ DOMAIN h = 1 .. Len(h) /\ DOMAIN u = 1 .. Len(u) /\ Len(h) \in Nat /\ Len(u) \in Nat
        /\ \A i \in 1 .. Len(h) : v[i] = h[i]
        /\ \A i \in 1 .. Len(u) : v[Len(h) + i] = u[i]
    BY ConcatFacts
  <1> HIDE DEF v
  <1>2. /\ Len(w) = Len(v) + 1 /\ DOMAIN w = 1 .. Len(v) + 1
        /\ \A i \in 1 .. Len(v) : w[i] = v[i]
        /\ w[Len(v) + 1] = r
    BY <1>1, AppendFacts
  <1> HIDE DEF w
  <1>3. ASSUME NEW i \in DOMAIN w, i \notin DOMAIN h PROVE w[i].by = s
    <2>1. CASE i = Len(v) + 1
      BY <1>2, <2>1
    <2>2. CASE i # Len(v) + 1
      <3>0. i \in 1 .. Len(v) + 1 /\ i \notin 1 .. Len(h) /\ Len(v) \in Nat
        BY <1>1, <1>2, <1>3
      <3>1. i - Len(h) \in 1 .. Len(u) /\ Len(h) + (i - Len(h)) = i /\ i \in 1 .. Len(v)
        BY <1>1, <2>2, <3>0
      <3>2. v[i] = u[i - Len(h)]
        BY <1>1, <3>1
      <3> QED
        BY <1>1, <1>2, <3>1, <3>2
    <2> QED
      BY <2>1, <2>2
  <1>4. \A i \in DOMAIN h : i \in DOMAIN w /\ w[i] = h[i]
    BY <1>1, <1>2
  <1>5. Len(h) <= Len(w)
    BY <1>1, <1>2
  <1>6. Extends(w, h, s)
    BY <1>3, <1>4, <1>5 DEF Extends
  <1> QED
    BY <1>6 DEF w, v

LEMMA OneBaselineElsewhere ==
  ASSUME NEW new, NEW old, NEW s, NEW t, t # s, Extends(new, old, s), OneBaseline(old, t)
  PROVE  OneBaseline(new, t)
  BY DEF Extends, OneBaseline

LEMMA OneBaselineMore ==
  ASSUME NEW table \in Seq(Record), NEW r \in Record, NEW s, OneBaseline(table, s),
         r.baseline => \A i \in DOMAIN table : ~ (table[i].by = s /\ table[i].baseline)
  PROVE  OneBaseline(Append(table, r), s)
  <1> DEFINE w == Append(table, r)
             n == Len(table) + 1
  <1>1. /\ DOMAIN w = 1 .. n /\ DOMAIN table = 1 .. Len(table) /\ Len(table) \in Nat
        /\ \A i \in 1 .. Len(table) : w[i] = table[i]
        /\ w[n] = r
    BY AppendFacts
  <1> HIDE DEF w
  <1>2. ASSUME NEW i \in DOMAIN w, NEW j \in DOMAIN w,
               w[i].baseline, w[i].by = s, w[j].baseline, w[j].by = s
        PROVE  i = j
    <2>1. CASE i \in DOMAIN table /\ j \in DOMAIN table
      BY <1>1, <1>2, <2>1 DEF OneBaseline
    <2>2. CASE i \in DOMAIN table /\ j = n
      BY <1>1, <1>2, <2>2
    <2>3. CASE i = n /\ j \in DOMAIN table
      BY <1>1, <1>2, <2>3
    <2> QED
      BY <1>1, <2>1, <2>2, <2>3
  <1>3. OneBaseline(w, s)
    BY <1>2 DEF OneBaseline
  <1> QED
    BY <1>3 DEF w

LEMMA OneBaselineLess ==
  ASSUME NEW h \in Seq(Record), NEW u \in Seq(Record), NEW s, OneBaseline(h \o u, s)
  PROVE  OneBaseline(h, s)
  <1> DEFINE v == h \o u
  <1>1. DOMAIN v = 1 .. Len(h) + Len(u) /\ DOMAIN h = 1 .. Len(h) /\ Len(h) \in Nat /\ Len(u) \in Nat
        /\ \A i \in 1 .. Len(h) : v[i] = h[i]
    BY ConcatFacts
  <1>2. OneBaseline(v, s)
    OBVIOUS
  <1> HIDE DEF v
  <1> QED
    BY <1>1, <1>2 DEF OneBaseline

(***************************************************************************)
(* What an answer rests on is still there in a table that has grown.       *)
(***************************************************************************)
LEMMA GroundedLater ==
  ASSUME NEW call \in Session, NEW t, NEW s,
         NEW table \in Seq(Record), NEW later \in Seq(Record), Extends(later, table, s),
         NEW seen \in Seq(Record), NEW sees \in Seq(Record), Extends(sees, seen, s),
         Grounded(call, t, table, seen)
  PROVE  Grounded(call, t, later, sees)
  <1> SUFFICES ASSUME call.stage = "answered" PROVE Grounded(call, t, later, sees)
    BY DEF Grounded
  <1>1. CASE call.severity = "info"
    <2>1. PICK i \in DOMAIN table : /\ table[i].by = t /\ table[i].baseline
                                    /\ steady => table[i].rows = call.observed
      BY <1>1 DEF Grounded
    <2>2. i \in DOMAIN later /\ later[i] = table[i]
      BY DEF Extends
    <2> QED
      BY <1>1, <2>1, <2>2 DEF Grounded
  <1>2. CASE call.severity # "info"
    <2> DEFINE m == call.measured
    <2>1. m \in Seq(Nat) /\ DOMAIN m = 1 .. Len(m)
      BY DEF Session
    <2>2. Len(m) \in 1 .. Len(seen) /\ \A i \in DOMAIN m : m[i] = seen[i].rows
      BY <1>2 DEF Grounded
    <2> HIDE DEF m
    <2>3. DOMAIN seen = 1 .. Len(seen) /\ Len(seen) \in Nat /\ Len(sees) \in Nat
      OBVIOUS
    <2>4. \A i \in DOMAIN m : i \in DOMAIN seen
      BY <2>1, <2>2, <2>3
    <2>5. Len(m) \in 1 .. Len(sees) /\ \A i \in DOMAIN m : m[i] = sees[i].rows
      BY <2>2, <2>3, <2>4 DEF Extends
    <2> QED
      BY <1>2, <2>5 DEF Grounded, m
  <1> QED
    BY <1>1, <1>2

-----------------------------------------------------------------------------
LEMMA SeenType ==
  ASSUME rows_now \in RowCounts
  PROVE  Seen(rows_now) \in Nat
  BY RowCountsAssumption, BoundsAssumption DEF Seen

LEMMA JudgedType ==
  ASSUME NEW counts, NEW observed, NEW engine
  PROVE  Judged(counts, observed, engine) \in {"none", "warn", "error"}
  BY DEF Judged

LEMMA IdleType == Idle \in Session
  <1>1. <<>> \in Seq(Nat)
    OBVIOUS
  <1> QED
    BY <1>1 DEF Idle, Session, Stages, Severities

LEMMA VisibleType ==
  ASSUME TypeOK, NEW s \in Sessions
  PROVE  /\ history \in Seq(Record) /\ uncommitted[s] \in Seq(Record)
         /\ Visible(s) \in Seq(Record)
         /\ Len(history) \in Nat /\ Len(Visible(s)) \in Nat /\ Len(history) <= Len(Visible(s))
         /\ uncommitted[s] = <<>> => Visible(s) = history
  <1>1. history \in Seq(Record) /\ uncommitted[s] \in Seq(Record)
    BY DEF TypeOK
  <1> QED
    BY <1>1, ConcatFacts DEF Visible

LEMMA CountsType ==
  ASSUME NEW s, Visible(s) \in Seq(Record)
  PROVE  /\ Counts(s) \in Seq(Nat) /\ Len(Counts(s)) = Len(Visible(s))
         /\ DOMAIN Counts(s) = DOMAIN Visible(s)
         /\ \A i \in DOMAIN Visible(s) : Counts(s)[i] = Visible(s)[i].rows
  <1> DEFINE v == Visible(s)
  <1>1. Counts(s) = [i \in DOMAIN v |-> v[i].rows] /\ v \in Seq(Record)
    BY DEF Counts
  <1> HIDE DEF v
  <1>2. DOMAIN v = 1 .. Len(v) /\ Len(v) \in Nat
    BY <1>1
  <1>3. \A i \in 1 .. Len(v) : v[i].rows \in Nat
    <2>1. \A i \in 1 .. Len(v) : v[i] \in Record
      BY <1>1
    <2> QED
      BY <2>1 DEF Record
  <1>4. Counts(s) \in Seq(Nat)
    <2>1. Counts(s) \in [1 .. Len(v) -> Nat]
      BY <1>1, <1>2, <1>3
    <2> QED
      BY <1>2, <2>1, SeqDef
  <1>5. /\ Counts(s) \in Seq(Nat) /\ Len(Counts(s)) = Len(v) /\ DOMAIN Counts(s) = DOMAIN v
        /\ \A i \in DOMAIN v : Counts(s)[i] = v[i].rows
    BY <1>1, <1>2, <1>4
  <1> QED
    BY <1>5 DEF v

-----------------------------------------------------------------------------
LEMMA InitHolds == Init => HistoryInv
  <1> SUFFICES ASSUME Init PROVE HistoryInv
    OBVIOUS
  <1>1. /\ backend \in {"sqlite", "postgres"} /\ rows_now \in RowCounts
        /\ history = <<>> /\ steady = TRUE
        /\ uncommitted = [s \in Sessions |-> <<>>]
        /\ session = [s \in Sessions |-> Idle]
    BY DEF Init
  <1>2. \A s \in Sessions : session[s].stage = "idle" /\ ~ session[s].baseline
    BY <1>1 DEF Idle
  <1>3. TypeOK
    <2>1. <<>> \in Seq(Record)
      OBVIOUS
    <2> QED
      BY <1>1, <2>1, IdleType DEF TypeOK
  <1>4. BaselineIsFirst /\ CallsAreCurrent /\ GroundedCalls
    BY <1>2 DEF BaselineIsFirst, CallsAreCurrent, GroundedCalls, Grounded, In
  <1>5. OneWriter /\ OwnRows
    BY <1>1 DEF OneWriter, OwnRows
  <1>6. OneBaselineEach
    <2>1. \A s \in Sessions : Visible(s) = <<>>
      BY <1>1, <1>3, VisibleType
    <2> QED
      BY <2>1 DEF OneBaselineEach
  <1> QED
    BY <1>3, <1>4, <1>5, <1>6 DEF HistoryInv

(***************************************************************************)
(* What a step of session s may do to the table: nothing, or drop its own  *)
(* rows; insert a row and leave it uncommitted; or commit.                 *)
(***************************************************************************)
TableStep(s, row) ==
  \/ history' = history /\ uncommitted' = uncommitted
  \/ history' = history /\ uncommitted' = [uncommitted EXCEPT ![s] = <<>>]
  \/ /\ NobodyElseWrites(s) /\ backend = "sqlite"
     /\ history' = history /\ uncommitted' = [uncommitted EXCEPT ![s] = Append(@, row)]
  \/ /\ NobodyElseWrites(s)
     /\ history' = Append(Visible(s), row) /\ uncommitted' = [uncommitted EXCEPT ![s] = <<>>]

LEMMA TableFacts ==
  ASSUME HistoryInv, NEW s \in Sessions, NEW row \in Record, row.by = s,
         row.baseline = session[s].baseline,
         UNCHANGED backend, TableStep(s, row)
  PROVE  /\ history' \in Seq(Record) /\ uncommitted' \in [Sessions -> Seq(Record)]
         /\ OneWriter' /\ OwnRows' /\ OneBaselineEach'
         /\ Extends(history', history, s)
         /\ \A t \in Sessions \ {s} : /\ uncommitted'[t] = uncommitted[t]
                                      /\ Visible(t)' \in Seq(Record) /\ Visible(t) \in Seq(Record)
                                      /\ Extends(Visible(t)', Visible(t), s)
         /\ Visible(s)' \in Seq(Record)
  <1>0. /\ TypeOK /\ OneWriter /\ OwnRows /\ BaselineIsFirst
        /\ \A t \in Sessions : OneBaseline(Visible(t), t)
    BY DEF HistoryInv, OneBaselineEach, OneBaseline
  <1>1. /\ history \in Seq(Record) /\ uncommitted \in [Sessions -> Seq(Record)] /\ Len(history) \in Nat
        /\ \A t \in Sessions : /\ uncommitted[t] \in Seq(Record) /\ Visible(t) \in Seq(Record)
                               /\ Len(Visible(t)) \in Nat
                               /\ uncommitted[t] = <<>> => Visible(t) = history
    BY <1>0, VisibleType DEF TypeOK
  <1>2. <<>> \in Seq(Record) /\ DOMAIN <<>> = {}
    OBVIOUS
  <1>3. row.baseline => \A i \in DOMAIN Visible(s) : ~ (Visible(s)[i].by = s /\ Visible(s)[i].baseline)
    BY <1>0, <1>1 DEF BaselineIsFirst
  <1>4. /\ Append(Visible(s), row) \in Seq(Record)
        /\ OneBaseline(Append(Visible(s), row), s)
    BY <1>0, <1>1, <1>3, OneBaselineMore, AppendFacts
  <1>5. OneBaseline(history, s)
    BY <1>0, <1>1, OneBaselineLess DEF Visible
  <1>b. /\ Extends(history, history, s)
        /\ \A t \in Sessions : Extends(Visible(t), Visible(t), s)
    BY <1>1, ExtendsItself
  <1> DEFINE Goal ==
               /\ history' \in Seq(Record) /\ uncommitted' \in [Sessions -> Seq(Record)]
               /\ OneWriter' /\ OwnRows'
               /\ OneBaseline(Visible(s)', s)
               /\ Extends(history', history, s)
               /\ Visible(s)' \in Seq(Record)
               /\ \A t \in Sessions \ {s} : /\ uncommitted'[t] = uncommitted[t]
                                            /\ Visible(t)' \in Seq(Record)
                                            /\ Extends(Visible(t)', Visible(t), s)
  <1>6. ASSUME history' = history, uncommitted' = uncommitted PROVE Goal
    <2>1. \A t \in Sessions : Visible(t)' = Visible(t)
      BY <1>6 DEF Visible
    <2>2. OneWriter' /\ OwnRows'
      BY <1>0, <1>6 DEF OneWriter, OwnRows, NobodyElseWrites
    <2> QED
      BY <1>0, <1>1, <1>6, <1>b, <2>1, <2>2
  <1>7. ASSUME history' = history, uncommitted' = [uncommitted EXCEPT ![s] = <<>>] PROVE Goal
    <2>1. /\ uncommitted' \in [Sessions -> Seq(Record)] /\ uncommitted'[s] = <<>>
          /\ \A t \in Sessions \ {s} : uncommitted'[t] = uncommitted[t]
      BY <1>1, <1>2, <1>7
    <2>2. /\ Visible(s)' = history
          /\ \A t \in Sessions \ {s} : Visible(t)' = Visible(t)
      BY <1>1, <1>7, <2>1, ConcatFacts DEF Visible
    <2>3. OneWriter' /\ OwnRows'
      BY <1>0, <1>2, <2>1 DEF OneWriter, OwnRows, NobodyElseWrites
    <2> QED
      BY <1>1, <1>5, <1>7, <1>b, <2>1, <2>2, <2>3
  <1>8. ASSUME NobodyElseWrites(s), backend = "sqlite",
               history' = history, uncommitted' = [uncommitted EXCEPT ![s] = Append(@, row)]
        PROVE  Goal
    <2>1. /\ uncommitted'[s] = Append(uncommitted[s], row)
          /\ \A t \in Sessions \ {s} : uncommitted'[t] = uncommitted[t]
          /\ uncommitted' \in [Sessions -> Seq(Record)]
      BY <1>1, <1>8, AppendFacts
    <2>2. \A t \in Sessions \ {s} : Visible(t)' = Visible(t)
      BY <1>8, <2>1 DEF Visible
    <2>3. Visible(s)' = Append(Visible(s), row)
      <3>1. \A h, u \in Seq(Record) : h \o Append(u, row) = Append(h \o u, row)
        OBVIOUS
      <3> QED
        BY <1>1, <1>8, <2>1, <3>1 DEF Visible
    <2>4. OwnRows'
      <3>1. \A i \in DOMAIN Append(uncommitted[s], row) : Append(uncommitted[s], row)[i].by = s
        <4> DEFINE u == uncommitted[s]
        <4>1. u \in Seq(Record) /\ \A i \in DOMAIN u : u[i].by = s
          BY <1>0, <1>1 DEF OwnRows
        <4> HIDE DEF u
        <4>2. \A i \in DOMAIN Append(u, row) : Append(u, row)[i] = row \/ (i \in DOMAIN u /\ Append(u, row)[i] = u[i])
          BY <4>1, AppendFacts
        <4>3. \A i \in DOMAIN Append(u, row) : Append(u, row)[i].by = s
          BY <4>1, <4>2
        <4> QED
          BY <4>3 DEF u
      <3> QED
        BY <1>0, <2>1, <3>1 DEF OwnRows
    <2>5. OneWriter'
      BY <1>8, <2>1 DEF OneWriter, NobodyElseWrites
    <2> QED
      BY <1>1, <1>4, <1>8, <1>b, <2>1, <2>2, <2>3, <2>4, <2>5
  <1>9. ASSUME NobodyElseWrites(s),
               history' = Append(Visible(s), row), uncommitted' = [uncommitted EXCEPT ![s] = <<>>]
        PROVE  Goal
    <2>1. /\ uncommitted' \in [Sessions -> Seq(Record)] /\ uncommitted'[s] = <<>>
          /\ \A t \in Sessions \ {s} : uncommitted'[t] = uncommitted[t] /\ uncommitted[t] = <<>>
      BY <1>1, <1>2, <1>9 DEF NobodyElseWrites
    <2>2. \A t \in Sessions : uncommitted'[t] = <<>>
      BY <2>1
    <2>3. \A t \in Sessions : Visible(t)' = history'
      <3>1. history' \in Seq(Record)
        BY <1>4, <1>9
      <3> QED
        BY <1>2, <2>2, <3>1, ConcatFacts DEF Visible
    <2>4. OneWriter' /\ OwnRows'
      BY <1>2, <2>2 DEF OneWriter, OwnRows
    <2>5. Extends(history', history, s)
      <3>1. \A i \in DOMAIN uncommitted[s] : uncommitted[s][i].by = s
        BY <1>0 DEF OwnRows
      <3>2. history' = Append(history \o uncommitted[s], row)
        BY <1>9 DEF Visible
      <3> QED
        BY <1>1, <3>1, <3>2, CommitExtends
    <2>6. \A t \in Sessions \ {s} : Visible(t) = history
      BY <1>1, <2>1
    <2> QED
      BY <1>4, <1>9, <2>1, <2>3, <2>4, <2>5, <2>6
  <1>10. Goal
    <2> HIDE DEF Goal
    <2> QED
      BY <1>6, <1>7, <1>8, <1>9 DEF TableStep
  <1>11. \A t \in Sessions : OneBaseline(Visible(t)', t)
    BY <1>0, <1>10, OneBaselineElsewhere
  <1>12. OneBaselineEach'
    BY <1>11 DEF OneBaselineEach, OneBaseline
  <1> QED
    BY <1>1, <1>10, <1>12

(***************************************************************************)
(* A step of one session keeps the invariant if its new call does what the *)
(* parts of the invariant ask of it.                                       *)
(***************************************************************************)
LEMMA CallStep ==
  ASSUME HistoryInv, NEW s \in Sessions, NEW call \in Session, Becomes(s, call),
         NEW row \in Record, row.by = s, row.baseline = session[s].baseline, TableStep(s, row),
         call.baseline => /\ call.stage \in {"executing", "inserting"}
                          /\ uncommitted'[s] = <<>>
                          /\ \A i \in DOMAIN history' : ~ (history'[i].by = s /\ history'[i].baseline),
         steady => /\ call.stage = "reading" \/ call.baseline => call.observed = Seen(rows_now)
                   /\ call.stage = "inserting" => call.pending = Seen(rows_now),
         Grounded(call, s, history', Visible(s)')
  PROVE  HistoryInv'
  <1>1. /\ session' = [session EXCEPT ![s] = call]
        /\ UNCHANGED <<backend, rows_now, steady>>
        /\ session \in [Sessions -> Session]
    BY DEF Becomes, HistoryInv, TypeOK
  <1>2. /\ session' \in [Sessions -> Session] /\ session'[s] = call
        /\ \A t \in Sessions : t # s => session'[t] = session[t]
    BY <1>1
  <1>3. Seen(rows_now)' = Seen(rows_now)
    BY <1>1 DEF Seen
  <1>4. /\ history' \in Seq(Record) /\ uncommitted' \in [Sessions -> Seq(Record)]
        /\ OneWriter' /\ OwnRows' /\ OneBaselineEach'
        /\ Extends(history', history, s)
        /\ \A t \in Sessions \ {s} : /\ uncommitted'[t] = uncommitted[t]
                                     /\ Visible(t)' \in Seq(Record) /\ Visible(t) \in Seq(Record)
                                     /\ Extends(Visible(t)', Visible(t), s)
    BY <1>1, TableFacts
  <1>5. TypeOK'
    BY <1>1, <1>2, <1>4 DEF HistoryInv, TypeOK
  <1>6. BaselineIsFirst'
    <2> SUFFICES ASSUME NEW t \in Sessions, session'[t].baseline
                 PROVE  /\ session'[t].stage \in {"executing", "inserting"}
                        /\ uncommitted'[t] = <<>>
                        /\ \A i \in DOMAIN history' : ~ (history'[i].by = t /\ history'[i].baseline)
      BY DEF BaselineIsFirst
    <2>1. CASE t = s
      BY <1>2, <2>1
    <2>2. CASE t # s
      <3>1. /\ session[t].baseline /\ session'[t] = session[t] /\ uncommitted'[t] = uncommitted[t]
        BY <1>2, <1>4, <2>2
      <3>2. /\ session[t].stage \in {"executing", "inserting"} /\ uncommitted[t] = <<>>
            /\ \A i \in DOMAIN history : ~ (history[i].by = t /\ history[i].baseline)
        BY <3>1 DEF HistoryInv, BaselineIsFirst
      <3>3. \A i \in DOMAIN history' : ~ (history'[i].by = t /\ history'[i].baseline)
        BY <1>4, <2>2, <3>2 DEF Extends
      <3> QED
        BY <3>1, <3>2, <3>3
    <2> QED
      BY <2>1, <2>2
  <1>7. CallsAreCurrent'
    BY <1>1, <1>2, <1>3 DEF HistoryInv, CallsAreCurrent, In
  <1>8. GroundedCalls'
    <2> SUFFICES ASSUME NEW t \in Sessions PROVE Grounded(session'[t], t, history', Visible(t)')
      BY <1>1 DEF GroundedCalls, Grounded
    <2>1. CASE t = s
      BY <1>2, <2>1
    <2>2. CASE t # s
      <3>1. /\ session'[t] = session[t] /\ session[t] \in Session
            /\ Grounded(session[t], t, history, Visible(t)) /\ history \in Seq(Record)
        BY <1>1, <1>2, <2>2 DEF HistoryInv, GroundedCalls, TypeOK
      <3> QED
        BY <1>4, <2>2, <3>1, GroundedLater
    <2> QED
      BY <2>1, <2>2
  <1> QED
    BY <1>4, <1>5, <1>6, <1>7, <1>8 DEF HistoryInv

(***************************************************************************)
(* The steps that insert nothing.                                          *)
(***************************************************************************)
LEMMA QuietStep ==
  ASSUME HistoryInv, NEW s \in Sessions, NEW call \in Session, Becomes(s, call),
         history' = history,
         \/ uncommitted' = uncommitted
         \/ uncommitted' = [uncommitted EXCEPT ![s] = <<>>],
         call.baseline => /\ call.stage \in {"executing", "inserting"}
                          /\ uncommitted[s] = <<>>
                          /\ \A i \in DOMAIN history : ~ (history[i].by = s /\ history[i].baseline),
         steady => /\ call.stage = "reading" \/ call.baseline => call.observed = Seen(rows_now)
                   /\ call.stage = "inserting" => call.pending = Seen(rows_now),
         call.stage # "answered" \/ (Grounded(call, s, history, Visible(s)) /\ uncommitted' = uncommitted)
  PROVE  HistoryInv'
  <1> DEFINE row == [rows |-> 0, by |-> s, baseline |-> session[s].baseline]
  <1>1. row \in Record /\ row.by = s /\ row.baseline = session[s].baseline
    BY DEF HistoryInv, TypeOK, Session, Record
  <1> HIDE DEF row
  <1>2. TableStep(s, row)
    BY DEF TableStep
  <1>3. uncommitted[s] = <<>> => uncommitted'[s] = <<>>
    BY DEF HistoryInv, TypeOK
  <1>4. Grounded(call, s, history', Visible(s)')
    <2>1. CASE call.stage # "answered"
      BY <2>1 DEF Grounded
    <2>2. CASE Grounded(call, s, history, Visible(s)) /\ uncommitted' = uncommitted
      <3>1. Visible(s)' = Visible(s)
        BY <2>2 DEF Visible
      <3> QED
        BY <2>2, <3>1
    <2> QED
      BY <2>1, <2>2
  <1> QED
    BY <1>1, <1>2, <1>3, <1>4, CallStep

LEMMA FailedCall ==
  /\ [Idle EXCEPT !.stage = "raised"] \in Session
  /\ [Idle EXCEPT !.stage = "raised"].stage = "raised"
  /\ ~ [Idle EXCEPT !.stage = "raised"].baseline
  <1>1. <<>> \in Seq(Nat)
    OBVIOUS
  <1> QED
    BY <1>1 DEF Idle, Session, Stages, Severities

LEMMA RowType ==
  ASSUME HistoryInv, NEW s \in Sessions
  PROVE  /\ Row(s) \in Record /\ Row(s).by = s
         /\ Row(s).baseline = session[s].baseline /\ Row(s).rows = session[s].pending
  BY DEF Row, HistoryInv, TypeOK, Session, Record

(***************************************************************************)
(* The commit of a first check: what it answers rests on the row it has    *)
(* committed.                                                              *)
(***************************************************************************)
LEMMA InsertHolds ==
  ASSUME HistoryInv, NEW s \in Sessions, Insert(s)
  PROVE  HistoryInv'
  <1> DEFINE r == Row(s)
             call == Recorded(session[s])
             n == Len(Visible(s)) + 1
  <1>1. /\ session[s].stage = "inserting" /\ NobodyElseWrites(s)
        /\ history' = Append(Visible(s), r)
        /\ uncommitted' = [uncommitted EXCEPT ![s] = <<>>]
        /\ Becomes(s, call)
    BY DEF Insert, In
  <1>2. session[s] \in Session /\ Visible(s) \in Seq(Record)
    BY VisibleType DEF HistoryInv, TypeOK
  <1>3. /\ r \in Record /\ r.by = s /\ r.baseline = session[s].baseline /\ r.rows = session[s].pending
    BY RowType
  <1>4. /\ call \in Session /\ ~ call.baseline
        /\ call.stage \in {"answered", "recorded"}
        /\ call.stage = "answered" => session[s].baseline /\ call.severity = "info"
                                      /\ call.observed = session[s].observed
    <2>1. <<>> \in Seq(Nat)
      OBVIOUS
    <2> QED
      BY <1>2, <2>1 DEF Recorded, Idle, Session, Stages, Severities
  <1> HIDE DEF r, call
  <1>5. TableStep(s, r)
    BY <1>1 DEF TableStep
  <1>6. n \in DOMAIN history' /\ history'[n] = r
    BY <1>1, <1>2, <1>3, AppendFacts
  <1>7. Grounded(call, s, history', Visible(s)')
    <2> SUFFICES ASSUME call.stage = "answered" PROVE Grounded(call, s, history', Visible(s)')
      BY DEF Grounded
    <2>1. session[s].baseline /\ call.severity = "info" /\ call.observed = session[s].observed
      BY <1>4
    <2>2. steady => session[s].observed = session[s].pending
      BY <1>1, <2>1 DEF HistoryInv, CallsAreCurrent, In
    <2>3. r.by = s /\ r.baseline
      BY <1>3, <2>1, Zenon
    <2>4. steady => r.rows = call.observed
      BY <1>3, <2>1, <2>2
    <2>5. \E i \in DOMAIN history' : /\ history'[i].by = s /\ history'[i].baseline
                                     /\ steady => history'[i].rows = call.observed
      BY <1>6, <2>3, <2>4, Zenon
    <2> QED
      BY <2>1, <2>5, Zenon DEF Grounded
  <1> QED
    BY <1>1, <1>3, <1>4, <1>5, <1>7, CallStep

LEMMA StepHolds == HistoryInv /\ [Next]_vars => HistoryInv'
  <1> SUFFICES ASSUME HistoryInv, [Next]_vars PROVE HistoryInv'
    OBVIOUS
  <1>0. /\ TypeOK /\ session \in [Sessions -> Session] /\ Seen(rows_now) \in Nat
        /\ <<>> \in Seq(Nat)
    BY SeenType DEF HistoryInv, TypeOK
  <1> DEFINE failed == [Idle EXCEPT !.stage = "raised"]
  <1>a. failed \in Session /\ failed.stage = "raised" /\ ~ failed.baseline
    BY FailedCall
  <1> HIDE DEF failed
  <1>1. ASSUME NEW s \in Sessions, Check(s) PROVE HistoryInv'
    <2> DEFINE begun == [Idle EXCEPT !.stage = "reading", !.observed = Seen(rows_now)]
    <2>1. /\ begun \in Session /\ begun.stage = "reading" /\ ~ begun.baseline
          /\ begun.observed = Seen(rows_now)
      BY <1>0 DEF Idle, Session, Stages, Severities
    <2>2. (Becomes(s, begun) \/ Becomes(s, failed)) /\ history' = history /\ uncommitted' = uncommitted
      BY <1>1 DEF Check, failed
    <2> HIDE DEF begun
    <2> QED
      BY <1>a, <2>1, <2>2, QuietStep
  <1>2. ASSUME NEW s \in Sessions, BeginRecord(s) PROVE HistoryInv'
    <2> DEFINE begun == [Idle EXCEPT !.stage = "executing"]
    <2>1. begun \in Session /\ begun.stage = "executing" /\ ~ begun.baseline
      BY <1>0 DEF Idle, Session, Stages, Severities
    <2>2. Becomes(s, begun) /\ history' = history /\ uncommitted' = uncommitted
      BY <1>2 DEF BeginRecord
    <2> HIDE DEF begun
    <2> QED
      BY <2>1, <2>2, QuietStep
  <1>3. ASSUME NEW s \in Sessions, Read(s) PROVE HistoryInv'
    <2> DEFINE first == [session[s] EXCEPT !.stage = "executing", !.baseline = TRUE]
               counts == Counts(s)
               verdict == Judged(counts, session[s].observed, backend)
               answered == [session[s] EXCEPT !.stage = "answered", !.measured = counts,
                              !.severity = verdict]
    <2>1. /\ session[s] \in Session /\ session[s].stage = "reading" /\ ~ session[s].baseline
          /\ steady => session[s].observed = Seen(rows_now)
      BY <1>0, <1>3 DEF Read, In, HistoryInv, CallsAreCurrent, BaselineIsFirst
    <2>2. Visible(s) \in Seq(Record) /\ Len(Visible(s)) \in Nat
      BY <1>0, VisibleType
    <2>3. /\ counts \in Seq(Nat) /\ Len(counts) = Len(Visible(s)) /\ DOMAIN counts = DOMAIN Visible(s)
          /\ \A i \in DOMAIN Visible(s) : counts[i] = Visible(s)[i].rows
          /\ verdict \in {"none", "warn", "error"}
      BY <2>2, CountsType, JudgedType
    <2>4. /\ \/ Becomes(s, IF Visible(s) = <<>> THEN first ELSE answered)
             \/ Becomes(s, failed)
          /\ history' = history /\ uncommitted' = uncommitted
      BY <1>3 DEF Read, failed
    <2> HIDE DEF verdict, counts
    <2>5. first \in Session /\ first.stage = "executing" /\ first.observed = session[s].observed
      BY <2>1 DEF Session, Stages
    <2>6. /\ answered \in Session /\ answered.stage = "answered" /\ ~ answered.baseline
          /\ answered.measured = counts /\ answered.severity = verdict
      BY <2>1, <2>3 DEF Session, Stages, Severities
    <2> HIDE DEF first, answered
    <2>7. CASE Visible(s) = <<>> /\ Becomes(s, first)
      <3>1. history = <<>> /\ uncommitted[s] = <<>>
        <4>1. \A h, u \in Seq(Record) : h \o u = <<>> => h = <<>> /\ u = <<>>
          OBVIOUS
        <4> QED
          BY <1>0, <2>7, <4>1, VisibleType DEF Visible
      <3>2. \A i \in DOMAIN history : FALSE
        BY <3>1
      <3> QED
        BY <2>1, <2>4, <2>5, <2>7, <3>1, <3>2, QuietStep
    <2>8. CASE Visible(s) # <<>> /\ Becomes(s, answered)
      <3>1. Len(answered.measured) \in 1 .. Len(Visible(s))
        BY <2>2, <2>3, <2>6, <2>8
      <3>2. Grounded(answered, s, history, Visible(s))
        BY <2>3, <2>6, <3>1 DEF Grounded
      <3> QED
        BY <2>4, <2>6, <2>8, <3>2, QuietStep
    <2>9. CASE Becomes(s, failed)
      BY <1>a, <2>4, <2>9, QuietStep
    <2> QED
      BY <2>4, <2>7, <2>8, <2>9
  <1>4. ASSUME NEW s \in Sessions, Execute(s) PROVE HistoryInv'
    <2> DEFINE counted == [session[s] EXCEPT !.stage = "inserting", !.pending = Seen(rows_now)]
    <2>1. /\ session[s] \in Session /\ session[s].stage = "executing"
          /\ session[s].baseline =>
               /\ uncommitted[s] = <<>>
               /\ \A i \in DOMAIN history : ~ (history[i].by = s /\ history[i].baseline)
          /\ steady => (session[s].baseline => session[s].observed = Seen(rows_now))
      BY <1>0, <1>4 DEF Execute, In, HistoryInv, CallsAreCurrent, BaselineIsFirst
    <2>2. /\ counted \in Session /\ counted.stage = "inserting"
          /\ counted.baseline = session[s].baseline /\ counted.observed = session[s].observed
          /\ counted.pending = Seen(rows_now)
      BY <1>0, <2>1 DEF Session, Stages
    <2>3. (Becomes(s, counted) \/ Becomes(s, failed)) /\ history' = history /\ uncommitted' = uncommitted
      BY <1>4 DEF Execute, failed
    <2> HIDE DEF counted
    <2> QED
      BY <1>a, <2>1, <2>2, <2>3, QuietStep
  <1>5. ASSUME NEW s \in Sessions, Insert(s) PROVE HistoryInv'
    BY <1>5, InsertHolds
  <1>6. ASSUME NEW s \in Sessions, CommitRaises(s) PROVE HistoryInv'
    <2>1. /\ Becomes(s, failed) /\ TableStep(s, Row(s))
      BY <1>6 DEF CommitRaises, TableStep, failed
    <2>2. Grounded(failed, s, history', Visible(s)')
      BY <1>a DEF Grounded
    <2> QED
      BY <1>a, <2>1, <2>2, RowType, CallStep
  <1>7. ASSUME NEW s \in Sessions, InsertRaises(s) PROVE HistoryInv'
    <2>1. /\ Becomes(s, failed) /\ history' = history
          /\ uncommitted' = uncommitted \/ uncommitted' = [uncommitted EXCEPT ![s] = <<>>]
      BY <1>7 DEF InsertRaises, failed
    <2> QED
      BY <1>a, <2>1, QuietStep
  <1>8. ASSUME NEW s \in Sessions, Close(s) PROVE HistoryInv'
    <2>1. Idle \in Session /\ Idle.stage = "idle" /\ ~ Idle.baseline
      BY IdleType DEF Idle
    <2>2. /\ Becomes(s, Idle) /\ history' = history
          /\ uncommitted' = [uncommitted EXCEPT ![s] = <<>>]
      BY <1>8 DEF Close
    <2> QED
      BY <2>1, <2>2, QuietStep
  <1>9. CASE DataChanges
    <2>1. /\ rows_now' \in RowCounts /\ ~ steady' /\ steady' \in BOOLEAN
          /\ UNCHANGED <<backend, history, uncommitted, session>>
      BY <1>9 DEF DataChanges
    <2>2. TypeOK' /\ BaselineIsFirst' /\ CallsAreCurrent' /\ OneWriter' /\ OwnRows'
      BY <2>1 DEF HistoryInv, TypeOK, BaselineIsFirst, CallsAreCurrent, OneWriter, OwnRows, NobodyElseWrites
    <2>3. \A s \in Sessions : Visible(s)' = Visible(s)
      BY <2>1 DEF Visible
    <2>4. OneBaselineEach' /\ GroundedCalls'
      BY <2>1, <2>3 DEF HistoryInv, OneBaselineEach, GroundedCalls, Grounded
    <2> QED
      BY <2>2, <2>4 DEF HistoryInv
  <1>10. CASE UNCHANGED vars
    <2>1. Seen(rows_now)' = Seen(rows_now)
      BY <1>10 DEF vars, Seen
    <2>2. \A s \in Sessions : Visible(s)' = Visible(s)
      BY <1>10 DEF vars, Visible
    <2>3. TypeOK' /\ BaselineIsFirst' /\ CallsAreCurrent' /\ OneWriter' /\ OwnRows'
      BY <1>10, <2>1 DEF vars, HistoryInv, TypeOK, BaselineIsFirst, CallsAreCurrent, OneWriter, OwnRows,
                         NobodyElseWrites, In
    <2>4. OneBaselineEach' /\ GroundedCalls'
      BY <1>10, <2>2 DEF vars, HistoryInv, OneBaselineEach, GroundedCalls, Grounded
    <2> QED
      BY <2>3, <2>4 DEF HistoryInv
  <1> QED
    BY <1>1, <1>2, <1>3, <1>4, <1>5, <1>6, <1>7, <1>8, <1>9, <1>10 DEF Next, Step

LEMMA InvHolds == Spec => []HistoryInv
  BY InitHolds, StepHolds, PTL DEF Spec

-----------------------------------------------------------------------------
(***************************************************************************)
(* Type correctness; a check answers with one of the four severities.      *)
(***************************************************************************)
THEOREM TypeCorrect == Spec => []TypeOK
  <1>1. HistoryInv => TypeOK
    BY DEF HistoryInv
  <1> QED
    BY <1>1, InvHolds, PTL

(***************************************************************************)
(* No number of concurrent first checks makes one session leave a second   *)
(* baseline for a tag.                                                     *)
(***************************************************************************)
THEOREM BaselinesAreFew == Spec => []OneBaselineEach
  <1>1. HistoryInv => OneBaselineEach
    BY DEF HistoryInv
  <1> QED
    BY <1>1, InvHolds, PTL

(***************************************************************************)
(* A check that answers "info" has committed its baseline; any other       *)
(* answer rests on rows that its connection still sees, committed ones     *)
(* unless the connection has rows of its own, uncommitted after an         *)
(* exception, and then it is the only one.                                 *)
(***************************************************************************)
THEOREM AnswersAreGrounded == Spec => []AnswerIsGrounded
  <1>1. HistoryInv => AnswerIsGrounded
    <2> SUFFICES ASSUME HistoryInv, NEW s \in Sessions, In(s, "answered")
                 PROVE  (IF session[s].severity = "info"
                         THEN \E i \in DOMAIN history :
                                /\ history[i].by = s /\ history[i].baseline
                                /\ steady => history[i].rows = session[s].observed
                         ELSE /\ Len(session[s].measured) \in 1 .. Len(Visible(s))
                              /\ \A i \in DOMAIN session[s].measured :
                                   session[s].measured[i] = Visible(s)[i].rows
                              /\ Len(session[s].measured) > Len(history) =>
                                   backend = "sqlite" /\ NobodyElseWrites(s))
      BY DEF AnswerIsGrounded
    <2>1. Grounded(session[s], s, history, Visible(s)) /\ session[s].stage = "answered"
      BY DEF HistoryInv, GroundedCalls, In
    <2>2. /\ uncommitted[s] = <<>> => Visible(s) = history
          /\ Len(history) \in Nat /\ Len(Visible(s)) \in Nat
      BY VisibleType DEF HistoryInv
    <2>3. CASE session[s].severity = "info"
      BY <2>1, <2>3 DEF Grounded
    <2>4. CASE session[s].severity # "info"
      <3>1. /\ Len(session[s].measured) \in 1 .. Len(Visible(s))
            /\ \A i \in DOMAIN session[s].measured : session[s].measured[i] = Visible(s)[i].rows
        BY <2>1, <2>4 DEF Grounded
      <3>2. ASSUME Len(session[s].measured) > Len(history)
            PROVE  backend = "sqlite" /\ NobodyElseWrites(s)
        <4>1. uncommitted[s] # <<>>
          BY <2>2, <3>1, <3>2
        <4> QED
          BY <4>1 DEF HistoryInv, OneWriter
      <3> QED
        BY <2>4, <3>1, <3>2
    <2> QED
      BY <2>3, <2>4
  <1> QED
    BY <1>1, InvHolds, PTL

-----------------------------------------------------------------------------
(***************************************************************************)
(* The sums of the first i counts, as a function.                          *)
(***************************************************************************)
Partial(counts) ==
  {sums \in [0 .. Len(counts) -> Nat] :
     sums[0] = 0 /\ \A i \in 1 .. Len(counts) : sums[i] = sums[i - 1] + counts[i]}

LEMMA SumUnfolds ==
  ASSUME NEW counts \in Seq(Nat)
  PROVE  \E sums \in Partial(counts) : Sum(counts) = sums[Len(counts)]
  <1> DEFINE n == Len(counts)
             D == [i \in 1 .. n |-> [c \in Nat |-> c + counts[i]]]
             Body(f) == [i \in 0 .. n |-> IF i = 0 THEN 0 ELSE f[i - 1] + counts[i]]
             sums == CHOOSE f : f = Body(f)
  <1>1. n \in Nat /\ \A i \in 1 .. n : counts[i] \in Nat
    OBVIOUS
  <1>2. D \in [1 .. n -> [Nat -> Nat]]
    BY <1>1
  <1>3. PICK g : g \in [0 .. n -> Nat] /\ g[0] = 0 /\ \A i \in 1 .. n : g[i] = D[i][g[i - 1]]
    <2> HIDE DEF D, n
    <2>1. \E g : g \in Runs(n, Nat, 0, D)
      BY <1>1, <1>2, StepRecursion
    <2> QED
      BY <2>1 DEF Runs
  <1>4. \A i \in 1 .. n : g[i - 1] \in Nat /\ g[i] = g[i - 1] + counts[i]
    <2>1. ASSUME NEW i \in 1 .. n PROVE g[i - 1] \in Nat /\ g[i] = D[i][g[i - 1]]
      <3>1. i - 1 \in 0 .. n
        BY <1>1
      <3> HIDE DEF n, D
      <3> QED
        BY <1>3, <3>1
    <2>2. \A i \in 1 .. n : \A c \in Nat : D[i][c] = c + counts[i]
      OBVIOUS
    <2> HIDE DEF D
    <2> QED
      BY <2>1, <2>2
  <1>5. g = Body(g)
    BY <1>1, <1>3, <1>4
  <1>6. sums = Body(sums)
    BY <1>5, Zenon
  <1>7. sums = g
    <2> DEFINE T == {i \in 0 .. n : sums[i] = g[i]}
    <2> HIDE DEF sums
    <2>1. 0 \in T
      BY <1>1, <1>3, <1>6
    <2>2. \A i \in 0 .. n - 1 : i \in T => i + 1 \in T
      BY <1>1, <1>4, <1>6
    <2>3. \A i \in 0 .. n : i \in T
      <3> HIDE DEF T, n
      <3> QED
        BY <1>1, <2>1, <2>2, IntervalInduction
    <2> QED
      BY <1>3, <1>6, <2>3
  <1>8. Sum(counts) = sums[n]
    BY DEF Sum
  <1>9. g \in Partial(counts)
    BY <1>3, <1>4 DEF Partial
  <1> QED
    BY <1>7, <1>8, <1>9

LEMMA SumType ==
  ASSUME NEW counts \in Seq(Nat)
  PROVE  Sum(counts) \in Nat
  <1>1. PICK sums \in Partial(counts) : Sum(counts) = sums[Len(counts)]
    BY SumUnfolds
  <1> QED
    BY <1>1 DEF Partial

(***************************************************************************)
(* Counts that are all the same add up to their product.                   *)
(***************************************************************************)
LEMMA ConstantSum ==
  ASSUME NEW counts \in Seq(Nat), NEW c \in Nat, \A i \in DOMAIN counts : counts[i] = c
  PROVE  Sum(counts) = Len(counts) * c
  <1> DEFINE n == Len(counts)
  <1>1. PICK sums \in Partial(counts) : Sum(counts) = sums[n]
    BY SumUnfolds
  <1>2. n \in Nat /\ \A i \in 1 .. n : counts[i] = c
    OBVIOUS
  <1>3. /\ sums \in [0 .. n -> Nat] /\ sums[0] = 0
        /\ \A i \in 1 .. n : sums[i] = sums[i - 1] + c
    BY <1>2 DEF Partial
  <1> HIDE DEF n
  <1> DEFINE T == {i \in 0 .. n : sums[i] = i * c}
  <1>4. 0 \in T
    BY <1>2, <1>3
  <1>5. ASSUME NEW i \in 0 .. n - 1, i \in T PROVE i + 1 \in T
    <2>1. i + 1 \in 1 .. n /\ (i + 1) - 1 = i /\ i + 1 \in 0 .. n
      BY <1>2
    <2>2. sums[i + 1] = sums[i] + c
      BY <1>3, <2>1
    <2>3. (i + 1) * c = i * c + c
      BY <1>2
    <2> QED
      BY <1>5, <2>1, <2>2, <2>3
  <1>6. \A i \in 0 .. n : i \in T
    <2> HIDE DEF T
    <2> QED
      BY <1>2, <1>4, <1>5, IntervalInduction
  <1>7. sums[n] = n * c
    BY <1>2, <1>6
  <1> QED
    BY <1>1, <1>7 DEF n

(***************************************************************************)
(* A count that is what every record says is not judged.                   *)
(***************************************************************************)
LEMMA SteadyIsQuiet ==
  ASSUME NEW counts \in Seq(Nat), NEW c \in Nat, \A i \in DOMAIN counts : counts[i] = c, NEW engine
  PROVE  Judged(counts, c, engine) = "none"
  <1> DEFINE n == Len(counts)
             squared == [i \in DOMAIN counts |-> counts[i] * counts[i]]
  <1>1. n \in Nat /\ DOMAIN counts = 1 .. n
    OBVIOUS
  <1>2. Sum(counts) = n * c
    BY ConstantSum
  <1>3. Squares(counts) = n * (c * c)
    <2>1. c * c \in Nat
      OBVIOUS
    <2>2. squared \in [1 .. n -> Nat] /\ \A i \in 1 .. n : squared[i] = c * c
      BY <1>1, <2>1
    <2>3. squared \in Seq(Nat) /\ Len(squared) = n /\ DOMAIN squared = 1 .. n
      <3> HIDE DEF squared, n
      <3> QED
        BY <1>1, <2>2, SeqDef
    <2>4. Squares(counts) = Sum(squared)
      BY DEF Squares
    <2> HIDE DEF squared, n
    <2> QED
      BY <2>1, <2>2, <2>3, <2>4, ConstantSum
  <1> HIDE DEF n
  <1>4. Spread(counts) = 0
    <2>1. n * (n * (c * c)) - (n * c) * (n * c) = 0
      BY <1>1
    <2> QED
      BY <1>2, <1>3, <2>1 DEF Spread, n
  <1>5. ~ Drifts(counts, c)
    BY <1>4 DEF Drifts
  <1>6. ~ Steps(counts, c, engine)
    <2> DEFINE p == n * c
    <2>1. p \in Nat /\ (c = 0 => p = 0)
      BY <1>1
    <2>2. Sum(counts) = p /\ Len(counts) * c = p
      BY <1>2 DEF n
    <2>3. 5 * Len(counts) * c = 5 * p
      BY <1>1 DEF n
    <2> HIDE DEF p
    <2> QED
      BY <2>1, <2>2, <2>3 DEF Steps
  <1> QED
    BY <1>5, <1>6 DEF Judged

(***************************************************************************)
(* What is needed beyond HistoryInv: while the data is steady, every       *)
(* record says what there is, and nobody was alarmed.                      *)
(***************************************************************************)
AllSay(table, c) == \A i \in DOMAIN table : table[i].rows = c

SteadyInv ==
  steady => /\ \A s \in Sessions : AllSay(Visible(s), Seen(rows_now))
            /\ \A s \in Sessions : session[s].severity \in {"none", "info"}

LEMMA SteadyStart == Init => SteadyInv
  <1> SUFFICES ASSUME Init PROVE SteadyInv
    OBVIOUS
  <1>1. TypeOK /\ \A s \in Sessions : uncommitted[s] = <<>>
    BY InitHolds DEF HistoryInv, Init
  <1>2. \A s \in Sessions : Visible(s) = <<>>
    BY <1>1, VisibleType DEF Init
  <1>3. \A s \in Sessions : AllSay(Visible(s), Seen(rows_now))
    BY <1>2 DEF AllSay
  <1> QED
    BY <1>3 DEF Init, SteadyInv, Idle

(***************************************************************************)
(* What a connection sees after a step of session s: what it saw, what is  *)
(* committed, or what s saw and one row more.                              *)
(***************************************************************************)
LEMMA SeesAfter ==
  ASSUME TypeOK, NEW s \in Sessions, NEW row \in Record, TableStep(s, row), NEW t \in Sessions
  PROVE  Visible(t)' \in {Visible(t), history, Append(Visible(s), row)}
  <1>1. /\ history \in Seq(Record) /\ uncommitted \in [Sessions -> Seq(Record)]
        /\ Visible(s) \in Seq(Record) /\ uncommitted[s] \in Seq(Record) /\ uncommitted[t] \in Seq(Record)
    BY VisibleType DEF TypeOK
  <1>2. history \o <<>> = history /\ <<>> \in Seq(Record)
    BY <1>1
  <1>3. CASE history' = history /\ uncommitted' = uncommitted
    BY <1>3 DEF Visible
  <1>4. CASE history' = history /\ uncommitted' = [uncommitted EXCEPT ![s] = <<>>]
    <2>1. uncommitted'[t] = IF t = s THEN <<>> ELSE uncommitted[t]
      BY <1>1, <1>4
    <2> QED
      BY <1>2, <1>4, <2>1 DEF Visible
  <1>5. CASE history' = history /\ uncommitted' = [uncommitted EXCEPT ![s] = Append(@, row)]
    <2>1. uncommitted'[t] = IF t = s THEN Append(uncommitted[s], row) ELSE uncommitted[t]
      BY <1>1, <1>5
    <2>2. \A h, u \in Seq(Record) : h \o Append(u, row) = Append(h \o u, row)
      OBVIOUS
    <2> QED
      BY <1>1, <1>5, <2>1, <2>2 DEF Visible
  <1>6. CASE /\ NobodyElseWrites(s)
             /\ history' = Append(Visible(s), row) /\ uncommitted' = [uncommitted EXCEPT ![s] = <<>>]
    <2>1. uncommitted'[t] = <<>>
      BY <1>1, <1>6 DEF NobodyElseWrites
    <2>2. history' \in Seq(Record)
      BY <1>1, <1>6, AppendFacts
    <2>3. history' \o <<>> = history'
      BY <2>2
    <2> QED
      BY <1>6, <2>1, <2>3 DEF Visible
  <1> QED
    BY <1>3, <1>4, <1>5, <1>6 DEF TableStep

LEMMA SteadyCall ==
  ASSUME HistoryInv, SteadyInv, steady, NEW s \in Sessions, NEW call, Becomes(s, call),
         call.severity \in {"none", "info"},
         NEW row \in Record, TableStep(s, row), row.rows = Seen(rows_now)
  PROVE  SteadyInv'
  <1>1. /\ session \in [Sessions -> Session] /\ session' = [session EXCEPT ![s] = call]
        /\ Seen(rows_now)' = Seen(rows_now)
    BY DEF HistoryInv, TypeOK, Becomes, Seen
  <1>2. \A t \in Sessions : session'[t].severity \in {"none", "info"}
    BY <1>1 DEF SteadyInv
  <1> DEFINE c == Seen(rows_now)
             longer == Append(Visible(s), row)
  <1>3. /\ \A t \in Sessions : AllSay(Visible(t), c)
        /\ TypeOK /\ row.rows = c
    BY DEF SteadyInv, HistoryInv
  <1> HIDE DEF c
  <1>4. Visible(s) \in Seq(Record) /\ history \in Seq(Record) /\ uncommitted[s] \in Seq(Record)
    BY <1>3, VisibleType
  <1>5. AllSay(history, c)
    <2>1. \A i \in DOMAIN history : i \in DOMAIN Visible(s) /\ Visible(s)[i] = history[i]
      BY <1>4, ConcatFacts DEF Visible
    <2> QED
      BY <1>3, <2>1 DEF AllSay
  <1>6. AllSay(longer, c)
    <2>1. \A i \in DOMAIN longer : longer[i] = row \/ (i \in DOMAIN Visible(s) /\ longer[i] = Visible(s)[i])
      BY <1>4, AppendFacts
    <2> HIDE DEF longer
    <2> QED
      BY <1>3, <2>1 DEF AllSay
  <1> HIDE DEF longer
  <1>7. \A t \in Sessions : Visible(t)' \in {Visible(t), history, longer}
    BY <1>3, SeesAfter DEF longer
  <1>8. \A t \in Sessions : AllSay(Visible(t)', c)
    BY <1>3, <1>5, <1>6, <1>7
  <1> QED
    BY <1>1, <1>2, <1>8 DEF SteadyInv, AllSay, c

LEMMA SteadyStep == HistoryInv /\ SteadyInv /\ [Next]_vars => SteadyInv'
  <1> SUFFICES ASSUME HistoryInv, SteadyInv, [Next]_vars, steady' PROVE SteadyInv'
    BY DEF SteadyInv
  <1>0. session \in [Sessions -> Session] /\ Seen(rows_now) \in Nat /\ TypeOK
    BY SeenType DEF HistoryInv, TypeOK
  <1>1. CASE DataChanges
    BY <1>1 DEF DataChanges
  <1>2. steady \/ DataChanges
    BY DEF Next, Check, BeginRecord, Step, Read, Execute, Insert, CommitRaises, InsertRaises, Close,
           Becomes, vars
  <1>3. Idle.severity = "none" /\ [Idle EXCEPT !.stage = "raised"].severity = "none"
    BY DEF Idle
  <1>4. ASSUME NEW s \in Sessions, NEW call, Becomes(s, call), steady, call.severity \in {"none", "info"},
               history' = history,
               uncommitted' = uncommitted \/ uncommitted' = [uncommitted EXCEPT ![s] = <<>>]
        PROVE  SteadyInv'
    <2> DEFINE row == [rows |-> Seen(rows_now), by |-> s, baseline |-> FALSE]
    <2>1. row \in Record /\ row.rows = Seen(rows_now)
      BY <1>0 DEF Record
    <2> HIDE DEF row
    <2>2. TableStep(s, row)
      BY <1>4 DEF TableStep
    <2> QED
      BY <1>4, <2>1, <2>2, SteadyCall
  <1>5. ASSUME NEW s \in Sessions, steady,
               Check(s) \/ BeginRecord(s) \/ Execute(s) \/ InsertRaises(s) \/ Close(s)
        PROVE  SteadyInv'
    <2>1. session[s].severity \in {"none", "info"} /\ session[s] \in Session
      BY <1>0, <1>5 DEF SteadyInv
    <2> DEFINE reading == [Idle EXCEPT !.stage = "reading", !.observed = Seen(rows_now)]
               recording == [Idle EXCEPT !.stage = "executing"]
               counted == [session[s] EXCEPT !.stage = "inserting", !.pending = Seen(rows_now)]
               failed == [Idle EXCEPT !.stage = "raised"]
    <2>2. /\ reading.severity = "none" /\ recording.severity = "none" /\ failed.severity = "none"
          /\ counted.severity = session[s].severity
      BY <2>1 DEF Idle, Session
    <2>3. /\ Becomes(s, reading) \/ Becomes(s, recording) \/ Becomes(s, counted)
               \/ Becomes(s, failed) \/ Becomes(s, Idle)
          /\ history' = history
          /\ uncommitted' = uncommitted \/ uncommitted' = [uncommitted EXCEPT ![s] = <<>>]
      BY <1>5 DEF Check, BeginRecord, Execute, InsertRaises, Close
    <2> HIDE DEF reading, recording, counted, failed
    <2> QED
      BY <1>3, <1>4, <1>5, <2>1, <2>2, <2>3
  <1>6. ASSUME NEW s \in Sessions, steady, Read(s) PROVE SteadyInv'
    <2> DEFINE first == [session[s] EXCEPT !.stage = "executing", !.baseline = TRUE]
               counts == Counts(s)
               verdict == Judged(counts, session[s].observed, backend)
               answered == [session[s] EXCEPT !.stage = "answered", !.measured = counts,
                              !.severity = verdict]
               failed == [Idle EXCEPT !.stage = "raised"]
    <2>1. /\ session[s] \in Session /\ session[s].severity \in {"none", "info"}
          /\ session[s].observed = Seen(rows_now)
      BY <1>0, <1>6 DEF SteadyInv, Read, HistoryInv, CallsAreCurrent
    <2>2. Visible(s) \in Seq(Record) /\ AllSay(Visible(s), Seen(rows_now))
      BY <1>0, <1>6, VisibleType DEF SteadyInv
    <2>3. counts \in Seq(Nat) /\ \A i \in DOMAIN counts : counts[i] = Seen(rows_now)
      BY <2>2, CountsType DEF AllSay
    <2> HIDE DEF counts
    <2>4. verdict = "none"
      BY <1>0, <2>1, <2>3, SteadyIsQuiet
    <2>5. /\ Becomes(s, IF Visible(s) = <<>> THEN first ELSE answered) \/ Becomes(s, failed)
          /\ history' = history /\ uncommitted' = uncommitted
      BY <1>6 DEF Read, counts
    <2> HIDE DEF verdict
    <2>6. /\ first.severity = session[s].severity /\ answered.severity = verdict
          /\ failed.severity = "none"
      BY <1>3, <2>1 DEF Session
    <2> HIDE DEF first, answered, failed
    <2> QED
      BY <1>4, <1>6, <2>1, <2>4, <2>5, <2>6
  <1>7. ASSUME NEW s \in Sessions, steady, Insert(s) \/ CommitRaises(s) PROVE SteadyInv'
    <2> DEFINE call == Recorded(session[s])
               failed == [Idle EXCEPT !.stage = "raised"]
    <2>1. TableStep(s, Row(s)) /\ (Becomes(s, call) \/ Becomes(s, failed))
      BY <1>7 DEF Insert, CommitRaises, TableStep
    <2>2. Row(s) \in Record /\ Row(s).rows = Seen(rows_now)
      BY <1>7, RowType DEF Insert, CommitRaises, HistoryInv, CallsAreCurrent
    <2>3. call.severity \in {"none", "info"} /\ failed.severity = "none"
      BY <1>3 DEF Recorded, Idle
    <2> HIDE DEF call, failed
    <2> QED
      BY <1>7, <2>1, <2>2, <2>3, SteadyCall
  <1>8. CASE UNCHANGED vars
    <2>1. /\ Seen(rows_now)' = Seen(rows_now) /\ session' = session /\ steady' = steady
          /\ \A s \in Sessions : Visible(s)' = Visible(s)
      BY <1>8 DEF vars, Seen, Visible
    <2> QED
      BY <2>1 DEF SteadyInv, AllSay
  <1> QED
    BY <1>1, <1>2, <1>5, <1>6, <1>7, <1>8 DEF Next, Step

(***************************************************************************)
(* As long as nobody touches the data no check raises an alarm: for any    *)
(* number of sessions and records, although a large result is recorded     *)
(* capped, and for the rules of either engine.                             *)
(***************************************************************************)
THEOREM SteadyDataIsQuiet == Spec => []NoAlarmOnSteadyData
  <1>1. SteadyInv => NoAlarmOnSteadyData
    BY DEF SteadyInv, NoAlarmOnSteadyData
  <1> QED
    BY <1>1, InitHolds, StepHolds, SteadyStart, SteadyStep, PTL DEF Spec

-----------------------------------------------------------------------------
LEMMA DriftGrows ==
  ASSUME NEW a \in Int, NEW b \in Int, (0 <= a /\ a <= b) \/ (b <= a /\ a <= 0)
  PROVE  a * a <= b * b
  <1>1. CASE 0 <= a /\ a <= b
    <2>1. a * a <= a * b
      BY <1>1
    <2>2. a * b <= b * b
      BY <1>1
    <2> QED
      BY <2>1, <2>2
  <1>2. CASE b <= a /\ a <= 0
    <2> DEFINE c == -a
               d == -b
    <2>1. c \in Int /\ d \in Int /\ 0 <= c /\ c <= d /\ a * a = c * c /\ b * b = d * d
      BY <1>2
    <2> HIDE DEF c, d
    <2>2. c * c <= c * d
      BY <2>1
    <2>3. c * d <= d * d
      BY <2>1
    <2> QED
      BY <2>1, <2>2, <2>3
  <1> QED
    BY <1>1, <1>2

(***************************************************************************)
(* A fact about the two rules, whatever is in the table: the grade of a    *)
(* count does not fall when the count moves away from the mean.            *)
(***************************************************************************)
LEMMA GradeGrows ==
  ASSUME NEW counts \in Seq(Nat), counts # <<>>, NEW x \in Nat, NEW y \in Nat, NEW engine,
         \/ Sum(counts) <= Len(counts) * x /\ x <= y
         \/ /\ y <= x /\ Len(counts) * x <= Sum(counts)
            /\ engine = "sqlite" \/ y > 0
  PROVE  Grade[Judged(counts, x, engine)] <= Grade[Judged(counts, y, engine)]
  <1> DEFINE n == Len(counts)
             sum == Sum(counts)
             spread == Spread(counts)
             p == n * x
             q == n * y
  <1>1. n \in Nat /\ n > 0 /\ sum \in Nat
    BY SumType
  <1>2. spread \in Int
    <2> DEFINE squared == [i \in DOMAIN counts |-> counts[i] * counts[i]]
    <2>1. n \in Nat /\ DOMAIN counts = 1 .. n /\ \A i \in 1 .. n : counts[i] * counts[i] \in Nat
      <3>1. n \in Nat /\ DOMAIN counts = 1 .. n /\ \A i \in 1 .. n : counts[i] \in Nat
        OBVIOUS
      <3>2. \A m \in Nat : m * m \in Nat
        OBVIOUS
      <3> QED
        BY <3>1, <3>2
    <2>2. squared \in [1 .. n -> Nat]
      BY <2>1
    <2>3. squared \in Seq(Nat)
      <3> HIDE DEF squared, n
      <3> QED
        BY <2>1, <2>2, SeqDef
    <2>4. Squares(counts) \in Nat
      <3> HIDE DEF squared
      <3>1. Squares(counts) = Sum(squared)
        BY DEF Squares, squared
      <3> QED
        BY <2>3, <3>1, SumType
    <2> QED
      BY <1>1, <2>4 DEF Spread
  <1>3. /\ p \in Nat /\ q \in Nat
        /\ x <= y => p <= q
        /\ y <= x => q <= p
        /\ x > 0 => n <= p
        /\ x = 0 => p = 0
        /\ 5 * n * x = 5 * p /\ 5 * n * y = 5 * q
    BY <1>1
  <1>4. \/ sum <= p /\ x <= y
        \/ y <= x /\ p <= sum /\ (engine = "sqlite" \/ y > 0)
    BY Zenon
  <1> DEFINE far == (p - sum) * (p - sum)
             farther == (q - sum) * (q - sum)
  <1> HIDE DEF n, sum, spread, p, q
  <1>5. far \in Int /\ farther \in Int /\ far <= farther
    <2>1. p - sum \in Int /\ q - sum \in Int
      BY <1>1, <1>3
    <2>2. (0 <= p - sum /\ p - sum <= q - sum) \/ (q - sum <= p - sum /\ p - sum <= 0)
      BY <1>1, <1>3, <1>4
    <2> QED
      BY <2>1, <2>2, DriftGrows
  <1>6. /\ Drifts(counts, x) <=> spread > 0 /\ far > 9 * spread
        /\ Drifts(counts, y) <=> spread > 0 /\ farther > 9 * spread
    BY DEF Drifts, spread, far, farther, n, sum, p, q
  <1> HIDE DEF far, farther
  <1>7. Drifts(counts, x) => Drifts(counts, y)
    BY <1>2, <1>5, <1>6
  <1>8. /\ Steps(counts, x, engine) <=>
             /\ sum > 0
             /\ p > 5 * sum \/ (x > 0 /\ sum > 5 * p) \/ (x = 0 /\ engine = "sqlite" /\ sum > 5 * n)
        /\ Steps(counts, y, engine) <=>
             /\ sum > 0
             /\ q > 5 * sum \/ (y > 0 /\ sum > 5 * q) \/ (y = 0 /\ engine = "sqlite" /\ sum > 5 * n)
    BY <1>3 DEF Steps, sum, n, p, q
  <1>9. Steps(counts, x, engine) => Steps(counts, y, engine)
    BY <1>1, <1>3, <1>8, <1>4
  <1>10. Grade["none"] = 0 /\ Grade["warn"] = 1 /\ Grade["error"] = 2
    BY DEF Grade
  <1> QED
    BY <1>7, <1>9, <1>10 DEF Judged

(***************************************************************************)
(* Of two counts on the same side of the mean the farther one is never     *)
(* judged milder, whatever is in the table.                                *)
(***************************************************************************)
THEOREM DriftNeverDisappears == Spec => []FartherIsWorse
  <1>1. HistoryInv => FartherIsWorse
    <2> SUFFICES ASSUME HistoryInv, NEW s \in Sessions, Visible(s) # <<>>,
                        NEW x \in {Seen(n) : n \in RowCounts}, NEW y \in {Seen(n) : n \in RowCounts}
                 PROVE  LET n == Len(Counts(s))
                            mean == Sum(Counts(s))
                            grade(c) == Grade[Judged(Counts(s), c, backend)]
                        IN  /\ mean <= n * x /\ x <= y => grade(x) <= grade(y)
                            /\ /\ y <= x /\ n * x <= mean
                               /\ backend = "postgres" => y > 0
                               => grade(x) <= grade(y)
      BY DEF FartherIsWorse
    <2> DEFINE counts == Counts(s)
    <2>1. x \in Nat /\ y \in Nat
      BY RowCountsAssumption, BoundsAssumption DEF Seen
    <2>2. Visible(s) \in Seq(Record) /\ backend \in {"sqlite", "postgres"}
      BY VisibleType DEF HistoryInv, TypeOK
    <2>3. counts \in Seq(Nat) /\ counts # <<>>
      BY <2>2, CountsType
    <2> HIDE DEF counts
    <2>4. /\ Sum(counts) <= Len(counts) * x /\ x <= y
             => Grade[Judged(counts, x, backend)] <= Grade[Judged(counts, y, backend)]
          /\ /\ y <= x /\ Len(counts) * x <= Sum(counts)
             /\ backend = "postgres" => y > 0
             => Grade[Judged(counts, x, backend)] <= Grade[Judged(counts, y, backend)]
      BY <2>1, <2>2, <2>3, GradeGrows
    <2> QED
      BY <2>4 DEF counts
  <1> QED
    BY <1>1, InvHolds, PTL

=============================================================================
