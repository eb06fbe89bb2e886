--------------------------- MODULE AuditLogProofs ---------------------------
(***************************************************************************)
(* What is proved of AuditLog, for every set of writers, readers, reports, *)
(* crashes and alterations and every bound on the file.                    *)
(***************************************************************************)
EXTENDS AuditLog, TLAPS

(***************************************************************************)
(* A sealed record is a line, and its digest extends the one before it.    *)
(***************************************************************************)
LEMMA SealLine ==
  ASSUME NEW body \in Body, NEW prev \in Hash
  PROVE  /\ Seal(body, prev) \in Line
         /\ Seal(body, prev).prev_hash = prev
         /\ Seal(body, prev).record_hash = compute_hash(Seal(body, prev).body, prev)
         /\ Seal(body, prev).readable
  BY DEF Seal, Line, Body, Hash, compute_hash

(***************************************************************************)
(* A write leaves the lines before the last one alone and the last one     *)
(* unread at worst; if a line is added, it is the one written.             *)
(***************************************************************************)
LEMMA WrittenLines ==
  ASSUME lines \in Seq(Line), open \in BOOLEAN, open => lines # <<>>, NEW line \in Line
  PROVE  /\ Written(line) \in Seq(Line)
         /\ Written(line) # <<>>
         /\ open => /\ Len(Written(line)) = Len(lines)
                    /\ Len(lines) >= 1
                    /\ \A i \in 1 .. Len(lines) : i < Len(lines) => Written(line)[i] = lines[i]
                    /\ Written(line)[Len(lines)] = Torn(lines[Len(lines)])
         /\ ~ open => /\ Len(Written(line)) = Len(lines) + 1
                      /\ \A i \in 1 .. Len(lines) : Written(line)[i] = lines[i]
                      /\ Written(line)[Len(lines) + 1] = line
<1>1. CASE open
  <2>1. Len(lines) \in Nat /\ Len(lines) >= 1
    BY <1>1
  <2>2. lines[Len(lines)] \in Line
    BY <2>1
  <2>3. Torn(lines[Len(lines)]) \in Line
    BY <2>2 DEF Torn, Line
  <2>4. Written(line) = [lines EXCEPT ![Len(lines)] = Torn(lines[Len(lines)])]
    BY <1>1 DEF Written
  <2> QED
    BY <1>1, <2>1, <2>3, <2>4
<1>2. CASE ~ open
  <2>1. Written(line) = Append(lines, line)
    BY <1>2 DEF Written
  <2> QED
    BY <1>2, <2>1
<1> QED
  BY <1>1, <1>2

(***************************************************************************)
(* The digest a new record starts from is a digest.                        *)
(***************************************************************************)
LEMMA LastHashType ==
  ASSUME lines \in Seq(Line)
  PROVE  last_hash \in Hash
<1>1. CASE lines = <<>>
  BY <1>1 DEF last_hash, GENESIS_HASH, Hash
<1>2. CASE lines # <<>>
  <2>1. lines[Len(lines)] \in Line
    BY <1>2
  <2>2. lines[Len(lines)].record_hash \in Hash
    BY <2>1 DEF Line
  <2> QED
    BY <1>2, <2>2 DEF last_hash
<1> QED
  BY <1>1, <1>2

(***************************************************************************)
(* Every report leads to one of the decisions.                             *)
(***************************************************************************)
LEMMA DecisionType ==
  ASSUME NEW report
  PROVE  Decision(report) \in Decisions
  BY DEF Decision, Decisions

(***************************************************************************)
(* A walk stays a walk when one of its fields is given a value of its own  *)
(* type; the steps of a reader are made of such changes.                   *)
(***************************************************************************)
LEMMA WalkFields ==
  ASSUME NEW walk \in Walk
  PROVE  /\ \A v \in {"idle", "counting", "checking", "valid", "invalid", "raised"} :
              [walk EXCEPT !.stage = v] \in Walk
         /\ \A n \in Nat \ {0} : [walk EXCEPT !.at = n] \in Walk
         /\ \A n \in Nat : [walk EXCEPT !.total = n] \in Walk
         /\ \A n \in Nat : [walk EXCEPT !.records = n] \in Walk
         /\ \A h \in Hash : [walk EXCEPT !.prev = h] \in Walk
         /\ \A a \in {"no", "tail", "inner"} : [walk EXCEPT !.began = a] \in Walk
         /\ walk.at + 1 \in Nat \ {0} /\ walk.total + 1 \in Nat /\ walk.records + 1 \in Nat
  BY DEF Walk

-----------------------------------------------------------------------------
(***************************************************************************)
(* Type correctness, from an empty file on.                                *)
(***************************************************************************)
LEMMA InitType == Init => TypeOK
<1> SUFFICES ASSUME Init PROVE TypeOK
  OBVIOUS
<1>1. \A w \in Writers : [actor |-> w, decision |-> "delivered"] \in Body
  BY DEF Body, Decisions
<1>2. GENESIS_HASH \in Hash
  BY DEF GENESIS_HASH, Hash
<1>3. \A w \in Writers : Seal([actor |-> w, decision |-> "delivered"], GENESIS_HASH) \in Line
  BY <1>1, <1>2, SealLine
<1>4. sealed \in [Writers -> Line]
  BY <1>3 DEF Init
<1>5. reader \in [Readers -> Walk]
  BY <1>2 DEF Init, Walk
<1>6. lines \in Seq(Line) /\ open = FALSE
  BY DEF Init
<1>7. writing \in [Writers -> BOOLEAN]
  BY DEF Init
<1>8. altered \in {"no", "tail", "inner"} /\ acknowledged \in SUBSET Line
  BY DEF Init
<1> QED
  BY <1>4, <1>5, <1>6, <1>7, <1>8 DEF TypeOK

(***************************************************************************)
(* An altered line is still a line, whichever way it was altered.          *)
(***************************************************************************)
LEMMA AlterType ==
  ASSUME TypeOK, NEW i \in 1 .. Len(lines), Alter(i)
  PROVE  TypeOK'
<1> USE DEF TypeOK
<1>1. lines[i] \in Line /\ Len(lines) \in Nat
  OBVIOUS
<1>2. \A d \in Decisions : Edited(lines[i], d) \in Line /\ Edited(lines[i], d).body \in Body
  BY <1>1 DEF Edited, Line, Body
<1>3. lines' \in Seq(Line)
  <2>1. ASSUME NEW d \in Decisions PROVE [lines EXCEPT ![i] = Edited(@, d)] \in Seq(Line)
    BY <1>2
  <2>2. ASSUME NEW d \in Decisions
        PROVE  [lines EXCEPT ![i] = Seal(Edited(@, d).body, @.prev_hash)] \in Seq(Line)
    <3>1. lines[i].prev_hash \in Hash
      BY <1>1 DEF Line
    <3>2. Seal(Edited(lines[i], d).body, lines[i].prev_hash) \in Line
      BY <1>2, <3>1, SealLine
    <3> QED
      BY <3>2
  <2>3. Without(i) \in Seq(Line)
    BY DEF Without
  <2>4. Twice(i) \in Seq(Line)
    BY DEF Twice
  <2> QED
    BY <2>1, <2>2, <2>3, <2>4 DEF Alter
<1>4. altered' \in {"no", "tail", "inner"}
  BY DEF Alter
<1>5. UNCHANGED <<open, sealed, writing, reader, acknowledged>> /\ ~ open
  BY DEF Alter
<1> QED
  BY <1>3, <1>4, <1>5

(***************************************************************************)
(* Every other step keeps the types as well, one case per action.          *)
(***************************************************************************)
LEMMA NextType == TypeOK /\ [Next]_vars => TypeOK'
<1> SUFFICES ASSUME TypeOK, [Next]_vars PROVE TypeOK'
  OBVIOUS
<1> USE DEF TypeOK
<1>1. ASSUME NEW w \in Writers, Record(w) PROVE TypeOK'
  <2>1. \A report \in Reports : \A decision \in {Decision(report), "overridden"} :
          [actor |-> w, decision |-> decision] \in Body
    BY DecisionType DEF Body, Decisions
  <2>2. last_hash \in Hash
    BY LastHashType
  <2>3. PICK line \in Line : sealed' = [sealed EXCEPT ![w] = line]
    BY <1>1, <2>1, <2>2, SealLine DEF Record
  <2>4. sealed' \in [Writers -> Line]
    BY <2>3
  <2> QED
    BY <1>1, <2>4 DEF Record
<1>2. ASSUME NEW w \in Writers, Appends(w) PROVE TypeOK'
  <2>1. sealed[w] \in Line
    OBVIOUS
  <2>2. lines' \in Seq(Line) /\ open' = FALSE
    BY <1>2, <2>1, WrittenLines DEF Appends
  <2> QED
    BY <1>2, <2>1, <2>2 DEF Appends
<1>3. ASSUME NEW w \in Writers, Crash(w) PROVE TypeOK'
  <2>1. sealed[w] \in Line /\ Torn(sealed[w]) \in Line
    BY DEF Torn, Line
  <2>2. Written(sealed[w]) \in Seq(Line) /\ Written(sealed[w]) # <<>>
    BY <2>1, WrittenLines
  <2>3. Written(Torn(sealed[w])) \in Seq(Line) /\ Written(Torn(sealed[w])) # <<>>
    BY <2>1, WrittenLines
  <2>4. \/ UNCHANGED <<lines, open>>
        \/ lines' = Written(Torn(sealed[w])) /\ open' = TRUE
        \/ lines' = Written(sealed[w]) /\ open' \in BOOLEAN
    BY <1>3 DEF Crash
  <2>5. lines' \in Seq(Line) /\ open' \in BOOLEAN
    BY <2>2, <2>3, <2>4
  <2>6. open' => lines' # <<>>
    BY <2>2, <2>3, <2>4
  <2> QED
    BY <1>3, <2>5, <2>6 DEF Crash
<1>4. ASSUME NEW r \in Readers,
             StartEvidence(r) \/ CountRecord(r) \/ StartCheck(r) \/ CheckRecord(r) \/ EndCheck(r)
      PROVE TypeOK'
  <2> DEFINE walk == reader[r]
  <2>1. walk \in Walk /\ Len(lines) \in Nat
    OBVIOUS
  <2>2. SUFFICES \E new \in Walk : reader' = [reader EXCEPT ![r] = new]
    BY <1>4 DEF StartEvidence, CountRecord, StartCheck, CheckRecord, EndCheck
  <2> HIDE DEF TypeOK
  <2>3. CASE StartEvidence(r)
    <3>1. [walk EXCEPT !.stage = "counting"] \in Walk
      BY <2>1, WalkFields
    <3>2. [walk EXCEPT !.stage = "counting", !.began = altered] \in Walk
      BY <3>1, WalkFields DEF TypeOK
    <3> QED
      BY <2>3, <3>2 DEF StartEvidence
  <2>4. CASE CountRecord(r)
    <3>1. [walk EXCEPT !.at = @ + 1] \in Walk
      BY <2>1, WalkFields
    <3>2. [walk EXCEPT !.at = @ + 1, !.total = @ + 1] \in Walk
      BY <2>1, <3>1, WalkFields
    <3>3. [walk EXCEPT !.stage = "raised"] \in Walk
      BY <2>1, WalkFields
    <3> QED
      BY <2>4, <3>2, <3>3 DEF CountRecord
  <2>5. CASE StartCheck(r)
    <3>1. [walk EXCEPT !.stage = "checking"] \in Walk
      BY <2>1, WalkFields
    <3>2. 1 \in Nat \ {0}
      OBVIOUS
    <3>3. [walk EXCEPT !.stage = "checking", !.at = 1] \in Walk
      BY <3>1, <3>2, WalkFields
    <3> QED
      BY <2>5, <3>3 DEF StartCheck
  <2>6. CASE CheckRecord(r)
    <3> DEFINE line == lines[walk.at]
    <3>1. walk.at \in 1 .. Len(lines)
      BY <2>1, <2>6 DEF CheckRecord, Walk
    <3>2. line.record_hash \in Hash
      <4>1. line \in Line
        BY <3>1 DEF TypeOK
      <4> QED
        BY <4>1 DEF Line
    <3>3. [walk EXCEPT !.at = @ + 1] \in Walk
      BY <2>1, WalkFields
    <3>4. [walk EXCEPT !.at = @ + 1, !.records = @ + 1] \in Walk
      BY <2>1, <3>3, WalkFields
    <3>5. [walk EXCEPT !.at = @ + 1, !.records = @ + 1, !.prev = line.record_hash] \in Walk
      BY <3>2, <3>4, WalkFields
    <3>6. [walk EXCEPT !.stage = "raised"] \in Walk
      BY <2>1, WalkFields
    <3>7. [walk EXCEPT !.stage = "invalid"] \in Walk
      BY <2>1, WalkFields
    <3>8. [walk EXCEPT !.stage = "invalid", !.records = @ + 1] \in Walk
      BY <2>1, <3>7, WalkFields
    <3> QED
      BY <2>6, <3>5, <3>6, <3>8 DEF CheckRecord
  <2>7. CASE EndCheck(r)
    <3>1. [walk EXCEPT !.stage = "valid"] \in Walk
      BY <2>1, WalkFields
    <3> QED
      BY <2>7, <3>1 DEF EndCheck
  <2> QED
    BY <1>4, <2>3, <2>4, <2>5, <2>6, <2>7
<1>5. ASSUME NEW i \in 1 .. Len(lines), Alter(i) PROVE TypeOK'
  BY <1>5, AlterType
<1>6. CASE UNCHANGED vars
  BY <1>6 DEF vars
<1> QED
  BY <1>1, <1>2, <1>3, <1>4, <1>5, <1>6 DEF Next, WriterStep, ReaderStep

(***************************************************************************)
(* Type correctness: no step of a writer, a reader, a crash or an altered  *)
(* line leaves the types of the log.                                       *)
(***************************************************************************)
THEOREM TypeCorrect == Spec => []TypeOK
<1> QED
  BY InitType, NextType, PTL DEF Spec

-----------------------------------------------------------------------------
(***************************************************************************)
(* The chain, for a log with a single writer (AuditRace.cfg shows that two *)
(* fork it).                                                               *)
(***************************************************************************)
OneWriterOnly == \A v, w \in Writers : v = w

(***************************************************************************)
(* A record that links to the last line keeps the chain linked, whole or   *)
(* cut short, on a line of its own or merged into the last one; and no     *)
(* walk has to change its mind about the digest it expects.                *)
(***************************************************************************)
LEMMA WriteKeepsChain ==
  ASSUME TypeOK, ChainIntact, altered = "no", Readable,
         NEW line \in Line,
         line.prev_hash = last_hash,
         line.record_hash = compute_hash(line.body, line.prev_hash),
         lines' = Written(line)
  PROVE  /\ ChainIntact'
         /\ Len(lines') \in Nat /\ Len(lines') >= Len(lines)
         /\ \A i \in 1 .. Len(lines) + 1 : PrevOf(i)' = PrevOf(i)
<1>1. /\ lines' \in Seq(Line)
      /\ open => /\ Len(lines') = Len(lines)
                 /\ Len(lines) >= 1
                 /\ \A i \in 1 .. Len(lines) : i < Len(lines) => lines'[i] = lines[i]
                 /\ lines'[Len(lines)] = Torn(lines[Len(lines)])
      /\ ~ open => /\ Len(lines') = Len(lines) + 1
                   /\ \A i \in 1 .. Len(lines) : lines'[i] = lines[i]
                   /\ lines'[Len(lines) + 1] = line
  <2>1. lines \in Seq(Line) /\ open \in BOOLEAN /\ (open => lines # <<>>)
    BY DEF TypeOK
  <2> QED
    BY <2>1, WrittenLines
<1>2. Len(lines) \in Nat /\ Len(lines') \in Nat
  BY <1>1 DEF TypeOK
<1>3. Len(lines') >= Len(lines)
  BY <1>1, <1>2 DEF TypeOK
<1>4. ASSUME NEW i \in 1 .. Len(lines)
      PROVE  /\ lines'[i].body = lines[i].body
             /\ lines'[i].prev_hash = lines[i].prev_hash
             /\ lines'[i].record_hash = lines[i].record_hash
  <2>1. lines[i] \in Line
    BY DEF TypeOK
  <2>2. \/ lines'[i] = lines[i]
        \/ lines'[i] = Torn(lines[i])
    BY <1>1, <1>2 DEF TypeOK
  <2> QED
    BY <2>1, <2>2 DEF Torn, Line
<1>5. ASSUME NEW i \in 1 .. Len(lines) + 1
      PROVE  PrevOf(i)' = PrevOf(i)
  <2>1. CASE i = 1
    BY <2>1 DEF PrevOf
  <2>2. CASE i # 1
    <3>1. i - 1 \in 1 .. Len(lines)
      BY <2>2, <1>2
    <3>2. lines'[i - 1].record_hash = lines[i - 1].record_hash
      BY <3>1, <1>4
    <3> QED
      BY <2>2, <3>2 DEF PrevOf
  <2> QED
    BY <2>1, <2>2
<1>6. last_hash = PrevOf(Len(lines) + 1)
  <2>1. CASE lines = <<>>
    BY <2>1 DEF last_hash, PrevOf
  <2>2. CASE lines # <<>>
    <3>1. Len(lines) + 1 # 1 /\ Len(lines) + 1 - 1 = Len(lines)
      BY <2>2, <1>2 DEF TypeOK
    <3> QED
      BY <2>2, <3>1 DEF last_hash, PrevOf
  <2> QED
    BY <2>1, <2>2
<1>7. ASSUME NEW i \in 1 .. Len(lines')
      PROVE  Linked(i)'
  <2>1. CASE i \in 1 .. Len(lines)
    <3>1. Linked(i)
      BY <2>1 DEF ChainIntact
    <3>2. PrevOf(i)' = PrevOf(i)
      BY <2>1, <1>2, <1>5
    <3> QED
      BY <2>1, <3>1, <3>2, <1>4 DEF Linked, compute_hash
  <2>2. CASE i \notin 1 .. Len(lines)
    <3>1. i = Len(lines) + 1 /\ lines'[i] = line
      BY <2>2, <1>1, <1>2 DEF TypeOK
    <3>2. PrevOf(i)' = last_hash
      BY <3>1, <1>2, <1>5, <1>6
    <3> QED
      BY <3>1, <3>2 DEF Linked, compute_hash
  <2> QED
    BY <2>1, <2>2
<1>8. ASSUME NEW i \in 1 .. Len(lines'), i < Len(lines')
      PROVE  lines'[i].readable
  <2>1. i \in 1 .. Len(lines) /\ lines'[i] = lines[i]
    BY <1>1, <1>2, <1>8 DEF TypeOK
  <2> QED
    BY <2>1 DEF Readable
<1>9. ChainIntact'
  BY <1>7, <1>8 DEF ChainIntact
<1> QED
  BY <1>2, <1>3, <1>5, <1>9

(***************************************************************************)
(* The invariant holds of the empty log.                                   *)
(***************************************************************************)
LEMMA InitChain == Init => ChainInv
<1> SUFFICES ASSUME Init PROVE ChainInv
  OBVIOUS
<1>1. ChainIntact
  BY DEF Init, ChainIntact
<1>2. NoFalseAlarm
  BY DEF Init, NoFalseAlarm
<1>3. \A w \in Writers : Prepared(w)
  BY DEF Init, Prepared
<1>4. \A r \in Readers : OnTrack(r)
  BY DEF Init, OnTrack
<1> QED
  BY <1>1, <1>2, <1>3, <1>4 DEF ChainInv

(***************************************************************************)
(* A writer that writes: whatever of its record reaches the file.          *)
(***************************************************************************)
LEMMA WriteKeepsInv ==
  ASSUME OneWriterOnly, TypeOK, ChainInv,
         NEW w \in Writers, writing[w],
         \/ UNCHANGED lines
         \/ lines' = Written(sealed[w])
         \/ lines' = Written(Torn(sealed[w])),
         writing' = [writing EXCEPT ![w] = FALSE],
         UNCHANGED <<sealed, reader, altered>>
  PROVE  ChainInv'
<1>1. NoFalseAlarm'
  BY DEF ChainInv, NoFalseAlarm
<1>2. CASE altered # "no"
  BY <1>1, <1>2 DEF ChainInv, ChainIntact
<1>3. CASE altered = "no"
  <2>1. /\ ChainIntact /\ Readable
        /\ sealed[w].prev_hash = last_hash
        /\ sealed[w].record_hash = compute_hash(sealed[w].body, sealed[w].prev_hash)
        /\ \A r \in Readers : OnTrack(r)
    BY <1>3 DEF ChainInv, Prepared
  <2>2. sealed[w] \in Line /\ Len(lines) \in Nat
    BY DEF TypeOK
  <2>3. /\ Torn(sealed[w]) \in Line
        /\ Torn(sealed[w]).body = sealed[w].body
        /\ Torn(sealed[w]).prev_hash = sealed[w].prev_hash
        /\ Torn(sealed[w]).record_hash = sealed[w].record_hash
    BY <2>2 DEF Torn, Line
  <2>4. /\ ChainIntact'
        /\ Len(lines') \in Nat /\ Len(lines') >= Len(lines)
        /\ \A i \in 1 .. Len(lines) + 1 : PrevOf(i)' = PrevOf(i)
    <3>1. CASE UNCHANGED lines
      BY <3>1, <2>1, <2>2 DEF ChainIntact, Linked, PrevOf
    <3>2. CASE lines' = Written(sealed[w])
      BY <3>2, <1>3, <2>1, <2>2, WriteKeepsChain
    <3>3. CASE lines' = Written(Torn(sealed[w]))
      BY <3>3, <1>3, <2>1, <2>3, WriteKeepsChain
    <3> QED
      BY <3>1, <3>2, <3>3
  <2>5. \A v \in Writers : Prepared(v)'
    <3>1. \A v \in Writers : ~ writing'[v]
      BY DEF OneWriterOnly, TypeOK
    <3> QED
      BY <3>1 DEF Prepared
  <2>6. ASSUME NEW r \in Readers PROVE OnTrack(r)'
    <3>1. reader[r].at \in Nat \ {0}
      BY DEF TypeOK, Walk
    <3>2. CASE reader[r].stage = "checking"
      <4>1. reader[r].at \in 1 .. Len(lines) + 1 /\ reader[r].prev = PrevOf(reader[r].at)
        BY <2>1, <2>2, <3>1, <3>2 DEF OnTrack
      <4>2. PrevOf(reader[r].at)' = PrevOf(reader[r].at)
        BY <4>1, <2>4 DEF PrevOf
      <4> QED
        BY <3>2, <4>1, <4>2, <2>2, <2>4 DEF OnTrack
    <3>3. CASE reader[r].stage # "checking"
      BY <3>3, <2>1 DEF OnTrack
    <3> QED
      BY <3>2, <3>3
  <2> QED
    BY <1>1, <2>4, <2>5, <2>6 DEF ChainInv
<1> QED
  BY <1>2, <1>3

(***************************************************************************)
(* A walk that meets linked lines stays on its track and raises no alarm.  *)
(***************************************************************************)
LEMMA ReadKeepsInv ==
  ASSUME TypeOK, ChainInv, NEW r \in Readers,
         StartEvidence(r) \/ CountRecord(r) \/ StartCheck(r) \/ CheckRecord(r) \/ EndCheck(r)
  PROVE  ChainInv'
<1>1. UNCHANGED <<lines, open, sealed, writing, altered, acknowledged>>
  BY DEF StartEvidence, CountRecord, StartCheck, CheckRecord, EndCheck
<1>2. ChainIntact' /\ (altered = "no" => \A w \in Writers : Prepared(w)')
  BY <1>1 DEF ChainInv, ChainIntact, Linked, PrevOf, Prepared, Readable, last_hash
<1>3. /\ Len(lines) \in Nat
      /\ reader[r].at \in Nat \ {0}
      /\ reader \in [Readers -> Walk]
  BY DEF TypeOK, Walk
<1>4. \A s \in Readers : s # r => reader'[s] = reader[s]
  BY <1>3 DEF StartEvidence, CountRecord, StartCheck, CheckRecord, EndCheck
<1>5. ASSUME altered = "no", OnTrack(r)
      PROVE  OnTrack(r)' /\ reader'[r].stage # "invalid"
  <2>1. reader[r].stage # "invalid"
    BY <1>5 DEF ChainInv, NoFalseAlarm
  <2>2. CASE StartEvidence(r)
    BY <2>2, <1>3, <1>5 DEF StartEvidence, OnTrack, Walk
  <2>3. CASE CountRecord(r)
    BY <2>3, <1>3, <1>5 DEF CountRecord, OnTrack, Walk
  <2>4. CASE StartCheck(r)
    BY <2>4, <1>1, <1>3, <1>5 DEF StartCheck, OnTrack, PrevOf, Walk
  <2>5. CASE CheckRecord(r)
    <3> DEFINE at == reader[r].at
               line == lines[at]
    <3>1. at \in 1 .. Len(lines) /\ reader[r].prev = PrevOf(at)
      BY <2>5, <1>3, <1>5 DEF CheckRecord, OnTrack
    <3>2. Intact(line, reader[r].prev)
      BY <3>1, <1>5 DEF ChainInv, ChainIntact, Linked, Intact
    <3>3. CASE ~ line.readable
      BY <2>5, <3>3, <1>3 DEF CheckRecord, OnTrack, Walk
    <3>4. CASE line.readable
      <4>1. /\ reader'[r].stage = "checking"
            /\ reader'[r].at = at + 1
            /\ reader'[r].prev = line.record_hash
        BY <2>5, <3>2, <3>4, <1>3 DEF CheckRecord, Walk
      <4>2. reader'[r].at # 1 /\ reader'[r].at - 1 = at /\ reader'[r].at <= Len(lines') + 1
        BY <4>1, <3>1, <1>1, <1>3
      <4>3. PrevOf(reader[r].at)' = line.record_hash
        BY <4>2, <1>1 DEF PrevOf
      <4> QED
        BY <4>1, <4>2, <4>3 DEF OnTrack
    <3> QED
      BY <3>3, <3>4
  <2>6. CASE EndCheck(r)
    BY <2>6, <1>3 DEF EndCheck, OnTrack, Walk
  <2> QED
    BY <2>2, <2>3, <2>4, <2>5, <2>6
<1>6. ASSUME NEW s \in Readers, s # r, altered = "no", OnTrack(s)
      PROVE  OnTrack(s)'
  BY <1>1, <1>4, <1>6 DEF OnTrack, PrevOf
<1>7. altered = "no" => \A s \in Readers : OnTrack(s)'
  BY <1>5, <1>6 DEF ChainInv
<1>8. NoFalseAlarm'
  BY <1>1, <1>4, <1>5 DEF ChainInv, NoFalseAlarm
<1> QED
  BY <1>1, <1>2, <1>7, <1>8 DEF ChainInv

(***************************************************************************)
(* Every step keeps the invariant.  A second record is prepared only when  *)
(* the only writer has none pending; an alteration ends its hypothesis.    *)
(***************************************************************************)
LEMMA NextChain ==
  ASSUME OneWriterOnly, TypeOK, ChainInv, [Next]_vars
  PROVE  ChainInv'
<1>1. ASSUME NEW w \in Writers, Record(w) PROVE ChainInv'
  <2>1. UNCHANGED <<lines, open, reader, altered, acknowledged>> /\ Readable
    BY <1>1 DEF Record
  <2>2. ChainIntact' /\ NoFalseAlarm' /\ (altered = "no" => \A r \in Readers : OnTrack(r)')
    BY <2>1 DEF ChainInv, ChainIntact, NoFalseAlarm, OnTrack, Linked, PrevOf
  <2>3. PICK body \in Body : sealed' = [sealed EXCEPT ![w] = Seal(body, last_hash)]
    <3>1. \A report \in Reports : \A decision \in {Decision(report), "overridden"} :
            [actor |-> w, decision |-> decision] \in Body
      BY DecisionType DEF Body, Decisions
    <3> QED
      BY <1>1, <3>1 DEF Record
  <2>4. last_hash \in Hash
    BY LastHashType DEF TypeOK
  <2>5. /\ sealed'[w].prev_hash = last_hash
        /\ sealed'[w].record_hash = compute_hash(sealed'[w].body, last_hash)
    BY <2>3, <2>4, SealLine DEF TypeOK
  <2>6. Prepared(w)'
    BY <2>1, <2>5 DEF Prepared, Readable, last_hash, compute_hash
  <2>7. \A v \in Writers : Prepared(v)'
    BY <2>6 DEF OneWriterOnly
  <2> QED
    BY <2>1, <2>2, <2>7 DEF ChainInv
<1>2. ASSUME NEW w \in Writers, Appends(w) PROVE ChainInv'
  BY <1>2, WriteKeepsInv DEF Appends
<1>3. ASSUME NEW w \in Writers, Crash(w) PROVE ChainInv'
  <2>1. \/ UNCHANGED lines
        \/ lines' = Written(sealed[w])
        \/ lines' = Written(Torn(sealed[w]))
    BY <1>3 DEF Crash
  <2> QED
    BY <1>3, <2>1, WriteKeepsInv DEF Crash
<1>4. ASSUME NEW r \in Readers,
             StartEvidence(r) \/ CountRecord(r) \/ StartCheck(r) \/ CheckRecord(r) \/ EndCheck(r)
      PROVE ChainInv'
  BY <1>4, ReadKeepsInv
<1>5. ASSUME NEW i \in 1 .. Len(lines), Alter(i) PROVE ChainInv'
  <2>1. altered' # "no"
    BY <1>5 DEF Alter
  <2> QED
    BY <2>1 DEF ChainInv, ChainIntact, NoFalseAlarm
<1>6. CASE UNCHANGED vars
  BY <1>6 DEF vars, ChainInv, ChainIntact, NoFalseAlarm, Prepared, OnTrack, Readable, Linked, PrevOf, last_hash
<1> QED
  BY <1>1, <1>2, <1>3, <1>4, <1>5, <1>6 DEF Next, WriterStep, ReaderStep

(***************************************************************************)
(* With one writer, the lines of a log that nobody alters form one chain,  *)
(* and a crash can only make its last line unreadable.                     *)
(***************************************************************************)
THEOREM ChainStaysIntact ==
  ASSUME OneWriterOnly
  PROVE  Spec => []ChainIntact
<1>1. Init => TypeOK /\ ChainInv
  BY InitType, InitChain
<1>2. TypeOK /\ ChainInv /\ [Next]_vars => (TypeOK /\ ChainInv)'
  BY NextType, NextChain
<1>3. ChainInv => ChainIntact
  BY DEF ChainInv
<1> QED
  BY <1>1, <1>2, <1>3, PTL DEF Spec

(***************************************************************************)
(* With one writer, a chain reported as broken has been altered, whatever  *)
(* the writer appends while the walk goes on, and wherever it crashed.     *)
(***************************************************************************)
THEOREM NoAlarmUnlessAltered ==
  ASSUME OneWriterOnly
  PROVE  Spec => []NoFalseAlarm
<1>1. Init => TypeOK /\ ChainInv
  BY InitType, InitChain
<1>2. TypeOK /\ ChainInv /\ [Next]_vars => (TypeOK /\ ChainInv)'
  BY NextType, NextChain
<1>3. ChainInv => NoFalseAlarm
  BY DEF ChainInv
<1> QED
  BY <1>1, <1>2, <1>3, PTL DEF Spec

-----------------------------------------------------------------------------
(***************************************************************************)
(* No silent loss, for any number of writers: as long as every line can be *)
(* read, every acknowledged record is one of them.  A record merged into a *)
(* line that lacked its newline leaves a line that cannot be read.         *)
(***************************************************************************)
NothingLost ==
  altered = "no" /\ Readable =>
    \A line \in acknowledged : \E i \in 1 .. Len(lines) : lines[i] = line

(***************************************************************************)
(* A write loses no line of a file that is readable after it, and if it    *)
(* leaves such a file, what was written is a line of it.                   *)
(***************************************************************************)
LEMMA WriteLosesNothing ==
  ASSUME TypeOK, NEW line \in Line, lines' = Written(line), Readable'
  PROVE  /\ Readable
         /\ \A i \in 1 .. Len(lines) : i \in 1 .. Len(lines') /\ lines'[i] = lines[i]
         /\ \E i \in 1 .. Len(lines') : lines'[i] = line
<1>1. lines \in Seq(Line) /\ open \in BOOLEAN /\ (open => lines # <<>>) /\ Len(lines) \in Nat
  BY DEF TypeOK
<1>2. ~ open
  <2>1. SUFFICES ASSUME open PROVE FALSE
    OBVIOUS
  <2>2. /\ Len(lines') = Len(lines) /\ Len(lines) >= 1
        /\ lines'[Len(lines)] = Torn(lines[Len(lines)])
    BY <1>1, <2>1, WrittenLines
  <2>3. Len(lines) \in 1 .. Len(lines') /\ lines[Len(lines)] \in Line
    BY <1>1, <2>2
  <2>4. lines'[Len(lines)].readable = FALSE
    BY <2>2, <2>3 DEF Torn, Line
  <2> QED
    BY <2>3, <2>4 DEF Readable
<1>3. /\ Len(lines') = Len(lines) + 1
      /\ \A i \in 1 .. Len(lines) : lines'[i] = lines[i]
      /\ lines'[Len(lines) + 1] = line
  BY <1>1, <1>2, WrittenLines
<1>4. \A i \in 1 .. Len(lines) : i \in 1 .. Len(lines') /\ lines'[i] = lines[i]
  BY <1>1, <1>3
<1>5. Len(lines) + 1 \in 1 .. Len(lines')
  BY <1>1, <1>3
<1>6. Readable
  BY <1>4 DEF Readable
<1> QED
  BY <1>3, <1>4, <1>5, <1>6

(***************************************************************************)
(* Nothing is lost, for any number of writers, by any step but an          *)
(* alteration.                                                             *)
(***************************************************************************)
LEMMA NextLosesNothing ==
  ASSUME TypeOK, NothingLost, [Next]_vars
  PROVE  NothingLost'
<1>1. ASSUME NEW w \in Writers, NEW line \in Line, lines' = Written(line), UNCHANGED altered,
             acknowledged' \subseteq acknowledged \cup {line}
      PROVE  NothingLost'
  <2> SUFFICES ASSUME altered = "no", Readable', NEW a \in acknowledged'
               PROVE  \E i \in 1 .. Len(lines') : lines'[i] = a
    BY <1>1 DEF NothingLost
  <2>1. /\ Readable
        /\ \A i \in 1 .. Len(lines) : i \in 1 .. Len(lines') /\ lines'[i] = lines[i]
        /\ \E i \in 1 .. Len(lines') : lines'[i] = line
    BY <1>1, WriteLosesNothing
  <2>2. CASE a \in acknowledged
    <3>1. PICK i \in 1 .. Len(lines) : lines[i] = a
      BY <2>1, <2>2 DEF NothingLost
    <3> QED
      BY <3>1, <2>1
  <2>3. CASE a = line
    BY <2>1, <2>3
  <2> QED
    BY <1>1, <2>2, <2>3
<1>2. ASSUME UNCHANGED <<lines, altered, acknowledged>> PROVE NothingLost'
  BY <1>2 DEF NothingLost, Readable
<1>3. ASSUME NEW w \in Writers, Appends(w) PROVE NothingLost'
  <2>1. sealed[w] \in Line
    BY DEF TypeOK
  <2> QED
    BY <1>1, <1>3, <2>1 DEF Appends
<1>4. ASSUME NEW w \in Writers, Crash(w) PROVE NothingLost'
  <2>1. sealed[w] \in Line /\ Torn(sealed[w]) \in Line
    BY DEF TypeOK, Torn, Line
  <2>2. \/ UNCHANGED lines
        \/ lines' = Written(sealed[w])
        \/ lines' = Written(Torn(sealed[w]))
    BY <1>4 DEF Crash
  <2>3. UNCHANGED <<altered, acknowledged>>
    BY <1>4 DEF Crash
  <2> QED
    BY <1>1, <1>2, <2>1, <2>2, <2>3
<1>5. ASSUME NEW w \in Writers, Record(w) PROVE NothingLost'
  BY <1>2, <1>5 DEF Record
<1>6. ASSUME NEW r \in Readers,
             StartEvidence(r) \/ CountRecord(r) \/ StartCheck(r) \/ CheckRecord(r) \/ EndCheck(r)
      PROVE NothingLost'
  BY <1>2, <1>6 DEF StartEvidence, CountRecord, StartCheck, CheckRecord, EndCheck
<1>7. ASSUME NEW i \in 1 .. Len(lines), Alter(i) PROVE NothingLost'
  BY <1>7 DEF Alter, NothingLost
<1>8. CASE UNCHANGED vars
  BY <1>2, <1>8 DEF vars
<1> QED
  BY <1>3, <1>4, <1>5, <1>6, <1>7, <1>8 DEF Next, WriterStep, ReaderStep

(***************************************************************************)
(* A log that verifies, and that nobody altered, holds every record whose  *)
(* writer was told that it is recorded, for any number of writers and any  *)
(* crash.                                                                  *)
(***************************************************************************)
THEOREM AcknowledgedIsKept == Spec => []NoSilentLoss
<1>1. Init => TypeOK /\ NothingLost
  <2>1. Init => NothingLost
    BY DEF Init, NothingLost
  <2> QED
    BY <2>1, InitType
<1>2. TypeOK /\ NothingLost /\ [Next]_vars => (TypeOK /\ NothingLost)'
  BY NextType, NextLosesNothing
<1>3. NothingLost => NoSilentLoss
  BY DEF NothingLost, NoSilentLoss, ChainValid, Readable
<1> QED
  BY <1>1, <1>2, <1>3, PTL DEF Spec

-----------------------------------------------------------------------------
(***************************************************************************)
(* How far a walk has come over a file that only grows.                    *)
(***************************************************************************)
Progress(walk, n) ==
  /\ walk.stage = "idle" => walk.at = 1 /\ walk.total = 0 /\ walk.records = 0
  /\ walk.stage = "counting" => walk.total = walk.at - 1 /\ walk.total <= n /\ walk.records = 0
  /\ walk.stage = "checking" => walk.records = walk.at - 1 /\ walk.records <= n /\ walk.total <= n
  /\ walk.stage = "valid" => walk.total <= walk.records /\ walk.records <= n

WalksProgress == altered = "no" => \A r \in Readers : Progress(reader[r], Len(lines))

(***************************************************************************)
(* One turn of a walk over n lines.                                        *)
(***************************************************************************)
LEMMA TurnProgress ==
  ASSUME TypeOK, NEW r \in Readers, Progress(reader[r], Len(lines)),
         StartEvidence(r) \/ CountRecord(r) \/ StartCheck(r) \/ CheckRecord(r) \/ EndCheck(r)
  PROVE  Progress(reader'[r], Len(lines))
  <1> DEFINE walk == reader[r]
             n == Len(lines)
  <1>1. n \in Nat /\ walk \in Walk /\ reader \in [Readers -> Walk]
    BY DEF TypeOK
  <1>2. walk.at \in Nat \ {0} /\ walk.total \in Nat /\ walk.records \in Nat
    BY <1>1 DEF Walk
  <1>3. Progress(walk, n)
    OBVIOUS
  <1>4. CASE StartEvidence(r)
    <2>1. walk.stage = "idle" /\ reader'[r] = [walk EXCEPT !.stage = "counting", !.began = altered]
      BY <1>1, <1>4 DEF StartEvidence
    <2> HIDE DEF n, walk
    <2>2. /\ reader'[r].stage = "counting" /\ reader'[r].at = walk.at
          /\ reader'[r].total = walk.total /\ reader'[r].records = walk.records
      BY <1>1, <2>1 DEF Walk
    <2>3. Progress(reader'[r], n)
      BY <1>1, <1>2, <1>3, <2>1, <2>2 DEF Progress
    <2> QED
      BY <2>3 DEF n
  <1>5. CASE CountRecord(r)
    <2>1. /\ walk.stage = "counting" /\ walk.at <= n
          /\ \/ reader'[r] = [walk EXCEPT !.at = @ + 1, !.total = @ + 1]
             \/ reader'[r] = [walk EXCEPT !.stage = "raised"]
      BY <1>1, <1>5 DEF CountRecord
    <2> HIDE DEF n, walk
    <2>2. \/ /\ reader'[r].stage = "counting" /\ reader'[r].at = walk.at + 1
             /\ reader'[r].total = walk.total + 1 /\ reader'[r].records = walk.records
          \/ reader'[r].stage = "raised"
      BY <1>1, <2>1 DEF Walk
    <2>3. Progress(reader'[r], n)
      BY <1>1, <1>2, <1>3, <2>1, <2>2 DEF Progress
    <2> QED
      BY <2>3 DEF n
  <1>6. CASE StartCheck(r)
    <2>1. walk.stage = "counting" /\ reader'[r] = [walk EXCEPT !.stage = "checking", !.at = 1]
      BY <1>1, <1>6 DEF StartCheck
    <2> HIDE DEF n, walk
    <2>2. /\ reader'[r].stage = "checking" /\ reader'[r].at = 1
          /\ reader'[r].total = walk.total /\ reader'[r].records = walk.records
      BY <1>1, <2>1 DEF Walk
    <2>3. Progress(reader'[r], n)
      BY <1>1, <1>2, <1>3, <2>1, <2>2 DEF Progress
    <2> QED
      BY <2>3 DEF n
  <1>7. CASE CheckRecord(r)
    <2>1. /\ walk.stage = "checking" /\ walk.at <= n
          /\ \/ reader'[r] = [walk EXCEPT !.at = @ + 1, !.records = @ + 1, !.prev = lines[walk.at].record_hash]
             \/ reader'[r] = [walk EXCEPT !.stage = "raised"]
             \/ reader'[r] = [walk EXCEPT !.stage = "invalid", !.records = @ + 1]
      <3> DEFINE line == lines[walk.at]
      <3>1. /\ walk.stage = "checking" /\ walk.at <= n
            /\ \/ reader' = [reader EXCEPT ![r].at = @ + 1, ![r].records = @ + 1, ![r].prev = line.record_hash]
               \/ reader' = [reader EXCEPT ![r].stage = "raised"]
               \/ reader' = [reader EXCEPT ![r].stage = "invalid", ![r].records = @ + 1]
        BY <1>7, Zenon DEF CheckRecord
      <3> QED
        BY <1>1, <3>1
    <2> HIDE DEF n, walk
    <2>2. \/ /\ reader'[r].stage = "checking" /\ reader'[r].at = walk.at + 1
             /\ reader'[r].total = walk.total /\ reader'[r].records = walk.records + 1
          \/ reader'[r].stage \in {"raised", "invalid"}
      BY <1>1, <2>1 DEF Walk
    <2>3. Progress(reader'[r], n)
      BY <1>1, <1>2, <1>3, <2>1, <2>2 DEF Progress
    <2> QED
      BY <2>3 DEF n
  <1>8. CASE EndCheck(r)
    <2>1. walk.stage = "checking" /\ walk.at > n /\ reader'[r] = [walk EXCEPT !.stage = "valid"]
      BY <1>1, <1>8 DEF EndCheck
    <2> HIDE DEF n, walk
    <2>2. /\ reader'[r].stage = "valid" /\ reader'[r].at = walk.at
          /\ reader'[r].total = walk.total /\ reader'[r].records = walk.records
      BY <1>1, <2>1 DEF Walk
    <2>3. Progress(reader'[r], n)
      BY <1>1, <1>2, <1>3, <2>1, <2>2 DEF Progress
    <2> QED
      BY <2>3 DEF n
  <1> QED
    BY <1>4, <1>5, <1>6, <1>7, <1>8

(***************************************************************************)
(* A longer file does not undo the progress of a walk.                     *)
(***************************************************************************)
LEMMA GrowthProgress ==
  ASSUME NEW walk \in Walk, NEW n \in Nat, NEW m \in Nat, n <= m, Progress(walk, n)
  PROVE  Progress(walk, m)
  <1>1. walk.total \in Nat /\ walk.records \in Nat
    BY DEF Walk
  <1> QED
    BY <1>1 DEF Progress

LEMMA NextProgress ==
  ASSUME TypeOK, WalksProgress, [Next]_vars
  PROVE  WalksProgress'
  <1>1. lines \in Seq(Line) /\ Len(lines) \in Nat /\ reader \in [Readers -> Walk]
    BY DEF TypeOK
  <1>2. ASSUME reader' = reader, altered' = altered,
               lines' = lines \/ \E w \in Writers :
                 lines' = Written(sealed[w]) \/ lines' = Written(Torn(sealed[w]))
        PROVE  WalksProgress'
    <2>1. Len(lines') \in Nat /\ Len(lines) <= Len(lines')
      <3>1. CASE lines' = lines
        BY <1>1, <3>1
      <3>2. ASSUME NEW w \in Writers, lines' = Written(sealed[w]) \/ lines' = Written(Torn(sealed[w]))
            PROVE  Len(lines') \in Nat /\ Len(lines) <= Len(lines')
        <4>1. sealed[w] \in Line /\ Torn(sealed[w]) \in Line
          BY DEF TypeOK, Torn, Line
        <4>2. ASSUME NEW line \in Line, lines' = Written(line)
              PROVE  Len(lines') \in Nat /\ Len(lines) <= Len(lines')
          <5>1. Len(lines') = Len(lines) \/ Len(lines') = Len(lines) + 1
            BY <4>2, WrittenLines DEF TypeOK
          <5> QED
            BY <1>1, <5>1
        <4> QED
          BY <3>2, <4>1, <4>2
      <3> QED
        BY <1>2, <3>1, <3>2
    <2> SUFFICES ASSUME altered = "no", NEW r \in Readers
                 PROVE  Progress(reader[r], Len(lines'))
      BY <1>2 DEF WalksProgress, Progress
    <2>2. Progress(reader[r], Len(lines)) /\ reader[r] \in Walk
      BY <1>1 DEF WalksProgress
    <2> QED
      BY <1>1, <2>1, <2>2, GrowthProgress
  <1>3. ASSUME NEW w \in Writers, Record(w) \/ Appends(w) \/ Crash(w) PROVE WalksProgress'
    <2>1. /\ reader' = reader /\ altered' = altered
          /\ lines' = lines \/ lines' = Written(sealed[w]) \/ lines' = Written(Torn(sealed[w]))
      BY <1>3 DEF Record, Appends, Crash
    <2> QED
      BY <1>2, <2>1
  <1>4. ASSUME NEW r \in Readers,
               StartEvidence(r) \/ CountRecord(r) \/ StartCheck(r) \/ CheckRecord(r) \/ EndCheck(r)
        PROVE  WalksProgress'
    <2>1. lines' = lines /\ altered' = altered
      BY <1>4 DEF StartEvidence, CountRecord, StartCheck, CheckRecord, EndCheck
    <2>2. \A s \in Readers : s # r => reader'[s] = reader[s]
      BY <1>1, <1>4 DEF StartEvidence, CountRecord, StartCheck, CheckRecord, EndCheck
    <2>3. ASSUME altered = "no", NEW s \in Readers PROVE Progress(reader'[s], Len(lines))
      <3>1. Progress(reader[s], Len(lines))
        BY <2>3 DEF WalksProgress
      <3>2. CASE s = r
        BY <1>4, <3>1, <3>2, TurnProgress
      <3>3. CASE s # r
        BY <2>2, <3>1, <3>3
      <3> QED
        BY <3>2, <3>3
    <2> QED
      BY <2>1, <2>3 DEF WalksProgress, Progress
  <1>5. ASSUME NEW i \in 1 .. Len(lines), Alter(i) PROVE WalksProgress'
    BY <1>5 DEF Alter, WalksProgress
  <1>6. CASE UNCHANGED vars
    BY <1>2, <1>6 DEF vars
  <1> QED
    BY <1>3, <1>4, <1>5, <1>6 DEF Next, WriterStep, ReaderStep

(***************************************************************************)
(* For any number of writers, and whatever they append between the two     *)
(* passes of evidence_pack: what the second pass verifies is at least what *)
(* the first one counted, and is in the file.                              *)
(***************************************************************************)
THEOREM EvidenceIsCovered == Spec => []EvidenceAddsUp
  <1>1. Init => TypeOK /\ WalksProgress
    <2>1. Init => WalksProgress
      BY DEF Init, WalksProgress, Progress
    <2> QED
      BY <2>1, InitType
  <1>2. TypeOK /\ WalksProgress /\ [Next]_vars => (TypeOK /\ WalksProgress)'
    BY NextType, NextProgress
  <1>3. WalksProgress => EvidenceAddsUp
    BY DEF WalksProgress, Progress, EvidenceAddsUp
  <1> QED
    BY <1>1, <1>2, <1>3, PTL DEF Spec

-----------------------------------------------------------------------------
(***************************************************************************)
(* What an alteration leaves behind: a line that does not follow from the  *)
(* one before it, or that cannot be read.                                  *)
(***************************************************************************)
Bad(i) == ~ lines[i].readable \/ ~ Linked(i)

(***************************************************************************)
(* A walk that began on an altered file has a bad line before it, and its  *)
(* expectation is that of the file.                                        *)
(***************************************************************************)
Ahead(r) ==
  /\ reader[r].stage \in {"idle", "counting"} => reader[r].prev = GENESIS_HASH
  /\ reader[r].began = "inner" =>
       /\ altered = "inner" /\ reader[r].stage # "valid"
       /\ reader[r].stage = "checking" =>
            /\ reader[r].prev = PrevOf(reader[r].at)
            /\ \E i \in reader[r].at .. Len(lines) : Bad(i)

ShownInv ==
  /\ altered = "inner" => \E i \in 1 .. Len(lines) : Bad(i)
  /\ \A r \in Readers : Ahead(r)

(***************************************************************************)
(* A digest is that of one body behind one digest, and is not that of its  *)
(* own past.                                                               *)
(***************************************************************************)
LEMMA HashFacts ==
  ASSUME NEW prev \in Hash, NEW body \in Body
  PROVE  /\ compute_hash(body, prev) # prev
         /\ \A other \in Body : compute_hash(other, prev) = compute_hash(body, prev) => other = body
<1>1. /\ Len(Append(prev, body)) = Len(prev) + 1 /\ Len(prev) \in Nat
      /\ Append(prev, body)[Len(prev) + 1] = body
      /\ \A other \in Body : Append(prev, other)[Len(prev) + 1] = other
  BY DEF Hash
<1>2. Append(prev, body) # prev
  BY <1>1
<1> QED
  BY <1>1, <1>2 DEF compute_hash

LEMMA PrevType ==
  ASSUME lines \in Seq(Line), NEW i \in 1 .. Len(lines) + 1
  PROVE  PrevOf(i) \in Hash
<1>1. CASE i = 1
  BY <1>1 DEF PrevOf, GENESIS_HASH, Hash
<1>2. CASE i # 1
  <2>1. lines[i - 1] \in Line
    BY <1>2
  <2> QED
    BY <1>2, <2>1 DEF PrevOf, Line
<1> QED
  BY <1>1, <1>2

(***************************************************************************)
(* Where an alteration of a chain of linked lines shows: at the line, if   *)
(* its body was edited, or at the one that follows it.                     *)
(***************************************************************************)
LEMMA AlterationBreaks ==
  ASSUME TypeOK, ChainIntact, NEW i \in 1 .. Len(lines), Alter(i), altered' = "inner"
  PROVE  \E k \in 1 .. Len(lines') : Bad(k)'
<1> DEFINE n == Len(lines)
<1>1. /\ lines \in Seq(Line) /\ n \in Nat /\ altered = "no"
      /\ \A k \in 1 .. n : lines[k] \in Line /\ Linked(k)
  BY DEF TypeOK, Alter, ChainIntact
<1>2. /\ lines[i].prev_hash = PrevOf(i)
      /\ lines[i].record_hash = compute_hash(lines[i].body, lines[i].prev_hash)
      /\ lines[i].body \in Body /\ lines[i].prev_hash \in Hash
  BY <1>1 DEF Linked, Line
<1>3. ASSUME NEW d \in Decisions, d # lines[i].body.decision
      PROVE  /\ Edited(lines[i], d).body \in Body /\ Edited(lines[i], d).body # lines[i].body
             /\ Edited(lines[i], d).prev_hash = lines[i].prev_hash
             /\ Edited(lines[i], d).record_hash = lines[i].record_hash
  <2>1. lines[i] \in Line
    BY <1>1
  <2>2. /\ Edited(lines[i], d).body = [lines[i].body EXCEPT !.decision = d]
        /\ Edited(lines[i], d).prev_hash = lines[i].prev_hash
        /\ Edited(lines[i], d).record_hash = lines[i].record_hash
    BY <2>1 DEF Edited, Line
  <2>3. [lines[i].body EXCEPT !.decision = d] \in Body
    BY <1>2 DEF Body
  <2>4. [lines[i].body EXCEPT !.decision = d].decision = d
    BY <1>2 DEF Body
  <2> QED
    BY <1>3, <2>2, <2>3, <2>4
<1>4. compute_hash(lines[i].body, lines[i].prev_hash) # lines[i].prev_hash
  BY <1>2, HashFacts
<1>5. i < n => lines[i + 1].prev_hash = lines[i].record_hash
  <2>1. i < n => i + 1 \in 1 .. n /\ i + 1 # 1 /\ (i + 1) - 1 = i
    BY <1>1
  <2> QED
    BY <1>1, <2>1 DEF Linked, PrevOf
<1>6. CASE \E d \in Decisions \ {lines[i].body.decision} : lines' = [lines EXCEPT ![i] = Edited(@, d)]
  <2>1. PICK d \in Decisions : /\ d # lines[i].body.decision
                               /\ lines' = [lines EXCEPT ![i] = Edited(lines[i], d)]
    BY <1>6
  <2>2. lines'[i] = Edited(lines[i], d) /\ Len(lines') = n
    BY <1>1, <2>1
  <2>3. lines'[i].record_hash # compute_hash(lines'[i].body, lines'[i].prev_hash)
    BY <1>2, <1>3, <2>1, <2>2, HashFacts
  <2>4. Bad(i)'
    BY <2>3 DEF Bad, Linked, compute_hash
  <2> QED
    BY <2>2, <2>4
<1>7. CASE /\ i < n
           /\ \E d \in Decisions \ {lines[i].body.decision} :
                lines' = [lines EXCEPT ![i] = Seal(Edited(@, d).body, @.prev_hash)]
  <2>1. PICK d \in Decisions :
          /\ d # lines[i].body.decision
          /\ lines' = [lines EXCEPT ![i] = Seal(Edited(lines[i], d).body, lines[i].prev_hash)]
    BY <1>7
  <2> DEFINE new == Seal(Edited(lines[i], d).body, lines[i].prev_hash)
  <2>2. new.record_hash = compute_hash(Edited(lines[i], d).body, lines[i].prev_hash)
    BY DEF Seal
  <2>3. new.record_hash # lines[i].record_hash
    BY <1>2, <1>3, <2>1, <2>2, HashFacts
  <2> HIDE DEF new
  <2>4. /\ lines'[i] = new /\ Len(lines') = n /\ lines'[i + 1] = lines[i + 1]
        /\ i + 1 \in 1 .. n /\ i + 1 # 1 /\ (i + 1) - 1 = i
    BY <1>1, <1>7, <2>1 DEF new
  <2>5. lines'[i + 1].prev_hash # lines'[i].record_hash
    BY <1>5, <1>7, <2>3, <2>4
  <2>6. Bad(i + 1)'
    BY <2>4, <2>5 DEF Bad, Linked, PrevOf
  <2> QED
    BY <2>4, <2>6
<1>8. CASE i < n /\ lines' = Without(i)
  <2>1. /\ Len(lines') = n - 1 /\ i \in 1 .. Len(lines') /\ lines'[i] = lines[i + 1]
        /\ \A k \in 1 .. i - 1 : lines'[k] = lines[k]
    <3> DEFINE front == SubSeq(lines, 1, i - 1)
               back == SubSeq(lines, i + 1, n)
    <3>1. /\ front \in Seq(Line) /\ Len(front) = i - 1
          /\ \A k \in 1 .. i - 1 : front[k] = lines[k]
      BY <1>1
    <3>2. back \in Seq(Line) /\ Len(back) = n - i /\ back[1] = lines[i + 1]
      BY <1>1, <1>8
    <3>3. lines' = front \o back
      BY <1>8 DEF Without
    <3> HIDE DEF front, back
    <3> QED
      BY <1>1, <1>8, <3>1, <3>2, <3>3
  <2>2. PrevOf(i)' = PrevOf(i)
    BY <2>1 DEF PrevOf
  <2>3. lines'[i].prev_hash # PrevOf(i)
    BY <1>2, <1>4, <1>5, <1>8, <2>1
  <2>4. Bad(i)'
    BY <2>2, <2>3 DEF Bad, Linked
  <2> QED
    BY <2>1, <2>4
<1>9. CASE lines' = Twice(i)
  <2>1. /\ Len(lines') = n + 1 /\ i + 1 \in 1 .. Len(lines') /\ i + 1 # 1 /\ (i + 1) - 1 = i
        /\ lines'[i] = lines[i] /\ lines'[i + 1] = lines[i]
    BY <1>1, <1>9 DEF Twice
  <2>2. lines'[i + 1].prev_hash # lines'[i].record_hash
    BY <1>2, <1>4, <2>1
  <2>3. Bad(i + 1)'
    BY <2>1, <2>2 DEF Bad, Linked, PrevOf
  <2> QED
    BY <2>1, <2>3
<1>10. i = n \/ i < n
  BY <1>1
<1> QED
  BY <1>6, <1>7, <1>8, <1>9, <1>10 DEF Alter

(***************************************************************************)
(* No write mends it, whoever writes what: the lines stay as they are, but *)
(* for the last one, which may become unreadable.                          *)
(***************************************************************************)
LEMMA WriteMendsNothing ==
  ASSUME TypeOK, NEW line \in Line, lines' = Written(line) \/ UNCHANGED lines
  PROVE  /\ Len(lines') \in Nat /\ Len(lines') >= Len(lines)
         /\ \A i \in 1 .. Len(lines) : Bad(i) => Bad(i)'
         /\ \A i \in 1 .. Len(lines) + 1 : PrevOf(i)' = PrevOf(i)
<1>1. /\ lines \in Seq(Line) /\ open \in BOOLEAN /\ (open => lines # <<>>)
      /\ Len(lines) \in Nat
  BY DEF TypeOK
<1>2. CASE UNCHANGED lines
  BY <1>1, <1>2 DEF Bad, Linked, PrevOf
<1>3. CASE lines' = Written(line)
  <2>1. /\ Len(lines') \in Nat /\ Len(lines') >= Len(lines)
        /\ \A i \in 1 .. Len(lines) : lines'[i] = lines[i] \/ lines'[i] = Torn(lines[i])
    BY <1>1, <1>3, WrittenLines
  <2>2. ASSUME NEW i \in 1 .. Len(lines)
        PROVE  /\ lines'[i].body = lines[i].body
               /\ lines'[i].prev_hash = lines[i].prev_hash
               /\ lines'[i].record_hash = lines[i].record_hash
               /\ ~ lines[i].readable => ~ lines'[i].readable
    <3>1. lines[i] \in Line
      BY <1>1
    <3> QED
      BY <2>1, <3>1 DEF Torn, Line
  <2>3. ASSUME NEW i \in 1 .. Len(lines) + 1 PROVE PrevOf(i)' = PrevOf(i)
    <3>1. CASE i = 1
      BY <3>1 DEF PrevOf
    <3>2. CASE i # 1
      <4>1. i - 1 \in 1 .. Len(lines)
        BY <1>1, <3>2
      <4> QED
        BY <2>2, <3>2, <4>1 DEF PrevOf
    <3> QED
      BY <3>1, <3>2
  <2>4. ASSUME NEW i \in 1 .. Len(lines), Bad(i) PROVE Bad(i)'
    <3>1. PrevOf(i)' = PrevOf(i)
      BY <1>1, <2>3
    <3> QED
      BY <2>2, <2>4, <3>1 DEF Bad, Linked, compute_hash
  <2> QED
    BY <2>1, <2>3, <2>4
<1> QED
  BY <1>2, <1>3

LEMMA InitShown == Init => ShownInv
  BY DEF Init, ShownInv, Ahead

(***************************************************************************)
(* A walk stays behind the bad line while the file grows.                  *)
(***************************************************************************)
LEMMA WriteKeepsShown ==
  ASSUME TypeOK, ShownInv, NEW line \in Line, lines' = Written(line) \/ UNCHANGED lines,
         UNCHANGED <<reader, altered>>
  PROVE  ShownInv'
<1>1. /\ Len(lines) \in Nat /\ Len(lines') \in Nat /\ Len(lines') >= Len(lines)
      /\ \A i \in 1 .. Len(lines) : Bad(i) => Bad(i)'
      /\ \A i \in 1 .. Len(lines) + 1 : PrevOf(i)' = PrevOf(i)
  BY WriteMendsNothing DEF TypeOK
<1>2. altered' = "inner" => \E i \in 1 .. Len(lines') : Bad(i)'
  <2>1. 1 .. Len(lines) \subseteq 1 .. Len(lines')
    BY <1>1
  <2> QED
    BY <1>1, <2>1 DEF ShownInv
<1>3. ASSUME NEW r \in Readers PROVE Ahead(r)'
  <2> DEFINE at == reader[r].at
  <2>1. Ahead(r) /\ at \in Nat \ {0}
    BY DEF ShownInv, TypeOK, Walk
  <2>2. CASE reader[r].began = "inner" /\ reader[r].stage = "checking"
    <3>1. PICK i \in at .. Len(lines) : Bad(i)
      BY <2>1, <2>2 DEF Ahead
    <3>2. i \in 1 .. Len(lines) /\ at \in 1 .. Len(lines) + 1 /\ i \in at .. Len(lines')
      BY <1>1, <2>1, <3>1
    <3>3. Bad(i)'
      BY <1>1, <3>1, <3>2
    <3>4. reader[r].prev = PrevOf(at) /\ PrevOf(at)' = PrevOf(at)
      BY <1>1, <2>1, <2>2, <3>2 DEF Ahead
    <3>5. (PrevOf(reader[r].at))' = PrevOf(at)'
      BY DEF PrevOf
    <3> HIDE DEF at
    <3>6. reader'[r] = reader[r] /\ reader'[r].at = at
      BY DEF at
    <3> QED
      BY <2>1, <2>2, <3>2, <3>3, <3>4, <3>5, <3>6 DEF Ahead
  <2>3. CASE ~ (reader[r].began = "inner" /\ reader[r].stage = "checking")
    BY <2>1, <2>3 DEF Ahead
  <2> QED
    BY <2>2, <2>3
<1> QED
  BY <1>2, <1>3 DEF ShownInv

(***************************************************************************)
(* A walk that reaches the bad line does not pass it.                      *)
(***************************************************************************)
LEMMA ReadKeepsShown ==
  ASSUME TypeOK, ShownInv, NEW r \in Readers,
         StartEvidence(r) \/ CountRecord(r) \/ StartCheck(r) \/ CheckRecord(r) \/ EndCheck(r)
  PROVE  ShownInv'
<1>1. UNCHANGED <<lines, altered>> /\ Len(lines) \in Nat
  BY DEF StartEvidence, CountRecord, StartCheck, CheckRecord, EndCheck, TypeOK
<1>2. /\ \A i \in 1 .. Len(lines) : Bad(i)' <=> Bad(i)
      /\ \A i \in 1 .. Len(lines) + 1 : PrevOf(i)' = PrevOf(i)
  BY <1>1 DEF Bad, Linked, PrevOf
<1>3. /\ reader[r].at \in Nat \ {0} /\ reader \in [Readers -> Walk] /\ reader[r] \in Walk
      /\ Ahead(r) /\ altered \in {"no", "tail", "inner"}
  BY DEF TypeOK, Walk, ShownInv
<1>4. \A s \in Readers : s # r => reader'[s] = reader[s]
  BY <1>3 DEF StartEvidence, CountRecord, StartCheck, CheckRecord, EndCheck
<1>5. ASSUME reader'[r].began = "inner" PROVE Ahead(r)'
  <2>1. CASE StartEvidence(r)
    <3>1. reader'[r].stage = "counting" /\ reader'[r].began = altered /\ reader'[r].prev = reader[r].prev
      BY <1>3, <2>1 DEF StartEvidence, Walk
    <3>2. reader[r].prev = GENESIS_HASH
      BY <1>3, <2>1 DEF StartEvidence, Ahead
    <3> QED
      BY <1>1, <1>5, <3>1, <3>2 DEF Ahead
  <2>2. CASE CountRecord(r)
    <3>1. /\ reader[r].stage = "counting" /\ reader[r].began = "inner" /\ reader'[r].prev = reader[r].prev
          /\ reader'[r].stage \in {"counting", "raised"}
      BY <1>3, <1>5, <2>2 DEF CountRecord, Walk
    <3> QED
      BY <1>1, <1>3, <3>1 DEF Ahead
  <2>3. CASE StartCheck(r)
    <3>1. /\ reader[r].stage = "counting" /\ reader[r].began = "inner" /\ reader'[r].prev = reader[r].prev
          /\ reader'[r].stage = "checking" /\ reader'[r].at = 1
      BY <1>3, <1>5, <2>3 DEF StartCheck, Walk
    <3>2. altered = "inner" /\ reader'[r].prev = GENESIS_HASH
      BY <1>3, <3>1 DEF Ahead
    <3>3. \E i \in 1 .. Len(lines') : Bad(i)'
      BY <1>1, <1>2, <3>2 DEF ShownInv
    <3>4. (PrevOf(reader[r].at))' = GENESIS_HASH
      BY <3>1 DEF PrevOf
    <3> QED
      BY <1>1, <3>1, <3>2, <3>3, <3>4 DEF Ahead
  <2>4. CASE CheckRecord(r)
    <3> DEFINE at == reader[r].at
               line == lines[at]
    <3>1. /\ reader[r].stage = "checking" /\ at \in 1 .. Len(lines) /\ reader[r].began = "inner"
      BY <1>1, <1>3, <1>5, <2>4 DEF CheckRecord, Walk
    <3>2. /\ altered = "inner" /\ reader[r].prev = PrevOf(at)
          /\ \E i \in at .. Len(lines) : Bad(i)
      BY <1>3, <3>1 DEF Ahead
    <3>3. CASE line.readable /\ Intact(line, reader[r].prev)
      <4>1. /\ reader'[r].stage = "checking" /\ reader'[r].at = at + 1
            /\ reader'[r].prev = line.record_hash
        BY <1>3, <2>4, <3>3 DEF CheckRecord, Walk
      <4>2. ~ Bad(at)
        BY <3>2, <3>3 DEF Bad, Linked, Intact
      <4>3. PICK i \in at .. Len(lines) : Bad(i)
        BY <3>2
      <4>4. i \in at + 1 .. Len(lines') /\ Bad(i)'
        BY <1>1, <1>2, <3>1, <4>2, <4>3
      <4>5. (PrevOf(reader[r].at))' = line.record_hash
        <5>1. at + 1 # 1 /\ (at + 1) - 1 = at
          BY <3>1
        <5> QED
          BY <1>1, <4>1, <5>1 DEF PrevOf
      <4> HIDE DEF at, line
      <4> QED
        BY <1>1, <3>2, <4>1, <4>4, <4>5 DEF Ahead
    <3>4. CASE ~ (line.readable /\ Intact(line, reader[r].prev))
      <4>1. reader'[r].stage \in {"raised", "invalid"}
        BY <1>3, <2>4, <3>4 DEF CheckRecord, Walk
      <4> QED
        BY <1>1, <3>2, <4>1 DEF Ahead
    <3> QED
      BY <3>3, <3>4
  <2>5. CASE EndCheck(r)
    <3>1. reader[r].began = "inner" /\ reader[r].stage = "checking" /\ reader[r].at > Len(lines)
      BY <1>3, <1>5, <2>5 DEF EndCheck, Walk
    <3>2. \E i \in reader[r].at .. Len(lines) : Bad(i)
      BY <1>3, <3>1 DEF Ahead
    <3> QED
      BY <1>1, <1>3, <3>1, <3>2
  <2> QED
    BY <2>1, <2>2, <2>3, <2>4, <2>5
<1>6. Ahead(r)'
  <2>1. /\ reader'[r].stage \in {"idle", "counting"} => reader[r].stage \in {"idle", "counting"}
        /\ reader'[r].stage \in {"idle", "counting"} => reader'[r].prev = reader[r].prev
    BY <1>3 DEF StartEvidence, CountRecord, StartCheck, CheckRecord, EndCheck, Walk
  <2> QED
    BY <1>3, <1>5, <2>1 DEF Ahead
<1>7. ASSUME NEW s \in Readers, s # r PROVE Ahead(s)'
  <2>1. Ahead(s) /\ reader'[s] = reader[s] /\ reader[s].at \in Nat \ {0}
    BY <1>4, <1>7 DEF ShownInv, TypeOK, Walk
  <2> QED
    BY <1>1, <2>1 DEF Ahead, Bad, Linked, PrevOf
<1>8. altered' = "inner" => \E i \in 1 .. Len(lines') : Bad(i)'
  BY <1>1, <1>2 DEF ShownInv
<1> QED
  BY <1>6, <1>7, <1>8 DEF ShownInv

LEMMA NextShown ==
  ASSUME TypeOK, ChainInv, ShownInv, [Next]_vars
  PROVE  ShownInv'
<1>1. ASSUME NEW w \in Writers, Record(w) PROVE ShownInv'
  <2>1. UNCHANGED <<lines, reader, altered>>
    BY <1>1 DEF Record
  <2> QED
    BY <2>1 DEF ShownInv, Ahead, Bad, Linked, PrevOf
<1>2. ASSUME NEW w \in Writers, Appends(w) \/ Crash(w) PROVE ShownInv'
  <2>1. /\ \/ UNCHANGED lines
           \/ lines' = Written(sealed[w])
           \/ lines' = Written(Torn(sealed[w]))
        /\ UNCHANGED <<reader, altered>>
    BY <1>2 DEF Appends, Crash
  <2>2. sealed[w] \in Line /\ Torn(sealed[w]) \in Line
    BY DEF TypeOK, Torn, Line
  <2> QED
    BY <2>1, <2>2, WriteKeepsShown
<1>3. ASSUME NEW r \in Readers,
             StartEvidence(r) \/ CountRecord(r) \/ StartCheck(r) \/ CheckRecord(r) \/ EndCheck(r)
      PROVE ShownInv'
  BY <1>3, ReadKeepsShown
<1>4. ASSUME NEW i \in 1 .. Len(lines), Alter(i) PROVE ShownInv'
  <2>1. altered = "no" /\ UNCHANGED reader
    BY <1>4 DEF Alter
  <2>2. \A r \in Readers : Ahead(r)'
    BY <2>1 DEF ShownInv, Ahead
  <2>3. ChainIntact
    BY DEF ChainInv
  <2>4. altered' = "inner" => \E k \in 1 .. Len(lines') : Bad(k)'
    BY <1>4, <2>3, AlterationBreaks
  <2> QED
    BY <2>2, <2>4 DEF ShownInv
<1>5. CASE UNCHANGED vars
  BY <1>5 DEF vars, ShownInv, Ahead, Bad, Linked, PrevOf
<1> QED
  BY <1>1, <1>2, <1>3, <1>4, <1>5 DEF Next, WriterStep, ReaderStep

(***************************************************************************)
(* With one writer, an alteration anywhere but at the tail shows for ever: *)
(* neither what is appended nor a crash mends the chain, and no walk that  *)
(* starts after it finds the chain valid.                                  *)
(***************************************************************************)
THEOREM AlterationsShow ==
  ASSUME OneWriterOnly
  PROVE  Spec => []AlterationShows
<1>1. Init => TypeOK /\ ChainInv /\ ShownInv
  BY InitType, InitChain, InitShown
<1>2. TypeOK /\ ChainInv /\ ShownInv /\ [Next]_vars => (TypeOK /\ ChainInv /\ ShownInv)'
  BY NextType, NextChain, NextShown
<1>3. ShownInv => AlterationShows
  <2> SUFFICES ASSUME ShownInv, altered = "inner"
               PROVE  ~ ChainValid /\ \A r \in Readers : reader[r].stage = "valid" => reader[r].began # "inner"
    BY DEF AlterationShows
  <2> QED
    BY DEF ShownInv, Ahead, Bad, ChainValid
<1> QED
  BY <1>1, <1>2, <1>3, PTL DEF Spec

=============================================================================
