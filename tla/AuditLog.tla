------------------------------ MODULE AuditLog ------------------------------
(***************************************************************************)
(* The hash-chained audit log (src/src/verisql/audit.py): writers append   *)
(* one JSON line per verification, readers walk the file, a writer may die *)
(* in the middle of its write, and a line may be altered afterwards.       *)
(*                                                                         *)
(* A SHA-256 digest is represented by the bodies it covers, from the first *)
(* record of its chain on: equal digests mean equal contents, which is     *)
(* what the log takes SHA-256 to provide.                                  *)
(***************************************************************************)
EXTENDS Report

CONSTANTS
  Writers,     \* processes or threads that share one log file
  Readers,     \* calls of evidence_pack, each of which ends in a verify_chain
  Reports,     \* the reports that come to be recorded
  CrashLeaves, \* what a write that is cut short may leave (see Crash)
  Alterations, \* how a line may be altered afterwards (see Alter)
  MaxRecords   \* bound: no record is begun once the file has so many lines

ASSUME MaxRecordsAssumption == MaxRecords \in Nat
ASSUME CrashLeavesAssumption == CrashLeaves \subseteq {"nothing", "prefix", "record", "line"}
ASSUME AlterationsAssumption == Alterations \subseteq {"edit", "reseal", "drop", "duplicate"}

Decisions == {"delivered", "review", "rejected", "overridden"}

(***************************************************************************)
(* AuditRecord, without the two hashes: who asked, and what was decided.   *)
(***************************************************************************)
Body == [actor : Writers, decision : Decisions]

Hash == Seq(Body)

GENESIS_HASH == <<>>

compute_hash(body, prev_hash) == Append(prev_hash, body)

(***************************************************************************)
(* A line of the file; one that is not readable makes json.loads raise.    *)
(***************************************************************************)
Line == [body : Body, prev_hash : Hash, record_hash : Hash, readable : BOOLEAN]

SealUnlinked(body, prev_hash) ==  \* mutant of Seal: the digest leaves prev_hash out
  [body |-> body, prev_hash |-> prev_hash, record_hash |-> <<body>>, readable |-> TRUE]

Seal(body, prev_hash) ==
  [body |-> body, prev_hash |-> prev_hash, record_hash |-> compute_hash(body, prev_hash),
   readable |-> TRUE]

Torn(line) == [line EXCEPT !.readable = FALSE]

VARIABLES
  lines,        \* the lines of the file
  open,         \* whether the last line lacks its newline
  sealed,       \* per writer, the record it is about to append
  writing,      \* per writer, whether it has sealed a record
  reader,       \* per reader, how far its walk is
  altered,      \* history: "no", "tail" or "inner", the alteration made
  acknowledged  \* history: the records whose writers returned

vars == <<lines, open, sealed, writing, reader, altered, acknowledged>>

(***************************************************************************)
(* The progress of a walk: its stage, the next line, the two counts of the *)
(* evidence, and the digest verify_chain expects next.  began remembers    *)
(* which alteration the file already had when the walk started.            *)
(***************************************************************************)
Walk == [stage : {"idle", "counting", "checking", "valid", "invalid", "raised"},
         at : Nat \ {0}, prev : Hash, total : Nat, records : Nat,
         began : {"no", "tail", "inner"}]

Init ==
  /\ lines = <<>>
  /\ open = FALSE
  /\ sealed = [w \in Writers |-> Seal([actor |-> w, decision |-> "delivered"], GENESIS_HASH)]
  /\ writing = [w \in Writers |-> FALSE]
  /\ reader = [r \in Readers |-> [stage |-> "idle", at |-> 1, prev |-> GENESIS_HASH,
                                  total |-> 0, records |-> 0, began |-> "no"]]
  /\ altered = "no"
  /\ acknowledged = {}

-----------------------------------------------------------------------------
Readable == \A i \in 1 .. Len(lines) : lines[i].readable

(***************************************************************************)
(* _last_hash reads the file to its end and trusts the last digest stored. *)
(***************************************************************************)
last_hash == IF lines = <<>> THEN GENESIS_HASH ELSE lines[Len(lines)].record_hash

(***************************************************************************)
(* record, up to rec.seal(self._last_hash()).  The decision follows from   *)
(* the report unless the caller overrides it.  On a file with an           *)
(* unreadable line _last_hash raises and nothing is recorded.              *)
(***************************************************************************)
Record(w) ==
  /\ ~ writing[w]
  /\ Readable
  /\ Len(lines) < MaxRecords
  /\ \E report \in Reports : \E decision \in {Decision(report), "overridden"} :
       sealed' = [sealed EXCEPT ![w] = Seal([actor |-> w, decision |-> decision], last_hash)]
  /\ writing' = [writing EXCEPT ![w] = TRUE]
  /\ UNCHANGED <<lines, open, reader, altered, acknowledged>>

(***************************************************************************)
(* What a write makes of the lines: behind a line that lacks its newline   *)
(* it ends up on that line, and JSON cannot read the two together.         *)
(***************************************************************************)
Written(line) ==
  IF open THEN [lines EXCEPT ![Len(lines)] = Torn(@)] ELSE Append(lines, line)

(***************************************************************************)
(* record, from open(self.path, "a") to its return.  Nothing tells whether *)
(* the file has grown since the last digest was read.                      *)
(***************************************************************************)
AppendsRewound(w) ==  \* mutant of Appends: opened with "w", the file is truncated first
  /\ writing[w]
  /\ lines' = <<sealed[w]>>
  /\ open' = FALSE
  /\ writing' = [writing EXCEPT ![w] = FALSE]
  /\ acknowledged' = acknowledged \cup {sealed[w]}
  /\ UNCHANGED <<sealed, reader, altered>>

AppendsBuffered(w) ==  \* mutant of Appends: returns before the buffer is flushed
  /\ writing[w]
  /\ writing' = [writing EXCEPT ![w] = FALSE]
  /\ acknowledged' = acknowledged \cup {sealed[w]}
  /\ UNCHANGED <<lines, open, sealed, reader, altered>>

Appends(w) ==
  /\ writing[w]
  /\ lines' = Written(sealed[w])
  /\ open' = FALSE
  /\ writing' = [writing EXCEPT ![w] = FALSE]
  /\ acknowledged' = acknowledged \cup {sealed[w]}
  /\ UNCHANGED <<sealed, reader, altered>>

(***************************************************************************)
(* The writer dies in its write: nothing reached the file, or a prefix of  *)
(* the record, or the record without its newline, or the whole line.       *)
(***************************************************************************)
CrashLeavesOpen(w) ==  \* mutant of Crash: a write that never happened counts as one
  /\ writing[w]
  /\ open' = TRUE
  /\ writing' = [writing EXCEPT ![w] = FALSE]
  /\ UNCHANGED <<lines, sealed, reader, altered, acknowledged>>

Crash(w) ==
  /\ writing[w]
  /\ \/ "nothing" \in CrashLeaves /\ UNCHANGED <<lines, open>>
     \/ "prefix" \in CrashLeaves /\ lines' = Written(Torn(sealed[w])) /\ open' = TRUE
     \/ "record" \in CrashLeaves /\ lines' = Written(sealed[w]) /\ open' = TRUE
     \/ "line" \in CrashLeaves /\ lines' = Written(sealed[w]) /\ open' = FALSE
  /\ writing' = [writing EXCEPT ![w] = FALSE]
  /\ UNCHANGED <<sealed, reader, altered, acknowledged>>

-----------------------------------------------------------------------------
(***************************************************************************)
(* A line is altered after the fact, once: its body is edited, or edited   *)
(* and sealed anew, or the line is dropped, or inserted a second time.     *)
(* Sealing anew or dropping leaves no trace if it is the last line.        *)
(***************************************************************************)
Edited(line, d) == [line EXCEPT !.body = [@ EXCEPT !.decision = d]]

Without(i) == SubSeq(lines, 1, i - 1) \o SubSeq(lines, i + 1, Len(lines))

Twice(i) == SubSeq(lines, 1, i) \o SubSeq(lines, i, Len(lines))

Alter(i) ==
  /\ altered = "no"
  /\ ~ open
  /\ \/ /\ "edit" \in Alterations
        /\ \E d \in Decisions \ {lines[i].body.decision} :
             lines' = [lines EXCEPT ![i] = Edited(@, d)]
        /\ altered' = "inner"
     \/ /\ "reseal" \in Alterations
        /\ \E d \in Decisions \ {lines[i].body.decision} :
             lines' = [lines EXCEPT ![i] = Seal(Edited(@, d).body, @.prev_hash)]
        /\ altered' = IF i = Len(lines) THEN "tail" ELSE "inner"
     \/ /\ "drop" \in Alterations
        /\ lines' = Without(i)
        /\ altered' = IF i = Len(lines) THEN "tail" ELSE "inner"
     \/ /\ "duplicate" \in Alterations
        /\ lines' = Twice(i)
        /\ altered' = "inner"
  /\ UNCHANGED <<open, sealed, writing, reader, acknowledged>>

-----------------------------------------------------------------------------
(***************************************************************************)
(* evidence_pack counts the records in a first pass over the file ...      *)
(***************************************************************************)
StartEvidence(r) ==
  /\ reader[r].stage = "idle"
  /\ reader' = [reader EXCEPT ![r].stage = "counting", ![r].began = altered]
  /\ UNCHANGED <<lines, open, sealed, writing, altered, acknowledged>>

CountRecord(r) ==
  /\ reader[r].stage = "counting"
  /\ reader[r].at <= Len(lines)
  /\ reader' = IF lines[reader[r].at].readable
               THEN [reader EXCEPT ![r].at = @ + 1, ![r].total = @ + 1]
               ELSE [reader EXCEPT ![r].stage = "raised"]
  /\ UNCHANGED <<lines, open, sealed, writing, altered, acknowledged>>

(***************************************************************************)
(* ... and opens it again for verify_chain.                                *)
(***************************************************************************)
StartCheckInPlace(r) ==  \* mutant of StartCheck: the file is not read from its start again
  /\ reader[r].stage = "counting"
  /\ reader[r].at > Len(lines)
  /\ reader' = [reader EXCEPT ![r].stage = "checking"]
  /\ UNCHANGED <<lines, open, sealed, writing, altered, acknowledged>>

StartCheck(r) ==
  /\ reader[r].stage = "counting"
  /\ reader[r].at > Len(lines)
  /\ reader' = [reader EXCEPT ![r].stage = "checking", ![r].at = 1]
  /\ UNCHANGED <<lines, open, sealed, writing, altered, acknowledged>>

(***************************************************************************)
(* One turn of verify_chain's loop: the link, then the content.            *)
(***************************************************************************)
IntactUnlinked(line, prev) ==  \* mutant of Intact: the link is not compared
  line.record_hash = compute_hash(line.body, line.prev_hash)

Intact(line, prev) ==
  /\ line.prev_hash = prev
  /\ line.record_hash = compute_hash(line.body, line.prev_hash)

CheckRecord(r) ==
  /\ reader[r].stage = "checking"
  /\ reader[r].at <= Len(lines)
  /\ LET line == lines[reader[r].at]
     IN  reader' =
           IF ~ line.readable
           THEN [reader EXCEPT ![r].stage = "raised"]
           ELSE IF Intact(line, reader[r].prev)
           THEN [reader EXCEPT ![r].at = @ + 1, ![r].records = @ + 1, ![r].prev = line.record_hash]
           ELSE [reader EXCEPT ![r].stage = "invalid", ![r].records = @ + 1]
  /\ UNCHANGED <<lines, open, sealed, writing, altered, acknowledged>>

EndCheck(r) ==
  /\ reader[r].stage = "checking"
  /\ reader[r].at > Len(lines)
  /\ reader' = [reader EXCEPT ![r].stage = "valid"]
  /\ UNCHANGED <<lines, open, sealed, writing, altered, acknowledged>>

WriterStep == \E w \in Writers : Record(w) \/ Appends(w) \/ Crash(w)

ReaderStep ==
  \E r \in Readers : StartEvidence(r) \/ CountRecord(r) \/ StartCheck(r) \/ CheckRecord(r) \/ EndCheck(r)

Next == WriterStep \/ ReaderStep \/ \E i \in 1 .. Len(lines) : Alter(i)

Spec == Init /\ [][Next]_vars

-----------------------------------------------------------------------------
(***************************************************************************)
(* The type invariant of the log.                                          *)
(***************************************************************************)
TypeOK ==
  /\ lines \in Seq(Line)
  /\ open \in BOOLEAN
  /\ open => lines # <<>>
  /\ sealed \in [Writers -> Line]
  /\ writing \in [Writers -> BOOLEAN]
  /\ reader \in [Readers -> Walk]
  /\ altered \in {"no", "tail", "inner"}
  /\ acknowledged \in SUBSET Line

(***************************************************************************)
(* What verify_chain accepts when nothing else moves.                      *)
(***************************************************************************)
PrevOf(i) == IF i = 1 THEN GENESIS_HASH ELSE lines[i - 1].record_hash

Linked(i) == lines[i].prev_hash = PrevOf(i) /\ lines[i].record_hash = compute_hash(lines[i].body, lines[i].prev_hash)

ChainValid == \A i \in 1 .. Len(lines) : lines[i].readable /\ Linked(i)

(***************************************************************************)
(* While nobody alters the file, every line links to the line before it,   *)
(* and only the last line can be unreadable: crashes do not fork a chain   *)
(* that one writer extends.                                                *)
(***************************************************************************)
ChainIntact ==
  altered = "no" =>
    \A i \in 1 .. Len(lines) : Linked(i) /\ (i < Len(lines) => lines[i].readable)

(***************************************************************************)
(* No false alarm: a chain that verify_chain reports as broken has been    *)
(* altered (its docstring: it detects tampered, inserted, deleted records).*)
(***************************************************************************)
NoFalseAlarm == \A r \in Readers : reader[r].stage = "invalid" => altered # "no"

(***************************************************************************)
(* What makes the two inductive: a record that waits to be appended links  *)
(* to the last line (nobody else appends meanwhile), and a walk expects    *)
(* the digest of the line before the one it reads next.                    *)
(***************************************************************************)
Prepared(w) ==
  writing[w] => /\ Readable
                /\ sealed[w].prev_hash = last_hash
                /\ sealed[w].record_hash = compute_hash(sealed[w].body, sealed[w].prev_hash)

OnTrack(r) ==
  /\ reader[r].stage \in {"idle", "counting"} => reader[r].prev = GENESIS_HASH
  /\ reader[r].stage = "checking" =>
       reader[r].at <= Len(lines) + 1 /\ reader[r].prev = PrevOf(reader[r].at)

ChainInv ==
  /\ ChainIntact
  /\ NoFalseAlarm
  /\ altered = "no" => (\A w \in Writers : Prepared(w)) /\ (\A r \in Readers : OnTrack(r))

(***************************************************************************)
(* An alteration anywhere but at the tail stays visible for ever, whatever *)
(* is appended later, and no walk that starts after it finds the chain     *)
(* valid.                                                                  *)
(***************************************************************************)
AlterationShows ==
  altered = "inner" =>
    ~ ChainValid /\ \A r \in Readers : reader[r].stage = "valid" => reader[r].began # "inner"

(***************************************************************************)
(* No silent loss: if the log verifies and was not altered, every record   *)
(* whose writer was told it is recorded is in it, a crash before or after  *)
(* notwithstanding.                                                        *)
(***************************************************************************)
NoSilentLoss ==
  altered = "no" /\ ChainValid =>
    \A line \in acknowledged : \E i \in 1 .. Len(lines) : lines[i] = line

(***************************************************************************)
(* The two passes of evidence_pack: records may arrive between them, so    *)
(* the number verified is at least the number counted and at most the      *)
(* number in the file, never less evidence than was claimed.               *)
(***************************************************************************)
EvidenceAddsUp ==
  altered = "no" => \A r \in Readers : reader[r].stage = "valid" =>
    reader[r].total <= reader[r].records /\ reader[r].records <= Len(lines)

(***************************************************************************)
(* README.md: "Edit, insert, or delete a record retroactively -> the chain *)
(* breaks, detectably".  Refuted: without its last record, or with that    *)
(* one sealed anew, a chain is as valid as before.                         *)
(***************************************************************************)
EveryAlterationShows == altered # "no" => ~ ChainValid

=============================================================================
