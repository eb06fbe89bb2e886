# A TLA+ model of VeriSQL

VeriSQL verifies SQL that a language model has written, before anybody relies on
its result: it runs a pipeline of checks over the statement, may ask a second
model for its opinion, rewrites the patterns it knows how to fix, and keeps an
audit log of what it decided. This directory holds TLA+ modules that model those
parts, TLC configurations that check them on small instances, and proofs that
TLAPS checks. Paths below are relative to `src/src/verisql/`.

## 1. Inventory

| Part (source) | State it keeps | Operations | Properties that make it correct |
|---|---|---|---|
| Report (`report.py`) | flags, confidence (a float), `suggested_review` | `add`, `has_blocking` | review latches, confidence stays in 0..1 until the critic answers, and near its decimal value |
| Pipeline (`verify.py`, `checks/`) | the report, `ctx.parsed`, `ctx.cache` | one turn per check, early return after `ast_parse` | the decision is at least as severe as the statement's own defects demand, and only grows; what would change the database is held back; the cached result and the report speak of one execution |
| Critic gate (`critic.py`, `_maybe_run_critic`) | `critic_invoked` | ask, agree, disagree, raise | asked at most once, and only in doubt; never weakens a decision |
| Policy (`policy.py`) | none (pure) | evaluate a predicate on a row | a violation in the sample rejects; an unknown never does |
| Connectors (`connectors/`) | a database connection | `execute_readonly`, `explain`, catalogue | guard and cap before every execution; read-only transactions always rolled back |
| Auto-repair (`repair.py`) | `current`, `RepairResult` | `repair_sql`, `verify_and_repair` | terminates; the report handed out is the one of the SQL handed out; a rewrite adds no finding |
| Agent, guard, adapters (`agent.py`, `integrations/`, `mcp_server.py`) | attempts, the last diagnosis | generate, repair, execute, refuse | what is delivered was verified and is the last attempt; escalation has the reason that occurred; feedback is of the last attempt |
| Audit log (`audit.py`) | a JSONL file shared by processes | `record`, `verify_chain`, `evidence_pack` | one chain; no false alarm; no silent loss; alterations show |
| History (`history.py`, `postgres-extension/`) | a table of row counts | `record`, `check` | a baseline is what was observed and is committed; drift is reported |
| Equivalence (`equivalence.py`) | a difference report | structural diff, two executions, verdict | a pass only for equal signatures and, with a database, equal fingerprints of two executed queries |
| dbt gate, CLI (`dbt_gate.py`, `cli.py`) | models, verdicts, exit code | extract, verify or skip, exit | a green build hides no known error, a red one has a cause, be it something that cannot be opened; every run exits |
| YAML repair rules (`repair_rules.py`) | none | one pass of substitutions | not modelled, see section 6 |
| Benchmarks, examples, notebook | none | | not modelled, see section 6 |

How they interact. `verify` calls the checks one after the other; each reads the
statement's tree and some call the connector. `zero_row_execution` leaves its
result in `ctx.cache`, where `business_invariant` reuses it. The critic comes
last and only sees a summary. `verify_and_repair` calls `verify` on every round
and once more after the last rewrite. The agent, the guard, the adapters and the
dbt gate all reduce a report or a repair result to a decision; the audit log
derives the same decision and writes it down. The history learner and the
equivalence comparison execute statements of their own, through the same
guarded connectors, beside whoever else uses the database.

What is hard. The database and the critic answer differently from one call to
the next, and either may raise, so a check can fail half way with its flags
already in. The thresholds compare a binary64 number that is not its decimal
name. The rewrites work round by round on a statement whose checks look at each
other's patterns. The audit log is a file that processes append to without a
lock, that readers walk while it grows, and that a dying writer can leave with a
line cut short. Statements are executed a second time after they were verified,
compared or reported, and others may have written in between. `PROJECT.json` lists these hazards, each at its line.

## 2. Modules

| Module | Models | Uses |
|---|---|---|
| `Confidence` | the binary64 arithmetic of `Report.confidence` | |
| `Report` | the names of the checks, the report, `add`, `has_blocking`, the decision of `AuditLog.record` | `Confidence` |
| `PolicyEval` | `InvariantEvaluator.check` next to SQL's three-valued logic | |
| `Verify` | `verify`: twelve checks, the connector's answers, the critic | `Report`, `PolicyEval` |
| `Verdict` | abstract: the promise of `verify`, implemented by `Verify` | |
| `RepairLoop` | `repair_sql` and `verify_and_repair` | `Report` |
| `Agent` | `run_verified`, `sql_guard` and the fix tools around the steps of `RepairLoop` | `RepairLoop` |
| `Supervised` | abstract: the promise of whoever repairs on behalf of a caller, implemented by `Agent` | |
| `Gate` | `verisql dbt` and `verisql check` | `Report` |
| `Surfaces` | a process that repairs and one that gates, side by side | `Agent`, `Gate` |
| `Equivalence` | `verify_equivalence` and `verisql diff` | |
| `History` | `QueryHistory` and the history functions of the Postgres extension | |
| `AuditLog` | the log file with its writers, readers, crashes and alterations | `Report` |
| `MC...` | the instances TLC checks: `MCVerify`, `MCRepairLoop`, `MCSurfaces`, `MCEquivalence`, `MCHistory`, `MCAuditLog` | |
| `Induction` | induction over the numbers, recursive functions, sums: lemmas for the proofs | |
| `...Proofs` | the theorems: `ReportProofs` (lemmas only), `VerifyProofs`, `RepairLoopProofs`, `SurfacesProofs`, `EquivalenceProofs`, `HistoryProofs`, `AuditLogProofs` | `Induction` |

### Confidence and Report
A confidence is an exact integer number of units of 2^-58, kept in two limbs so
that it stays inside TLC's integers. Rounding is to nearest, ties to even, with
the spacing of the binade the value is in, which is what CPython's floats do;
every confidence that `add` can reach is such a multiple. `Add` takes the flags
of one check together and decides for each warning whether the confidence was
below 0.7 at that moment. `Credit` is the boost of an agreeing critic: `min(1.0, ...)`
caps it from above, nothing does from below, and `float()` takes whatever number
the model has written (`critic.py:106`). So a confidence is one of `Doubles`
(0.0 .. 1.0) until the critic has answered and one of `Signed` afterwards.

### PolicyEval and Verify
`input` holds the arguments, `at` the position in `DEFAULT_CHECKS`, `phase` the
place in `verify`. One action runs one check from `applies` to its end: its
guard is `applies`, its alternatives are the answers of the connector (a
catalogue that raises, a plan, a result, a failed execution), and `Turn` is the
end of the loop body with the early return after a failed parse. A statement is
what the checks can see of it: per SELECT a set of features, and for the whole
statement whether it parses, its `kind`, whether the word limit is in it, and so
on. Two kinds would change the database, and the guard tells them apart: a
"mutation" is what `guard_mutation` refuses, by the nodes of a statement that
parses; a "command" is a COPY or ATTACH, which the keyword list of `base.py:8`
names but nobody looks up once a statement parses. It passes the guard, and the
cap (`ensure_limited`) makes it a subquery that no database accepts, unless the
word limit is in it: then it is executed as it is (`Fetched`). The critic's actions are `NoCritic`, `CriticRaises`, `CriticDisagrees`,
`CriticAgrees`; an answer that does not parse is the agreeing one with a boost
of zero (`_parse_verdict`).

A result row gives a value to each column. An invariant of the policy is a tree,
written as the sequence of its nodes with children before parents, and `Walk` is
`InvariantEvaluator._eval` on it: a column that is missing, or a comparison with
NULL, is `Unresolved` (`_Unresolvable`); an order between unlike types raises
the TypeError of Python; AND and OR look at their second operand only when the
first does not decide; and `bool()` takes a NULL for FALSE. `SqlMeaning` is what
the same tree means in SQL; both are functions on the nodes of the tree
(`WalkNode` and `SqlNode` give the value of one node from those of its children).
The properties of `Verify` about invariants
(`SampledViolationRejects`, `RejectionHasCause`) are stated with it and
never with `Walk`: a violation on a row on which everything is `Resolvable` must
reject, and a rejection must be a violation in SQL's sense. The second part is
not true of every row, but it is of every row on which the predicate is
`WellTyped`: its boolean operators are applied to booleans and numbers that are
not NULL. The results of `verify` have NULLs under comparisons only, where they
do no harm; a NULL that stands for itself in a Boolean column is in those of
`policy_null`, which refutes it.

`Verdict` is the promise: a decision (delivered, review, rejected) that starts
mild, never becomes milder, and is handed out only at or above a floor. `Verify`
implements it with the floor that the statement's own defects set. The liveness
half is that a decision is handed out at all.

### RepairLoop
The WHERE of a statement is a sequence of conjuncts: NOT IN over a list or a
query, !=, timestamp equalities, IS predicates. `RepairSql` applies the three
rewrites in their order, with the one dependency between them (the guard of the
first is seen by the third). The appended guard goes to the *last* disjunct of
the subquery's WHERE: the tree is built with `And` around an unparenthesised
`Or` (`repair.py:97`), and the statement is read again from text in the next
round. `ReportOn` is `verify` on such a statement: the flags of its three checks
and of `filter_required`, with those of the other checks (`Others`) and of the
database (`Answer`) before, between and after them in the order of
`DEFAULT_CHECKS`, because the review latch sees that order. `VerifyRound`, `RoundsExhausted`, `RepairRound`, `RepairFails` and
`FinalVerify` are the loop.

### Agent and Supervised
A request calls the loop of `RepairLoop` once per attempt: `Generate` starts a
call for any statement whatever (`CallBegins` is the loop's `Init`),
`RepairStep` is any step of the loop, `Judge` reads its result into
`result.attempts` and the diagnosis. After an accepted attempt the agent
executes (`Execute`, `ExecutionEscalates`), the guard returns
(`GuardReturns`) and the fix tools hand out what they have with its verdict
(`FixAnswers`); after a rejected one the agent generates again with the diagnosis
or gives up (`GiveUp`), and the guard raises `SQLVerificationError`
(`GuardRefuses`). Exceptions of the catalogue, the generator and a rewrite leave
through `SchemaHint`, `GeneratorRaises` and `RepairEscapes`. `told` keeps, as
history, each diagnosis the generator was given.

`Supervised` is the promise all three make: a bounded number of attempts, none
after an accepted one, delivery only of an accepted one, refusal only of an
accepted one that could not be put to use or when the attempts are used up, and
an end. The mapping reads `tries` off the attempts, `accepted` off the last one,
and `outcome` off how the request ended.

### Gate and Surfaces
A node of the manifest has compiled and raw texts, a text is whether Jinja is
left in it and the findings of its checks that need no database; a database adds
any of `LiveFlags`. `LoadManifest`, `ExtractNode`, `ModelsExtracted`,
`VerifyModel` and `ExitWithWorst` are `verisql dbt` from the file to its exit
code, `Check` is `verisql check`. A manifest that cannot be read ends the command
with 2, a database or a policy that cannot be opened with 1 (the exception leaves
Python), in either case before `--warn-only` is looked at. The properties are stated with the manifest
alone (`Relevant`: the texts of the models that were asked for, as far as they are
known) and never with the lists the gate builds.

`Surfaces` runs a request beside an invocation of the gate. They share code and
no state; the module is where the two are composed and given their fairness.

### Equivalence
A tree is what the structural comparison reads off it. `CompareStructure`,
`ExecuteOld`, `ExecuteNew`, `ExecutionRaises`, `CompareResults` and `Finalize`
are the call, and `DataChanges` is whoever writes to the database before or
between the two executions. What is fetched of a result that is longer than
the cap is any `SampleRows` of its rows, because nothing orders it. A
fingerprint is the bag of row texts, as the hashes are taken to be
collision-free. The rows of one result all have one width (`Result`): they are
tuples of the columns of one query, and the comparison looks at the first row of
each side only. `quiet` is history: nobody wrote since the first execution.

### History
One tag is used by several sessions. A check is `Check` (the first execution),
`Read` (the stored counts, judged if there are any), and, for a first check,
`Execute` and `Insert`, which are also the steps of `record`. Between any two
of them the data and the table may change. `backend` selects the rules and the
count: Python sees at most `Cap` rows, SQL counts them all; for an empty result
Python divides by `max(observed, 1)` and SQL by NULL. Mean and variance are
compared after multiplying out, so the comparisons are exact.

A session of `QueryHistory` is a SQLite connection, and a commit that raises is
not rolled back: the row stays in the connection's transaction (`uncommitted`,
`CommitRaises`), where its own SELECTs read it (`Visible`) and nobody else's do.
Its next record commits both rows (`Insert`), an error that makes SQLite roll
back drops them (`InsertRaises`), and `close()` or the end of the process loses
them (`Close`). Meanwhile no other connection can write (`NobodyElseWrites`).
A call of the extension is a transaction of its own and leaves nothing behind.

### AuditLog
A digest is the sequence of record bodies it covers: equal digests mean equal
contents, which is what SHA-256 is taken to provide. `Record` is `record` up to
`rec.seal(self._last_hash())`, `Appends` the rest: between them other processes
may act, because nothing locks the file. `Crash` leaves nothing, a prefix, the
record without its newline, or the whole line; behind an open line the next
write ends up on that line, which JSON cannot read, and from then on `record`
and `verify_chain` raise. `Alter` stands for whoever edits the file. A reader is
a call of `evidence_pack`: a first pass that counts, then `verify_chain`, one
line at a time, while the file grows.

## 3. Runs

| Run | Instance | What it shows |
|---|---|---|
| `verify` | statements of 0..2 SELECTs in combinations of their defects, with and without database, policy, question and critic; results of up to 3 rows, caps of 2; 95 thousand states | the promise (`ImplementsVerdict`), truthful `executed`/`row_count`, nothing that would change the database takes effect but a COPY or ATTACH with the word limit, and that once, sampled violations reject, rejections have a cause, confidence within one part in 2^29 of its decimal value, critic asked only in doubt |
| `verify_gate` | the same | **refuted**: a confidence of 0.40 is inside the documented band; two errors leave 0.39999999999999997 and the critic is not asked |
| `policy_null` | the same, with rows that have NULLs | **refuted**: a predicate with a NULL operand is unresolved; a bare column that is NULL counts as FALSE under AND, OR and NOT, and the statement is rejected for an invariant that is unknown |
| `repair` | every statement of one or two conjuncts from a pool of fourteen, 0, 1 or 3 rounds, a database that answers differently each time; 27 thousand states | the result is consistent (a verified statement fails no check that the rewrites answer to, apart from warnings at the first look), rewrites are recorded and add no finding, one round settles every conjunct but NOT IN queries, escalation is exhausted, the call ends |
| `repair_masks` | the same | **refuted**: `escalate` is set when issues remain; the IS NULL added for a != silences the unfixed NOT IN of the same column |
| `surfaces` | requests of 0..3 attempts of the agent, the guard and the fix tools over statements that are clean, repairable, hopeless, unparsable or make a rewrite raise; manifests of up to two nodes of every kind, all selections, `check`; 46 thousand states | what is delivered was verified, escalations have their reason, feedback is current, the abstract promise with its liveness (`ImplementsSupervised`); a green exit hides nothing, a red one has a cause or something could not be opened, the gate ends |
| `equivalence` | a legacy query and twenty translations of it in both directions, ten pairs of results, a cap of two, any number of writes; 17 thousand states | a pass is earned (`EquivalentIsProven`), the verdict is the truth when nobody writes and nothing is capped (`GroundTruth`, which counts the rows itself), and every comparison ends however busy the writers are |
| `history` | two sessions, counts of 0, 1, 7 and 40 with a cap of 7, up to three records, both engines, calls and commits that raise, sessions that close; 212 thousand states | at most one baseline per session, an "info" has committed its baseline, every other answer rests on what its connection sees, steady data raises no alarm, a farther count is never judged milder, checks end |
| `history_mirror` | the same | **refuted**: the extension mirrors the learner; a result that has become empty is a step change in Python and passes in SQL |
| `audit` | one writer, one reader, all crashes, all alterations, 3 records; 650 thousand states | one chain, no false alarm, alterations show, no silent loss, evidence adds up |
| `audit_race` | two writers, no crash, no alteration | **refuted**: the chain of two concurrent writers forks and is reported as tampered with |
| `audit_tail` | one writer, alterations | **refuted**: deleting or resealing the last record breaks the chain |

Where the code disagrees with what its documents say, either a run above refutes
the claim, or a property that passes states what the code does instead:
- `critic.py:34` says of the critic's confidence "0..1", but `critic.py:106` takes any
  number and an approval with a negative one makes `report.confidence` negative
  (`TypeOK` of `verify`; the instance has such an answer);
- `base.py:7` introduces the keyword list with "Statements the verifier must never
  run against a live database", but for a statement that parses only the nodes
  count, and a COPY or ATTACH with the word limit in it takes effect
  (`WritesAreHeldBack`);
- `cli.py:133` says of `--warn-only` "always exit 0" and `action.yml:29` "never fail
  the build", but a manifest that cannot be read ends with 2, and a database or a
  policy that cannot be opened with 1, which is also the code of a review
  (`FailureHasCause`).

Every property of the passing runs has a mutant in `PROJECT.json`: a plausible
slip in the code (a forgotten cap, a skipped row, a dropped link, a write that
is not flushed) under which TLC finds it violated.

Bounds, and why they are enough.
- `ExecRows` and `SampleRows` are 200 in the code of `Verify` and 2 in the
  instance; results have up to three rows, so that a statement with a LIMIT of
  its own overruns the cap, and a violation can be inside or outside the sample.
  `SampleRows` of `Equivalence` is 1000 in the code and 2 in the instance, for
  the same reason.
- Two SELECTs are the smallest number for which the order of flags between
  selects and the "first SELECT" of the projection matter.
- Two conjuncts over two columns are enough for one rewrite's guard to meet
  another predicate on the same column. `max_rounds` is 0 (no round at all), 1
  (ends after its first rewrite) and 3 (the default).
- `max_attempts` of 0 (nothing is ever tried), 1 (the guard), 2 and 3 (the
  default) give a first, an inner and a last attempt. A request with something
  to do is paired with the shortest job of the gate and the other way round
  (`Workload`): the two share nothing, so longer pairs only multiply states.
- Two nodes of a manifest are enough for the worst model to be the last or not,
  the selected one or not. `LiveFlags` are nothing, an error and a critical.
- `Cap` is 10 000 in the code and 7 in the instance, with counts at it and
  beyond it; 7 is more than five times 1. `MaxRecords = 2` of `History` bounds
  when a call begins; the calls under way then bring the table to three.
- `MaxRecords = 3` of `AuditLog` gives a first, an inner and a last record. It
  bounds when a record is begun, not what may happen to the file. A file is
  altered at most once, and only when it ends with a newline.
- `Boosts` are 0.15 times a critic's confidence of 0.0, 0.5 and 1.0; 1.0, which
  stands for a model that answers in percent; and -1.5, a confidence of -10.
  Infinities, which Python's JSON reader accepts as well, are left out.
- A line is appended in one piece unless its writer dies, and no reader is in the
  middle of a line when another one is merged into it. The lists of NOT IN keep
  a value other than NULL. The columns of a projection that mixes a star with
  names are not modelled.

Fairness. Everything but the audit log and the users of the history is
straight-line code, so weak fairness says no more than that a call which can go
on does: it assumes that the connector, the critic and the generator return or
raise. `verify` and `verify_and_repair` have `WF_vars(Next)`; `Surfaces` has it
for each of its two processes; `Equivalence` for `Call` only, never for the
writers, who may write for ever; `History` for the steps of each session's call,
never for beginning one. The audit log has no liveness: writers and readers are
free to stop. The configurations say `CHECK_DEADLOCK FALSE` because calls end,
and because a log or a table at its bound is at rest.

## 4. Proofs

Each theorem holds for every value of the constants that satisfies the named
assumptions of its module, which TLC evaluates on the instances. Every invariant
and every action property that a passing run checks is also a theorem, and so is
the safety part of both refinements.

### Induction
Several facts are about sequences of any length: the flags of a statement with
any number of SELECTs, the rewrites of a WHERE with any number of conjuncts, the
sums over a history. The library states induction for a predicate that is an
operator parameter. `Induction` states it for a *set* of numbers instead
(`SetInduction`, `StrongInduction`), from the library's theorem that the natural
numbers are well founded, and gets from it that a recursive function equals its
defining equation. For that the models write their recursions as functions on an
interval, and what the community modules define recursively is unfolded once
(`FlattenFindings`).

### VerifyProofs
The inductive invariant `VInv` has six parts.
- `Types`: the types, and how far the loop can be in each phase. A finished call
  has been through all twelve checks, or it is rejected.
- `RunsInv`: nothing has been executed yet, or the first execution counts
  (`executed`, `row_count` and the cache are its), or the second does, or none;
  in the last two cases the report already rejects.
- `FloorInv`: what each check that had its turn demands of the report is there
  (`Demand`). This is what makes the floor of `Verdict` hold at the end.
- `CauseInv`: a standing rejection has a cause.
- `JudgedInv`: the flags of the invariants are those of the cached result.
- `CriticInv`: the critic speaks last; until then the confidence is near the
  decimal value of the flags.

`VerifyIsTyped`, `ReportTellsOfExecution`, `WritesTakeEffectOnce`,
`SampledViolationsAreSeen` and `RejectionsHaveCause` follow from it.
- `VerifyIsTyped`: the confidence is in 0.0 .. 1.0 until the critic has answered,
  and at most 1.0 afterwards. The boosts are any set of signed numbers
  (`BoostsAssumption`): the code gives them no lower bound, so there is none here.
- `WritesTakeEffectOnce` speaks of what a statement does (`kind`), not of what the
  guard makes of it: what the guard refuses, and what the cap turns into
  something no database accepts, is rejected because `zero_row_execution` fails on
  it; a command with the word limit that is not rejected was executed there, and
  `business_invariant` took its rows from the cache.
- `SampledViolationsAreSeen` needs that the walk and SQL agree on a predicate
  that is resolvable on a row, shown node by node.
- `RejectionsHaveCause` has a hypothesis, `PolicyIsWellTyped`. Without it the
  statement is false: that is the run `policy_null`. TLC evaluates it on the
  instance of `verify`, which has NULLs under comparisons, columns of the wrong
  type, and rows without the columns a predicate names.
- `ConfidenceIsNominal`: `Near` says that the confidence is off by at most ten
  units of 2^-58 for each hundredth that the flags have taken from it, and is
  exactly 0.0 once they take more than 1.0. Every subtraction keeps it (`DebitStaysNear`),
  so the error has a bound that does not grow with the number of flags.
- `CriticIsForDoubt`, an action property: because of that bound the gate cannot
  open for a statement whose exact confidence is outside 0.40 .. 0.80. (It can
  stay closed for one that is inside: `verify_gate`.)
- `VerifyImplements`: initial states and steps of `Verify` are those of
  `Verdict` or stutters. A check only adds flags, and the critic can only add a
  review, so a decision never becomes milder; `FloorInv` is the condition of the
  step that finishes.

The assumptions are that the governed tables and the invariants are finite sets
(the code iterates over both), that results are sequences of rows of values,
that the predicates are trees, and that the caps are positive.

### RepairLoopProofs
`LoopInv` says that as many statements were judged as rounds have passed while
the loop runs and that the final verification comes only when it is exhausted,
and of a result that its report is one on the statement handed out, which is the
last one judged. `EscalationExhausted` follows.
`TrailInv` adds what `RepairIsTyped` and `RewritesRecorded` need: a statement
keeps its number of conjuncts, and once a repair is recorded it is `Advanced`
(the `Progress` of no conjunct has gone back and that of one has gone forward,
so it cannot come out as it went in) and `Settled`. `ResultConsistent` needs
`Settled` too: a verified statement has no timestamp equality with a bare date and no
NOT IN that `null_semantics` reports, and once anything was rewritten no != without an IS on its column. It does
not say that no NOT IN can meet a NULL: the check takes any IS on the column for a
guard, and `repair_masks` shows one it misses. `RewritesAreSafe` and
`OneRoundIsEnough` are action properties, shown for a WHERE of any length:
`RewriteRound` says conjunct by conjunct what one round of the three rewrites
does, with the guards they add.

### SurfacesProofs
- The agent, the guard and the fix tools: `AgentInv` is `LoopInv` (each attempt
  begins in the loop's initial state, so its invariant holds again) with: every
  attempt but the last was rejected, every attempt is `Sound`, each diagnosis that
  was told is that of the attempt before, and an answer is the last attempt's.
  `DeliveredVerified`, `EscalationReasoned` and `FeedbackCurrent` follow;
  `AgentTypeCorrect` also needs `ShapeInv`, that is `TrailInv` of the loop and
  the shape of an answer. `AgentImplements` maps the initial states and every
  step to `Supervised`: `Judge` is a `Try`, the ways to answer are `Deliver`,
  `Refuse` and `Raise`, everything else is a stutter.
- The gate: `GateInv` says that the models found are exactly the selected nodes
  looked at so far (`Found` and `Origin`, one inclusion each) and that each verdict
  is one of a report on its model's text (`Verdicts`); `VerdictOnText` says what
  such a report can be. `GateTypeCorrect`, `GreenHidesNothing` and `RedHasCause`
  follow. `RedHasCause` separates the commands that could open everything from those
  that could not, whose code is 1 or 2 whatever the options.
- The composition: a step of `Surfaces` is a step of one process that leaves the
  variables of the other alone, so both invariants hold side by side
  (`RequestsSideBySide`, `GateSideBySide`, `SurfacesImplement`).

### EquivalenceProofs
- `TypeCorrect` and `PassedIsProven`: `EquivalenceInv` ties the differences
  collected so far to the comparisons already made. `StructureFaithful` says that
  no major or fatal difference means equal signatures, `DataFaithful` that no
  data difference means equal fingerprints.
- `ResultsDecide` adds `Current`: what was fetched is the result of the moment,
  as long as nobody has written since the first execution and no cap was
  reached. Equal counts of the texts give a bijection between the places of each
  text, and so a matching of the rows (`CountsMatch`); a matching is onto, because
  the results are as long as each other, and gives equal counts (`MatchedCounts`).
  That the rows of one result have one width is needed here: the fingerprint is
  one of texts, and the width of the first row has to speak for all.

### HistoryProofs
`TypeCorrect`, `BaselinesAreFew` and `AnswersAreGrounded`, for any number of
sessions. `HistoryInv` adds to the properties that only a call which executes or
inserts is a first check, and then its session has nothing uncommitted and no
baseline in the table (`BaselineIsFirst`); that in steady data what a call has
counted is what there is (`CallsAreCurrent`); and that one connection at a time
has rows of its own, in SQLite only (`OneWriter`, `OwnRows`). `TableFacts` says what
a step of one session does to what each of the others sees: nothing, or rows are
appended to it. An answer therefore keeps what it rests on until its own session
goes on; what a raising commit left behind it may lose then, which is why
`AnswersAreGrounded` speaks of the connection and not of the table.
`SteadyDataIsQuiet` adds `SteadyInv` (in steady data every row a connection sees
says what there is, and nobody was alarmed) and needs the sum and the variance of a constant history of any length.
`DriftNeverDisappears` holds in every typed state: the deviation, and with it the
grade, grows with the distance from the mean.

### AuditLogProofs
- `TypeCorrect`: the one fact that is not about types is that an open file is
  not empty; without it a merged line would not exist.
- `ChainStaysIntact` and `NoAlarmUnlessAltered`, for a log with one writer
  (`OneWriterOnly`): lines of an unaltered file link up, and no walk reports it
  as broken. Neither is inductive. `ChainInv` adds that a record that waits to
  be appended links to the line that is last *now* (`Prepared`; with a second
  writer it would not stay so, which is what `audit_race` shows), and that a
  walk expects the digest of the line before the one it reads next (`OnTrack`).
  The heart is `WriteKeepsChain`: whole, cut short or merged, a written record
  keeps every digest a walk may still compare.
- `AlterationsShow`, with one writer as well: `ShownInv` says that an altered
  file has a `Bad` line, one that cannot be read or does not follow from the line
  before it, and that a walk which began on it has one still ahead of it
  (`Ahead`). `AlterationBreaks` shows of each of the alterations which line
  it makes bad, from `ChainInv` of the file before; `WriteMendsNothing` that no
  later write, whole, cut short or merged, mends one.
- `AcknowledgedIsKept`, for any number of writers: a log that verifies and was
  not altered holds every acknowledged record. It rests on `NothingLost`: as
  long as every line can be read, every acknowledged record is one of them,
  because a merged line stays unreadable (`WriteLosesNothing`).
- `EvidenceIsCovered`, for any number of writers: the records `evidence_pack`
  verifies in its second pass are at least those it counted in its first.
  `WalksProgress` bounds both counts by the position of the walk and by the
  length of a file that only grows.

### Only model-checked
Liveness: `CallEnds`, `CheckEnds`, `ComparisonEnds`, `GateEnds`, and that an
answer is given in the end in `ImplementsVerdict` and `ImplementsSupervised`. The
arguments are short (a call has finitely many steps left), but the prover has no
rule for fairness and ENABLED.

## 5. What is left

All modules that were planned are written, and their safety properties proved.
Worth doing next:
1. a finer abstract specification for the audit log (an append-only list that
   readers see a prefix of), implemented by a log with one writer and no
   crash;
2. a bound on the steps that are left of each call, as an action property, which
   is the part of termination that needs no fairness;
3. statements of three conjuncts in `RepairLoop`, and two writers with crashes in
   `AuditLog` as instances of their own.

## 6. Not modelled

- Wording, rendering and parsing of SQL (sqlglot is external), the text of flags
  and prompts, timestamps and provenance in audit records. `GuardAppended`
  models the unparenthesised guard of `repair.py:97`, but how the tree is rendered
  is decided in sqlglot, so no run rests on it.
- Adapters of model providers (external services) and the registration of tools
  with each agent framework; what the tools do is in `Agent` and `Gate`.
- Custom check lists. YAML repair rules: one pass of user-supplied substitutions
  outside the repair loop, in which nothing interacts.
- What a Postgres connection does after a rollback that failed: a server that
  refuses every later statement looks to the checks like any other failing one.
- Several calls of the extension in one transaction of its caller; each is taken to
  be a transaction of its own.
- Decimal and float values of one column, and different values with one `str()`,
  which `PolicyEval` and `Equivalence` do not tell apart.
- The SQL checks inside the Postgres extension, of which only the history
  functions are modelled.
- Benchmarks, examples and the notebook, which only call the library.
