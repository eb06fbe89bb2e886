-------------------------------- MODULE Gate --------------------------------
(***************************************************************************)
(* The entry points that only verify and turn reports into an exit code:   *)
(* `verisql dbt`, the CI gate over the models of a dbt manifest            *)
(* (src/src/verisql/dbt_gate.py, cli.py), and `verisql check`, whose three *)
(* outcomes are also the verdicts of the verify tools                      *)
(* (integrations/_core.py, mcp_server.py).                                 *)
(***************************************************************************)
EXTENDS Report, SequencesExt

CONSTANTS
  Jobs,      \* the invocations, a set of Job records
  LiveFlags  \* the flags a database may add to one verification

(***************************************************************************)
(* SQL text: whether some Jinja is left in it, and the flags its checks    *)
(* raise without a database.  A node carries compiled texts (compiled_code *)
(* and compiled_sql, those that are there) and raw ones.                   *)
(***************************************************************************)
Text == [jinja : BOOLEAN, findings : Seq(Finding)]

Node == [model : BOOLEAN, name : STRING, compiled : Seq(Text), raw : Seq(Text)]

(***************************************************************************)
(* readable: the manifest is there and is JSON.  opens: so can be the      *)
(* database and the policy file that the options name, if any.             *)
(***************************************************************************)
Job == [command : {"check", "dbt"}, readable : BOOLEAN, opens : BOOLEAN, nodes : Seq(Node),
        select : SUBSET STRING, warn_only : BOOLEAN, connector : BOOLEAN]

ASSUME JobsAssumption ==
  /\ Jobs \subseteq Job
  /\ \A j \in Jobs : j.command = "check" =>  \* one statement, as a node of its own
       /\ Len(j.nodes) = 1 /\ j.nodes[1].model /\ j.nodes[1].compiled # <<>>
       /\ j.select = {} /\ ~ j.warn_only /\ j.readable
  /\ LiveFlags \subseteq Seq(Finding)

VARIABLES
  job,      \* the invocation, fixed
  step,     \* "start", "extract", "verify" or "exited"
  place,    \* how many nodes extract_models has looked at
  models,   \* the models it has found
  results,  \* DbtGateResult.model_results
  exit      \* the exit code; 0 until the process exits

gate_vars == <<job, step, place, models, results, exit>>

-----------------------------------------------------------------------------
(***************************************************************************)
(* DbtModel and ModelResult; the dialect and the flags are passed on.      *)
(***************************************************************************)
Model == [name : STRING, sql : Text, status : {"ok", "uncompiled"}]

ModelResult == [model : STRING, verdict : {"passed", "review", "blocked", "skipped"}]

(***************************************************************************)
(* _model_sql: compiled code before raw code, and raw code only without    *)
(* Jinja.                                                                  *)
(***************************************************************************)
NoText == [jinja |-> FALSE, findings |-> <<>>]

ModelSql(node) ==
  IF node.compiled # <<>> THEN [sql |-> Head(node.compiled), status |-> "ok"]
  ELSE IF node.raw # <<>>
       THEN [sql |-> Head(node.raw), status |-> IF Head(node.raw).jinja THEN "uncompiled" ELSE "ok"]
  ELSE [sql |-> NoText, status |-> "uncompiled"]

(***************************************************************************)
(* Which nodes extract_models keeps; an empty selection selects all.       *)
(***************************************************************************)
Selected(node) == node.model /\ (job.select = {} \/ node.name \in job.select)

Extracted(node) ==
  [name |-> node.name, sql |-> ModelSql(node).sql, status |-> ModelSql(node).status]

(***************************************************************************)
(* verify on one text, given the answers of the database.                  *)
(***************************************************************************)
Reports(sql) ==
  {Add(EmptyReport, sql.findings \o answer) : answer \in IF job.connector THEN LiveFlags ELSE {<<>>}}

VerdictOfPayload(report) ==  \* mutant of Verdict: the words of the verify tools
  IF HasBlocking(report) THEN "rejected"
  ELSE IF report.suggested_review THEN "needs_correction"
  ELSE "verified"

Verdict(report) ==
  IF HasBlocking(report) THEN "blocked"
  ELSE IF report.suggested_review THEN "review"
  ELSE "passed"

-----------------------------------------------------------------------------
GateInit ==
  /\ job \in Jobs
  /\ step = "start"
  /\ place = 0
  /\ models = <<>> /\ results = <<>>
  /\ exit = 0

(***************************************************************************)
(* A manifest that is not there or no JSON exits with 2, warn-only or not; *)
(* nothing catches what opening the database or the policy raises, and the *)
(* interpreter then exits with 1.                                          *)
(***************************************************************************)
LoadManifest ==
  /\ step = "start" /\ job.command = "dbt"
  /\ IF job.readable /\ job.opens
     THEN step' = "extract" /\ UNCHANGED exit
     ELSE step' = "exited" /\ exit' = IF ~ job.readable THEN 2 ELSE 1
  /\ UNCHANGED <<job, place, models, results>>

(***************************************************************************)
(* extract_models, one node.                                               *)
(***************************************************************************)
ExtractNode ==
  /\ step = "extract" /\ place < Len(job.nodes)
  /\ place' = place + 1
  /\ models' = IF Selected(job.nodes[place']) THEN Append(models, Extracted(job.nodes[place'])) ELSE models
  /\ UNCHANGED <<job, step, results, exit>>

ModelsExtracted ==
  /\ step = "extract" /\ place = Len(job.nodes)
  /\ step' = "verify"
  /\ UNCHANGED <<job, place, models, results, exit>>

(***************************************************************************)
(* verify_project, one model.                                              *)
(***************************************************************************)
VerifyTemplate ==  \* mutant of VerifyModel: templates are verified as if they were SQL
  /\ step = "verify" /\ Len(results) < Len(models)
  /\ LET model == models[Len(results) + 1]
     IN  \E report \in Reports(model.sql) :
           results' = Append(results, [model |-> model.name, verdict |-> Verdict(report)])
  /\ UNCHANGED <<job, step, place, models, exit>>

VerifyModel ==
  /\ step = "verify" /\ Len(results) < Len(models)
  /\ LET model == models[Len(results) + 1]
     IN  IF model.status = "uncompiled"
         THEN results' = Append(results, [model |-> model.name, verdict |-> "skipped"])
         ELSE \E report \in Reports(model.sql) :
                results' = Append(results, [model |-> model.name, verdict |-> Verdict(report)])
  /\ UNCHANGED <<job, step, place, models, exit>>

Some(verdict) == \E i \in DOMAIN results : results[i].verdict = verdict

ExitWithLast ==  \* mutant of ExitWithWorst: the code of the last model
  /\ step = "verify" /\ Len(results) = Len(models)
  /\ step' = "exited"
  /\ exit' = IF job.warn_only \/ results = <<>> THEN 0
             ELSE CASE Last(results).verdict = "blocked" -> 2
                    [] Last(results).verdict = "review" -> 1
                    [] OTHER -> 0
  /\ UNCHANGED <<job, place, models, results>>

ExitWhenResults ==  \* mutant of ExitWithWorst: waits for a result
  /\ step = "verify" /\ Len(results) = Len(models) /\ results # <<>>
  /\ step' = "exited"
  /\ exit' = IF job.warn_only THEN 0
             ELSE IF Some("blocked") THEN 2 ELSE IF Some("review") THEN 1 ELSE 0
  /\ UNCHANGED <<job, place, models, results>>

ExitWithWorst ==
  /\ step = "verify" /\ Len(results) = Len(models)
  /\ step' = "exited"
  /\ exit' = IF job.warn_only THEN 0
             ELSE IF Some("blocked") THEN 2 ELSE IF Some("review") THEN 1 ELSE 0
  /\ UNCHANGED <<job, place, models, results>>

(***************************************************************************)
(* `verisql check`: one statement, one report, if the rest can be opened.  *)
(***************************************************************************)
Check ==
  /\ step = "start" /\ job.command = "check"
  /\ \/ /\ job.opens
        /\ \E report \in Reports(job.nodes[1].compiled[1]) :
             exit' = IF HasBlocking(report) THEN 2 ELSE IF report.suggested_review THEN 1 ELSE 0
     \/ ~ job.opens /\ exit' = 1
  /\ step' = "exited"
  /\ UNCHANGED <<job, place, models, results>>

GateNext ==
  LoadManifest \/ ExtractNode \/ ModelsExtracted \/ VerifyModel \/ ExitWithWorst \/ Check

GateSpec == GateInit /\ [][GateNext]_gate_vars /\ WF_gate_vars(GateNext)

-----------------------------------------------------------------------------
(***************************************************************************)
(* The type invariant of an invocation.                                    *)
(***************************************************************************)
GateTypeOK ==
  /\ job \in Jobs
  /\ step \in {"start", "extract", "verify", "exited"}
  /\ place \in 0 .. Len(job.nodes)
  /\ models \in Seq(Model)
  /\ results \in Seq(ModelResult)
  /\ exit \in 0 .. 2

(***************************************************************************)
(* The text of a node that would run in the warehouse, if it is known.     *)
(***************************************************************************)
Known(node) ==
  IF node.compiled # <<>> THEN {node.compiled[1]}
  ELSE IF node.raw # <<>> /\ ~ node.raw[1].jinja THEN {node.raw[1]}
  ELSE {}

Asked(node) == node.model /\ (job.select # {} => node.name \in job.select)

Relevant == UNION {Known(job.nodes[i]) : i \in {n \in DOMAIN job.nodes : Asked(job.nodes[n])}}

Severities(text) == {text.findings[i].severity : i \in DOMAIN text.findings}

(***************************************************************************)
(* A green build hides nothing that is known: with exit code 0 and without *)
(* --warn-only, no selected model whose SQL is known has an error, nor,    *)
(* once database and policy were opened, with exit code 1 one that blocks, *)
(* whatever the database answered and wherever in the manifest the model   *)
(* stands.                                                                 *)
(***************************************************************************)
NothingBadPasses ==
  step = "exited" /\ ~ job.warn_only =>
    \A text \in Relevant :
      /\ "critical" \in Severities(text) /\ job.opens => exit = 2
      /\ "critical" \in Severities(text) \/ "error" \in Severities(text) => exit > 0

(***************************************************************************)
(* A red build has a cause that can be shown.  Where the manifest, the     *)
(* database and the policy can be opened, that is a verification without   *)
(* --warn-only and, if there is no database, a finding in the SQL of a     *)
(* selected model, never in a template or in a model nobody asked for.     *)
(* Where they cannot, nothing was verified, and the build is red even with *)
(* --warn-only: with 2 for the manifest, and with 1, the code of a review, *)
(* for the others.  So the option does not do what cli.py:133 ("always     *)
(* exit 0") and action.yml:29 ("never fail the build") say of it.          *)
(***************************************************************************)
FailureHasCause ==
  step = "exited" =>
    IF job.readable /\ job.opens
    THEN exit > 0 =>
           /\ ~ job.warn_only
           /\ \/ job.connector
              \/ /\ \E text \in Relevant : text.findings # <<>>
                 /\ exit = 2 => \E text \in Relevant : "critical" \in Severities(text)
    ELSE /\ results = <<>>
         /\ exit = IF job.readable THEN 1 ELSE 2

(***************************************************************************)
(* Every run of the gate exits.                                            *)
(***************************************************************************)
GateEnds == step = "start" ~> step = "exited"

=============================================================================
