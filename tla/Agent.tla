------------------------------- MODULE Agent -------------------------------
(***************************************************************************)
(* The entry points around verify_and_repair: run_verified, the agent's    *)
(* loop that asks a generator again with the diagnosis of its last attempt *)
(* (src/src/verisql/agent.py), the sql_guard decorator                     *)
(* (integrations/guard.py) and the fix tools, which hand out the outcome   *)
(* as a payload (integrations/_core.py, mcp_server.py, `verisql fix`).     *)
(*                                                                         *)
(* A request calls the loop of RepairLoop once per attempt; the steps of   *)
(* that loop are steps of this module.                                     *)
(***************************************************************************)
EXTENDS RepairLoop

CONSTANT Requests  \* the requests, a set of Request records

Request == [surface : {"agent", "guard", "fix"}, connector : BOOLEAN, max_attempts : Nat]

ASSUME RequestsAssumption ==
  /\ Calls # {}
  /\ Requests \subseteq Request
  /\ \A r \in Requests : r.surface # "agent" => r.max_attempts = 1

VARIABLES
  request,    \* the request, fixed
  stage,      \* "schema", "generate", "repair", "judged", "answered", "refused" or "raised"
  attempts,   \* result.attempts
  diagnosis,  \* the diagnosis of the last attempt
  told,       \* history: the diagnoses the generator was given
  answer      \* what the caller gets

agent_vars == <<request, stage, attempts, diagnosis, told, answer>>

(***************************************************************************)
(* The SQL that was never written, "", which does not parse.               *)
(***************************************************************************)
Blank == [parses |-> FALSE, where |-> <<>>]

NoAnswer == [sql |-> Blank, verified |-> FALSE, rows |-> FALSE, reason |-> "none"]

\* Nothing is being repaired yet.
AgentInit ==
  /\ Init /\ call = CHOOSE c \in Calls : TRUE
  /\ request \in Requests
  /\ stage = IF request.surface = "agent" THEN "schema" ELSE "generate"
  /\ attempts = <<>> /\ diagnosis = <<>> /\ told = <<>>
  /\ answer = NoAnswer

(***************************************************************************)
(* _schema_hint: list_tables may raise, which nothing catches; a table     *)
(* whose columns cannot be listed is passed over.                          *)
(***************************************************************************)
SchemaHint ==
  /\ stage = "schema"
  /\ \/ stage' = "generate"
     \/ request.connector /\ stage' = "raised"
  /\ UNCHANGED <<vars, request, attempts, diagnosis, told, answer>>

(***************************************************************************)
(* A call of verify_and_repair: Init of RepairLoop, once more.             *)
(***************************************************************************)
CallBegins(c) ==
  /\ call' = c
  /\ current' = c.sql /\ final_sql' = c.sql
  /\ round_no' = 0
  /\ repairs' = <<>> /\ judged' = <<>>
  /\ final_report' = EmptyReport
  /\ verified' = FALSE /\ escalate' = FALSE
  /\ phase' = "verify"

(***************************************************************************)
(* The generator, the guarded function or the caller comes up with some    *)
(* statement, and verify_and_repair is called.  Whoever writes the SQL may *)
(* raise.                                                                  *)
(***************************************************************************)
GenerateOnceMore ==  \* mutant of Generate: off by one
  /\ stage = "generate" /\ Len(attempts) <= request.max_attempts
  /\ \E c \in Calls : c.connector = request.connector /\ CallBegins(c)
  /\ told' = Append(told, diagnosis)
  /\ stage' = "repair"
  /\ UNCHANGED <<request, attempts, diagnosis, answer>>

Generate ==
  /\ stage = "generate" /\ Len(attempts) < request.max_attempts
  /\ \E c \in Calls : c.connector = request.connector /\ CallBegins(c)
  /\ told' = Append(told, diagnosis)
  /\ stage' = "repair"
  /\ UNCHANGED <<request, attempts, diagnosis, answer>>

GeneratorRaises ==
  /\ stage = "generate" /\ Len(attempts) < request.max_attempts
  /\ request.surface # "fix"
  /\ stage' = "raised"
  /\ UNCHANGED <<vars, request, attempts, diagnosis, told, answer>>

RepairStep == stage = "repair" /\ Next /\ UNCHANGED agent_vars

RepairEscapes ==
  /\ stage = "repair" /\ phase = "raised"
  /\ stage' = "raised"
  /\ UNCHANGED <<vars, request, attempts, diagnosis, told, answer>>

(***************************************************************************)
(* The outcome of an attempt: what run_verified keeps of it, and what a    *)
(* SQLVerificationError or a payload is made of.                           *)
(***************************************************************************)
Attempt == [sql       |-> final_sql,
            verdict   |-> IF verified THEN "verified" ELSE "needs_correction",
            diagnosis |-> final_report.flags]

JudgeBlocking ==  \* mutant of Judge: only what blocks is passed on
  /\ stage = "repair" /\ phase = "returned"
  /\ attempts' = Append(attempts, Attempt)
  /\ diagnosis' = SelectSeq(final_report.flags, LAMBDA f : f.severity = "critical")
  /\ stage' = IF request.surface = "agent" /\ ~ verified THEN "generate" ELSE "judged"
  /\ UNCHANGED <<vars, request, told, answer>>

Judge ==
  /\ stage = "repair" /\ phase = "returned"
  /\ attempts' = Append(attempts, Attempt)
  /\ diagnosis' = Attempt.diagnosis
  /\ stage' = IF request.surface = "agent" /\ ~ verified THEN "generate" ELSE "judged"
  /\ UNCHANGED <<vars, request, told, answer>>

(***************************************************************************)
(* run_verified executes what was verified, once more.  A failure ends the *)
(* loop; without a connector the execution always fails.                   *)
(***************************************************************************)
ExecuteSubmitted ==  \* mutant of Execute: the statement as it was generated
  /\ stage = "judged" /\ request.surface = "agent"
  /\ request.connector
  /\ answer' = [sql |-> call.sql, verified |-> TRUE, rows |-> TRUE, reason |-> "none"]
  /\ stage' = "answered"
  /\ UNCHANGED <<vars, request, attempts, diagnosis, told>>

Execute ==
  /\ stage = "judged" /\ request.surface = "agent"
  /\ request.connector
  /\ answer' = [sql |-> final_sql, verified |-> TRUE, rows |-> TRUE, reason |-> "none"]
  /\ stage' = "answered"
  /\ UNCHANGED <<vars, request, attempts, diagnosis, told>>

ExecutionRetried ==  \* mutant of ExecutionEscalates: continue in place of break
  /\ stage = "judged" /\ request.surface = "agent"
  /\ answer' = [answer EXCEPT !.sql = Last(attempts).sql, !.reason = "execution_failed"]
  /\ stage' = IF Len(attempts) < request.max_attempts THEN "generate" ELSE "answered"
  /\ UNCHANGED <<vars, request, attempts, diagnosis, told>>

ExecutionEscalates ==
  /\ stage = "judged" /\ request.surface = "agent"
  /\ answer' = [answer EXCEPT !.sql = Last(attempts).sql, !.reason = "execution_failed"]
  /\ stage' = "answered"
  /\ UNCHANGED <<vars, request, attempts, diagnosis, told>>

GiveUp ==
  /\ stage = "generate" /\ Len(attempts) = request.max_attempts
  /\ answer' = [answer EXCEPT
                  !.sql = IF attempts = <<>> THEN @ ELSE Last(attempts).sql,
                  !.reason = IF @ = "none" THEN "exceeded_max_attempts" ELSE @]
  /\ stage' = "answered"
  /\ UNCHANGED <<vars, request, attempts, diagnosis, told>>

(***************************************************************************)
(* sql_guard returns the verified SQL or raises SQLVerificationError.      *)
(***************************************************************************)
GuardReturnsAnyway ==  \* mutant of GuardReturns: whatever came out of the repair
  /\ stage = "judged" /\ request.surface = "guard"
  /\ answer' = [answer EXCEPT !.sql = final_sql, !.verified = TRUE]
  /\ stage' = "answered"
  /\ UNCHANGED <<vars, request, attempts, diagnosis, told>>

GuardReturns ==
  /\ stage = "judged" /\ request.surface = "guard"
  /\ verified
  /\ answer' = [answer EXCEPT !.sql = final_sql, !.verified = TRUE]
  /\ stage' = "answered"
  /\ UNCHANGED <<vars, request, attempts, diagnosis, told>>

GuardRefuses ==
  /\ stage = "judged" /\ request.surface = "guard"
  /\ ~ verified
  /\ stage' = "refused"
  /\ UNCHANGED <<vars, request, attempts, diagnosis, told, answer>>

(***************************************************************************)
(* The fix tools hand out the SQL either way, with the verdict.            *)
(***************************************************************************)
FixAnswers ==
  /\ stage = "judged" /\ request.surface = "fix"
  /\ answer' = [answer EXCEPT !.sql = final_sql, !.verified = verified]
  /\ stage' = "answered"
  /\ UNCHANGED <<vars, request, attempts, diagnosis, told>>

AgentNext ==
  \/ SchemaHint \/ Generate \/ GeneratorRaises
  \/ RepairStep \/ RepairEscapes \/ Judge
  \/ Execute \/ ExecutionEscalates \/ GiveUp
  \/ GuardReturns \/ GuardRefuses \/ FixAnswers

AgentSpec == AgentInit /\ [][AgentNext]_<<vars, agent_vars>> /\ WF_<<vars, agent_vars>>(AgentNext)

-----------------------------------------------------------------------------
(***************************************************************************)
(* The type invariant of a request, and of the repair it is in.            *)
(***************************************************************************)
AgentTypeOK ==
  /\ TypeOK
  /\ request \in Requests
  /\ stage \in {"schema", "generate", "repair", "judged", "answered", "refused", "raised"}
  /\ attempts \in Seq([sql : Statement, verdict : {"verified", "needs_correction"},
                       diagnosis : Seq(Finding)])
  /\ Len(attempts) <= request.max_attempts /\ Len(told) <= request.max_attempts
  /\ diagnosis \in Seq(Finding)
  /\ answer \in [sql : Statement, verified : BOOLEAN, rows : BOOLEAN,
                 reason : {"none", "execution_failed", "exceeded_max_attempts"}]

Accepted(i) == attempts[i].verdict = "verified"

(***************************************************************************)
(* What is handed out as verified is the SQL of the last attempt, which is *)
(* the first one that was accepted; no check that needs no database        *)
(* objects to it with an error; and the agent delivers rows with it, which *)
(* are of that very statement.                                             *)
(***************************************************************************)
DeliveredIsVerified ==
  stage = "answered" /\ answer.verified =>
    /\ attempts # <<>>
    /\ \A i \in DOMAIN attempts : Accepted(i) <=> i = Len(attempts)
    /\ answer.sql = Last(attempts).sql
    /\ \A finding \in Failing(answer.sql) : finding[2] \in {"info", "warn"}
    /\ answer.rows <=> request.surface = "agent"
    /\ answer.reason = "none"

(***************************************************************************)
(* Whoever is not served learns why: the reason of an agent's escalation   *)
(* is the one that occurred, the SQL handed out is that of the last        *)
(* attempt, and a statement that was not accepted has a diagnosis.         *)
(***************************************************************************)
EscalationHasReason ==
  /\ stage = "answered" /\ ~ answer.verified /\ request.surface = "agent" =>
       /\ answer.reason = IF attempts # <<>> /\ Accepted(Len(attempts))
                          THEN "execution_failed" ELSE "exceeded_max_attempts"
       /\ answer.reason = "exceeded_max_attempts" => Len(attempts) = request.max_attempts
       /\ answer.sql = IF attempts = <<>> THEN Blank ELSE attempts[Len(attempts)].sql
  /\ stage = "refused" => Len(attempts) = 1 /\ ~ Accepted(1)
  /\ \A i \in DOMAIN attempts : Accepted(i) \/ attempts[i].diagnosis # <<>>

(***************************************************************************)
(* The generator is asked again only after a rejected attempt, and is told *)
(* every finding on the SQL that came out of that attempt, not on the SQL  *)
(* it wrote nor on an earlier one.                                         *)
(***************************************************************************)
FeedbackIsCurrent ==
  \A i \in DOMAIN told :
    IF i = 1 THEN told[i] = <<>>
    ELSE /\ ~ Accepted(i - 1)
         /\ told[i] # <<>>
         /\ \A finding \in Failing(attempts[i - 1].sql) :
              Flag(finding[1], finding[2]) \in ToSet(told[i])

Promise == INSTANCE Supervised WITH
  limit    <- request.max_attempts,
  tries    <- Len(attempts),
  accepted <- attempts # <<>> /\ Last(attempts).verdict = "verified",
  outcome  <- CASE stage = "answered" /\ answer.verified -> "delivered"
                [] stage = "refused" \/ (stage = "answered" /\ ~ answer.verified) -> "refused"
                [] stage = "raised" -> "raised"
                [] OTHER -> "pending"

=============================================================================
