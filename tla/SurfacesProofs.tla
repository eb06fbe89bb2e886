--------------------------- MODULE SurfacesProofs ---------------------------
(***************************************************************************)
(* What is proved of the entry points, Agent and Gate, and of the two side *)
(* by side: for all requests, manifests and selections, whatever a         *)
(* generator writes and the databases answer.  The repair loop inside a    *)
(* request is only known by its invariant.                                 *)
(***************************************************************************)
EXTENDS Surfaces, RepairLoopProofs

AttemptRecord ==
  [sql : Statement, verdict : {"verified", "needs_correction"}, diagnosis : Seq(Finding)]

(***************************************************************************)
(* What is known of an attempt once it is judged: an accepted statement    *)
(* fails no check with an error, a rejected one has a diagnosis, and the   *)
(* diagnosis holds all that can be found without a database.               *)
(***************************************************************************)
Sound(a) ==
  /\ a.verdict = "verified" => \A finding \in Failing(a.sql) : finding[2] \in {"info", "warn"}
  /\ a.verdict # "verified" => a.diagnosis # <<>>
  /\ \A finding \in Failing(a.sql) : Flag(finding[1], finding[2]) \in ToSet(a.diagnosis)

LEMMA FlagsOfReport ==
  ASSUME NEW sql \in Statement, NEW others \in Others, NEW reply \in Answer
  PROVE  LET report == ReportOn(sql, others, reply)
         IN  /\ report.flags \in Seq(Finding)
             /\ ~ CleanReport(report) => report.flags # <<>>
             /\ \A finding \in Failing(sql) : Flag(finding[1], finding[2]) \in ToSet(report.flags)
  <1> DEFINE report == ReportOn(sql, others, reply)
             bare == ReportOn(sql, NoOthers, Silent)
  <1>1. NoOthers \in Others /\ Silent \in Answer /\ Foreign(NoOthers, Silent) = {}
    BY Quiet
  <1>2. CASE sql.parses
    <2>1. /\ report.flags \in Seq(Finding)
          /\ ToSet(report.flags) = Foreign(others, reply) \cup Own(sql)
          /\ report.flags = <<>> => ~ report.suggested_review
      BY <1>2, ReportFlags
    <2>2. bare.flags \in Seq(Finding) /\ ToSet(bare.flags) = Own(sql)
      <3>1. /\ bare.flags \in Seq(Finding)
            /\ ToSet(bare.flags) = Foreign(NoOthers, Silent) \cup Own(sql)
        BY <1>1, <1>2, ReportFlags
      <3> QED
        BY <1>1, <3>1
    <2> HIDE DEF report
    <2>3. ASSUME NEW finding \in Failing(sql)
          PROVE  Flag(finding[1], finding[2]) \in ToSet(report.flags)
      <3>1. PICK i \in DOMAIN bare.flags : finding = <<bare.flags[i].check, bare.flags[i].severity>>
        BY DEF Failing
      <3> HIDE DEF bare
      <3>2. bare.flags[i] \in Own(sql) /\ bare.flags[i] \in Finding
        BY <2>2, <3>1 DEF ToSet
      <3>3. bare.flags[i] = Flag(finding[1], finding[2])
        BY <3>1, <3>2 DEF Finding, Flag
      <3> QED
        BY <2>1, <3>2, <3>3
    <2>4. report.flags = <<>> => CleanReport(report)
      BY <2>1 DEF CleanReport, HasBlocking
    <2> QED
      BY <2>1, <2>3, <2>4 DEF report
  <1>3. CASE ~ sql.parses
    <2> DEFINE f == Flag("ast_parse", "critical")
    <2>1. report.flags = <<f>> /\ bare.flags = <<f>>
      BY <1>3, UnparsedBlocks
    <2>2. f \in Finding
      <3>1. "ast_parse" \in CheckName /\ "critical" \in Severity
        BY DEF CheckName, Severity
      <3> QED
        BY <3>1, FlagType
    <2> HIDE DEF report, bare
    <2>3. <<f>> \in Seq(Finding) /\ ToSet(<<f>>) = {f} /\ <<f>> # <<>>
      <3> HIDE DEF f
      <3> QED
        BY <2>2, Singleton
    <2>4. ASSUME NEW finding \in Failing(sql)
          PROVE  Flag(finding[1], finding[2]) \in ToSet(report.flags)
      <3>1. PICK i \in DOMAIN bare.flags : finding = <<bare.flags[i].check, bare.flags[i].severity>>
        BY DEF Failing, bare
      <3>2. bare.flags[i] = f
        <4>1. DOMAIN <<f>> = {1} /\ <<f>>[1] = f
          OBVIOUS
        <4> QED
          BY <2>1, <3>1, <4>1
      <3>3. finding = <<"ast_parse", "critical">>
        BY <3>1, <3>2 DEF Flag
      <3> QED
        BY <2>1, <2>3, <3>3
    <2>5. report.flags \in Seq(Finding) /\ report.flags # <<>>
      BY <2>1, <2>3
    <2> QED
      BY <2>4, <2>5 DEF report
  <1> QED
    BY <1>2, <1>3

(***************************************************************************)
(* The result of a repair makes a sound attempt.                           *)
(***************************************************************************)
LEMMA AttemptIsSound ==
  ASSUME LoopInv, phase = "returned"
  PROVE  /\ Attempt \in AttemptRecord
         /\ Attempt.sql = final_sql
         /\ Attempt.verdict = "verified" <=> verified
         /\ Sound(Attempt)
  <1>1. LoopTypeInv /\ ReturnedInv
    BY DEF LoopInv
  <1>2. PICK reply \in Answer : final_report = ReportOn(final_sql, call.others, reply)
    BY <1>1 DEF ReturnedInv
  <1>3. final_sql \in Statement /\ call.others \in Others
    BY <1>1, CallType DEF LoopTypeInv
  <1>4. verified <=> CleanReport(final_report)
    BY <1>1 DEF ReturnedInv
  <1>5. /\ final_report.flags \in Seq(Finding)
        /\ ~ CleanReport(final_report) => final_report.flags # <<>>
        /\ \A finding \in Failing(final_sql) :
             Flag(finding[1], finding[2]) \in ToSet(final_report.flags)
    BY <1>2, <1>3, FlagsOfReport
  <1>6. CleanReport(final_report) =>
          \A finding \in Failing(final_sql) : finding[2] \in {"info", "warn"}
    BY <1>2, <1>3, CleanStatement
  <1> DEFINE verdict == IF verified THEN "verified" ELSE "needs_correction"
             flags == final_report.flags
  <1>7. Attempt = [sql |-> final_sql, verdict |-> verdict, diagnosis |-> flags]
    BY DEF Attempt
  <1>8. verdict \in {"verified", "needs_correction"} /\ (verdict = "verified" <=> verified)
    OBVIOUS
  <1> HIDE DEF verdict, flags
  <1>9. /\ Attempt.sql = final_sql /\ Attempt.verdict = verdict /\ Attempt.diagnosis = flags
    BY <1>7
  <1>10. Attempt \in AttemptRecord
    BY <1>3, <1>5, <1>7, <1>8 DEF AttemptRecord, flags
  <1>11. Sound(Attempt)
    BY <1>4, <1>5, <1>6, <1>8, <1>9 DEF Sound, flags
  <1> QED
    BY <1>8, <1>9, <1>10, <1>11

-----------------------------------------------------------------------------
(***************************************************************************)
(* The inductive invariant of a request.                                   *)
(***************************************************************************)
AgentTypeInv ==
  /\ request \in Requests
  /\ stage \in {"schema", "generate", "repair", "judged", "answered", "refused", "raised"}
  /\ attempts \in Seq(AttemptRecord) /\ Len(attempts) <= request.max_attempts
  /\ told \in Seq(Seq(Finding))

(***************************************************************************)
(* Every attempt is sound, and nothing follows an accepted one.            *)
(***************************************************************************)
AttemptsInv ==
  \A i \in 1 .. Len(attempts) :
    /\ Sound(attempts[i])
    /\ attempts[i].verdict = "verified" => i = Len(attempts) /\ stage \in {"judged", "answered"}

(***************************************************************************)
(* What the generator was told: at first nothing, then each diagnosis.     *)
(***************************************************************************)
ToldInv ==
  /\ stage \in {"schema", "generate", "judged", "answered", "refused"} => Len(told) = Len(attempts)
  /\ stage = "repair" => Len(told) = Len(attempts) + 1 /\ Len(attempts) < request.max_attempts
  /\ Len(told) <= Len(attempts) + 1
  /\ \A i \in 1 .. Len(told) : told[i] = IF i = 1 THEN <<>> ELSE attempts[i - 1].diagnosis
  /\ diagnosis = IF attempts = <<>> THEN <<>> ELSE attempts[Len(attempts)].diagnosis

JudgedInv ==
  stage = "judged" =>
    /\ attempts # <<>> /\ attempts[Len(attempts)].sql = final_sql
    /\ attempts[Len(attempts)].verdict = "verified" <=> verified
    /\ request.surface = "agent" => verified

AnswerInv ==
  /\ stage # "answered" => answer = NoAnswer
  /\ stage = "refused" => Len(attempts) = 1 /\ attempts[1].verdict # "verified"
  /\ stage = "answered" /\ answer.verified =>
       /\ attempts # <<>> /\ attempts[Len(attempts)].verdict = "verified"
       /\ answer.sql = attempts[Len(attempts)].sql
       /\ answer.rows <=> request.surface = "agent"
       /\ answer.reason = "none"
  /\ stage = "answered" /\ ~ answer.verified /\ request.surface = "agent" =>
       /\ answer.reason = IF attempts # <<>> /\ attempts[Len(attempts)].verdict = "verified"
                          THEN "execution_failed" ELSE "exceeded_max_attempts"
       /\ answer.reason = "exceeded_max_attempts" => Len(attempts) = request.max_attempts
       /\ answer.sql = IF attempts = <<>> THEN Blank ELSE attempts[Len(attempts)].sql

AgentInv == LoopInv /\ AgentTypeInv /\ AttemptsInv /\ ToldInv /\ JudgedInv /\ AnswerInv

LEMMA RequestType ==
  ASSUME NEW r \in Requests
  PROVE  r.max_attempts \in Nat /\ (r.surface # "agent" => r.max_attempts = 1)
  BY RequestsAssumption DEF Request

(***************************************************************************)
(* Every call of verify_and_repair starts the loop in its invariant.       *)
(***************************************************************************)
LEMMA CallBeginsInv ==
  ASSUME NEW c \in Calls, CallBegins(c)
  PROVE  LoopInv'
  <1>1. call' = c /\ c \in Call
    BY CallsAssumption DEF CallBegins
  <1>2. c.sql \in Statement /\ c.max_rounds \in Nat
    BY <1>1, CallType
  <1>3. judged' = <<>> /\ round_no' = 0 /\ Len(judged') = 0 /\ judged' \in Seq(Statement)
    BY EmptySequence DEF CallBegins
  <1>4. current' = c.sql /\ final_sql' = c.sql /\ phase' = "verify" /\ verified' = FALSE /\ escalate' = FALSE
    BY DEF CallBegins
  <1>5. LoopTypeInv'
    BY <1>1, <1>2, <1>3, <1>4 DEF LoopTypeInv
  <1>6. RunningInv' /\ ReturnedInv'
    BY <1>3, <1>4 DEF RunningInv, ReturnedInv
  <1> QED
    BY <1>5, <1>6 DEF LoopInv

LEMMA LoopUnchanged == LoopInv /\ UNCHANGED vars => LoopInv'
  BY LoopStep

LEMMA AgentStarts == AgentInit => AgentInv
  <1> SUFFICES ASSUME AgentInit PROVE AgentInv
    OBVIOUS
  <1>1. LoopInv
    BY LoopInit DEF AgentInit
  <1>2. /\ request \in Requests /\ request.max_attempts \in Nat
        /\ stage \in {"schema", "generate"}
        /\ attempts = <<>> /\ diagnosis = <<>> /\ told = <<>>
        /\ answer = NoAnswer
    BY RequestType DEF AgentInit
  <1>3. /\ attempts \in Seq(AttemptRecord) /\ Len(attempts) = 0
        /\ told \in Seq(Seq(Finding)) /\ Len(told) = 0
    BY <1>2, EmptySequence
  <1>4. AgentTypeInv
    BY <1>2, <1>3 DEF AgentTypeInv
  <1>5. AttemptsInv
    BY <1>3 DEF AttemptsInv
  <1>6. ToldInv
    BY <1>2, <1>3 DEF ToldInv
  <1>7. JudgedInv /\ AnswerInv
    BY <1>2 DEF JudgedInv, AnswerInv
  <1> QED
    BY <1>1, <1>4, <1>5, <1>6, <1>7 DEF AgentInv

LEMMA GenerateKeeps == AgentInv /\ Generate => AgentInv'
  <1> SUFFICES ASSUME AgentInv, Generate PROVE AgentInv'
    OBVIOUS
  <1>1. /\ stage = "generate" /\ stage' = "repair" /\ Len(attempts) < request.max_attempts
        /\ request' = request /\ attempts' = attempts /\ diagnosis' = diagnosis /\ answer' = answer
        /\ told' = Append(told, diagnosis)
    BY DEF Generate
  <1>2. LoopInv'
    BY CallBeginsInv DEF Generate
  <1>3. /\ attempts \in Seq(AttemptRecord) /\ told \in Seq(Seq(Finding)) /\ Len(told) = Len(attempts)
        /\ diagnosis = IF attempts = <<>> THEN <<>> ELSE attempts[Len(attempts)].diagnosis
    BY <1>1 DEF AgentInv, AgentTypeInv, ToldInv
  <1>4. diagnosis \in Seq(Finding)
    <2>1. CASE attempts = <<>>
      BY <1>3, <2>1, EmptySequence
    <2>2. CASE attempts # <<>>
      <3>1. attempts[Len(attempts)] \in AttemptRecord
        BY <1>3, <2>2
      <3> QED
        BY <1>3, <2>2, <3>1 DEF AttemptRecord
    <2> QED
      BY <2>1, <2>2
  <1> DEFINE Diagnoses == Seq(Finding)
  <1> HIDE DEF Diagnoses
  <1>5. /\ told' \in Seq(Diagnoses) /\ Len(told') = Len(told) + 1 /\ told'[Len(told')] = diagnosis
        /\ \A i \in 1 .. Len(told) : told'[i] = told[i]
        /\ Len(told) \in Nat /\ Len(attempts) \in Nat
    BY <1>1, <1>3, <1>4 DEF Diagnoses
  <1>6. AgentTypeInv'
    BY <1>1, <1>5 DEF AgentInv, AgentTypeInv, Diagnoses
  <1>7. AttemptsInv'
    BY <1>1 DEF AgentInv, AttemptsInv
  <1>8. ToldInv'
    <2>1. Len(told') = Len(attempts') + 1
      BY <1>1, <1>3, <1>5
    <2>2. ASSUME NEW i \in 1 .. Len(told')
          PROVE  told'[i] = IF i = 1 THEN <<>> ELSE attempts'[i - 1].diagnosis
      <3>1. CASE i \in 1 .. Len(told)
        BY <1>1, <1>5, <3>1 DEF AgentInv, ToldInv
      <3>2. CASE i = Len(attempts) + 1
        <4>1. told'[i] = diagnosis
          BY <1>3, <1>5, <3>2
        <4>2. i = 1 <=> attempts = <<>>
          BY <1>3, <3>2
        <4> QED
          BY <1>1, <1>3, <1>5, <3>2, <4>1, <4>2
      <3> QED
        BY <1>3, <1>5, <3>1, <3>2
    <2>3. Len(told') <= Len(attempts') + 1
      BY <1>5, <2>1, <1>1
    <2> QED
      BY <1>1, <1>3, <2>1, <2>2, <2>3 DEF ToldInv
  <1>9. JudgedInv'
    BY <1>1 DEF JudgedInv
  <1>10. AnswerInv'
    BY <1>1 DEF AgentInv, AnswerInv
  <1> QED
    BY <1>2, <1>6, <1>7, <1>8, <1>9, <1>10 DEF AgentInv

LEMMA JudgeKeeps == AgentInv /\ Judge => AgentInv'
  <1> SUFFICES ASSUME AgentInv, Judge PROVE AgentInv'
    OBVIOUS
  <1>1. /\ stage = "repair" /\ phase = "returned"
        /\ attempts' = Append(attempts, Attempt)
        /\ diagnosis' = Attempt.diagnosis
        /\ stage' = IF request.surface = "agent" /\ ~ verified THEN "generate" ELSE "judged"
        /\ UNCHANGED vars
        /\ request' = request /\ told' = told /\ answer' = answer
    BY DEF Judge
  <1>2. LoopInv'
    BY <1>1, LoopUnchanged DEF AgentInv
  <1>3. /\ Attempt \in AttemptRecord /\ Attempt.sql = final_sql
        /\ Attempt.verdict = "verified" <=> verified
        /\ Sound(Attempt)
    BY <1>1, AttemptIsSound DEF AgentInv
  <1>4. /\ attempts \in Seq(AttemptRecord) /\ Len(attempts) < request.max_attempts
        /\ Len(told) = Len(attempts) + 1 /\ request.max_attempts \in Nat
        /\ told \in Seq(Seq(Finding)) /\ request \in Requests
    BY <1>1, RequestType DEF AgentInv, AgentTypeInv, ToldInv
  <1> DEFINE a == Attempt
  <1> HIDE DEF a
  <1>5. /\ attempts' \in Seq(AttemptRecord) /\ Len(attempts') = Len(attempts) + 1
        /\ attempts'[Len(attempts')] = a /\ Len(attempts) \in Nat /\ attempts' # <<>>
        /\ \A i \in 1 .. Len(attempts) : attempts'[i] = attempts[i]
    <2>1. a \in AttemptRecord /\ attempts' = Append(attempts, a)
      BY <1>1, <1>3 DEF a
    <2>2. attempts \in Seq(AttemptRecord)
      BY <1>4
    <2>3. /\ attempts' \in Seq(AttemptRecord) /\ Len(attempts') = Len(attempts) + 1
          /\ attempts'[Len(attempts) + 1] = a /\ Len(attempts) \in Nat
          /\ \A i \in 1 .. Len(attempts) : attempts'[i] = attempts[i]
      BY <2>1, <2>2
    <2>4. attempts' # <<>>
      BY <2>3, EmptySequence
    <2> QED
      BY <2>3, <2>4
  <1>6. Sound(a) /\ a.sql = final_sql /\ (a.verdict = "verified" <=> verified) /\ diagnosis' = a.diagnosis
    BY <1>1, <1>3 DEF a
  <1>7. final_sql' = final_sql /\ verified' = verified
    BY <1>1 DEF vars
  <1>8. stage' \in {"generate", "judged"} /\ (verified => stage' = "judged")
    BY <1>1
  <1>9. AgentTypeInv'
    BY <1>1, <1>4, <1>5, <1>8 DEF AgentTypeInv
  <1>10. AttemptsInv'
    <2> SUFFICES ASSUME NEW i \in 1 .. Len(attempts')
                 PROVE  /\ Sound(attempts'[i])
                        /\ attempts'[i].verdict = "verified" =>
                             i = Len(attempts') /\ stage' \in {"judged", "answered"}
      BY DEF AttemptsInv
    <2>1. CASE i = Len(attempts')
      <3>1. attempts'[i] = a
        BY <1>5, <2>1
      <3> QED
        BY <1>6, <1>8, <2>1, <3>1
    <2>2. CASE i # Len(attempts')
      <3>1. i \in 1 .. Len(attempts) /\ attempts'[i] = attempts[i]
        BY <1>5, <2>2
      <3>2. Sound(attempts[i]) /\ attempts[i].verdict # "verified"
        BY <1>1, <3>1 DEF AgentInv, AttemptsInv
      <3> QED
        BY <3>1, <3>2
    <2> QED
      BY <2>1, <2>2
  <1>11. ToldInv'
    <2>1. ASSUME NEW i \in 1 .. Len(told')
          PROVE  told'[i] = IF i = 1 THEN <<>> ELSE attempts'[i - 1].diagnosis
      <3>1. told'[i] = IF i = 1 THEN <<>> ELSE attempts[i - 1].diagnosis
        BY <1>1 DEF AgentInv, ToldInv
      <3>2. i # 1 => i - 1 \in 1 .. Len(attempts)
        BY <1>1, <1>4, <1>5
      <3> QED
        BY <1>5, <3>1, <3>2
    <2>2. Len(told') = Len(attempts')
      BY <1>1, <1>4, <1>5
    <2>3. diagnosis' = attempts'[Len(attempts')].diagnosis
      BY <1>5, <1>6
    <2>4. Len(told') <= Len(attempts') + 1 /\ stage' # "repair"
      BY <1>5, <1>8, <2>2
    <2> QED
      BY <1>5, <2>1, <2>2, <2>3, <2>4 DEF ToldInv
  <1>12. JudgedInv'
    BY <1>1, <1>5, <1>6, <1>7 DEF JudgedInv
  <1>13. AnswerInv'
    BY <1>1, <1>8 DEF AgentInv, AnswerInv
  <1> QED
    BY <1>2, <1>9, <1>10, <1>11, <1>12, <1>13 DEF AgentInv

(***************************************************************************)
(* A step from which nobody is answered and in which nothing is attempted. *)
(***************************************************************************)
LEMMA QuietKeeps ==
  ASSUME AgentInv, LoopInv',
         UNCHANGED <<request, attempts, diagnosis, told, answer>>,
         \/ stage' = stage /\ stage # "judged"
         \/ stage = "schema" /\ stage' = "generate"
         \/ stage \in {"schema", "generate", "repair"} /\ stage' = "raised"
  PROVE  AgentInv'
  <1>1. AgentTypeInv'
    BY DEF AgentInv, AgentTypeInv
  <1>2. AttemptsInv'
    BY DEF AgentInv, AttemptsInv
  <1>3. ToldInv'
    BY DEF AgentInv, ToldInv
  <1>4. JudgedInv' /\ AnswerInv'
    BY DEF AgentInv, JudgedInv, AnswerInv
  <1> QED
    BY <1>1, <1>2, <1>3, <1>4 DEF AgentInv

(***************************************************************************)
(* A step that gives the caller what AnswerInv allows.                     *)
(***************************************************************************)
LEMMA AnswerKeeps ==
  ASSUME AgentInv, UNCHANGED <<vars, request, attempts, diagnosis, told>>,
         stage \in {"judged", "generate"}, stage' \in {"answered", "refused"},
         stage = "judged" /\ attempts[Len(attempts)].verdict = "verified" => stage' = "answered",
         AnswerInv'
  PROVE  AgentInv'
  <1>1. LoopInv'
    BY LoopUnchanged DEF AgentInv
  <1>2. AgentTypeInv' /\ ToldInv' /\ JudgedInv'
    BY DEF AgentInv, AgentTypeInv, ToldInv, JudgedInv
  <1>3. AttemptsInv'
    <2>1. \A i \in 1 .. Len(attempts) :
            attempts[i].verdict = "verified" => i = Len(attempts) /\ stage' = "answered"
      BY DEF AgentInv, AttemptsInv
    <2> QED
      BY <2>1 DEF AgentInv, AttemptsInv
  <1> QED
    BY <1>1, <1>2, <1>3 DEF AgentInv

LEMMA AnswersKeep ==
  AgentInv /\ (Execute \/ ExecutionEscalates \/ GiveUp \/ GuardReturns \/ GuardRefuses \/ FixAnswers)
    => AgentInv'
  <1> SUFFICES ASSUME AgentInv,
                      Execute \/ ExecutionEscalates \/ GiveUp
                        \/ GuardReturns \/ GuardRefuses \/ FixAnswers
               PROVE  AgentInv'
    OBVIOUS
  <1>1. /\ UNCHANGED <<vars, request, attempts, diagnosis, told>>
        /\ stage \in {"judged", "generate"} /\ stage' \in {"answered", "refused"}
        /\ answer = NoAnswer
    BY DEF Execute, ExecutionEscalates, GiveUp, GuardReturns, GuardRefuses, FixAnswers,
           AgentInv, AnswerInv
  <1>2. final_sql' = final_sql /\ verified' = verified
    BY <1>1 DEF vars
  <1>3. stage = "judged" =>
          /\ attempts # <<>> /\ attempts[Len(attempts)].sql = final_sql
          /\ attempts[Len(attempts)].verdict = "verified" <=> verified
          /\ request.surface = "agent" => verified
    BY DEF AgentInv, JudgedInv
  <1>4. /\ attempts \in Seq(AttemptRecord) /\ Len(attempts) <= request.max_attempts
        /\ request.surface # "agent" => request.max_attempts = 1
    BY RequestType DEF AgentInv, AgentTypeInv
  <1>5. stage = "generate" /\ attempts # <<>> => attempts[Len(attempts)].verdict # "verified"
    <2>1. attempts # <<>> => Len(attempts) \in 1 .. Len(attempts)
      BY <1>4
    <2> QED
      BY <2>1 DEF AgentInv, AttemptsInv
  <1>6. Last(attempts) = attempts[Len(attempts)]
    BY DEF Last
  <1>7. /\ NoAnswer.sql = Blank /\ NoAnswer.verified = FALSE /\ NoAnswer.rows = FALSE
        /\ NoAnswer.reason = "none"
    BY DEF NoAnswer
  <1> DEFINE last == attempts[Len(attempts)]
  <1> HIDE DEF last
  <1>8. CASE Execute
    <2>1. /\ stage = "judged" /\ request.surface = "agent" /\ stage' = "answered"
          /\ answer'.sql = final_sql /\ answer'.verified = TRUE /\ answer'.rows = TRUE
          /\ answer'.reason = "none"
      BY <1>8 DEF Execute
    <2>2. AnswerInv'
      BY <1>1, <1>3, <2>1 DEF AnswerInv
    <2> QED
      BY <1>1, <2>1, <2>2, AnswerKeeps
  <1>9. CASE ExecutionEscalates
    <2>1. /\ stage = "judged" /\ request.surface = "agent" /\ stage' = "answered"
          /\ answer' = [answer EXCEPT !.sql = last.sql, !.reason = "execution_failed"]
      BY <1>6, <1>9 DEF ExecutionEscalates, last
    <2>2. answer'.sql = last.sql /\ answer'.verified = FALSE /\ answer'.reason = "execution_failed"
      BY <1>1, <2>1 DEF NoAnswer
    <2>3. AnswerInv'
      BY <1>1, <1>3, <2>1, <2>2 DEF AnswerInv, last
    <2> QED
      BY <1>1, <2>1, <2>3, AnswerKeeps
  <1>10. CASE GiveUp
    <2>1. /\ stage = "generate" /\ stage' = "answered" /\ Len(attempts) = request.max_attempts
          /\ answer' = [answer EXCEPT
                          !.sql = IF attempts = <<>> THEN @ ELSE last.sql,
                          !.reason = IF @ = "none" THEN "exceeded_max_attempts" ELSE @]
      BY <1>6, <1>10 DEF GiveUp, last
    <2>2. /\ answer'.sql = IF attempts = <<>> THEN Blank ELSE last.sql
          /\ answer'.verified = FALSE /\ answer'.reason = "exceeded_max_attempts"
      BY <1>1, <2>1 DEF NoAnswer
    <2>3. AnswerInv'
      BY <1>1, <1>5, <2>1, <2>2 DEF AnswerInv, last
    <2> QED
      BY <1>1, <2>1, <2>3, AnswerKeeps
  <1>11. CASE GuardReturns
    <2>1. /\ stage = "judged" /\ request.surface = "guard" /\ stage' = "answered" /\ verified
          /\ answer' = [answer EXCEPT !.sql = final_sql, !.verified = TRUE]
      BY <1>11 DEF GuardReturns
    <2>2. answer'.sql = final_sql /\ answer'.verified = TRUE /\ answer'.rows = FALSE
          /\ answer'.reason = "none"
      BY <1>1, <2>1 DEF NoAnswer
    <2>3. AnswerInv'
      BY <1>1, <1>3, <2>1, <2>2 DEF AnswerInv
    <2> QED
      BY <1>1, <2>1, <2>3, AnswerKeeps
  <1>12. CASE GuardRefuses
    <2>1. /\ stage = "judged" /\ request.surface = "guard" /\ stage' = "refused" /\ ~ verified
          /\ answer' = answer
      BY <1>12 DEF GuardRefuses
    <2>2. Len(attempts) = 1
      <3>1. attempts # <<>> /\ attempts \in Seq(AttemptRecord)
        BY <1>3, <1>4, <2>1
      <3> DEFINE n == Len(attempts)
      <3>2. n \in Nat /\ n # 0
        BY <3>1
      <3>3. n <= 1
        BY <1>4, <2>1
      <3> HIDE DEF n
      <3>4. n = 1
        BY <3>2, <3>3
      <3> QED
        BY <3>4 DEF n
    <2>3. AnswerInv'
      BY <1>1, <1>3, <2>1, <2>2 DEF AnswerInv
    <2> QED
      BY <1>1, <1>3, <2>1, <2>3, AnswerKeeps
  <1>13. CASE FixAnswers
    <2>1. /\ stage = "judged" /\ request.surface = "fix" /\ stage' = "answered"
          /\ answer' = [answer EXCEPT !.sql = final_sql, !.verified = verified]
      BY <1>13 DEF FixAnswers
    <2> DEFINE v == verified
    <2>2. /\ answer' = [answer EXCEPT !.sql = final_sql, !.verified = v]
          /\ answer = [sql |-> Blank, verified |-> FALSE, rows |-> FALSE, reason |-> "none"]
      BY <1>1, <2>1 DEF NoAnswer
    <2> HIDE DEF v
    <2>4. answer'.sql = final_sql /\ answer'.verified = v /\ answer'.rows = FALSE
          /\ answer'.reason = "none"
      BY <2>2
    <2>5. answer'.verified = verified
      BY <2>4 DEF v
    <2>3. AnswerInv'
      BY <1>1, <1>3, <2>1, <2>4, <2>5 DEF AnswerInv
    <2> QED
      BY <1>1, <2>1, <2>3, AnswerKeeps
  <1> QED
    BY <1>8, <1>9, <1>10, <1>11, <1>12, <1>13

LEMMA AgentKeeps == AgentInv /\ [AgentNext]_<<vars, agent_vars>> => AgentInv'
  <1> SUFFICES ASSUME AgentInv, [AgentNext]_<<vars, agent_vars>> PROVE AgentInv'
    OBVIOUS
  <1>1. LoopInv
    BY DEF AgentInv
  <1>2. CASE SchemaHint \/ GeneratorRaises \/ RepairEscapes
    <2>1. /\ UNCHANGED vars /\ UNCHANGED <<request, attempts, diagnosis, told, answer>>
          /\ \/ stage = "schema" /\ stage' = "generate"
             \/ stage \in {"schema", "generate", "repair"} /\ stage' = "raised"
      BY <1>2 DEF SchemaHint, GeneratorRaises, RepairEscapes
    <2> QED
      BY <1>1, <2>1, LoopUnchanged, QuietKeeps
  <1>3. CASE RepairStep
    <2>1. stage = "repair" /\ Next /\ stage' = stage
          /\ UNCHANGED <<request, attempts, diagnosis, told, answer>>
      BY <1>3 DEF RepairStep, agent_vars
    <2>2. LoopInv'
      BY <1>1, <2>1, LoopStep
    <2> QED
      BY <2>1, <2>2, QuietKeeps
  <1>4. CASE UNCHANGED <<vars, agent_vars>>
    <2>1. LoopInv'
      BY <1>1, <1>4, LoopUnchanged
    <2>2. UNCHANGED <<vars, request, stage, attempts, diagnosis, told, answer>>
      BY <1>4 DEF agent_vars
    <2>3. final_sql' = final_sql /\ verified' = verified
      BY <2>2 DEF vars
    <2>4. AgentTypeInv' /\ ToldInv' /\ JudgedInv' /\ AnswerInv'
      BY <2>2, <2>3 DEF AgentInv, AgentTypeInv, ToldInv, JudgedInv, AnswerInv
    <2>5. AttemptsInv'
      BY <2>2 DEF AgentInv, AttemptsInv
    <2> QED
      BY <2>1, <2>4, <2>5 DEF AgentInv
  <1> QED
    BY <1>2, <1>3, <1>4, GenerateKeeps, JudgeKeeps, AnswersKeep DEF AgentNext

LEMMA AgentInvariant == AgentSpec => []AgentInv
  BY AgentStarts, AgentKeeps, PTL DEF AgentSpec

-----------------------------------------------------------------------------
LEMMA InvDelivers == AgentInv => DeliveredIsVerified
  <1> SUFFICES ASSUME AgentInv, stage = "answered", answer.verified
               PROVE  /\ attempts # <<>>
                      /\ \A i \in DOMAIN attempts : Accepted(i) <=> i = Len(attempts)
                      /\ answer.sql = Last(attempts).sql
                      /\ \A finding \in Failing(answer.sql) : finding[2] \in {"info", "warn"}
                      /\ answer.rows <=> request.surface = "agent"
                      /\ answer.reason = "none"
    BY DEF DeliveredIsVerified
  <1>1. /\ attempts # <<>> /\ attempts[Len(attempts)].verdict = "verified"
        /\ answer.sql = attempts[Len(attempts)].sql
        /\ answer.rows <=> request.surface = "agent"
        /\ answer.reason = "none"
    BY DEF AgentInv, AnswerInv
  <1>2. attempts \in Seq(AttemptRecord)
    BY DEF AgentInv, AgentTypeInv
  <1>3. Len(attempts) \in 1 .. Len(attempts) /\ DOMAIN attempts = 1 .. Len(attempts)
    BY <1>1, <1>2
  <1>4. \A i \in DOMAIN attempts : Accepted(i) <=> i = Len(attempts)
    BY <1>1, <1>3 DEF AgentInv, AttemptsInv, Accepted
  <1>5. Sound(attempts[Len(attempts)])
    BY <1>3 DEF AgentInv, AttemptsInv
  <1>6. \A finding \in Failing(answer.sql) : finding[2] \in {"info", "warn"}
    BY <1>1, <1>5 DEF Sound
  <1> QED
    BY <1>1, <1>4, <1>6 DEF Last

LEMMA InvReasons == AgentInv => EscalationHasReason
  <1> SUFFICES ASSUME AgentInv PROVE EscalationHasReason
    OBVIOUS
  <1>1. attempts \in Seq(AttemptRecord)
    BY DEF AgentInv, AgentTypeInv
  <1>2. DOMAIN attempts = 1 .. Len(attempts)
    BY <1>1
  <1>3. \A i \in DOMAIN attempts : Accepted(i) \/ attempts[i].diagnosis # <<>>
    BY <1>2 DEF AgentInv, AttemptsInv, Sound, Accepted
  <1>4. stage = "answered" /\ ~ answer.verified /\ request.surface = "agent" =>
          /\ answer.reason = IF attempts # <<>> /\ Accepted(Len(attempts))
                             THEN "execution_failed" ELSE "exceeded_max_attempts"
          /\ answer.reason = "exceeded_max_attempts" => Len(attempts) = request.max_attempts
          /\ answer.sql = IF attempts = <<>> THEN Blank ELSE attempts[Len(attempts)].sql
    BY DEF AgentInv, AnswerInv, Accepted
  <1>5. stage = "refused" => Len(attempts) = 1 /\ ~ Accepted(1)
    BY DEF AgentInv, AnswerInv, Accepted
  <1> QED
    BY <1>3, <1>4, <1>5 DEF EscalationHasReason

LEMMA InvTells == AgentInv => FeedbackIsCurrent
  <1> SUFFICES ASSUME AgentInv, NEW i \in DOMAIN told
               PROVE  IF i = 1 THEN told[i] = <<>>
                      ELSE /\ ~ Accepted(i - 1)
                           /\ told[i] # <<>>
                           /\ \A finding \in Failing(attempts[i - 1].sql) :
                                Flag(finding[1], finding[2]) \in ToSet(told[i])
    BY DEF FeedbackIsCurrent
  <1>1. /\ attempts \in Seq(AttemptRecord) /\ told \in Seq(Seq(Finding))
        /\ stage \in {"schema", "generate", "repair", "judged", "answered", "refused", "raised"}
    BY DEF AgentInv, AgentTypeInv
  <1>2. i \in 1 .. Len(told) /\ Len(told) \in Nat /\ Len(attempts) \in Nat
    BY <1>1
  <1>3. told[i] = IF i = 1 THEN <<>> ELSE attempts[i - 1].diagnosis
    BY <1>2 DEF AgentInv, ToldInv
  <1>4. CASE i # 1
    <2>1. i - 1 \in 1 .. Len(attempts)
      BY <1>2, <1>4 DEF AgentInv, ToldInv
    <2>2. attempts[i - 1].verdict # "verified"
      <3>1. attempts[i - 1].verdict = "verified" =>
              i - 1 = Len(attempts) /\ stage \in {"judged", "answered"}
        BY <2>1 DEF AgentInv, AttemptsInv
      <3>2. stage \in {"judged", "answered"} => Len(told) = Len(attempts)
        BY DEF AgentInv, ToldInv
      <3> QED
        BY <1>2, <3>1, <3>2
    <2>3. Sound(attempts[i - 1])
      BY <2>1 DEF AgentInv, AttemptsInv
    <2> QED
      BY <1>3, <1>4, <2>2, <2>3 DEF Sound, Accepted
  <1> QED
    BY <1>3, <1>4

(***************************************************************************)
(* Whatever is generated and however the database answers: what a surface  *)
(* hands out as verified is the SQL of the last and only accepted attempt, *)
(* no check that needs no database objects to it with an error, and an     *)
(* agent delivers it with rows.                                            *)
(***************************************************************************)
THEOREM DeliveredVerified == AgentSpec => []DeliveredIsVerified
  BY AgentInvariant, InvDelivers, PTL

(***************************************************************************)
(* Whoever is not served learns the reason that occurred, and a statement  *)
(* that was not accepted has a diagnosis.                                  *)
(***************************************************************************)
THEOREM EscalationReasoned == AgentSpec => []EscalationHasReason
  BY AgentInvariant, InvReasons, PTL

(***************************************************************************)
(* A generator that is asked again is told the findings on the last        *)
(* attempt, all of them.                                                   *)
(***************************************************************************)
THEOREM FeedbackCurrent == AgentSpec => []FeedbackIsCurrent
  BY AgentInvariant, InvTells, PTL

-----------------------------------------------------------------------------
(***************************************************************************)
(* What the type of a request needs beyond its inductive invariant: the    *)
(* records of the repair it is in, and the shape of the answer.            *)
(***************************************************************************)
AnswerRecord ==
  [sql : Statement, verified : BOOLEAN, rows : BOOLEAN,
   reason : {"none", "execution_failed", "exceeded_max_attempts"}]

ShapeInv == TrailInv /\ Len(told) <= request.max_attempts /\ answer \in AnswerRecord

LEMMA BlankIsStatement == Blank \in Statement
  <1>1. <<>> \in Seq(Atom)
    BY EmptySequence
  <1> QED
    BY <1>1 DEF Blank, Statement

LEMMA NoAnswerIsTyped == NoAnswer \in AnswerRecord
  BY BlankIsStatement DEF NoAnswer, AnswerRecord

LEMMA CallBeginsTrail ==
  ASSUME NEW c \in Calls, CallBegins(c)
  PROVE  TrailInv'
  <1>1. /\ repairs' = <<>> /\ round_no' = 0 /\ phase' = "verify" /\ current' = c.sql /\ call' = c
        /\ final_report' = EmptyReport /\ Len(judged') = 0
    BY EmptySequence DEF CallBegins
  <1>2. verified' \in BOOLEAN /\ escalate' \in BOOLEAN
    BY Zenon DEF CallBegins
  <1>3. final_report'.confidence \in Doubles
    BY <1>1, EmptyReportIsTyped DEF ReportType, Confidences
  <1>4. repairs' \in Seq(RuleName)
    BY <1>1, EmptySequence
  <1> QED
    BY <1>1, <1>2, <1>3, <1>4 DEF TrailInv

LEMMA TrailUnchanged == LoopInv /\ TrailInv /\ UNCHANGED vars => TrailInv'
  BY TrailStep

LEMMA ShapeStarts == AgentInit => ShapeInv
  <1> SUFFICES ASSUME AgentInit PROVE ShapeInv
    OBVIOUS
  <1>1. TrailInv
    BY TrailInit DEF AgentInit
  <1>2. request \in Requests /\ Len(told) = 0 /\ answer = NoAnswer
    BY EmptySequence DEF AgentInit
  <1> QED
    BY <1>1, <1>2, RequestType, NoAnswerIsTyped DEF ShapeInv

LEMMA ShapeKeeps == AgentInv /\ ShapeInv /\ [AgentNext]_<<vars, agent_vars>> => ShapeInv'
  <1> SUFFICES ASSUME AgentInv, ShapeInv, [AgentNext]_<<vars, agent_vars>> PROVE ShapeInv'
    OBVIOUS
  <1>0. /\ LoopInv /\ TrailInv /\ Len(told) <= request.max_attempts
        /\ answer \in AnswerRecord /\ final_sql \in Statement
        /\ attempts \in Seq(AttemptRecord) /\ told \in Seq(Seq(Finding))
    BY DEF AgentInv, LoopInv, LoopTypeInv, AgentTypeInv, ShapeInv
  <1>1. CASE Generate
    <2>1. TrailInv'
      BY <1>1, CallBeginsTrail DEF Generate
    <2>2. /\ Len(attempts) < request.max_attempts /\ request' = request /\ answer' = answer
          /\ told' = Append(told, diagnosis) /\ Len(told) = Len(attempts)
      BY <1>1 DEF Generate, AgentInv, ToldInv
    <2>3. Len(told') = Len(told) + 1 /\ Len(told) \in Nat /\ request.max_attempts \in Nat
      BY <1>0, <2>2, RequestType DEF AgentInv, AgentTypeInv
    <2> QED
      BY <1>0, <2>1, <2>2, <2>3 DEF ShapeInv
  <1>2. CASE RepairStep
    <2>1. Next /\ UNCHANGED agent_vars
      BY <1>2 DEF RepairStep
    <2>2. TrailInv'
      BY <1>0, <2>1, TrailStep
    <2> QED
      BY <1>0, <2>1, <2>2 DEF ShapeInv, agent_vars
  <1>3. CASE \/ SchemaHint \/ GeneratorRaises \/ RepairEscapes \/ Judge \/ GuardRefuses
             \/ UNCHANGED <<vars, agent_vars>>
    <2>1. UNCHANGED <<vars, request, told, answer>>
      BY <1>3 DEF SchemaHint, GeneratorRaises, RepairEscapes, Judge, GuardRefuses, agent_vars
    <2>2. TrailInv'
      BY <1>0, <2>1, TrailUnchanged
    <2> QED
      BY <1>0, <2>1, <2>2 DEF ShapeInv
  <1>4. CASE Execute \/ ExecutionEscalates \/ GiveUp \/ GuardReturns \/ FixAnswers
    <2>1. UNCHANGED <<vars, request, attempts, told>>
      BY <1>4 DEF Execute, ExecutionEscalates, GiveUp, GuardReturns, FixAnswers
    <2>2. TrailInv'
      BY <1>0, <2>1, TrailUnchanged
    <2>3. attempts # <<>> => Last(attempts).sql \in Statement
      <3>1. attempts # <<>> => Last(attempts) \in AttemptRecord
        BY <1>0 DEF Last
      <3> QED
        BY <3>1 DEF AttemptRecord
    <2>4. answer' \in AnswerRecord
      <3>1. CASE Execute
        BY <1>0, <3>1 DEF Execute, AnswerRecord
      <3>2. CASE ExecutionEscalates
        <4>1. attempts # <<>>
          BY <3>2 DEF ExecutionEscalates, AgentInv, JudgedInv
        <4> QED
          BY <1>0, <2>3, <3>2, <4>1 DEF ExecutionEscalates, AnswerRecord
      <3>3. CASE GiveUp
        BY <1>0, <2>3, <3>3 DEF GiveUp, AnswerRecord
      <3>4. CASE GuardReturns
        BY <1>0, <3>4 DEF GuardReturns, AnswerRecord
      <3>5. CASE FixAnswers
        <4> DEFINE v == verified
        <4>1. v \in BOOLEAN
          BY <1>0 DEF TrailInv
        <4>2. answer' = [answer EXCEPT !.sql = final_sql, !.verified = v]
          BY <3>5 DEF FixAnswers
        <4> HIDE DEF v
        <4> QED
          BY <1>0, <4>1, <4>2 DEF AnswerRecord
      <3> QED
        BY <1>4, <3>1, <3>2, <3>3, <3>4, <3>5
    <2> QED
      BY <1>0, <2>1, <2>2, <2>4 DEF ShapeInv
  <1> QED
    BY <1>1, <1>2, <1>3, <1>4 DEF AgentNext

LEMMA ShapeIsTyped == AgentInv /\ ShapeInv => AgentTypeOK
  <1> SUFFICES ASSUME AgentInv, ShapeInv PROVE AgentTypeOK
    OBVIOUS
  <1>1. TypeOK
    BY TrailIsTyped DEF AgentInv, ShapeInv
  <1>2. attempts \in Seq(AttemptRecord)
    BY DEF AgentInv, AgentTypeInv
  <1>3. diagnosis \in Seq(Finding)
    <2>1. diagnosis = IF attempts = <<>> THEN <<>> ELSE attempts[Len(attempts)].diagnosis
      BY DEF AgentInv, ToldInv
    <2>2. attempts # <<>> => attempts[Len(attempts)] \in AttemptRecord
      BY <1>2
    <2> QED
      BY <2>1, <2>2, EmptySequence DEF AttemptRecord
  <1> QED
    BY <1>1, <1>3 DEF AgentInv, AgentTypeInv, ShapeInv, AttemptRecord, AnswerRecord, AgentTypeOK

(***************************************************************************)
(* The state of a request always has its type; it makes no more attempts   *)
(* than it may, and asks the generator no more often.                      *)
(***************************************************************************)
THEOREM AgentTypeCorrect == AgentSpec => []AgentTypeOK
  <1>1. AgentSpec => [](AgentInv /\ ShapeInv)
    BY AgentStarts, AgentKeeps, ShapeStarts, ShapeKeeps, PTL DEF AgentSpec
  <1> QED
    BY <1>1, ShapeIsTyped, PTL

-----------------------------------------------------------------------------
(***************************************************************************)
(* The state functions of the refinement mapping.                          *)
(***************************************************************************)
LastAccepted == attempts # <<>> /\ Last(attempts).verdict = "verified"

Outcome ==
  CASE stage = "answered" /\ answer.verified -> "delivered"
    [] stage = "refused" \/ (stage = "answered" /\ ~ answer.verified) -> "refused"
    [] stage = "raised" -> "raised"
    [] OTHER -> "pending"

LEMMA OutcomeValue ==
  /\ stage \in {"schema", "generate", "repair", "judged"} => Outcome = "pending"
  /\ stage = "answered" /\ answer.verified => Outcome = "delivered"
  /\ stage = "answered" /\ ~ answer.verified => Outcome = "refused"
  /\ stage = "refused" => Outcome = "refused"
  /\ stage = "raised" => Outcome = "raised"
  BY DEF Outcome

LEMMA PromiseInit == AgentInit => Promise!Init
  <1> SUFFICES ASSUME AgentInit PROVE Promise!Init
    OBVIOUS
  <1>1. /\ request \in Requests /\ stage \in {"schema", "generate"} /\ attempts = <<>>
    BY DEF AgentInit
  <1>2. request.max_attempts \in Nat /\ Len(attempts) = 0
    BY <1>1, RequestType
  <1>3. Outcome = "pending" /\ LastAccepted = FALSE
    BY <1>1, OutcomeValue DEF LastAccepted
  <1> QED
    BY <1>2, <1>3 DEF Promise!Init, Outcome, LastAccepted

LEMMA PromiseStep ==
  AgentInv /\ AgentInv' /\ [AgentNext]_<<vars, agent_vars>> => [Promise!Next]_(Promise!vars)
  <1> SUFFICES ASSUME AgentInv, AgentInv', [AgentNext]_<<vars, agent_vars>>
               PROVE  \/ Promise!Next
                      \/ UNCHANGED <<request.max_attempts, Len(attempts), LastAccepted, Outcome>>
    BY DEF Promise!vars, LastAccepted, Outcome
  <1> DEFINE limit == request.max_attempts
             tries == Len(attempts)
             accepted == LastAccepted
             outcome == Outcome
  <1>1. /\ Promise!Try <=>
             /\ outcome = "pending" /\ ~ accepted /\ tries < limit
             /\ tries' = tries + 1 /\ accepted' \in BOOLEAN
             /\ limit' = limit /\ outcome' = outcome
        /\ Promise!Deliver <=>
             /\ outcome = "pending" /\ accepted /\ outcome' = "delivered"
             /\ limit' = limit /\ tries' = tries /\ accepted' = accepted
        /\ Promise!Refuse <=>
             /\ outcome = "pending" /\ (accepted \/ tries = limit) /\ outcome' = "refused"
             /\ limit' = limit /\ tries' = tries /\ accepted' = accepted
        /\ Promise!Raise <=>
             /\ outcome = "pending" /\ outcome' = "raised"
             /\ limit' = limit /\ tries' = tries /\ accepted' = accepted
    BY DEF Promise!Try, Promise!Deliver, Promise!Refuse, Promise!Raise, LastAccepted, Outcome
  <1>2. /\ stage \in {"schema", "generate", "repair", "judged"} => outcome = "pending"
        /\ stage' \in {"schema", "generate", "repair", "judged"} => outcome' = "pending"
        /\ stage' = "answered" /\ answer'.verified => outcome' = "delivered"
        /\ stage' = "answered" /\ ~ answer'.verified => outcome' = "refused"
        /\ stage' = "refused" => outcome' = "refused"
        /\ stage' = "raised" => outcome' = "raised"
    BY OutcomeValue DEF Outcome
  <1>3. attempts' = attempts => tries' = tries /\ accepted' = accepted
    BY DEF LastAccepted
  <1>4. accepted <=> attempts # <<>> /\ attempts[Len(attempts)].verdict = "verified"
    BY DEF LastAccepted, Last
  <1>5. answer = NoAnswer \/ stage = "answered"
    BY DEF AgentInv, AnswerInv
  <1>6. stage = "judged" =>
          /\ accepted <=> verified
          /\ request.surface = "agent" => verified
          /\ request.surface # "agent" => tries = limit
    <2>1. stage = "judged" =>
            /\ attempts # <<>>
            /\ attempts[Len(attempts)].verdict = "verified" <=> verified
            /\ request.surface = "agent" => verified
      BY DEF AgentInv, JudgedInv
    <2>2. /\ attempts \in Seq(AttemptRecord) /\ tries <= limit
          /\ request.surface # "agent" => limit = 1
      BY RequestType DEF AgentInv, AgentTypeInv
    <2>3. attempts # <<>> => tries \in Nat /\ tries # 0
      BY <2>2
    <2> HIDE DEF tries, limit
    <2>4. attempts # <<>> /\ request.surface # "agent" => tries = limit
      BY <2>2, <2>3
    <2> QED
      BY <1>4, <2>1, <2>4
  <1>7. accepted' \in BOOLEAN
    BY DEF LastAccepted
  <1>8. NoAnswer.verified = FALSE
    BY DEF NoAnswer
  <1>9. CASE SchemaHint \/ GeneratorRaises \/ RepairEscapes \/ RepairStep \/ Generate
    <2>1. /\ attempts' = attempts /\ request' = request
          /\ stage \in {"schema", "generate", "repair", "judged"}
          /\ stage' \in {"schema", "generate", "repair", "judged"} \/ stage' = "raised"
      BY <1>9 DEF SchemaHint, GeneratorRaises, RepairEscapes, RepairStep, Generate, agent_vars
    <2>2. limit' = limit
      BY <2>1
    <2> HIDE DEF limit, tries, accepted, outcome
    <2>3. \/ Promise!Raise
          \/ limit' = limit /\ tries' = tries /\ accepted' = accepted /\ outcome' = outcome
      BY <1>1, <1>2, <1>3, <2>1, <2>2
    <2> QED
      BY <2>3 DEF Promise!Next, limit, tries, accepted, outcome
  <1>10. CASE Judge
    <2>1. /\ stage = "repair" /\ attempts' = Append(attempts, Attempt) /\ request' = request
          /\ stage' \in {"schema", "generate", "repair", "judged"}
      BY <1>10 DEF Judge
    <2>2. limit' = limit
      BY <2>1
    <2>3. attempts \in Seq(AttemptRecord) /\ tries < limit
      BY <2>1 DEF AgentInv, AgentTypeInv, ToldInv
    <2>4. ~ accepted
      <3>1. attempts # <<>> => Len(attempts) \in 1 .. Len(attempts)
        BY <2>3
      <3> QED
        BY <1>4, <2>1, <3>1 DEF AgentInv, AttemptsInv
    <2>5. tries' = tries + 1
      <3> DEFINE a == Attempt
      <3>1. a \in AttemptRecord /\ attempts' = Append(attempts, a)
        BY <2>1, AttemptIsSound, <1>10 DEF Judge, AgentInv
      <3> HIDE DEF a
      <3> QED
        BY <2>3, <3>1
    <2> HIDE DEF limit, tries, accepted, outcome
    <2>6. Promise!Try
      BY <1>1, <1>2, <1>7, <2>1, <2>2, <2>3, <2>4, <2>5
    <2> QED
      BY <2>6 DEF Promise!Next
  <1>11. CASE Execute \/ GuardReturns \/ (FixAnswers /\ verified)
    <2>1. /\ stage = "judged" /\ attempts' = attempts /\ request' = request /\ stage' = "answered"
          /\ verified \/ request.surface = "agent"
      BY <1>11 DEF Execute, GuardReturns, FixAnswers
    <2>2. answer'.verified
      <3>1. CASE Execute
        BY <3>1 DEF Execute
      <3>2. CASE GuardReturns
        BY <1>5, <2>1, <3>2 DEF GuardReturns, NoAnswer
      <3>3. CASE FixAnswers /\ verified
        BY <1>5, <2>1, <3>3 DEF FixAnswers, NoAnswer
      <3> QED
        BY <1>11, <3>1, <3>2, <3>3
    <2>3. limit' = limit
      BY <2>1
    <2>4. accepted
      BY <1>6, <2>1
    <2> HIDE DEF limit, tries, accepted, outcome
    <2>5. Promise!Deliver
      BY <1>1, <1>2, <1>3, <2>1, <2>2, <2>3, <2>4
    <2> QED
      BY <2>5 DEF Promise!Next
  <1>12. CASE ExecutionEscalates \/ GiveUp \/ GuardRefuses \/ (FixAnswers /\ ~ verified)
    <2>1. /\ stage \in {"judged", "generate"} /\ attempts' = attempts /\ request' = request
          /\ \/ stage' = "refused"
             \/ stage' = "answered" /\ ~ answer'.verified
      <3>1. CASE ExecutionEscalates
        BY <1>5, <3>1 DEF ExecutionEscalates, NoAnswer
      <3>2. CASE GiveUp
        BY <1>5, <3>2 DEF GiveUp, NoAnswer
      <3>3. CASE GuardRefuses
        BY <3>3 DEF GuardRefuses
      <3>4. CASE FixAnswers /\ ~ verified
        BY <1>5, <3>4 DEF FixAnswers, NoAnswer
      <3> QED
        BY <1>12, <3>1, <3>2, <3>3, <3>4
    <2>2. accepted \/ tries = limit
      <3>1. CASE ExecutionEscalates
        BY <1>6, <3>1 DEF ExecutionEscalates
      <3>2. CASE GiveUp
        BY <3>2 DEF GiveUp
      <3>3. CASE GuardRefuses \/ FixAnswers
        BY <1>6, <3>3 DEF GuardRefuses, FixAnswers
      <3> QED
        BY <1>12, <3>1, <3>2, <3>3
    <2>3. limit' = limit
      BY <2>1
    <2> HIDE DEF limit, tries, accepted, outcome
    <2>4. outcome' = "refused" /\ outcome = "pending"
      BY <1>2, <2>1
    <2>5. Promise!Refuse
      BY <1>1, <1>3, <2>1, <2>2, <2>3, <2>4
    <2> QED
      BY <2>5 DEF Promise!Next
  <1>13. CASE UNCHANGED <<vars, agent_vars>>
    BY <1>3, <1>13 DEF agent_vars, Outcome
  <1> QED
    BY <1>9, <1>10, <1>11, <1>12, <1>13 DEF AgentNext

(***************************************************************************)
(* The surfaces that repair keep the promise of Supervised: bounded        *)
(* attempts, none after an accepted one, only an accepted one delivered.   *)
(* (That there is an answer in the end is liveness, and checked by TLC.)   *)
(***************************************************************************)
THEOREM AgentImplements == AgentSpec => Promise!Init /\ [][Promise!Next]_(Promise!vars)
  <1>1. AgentInit => Promise!Init
    BY PromiseInit
  <1>2. AgentInv /\ AgentInv' /\ [AgentNext]_<<vars, agent_vars>> => [Promise!Next]_(Promise!vars)
    BY PromiseStep
  <1> QED
    BY <1>1, <1>2, AgentInvariant, PTL DEF AgentSpec

-----------------------------------------------------------------------------
(***************************************************************************)
(* What the verdict on a text says about its findings.                     *)
(***************************************************************************)
LEMMA VerdictOnText ==
  ASSUME job \in Job, LiveFlags \subseteq Seq(Finding),
         NEW text \in Text, NEW report \in Reports(text)
  PROVE  /\ "critical" \in Severities(text) => HasBlocking(report)
         /\ "error" \in Severities(text) => report.suggested_review
         /\ ~ job.connector /\ text.findings = <<>> => ~ HasBlocking(report) /\ ~ report.suggested_review
         /\ ~ job.connector /\ HasBlocking(report) => "critical" \in Severities(text)
  <1>1. PICK reply \in IF job.connector THEN LiveFlags ELSE {<<>>} :
           report = Add(EmptyReport, text.findings \o reply)
    BY DEF Reports
  <1> DEFINE fs == text.findings \o reply
  <1>2. text.findings \in Seq(Finding)
    BY DEF Text
  <1>3. reply \in Seq(Finding)
    <2>1. CASE job.connector
      BY <2>1, <1>1
    <2>2. CASE ~ job.connector
      BY <2>2, <1>1
    <2> QED
      BY <2>1, <2>2
  <1>4. fs \in Seq(Finding) /\ Len(fs) = Len(text.findings) + Len(reply)
    BY <1>2, <1>3
  <1>5. \A i \in 1 .. Len(text.findings) : i \in 1 .. Len(fs) /\ fs[i] = text.findings[i]
    BY <1>2, <1>3
  <1>6. ~ job.connector => fs = text.findings
    BY <1>1, <1>2
  <1>7. DOMAIN text.findings = 1 .. Len(text.findings)
    BY <1>2
  <1>8. report.flags = fs
    BY <1>1, <1>4, FreshReport
  <1> HIDE DEF fs
  <1>a. "critical" \in Severities(text) => HasBlocking(report)
    BY <1>5, <1>7, <1>8 DEF Severities, HasBlocking
  <1>b. "error" \in Severities(text) => report.suggested_review
    BY <1>1, <1>4, <1>5, <1>7, FreshReport DEF Severities, fs
  <1>c. ~ job.connector /\ text.findings = <<>> => ~ HasBlocking(report) /\ ~ report.suggested_review
    BY <1>1, <1>4, <1>6, <1>8, FreshReport DEF HasBlocking, fs
  <1>d. ~ job.connector /\ HasBlocking(report) => "critical" \in Severities(text)
    BY <1>6, <1>7, <1>8 DEF HasBlocking, Severities
  <1> QED
    BY <1>a, <1>b, <1>c, <1>d

(***************************************************************************)
(* What extract_models makes of a node is a model, whose text is the known *)
(* one of the node unless it is uncompiled.                                *)
(***************************************************************************)
LEMMA ExtractedModel ==
  ASSUME NEW node \in Node
  PROVE  /\ Extracted(node) \in Model
         /\ Known(node) = IF Extracted(node).status = "ok" THEN {Extracted(node).sql} ELSE {}
  <1>1. NoText \in Text
    BY DEF NoText, Text
  <1>2. /\ node.compiled # <<>> => node.compiled[1] \in Text
        /\ node.raw # <<>> => node.raw[1] \in Text
    BY DEF Node
  <1>3. /\ Head(node.compiled) = node.compiled[1]
        /\ Head(node.raw) = node.raw[1]
    BY DEF Node
  <1>4. node.name \in STRING
    BY DEF Node
  <1> QED
    BY <1>1, <1>2, <1>3, <1>4 DEF Extracted, ModelSql, Model, Known

(***************************************************************************)
(* The inductive invariant: every node asked for that was looked at has    *)
(* become a model, every model comes from such a node, the results so far  *)
(* are verdicts on the first models, and the exit code is drawn from all   *)
(* of them.                                                                *)
(***************************************************************************)
GateTypeInv ==
  /\ job \in Jobs
  /\ step \in {"start", "extract", "verify", "exited"}
  /\ place \in 0 .. Len(job.nodes)
  /\ models \in Seq(Model)
  /\ results \in Seq(ModelResult)
  /\ exit \in 0 .. 2

FoundInv ==
  \A i \in 1 .. place : Asked(job.nodes[i]) =>
    \E k \in 1 .. Len(models) : models[k] = Extracted(job.nodes[i])

OriginInv ==
  \A k \in 1 .. Len(models) : \E i \in 1 .. Len(job.nodes) :
    Asked(job.nodes[i]) /\ models[k] = Extracted(job.nodes[i])

Judgement(model, verdict) ==
  IF model.status = "uncompiled" THEN verdict = "skipped"
  ELSE \E report \in Reports(model.sql) : verdict = Verdict(report)

VerdictsInv ==
  /\ Len(results) <= Len(models)
  /\ \A k \in 1 .. Len(results) : Judgement(models[k], results[k].verdict)

ProgressInv ==
  /\ step \in {"start", "extract"} => results = <<>>
  /\ step \in {"extract", "verify"} => job.command = "dbt" /\ job.readable /\ job.opens
  /\ step = "verify" => place = Len(job.nodes)

ExitsInv ==
  step = "exited" =>
    \/ /\ job.command = "dbt" /\ ~ (job.readable /\ job.opens) /\ results = <<>>
       /\ exit = IF job.readable THEN 1 ELSE 2
    \/ /\ job.command = "dbt" /\ job.readable /\ job.opens
       /\ place = Len(job.nodes) /\ Len(results) = Len(models)
       /\ exit = IF job.warn_only THEN 0
                 ELSE IF Some("blocked") THEN 2 ELSE IF Some("review") THEN 1 ELSE 0
    \/ job.command = "check" /\ ~ job.opens /\ exit = 1 /\ results = <<>>
    \/ /\ job.command = "check" /\ job.opens
       /\ \E report \in Reports(job.nodes[1].compiled[1]) :
            exit = IF HasBlocking(report) THEN 2 ELSE IF report.suggested_review THEN 1 ELSE 0

GateInv == GateTypeInv /\ FoundInv /\ OriginInv /\ VerdictsInv /\ ProgressInv /\ ExitsInv

LEMMA GateStarts == GateInit => GateInv
  <1> SUFFICES ASSUME GateInit PROVE GateInv
    OBVIOUS
  <1>1. job \in Job
    BY JobsAssumption DEF GateInit
  <1>2. Len(job.nodes) \in Nat
    BY <1>1 DEF Job
  <1> QED
    BY <1>2 DEF GateInit, GateInv, GateTypeInv, FoundInv, OriginInv, VerdictsInv, ProgressInv, ExitsInv

LEMMA GateKeeps == GateInv /\ [GateNext]_gate_vars => GateInv'
  <1> SUFFICES ASSUME GateInv, [GateNext]_gate_vars PROVE GateInv'
    OBVIOUS
  <1>0. job \in Job /\ job.nodes \in Seq(Node) /\ Len(job.nodes) \in Nat
    BY JobsAssumption DEF GateInv, GateTypeInv, Job
  <1>1. CASE LoadManifest
    <2>1. /\ step = "start" /\ job.command = "dbt" /\ UNCHANGED <<job, place, models, results>>
          /\ results = <<>>
          /\ \/ step' = "extract" /\ exit' = exit /\ job.readable /\ job.opens
             \/ /\ step' = "exited" /\ ~ (job.readable /\ job.opens)
                /\ exit' = IF job.readable THEN 1 ELSE 2
      BY <1>1 DEF LoadManifest, GateInv, ProgressInv
    <2>2. GateTypeInv'
      BY <2>1 DEF GateInv, GateTypeInv
    <2>3. FoundInv' /\ OriginInv' /\ VerdictsInv'
      BY <2>1 DEF GateInv, FoundInv, OriginInv, VerdictsInv, Judgement, Asked, Extracted, Reports
    <2>4. ProgressInv' /\ ExitsInv'
      BY <2>1 DEF ProgressInv, ExitsInv
    <2> QED
      BY <2>2, <2>3, <2>4 DEF GateInv
  <1>2. CASE ExtractNode
    <2> DEFINE node == job.nodes[place + 1]
    <2>1. place + 1 \in 1 .. Len(job.nodes) /\ node \in Node /\ place' = place + 1
      BY <1>0, <1>2 DEF ExtractNode, GateInv, GateTypeInv
    <2>2. Extracted(node) \in Model
      BY <2>1, ExtractedModel
    <2>3. UNCHANGED <<job, step, results, exit>> /\ step = "extract" /\ results = <<>>
      BY <1>2 DEF ExtractNode, GateInv, ProgressInv
    <2>4. Selected(node) <=> Asked(node)
      BY DEF Selected, Asked
    <2>5. models' = IF Asked(node) THEN Append(models, Extracted(node)) ELSE models
      BY <1>2, <2>1, <2>4 DEF ExtractNode
    <2>6. models \in Seq(Model) /\ place \in Nat
      BY <1>0 DEF GateInv, GateTypeInv
    <2>7. /\ models' \in Seq(Model) /\ Len(models') >= Len(models)
          /\ \A k \in 1 .. Len(models) : k \in 1 .. Len(models') /\ models'[k] = models[k]
          /\ Asked(node) => Len(models') \in 1 .. Len(models') /\ models'[Len(models')] = Extracted(node)
          /\ \A k \in 1 .. Len(models') :
               k \in 1 .. Len(models) \/ (Asked(node) /\ models'[k] = Extracted(node))
      BY <2>2, <2>5, <2>6
    <2> HIDE DEF node
    <2>8. GateTypeInv'
      BY <2>1, <2>3, <2>7 DEF GateInv, GateTypeInv
    <2>9. FoundInv'
      <3> SUFFICES ASSUME NEW i \in 1 .. place', Asked(job.nodes[i])
                   PROVE  \E k \in 1 .. Len(models') : models'[k] = Extracted(job.nodes[i])
        BY <2>3 DEF FoundInv, Asked, Extracted
      <3>1. CASE i = place + 1
        BY <2>7, <3>1 DEF node
      <3>2. CASE i \in 1 .. place
        BY <2>7, <3>2 DEF GateInv, FoundInv
      <3> QED
        BY <2>1, <2>6, <3>1, <3>2
    <2>10. OriginInv'
      <3> SUFFICES ASSUME NEW k \in 1 .. Len(models')
                   PROVE  \E i \in 1 .. Len(job.nodes) :
                            Asked(job.nodes[i]) /\ models'[k] = Extracted(job.nodes[i])
        BY <2>3 DEF OriginInv, Asked, Extracted
      <3>1. CASE k \in 1 .. Len(models)
        BY <2>7, <3>1 DEF GateInv, OriginInv
      <3>2. CASE Asked(node) /\ models'[k] = Extracted(node)
        BY <2>1, <3>2 DEF node
      <3> QED
        BY <2>7, <3>1, <3>2
    <2>11. VerdictsInv' /\ ProgressInv' /\ ExitsInv'
      BY <2>3, <2>6, <2>7 DEF GateInv, VerdictsInv, ProgressInv, ExitsInv
    <2> QED
      BY <2>8, <2>9, <2>10, <2>11 DEF GateInv
  <1>3. CASE ModelsExtracted
    BY <1>0, <1>3 DEF ModelsExtracted, GateInv, GateTypeInv, FoundInv, OriginInv, VerdictsInv, ProgressInv, ExitsInv,
                      Judgement, Asked, Reports
  <1>4. CASE VerifyModel
    <2> DEFINE model == models[Len(results) + 1]
    <2>1. /\ step = "verify" /\ Len(results) < Len(models) /\ UNCHANGED <<job, step, place, models, exit>>
          /\ models \in Seq(Model) /\ Len(results) \in Nat /\ Len(models) \in Nat
      BY <1>4 DEF VerifyModel, GateInv, GateTypeInv
    <2>2. model \in Model
      BY <2>1
    <2>3. PICK verdict \in {"passed", "review", "blocked", "skipped"} :
             /\ Judgement(model, verdict)
             /\ results' = Append(results, [model |-> model.name, verdict |-> verdict])
      BY <1>4 DEF VerifyModel, Judgement, Verdict
    <2>4. model.name \in STRING
      BY <2>2 DEF Model
    <2>5. results \in Seq([model : STRING, verdict : {"passed", "review", "blocked", "skipped"}])
      BY DEF GateInv, GateTypeInv, ModelResult
    <2> HIDE DEF model
    <2>6. /\ results' \in Seq([model : STRING, verdict : {"passed", "review", "blocked", "skipped"}])
          /\ Len(results') = Len(results) + 1
          /\ \A k \in 1 .. Len(results) : results'[k] = results[k]
          /\ results'[Len(results) + 1].verdict = verdict
      BY <2>3, <2>4, <2>5
    <2>7. GateTypeInv'
      BY <2>1, <2>6 DEF GateInv, GateTypeInv, ModelResult
    <2>8. VerdictsInv'
      <3> SUFFICES ASSUME NEW k \in 1 .. Len(results')
                   PROVE  Judgement(models[k], results'[k].verdict)
        BY <2>1, <2>6 DEF VerdictsInv, Judgement, Reports
      <3>1. CASE k \in 1 .. Len(results)
        BY <2>6, <3>1 DEF GateInv, VerdictsInv
      <3>2. CASE k = Len(results) + 1
        BY <2>3, <2>6, <3>2 DEF model
      <3> QED
        BY <2>1, <2>6, <3>1, <3>2
    <2>9. FoundInv' /\ OriginInv' /\ ProgressInv' /\ ExitsInv'
      BY <2>1 DEF GateInv, FoundInv, OriginInv, ProgressInv, ExitsInv, Asked, Extracted
    <2> QED
      BY <2>7, <2>8, <2>9 DEF GateInv
  <1>5. CASE ExitWithWorst
    <2>1. /\ step = "verify" /\ step' = "exited" /\ Len(results) = Len(models)
          /\ UNCHANGED <<job, place, models, results>>
          /\ exit' = IF job.warn_only THEN 0
                     ELSE IF Some("blocked") THEN 2 ELSE IF Some("review") THEN 1 ELSE 0
      BY <1>5 DEF ExitWithWorst
    <2>2. GateTypeInv'
      BY <2>1 DEF GateInv, GateTypeInv
    <2>3. FoundInv' /\ OriginInv' /\ VerdictsInv' /\ ProgressInv'
      BY <2>1 DEF GateInv, FoundInv, OriginInv, VerdictsInv, ProgressInv, Asked, Judgement, Reports
    <2>4. ExitsInv'
      BY <2>1 DEF GateInv, ProgressInv, ExitsInv, Some
    <2> QED
      BY <2>2, <2>3, <2>4 DEF GateInv
  <1>6. CASE Check
    <2>1. /\ step = "start" /\ step' = "exited" /\ job.command = "check"
          /\ UNCHANGED <<job, place, models, results>>
      BY <1>6 DEF Check
    <2>2. \/ /\ job.opens
             /\ \E report \in Reports(job.nodes[1].compiled[1]) :
                  exit' = IF HasBlocking(report) THEN 2 ELSE IF report.suggested_review THEN 1 ELSE 0
          \/ ~ job.opens /\ exit' = 1
      BY <1>6 DEF Check
    <2>3. GateTypeInv'
      BY <2>1, <2>2 DEF GateInv, GateTypeInv
    <2>4. FoundInv' /\ OriginInv' /\ VerdictsInv' /\ ProgressInv'
      BY <2>1 DEF GateInv, FoundInv, OriginInv, VerdictsInv, ProgressInv, Asked, Judgement, Reports
    <2>5. ExitsInv'
      BY <2>1, <2>2 DEF GateInv, ProgressInv, ExitsInv, Reports
    <2> QED
      BY <2>3, <2>4, <2>5 DEF GateInv
  <1>7. CASE UNCHANGED gate_vars
    BY <1>7 DEF gate_vars, GateInv, GateTypeInv, FoundInv, OriginInv, VerdictsInv, ProgressInv, ExitsInv,
                Judgement, Asked, Reports, Some
  <1> QED
    BY <1>1, <1>2, <1>3, <1>4, <1>5, <1>6, <1>7 DEF GateNext

LEMMA GateInvariant == GateSpec => []GateInv
  BY GateStarts, GateKeeps, PTL DEF GateSpec

LEMMA InvGateTyped == GateInv => GateTypeOK
  BY DEF GateInv, GateTypeInv, GateTypeOK, Model

(***************************************************************************)
(* Type correctness of the gate.                                           *)
(***************************************************************************)
THEOREM GateTypeCorrect == GateSpec => []GateTypeOK
  BY InvGateTyped, GateInvariant, PTL

(***************************************************************************)
(* Once every model has been judged, each text that is relevant is the     *)
(* text of a model with a verdict of its own.                              *)
(***************************************************************************)
LEMMA RelevantIsJudged ==
  ASSUME GateInv, place = Len(job.nodes), Len(results) = Len(models), NEW text \in Relevant
  PROVE  /\ text \in Text
         /\ \E k \in 1 .. Len(results) : \E report \in Reports(text) :
              results[k].verdict = Verdict(report)
  <1>0. job.nodes \in Seq(Node)
    BY JobsAssumption DEF GateInv, GateTypeInv, Job
  <1>1. PICK i \in 1 .. Len(job.nodes) : Asked(job.nodes[i]) /\ text \in Known(job.nodes[i])
    BY <1>0 DEF Relevant
  <1>2. job.nodes[i] \in Node
    BY <1>0
  <1>3. /\ Extracted(job.nodes[i]) \in Model
        /\ Extracted(job.nodes[i]).status = "ok" /\ text = Extracted(job.nodes[i]).sql
    BY <1>1, <1>2, ExtractedModel
  <1>4. PICK k \in 1 .. Len(models) : models[k] = Extracted(job.nodes[i])
    BY <1>1 DEF GateInv, FoundInv
  <1>5. Judgement(models[k], results[k].verdict)
    BY <1>4 DEF GateInv, VerdictsInv
  <1>6. \E report \in Reports(text) : results[k].verdict = Verdict(report)
    BY <1>3, <1>4, <1>5 DEF Judgement
  <1>7. text \in Text
    BY <1>3 DEF Model
  <1> QED
    BY <1>4, <1>6, <1>7

(***************************************************************************)
(* A verdict that is bad has a text it was passed on.                      *)
(***************************************************************************)
LEMMA VerdictHasText ==
  ASSUME GateInv, NEW k \in 1 .. Len(results), results[k].verdict \in {"review", "blocked"}
  PROVE  \E text \in Relevant : /\ text \in Text
                                /\ \E report \in Reports(text) : results[k].verdict = Verdict(report)
  <1>0. /\ job.nodes \in Seq(Node)
        /\ Len(results) \in Nat /\ Len(models) \in Nat
    BY JobsAssumption DEF GateInv, GateTypeInv, Job
  <1>1. k \in 1 .. Len(models) /\ Judgement(models[k], results[k].verdict)
    BY <1>0 DEF GateInv, VerdictsInv
  <1>2. PICK i \in 1 .. Len(job.nodes) : Asked(job.nodes[i]) /\ models[k] = Extracted(job.nodes[i])
    BY <1>1 DEF GateInv, OriginInv
  <1>3. job.nodes[i] \in Node
    BY <1>0
  <1>4. models[k] \in Model /\ Known(job.nodes[i]) = IF models[k].status = "ok" THEN {models[k].sql} ELSE {}
    BY <1>2, <1>3, ExtractedModel
  <1>5. models[k].status = "ok"
    BY <1>1, <1>4 DEF Judgement, Model
  <1>6. models[k].sql \in Relevant
    BY <1>0, <1>2, <1>4, <1>5 DEF Relevant
  <1>7. models[k].sql \in Text
    BY <1>4 DEF Model
  <1>8. \E report \in Reports(models[k].sql) : results[k].verdict = Verdict(report)
    BY <1>1, <1>5 DEF Judgement
  <1> QED
    BY <1>6, <1>7, <1>8

(***************************************************************************)
(* The statement of `verisql check` is the one relevant text.              *)
(***************************************************************************)
LEMMA CheckedText ==
  ASSUME GateInv, job.command = "check"
  PROVE  /\ Relevant = {job.nodes[1].compiled[1]}
         /\ job.nodes[1].compiled[1] \in Text
         /\ ~ job.warn_only /\ job.readable
  <1>1. job \in Job /\ job \in Jobs
    BY JobsAssumption DEF GateInv, GateTypeInv
  <1>2. /\ Len(job.nodes) = 1 /\ job.nodes[1].model /\ job.nodes[1].compiled # <<>>
        /\ job.select = {} /\ ~ job.warn_only /\ job.readable
    BY <1>1, JobsAssumption
  <1>3. DOMAIN job.nodes = {1} /\ job.nodes[1] \in Node
    BY <1>1, <1>2 DEF Job
  <1>4. job.nodes[1].compiled[1] \in Text
    BY <1>2, <1>3 DEF Node
  <1>5. Asked(job.nodes[1]) /\ Known(job.nodes[1]) = {job.nodes[1].compiled[1]}
    BY <1>2 DEF Asked, Known
  <1> QED
    BY <1>2, <1>3, <1>4, <1>5 DEF Relevant

LEMMA InvHidesNothing == GateInv => NothingBadPasses
  <1> SUFFICES ASSUME GateInv, step = "exited", ~ job.warn_only, NEW text \in Relevant
               PROVE  /\ "critical" \in Severities(text) /\ job.opens => exit = 2
                      /\ "critical" \in Severities(text) \/ "error" \in Severities(text) => exit > 0
    BY DEF NothingBadPasses
  <1>0. job \in Job /\ LiveFlags \subseteq Seq(Finding)
    BY JobsAssumption DEF GateInv, GateTypeInv
  <1>1. CASE ~ (job.readable /\ job.opens) /\ exit = IF job.readable THEN 1 ELSE 2
    BY <1>1
  <1>2. CASE /\ place = Len(job.nodes) /\ Len(results) = Len(models)
             /\ exit = IF job.warn_only THEN 0
                       ELSE IF Some("blocked") THEN 2 ELSE IF Some("review") THEN 1 ELSE 0
    <2>1. PICK k \in 1 .. Len(results), report \in Reports(text) :
             text \in Text /\ results[k].verdict = Verdict(report)
      BY <1>2, RelevantIsJudged
    <2>2. /\ "critical" \in Severities(text) => results[k].verdict = "blocked"
          /\ "error" \in Severities(text) => results[k].verdict \in {"blocked", "review"}
      BY <1>0, <2>1, VerdictOnText DEF Verdict
    <2>3. k \in DOMAIN results
      BY <2>1 DEF GateInv, GateTypeInv
    <2> QED
      BY <1>2, <2>2, <2>3 DEF Some
  <1>3. CASE /\ job.command = "check"
             /\ \E report \in Reports(job.nodes[1].compiled[1]) :
                  exit = IF HasBlocking(report) THEN 2 ELSE IF report.suggested_review THEN 1 ELSE 0
    BY <1>0, <1>3, CheckedText, VerdictOnText
  <1>4. CASE ~ job.opens /\ exit = 1
    BY <1>4
  <1> QED
    BY <1>1, <1>2, <1>3, <1>4 DEF GateInv, ExitsInv

(***************************************************************************)
(* A green build hides nothing that is known.                              *)
(***************************************************************************)
THEOREM GreenHidesNothing == GateSpec => []NothingBadPasses
  BY InvHidesNothing, GateInvariant, PTL

LEMMA InvHasCause == GateInv => FailureHasCause
  <1> SUFFICES ASSUME GateInv, step = "exited" PROVE FailureHasCause
    BY DEF FailureHasCause
  <1>a. CASE ~ (job.readable /\ job.opens)
    <2>1. job.command = "check" => job.readable
      BY CheckedText
    <2> QED
      BY <1>a, <2>1 DEF GateInv, ExitsInv, FailureHasCause
  <1> SUFFICES ASSUME exit > 0, job.readable, job.opens
               PROVE  /\ ~ job.warn_only
                      /\ \/ job.connector
                         \/ /\ \E text \in Relevant : text.findings # <<>>
                            /\ exit = 2 => \E text \in Relevant : "critical" \in Severities(text)
    BY <1>a DEF FailureHasCause
  <1>0. job \in Job /\ LiveFlags \subseteq Seq(Finding)
    BY JobsAssumption DEF GateInv, GateTypeInv
  <1>1. CASE /\ job.command = "dbt"
             /\ exit = IF job.warn_only THEN 0
                       ELSE IF Some("blocked") THEN 2 ELSE IF Some("review") THEN 1 ELSE 0
    <2>1. ~ job.warn_only
      BY <1>1
    <2>2. PICK k \in DOMAIN results : /\ results[k].verdict \in {"review", "blocked"}
                                      /\ exit = 2 => results[k].verdict = "blocked"
      BY <1>1, <2>1 DEF Some
    <2>3. k \in 1 .. Len(results)
      BY <2>2 DEF GateInv, GateTypeInv
    <2>4. PICK text \in Relevant : text \in Text /\ \E report \in Reports(text) : results[k].verdict = Verdict(report)
      BY <2>2, <2>3, VerdictHasText
    <2>5. PICK report \in Reports(text) : results[k].verdict = Verdict(report)
      BY <2>4
    <2>6. HasBlocking(report) \/ report.suggested_review
      BY <2>2, <2>5 DEF Verdict
    <2>7. exit = 2 => HasBlocking(report)
      BY <2>2, <2>5 DEF Verdict
    <2> QED
      BY <1>0, <2>1, <2>4, <2>6, <2>7, VerdictOnText
  <1>2. CASE /\ job.command = "check"
             /\ \E report \in Reports(job.nodes[1].compiled[1]) :
                  exit = IF HasBlocking(report) THEN 2 ELSE IF report.suggested_review THEN 1 ELSE 0
    <2>1. PICK report \in Reports(job.nodes[1].compiled[1]) :
             exit = IF HasBlocking(report) THEN 2 ELSE IF report.suggested_review THEN 1 ELSE 0
      BY <1>2
    <2>2. /\ HasBlocking(report) \/ report.suggested_review
          /\ exit = 2 => HasBlocking(report)
      BY <2>1
    <2> QED
      BY <1>0, <1>2, <2>1, <2>2, CheckedText, VerdictOnText
  <1> QED
    BY <1>1, <1>2 DEF GateInv, ExitsInv

(***************************************************************************)
(* A red build has a cause that can be shown: findings on what was asked   *)
(* for, or, even with --warn-only, something that could not be opened.     *)
(***************************************************************************)
THEOREM RedHasCause == GateSpec => []FailureHasCause
  BY InvHasCause, GateInvariant, PTL

-----------------------------------------------------------------------------
(***************************************************************************)
(* Side by side.  A step of the two processes is a step of the one and     *)
(* leaves what the other one knows alone, so that each keeps its own       *)
(* inductive invariant.                                                    *)
(***************************************************************************)
LEMMA SurfacesStart == SurfacesInit => AgentInit /\ GateInit
  BY DEF SurfacesInit

LEMMA SurfacesProject ==
  [SurfacesNext]_surface_vars => [AgentNext]_<<vars, agent_vars>> /\ [GateNext]_gate_vars
  BY DEF SurfacesNext, RequestProceeds, JobProceeds, surface_vars

LEMMA SurfacesInvariant == SurfacesSpec => [](AgentInv /\ ShapeInv /\ GateInv)
  <1>1. SurfacesInit => AgentInv /\ ShapeInv /\ GateInv
    BY SurfacesStart, AgentStarts, ShapeStarts, GateStarts
  <1>2. AgentInv /\ ShapeInv /\ GateInv /\ [SurfacesNext]_surface_vars
          => (AgentInv /\ ShapeInv /\ GateInv)'
    BY SurfacesProject, AgentKeeps, ShapeKeeps, GateKeeps
  <1> QED
    BY <1>1, <1>2, PTL DEF SurfacesSpec

(***************************************************************************)
(* The promises of the repairing entry points survive the company of a     *)
(* gate: what is handed out as verified was accepted last and delivered    *)
(* with its rows, whoever is not served learns why, and a generator is     *)
(* told the findings on the last attempt.                                  *)
(***************************************************************************)
THEOREM RequestsSideBySide ==
  SurfacesSpec => /\ []AgentTypeOK
                  /\ []DeliveredIsVerified
                  /\ []EscalationHasReason
                  /\ []FeedbackIsCurrent
  BY SurfacesInvariant, ShapeIsTyped, InvDelivers, InvReasons, InvTells, PTL

(***************************************************************************)
(* And a build that is gated beside a request is green or red for reasons  *)
(* of its own: nothing bad passes, and a failure has a cause.              *)
(***************************************************************************)
THEOREM GateSideBySide ==
  SurfacesSpec => []GateTypeOK /\ []NothingBadPasses /\ []FailureHasCause
  BY SurfacesInvariant, InvGateTyped, InvHidesNothing, InvHasCause, PTL

(***************************************************************************)
(* The safety part of ImplementsSupervised, for requests that are served   *)
(* beside a gate: bounded attempts, none after an accepted one, only an    *)
(* accepted one delivered.                                                 *)
(***************************************************************************)
THEOREM SurfacesImplement == SurfacesSpec => Promise!Init /\ [][Promise!Next]_(Promise!vars)
  <1>1. SurfacesInit => Promise!Init
    BY SurfacesStart, PromiseInit
  <1>2. AgentInv /\ AgentInv' /\ [SurfacesNext]_surface_vars => [Promise!Next]_(Promise!vars)
    BY SurfacesProject, PromiseStep
  <1> QED
    BY <1>1, <1>2, SurfacesInvariant, PTL DEF SurfacesSpec

=============================================================================
