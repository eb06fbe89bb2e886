------------------------------- MODULE Report -------------------------------
(***************************************************************************)
(* The verification report (src/src/verisql/report.py) and the decision    *)
(* that is derived from it.  A report only accumulates flags: every flag   *)
(* costs confidence, and the severe ones latch the request for a review.   *)
(***************************************************************************)
EXTENDS Confidence, Sequences

Severity == {"info", "warn", "error", "critical"}

\* Mutant of Penalty: the costs of a remark and of a warning are swapped.
PenaltySwapped == [info |-> Literal10, warn |-> Literal02, error |-> Literal30, critical |-> Literal60]

Penalty == [info |-> Literal02, warn |-> Literal10, error |-> Literal30, critical |-> Literal60]

(***************************************************************************)
(* The names of the checks, the critic among them.                         *)
(***************************************************************************)
CheckName ==
  {"ast_parse", "schema_existence", "cartesian_join", "null_semantics", "timestamp_equality",
   "pii_access", "required_filter", "filter_required", "date_coverage", "explain_plan",
   "zero_row_execution", "business_invariant", "llm_critic"}

(***************************************************************************)
(* A flag keeps the check that raised it and its severity; its message and *)
(* details are wording.                                                    *)
(***************************************************************************)
Finding == [check : CheckName, severity : Severity]

Flag(check, severity) == [check |-> check, severity |-> severity]

EmptyReport == [flags |-> <<>>, confidence |-> One, suggested_review |-> FALSE]

(***************************************************************************)
(* Report.add, called once for every member of the sequence fs in order.   *)
(* after[i] is the confidence once the first i flags are in: a warning     *)
(* asks for a review only if the confidence is below 0.7 at that moment.   *)
(***************************************************************************)
Add(report, fs) ==
  LET after[i \in 0 .. Len(fs)] ==
        IF i = 0 THEN report.confidence
        ELSE Debit[<<after[i - 1], Penalty[fs[i].severity]>>]
      asks(i) == \/ fs[i].severity \in {"error", "critical"}
                 \/ fs[i].severity = "warn" /\ Below(after[i], Literal70)
  IN  [flags            |-> report.flags \o fs,
       confidence       |-> after[Len(fs)],
       suggested_review |-> report.suggested_review \/ \E i \in 1 .. Len(fs) : asks(i)]

HasBlocking(report) == \E i \in 1 .. Len(report.flags) : report.flags[i].severity = "critical"

(***************************************************************************)
(* The automatic decision of AuditLog.record, shared by every surface.     *)
(***************************************************************************)
Decision(report) ==
  IF HasBlocking(report)          THEN "rejected"
  ELSE IF report.suggested_review THEN "review"
  ELSE                                 "delivered"

Rank == [delivered |-> 0, review |-> 1, rejected |-> 2]

Flagged(report, check, severity) ==
  \E i \in 1 .. Len(report.flags) : report.flags[i] = Flag(check, severity)

(***************************************************************************)
(* What a sequence of flags costs in exact decimals, in hundredths, and    *)
(* the confidence a report with these flags would have without rounding.   *)
(***************************************************************************)
Hundredths == [info |-> 2, warn |-> 10, error |-> 30, critical |-> 60]

Cost(fs) ==
  LET total[i \in 0 .. Len(fs)] ==
        IF i = 0 THEN 0 ELSE total[i - 1] + Hundredths[fs[i].severity]
  IN  total[Len(fs)]

Nominal(cost) == IF cost > 100 THEN 0 ELSE 100 - cost

=============================================================================
