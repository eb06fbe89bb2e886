----------------------------- MODULE MCSurfaces -----------------------------
(***************************************************************************)
(* Requests of up to three attempts over statements that are clean, can be *)
(* repaired, cannot, do not parse or make a rewrite raise; jobs of up to   *)
(* two nodes of every kind.  A request with something to do is paired with *)
(* the shortest job, and a job with the shortest request.                  *)
(***************************************************************************)
EXTENDS Surfaces

CONSTANTS id, status

MCColumns == {id, status}

On(column, kind) == [kind |-> kind, column |-> column]

Statements ==
  {[parses |-> TRUE, where |-> w] :
     w \in {<<>>, <<On(id, "not_in_list_with_null")>>, <<On(id, "bad_timestamp_equality")>>,
            <<On(status, "neq"), On(id, "timestamp_equality")>>}}
  \cup {Blank}

Beyond == {[parses |-> TRUE, where |-> <<On(id, "filter")>>]}

MCCalls ==
  {[sql |-> s, others |-> NoOthers, connector |-> c, max_rounds |-> 3] : s \in Statements, c \in BOOLEAN}
  \cup {[sql |-> s, others |-> [NoOthers EXCEPT !.before = <<Flag("cartesian_join", "error")>>],
          connector |-> c, max_rounds |-> 3] : s \in Beyond, c \in BOOLEAN}
  \cup {[sql |-> s, others |-> [NoOthers EXCEPT !.between = [n \in 1 .. 3 |-> Flag("pii_access", "warn")]],
          connector |-> TRUE, max_rounds |-> 3] : s \in Beyond}

MCAnswers ==
  {Silent,
   [before |-> <<>>, after |-> <<Flag("zero_row_execution", "warn")>>],
   [before |-> <<>>, after |-> <<Flag("zero_row_execution", "critical")>>]}

NoAttempts == [surface |-> "agent", connector |-> FALSE, max_attempts |-> 0]

MCRequests ==
  {[surface |-> "agent", connector |-> c, max_attempts |-> n] : c \in BOOLEAN, n \in 0 .. 3}
  \cup {[surface |-> s, connector |-> c, max_attempts |-> 1] : s \in {"guard", "fix"}, c \in BOOLEAN}

Clean == [jinja |-> FALSE, findings |-> <<>>]
Template == [jinja |-> TRUE, findings |-> <<Flag("ast_parse", "critical")>>]
With(severity) == [jinja |-> FALSE, findings |-> <<Flag("cartesian_join", severity)>>]

Texts == {Clean} \cup {With(severity) : severity \in {"warn", "error", "critical"}}

NodesNamed(name) ==
  {[model |-> TRUE, name |-> name, compiled |-> c, raw |-> <<Template>>] : c \in {<<>>} \cup {<<t>> : t \in Texts}}
  \cup {[model |-> m, name |-> name, compiled |-> <<>>, raw |-> <<With("error")>>] : m \in BOOLEAN}
  \cup {[model |-> TRUE, name |-> name, compiled |-> <<>>, raw |-> <<>>]}

DbtJob(nodes, select, warn_only, connector) ==
  [command |-> "dbt", readable |-> TRUE, opens |-> TRUE, nodes |-> nodes, select |-> select, warn_only |-> warn_only,
   connector |-> connector]

Unreadable == {[DbtJob(<<>>, {}, w, FALSE) EXCEPT !.readable = FALSE] : w \in BOOLEAN}

CheckJob(text, connector) ==
  [DbtJob(<<[model |-> TRUE, name |-> "", compiled |-> <<text>>, raw |-> <<>>]>>, {}, FALSE, connector)
     EXCEPT !.command = "check"]

\* The database or the policy cannot be opened.
Unopened ==
  {[DbtJob(<<a>>, {}, w, c) EXCEPT !.opens = FALSE] : a \in NodesNamed("a"), w \in BOOLEAN, c \in BOOLEAN}
  \cup {[CheckJob(t, c) EXCEPT !.opens = FALSE] : t \in Texts, c \in BOOLEAN}

NoManifest == CHOOSE j \in Unreadable : j.warn_only

MCJobs ==
  {DbtJob(<<a, b>>, select, w, c) :
     a \in NodesNamed("a"), b \in NodesNamed("b"), select \in {{}, {"b"}, {"typo"}},
     w \in BOOLEAN, c \in BOOLEAN}
  \cup {DbtJob(<<>>, {}, w, FALSE) : w \in BOOLEAN}
  \cup {CheckJob(t, c) : t \in Texts, c \in BOOLEAN}
  \cup Unreadable \cup Unopened

MCWorkload == {<<r, NoManifest>> : r \in MCRequests} \cup {<<NoAttempts, j>> : j \in MCJobs}

MCLiveFlags == {<<>>, <<Flag("business_invariant", "error")>>, <<Flag("zero_row_execution", "critical")>>}

=============================================================================
