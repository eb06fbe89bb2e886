------------------------------ MODULE MCVerify ------------------------------
(***************************************************************************)
(* Instances of Verify: statements of one or two SELECTs that combine the  *)
(* defects whose flags interact, called with and without a database.       *)
(***************************************************************************)
EXTENDS Verify

CONSTANTS orders, events, nonNegative, balanced, billed, active, malformed

MCGovernedTables == {orders, events}
MCInvariants     == {nonNegative, balanced, billed, active, malformed}
MCUnparsable     == {malformed}

Col(name)            == [kind |-> "column", name |-> name]
Num(n)               == [type |-> "number", v |-> n]
Cmp(op, left, right) == [kind |-> "compare", op |-> op, left |-> left, right |-> right]

RevenueNotNegative == <<Col("revenue"), [kind |-> "constant", value |-> Num(0)], Cmp(">=", 1, 2)>>

\* revenue >= 0; refunds <= revenue; NOT (revenue < 0 OR status = ''); active AND revenue >= 0.
MCPredicate ==
  nonNegative :> RevenueNotNegative
  @@ balanced :> <<Col("refunds"), Col("revenue"), Cmp("<=", 1, 2)>>
  @@ billed   :> <<Col("revenue"), [kind |-> "constant", value |-> Num(0)], Cmp("<", 1, 2),
                   Col("status"), [kind |-> "constant", value |-> [type |-> "text", v |-> 0]],
                   Cmp("=", 4, 5),
                   [kind |-> "or", left |-> 3, right |-> 6], [kind |-> "not", left |-> 7]>>
  @@ active   :> RevenueNotNegative
                 \o <<Col("active"), [kind |-> "and", left |-> 4, right |-> 3]>>

MCRow(revenue, refunds, isActive) ==
  [revenue |-> revenue, refunds |-> refunds, active |-> isActive,
   status |-> [type |-> "text", v |-> 1]]

GoodRow  == MCRow(Num(2), Num(1), Bool(TRUE))
BadRow   == MCRow(Num(-1), Num(-1), Bool(TRUE))
\* revenue is NULL and refunds came as text: nothing resolves, and one comparison raises.
OddRow   == MCRow(Null, [type |-> "text", v |-> 1], Bool(TRUE))
TextRow  == MCRow(Num(2), [type |-> "text", v |-> 1], Bool(FALSE))
\* a projection without the columns the invariants name.
BareRow  == [total |-> Num(2)]
\* an account nobody has classified yet.
NullRow  == MCRow(Num(2), Num(1), Null)

\* One row more than both caps, so that a LIMITed statement overruns them.
MCResults == {<<>>, <<GoodRow, BadRow>>, <<BadRow, GoodRow>>, <<OddRow>>, <<BadRow, TextRow>>,
              <<BareRow>>, <<GoodRow, GoodRow, BadRow>>}

\* The predicates mean something on all of these rows; NullRow is an example on which one does not.
ASSUME WellTypedAssumption == Results = MCResults => PolicyIsWellTyped

NullResults == {<<>>, <<NullRow>>}

Sel(features, unfiltered) == [features |-> features, unfiltered |-> unfiltered]

Clean == [parses |-> TRUE, kind |-> "select", limited |-> FALSE,
          selects |-> <<Sel({"where", "dateColumn"}, {})>>,
          unknownTable |-> FALSE, unknownColumn |-> FALSE, timestampEquality |-> FALSE]

\* The SELECTs of the instance: each combines features one SELECT can have together.
FirstSelects == {
  Sel({"where", "dateColumn"}, {}),
  Sel({"where", "neqDropsNull"}, {}),
  Sel({"where", "nullableNotIn", "neqDropsNull"}, {orders}),
  Sel({"crossJoin", "unboundedScan", "star", "piiTable"}, {orders, events}),
  Sel({"where", "crossJoin", "neqDropsNull", "piiTable", "piiColumn"}, {}) }

SecondSelects == {
  Sel({"where", "neqDropsNull"}, {}),
  Sel({"unjoined", "star"}, {}),
  Sel({"where", "nullableNotIn", "crossJoin"}, {}) }

SelectLists == {<<>>} \cup {<<a>> : a \in FirstSelects}
                      \cup {<<a, b>> : a \in FirstSelects, b \in SecondSelects}

Statements ==
  {[Clean EXCEPT !.selects = l, !.timestampEquality = t, !.limited = m] :
     l \in SelectLists, t \in BOOLEAN, m \in BOOLEAN}
  \cup {[Clean EXCEPT !.parses = FALSE],
        [Clean EXCEPT !.unknownTable = TRUE], [Clean EXCEPT !.unknownColumn = TRUE]}
  \cup {[Clean EXCEPT !.kind = k, !.limited = m, !.selects = l] :  \* from a file or from a query
          k \in {"mutation", "command"}, m \in BOOLEAN, l \in {<<>>, Clean.selects}}

NoPolicy == [pii |-> FALSE, filters |-> FALSE, invariants |-> {}]
Policies == {NoPolicy, [pii |-> TRUE, filters |-> TRUE, invariants |-> {nonNegative, balanced}]}
OtherPolicies == {[NoPolicy EXCEPT !.invariants = i] :
                    i \in {{nonNegative}, {nonNegative, malformed}, {billed}, {active}}}

MCInputs ==
  {[query |-> q, question |-> w, connector |-> c, policy |-> p, critic |-> TRUE] :
     q \in Statements, w \in {"plain", "dated"}, c \in {"none", "explains"}, p \in Policies}
  \cup {[query |-> q, question |-> w, connector |-> c, policy |-> NoPolicy, critic |-> w = "none"] :
     q \in Statements, w \in {"none", "plain"}, c \in {"no_plan"}}
  \cup {[query |-> q, question |-> "dated", connector |-> "no_plan", policy |-> p, critic |-> FALSE] :
     q \in {s \in Statements : Len(s.selects) < 2}, p \in OtherPolicies}

\* 0.15 times a critic's confidence of 0.0, 0.5 and 1.0; 1.0, which stands for every product
\* above it, and -1.5, for those below zero: nothing holds a model that answers in percent, or
\* with -10, to the range it is asked for.
MCBoosts == {Zero, <<40265318, 214748364>>, <<80530636, 429496728>>, One, <<-805306368, 0>>}

=============================================================================
