--------------------------- MODULE MCEquivalence ---------------------------
(***************************************************************************)
(* A statement and translations of it that reorder, repeat, rename or drop *)
(* a column, change the filter, a join or the grouping, write instead of   *)
(* reading, carry a LIMIT or do not parse; results of up to three rows     *)
(* with repetitions, of one or two columns, and a cap of two.              *)
(***************************************************************************)
EXTENDS Equivalence

Legacy == [parses |-> TRUE, kind |-> "query", columns |-> <<"id", "total">>, where |-> "paid",
           joins |-> <<"LEFT users">>, groups |-> <<"id">>, limited |-> FALSE]

Translations ==
  {[Legacy EXCEPT !.columns = l, !.where = w] :
     l \in {<<"id", "total">>, <<"total", "id">>, <<"id", "total", "id">>, <<"id", "sum">>, <<"id">>},
     w \in {"paid", ""}}
  \cup {[Legacy EXCEPT !.joins = l] : l \in {<<>>, <<"INNER users">>, <<"LEFT users", "LEFT users">>}}
  \cup {[Legacy EXCEPT !.groups = l] : l \in {<<>>, <<"id", "total">>, <<"id", "id">>}}
  \cup {[Legacy EXCEPT !.kind = k] : k \in {"write", "write_query"}}
  \cup {[Legacy EXCEPT !.limited = TRUE], [Legacy EXCEPT !.parses = FALSE]}

Write == [Legacy EXCEPT !.kind = "write"]

Limited == [Legacy EXCEPT !.limited = TRUE]

MCPairs == {<<Legacy, t>> : t \in Translations} \cup {<<t, Legacy>> : t \in Translations} \cup {<<Write, Write>>, <<Limited, Limited>>}

a == [width |-> 1, text |-> "a"]
b == [width |-> 1, text |-> "b"]
c == [width |-> 2, text |-> "a, b"]

MCResults ==
  {<<<<>>, <<>>>>, <<<<a>>, <<a>>>>, <<<<a>>, <<c>>>>, <<<<a, b>>, <<b, a>>>>, <<<<a, b>>, <<a, a>>>>,
   <<<<a, a>>, <<a, a>>>>, <<<<a, b>>, <<a>>>>, <<<<a, b, b>>, <<a, b, b>>>>, <<<<a, b, b>>, <<a, b>>>>,
   <<<<a, a, b>>, <<a, b, b>>>>}

=============================================================================
