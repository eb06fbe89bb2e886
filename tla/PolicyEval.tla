----------------------------- MODULE PolicyEval -----------------------------
(***************************************************************************)
(* InvariantEvaluator: a predicate of a policy, evaluated on one row by a  *)
(* walk over its tree (src/src/verisql/policy.py), next to what the same   *)
(* predicate means in SQL.                                                 *)
(*                                                                         *)
(* A predicate is the sequence of its nodes, children before parents, the  *)
(* root last; a node names its children by their positions.                *)
(***************************************************************************)
EXTENDS Integers, Sequences

Ordering == {">", ">=", "<", "<="}

(***************************************************************************)
(* A value keeps its type and its place in the order of that type.  TRUE   *)
(* is 1, and the empty string is the text 0, as bool() sees them.          *)
(***************************************************************************)
Null    == [type |-> "null", v |-> 0]
Value   == [type : {"number", "text", "boolean"}, v : Int] \cup {Null}
Bool(b) == [type |-> "boolean", v |-> IF b THEN 1 ELSE 0]

Node ==
  [kind : {"column"}, name : STRING]
  \cup [kind : {"constant"}, value : Value]
  \cup [kind : {"compare"}, op : Ordering \cup {"=", "<>"}, left : Nat, right : Nat]
  \cup [kind : {"and", "or"}, left : Nat, right : Nat]
  \cup [kind : {"not"}, left : Nat]
  \cup [kind : {"other"}]   \* IS, IN, BETWEEN, arithmetic, a negative number, a function

IsPredicate(p) ==
  /\ p \in Seq(Node) /\ p # <<>>
  /\ \A i \in 1 .. Len(p) :
       /\ p[i].kind \in {"compare", "and", "or", "not"} => p[i].left \in 1 .. i - 1
       /\ p[i].kind \in {"compare", "and", "or"} => p[i].right \in 1 .. i - 1

Holds(op, a, b) ==
  CASE op = ">"  -> a > b
    [] op = ">=" -> a >= b
    [] op = "<"  -> a < b
    [] op = "<=" -> a <= b
    [] op = "="  -> a = b
    [] op = "<>" -> a # b

(***************************************************************************)
(* Python orders numbers among each other, a bool being a number, and      *)
(* texts among each other.                                                 *)
(***************************************************************************)
Comparable(x, y) == x.type = y.type \/ {x.type, y.type} = {"number", "boolean"}

-----------------------------------------------------------------------------
(***************************************************************************)
(* What a walk comes to besides a value: _Unresolvable, or a TypeError.    *)
(***************************************************************************)
Unresolved == [type |-> "unresolved"]
Raises     == [type |-> "raises"]

Failed(x) == x.type \in {"unresolved", "raises"}

Truthy(x) == x.type # "null" /\ x.v # 0

(***************************************************************************)
(* _COMPARATORS: unlike types are unequal, and have no order.              *)
(***************************************************************************)
CompareNullIsFalse(op, x, y) ==  \* mutant of Compare: a NULL operand makes it false
  IF Failed(x) THEN x
  ELSE IF Failed(y) THEN y
  ELSE IF x.type = "null" \/ y.type = "null" THEN Bool(FALSE)
  ELSE IF Comparable(x, y) THEN Bool(Holds(op, x.v, y.v))
  ELSE IF op \in Ordering THEN Raises
  ELSE Bool(op = "<>")

Compare(op, x, y) ==
  IF Failed(x) THEN x
  ELSE IF Failed(y) THEN y
  ELSE IF x.type = "null" \/ y.type = "null" THEN Unresolved
  ELSE IF Comparable(x, y) THEN Bool(Holds(op, x.v, y.v))
  ELSE IF op \in Ordering THEN Raises
  ELSE Bool(op = "<>")

(***************************************************************************)
(* bool(x) and bool(y), bool(x) or bool(y): y is not looked at when x      *)
(* decides.                                                                *)
(***************************************************************************)
Connect(kind, x, y) ==
  IF Failed(x) THEN x
  ELSE IF Truthy(x) = (kind = "or") THEN Bool(kind = "or")
  ELSE IF Failed(y) THEN y
  ELSE Bool(Truthy(y))

(***************************************************************************)
(* The value of one node, from those of its children.                      *)
(***************************************************************************)
WalkNode(node, row, walk) ==
  CASE node.kind = "column"   -> IF node.name \in DOMAIN row THEN row[node.name] ELSE Unresolved
    [] node.kind = "constant" -> node.value
    [] node.kind = "compare"  -> Compare(node.op, walk[node.left], walk[node.right])
    [] node.kind \in {"and", "or"} -> Connect(node.kind, walk[node.left], walk[node.right])
    [] node.kind = "not"      -> IF Failed(walk[node.left]) THEN walk[node.left]
                                 ELSE Bool(~ Truthy(walk[node.left]))
    [] OTHER -> Unresolved

Walk(p, row) ==
  LET walk[i \in 1 .. Len(p)] == WalkNode(p[i], row, walk)
  IN  walk[Len(p)]

(***************************************************************************)
(* check, as its caller sees it: only the very value False is a violation, *)
(* and anything but that, None and an exception counts for nothing.        *)
(***************************************************************************)
Outcome(p, row) ==
  LET result == Walk(p, row)
  IN  IF Failed(result) THEN result.type
      ELSE IF result = Bool(FALSE) THEN "fails"
      ELSE "holds"

-----------------------------------------------------------------------------
(***************************************************************************)
(* The predicate in SQL's three-valued logic: NULL stands for everything   *)
(* that is not known, a column that is not there and a node that is not    *)
(* supported included.                                                     *)
(***************************************************************************)
SqlCompare(op, x, y) ==
  IF x.type = "null" \/ y.type = "null" \/ ~ Comparable(x, y) THEN Null
  ELSE Bool(Holds(op, x.v, y.v))

Is(x, b) == x.type \in {"boolean", "number"} /\ (x.v # 0) = b

SqlConnect(kind, x, y) ==
  LET decisive == (kind = "or")
  IN  IF Is(x, decisive) \/ Is(y, decisive) THEN Bool(decisive)
      ELSE IF Is(x, ~ decisive) /\ Is(y, ~ decisive) THEN Bool(~ decisive)
      ELSE Null

SqlNode(node, row, sql) ==
  CASE node.kind = "column"   -> IF node.name \in DOMAIN row THEN row[node.name] ELSE Null
    [] node.kind = "constant" -> node.value
    [] node.kind = "compare"  -> SqlCompare(node.op, sql[node.left], sql[node.right])
    [] node.kind \in {"and", "or"} -> SqlConnect(node.kind, sql[node.left], sql[node.right])
    [] node.kind = "not"      -> IF Is(sql[node.left], TRUE) THEN Bool(FALSE)
                                 ELSE IF Is(sql[node.left], FALSE) THEN Bool(TRUE)
                                 ELSE Null
    [] OTHER -> Null

SqlMeaning(p, row) ==
  LET sql[i \in 1 .. Len(p)] == SqlNode(p[i], row, sql)
  IN  sql[Len(p)]

Violates(p, row) == SqlMeaning(p, row) = Bool(FALSE)

(***************************************************************************)
(* Everything the predicate refers to is there, has a value and is of a    *)
(* kind the walk knows.                                                    *)
(***************************************************************************)
Resolvable(p, row) ==
  \A i \in 1 .. Len(p) :
    /\ p[i].kind # "other"
    /\ p[i].kind = "constant" => p[i].value # Null
    /\ p[i].kind = "column" => p[i].name \in DOMAIN row /\ row[p[i].name] # Null

(***************************************************************************)
(* What a node may contribute to the nodes above it: its own value on the  *)
(* row if it is a leaf that has one, else some truth value.                *)
(***************************************************************************)
Contributes(node, row) ==
  CASE node.kind = "column"   -> IF node.name \in DOMAIN row THEN {row[node.name]} ELSE {}
    [] node.kind = "constant" -> {node.value}
    [] node.kind = "other"    -> {}
    [] OTHER                  -> {Bool(TRUE)}

(***************************************************************************)
(* The predicate means something on the row: a boolean operator is applied *)
(* to booleans or numbers, none of them NULL, and an equation relates what *)
(* can be compared.                                                        *)
(***************************************************************************)
WellTyped(p, row) ==
  \A i \in 1 .. Len(p) :
    LET left  == Contributes(p[p[i].left], row)
        right == Contributes(p[p[i].right], row)
    IN  /\ p[i].kind \in {"and", "or", "not"} => \A x \in left : x.type \in {"boolean", "number"}
        /\ p[i].kind \in {"and", "or"} => \A y \in right : y.type \in {"boolean", "number"}
        /\ p[i].kind = "compare" /\ p[i].op \notin Ordering =>
             \A x \in left, y \in right : "null" \in {x.type, y.type} \/ Comparable(x, y)

=============================================================================
