---------------------------- MODULE VerifyProofs ----------------------------
(***************************************************************************)
(* What is proved of Verify and of PolicyEval: for every statement, policy *)
(* and question, whatever the database and the critic answer.              *)
(***************************************************************************)
EXTENDS Verify, ReportProofs, FiniteSetTheorems

-----------------------------------------------------------------------------
(***************************************************************************)
(* The evaluator: the value of each node, as the walk and as SQL see it.   *)
(***************************************************************************)
WalkResult == Value \cup {Unresolved, Raises}

LEMMA NodeKinds ==
  ASSUME NEW p, IsPredicate(p), NEW i \in 1 .. Len(p)
  PROVE  /\ Len(p) \in Nat \ {0}
         /\ p[i].kind \in {"column", "constant", "compare", "and", "or", "not", "other"}
         /\ p[i].kind = "constant" => p[i].value \in Value
         /\ p[i].kind = "compare" => p[i].op \in Ordering \cup {"=", "<>"}
         /\ p[i].kind \in {"compare", "and", "or", "not"} => p[i].left \in 1 .. i - 1
         /\ p[i].kind \in {"compare", "and", "or"} => p[i].right \in 1 .. i - 1
  <1>1. p \in Seq(Node) /\ p # <<>>
    BY DEF IsPredicate
  <1>2. p[i] \in Node /\ Len(p) \in Nat \ {0}
    BY <1>1
  <1>3. /\ p[i].kind \in {"column", "constant", "compare", "and", "or", "not", "other"}
        /\ p[i].kind = "constant" => p[i].value \in Value
        /\ p[i].kind = "compare" => p[i].op \in Ordering \cup {"=", "<>"}
    BY <1>2 DEF Node
  <1> QED
    BY <1>2, <1>3 DEF IsPredicate

LEMMA ValueTypes ==
  /\ \A b : Bool(b) \in Value /\ Bool(b).type = "boolean" /\ Bool(b) # Null
  /\ Null \in Value /\ Null.type = "null"
  /\ \A x \in Value : /\ x.type \in {"number", "text", "boolean", "null"}
                      /\ x.v \in Int /\ ~ Failed(x)
  /\ Failed(Unresolved) /\ Failed(Raises)
  /\ Unresolved # Raises /\ Unresolved \notin Value /\ Raises \notin Value
  BY DEF Bool, Null, Value, Failed, Unresolved, Raises

LEMMA WalkNodeType ==
  ASSUME NEW p, IsPredicate(p), NEW row, IsRow(row), NEW i \in 1 .. Len(p),
         NEW f \in [1 .. Len(p) -> WalkResult]
  PROVE  WalkNode(p[i], row, f) \in WalkResult
  <1>1. /\ p[i].kind \in {"compare", "and", "or", "not"} => f[p[i].left] \in WalkResult
        /\ p[i].kind \in {"compare", "and", "or"} => f[p[i].right] \in WalkResult
    BY NodeKinds
  <1>2. \A op : \A x, y \in WalkResult : Compare(op, x, y) \in WalkResult
    BY ValueTypes DEF Compare, WalkResult
  <1>3. \A kind : \A x, y \in WalkResult : Connect(kind, x, y) \in WalkResult
    BY ValueTypes DEF Connect, WalkResult
  <1>4. p[i].kind = "column" => WalkNode(p[i], row, f) \in WalkResult
    BY DEF WalkNode, WalkResult, IsRow
  <1>5. p[i].kind = "constant" => WalkNode(p[i], row, f) \in WalkResult
    BY NodeKinds DEF WalkNode, WalkResult
  <1>6. p[i].kind = "compare" => WalkNode(p[i], row, f) \in WalkResult
    BY <1>1, <1>2 DEF WalkNode
  <1>7. p[i].kind \in {"and", "or"} => WalkNode(p[i], row, f) \in WalkResult
    BY <1>1, <1>3 DEF WalkNode
  <1>8. p[i].kind = "not" => WalkNode(p[i], row, f) \in WalkResult
    BY <1>1, ValueTypes DEF WalkNode, WalkResult
  <1>9. p[i].kind = "other" => WalkNode(p[i], row, f) \in WalkResult
    BY DEF WalkNode, WalkResult
  <1> QED
    BY <1>4, <1>5, <1>6, <1>7, <1>8, <1>9, NodeKinds

LEMMA SqlNodeType ==
  ASSUME NEW p, IsPredicate(p), NEW row, IsRow(row), NEW i \in 1 .. Len(p),
         NEW f \in [1 .. Len(p) -> Value]
  PROVE  SqlNode(p[i], row, f) \in Value
  <1>1. /\ p[i].kind \in {"compare", "and", "or", "not"} => f[p[i].left] \in Value
        /\ p[i].kind \in {"compare", "and", "or"} => f[p[i].right] \in Value
    BY NodeKinds
  <1>2. \A op : \A x, y \in Value : SqlCompare(op, x, y) \in Value
    BY ValueTypes DEF SqlCompare
  <1>3. \A kind : \A x, y \in Value : SqlConnect(kind, x, y) \in Value
    BY ValueTypes DEF SqlConnect
  <1>4. p[i].kind = "column" => SqlNode(p[i], row, f) \in Value
    BY ValueTypes DEF SqlNode, IsRow
  <1>5. p[i].kind = "constant" => SqlNode(p[i], row, f) \in Value
    BY NodeKinds DEF SqlNode
  <1>6. p[i].kind = "compare" => SqlNode(p[i], row, f) \in Value
    BY <1>1, <1>2 DEF SqlNode
  <1>7. p[i].kind \in {"and", "or"} => SqlNode(p[i], row, f) \in Value
    BY <1>1, <1>3 DEF SqlNode
  <1>8. p[i].kind = "not" => SqlNode(p[i], row, f) \in Value
    BY <1>1, ValueTypes DEF SqlNode
  <1>9. p[i].kind = "other" => SqlNode(p[i], row, f) \in Value
    BY ValueTypes DEF SqlNode
  <1> QED
    BY <1>4, <1>5, <1>6, <1>7, <1>8, <1>9, NodeKinds

LEMMA WalkUnfolds ==
  ASSUME NEW p, IsPredicate(p), NEW row, IsRow(row)
  PROVE  \E f \in [1 .. Len(p) -> WalkResult] :
           /\ \A i \in 1 .. Len(p) : f[i] = WalkNode(p[i], row, f)
           /\ Walk(p, row) = f[Len(p)]
  <1> DEFINE n == Len(p)
             D == [i \in 1 .. n |-> [g \in [1 .. n -> WalkResult] |-> WalkNode(p[i], row, g)]]
             Body(f) == [i \in 1 .. n |-> WalkNode(p[i], row, f)]
             f == CHOOSE f : f = Body(f)
  <1>1. n \in Nat \ {0} /\ p \in Seq(Node) /\ p # <<>>
    BY DEF IsPredicate
  <1>2. D \in CourseRules(n, WalkResult)
    <2>1. \A i \in 1 .. n : \A g \in [1 .. n -> WalkResult] : WalkNode(p[i], row, g) \in WalkResult
      BY WalkNodeType
    <2>2. D \in [1 .. n -> [[1 .. n -> WalkResult] -> WalkResult]]
      <3> HIDE DEF n
      <3> QED
        BY <2>1
    <2>3. ASSUME NEW i \in 1 .. n, NEW g \in [1 .. n -> WalkResult], NEW h \in [1 .. n -> WalkResult],
                 \A j \in 1 .. i - 1 : g[j] = h[j]
          PROVE  D[i][g] = D[i][h]
      <3>1. /\ p[i].kind \in {"compare", "and", "or", "not"} => g[p[i].left] = h[p[i].left]
            /\ p[i].kind \in {"compare", "and", "or"} => g[p[i].right] = h[p[i].right]
        BY <2>3, NodeKinds
      <3>2. WalkNode(p[i], row, g) = WalkNode(p[i], row, h)
        <4>1. CASE p[i].kind = "compare"
          BY <3>1, <4>1 DEF WalkNode
        <4>2. CASE p[i].kind \in {"and", "or"}
          BY <3>1, <4>2 DEF WalkNode
        <4>3. CASE p[i].kind = "not"
          BY <3>1, <4>3 DEF WalkNode
        <4>4. CASE p[i].kind \in {"column", "constant", "other"}
          BY <4>4 DEF WalkNode
        <4> QED
          BY <4>1, <4>2, <4>3, <4>4, NodeKinds
      <3> HIDE DEF n
      <3> QED
        BY <3>2
    <2> HIDE DEF D, n
    <2> QED
      BY <2>2, <2>3 DEF CourseRules
  <1>3. PICK g : g \in [1 .. n -> WalkResult] /\ \A i \in 1 .. n : g[i] = D[i][g]
    <2>1. Null \in WalkResult
      BY ValueTypes DEF WalkResult
    <2> HIDE DEF D, n
    <2>2. PICK g : g \in Solutions(n, WalkResult, D)
      BY <1>1, <1>2, <2>1, CourseRecursion
    <2> QED
      BY <2>2 DEF Solutions
  <1>4. \A i \in 1 .. n : g[i] = WalkNode(p[i], row, g)
    <2> HIDE DEF n
    <2> QED
      BY <1>3
  <1>5. g = Body(g)
    <2> HIDE DEF n
    <2> QED
      BY <1>3, <1>4
  <1>6. f = Body(f)
    BY <1>5, Zenon
  <1>7. f = g
    <2> DEFINE T == {i \in Nat : i \in 1 .. n => f[i] = g[i]}
    <2> HIDE DEF f
    <2>1. ASSUME NEW i \in Nat, \A j \in 0 .. i - 1 : j \in T PROVE i \in T
      <3>1. CASE i \in 1 .. n
        <4>1. \A j \in 1 .. i - 1 : f[j] = g[j]
          BY <1>1, <2>1, <3>1
        <4>2. /\ p[i].kind \in {"compare", "and", "or", "not"} => f[p[i].left] = g[p[i].left]
              /\ p[i].kind \in {"compare", "and", "or"} => f[p[i].right] = g[p[i].right]
          BY <3>1, <4>1, NodeKinds
        <4>3. WalkNode(p[i], row, f) = WalkNode(p[i], row, g)
          <5>1. CASE p[i].kind = "compare"
            BY <4>2, <5>1 DEF WalkNode
          <5>2. CASE p[i].kind \in {"and", "or"}
            BY <4>2, <5>2 DEF WalkNode
          <5>3. CASE p[i].kind = "not"
            BY <4>2, <5>3 DEF WalkNode
          <5>4. CASE p[i].kind \in {"column", "constant", "other"}
            BY <5>4 DEF WalkNode
          <5> QED
            BY <3>1, <5>1, <5>2, <5>3, <5>4, NodeKinds
        <4>4. f[i] = WalkNode(p[i], row, f)
          <5> HIDE DEF n
          <5> QED
            BY <1>6, <3>1
        <4> QED
          BY <1>4, <3>1, <4>3, <4>4
      <3> QED
        BY <3>1
    <2>2. \A i \in Nat : i \in T
      <3> HIDE DEF T
      <3> QED
        BY <2>1, StrongInduction
    <2>3. \A i \in 1 .. n : f[i] = g[i]
      BY <1>1, <2>2
    <2> HIDE DEF n
    <2> QED
      BY <1>5, <1>6, <2>3
  <1>8. Walk(p, row) = f[n]
    BY Zenon DEF Walk
  <1> HIDE DEF f
  <1> QED
    BY <1>3, <1>4, <1>7, <1>8

LEMMA SqlUnfolds ==
  ASSUME NEW p, IsPredicate(p), NEW row, IsRow(row)
  PROVE  \E f \in [1 .. Len(p) -> Value] :
           /\ \A i \in 1 .. Len(p) : f[i] = SqlNode(p[i], row, f)
           /\ SqlMeaning(p, row) = f[Len(p)]
  <1> DEFINE n == Len(p)
             D == [i \in 1 .. n |-> [g \in [1 .. n -> Value] |-> SqlNode(p[i], row, g)]]
             Body(f) == [i \in 1 .. n |-> SqlNode(p[i], row, f)]
             f == CHOOSE f : f = Body(f)
  <1>1. n \in Nat \ {0} /\ p \in Seq(Node) /\ p # <<>>
    BY DEF IsPredicate
  <1>2. D \in CourseRules(n, Value)
    <2>1. \A i \in 1 .. n : \A g \in [1 .. n -> Value] : SqlNode(p[i], row, g) \in Value
      BY SqlNodeType
    <2>2. D \in [1 .. n -> [[1 .. n -> Value] -> Value]]
      <3> HIDE DEF n
      <3> QED
        BY <2>1
    <2>3. ASSUME NEW i \in 1 .. n, NEW g \in [1 .. n -> Value], NEW h \in [1 .. n -> Value],
                 \A j \in 1 .. i - 1 : g[j] = h[j]
          PROVE  D[i][g] = D[i][h]
      <3>1. /\ p[i].kind \in {"compare", "and", "or", "not"} => g[p[i].left] = h[p[i].left]
            /\ p[i].kind \in {"compare", "and", "or"} => g[p[i].right] = h[p[i].right]
        BY <2>3, NodeKinds
      <3>2. SqlNode(p[i], row, g) = SqlNode(p[i], row, h)
        <4>1. CASE p[i].kind = "compare"
          BY <3>1, <4>1 DEF SqlNode
        <4>2. CASE p[i].kind \in {"and", "or"}
          BY <3>1, <4>2 DEF SqlNode
        <4>3. CASE p[i].kind = "not"
          BY <3>1, <4>3 DEF SqlNode
        <4>4. CASE p[i].kind \in {"column", "constant", "other"}
          BY <4>4 DEF SqlNode
        <4> QED
          BY <4>1, <4>2, <4>3, <4>4, NodeKinds
      <3> HIDE DEF n
      <3> QED
        BY <3>2
    <2> HIDE DEF D, n
    <2> QED
      BY <2>2, <2>3 DEF CourseRules
  <1>3. PICK g : g \in [1 .. n -> Value] /\ \A i \in 1 .. n : g[i] = D[i][g]
    <2>1. Null \in Value
      BY ValueTypes DEF WalkResult
    <2> HIDE DEF D, n
    <2>2. PICK g : g \in Solutions(n, Value, D)
      BY <1>1, <1>2, <2>1, CourseRecursion
    <2> QED
      BY <2>2 DEF Solutions
  <1>4. \A i \in 1 .. n : g[i] = SqlNode(p[i], row, g)
    <2> HIDE DEF n
    <2> QED
      BY <1>3
  <1>5. g = Body(g)
    <2> HIDE DEF n
    <2> QED
      BY <1>3, <1>4
  <1>6. f = Body(f)
    BY <1>5, Zenon
  <1>7. f = g
    <2> DEFINE T == {i \in Nat : i \in 1 .. n => f[i] = g[i]}
    <2> HIDE DEF f
    <2>1. ASSUME NEW i \in Nat, \A j \in 0 .. i - 1 : j \in T PROVE i \in T
      <3>1. CASE i \in 1 .. n
        <4>1. \A j \in 1 .. i - 1 : f[j] = g[j]
          BY <1>1, <2>1, <3>1
        <4>2. /\ p[i].kind \in {"compare", "and", "or", "not"} => f[p[i].left] = g[p[i].left]
              /\ p[i].kind \in {"compare", "and", "or"} => f[p[i].right] = g[p[i].right]
          BY <3>1, <4>1, NodeKinds
        <4>3. SqlNode(p[i], row, f) = SqlNode(p[i], row, g)
          <5>1. CASE p[i].kind = "compare"
            BY <4>2, <5>1 DEF SqlNode
          <5>2. CASE p[i].kind \in {"and", "or"}
            BY <4>2, <5>2 DEF SqlNode
          <5>3. CASE p[i].kind = "not"
            BY <4>2, <5>3 DEF SqlNode
          <5>4. CASE p[i].kind \in {"column", "constant", "other"}
            BY <5>4 DEF SqlNode
          <5> QED
            BY <3>1, <5>1, <5>2, <5>3, <5>4, NodeKinds
        <4>4. f[i] = SqlNode(p[i], row, f)
          <5> HIDE DEF n
          <5> QED
            BY <1>6, <3>1
        <4> QED
          BY <1>4, <3>1, <4>3, <4>4
      <3> QED
        BY <3>1
    <2>2. \A i \in Nat : i \in T
      <3> HIDE DEF T
      <3> QED
        BY <2>1, StrongInduction
    <2>3. \A i \in 1 .. n : f[i] = g[i]
      BY <1>1, <2>2
    <2> HIDE DEF n
    <2> QED
      BY <1>5, <1>6, <2>3
  <1>8. SqlMeaning(p, row) = f[n]
    BY Zenon DEF SqlMeaning
  <1> HIDE DEF f
  <1> QED
    BY <1>3, <1>4, <1>7, <1>8

(***************************************************************************)
(* On a row on which the predicate is resolvable, the walk raises or comes *)
(* to the value that SQL finds, unless SQL finds none.                     *)
(***************************************************************************)
Agrees(w, s) == w = Raises \/ (w \in Value /\ w.type # "null" /\ (s = Null \/ s = w))

LEMMA AgreeingChildren ==
  ASSUME NEW x \in WalkResult, NEW y \in WalkResult, NEW sx \in Value, NEW sy \in Value,
         Agrees(x, sx)
  PROVE  /\ \A op \in Ordering \cup {"=", "<>"} :
              Agrees(y, sy) => Agrees(Compare(op, x, y), SqlCompare(op, sx, sy))
         /\ \A kind \in {"and", "or"} :
              Agrees(y, sy) => Agrees(Connect(kind, x, y), SqlConnect(kind, sx, sy))
         /\ Agrees(IF Failed(x) THEN x ELSE Bool(~ Truthy(x)),
                   IF Is(sx, TRUE) THEN Bool(FALSE) ELSE IF Is(sx, FALSE) THEN Bool(TRUE) ELSE Null)
  <1>1. ASSUME NEW op \in Ordering \cup {"=", "<>"}, Agrees(y, sy)
        PROVE  Agrees(Compare(op, x, y), SqlCompare(op, sx, sy))
    <2>1. CASE x = Raises \/ y = Raises
      BY <1>1, <2>1, ValueTypes DEF Agrees, Compare
    <2>2. CASE x # Raises /\ y # Raises
      BY <1>1, <2>2, ValueTypes DEF Agrees, Compare, SqlCompare
    <2> QED
      BY <2>1, <2>2
  <1>2. ASSUME NEW kind \in {"and", "or"}, Agrees(y, sy)
        PROVE  Agrees(Connect(kind, x, y), SqlConnect(kind, sx, sy))
    <2>1. CASE x = Raises
      BY <2>1, ValueTypes DEF Agrees, Connect
    <2>2. CASE x # Raises
      <3>1. x \in Value /\ x.type # "null" /\ (sx = Null \/ sx = x) /\ ~ Failed(x)
        BY <2>2, ValueTypes DEF Agrees
      <3>2. \A b \in BOOLEAN : Is(sx, b) => Truthy(x) = b
        BY <3>1, ValueTypes DEF Is, Truthy
      <3>3. CASE y = Raises
        BY <3>1, <3>2, <3>3, ValueTypes DEF Agrees, Connect, SqlConnect
      <3>4. CASE y # Raises
        <4>1. y \in Value /\ y.type # "null" /\ (sy = Null \/ sy = y) /\ ~ Failed(y)
          BY <1>2, <3>4, ValueTypes DEF Agrees
        <4>2. \A b \in BOOLEAN : Is(sy, b) => Truthy(y) = b
          BY <4>1, ValueTypes DEF Is, Truthy
        <4>3. Truthy(x) \in BOOLEAN /\ Truthy(y) \in BOOLEAN
          BY DEF Truthy
        <4> QED
          BY <3>1, <3>2, <4>1, <4>2, <4>3, ValueTypes DEF Agrees, Connect, SqlConnect
      <3> QED
        BY <3>3, <3>4
    <2> QED
      BY <2>1, <2>2
  <1>3. Agrees(IF Failed(x) THEN x ELSE Bool(~ Truthy(x)),
               IF Is(sx, TRUE) THEN Bool(FALSE) ELSE IF Is(sx, FALSE) THEN Bool(TRUE) ELSE Null)
    BY ValueTypes DEF Agrees, Is, Truthy, Bool
  <1> QED
    BY <1>1, <1>2, <1>3

(***************************************************************************)
(* A resolvable predicate that SQL finds violated is reported, as a        *)
(* violation or by an exception (policy.py, InvariantEvaluator.check).     *)
(***************************************************************************)
LEMMA ResolvableViolationShows ==
  ASSUME NEW p, IsPredicate(p), NEW row, IsRow(row), Resolvable(p, row), Violates(p, row)
  PROVE  Outcome(p, row) \in {"raises", "fails"}
  <1>1. PICK w \in [1 .. Len(p) -> WalkResult] :
          (\A i \in 1 .. Len(p) : w[i] = WalkNode(p[i], row, w)) /\ Walk(p, row) = w[Len(p)]
    BY WalkUnfolds
  <1>2. PICK s \in [1 .. Len(p) -> Value] :
          (\A i \in 1 .. Len(p) : s[i] = SqlNode(p[i], row, s)) /\ SqlMeaning(p, row) = s[Len(p)]
    BY SqlUnfolds
  <1> DEFINE T == {i \in Nat : i \in 1 .. Len(p) => Agrees(w[i], s[i])}
  <1>3. ASSUME NEW i \in Nat, \A j \in 0 .. i - 1 : j \in T PROVE i \in T
    <2> SUFFICES ASSUME i \in 1 .. Len(p) PROVE Agrees(w[i], s[i])
      OBVIOUS
    <2>1. \A j \in 1 .. i - 1 : j \in 1 .. Len(p) /\ Agrees(w[j], s[j])
      BY <1>3, NodeKinds
    <2>2. \A j \in 1 .. Len(p) : w[j] \in WalkResult /\ s[j] \in Value
      OBVIOUS
    <2>3. w[i] = WalkNode(p[i], row, w) /\ s[i] = SqlNode(p[i], row, s)
      BY <1>1, <1>2
    <2>4. CASE p[i].kind = "column"
      <3>1. p[i].name \in DOMAIN row /\ row[p[i].name] # Null
        BY <2>4 DEF Resolvable
      <3>2. row[p[i].name] \in Value /\ w[i] = row[p[i].name] /\ s[i] = row[p[i].name]
        BY <2>3, <2>4, <3>1 DEF IsRow, WalkNode, SqlNode
      <3> QED
        BY <3>1, <3>2 DEF Agrees, Value, Null
    <2>5. CASE p[i].kind = "constant"
      BY <2>3, <2>5, NodeKinds DEF Resolvable, WalkNode, SqlNode, Agrees, Value, Null
    <2>6. CASE p[i].kind = "compare"
      <3> DEFINE l == p[i].left
                 r == p[i].right
      <3>1. p[i].op \in Ordering \cup {"=", "<>"} /\ l \in 1 .. i - 1 /\ r \in 1 .. i - 1
        BY <2>6, NodeKinds
      <3>2. /\ w[i] = Compare(p[i].op, w[l], w[r]) /\ s[i] = SqlCompare(p[i].op, s[l], s[r])
        BY <2>3, <2>6 DEF WalkNode, SqlNode
      <3> HIDE DEF l, r
      <3>3. /\ w[l] \in WalkResult /\ w[r] \in WalkResult /\ s[l] \in Value /\ s[r] \in Value
            /\ Agrees(w[l], s[l]) /\ Agrees(w[r], s[r])
        BY <2>1, <2>2, <3>1
      <3> QED
        BY <3>1, <3>2, <3>3, AgreeingChildren
    <2>7. CASE p[i].kind \in {"and", "or"}
      <3> DEFINE l == p[i].left
                 r == p[i].right
      <3>1. l \in 1 .. i - 1 /\ r \in 1 .. i - 1
        BY <2>7, NodeKinds
      <3>2. /\ w[i] = Connect(p[i].kind, w[l], w[r]) /\ s[i] = SqlConnect(p[i].kind, s[l], s[r])
        BY <2>3, <2>7 DEF WalkNode, SqlNode
      <3> HIDE DEF l, r
      <3> QED
        BY <2>1, <2>2, <2>7, <3>1, <3>2, AgreeingChildren
    <2>8. CASE p[i].kind = "not"
      <3> DEFINE l == p[i].left
      <3>1. l \in 1 .. i - 1
        BY <2>8, NodeKinds
      <3>2. /\ w[i] = IF Failed(w[l]) THEN w[l] ELSE Bool(~ Truthy(w[l]))
            /\ s[i] = IF Is(s[l], TRUE) THEN Bool(FALSE)
                      ELSE IF Is(s[l], FALSE) THEN Bool(TRUE) ELSE Null
        BY <2>3, <2>8 DEF WalkNode, SqlNode
      <3> HIDE DEF l
      <3> QED
        BY <2>1, <2>2, <3>1, <3>2, AgreeingChildren
    <2>9. p[i].kind # "other"
      BY DEF Resolvable
    <2> QED
      BY <2>4, <2>5, <2>6, <2>7, <2>8, <2>9, NodeKinds
  <1>4. \A i \in Nat : i \in T
    <2> HIDE DEF T
    <2> QED
      BY <1>3, StrongInduction
  <1>5. Len(p) \in 1 .. Len(p) /\ Len(p) \in Nat
    BY DEF IsPredicate
  <1>6. Agrees(w[Len(p)], s[Len(p)]) /\ s[Len(p)] = Bool(FALSE)
    BY <1>2, <1>4, <1>5 DEF Violates
  <1>7. Walk(p, row) = Raises \/ Walk(p, row) = Bool(FALSE)
    BY <1>1, <1>6, ValueTypes DEF Agrees
  <1> QED
    BY <1>7, ValueTypes DEF Outcome, Raises, Failed, Bool

(***************************************************************************)
(* Where a predicate is well typed, a walk that does not fail comes to the *)
(* value that SQL finds, on the row itself as on a row without columns.    *)
(* A truth value stands for both in Contributes.                           *)
(***************************************************************************)
Matches(w, s, node, row) ==
  \/ Failed(w)
  \/ /\ w = s /\ w \in Value
     /\ \E c \in Contributes(node, row) : c.type = w.type

LEMMA MatchingComparison ==
  ASSUME NEW op \in Ordering \cup {"=", "<>"},
         NEW x \in WalkResult, NEW y \in WalkResult, NEW sx \in Value, NEW sy \in Value,
         Failed(x) \/ x = sx, Failed(y) \/ y = sy,
         op \notin Ordering /\ ~ Failed(x) /\ ~ Failed(y)
           => x.type = "null" \/ y.type = "null" \/ Comparable(x, y),
         ~ Failed(Compare(op, x, y))
  PROVE  LET w == Compare(op, x, y)
         IN  w = SqlCompare(op, sx, sy) /\ w \in Value /\ w.type = "boolean"
  <1>1. ~ Failed(x) /\ ~ Failed(y)
    BY DEF Compare
  <1>2. x.type # "null" /\ y.type # "null"
    BY <1>1, ValueTypes DEF Compare
  <1>3. Comparable(x, y)
    BY <1>1, <1>2, ValueTypes DEF Compare
  <1> QED
    BY <1>1, <1>2, <1>3, ValueTypes DEF Compare, SqlCompare

LEMMA MatchingConnective ==
  ASSUME NEW kind \in {"and", "or"},
         NEW x \in WalkResult, NEW y \in WalkResult, NEW sx \in Value, NEW sy \in Value,
         Failed(x) \/ x = sx, Failed(y) \/ y = sy,
         ~ Failed(x) => x.type \in {"boolean", "number"},
         ~ Failed(y) => y.type \in {"boolean", "number"},
         ~ Failed(Connect(kind, x, y))
  PROVE  LET w == Connect(kind, x, y)
         IN  w = SqlConnect(kind, sx, sy) /\ w \in Value /\ w.type = "boolean"
  <1>1. ~ Failed(x) /\ x = sx /\ x.type \in {"boolean", "number"}
    BY DEF Connect
  <1>2. \A b \in BOOLEAN : Is(sx, b) <=> (Truthy(x) = b)
    BY <1>1 DEF Is, Truthy
  <1>3. Truthy(x) \in BOOLEAN /\ Truthy(y) \in BOOLEAN
    BY DEF Truthy
  <1>4. CASE Truthy(x) = (kind = "or")
    BY <1>1, <1>2, <1>4, ValueTypes DEF Connect, SqlConnect
  <1>5. CASE Truthy(x) # (kind = "or")
    <2>1. ~ Failed(y) /\ y = sy /\ y.type \in {"boolean", "number"}
      BY <1>1, <1>5 DEF Connect
    <2>2. \A b \in BOOLEAN : Is(sy, b) <=> (Truthy(y) = b)
      BY <2>1 DEF Is, Truthy
    <2>3. CASE kind = "or"
      BY <1>1, <1>2, <1>3, <1>5, <2>1, <2>2, <2>3, ValueTypes DEF Connect, SqlConnect
    <2>4. CASE kind = "and"
      BY <1>1, <1>2, <1>3, <1>5, <2>1, <2>2, <2>4, ValueTypes DEF Connect, SqlConnect
    <2> QED
      BY <2>3, <2>4
  <1> QED
    BY <1>4, <1>5

LEMMA MatchingNegation ==
  ASSUME NEW x \in Value, x.type \in {"boolean", "number"}
  PROVE  Bool(~ Truthy(x)) = IF Is(x, TRUE) THEN Bool(FALSE)
                             ELSE IF Is(x, FALSE) THEN Bool(TRUE) ELSE Null
  BY DEF Is, Truthy

(***************************************************************************)
(* What the evaluator calls a violation is one in SQL, if the predicate    *)
(* means something on the row: InvariantCheck hands it the row, or a row   *)
(* without columns where the projection is a star.                         *)
(***************************************************************************)
LEMMA ReportedViolationIsOne ==
  ASSUME NEW p, IsPredicate(p), NEW row, IsRow(row), WellTyped(p, row),
         NEW dict, dict = row \/ DOMAIN dict = {}, Outcome(p, dict) = "fails"
  PROVE  Violates(p, row)
  <1>0. IsRow(dict)
    BY DEF IsRow
  <1>1. PICK w \in [1 .. Len(p) -> WalkResult] :
          (\A i \in 1 .. Len(p) : w[i] = WalkNode(p[i], dict, w)) /\ Walk(p, dict) = w[Len(p)]
    BY <1>0, WalkUnfolds
  <1>2. PICK s \in [1 .. Len(p) -> Value] :
          (\A i \in 1 .. Len(p) : s[i] = SqlNode(p[i], row, s)) /\ SqlMeaning(p, row) = s[Len(p)]
    BY SqlUnfolds
  <1> DEFINE Good(i) == Matches(w[i], s[i], p[i], row)
             T == {i \in Nat : i \in 1 .. Len(p) => Good(i)}
  <1>3. ASSUME NEW i \in Nat, \A j \in 0 .. i - 1 : j \in T PROVE i \in T
    <2> SUFFICES ASSUME i \in 1 .. Len(p) PROVE Good(i)
      OBVIOUS
    <2>1. \A j \in 1 .. i - 1 : j \in 1 .. Len(p) /\ Good(j)
      BY <1>3, NodeKinds
    <2>2. \A j \in 1 .. Len(p) : w[j] \in WalkResult /\ s[j] \in Value
      OBVIOUS
    <2>3. w[i] = WalkNode(p[i], dict, w) /\ s[i] = SqlNode(p[i], row, s)
      BY <1>1, <1>2
    <2>4. CASE p[i].kind = "column"
      <3>1. CASE p[i].name \in DOMAIN dict
        <4>1. dict = row
          BY <3>1
        <4>2. w[i] = row[p[i].name] /\ s[i] = row[p[i].name] /\ row[p[i].name] \in Value
          BY <2>3, <2>4, <3>1, <4>1 DEF WalkNode, SqlNode, IsRow
        <4>3. row[p[i].name] \in Contributes(p[i], row)
          BY <2>4, <3>1, <4>1 DEF Contributes
        <4> QED
          BY <4>2, <4>3 DEF Matches
      <3>2. CASE p[i].name \notin DOMAIN dict
        BY <2>3, <2>4, <3>2, ValueTypes DEF WalkNode, Matches
      <3> QED
        BY <3>1, <3>2
    <2>5. CASE p[i].kind = "constant"
      BY <2>3, <2>5, NodeKinds DEF WalkNode, SqlNode, Matches, Contributes
    <2>6. CASE p[i].kind = "other"
      BY <2>3, <2>6, ValueTypes DEF WalkNode, Matches
    <2>7. CASE p[i].kind \in {"compare", "and", "or", "not"}
      <3> DEFINE l == p[i].left
                 r == p[i].right
                 left == Contributes(p[l], row)
                 right == Contributes(p[r], row)
      <3>1. l \in 1 .. i - 1 /\ (p[i].kind # "not" => r \in 1 .. i - 1)
        BY <2>7, NodeKinds
      <3>2. /\ w[l] \in WalkResult /\ s[l] \in Value
            /\ Failed(w[l]) \/ (w[l] = s[l] /\ w[l] \in Value /\ \E x \in left : x.type = w[l].type)
        BY <2>1, <2>2, <3>1 DEF Matches
      <3>3. p[i].kind # "not" =>
              /\ w[r] \in WalkResult /\ s[r] \in Value
              /\ Failed(w[r]) \/ (w[r] = s[r] /\ w[r] \in Value /\ \E y \in right : y.type = w[r].type)
        BY <2>1, <2>2, <3>1 DEF Matches
      <3>4. /\ p[i].kind \in {"and", "or", "not"} => \A x \in left : x.type \in {"boolean", "number"}
            /\ p[i].kind \in {"and", "or"} => \A y \in right : y.type \in {"boolean", "number"}
            /\ p[i].kind = "compare" /\ p[i].op \notin Ordering =>
                 \A x \in left, y \in right : "null" \in {x.type, y.type} \/ Comparable(x, y)
        BY DEF WellTyped
      <3>5. Bool(TRUE) \in Contributes(p[i], row)
        BY <2>7 DEF Contributes
      <3>6. ASSUME w[i] = s[i], w[i] \in Value, w[i].type = "boolean" PROVE Good(i)
        BY <3>5, <3>6, ValueTypes DEF Matches
      <3>7. CASE p[i].kind = "compare"
        <4>1. p[i].op \in Ordering \cup {"=", "<>"}
          BY <3>7, NodeKinds
        <4>2. w[i] = Compare(p[i].op, w[l], w[r]) /\ s[i] = SqlCompare(p[i].op, s[l], s[r])
          BY <2>3, <3>7 DEF WalkNode, SqlNode
        <4> HIDE DEF l, r, left, right
        <4>3. p[i].op \notin Ordering /\ ~ Failed(w[l]) /\ ~ Failed(w[r])
                => w[l].type = "null" \/ w[r].type = "null" \/ Comparable(w[l], w[r])
          <5> SUFFICES ASSUME p[i].op \notin Ordering, ~ Failed(w[l]), ~ Failed(w[r])
                       PROVE  w[l].type = "null" \/ w[r].type = "null" \/ Comparable(w[l], w[r])
            OBVIOUS
          <5>1. PICK x \in left : x.type = w[l].type
            BY <3>2
          <5>2. PICK y \in right : y.type = w[r].type
            BY <3>3, <3>7
          <5>3. x.type = "null" \/ y.type = "null" \/ Comparable(x, y)
            BY <3>4, <3>7
          <5>4. x.type = w[l].type /\ y.type = w[r].type /\ {x.type, y.type} = {w[l].type, w[r].type}
            BY <5>1, <5>2
          <5>5. Comparable(x, y) => Comparable(w[l], w[r])
            BY <5>4, Zenon DEF Comparable
          <5> QED
            BY <5>3, <5>4, <5>5, Zenon
        <4>4. Failed(w[i]) \/ (w[i] = s[i] /\ w[i] \in Value /\ w[i].type = "boolean")
          <5>1. /\ w[l] \in WalkResult /\ w[r] \in WalkResult /\ s[l] \in Value /\ s[r] \in Value
                /\ Failed(w[l]) \/ w[l] = s[l]
                /\ Failed(w[r]) \/ w[r] = s[r]
            BY <3>2, <3>3, <3>7
          <5>2. CASE ~ Failed(Compare(p[i].op, w[l], w[r]))
            <6>1. LET v == Compare(p[i].op, w[l], w[r])
                  IN  v = SqlCompare(p[i].op, s[l], s[r]) /\ v \in Value /\ v.type = "boolean"
              BY <4>1, <4>3, <5>1, <5>2, MatchingComparison
            <6> QED
              BY <4>2, <6>1
          <5> QED
            BY <4>2, <5>2
        <4> QED
          BY <3>6, <4>4 DEF Matches
      <3>8. CASE p[i].kind \in {"and", "or"}
        <4>1. w[i] = Connect(p[i].kind, w[l], w[r]) /\ s[i] = SqlConnect(p[i].kind, s[l], s[r])
          BY <2>3, <3>8 DEF WalkNode, SqlNode
        <4> HIDE DEF l, r, left, right
        <4>2. /\ ~ Failed(w[l]) => w[l].type \in {"boolean", "number"}
              /\ ~ Failed(w[r]) => w[r].type \in {"boolean", "number"}
          BY <3>2, <3>3, <3>4, <3>8
        <4>3. Failed(w[i]) \/ (w[i] = s[i] /\ w[i] \in Value /\ w[i].type = "boolean")
          BY <3>2, <3>3, <3>8, <4>1, <4>2, MatchingConnective
        <4> QED
          BY <3>6, <4>3 DEF Matches
      <3>9. CASE p[i].kind = "not"
        <4>1. /\ w[i] = IF Failed(w[l]) THEN w[l] ELSE Bool(~ Truthy(w[l]))
              /\ s[i] = IF Is(s[l], TRUE) THEN Bool(FALSE)
                        ELSE IF Is(s[l], FALSE) THEN Bool(TRUE) ELSE Null
          BY <2>3, <3>9 DEF WalkNode, SqlNode
        <4> HIDE DEF l, r, left, right
        <4>2. CASE Failed(w[l])
          BY <4>1, <4>2 DEF Matches
        <4>3. CASE ~ Failed(w[l])
          <5>1. w[l].type \in {"boolean", "number"} /\ w[l] = s[l]
            BY <3>2, <3>4, <3>9, <4>3
          <5>2. Bool(~ Truthy(w[l])) = IF Is(s[l], TRUE) THEN Bool(FALSE)
                                       ELSE IF Is(s[l], FALSE) THEN Bool(TRUE) ELSE Null
            BY <3>2, <4>3, <5>1, MatchingNegation
          <5>3. w[i] = s[i] /\ w[i] \in Value /\ w[i].type = "boolean"
            BY <4>1, <4>3, <5>2, ValueTypes
          <5> QED
            BY <3>6, <5>3
        <4> QED
          BY <4>2, <4>3
      <3> QED
        BY <2>7, <3>7, <3>8, <3>9
    <2> QED
      BY <2>4, <2>5, <2>6, <2>7, NodeKinds
  <1>4. \A i \in Nat : i \in T
    <2> HIDE DEF T
    <2> QED
      BY <1>3, StrongInduction
  <1>5. Len(p) \in 1 .. Len(p) /\ Len(p) \in Nat
    BY DEF IsPredicate
  <1>6. Failed(w[Len(p)]) \/ w[Len(p)] = s[Len(p)]
    BY <1>4, <1>5 DEF Matches
  <1>7. ~ Failed(Walk(p, dict)) /\ Walk(p, dict) = Bool(FALSE)
    BY DEF Outcome, Failed
  <1> QED
    BY <1>1, <1>2, <1>6, <1>7 DEF Violates

-----------------------------------------------------------------------------
(***************************************************************************)
(* The inductive invariant of the pipeline.  Its parts: the types, with    *)
(* how far the loop can be in each phase; what the executions have left    *)
(* behind; what the checks that had their turn have contributed to the     *)
(* report; that a standing rejection has a cause; that the invariants were *)
(* evaluated on the cached result; and what the critic can have done.      *)
(***************************************************************************)
ApprovedReports == [flags : Seq(Finding), confidence : Approved, suggested_review : BOOLEAN]

LEMMA ReportsAreApproved == ReportType \subseteq ApprovedReports
  BY ConfidencesAreApproved DEF ReportType, ApprovedReports

Types ==
  /\ input \in Inputs
  /\ at \in 1 .. 13
  /\ phase \in {"checks", "critic", "done"}
  /\ phase = "checks" => at <= 12
  /\ phase = "critic" => at = 13
  /\ phase = "done" => at = 13 \/ HasBlocking(report)
  /\ report \in ApprovedReports
  /\ phase # "done" => report \in ReportType
  /\ critic_invoked \in BOOLEAN
  /\ critic_calls \in 0 .. 1

Cached == [columns : {"none", "star", "named"}, rows : Seq(Rows)]

Untried ==
  executions = <<>> /\ cache = NoResult /\ executed = FALSE /\ row_count = -1

FirstRunCounts ==
  /\ executions = <<"returned">> /\ executed = TRUE
  /\ cache \in Cached /\ cache.columns = Projection /\ row_count = Len(cache.rows)

SecondRunCounts ==
  /\ executions = <<"failed", "returned">> /\ executed = FALSE /\ row_count = -1
  /\ cache \in Cached /\ cache.columns = Projection

NothingCounts ==
  /\ executions \in {<<"failed">>, <<"failed", "failed">>}
  /\ cache = NoResult /\ executed = FALSE /\ row_count = -1

RunsInv ==
  /\ Untried \/ FirstRunCounts \/ SecondRunCounts \/ NothingCounts
  /\ at <= 11 \/ ~ HasConnector => Untried
  /\ at = 12 /\ HasConnector => executions \in {<<"failed">>, <<"returned">>}
  /\ at = 13 /\ HasConnector => executions # <<>>
  /\ NothingCounts \/ SecondRunCounts => HasBlocking(report)
  /\ HeldBack => cache = NoResult

(***************************************************************************)
(* What a report r must hold once the check at position k had its turn.    *)
(***************************************************************************)
Demand(k, r) ==
  CASE k = 1 -> ~ query.parses => HasBlocking(r)
    [] k = 3 -> Somewhere("unjoined") => HasBlocking(r)
    [] k = 4 -> Somewhere("nullableNotIn") => r.suggested_review
    [] k = 5 -> query.timestampEquality => r.suggested_review
    [] k = 6 -> (\E i \in 1 .. Len(query.selects) :
                   policy.pii /\ {"piiTable", "star"} \subseteq query.selects[i].features)
                => r.suggested_review
    [] k = 7 -> (\E i \in 1 .. Len(query.selects) :
                   policy.filters /\ query.selects[i].unfiltered # {})
                => r.suggested_review
    [] k = 8 -> Somewhere("unboundedScan") => r.suggested_review
    [] k = 9 -> input.question = "dated" /\ ~ Somewhere("dateColumn") => r.suggested_review
    [] k = 11 -> HeldBack /\ HasConnector => HasBlocking(r)
    [] OTHER -> TRUE

FloorInv == \A k \in 1 .. at - 1 : Demand(k, report)

VisibleCause == ~ query.parses \/ Somewhere("unjoined") \/ query.unknownTable

Cause ==
  \/ VisibleCause
  \/ executions # <<>> /\ executions[1] = "failed"
  \/ cache # NoResult /\ SampleViolates

CauseInv == PolicyIsWellTyped => (HasBlocking(report) => Cause)

JudgedInv ==
  at = 13 /\ cache # NoResult /\ policy.invariants # {}
    => ToSet(InvariantFlags(cache.rows)) \subseteq ToSet(report.flags)

NearReports == {r \in ReportType : NearNominal(r)}

CriticInv ==
  /\ phase # "done" => critic_calls = 0 /\ critic_invoked = FALSE
  /\ ~ critic_invoked => report \in NearReports

VInv == Types /\ RunsInv /\ FloorInv /\ CauseInv /\ JudgedInv /\ CriticInv

-----------------------------------------------------------------------------
(***************************************************************************)
(* What the checks hand to Report.add.                                     *)
(***************************************************************************)
LEMMA ShortenedRows ==
  ASSUME NEW rows \in Seq(Rows), NEW max_rows \in Nat
  PROVE  LET n    == IF Len(rows) < max_rows THEN Len(rows) ELSE max_rows
             kept == SubSeq(rows, 1, n)
         IN  /\ kept \in Seq(Rows) /\ Len(kept) = n
             /\ \A i \in 1 .. n : kept[i] = rows[i]
  <1> DEFINE n == IF Len(rows) < max_rows THEN Len(rows) ELSE max_rows
  <1>1. n \in 0 .. Len(rows) /\ Len(rows) \in Nat
    OBVIOUS
  <1> HIDE DEF n
  <1>2. /\ SubSeq(rows, 1, n) \in Seq(Rows) /\ Len(SubSeq(rows, 1, n)) = n
        /\ \A i \in 1 .. n : SubSeq(rows, 1, n)[i] = rows[i]
    BY <1>1
  <1> QED
    BY <1>2 DEF n

LEMMA FetchedRows ==
  ASSUME NEW max_rows \in Nat, NEW rows \in Fetched(max_rows)
  PROVE  rows \in Seq(Rows) /\ ~ HeldBack
  <1>1. \A r \in Results : r \in Seq(Rows)
    BY ResultsAssumption
  <1>2. ~ HeldBack
    BY DEF Fetched, HeldBack
  <1>3. \/ rows \in Results
        \/ \E r \in Results :
             rows = SubSeq(r, 1, IF Len(r) < max_rows THEN Len(r) ELSE max_rows)
    BY DEF Fetched
  <1> QED
    BY <1>1, <1>2, <1>3, ShortenedRows

LEMMA SampledRows ==
  ASSUME NEW rows \in Seq(Rows)
  PROVE  /\ \A i \in 1 .. Len(Sample(rows)) :
              /\ i \in DOMAIN rows /\ i <= SampleRows
              /\ Sample(rows)[i] = rows[i] /\ rows[i] \in Rows
         /\ \A i \in DOMAIN rows :
              i <= SampleRows => i \in 1 .. Len(Sample(rows)) /\ Sample(rows)[i] = rows[i]
  <1> DEFINE n == IF Len(rows) < SampleRows THEN Len(rows) ELSE SampleRows
             kept == Sample(rows)
  <1>1. SampleRows \in Nat /\ Len(rows) \in Nat /\ DOMAIN rows = 1 .. Len(rows)
    BY RowsAssumption
  <1>2. Len(kept) = n /\ \A i \in 1 .. n : kept[i] = rows[i]
    BY <1>1, ShortenedRows DEF Sample
  <1> HIDE DEF kept
  <1>3. \A i \in 1 .. Len(rows) : rows[i] \in Rows
    OBVIOUS
  <1> QED
    BY <1>1, <1>2, <1>3 DEF kept

LEMMA InvariantFlagsFacts ==
  ASSUME NEW rows \in Seq(Rows), input \in Inputs
  PROVE  /\ InvariantFlags(rows) \in Seq(Finding)
         /\ PolicyIsWellTyped /\ (\E f \in ToSet(InvariantFlags(rows)) : f.severity = "critical")
              => \E inv \in policy.invariants \ Unparsable : \E i \in DOMAIN rows :
                   i <= SampleRows /\ Violates(Predicate[inv], rows[i])
  <1> DEFINE failing == {inv \in policy.invariants : Yields(inv, rows, "fails")}
             n       == Cardinality(failing)
             info    == Flag("business_invariant", "info")
             crit    == Flag("business_invariant", "critical")
  <1>1. info \in Finding /\ crit \in Finding /\ info.severity = "info" /\ crit.severity = "critical"
    BY DEF Flag, Finding, CheckName, Severity
  <1>2. policy.invariants \subseteq Invariants
    BY InputsAssumption DEF Input, policy
  <1>3. IsFiniteSet(failing) /\ n \in Nat
    BY <1>2, FinitePolicyAssumption, FS_Subset, FS_CardinalityType
  <1>4. \/ InvariantFlags(rows) = <<>>
        \/ InvariantFlags(rows) = <<info>>
        \/ /\ policy.invariants \cap Unparsable = {}
           /\ InvariantFlags(rows) = [k \in 1 .. n |-> crit]
    BY DEF InvariantFlags
  <1>5. <<>> \in Seq(Finding) /\ <<info>> \in Seq(Finding) /\ [k \in 1 .. n |-> crit] \in Seq(Finding)
    <2> HIDE DEF info, crit, n
    <2> QED
      BY <1>1, <1>3
  <1>6. ASSUME PolicyIsWellTyped, NEW f \in ToSet(InvariantFlags(rows)), f.severity = "critical"
        PROVE  \E inv \in policy.invariants \ Unparsable : \E i \in DOMAIN rows :
                 i <= SampleRows /\ Violates(Predicate[inv], rows[i])
    <2>1. /\ policy.invariants \cap Unparsable = {}
          /\ InvariantFlags(rows) = [k \in 1 .. n |-> crit]
      <3>1. f \notin ToSet(<<>>)
        BY DEF ToSet
      <3>2. f \in ToSet(<<info>>) => f = info
        BY DEF ToSet
      <3> HIDE DEF info, crit, n
      <3> QED
        BY <1>1, <1>4, <1>6, <3>1, <3>2
    <2>2. 1 .. n # {}
      <3> HIDE DEF n, crit
      <3> QED
        BY <1>6, <2>1 DEF ToSet
    <2>3. failing # {}
      BY <1>3, <2>2, FS_EmptySet
    <2>4. PICK inv \in policy.invariants : Yields(inv, rows, "fails")
      BY <2>3
    <2>5. inv \in Invariants \ Unparsable
      BY <1>2, <2>1
    <2>6. PICK i \in 1 .. Len(Sample(rows)) : Outcome(Predicate[inv], AsDict(Sample(rows)[i])) = "fails"
      BY <2>4 DEF Yields
    <2>7. i \in DOMAIN rows /\ i <= SampleRows /\ Sample(rows)[i] = rows[i] /\ rows[i] \in Rows
      BY SampledRows
    <2>8. IsPredicate(Predicate[inv]) /\ IsRow(rows[i]) /\ WellTyped(Predicate[inv], rows[i])
      BY <1>6, <2>5, <2>7, PredicateAssumption, ResultsAssumption DEF PolicyIsWellTyped
    <2>9. AsDict(rows[i]) = rows[i] \/ DOMAIN AsDict(rows[i]) = {}
      BY DEF AsDict
    <2>10. Violates(Predicate[inv], rows[i])
      BY <2>6, <2>7, <2>8, <2>9, ReportedViolationIsOne
    <2> QED
      BY <2>5, <2>7, <2>10
  <1> HIDE DEF info, crit, n
  <1> QED
    BY <1>4, <1>5, <1>6

(***************************************************************************)
(* One flag, or none.                                                      *)
(***************************************************************************)
LEMMA OneFlag ==
  ASSUME NEW check \in CheckName, NEW severity \in Severity
  PROVE  /\ Flag(check, severity) \in Finding /\ Flag(check, severity).severity = severity
         /\ <<Flag(check, severity)>> \in Seq(Finding)
         /\ ToSet(<<Flag(check, severity)>>) = {Flag(check, severity)}
         /\ <<>> \in Seq(Finding) /\ ToSet(<<>>) = {}
  <1> DEFINE f == Flag(check, severity)
  <1>1. f \in Finding /\ f.severity = severity
    BY DEF Flag, Finding
  <1> HIDE DEF f
  <1>2. <<f>> \in Seq(Finding) /\ ToSet(<<f>>) = {f} /\ <<>> \in Seq(Finding) /\ ToSet(<<>>) = {}
    BY <1>1 DEF ToSet
  <1> QED
    BY <1>1, <1>2 DEF f

LEMMA FlagOrNone ==
  ASSUME NEW check \in CheckName, NEW severity \in Severity, NEW condition \in BOOLEAN
  PROVE  /\ FlagIf(condition, check, severity) \in Seq(Finding)
         /\ ToSet(FlagIf(condition, check, severity)) = IF condition THEN {Flag(check, severity)} ELSE {}
         /\ Flag(check, severity) \in Finding /\ Flag(check, severity).severity = severity
  BY OneFlag DEF FlagIf

(***************************************************************************)
(* A turn of a check that runs nothing: its flags, what they contribute to *)
(* the demands, and what a critical one among them rests on.               *)
(***************************************************************************)
Blocks(fs) == \E f \in ToSet(fs) : f.severity = "critical"
Asks(fs)   == \E f \in ToSet(fs) : f.severity \in {"error", "critical"}

Contributed(k, fs) ==
  CASE k \in {1, 3, 11}             -> Demand(k, report) \/ Blocks(fs)
    [] k \in {4, 5, 6, 7, 8, 9}     -> Demand(k, report) \/ Asks(fs)
    [] OTHER                        -> TRUE

StaticTurn(check, fs) ==
  /\ phase = "checks"
  /\ fs \in Seq(Finding)
  /\ Turn(check, fs)
  /\ KeepsResult
  /\ Contributed(at, fs)
  /\ Blocks(fs) => VisibleCause
  /\ at = 11 => ~ HasConnector
  /\ at = 12 => ~ HasConnector \/ policy.invariants = {}

LEMMA Selects ==
  ASSUME input \in Inputs
  PROVE  /\ query \in Query /\ query.selects \in Seq(Select) /\ Len(query.selects) \in Nat
         /\ \A i \in 1 .. Len(query.selects) :
              /\ query.selects[i] \in Select
              /\ query.selects[i].unfiltered \subseteq GovernedTables
              /\ IsFiniteSet(query.selects[i].unfiltered)
              /\ Cardinality(query.selects[i].unfiltered) \in Nat
              /\ query.selects[i].unfiltered # {} => Cardinality(query.selects[i].unfiltered) > 0
  <1>0. query \in Query
    BY InputsAssumption DEF Input, query
  <1>1. query \in Query /\ query.selects \in Seq(Select) /\ Len(query.selects) \in Nat
    <2>1. query.selects \in Seq(Select)
      BY <1>0 DEF Query
    <2> QED
      BY <1>0, <2>1
  <1>2. ASSUME NEW S \in SUBSET GovernedTables
        PROVE  IsFiniteSet(S) /\ Cardinality(S) \in Nat /\ (S # {} => Cardinality(S) > 0)
    <2>1. IsFiniteSet(S)
      BY FinitePolicyAssumption, FS_Subset
    <2>2. Cardinality(S) \in Nat /\ (Cardinality(S) = 0 <=> S = {})
      BY <2>1, FS_EmptySet, FS_CardinalityType
    <2> QED
      BY <2>1, <2>2
  <1>3. \A i \in 1 .. Len(query.selects) : query.selects[i] \in Select
    BY <1>1
  <1>4. \A x \in Select : x.unfiltered \in SUBSET GovernedTables
    BY DEF Select
  <1> QED
    BY <1>1, <1>2, <1>3, <1>4

(***************************************************************************)
(* A turn at a known position, by a check that answers at once.            *)
(***************************************************************************)
LEMMA Positions ==
  ASSUME NEW check, at \in 1 .. 12, DefaultChecks[at] = check
  PROVE  /\ check = "ast_parse" => at = 1
         /\ check = "schema_existence" => at = 2
         /\ check = "cartesian_join" => at = 3
         /\ check = "null_semantics" => at = 4
         /\ check = "timestamp_equality" => at = 5
         /\ check = "pii_access" => at = 6
         /\ check = "required_filter" => at = 7
         /\ check = "filter_required" => at = 8
         /\ check = "date_coverage" => at = 9
         /\ check = "explain_plan" => at = 10
         /\ check = "zero_row_execution" => at = 11
         /\ check = "business_invariant" => at = 12
         /\ at = 6 => check = "pii_access"
         /\ at = 7 => check = "required_filter"
         /\ at = 11 => check = "zero_row_execution"
         /\ at = 12 => check = "business_invariant"
         /\ at \in {1, 3, 4, 5, 8, 9} => Applies(check)
  BY DEF DefaultChecks, Applies

LEMMA SkipIsStatic ==
  ASSUME input \in Inputs, phase = "checks", at \in 1 .. 12, Skip
  PROVE  \E check, fs : StaticTurn(check, fs)
  <1> DEFINE c == DefaultChecks[at]
  <1>1. <<>> \in Seq(Finding) /\ ~ Blocks(<<>>)
    BY DEF Blocks, ToSet
  <1>2. Turn("skipped", <<>>) /\ KeepsResult /\ ~ Applies(c)
    BY DEF Skip
  <1>3. /\ at = 6 => c = "pii_access"
        /\ at = 7 => c = "required_filter"
        /\ at = 11 => c = "zero_row_execution"
        /\ at = 12 => c = "business_invariant"
        /\ at \notin {1, 3, 4, 5, 8, 9}
    BY <1>2, Positions
  <1> HIDE DEF c
  <1>4. /\ at = 6 => ~ policy.pii
        /\ at = 7 => ~ policy.filters
        /\ at = 11 => ~ HasConnector
        /\ at = 12 => ~ HasConnector \/ policy.invariants = {}
    BY <1>2, <1>3 DEF Applies
  <1>5. Contributed(at, <<>>)
    BY <1>3, <1>4 DEF Contributed, Demand
  <1> QED
    BY <1>1, <1>2, <1>4, <1>5 DEF StaticTurn

LEMMA AstParseIsStatic ==
  ASSUME input \in Inputs, phase = "checks", at \in 1 .. 12, AstParse
  PROVE  \E check, fs : StaticTurn(check, fs)
  <1> DEFINE fs == FlagIf(~ query.parses, "ast_parse", "critical")
  <1>1. at = 1 /\ Turn("ast_parse", fs) /\ KeepsResult
    BY Positions DEF AstParse, Running
  <1>2. "ast_parse" \in CheckName /\ "critical" \in Severity
    BY DEF CheckName, Severity
  <1>3. fs \in Seq(Finding) /\ (Blocks(fs) <=> ~ query.parses)
    BY <1>2, FlagOrNone DEF Blocks
  <1> HIDE DEF fs
  <1>4. Contributed(at, fs) /\ (Blocks(fs) => VisibleCause)
    BY <1>1, <1>3 DEF Contributed, Demand, VisibleCause
  <1> QED
    BY <1>1, <1>3, <1>4 DEF StaticTurn

LEMMA SchemaExistenceIsStatic ==
  ASSUME input \in Inputs, phase = "checks", at \in 1 .. 12, SchemaExistence
  PROVE  \E check, fs : StaticTurn(check, fs)
  <1>0. /\ "schema_existence" \in CheckName
        /\ "critical" \in Severity /\ "error" \in Severity /\ "info" \in Severity
    BY DEF CheckName, Severity
  <1>1. PICK catalogue \in {"raises", "tables", "columns"} :
          Turn("schema_existence",
               CASE catalogue = "raises" -> <<Flag("schema_existence", "info")>>
                 [] catalogue # "raises" /\ query.unknownTable -> <<Flag("schema_existence", "critical")>>
                 [] OTHER -> FlagIf(query.unknownColumn /\ catalogue = "columns",
                                    "schema_existence", "error"))
    BY DEF SchemaExistence
  <1>2. at = 2 /\ KeepsResult
    BY Positions DEF SchemaExistence, Running
  <1>3. query.unknownColumn \in BOOLEAN /\ query.unknownTable \in BOOLEAN
    BY Selects DEF Query
  <1>4. PICK fs :
          /\ Turn("schema_existence", fs)
          /\ \/ fs = <<Flag("schema_existence", "info")>>
             \/ query.unknownTable /\ fs = <<Flag("schema_existence", "critical")>>
             \/ \E condition \in BOOLEAN : fs = FlagIf(condition, "schema_existence", "error")
    <2>1. CASE catalogue = "raises"
      BY <1>1, <2>1
    <2>2. CASE catalogue # "raises" /\ query.unknownTable
      BY <1>1, <2>2
    <2>3. CASE catalogue # "raises" /\ ~ query.unknownTable
      <3>1. Turn("schema_existence", FlagIf(query.unknownColumn /\ catalogue = "columns",
                                            "schema_existence", "error"))
        BY <1>1, <2>3
      <3>2. (query.unknownColumn /\ catalogue = "columns") \in BOOLEAN
        BY <1>3
      <3> QED
        BY <3>1, <3>2, Zenon
    <2> QED
      BY <2>1, <2>2, <2>3
  <1>5. fs \in Seq(Finding) /\ (Blocks(fs) => query.unknownTable)
    <2>1. CASE fs = <<Flag("schema_existence", "info")>>
      BY <1>0, <2>1, OneFlag DEF Blocks
    <2>2. CASE query.unknownTable /\ fs = <<Flag("schema_existence", "critical")>>
      BY <1>0, <2>2, OneFlag DEF Blocks
    <2>3. CASE \E condition \in BOOLEAN : fs = FlagIf(condition, "schema_existence", "error")
      BY <1>0, <2>3, FlagOrNone DEF Blocks
    <2> QED
      BY <1>4, <2>1, <2>2, <2>3
  <1>6. Contributed(at, fs)
    BY <1>2 DEF Contributed, Demand
  <1> QED
    BY <1>2, <1>4, <1>5, <1>6 DEF StaticTurn, VisibleCause

(***************************************************************************)
(* The flags of all selects together, as PerSelect strings them.           *)
(***************************************************************************)
LEMMA SelectFlags ==
  ASSUME input \in Inputs, NEW seqs \in [1 .. Len(query.selects) -> Seq(Finding)]
  PROVE  /\ FlattenSeq(seqs) \in Seq(Finding)
         /\ Blocks(FlattenSeq(seqs)) <=> \E i \in 1 .. Len(query.selects) : Blocks(seqs[i])
         /\ Asks(FlattenSeq(seqs)) <=> \E i \in 1 .. Len(query.selects) : Asks(seqs[i])
  <1>1. seqs \in Seq(Seq(Finding)) /\ Len(seqs) = Len(query.selects)
    BY Selects
  <1>2. /\ FlattenSeq(seqs) \in Seq(Finding)
        /\ ToSet(FlattenSeq(seqs)) = UNION {ToSet(seqs[i]) : i \in 1 .. Len(query.selects)}
    BY <1>1, FlattenFindings
  <1> QED
    BY <1>2 DEF Blocks, Asks

LEMMA CartesianJoinIsStatic ==
  ASSUME input \in Inputs, phase = "checks", at \in 1 .. 12, CartesianJoin
  PROVE  \E check, fs : StaticTurn(check, fs)
  <1> DEFINE S(i) == query.selects[i].features
             Of(i) == FlagIf("crossJoin" \in S(i), "cartesian_join", "warn")
                      \o FlagIf("unjoined" \in S(i), "cartesian_join", "critical")
             seqs == [i \in 1 .. Len(query.selects) |-> Of(i)]
             fs == FlattenSeq(seqs)
  <1>1. at = 3 /\ Turn("cartesian_join", fs) /\ KeepsResult
    BY Positions DEF CartesianJoin, Running, PerSelect
  <1>2. "cartesian_join" \in CheckName /\ "critical" \in Severity /\ "warn" \in Severity
    BY DEF CheckName, Severity
  <1>3. ASSUME NEW i \in 1 .. Len(query.selects)
        PROVE  Of(i) \in Seq(Finding) /\ (Blocks(Of(i)) <=> "unjoined" \in S(i))
    <2>1. ASSUME NEW a \in BOOLEAN, NEW b \in BOOLEAN
          PROVE  LET both == FlagIf(a, "cartesian_join", "warn") \o FlagIf(b, "cartesian_join", "critical")
                 IN  both \in Seq(Finding) /\ (Blocks(both) <=> b)
      <3> DEFINE x == FlagIf(a, "cartesian_join", "warn")
                 y == FlagIf(b, "cartesian_join", "critical")
      <3>1. x \in Seq(Finding) /\ y \in Seq(Finding) /\ ~ Blocks(x) /\ (Blocks(y) <=> b)
        BY <1>2, FlagOrNone DEF Blocks
      <3> HIDE DEF x, y
      <3>2. x \o y \in Seq(Finding) /\ (Blocks(x \o y) <=> Blocks(x) \/ Blocks(y))
        BY <3>1, FindingsOfConcat DEF Blocks
      <3> QED
        BY <3>1, <3>2 DEF x, y
    <2>2. ("crossJoin" \in S(i)) \in BOOLEAN /\ ("unjoined" \in S(i)) \in BOOLEAN
      OBVIOUS
    <2> QED
      BY <2>1, <2>2
  <1>4. seqs \in [1 .. Len(query.selects) -> Seq(Finding)]
    BY <1>3
  <1>5. fs \in Seq(Finding) /\ (Blocks(fs) <=> \E i \in 1 .. Len(query.selects) : Blocks(seqs[i]))
    <2> HIDE DEF seqs
    <2> QED
      BY <1>4, SelectFlags
  <1>6. Blocks(fs) <=> Somewhere("unjoined")
    <2>1. \A i \in 1 .. Len(query.selects) : Blocks(seqs[i]) <=> "unjoined" \in query.selects[i].features
      BY <1>3
    <2> HIDE DEF seqs, fs
    <2> QED
      BY <1>5, <2>1 DEF Somewhere
  <1> HIDE DEF fs
  <1>7. Contributed(at, fs) /\ (Blocks(fs) => VisibleCause)
    BY <1>1, <1>6 DEF Contributed, Demand, VisibleCause
  <1> QED
    BY <1>1, <1>5, <1>7 DEF StaticTurn

LEMMA NullSemanticsIsStatic ==
  ASSUME input \in Inputs, phase = "checks", at \in 1 .. 12, NullSemantics
  PROVE  \E check, fs : StaticTurn(check, fs)
  <1> DEFINE S(i) == query.selects[i].features
             Of(i) == FlagIf("nullableNotIn" \in S(i), "null_semantics", "error")
                      \o FlagIf("neqDropsNull" \in S(i), "null_semantics", "warn")
             seqs == [i \in 1 .. Len(query.selects) |-> Of(i)]
             fs == FlattenSeq(seqs)
  <1>1. at = 4 /\ Turn("null_semantics", fs) /\ KeepsResult
    BY Positions DEF NullSemantics, Running, PerSelect
  <1>2. "null_semantics" \in CheckName /\ "error" \in Severity /\ "warn" \in Severity
    BY DEF CheckName, Severity
  <1>3. ASSUME NEW i \in 1 .. Len(query.selects)
        PROVE  Of(i) \in Seq(Finding) /\ ~ Blocks(Of(i)) /\ (Asks(Of(i)) <=> "nullableNotIn" \in S(i))
    <2>1. ASSUME NEW a \in BOOLEAN, NEW b \in BOOLEAN
          PROVE  LET both == FlagIf(a, "null_semantics", "error") \o FlagIf(b, "null_semantics", "warn")
                 IN  both \in Seq(Finding) /\ ~ Blocks(both) /\ (Asks(both) <=> a)
      <3> DEFINE x == FlagIf(a, "null_semantics", "error")
                 y == FlagIf(b, "null_semantics", "warn")
      <3>1. /\ x \in Seq(Finding) /\ y \in Seq(Finding) /\ ~ Blocks(x) /\ ~ Blocks(y)
            /\ ~ Asks(y) /\ (Asks(x) <=> a)
        BY <1>2, FlagOrNone DEF Blocks, Asks
      <3> HIDE DEF x, y
      <3>2. /\ x \o y \in Seq(Finding) /\ (Blocks(x \o y) <=> Blocks(x) \/ Blocks(y))
            /\ Asks(x \o y) <=> Asks(x) \/ Asks(y)
        BY <3>1, FindingsOfConcat DEF Blocks, Asks
      <3> QED
        BY <3>1, <3>2 DEF x, y
    <2>2. ("nullableNotIn" \in S(i)) \in BOOLEAN /\ ("neqDropsNull" \in S(i)) \in BOOLEAN
      OBVIOUS
    <2> QED
      BY <2>1, <2>2
  <1>4. seqs \in [1 .. Len(query.selects) -> Seq(Finding)]
    BY <1>3
  <1>5. /\ fs \in Seq(Finding)
        /\ Blocks(fs) <=> \E i \in 1 .. Len(query.selects) : Blocks(seqs[i])
        /\ Asks(fs) <=> \E i \in 1 .. Len(query.selects) : Asks(seqs[i])
    <2> HIDE DEF seqs
    <2> QED
      BY <1>4, SelectFlags
  <1>6. ~ Blocks(fs) /\ (Asks(fs) <=> Somewhere("nullableNotIn"))
    <2>1. \A i \in 1 .. Len(query.selects) :
            ~ Blocks(seqs[i]) /\ (Asks(seqs[i]) <=> "nullableNotIn" \in query.selects[i].features)
      BY <1>3
    <2> HIDE DEF seqs, fs
    <2> QED
      BY <1>5, <2>1 DEF Somewhere
  <1> HIDE DEF fs
  <1>7. Contributed(at, fs)
    BY <1>1, <1>6 DEF Contributed, Demand
  <1> QED
    BY <1>1, <1>5, <1>6, <1>7 DEF StaticTurn

LEMMA TimestampEqualityIsStatic ==
  ASSUME input \in Inputs, phase = "checks", at \in 1 .. 12, TimestampEquality
  PROVE  \E check, fs : StaticTurn(check, fs)
  <1> DEFINE fs == FlagIf(query.timestampEquality, "timestamp_equality", "error")
  <1>1. at = 5 /\ Turn("timestamp_equality", fs) /\ KeepsResult
    BY Positions DEF TimestampEquality, Running
  <1>2. /\ "timestamp_equality" \in CheckName /\ "error" \in Severity
        /\ query.timestampEquality \in BOOLEAN
    BY Selects DEF CheckName, Severity, Query
  <1>3. fs \in Seq(Finding) /\ ~ Blocks(fs) /\ (Asks(fs) <=> query.timestampEquality)
    BY <1>2, FlagOrNone DEF Blocks, Asks
  <1> HIDE DEF fs
  <1>4. Contributed(at, fs)
    BY <1>1, <1>3 DEF Contributed, Demand
  <1> QED
    BY <1>1, <1>3, <1>4 DEF StaticTurn

LEMMA PiiAccessIsStatic ==
  ASSUME input \in Inputs, phase = "checks", at \in 1 .. 12, PiiAccess
  PROVE  \E check, fs : StaticTurn(check, fs)
  <1> DEFINE S(i) == query.selects[i].features
             Of(i) == IF "piiTable" \notin S(i) THEN <<>>
                      ELSE IF "star" \in S(i) THEN <<Flag("pii_access", "error")>>
                      ELSE FlagIf("piiColumn" \in S(i), "pii_access", "warn")
             seqs == [i \in 1 .. Len(query.selects) |-> Of(i)]
             fs == FlattenSeq(seqs)
  <1>1. at = 6 /\ Turn("pii_access", fs) /\ KeepsResult
    BY Positions DEF PiiAccess, Running, PerSelect
  <1>2. "pii_access" \in CheckName /\ "error" \in Severity /\ "warn" \in Severity
    BY DEF CheckName, Severity
  <1>3. ASSUME NEW i \in 1 .. Len(query.selects)
        PROVE  /\ Of(i) \in Seq(Finding) /\ ~ Blocks(Of(i))
               /\ {"piiTable", "star"} \subseteq S(i) => Asks(Of(i))
    <2>1. ASSUME NEW b \in BOOLEAN
          PROVE  /\ FlagIf(b, "pii_access", "warn") \in Seq(Finding)
                 /\ ~ Blocks(FlagIf(b, "pii_access", "warn"))
      BY <1>2, FlagOrNone DEF Blocks
    <2>2. <<Flag("pii_access", "error")>> \in Seq(Finding) /\ <<>> \in Seq(Finding)
      BY <1>2, OneFlag
    <2>3. /\ Asks(<<Flag("pii_access", "error")>>) /\ ~ Blocks(<<Flag("pii_access", "error")>>)
          /\ ~ Blocks(<<>>)
      BY <1>2, OneFlag DEF Blocks, Asks
    <2>4. ("piiColumn" \in S(i)) \in BOOLEAN
      OBVIOUS
    <2>5. CASE "piiTable" \notin S(i)
      BY <2>2, <2>3, <2>5
    <2>6. CASE "piiTable" \in S(i) /\ "star" \in S(i)
      BY <2>2, <2>3, <2>6
    <2>7. CASE "piiTable" \in S(i) /\ "star" \notin S(i)
      BY <2>1, <2>4, <2>7
    <2> QED
      BY <2>5, <2>6, <2>7
  <1>4. seqs \in [1 .. Len(query.selects) -> Seq(Finding)]
    BY <1>3
  <1>5. /\ fs \in Seq(Finding)
        /\ Blocks(fs) <=> \E i \in 1 .. Len(query.selects) : Blocks(seqs[i])
        /\ Asks(fs) <=> \E i \in 1 .. Len(query.selects) : Asks(seqs[i])
    <2> HIDE DEF seqs
    <2> QED
      BY <1>4, SelectFlags
  <1>6. /\ ~ Blocks(fs)
        /\ (\E i \in 1 .. Len(query.selects) : {"piiTable", "star"} \subseteq S(i)) => Asks(fs)
    <2>1. \A i \in 1 .. Len(query.selects) :
            ~ Blocks(seqs[i]) /\ ({"piiTable", "star"} \subseteq S(i) => Asks(seqs[i]))
      BY <1>3
    <2> HIDE DEF seqs, fs
    <2> QED
      BY <1>5, <2>1
  <1> HIDE DEF fs
  <1>7. Contributed(at, fs)
    BY <1>1, <1>6 DEF Contributed, Demand
  <1> QED
    BY <1>1, <1>5, <1>6, <1>7 DEF StaticTurn

LEMMA RequiredFilterIsStatic ==
  ASSUME input \in Inputs, phase = "checks", at \in 1 .. 12, RequiredFilter
  PROVE  \E check, fs : StaticTurn(check, fs)
  <1> DEFINE error == Flag("required_filter", "error")
             N(i) == Cardinality(query.selects[i].unfiltered)
             Of(i) == [n \in 1 .. N(i) |-> error]
             seqs == [i \in 1 .. Len(query.selects) |-> Of(i)]
             fs == FlattenSeq(seqs)
  <1>1. at = 7 /\ Turn("required_filter", fs) /\ KeepsResult
    BY Positions DEF RequiredFilter, Running, PerSelect
  <1>2. error \in Finding /\ error.severity = "error"
    BY DEF Flag, Finding, CheckName, Severity
  <1>3. ASSUME NEW i \in 1 .. Len(query.selects)
        PROVE  /\ Of(i) \in Seq(Finding) /\ ~ Blocks(Of(i))
               /\ query.selects[i].unfiltered # {} => Asks(Of(i))
    <2>1. N(i) \in Nat /\ (query.selects[i].unfiltered # {} => N(i) > 0)
      BY Selects
    <2> HIDE DEF N, error
    <2>2. DOMAIN Of(i) = 1 .. N(i) /\ \A n \in 1 .. N(i) : Of(i)[n] = error
      OBVIOUS
    <2>3. N(i) > 0 => 1 \in DOMAIN Of(i) /\ Of(i)[1] = error
      BY <2>1, <2>2
    <2> QED
      BY <1>2, <2>1, <2>2, <2>3 DEF Blocks, Asks, ToSet
  <1>4. seqs \in [1 .. Len(query.selects) -> Seq(Finding)]
    <2> HIDE DEF Of
    <2> QED
      BY <1>3
  <1>5. /\ fs \in Seq(Finding)
        /\ Blocks(fs) <=> \E i \in 1 .. Len(query.selects) : Blocks(seqs[i])
        /\ Asks(fs) <=> \E i \in 1 .. Len(query.selects) : Asks(seqs[i])
    <2> HIDE DEF seqs
    <2> QED
      BY <1>4, SelectFlags
  <1>6. /\ ~ Blocks(fs)
        /\ (\E i \in 1 .. Len(query.selects) : query.selects[i].unfiltered # {}) => Asks(fs)
    <2>1. \A i \in 1 .. Len(query.selects) :
            ~ Blocks(seqs[i]) /\ (query.selects[i].unfiltered # {} => Asks(seqs[i]))
      <3> HIDE DEF Of
      <3> QED
        BY <1>3
    <2> HIDE DEF seqs, fs
    <2> QED
      BY <1>5, <2>1
  <1> HIDE DEF fs
  <1>7. Contributed(at, fs)
    BY <1>1, <1>6 DEF Contributed, Demand
  <1> QED
    BY <1>1, <1>5, <1>6, <1>7 DEF StaticTurn

LEMMA FilterRequiredIsStatic ==
  ASSUME input \in Inputs, phase = "checks", at \in 1 .. 12, FilterRequired
  PROVE  \E check, fs : StaticTurn(check, fs)
  <1> DEFINE S(i) == query.selects[i].features
             Of(i) == FlagIf("unboundedScan" \in S(i), "filter_required", "error")
             seqs == [i \in 1 .. Len(query.selects) |-> Of(i)]
             fs == FlattenSeq(seqs)
  <1>1. at = 8 /\ Turn("filter_required", fs) /\ KeepsResult
    BY Positions DEF FilterRequired, Running, PerSelect
  <1>2. "filter_required" \in CheckName /\ "error" \in Severity
    BY DEF CheckName, Severity
  <1>3. ASSUME NEW i \in 1 .. Len(query.selects)
        PROVE  /\ Of(i) \in Seq(Finding) /\ ~ Blocks(Of(i))
               /\ Asks(Of(i)) <=> "unboundedScan" \in S(i)
    <2>1. ASSUME NEW b \in BOOLEAN
          PROVE  /\ FlagIf(b, "filter_required", "error") \in Seq(Finding)
                 /\ ~ Blocks(FlagIf(b, "filter_required", "error"))
                 /\ Asks(FlagIf(b, "filter_required", "error")) <=> b
      BY <1>2, FlagOrNone DEF Blocks, Asks
    <2>2. ("unboundedScan" \in S(i)) \in BOOLEAN
      OBVIOUS
    <2> QED
      BY <2>1, <2>2
  <1>4. seqs \in [1 .. Len(query.selects) -> Seq(Finding)]
    BY <1>3
  <1>5. /\ fs \in Seq(Finding)
        /\ Blocks(fs) <=> \E i \in 1 .. Len(query.selects) : Blocks(seqs[i])
        /\ Asks(fs) <=> \E i \in 1 .. Len(query.selects) : Asks(seqs[i])
    <2> HIDE DEF seqs
    <2> QED
      BY <1>4, SelectFlags
  <1>6. ~ Blocks(fs) /\ (Asks(fs) <=> Somewhere("unboundedScan"))
    <2>1. \A i \in 1 .. Len(query.selects) :
            ~ Blocks(seqs[i]) /\ (Asks(seqs[i]) <=> "unboundedScan" \in query.selects[i].features)
      BY <1>3
    <2> HIDE DEF seqs, fs
    <2> QED
      BY <1>5, <2>1 DEF Somewhere
  <1> HIDE DEF fs
  <1>7. Contributed(at, fs)
    BY <1>1, <1>6 DEF Contributed, Demand
  <1> QED
    BY <1>1, <1>5, <1>6, <1>7 DEF StaticTurn

LEMMA DateCoverageIsStatic ==
  ASSUME input \in Inputs, phase = "checks", at \in 1 .. 12, DateCoverage
  PROVE  \E check, fs : StaticTurn(check, fs)
  <1> DEFINE missing == input.question = "dated" /\ ~ Somewhere("dateColumn")
             fs == FlagIf(missing, "date_coverage", "error")
  <1>1. at = 9 /\ Turn("date_coverage", fs) /\ KeepsResult
    BY Positions DEF DateCoverage, Running
  <1>2. "date_coverage" \in CheckName /\ "error" \in Severity /\ missing \in BOOLEAN
    BY DEF CheckName, Severity
  <1>3. fs \in Seq(Finding) /\ ~ Blocks(fs) /\ (Asks(fs) <=> missing)
    <2> HIDE DEF missing
    <2> QED
      BY <1>2, FlagOrNone DEF Blocks, Asks
  <1> HIDE DEF fs
  <1>4. Contributed(at, fs)
    BY <1>1, <1>3 DEF Contributed, Demand
  <1> QED
    BY <1>1, <1>3, <1>4 DEF StaticTurn

LEMMA ExplainPlanIsStatic ==
  ASSUME input \in Inputs, phase = "checks", at \in 1 .. 12, ExplainPlan
  PROVE  \E check, fs : StaticTurn(check, fs)
  <1>1. PICK plan : Turn("explain_plan",
                         FlagIf(\/ plan = "raises" /\ query.kind # "mutation"
                                \/ plan = "full_scan" /\ Somewhere("where"),
                                "explain_plan", "warn"))
    BY DEF ExplainPlan
  <1> DEFINE doubtful == \/ plan = "raises" /\ query.kind # "mutation"
                         \/ plan = "full_scan" /\ Somewhere("where")
             fs == FlagIf(doubtful, "explain_plan", "warn")
  <1>2. at = 10 /\ Turn("explain_plan", fs) /\ KeepsResult
    BY <1>1, Positions DEF ExplainPlan, Running
  <1>3. "explain_plan" \in CheckName /\ "warn" \in Severity /\ doubtful \in BOOLEAN
    BY DEF CheckName, Severity
  <1>4. fs \in Seq(Finding) /\ ~ Blocks(fs)
    <2> HIDE DEF doubtful
    <2> QED
      BY <1>3, FlagOrNone DEF Blocks
  <1> HIDE DEF fs
  <1>5. Contributed(at, fs)
    BY <1>2 DEF Contributed
  <1> QED
    BY <1>2, <1>4, <1>5 DEF StaticTurn

-----------------------------------------------------------------------------
(***************************************************************************)
(* The invariant is inductive: at first, then for a turn of any check, of  *)
(* those that run nothing, of the two that may run the statement, and for  *)
(* the critic.                                                             *)
(***************************************************************************)
LEMMA VerifyStarts == Init => VInv
  <1> SUFFICES ASSUME Init PROVE VInv
    OBVIOUS
  <1>0. /\ input \in Inputs /\ at = 1 /\ phase = "checks" /\ report = EmptyReport
        /\ critic_invoked = FALSE /\ critic_calls = 0 /\ Untried
    BY DEF Init, Untried
  <1>1. ~ HasBlocking(report)
    <2>1. report.flags = <<>> /\ Len(report.flags) = 0
      BY <1>0 DEF EmptyReport
    <2> QED
      BY <2>1 DEF HasBlocking
  <1>2. Types
    <2>1. at \in 1 .. 13 /\ at <= 12 /\ critic_calls \in 0 .. 1
      BY <1>0
    <2>2. critic_invoked \in BOOLEAN /\ report \in ReportType /\ report \in ApprovedReports
      BY <1>0, EmptyReportIsTyped, ReportsAreApproved
    <2> QED
      BY <1>0, <2>1, <2>2 DEF Types
  <1>3. RunsInv
    BY <1>0 DEF RunsInv, NothingCounts, SecondRunCounts, Untried
  <1>4. FloorInv
    BY <1>0 DEF FloorInv
  <1>5. CauseInv /\ JudgedInv
    BY <1>0, <1>1 DEF CauseInv, JudgedInv
  <1>6. CriticInv
    BY <1>0, EmptyReportIsTyped, EmptyIsNear DEF CriticInv, NearReports
  <1> QED
    BY <1>2, <1>3, <1>4, <1>5, <1>6 DEF VInv

(***************************************************************************)
(* What the flags of one turn do to the report and to the position.        *)
(***************************************************************************)
LEMMA TurnFacts ==
  ASSUME VInv, phase = "checks", NEW check, NEW fs \in Seq(Finding), Turn(check, fs)
  PROVE  /\ Types'
         /\ at' = at + 1 /\ at \in 1 .. 12
         /\ ToSet(report'.flags) = ToSet(report.flags) \cup ToSet(fs)
         /\ HasBlocking(report)' <=> HasBlocking(report) \/ Blocks(fs)
         /\ report.suggested_review \/ Asks(fs) => report'.suggested_review
         /\ CriticInv'
  <1>1. /\ at \in 1 .. 12 /\ input \in Inputs /\ report \in ReportType
        /\ critic_invoked = FALSE /\ critic_calls = 0 /\ report \in NearReports
    BY DEF VInv, Types, CriticInv
  <1>2. /\ at' = at + 1 /\ report' = Add(report, fs)
        /\ input' = input /\ critic_invoked' = critic_invoked /\ critic_calls' = critic_calls
    BY DEF Turn
  <1>3. /\ phase' \in {"checks", "critic", "done"}
        /\ phase' = "checks" => at # 12
        /\ phase' = "critic" => at = 12
        /\ phase' = "done" => HasBlocking(report')
    BY DEF Turn, DefaultChecks
  <1>4. /\ report' \in ReportType
        /\ ToSet(report'.flags) = ToSet(report.flags) \cup ToSet(fs)
        /\ report.suggested_review \/ Asks(fs) => report'.suggested_review
    BY <1>1, <1>2, AddFacts DEF Asks
  <1>5. HasBlocking(report') <=> HasBlocking(report) \/ Blocks(fs)
    BY <1>1, <1>2, AddBlocks DEF Blocks
  <1>6. report' \in NearReports
    BY <1>1, <1>2, <1>4, AddStaysNear DEF NearReports
  <1>7. HasBlocking(report)' <=> HasBlocking(report')
    BY DEF HasBlocking
  <1>8. Types'
    <2>1. /\ at' \in 1 .. 13
          /\ phase' = "checks" => at' <= 12
          /\ phase' = "critic" => at' = 13
      <3>1. at \in 1 .. 12 /\ at' = at + 1
        BY <1>1, <1>2
      <3> QED
        BY <1>3, <3>1
    <2>2. phase' = "done" => at' = 13 \/ HasBlocking(report)'
      BY <1>3, <1>7
    <2>3. critic_invoked' \in BOOLEAN
      BY <1>1, <1>2, Zenon
    <2>4. critic_calls' \in 0 .. 1
      BY <1>1, <1>2
    <2>5. report' \in ApprovedReports
      BY <1>4, ReportsAreApproved
    <2> QED
      BY <1>1, <1>2, <1>3, <1>4, <2>1, <2>2, <2>3, <2>4, <2>5 DEF Types
  <1>9. CriticInv'
    BY <1>1, <1>2, <1>6 DEF CriticInv
  <1> QED
    BY <1>1, <1>2, <1>4, <1>5, <1>7, <1>8, <1>9

LEMMA TurnKeepsFloor ==
  ASSUME VInv, phase = "checks", NEW check, NEW fs \in Seq(Finding), Turn(check, fs),
         Contributed(at, fs)
  PROVE  FloorInv'
  <1>1. /\ at' = at + 1 /\ at \in 1 .. 12 /\ input' = input
        /\ HasBlocking(report)' <=> HasBlocking(report) \/ Blocks(fs)
        /\ report.suggested_review \/ Asks(fs) => report'.suggested_review
    BY TurnFacts DEF Turn
  <1>2. query' = query /\ policy' = policy /\ HasConnector' = HasConnector /\ HeldBack' = HeldBack
    BY <1>1 DEF query, policy, HasConnector, HeldBack
  <1>3. \A feature : Somewhere(feature)' = Somewhere(feature)
    BY <1>2 DEF Somewhere
  <1>4. ASSUME NEW k \in 1 .. at PROVE Demand(k, report)'
    <2>1. k < at => Demand(k, report)
      BY <1>1 DEF VInv, FloorInv
    <2>2. k \in 1 .. 12 /\ (k < at \/ k = at)
      BY <1>1
    <2>3. CASE k \in {1, 3, 11}
      <3>1. Demand(k, report) \/ Blocks(fs)
        BY <2>1, <2>2, <2>3 DEF Contributed
      <3> QED
        BY <1>1, <1>2, <1>3, <2>3, <3>1 DEF Demand
    <2>4. CASE k \in {4, 5, 6, 7, 8, 9}
      <3>1. Demand(k, report) \/ Asks(fs)
        BY <2>1, <2>2, <2>4 DEF Contributed
      <3> QED
        BY <1>1, <1>2, <1>3, <2>4, <3>1 DEF Demand
    <2>5. CASE k \in {2, 10, 12}
      BY <2>5 DEF Demand
    <2> QED
      BY <2>2, <2>3, <2>4, <2>5
  <1>5. at' - 1 = at
    BY <1>1
  <1> QED
    BY <1>4, <1>5 DEF FloorInv

LEMMA InputIsFixed ==
  ASSUME input' = input
  PROVE  /\ query' = query /\ policy' = policy
         /\ HasConnector' <=> HasConnector
         /\ HeldBack' <=> HeldBack
         /\ Projection' = Projection
         /\ VisibleCause' <=> VisibleCause
         /\ cache' = cache => (SampleViolates' <=> SampleViolates)
  <1>1. query' = query /\ policy' = policy
    BY DEF query, policy
  <1>2. HasConnector' <=> HasConnector
    BY DEF HasConnector
  <1>3. Projection' = Projection
    BY <1>1 DEF Projection
  <1>4. VisibleCause' <=> VisibleCause
    BY <1>1 DEF VisibleCause, Somewhere
  <1>5. cache' = cache => (SampleViolates' <=> SampleViolates)
    BY <1>1 DEF SampleViolates
  <1>6. HeldBack' <=> HeldBack
    BY <1>1 DEF HeldBack
  <1> QED
    BY <1>1, <1>2, <1>3, <1>4, <1>5, <1>6

LEMMA KeptResult ==
  ASSUME input' = input, KeepsResult
  PROVE  /\ Untried' <=> Untried
         /\ FirstRunCounts' <=> FirstRunCounts
         /\ SecondRunCounts' <=> SecondRunCounts
         /\ NothingCounts' <=> NothingCounts
         /\ Cause => Cause'
         /\ VisibleCause => Cause'
  <1>1. /\ cache' = cache /\ executions' = executions /\ executed' = executed
        /\ row_count' = row_count
    BY DEF KeepsResult
  <1>2. Untried' <=> Untried
    BY <1>1 DEF Untried
  <1>3. FirstRunCounts' <=> FirstRunCounts
    BY <1>1, InputIsFixed DEF FirstRunCounts
  <1>4. SecondRunCounts' <=> SecondRunCounts
    BY <1>1, InputIsFixed DEF SecondRunCounts
  <1>5. NothingCounts' <=> NothingCounts
    BY <1>1 DEF NothingCounts
  <1>6. Cause => Cause'
    BY <1>1, InputIsFixed DEF Cause
  <1>7. VisibleCause => Cause'
    BY InputIsFixed DEF Cause
  <1> QED
    BY <1>2, <1>3, <1>4, <1>5, <1>6, <1>7

LEMMA StaticTurnKeeps ==
  ASSUME VInv, NEW check, NEW fs, StaticTurn(check, fs)
  PROVE  VInv'
  <1>1. /\ phase = "checks" /\ fs \in Seq(Finding) /\ Turn(check, fs) /\ KeepsResult
        /\ Contributed(at, fs)
        /\ Blocks(fs) => VisibleCause
        /\ at = 11 => ~ HasConnector
        /\ at = 12 => ~ HasConnector \/ policy.invariants = {}
    BY DEF StaticTurn
  <1>2. /\ Types' /\ CriticInv' /\ FloorInv'
        /\ at' = at + 1 /\ at \in 1 .. 12
        /\ HasBlocking(report)' <=> HasBlocking(report) \/ Blocks(fs)
    BY <1>1, TurnFacts, TurnKeepsFloor
  <1>3. input' = input /\ cache' = cache /\ executions' = executions
    BY <1>1 DEF Turn, KeepsResult
  <1>4. /\ query' = query /\ policy' = policy /\ (HasConnector' <=> HasConnector)
        /\ HeldBack' <=> HeldBack
    BY <1>3, InputIsFixed
  <1>5. RunsInv'
    <2>1. /\ Untried \/ FirstRunCounts \/ SecondRunCounts \/ NothingCounts
          /\ at <= 11 \/ ~ HasConnector => Untried
          /\ NothingCounts \/ SecondRunCounts => HasBlocking(report)
          /\ HeldBack => cache = NoResult
      BY DEF VInv, RunsInv
    <2>2. /\ at' <= 11 \/ ~ HasConnector' => Untried'
          /\ at' = 12 => ~ HasConnector'
      BY <1>1, <1>2, <1>3, <1>4, <2>1, KeptResult
    <2>3. /\ Untried' \/ FirstRunCounts' \/ SecondRunCounts' \/ NothingCounts'
          /\ NothingCounts' \/ SecondRunCounts' => HasBlocking(report)'
      BY <1>1, <1>2, <1>3, <2>1, KeptResult
    <2>4. HeldBack' => cache' = NoResult
      BY <1>3, <1>4, <2>1
    <2>5. at' = 13 /\ HasConnector' => executions' # <<>>
      <3>1. at = 12 /\ HasConnector => executions \in {<<"failed">>, <<"returned">>}
        BY DEF VInv, RunsInv
      <3> QED
        BY <1>2, <1>3, <1>4, <3>1
    <2> QED
      BY <2>2, <2>3, <2>4, <2>5 DEF RunsInv
  <1>6. CauseInv'
    <2>1. PolicyIsWellTyped => (HasBlocking(report) => Cause)
      BY DEF VInv, CauseInv
    <2>2. PolicyIsWellTyped => (HasBlocking(report)' => Cause')
      BY <1>1, <1>2, <1>3, <2>1, KeptResult
    <2> QED
      BY <2>2 DEF CauseInv, PolicyIsWellTyped
  <1>7. JudgedInv'
    <2>1. ~ HasConnector => cache = NoResult
      BY DEF VInv, RunsInv, Untried
    <2>2. at' = 13 => cache' = NoResult \/ policy'.invariants = {}
      BY <1>1, <1>2, <1>3, <1>4, <2>1
    <2> QED
      BY <2>2 DEF JudgedInv
  <1> QED
    BY <1>2, <1>5, <1>6, <1>7 DEF VInv

(***************************************************************************)
(* The two checks that may run the statement.                              *)
(***************************************************************************)
LEMMA CachedResult ==
  ASSUME NEW rows \in Seq(Rows)
  PROVE  LET result == [columns |-> Projection, rows |-> rows]
         IN  /\ result \in Cached /\ result # NoResult
             /\ result.columns = Projection /\ result.rows = rows
  <1>1. Projection \in {"none", "star", "named"}
    BY DEF Projection
  <1> DEFINE result == [columns |-> Projection, rows |-> rows]
  <1>2. result \in Cached /\ result.columns = Projection /\ result.rows = rows
    BY <1>1 DEF Cached
  <1>3. NoResult.columns = "unknown"
    BY DEF NoResult
  <1>4. result # NoResult
    <2> HIDE DEF result
    <2> QED
      BY <1>1, <1>2, <1>3
  <1> QED
    BY <1>2, <1>4

LEMMA CachedIsResult == NoResult \notin Cached
  <1>1. NoResult.columns = "unknown"
    BY DEF NoResult
  <1>2. \A c \in Cached : c.columns \in {"none", "star", "named"}
    BY DEF Cached
  <1> QED
    BY <1>1, <1>2

LEMMA ZeroRowKeeps ==
  ASSUME VInv, ZeroRowExecution
  PROVE  VInv'
  <1>1. /\ phase = "checks" /\ at \in 1 .. 12 /\ input \in Inputs
        /\ DefaultChecks[at] = "zero_row_execution" /\ Applies("zero_row_execution")
    BY DEF VInv, Types, ZeroRowExecution, Running
  <1>2. at = 11 /\ HasConnector
    BY <1>1, Positions DEF Applies
  <1>3. Untried
    BY <1>2 DEF VInv, RunsInv
  <1>4. PolicyIsWellTyped => (HasBlocking(report) => VisibleCause)
    BY <1>3 DEF VInv, CauseInv, Cause, Untried
  <1>5. "zero_row_execution" \in CheckName /\ "critical" \in Severity /\ "warn" \in Severity
    BY DEF CheckName, Severity
  <1>6. CASE ExecutionFails /\ Turn("zero_row_execution", <<Flag("zero_row_execution", "critical")>>)
    <2> DEFINE fs == <<Flag("zero_row_execution", "critical")>>
    <2>1. fs \in Seq(Finding) /\ Blocks(fs)
      BY <1>5, OneFlag DEF Blocks
    <2>2. Contributed(at, fs)
      BY <1>2, <2>1 DEF Contributed
    <2>3. /\ Types' /\ CriticInv' /\ FloorInv' /\ at' = 12 /\ HasBlocking(report)'
      <3> HIDE DEF fs
      <3>1. Turn("zero_row_execution", fs)
        BY <1>6 DEF fs
      <3> QED
        BY <1>1, <1>2, <2>1, <2>2, <3>1, TurnFacts, TurnKeepsFloor
    <2>4. /\ executions' = <<"failed">> /\ cache' = NoResult
          /\ executed' = FALSE /\ row_count' = -1 /\ input' = input
      BY <1>3, <1>6 DEF ExecutionFails, Untried, Turn
    <2>5. NothingCounts'
      BY <2>4 DEF NothingCounts
    <2>6. HasConnector'
      BY <1>2, <2>4, InputIsFixed
    <2>7. RunsInv'
      BY <2>3, <2>4, <2>5, <2>6 DEF RunsInv
    <2>8. Cause'
      BY <2>4 DEF Cause
    <2>9. CauseInv' /\ JudgedInv'
      BY <2>3, <2>8 DEF CauseInv, JudgedInv
    <2> QED
      BY <2>3, <2>7, <2>9 DEF VInv
  <1>7. ASSUME NEW rows \in Fetched(ExecRows), ExecutionReturns(rows),
               executed' = TRUE, row_count' = Len(rows),
               Turn("zero_row_execution", FlagIf(rows = <<>>, "zero_row_execution", "warn"))
        PROVE  VInv'
    <2> DEFINE fs == FlagIf(rows = <<>>, "zero_row_execution", "warn")
    <2>1. rows \in Seq(Rows) /\ ~ HeldBack
      BY RowsAssumption, FetchedRows
    <2>2. fs \in Seq(Finding) /\ ~ Blocks(fs)
      <3>1. (rows = <<>>) \in BOOLEAN
        OBVIOUS
      <3>2. \A b \in BOOLEAN : FlagIf(b, "zero_row_execution", "warn") \in Seq(Finding)
                              /\ ~ Blocks(FlagIf(b, "zero_row_execution", "warn"))
        BY <1>5, FlagOrNone DEF Blocks
      <3> QED
        BY <3>1, <3>2, Zenon
    <2>3. Contributed(at, fs)
      BY <1>2, <2>1 DEF Contributed, Demand
    <2>4. /\ Types' /\ CriticInv' /\ FloorInv' /\ at' = 12
          /\ HasBlocking(report)' <=> HasBlocking(report)
      <3> HIDE DEF fs
      <3>1. Turn("zero_row_execution", fs)
        BY <1>7 DEF fs
      <3> QED
        BY <1>1, <1>2, <2>2, <2>3, <3>1, TurnFacts, TurnKeepsFloor
    <2>5. /\ executions' = <<"returned">> /\ cache' = [columns |-> Projection, rows |-> rows]
          /\ executed' = TRUE /\ row_count' = Len(rows) /\ input' = input
      BY <1>3, <1>7 DEF ExecutionReturns, Untried, Turn
    <2>6. /\ cache' \in Cached /\ cache' # NoResult
          /\ cache'.columns = Projection /\ cache'.rows = rows
      BY <2>1, <2>5, CachedResult
    <2>7. query' = query /\ (HasConnector' <=> HasConnector) /\ Projection' = Projection
          /\ (VisibleCause' <=> VisibleCause) /\ (HeldBack' <=> HeldBack)
      BY <2>5, InputIsFixed
    <2>8. FirstRunCounts'
      BY <2>5, <2>6, <2>7 DEF FirstRunCounts
    <2>9. ~ NothingCounts' /\ ~ SecondRunCounts'
      BY <2>5 DEF NothingCounts, SecondRunCounts
    <2>10. RunsInv'
      BY <1>2, <2>1, <2>4, <2>5, <2>7, <2>8, <2>9 DEF RunsInv
    <2>11. CauseInv'
      BY <1>4, <2>4, <2>7 DEF CauseInv, Cause, PolicyIsWellTyped
    <2>12. JudgedInv'
      BY <2>4 DEF JudgedInv
    <2> QED
      BY <2>4, <2>10, <2>11, <2>12 DEF VInv
  <1> QED
    BY <1>6, <1>7 DEF ZeroRowExecution

LEMMA SecondRun ==
  ASSUME NEW S, NEW first \in S, NEW second \in S
  PROVE  Append(<<first>>, second) = <<first, second>>
  <1> DEFINE x == Append(<<first>>, second)
             y == <<first, second>>
  <1>1. x \in Seq(S) /\ Len(x) = 2 /\ x[1] = first /\ x[2] = second
    OBVIOUS
  <1>2. y \in Seq(S) /\ Len(y) = 2 /\ y[1] = first /\ y[2] = second
    OBVIOUS
  <1> HIDE DEF x, y
  <1>3. \A i \in 1 .. 2 : x[i] = y[i]
    BY <1>1, <1>2
  <1>4. x = [i \in 1 .. Len(x) |-> x[i]] /\ y = [i \in 1 .. Len(y) |-> y[i]]
    BY <1>1, <1>2
  <1>5. [i \in 1 .. 2 |-> x[i]] = [i \in 1 .. 2 |-> y[i]]
    BY <1>3
  <1> QED
    BY <1>1, <1>2, <1>4, <1>5 DEF x, y

LEMMA FlagsOfSameRows ==
  ASSUME input' = input, NEW rows, cache'.rows = rows
  PROVE  InvariantFlags(cache.rows)' = InvariantFlags(rows)
  <1>1. policy' = policy /\ Projection' = Projection
    BY InputIsFixed
  <1> QED
    BY <1>1 DEF InvariantFlags, Yields, AsDict

LEMMA BusinessInvariantKeeps ==
  ASSUME VInv, BusinessInvariant
  PROVE  VInv'
  <1>1. /\ phase = "checks" /\ at \in 1 .. 12 /\ input \in Inputs /\ report \in ReportType
        /\ DefaultChecks[at] = "business_invariant" /\ Applies("business_invariant")
    BY DEF VInv, Types, BusinessInvariant, Running
  <1>2. at = 12 /\ HasConnector /\ policy.invariants # {}
    BY <1>1, Positions DEF Applies
  <1>3. /\ FirstRunCounts \/ NothingCounts
        /\ executions \in {<<"failed">>, <<"returned">>}
        /\ NothingCounts => HasBlocking(report)
        /\ HeldBack => cache = NoResult
    BY <1>2 DEF VInv, RunsInv, Untried, SecondRunCounts
  <1>4. PolicyIsWellTyped => (HasBlocking(report) => Cause)
    BY DEF VInv, CauseInv
  <1>5. "business_invariant" \in CheckName /\ "warn" \in Severity
    BY DEF CheckName, Severity
  <1>6. ASSUME NEW fs \in Seq(Finding), Turn("business_invariant", fs)
        PROVE  /\ Types' /\ CriticInv' /\ FloorInv' /\ at' = 13 /\ input' = input
               /\ ToSet(report'.flags) = ToSet(report.flags) \cup ToSet(fs)
               /\ HasBlocking(report)' <=> HasBlocking(report) \/ Blocks(fs)
               /\ query' = query /\ (HasConnector' <=> HasConnector) /\ Projection' = Projection
               /\ policy' = policy /\ (HeldBack' <=> HeldBack)
    <2>1. Contributed(at, fs)
      BY <1>2 DEF Contributed
    <2>2. input' = input
      BY <1>6 DEF Turn
    <2> QED
      BY <1>1, <1>2, <1>6, <2>1, <2>2, TurnFacts, TurnKeepsFloor, InputIsFixed
  <1>7. CASE cache # NoResult /\ Turn("business_invariant", InvariantFlags(cache.rows)) /\ KeepsResult
    <2> DEFINE fs == InvariantFlags(cache.rows)
    <2>1. FirstRunCounts /\ cache \in Cached /\ cache.rows \in Seq(Rows)
      BY <1>3, <1>7 DEF NothingCounts, FirstRunCounts, Cached
    <2>2. /\ fs \in Seq(Finding)
          /\ PolicyIsWellTyped /\ Blocks(fs) => SampleViolates
      BY <1>1, <2>1, InvariantFlagsFacts DEF Blocks, SampleViolates
    <2>3. Turn("business_invariant", fs)
      BY <1>7
    <2>4. cache' = cache /\ KeepsResult
      BY <1>7 DEF KeepsResult
    <2>5. InvariantFlags(cache.rows)' = fs
      BY <1>6, <2>2, <2>3, <2>4, FlagsOfSameRows
    <2> HIDE DEF fs
    <2>6. RunsInv'
      <3>1. FirstRunCounts' /\ ~ Untried' /\ ~ NothingCounts' /\ ~ SecondRunCounts'
        BY <1>6, <1>7, <2>1, <2>2, <2>3, KeptResult
           DEF FirstRunCounts, Untried, NothingCounts, SecondRunCounts
      <3>2. ~ HeldBack' /\ HasConnector' /\ at' = 13
        BY <1>2, <1>3, <1>6, <1>7, <2>2, <2>3
      <3>3. executions' # <<>>
        BY <1>3, <1>7 DEF KeepsResult
      <3> QED
        BY <3>1, <3>2, <3>3 DEF RunsInv
    <2>7. CauseInv'
      <3>1. SampleViolates' <=> SampleViolates
        BY <1>6, <2>2, <2>3, <2>4, InputIsFixed
      <3>2. PolicyIsWellTyped /\ Blocks(fs) => Cause'
        BY <1>7, <2>2, <2>4, <3>1 DEF Cause
      <3>3. PolicyIsWellTyped => (HasBlocking(report)' => Cause')
        BY <1>4, <1>6, <2>2, <2>3, <2>4, <3>2, KeptResult
      <3> QED
        BY <3>3 DEF CauseInv, PolicyIsWellTyped
    <2>8. JudgedInv'
      BY <1>6, <2>2, <2>3, <2>5 DEF JudgedInv
    <2> QED
      BY <1>6, <2>2, <2>3, <2>6, <2>7, <2>8 DEF VInv
  <1>8. ASSUME cache = NoResult
        PROVE  /\ NothingCounts /\ executions = <<"failed">> /\ HasBlocking(report)
               /\ executed = FALSE /\ row_count = -1
    <2>1. NothingCounts
      BY <1>3, <1>8, CachedIsResult DEF FirstRunCounts
    <2>2. executions # <<"returned">>
      BY <2>1 DEF NothingCounts
    <2>3. executed = FALSE /\ row_count = -1
      BY <2>1 DEF NothingCounts
    <2> QED
      BY <1>3, <2>1, <2>2, <2>3
  <1>9. CASE /\ cache = NoResult /\ ExecutionFails
             /\ Turn("business_invariant", <<Flag("business_invariant", "warn")>>)
    <2> DEFINE fs == <<Flag("business_invariant", "warn")>>
    <2>1. fs \in Seq(Finding) /\ Turn("business_invariant", fs)
      BY <1>5, <1>9, OneFlag
    <2> HIDE DEF fs
    <2>2. /\ executions' = <<"failed", "failed">> /\ cache' = NoResult
          /\ executed' = FALSE /\ row_count' = -1
      <3>1. executions' = <<"failed", "failed">> /\ cache' = NoResult
        <4>1. Append(<<"failed">>, "failed") = <<"failed", "failed">>
          <5>1. "failed" \in {"failed"}
            OBVIOUS
          <5> QED
            BY <5>1, SecondRun
        <4> QED
          BY <1>8, <1>9, <4>1 DEF ExecutionFails
      <3>2. executed' = executed /\ row_count' = row_count
        BY <1>9 DEF ExecutionFails
      <3>3. executed' = FALSE /\ row_count' = -1
        BY <1>8, <1>9, <3>2, Zenon
      <3> QED
        BY <3>1, <3>3
    <2>3. NothingCounts' /\ HasBlocking(report)' /\ HasConnector' /\ at' = 13
      BY <1>2, <1>6, <1>8, <1>9, <2>1, <2>2 DEF NothingCounts
    <2>4. RunsInv'
      BY <2>2, <2>3 DEF RunsInv
    <2>5. Cause'
      BY <2>2 DEF Cause
    <2>6. CauseInv' /\ JudgedInv'
      BY <2>2, <2>5 DEF CauseInv, JudgedInv
    <2> QED
      BY <1>6, <2>1, <2>4, <2>6 DEF VInv
  <1>10. ASSUME cache = NoResult, NEW rows \in Fetched(SampleRows), ExecutionReturns(rows),
                Turn("business_invariant", InvariantFlags(rows)),
                executed' = executed, row_count' = row_count
         PROVE  VInv'
    <2> DEFINE fs == InvariantFlags(rows)
    <2>1. rows \in Seq(Rows) /\ ~ HeldBack
      BY RowsAssumption, FetchedRows
    <2>2. fs \in Seq(Finding) /\ Turn("business_invariant", fs)
      BY <1>1, <1>10, <2>1, InvariantFlagsFacts
    <2>3. /\ executions' = <<"failed", "returned">>
          /\ cache' = [columns |-> Projection, rows |-> rows]
          /\ executed' = FALSE /\ row_count' = -1
      <3>1. /\ executions' = <<"failed", "returned">>
            /\ cache' = [columns |-> Projection, rows |-> rows]
        <4>1. Append(<<"failed">>, "returned") = <<"failed", "returned">>
          <5>1. "failed" \in {"failed", "returned"} /\ "returned" \in {"failed", "returned"}
            OBVIOUS
          <5> QED
            BY <5>1, SecondRun
        <4> QED
          BY <1>8, <1>10, <4>1 DEF ExecutionReturns
      <3>2. executed' = FALSE /\ row_count' = -1
        BY <1>8, <1>10, Zenon
      <3> QED
        BY <3>1, <3>2
    <2>4. /\ cache' \in Cached /\ cache' # NoResult
          /\ cache'.columns = Projection /\ cache'.rows = rows
      BY <2>1, <2>3, CachedResult
    <2>5. InvariantFlags(cache.rows)' = fs
      BY <1>6, <2>2, <2>4, FlagsOfSameRows
    <2> HIDE DEF fs
    <2>6. SecondRunCounts' /\ HasBlocking(report)' /\ HasConnector' /\ at' = 13 /\ ~ HeldBack'
      BY <1>2, <1>6, <1>8, <1>10, <2>1, <2>2, <2>3, <2>4 DEF SecondRunCounts
    <2>7. RunsInv'
      BY <2>3, <2>6 DEF RunsInv
    <2>8. Cause'
      BY <2>3 DEF Cause
    <2>9. CauseInv'
      BY <2>8 DEF CauseInv
    <2>10. JudgedInv'
      BY <1>6, <2>2, <2>5 DEF JudgedInv
    <2> QED
      BY <1>6, <2>2, <2>7, <2>9, <2>10 DEF VInv
  <1> QED
    BY <1>7, <1>9, <1>10 DEF BusinessInvariant

(***************************************************************************)
(* The end of the call, with or without the critic.                        *)
(***************************************************************************)
LEMMA EndKeeps ==
  ASSUME VInv, phase = "critic", CriticKeeps, phase' = "done",
         report' \in ApprovedReports,
         ToSet(report.flags) \subseteq ToSet(report'.flags),
         HasBlocking(report)' <=> HasBlocking(report),
         report.suggested_review => report'.suggested_review,
         critic_invoked' \in BOOLEAN, critic_calls' \in 0 .. 1,
         ~ critic_invoked' => report' \in NearReports
  PROVE  VInv'
  <1>1. /\ input' = input /\ at' = at /\ executed' = executed /\ row_count' = row_count
        /\ cache' = cache /\ executions' = executions /\ KeepsResult
    BY DEF CriticKeeps, KeepsResult
  <1>2. at = 13 /\ input \in Inputs
    BY DEF VInv, Types
  <1>3. /\ query' = query /\ policy' = policy /\ (HasConnector' <=> HasConnector)
        /\ HeldBack' <=> HeldBack
    BY <1>1, InputIsFixed
  <1>4. Types'
    BY <1>1, <1>2 DEF Types
  <1>5. RunsInv'
    <2>1. /\ Untried \/ FirstRunCounts \/ SecondRunCounts \/ NothingCounts
          /\ ~ HasConnector => Untried
          /\ HasConnector => executions # <<>>
          /\ NothingCounts \/ SecondRunCounts => HasBlocking(report)
          /\ HeldBack => cache = NoResult
      BY <1>2 DEF VInv, RunsInv
    <2>2. /\ Untried' \/ FirstRunCounts' \/ SecondRunCounts' \/ NothingCounts'
          /\ ~ HasConnector' => Untried'
          /\ HasConnector' => executions' # <<>>
          /\ NothingCounts' \/ SecondRunCounts' => HasBlocking(report)'
      BY <1>1, <1>3, <2>1, KeptResult
    <2>3. HeldBack' => cache' = NoResult
      BY <1>1, <1>3, <2>1
    <2>4. at' = 13
      BY <1>1, <1>2
    <2> QED
      BY <2>2, <2>3, <2>4 DEF RunsInv
  <1>6. FloorInv'
    <2>1. \A feature : Somewhere(feature)' = Somewhere(feature)
      BY <1>3 DEF Somewhere
    <2>2. ASSUME NEW k \in 1 .. 12 PROVE Demand(k, report)'
      <3>1. Demand(k, report)
        BY <1>2 DEF VInv, FloorInv
      <3>2. CASE k \in {1, 3, 11}
        BY <1>1, <1>3, <2>1, <3>1, <3>2 DEF Demand
      <3>3. CASE k \in {4, 5, 6, 7, 8, 9}
        BY <1>1, <1>3, <2>1, <3>1, <3>3 DEF Demand
      <3>4. CASE k \in {2, 10, 12}
        BY <3>4 DEF Demand
      <3> QED
        BY <3>2, <3>3, <3>4
    <2>3. 1 .. at' - 1 = 1 .. 12
      BY <1>1, <1>2
    <2> QED
      BY <2>2, <2>3 DEF FloorInv
  <1>7. CauseInv'
    <2>1. PolicyIsWellTyped => (HasBlocking(report)' => Cause')
      BY <1>1, KeptResult DEF VInv, CauseInv
    <2> QED
      BY <2>1 DEF CauseInv, PolicyIsWellTyped
  <1>8. JudgedInv'
    <2>1. cache # NoResult /\ policy.invariants # {}
            => ToSet(InvariantFlags(cache.rows)) \subseteq ToSet(report.flags)
      BY <1>2 DEF VInv, JudgedInv
    <2>2. InvariantFlags(cache.rows)' = InvariantFlags(cache.rows)
      BY <1>1, FlagsOfSameRows
    <2> QED
      BY <1>1, <1>3, <2>1, <2>2 DEF JudgedInv
  <1>9. CriticInv'
    BY DEF CriticInv
  <1> QED
    BY <1>4, <1>5, <1>6, <1>7, <1>8, <1>9 DEF VInv

LEMMA CriticTurnKeeps == VInv /\ MaybeRunCritic => VInv'
  <1> SUFFICES ASSUME VInv, MaybeRunCritic PROVE VInv'
    OBVIOUS
  <1>1. /\ phase = "critic" /\ CriticKeeps /\ phase' = "done"
    BY DEF MaybeRunCritic, NoCritic, CriticRaises, CriticDisagrees, CriticAgrees, AskCritic
  <1>2. /\ report \in ReportType /\ report \in NearReports
        /\ critic_calls = 0 /\ critic_invoked = FALSE
    BY <1>1 DEF VInv, Types, CriticInv
  <1>3. CASE NoCritic
    <2>1. report' = report /\ critic_invoked' = critic_invoked /\ critic_calls' = critic_calls
      BY <1>3 DEF NoCritic
    <2>2. critic_invoked' \in BOOLEAN
      BY <1>2, <2>1, Zenon
    <2>3. HasBlocking(report)' <=> HasBlocking(report)
      BY <2>1 DEF HasBlocking
    <2>4. report' \in ApprovedReports
      BY <1>2, <2>1, ReportsAreApproved
    <2> QED
      BY <1>1, <1>2, <2>1, <2>2, <2>3, <2>4, EndKeeps
  <1>4. CASE CriticRaises
    <2> DEFINE fs == <<Flag("llm_critic", "info")>>
    <2>1. fs \in Seq(Finding) /\ \A f \in ToSet(fs) : f.severity = "info"
      <3>1. "llm_critic" \in CheckName /\ "info" \in Severity
        BY DEF CheckName, Severity
      <3>2. fs \in Seq(Finding) /\ ToSet(fs) = {Flag("llm_critic", "info")}
        BY <3>1, OneFlag
      <3> QED
        BY <3>2 DEF Flag
    <2>2. report' = Add(report, fs) /\ critic_invoked' = critic_invoked
          /\ critic_calls' = critic_calls + 1
      BY <1>4 DEF CriticRaises, AskCritic
    <2> HIDE DEF fs
    <2>3. critic_invoked' \in BOOLEAN
      BY <1>2, <2>2, Zenon
    <2>4. critic_calls' \in 0 .. 1
      BY <1>2, <2>2
    <2>5. /\ report' \in ReportType /\ report' \in ApprovedReports
          /\ ToSet(report.flags) \subseteq ToSet(report'.flags)
          /\ report.suggested_review => report'.suggested_review
      BY <1>2, <2>1, <2>2, AddFacts, ReportsAreApproved
    <2>6. HasBlocking(report') <=> HasBlocking(report)
      BY <1>2, <2>1, <2>2, AddBlocks
    <2>7. HasBlocking(report)' <=> HasBlocking(report)
      BY <2>6 DEF HasBlocking
    <2>8. report' \in NearReports
      BY <1>2, <2>1, <2>2, <2>5, AddStaysNear DEF NearReports
    <2> QED
      BY <1>1, <2>3, <2>4, <2>5, <2>7, <2>8, EndKeeps
  <1>5. CASE CriticDisagrees
    <2> DEFINE fs == <<Flag("llm_critic", "error")>>
    <2>1. fs \in Seq(Finding) /\ \A f \in ToSet(fs) : f.severity = "error"
      <3>1. "llm_critic" \in CheckName /\ "error" \in Severity
        BY DEF CheckName, Severity
      <3>2. fs \in Seq(Finding) /\ ToSet(fs) = {Flag("llm_critic", "error")}
        BY <3>1, OneFlag
      <3> QED
        BY <3>2 DEF Flag
    <2>2. report' = Add(report, fs) /\ critic_invoked' = TRUE
          /\ critic_calls' = critic_calls + 1
      BY <1>5 DEF CriticDisagrees, AskCritic
    <2> HIDE DEF fs
    <2>3. critic_invoked' \in BOOLEAN /\ critic_invoked'
      BY <2>2, Zenon
    <2>4. critic_calls' \in 0 .. 1
      BY <1>2, <2>2
    <2>5. /\ report' \in ReportType /\ report' \in ApprovedReports
          /\ ToSet(report.flags) \subseteq ToSet(report'.flags)
          /\ report.suggested_review => report'.suggested_review
      BY <1>2, <2>1, <2>2, AddFacts, ReportsAreApproved
    <2>6. HasBlocking(report') <=> HasBlocking(report)
      BY <1>2, <2>1, <2>2, AddBlocks
    <2>7. HasBlocking(report)' <=> HasBlocking(report)
      BY <2>6 DEF HasBlocking
    <2> QED
      BY <1>1, <2>3, <2>4, <2>5, <2>7, EndKeeps
  <1>6. CASE CriticAgrees
    <2>1. PICK boost \in Boosts : report' = [report EXCEPT !.confidence = Credit(@, boost)]
      BY <1>6 DEF CriticAgrees
    <2>2. critic_invoked' = TRUE /\ critic_calls' = critic_calls + 1
      BY <1>6 DEF CriticAgrees, AskCritic
    <2>3. critic_invoked' \in BOOLEAN /\ critic_invoked'
      BY <2>2, Zenon
    <2>4. critic_calls' \in 0 .. 1
      BY <1>2, <2>2
    <2>5. Credit(report.confidence, boost) \in Approved
      BY <1>2, BoostsAssumption, CreditIsCapped DEF ReportType
    <2>6. report' \in ApprovedReports /\ report'.flags = report.flags
          /\ report'.suggested_review = report.suggested_review
      BY <1>2, <2>1, <2>5 DEF ReportType, ApprovedReports
    <2>7. HasBlocking(report)' <=> HasBlocking(report)
      BY <2>6 DEF HasBlocking
    <2>8. ToSet(report.flags) \subseteq ToSet(report'.flags)
      BY <2>6
    <2>9. report.suggested_review => report'.suggested_review
      BY <2>6, Zenon
    <2> QED
      BY <1>1, <2>3, <2>4, <2>6, <2>7, <2>8, <2>9, EndKeeps
  <1> QED
    BY <1>3, <1>4, <1>5, <1>6 DEF MaybeRunCritic

-----------------------------------------------------------------------------
(***************************************************************************)
(* Every turn of the loop, as the flags it adds.                           *)
(***************************************************************************)
LEMMA SkipKeeps == VInv /\ Skip => VInv'
  <1> SUFFICES ASSUME VInv, Skip PROVE VInv'
    OBVIOUS
  <1>1. input \in Inputs /\ phase = "checks" /\ at \in 1 .. 12
    BY DEF VInv, Types, Skip
  <1>2. \E check, fs : StaticTurn(check, fs)
    BY <1>1, SkipIsStatic
  <1> QED
    BY <1>2, StaticTurnKeeps

LEMMA RunCheckKeeps == VInv /\ RunCheck => VInv'
  <1> SUFFICES ASSUME VInv, RunCheck PROVE VInv'
    OBVIOUS
  <1>1. phase = "checks"
    BY DEF RunCheck, AstParse, SchemaExistence, CartesianJoin, NullSemantics,
      TimestampEquality, PiiAccess, RequiredFilter, FilterRequired, DateCoverage, ExplainPlan,
      ZeroRowExecution, BusinessInvariant, Running
  <1>2. input \in Inputs /\ at \in 1 .. 12
    BY <1>1 DEF VInv, Types
  <1>3. CASE ZeroRowExecution
    BY <1>3, ZeroRowKeeps
  <1>4. CASE BusinessInvariant
    BY <1>4, BusinessInvariantKeeps
  <1>5. CASE ~ ZeroRowExecution /\ ~ BusinessInvariant
    <2>1. \E check, fs : StaticTurn(check, fs)
      <3>1. CASE AstParse
        BY <1>1, <1>2, <3>1, AstParseIsStatic
      <3>2. CASE SchemaExistence
        BY <1>1, <1>2, <3>2, SchemaExistenceIsStatic
      <3>3. CASE CartesianJoin
        BY <1>1, <1>2, <3>3, CartesianJoinIsStatic
      <3>4. CASE NullSemantics
        BY <1>1, <1>2, <3>4, NullSemanticsIsStatic
      <3>5. CASE TimestampEquality
        BY <1>1, <1>2, <3>5, TimestampEqualityIsStatic
      <3>6. CASE PiiAccess
        BY <1>1, <1>2, <3>6, PiiAccessIsStatic
      <3>7. CASE RequiredFilter
        BY <1>1, <1>2, <3>7, RequiredFilterIsStatic
      <3>8. CASE FilterRequired
        BY <1>1, <1>2, <3>8, FilterRequiredIsStatic
      <3>9. CASE DateCoverage
        BY <1>1, <1>2, <3>9, DateCoverageIsStatic
      <3>10. CASE ExplainPlan
        BY <1>1, <1>2, <3>10, ExplainPlanIsStatic
      <3> QED
        BY <1>5, <3>1, <3>2, <3>3, <3>4, <3>5, <3>6, <3>7, <3>8, <3>9, <3>10 DEF RunCheck
    <2> QED
      BY <2>1, StaticTurnKeeps
  <1> QED
    BY <1>3, <1>4, <1>5

LEMMA VerifyKeeps == VInv /\ [Next]_vars => VInv'
  <1>1. VInv /\ Skip => VInv'
    BY SkipKeeps
  <1>2. VInv /\ RunCheck => VInv'
    BY RunCheckKeeps
  <1>3. VInv /\ MaybeRunCritic => VInv'
    BY CriticTurnKeeps
  <1>4. VInv /\ UNCHANGED vars => VInv'
    <2> SUFFICES ASSUME VInv, UNCHANGED vars PROVE VInv'
      OBVIOUS
    <2>1. /\ input' = input /\ at' = at /\ phase' = phase /\ report' = report
          /\ executed' = executed /\ row_count' = row_count /\ cache' = cache
          /\ critic_invoked' = critic_invoked /\ executions' = executions
          /\ critic_calls' = critic_calls /\ KeepsResult
      BY DEF vars, KeepsResult
    <2>2. /\ query' = query /\ policy' = policy /\ (HasConnector' <=> HasConnector)
          /\ HeldBack' <=> HeldBack
      BY <2>1, InputIsFixed
    <2>3. HasBlocking(report)' <=> HasBlocking(report)
      BY <2>1 DEF HasBlocking
    <2>4. Types'
      <3>1. critic_invoked' \in BOOLEAN
        BY <2>1, Zenon DEF VInv, Types
      <3>2. Types
        BY DEF VInv
      <3> QED
        BY <2>1, <2>3, <3>1, <3>2 DEF Types
    <2>5. RunsInv'
      <3>1. RunsInv
        BY DEF VInv
      <3> QED
        BY <2>1, <2>2, <2>3, <3>1, KeptResult DEF RunsInv
    <2>6. FloorInv'
      <3>1. \A feature : Somewhere(feature)' = Somewhere(feature)
        BY <2>2 DEF Somewhere
      <3>2. \A k : Demand(k, report) => Demand(k, report)'
        BY <2>1, <2>2, <2>3, <3>1 DEF Demand
      <3> QED
        BY <2>1, <3>2 DEF VInv, FloorInv
    <2>7. CauseInv'
      <3>1. PolicyIsWellTyped => (HasBlocking(report)' => Cause')
        BY <2>1, <2>3, KeptResult DEF VInv, CauseInv
      <3> QED
        BY <3>1 DEF CauseInv, PolicyIsWellTyped
    <2>8. JudgedInv'
      <3>1. InvariantFlags(cache.rows)' = InvariantFlags(cache.rows)
        BY <2>1, FlagsOfSameRows
      <3>2. JudgedInv
        BY DEF VInv
      <3> QED
        BY <2>1, <2>2, <3>1, <3>2 DEF JudgedInv
    <2>9. CriticInv'
      BY <2>1 DEF VInv, CriticInv
    <2> QED
      BY <2>4, <2>5, <2>6, <2>7, <2>8, <2>9 DEF VInv
  <1> QED
    BY <1>1, <1>2, <1>3, <1>4 DEF Next

LEMMA VInvAlways == Spec => []VInv
  <1>1. Init => VInv
    BY VerifyStarts
  <1>2. VInv /\ [Next]_vars => VInv'
    BY VerifyKeeps
  <1> QED
    BY <1>1, <1>2, PTL DEF Spec

-----------------------------------------------------------------------------
(***************************************************************************)
(* What the invariant says of the types: the confidence is below 0.0 only  *)
(* if the critic was invoked, and what is cached is a result with one      *)
(* known kind of column names.                                             *)
(***************************************************************************)
LEMMA VInvTypes == VInv => TypeOK
  <1> SUFFICES ASSUME VInv PROVE TypeOK
    OBVIOUS
  <1>1. input \in Inputs /\ at \in 1 .. 13 /\ phase \in {"checks", "critic", "done"}
        /\ report \in ApprovedReports /\ critic_calls \in 0 .. 1
    BY DEF VInv, Types
  <1>2. critic_invoked \in BOOLEAN
    BY DEF VInv, Types
  <1>3. input \in Input
    BY <1>1, InputsAssumption
  <1>4. Len(DefaultChecks) + 1 = 13
    BY DEF DefaultChecks
  <1>5. \A i \in DOMAIN report.flags : report.flags[i].severity \in Severity
    <2>1. report.flags \in Seq(Finding)
      BY <1>1 DEF ApprovedReports
    <2>2. DOMAIN report.flags = 1 .. Len(report.flags)
      BY <2>1
    <2> QED
      BY <2>1, <2>2, MembersOfFindings DEF Finding
  <1>6. /\ IF critic_invoked THEN report.confidence \in Signed ELSE report.confidence \in Doubles
        /\ AtMost(report.confidence, One)
    <2>1. report.confidence \in Signed /\ AtMost(report.confidence, One)
      BY <1>1 DEF ApprovedReports, Approved
    <2>2. ~ critic_invoked => report.confidence \in Doubles
      BY DEF VInv, CriticInv, NearReports, ReportType, Confidences
    <2> QED
      BY <2>1, <2>2
  <1>7. report.suggested_review \in BOOLEAN
    BY <1>1 DEF ApprovedReports
  <1>8. Untried \/ FirstRunCounts \/ SecondRunCounts \/ NothingCounts
    BY DEF VInv, RunsInv
  <1>9. executed \in BOOLEAN
    BY <1>8, Zenon DEF Untried, FirstRunCounts, SecondRunCounts, NothingCounts
  <1>10. cache = NoResult \/ cache \in Cached
    BY <1>8 DEF Untried, FirstRunCounts, SecondRunCounts, NothingCounts
  <1>11. row_count \in Nat \cup {-1}
    <2>1. row_count = -1 \/ (cache \in Cached /\ row_count = Len(cache.rows))
      BY <1>8 DEF Untried, FirstRunCounts, SecondRunCounts, NothingCounts
    <2> QED
      BY <2>1 DEF Cached
  <1>12. executions \in {<<>>, <<"failed">>, <<"returned">>, <<"failed", "failed">>,
                         <<"failed", "returned">>}
    BY <1>8 DEF Untried, FirstRunCounts, SecondRunCounts, NothingCounts
  <1>13. executions \in Seq({"failed", "returned"})
    <2>1. \A e \in {"failed", "returned"} : <<e>> \in Seq({"failed", "returned"})
      OBVIOUS
    <2>2. \A e, f \in {"failed", "returned"} : <<e, f>> \in Seq({"failed", "returned"})
      OBVIOUS
    <2>3. <<>> \in Seq({"failed", "returned"})
      OBVIOUS
    <2> QED
      BY <1>12, <2>1, <2>2, <2>3, Zenon
  <1>14. cache # NoResult => /\ cache.columns \in {"none", "star", "named"}
                             /\ \A i \in DOMAIN cache.rows : IsRow(cache.rows[i])
    <2> SUFFICES ASSUME cache # NoResult
                 PROVE  /\ cache.columns \in {"none", "star", "named"}
                        /\ \A i \in DOMAIN cache.rows : IsRow(cache.rows[i])
      OBVIOUS
    <2>1. cache.columns \in {"none", "star", "named"} /\ cache.rows \in Seq(Rows)
      BY <1>10 DEF Cached
    <2>2. \A i \in DOMAIN cache.rows : cache.rows[i] \in Rows
      BY <2>1
    <2> QED
      BY <2>1, <2>2, ResultsAssumption
  <1> QED
    BY <1>1, <1>2, <1>3, <1>4, <1>5, <1>6, <1>7, <1>9, <1>11, <1>13, <1>14 DEF TypeOK

(***************************************************************************)
(* The state of verify always has its type, whatever the statement, the    *)
(* answers of the database and those of the critic: the flags are a        *)
(* sequence of known ones and the confidence is never above 1.0.  It is in *)
(* 0.0 .. 1.0 until the critic has answered; an approval with a negative   *)
(* confidence takes it below, and nothing in the code prevents that.       *)
(***************************************************************************)
THEOREM VerifyIsTyped == Spec => []TypeOK
  BY VInvAlways, VInvTypes, PTL

(***************************************************************************)
(* executed and row_count tell of the one execution that counts; the       *)
(* statement is run at most twice, the second time only after a failure    *)
(* that already rejects the report.                                        *)
(***************************************************************************)
THEOREM ReportTellsOfExecution == Spec => []ResultBookkeeping
  <1>1. VInv => ResultBookkeeping
    <2> SUFFICES ASSUME VInv PROVE ResultBookkeeping
      OBVIOUS
    <2>1. /\ Untried \/ FirstRunCounts \/ SecondRunCounts \/ NothingCounts
          /\ NothingCounts \/ SecondRunCounts => HasBlocking(report)
      BY DEF VInv, RunsInv
    <2>2. CASE Untried
      BY <2>2 DEF Untried, ResultBookkeeping
    <2>3. CASE FirstRunCounts
      <3>1. cache \in Cached /\ row_count = Len(cache.rows) /\ executions = <<"returned">>
        BY <2>3 DEF FirstRunCounts
      <3>2. executed
        BY <2>3, Zenon DEF FirstRunCounts
      <3>3. row_count >= 0
        BY <3>1 DEF Cached
      <3>4. Len(executions) = 1 /\ executions[1] # "failed" /\ cache # NoResult
        BY <3>1, CachedIsResult
      <3> QED
        BY <3>1, <3>2, <3>3, <3>4 DEF ResultBookkeeping
    <2>4. CASE SecondRunCounts
      <3>1. executions = <<"failed", "returned">> /\ row_count = -1
        BY <2>4 DEF SecondRunCounts
      <3>2. ~ executed
        BY <2>4, Zenon DEF SecondRunCounts
      <3>3. HasBlocking(report)
        BY <2>1, <2>4
      <3> QED
        BY <3>1, <3>2, <3>3 DEF ResultBookkeeping
    <2>5. CASE NothingCounts
      <3>1. Len(executions) <= 2
        <4>1. executions = <<"failed">> \/ executions = <<"failed", "failed">>
          BY <2>5, Zenon DEF NothingCounts
        <4>2. \A e : Len(<<e>>) = 1 /\ Len(<<e, e>>) = 2
          OBVIOUS
        <4>3. Len(executions) = 1 \/ Len(executions) = 2
          BY <4>1, <4>2, Zenon
        <4> QED
          BY <4>3
      <3>0. row_count = -1 /\ cache = NoResult
        BY <2>5, Zenon DEF NothingCounts
      <3>2. ~ executed
        BY <2>5, Zenon DEF NothingCounts
      <3>3. HasBlocking(report)
        BY <2>1, <2>5
      <3> QED
        BY <3>0, <3>1, <3>2, <3>3 DEF ResultBookkeeping
    <2> QED
      BY <2>1, <2>2, <2>3, <2>4, <2>5
  <1> QED
    BY <1>1, VInvAlways, PTL

(***************************************************************************)
(* A statement that would change the database is executed to its end only  *)
(* as a COPY or ATTACH with the word limit in it.  Whatever else would     *)
(* change a connected database is rejected, and what is not rejected has   *)
(* been executed to its end once and not twice.                            *)
(***************************************************************************)
THEOREM WritesTakeEffectOnce == Spec => []WritesAreHeldBack
  <1>1. VInv => WritesAreHeldBack
    <2> SUFFICES ASSUME VInv, query.kind # "select"
                 PROVE  /\ "returned" \in ToSet(executions)
                             => query.kind = "command" /\ query.limited
                        /\ phase = "done" /\ HasConnector /\ Decision(report) # "rejected"
                             => executions = <<"returned">>
      BY DEF WritesAreHeldBack
    <2>1. /\ Untried \/ FirstRunCounts \/ SecondRunCounts \/ NothingCounts
          /\ at = 13 /\ HasConnector => executions # <<>>
          /\ NothingCounts \/ SecondRunCounts => HasBlocking(report)
          /\ HeldBack => cache = NoResult
      BY DEF VInv, RunsInv
    <2>2. query.kind \in {"select", "mutation", "command"} /\ query.limited \in BOOLEAN
      BY InputsAssumption DEF VInv, Types, Input, Query, query
    <2>3. ASSUME "returned" \in ToSet(executions)
          PROVE  query.kind = "command" /\ query.limited
      <3>1. ~ Untried
        BY <2>3 DEF Untried, ToSet
      <3>2. ~ NothingCounts
        <4>1. executions = <<"failed">> \/ executions = <<"failed", "failed">>
                => "returned" \notin ToSet(executions)
          BY DEF ToSet
        <4> QED
          BY <2>3, <4>1 DEF NothingCounts
      <3>3. cache # NoResult
        BY <2>1, <3>1, <3>2, CachedIsResult DEF FirstRunCounts, SecondRunCounts
      <3> QED
        BY <2>1, <2>2, <3>3 DEF HeldBack
    <2>4. ASSUME phase = "done", HasConnector, Decision(report) # "rejected"
          PROVE  executions = <<"returned">>
      <3>1. ~ HasBlocking(report)
        BY <2>4 DEF Decision
      <3>2. at = 13
        BY <2>4, <3>1 DEF VInv, Types
      <3>3. FirstRunCounts
        BY <2>1, <2>4, <3>1, <3>2 DEF Untried
      <3> QED
        BY <3>3 DEF FirstRunCounts
    <2> QED
      BY <2>3, <2>4
  <1> QED
    BY <1>1, VInvAlways, PTL

(***************************************************************************)
(* A sampled row on which an invariant is false, with all its columns      *)
(* there, rejects the statement, or the check has reported that it could   *)
(* not judge it: whatever the predicates are, and whatever the database    *)
(* returned.                                                               *)
(***************************************************************************)
THEOREM SampledViolationsAreSeen == Spec => []SampledViolationRejects
  <1>1. VInv => SampledViolationRejects
    <2> SUFFICES ASSUME VInv, phase = "done", cache # NoResult, cache.columns = "named",
                        NEW inv \in policy.invariants \ Unparsable,
                        NEW i \in DOMAIN cache.rows, i <= SampleRows,
                        Resolvable(Predicate[inv], cache.rows[i]),
                        Violates(Predicate[inv], cache.rows[i])
                 PROVE  Decision(report) = "rejected" \/ Flagged(report, "business_invariant", "info")
      BY DEF SampledViolationRejects
    <2>1. CASE HasBlocking(report)
      BY <2>1 DEF Decision
    <2>2. CASE ~ HasBlocking(report)
      <3> DEFINE rows == cache.rows
                 info == Flag("business_invariant", "info")
                 crit == Flag("business_invariant", "critical")
                 failing == {v \in policy.invariants : Yields(v, rows, "fails")}
      <3>1. at = 13 /\ report.flags \in Seq(Finding) /\ input \in Inputs
        BY <2>2 DEF VInv, Types, ApprovedReports
      <3>2. cache \in Cached /\ cache.columns = Projection
        BY DEF VInv, RunsInv, Untried, FirstRunCounts, SecondRunCounts, NothingCounts
      <3>3. rows \in Seq(Rows) /\ Projection = "named" /\ rows # <<>>
        BY <3>2 DEF Cached
      <3>4. ToSet(InvariantFlags(rows)) \subseteq ToSet(report.flags)
        BY <3>1 DEF VInv, JudgedInv
      <3>5. i \in 1 .. Len(Sample(rows)) /\ Sample(rows)[i] = rows[i] /\ rows[i] \in Rows
        BY <3>3, SampledRows
      <3>6. inv \in Invariants /\ IsPredicate(Predicate[inv]) /\ IsRow(rows[i])
        <4>1. policy.invariants \subseteq Invariants
          BY <3>1, InputsAssumption DEF Input, policy
        <4> QED
          BY <3>5, <4>1, PredicateAssumption, ResultsAssumption
      <3>7. Outcome(Predicate[inv], rows[i]) \in {"raises", "fails"}
        BY <3>6, ResolvableViolationShows DEF IsRow
      <3>8. Yields(inv, rows, "raises") \/ Yields(inv, rows, "fails")
        BY <3>3, <3>5, <3>7 DEF Yields, AsDict
      <3>9. inv \in policy.invariants
        OBVIOUS
      <3>10. CASE Yields(inv, rows, "raises") \/ policy.invariants \cap Unparsable # {}
                  \/ \E v \in policy.invariants : Yields(v, rows, "raises")
        <4>1. InvariantFlags(rows) = <<info>>
          BY <3>3, <3>9, <3>10 DEF InvariantFlags
        <4>2. info \in ToSet(InvariantFlags(rows))
          <5> HIDE DEF info, rows
          <5> QED
            BY <4>1 DEF ToSet
        <4>3. info \in ToSet(report.flags)
          BY <3>4, <4>2
        <4> QED
          BY <3>1, <4>3, FlaggedByMembers
      <3>11. CASE ~ (Yields(inv, rows, "raises") \/ policy.invariants \cap Unparsable # {}
                     \/ \E v \in policy.invariants : Yields(v, rows, "raises"))
        <4>1. InvariantFlags(rows) = [k \in 1 .. Cardinality(failing) |-> crit]
          BY <3>3, <3>11 DEF InvariantFlags
        <4>2. inv \in failing
          BY <3>8, <3>9, <3>11
        <4>3. IsFiniteSet(failing)
          <5>1. policy.invariants \subseteq Invariants
            BY <3>1, InputsAssumption DEF Input, policy
          <5> QED
            BY <5>1, FinitePolicyAssumption, FS_Subset
        <4> HIDE DEF failing, crit, rows
        <4>4. Cardinality(failing) \in Nat /\ Cardinality(failing) # 0
          BY <4>2, <4>3, FS_CardinalityType, FS_EmptySet
        <4>5. crit \in ToSet(InvariantFlags(rows))
          <5>1. 1 \in 1 .. Cardinality(failing)
            BY <4>4
          <5> QED
            BY <4>1, <5>1 DEF ToSet
        <4>6. crit \in ToSet(report.flags) /\ crit.severity = "critical"
          BY <3>4, <4>5 DEF crit, Flag
        <4>7. HasBlocking(report)
          BY <3>1, <4>6, BlockingByMembers
        <4> QED
          BY <4>7, <2>2
      <3> QED
        BY <3>10, <3>11
    <2> QED
      BY <2>1, <2>2
  <1> QED
    BY <1>1, VInvAlways, PTL

(***************************************************************************)
(* No false alarm, where each predicate means something on each row the    *)
(* database may return: what is rejected does not parse, joins nothing to  *)
(* a table, names an unknown one, failed when it was run, or has a sampled *)
(* row that violates an invariant.  Without the hypothesis this is false:  *)
(* a boolean column that is NULL counts as FALSE under an AND or a NOT.    *)
(***************************************************************************)
THEOREM RejectionsHaveCause ==
  ASSUME PolicyIsWellTyped
  PROVE  Spec => []RejectionHasCause
  <1>1. VInv => RejectionHasCause
    <2> SUFFICES ASSUME VInv, Decision(report) = "rejected" PROVE RejectionHasCause
      BY DEF RejectionHasCause
    <2>1. HasBlocking(report)
      BY DEF Decision
    <2>2. Cause
      BY <2>1, PolicyIsWellTyped DEF VInv, CauseInv
    <2>3. CASE VisibleCause
      BY <2>3 DEF VisibleCause, RejectionHasCause
    <2>4. CASE executions # <<>> /\ executions[1] = "failed"
      <3>1. executions \in Seq({"failed", "returned"})
        BY VInvTypes DEF TypeOK
      <3>2. 1 \in DOMAIN executions
        BY <2>4, <3>1
      <3>3. "failed" \in ToSet(executions)
        BY <2>4, <3>2 DEF ToSet
      <3> QED
        BY <3>3 DEF RejectionHasCause
    <2>5. CASE SampleViolates
      BY <2>5 DEF RejectionHasCause
    <2> QED
      BY <2>2, <2>3, <2>4, <2>5 DEF Cause
  <1> QED
    BY <1>1, VInvAlways, PTL

(***************************************************************************)
(* However many flags there are, of whatever severity and in whatever      *)
(* order: the rounding of the doubles never adds up to more than one part  *)
(* in 2^29 of the confidence.                                              *)
(***************************************************************************)
THEOREM ConfidenceIsNominal == Spec => []ConfidenceNearNominal
  <1>1. VInv => ConfidenceNearNominal
    <2> SUFFICES ASSUME VInv, ~ critic_invoked
                 PROVE  report.confidence[1] - HighLimb(NominalConfidence) \in -1 .. 1
      BY DEF ConfidenceNearNominal
    <2>1. report \in ReportType /\ NearNominal(report)
      BY DEF VInv, CriticInv, NearReports
    <2>2. report.confidence \in Confidences /\ report.flags \in Seq(Finding)
      BY <2>1 DEF ReportType
    <2>3. Cost(report.flags) \in Nat
      BY <2>2, CostIsNatural
    <2> QED
      BY <2>1, <2>2, <2>3, NearHighLimb DEF NearNominal, NominalConfidence
  <1> QED
    BY <1>1, VInvAlways, PTL

-----------------------------------------------------------------------------
(***************************************************************************)
(* What a step may never do.                                               *)
(***************************************************************************)
LEMMA TurnsLeaveTheCritic == Skip \/ RunCheck => critic_calls' = critic_calls
  BY DEF Skip, RunCheck, AstParse, SchemaExistence, CartesianJoin, NullSemantics,
    TimestampEquality, PiiAccess, RequiredFilter, FilterRequired, DateCoverage, ExplainPlan,
    ZeroRowExecution, BusinessInvariant, Turn

(***************************************************************************)
(* The critic is asked once at most, with a question, no rejection and an  *)
(* exact confidence inside 0.40 .. 0.80: the errors of the doubles never   *)
(* open the gate for a confidence outside it.                              *)
(***************************************************************************)
THEOREM CriticIsForDoubt == Spec => CriticOnlyInDoubt
  <1> DEFINE InDoubt == /\ critic_calls = 0
                        /\ HasQuestion
                        /\ Decision(report) # "rejected"
                        /\ NominalConfidence \in 40 .. 80
  <1>1. VInv /\ [Next]_vars => [critic_calls' # critic_calls => InDoubt]_vars
    <2> SUFFICES ASSUME VInv, Next, critic_calls' # critic_calls PROVE InDoubt
      BY DEF vars
    <2>1. AskCritic
      BY TurnsLeaveTheCritic
         DEF Next, MaybeRunCritic, NoCritic, CriticRaises, CriticDisagrees, CriticAgrees
    <2>2. phase = "critic" /\ ShouldEscalate
      BY <2>1 DEF AskCritic
    <2>3. report \in ReportType /\ NearNominal(report) /\ critic_calls = 0
      BY <2>2 DEF VInv, CriticInv, NearReports
    <2>4. report.confidence \in Confidences /\ report.flags \in Seq(Finding)
      BY <2>3 DEF ReportType
    <2>5. Cost(report.flags) \in Nat
      BY <2>4, CostIsNatural
    <2>6. NominalConfidence \in 40 .. 80
      BY <2>2, <2>3, <2>4, <2>5, GateIsInTheBand
         DEF ShouldEscalate, NearNominal, NominalConfidence
    <2>7. Decision(report) # "rejected" /\ HasQuestion
      BY <2>2 DEF ShouldEscalate, Decision
    <2> QED
      BY <2>3, <2>6, <2>7
  <1> QED
    BY <1>1, VInvAlways, PTL DEF Spec, CriticOnlyInDoubt

-----------------------------------------------------------------------------
(***************************************************************************)
(* The refinement of module Verdict, step by step.                         *)
(***************************************************************************)
LEMMA TurnsAddFlags ==
  ASSUME VInv, Skip \/ RunCheck
  PROVE  phase = "checks" /\ \E check : \E fs \in Seq(Finding) : Turn(check, fs)
  <1>1. phase = "checks"
    BY DEF Skip, RunCheck, AstParse, SchemaExistence, CartesianJoin, NullSemantics,
      TimestampEquality, PiiAccess, RequiredFilter, FilterRequired, DateCoverage, ExplainPlan,
      ZeroRowExecution, BusinessInvariant, Running
  <1>2. input \in Inputs /\ at \in 1 .. 12
    BY <1>1 DEF VInv, Types
  <1>3. "zero_row_execution" \in CheckName /\ "business_invariant" \in CheckName
        /\ "critical" \in Severity /\ "warn" \in Severity
    BY DEF CheckName, Severity
  <1>4. CASE ZeroRowExecution
    <2>1. <<Flag("zero_row_execution", "critical")>> \in Seq(Finding)
      BY <1>3, OneFlag
    <2>2. \A rows : FlagIf(rows = <<>>, "zero_row_execution", "warn") \in Seq(Finding)
      BY <1>3, FlagOrNone
    <2> QED
      BY <1>1, <1>4, <2>1, <2>2 DEF ZeroRowExecution
  <1>5. CASE BusinessInvariant
    <2>1. <<Flag("business_invariant", "warn")>> \in Seq(Finding)
      BY <1>3, OneFlag
    <2>2. cache # NoResult => cache.rows \in Seq(Rows)
      BY DEF VInv, RunsInv, Untried, FirstRunCounts, SecondRunCounts, NothingCounts, Cached
    <2>3. \A rows \in Fetched(SampleRows) : rows \in Seq(Rows)
      BY FetchedRows, RowsAssumption
    <2>4. \A rows \in Seq(Rows) : InvariantFlags(rows) \in Seq(Finding)
      BY <1>2, InvariantFlagsFacts
    <2>5. CASE cache # NoResult /\ Turn("business_invariant", InvariantFlags(cache.rows))
      BY <1>1, <2>2, <2>4, <2>5
    <2>6. CASE Turn("business_invariant", <<Flag("business_invariant", "warn")>>)
      BY <1>1, <2>1, <2>6
    <2>7. CASE \E rows \in Fetched(SampleRows) : Turn("business_invariant", InvariantFlags(rows))
      BY <1>1, <2>3, <2>4, <2>7
    <2> QED
      BY <1>5, <2>5, <2>6, <2>7 DEF BusinessInvariant
  <1>6. ASSUME \E check, fs : StaticTurn(check, fs)
        PROVE  \E check : \E fs \in Seq(Finding) : Turn(check, fs)
    BY <1>6 DEF StaticTurn
  <1>7. CASE Skip
    BY <1>1, <1>2, <1>6, <1>7, SkipIsStatic
  <1>8. CASE AstParse
    BY <1>1, <1>2, <1>6, <1>8, AstParseIsStatic
  <1>9. CASE SchemaExistence
    BY <1>1, <1>2, <1>6, <1>9, SchemaExistenceIsStatic
  <1>10. CASE CartesianJoin
    BY <1>1, <1>2, <1>6, <1>10, CartesianJoinIsStatic
  <1>11. CASE NullSemantics
    BY <1>1, <1>2, <1>6, <1>11, NullSemanticsIsStatic
  <1>12. CASE TimestampEquality
    BY <1>1, <1>2, <1>6, <1>12, TimestampEqualityIsStatic
  <1>13. CASE PiiAccess
    BY <1>1, <1>2, <1>6, <1>13, PiiAccessIsStatic
  <1>14. CASE RequiredFilter
    BY <1>1, <1>2, <1>6, <1>14, RequiredFilterIsStatic
  <1>15. CASE FilterRequired
    BY <1>1, <1>2, <1>6, <1>15, FilterRequiredIsStatic
  <1>16. CASE DateCoverage
    BY <1>1, <1>2, <1>6, <1>16, DateCoverageIsStatic
  <1>17. CASE ExplainPlan
    BY <1>1, <1>2, <1>6, <1>17, ExplainPlanIsStatic
  <1> QED
    BY <1>4, <1>5, <1>7, <1>8, <1>9, <1>10, <1>11, <1>12, <1>13, <1>14, <1>15, <1>16, <1>17
       DEF RunCheck

LEMMA StepNeverRelents ==
  ASSUME VInv, Next
  PROVE  /\ input' = input /\ phase # "done"
         /\ Decision(report) \in DOMAIN Rank /\ Decision(report') \in DOMAIN Rank
         /\ Rank[Decision(report')] >= Rank[Decision(report)]
  <1>1. report \in ReportType
    <2>1. phase # "done"
      BY TurnsAddFlags DEF Next, MaybeRunCritic, NoCritic, CriticRaises, CriticDisagrees,
        CriticAgrees, AskCritic
    <2> QED
      BY <2>1 DEF VInv, Types
  <1>2. CASE Skip \/ RunCheck
    <2>1. phase = "checks" /\ \E check : \E fs \in Seq(Finding) : Turn(check, fs)
      BY <1>2, TurnsAddFlags
    <2>2. PICK check : \E fs \in Seq(Finding) : Turn(check, fs)
      BY <2>1
    <2>3. PICK fs \in Seq(Finding) : Turn(check, fs)
      BY <2>2
    <2>4. report' = Add(report, fs) /\ input' = input
      BY <2>3 DEF Turn
    <2> QED
      BY <1>1, <2>1, <2>4, AddNeverRelents
  <1>3. CASE MaybeRunCritic
    <2>1. phase = "critic" /\ input' = input
      BY <1>3 DEF MaybeRunCritic, NoCritic, CriticRaises, CriticDisagrees, CriticAgrees,
        AskCritic, CriticKeeps
    <2>2. /\ <<Flag("llm_critic", "info")>> \in Seq(Finding)
          /\ <<Flag("llm_critic", "error")>> \in Seq(Finding)
      <3>1. "llm_critic" \in CheckName /\ "info" \in Severity /\ "error" \in Severity
        BY DEF CheckName, Severity
      <3> QED
        BY <3>1, OneFlag
    <2>3. CASE \E fs \in Seq(Finding) : report' = Add(report, fs)
      BY <1>1, <2>1, <2>3, AddNeverRelents
    <2>4. CASE report'.flags = report.flags /\ report'.suggested_review = report.suggested_review
      <3>1. Decision(report') = Decision(report)
        BY <2>4 DEF Decision, HasBlocking
      <3>2. Decision(report) \in DOMAIN Rank /\ Rank[Decision(report)] \in Nat
        BY DEF Decision, Rank
      <3> QED
        BY <2>1, <3>1, <3>2
    <2>5. CASE CriticRaises \/ CriticDisagrees
      BY <2>2, <2>3, <2>5 DEF CriticRaises, CriticDisagrees
    <2>6. CASE NoCritic
      BY <2>4, <2>6 DEF NoCritic
    <2>7. CASE CriticAgrees
      BY <1>1, <2>4, <2>7 DEF CriticAgrees, ReportType
    <2> QED
      BY <1>3, <2>5, <2>6, <2>7 DEF MaybeRunCritic
  <1> QED
    BY <1>2, <1>3 DEF Next

(***************************************************************************)
(* What FloorInv says of a call that is over.                              *)
(***************************************************************************)
LEMMA FloorIsMet ==
  ASSUME VInv, phase = "done"
  PROVE  Floor \in DOMAIN Rank /\ Rank[Decision(report)] >= Rank[Floor]
  <1>1. Floor \in DOMAIN Rank
    BY DEF Floor, Rank
  <1>2. CASE HasBlocking(report)
    BY <1>2 DEF Decision, Rank, Floor
  <1>3. CASE ~ HasBlocking(report)
    <2>1. at = 13
      BY <1>3 DEF VInv, Types
    <2>2. \A k \in 1 .. 12 : Demand(k, report)
      BY <2>1 DEF VInv, FloorInv
    <2>3. /\ Demand(1, report) /\ Demand(3, report) /\ Demand(4, report) /\ Demand(5, report)
          /\ Demand(6, report) /\ Demand(7, report) /\ Demand(8, report) /\ Demand(9, report)
          /\ Demand(11, report)
      BY <2>2
    <2>4. query.parses /\ ~ Somewhere("unjoined") /\ ~ (HeldBack /\ HasConnector)
      BY <1>3, <2>3 DEF Demand
    <2>5. /\ Somewhere("nullableNotIn") => report.suggested_review
          /\ query.timestampEquality => report.suggested_review
          /\ Somewhere("unboundedScan") => report.suggested_review
          /\ input.question = "dated" /\ ~ Somewhere("dateColumn") => report.suggested_review
      BY <2>3 DEF Demand
    <2>6. (\E i \in 1 .. Len(query.selects) :
             policy.pii /\ {"piiTable", "star"} \subseteq query.selects[i].features)
          => report.suggested_review
      BY <2>3 DEF Demand
    <2>7. (\E i \in 1 .. Len(query.selects) :
             policy.filters /\ query.selects[i].unfiltered # {})
          => report.suggested_review
      BY <2>3 DEF Demand
    <2>8. Floor = "delivered" \/ (Floor = "review" /\ report.suggested_review)
      BY <2>4, <2>5, <2>6, <2>7 DEF Floor
    <2> QED
      BY <1>3, <2>8 DEF Decision, Rank
  <1> QED
    BY <1>1, <1>2, <1>3

LEMMA PromiseStep ==
  VInv /\ VInv' /\ [Next]_vars => [Promise!Next]_(Promise!vars)
  <1>0. (VInv /\ phase = "done")' => (Rank[Decision(report)] >= Rank[Floor])'
    <2>1. VInv /\ phase = "done" => Rank[Decision(report)] >= Rank[Floor]
      BY FloorIsMet
    <2> QED
      BY <2>1, PTL
  <1> SUFFICES ASSUME VInv, VInv', [Next]_vars
               PROVE  Promise!Next \/ UNCHANGED Promise!vars
    OBVIOUS
  <1>1. CASE UNCHANGED vars
    <2>1. input' = input /\ report' = report /\ phase' = phase
      BY <1>1 DEF vars
    <2> QED
      BY <2>1 DEF Promise!vars, Floor, HeldBack, query, policy, HasConnector, Somewhere, Decision,
           HasBlocking
  <1>2. CASE Next
    <2>1. /\ input' = input /\ phase # "done"
          /\ Decision(report) \in DOMAIN Rank /\ Decision(report') \in DOMAIN Rank
          /\ Rank[Decision(report')] >= Rank[Decision(report)]
      BY <1>2, StepNeverRelents
    <2>2. Floor' = Floor
      BY <2>1 DEF Floor, HeldBack, query, policy, HasConnector, Somewhere
    <2>3. Decision(report)' = Decision(report')
      BY DEF Decision, HasBlocking
    <2>4. CASE phase' # "done"
      <3>1. Promise!Escalate(Decision(report'))
        BY <2>1, <2>2, <2>3, <2>4 DEF Promise!Escalate
      <3> QED
        BY <2>1, <3>1 DEF Promise!Next
    <2>5. CASE phase' = "done"
      <3>1. (Rank[Decision(report)] >= Rank[Floor])'
        BY <1>0, <2>5
      <3>2. Rank[Decision(report')] >= Rank[Floor]
        BY <2>2, <2>3, <3>1
      <3>3. Promise!Conclude(Decision(report'))
        BY <2>1, <2>2, <2>3, <2>5, <3>2 DEF Promise!Conclude
      <3> QED
        BY <2>1, <3>3 DEF Promise!Next
    <2> QED
      BY <2>4, <2>5
  <1> QED
    BY <1>1, <1>2

(***************************************************************************)
(* verify keeps the promise of Verdict: the decision starts as "delivered",*)
(* each step keeps or hardens it, and it is handed out at the floor of the *)
(* statement's visible defects or above.  (That it is handed out at all is *)
(* liveness, and checked by TLC.)                                          *)
(***************************************************************************)
THEOREM VerifyImplements == Spec => Promise!Init /\ [][Promise!Next]_(Promise!vars)
  <1>1. Init => Promise!Init
    <2> SUFFICES ASSUME Init PROVE Promise!Init
      OBVIOUS
    <2>1. phase = "checks" /\ report = EmptyReport
      BY DEF Init
    <2>2. ~ HasBlocking(report) /\ ~ report.suggested_review
      <3>1. report.flags = <<>> /\ Len(report.flags) = 0
        BY <2>1 DEF EmptyReport
      <3> QED
        BY <2>1, <3>1 DEF HasBlocking, EmptyReport
    <2>3. Decision(report) = "delivered" /\ Floor \in DOMAIN Rank
      BY <2>2 DEF Decision, Floor, Rank
    <2> QED
      BY <2>1, <2>3 DEF Promise!Init
  <1>2. VInv /\ VInv' /\ [Next]_vars => [Promise!Next]_(Promise!vars)
    BY PromiseStep
  <1> QED
    BY <1>1, <1>2, VInvAlways, PTL DEF Spec

=============================================================================
