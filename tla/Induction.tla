----------------------------- MODULE Induction -----------------------------
(***************************************************************************)
(* Induction and recursion over data, for the proofs.  The library states  *)
(* induction for a predicate, an operator parameter that has to be         *)
(* instantiated; here it is stated for the set of the numbers that have a  *)
(* property, and recursion for functions, so that a fact is an ordinary    *)
(* instance of a lemma.  Both rest on the library's theorem that the       *)
(* natural numbers are well founded.                                       *)
(***************************************************************************)
EXTENDS Integers, WellFoundedInduction, TLAPS

LEMMA LessThanRelation == \A m, n \in Nat : m < n => <<m, n>> \in OpToRel(<, Nat)
  BY DEF OpToRel

(***************************************************************************)
(* A number without a property is preceded by no smallest one.             *)
(***************************************************************************)
LEMMA SmallestExists ==
  ASSUME NEW C \in SUBSET Nat, C # {}
  PROVE  \E x \in C : \A y \in C : x <= y
  <1>1. PICK x \in C : \A y \in C : ~ (<<y, x>> \in OpToRel(<, Nat))
    <2>1. \E x \in C : \A y \in C : ~ (<<y, x>> \in OpToRel(<, Nat))
      BY WFMin, NatLessThanWellFounded
    <2> QED
      BY <2>1
  <1>2. ASSUME NEW y \in C PROVE x <= y
    <2>1. x \in Nat /\ y \in Nat
      OBVIOUS
    <2>2. ~ (y < x)
      BY <1>1, <2>1, LessThanRelation
    <2> QED
      BY <2>1, <2>2
  <1> QED
    BY <1>2

(***************************************************************************)
(* A set of numbers that has n whenever it has all smaller ones has all.   *)
(***************************************************************************)
LEMMA StrongInduction ==
  ASSUME NEW T, \A n \in Nat : (\A m \in 0 .. n - 1 : m \in T) => n \in T
  PROVE  \A n \in Nat : n \in T
  <1> DEFINE C == Nat \ T
  <1>1. ASSUME C # {} PROVE FALSE
    <2>1. C \in SUBSET Nat
      OBVIOUS
    <2>2. PICK x \in C : \A y \in C : x <= y
      <3> HIDE DEF C
      <3> QED
        BY <1>1, <2>1, SmallestExists
    <2>3. \A m \in 0 .. x - 1 : m \in T
      BY <2>2
    <2> QED
      BY <2>2, <2>3
  <1> QED
    BY <1>1

LEMMA SetInduction ==
  ASSUME NEW T, 0 \in T, \A n \in Nat : n \in T => n + 1 \in T
  PROVE  \A n \in Nat : n \in T
  <1>1. ASSUME NEW n \in Nat, \A m \in 0 .. n - 1 : m \in T
        PROVE  n \in T
    <2>1. CASE n = 0
      BY <2>1
    <2>2. CASE n # 0
      <3>1. n - 1 \in Nat /\ n - 1 \in 0 .. n - 1 /\ (n - 1) + 1 = n
        BY <2>2
      <3>2. n - 1 \in T
        BY <1>1, <3>1
      <3> QED
        BY <3>1, <3>2
    <2> QED
      BY <2>1, <2>2
  <1> QED
    BY <1>1, StrongInduction

(***************************************************************************)
(* The same from 0 to n.                                                   *)
(***************************************************************************)
LEMMA IntervalInduction ==
  ASSUME NEW n \in Nat, NEW T, 0 \in T, \A i \in 0 .. n - 1 : i \in T => i + 1 \in T
  PROVE  \A i \in 0 .. n : i \in T
  <1> DEFINE U == {i \in Nat : i <= n => i \in T}
  <1>1. 0 \in U
    OBVIOUS
  <1>2. ASSUME NEW i \in Nat, i \in U PROVE i + 1 \in U
    BY <1>2
  <1>3. \A i \in Nat : i \in U
    <2> HIDE DEF U
    <2> QED
      BY <1>1, <1>2, SetInduction
  <1> QED
    BY <1>3

-----------------------------------------------------------------------------
(***************************************************************************)
(* A function on 1 .. n whose value at i depends on those below i only.    *)
(***************************************************************************)
CourseRules(n, S) ==
  {D \in [1 .. n -> [[1 .. n -> S] -> S]] :
     \A i \in 1 .. n : \A g, h \in [1 .. n -> S] :
       (\A j \in 1 .. i - 1 : g[j] = h[j]) => D[i][g] = D[i][h]}

Solutions(n, S, D) == {g \in [1 .. n -> S] : \A i \in 1 .. n : g[i] = D[i][g]}

LEMMA CourseRecursion ==
  ASSUME NEW n \in Nat, NEW S, NEW base \in S, NEW D \in CourseRules(n, S)
  PROVE  \E g : g \in Solutions(n, S, D)
  <1>0. /\ D \in [1 .. n -> [[1 .. n -> S] -> S]]
        /\ \A i \in 1 .. n : \A g, h \in [1 .. n -> S] :
              (\A j \in 1 .. i - 1 : g[j] = h[j]) => D[i][g] = D[i][h]
    BY DEF CourseRules
  <1> DEFINE Upto(k) == \E g \in [1 .. n -> S] : \A i \in 1 .. k : g[i] = D[i][g]
             T == {k \in 0 .. n : Upto(k)}
  <1>1. Upto(0)
    <2> DEFINE g0 == [i \in 1 .. n |-> base]
    <2>1. g0 \in [1 .. n -> S]
      OBVIOUS
    <2>2. 1 .. 0 = {}
      OBVIOUS
    <2> HIDE DEF g0
    <2>3. \A i \in 1 .. 0 : g0[i] = D[i][g0]
      BY <2>2
    <2> QED
      BY <2>1, <2>3
  <1>2. ASSUME NEW k \in 0 .. n - 1, Upto(k) PROVE Upto(k + 1)
    <2>1. PICK g \in [1 .. n -> S] : \A i \in 1 .. k : g[i] = D[i][g]
      BY <1>2
    <2> DEFINE h == [i \in 1 .. n |-> IF i = k + 1 THEN D[k + 1][g] ELSE g[i]]
    <2>2. k + 1 \in 1 .. n
      OBVIOUS
    <2>3. D[k + 1] \in [[1 .. n -> S] -> S] /\ D[k + 1][g] \in S
      BY <1>0, <2>2
    <2>4. h \in [1 .. n -> S]
      BY <2>3
    <2>5. \A j \in 1 .. n : j # k + 1 => h[j] = g[j]
      OBVIOUS
    <2>6. h[k + 1] = D[k + 1][g]
      BY <2>2
    <2> HIDE DEF h
    <2>7. ASSUME NEW i \in 1 .. k + 1 PROVE h[i] = D[i][h]
      <3>1. i \in 1 .. n /\ \A j \in 1 .. i - 1 : j \in 1 .. n /\ j # k + 1
        BY <2>2
      <3>2. \A j \in 1 .. i - 1 : h[j] = g[j]
        BY <2>5, <3>1
      <3>3. D[i][h] = D[i][g]
        BY <1>0, <2>4, <3>1, <3>2
      <3>4. CASE i = k + 1
        BY <2>6, <3>3, <3>4
      <3>5. CASE i # k + 1
        <4>1. i \in 1 .. k /\ h[i] = g[i]
          BY <2>5, <3>1, <3>5
        <4> QED
          BY <2>1, <3>3, <4>1
      <3> QED
        BY <3>4, <3>5
    <2> QED
      BY <2>4, <2>7
  <1> HIDE DEF Upto
  <1>3. 0 \in T /\ \A k \in 0 .. n - 1 : k \in T => k + 1 \in T
    BY <1>1, <1>2
  <1>4. \A k \in 0 .. n : k \in T
    <2> HIDE DEF T
    <2> QED
      BY <1>3, IntervalInduction
  <1>5. Upto(n)
    BY <1>4
  <1> QED
    BY <1>5 DEF Upto, Solutions

(***************************************************************************)
(* A function on 0 .. n whose value at i depends on the one before.        *)
(***************************************************************************)
Runs(n, S, first, D) ==
  {g \in [0 .. n -> S] : g[0] = first /\ \A i \in 1 .. n : g[i] = D[i][g[i - 1]]}

LEMMA StepRecursion ==
  ASSUME NEW n \in Nat, NEW S, NEW first \in S, NEW D \in [1 .. n -> [S -> S]]
  PROVE  \E g : g \in Runs(n, S, first, D)
  <1> DEFINE Prev(g, i) == IF i = 1 THEN first ELSE g[i - 1]
             E == [i \in 1 .. n |-> [g \in [1 .. n -> S] |-> D[i][Prev(g, i)]]]
  <1>1. ASSUME NEW i \in 1 .. n, NEW g \in [1 .. n -> S]
        PROVE  Prev(g, i) \in S /\ E[i][g] = D[i][Prev(g, i)] /\ E[i][g] \in S
    <2>1. Prev(g, i) \in S
      OBVIOUS
    <2>2. D[i] \in [S -> S]
      OBVIOUS
    <2> QED
      BY <2>1, <2>2
  <1>2. E \in [1 .. n -> [[1 .. n -> S] -> S]]
    <2>1. ASSUME NEW i \in 1 .. n
          PROVE  [g \in [1 .. n -> S] |-> D[i][Prev(g, i)]] \in [[1 .. n -> S] -> S]
      <3>1. \A g \in [1 .. n -> S] : D[i][Prev(g, i)] \in S
        BY <1>1
      <3> HIDE DEF Prev
      <3> QED
        BY <3>1
    <2> QED
      BY <2>1
  <1>3. ASSUME NEW i \in 1 .. n, NEW g \in [1 .. n -> S], NEW h \in [1 .. n -> S],
               \A j \in 1 .. i - 1 : g[j] = h[j]
        PROVE  E[i][g] = E[i][h]
    <2>1. Prev(g, i) = Prev(h, i)
      BY <1>3
    <2> QED
      BY <1>1, <2>1
  <1>4. E \in CourseRules(n, S)
    <2>1. \A i \in 1 .. n : \A g, h \in [1 .. n -> S] :
            (\A j \in 1 .. i - 1 : g[j] = h[j]) => E[i][g] = E[i][h]
      BY <1>3
    <2> HIDE DEF E
    <2> QED
      BY <1>2, <2>1 DEF CourseRules
  <1>5. PICK g : g \in Solutions(n, S, E)
    <2> HIDE DEF E
    <2> QED
      BY <1>4, CourseRecursion
  <1>6. g \in [1 .. n -> S] /\ \A i \in 1 .. n : g[i] = E[i][g]
    <2> HIDE DEF E
    <2> QED
      BY <1>5 DEF Solutions
  <1> DEFINE f == [i \in 0 .. n |-> IF i = 0 THEN first ELSE g[i]]
  <1>7. f \in [0 .. n -> S] /\ f[0] = first
    BY <1>6
  <1>8. ASSUME NEW i \in 1 .. n PROVE f[i] = D[i][f[i - 1]]
    <2>0. i - 1 \in 0 .. n /\ i \in 0 .. n /\ (i - 1 = 0 <=> i = 1)
      OBVIOUS
    <2>1. f[i] = g[i] /\ f[i - 1] = Prev(g, i)
      BY <2>0
    <2>2. g[i] = D[i][Prev(g, i)]
      BY <1>1, <1>6
    <2> QED
      BY <2>1, <2>2
  <1>9. f \in Runs(n, S, first, D)
    <2> HIDE DEF f
    <2> QED
      BY <1>7, <1>8 DEF Runs
  <1> QED
    BY <1>9

=============================================================================
