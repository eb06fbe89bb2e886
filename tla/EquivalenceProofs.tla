------------------------- MODULE EquivalenceProofs -------------------------
(***************************************************************************)
(* What is proved of Equivalence, for every pair of statements, all        *)
(* results they may have, every cap and all writes in between.             *)
(***************************************************************************)
EXTENDS Equivalence, SequenceTheorems, FiniteSetTheorems, TLAPS

LEMMA HasConcat ==
  ASSUME NEW a \in Seq(Difference), NEW b \in Seq(Difference), NEW severity
  PROVE  /\ a \o b \in Seq(Difference)
         /\ Has(a \o b, severity) <=> Has(a, severity) \/ Has(b, severity)
  <1> DEFINE c == a \o b
  <1>1. /\ c \in Seq(Difference) /\ Len(c) = Len(a) + Len(b)
        /\ Len(a) \in Nat /\ Len(b) \in Nat
        /\ \A i \in 1 .. Len(a) : c[i] = a[i]
        /\ \A i \in 1 .. Len(b) : c[Len(a) + i] = b[i]
    OBVIOUS
  <1>2. DOMAIN a = 1 .. Len(a) /\ DOMAIN b = 1 .. Len(b) /\ DOMAIN c = 1 .. Len(c)
    BY <1>1
  <1> HIDE DEF c
  <1>3. ASSUME Has(a, severity) PROVE Has(c, severity)
    BY <1>1, <1>2, <1>3 DEF Has
  <1>4. ASSUME Has(b, severity) PROVE Has(c, severity)
    <2>1. PICK i \in 1 .. Len(b) : b[i].severity = severity
      BY <1>2, <1>4 DEF Has
    <2>2. Len(a) + i \in DOMAIN c /\ c[Len(a) + i].severity = severity
      BY <1>1, <1>2, <2>1
    <2> QED
      BY <2>2 DEF Has
  <1>5. ASSUME Has(c, severity) PROVE Has(a, severity) \/ Has(b, severity)
    <2>1. PICK i \in 1 .. Len(c) : c[i].severity = severity
      BY <1>2, <1>5 DEF Has
    <2>2. CASE i <= Len(a)
      BY <1>1, <1>2, <2>1, <2>2 DEF Has
    <2>3. CASE i > Len(a)
      <3>1. i - Len(a) \in 1 .. Len(b) /\ c[Len(a) + (i - Len(a))] = b[i - Len(a)]
        BY <1>1, <2>1, <2>3
      <3>2. b[i - Len(a)].severity = severity
        BY <1>1, <2>1, <3>1
      <3> QED
        BY <1>2, <3>1, <3>2 DEF Has
    <2> QED
      BY <1>1, <2>1, <2>2, <2>3
  <1> QED
    BY <1>1, <1>3, <1>4, <1>5 DEF c

LEMMA HasDiffIf ==
  ASSUME NEW condition, NEW kind \in Kinds, NEW severity \in {"minor", "major", "fatal"}, NEW s
  PROVE  /\ DiffIf(condition, kind, severity) \in Seq(Difference)
         /\ Has(DiffIf(condition, kind, severity), s) <=> condition /\ severity = s
  <1>1. Diff(kind, severity) \in Difference
    BY DEF Diff, Difference
  <1>2. <<Diff(kind, severity)>> \in Seq(Difference) /\ <<>> \in Seq(Difference)
    BY <1>1
  <1>3. DOMAIN <<Diff(kind, severity)>> = {1} /\ <<Diff(kind, severity)>>[1].severity = severity
    BY DEF Diff
  <1>4. DOMAIN <<>> = {}
    OBVIOUS
  <1>5. CASE condition
    <2>1. DiffIf(condition, kind, severity) = <<Diff(kind, severity)>>
      BY <1>5 DEF DiffIf
    <2> QED
      BY <1>2, <1>3, <1>5, <2>1 DEF Has
  <1>6. CASE ~ condition
    <2>1. DiffIf(condition, kind, severity) = <<>>
      BY <1>6 DEF DiffIf
    <2> QED
      BY <1>2, <1>4, <1>6, <2>1 DEF Has
  <1> QED
    BY <1>5, <1>6

(***************************************************************************)
(* Trees without a severe difference have the same signatures.             *)
(***************************************************************************)
LEMMA StructureFaithful ==
  ASSUME pair \in Tree \X Tree
  PROVE  LET sd == StructuralDifferences(pair[1], pair[2])
         IN  /\ sd \in Seq(Difference)
             /\ ~ Has(sd, "fatal") /\ ~ Has(sd, "major") => SameSignatures
  <1> DEFINE old == pair[1]
             new == pair[2]
             p == ProjectionDifferences(ProjectionNames(old), ProjectionNames(new))
             f == DiffIf(NormalizedWhere(old) # NormalizedWhere(new), "filter", "major")
             j == DiffIf(JoinSignature(old) # JoinSignature(new), "join", "major")
             g == DiffIf(GroupBySignature(old) # GroupBySignature(new), "grouping", "major")
             sd == StructuralDifferences(old, new)
  <1>1. CASE ~ (old.parses /\ new.parses)
    <2>1. sd = DiffIf(TRUE, "parse", "fatal")
      BY <1>1 DEF StructuralDifferences, DiffIf
    <2>2. "parse" \in Kinds
      BY DEF Kinds
    <2>3. DiffIf(TRUE, "parse", "fatal") \in Seq(Difference) /\ Has(DiffIf(TRUE, "parse", "fatal"), "fatal")
      BY <2>2, HasDiffIf
    <2>4. sd \in Seq(Difference) /\ Has(sd, "fatal")
      BY <2>1, <2>3, Zenon
    <2> HIDE DEF sd
    <2> QED
      BY <2>4 DEF sd
  <1>2. CASE old.parses /\ new.parses
    <2>1. sd = p \o f \o j \o g
      BY <1>2 DEF StructuralDifferences
    <2>2. {"projection", "filter", "join", "grouping"} \subseteq Kinds
      BY DEF Kinds
    <2>3. p \in Seq(Difference) /\ (~ Has(p, "major") =>
            Elements(ProjectionNames(old)) = Elements(ProjectionNames(new)))
      <3>1. CASE Elements(ProjectionNames(old)) # Elements(ProjectionNames(new))
        <4>1. p = DiffIf(TRUE, "projection", "major")
          BY <3>1 DEF ProjectionDifferences, DiffIf
        <4>2. DiffIf(TRUE, "projection", "major") \in Seq(Difference)
              /\ Has(DiffIf(TRUE, "projection", "major"), "major")
          BY <2>2, HasDiffIf
        <4>3. p \in Seq(Difference) /\ Has(p, "major")
          BY <4>1, <4>2, Zenon
        <4> QED
          BY <4>3, Zenon
      <3>2. CASE Elements(ProjectionNames(old)) = Elements(ProjectionNames(new))
        <4>1. p = DiffIf(ProjectionNames(old) # ProjectionNames(new), "projection", "minor")
          BY <3>2 DEF ProjectionDifferences
        <4> QED
          BY <2>2, <3>2, <4>1, HasDiffIf
      <3> QED
        BY <3>1, <3>2
    <2>4. /\ f \in Seq(Difference)
          /\ ~ Has(f, "major") => NormalizedWhere(old) = NormalizedWhere(new)
      BY <2>2, HasDiffIf
    <2>5. /\ j \in Seq(Difference)
          /\ ~ Has(j, "major") => JoinSignature(old) = JoinSignature(new)
      BY <2>2, HasDiffIf
    <2>6. /\ g \in Seq(Difference)
          /\ ~ Has(g, "major") => GroupBySignature(old) = GroupBySignature(new)
      BY <2>2, HasDiffIf
    <2> HIDE DEF p, f, j, g, sd
    <2>7. /\ p \o f \in Seq(Difference)
          /\ Has(p, "major") \/ Has(f, "major") => Has(p \o f, "major")
      BY <2>3, <2>4, HasConcat
    <2>8. /\ p \o f \o j \in Seq(Difference)
          /\ Has(p \o f, "major") \/ Has(j, "major") => Has(p \o f \o j, "major")
      BY <2>5, <2>7, HasConcat
    <2>9. /\ sd \in Seq(Difference)
          /\ Has(p \o f \o j, "major") \/ Has(g, "major") => Has(sd, "major")
      BY <2>1, <2>6, <2>8, HasConcat
    <2>10. ~ Has(sd, "major") => SameSignatures
      BY <1>2, <2>3, <2>4, <2>5, <2>6, <2>7, <2>8, <2>9 DEF SameSignatures
    <2> QED
      BY <2>9, <2>10 DEF sd
  <1> QED
    BY <1>1, <1>2

(***************************************************************************)
(* Fetched rows without a difference have one fingerprint.                 *)
(***************************************************************************)
LEMMA DataFaithful ==
  ASSUME NEW old \in Seq(Row), NEW new \in Seq(Row)
  PROVE  /\ DataDifferences(old, new) \in Seq(Difference)
         /\ ~ Has(DataDifferences(old, new), "major") => Fingerprint(old) = Fingerprint(new)
  <1> DEFINE unequal == Fingerprint(old) # Fingerprint(new)
  <1>1. /\ \A kind \in {"rowcount", "data"} :
             DiffIf(TRUE, kind, "major") \in Seq(Difference) /\ Has(DiffIf(TRUE, kind, "major"), "major")
        /\ DiffIf(unequal, "data", "major") \in Seq(Difference)
        /\ ~ Has(DiffIf(unequal, "data", "major"), "major") => ~ unequal
    <2>1. {"rowcount", "data"} \subseteq Kinds
      BY DEF Kinds
    <2> HIDE DEF unequal
    <2>2. unequal \in BOOLEAN
      BY DEF unequal
    <2> QED
      BY <2>1, <2>2, HasDiffIf
  <1>2. \/ \E kind \in {"rowcount", "data"} : DataDifferences(old, new) = DiffIf(TRUE, kind, "major")
        \/ DataDifferences(old, new) = DiffIf(unequal, "data", "major")
    BY DEF DataDifferences, DiffIf
  <1> HIDE DEF unequal
  <1>3. /\ DataDifferences(old, new) \in Seq(Difference)
        /\ ~ Has(DataDifferences(old, new), "major") => ~ unequal
    BY <1>1, <1>2, Zenon
  <1> QED
    BY <1>3 DEF unequal

(***************************************************************************)
(* Whatever the cap leaves of a result is a sequence of rows.              *)
(***************************************************************************)
LEMMA FetchedType ==
  ASSUME full \in Result \X Result, NEW i \in {1, 2}, NEW rows \in Fetched(i)
  PROVE  /\ rows \in Result
         /\ Whole(i) => rows = full[i]
  <1>0. full[i] \in Result
    OBVIOUS
  <1>1. CASE Whole(i)
    BY <1>0, <1>1 DEF Fetched
  <1>2. CASE ~ Whole(i)
    <2>1. PICK pick \in [1 .. SampleRows -> 1 .. Len(full[i])] :
             rows = [n \in 1 .. SampleRows |-> full[i][pick[n]]]
      BY <1>2 DEF Fetched
    <2> DEFINE all == full[i]
    <2>2. /\ all \in Seq(Row) /\ DOMAIN all = 1 .. Len(all)
          /\ \A m, n \in DOMAIN all : all[m].width = all[n].width
      BY <1>0 DEF Result
    <2> HIDE DEF all
    <2>3. \A n \in 1 .. SampleRows : pick[n] \in DOMAIN all /\ all[pick[n]] \in Row /\ rows[n] = all[pick[n]]
      BY <2>1, <2>2 DEF all
    <2>4. rows \in Seq(Row) /\ DOMAIN rows = 1 .. SampleRows
      BY <2>1, <2>3, SampleRowsAssumption DEF all
    <2>5. \A m, n \in DOMAIN rows : rows[m].width = rows[n].width
      BY <2>2, <2>3, <2>4
    <2> QED
      BY <1>2, <2>4, <2>5 DEF Result
  <1> QED
    BY <1>1, <1>2

Comparison ==
  /\ stage = "structure" => differences = <<>> /\ ~ executed
  /\ stage \in {"old", "new", "compare"} =>
       /\ connector /\ ~ executed
       /\ differences = StructuralDifferences(pair[1], pair[2])
  /\ stage \in {"new", "compare"} => pair[1].kind = "query"
  /\ stage = "compare" => pair[2].kind = "query"
  /\ stage \in {"finalize", "done"} =>
       \/ /\ executed /\ connector /\ pair[1].kind = "query" /\ pair[2].kind = "query"
          /\ differences = StructuralDifferences(pair[1], pair[2]) \o DataDifferences(old_rows, new_rows)
       \/ ~ executed /\ Has(differences, "fatal")
       \/ /\ ~ executed /\ ~ connector
          /\ differences = StructuralDifferences(pair[1], pair[2])
  /\ stage = "done" => verdict = Verdict(differences, executed)

EquivalenceInv == TypeOK /\ Comparison

LEMMA InitHolds == Init => EquivalenceInv
  <1> SUFFICES ASSUME Init PROVE EquivalenceInv
    OBVIOUS
  <1>1. pair \in Tree \X Tree
    BY PairsAssumption DEF Init
  <1>2. full \in Result \X Result
    BY ResultsAssumption DEF Init
  <1>3. <<>> \in Seq(Difference) /\ <<>> \in Result
    BY DEF Result
  <1>4. TypeOK
    BY <1>1, <1>2, <1>3 DEF Init, TypeOK
  <1>5. Comparison
    BY DEF Init, Comparison
  <1> QED
    BY <1>4, <1>5 DEF EquivalenceInv

LEMMA StepHolds == EquivalenceInv /\ [Next]_vars => EquivalenceInv'
  <1> SUFFICES ASSUME EquivalenceInv, [Next]_vars PROVE EquivalenceInv'
    OBVIOUS
  <1> USE DEF EquivalenceInv
  <1>0. /\ pair \in Tree \X Tree /\ full \in Result \X Result
        /\ StructuralDifferences(pair[1], pair[2]) \in Seq(Difference)
    BY StructureFaithful DEF TypeOK
  <1>1. CASE CompareStructure
    <2>1. /\ differences' = StructuralDifferences(pair[1], pair[2])
          /\ stage = "structure"
          /\ stage' = IF connector /\ ~ Has(differences', "fatal") THEN "old" ELSE "finalize"
          /\ UNCHANGED <<pair, connector, full, executed, old_rows, new_rows, verdict, quiet>>
      BY <1>1 DEF CompareStructure
    <2>2. TypeOK'
      BY <1>0, <2>1 DEF TypeOK
    <2>3. Comparison'
      BY <2>1 DEF Comparison, Has
    <2> QED
      BY <2>2, <2>3
  <1>2. CASE DataChanges
    <2>1. full' \in Result \X Result
      BY <1>2, ResultsAssumption DEF DataChanges
    <2>2. TypeOK'
      BY <1>2, <2>1 DEF DataChanges, TypeOK
    <2>3. Comparison'
      BY <1>2 DEF DataChanges, Comparison, Has
    <2> QED
      BY <2>2, <2>3
  <1>3. CASE ExecuteOld
    <2>1. old_rows' \in Result
      BY <1>0, <1>3, FetchedType DEF ExecuteOld
    <2>2. TypeOK'
      BY <1>3, <2>1 DEF ExecuteOld, TypeOK
    <2>3. Comparison'
      BY <1>3 DEF ExecuteOld, Comparison, Has
    <2> QED
      BY <2>2, <2>3
  <1>4. CASE ExecuteNew
    <2>1. new_rows' \in Result
      BY <1>0, <1>4, FetchedType DEF ExecuteNew
    <2>2. TypeOK'
      BY <1>4, <2>1 DEF ExecuteNew, TypeOK
    <2>3. Comparison'
      BY <1>4 DEF ExecuteNew, Comparison, Has
    <2> QED
      BY <2>2, <2>3
  <1>5. CASE ExecutionRaises
    <2> DEFINE fatal == DiffIf(TRUE, "data", "fatal")
    <2>1. fatal = <<Diff("data", "fatal")>>
      BY DEF DiffIf
    <2>2. differences \in Seq(Difference)
      BY DEF TypeOK
    <2>3. Diff("data", "fatal") \in Difference
      BY DEF Diff, Difference, Kinds
    <2>4. differences' = differences \o fatal
      <3>1. differences' = Append(differences, Diff("data", "fatal"))
        BY <1>5 DEF ExecutionRaises
      <3> QED
        BY <2>1, <2>2, <2>3, <3>1, AppendIsConcat
    <2>5. fatal \in Seq(Difference) /\ Has(fatal, "fatal")
      BY HasDiffIf DEF Kinds
    <2> HIDE DEF fatal
    <2>6. differences' \in Seq(Difference) /\ Has(differences', "fatal")
      BY <2>2, <2>4, <2>5, HasConcat
    <2>7. TypeOK'
      BY <1>5, <2>6 DEF ExecutionRaises, TypeOK
    <2>8. Comparison'
      BY <1>5, <2>6 DEF ExecutionRaises, Comparison, Has
    <2> QED
      BY <2>7, <2>8
  <1>6. CASE CompareResults
    <2>1. /\ old_rows \in Seq(Row) /\ new_rows \in Seq(Row) /\ differences \in Seq(Difference)
      BY DEF TypeOK, Result
    <2>2. DataDifferences(old_rows, new_rows) \in Seq(Difference)
      BY <2>1, DataFaithful
    <2>3. differences' \in Seq(Difference)
      BY <1>6, <2>1, <2>2, HasConcat DEF CompareResults
    <2>4. TypeOK'
      BY <1>6, <2>3 DEF CompareResults, TypeOK
    <2>5. Comparison'
      BY <1>6 DEF CompareResults, Comparison
    <2> QED
      BY <2>4, <2>5
  <1>7. CASE Finalize
    <2>1. Verdict(differences, executed) \in
            {"equivalent", "likely_equivalent", "likely_not_equivalent", "not_equivalent"}
      BY DEF Verdict
    <2>2. TypeOK'
      BY <1>7, <2>1 DEF Finalize, TypeOK
    <2>3. Comparison'
      BY <1>7 DEF Finalize, Comparison, Has, Verdict
    <2> QED
      BY <2>2, <2>3
  <1>8. CASE UNCHANGED vars
    BY <1>8 DEF vars, TypeOK, Comparison, Has, Verdict
  <1> QED
    BY <1>1, <1>2, <1>3, <1>4, <1>5, <1>6, <1>7, <1>8 DEF Next, Call

LEMMA InvHolds == Spec => []EquivalenceInv
  BY InitHolds, StepHolds, PTL DEF Spec

(***************************************************************************)
(* Type correctness; a finished comparison has one of the four verdicts.   *)
(***************************************************************************)
THEOREM TypeCorrect == Spec => []TypeOK
  <1>1. EquivalenceInv => TypeOK
    BY DEF EquivalenceInv
  <1> QED
    BY <1>1, InvHolds, PTL

(***************************************************************************)
(* What `verisql diff` passes has the same signatures, and with a database *)
(* has been run and has shown the same rows.                               *)
(***************************************************************************)
THEOREM PassedIsProven == Spec => []EquivalentIsProven
  <1>1. EquivalenceInv => EquivalentIsProven
    <2> SUFFICES ASSUME EquivalenceInv, stage = "done", DiffExit(verdict) = 0
                 PROVE  /\ SameSignatures
                        /\ verdict = "equivalent" <=> connector
                        /\ connector => /\ pair[1].kind = "query" /\ pair[2].kind = "query"
                                        /\ Fingerprint(old_rows) = Fingerprint(new_rows)
      BY DEF EquivalentIsProven
    <2> DEFINE sd == StructuralDifferences(pair[1], pair[2])
               dd == DataDifferences(old_rows, new_rows)
    <2>0. verdict = Verdict(differences, executed) /\ executed \in BOOLEAN /\ connector \in BOOLEAN
      BY DEF EquivalenceInv, Comparison, TypeOK
    <2>1. /\ ~ Has(differences, "fatal") /\ ~ Has(differences, "major")
          /\ verdict = IF executed THEN "equivalent" ELSE "likely_equivalent"
      BY <2>0 DEF DiffExit, Verdict
    <2>2. /\ pair \in Tree \X Tree /\ sd \in Seq(Difference)
          /\ ~ Has(sd, "fatal") /\ ~ Has(sd, "major") => SameSignatures
      BY StructureFaithful DEF EquivalenceInv, TypeOK
    <2>3. /\ dd \in Seq(Difference)
          /\ ~ Has(dd, "major") => Fingerprint(old_rows) = Fingerprint(new_rows)
      BY DataFaithful DEF EquivalenceInv, TypeOK, Result
    <2>4. \/ /\ executed /\ connector /\ pair[1].kind = "query" /\ pair[2].kind = "query"
             /\ differences = sd \o dd
          \/ ~ executed /\ ~ connector /\ differences = sd
      BY <2>1 DEF EquivalenceInv, Comparison
    <2> HIDE DEF sd, dd
    <2>5. CASE executed /\ differences = sd \o dd
      <3>1. ~ Has(sd, "fatal") /\ ~ Has(sd, "major") /\ ~ Has(dd, "major")
        BY <2>1, <2>2, <2>3, <2>5, HasConcat
      <3> QED
        BY <2>0, <2>1, <2>2, <2>3, <2>4, <2>5, <3>1
    <2>6. CASE ~ executed /\ differences = sd
      BY <2>0, <2>1, <2>2, <2>4, <2>6
    <2> QED
      BY <2>4, <2>5, <2>6
  <1> QED
    BY <1>1, InvHolds, PTL

-----------------------------------------------------------------------------
(***************************************************************************)
(* What is counted in a list is the places of each of its elements, so two *)
(* lists of one length have the same counts iff the places of the one can  *)
(* be matched with those of the other.                                     *)
(***************************************************************************)
Places(list, e) == {i \in DOMAIN list : list[i] = e}

Matches(n, f, g) ==
  {p \in [1 .. n -> 1 .. n] :
     /\ \A i, j \in 1 .. n : p[i] = p[j] => i = j
     /\ \A i \in 1 .. n : f[i] = g[p[i]]}

LEMMA PlacesCounted ==
  ASSUME NEW n \in Nat, NEW list, DOMAIN list = 1 .. n
  PROVE  /\ DOMAIN Counted(list) = Elements(list)
         /\ \A e \in Elements(list) : Counted(list)[e] = Cardinality(Places(list, e))
         /\ \A e : IsFiniteSet(Places(list, e))
  <1>1. IsFiniteSet(1 .. n)
    BY FS_Interval
  <1>2. \A e : Places(list, e) \in SUBSET (1 .. n)
    BY DEF Places
  <1>3. \A e : IsFiniteSet(Places(list, e))
    BY <1>1, <1>2, FS_Subset
  <1> QED
    BY <1>3 DEF Counted, Places

LEMMA CountsMatch ==
  ASSUME NEW n \in Nat, NEW f \in [1 .. n -> STRING], NEW g \in [1 .. n -> STRING],
         Counted(f) = Counted(g)
  PROVE  Matches(n, f, g) # {}
  <1> DEFINE Match(e) == CHOOSE b \in Bijection(Places(f, e), Places(g, e)) : TRUE
             p == [i \in 1 .. n |-> Match(f[i])[i]]
  <1>1. ASSUME NEW i \in 1 .. n
        PROVE  Match(f[i]) \in Bijection(Places(f, f[i]), Places(g, f[i]))
    <2>1. f[i] \in Elements(f)
      BY DEF Elements
    <2>2. f[i] \in Elements(g)
      BY <2>1, PlacesCounted
    <2>3. Cardinality(Places(f, f[i])) = Cardinality(Places(g, f[i]))
      BY <2>1, <2>2, PlacesCounted
    <2>4. IsFiniteSet(Places(f, f[i])) /\ IsFiniteSet(Places(g, f[i]))
      BY PlacesCounted
    <2>5. ExistsBijection(Places(f, f[i]), Places(g, f[i]))
      BY <2>3, <2>4, FS_SameCardinalityBij
    <2> QED
      BY <2>5 DEF ExistsBijection
  <1> HIDE DEF Match
  <1>2. ASSUME NEW i \in 1 .. n
        PROVE  /\ p[i] = Match(f[i])[i] /\ p[i] \in 1 .. n /\ g[p[i]] = f[i]
               /\ \A j \in 1 .. n : f[j] = f[i] /\ Match(f[i])[i] = Match(f[i])[j] => i = j
    <2>1. /\ Match(f[i]) \in [Places(f, f[i]) -> Places(g, f[i])]
          /\ \A x, y \in Places(f, f[i]) : Match(f[i])[x] = Match(f[i])[y] => x = y
      BY <1>1 DEF Bijection, Injection, IsInjective
    <2>2. i \in Places(f, f[i])
      BY DEF Places
    <2>3. Match(f[i])[i] \in Places(g, f[i])
      BY <2>1, <2>2
    <2> QED
      BY <2>1, <2>2, <2>3 DEF Places
  <1>3. p \in [1 .. n -> 1 .. n]
    BY <1>2
  <1>4. ASSUME NEW i \in 1 .. n, NEW j \in 1 .. n, p[i] = p[j]
        PROVE  i = j
    <2>1. f[i] = f[j]
      BY <1>2, <1>4, Zenon
    <2>2. Match(f[j]) = Match(f[i])
      BY <2>1
    <2>3. Match(f[i])[i] = Match(f[i])[j]
      BY <1>2, <1>4, <2>2, Zenon
    <2> QED
      BY <1>2, <2>1, <2>3, Zenon
  <1>5. \A i \in 1 .. n : f[i] = g[p[i]]
    BY <1>2
  <1> HIDE DEF p
  <1> QED
    BY <1>3, <1>4, <1>5 DEF Matches

LEMMA MatchedCounts ==
  ASSUME NEW n \in Nat, NEW f \in [1 .. n -> STRING], NEW g \in [1 .. n -> STRING],
         NEW p \in Matches(n, f, g)
  PROVE  Counted(f) = Counted(g)
  <1>0. /\ p \in [1 .. n -> 1 .. n]
        /\ \A i, j \in 1 .. n : p[i] = p[j] => i = j
        /\ \A i \in 1 .. n : f[i] = g[p[i]]
    BY DEF Matches
  <1>1. \A k \in 1 .. n : \E i \in 1 .. n : p[i] = k
    <2>1. p \in Injection(1 .. n, 1 .. n)
      BY <1>0 DEF Injection, IsInjective
    <2>2. IsFiniteSet(1 .. n)
      BY FS_Interval
    <2>3. p \in Surjection(1 .. n, 1 .. n)
      BY <2>1, <2>2, FS_Injection
    <2> QED
      BY <2>3 DEF Surjection
  <1>2. Elements(f) = Elements(g)
    BY <1>0, <1>1 DEF Elements
  <1>3. ASSUME NEW e \in Elements(f)
        PROVE  Cardinality(Places(f, e)) = Cardinality(Places(g, e))
    <2> DEFINE b == [i \in Places(f, e) |-> p[i]]
    <2>1. b \in [Places(f, e) -> Places(g, e)]
      BY <1>0 DEF Places
    <2>2. \A x, y \in Places(f, e) : b[x] = b[y] => x = y
      BY <1>0 DEF Places
    <2>3. \A k \in Places(g, e) : \E i \in Places(f, e) : b[i] = k
      BY <1>0, <1>1 DEF Places
    <2>4. DOMAIN b = Places(f, e)
      OBVIOUS
    <2> HIDE DEF b
    <2>5. b \in Bijection(Places(f, e), Places(g, e))
      BY <2>1, <2>2, <2>3, <2>4 DEF Bijection, Injection, Surjection, IsInjective
    <2>6. ExistsBijection(Places(f, e), Places(g, e))
      BY <2>5 DEF ExistsBijection
    <2>7. IsFiniteSet(Places(f, e))
      BY PlacesCounted
    <2> QED
      BY <2>6, <2>7, FS_Bijection
  <1> QED
    BY <1>2, <1>3 DEF Counted, Places

(***************************************************************************)
(* compare_results finds a difference of two results iff their rows cannot *)
(* be matched: the fingerprint tells the texts, and the first row tells    *)
(* the number of columns of all.                                           *)
(***************************************************************************)
LEMMA DifferenceCases ==
  ASSUME NEW old \in Result, NEW new \in Result
  PROVE  LET unequal == \/ Len(old) # Len(new)
                        \/ old # <<>> /\ old[1].width # new[1].width
                        \/ Fingerprint(old) # Fingerprint(new)
         IN  /\ Has(DataDifferences(old, new), "major") <=> unequal
             /\ ~ Has(DataDifferences(old, new), "fatal")
  <1> DEFINE lengths == Len(old) # Len(new)
             widths == old # <<>> /\ old[1].width # new[1].width
             prints == Fingerprint(old) # Fingerprint(new)
             dd == DataDifferences(old, new)
  <1>1. /\ lengths => dd = DiffIf(TRUE, "rowcount", "major")
        /\ ~ lengths /\ widths => dd = DiffIf(TRUE, "data", "major")
        /\ ~ lengths /\ ~ widths => dd = DiffIf(prints, "data", "major")
    BY DEF DataDifferences, DiffIf
  <1>2. lengths \in BOOLEAN /\ widths \in BOOLEAN /\ prints \in BOOLEAN
    OBVIOUS
  <1> HIDE DEF lengths, widths, prints, dd
  <1>3. "rowcount" \in Kinds /\ "data" \in Kinds
    BY DEF Kinds
  <1>4. /\ Has(DiffIf(TRUE, "rowcount", "major"), "major")
        /\ ~ Has(DiffIf(TRUE, "rowcount", "major"), "fatal")
        /\ Has(DiffIf(TRUE, "data", "major"), "major")
        /\ ~ Has(DiffIf(TRUE, "data", "major"), "fatal")
        /\ Has(DiffIf(prints, "data", "major"), "major") <=> prints
        /\ ~ Has(DiffIf(prints, "data", "major"), "fatal")
    BY <1>2, <1>3, HasDiffIf
  <1>5. (Has(dd, "major") <=> lengths \/ widths \/ prints) /\ ~ Has(dd, "fatal")
    <2>1. CASE lengths
      BY <1>1, <1>4, <2>1, Zenon
    <2>2. CASE ~ lengths /\ widths
      BY <1>1, <1>4, <2>2, Zenon
    <2>3. CASE ~ lengths /\ ~ widths
      BY <1>1, <1>4, <2>3, Zenon
    <2> QED
      BY <2>1, <2>2, <2>3
  <1> QED
    BY <1>5 DEF lengths, widths, prints, dd

LEMMA DifferenceMeansRows ==
  ASSUME NEW old \in Result, NEW new \in Result
  PROVE  Has(DataDifferences(old, new), "major") <=> ~ SameRows(old, new)
  <1> DEFINE n == Len(old)
             f == [i \in DOMAIN old |-> old[i].text]
             g == [i \in DOMAIN new |-> new[i].text]
  <1>1. /\ old \in Seq(Row) /\ n \in Nat /\ DOMAIN old = 1 .. n
        /\ \A i, j \in DOMAIN old : old[i].width = old[j].width
        /\ \A i \in DOMAIN old : old[i] \in Row
        /\ new \in Seq(Row) /\ Len(new) \in Nat /\ DOMAIN new = 1 .. Len(new)
        /\ \A i, j \in DOMAIN new : new[i].width = new[j].width
        /\ \A i \in DOMAIN new : new[i] \in Row
    BY DEF Result
  <1>2. /\ f \in [1 .. n -> STRING] /\ \A i \in 1 .. n : f[i] = old[i].text
        /\ g \in [1 .. Len(new) -> STRING] /\ \A i \in 1 .. Len(new) : g[i] = new[i].text
        /\ Fingerprint(old) = Counted(f) /\ Fingerprint(new) = Counted(g)
    BY <1>1 DEF Fingerprint, Row
  <1>3. old # <<>> <=> n > 0
    BY <1>1
  <1> HIDE DEF n, f, g
  <1>4. ASSUME ~ Has(DataDifferences(old, new), "major") PROVE SameRows(old, new)
    <2>1. /\ n = Len(new) /\ Counted(f) = Counted(g)
          /\ old # <<>> => old[1].width = new[1].width
      BY <1>2, <1>4, DifferenceCases DEF n
    <2>2. PICK p \in Matches(n, f, g) : TRUE
      <3>1. n \in Nat /\ f \in [1 .. n -> STRING] /\ g \in [1 .. n -> STRING] /\ Counted(f) = Counted(g)
        BY <1>1, <1>2, <2>1
      <3> QED
        BY <3>1, CountsMatch
    <2>3. /\ p \in [1 .. n -> 1 .. n]
          /\ \A i, j \in 1 .. n : p[i] = p[j] => i = j
          /\ \A i \in 1 .. n : f[i] = g[p[i]]
      BY DEF Matches
    <2>4. ASSUME NEW i \in 1 .. n PROVE old[i] = new[p[i]]
      <3>1. p[i] \in 1 .. n /\ 1 \in 1 .. n /\ old # <<>>
        BY <1>1, <1>3, <2>3
      <3>2. old[i].text = new[p[i]].text
        BY <1>2, <2>1, <2>3, <3>1
      <3>3. old[i].width = new[p[i]].width
        BY <1>1, <2>1, <3>1
      <3>4. old[i] \in Row /\ new[p[i]] \in Row
        BY <1>1, <2>1, <3>1
      <3> QED
        BY <3>2, <3>3, <3>4 DEF Row
    <2>5. p \in [DOMAIN old -> DOMAIN new]
      BY <1>1, <2>1, <2>3
    <2> QED
      BY <1>1, <2>1, <2>3, <2>4, <2>5 DEF SameRows, n
  <1>5. ASSUME SameRows(old, new) PROVE ~ Has(DataDifferences(old, new), "major")
    <2>1. n = Len(new)
      BY <1>5 DEF SameRows, n
    <2>2. PICK p \in [1 .. n -> 1 .. n] :
             /\ \A i, j \in 1 .. n : p[i] = p[j] => i = j
             /\ \A i \in 1 .. n : old[i] = new[p[i]]
      BY <1>1, <1>5, <2>1 DEF SameRows
    <2>3. \A i \in 1 .. n : f[i] = g[p[i]]
      BY <1>2, <2>1, <2>2
    <2>4. Counted(f) = Counted(g)
      <3>1. n \in Nat /\ f \in [1 .. n -> STRING] /\ g \in [1 .. n -> STRING]
        BY <1>1, <1>2, <2>1
      <3>2. p \in Matches(n, f, g)
        BY <2>2, <2>3 DEF Matches
      <3> QED
        BY <3>1, <3>2, MatchedCounts
    <2>5. ASSUME old # <<>> PROVE old[1].width = new[1].width
      <3>1. 1 \in 1 .. n /\ p[1] \in 1 .. n
        BY <1>1, <1>3, <2>2, <2>5
      <3>2. old[1] = new[p[1]]
        BY <2>2, <3>1
      <3>3. new[p[1]].width = new[1].width
        BY <1>1, <2>1, <3>1
      <3> QED
        BY <3>2, <3>3
    <2> QED
      BY <1>2, <2>1, <2>4, <2>5, DifferenceCases DEF n
  <1> QED
    BY <1>4, <1>5

(***************************************************************************)
(* Trees with the same signatures show no severe difference.               *)
(***************************************************************************)
LEMMA SignaturesShow ==
  ASSUME pair \in Tree \X Tree, SameSignatures
  PROVE  LET sd == StructuralDifferences(pair[1], pair[2])
         IN  ~ Has(sd, "fatal") /\ ~ Has(sd, "major")
  <1> DEFINE old == pair[1]
             new == pair[2]
             sd == StructuralDifferences(old, new)
             reorder == ProjectionNames(old) # ProjectionNames(new)
             p == DiffIf(reorder, "projection", "minor")
             f == DiffIf(FALSE, "filter", "major")
             j == DiffIf(FALSE, "join", "major")
             g == DiffIf(FALSE, "grouping", "major")
  <1>1. sd = p \o f \o j \o g
    BY DEF SameSignatures, StructuralDifferences, ProjectionDifferences
  <1>2. reorder \in BOOLEAN
    OBVIOUS
  <1> HIDE DEF sd, reorder
  <1>3. {"projection", "filter", "join", "grouping"} \subseteq Kinds
    BY DEF Kinds
  <1>4. \A l \in {p, f, j, g} : l \in Seq(Difference) /\ ~ Has(l, "fatal") /\ ~ Has(l, "major")
    <2>1. p \in Seq(Difference) /\ ~ Has(p, "fatal") /\ ~ Has(p, "major")
      BY <1>2, <1>3, HasDiffIf
    <2>2. f \in Seq(Difference) /\ ~ Has(f, "fatal") /\ ~ Has(f, "major")
      BY <1>3, HasDiffIf
    <2>3. j \in Seq(Difference) /\ ~ Has(j, "fatal") /\ ~ Has(j, "major")
      BY <1>3, HasDiffIf
    <2>4. g \in Seq(Difference) /\ ~ Has(g, "fatal") /\ ~ Has(g, "major")
      BY <1>3, HasDiffIf
    <2> HIDE DEF p, f, j, g
    <2> QED
      BY <2>1, <2>2, <2>3, <2>4
  <1> HIDE DEF p, f, j, g
  <1>5. p \o f \in Seq(Difference) /\ ~ Has(p \o f, "fatal") /\ ~ Has(p \o f, "major")
    BY <1>4, HasConcat
  <1>6. p \o f \o j \in Seq(Difference) /\ ~ Has(p \o f \o j, "fatal") /\ ~ Has(p \o f \o j, "major")
    BY <1>4, <1>5, HasConcat
  <1>7. ~ Has(sd, "fatal") /\ ~ Has(sd, "major")
    BY <1>1, <1>4, <1>6, HasConcat
  <1> QED
    BY <1>7 DEF sd

-----------------------------------------------------------------------------
(***************************************************************************)
(* What was fetched is the whole result of the moment, as long as nobody   *)
(* has written since the first execution and no cap was reached.           *)
(***************************************************************************)
Current ==
  /\ quiet /\ Whole(1) /\ (stage \in {"new", "compare"} \/ executed) => old_rows = full[1]
  /\ quiet /\ Whole(2) /\ (stage = "compare" \/ executed) => new_rows = full[2]

LEMMA InitCurrent == Init => Current
  BY DEF Init, Current

LEMMA StepCurrent == EquivalenceInv /\ Current /\ [Next]_vars => Current'
  <1> SUFFICES ASSUME EquivalenceInv, Current, [Next]_vars PROVE Current'
    OBVIOUS
  <1>0. /\ full \in Result \X Result
        /\ stage \in {"structure", "old", "new", "compare"} => ~ executed
        /\ executed \in BOOLEAN /\ quiet \in BOOLEAN
    BY DEF EquivalenceInv, TypeOK, Comparison
  <1>1. ASSUME UNCHANGED <<pair, full>>, NEW i \in {1, 2} PROVE Whole(i)' <=> Whole(i)
    BY <1>1 DEF Whole
  <1>2. CASE CompareStructure
    BY <1>0, <1>2 DEF CompareStructure, Current
  <1>3. CASE DataChanges
    BY <1>0, <1>3 DEF DataChanges, Current
  <1>4. CASE ExecuteOld
    <2>1. Whole(1) => old_rows' = full[1]
      BY <1>0, <1>4, FetchedType DEF ExecuteOld
    <2> QED
      BY <1>0, <1>1, <1>4, <2>1 DEF ExecuteOld, Current
  <1>5. CASE ExecuteNew
    <2>1. Whole(2) => new_rows' = full[2]
      BY <1>0, <1>5, FetchedType DEF ExecuteNew
    <2> QED
      BY <1>0, <1>1, <1>5, <2>1 DEF ExecuteNew, Current
  <1>6. CASE ExecutionRaises
    BY <1>0, <1>6 DEF ExecutionRaises, Current
  <1>7. CASE CompareResults
    BY <1>0, <1>1, <1>7 DEF CompareResults, Current
  <1>8. CASE Finalize
    BY <1>0, <1>1, <1>8 DEF Finalize, Current
  <1>9. CASE UNCHANGED vars
    BY <1>1, <1>9 DEF vars, Current
  <1> QED
    BY <1>2, <1>3, <1>4, <1>5, <1>6, <1>7, <1>8, <1>9 DEF Next, Call

(***************************************************************************)
(* With results fetched whole and nobody writing in between, "equivalent"  *)
(* means the same rows, and trees that agree are found not equivalent by   *)
(* an execution only if their rows differ.                                 *)
(***************************************************************************)
THEOREM ResultsDecide == Spec => []GroundTruth
  <1>1. EquivalenceInv /\ Current => GroundTruth
    <2> SUFFICES ASSUME EquivalenceInv, Current, stage = "done", quiet, Whole(1), Whole(2)
                 PROVE  /\ verdict = "equivalent" => SameRows(full[1], full[2])
                        /\ verdict = "not_equivalent" /\ executed /\ SameSignatures =>
                             ~ SameRows(full[1], full[2])
      BY DEF GroundTruth
    <2> DEFINE sd == StructuralDifferences(pair[1], pair[2])
               dd == DataDifferences(old_rows, new_rows)
    <2>1. /\ pair \in Tree \X Tree /\ old_rows \in Result /\ new_rows \in Result
          /\ verdict = Verdict(differences, executed) /\ executed \in BOOLEAN
          /\ executed => differences = sd \o dd
          /\ executed => old_rows = full[1] /\ new_rows = full[2]
      BY DEF EquivalenceInv, TypeOK, Comparison, Current
    <2>2. /\ sd \in Seq(Difference) /\ dd \in Seq(Difference)
          /\ SameSignatures => ~ Has(sd, "fatal") /\ ~ Has(sd, "major")
          /\ ~ Has(dd, "fatal")
          /\ Has(dd, "major") <=> ~ SameRows(old_rows, new_rows)
      <3>1. sd \in Seq(Difference)
        BY <2>1, StructureFaithful
      <3>2. dd \in Seq(Difference)
        BY <2>1, DataFaithful DEF Result
      <3>3. SameSignatures => ~ Has(sd, "fatal") /\ ~ Has(sd, "major")
        BY <2>1, SignaturesShow
      <3>4. ~ Has(dd, "fatal")
        BY <2>1, DifferenceCases
      <3>5. Has(dd, "major") <=> ~ SameRows(old_rows, new_rows)
        BY <2>1, DifferenceMeansRows
      <3> QED
        BY <3>1, <3>2, <3>3, <3>4, <3>5
    <2> HIDE DEF sd, dd
    <2>3. ASSUME executed, NEW s \in {"fatal", "major"}
          PROVE  Has(differences, s) <=> Has(sd, s) \/ Has(dd, s)
      <3>1. Has(sd \o dd, s) <=> Has(sd, s) \/ Has(dd, s)
        BY <2>2, HasConcat
      <3>2. differences = sd \o dd
        BY <2>1, <2>3
      <3> QED
        BY <3>1, <3>2
    <2>4. ASSUME verdict = "equivalent" PROVE SameRows(full[1], full[2])
      <3>1. executed /\ ~ Has(differences, "major")
        BY <2>1, <2>4 DEF Verdict
      <3> QED
        BY <2>1, <2>2, <2>3, <3>1
    <2>5. ASSUME verdict = "not_equivalent", executed, SameSignatures
          PROVE  ~ SameRows(full[1], full[2])
      <3>1. Has(differences, "fatal") \/ Has(differences, "major")
        BY <2>1, <2>5 DEF Verdict
      <3> QED
        BY <2>1, <2>2, <2>3, <2>5, <3>1
    <2> QED
      BY <2>4, <2>5
  <1> QED
    BY <1>1, InitHolds, StepHolds, InitCurrent, StepCurrent, PTL DEF Spec

=============================================================================
