---------------------------- MODULE ReportProofs ----------------------------
(***************************************************************************)
(* What is proved of Report: which flags a report holds, when it asks for  *)
(* a review, that its decision never relents, and how far the rounding of  *)
(* the doubles can take its confidence from the one in exact decimals.     *)
(***************************************************************************)
EXTENDS Report, SequencesExt, Induction

(***************************************************************************)
(* The doubles in 0.0 .. 1.0.                                              *)
(***************************************************************************)
Confidences == {c \in Doubles : AtMost(c, One)}

LEMMA LimbIsEven == Limb \in Nat /\ \E k \in Nat : k > 1000 /\ Limb = 32 * k
  <1>1. Limb = 32 * 16777216 /\ Limb \in Nat
    BY SMT DEF Limb
  <1> QED
    BY <1>1, SMT

LEMMA GrainIsSmall ==
  ASSUME NEW hi \in Int
  PROVE  Grain(hi) \in {1, 2, 4, 8, 16, 32}
  BY SMT DEF Grain

LEMMA RoundIsClose ==
  ASSUME NEW hi \in Nat, NEW lo \in 0 .. Limb - 1
  PROVE  \/ \E l \in 0 .. Limb - 1 : Round(hi, lo) = <<hi, l>> /\ l - lo \in -16 .. 16 /\ (lo = 0 => l = 0)
         \/ Round(hi, lo) = <<hi + 1, 0>> /\ Limb - lo \in 0 .. 16 /\ lo # 0
  <1> DEFINE g == Grain(hi)
             down == lo \div g
             rest == lo % g
             units == IF 2 * rest > g \/ (2 * rest = g /\ down % 2 = 1) THEN down + 1 ELSE down
             l == units * g
  <1>1. Round(hi, lo) = IF l = Limb THEN <<hi + 1, 0>> ELSE <<hi, l>>
    BY Zenon DEF Round
  <1>2. g \in {1, 2, 4, 8, 16, 32}
    BY GrainIsSmall
  <1> HIDE DEF g
  <1>0. PICK k \in Nat : k > 1000 /\ Limb = 32 * k
    BY LimbIsEven
  <1>3. /\ l \in 0 .. Limb /\ l - lo \in -16 .. 16 /\ (lo = 0 => l = 0)
    <2>1. CASE g = 1
      BY <2>1, <1>0, SMT
    <2>2. CASE g = 2
      BY <2>2, <1>0, SMT
    <2>3. CASE g = 4
      BY <2>3, <1>0, SMT
    <2>4. CASE g = 8
      BY <2>4, <1>0, SMT
    <2>5. CASE g = 16
      BY <2>5, <1>0, SMT
    <2>6. CASE g = 32
      BY <2>6, <1>0, SMT
    <2> QED
      BY <1>2, <2>1, <2>2, <2>3, <2>4, <2>5, <2>6
  <1> HIDE DEF l
  <1>4. CASE l = Limb
    BY <1>0, <1>1, <1>3, <1>4
  <1>5. CASE l # Limb
    BY <1>0, <1>1, <1>3, <1>5
  <1> QED
    BY <1>4, <1>5

Amount(c) == c[1] * Limb + c[2]

LEMMA DebitUnfolds ==
  ASSUME NEW a \in Doubles, NEW b \in Doubles
  PROVE  Debit[<<a, b>>] = IF AtMost(a, b)      THEN Zero
                           ELSE IF a[2] >= b[2] THEN Round(a[1] - b[1], a[2] - b[2])
                           ELSE                      Round(a[1] - b[1] - 1, a[2] - b[2] + Limb)
  <1>1. <<a, b>> \in Doubles \X Doubles /\ <<a, b>>[1] = a /\ <<a, b>>[2] = b
    OBVIOUS
  <1>2. Debit[<<a, b>>] =
          LET x == <<a, b>>[1]
              y == <<a, b>>[2]
          IN  IF AtMost(x, y)      THEN Zero
              ELSE IF x[2] >= y[2] THEN Round(x[1] - y[1], x[2] - y[2])
              ELSE                      Round(x[1] - y[1] - 1, x[2] - y[2] + Limb)
    BY <1>1 DEF Debit
  <1> QED
    BY <1>1, <1>2

LEMMA DebitIsClose ==
  ASSUME NEW a \in Confidences, NEW b \in Doubles
  PROVE  /\ Debit[<<a, b>>] \in Confidences
         /\ AtMost(a, b) => Debit[<<a, b>>] = Zero
         /\ ~ AtMost(a, b) => Amount(Debit[<<a, b>>]) - (Amount(a) - Amount(b)) \in -16 .. 16
  <1>0. PICK k \in Nat : k > 1000 /\ Limb = 32 * k
    BY LimbIsEven
  <1>1. /\ a = <<a[1], a[2]>> /\ a[1] \in 0 .. Limb /\ a[2] \in 0 .. Limb - 1
        /\ b[1] \in 0 .. Limb /\ b[2] \in 0 .. Limb - 1
        /\ a[1] = Limb => a[2] = 0
    BY <1>0 DEF Confidences, Doubles, AtMost, One
  <1>2. a \in Doubles
    BY DEF Confidences
  <1>3. CASE AtMost(a, b)
    <2>1. Debit[<<a, b>>] = Zero
      BY <1>2, <1>3, DebitUnfolds
    <2>2. Zero \in Confidences
      BY <1>0 DEF Zero, One, Confidences, Doubles, AtMost
    <2> QED
      BY <1>3, <2>1, <2>2
  <1>4. CASE ~ AtMost(a, b)
    <2>0. b[1] < a[1] \/ (b[1] = a[1] /\ b[2] < a[2])
      BY <1>1, <1>4 DEF AtMost
    <2> DEFINE hi == IF a[2] >= b[2] THEN a[1] - b[1] ELSE a[1] - b[1] - 1
               lo == IF a[2] >= b[2] THEN a[2] - b[2] ELSE a[2] - b[2] + Limb
    <2>1. hi \in Nat /\ lo \in 0 .. Limb - 1 /\ hi <= Limb /\ (hi = Limb => lo = 0)
      BY <1>0, <1>1, <2>0
    <2>2. hi * Limb + lo = Amount(a) - Amount(b)
      <3>1. CASE a[2] >= b[2]
        BY <1>0, <1>1, <3>1 DEF Amount
      <3>2. CASE ~ (a[2] >= b[2])
        BY <1>0, <1>1, <3>2 DEF Amount
      <3> QED
        BY <3>1, <3>2
    <2>3. Debit[<<a, b>>] = Round(hi, lo)
      BY <1>2, <1>4, DebitUnfolds
    <2> HIDE DEF hi, lo
    <2>4. CASE \E l \in 0 .. Limb - 1 : Round(hi, lo) = <<hi, l>> /\ l - lo \in -16 .. 16 /\ (lo = 0 => l = 0)
      <3>1. PICK l \in 0 .. Limb - 1 : Round(hi, lo) = <<hi, l>> /\ l - lo \in -16 .. 16 /\ (lo = 0 => l = 0)
        BY <2>4
      <3>2. CASE hi < Limb
        <4>1. <<hi, l>> \in Confidences
          BY <1>0, <2>1, <3>1, <3>2 DEF Confidences, Doubles, AtMost, One
        <4>2. Amount(<<hi, l>>) - (hi * Limb + lo) = l - lo
          BY <1>0, <2>1, <3>1 DEF Amount
        <4> QED
          BY <1>4, <2>2, <2>3, <3>1, <4>1, <4>2
      <3>3. CASE hi = Limb
        <4>1. lo = 0 /\ a = One
          BY <1>0, <1>1, <2>1, <3>3 DEF One, hi, lo
        <4>2. <<hi, l>> = One
          BY <3>1, <3>3, <4>1 DEF One
        <4> QED
          BY <1>0, <1>4, <2>2, <2>3, <3>1, <3>3, <4>1, <4>2 DEF Amount
      <3> QED
        BY <1>0, <2>1, <3>2, <3>3
    <2>5. CASE Round(hi, lo) = <<hi + 1, 0>> /\ Limb - lo \in 0 .. 16
      <3>1. <<hi + 1, 0>> \in Confidences
        BY <1>0, <2>1, <2>5 DEF Confidences, Doubles, AtMost, One
      <3>2. Amount(<<hi + 1, 0>>) - (hi * Limb + lo) = Limb - lo
        BY <1>0, <2>1 DEF Amount
      <3> QED
        BY <1>4, <2>2, <2>3, <2>5, <3>1, <3>2, <1>0, <2>1
    <2>6. hi \in Nat /\ lo \in 0 .. Limb - 1
      BY <2>1
    <2> QED
      BY <2>4, <2>5, <2>6, RoundIsClose
  <1> QED
    BY <1>3, <1>4

(***************************************************************************)
(* What an approval can leave: at most 1.0, and anything below 0.0.        *)
(***************************************************************************)
Approved == {c \in Signed : AtMost(c, One)}

LEMMA ConfidencesAreApproved == Confidences \subseteq Approved
  BY DEF Confidences, Approved, Doubles, Signed

LEMMA CreditIsCapped ==
  ASSUME NEW a \in Confidences, NEW b \in Signed
  PROVE  Credit(a, b) \in Approved
  <1> DEFINE hi == a[1] + b[1] + (a[2] + b[2]) \div Limb
             lo == (a[2] + b[2]) % Limb
             sum == IF hi < 0 THEN <<hi, lo>> ELSE Round(hi, lo)
  <1>0. PICK k \in Nat : k > 1000 /\ Limb = 32 * k
    BY LimbIsEven
  <1>1. a[1] \in Nat /\ a[2] \in Nat /\ b[1] \in Int /\ b[2] \in Nat /\ Limb \in Nat \ {0}
    BY <1>0 DEF Confidences, Doubles, Signed
  <1>2. hi \in Int /\ lo \in 0 .. Limb - 1
    <2>1. \A n \in Nat : n \div Limb \in Nat /\ n % Limb \in 0 .. Limb - 1
      BY <1>1, SMT
    <2> QED
      BY <1>1, <2>1
  <1>3. Credit(a, b) = IF AtMost(One, sum) THEN One ELSE sum
    BY Zenon DEF Credit
  <1> HIDE DEF hi, lo
  <1>4. One \in Approved
    BY <1>0 DEF Approved, Signed, AtMost, One
  <1>5. ASSUME ~ AtMost(One, sum) PROVE sum \in Approved
    <2>1. CASE hi < 0
      BY <1>0, <1>2, <2>1 DEF Approved, Signed, AtMost, One
    <2>2. CASE hi >= 0 /\ \E l \in 0 .. Limb - 1 : sum = <<hi, l>>
      BY <1>0, <1>2, <1>5, <2>2 DEF Approved, Signed, AtMost, One
    <2>3. CASE hi >= 0 /\ sum = <<hi + 1, 0>>
      BY <1>0, <1>2, <1>5, <2>3 DEF Approved, Signed, AtMost, One
    <2>4. hi >= 0 => hi \in Nat /\ sum = Round(hi, lo)
      BY <1>2
    <2> HIDE DEF sum
    <2> QED
      BY <1>2, <2>1, <2>2, <2>3, <2>4, RoundIsClose
  <1> QED
    BY <1>3, <1>4, <1>5

ReportType == [flags : Seq(Finding), confidence : Confidences, suggested_review : BOOLEAN]

LEMMA PenaltyIsDouble ==
  /\ \A s \in Severity : Penalty[s] \in Doubles
  /\ Penalty["info"] = Literal02 /\ Penalty["warn"] = Literal10
  /\ Penalty["error"] = Literal30 /\ Penalty["critical"] = Literal60
  <1>0. \A hi, lo \in Nat : hi <= Limb /\ lo < Limb => <<hi, lo>> \in Doubles
    BY LimbIsEven DEF Doubles
  <1>1. Literal02 \in Doubles
    <2>1. 10737418 <= Limb /\ 128849019 < Limb
      BY SMT DEF Limb
    <2> QED
      BY <1>0, <2>1, SMT DEF Literal02
  <1>2. Literal10 \in Doubles
    <2>1. 53687091 <= Limb /\ 107374184 < Limb
      BY SMT DEF Limb
    <2> QED
      BY <1>0, <2>1, SMT DEF Literal10
  <1>3. Literal30 \in Doubles
    <2>1. 161061273 <= Limb /\ 322122544 < Limb
      BY SMT DEF Limb
    <2> QED
      BY <1>0, <2>1, SMT DEF Literal30
  <1>4. Literal60 \in Doubles
    <2>1. 322122547 <= Limb /\ 107374176 < Limb
      BY SMT DEF Limb
    <2> QED
      BY <1>0, <2>1, SMT DEF Literal60
  <1> QED
    BY <1>1, <1>2, <1>3, <1>4 DEF Penalty, Severity

LEMMA EmptyReportIsTyped == EmptyReport \in ReportType
  <1>0. PICK k \in Nat : k > 1000 /\ Limb = 32 * k
    BY LimbIsEven
  <1> QED
    BY <1>0 DEF EmptyReport, ReportType, Confidences, Doubles, AtMost, One

(***************************************************************************)
(* Add, with the confidences it goes through as a function.                *)
(***************************************************************************)
Courses(start, fs) ==
  {after \in [0 .. Len(fs) -> Confidences] :
     /\ after[0] = start
     /\ \A i \in 1 .. Len(fs) : after[i] = Debit[<<after[i - 1], Penalty[fs[i].severity]>>]}

LEMMA AddUnfolds ==
  ASSUME NEW report \in ReportType, NEW fs \in Seq(Finding)
  PROVE  \E after \in Courses(report.confidence, fs) :
           Add(report, fs) =
             [flags            |-> report.flags \o fs,
              confidence       |-> after[Len(fs)],
              suggested_review |-> report.suggested_review
                                   \/ \E i \in 1 .. Len(fs) :
                                        \/ fs[i].severity \in {"error", "critical"}
                                        \/ fs[i].severity = "warn" /\ Below(after[i], Literal70)]
  <1> DEFINE n == Len(fs)
             start == report.confidence
             D == [i \in 1 .. n |-> [c \in Confidences |-> Debit[<<c, Penalty[fs[i].severity]>>]]]
             Body(f) == [i \in 0 .. n |-> IF i = 0 THEN start
                                          ELSE Debit[<<f[i - 1], Penalty[fs[i].severity]>>]]
             after == CHOOSE f : f = Body(f)
  <1>1. start \in Confidences /\ n \in Nat /\ \A i \in 1 .. n : fs[i].severity \in Severity
    <2>1. start \in Confidences /\ n \in Nat
      BY DEF ReportType
    <2>2. \A i \in 1 .. n : fs[i] \in Finding
      OBVIOUS
    <2>3. \A f \in Finding : f.severity \in Severity
      BY DEF Finding
    <2> QED
      BY <2>1, <2>2, <2>3
  <1>2. \A i \in 1 .. n : \A c \in Confidences : Debit[<<c, Penalty[fs[i].severity]>>] \in Confidences
    BY <1>1, PenaltyIsDouble, DebitIsClose
  <1>3. D \in [1 .. n -> [Confidences -> Confidences]]
    BY <1>2
  <1>4. PICK g : g \in [0 .. n -> Confidences] /\ g[0] = start /\ \A i \in 1 .. n : g[i] = D[i][g[i - 1]]
    <2> HIDE DEF D, n, start
    <2>1. \E g : g \in Runs(n, Confidences, start, D)
      BY <1>1, <1>3, StepRecursion
    <2> QED
      BY <2>1 DEF Runs
  <1>5. \A i \in 1 .. n : g[i - 1] \in Confidences /\ g[i] = Debit[<<g[i - 1], Penalty[fs[i].severity]>>]
    <2>1. ASSUME NEW i \in 1 .. n PROVE g[i - 1] \in Confidences /\ g[i] = D[i][g[i - 1]]
      <3>1. i - 1 \in 0 .. n
        BY <1>1
      <3> HIDE DEF n, D
      <3> QED
        BY <1>4, <3>1
    <2>2. \A i \in 1 .. n : \A c \in Confidences : D[i][c] = Debit[<<c, Penalty[fs[i].severity]>>]
      OBVIOUS
    <2> HIDE DEF D
    <2> QED
      BY <2>1, <2>2
  <1>6. g = Body(g)
    <2> HIDE DEF Confidences
    <2> QED
      BY <1>1, <1>4, <1>5
  <1>7. after = Body(after)
    BY <1>6, Zenon
  <1>8. after = g
    <2> DEFINE T == {i \in 0 .. n : after[i] = g[i]}
    <2> HIDE DEF after
    <2>1. 0 \in T
      BY <1>1, <1>6, <1>7
    <2>2. ASSUME NEW i \in 0 .. n - 1, i \in T PROVE i + 1 \in T
      <3>1. i + 1 \in 1 .. n /\ i + 1 \in 0 .. n /\ (i + 1) - 1 = i /\ i + 1 # 0
        BY <1>1
      <3>2. /\ after[i + 1] = Debit[<<after[(i + 1) - 1], Penalty[fs[i + 1].severity]>>]
            /\ g[i + 1] = Debit[<<g[(i + 1) - 1], Penalty[fs[i + 1].severity]>>]
        BY <1>6, <1>7, <3>1
      <3> QED
        BY <2>2, <3>1, <3>2
    <2>3. \A i \in 0 .. n : i \in T
      <3> HIDE DEF T, n
      <3> QED
        BY <1>1, <2>1, <2>2, IntervalInduction
    <2>4. \A i \in 0 .. n : after[i] = g[i]
      BY <2>3
    <2> QED
      BY <1>4, <1>7, <2>4
  <1>9. Add(report, fs) =
             [flags            |-> report.flags \o fs,
              confidence       |-> after[n],
              suggested_review |-> report.suggested_review
                                   \/ \E i \in 1 .. n :
                                        \/ fs[i].severity \in {"error", "critical"}
                                        \/ fs[i].severity = "warn" /\ Below(after[i], Literal70)]
    BY Zenon DEF Add
  <1>10. g \in Courses(report.confidence, fs)
    BY <1>4, <1>5 DEF Courses
  <1> HIDE DEF after
  <1> QED
    BY <1>8, <1>9, <1>10, Zenon

(***************************************************************************)
(* The members of a concatenation.                                         *)
(***************************************************************************)
LEMMA FindingsOfConcat ==
  ASSUME NEW a \in Seq(Finding), NEW b \in Seq(Finding)
  PROVE  /\ a \o b \in Seq(Finding)
         /\ ToSet(a \o b) = ToSet(a) \cup ToSet(b)
  <1> DEFINE c == a \o b
  <1>1. /\ c \in Seq(Finding) /\ Len(c) = Len(a) + Len(b)
        /\ Len(a) \in Nat /\ Len(b) \in Nat
        /\ \A i \in 1 .. Len(a) : c[i] = a[i]
        /\ \A i \in 1 .. Len(b) : c[Len(a) + i] = b[i]
    OBVIOUS
  <1>2. DOMAIN a = 1 .. Len(a) /\ DOMAIN b = 1 .. Len(b) /\ DOMAIN c = 1 .. Len(c)
    BY <1>1
  <1> HIDE DEF c
  <1>3. ASSUME NEW x \in ToSet(a) PROVE x \in ToSet(c)
    BY <1>1, <1>2 DEF ToSet
  <1>4. ASSUME NEW x \in ToSet(b) PROVE x \in ToSet(c)
    <2>1. PICK i \in 1 .. Len(b) : x = b[i]
      BY <1>2 DEF ToSet
    <2>2. Len(a) + i \in DOMAIN c /\ c[Len(a) + i] = x
      BY <1>1, <1>2, <2>1
    <2> QED
      BY <2>2 DEF ToSet
  <1>5. ASSUME NEW x \in ToSet(c) PROVE x \in ToSet(a) \cup ToSet(b)
    <2>1. PICK i \in 1 .. Len(c) : x = c[i]
      BY <1>2 DEF ToSet
    <2>2. CASE i <= Len(a)
      BY <1>1, <1>2, <2>1, <2>2 DEF ToSet
    <2>3. CASE i > Len(a)
      <3>1. i - Len(a) \in 1 .. Len(b) /\ c[Len(a) + (i - Len(a))] = b[i - Len(a)]
        BY <1>1, <2>1, <2>3
      <3>2. b[i - Len(a)] = x
        BY <1>1, <2>1, <3>1
      <3> QED
        BY <1>2, <3>1, <3>2 DEF ToSet
    <2> QED
      BY <1>1, <2>1, <2>2, <2>3
  <1> QED
    BY <1>1, <1>3, <1>4, <1>5 DEF c


LEMMA MembersOfFindings ==
  ASSUME NEW fs \in Seq(Finding)
  PROVE  /\ \A i \in 1 .. Len(fs) : fs[i] \in Finding /\ fs[i] \in ToSet(fs)
         /\ \A f \in ToSet(fs) : f \in Finding /\ \E i \in 1 .. Len(fs) : fs[i] = f
  <1>1. DOMAIN fs = 1 .. Len(fs) /\ \A i \in 1 .. Len(fs) : fs[i] \in Finding
    OBVIOUS
  <1> QED
    BY <1>1 DEF ToSet

LEMMA BlockingByMembers ==
  ASSUME NEW report, report.flags \in Seq(Finding)
  PROVE  HasBlocking(report) <=> \E f \in ToSet(report.flags) : f.severity = "critical"
  BY MembersOfFindings DEF HasBlocking

LEMMA FlaggedByMembers ==
  ASSUME NEW report, report.flags \in Seq(Finding), NEW check, NEW severity
  PROVE  Flagged(report, check, severity) <=> Flag(check, severity) \in ToSet(report.flags)
  <1>1. \A i \in 1 .. Len(report.flags) : report.flags[i] \in ToSet(report.flags)
    BY MembersOfFindings
  <1>2. \A f \in ToSet(report.flags) : \E i \in 1 .. Len(report.flags) : report.flags[i] = f
    BY MembersOfFindings
  <1> QED
    BY <1>1, <1>2 DEF Flagged

(***************************************************************************)
(* Report.add keeps a report a report, keeps what it holds, and reacts to  *)
(* the severe flags.                                                       *)
(***************************************************************************)
LEMMA AddFacts ==
  ASSUME NEW report \in ReportType, NEW fs \in Seq(Finding)
  PROVE  /\ Add(report, fs) \in ReportType
         /\ Add(report, fs).flags = report.flags \o fs
         /\ ToSet(Add(report, fs).flags) = ToSet(report.flags) \cup ToSet(fs)
         /\ report.suggested_review => Add(report, fs).suggested_review
         /\ (\E f \in ToSet(fs) : f.severity \in {"error", "critical"})
              => Add(report, fs).suggested_review
         /\ fs = <<>> => Add(report, fs) = report
  <1> DEFINE asks(after, i) == \/ fs[i].severity \in {"error", "critical"}
                               \/ fs[i].severity = "warn" /\ Below(after[i], Literal70)
             R == Add(report, fs)
  <1>1. PICK after \in Courses(report.confidence, fs) :
          R = [flags            |-> report.flags \o fs,
               confidence       |-> after[Len(fs)],
               suggested_review |-> report.suggested_review \/ \E i \in 1 .. Len(fs) : asks(after, i)]
    BY AddUnfolds
  <1>2. /\ after \in [0 .. Len(fs) -> Confidences]
        /\ after[0] = report.confidence
        /\ Len(fs) \in 0 .. Len(fs)
    BY DEF Courses
  <1>3. /\ report.flags \in Seq(Finding)
        /\ report.suggested_review \in BOOLEAN
        /\ report = [flags |-> report.flags, confidence |-> report.confidence,
                     suggested_review |-> report.suggested_review]
    BY DEF ReportType
  <1>4. report.flags \o fs \in Seq(Finding) /\ ToSet(report.flags \o fs) = ToSet(report.flags) \cup ToSet(fs)
    BY <1>3, FindingsOfConcat
  <1> DEFINE asked == \E i \in 1 .. Len(fs) : asks(after, i)
  <1>5. asked \in BOOLEAN
    OBVIOUS
  <1> HIDE DEF asked, R
  <1>6. R = [flags |-> report.flags \o fs, confidence |-> after[Len(fs)],
             suggested_review |-> report.suggested_review \/ asked]
    BY <1>1, Zenon DEF asked
  <1>7. (report.suggested_review \/ asked) \in BOOLEAN
    OBVIOUS
  <1>8. after[Len(fs)] \in Confidences
    BY <1>2
  <1>9. R \in ReportType /\ R.flags = report.flags \o fs
    BY <1>4, <1>6, <1>7, <1>8 DEF ReportType
  <1>10. R.suggested_review <=> report.suggested_review \/ asked
    BY <1>6, Zenon
  <1>11. ASSUME NEW f \in ToSet(fs), f.severity \in {"error", "critical"} PROVE asked
    <2>1. PICK i \in 1 .. Len(fs) : fs[i] = f
      BY MembersOfFindings
    <2> QED
      BY <1>11, <2>1 DEF asked
  <1>12. ASSUME fs = <<>> PROVE R = report
    <2>1. 1 .. Len(fs) = {} /\ Len(fs) = 0
      BY <1>12
    <2>2. asked = FALSE
      BY <2>1 DEF asked
    <2>3. report.flags \o fs = report.flags
      BY <1>3, <1>12
    <2>4. (report.suggested_review \/ asked) = report.suggested_review
      BY <1>3, <2>2
    <2> QED
      BY <1>2, <1>3, <1>6, <2>1, <2>3, <2>4
  <1> QED
    BY <1>4, <1>9, <1>10, <1>11, <1>12 DEF R

LEMMA AddBlocks ==
  ASSUME NEW report \in ReportType, NEW fs \in Seq(Finding)
  PROVE  HasBlocking(Add(report, fs))
           <=> HasBlocking(report) \/ \E f \in ToSet(fs) : f.severity = "critical"
  <1> DEFINE R == Add(report, fs)
  <1>1. R \in ReportType /\ ToSet(R.flags) = ToSet(report.flags) \cup ToSet(fs)
    BY AddFacts
  <1> HIDE DEF R
  <1>2. HasBlocking(R) <=> \E f \in ToSet(R.flags) : f.severity = "critical"
    BY <1>1, BlockingByMembers DEF ReportType
  <1>3. HasBlocking(report) <=> \E f \in ToSet(report.flags) : f.severity = "critical"
    BY BlockingByMembers DEF ReportType
  <1>4. HasBlocking(R) <=> HasBlocking(report) \/ \E f \in ToSet(fs) : f.severity = "critical"
    BY <1>1, <1>2, <1>3
  <1> QED
    BY <1>4 DEF R

(***************************************************************************)
(* More flags never make the decision milder.                              *)
(***************************************************************************)
LEMMA AddNeverRelents ==
  ASSUME NEW report \in ReportType, NEW fs \in Seq(Finding)
  PROVE  /\ Decision(report) \in DOMAIN Rank
         /\ Decision(Add(report, fs)) \in DOMAIN Rank
         /\ Rank[Decision(Add(report, fs))] >= Rank[Decision(report)]
  <1>1. HasBlocking(report) => HasBlocking(Add(report, fs))
    BY AddBlocks
  <1>2. report.suggested_review => Add(report, fs).suggested_review
    BY AddFacts
  <1> QED
    BY <1>1, <1>2 DEF Decision, Rank

-----------------------------------------------------------------------------
(***************************************************************************)
(* The rounding of the doubles.                                            *)
(***************************************************************************)
Whole == Limb * Limb

\* c is the confidence that is left of 1.0 when total hundredths are gone, but for rounding.
Near(c, total) ==
  IF total > 100 THEN c = Zero
  ELSE 100 * Amount(c) - (100 - total) * Whole \in -(1000 * total) .. 1000 * total

LEMMA WholeIsLarge == Whole \in Nat /\ Whole > 1000000
  <1>1. PICK k \in Nat : k > 1000 /\ Limb = 32 * k
    BY LimbIsEven
  <1>2. k * k > 1000000
    BY <1>1, SMT
  <1>3. Whole = 1024 * (k * k)
    BY <1>1, SMT DEF Whole
  <1> QED
    BY <1>2, <1>3

LEMMA PenaltyIsNominal ==
  ASSUME NEW s \in Severity
  PROVE  /\ Hundredths[s] \in {2, 10, 30, 60}
         /\ Amount(Penalty[s]) \in Nat
         /\ 100 * Amount(Penalty[s]) - Hundredths[s] * Whole \in -(200 * Hundredths[s]) .. 200 * Hundredths[s]
  <1>1. 100 * Amount(Literal02) - 2 * Whole = 12 /\ Amount(Literal02) \in Nat
    BY SMT DEF Amount, Literal02, Whole, Limb
  <1>2. 100 * Amount(Literal10) - 10 * Whole = 160 /\ Amount(Literal10) \in Nat
    BY SMT DEF Amount, Literal10, Whole, Limb
  <1>3. 100 * Amount(Literal30) - 30 * Whole = -320 /\ Amount(Literal30) \in Nat
    BY SMT DEF Amount, Literal30, Whole, Limb
  <1>4. 100 * Amount(Literal60) - 60 * Whole = -640 /\ Amount(Literal60) \in Nat
    BY SMT DEF Amount, Literal60, Whole, Limb
  <1>5. CASE s = "info"
    BY <1>1, <1>5, PenaltyIsDouble DEF Hundredths
  <1>6. CASE s = "warn"
    BY <1>2, <1>6, PenaltyIsDouble DEF Hundredths
  <1>7. CASE s = "error"
    BY <1>3, <1>7, PenaltyIsDouble DEF Hundredths
  <1>8. CASE s = "critical"
    BY <1>4, <1>8, PenaltyIsDouble DEF Hundredths
  <1> QED
    BY <1>5, <1>6, <1>7, <1>8 DEF Severity

LEMMA OrderOfAmounts ==
  ASSUME NEW a \in Doubles, NEW b \in Doubles
  PROVE  /\ Amount(a) \in Nat
         /\ AtMost(a, b) <=> Amount(a) <= Amount(b)
  <1>0. PICK k \in Nat : k > 1000 /\ Limb = 32 * k
    BY LimbIsEven
  <1>1. /\ a[1] \in Nat /\ a[2] \in 0 .. Limb - 1 /\ b[1] \in Nat /\ b[2] \in 0 .. Limb - 1 
        /\ Limb \in Nat
    BY <1>0 DEF Doubles
  <1>2. Amount(a) \in Nat
    BY <1>1 DEF Amount
  <1>3. CASE a[1] < b[1]
    <2>1. (a[1] + 1) * Limb <= b[1] * Limb
      BY <1>1, <1>3
    <2> QED
      BY <1>1, <1>2, <1>3, <2>1 DEF Amount, AtMost
  <1>4. CASE a[1] = b[1]
    BY <1>1, <1>2, <1>4 DEF Amount, AtMost
  <1>5. CASE a[1] > b[1]
    <2>1. (b[1] + 1) * Limb <= a[1] * Limb
      BY <1>1, <1>5
    <2> QED
      BY <1>1, <1>2, <1>5, <2>1 DEF Amount, AtMost
  <1> QED
    BY <1>1, <1>3, <1>4, <1>5

LEMMA DebitStaysNear ==
  ASSUME NEW c \in Confidences, NEW total \in Nat, NEW s \in Severity, Near(c, total)
  PROVE  Near(Debit[<<c, Penalty[s]>>], total + Hundredths[s])
  <1> DEFINE p == Penalty[s]
             h == Hundredths[s]
             next == Debit[<<c, p>>]
             A == Amount(c)
             P == Amount(p)
             N == Amount(next)
  <1>1. /\ c \in Doubles /\ p \in Doubles /\ h \in {2, 10, 30, 60} /\ P \in Nat
        /\ 100 * P - h * Whole \in -(200 * h) .. 200 * h
    BY PenaltyIsDouble, PenaltyIsNominal DEF Confidences
  <1>2. A \in Nat /\ (AtMost(c, p) <=> A <= P)
    BY <1>1, OrderOfAmounts
  <1>3. /\ AtMost(c, p) => next = Zero
        /\ ~ AtMost(c, p) => N - (A - P) \in -16 .. 16
    BY <1>1, DebitIsClose
  <1>4. Amount(Zero) = 0 /\ Zero \in Doubles
    BY LimbIsEven DEF Amount, Zero, Doubles
  <1>5. Whole \in Nat /\ Whole > 1000000
    BY WholeIsLarge
  <1>6. next \in Doubles /\ N \in Nat
    <2>1. next \in Doubles
      BY <1>1, DebitIsClose DEF Confidences
    <2> QED
      BY <1>1, <2>1, OrderOfAmounts
  <1> HIDE DEF p, h, next, P, N
  <1>7. CASE total > 100
    <2>1. A = 0
      BY <1>4, <1>7 DEF Near
    <2> QED
      BY <1>1, <1>2, <1>3, <1>7, <2>1 DEF Near, p, h, next
  <1>8. CASE total <= 100
    <2> HIDE DEF A
    <2>1. 100 * A - (100 - total) * Whole \in -(1000 * total) .. 1000 * total
      BY <1>8 DEF Near, A
    <2>2. CASE total + h > 100
      <3>1. (100 - total) * Whole <= (h - 1) * Whole
        BY <1>1, <1>5, <1>8, <2>2
      <3>2. (h - 1) * Whole = h * Whole - Whole
        BY <1>1, <1>5
      <3>3. A <= P
        BY <1>1, <1>2, <1>5, <1>8, <2>1, <3>1, <3>2
      <3> QED
        BY <1>1, <1>2, <1>3, <2>2, <3>3 DEF Near, p, h, next
    <2>3. CASE total + h <= 100
      <3>0. (100 - (total + h)) * Whole = (100 - total) * Whole - h * Whole
        BY <1>1, <1>5
      <3>1. (100 - (total + h)) * Whole >= 0
        BY <1>1, <1>5, <2>3
      <3> DEFINE U == (100 - total) * Whole
                 V == h * Whole
                 W == (100 - (total + h)) * Whole
      <3>2. U \in Int /\ V \in Int /\ W \in Int
        BY <1>1, <1>5
      <3>3. /\ 100 * A - U \in -(1000 * total) .. 1000 * total
            /\ 100 * P - V \in -(200 * h) .. 200 * h
            /\ W = U - V /\ W >= 0
        BY <1>1, <2>1, <3>0, <3>1
      <3> HIDE DEF U, V, W
      <3>4. 100 * N - W \in -(1000 * (total + h)) .. 1000 * (total + h)
        <4>1. CASE A <= P
          <5>1. N = 0
            BY <1>2, <1>3, <1>4, <4>1 DEF N
          <5> QED
            BY <1>1, <1>2, <1>8, <3>2, <3>3, <4>1, <5>1
        <4>2. CASE ~ (A <= P)
          <5>1. N - (A - P) \in -16 .. 16
            BY <1>2, <1>3, <4>2
          <5> QED
            BY <1>1, <1>2, <1>6, <1>8, <3>2, <3>3, <5>1
        <4> QED
          BY <4>1, <4>2
      <3> QED
        BY <1>1, <2>3, <3>4 DEF Near, W, p, h, next, N
    <2> QED
      BY <1>1, <2>2, <2>3
  <1> QED
    BY <1>7, <1>8

(***************************************************************************)
(* The cost of the first i flags, as a function.                           *)
(***************************************************************************)
Totals(fs) ==
  {total \in [0 .. Len(fs) -> Nat] :
     /\ total[0] = 0
     /\ \A i \in 1 .. Len(fs) : total[i] = total[i - 1] + Hundredths[fs[i].severity]}

LEMMA CostUnfolds ==
  ASSUME NEW fs \in Seq(Finding)
  PROVE  \E total \in Totals(fs) : Cost(fs) = total[Len(fs)]
  <1> DEFINE n == Len(fs)
             D == [i \in 1 .. n |-> [c \in Nat |-> c + Hundredths[fs[i].severity]]]
             Body(f) == [i \in 0 .. n |-> IF i = 0 THEN 0
                                          ELSE f[i - 1] + Hundredths[fs[i].severity]]
             total == CHOOSE f : f = Body(f)
  <1>1. n \in Nat /\ \A i \in 1 .. n : Hundredths[fs[i].severity] \in Nat
    <2>1. \A i \in 1 .. n : fs[i] \in Finding
      OBVIOUS
    <2>2. \A f \in Finding : f.severity \in Severity
      BY DEF Finding
    <2>3. \A s \in Severity : Hundredths[s] \in Nat
      BY DEF Hundredths, Severity
    <2> QED
      BY <2>1, <2>2, <2>3
  <1>2. D \in [1 .. n -> [Nat -> Nat]]
    BY <1>1
  <1>3. PICK g : g \in [0 .. n -> Nat] /\ g[0] = 0 /\ \A i \in 1 .. n : g[i] = D[i][g[i - 1]]
    <2> HIDE DEF D, n
    <2>1. \E g : g \in Runs(n, Nat, 0, D)
      BY <1>1, <1>2, StepRecursion
    <2> QED
      BY <2>1 DEF Runs
  <1>4. \A i \in 1 .. n : g[i - 1] \in Nat /\ g[i] = g[i - 1] + Hundredths[fs[i].severity]
    <2>1. ASSUME NEW i \in 1 .. n PROVE g[i - 1] \in Nat /\ g[i] = D[i][g[i - 1]]
      <3>1. i - 1 \in 0 .. n
        BY <1>1
      <3> HIDE DEF n, D
      <3> QED
        BY <1>3, <3>1
    <2>2. \A i \in 1 .. n : \A c \in Nat : D[i][c] = c + Hundredths[fs[i].severity]
      OBVIOUS
    <2> HIDE DEF D
    <2> QED
      BY <2>1, <2>2
  <1>5. g = Body(g)
    BY <1>1, <1>3, <1>4
  <1>6. total = Body(total)
    BY <1>5, Zenon
  <1>7. total = g
    <2> DEFINE T == {i \in 0 .. n : total[i] = g[i]}
    <2> HIDE DEF total
    <2>1. 0 \in T
      BY <1>1, <1>5, <1>6
    <2>2. ASSUME NEW i \in 0 .. n - 1, i \in T PROVE i + 1 \in T
      <3>1. i + 1 \in 1 .. n /\ i + 1 \in 0 .. n /\ (i + 1) - 1 = i /\ i + 1 # 0
        BY <1>1
      <3>2. /\ total[i + 1] = total[(i + 1) - 1] + Hundredths[fs[i + 1].severity]
            /\ g[i + 1] = g[(i + 1) - 1] + Hundredths[fs[i + 1].severity]
        BY <1>5, <1>6, <3>1
      <3> QED
        BY <2>2, <3>1, <3>2
    <2>3. \A i \in 0 .. n : i \in T
      <3> HIDE DEF T, n
      <3> QED
        BY <1>1, <2>1, <2>2, IntervalInduction
    <2>4. \A i \in 0 .. n : total[i] = g[i]
      BY <2>3
    <2> QED
      BY <1>3, <1>5, <1>6, <2>4
  <1>8. Cost(fs) = total[n]
    BY Zenon DEF Cost
  <1>9. g \in Totals(fs)
    BY <1>3, <1>4 DEF Totals
  <1> HIDE DEF total
  <1> QED
    BY <1>7, <1>8, <1>9

LEMMA CostIsNatural ==
  ASSUME NEW fs \in Seq(Finding)
  PROVE  Cost(fs) \in Nat
  <1>1. PICK total \in Totals(fs) : Cost(fs) = total[Len(fs)]
    BY CostUnfolds
  <1> QED
    BY <1>1 DEF Totals

(***************************************************************************)
(* Report.add keeps the confidence near the one in exact decimals.         *)
(***************************************************************************)
NearNominal(report) == Near(report.confidence, Cost(report.flags))

LEMMA AddStaysNear ==
  ASSUME NEW report \in ReportType, NEW fs \in Seq(Finding), NearNominal(report)
  PROVE  NearNominal(Add(report, fs))
  <1> DEFINE old == report.flags
             c == old \o fs
             m == Len(old)
             n == Len(fs)
  <1>1. old \in Seq(Finding) /\ m \in Nat /\ n \in Nat
    BY DEF ReportType
  <1>2. /\ c \in Seq(Finding) /\ Len(c) = m + n
        /\ \A i \in 1 .. m : c[i] = old[i]
        /\ \A i \in 1 .. n : c[m + i] = fs[i]
    BY <1>1
  <1>3. PICK after \in Courses(report.confidence, fs) : Add(report, fs).confidence = after[n]
    BY AddUnfolds
  <1>4. /\ after \in [0 .. n -> Confidences] /\ after[0] = report.confidence
        /\ \A i \in 1 .. n : after[i] = Debit[<<after[i - 1], Penalty[fs[i].severity]>>]
    BY DEF Courses
  <1>5. PICK ta \in Totals(old) : Cost(old) = ta[m]
    BY <1>1, CostUnfolds
  <1>6. /\ ta \in [0 .. m -> Nat] /\ ta[0] = 0
        /\ \A i \in 1 .. m : ta[i] = ta[i - 1] + Hundredths[old[i].severity]
    BY DEF Totals
  <1>7. PICK tc \in Totals(c) : Cost(c) = tc[m + n]
    BY <1>2, CostUnfolds
  <1>8. /\ tc \in [0 .. m + n -> Nat] /\ tc[0] = 0
        /\ \A i \in 1 .. m + n : tc[i] = tc[i - 1] + Hundredths[c[i].severity]
    BY <1>2 DEF Totals
  <1> HIDE DEF c, m, n, old
  <1>9. tc[m] = Cost(old)
    <2> DEFINE T == {i \in 0 .. m : tc[i] = ta[i]}
    <2>1. 0 \in T
      BY <1>1, <1>6, <1>8
    <2>2. ASSUME NEW i \in 0 .. m - 1, i \in T PROVE i + 1 \in T
      <3>1. i + 1 \in 1 .. m /\ i + 1 \in 0 .. m /\ (i + 1) - 1 = i /\ i + 1 \in 1 .. m + n
        BY <1>1
      <3> QED
        BY <1>2, <1>6, <1>8, <2>2, <3>1
    <2>3. \A i \in 0 .. m : i \in T
      <3> HIDE DEF T
      <3> QED
        BY <1>1, <2>1, <2>2, IntervalInduction
    <2> QED
      BY <1>1, <1>5, <2>3
  <1>10. Near(after[n], tc[m + n])
    <2> DEFINE T == {i \in 0 .. n : Near(after[i], tc[m + i])}
    <2>1. 0 \in T
      BY <1>1, <1>4, <1>9 DEF NearNominal, old
    <2>2. ASSUME NEW i \in 0 .. n - 1, i \in T PROVE i + 1 \in T
      <3>1. /\ i + 1 \in 1 .. n /\ i + 1 \in 0 .. n /\ (i + 1) - 1 = i /\ i \in 0 .. n
            /\ m + (i + 1) \in 1 .. m + n /\ (m + (i + 1)) - 1 = m + i /\ m + i \in 0 .. m + n
        BY <1>1
      <3>2. /\ after[i] \in Confidences /\ tc[m + i] \in Nat
            /\ after[i + 1] = Debit[<<after[i], Penalty[fs[i + 1].severity]>>]
        BY <1>4, <1>8, <3>1
      <3>3. tc[m + (i + 1)] = tc[m + i] + Hundredths[fs[i + 1].severity]
        BY <1>2, <1>8, <3>1
      <3>4. fs[i + 1].severity \in Severity
        <4>1. fs[i + 1] \in Finding
          BY <3>1, MembersOfFindings DEF n
        <4> QED
          BY <4>1 DEF Finding
      <3>5. Near(after[i], tc[m + i])
        BY <2>2
      <3>6. Near(after[i + 1], tc[m + (i + 1)])
        BY <3>2, <3>3, <3>4, <3>5, DebitStaysNear
      <3> QED
        BY <3>1, <3>6
    <2>3. \A i \in 0 .. n : i \in T
      <3> HIDE DEF T
      <3> QED
        BY <1>1, <2>1, <2>2, IntervalInduction
    <2> QED
      BY <1>1, <2>3
  <1> QED
    BY <1>3, <1>7, <1>10, AddFacts DEF NearNominal, c, old

LEMMA EmptyIsNear == NearNominal(EmptyReport)
  <1>1. Cost(<<>>) = 0
    <2>1. <<>> \in Seq(Finding) /\ Len(<<>>) = 0
      OBVIOUS
    <2>2. PICK total \in Totals(<<>>) : Cost(<<>>) = total[0]
      BY <2>1, CostUnfolds
    <2> QED
      BY <2>2 DEF Totals
  <1>2. Amount(One) = Whole
    BY LimbIsEven DEF Amount, One, Whole
  <1> QED
    BY <1>1, <1>2, WholeIsLarge DEF NearNominal, Near, EmptyReport

(***************************************************************************)
(* A confidence near a nominal one has its high limb, give or take one.    *)
(***************************************************************************)
LEMMA NearHighLimb ==
  ASSUME NEW c \in Confidences, NEW total \in Nat, Near(c, total)
  PROVE  c[1] - HighLimb(Nominal(total)) \in -1 .. 1
  <1>0. PICK k \in Nat : k > 1000 /\ Limb = 32 * k
    BY LimbIsEven, SMT
  <1>1. c[1] \in Nat /\ c[2] \in 0 .. Limb - 1
    BY <1>0, SMT DEF Confidences, Doubles
  <1>2. CASE total > 100
    <2>1. c = Zero /\ Nominal(total) = 0
      BY <1>2, SMT DEF Near, Nominal
    <2>2. HighLimb(0) = 0
      BY <1>0, SMT DEF HighLimb
    <2> QED
      BY <2>1, <2>2, SMT DEF Zero
  <1>3. CASE total <= 100
    <2> DEFINE n == 100 - total
               H == HighLimb(n)
    <2>1. Nominal(total) = n /\ n \in 0 .. 100
      BY <1>3, SMT DEF Nominal
    <2>2. H \in Int /\ 100 * H <= n * Limb /\ n * Limb < 100 * H + 100
      BY <2>1, SMT DEF HighLimb, Limb
    <2>3. 100 * Amount(c) - n * Whole <= 100000 /\ 100 * Amount(c) - n * Whole >= -100000
      BY <1>0, <1>1, <1>3, SMT DEF Near, Whole, Amount
    <2>4. Amount(c) = c[1] * Limb + c[2] /\ n * Whole = (n * Limb) * Limb
      BY <1>0, <2>1, SMT DEF Amount, Whole
    <2> DEFINE e == n * Limb - 100 * H
               f == 100 * (c[1] - H)
    <2>5. e \in 0 .. 99
      BY <1>0, <2>1, <2>2, SMT
    <2>6. 100 * Amount(c) - n * Whole = (f - e) * Limb + 100 * c[2]
      <3>1. (f - e) * Limb = 100 * (c[1] * Limb) - (n * Limb) * Limb
        <4>1. f - e = 100 * c[1] - n * Limb
          BY <1>0, <1>1, <2>1, <2>2
        <4>2. (100 * c[1] - n * Limb) * Limb = 100 * (c[1] * Limb) - (n * Limb) * Limb
          BY <1>0, <1>1, <2>1, SMT
        <4> HIDE DEF f, e
        <4> QED
          BY <4>1, <4>2, SMT
      <3> HIDE DEF f, e
      <3> QED
        BY <1>0, <1>1, <2>1, <2>4, <3>1, SMT
    <2> DEFINE V == (f - e) * Limb
               X == 100 * Amount(c) - n * Whole
    <2>7. /\ Limb > 100000 /\ Limb \in Int
          /\ V \in Int /\ f \in Int /\ e \in Int
          /\ X = V + 100 * c[2] /\ X <= 100000 /\ X >= -100000
      <3>1. Limb > 100000 /\ Limb \in Int
        BY SMT DEF Limb
      <3>2. f \in Int /\ e \in Int
        BY <1>1, <2>2, <2>5, SMT
      <3>3. V \in Int
        <4> HIDE DEF f, e
        <4> QED
          BY <3>1, <3>2, SMT
      <3> QED
        BY <2>3, <2>6, <3>1, <3>2, <3>3, SMT
    <2>8. ASSUME c[1] - H >= 2 PROVE FALSE
      <3>1. f - e >= 101
        <4> HIDE DEF H, n
        <4> QED
          BY <1>1, <2>2, <2>5, <2>8, SMT
      <3>2. V >= 101 * Limb
        <4> HIDE DEF f, e
        <4> QED
          BY <2>7, <3>1, SMT
      <3> HIDE DEF V, X
      <3> QED
        BY <1>1, <2>7, <3>2, SMT
    <2>9. ASSUME c[1] - H <= -2 PROVE FALSE
      <3>1. f - e <= -200
        <4> HIDE DEF H, n
        <4> QED
          BY <1>1, <2>2, <2>5, <2>9, SMT
      <3>2. V <= -(200 * Limb)
        <4> HIDE DEF f, e
        <4> QED
          BY <2>7, <3>1, SMT
      <3> HIDE DEF V, X
      <3> QED
        BY <1>1, <2>7, <3>2, SMT
    <2> HIDE DEF H, n
    <2> QED
      BY <1>1, <2>1, <2>2, <2>8, <2>9, SMT DEF H
  <1> QED
    BY <1>2, <1>3, SMT

(***************************************************************************)
(* In the critic's gate, the nominal confidence is in the band.            *)
(***************************************************************************)
LEMMA GateIsInTheBand ==
  ASSUME NEW c \in Confidences, NEW total \in Nat, Near(c, total),
         AtMost(Literal40, c), AtMost(c, Literal80)
  PROVE  Nominal(total) \in 40 .. 80
  <1>1. 100 * Amount(Literal40) - 40 * Whole = 640 /\ 100 * Amount(Literal80) - 80 * Whole = 1280
    BY SMT DEF Amount, Literal40, Literal80, Whole, Limb
  <1>2. Literal40 \in Doubles /\ Literal80 \in Doubles
    <2>0. \A hi, lo \in Nat : hi <= Limb /\ lo < Limb => <<hi, lo>> \in Doubles
      BY LimbIsEven, SMT DEF Doubles
    <2>1. 214748364 <= Limb /\ 429496736 < Limb /\ 429496729 <= Limb /\ 322122560 < Limb
      BY SMT DEF Limb
    <2> QED
      BY <2>0, <2>1, SMT DEF Literal40, Literal80
  <1>3. c \in Doubles
    BY SMT DEF Confidences
  <1>4. /\ Amount(Literal40) \in Nat /\ Amount(Literal80) \in Nat /\ Amount(c) \in Nat
        /\ Amount(Literal40) <= Amount(c) /\ Amount(c) <= Amount(Literal80)
    BY <1>2, <1>3, OrderOfAmounts, SMT
  <1>5. Whole \in Nat /\ Whole > 1000000
    BY WholeIsLarge, SMT
  <1>6. total <= 100
    <2>1. Amount(Zero) = 0
      BY LimbIsEven, SMT DEF Amount, Zero
    <2> QED
      BY <1>1, <1>4, <1>5, <2>1, SMT DEF Near
  <1>7. /\ 100 * Amount(c) - (100 - total) * Whole <= 100000
        /\ 100 * Amount(c) - (100 - total) * Whole >= -100000
    BY <1>4, <1>5, <1>6, SMT DEF Near
  <1>8. 100 - total >= 40
    <2>1. ASSUME 100 - total <= 39 PROVE FALSE
      <3>1. (100 - total) * Whole <= 39 * Whole
        BY <1>5, <2>1, SMT
      <3> QED
        BY <1>1, <1>4, <1>5, <1>7, <3>1, SMT
    <2> QED
      BY <2>1, SMT
  <1>9. 100 - total <= 80
    <2>1. ASSUME 100 - total >= 81 PROVE FALSE
      <3>1. (100 - total) * Whole >= 81 * Whole
        BY <1>5, <2>1, SMT
      <3> QED
        BY <1>1, <1>4, <1>5, <1>7, <3>1, SMT
    <2> QED
      BY <2>1, SMT
  <1> QED
    BY <1>6, <1>8, <1>9, SMT DEF Nominal

-----------------------------------------------------------------------------
(***************************************************************************)
(* A fresh report holds the flags it is given; an error or a critical flag *)
(* asks for a review, and without flags nobody does.                       *)
(***************************************************************************)
LEMMA FreshReport ==
  ASSUME NEW fs \in Seq(Finding)
  PROVE  /\ Add(EmptyReport, fs) \in ReportType
         /\ Add(EmptyReport, fs).flags = fs
         /\ \A i \in 1 .. Len(fs) :
              fs[i].severity \in {"error", "critical"} => Add(EmptyReport, fs).suggested_review
         /\ fs = <<>> => ~ Add(EmptyReport, fs).suggested_review
  <1> DEFINE R == Add(EmptyReport, fs)
  <1>1. /\ R \in ReportType /\ R.flags = EmptyReport.flags \o fs
        /\ (\E f \in ToSet(fs) : f.severity \in {"error", "critical"}) => R.suggested_review
        /\ fs = <<>> => R = EmptyReport
    BY EmptyReportIsTyped, AddFacts
  <1>2. EmptyReport.flags \o fs = fs /\ ~ EmptyReport.suggested_review
    BY DEF EmptyReport
  <1> HIDE DEF R
  <1>3. \A i \in 1 .. Len(fs) : fs[i] \in ToSet(fs)
    BY MembersOfFindings
  <1>4. \A i \in 1 .. Len(fs) : fs[i].severity \in {"error", "critical"} => R.suggested_review
    BY <1>1, <1>3, Zenon
  <1> QED
    BY <1>1, <1>2, <1>4 DEF R

(***************************************************************************)
(* What FlattenSeq does to a sequence of sequences of flags.               *)
(***************************************************************************)
LEMMA FlattenFindings ==
  ASSUME NEW seqs \in Seq(Seq(Finding))
  PROVE  /\ FlattenSeq(seqs) \in Seq(Finding)
         /\ ToSet(FlattenSeq(seqs)) = UNION {ToSet(seqs[i]) : i \in 1 .. Len(seqs)}
  <1> DEFINE n == Len(seqs)
             S == Seq(Finding)
             D == [i \in 1 .. n |-> [s \in S |-> s \o seqs[i]]]
             Body(f) == [i \in 1 .. n |-> IF i = 1 THEN seqs[i] ELSE f[i - 1] \o seqs[i]]
             flatten == CHOOSE f : f = Body(f)
             Upto(k) == UNION {ToSet(seqs[i]) : i \in 1 .. k}
  <1>1. n \in Nat /\ \A i \in 1 .. n : seqs[i] \in S
    OBVIOUS
  <1>2. CASE n = 0
    <2>1. seqs = <<>> /\ FlattenSeq(seqs) = seqs
      BY <1>2 DEF FlattenSeq
    <2>2. ToSet(<<>>) = {}
      BY DEF ToSet
    <2>3. 1 .. n = {}
      BY <1>2
    <2> HIDE DEF n
    <2>4. UNION {ToSet(seqs[i]) : i \in 1 .. n} = {}
      BY <2>3
    <2>5. FlattenSeq(seqs) = <<>> /\ <<>> \in Seq(Finding)
      BY <2>1
    <2> QED
      BY <2>2, <2>4, <2>5, Zenon DEF n
  <1>3. CASE n # 0
    <2>1. <<>> \in S /\ D \in [1 .. n -> [S -> S]]
      <3>1. \A i \in 1 .. n : \A s \in S : s \o seqs[i] \in S
        BY <1>1
      <3> QED
        BY <3>1
    <2>2. PICK g : g \in [0 .. n -> S] /\ g[0] = <<>> /\ \A i \in 1 .. n : g[i] = D[i][g[i - 1]]
      <3> HIDE DEF D, n, S
      <3>1. \E g : g \in Runs(n, S, <<>>, D)
        BY <1>1, <2>1, StepRecursion
      <3> QED
        BY <3>1 DEF Runs
    <2>3. \A i \in 1 .. n : g[i - 1] \in S /\ g[i] \in S /\ g[i] = g[i - 1] \o seqs[i]
      <3>1. ASSUME NEW i \in 1 .. n PROVE g[i - 1] \in S /\ g[i] \in S /\ g[i] = D[i][g[i - 1]]
        <4>1. i - 1 \in 0 .. n /\ i \in 0 .. n
          BY <1>1
        <4> HIDE DEF n, D, S
        <4> QED
          BY <2>2, <4>1
      <3>2. \A i \in 1 .. n : \A s \in S : D[i][s] = s \o seqs[i]
        OBVIOUS
      <3> HIDE DEF D, S
      <3> QED
        BY <3>1, <3>2
    <2> DEFINE h == [i \in 1 .. n |-> g[i]]
    <2>4. h = Body(h)
      <3>1. ASSUME NEW i \in 1 .. n, i = 1 PROVE h[i] = seqs[i]
        <4>0. g[i] = g[i - 1] \o seqs[i] /\ i - 1 = 0 /\ seqs[i] \in S
          <5>1. i - 1 = 0
            BY <3>1
          <5> HIDE DEF n, S
          <5> QED
            BY <1>1, <2>3, <5>1
        <4>1. h[i] = <<>> \o seqs[i] /\ seqs[i] \in S
          <5>1. g[i - 1] = <<>>
            BY <2>2, <4>0
          <5>2. h[i] = g[i]
            OBVIOUS
          <5> HIDE DEF h
          <5> QED
            BY <4>0, <5>1, <5>2
        <4> QED
          BY <4>1
      <3>2. ASSUME NEW i \in 1 .. n, i # 1 PROVE h[i] = h[i - 1] \o seqs[i]
        <4>1. i - 1 \in 1 .. n
          BY <1>1, <3>2
        <4> QED
          BY <2>3, <4>1
      <3> HIDE DEF n, S
      <3> QED
        BY <3>1, <3>2
    <2>5. flatten = Body(flatten)
      BY <2>4, Zenon
    <2>6. FlattenSeq(seqs) = flatten[n]
      BY <1>3, Zenon DEF FlattenSeq
    <2> DEFINE T == {i \in 0 .. n : i # 0 => /\ flatten[i] \in S
                                             /\ ToSet(flatten[i]) = Upto(i)}
    <2> HIDE DEF flatten
    <2>7. 0 \in T
      BY <1>1
    <2>8. ASSUME NEW i \in 0 .. n - 1, i \in T PROVE i + 1 \in T
      <3>1. i + 1 \in 1 .. n /\ i + 1 \in 0 .. n /\ (i + 1) - 1 = i
        BY <1>1
      <3>2. Upto(i + 1) = Upto(i) \cup ToSet(seqs[i + 1])
        <4>1. 1 .. i + 1 = (1 .. i) \cup {i + 1}
          BY <1>1
        <4> QED
          BY <4>1
      <3>3. CASE i = 0
        <4>1. flatten[i + 1] = seqs[i + 1]
          BY <2>5, <3>1, <3>3
        <4>2. Upto(i) = {}
          BY <3>3
        <4> QED
          BY <1>1, <3>1, <3>2, <4>1, <4>2
      <3>4. CASE i # 0
        <4>0. i + 1 # 1
          BY <3>1, <3>4
        <4>1. flatten[i + 1] = flatten[(i + 1) - 1] \o seqs[i + 1]
          <5> HIDE DEF n
          <5> QED
            BY <2>5, <3>1, <4>0
        <4>2. flatten[i] \in S /\ ToSet(flatten[i]) = Upto(i) /\ seqs[i + 1] \in S
          BY <1>1, <2>8, <3>1, <3>4
        <4>3. flatten[i + 1] = flatten[i] \o seqs[i + 1]
          BY <3>1, <4>1
        <4>4. /\ flatten[i + 1] \in S
              /\ ToSet(flatten[i + 1]) = ToSet(flatten[i]) \cup ToSet(seqs[i + 1])
          BY <4>2, <4>3, FindingsOfConcat
        <4> HIDE DEF Upto, S
        <4> QED
          BY <3>1, <3>2, <4>2, <4>4
      <3> QED
        BY <3>3, <3>4
    <2>9. \A i \in 0 .. n : i \in T
      <3> HIDE DEF T, n
      <3> QED
        BY <1>1, <2>7, <2>8, IntervalInduction
    <2>10. flatten[n] \in S /\ ToSet(flatten[n]) = Upto(n)
      <3>1. n \in 0 .. n
        BY <1>1
      <3>2. n \in T
        BY <2>9, <3>1
      <3> HIDE DEF n, S, Upto
      <3> QED
        BY <1>3, <3>2
    <2> QED
      BY <2>6, <2>10
  <1> QED
    BY <1>2, <1>3

=============================================================================
