---------------------------- MODULE DecisionsProofs ----------------------------
(***************************************************************************)
(* What the procedures of preparation, fusion, calibration, evaluation,    *)
(* trust and of the agent guarantee, for every argument that               *)
(* ArgumentAssumption admits.                                              *)
(*                                                                         *)
(* Sums and histories are recursive functions on an interval: that the     *)
(* function exists and what it has at each position are shown by induction *)
(* on the position (Induction), over a set and not over an operator.       *)
(***************************************************************************)
EXTENDS Decisions, FiniteSetTheorems, TLAPS

\* The result of a call stays that of its argument.
Recorded ==
  /\ case.of = "chunk" => \E sections \in Documents, limits \in Limits :
       /\ case.in = [sections |-> sections, limits |-> limits]
       /\ case.out = Chunked(sections, limits)
  /\ case.of = "load" => case.in \in Sources /\ case.out = Preparation!Load(case.in, Entry)
  /\ case.of = "prepare" => /\ case.in \in Revisions
                            /\ case.out = Preparation!PrepareAll(case.in, RevisionLimits)
  /\ case.of = "fuse" => \E lexical, semantic \in Rankings, policy \in Policies, request \in Requests :
       /\ case.in = [lexical |-> lexical, semantic |-> semantic, policy |-> policy, request |-> request]
       /\ case.out = Fusion!Answer(lexical, semantic, policy, request)
  /\ case.of = "calibrate" =>
       /\ case.in \in Calibrations
       /\ case.out = Evaluation!SelectThreshold(case.in.observations, case.in.gates,
                                                case.in.silence, Top)
  /\ case.of = "evaluate" =>
       /\ case.in \in Suites
       /\ case.out = Evaluation!Report(case.in.cases, case.in.answers, case.in.gates, case.in.silence)
  /\ case.of = "identify" => \E token \in Tokens, arrival \in Arrivals :
       /\ case.in = [token |-> token, arrival |-> arrival]
       /\ case.out = Identified(token, arrival)
  /\ case.of = "converse" => /\ case.in \in Conversations
                             /\ case.out = Agent!Orchestrate(case.in.system, case.in.run)

\* Every call records its own argument and result, so that a property of the results is one of
\* the procedures.
LEMMA CallsAreRecorded == Spec => []Recorded
<1>1. Init => Recorded
  BY DEF Init, NoCase, Recorded
<1>2. Recorded /\ [Next]_case => Recorded'
  <2> SUFFICES ASSUME Recorded, [Next]_case
               PROVE  Recorded'
    OBVIOUS
  <2>1. CASE Chunk
    BY <2>1 DEF Chunk, Call, Recorded
  <2>2. CASE Load
    BY <2>2 DEF Load, Call, Recorded
  <2>3. CASE Prepare
    BY <2>3 DEF Prepare, Call, Recorded
  <2>4. CASE Fuse
    BY <2>4 DEF Fuse, Call, Recorded
  <2>5. CASE Calibrate
    BY <2>5 DEF Calibrate, Call, Recorded
  <2>6. CASE Evaluate
    BY <2>6 DEF Evaluate, Call, Recorded
  <2>7. CASE Identify
    BY <2>7 DEF Identify, Call, Recorded
  <2>8. CASE Converse
    BY <2>8 DEF Converse, Call, Recorded
  <2>9. CASE Return
    BY <2>9 DEF Return, NoCase, Recorded
  <2>10. CASE UNCHANGED case
    BY <2>10, SMTT(30) DEF Recorded
  <2> QED
    BY <2>1, <2>2, <2>3, <2>4, <2>5, <2>6, <2>7, <2>8, <2>9, <2>10 DEF Next
<1> QED
  BY <1>1, <1>2, PTL DEF Spec

-----------------------------------------------------------------------------
(* Induction, counting and sums *)

LEMMA Induction ==
  ASSUME NEW S, 0 \in S, \A n \in Nat : n \in S => n + 1 \in S
  PROVE  Nat \subseteq S
<1> DEFINE T == Nat \ S
<1> SUFFICES ASSUME T # {}
             PROVE  FALSE
  OBVIOUS
<1>1. PICK n \in T : \A m \in T : ~(<<m, n>> \in OpToRel(<, Nat))
  BY NatLessThanWellFounded, WFMin, Zenon
<1>2. n \in Nat /\ n # 0 /\ n - 1 \in Nat
  OBVIOUS
<1>3. n - 1 < n
  BY <1>2
<1>4. <<n - 1, n>> \in OpToRel(<, Nat)
  BY <1>2, <1>3 DEF OpToRel
<1>5. n - 1 \in S
  BY <1>1, <1>2, <1>4
<1> QED
  BY <1>2, <1>5

\* The modules instantiated count with the operators that the theorems are about.
LEMMA SameCounting ==
  ASSUME NEW S
  PROVE  /\ Evaluation!Cardinality(S) = Cardinality(S)
         /\ Evaluation!IsFiniteSet(S) <=> IsFiniteSet(S)
<1>1. Evaluation!Cardinality(S) = Cardinality(S)
  BY Zenon DEF Evaluation!Cardinality, Cardinality
<1>2. Evaluation!IsFiniteSet(S) <=> IsFiniteSet(S)
  BY Zenon DEF Evaluation!IsFiniteSet, IsFiniteSet
<1> QED
  BY <1>1, <1>2

LEMMA SameRange ==
  ASSUME NEW f
  PROVE  Evaluation!Range(f) = Range(f)
BY DEF Evaluation!Range, Range

\* The running total of a sequence of numbers exists, and the sum is its last value.
LEMMA SumIsRunningTotal ==
  ASSUME NEW n \in Nat, NEW values \in [1..n -> Int]
  PROVE  \E total \in [0..n -> Int] :
           /\ total[0] = 0
           /\ \A i \in 1..n : total[i] = total[i - 1] + values[i]
           /\ Evaluation!SumOf(values) = total[n]
<1> DEFINE Rec(g, m) == [i \in 0..m |-> IF i = 0 THEN 0 ELSE g[i - 1] + values[i]]
           S == {m \in Nat : m <= n => \E g : g = Rec(g, m)}
<1>1. 0 \in S
  <2>0. 0..0 = {0}
    OBVIOUS
  <2>1. [i \in 0..0 |-> 0] = Rec([i \in 0..0 |-> 0], 0)
    BY <2>0
  <2> QED
    BY <2>1
<1>2. \A m \in Nat : m \in S => m + 1 \in S
  <2> SUFFICES ASSUME NEW m \in Nat, m + 1 <= n, \E g : g = Rec(g, m)
               PROVE  \E h : h = Rec(h, m + 1)
    <3> HIDE DEF Rec
    <3> QED
      OBVIOUS
  <2>1. PICK g : g = Rec(g, m)
    OBVIOUS
  <2> DEFINE h == [i \in 0..(m + 1) |-> IF i = m + 1 THEN g[m] + values[m + 1] ELSE g[i]]
  <2>2. \A i \in 0..(m + 1) : h[i] = IF i = 0 THEN 0 ELSE h[i - 1] + values[i]
    <3> SUFFICES ASSUME NEW i \in 0..(m + 1)
                 PROVE  h[i] = IF i = 0 THEN 0 ELSE h[i - 1] + values[i]
      OBVIOUS
    <3>1. CASE i = m + 1
      BY <3>1
    <3>2. CASE i # m + 1
      <4>1. i \in 0..m /\ h[i] = g[i]
        BY <3>2
      <4>2. g[i] = IF i = 0 THEN 0 ELSE g[i - 1] + values[i]
        BY <2>1, <4>1
      <4>3. i # 0 => h[i - 1] = g[i - 1]
        BY <3>2
      <4> QED
        BY <4>1, <4>2, <4>3
    <3> QED
      BY <3>1, <3>2
  <2>3. h = Rec(h, m + 1)
    BY <2>2
  <2> QED
    BY <2>3
<1>3. \E g : g = Rec(g, n)
  <2>1. Nat \subseteq S
    <3> HIDE DEF S
    <3> QED
      BY <1>1, <1>2, Induction
  <2> QED
    BY <2>1
<1>5. Len(values) = n
  OBVIOUS
<1> DEFINE total == CHOOSE g : g = Rec(g, Len(values))
<1>6. Evaluation!SumOf(values) = total[Len(values)]
  BY DEF Evaluation!SumOf
<1>4. total = Rec(total, n)
  <2>1. total = Rec(total, Len(values))
    BY <1>3, <1>5
  <2> HIDE DEF total
  <2> QED
    BY <2>1, <1>5
<1> HIDE DEF total
<1>7. total[0] = 0 /\ \A i \in 1..n : total[i] = total[i - 1] + values[i]
  BY <1>4
<1> DEFINE U == {m \in Nat : m <= n => total[m] \in Int}
<1>8. \A m \in Nat : m \in U
  <2>1. 0 \in U
    BY <1>7
  <2>2. \A m \in Nat : m \in U => m + 1 \in U
    BY <1>7
  <2> QED
    BY <2>1, <2>2, Induction
<1>9. total \in [0..n -> Int]
  <2>1. \A i \in 0..n : total[i] \in Int
    BY <1>8
  <2>2. DOMAIN total = 0..n /\ total = [i \in 0..n |-> total[i]]
    BY <1>4
  <2> QED
    BY <2>1, <2>2
<1>10. Evaluation!SumOf(values) = total[n]
  BY <1>5, <1>6
<1> QED
  BY <1>7, <1>9, <1>10

\* The sum of one more value.
LEMMA SumOfMore ==
  ASSUME NEW n \in Nat, NEW values \in [1..(n + 1) -> Int]
  PROVE  Evaluation!SumOf(values) = Evaluation!SumOf([i \in 1..n |-> values[i]]) + values[n + 1]
<1> DEFINE fewer == [i \in 1..n |-> values[i]]
<1>1. PICK total \in [0..(n + 1) -> Int] :
        /\ total[0] = 0
        /\ \A i \in 1..(n + 1) : total[i] = total[i - 1] + values[i]
        /\ Evaluation!SumOf(values) = total[n + 1]
  <2>1. n + 1 \in Nat
    OBVIOUS
  <2> QED
    BY <2>1, SumIsRunningTotal
<1>2. fewer \in [1..n -> Int]
  OBVIOUS
<1>3. PICK part \in [0..n -> Int] :
        /\ part[0] = 0
        /\ \A i \in 1..n : part[i] = part[i - 1] + fewer[i]
        /\ Evaluation!SumOf(fewer) = part[n]
  <2> HIDE DEF fewer
  <2> QED
    BY <1>2, SumIsRunningTotal
<1> DEFINE S == {m \in Nat : m <= n => part[m] = total[m]}
<1>4. n \in S
  <2>1. 0 \in S
    BY <1>1, <1>3
  <2>2. \A m \in Nat : m \in S => m + 1 \in S
    BY <1>1, <1>3
  <2> HIDE DEF S
  <2> QED
    BY <2>1, <2>2, Induction
<1>5. part[n] = total[n] /\ total[n + 1] = total[n] + values[n + 1]
  BY <1>1, <1>4
<1> QED
  BY <1>1, <1>3, <1>5

\* A sum of integers is one, and not negative if none of them is.
LEMMA SumIsNumber ==
  ASSUME NEW n \in Nat, NEW values \in [1..n -> Int]
  PROVE  /\ Evaluation!SumOf(values) \in Int
         /\ (\A i \in 1..n : values[i] >= 0) => Evaluation!SumOf(values) >= 0
<1>1. PICK total \in [0..n -> Int] :
        /\ total[0] = 0
        /\ \A i \in 1..n : total[i] = total[i - 1] + values[i]
        /\ Evaluation!SumOf(values) = total[n]
  BY SumIsRunningTotal
<1>2. ASSUME \A i \in 1..n : values[i] >= 0
      PROVE  total[n] >= 0
  <2> DEFINE S == {m \in Nat : m <= n => total[m] >= 0}
  <2>1. 0 \in S
    BY <1>1
  <2>2. \A m \in Nat : m \in S => m + 1 \in S
    BY <1>1, <1>2
  <2>3. n \in S
    <3> HIDE DEF S
    <3> QED
      BY <2>1, <2>2, Induction
  <2> QED
    BY <2>3
<1> QED
  BY <1>1, <1>2

\* What is no less at the positions in question than a bound, and zero at the others, adds
\* up to no less than the bound at each of them.
LEMMA SumIsBounded ==
  ASSUME NEW n \in Nat, NEW values \in [1..n -> Int], NEW among, \A i \in among : i \in 1..n,
         NEW bound \in Int,
         \A i \in 1..n : IF i \in among THEN values[i] >= bound ELSE values[i] = 0
  PROVE  Evaluation!SumOf(values) >= bound * Cardinality(among)
<1>1. PICK total \in [0..n -> Int] :
        /\ total[0] = 0
        /\ \A i \in 1..n : total[i] = total[i - 1] + values[i]
        /\ Evaluation!SumOf(values) = total[n]
  BY SumIsRunningTotal
<1> DEFINE first(m) == {i \in among : i <= m}
           least(m) == bound * Cardinality(first(m))
<1>2. \A m \in Nat : IsFiniteSet(first(m)) /\ Cardinality(first(m)) \in Nat
  <2> SUFFICES ASSUME NEW m \in Nat
               PROVE  IsFiniteSet(first(m)) /\ Cardinality(first(m)) \in Nat
    OBVIOUS
  <2>1. IsFiniteSet(1..n)
    BY FS_Interval
  <2>2. first(m) \subseteq 1..n
    OBVIOUS
  <2> HIDE DEF first
  <2>3. IsFiniteSet(first(m))
    BY <2>1, <2>2, FS_Subset
  <2> QED
    BY <2>3, FS_CardinalityType
<1>3. least(0) = 0 /\ first(n) = among
  <2>1. first(0) = {} /\ first(n) = among
    OBVIOUS
  <2>2. Cardinality(first(0)) = 0
    BY <2>1, FS_EmptySet
  <2> QED
    BY <2>1, <2>2
<1>4. ASSUME NEW m \in Nat, m + 1 <= n
      PROVE  least(m) \in Int /\ least(m + 1) <= least(m) + values[m + 1]
  <2>1. CASE m + 1 \in among
    <3>1. first(m + 1) = first(m) \cup {m + 1} /\ m + 1 \notin first(m)
      BY <2>1
    <3>2. Cardinality(first(m + 1)) = Cardinality(first(m)) + 1
      BY <1>2, <3>1, FS_AddElement
    <3>3. values[m + 1] >= bound /\ values[m + 1] \in Int
      BY <1>4, <2>1
    <3>4. Cardinality(first(m)) \in Nat
      BY <1>2
    <3> DEFINE c == Cardinality(first(m))
    <3>5. bound * (c + 1) = bound * c + bound /\ bound * c \in Int
      <4> HIDE DEF c
      <4> QED
        BY <3>4 DEF c
    <3> HIDE DEF first
    <3> QED
      BY <3>2, <3>3, <3>5
  <2>2. CASE m + 1 \notin among
    <3>1. first(m + 1) = first(m)
      BY <2>2
    <3>2. values[m + 1] = 0
      BY <1>4, <2>2
    <3>3. Cardinality(first(m)) \in Nat
      BY <1>2
    <3> DEFINE c == Cardinality(first(m))
    <3> HIDE DEF first
    <3> QED
      BY <3>1, <3>2, <3>3
  <2> QED
    BY <2>1, <2>2
<1> HIDE DEF least
<1> DEFINE S == {m \in Nat : m <= n => total[m] >= least(m)}
<1>5. 0 \in S
  BY <1>1, <1>3
<1>6. \A m \in Nat : m \in S => m + 1 \in S
  <2> SUFFICES ASSUME NEW m \in Nat, total[m] >= least(m), m + 1 <= n
               PROVE  total[m + 1] >= least(m + 1)
    OBVIOUS
  <2>1. total[m + 1] = total[m] + values[m + 1] /\ total[m] \in Int /\ values[m + 1] \in Int
    BY <1>1
  <2>2. least(m) \in Int /\ least(m + 1) \in Int /\ least(m + 1) <= least(m) + values[m + 1]
    <3>1. Cardinality(first(m + 1)) \in Nat
      <4>1. m + 1 \in Nat
        OBVIOUS
      <4> HIDE DEF first
      <4> QED
        BY <1>2, <4>1
    <3>2. least(m + 1) \in Int
      <4> HIDE DEF first
      <4> QED
        BY <3>1 DEF least
    <3> QED
      BY <1>4, <3>2
  <2> QED
    BY <2>1, <2>2
<1>7. n \in S
  <2> HIDE DEF S
  <2> QED
    BY <1>5, <1>6, Induction
<1>8. least(n) = bound * Cardinality(among)
  BY <1>3 DEF least
<1> QED
  BY <1>1, <1>7, <1>8

LEMMA MeanIsBounded ==
  ASSUME NEW n \in Nat, NEW values \in [1..n -> Int], NEW among, \A i \in among : i \in 1..n
  PROVE  /\ Evaluation!Mean(values, among) \in Int
         /\ \A bound \in Int : among # {} /\ (\A i \in among : values[i] >= bound)
              => Evaluation!Mean(values, among) >= bound
<1> DEFINE counted == [i \in 1..n |-> IF i \in among THEN values[i] ELSE 0]
           sum == Evaluation!SumOf(counted)
           count == Cardinality(among)
<1>1. Len(values) = n
  OBVIOUS
<1>2. Evaluation!Mean(values, among) = IF among = {} THEN 0 ELSE sum \div count
  <2>1. [i \in 1..Len(values) |-> IF i \in among THEN values[i] ELSE 0] = counted
    BY <1>1
  <2>2. Evaluation!Mean(values, among)
          = IF among = {} THEN 0
            ELSE Evaluation!SumOf([i \in 1..Len(values) |-> IF i \in among THEN values[i] ELSE 0])
                   \div Cardinality(among)
    BY SameCounting, Zenon DEF Evaluation!Mean
  <2> HIDE DEF counted
  <2> QED
    BY <2>1, <2>2
<1>3. counted \in [1..n -> Int]
  OBVIOUS
<1>4. sum \in Int
  <2> HIDE DEF counted
  <2> QED
    BY <1>3, SumIsNumber
<1>5. count \in Nat /\ (among # {} => count > 0)
  <2>1. IsFiniteSet(1..n) /\ among \subseteq 1..n
    BY FS_Interval
  <2>3. IsFiniteSet(among)
    BY <2>1, FS_Subset
  <2>2. count \in Nat /\ (count = 0 <=> among = {})
    BY <2>3, FS_CardinalityType, FS_EmptySet
  <2> QED
    BY <2>2
<1>6. ASSUME NEW bound \in Int, \A i \in among : values[i] >= bound
      PROVE  sum >= bound * count
  <2>1. \A i \in 1..n : IF i \in among THEN counted[i] >= bound ELSE counted[i] = 0
    BY <1>6
  <2> HIDE DEF counted
  <2> QED
    BY <1>3, <2>1, SumIsBounded
<1> HIDE DEF sum, count
<1>7. ASSUME NEW bound \in Int, among # {}, sum >= bound * count
      PROVE  sum \div count >= bound
  BY <1>4, <1>5, <1>7
<1> QED
  BY <1>2, <1>4, <1>5, <1>6, <1>7

LEMMA LeastExists ==
  ASSUME NEW T, T # {}, \A x \in T : x \in Nat
  PROVE  /\ \E x \in T : \A y \in T : x <= y
         /\ Evaluation!Min(T) \in T /\ \A y \in T : Evaluation!Min(T) <= y
<1>1. PICK x \in T : \A y \in T : ~(<<y, x>> \in OpToRel(<, Nat))
  <2>1. T \subseteq Nat
    OBVIOUS
  <2> QED
    BY <2>1, NatLessThanWellFounded, WFMin, Zenon
<1>2. \A y \in T : x <= y
  <2> SUFFICES ASSUME NEW y \in T, y < x
               PROVE  FALSE
    OBVIOUS
  <2>1. <<y, x>> \in OpToRel(<, Nat)
    BY DEF OpToRel
  <2> QED
    BY <1>1, <2>1
<1> QED
  BY <1>2 DEF Evaluation!Min

-----------------------------------------------------------------------------
(* The report of an evaluation *)

\* The grade a rank has in the ideal answer, and what grades and ranks are worth.
LEMMA GainsAreNumbers ==
  /\ \A grade \in 0..3 : Evaluation!Gain(grade) \in Nat
  /\ \A i \in 1..5 : Evaluation!Discount[i] \in Nat
  /\ \A grades, i : Evaluation!Ideal(grades, i) \in 0..3
<1>1. \A grade \in 0..3 : Evaluation!Gain(grade) \in Nat
  BY DEF Evaluation!Gain
<1>2. \A i \in 1..5 : Evaluation!Discount[i] \in Nat
  BY DEF Evaluation!Discount
<1>3. ASSUME NEW grades, NEW i
      PROVE  Evaluation!Ideal(grades, i) \in 0..3
  <2> DEFINE levels == {g \in 1..3 : Evaluation!Cardinality({id \in DOMAIN grades : grades[id] >= g}) >= i}
  <2>1. IsFiniteSet(1..3) /\ Cardinality(1..3) = 3
    <3>1. \A n \in Nat : IsFiniteSet(1..n) /\ Cardinality(1..n) = n
      BY FS_Interval
    <3> QED
      BY <3>1
  <2>4. levels \subseteq 1..3
    OBVIOUS
  <2> HIDE DEF levels
  <2>2. Cardinality(levels) \in Nat /\ Cardinality(levels) <= 3
    BY <2>1, <2>4, FS_Subset, FS_CardinalityType
  <2>3. Evaluation!Ideal(grades, i) = Cardinality(levels)
    BY SameCounting DEF Evaluation!Ideal, levels
  <2> QED
    BY <2>2, <2>3
<1> QED
  BY <1>1, <1>2, <1>3

LEMMA GradedSumIsNumber ==
  ASSUME NEW n \in 0..5, NEW grade \in [1..n -> 0..3]
  PROVE  Evaluation!SumOf([i \in 1..n |-> Evaluation!Gain(grade[i]) * Evaluation!Discount[i]]) \in Nat
<1> DEFINE values == [i \in 1..n |-> Evaluation!Gain(grade[i]) * Evaluation!Discount[i]]
<1>1. \A i \in 1..n : values[i] \in Nat
  <2> SUFFICES ASSUME NEW i \in 1..n
               PROVE  Evaluation!Gain(grade[i]) * Evaluation!Discount[i] \in Nat
    OBVIOUS
  <2>1. grade[i] \in 0..3 /\ i \in 1..5
    OBVIOUS
  <2>2. Evaluation!Gain(grade[i]) \in Nat /\ Evaluation!Discount[i] \in Nat
    BY <2>1, GainsAreNumbers
  <2> QED
    BY <2>2
<1>2. values \in [1..n -> Int] /\ \A i \in 1..n : values[i] >= 0
  BY <1>1
<1> HIDE DEF values
<1>3. Evaluation!SumOf(values) \in Int /\ Evaluation!SumOf(values) >= 0
  BY <1>2, SumIsNumber
<1> QED
  BY <1>3 DEF values

\* Every quality of an answer is a whole number of units.
LEMMA MetricsAreNumbers ==
  ASSUME NEW retrieved, Len(retrieved) \in Nat, NEW grades, Evaluation!ValidGrades(grades),
         NEW limit \in 1..5
  PROVE  \A m \in Evaluation!Measures : Evaluation!Metrics(retrieved, grades, limit)[m] \in Int
<1> DEFINE shown == Evaluation!Min({limit, Len(retrieved)})
           grade(i) == IF retrieved[i] \in DOMAIN grades THEN grades[retrieved[i]] ELSE 0
           hits == {i \in 1..shown : grade(i) > 0}
           length == Evaluation!Min({limit, Evaluation!Cardinality(DOMAIN grades)})
           dcg == Evaluation!SumOf([i \in 1..shown |-> Evaluation!Gain(grade(i)) * Evaluation!Discount[i]])
           best == Evaluation!SumOf([i \in 1..length |->
                                       Evaluation!Gain(Evaluation!Ideal(grades, i)) * Evaluation!Discount[i]])
           metrics == Evaluation!Metrics(retrieved, grades, limit)
<1>1. metrics = [precision |-> (Evaluation!Unit * Evaluation!Cardinality(hits)) \div limit,
                 recall |-> IF grades = <<>> THEN 0
                            ELSE (Evaluation!Unit * Evaluation!Cardinality(hits))
                                   \div Evaluation!Cardinality(DOMAIN grades),
                 mrr |-> IF hits = {} THEN 0 ELSE Evaluation!Unit \div Evaluation!Min(hits),
                 ndcg |-> IF best = 0 THEN 0 ELSE (Evaluation!Unit * dcg) \div best]
  BY Zenon DEF Evaluation!Metrics
<1>2. /\ IsFiniteSet(DOMAIN grades) /\ Cardinality(DOMAIN grades) \in Nat
      /\ grades \in [DOMAIN grades -> 1..3]
      /\ grades # <<>> => Cardinality(DOMAIN grades) > 0
  <2>1. IsFiniteSet(DOMAIN grades) /\ grades \in [DOMAIN grades -> 1..3]
    BY SameCounting DEF Evaluation!ValidGrades
  <2>2. ASSUME DOMAIN grades = {}
        PROVE  grades = <<>>
    <3>1. grades \in [{} -> 1..3]
      BY <2>1, <2>2
    <3> QED
      BY <3>1
  <2>3. Cardinality(DOMAIN grades) \in Nat /\ (Cardinality(DOMAIN grades) = 0 => DOMAIN grades = {})
    BY <2>1, FS_CardinalityType, FS_EmptySet
  <2> QED
    BY <2>1, <2>2, <2>3
<1>3. shown \in 0..5 /\ length \in 0..5
  <2> DEFINE size == Evaluation!Cardinality(DOMAIN grades)
  <2>1. size \in Nat
    BY <1>2, SameCounting
  <2> HIDE DEF size
  <2>2. Evaluation!Min({limit, Len(retrieved)}) <= limit /\ Evaluation!Min({limit, Len(retrieved)}) \in Nat
    <3>1. \A x \in {limit, Len(retrieved)} : x \in Nat
      OBVIOUS
    <3> QED
      BY <3>1, LeastExists
  <2>3. Evaluation!Min({limit, size}) <= limit /\ Evaluation!Min({limit, size}) \in Nat
    <3>1. \A x \in {limit, size} : x \in Nat
      BY <2>1
    <3> QED
      BY <3>1, LeastExists
  <2> QED
    BY <2>2, <2>3 DEF size
<1> HIDE DEF shown, length
<1>4. \A i : grade(i) \in 0..3
  BY <1>2
<1>5. dcg \in Nat
  <2> DEFINE given == [i \in 1..shown |-> grade(i)]
             values == [i \in 1..shown |-> Evaluation!Gain(given[i]) * Evaluation!Discount[i]]
  <2>1. given \in [1..shown -> 0..3]
    BY <1>4
  <2>2. values = [i \in 1..shown |-> Evaluation!Gain(grade(i)) * Evaluation!Discount[i]]
    OBVIOUS
  <2>3. Evaluation!SumOf(values) \in Nat
    <3> HIDE DEF given
    <3> QED
      BY <1>3, <2>1, GradedSumIsNumber
  <2> HIDE DEF values
  <2> QED
    BY <2>2, <2>3
<1>6. best \in Nat
  <2> DEFINE ideal == [i \in 1..length |-> Evaluation!Ideal(grades, i)]
             values == [i \in 1..length |-> Evaluation!Gain(ideal[i]) * Evaluation!Discount[i]]
  <2>1. ideal \in [1..length -> 0..3]
    BY GainsAreNumbers
  <2>2. values = [i \in 1..length |->
                    Evaluation!Gain(Evaluation!Ideal(grades, i)) * Evaluation!Discount[i]]
    OBVIOUS
  <2>3. Evaluation!SumOf(values) \in Nat
    <3> HIDE DEF ideal
    <3> QED
      BY <1>3, <2>1, GradedSumIsNumber
  <2> HIDE DEF values
  <2> QED
    BY <2>2, <2>3
<1>7. Cardinality(hits) \in Nat
  <2>1. IsFiniteSet(1..shown) /\ hits \subseteq 1..shown
    BY <1>3, FS_Interval
  <2> HIDE DEF hits
  <2> QED
    BY <2>1, FS_Subset, FS_CardinalityType
<1>8. hits # {} => Evaluation!Min(hits) \in Nat \ {0}
  <2>1. \A i \in hits : i \in Nat \ {0}
    BY <1>3
  <2> HIDE DEF hits
  <2> QED
    BY <2>1, LeastExists
<1> HIDE DEF hits, dcg, best, metrics
<1>9. Evaluation!Cardinality(hits) \in Nat
      /\ (grades # <<>> => Evaluation!Cardinality(DOMAIN grades) \in Nat \ {0})
  BY <1>2, <1>7, SameCounting
<1> DEFINE number == Evaluation!Cardinality(hits)
           size == Evaluation!Cardinality(DOMAIN grades)
           first == Evaluation!Min(hits)
<1>10. \A p \in Nat, q \in Nat \ {0} : p \div q \in Int
  OBVIOUS
<1>11. /\ metrics["precision"] = (6000 * number) \div limit
       /\ metrics["recall"] = IF grades = <<>> THEN 0 ELSE (6000 * number) \div size
       /\ metrics["mrr"] = IF hits = {} THEN 0 ELSE 6000 \div first
       /\ metrics["ndcg"] = IF best = 0 THEN 0 ELSE (6000 * dcg) \div best
  BY <1>1 DEF Evaluation!Unit
<1> HIDE DEF number, size, first
<1>12. 6000 * number \in Nat /\ 6000 * dcg \in Nat /\ limit \in Nat \ {0}
  BY <1>5, <1>9 DEF number
<1>13. metrics["precision"] \in Int /\ metrics["recall"] \in Int
  BY <1>9, <1>10, <1>11, <1>12 DEF size
<1>14. metrics["mrr"] \in Int /\ metrics["ndcg"] \in Int
  BY <1>6, <1>8, <1>10, <1>11, <1>12 DEF first
<1> QED
  BY <1>13, <1>14 DEF Evaluation!Measures, metrics

\* A case of a suite is broken if its answer is not acceptable or violates its scope.
Violates(matches) ==
  \E j \in 1..Len(matches) :
    matches[j].forbidden \/ matches[j].foreign \/ ~matches[j].authorized

LEMMA JudgedCase ==
  ASSUME NEW c, NEW matches, Evaluation!ValidCase(c),
         matches \in Seq(Range(matches))
  PROVE  LET result == Evaluation!Judge(c, matches)
         IN /\ result.empty = c.empty
            /\ ~Evaluation!Acceptable(c, matches) => result.failure
            /\ Evaluation!Acceptable(c, matches) => (result.violation <=> Violates(matches))
            /\ \A m \in Evaluation!Measures : result.quality[m] \in Int
            /\ result.silent \in Int
<1> DEFINE result == Evaluation!Judge(c, matches)
           ids == [i \in 1..Len(matches) |-> matches[i].id]
<1>1. CASE ~Evaluation!Acceptable(c, matches)
  <2>1. result = Evaluation!ProviderFailure(c)
    BY <1>1 DEF Evaluation!Judge
  <2> HIDE DEF result
  <2>2. /\ result.empty = c.empty /\ result.failure /\ result.silent = 0
        /\ \A m \in Evaluation!Measures : result.quality[m] = 0
    BY <2>1 DEF Evaluation!ProviderFailure
  <2> QED
    BY <1>1, <2>2 DEF result
<1>2. CASE Evaluation!Acceptable(c, matches)
  <2>1. result = [empty |-> c.empty, quality |-> Evaluation!Metrics(ids, c.grades, c.limit),
                  silent |-> IF c.empty /\ matches = <<>> THEN Evaluation!Unit ELSE 0,
                  violation |-> Violates(matches), failure |-> FALSE]
    BY <1>2 DEF Evaluation!Judge, Violates
  <2> HIDE DEF result
  <2>2. \A m \in Evaluation!Measures : Evaluation!Metrics(ids, c.grades, c.limit)[m] \in Int
    <3>1. Len(matches) \in Nat
      OBVIOUS
    <3>2. Len(ids) \in Nat
      BY <3>1
    <3>3. Evaluation!ValidGrades(c.grades) /\ c.limit \in 1..5
      BY DEF Evaluation!ValidCase
    <3> HIDE DEF ids
    <3> QED
      BY <3>2, <3>3, MetricsAreNumbers
  <2>3. /\ result.empty = c.empty /\ result.quality = Evaluation!Metrics(ids, c.grades, c.limit)
        /\ result.silent = IF c.empty /\ matches = <<>> THEN Evaluation!Unit ELSE 0
        /\ result.violation = Violates(matches)
    BY <2>1
  <2>4. result.silent \in Int
    BY <2>3 DEF Evaluation!Unit
  <2> HIDE DEF ids
  <2> QED
    BY <1>2, <2>2, <2>3, <2>4 DEF result
<1> QED
  BY <1>1, <1>2

\* If no case fails, the means of the cases that expect results pass the gates, and so does
\* the share of the others that were answered with silence.
LEMMA SummaryPasses ==
  ASSUME NEW n \in Nat, NEW results, DOMAIN results = 1..n, Len(results) = n,
         NEW gates, Evaluation!ValidGates(gates), NEW silence \in 0..Evaluation!Unit,
         \A i \in 1..n : /\ results[i].silent \in Int
                         /\ \A m \in Evaluation!Measures : results[i].quality[m] \in Int,
         \A i \in 1..n : ~Evaluation!Failing(results[i], gates, silence),
         \E i \in 1..n : ~results[i].empty
  PROVE  LET overall == Evaluation!Summary(results)
         IN /\ ~(overall.silent < silence)
            /\ \A m \in Evaluation!Measures : ~(overall.quality[m] < gates[m])
<1> DEFINE asked == {i \in 1..n : ~results[i].empty}
           empty == {i \in 1..n : results[i].empty}
           qualities(m) == [i \in 1..n |-> results[i].quality[m]]
           silences == [i \in 1..n |-> results[i].silent]
           overall == Evaluation!Summary(results)
<1>1. \A m \in Evaluation!Measures : gates[m] \in Int
  <2>1. gates \in [Evaluation!Measures -> 0..Evaluation!Unit]
    BY DEF Evaluation!ValidGates
  <2> QED
    BY <2>1
<1>2. silence \in Int /\ silence <= Evaluation!Unit /\ Evaluation!Unit \in Int
  BY DEF Evaluation!Unit
<1>3. ASSUME NEW m \in Evaluation!Measures
      PROVE  Evaluation!Mean(qualities(m), asked) \in Int /\ Evaluation!Mean(qualities(m), asked) >= gates[m]
  <2>1. qualities(m) \in [1..n -> Int] /\ asked # {} /\ \A i \in asked : i \in 1..n
    OBVIOUS
  <2>2. \A i \in asked : qualities(m)[i] >= gates[m]
    BY <1>1 DEF Evaluation!Failing
  <2>3. gates[m] \in Int
    BY <1>1
  <2> HIDE DEF qualities, asked
  <2> QED
    BY <2>1, <2>2, <2>3, MeanIsBounded
<1>4. empty # {} => Evaluation!Mean(silences, empty) \in Int /\ Evaluation!Mean(silences, empty) >= silence
  <2>1. silences \in [1..n -> Int] /\ \A i \in empty : i \in 1..n
    OBVIOUS
  <2>2. \A i \in empty : silences[i] >= silence
    BY <1>2 DEF Evaluation!Failing
  <2> HIDE DEF silences, empty
  <2> QED
    BY <1>2, <2>1, <2>2, MeanIsBounded
<1>5. overall.silent = IF empty = {} THEN Evaluation!Unit ELSE Evaluation!Mean(silences, empty)
  <2>1. empty = {i \in 1..Len(results) : results[i].empty}
        /\ silences = [i \in 1..Len(results) |-> results[i].silent]
    OBVIOUS
  <2> HIDE DEF empty, silences
  <2> QED
    BY <2>1, Zenon DEF Evaluation!Summary, Evaluation!Silence
<1>6. ASSUME NEW m \in Evaluation!Measures
      PROVE  overall.quality[m] = Evaluation!Mean(qualities(m), asked)
  <2>1. asked = {i \in 1..Len(results) : ~results[i].empty}
        /\ qualities(m) = [i \in 1..Len(results) |-> results[i].quality[m]]
    OBVIOUS
  <2> HIDE DEF asked, qualities
  <2> QED
    BY <2>1 DEF Evaluation!Summary, Evaluation!Qualities
<1> HIDE DEF overall, asked, empty, qualities, silences
<1>7. ~(overall.silent < silence)
  BY <1>2, <1>4, <1>5
<1>8. \A m \in Evaluation!Measures : ~(overall.quality[m] < gates[m])
  BY <1>1, <1>3, <1>6
<1> QED
  BY <1>7, <1>8 DEF overall

LEMMA ReportNamesFailures ==
  ASSUME NEW s,
         s.cases \in Seq(Range(s.cases)),
         Evaluation!ValidGates(s.gates), s.silence \in 0..Evaluation!Unit,
         \A i \in 1..Len(s.cases) : /\ Evaluation!ValidCase(s.cases[i])
                                    /\ s.answers[i] \in Seq(Range(s.answers[i]))
  PROVE  LET report == Evaluation!Report(s.cases, s.answers, s.gates, s.silence)
             broken == {i \in 1..Len(s.cases) :
                          ~Evaluation!Acceptable(s.cases[i], s.answers[i]) \/ Violates(s.answers[i])}
         IN /\ broken \subseteq report.failing
            /\ report.disposition = "passed" => broken = {}
            /\ report.disposition # "passed" /\ (\E i \in 1..Len(s.cases) : ~s.cases[i].empty)
                 => report.failing # {}
<1> DEFINE n == Len(s.cases)
           results == [i \in 1..Len(s.cases) |-> Evaluation!Judge(s.cases[i], s.answers[i])]
           report == Evaluation!Report(s.cases, s.answers, s.gates, s.silence)
           broken(i) == ~Evaluation!Acceptable(s.cases[i], s.answers[i]) \/ Violates(s.answers[i])
           fails(i) == Evaluation!Failing(results[i], s.gates, s.silence)
<1>1. n \in Nat /\ DOMAIN results = 1..n /\ Len(results) = n
  OBVIOUS
<1>2. ASSUME NEW i \in 1..n
      PROVE  /\ results[i].empty = s.cases[i].empty
             /\ broken(i) => results[i].failure \/ results[i].violation
             /\ results[i].violation => fails(i)
             /\ results[i].failure => fails(i)
             /\ results[i].silent \in Int
             /\ \A m \in Evaluation!Measures : results[i].quality[m] \in Int
  <2>1. results[i] = Evaluation!Judge(s.cases[i], s.answers[i])
    OBVIOUS
  <2> HIDE DEF results
  <2>2. Evaluation!ValidCase(s.cases[i]) /\ s.answers[i] \in Seq(Range(s.answers[i]))
    OBVIOUS
  <2>3. /\ results[i].empty = s.cases[i].empty
        /\ broken(i) => results[i].failure \/ results[i].violation
        /\ results[i].silent \in Int
        /\ \A m \in Evaluation!Measures : results[i].quality[m] \in Int
    BY <2>1, <2>2, JudgedCase
  <2>4. results[i].violation \/ results[i].failure => fails(i)
    BY DEF Evaluation!Failing
  <2> QED
    BY <2>3, <2>4
<1>3. /\ report.disposition = Evaluation!Verdict(results, s.gates, s.silence)
      /\ report.failing = {i \in 1..n : fails(i)}
  BY DEF Evaluation!Report
<1> HIDE DEF results, report, fails
<1>4. report.disposition = "passed" => \A i \in 1..n : ~results[i].violation /\ ~results[i].failure
  BY <1>1, <1>3 DEF Evaluation!Verdict
<1>5. ASSUME report.failing = {}, \E i \in 1..n : ~s.cases[i].empty
      PROVE  report.disposition = "passed"
  <2>1. \A i \in 1..n : ~Evaluation!Failing(results[i], s.gates, s.silence)
    BY <1>3, <1>5 DEF fails
  <2>2. \A i \in 1..n : ~results[i].violation /\ ~results[i].failure
    BY <1>2, <2>1 DEF fails
  <2>3. \E i \in 1..n : ~results[i].empty
    BY <1>2, <1>5
  <2> DEFINE overall == Evaluation!Summary(results)
  <2>4. /\ ~(overall.silent < s.silence)
        /\ \A m \in Evaluation!Measures : ~(overall.quality[m] < s.gates[m])
    <3>1. \A i \in 1..n : /\ results[i].silent \in Int
                          /\ \A m \in Evaluation!Measures : results[i].quality[m] \in Int
      BY <1>2
    <3> HIDE DEF n
    <3> QED
      BY <1>1, <2>1, <2>3, <3>1, SummaryPasses
  <2> HIDE DEF overall
  <2> QED
    BY <1>1, <1>3, <2>2, <2>4 DEF Evaluation!Verdict, overall
<1>6. {i \in 1..n : broken(i)} \subseteq report.failing
  <2> HIDE DEF broken, n
  <2> QED
    BY <1>2, <1>3
<1>7. report.disposition = "passed" => {i \in 1..n : broken(i)} = {}
  <2> HIDE DEF broken, n
  <2> QED
    BY <1>2, <1>4
<1> QED
  BY <1>5, <1>6, <1>7 DEF report

\* A report that does not pass names a case that fails, unless none expects a result; every
\* case that is broken is named, and a report passes only if none is: for suites of any
\* length, any answers and any gates.
THEOREM FailingCasesAreNamed == Spec => []FailuresAreNamed
<1>1. Recorded => FailuresAreNamed
  <2> SUFFICES ASSUME Recorded, case.of = "evaluate"
               PROVE  FailuresAreNamed
    BY DEF FailuresAreNamed
  <2> DEFINE s == case.in
  <2>1. /\ s \in Suites
        /\ case.out = Evaluation!Report(s.cases, s.answers, s.gates, s.silence)
    BY DEF Recorded
  <2>2. /\ s.cases \in Seq(Range(s.cases))
        /\ Evaluation!ValidGates(s.gates) /\ s.silence \in 0..Evaluation!Unit
        /\ \A i \in 1..Len(s.cases) : /\ Evaluation!ValidCase(s.cases[i])
                                      /\ s.answers[i] \in Seq(Range(s.answers[i]))
    BY <2>1, ArgumentAssumption
  <2> DEFINE broken == {i \in 1..Len(s.cases) :
                          ~Evaluation!Acceptable(s.cases[i], s.answers[i]) \/ Violates(s.answers[i])}
             report == Evaluation!Report(s.cases, s.answers, s.gates, s.silence)
  <2> HIDE DEF s
  <2>3. /\ broken \subseteq report.failing
        /\ report.disposition = "passed" => broken = {}
        /\ report.disposition # "passed" /\ (\E i \in 1..Len(s.cases) : ~s.cases[i].empty)
             => report.failing # {}
    BY <2>2, ReportNamesFailures
  <2> HIDE DEF report
  <2>4. broken = {i \in 1..Len(s.cases) :
                    \/ ~Evaluation!Acceptable(s.cases[i], s.answers[i])
                    \/ \E j \in 1..Len(s.answers[i]) :
                         LET match == s.answers[i][j]
                         IN match.forbidden \/ match.foreign \/ ~match.authorized}
    BY DEF Violates
  <2>5. case.out = report
    BY <2>1 DEF report
  <2> HIDE DEF broken
  <2> QED
    BY <2>3, <2>4, <2>5 DEF FailuresAreNamed, s
<1> QED
  BY <1>1, CallsAreRecorded, PTL

-----------------------------------------------------------------------------
(* The choice of a threshold *)

IsStrictOrder(R, E) ==
  /\ \A x \in E : <<x, x>> \notin R
  /\ \A x, y, z \in E : <<x, y>> \in R /\ <<y, z>> \in R => <<x, z>> \in R

\* A set of numbers below a bound has an element that none of it exceeds.
LEMMA MaximalExists ==
  ASSUME NEW n \in Nat, NEW E \in SUBSET (0..n), E # {},
         NEW R, IsStrictOrder(R, E)
  PROVE  \E x \in E : \A y \in E : <<x, y>> \notin R
<1> /\ \A x \in E : <<x, x>> \notin R
    /\ \A x, y, z \in E : <<x, y>> \in R /\ <<y, z>> \in R => <<x, z>> \in R
  BY DEF IsStrictOrder
<1> DEFINE UpTo(m) == \/ \A y \in E : y > m
                      \/ \E x \in E : \A y \in E : y <= m => <<x, y>> \notin R
           S == {m \in Nat : UpTo(m)}
<1>0. \A x \in E : x \in 0..n
  OBVIOUS
<1>1. 0 \in S
  <2>1. CASE 0 \in E
    <3>1. \A y \in E : y <= 0 => <<0, y>> \notin R
      BY <1>0
    <3> QED
      BY <1>0, <2>1, <3>1
  <2>2. CASE 0 \notin E
    BY <1>0, <2>2
  <2> QED
    BY <1>0, <2>1, <2>2
<1>2. \A m \in Nat : m \in S => m + 1 \in S
  <2> HIDE DEF UpTo
  <2> SUFFICES ASSUME NEW m \in Nat, UpTo(m)
               PROVE  UpTo(m + 1)
    BY <1>0
  <2> USE DEF UpTo
  <2>0. \A y \in E : y <= m + 1 => y <= m \/ y = m + 1
    BY <1>0
  <2>1. CASE \A y \in E : y > m
    <3>1. CASE m + 1 \in E
      <4>1. \A y \in E : y <= m + 1 => y = m + 1
        BY <1>0, <2>1
      <4> QED
        BY <3>1, <4>1
    <3>2. CASE m + 1 \notin E
      BY <1>0, <2>1, <3>2
    <3> QED
      BY <3>1, <3>2
  <2>2. CASE \E x \in E : \A y \in E : y <= m => <<x, y>> \notin R
    <3>1. PICK x \in E : \A y \in E : y <= m => <<x, y>> \notin R
      BY <1>0, <2>2
    <3>2. CASE m + 1 \in E /\ <<x, m + 1>> \in R
      <4>1. \A y \in E : y <= m => <<m + 1, y>> \notin R
        BY <3>1, <3>2
      <4> QED
        BY <1>0, <2>0, <3>2, <4>1
    <3>3. CASE ~(m + 1 \in E /\ <<x, m + 1>> \in R)
      <4> SUFFICES ASSUME NEW y \in E, y <= m + 1
                   PROVE  <<x, y>> \notin R
        BY <3>1
      <4>1. CASE y <= m
        BY <3>1, <4>1
      <4>2. CASE y = m + 1
        BY <3>3, <4>2
      <4> QED
        BY <2>0, <4>1, <4>2
    <3> QED
      BY <3>2, <3>3
  <2> QED
    BY <1>0, <2>1, <2>2
<1>3. n \in S
  <2> HIDE DEF S
  <2> QED
    BY <1>1, <1>2, Induction
<1>4. \A y \in E : y <= n /\ ~(y > n)
  BY <1>0
<1>5. PICK x \in E : \A y \in E : y <= n => <<x, y>> \notin R
  BY <1>3, <1>4
<1> QED
  BY <1>4, <1>5

\* Keys are compared like words.
LEMMA LessIsOrder ==
  /\ \A a \in [1..5 -> Int] : ~Evaluation!Less(a, a)
  /\ \A a, b, c \in [1..5 -> Int] :
       Evaluation!Less(a, b) /\ Evaluation!Less(b, c) => Evaluation!Less(a, c)
  /\ \A a, b \in [1..5 -> Int] : a # b => Evaluation!Less(a, b) \/ Evaluation!Less(b, a)
<1> DEFINE First(a, b) ==
             \/ a[1] < b[1]
             \/ a[1] = b[1] /\ a[2] < b[2]
             \/ a[1] = b[1] /\ a[2] = b[2] /\ a[3] < b[3]
             \/ a[1] = b[1] /\ a[2] = b[2] /\ a[3] = b[3] /\ a[4] < b[4]
             \/ a[1] = b[1] /\ a[2] = b[2] /\ a[3] = b[3] /\ a[4] = b[4] /\ a[5] < b[5]
<1>1. \A a, b : Evaluation!Less(a, b) <=> First(a, b)
  <2> SUFFICES ASSUME NEW a, NEW b
               PROVE  Evaluation!Less(a, b) <=> First(a, b)
    OBVIOUS
  <2>1. First(a, b) => Evaluation!Less(a, b)
    BY DEF Evaluation!Less
  <2>2. Evaluation!Less(a, b) => First(a, b)
    <3> SUFFICES ASSUME NEW i \in 1..5, a[i] < b[i], \A j \in 1..(i - 1) : a[j] = b[j]
                 PROVE  First(a, b)
      BY DEF Evaluation!Less
    <3>1. i \in {1, 2, 3, 4, 5}
      OBVIOUS
    <3> QED
      BY <3>1
  <2> QED
    BY <2>1, <2>2
<1>2. \A a \in [1..5 -> Int] : ~First(a, a)
  OBVIOUS
<1>3. \A a, b, c \in [1..5 -> Int] : First(a, b) /\ First(b, c) => First(a, c)
  OBVIOUS
<1>4. \A a, b \in [1..5 -> Int] : a # b => First(a, b) \/ First(b, a)
  <2> SUFFICES ASSUME NEW a \in [1..5 -> Int], NEW b \in [1..5 -> Int], ~First(a, b), ~First(b, a)
               PROVE  a = b
    OBVIOUS
  <2>1. a[1] = b[1] /\ a[2] = b[2] /\ a[3] = b[3] /\ a[4] = b[4] /\ a[5] = b[5]
    OBVIOUS
  <2>2. \A i \in 1..5 : a[i] = b[i]
    <3>1. \A i \in 1..5 : i \in {1, 2, 3, 4, 5}
      OBVIOUS
    <3> QED
      BY <2>1, <3>1
  <2> QED
    BY <2>2
<1> QED
  BY <1>1, <1>2, <1>3, <1>4

\* A threshold that retains the same results has the same outcome.
LEMMA SameOutcome ==
  ASSUME NEW observations, NEW t, NEW u,
         \A i \in 1..Len(observations) : \A r \in 1..Len(observations[i].results) :
           observations[i].results[r].score >= t <=> observations[i].results[r].score >= u
  PROVE  Evaluation!Outcome(observations, t) = Evaluation!Outcome(observations, u)
<1> DEFINE kept(i, v) == Evaluation!Retained(observations[i], v)
           ids(i, v) == [r \in 1..Len(kept(i, v)) |-> kept(i, v)[r].id]
           asked == {i \in 1..Len(observations) : ~observations[i].empty}
           measured(v) == [i \in 1..Len(observations) |->
                             Evaluation!Metrics(ids(i, v), observations[i].grades, observations[i].limit)]
           qualities(m, v) == [i \in 1..Len(observations) |-> measured(v)[i][m]]
           outcome(v) ==
             [violation |-> \E i \in 1..Len(observations) : \E r \in 1..Len(kept(i, v)) : kept(i, v)[r].violation,
              silent |-> \A i \in 1..Len(observations) : observations[i].empty => kept(i, v) = <<>>,
              quality |-> [m \in Evaluation!Measures |-> Evaluation!Mean(qualities(m, v), asked)]]
<1>1. \A i \in 1..Len(observations) : kept(i, t) = kept(i, u)
  <2> SUFFICES ASSUME NEW i \in 1..Len(observations)
               PROVE  kept(i, t) = kept(i, u)
    OBVIOUS
  <2> DEFINE positions(v) == {r \in 1..Len(observations[i].results) : observations[i].results[r].score >= v}
             retained(set) == [k \in 1..Evaluation!Cardinality(set) |->
                                 observations[i].results[Evaluation!Ascending(set)[k]]]
  <2>1. positions(t) = positions(u)
    OBVIOUS
  <2>2. kept(i, t) = retained(positions(t)) /\ kept(i, u) = retained(positions(u))
    BY DEF Evaluation!Retained
  <2> QED
    BY <2>1, <2>2
<1>2. Evaluation!Outcome(observations, t) = outcome(t) /\ Evaluation!Outcome(observations, u) = outcome(u)
  BY DEF Evaluation!Outcome
<1> HIDE DEF kept
<1>3. \A i \in 1..Len(observations) : ids(i, t) = ids(i, u)
  BY <1>1
<1> HIDE DEF ids
<1>4. measured(t) = measured(u)
  BY <1>3
<1> HIDE DEF measured
<1>5. \A m : qualities(m, t) = qualities(m, u)
  BY <1>4
<1> HIDE DEF qualities
<1>6. outcome(t).quality = outcome(u).quality
  BY <1>5
<1>7. outcome(t).violation = outcome(u).violation /\ outcome(t).silent = outcome(u).silent
  BY <1>1
<1>8. outcome(t) = outcome(u)
  BY <1>6, <1>7
<1> HIDE DEF outcome
<1> QED
  BY <1>2, <1>8

LEMMA KeyIsNumbers ==
  ASSUME NEW observations, observations \in Seq(Range(observations)),
         \A i \in 1..Len(observations) : Evaluation!ValidObservation(observations[i], Top),
         NEW t \in Int
  PROVE  /\ Evaluation!Key(observations, t) \in [1..5 -> Int]
         /\ \A m \in Evaluation!Measures : Evaluation!Outcome(observations, t).quality[m] \in Int
<1> DEFINE n == Len(observations)
           kept(i) == Evaluation!Retained(observations[i], t)
           ids(i) == [r \in 1..Len(kept(i)) |-> kept(i)[r].id]
           asked == {i \in 1..Len(observations) : ~observations[i].empty}
           measured == [i \in 1..Len(observations) |->
                          Evaluation!Metrics(ids(i), observations[i].grades, observations[i].limit)]
           qualities(m) == [i \in 1..Len(observations) |-> measured[i][m]]
           quality == [m \in Evaluation!Measures |-> Evaluation!Mean(qualities(m), asked)]
<1>1. n \in Nat
  OBVIOUS
<1>2. Evaluation!Outcome(observations, t).quality = quality
  BY DEF Evaluation!Outcome
<1>3. ASSUME NEW i \in 1..n
      PROVE  \A m \in Evaluation!Measures : measured[i][m] \in Int
  <2>1. /\ Evaluation!ValidGrades(observations[i].grades) /\ observations[i].limit \in 1..5
        /\ observations[i].results \in Seq(Range(observations[i].results))
    BY SameRange DEF Evaluation!ValidObservation
  <2>2. Len(kept(i)) \in Nat
    <3> DEFINE size == Len(observations[i].results)
               positions == {r \in 1..size : observations[i].results[r].score >= t}
    <3>1. size \in Nat
      BY <2>1
    <3>2. positions \subseteq 1..size
      OBVIOUS
    <3>3. kept(i) = [k \in 1..Evaluation!Cardinality(positions) |->
                       observations[i].results[Evaluation!Ascending(positions)[k]]]
      BY DEF Evaluation!Retained
    <3> HIDE DEF size, positions, kept
    <3>4. IsFiniteSet(1..size)
      BY <3>1, FS_Interval
    <3>5. IsFiniteSet(positions)
      BY <3>2, <3>4, FS_Subset
    <3>6. Evaluation!Cardinality(positions) \in Nat
      BY <3>5, FS_CardinalityType, SameCounting
    <3> QED
      BY <3>3, <3>6
  <2> HIDE DEF kept
  <2>3. Len(ids(i)) \in Nat
    BY <2>2
  <2> HIDE DEF ids
  <2>4. \A m \in Evaluation!Measures :
          Evaluation!Metrics(ids(i), observations[i].grades, observations[i].limit)[m] \in Int
    BY <2>1, <2>3, MetricsAreNumbers
  <2> QED
    BY <2>4
<1> HIDE DEF measured
<1>4. ASSUME NEW m \in Evaluation!Measures
      PROVE  quality[m] \in Int
  <2>1. qualities(m) \in [1..n -> Int] /\ \A i \in asked : i \in 1..n
    BY <1>3
  <2> HIDE DEF qualities, asked
  <2>2. Evaluation!Mean(qualities(m), asked) \in Int
    BY <1>1, <2>1, MeanIsBounded
  <2> QED
    BY <2>2
<1> HIDE DEF quality
<1>5. Evaluation!Key(observations, t)
        = <<quality["precision"], quality["recall"], quality["mrr"], quality["ndcg"], t>>
  BY <1>2 DEF Evaluation!Key
<1>6. /\ quality["precision"] \in Int /\ quality["recall"] \in Int
      /\ quality["mrr"] \in Int /\ quality["ndcg"] \in Int
  BY <1>4 DEF Evaluation!Measures
<1> QED
  BY <1>2, <1>4, <1>5, <1>6

\* Between a threshold and the next candidate lies no score.
LEMMA NextCandidate ==
  ASSUME NEW observations, Top \in Nat,
         \A i \in 1..Len(observations) : \A r \in 1..Len(observations[i].results) :
           observations[i].results[r].score \in 0..Top,
         NEW t \in 0..Top
  PROVE  /\ \A u \in Evaluation!Candidates(observations, Top) : u \in 0..Top
         /\ \E u \in Evaluation!Candidates(observations, Top) :
              /\ t <= u
              /\ \A i \in 1..Len(observations) : \A r \in 1..Len(observations[i].results) :
                   observations[i].results[r].score >= t <=> observations[i].results[r].score >= u
<1> DEFINE scores == UNION {{c.results[r].score : r \in 1..Len(c.results)} :
                              c \in {observations[i] : i \in 1..Len(observations)}}
           candidates == Evaluation!Candidates(observations, Top)
           higher == {u \in candidates : t <= u}
<1>1. candidates = {0, Top} \cup scores \cup {s + 1 : s \in scores \ {Top}}
  BY DEF Evaluation!Candidates
<1>2. \A s \in scores : s \in 0..Top
  OBVIOUS
<1>3. ASSUME NEW i \in 1..Len(observations), NEW r \in 1..Len(observations[i].results)
      PROVE  observations[i].results[r].score \in scores
  <2> DEFINE all == {observations[j] : j \in 1..Len(observations)}
             of(c) == {c.results[q].score : q \in 1..Len(c.results)}
  <2>1. observations[i] \in all
    OBVIOUS
  <2>2. observations[i].results[r].score \in of(observations[i])
    OBVIOUS
  <2>3. scores = UNION {of(c) : c \in all}
    OBVIOUS
  <2> HIDE DEF all, of, scores
  <2> QED
    BY <2>1, <2>2, <2>3
<1> HIDE DEF scores, candidates
<1>4. \A u \in candidates : u \in 0..Top
  BY <1>1, <1>2
<1>5. Top \in higher /\ \A u \in higher : u \in Nat
  BY <1>1, <1>4
<1>6. PICK u \in higher : \A v \in higher : u <= v
  <2> HIDE DEF higher
  <2> QED
    BY <1>5, LeastExists
<1>7. \A s \in scores : s >= t <=> s >= u
  <2>1. \A s \in scores : s \in candidates /\ s \in Nat
    BY <1>1, <1>2
  <2>2. u \in Nat /\ t <= u
    BY <1>5
  <2> QED
    BY <1>6, <2>1, <2>2
<1>8. /\ u \in candidates /\ t <= u
      /\ \A i \in 1..Len(observations) : \A r \in 1..Len(observations[i].results) :
           observations[i].results[r].score >= t <=> observations[i].results[r].score >= u
  BY <1>3, <1>7
<1> QED
  BY <1>4, <1>8 DEF candidates

\* The threshold selected is the best of all, among those that are allowed.
LEMMA SelectedIsBest ==
  ASSUME NEW observations, NEW gates, NEW silence, Top \in Nat,
         observations \in Seq(Range(observations)),
         \A i \in 1..Len(observations) : Evaluation!ValidObservation(observations[i], Top)
  PROVE  LET out == Evaluation!SelectThreshold(observations, gates, silence, Top)
             allowed == {t \in 0..Top : Evaluation!Eligible(observations, t, gates)}
         IN /\ ~(silence <= 0) /\ (\A m \in Evaluation!Measures : ~(gates[m] <= 0)) =>
                 (out = Evaluation!NoThreshold <=> allowed = {})
            /\ out # Evaluation!NoThreshold =>
                 /\ out \in allowed
                 /\ \A t \in allowed \ {out} :
                      Evaluation!Less(Evaluation!Key(observations, t), Evaluation!Key(observations, out))
<1> DEFINE out == Evaluation!SelectThreshold(observations, gates, silence, Top)
           allowed == {t \in 0..Top : Evaluation!Eligible(observations, t, gates)}
           candidates == Evaluation!Candidates(observations, Top)
           eligible == {t \in candidates : Evaluation!Eligible(observations, t, gates)}
           key(t) == Evaluation!Key(observations, t)
           ungated == silence <= 0 \/ \E m \in Evaluation!Measures : gates[m] <= 0
           best(t) == \A u \in eligible : ~Evaluation!Less(key(t), key(u))
<1>1. out = IF ungated \/ eligible = {} THEN Evaluation!NoThreshold
            ELSE CHOOSE t \in eligible : best(t)
  BY DEF Evaluation!SelectThreshold
<1>2. \A i \in 1..Len(observations) : \A r \in 1..Len(observations[i].results) :
        observations[i].results[r].score \in 0..Top
  BY DEF Evaluation!ValidObservation
<1>3. /\ \A u \in candidates : u \in 0..Top
      /\ \A t \in 0..Top : \E u \in candidates :
           /\ t <= u
           /\ \A i \in 1..Len(observations) : \A r \in 1..Len(observations[i].results) :
                observations[i].results[r].score >= t <=> observations[i].results[r].score >= u
  <2>1. 0 \in 0..Top
    OBVIOUS
  <2> QED
    BY <1>2, <2>1, NextCandidate
<1>4. \A t \in 0..Top : key(t) \in [1..5 -> Int]
  BY KeyIsNumbers
<1>5. \A t : key(t)[5] = t
  BY DEF Evaluation!Key
\* Every threshold has a candidate that is no worse.
<1>6. ASSUME NEW t \in allowed
      PROVE  \E u \in eligible : u = t \/ Evaluation!Less(key(t), key(u))
  <2>1. PICK u \in candidates :
          /\ t <= u
          /\ \A i \in 1..Len(observations) : \A r \in 1..Len(observations[i].results) :
               observations[i].results[r].score >= t <=> observations[i].results[r].score >= u
    BY <1>3
  <2>2. Evaluation!Outcome(observations, t) = Evaluation!Outcome(observations, u)
    BY <2>1, SameOutcome
  <2>3. u \in eligible
    BY <2>2 DEF Evaluation!Eligible
  <2>4. t < u => Evaluation!Less(key(t), key(u))
    <3>1. \A j \in 1..4 : key(t)[j] = key(u)[j]
      <4>1. \A j \in 1..4 : j \in {1, 2, 3, 4}
        OBVIOUS
      <4> QED
        BY <2>2, <4>1 DEF Evaluation!Key
    <3> HIDE DEF key
    <3> QED
      BY <1>5, <3>1 DEF Evaluation!Less
  <2>5. u \in 0..Top
    BY <1>3
  <2> QED
    BY <2>1, <2>3, <2>4, <2>5
<1> HIDE DEF out, candidates, key
<1>7. eligible # {} => \E t \in eligible : best(t)
  <2> DEFINE R == {p \in (0..Top) \X (0..Top) : Evaluation!Less(key(p[1]), key(p[2]))}
  <2>1. \A x \in eligible : x \in 0..Top
    BY <1>3
  <2>2. \A x, y \in eligible : <<x, y>> \in R <=> Evaluation!Less(key(x), key(y))
    BY <2>1
  <2> HIDE DEF R, eligible
  <2>3. \A x \in eligible : <<x, x>> \notin R
    BY <1>4, <2>1, <2>2, LessIsOrder
  <2>4. \A x, y, z \in eligible : <<x, y>> \in R /\ <<y, z>> \in R => <<x, z>> \in R
    BY <1>4, <2>1, <2>2, LessIsOrder
  <2>5. ASSUME eligible # {}
        PROVE  \E x \in eligible : \A y \in eligible : <<x, y>> \notin R
    <3>1. eligible \in SUBSET (0..Top)
      BY <2>1
    <3>2. IsStrictOrder(R, eligible)
      BY <2>3, <2>4 DEF IsStrictOrder
    <3> QED
      BY <2>5, <3>1, <3>2, MaximalExists
  <2> QED
    BY <2>2, <2>5
<1>8. \A t \in eligible : t \in allowed
  BY <1>3
<1>9. Evaluation!NoThreshold \notin eligible
  BY <1>3 DEF Evaluation!NoThreshold
<1> HIDE DEF allowed, eligible, ungated
<1>10. ~ungated => (out = Evaluation!NoThreshold <=> allowed = {})
  <2>1. eligible = {} <=> allowed = {}
    BY <1>6, <1>8
  <2> HIDE DEF best
  <2> QED
    BY <1>1, <1>7, <1>9, <2>1
<1>11. ASSUME out # Evaluation!NoThreshold
       PROVE  /\ out \in allowed
              /\ \A t \in allowed \ {out} : Evaluation!Less(key(t), key(out))
  <2>1. out \in eligible /\ best(out)
    <3> HIDE DEF best
    <3> QED
      BY <1>1, <1>7, <1>11
  <2>2. \A t \in allowed : t \in 0..Top
    BY DEF allowed
  <2>3. ASSUME NEW t \in allowed, t # out
        PROVE  Evaluation!Less(key(t), key(out))
    <3>1. PICK u \in eligible : u = t \/ Evaluation!Less(key(t), key(u))
      BY <1>6
    <3>2. u # out => Evaluation!Less(key(u), key(out))
      <4>1. key(u) \in [1..5 -> Int] /\ key(out) \in [1..5 -> Int]
        BY <1>4, <1>8, <2>1, <2>2
      <4>2. u # out => key(u) # key(out)
        BY <1>5
      <4> QED
        BY <2>1, <4>1, <4>2, LessIsOrder
    <3>3. key(t) \in [1..5 -> Int] /\ key(u) \in [1..5 -> Int] /\ key(out) \in [1..5 -> Int]
      BY <1>4, <1>8, <2>1, <2>2
    <3> QED
      BY <2>3, <3>1, <3>2, <3>3, LessIsOrder
  <2> QED
    BY <1>8, <2>1, <2>3
<1> QED
  BY <1>10, <1>11 DEF out, allowed, key, ungated

\* The threshold chosen among the candidates is the best of all thresholds, and there is
\* one if any passes: for any observations, scores and gates.
THEOREM BestThreshold == Spec => []ThresholdIsBest
<1>1. Recorded => ThresholdIsBest
  <2> SUFFICES ASSUME Recorded, case.of = "calibrate"
               PROVE  ThresholdIsBest
    BY DEF ThresholdIsBest
  <2> DEFINE observations == case.in.observations
             gates == case.in.gates
             silence == case.in.silence
             out == Evaluation!SelectThreshold(observations, gates, silence, Top)
             allowed == {t \in 0..Top : Evaluation!Eligible(observations, t, gates)}
  <2>1. case.in \in Calibrations /\ case.out = out
    BY DEF Recorded
  <2>2. /\ observations \in Seq(Range(observations)) /\ Evaluation!ValidGates(gates)
        /\ silence \in 0..Evaluation!Unit
        /\ \A i \in 1..Len(observations) : Evaluation!ValidObservation(observations[i], Top)
        /\ Top \in Nat
    BY <2>1, ArgumentAssumption
  <2> HIDE DEF observations, gates, silence
  <2>3. /\ ~(silence <= 0) /\ (\A m \in Evaluation!Measures : ~(gates[m] <= 0)) =>
             (out = Evaluation!NoThreshold <=> allowed = {})
        /\ out # Evaluation!NoThreshold =>
             /\ out \in allowed
             /\ \A t \in allowed \ {out} :
                  Evaluation!Less(Evaluation!Key(observations, t), Evaluation!Key(observations, out))
    BY <2>2, SelectedIsBest
  <2>4. \A m \in Evaluation!Measures : gates[m] > 0 => ~(gates[m] <= 0)
    <3>1. gates \in [Evaluation!Measures -> 0..Evaluation!Unit]
      BY <2>2 DEF Evaluation!ValidGates
    <3> QED
      BY <3>1
  <2>5. silence > 0 => ~(silence <= 0)
    BY <2>2 DEF Evaluation!Unit
  <2> HIDE DEF out
  <2> QED
    BY <2>1, <2>3, <2>4, <2>5 DEF ThresholdIsBest, observations, gates, silence
<1> QED
  BY <1>1, CallsAreRecorded, PTL

-----------------------------------------------------------------------------
(* The fusion of rankings *)

IsFraction(f) == f \in Nat \X (Nat \ {0})

\* Products with a positive number keep the order.
LEMMA ProductsKeepOrder ==
  ASSUME NEW x \in Int, NEW y \in Int, NEW z \in Nat \ {0}
  PROVE  /\ x > y <=> x * z > y * z
         /\ x = y <=> x * z = y * z
<1>1. x > y => x * z > y * z
  OBVIOUS
<1>2. y > x => y * z > x * z
  OBVIOUS
<1>3. x = y => x * z = y * z
  OBVIOUS
<1>4. x > y \/ x = y \/ y > x
  OBVIOUS
<1>5. x * z \in Int /\ y * z \in Int
  OBVIOUS
<1> QED
  BY <1>1, <1>2, <1>3, <1>4, <1>5

\* Fractions are totally ordered.
LEMMA FractionsAreOrdered ==
  ASSUME NEW f, NEW g, NEW h, IsFraction(f), IsFraction(g), IsFraction(h)
  PROVE  /\ Fusion!Greater(f, g) \/ Fusion!Equal(f, g) \/ Fusion!Greater(g, f)
         /\ ~(Fusion!Greater(f, g) /\ Fusion!Equal(f, g))
         /\ ~(Fusion!Greater(f, g) /\ Fusion!Greater(g, f))
         /\ Fusion!Equal(f, f)
         /\ Fusion!Equal(f, g) => Fusion!Equal(g, f)
         /\ Fusion!Greater(f, g) /\ Fusion!Greater(g, h) => Fusion!Greater(f, h)
         /\ Fusion!Greater(f, g) /\ Fusion!Equal(g, h) => Fusion!Greater(f, h)
         /\ Fusion!Equal(f, g) /\ Fusion!Greater(g, h) => Fusion!Greater(f, h)
         /\ Fusion!Equal(f, g) /\ Fusion!Equal(g, h) => Fusion!Equal(f, h)
<1> DEFINE a == f[1]
           b == f[2]
           c == g[1]
           d == g[2]
           p == h[1]
           q == h[2]
<1>1. /\ a \in Nat /\ c \in Nat /\ p \in Nat
      /\ b \in Nat \ {0} /\ d \in Nat \ {0} /\ q \in Nat \ {0}
  BY DEF IsFraction
<1> SUFFICES /\ a * d > c * b \/ a * d = c * b \/ c * b > a * d
             /\ ~(a * d > c * b /\ a * d = c * b)
             /\ ~(a * d > c * b /\ c * b > a * d)
             /\ a * b = a * b
             /\ a * d = c * b => c * b = a * d
             /\ a * d > c * b /\ c * q > p * d => a * q > p * b
             /\ a * d > c * b /\ c * q = p * d => a * q > p * b
             /\ a * d = c * b /\ c * q > p * d => a * q > p * b
             /\ a * d = c * b /\ c * q = p * d => a * q = p * b
  BY DEF Fusion!Greater, Fusion!Equal
<1> HIDE DEF a, b, c, d, p, q
<1>2. /\ a * d \in Int /\ c * b \in Int /\ c * q \in Int /\ p * d \in Int
      /\ a * q \in Int /\ p * b \in Int
  BY <1>1
<1>3. /\ a * d > c * b <=> (a * d) * q > (c * b) * q
      /\ a * d = c * b <=> (a * d) * q = (c * b) * q
      /\ c * q > p * d <=> (c * q) * b > (p * d) * b
      /\ c * q = p * d <=> (c * q) * b = (p * d) * b
      /\ a * q > p * b <=> (a * q) * d > (p * b) * d
      /\ a * q = p * b <=> (a * q) * d = (p * b) * d
  <2>1. /\ a * d > c * b <=> (a * d) * q > (c * b) * q
        /\ a * d = c * b <=> (a * d) * q = (c * b) * q
    BY <1>1, <1>2, ProductsKeepOrder
  <2>2. /\ c * q > p * d <=> (c * q) * b > (p * d) * b
        /\ c * q = p * d <=> (c * q) * b = (p * d) * b
    BY <1>1, <1>2, ProductsKeepOrder
  <2>3. /\ a * q > p * b <=> (a * q) * d > (p * b) * d
        /\ a * q = p * b <=> (a * q) * d = (p * b) * d
    BY <1>1, <1>2, ProductsKeepOrder
  <2> QED
    BY <2>1, <2>2, <2>3
<1>4. /\ (c * b) * q = (c * q) * b
      /\ (a * d) * q = (a * q) * d
      /\ (p * d) * b = (p * b) * d
  BY <1>1
<1>5. /\ (a * d) * q \in Int /\ (c * q) * b \in Int /\ (p * d) * b \in Int
  BY <1>1, <1>2
<1> QED
  BY <1>2, <1>3, <1>4, <1>5

\* A sum of fractions is one, does not depend on their order, and grows with either.
LEMMA SumsOfFractions ==
  ASSUME NEW f, NEW g, NEW h, NEW k,
         IsFraction(f), IsFraction(g), IsFraction(h), IsFraction(k)
  PROVE  /\ IsFraction(Fusion!Add(f, g))
         /\ Fusion!Add(f, g) = Fusion!Add(g, f)
         /\ /\ Fusion!Greater(f, h) \/ Fusion!Equal(f, h)
            /\ Fusion!Greater(g, k) \/ Fusion!Equal(g, k)
            /\ Fusion!Greater(f, h) \/ Fusion!Greater(g, k)
            => Fusion!Greater(Fusion!Add(f, g), Fusion!Add(h, k))
<1> DEFINE a == f[1]
           b == f[2]
           c == g[1]
           d == g[2]
           p == h[1]
           q == h[2]
           r == k[1]
           s == k[2]
<1>1. /\ a \in Nat /\ c \in Nat /\ p \in Nat /\ r \in Nat
      /\ b \in Nat \ {0} /\ d \in Nat \ {0} /\ q \in Nat \ {0} /\ s \in Nat \ {0}
  BY DEF IsFraction
<1>2. /\ Fusion!Add(f, g) = <<a * d + c * b, b * d>>
      /\ Fusion!Add(g, f) = <<c * b + a * d, d * b>>
      /\ Fusion!Add(h, k) = <<p * s + r * q, q * s>>
  BY DEF Fusion!Add
<1>3. /\ Fusion!Greater(f, h) <=> a * q > p * b
      /\ Fusion!Equal(f, h) <=> a * q = p * b
      /\ Fusion!Greater(g, k) <=> c * s > r * d
      /\ Fusion!Equal(g, k) <=> c * s = r * d
      /\ Fusion!Greater(Fusion!Add(f, g), Fusion!Add(h, k))
           <=> (a * d + c * b) * (q * s) > (p * s + r * q) * (b * d)
  BY <1>2 DEF Fusion!Greater, Fusion!Equal
<1> HIDE DEF a, b, c, d, p, q, r, s
<1>4. IsFraction(<<a * d + c * b, b * d>>)
  <2>1. a * d + c * b \in Nat /\ b * d \in Nat
    BY <1>1
  <2>2. b * d # 0
    BY <1>1
  <2> QED
    BY <2>1, <2>2 DEF IsFraction
<1>5. <<a * d + c * b, b * d>> = <<c * b + a * d, d * b>>
  BY <1>1
<1>6. ASSUME a * q > p * b \/ a * q = p * b,
             c * s > r * d \/ c * s = r * d,
             a * q > p * b \/ c * s > r * d
      PROVE  (a * d + c * b) * (q * s) > (p * s + r * q) * (b * d)
  <2>1. d * s \in Nat \ {0} /\ b * q \in Nat \ {0}
    <3>1. d * s \in Nat /\ b * q \in Nat
      BY <1>1
    <3>2. d * s # 0 /\ b * q # 0
      BY <1>1
    <3> QED
      BY <3>1, <3>2
  <2>2. a * q \in Int /\ p * b \in Int /\ c * s \in Int /\ r * d \in Int
    BY <1>1
  <2> DEFINE aq == a * q
             pb == p * b
             cs == c * s
             rd == r * d
             ds == d * s
             bq == b * q
  <2>3. /\ aq > pb <=> aq * ds > pb * ds
        /\ aq = pb <=> aq * ds = pb * ds
    <3> HIDE DEF aq, pb, ds
    <3>1. aq \in Int /\ pb \in Int /\ ds \in Nat \ {0}
      BY <2>1, <2>2 DEF aq, pb, ds
    <3> QED
      BY <3>1, ProductsKeepOrder
  <2>4. /\ cs > rd <=> cs * bq > rd * bq
        /\ cs = rd <=> cs * bq = rd * bq
    <3> HIDE DEF cs, rd, bq
    <3>1. cs \in Int /\ rd \in Int /\ bq \in Nat \ {0}
      BY <2>1, <2>2 DEF cs, rd, bq
    <3> QED
      BY <3>1, ProductsKeepOrder
  <2>5. (a * d + c * b) * (q * s) = (a * q) * (d * s) + (c * s) * (b * q)
    BY <1>1
  <2>6. (p * s + r * q) * (b * d) = (p * b) * (d * s) + (r * d) * (b * q)
    BY <1>1
  <2>7. /\ (a * q) * (d * s) \in Int /\ (p * b) * (d * s) \in Int
        /\ (c * s) * (b * q) \in Int /\ (r * d) * (b * q) \in Int
    BY <1>1
  <2>8. /\ (a * q) * (d * s) >= (p * b) * (d * s)
        /\ (c * s) * (b * q) >= (r * d) * (b * q)
        /\ (a * q) * (d * s) > (p * b) * (d * s) \/ (c * s) * (b * q) > (r * d) * (b * q)
    BY <1>6, <2>3, <2>4, <2>7
  <2> DEFINE t == (a * q) * (d * s)
             u == (p * b) * (d * s)
             v == (c * s) * (b * q)
             w == (r * d) * (b * q)
  <2>9. t + v > u + w
    <3>1. t \in Int /\ u \in Int /\ v \in Int /\ w \in Int /\ t >= u /\ v >= w /\ (t > u \/ v > w)
      BY <2>7, <2>8
    <3> HIDE DEF t, u, v, w
    <3> QED
      BY <3>1
  <2> QED
    BY <2>5, <2>6, <2>9
<1> QED
  BY <1>2, <1>3, <1>4, <1>5, <1>6

IsTotalOrder(R, E) ==
  /\ IsStrictOrder(R, E)
  /\ \A x, y \in E : x # y => <<x, y>> \in R \/ <<y, x>> \in R

\* Where the elements of a finite set are ordered, each place is taken by one.
LEMMA PlacesAreTaken ==
  ASSUME NEW E, IsFiniteSet(E), NEW R, IsTotalOrder(R, E),
         NEW place, place = [y \in E |-> Cardinality({x \in E : <<x, y>> \in R}) + 1]
  PROVE  /\ place \in [E -> 1..Cardinality(E)]
         /\ \A x, y \in E : <<x, y>> \in R => place[x] < place[y]
         /\ \A x, y \in E : place[x] = place[y] => x = y
         /\ \A i \in 1..Cardinality(E) : \E x \in E : place[x] = i
<1> DEFINE before(y) == {x \in E : <<x, y>> \in R}
           n == Cardinality(E)
<1>0. /\ \A x \in E : <<x, x>> \notin R
      /\ \A x, y, z \in E : <<x, y>> \in R /\ <<y, z>> \in R => <<x, z>> \in R
      /\ \A x, y \in E : x # y => <<x, y>> \in R \/ <<y, x>> \in R
  BY DEF IsTotalOrder, IsStrictOrder
<1>1. n \in Nat
  BY FS_CardinalityType
<1>2. ASSUME NEW y \in E
      PROVE  /\ IsFiniteSet(before(y)) /\ Cardinality(before(y)) \in Nat
             /\ Cardinality(before(y)) + 1 <= n
  <2>1. before(y) \in SUBSET (E \ {y})
    BY <1>0
  <2>2. IsFiniteSet(E \ {y}) /\ Cardinality(E \ {y}) = n - 1
    BY FS_RemoveElement
  <2> HIDE DEF before, n
  <2>3. IsFiniteSet(before(y)) /\ Cardinality(before(y)) <= n - 1
    BY <2>1, <2>2, FS_Subset
  <2>4. Cardinality(before(y)) \in Nat
    BY <2>3, FS_CardinalityType
  <2> QED
    BY <1>1, <2>3, <2>4
<1>3. \A y \in E : place[y] = Cardinality(before(y)) + 1
  OBVIOUS
<1>4. place \in [E -> 1..n]
  <2>1. \A y \in E : place[y] \in 1..n
    <3> SUFFICES ASSUME NEW y \in E
                 PROVE  place[y] \in 1..n
      OBVIOUS
    <3> HIDE DEF before, n
    <3> QED
      BY <1>1, <1>2, <1>3
  <2> HIDE DEF n
  <2> QED
    BY <2>1
<1>5. ASSUME NEW x \in E, NEW y \in E, <<x, y>> \in R
      PROVE  place[x] < place[y]
  <2>1. before(x) \in SUBSET before(y)
    BY <1>0, <1>5
  <2>2. before(x) # before(y)
    BY <1>0, <1>5
  <2> HIDE DEF before
  <2>3. /\ Cardinality(before(x)) <= Cardinality(before(y))
        /\ Cardinality(before(x)) # Cardinality(before(y))
    BY <1>2, <2>1, <2>2, FS_Subset
  <2> QED
    BY <1>2, <1>3, <2>3
<1>6. ASSUME NEW x \in E, NEW y \in E, place[x] = place[y]
      PROVE  x = y
  <2>1. place[x] \in Int /\ place[y] \in Int
    BY <1>4, <1>1
  <2>2. <<x, y>> \notin R /\ <<y, x>> \notin R
    <3>1. <<x, y>> \in R => place[x] < place[y]
      BY <1>5
    <3>2. <<y, x>> \in R => place[y] < place[x]
      BY <1>5
    <3> HIDE DEF before, n
    <3> QED
      BY <1>6, <2>1, <3>1, <3>2
  <2> QED
    BY <1>0, <2>2
<1>7. \A i \in 1..n : \E x \in E : place[x] = i
  <2>1. place \in Injection(E, 1..n)
    BY <1>4, <1>6 DEF Injection, IsInjective
  <2>2. IsFiniteSet(1..n) /\ Cardinality(1..n) = n
    BY <1>1, FS_Interval
  <2>3. Cardinality(E) = Cardinality(1..n)
    BY <2>2
  <2> HIDE DEF n
  <2>4. place \in Surjection(E, 1..n)
    BY <2>1, <2>2, <2>3, FS_Injection
  <2> QED
    BY <2>4 DEF Surjection
<1> QED
  BY <1>4, <1>5, <1>6, <1>7

\* The ranks of an id, and where a rank that a property or the score chooses lies.
LEMMA ChosenRank ==
  ASSUME NEW ranking, Fusion!ValidRanking(ranking), NEW id
  PROVE  LET rank == CHOOSE r \in Fusion!Ranks(ranking, id) : TRUE
         IN /\ Len(ranking) \in Nat
            /\ Fusion!Ranks(ranking, id) # {} => /\ rank \in 1..Len(ranking)
                                                 /\ ranking[rank].id = id
            /\ Fusion!Ranks(ranking, id) # {} <=> id \in Fusion!Ids(ranking)
<1>1. Len(ranking) \in Nat
  BY DEF Fusion!ValidRanking
<1> QED
  BY <1>1 DEF Fusion!Ranks, Fusion!Ids

\* A weight and a rank constant that a policy can have.
Weighs(weight, constant) == weight \in 1..100 /\ constant \in 1..1000

\* So is what one ranking adds to a score.
LEMMA ContributionIsFraction ==
  ASSUME NEW ranking, Fusion!ValidRanking(ranking), NEW id, NEW weight, NEW constant,
         Weighs(weight, constant)
  PROVE  IsFraction(Fusion!Contribution(ranking, weight, constant, id))
<1> DEFINE rank == CHOOSE r \in Fusion!Ranks(ranking, id) : TRUE
<1>1. CASE Fusion!Ranks(ranking, id) = {}
  BY <1>1 DEF Fusion!Contribution, IsFraction
<1>2. CASE Fusion!Ranks(ranking, id) # {}
  <2>1. Len(ranking) \in Nat /\ rank \in 1..Len(ranking)
    BY <1>2, ChosenRank
  <2>2. Fusion!Contribution(ranking, weight, constant, id) = <<weight, constant + rank>>
    BY <1>2 DEF Fusion!Contribution
  <2> HIDE DEF rank
  <2>3. constant + rank \in Nat \ {0} /\ weight \in Nat
    BY <2>1 DEF Weighs
  <2> QED
    BY <2>2, <2>3 DEF IsFraction
<1> QED
  BY <1>1, <1>2

\* One id is ahead of another in this ranking, unless the ranking lacks the other.
AheadIn(ranking, a, b) == b \in Fusion!Ids(ranking) => RankIn(ranking, a) < RankIn(ranking, b)

GetsMore(ranking, weight, constant, a, b) ==
  LET x == Fusion!Contribution(ranking, weight, constant, a)
      y == Fusion!Contribution(ranking, weight, constant, b)
  IN /\ Fusion!Greater(x, y) \/ Fusion!Equal(x, y)
     /\ b \in Fusion!Ids(ranking) => Fusion!Greater(x, y)

\* What is ahead of another in a ranking gets more from it, and in one that lacks the other
\* no less.
LEMMA AheadGetsMore ==
  ASSUME NEW ranking, Fusion!ValidRanking(ranking), NEW a, NEW b, NEW weight, NEW constant,
         Weighs(weight, constant), AheadIn(ranking, a, b)
  PROVE  GetsMore(ranking, weight, constant, a, b)
<1> DEFINE x == Fusion!Contribution(ranking, weight, constant, a)
           y == Fusion!Contribution(ranking, weight, constant, b)
           ra == CHOOSE r \in Fusion!Ranks(ranking, a) : TRUE
           rb == CHOOSE r \in Fusion!Ranks(ranking, b) : TRUE
           length == Len(ranking)
<1>0. b \in Fusion!Ids(ranking) => RankIn(ranking, a) < RankIn(ranking, b)
  BY DEF AheadIn
<1>1. IsFraction(x)
  BY ContributionIsFraction
<1>2. CASE b \notin Fusion!Ids(ranking)
  <2>1. y = <<0, 1>>
    BY <1>2, ChosenRank DEF Fusion!Contribution
  <2> HIDE DEF x, y
  <2>2. x[1] \in Nat /\ x[2] \in Nat
    BY <1>1 DEF IsFraction
  <2>3. x[1] * 1 > 0 * x[2] \/ x[1] * 1 = 0 * x[2]
    BY <2>2
  <2>4. Fusion!Greater(x, y) \/ Fusion!Equal(x, y)
    BY <2>1, <2>3 DEF Fusion!Greater, Fusion!Equal
  <2> QED
    BY <1>2, <2>4 DEF x, y, GetsMore
<1>3. CASE b \in Fusion!Ids(ranking)
  <2>1. length \in Nat /\ rb \in 1..length /\ RankIn(ranking, b) = rb
    BY <1>3, ChosenRank DEF RankIn
  <2>2. Fusion!Ranks(ranking, a) # {}
    <3>1. SUFFICES ASSUME Fusion!Ranks(ranking, a) = {}
                   PROVE  FALSE
      OBVIOUS
    <3>2. RankIn(ranking, a) = length + 1
      BY <3>1 DEF RankIn
    <3> HIDE DEF length, rb
    <3> QED
      BY <1>0, <1>3, <2>1, <3>2
  <2>3. ra \in 1..length /\ RankIn(ranking, a) = ra
    BY <2>2, ChosenRank DEF RankIn
  <2>4. x = <<weight, constant + ra>> /\ y = <<weight, constant + rb>>
    BY <1>3, <2>2, ChosenRank DEF Fusion!Contribution
  <2> HIDE DEF x, y, ra, rb, length
  <2>5. constant + rb > constant + ra /\ constant + rb \in Int /\ constant + ra \in Int
    BY <1>0, <1>3, <2>1, <2>3 DEF Weighs
  <2>6. weight \in Nat \ {0}
    BY DEF Weighs
  <2>7. (constant + rb) * weight > (constant + ra) * weight
    BY <2>5, <2>6, ProductsKeepOrder
  <2>8. weight * (constant + rb) > weight * (constant + ra)
    BY <2>5, <2>6, <2>7
  <2>9. Fusion!Greater(x, y)
    BY <2>4, <2>8 DEF Fusion!Greater
  <2> QED
    BY <2>9 DEF x, y, GetsMore
<1> QED
  BY <1>2, <1>3

\* The order of Fuse, as a relation.
OrderOf(score, all) == {pair \in all \X all : Fusion!Before(score, pair[1], pair[2])}

\* The scores, with ties broken by the ids, order all candidates.
LEMMA ScoresOrder ==
  ASSUME NEW all, \A id \in all : id \in Nat,
         NEW score, \A id \in all : IsFraction(score[id])
  PROVE  IsTotalOrder(OrderOf(score, all), all)
<1> DEFINE R == OrderOf(score, all)
<1>1. \A a, b \in all : <<a, b>> \in R <=>
        Fusion!Greater(score[a], score[b]) \/ (Fusion!Equal(score[a], score[b]) /\ a < b)
  BY DEF OrderOf, Fusion!Before
<1> HIDE DEF R
<1>2. \A x \in all : <<x, x>> \notin R
  <2> SUFFICES ASSUME NEW x \in all
               PROVE  <<x, x>> \notin R
    OBVIOUS
  <2>1. ~Fusion!Greater(score[x], score[x]) /\ ~(x < x)
    BY FractionsAreOrdered
  <2> QED
    BY <1>1, <2>1
<1>3. \A x, y, z \in all : <<x, y>> \in R /\ <<y, z>> \in R => <<x, z>> \in R
  <2> SUFFICES ASSUME NEW x \in all, NEW y \in all, NEW z \in all, <<x, y>> \in R, <<y, z>> \in R
               PROVE  <<x, z>> \in R
    OBVIOUS
  <2>1. x < y /\ y < z => x < z
    OBVIOUS
  <2>2. /\ Fusion!Greater(score[x], score[y]) \/ (Fusion!Equal(score[x], score[y]) /\ x < y)
        /\ Fusion!Greater(score[y], score[z]) \/ (Fusion!Equal(score[y], score[z]) /\ y < z)
    BY <1>1
  <2>3. IsFraction(score[x]) /\ IsFraction(score[y]) /\ IsFraction(score[z])
    OBVIOUS
  <2>4. Fusion!Greater(score[x], score[z]) \/ (Fusion!Equal(score[x], score[z]) /\ x < z)
    BY <2>1, <2>2, <2>3, FractionsAreOrdered
  <2> QED
    BY <1>1, <2>4
<1>4. \A x, y \in all : x # y => <<x, y>> \in R \/ <<y, x>> \in R
  <2> SUFFICES ASSUME NEW x \in all, NEW y \in all, x # y
               PROVE  <<x, y>> \in R \/ <<y, x>> \in R
    OBVIOUS
  <2>1. x < y \/ y < x
    OBVIOUS
  <2>2. IsFraction(score[x]) /\ IsFraction(score[y])
    OBVIOUS
  <2>3. \/ Fusion!Greater(score[x], score[y]) \/ Fusion!Greater(score[y], score[x])
        \/ Fusion!Equal(score[x], score[y]) /\ Fusion!Equal(score[y], score[x])
    BY <2>2, FractionsAreOrdered
  <2> QED
    BY <1>1, <2>1, <2>3
<1> QED
  BY <1>2, <1>3, <1>4 DEF IsTotalOrder, IsStrictOrder, R

\* The numbers up to n are n.
LEMMA IntervalSize ==
  ASSUME NEW n \in Nat
  PROVE  IsFiniteSet(1..n) /\ Cardinality(1..n) = n
<1>1. IsFiniteSet(1..n) /\ Cardinality(1..n) = IF 1 > n THEN 0 ELSE n - 1 + 1
  BY FS_Interval
<1> QED
  BY <1>1

\* A ranking has finitely many ids, and if they are unique then each is at one rank.
LEMMA RankingIsFinite ==
  ASSUME NEW ranking, Fusion!ValidRanking(ranking)
  PROVE  /\ IsFiniteSet(Fusion!Ids(ranking))
         /\ \A id \in Fusion!Ids(ranking) : id \in Nat
         /\ Fusion!UniqueIds(ranking) =>
              \A r, s \in 1..Len(ranking) : ranking[r].id = ranking[s].id => r = s
<1> DEFINE n == Len(ranking)
           f == [r \in 1..n |-> ranking[r].id]
           T == Fusion!Ids(ranking)
<1>1. n \in Nat
  BY DEF Fusion!ValidRanking
<1>2. IsFiniteSet(1..n) /\ Cardinality(1..n) = n
  BY <1>1, IntervalSize
<1>3. f \in Surjection(1..n, T)
  BY DEF Surjection, Fusion!Ids
<1>4. Fusion!Cardinality(T) = Cardinality(T)
  BY Zenon DEF Fusion!Cardinality, Cardinality
<1>5. IsFiniteSet(T) /\ (Cardinality(T) = Cardinality(1..n) <=> f \in Injection(1..n, T))
  <2> HIDE DEF f, T, n
  <2> QED
    BY <1>2, <1>3, FS_Surjection
<1>6. \A id \in T : id \in Nat
  BY DEF Fusion!ValidRanking, Fusion!Ids
<1>7. ASSUME Fusion!UniqueIds(ranking)
      PROVE  \A r, s \in 1..n : ranking[r].id = ranking[s].id => r = s
  <2>1. Cardinality(T) = Cardinality(1..n)
    BY <1>2, <1>4, <1>7 DEF Fusion!UniqueIds
  <2>2. \A r, s \in 1..n : f[r] = f[s] => r = s
    <3> HIDE DEF f, T, n
    <3>1. f \in Injection(1..n, T)
      BY <1>5, <2>1
    <3>2. f \in [1..n -> T] /\ \A r, s \in DOMAIN f : f[r] = f[s] => r = s
      BY <3>1 DEF Injection, IsInjective
    <3> QED
      BY <3>2
  <2> QED
    BY <2>2
<1> QED
  BY <1>5, <1>6, <1>7

\* Every score is a fraction.
LEMMA ScoreIsFraction ==
  ASSUME NEW lexical, NEW semantic, NEW policy, NEW id, Fusion!ValidRanking(lexical),
         Fusion!ValidRanking(semantic), Fusion!ValidPolicy(policy)
  PROVE  IsFraction(Fusion!Score(lexical, semantic, policy, id))
<1>1. /\ Weighs(policy.lexical_weight, policy.rank_constant)
      /\ Weighs(policy.semantic_weight, policy.rank_constant)
  BY DEF Fusion!ValidPolicy, Weighs
<1> DEFINE x == Fusion!Contribution(lexical, policy.lexical_weight, policy.rank_constant, id)
           y == Fusion!Contribution(semantic, policy.semantic_weight, policy.rank_constant, id)
<1>2. IsFraction(x)
  BY <1>1, ContributionIsFraction
<1>3. IsFraction(y)
  BY <1>1, ContributionIsFraction
<1>4. Fusion!Score(lexical, semantic, policy, id) = Fusion!Add(x, y)
  BY DEF Fusion!Score
<1> HIDE DEF x, y
<1> QED
  BY <1>2, <1>3, <1>4, SumsOfFractions

\* One id is ahead of another in each ranking that has the other.
Ahead(lexical, semantic, a, b) ==
  AheadIn(lexical, a, b) /\ AheadIn(semantic, a, b)

\* What is ahead of another scores more.
LEMMA AheadScoresMore ==
  ASSUME NEW lexical, NEW semantic, NEW policy, NEW a, NEW b, Fusion!ValidRanking(lexical),
         Fusion!ValidRanking(semantic), Fusion!ValidPolicy(policy),
         Ahead(lexical, semantic, a, b), b \in Fusion!Ids(lexical) \cup Fusion!Ids(semantic)
  PROVE  Fusion!Greater(Fusion!Score(lexical, semantic, policy, a),
                        Fusion!Score(lexical, semantic, policy, b))
<1>1. /\ Weighs(policy.lexical_weight, policy.rank_constant)
      /\ Weighs(policy.semantic_weight, policy.rank_constant)
  BY DEF Fusion!ValidPolicy, Weighs
<1> DEFINE x(id) == Fusion!Contribution(lexical, policy.lexical_weight, policy.rank_constant, id)
           y(id) == Fusion!Contribution(semantic, policy.semantic_weight, policy.rank_constant, id)
<1>2. \A id : IsFraction(x(id))
  BY <1>1, ContributionIsFraction
<1>3. \A id : IsFraction(y(id))
  BY <1>1, ContributionIsFraction
<1>4. /\ Fusion!Greater(x(a), x(b)) \/ Fusion!Equal(x(a), x(b))
      /\ b \in Fusion!Ids(lexical) => Fusion!Greater(x(a), x(b))
  <2>1. AheadIn(lexical, a, b)
    BY DEF Ahead
  <2>2. GetsMore(lexical, policy.lexical_weight, policy.rank_constant, a, b)
    BY <1>1, <2>1, AheadGetsMore
  <2> QED
    BY <2>2 DEF GetsMore
<1>5. /\ Fusion!Greater(y(a), y(b)) \/ Fusion!Equal(y(a), y(b))
      /\ b \in Fusion!Ids(semantic) => Fusion!Greater(y(a), y(b))
  <2>1. AheadIn(semantic, a, b)
    BY DEF Ahead
  <2>2. GetsMore(semantic, policy.semantic_weight, policy.rank_constant, a, b)
    BY <1>1, <2>1, AheadGetsMore
  <2> QED
    BY <2>2 DEF GetsMore
<1>6. /\ Fusion!Score(lexical, semantic, policy, a) = Fusion!Add(x(a), y(a))
      /\ Fusion!Score(lexical, semantic, policy, b) = Fusion!Add(x(b), y(b))
  BY DEF Fusion!Score
<1> HIDE DEF x, y
<1>7. Fusion!Greater(Fusion!Add(x(a), y(a)), Fusion!Add(x(b), y(b)))
  BY <1>2, <1>3, <1>4, <1>5, SumsOfFractions
<1> QED
  BY <1>6, <1>7

\* RankFusion counts, and finds the smallest, with the operators of the theorems.
LEMMA SameFusionCounting ==
  ASSUME NEW S
  PROVE  Fusion!Cardinality(S) = Cardinality(S) /\ Fusion!Min(S) = Min(S)
<1>1. Fusion!Cardinality(S) = Cardinality(S)
  BY Zenon DEF Fusion!Cardinality, Cardinality
<1>2. Fusion!Min(S) = Min(S)
  BY Zenon DEF Fusion!Min, Min
<1> QED
  BY <1>1, <1>2

\* The list of Fuse, before anything fails the request.
Listed(lexical, semantic, policy, requested) ==
  LET all == Fusion!Ids(lexical) \cup Fusion!Ids(semantic)
      score == [id \in all |-> Fusion!Score(lexical, semantic, policy, id)]
      place == [id \in all |-> Cardinality({other \in all : Fusion!Before(score, other, id)}) + 1]
  IN [i \in 1..Min({requested, policy.final_limit, Cardinality(all)}) |->
        CHOOSE id \in all : place[id] = i]

\* What Fuse answers is this list, of unique candidates on which the rankings agree.
LEMMA FusedIsListed ==
  ASSUME NEW lexical, NEW semantic, NEW policy, NEW requested,
         NEW out, out = Fusion!Fuse(lexical, semantic, policy, requested), out # Fusion!Failure
  PROVE  /\ out = [status |-> "answered", ids |-> Listed(lexical, semantic, policy, requested)]
         /\ Fusion!UniqueIds(lexical) /\ Fusion!UniqueIds(semantic)
         /\ \A l \in 1..Len(lexical), s \in 1..Len(semantic) :
              lexical[l].id = semantic[s].id => Fusion!SameChunk(lexical[l], semantic[s])
<1> DEFINE all == Fusion!Ids(lexical) \cup Fusion!Ids(semantic)
           score == [id \in all |-> Fusion!Score(lexical, semantic, policy, id)]
           fusedPlace == [id \in all |-> Fusion!Cardinality({other \in all : Fusion!Before(score, other, id)}) + 1]
           place == [id \in all |-> Cardinality({other \in all : Fusion!Before(score, other, id)}) + 1]
           length == Fusion!Min({requested, policy.final_limit, Fusion!Cardinality(all)})
<1>1. fusedPlace = place
  <2> HIDE DEF all, score
  <2> QED
    BY SameFusionCounting
<1>2. length = Min({requested, policy.final_limit, Cardinality(all)})
  <2> HIDE DEF all
  <2> QED
    BY SameFusionCounting
<1>3. /\ out = [status |-> "answered", ids |-> [i \in 1..length |-> CHOOSE id \in all : fusedPlace[id] = i]]
      /\ Fusion!UniqueIds(lexical) /\ Fusion!UniqueIds(semantic)
      /\ \A l \in 1..Len(lexical), s \in 1..Len(semantic) :
           lexical[l].id = semantic[s].id => Fusion!SameChunk(lexical[l], semantic[s])
  BY DEF Fusion!Fuse
<1>4. Listed(lexical, semantic, policy, requested)
        = [i \in 1..Min({requested, policy.final_limit, Cardinality(all)}) |-> CHOOSE id \in all : place[id] = i]
  BY DEF Listed
<1> HIDE DEF fusedPlace, place, length, all
<1> QED
  BY <1>1, <1>2, <1>3, <1>4

\* The smallest of three numbers is none above the last.
LEMMA SmallestOfThree ==
  ASSUME NEW a \in Nat, NEW b \in Nat, NEW c \in Nat
  PROVE  Min({a, b, c}) \in Nat /\ Min({a, b, c}) <= c
<1>1. \E x \in {a, b, c} : \A y \in {a, b, c} : x <= y
  <2>1. CASE a <= b /\ a <= c
    BY <2>1
  <2>2. CASE b <= a /\ b <= c
    BY <2>2
  <2>3. CASE c <= a /\ c <= b
    BY <2>3
  <2> QED
    BY <2>1, <2>2, <2>3
<1>2. Min({a, b, c}) \in {a, b, c} /\ \A y \in {a, b, c} : Min({a, b, c}) <= y
  BY <1>1 DEF Min
<1> QED
  BY <1>2

\* A list without repetition, of the length that is due, with nothing left out or put after
\* what it is ahead of.
Respects(lexical, semantic, policy, requested, ids) ==
  LET all == Fusion!Ids(lexical) \cup Fusion!Ids(semantic)
  IN /\ Len(ids) = Cardinality({ids[i] : i \in 1..Len(ids)})
     /\ Len(ids) = Min({requested, policy.final_limit, Cardinality(all)})
     /\ \A a \in all, j \in 1..Len(ids) :
          Ahead(lexical, semantic, a, ids[j]) => \E i \in 1..(j - 1) : ids[i] = a

\* The list of Fuse is one: the order of the scores extends that of the rankings, and each
\* place up to the length is taken by one id.
LEMMA ListRespectsRankings ==
  ASSUME NEW lexical, NEW semantic, NEW policy, NEW requested \in Nat, Fusion!ValidRanking(lexical),
         Fusion!ValidRanking(semantic), Fusion!ValidPolicy(policy)
  PROVE  Respects(lexical, semantic, policy, requested, Listed(lexical, semantic, policy, requested))
<1> DEFINE all == Fusion!Ids(lexical) \cup Fusion!Ids(semantic)
           score == [id \in all |-> Fusion!Score(lexical, semantic, policy, id)]
           R == OrderOf(score, all)
           place == [id \in all |-> Cardinality({other \in all : <<other, id>> \in R}) + 1]
           n == Cardinality(all)
           length == Min({requested, policy.final_limit, n})
           ids == [i \in 1..length |-> CHOOSE id \in all : place[id] = i]
<1>1. Listed(lexical, semantic, policy, requested) = ids
  <2>1. \A a, b \in all : <<a, b>> \in R <=> Fusion!Before(score, a, b)
    BY DEF OrderOf
  <2>2. \A id \in all : {other \in all : Fusion!Before(score, other, id)} = {other \in all : <<other, id>> \in R}
    BY <2>1
  <2>3. [id \in all |-> Cardinality({other \in all : Fusion!Before(score, other, id)}) + 1] = place
    <3> HIDE DEF all, score, R
    <3> QED
      BY <2>2
  <2>4. Listed(lexical, semantic, policy, requested)
          = [i \in 1..length |->
               CHOOSE id \in all :
                 [x \in all |-> Cardinality({other \in all : Fusion!Before(score, other, x)}) + 1][id] = i]
    BY DEF Listed
  <2> HIDE DEF place, score, all, n, length
  <2> QED
    BY <2>3, <2>4
<1>2. IsFiniteSet(all) /\ \A id \in all : id \in Nat
  BY RankingIsFinite, FS_Union
<1>3. IsTotalOrder(R, all)
  <2>1. \A id \in all : IsFraction(score[id])
    BY ScoreIsFraction
  <2> HIDE DEF score, all, R
  <2> QED
    BY <1>2, <2>1, ScoresOrder DEF R
<1>4. /\ place \in [all -> 1..n]
      /\ \A x, y \in all : <<x, y>> \in R => place[x] < place[y]
      /\ \A x, y \in all : place[x] = place[y] => x = y
      /\ \A i \in 1..n : \E x \in all : place[x] = i
  <2> HIDE DEF R, all
  <2>1. place = [y \in all |-> Cardinality({x \in all : <<x, y>> \in R}) + 1]
    OBVIOUS
  <2> HIDE DEF place
  <2> QED
    BY <1>2, <1>3, <2>1, PlacesAreTaken
<1>5. n \in Nat /\ length \in Nat /\ length <= n
  <2>1. n \in Nat
    BY <1>2, FS_CardinalityType
  <2>2. policy.final_limit \in Nat
    BY DEF Fusion!ValidPolicy
  <2> HIDE DEF n
  <2> QED
    BY <2>1, <2>2, SmallestOfThree
<1> HIDE DEF place, n, length, R, score, all
<1>6. \A i \in 1..length : ids[i] \in all /\ place[ids[i]] = i
  BY <1>4, <1>5
<1>7. Len(ids) = length
  BY <1>5
<1> HIDE DEF ids
<1>8. length = Cardinality({ids[i] : i \in 1..length})
  <2> DEFINE T == {ids[i] : i \in 1..length}
  <2>1. ids \in [1..length -> T]
    BY DEF ids
  <2>2. ids \in Bijection(1..length, T)
    <3>1. \A i, j \in 1..length : ids[i] = ids[j] => i = j
      BY <1>6
    <3>2. ids \in Injection(1..length, T)
      BY <2>1, <3>1 DEF Injection, IsInjective
    <3>3. ids \in Surjection(1..length, T)
      BY <2>1 DEF Surjection
    <3> QED
      BY <3>2, <3>3 DEF Bijection
  <2>3. IsFiniteSet(1..length) /\ Cardinality(1..length) = length
    BY <1>5, IntervalSize
  <2>4. Cardinality(T) = Cardinality(1..length)
    BY <2>2, <2>3, FS_Bijection DEF ExistsBijection
  <2> QED
    BY <2>3, <2>4
<1>9. ASSUME NEW a \in all, NEW j \in 1..length, Ahead(lexical, semantic, a, ids[j])
      PROVE  \E i \in 1..(j - 1) : ids[i] = a
  <2>1. ids[j] \in all /\ place[ids[j]] = j
    BY <1>6
  <2>2. Fusion!Greater(score[a], score[ids[j]])
    BY <1>9, <2>1, AheadScoresMore DEF score, all
  <2>3. <<a, ids[j]>> \in R
    BY <2>1, <2>2 DEF R, OrderOf, Fusion!Before
  <2>4. place[a] < j /\ place[a] \in 1..n
    BY <1>4, <2>1, <2>3
  <2>5. place[a] \in 1..(j - 1) /\ place[a] \in 1..length
    BY <1>5, <2>4
  <2>6. ids[place[a]] = a
    BY <1>4, <1>6, <2>5
  <2> QED
    BY <2>5, <2>6
<1> QED
  BY <1>1, <1>7, <1>8, <1>9 DEF Respects, all, n, length

\* The policy that has the weights and the limits of the two rankings exchanged.
Exchanged(policy) ==
  [policy EXCEPT !.lexical_weight = policy.semantic_weight,
                 !.semantic_weight = policy.lexical_weight,
                 !.lexical_limit = policy.semantic_limit,
                 !.semantic_limit = policy.lexical_limit]

\* The two rankings, each with its weight and its limit, may change places.
LEMMA FusionIsSymmetric ==
  ASSUME NEW lexical, NEW semantic, NEW policy, NEW requested, Fusion!ValidRanking(lexical),
         Fusion!ValidRanking(semantic), Fusion!ValidPolicy(policy)
  PROVE  Fusion!Fuse(semantic, lexical, Exchanged(policy), requested)
           = Fusion!Fuse(lexical, semantic, policy, requested)
<1> DEFINE other == Exchanged(policy)
           all == Fusion!Ids(lexical) \cup Fusion!Ids(semantic)
           score == [id \in all |-> Fusion!Score(lexical, semantic, policy, id)]
           bad == \/ Len(lexical) > policy.lexical_limit \/ Len(semantic) > policy.semantic_limit
                  \/ ~Fusion!UniqueIds(lexical) \/ ~Fusion!UniqueIds(semantic)
                  \/ \E l \in 1..Len(lexical), s \in 1..Len(semantic) :
                       lexical[l].id = semantic[s].id /\ ~Fusion!SameChunk(lexical[l], semantic[s])
           otherBad == \/ Len(semantic) > other.lexical_limit \/ Len(lexical) > other.semantic_limit
                       \/ ~Fusion!UniqueIds(semantic) \/ ~Fusion!UniqueIds(lexical)
                       \/ \E l \in 1..Len(semantic), s \in 1..Len(lexical) :
                            semantic[l].id = lexical[s].id /\ ~Fusion!SameChunk(semantic[l], lexical[s])
           otherAll == Fusion!Ids(semantic) \cup Fusion!Ids(lexical)
           otherScore == [id \in otherAll |-> Fusion!Score(semantic, lexical, other, id)]
           list(of, by, final) ==
             [i \in 1..Fusion!Min({requested, final, Fusion!Cardinality(of)}) |->
                CHOOSE id \in of :
                  [x \in of |-> Fusion!Cardinality({y \in of : Fusion!Before(by, y, x)}) + 1][id] = i]
<1>1. /\ other.lexical_weight = policy.semantic_weight /\ other.semantic_weight = policy.lexical_weight
      /\ other.lexical_limit = policy.semantic_limit /\ other.semantic_limit = policy.lexical_limit
      /\ other.rank_constant = policy.rank_constant /\ other.final_limit = policy.final_limit
  BY DEF Fusion!ValidPolicy, Exchanged
<1>2. /\ Weighs(policy.lexical_weight, policy.rank_constant)
      /\ Weighs(policy.semantic_weight, policy.rank_constant)
  BY DEF Fusion!ValidPolicy, Weighs
<1>3. /\ Fusion!Fuse(lexical, semantic, policy, requested)
           = IF bad THEN Fusion!Failure
             ELSE [status |-> "answered", ids |-> list(all, score, policy.final_limit)]
      /\ Fusion!Fuse(semantic, lexical, other, requested)
           = IF otherBad THEN Fusion!Failure
             ELSE [status |-> "answered", ids |-> list(otherAll, otherScore, other.final_limit)]
  BY DEF Fusion!Fuse
<1>4. bad <=> otherBad
  <2>1. \A c, d : Fusion!SameChunk(c, d) <=> Fusion!SameChunk(d, c)
    BY DEF Fusion!SameChunk
  <2> HIDE DEF other
  <2> QED
    BY <1>1, <2>1
<1>5. all = otherAll
  OBVIOUS
<1>6. \A id : Fusion!Score(semantic, lexical, other, id) = Fusion!Score(lexical, semantic, policy, id)
  <2> SUFFICES ASSUME NEW id
               PROVE  Fusion!Score(semantic, lexical, other, id) = Fusion!Score(lexical, semantic, policy, id)
    OBVIOUS
  <2> DEFINE x == Fusion!Contribution(lexical, policy.lexical_weight, policy.rank_constant, id)
             y == Fusion!Contribution(semantic, policy.semantic_weight, policy.rank_constant, id)
  <2>1. IsFraction(x)
    BY <1>2, ContributionIsFraction
  <2>2. IsFraction(y)
    BY <1>2, ContributionIsFraction
  <2>3. Fusion!Score(lexical, semantic, policy, id) = Fusion!Add(x, y)
    BY DEF Fusion!Score
  <2>4. Fusion!Score(semantic, lexical, other, id) = Fusion!Add(y, x)
    <3> HIDE DEF other
    <3> QED
      BY <1>1 DEF Fusion!Score
  <2> HIDE DEF x, y
  <2> QED
    BY <2>1, <2>2, <2>3, <2>4, SumsOfFractions
<1>7. score = otherScore
  <2> HIDE DEF other, all, otherAll
  <2> QED
    BY <1>5, <1>6
<1> HIDE DEF other, all, otherAll, score, otherScore, bad, otherBad, list
<1> QED
  BY <1>1, <1>3, <1>4, <1>5, <1>7 DEF other

\* So is the answer, the check of every result included.
LEMMA AnswerIsSymmetric ==
  ASSUME NEW lexical, NEW semantic, NEW policy, NEW request, Fusion!ValidRanking(lexical),
         Fusion!ValidRanking(semantic), Fusion!ValidPolicy(policy)
  PROVE  Fusion!Answer(semantic, lexical, Exchanged(policy), request)
           = Fusion!Answer(lexical, semantic, policy, request)
<1> DEFINE other == Exchanged(policy)
           pool == {lexical[r] : r \in 1..Len(lexical)} \cup {semantic[r] : r \in 1..Len(semantic)}
           otherPool == {semantic[r] : r \in 1..Len(semantic)} \cup {lexical[r] : r \in 1..Len(lexical)}
           fused == Fusion!Fuse(lexical, semantic, policy, request.limit)
           otherFused == Fusion!Fuse(semantic, lexical, other, request.limit)
           refused(from) == \E i \in 1..Len(fused.ids) :
                              ~Fusion!Authorized(request, (CHOOSE c \in from : c.id = fused.ids[i]).data)
           otherRefused(from) == \E i \in 1..Len(otherFused.ids) :
                              ~Fusion!Authorized(request, (CHOOSE c \in from : c.id = otherFused.ids[i]).data)
<1>1. fused = otherFused
  BY FusionIsSymmetric
<1>2. pool = otherPool
  OBVIOUS
<1>3. Fusion!Answer(lexical, semantic, policy, request)
        = IF ~Fusion!Decodes(lexical) \/ ~Fusion!Decodes(semantic) \/ fused = Fusion!Failure \/ refused(pool)
          THEN Fusion!Failure ELSE fused
  BY DEF Fusion!Answer
<1>4. Fusion!Answer(semantic, lexical, other, request)
        = IF ~Fusion!Decodes(semantic) \/ ~Fusion!Decodes(lexical) \/ otherFused = Fusion!Failure
             \/ otherRefused(otherPool)
          THEN Fusion!Failure ELSE otherFused
  BY DEF Fusion!Answer
<1> HIDE DEF fused, otherFused, pool, otherPool
<1>5. refused(pool) <=> otherRefused(otherPool)
  BY <1>1, <1>2
<1> HIDE DEF refused, otherRefused, other
<1> QED
  BY <1>1, <1>3, <1>4, <1>5 DEF other

\* Whatever is listed is authorized, in the ranking or rankings it comes from.
LEMMA ListedIsAuthorized ==
  ASSUME NEW lexical, NEW semantic, NEW policy, NEW request, Fusion!ValidRanking(lexical),
         Fusion!ValidRanking(semantic), Fusion!ValidPolicy(policy),
         NEW out, out = Fusion!Answer(lexical, semantic, policy, request), out # Fusion!Failure,
         NEW c \in {lexical[r] : r \in 1..Len(lexical)} \cup {semantic[r] : r \in 1..Len(semantic)},
         c.id \in {out.ids[i] : i \in 1..Len(out.ids)}
  PROVE  Fusion!Authorized(request, c.data)
<1> DEFINE pool == {lexical[r] : r \in 1..Len(lexical)} \cup {semantic[r] : r \in 1..Len(semantic)}
           found(id) == CHOOSE d \in pool : d.id = id
<1>1. /\ out = Fusion!Fuse(lexical, semantic, policy, request.limit)
      /\ \A i \in 1..Len(out.ids) : Fusion!Authorized(request, found(out.ids[i]).data)
  BY DEF Fusion!Answer
<1>2. /\ Fusion!UniqueIds(lexical) /\ Fusion!UniqueIds(semantic)
      /\ \A l \in 1..Len(lexical), s \in 1..Len(semantic) :
           lexical[l].id = semantic[s].id => Fusion!SameChunk(lexical[l], semantic[s])
  BY <1>1, FusedIsListed
<1>3. found(c.id) \in pool /\ found(c.id).id = c.id
  <2>1. c \in pool
    OBVIOUS
  <2> HIDE DEF pool
  <2> QED
    BY <2>1
<1>4. Fusion!Authorized(request, found(c.id).data)
  <2> HIDE DEF found
  <2> QED
    BY <1>1
<1>5. \A d \in pool : d.id = c.id => d.data = c.data
  <2>1. /\ \A r, s \in 1..Len(lexical) : lexical[r].id = lexical[s].id => r = s
        /\ \A r, s \in 1..Len(semantic) : semantic[r].id = semantic[s].id => r = s
    BY <1>2, RankingIsFinite
  <2>2. \A x, y : Fusion!SameChunk(x, y) => x.data = y.data
    BY DEF Fusion!SameChunk
  <2>3. /\ \A r, s \in 1..Len(lexical) : lexical[r].id = lexical[s].id => lexical[r].data = lexical[s].data
        /\ \A r, s \in 1..Len(semantic) : semantic[r].id = semantic[s].id => semantic[r].data = semantic[s].data
    BY <2>1
  <2>4. \A l \in 1..Len(lexical), s \in 1..Len(semantic) :
          lexical[l].id = semantic[s].id => lexical[l].data = semantic[s].data
    BY <1>2, <2>2
  <2>5. \A d, e \in pool : d.id = e.id => d.data = e.data
    BY <2>3, <2>4, SMTT(30)
  <2> QED
    BY <2>5
<1> QED
  BY <1>3, <1>4, <1>5

\* The same of the answer.
LEMMA AnswerRespectsRankings ==
  ASSUME NEW lexical, NEW semantic, NEW policy, NEW request, Fusion!ValidRanking(lexical),
         Fusion!ValidRanking(semantic), Fusion!ValidPolicy(policy), Fusion!ValidRequest(request),
         NEW out, out = Fusion!Answer(lexical, semantic, policy, request), out # Fusion!Failure
  PROVE  Respects(lexical, semantic, policy, request.limit, out.ids)
<1>1. out = Fusion!Fuse(lexical, semantic, policy, request.limit)
  BY DEF Fusion!Answer
<1>2. out.ids = Listed(lexical, semantic, policy, request.limit)
  BY <1>1, FusedIsListed
<1>3. request.limit \in Nat
  BY DEF Fusion!ValidRequest
<1>4. Respects(lexical, semantic, policy, request.limit, Listed(lexical, semantic, policy, request.limit))
  BY <1>3, ListRespectsRankings
<1> QED
  BY <1>2, <1>4

\* The fused answer respects both rankings, is as long as it may be, does not depend on which
\* ranking comes first, and holds nothing outside of the scope of the request: for any
\* rankings, weights, rank constants and limits.
THEOREM FusionKeepsRankings == Spec => []FusionRespectsRankings
<1>1. Recorded => FusionRespectsRankings
  <2> SUFFICES ASSUME Recorded, case.of = "fuse", case.out # Fusion!Failure
               PROVE  FusionRespectsRankings
    BY DEF FusionRespectsRankings
  <2>1. PICK lexical \in Rankings, semantic \in Rankings, policy \in Policies, request \in Requests :
          /\ case.in = [lexical |-> lexical, semantic |-> semantic, policy |-> policy, request |-> request]
          /\ case.out = Fusion!Answer(lexical, semantic, policy, request)
    BY DEF Recorded
  <2>2. /\ Fusion!ValidRanking(lexical) /\ Fusion!ValidRanking(semantic)
        /\ Fusion!ValidPolicy(policy) /\ Fusion!ValidRequest(request)
    BY ArgumentAssumption
  <2>3. Respects(lexical, semantic, policy, request.limit, case.out.ids)
    BY <2>1, <2>2, AnswerRespectsRankings
  <2>4. Fusion!Answer(semantic, lexical, Exchanged(policy), request) = case.out
    BY <2>1, <2>2, AnswerIsSymmetric
  <2>5. \A c \in {lexical[r] : r \in 1..Len(lexical)} \cup {semantic[r] : r \in 1..Len(semantic)} :
          c.id \in {case.out.ids[i] : i \in 1..Len(case.out.ids)} => Fusion!Authorized(request, c.data)
    BY <2>1, <2>2, ListedIsAuthorized
  <2>6. /\ case.in.lexical = lexical /\ case.in.semantic = semantic
        /\ case.in.policy = policy /\ case.in.request = request
    BY <2>1
  <2> QED
    BY <2>3, <2>4, <2>5, <2>6 DEF FusionRespectsRankings, Respects, Exchanged, Ahead, AheadIn
<1> QED
  BY <1>1, CallsAreRecorded, PTL

-----------------------------------------------------------------------------
(* The chunking of sections *)

\* The letters and the ties of a text, by position.
LEMMA TextFacts ==
  ASSUME NEW t \in Seq(Int)
  PROVE  /\ Len(t) \in Nat
         /\ \A i \in 1..Len(t) : t[i] \in Int /\ (Preparation!IsSpace(t[i]) <=> t[i] <= 0)
         /\ \A p : p \in Preparation!Letters(t) <=> \E i \in 1..Len(t) : t[i] = p /\ p > 0
         /\ \A tie : tie \in Ties(t) <=>
              \E i \in 1..(Len(t) - 1) : t[i] > 0 /\ t[i + 1] > 0 /\ tie = <<t[i], t[i + 1]>>
         /\ Preparation!InOrder(t) <=>
              \A i, j \in 1..Len(t) : i < j /\ t[i] > 0 /\ t[j] > 0 => t[i] < t[j]
<1>1. Len(t) \in Nat /\ \A i \in 1..Len(t) : t[i] \in Int
  OBVIOUS
<1>2. \A i \in 1..Len(t) : Preparation!IsSpace(t[i]) <=> t[i] <= 0
  BY DEF Preparation!IsSpace
<1>3. \A p : p \in Preparation!Letters(t) <=> \E i \in 1..Len(t) : t[i] = p /\ p > 0
  BY <1>1 DEF Preparation!Letters, Preparation!IsSpace
<1>4. \A tie : tie \in Ties(t) <=>
        \E i \in 1..(Len(t) - 1) : t[i] > 0 /\ t[i + 1] > 0 /\ tie = <<t[i], t[i + 1]>>
  <2>1. \A i \in 1..(Len(t) - 1) : /\ i \in 1..Len(t) /\ i + 1 \in 1..Len(t)
                                   /\ ~Preparation!IsSpace(t[i]) <=> t[i] > 0
                                   /\ ~Preparation!IsSpace(t[i + 1]) <=> t[i + 1] > 0
    BY <1>1, <1>2
  <2> QED
    BY <2>1 DEF Ties
<1>5. Preparation!InOrder(t) <=>
        \A i, j \in 1..Len(t) : i < j /\ t[i] > 0 /\ t[j] > 0 => t[i] < t[j]
  <2>1. \A i \in 1..Len(t) : ~Preparation!IsSpace(t[i]) <=> t[i] > 0
    BY <1>1, <1>2
  <2> QED
    BY <2>1 DEF Preparation!InOrder
<1> QED
  BY <1>1, <1>2, <1>3, <1>4, <1>5

\* Every letter of the one text is before every letter of the other.
Precedes(P, Q) == \A p \in P, q \in Q : p < q

\* White space between two texts unites their letters and adds no tie.
LEMMA SeparatedTexts ==
  ASSUME NEW a \in Seq(Int), NEW s \in Seq(Int), NEW b \in Seq(Int),
         s # <<>>, \A i \in 1..Len(s) : s[i] <= 0
  PROVE  LET t == a \o s \o b
         IN /\ t \in Seq(Int)
            /\ Preparation!Letters(t) = Preparation!Letters(a) \cup Preparation!Letters(b)
            /\ Ties(t) = Ties(a) \cup Ties(b)
            /\ Preparation!InOrder(a) /\ Preparation!InOrder(b)
                 /\ Precedes(Preparation!Letters(a), Preparation!Letters(b)) => Preparation!InOrder(t)
<1> DEFINE t == a \o s \o b
           n == Len(a)
           m == Len(a) + Len(s)
           k == Len(a) + Len(s) + Len(b)
<1>1. /\ t \in Seq(Int) /\ Len(t) = k /\ n \in Nat /\ m \in Nat /\ k \in Nat /\ n < m /\ m <= k
      /\ Len(a) = n /\ Len(b) = k - m
  OBVIOUS
<1>2. /\ \A i \in 1..n : t[i] = a[i]
      /\ \A i \in (n + 1)..m : t[i] = s[i - n]
      /\ \A i \in (m + 1)..k : t[i] = b[i - m]
  OBVIOUS
<1>3. \A i \in (n + 1)..m : t[i] <= 0
  BY <1>2
<1> HIDE DEF t, n, m, k
<1>4. \A i \in 1..k : t[i] > 0 => i \in 1..n \/ i \in (m + 1)..k
  <2> SUFFICES ASSUME NEW i \in 1..k, t[i] > 0, i \notin 1..n, i \notin (m + 1)..k
               PROVE  FALSE
    OBVIOUS
  <2>1. i \in (n + 1)..m
    BY <1>1
  <2>2. t[i] <= 0 /\ t[i] \in Int
    BY <1>1, <1>3, <2>1
  <2> QED
    BY <2>2
<1>5. /\ \A j \in 1..(k - m) : j + m \in (m + 1)..k /\ t[j + m] = b[j]
      /\ \A i \in (m + 1)..k : i - m \in 1..(k - m)
      /\ \A i \in 1..n : i \in 1..k
      /\ \A i \in (m + 1)..k : i \in 1..k
  <2>1. \A j \in 1..(k - m) : j + m \in (m + 1)..k /\ (j + m) - m = j
    BY <1>1
  <2> QED
    BY <1>1, <1>2, <2>1
<1>6. Preparation!Letters(t) = Preparation!Letters(a) \cup Preparation!Letters(b)
  <2>1. \A p : p \in Preparation!Letters(t) => p \in Preparation!Letters(a) \cup Preparation!Letters(b)
    <3> SUFFICES ASSUME NEW p \in Preparation!Letters(t)
                 PROVE  p \in Preparation!Letters(a) \cup Preparation!Letters(b)
      OBVIOUS
    <3>1. PICK i \in 1..k : t[i] = p /\ p > 0
      BY <1>1, TextFacts
    <3>2. CASE i \in 1..n
      BY <1>1, <1>2, <3>1, <3>2, TextFacts
    <3>3. CASE i \in (m + 1)..k
      BY <1>1, <1>2, <1>5, <3>1, <3>3, TextFacts
    <3> QED
      BY <1>4, <3>1, <3>2, <3>3
  <2>2. ASSUME NEW p \in Preparation!Letters(a)
        PROVE  p \in Preparation!Letters(t)
    <3>1. PICK i \in 1..n : a[i] = p /\ p > 0
      BY <1>1, TextFacts
    <3>2. i \in 1..k /\ t[i] = p
      BY <1>2, <1>5, <3>1
    <3> QED
      BY <1>1, <3>1, <3>2, TextFacts
  <2>3. ASSUME NEW p \in Preparation!Letters(b)
        PROVE  p \in Preparation!Letters(t)
    <3>1. PICK i \in 1..(k - m) : b[i] = p /\ p > 0
      BY <1>1, TextFacts
    <3>2. i + m \in 1..k /\ t[i + m] = p
      BY <1>5, <3>1
    <3> QED
      BY <1>1, <3>1, <3>2, TextFacts
  <2> QED
    BY <2>1, <2>2, <2>3
<1>7. Ties(t) = Ties(a) \cup Ties(b)
  <2>1. ASSUME NEW tie \in Ties(t)
        PROVE  tie \in Ties(a) \cup Ties(b)
    <3>1. PICK i \in 1..(k - 1) : t[i] > 0 /\ t[i + 1] > 0 /\ tie = <<t[i], t[i + 1]>>
      BY <1>1, TextFacts
    <3>2. i \in 1..k /\ i + 1 \in 1..k
      BY <1>1
    <3>3. CASE i \in 1..n
      <4>1. i + 1 \notin (m + 1)..k
        BY <1>1, <3>3
      <4>2. i + 1 \in 1..n
        BY <1>4, <3>1, <3>2, <4>1
      <4>3. i \in 1..(n - 1) /\ a[i] = t[i] /\ a[i + 1] = t[i + 1]
        BY <1>1, <1>2, <3>3, <4>2, SMTT(30)
      <4> QED
        BY <1>1, <3>1, <4>3, TextFacts
    <3>4. CASE i \in (m + 1)..k
      <4>1. i + 1 \in (m + 1)..k
        BY <1>1, <3>2, <3>4
      <4>2. i - m \in 1..((k - m) - 1) /\ (i + 1) - m = (i - m) + 1
        BY <1>1, <3>4, <4>1
      <4>4. b[i - m] = t[i] /\ b[(i + 1) - m] = t[i + 1]
        BY <1>2, <3>4, <4>1
      <4>3. b[(i - m) + 1] = t[i + 1]
        BY <4>2, <4>4
      <4> QED
        BY <1>1, <3>1, <4>2, <4>3, <4>4, TextFacts
    <3> QED
      BY <1>4, <3>1, <3>2, <3>3, <3>4
  <2>2. ASSUME NEW tie \in Ties(a)
        PROVE  tie \in Ties(t)
    <3>1. PICK i \in 1..(n - 1) : a[i] > 0 /\ a[i + 1] > 0 /\ tie = <<a[i], a[i + 1]>>
      BY <1>1, TextFacts
    <3>2. i \in 1..(k - 1) /\ i \in 1..n /\ i + 1 \in 1..n
      BY <1>1
    <3>3. t[i] = a[i] /\ t[i + 1] = a[i + 1]
      BY <1>2, <3>2
    <3> QED
      BY <1>1, <3>1, <3>2, <3>3, TextFacts
  <2>3. ASSUME NEW tie \in Ties(b)
        PROVE  tie \in Ties(t)
    <3>1. PICK i \in 1..((k - m) - 1) : b[i] > 0 /\ b[i + 1] > 0 /\ tie = <<b[i], b[i + 1]>>
      BY <1>1, TextFacts
    <3>2. i \in 1..(k - m) /\ i + 1 \in 1..(k - m) /\ (i + m) + 1 = (i + 1) + m /\ i + m \in 1..(k - 1)
      BY <1>1
    <3>3. t[i + m] = b[i] /\ t[(i + m) + 1] = b[i + 1]
      BY <1>5, <3>2, SMTT(30)
    <3> QED
      BY <1>1, <3>1, <3>2, <3>3, TextFacts
  <2> QED
    BY <2>1, <2>2, <2>3
<1>8. ASSUME Preparation!InOrder(a), Preparation!InOrder(b),
             Precedes(Preparation!Letters(a), Preparation!Letters(b))
      PROVE  Preparation!InOrder(t)
  <2> SUFFICES ASSUME NEW i \in 1..k, NEW j \in 1..k, i < j, t[i] > 0, t[j] > 0
               PROVE  t[i] < t[j]
    BY <1>1, TextFacts
  <2>1. CASE j \in 1..n
    <3>1. i \in 1..n
      BY <1>1, <2>1
    <3>2. \A v, w \in 1..n : v < w /\ a[v] > 0 /\ a[w] > 0 => a[v] < a[w]
      BY <1>1, <1>8, TextFacts
    <3> QED
      BY <1>2, <2>1, <3>1, <3>2
  <2>2. CASE i \in (m + 1)..k
    <3>1. j \in (m + 1)..k
      BY <1>1, <2>2
    <3>2. i - m \in 1..(k - m) /\ j - m \in 1..(k - m) /\ i - m < j - m
      BY <1>1, <2>2, <3>1
    <3>3. b[i - m] = t[i] /\ b[j - m] = t[j]
      BY <1>2, <2>2, <3>1
    <3>4. \A v, w \in 1..(k - m) : v < w /\ b[v] > 0 /\ b[w] > 0 => b[v] < b[w]
      BY <1>1, <1>8, TextFacts
    <3> QED
      BY <3>2, <3>3, <3>4
  <2>3. CASE i \in 1..n /\ j \in (m + 1)..k
    <3>1. t[i] \in Preparation!Letters(a)
      BY <1>1, <1>2, <2>3, TextFacts
    <3>2. t[j] \in Preparation!Letters(b)
      BY <1>1, <1>2, <1>5, <2>3, TextFacts
    <3> QED
      BY <1>8, <3>1, <3>2 DEF Precedes
  <2> QED
    BY <1>4, <2>1, <2>2, <2>3
<1> QED
  BY <1>1, <1>6, <1>7, <1>8 DEF t

\* Join: both texts, with a separator unless the first is empty.
LEMMA JoinedTexts ==
  ASSUME NEW a \in Seq(Int), NEW s \in Seq(Int), NEW b \in Seq(Int),
         s # <<>>, \A i \in 1..Len(s) : s[i] <= 0
  PROVE  LET t == Preparation!Join(a, s, b)
         IN /\ t \in Seq(Int)
            /\ Preparation!Letters(t) = Preparation!Letters(a) \cup Preparation!Letters(b)
            /\ Ties(t) = Ties(a) \cup Ties(b)
            /\ Preparation!InOrder(a) /\ Preparation!InOrder(b)
                 /\ Precedes(Preparation!Letters(a), Preparation!Letters(b)) => Preparation!InOrder(t)
<1> DEFINE t == Preparation!Join(a, s, b)
<1>1. CASE a = <<>>
  <2>1. t = b
    BY <1>1 DEF Preparation!Join
  <2>2. Preparation!Letters(a) = {}
    BY <1>1 DEF Preparation!Letters
  <2>3. Ties(a) = {}
    BY <1>1 DEF Ties
  <2> HIDE DEF t
  <2> QED
    BY <2>1, <2>2, <2>3 DEF t
<1>2. CASE a # <<>>
  <2>1. t = a \o s \o b
    BY <1>2 DEF Preparation!Join
  <2> HIDE DEF t
  <2> QED
    BY <2>1, SeparatedTexts DEF t
<1> QED
  BY <1>1, <1>2

\* One more character.
LEMMA LongerText ==
  ASSUME NEW t \in Seq(Int), NEW c \in Int
  PROVE  LET longer == Append(t, c)
         IN /\ longer \in Seq(Int)
            /\ Preparation!Letters(longer) = Preparation!Letters(t) \cup (IF c > 0 THEN {c} ELSE {})
            /\ Ties(longer) = Ties(t) \cup (IF t # <<>> /\ t[Len(t)] > 0 /\ c > 0
                                            THEN {<<t[Len(t)], c>>} ELSE {})
            /\ Preparation!InOrder(t) /\ Precedes(Preparation!Letters(t), {c}) =>
                 Preparation!InOrder(longer)
<1> DEFINE u == Append(t, c)
           n == Len(t)
<1>1. /\ n \in Nat /\ u \in Seq(Int) /\ Len(u) = n + 1 /\ u[n + 1] = c
      /\ \A i \in 1..n : u[i] = t[i] /\ i \in 1..(n + 1)
      /\ \A i \in 1..(n + 1) : i \in 1..n \/ i = n + 1
      /\ t # <<>> <=> n # 0
  OBVIOUS
<1> HIDE DEF u, n
<1>2. Len(t) = n
  BY DEF n
<1>3. Preparation!Letters(u) = Preparation!Letters(t) \cup (IF c > 0 THEN {c} ELSE {})
  <2>1. ASSUME NEW p \in Preparation!Letters(u), p \notin Preparation!Letters(t)
        PROVE  p = c /\ c > 0
    <3>1. PICK i \in 1..(n + 1) : u[i] = p /\ p > 0
      BY <1>1, TextFacts
    <3>2. i \notin 1..n
      BY <1>1, <1>2, <2>1, <3>1, TextFacts
    <3> QED
      BY <1>1, <3>1, <3>2
  <2>2. ASSUME NEW p \in Preparation!Letters(t)
        PROVE  p \in Preparation!Letters(u)
    <3>1. PICK i \in 1..n : t[i] = p /\ p > 0
      BY <1>2, TextFacts
    <3>2. i \in 1..(n + 1) /\ u[i] = p
      BY <1>1, <3>1
    <3> QED
      BY <1>1, <3>1, <3>2, TextFacts
  <2>3. c > 0 => c \in Preparation!Letters(u)
    <3>1. n + 1 \in 1..(n + 1)
      BY <1>1
    <3> QED
      BY <1>1, <3>1, TextFacts
  <2> QED
    BY <2>1, <2>2, <2>3
<1>4. Ties(u) = Ties(t) \cup (IF n # 0 /\ t[n] > 0 /\ c > 0 THEN {<<t[n], c>>} ELSE {})
  <2>1. ASSUME NEW tie \in Ties(u), tie \notin Ties(t)
        PROVE  n # 0 /\ t[n] > 0 /\ c > 0 /\ tie = <<t[n], c>>
    <3>1. PICK i \in 1..(Len(u) - 1) : u[i] > 0 /\ u[i + 1] > 0 /\ tie = <<u[i], u[i + 1]>>
      BY <1>1, <2>1, TextFacts
    <3>2. i \in 1..n
      BY <1>1
    <3>3. CASE i = n
      BY <1>1, <3>1, <3>2, <3>3
    <3>4. CASE i # n
      <4>1. i \in 1..(n - 1) /\ i + 1 \in 1..n
        BY <1>1, <3>2, <3>4
      <4>2. u[i] = t[i] /\ u[i + 1] = t[i + 1]
        BY <1>1, <3>2, <4>1
      <4> QED
        BY <1>2, <2>1, <3>1, <4>1, <4>2, TextFacts
    <3> QED
      BY <3>3, <3>4
  <2>2. ASSUME NEW tie \in Ties(t)
        PROVE  tie \in Ties(u)
    <3>1. PICK i \in 1..(n - 1) : t[i] > 0 /\ t[i + 1] > 0 /\ tie = <<t[i], t[i + 1]>>
      BY <1>2, TextFacts
    <3>2. i \in 1..n /\ i + 1 \in 1..n /\ i \in 1..((n + 1) - 1)
      BY <1>1
    <3>3. u[i] = t[i] /\ u[i + 1] = t[i + 1]
      BY <1>1, <3>2
    <3> QED
      BY <1>1, <3>1, <3>2, <3>3, TextFacts
  <2>3. n # 0 /\ t[n] > 0 /\ c > 0 => <<t[n], c>> \in Ties(u)
    <3> SUFFICES ASSUME n # 0, t[n] > 0, c > 0
                 PROVE  <<t[n], c>> \in Ties(u)
      OBVIOUS
    <3>1. n \in 1..((n + 1) - 1) /\ n \in 1..n
      BY <1>1
    <3>2. u[n] = t[n] /\ u[n + 1] = c
      BY <1>1, <3>1
    <3> QED
      BY <1>1, <3>1, <3>2, TextFacts
  <2> QED
    BY <2>1, <2>2, <2>3
<1>5. ASSUME Preparation!InOrder(t), Precedes(Preparation!Letters(t), {c})
      PROVE  Preparation!InOrder(u)
  <2> SUFFICES ASSUME NEW i \in 1..(n + 1), NEW j \in 1..(n + 1), i < j, u[i] > 0, u[j] > 0
               PROVE  u[i] < u[j]
    BY <1>1, TextFacts
  <2>1. i \in 1..n /\ u[i] = t[i]
    BY <1>1
  <2>2. CASE j \in 1..n
    <3>1. \A v, w \in 1..n : v < w /\ t[v] > 0 /\ t[w] > 0 => t[v] < t[w]
      BY <1>2, <1>5, TextFacts
    <3> QED
      BY <1>1, <2>1, <2>2, <3>1
  <2>3. CASE j = n + 1
    <3>1. t[i] \in Preparation!Letters(t)
      BY <1>2, <2>1, TextFacts
    <3> QED
      BY <1>1, <1>5, <2>1, <2>3, <3>1 DEF Precedes
  <2> QED
    BY <1>1, <2>2, <2>3
<1> QED
  BY <1>1, <1>3, <1>4, <1>5 DEF u, n

\* The letters and the ties of texts and more texts.
LEMMA MoreTexts ==
  ASSUME NEW ts \in Seq(Seq(Int)), NEW us \in Seq(Seq(Int))
  PROVE  /\ LettersOf(ts \o us) = LettersOf(ts) \cup LettersOf(us)
         /\ TiesOf(ts \o us) = TiesOf(ts) \cup TiesOf(us)
<1> DEFINE vs == ts \o us
           n == Len(ts)
           m == Len(us)
<1>1. /\ n \in Nat /\ m \in Nat /\ Len(vs) = n + m
      /\ \A i \in 1..n : vs[i] = ts[i] /\ i \in 1..(n + m)
      /\ \A i \in (n + 1)..(n + m) : vs[i] = us[i - n]
  OBVIOUS
<1>2. /\ \A i \in 1..m : vs[i + n] = us[i] /\ i + n \in 1..(n + m)
      /\ \A i \in 1..(n + m) : i \in 1..n \/ (i - n \in 1..m /\ vs[i] = us[i - n])
  OBVIOUS
<1> HIDE DEF vs, n, m
<1>3. LettersOf(vs) = UNION {Preparation!Letters(vs[i]) : i \in 1..(n + m)}
  BY <1>1 DEF LettersOf
<1>4. LettersOf(ts) = UNION {Preparation!Letters(ts[i]) : i \in 1..n}
  BY DEF LettersOf, n
<1>5. LettersOf(us) = UNION {Preparation!Letters(us[i]) : i \in 1..m}
  BY DEF LettersOf, m
<1>6. TiesOf(vs) = UNION {Ties(vs[i]) : i \in 1..(n + m)}
  BY <1>1 DEF TiesOf
<1>7. TiesOf(ts) = UNION {Ties(ts[i]) : i \in 1..n}
  BY DEF TiesOf, n
<1>8. TiesOf(us) = UNION {Ties(us[i]) : i \in 1..m}
  BY DEF TiesOf, m
<1>9. ASSUME NEW p
      PROVE  p \in LettersOf(vs) <=> p \in LettersOf(ts) \cup LettersOf(us)
  BY <1>1, <1>2, <1>3, <1>4, <1>5
<1>10. ASSUME NEW p
       PROVE  p \in TiesOf(vs) <=> p \in TiesOf(ts) \cup TiesOf(us)
  BY <1>1, <1>2, <1>6, <1>7, <1>8
<1> QED
  BY <1>9, <1>10 DEF vs

LEMMA OneText ==
  ASSUME NEW t
  PROVE  LettersOf(<<t>>) = Preparation!Letters(t) /\ TiesOf(<<t>>) = Ties(t)
BY DEF LettersOf, TiesOf

\* Texts with letters in them, in the order of the document.
Lined(ts) ==
  /\ ts \in Seq(Seq(Int))
  /\ \A k \in 1..Len(ts) : Preparation!Letters(ts[k]) # {} /\ Preparation!InOrder(ts[k])
  /\ \A j, k \in 1..Len(ts) : j < k => Precedes(Preparation!Letters(ts[j]), Preparation!Letters(ts[k]))

LEMMA MoreLined ==
  ASSUME NEW ts, NEW us, Lined(ts), Lined(us), Precedes(LettersOf(ts), LettersOf(us))
  PROVE  Lined(ts \o us)
<1> DEFINE vs == ts \o us
           n == Len(ts)
           m == Len(us)
<1>0. ts \in Seq(Seq(Int)) /\ us \in Seq(Seq(Int))
  BY DEF Lined
<1>1. /\ n \in Nat /\ m \in Nat /\ Len(vs) = n + m /\ vs \in Seq(Seq(Int))
      /\ \A i \in 1..n : vs[i] = ts[i]
      /\ \A i \in (n + 1)..(n + m) : vs[i] = us[i - n] /\ i - n \in 1..m
      /\ \A i \in 1..(n + m) : i \in 1..n \/ i \in (n + 1)..(n + m)
  BY <1>0
<1> HIDE DEF vs, n, m
<1>2. Len(ts) = n /\ Len(us) = m
  BY DEF n, m
<1>3. ASSUME NEW k \in 1..(n + m)
      PROVE  Preparation!Letters(vs[k]) # {} /\ Preparation!InOrder(vs[k])
  BY <1>1, <1>2 DEF Lined
<1>4. ASSUME NEW j \in 1..(n + m), NEW k \in 1..(n + m), j < k
      PROVE  Precedes(Preparation!Letters(vs[j]), Preparation!Letters(vs[k]))
  <2>1. CASE k \in 1..n
    <3>1. j \in 1..n
      BY <1>1, <1>4, <2>1
    <3> QED
      BY <1>1, <1>2, <1>4, <2>1, <3>1 DEF Lined
  <2>2. CASE j \in (n + 1)..(n + m)
    <3>1. k \in (n + 1)..(n + m)
      BY <1>1, <1>4, <2>2
    <3>2. j - n < k - n /\ j - n \in 1..m /\ k - n \in 1..m
      BY <1>1, <1>4, <2>2, <3>1
    <3> QED
      BY <1>1, <1>2, <2>2, <3>1, <3>2 DEF Lined
  <2>3. CASE j \in 1..n /\ k \in (n + 1)..(n + m)
    <3>1. Preparation!Letters(vs[j]) \subseteq LettersOf(ts)
      BY <1>1, <1>2, <2>3 DEF LettersOf
    <3>2. Preparation!Letters(vs[k]) \subseteq LettersOf(us)
      BY <1>1, <1>2, <2>3 DEF LettersOf
    <3> QED
      BY <3>1, <3>2 DEF Precedes
  <2> QED
    BY <1>1, <2>1, <2>2, <2>3
<1>5. Lined(vs)
  BY <1>1, <1>3, <1>4 DEF Lined
<1> QED
  BY <1>5 DEF vs

LEMMA OneLined ==
  ASSUME NEW t \in Seq(Int), Preparation!Letters(t) # {}, Preparation!InOrder(t)
  PROVE  Lined(<<t>>)
BY DEF Lined

\* Letters of a block without a space between them are together in one of the texts.
Runs(ts, block) == HoldsRuns({ts[k] : k \in 1..Len(ts)}, block)

LEMMA RunsFacts ==
  ASSUME NEW ts, NEW block \in Seq(Int)
  PROVE  Runs(ts, block) <=>
           \A last \in 1..Len(block) : \A first \in 1..last :
             (\A i \in first..last : block[i] > 0) =>
               \E k \in 1..Len(ts) : \A i \in first..last : block[i] \in Preparation!Letters(ts[k])
<1>1. ASSUME NEW last \in 1..Len(block), NEW first \in 1..last
      PROVE  (\A i \in first..last : ~Preparation!IsSpace(block[i])) <=> \A i \in first..last : block[i] > 0
  <2>1. \A i \in first..last : i \in 1..Len(block)
    OBVIOUS
  <2> QED
    BY <2>1, TextFacts
<1>2. ASSUME NEW last \in 1..Len(block), NEW first \in 1..last
      PROVE  (\E t \in {ts[k] : k \in 1..Len(ts)} : \A i \in first..last : block[i] \in Preparation!Letters(t))
               <=> \E k \in 1..Len(ts) : \A i \in first..last : block[i] \in Preparation!Letters(ts[k])
  OBVIOUS
<1> QED
  BY <1>1, <1>2 DEF Runs, HoldsRuns

\* The words of the first characters of a text.
WordsSoFar(words, t) ==
  /\ Lined(words)
  /\ \A k \in 1..Len(words) : /\ words[k] # <<>>
                              /\ \A i \in 1..Len(words[k]) : words[k][i] > 0
  /\ LettersOf(words) = Preparation!Letters(t)
  /\ TiesOf(words) = Ties(t)
  /\ t # <<>> /\ t[Len(t)] > 0 => /\ words # <<>>
                                  /\ words[Len(words)][Len(words[Len(words)])] = t[Len(t)]
  /\ Runs(words, t)

\* A space adds nothing, a letter behind no letter a word,
LEMMA SpaceRead ==
  ASSUME NEW t \in Seq(Int), NEW c \in Int, c <= 0, NEW words, WordsSoFar(words, t)
  PROVE  WordsSoFar(words, Append(t, c))
<1> DEFINE u == Append(t, c)
           n == Len(t)
<1>1. /\ n \in Nat /\ u \in Seq(Int) /\ Len(u) = n + 1 /\ u[n + 1] = c
      /\ \A i \in 1..n : u[i] = t[i]
  OBVIOUS
<1>2. Preparation!Letters(u) = Preparation!Letters(t) /\ Ties(u) = Ties(t)
  <2>1. ~(c > 0) /\ u = Append(t, c)
    OBVIOUS
  <2> HIDE DEF u
  <2>2. Preparation!Letters(u) = Preparation!Letters(t) \cup (IF c > 0 THEN {c} ELSE {})
    BY <2>1, LongerText
  <2>3. Ties(u) = Ties(t) \cup (IF t # <<>> /\ t[Len(t)] > 0 /\ c > 0 THEN {<<t[Len(t)], c>>} ELSE {})
    BY <2>1, LongerText
  <2> QED
    BY <2>1, <2>2, <2>3
<1> HIDE DEF u
<1>3. ASSUME NEW last \in 1..(n + 1), NEW first \in 1..last, \A i \in first..last : u[i] > 0
      PROVE  \E k \in 1..Len(words) : \A i \in first..last : u[i] \in Preparation!Letters(words[k])
  <2>1. last # n + 1
    <3>1. last \in first..last
      OBVIOUS
    <3> QED
      BY <1>1, <1>3, <3>1
  <2>2. last \in 1..n
    BY <1>1, <2>1
  <2>3. \A i \in first..last : i \in 1..n /\ u[i] = t[i]
    BY <1>1, <2>2
  <2>4. \A i \in first..last : t[i] > 0
    BY <1>3, <2>3
  <2>5. PICK k \in 1..Len(words) : \A i \in first..last : t[i] \in Preparation!Letters(words[k])
    BY <2>2, <2>4, RunsFacts DEF WordsSoFar
  <2> QED
    BY <2>3, <2>5
<1>4. Runs(words, u)
  BY <1>1, <1>3, RunsFacts
<1>5. WordsSoFar(words, u)
  BY <1>1, <1>2, <1>4 DEF WordsSoFar
<1> QED
  BY <1>5 DEF u

LEMMA WordBegun ==
  ASSUME NEW t \in Seq(Int), NEW c \in Int, c > 0, t = <<>> \/ t[Len(t)] <= 0,
         Precedes(Preparation!Letters(t), {c}), NEW words, WordsSoFar(words, t)
  PROVE  WordsSoFar(Append(words, <<c>>), Append(t, c))
<1> DEFINE u == Append(t, c)
           n == Len(t)
           word == <<c>>
           m == Len(words)
           more == Append(words, word)
<1>1. /\ n \in Nat /\ u \in Seq(Int) /\ Len(u) = n + 1 /\ u[n + 1] = c
      /\ \A i \in 1..n : u[i] = t[i]
  OBVIOUS
<1>2. Lined(words) /\ words \in Seq(Seq(Int)) /\ m \in Nat
  BY DEF WordsSoFar, Lined
<1>3. Preparation!Letters(u) = Preparation!Letters(t) \cup {c} /\ Ties(u) = Ties(t)
  <2>1. n # 0 => t[n] \in Int
    OBVIOUS
  <2>2. ~(t # <<>> /\ t[n] > 0 /\ c > 0)
    BY <2>1
  <2> QED
    BY <2>2, LongerText
<1>4. /\ word \in Seq(Int) /\ Preparation!Letters(word) = {c} /\ Ties(word) = {}
      /\ Preparation!InOrder(word)
  <2>1. word \in Seq(Int) /\ Len(word) = 1 /\ word[1] = c
    OBVIOUS
  <2> HIDE DEF word
  <2>2. Preparation!Letters(word) = {c}
    <3>1. \A p : p \in Preparation!Letters(word) <=> \E i \in 1..1 : word[i] = p /\ p > 0
      BY <2>1, TextFacts
    <3>2. \A p : p \in Preparation!Letters(word) <=> p = c
      BY <2>1, <3>1
    <3> QED
      BY <3>2
  <2>3. Ties(word) = {}
    BY <2>1, TextFacts
  <2>4. Preparation!InOrder(word)
    BY <2>1, TextFacts
  <2> QED
    BY <2>1, <2>2, <2>3, <2>4
<1>5. /\ more = words \o <<word>> /\ Len(more) = m + 1 /\ more[m + 1] = word
      /\ \A k \in 1..m : more[k] = words[k]
      /\ \A k \in 1..(m + 1) : k \in 1..m \/ k = m + 1
  <2>1. words \in Seq(Seq(Int)) /\ word \in Seq(Int)
    BY <1>2, <1>4
  <2> HIDE DEF word
  <2>2. Append(words, word) = words \o <<word>>
    BY <2>1
  <2>3. /\ Len(more) = m + 1 /\ more[m + 1] = word
        /\ \A k \in 1..m : more[k] = words[k]
    BY <2>1
  <2>4. \A k \in 1..(m + 1) : k \in 1..m \/ k = m + 1
    BY <1>2
  <2> QED
    BY <2>2, <2>3, <2>4
<1>6. LettersOf(<<word>>) = {c} /\ TiesOf(<<word>>) = {} /\ Lined(<<word>>)
  <2> HIDE DEF word
  <2>1. LettersOf(<<word>>) = Preparation!Letters(word) /\ TiesOf(<<word>>) = Ties(word)
    BY OneText
  <2>2. Lined(<<word>>)
    BY <1>4, OneLined
  <2> QED
    BY <1>4, <2>1, <2>2
<1>7. Lined(more)
  <2>1. Precedes(LettersOf(words), LettersOf(<<word>>))
    BY <1>6 DEF WordsSoFar
  <2> HIDE DEF more, word
  <2> QED
    BY <1>2, <1>5, <1>6, <2>1, MoreLined
<1>8. LettersOf(more) = LettersOf(words) \cup {c} /\ TiesOf(more) = TiesOf(words)
  <2>1. <<word>> \in Seq(Seq(Int))
    BY <1>4
  <2> HIDE DEF more, word
  <2>2. LettersOf(words \o <<word>>) = LettersOf(words) \cup LettersOf(<<word>>)
    BY <1>2, <2>1, MoreTexts
  <2>3. TiesOf(words \o <<word>>) = TiesOf(words) \cup TiesOf(<<word>>)
    BY <1>2, <2>1, MoreTexts
  <2> QED
    BY <1>5, <1>6, <2>2, <2>3
<1> HIDE DEF u, more, n, m
<1>9. ASSUME NEW last \in 1..(n + 1), NEW first \in 1..last, \A i \in first..last : u[i] > 0
      PROVE  \E k \in 1..(m + 1) : \A i \in first..last : u[i] \in Preparation!Letters(more[k])
  <2>1. CASE last = n + 1
    <3>1. first = n + 1
      <4> SUFFICES ASSUME first # n + 1
                   PROVE  FALSE
        OBVIOUS
      <4>1. n \in first..last /\ n \in 1..n /\ n # 0
        BY <1>1, <2>1
      <4>2. t[n] > 0
        BY <1>1, <1>9, <4>1
      <4>3. t # <<>> /\ t[n] \in Int
        BY <4>1 DEF n
      <4> QED
        BY <4>2, <4>3 DEF n
    <3>2. \A i \in first..last : u[i] = c
      BY <1>1, <2>1, <3>1
    <3>3. m + 1 \in 1..(m + 1)
      BY <1>2
    <3> QED
      BY <1>4, <1>5, <3>2, <3>3
  <2>2. CASE last # n + 1
    <3>1. last \in 1..n
      BY <1>1, <2>2
    <3>2. \A i \in first..last : i \in 1..n /\ u[i] = t[i]
      BY <1>1, <3>1
    <3>3. \A i \in first..last : t[i] > 0
      BY <1>9, <3>2
    <3>4. PICK k \in 1..m : \A i \in first..last : t[i] \in Preparation!Letters(words[k])
      BY <3>1, <3>3, RunsFacts DEF WordsSoFar, n, m
    <3>5. k \in 1..(m + 1)
      BY <1>2
    <3> QED
      BY <1>5, <3>2, <3>4, <3>5
  <2> QED
    BY <2>1, <2>2
<1>10. Runs(more, u)
  BY <1>1, <1>5, <1>9, RunsFacts
<1>11. \A k \in 1..(m + 1) : more[k] # <<>> /\ \A i \in 1..Len(more[k]) : more[k][i] > 0
  <2>1. word # <<>> /\ \A i \in 1..Len(word) : word[i] > 0
    OBVIOUS
  <2> HIDE DEF word
  <2> QED
    BY <1>5, <2>1 DEF WordsSoFar, m
<1>12. more # <<>> /\ more[Len(more)][Len(more[Len(more)])] = c
  <2>1. more # <<>>
    BY <1>2, <1>5
  <2>2. more[Len(more)] = word
    BY <1>5
  <2> QED
    BY <2>1, <2>2
<1>13. LettersOf(more) = Preparation!Letters(u) /\ TiesOf(more) = Ties(u)
  BY <1>3, <1>8 DEF WordsSoFar
<1>14. WordsSoFar(more, u)
  BY <1>1, <1>5, <1>7, <1>10, <1>11, <1>12, <1>13 DEF WordsSoFar
<1> QED
  BY <1>14 DEF more, u

\* A sequence is what is in front of its last element and that element.
LEMMA LastReplaced ==
  ASSUME NEW T, NEW s \in Seq(T), s # <<>>, NEW x \in T
  PROVE  LET n == Len(s)
             front == SubSeq(s, 1, n - 1)
         IN /\ front \in Seq(T) /\ Len(front) = n - 1 /\ \A k \in 1..(n - 1) : front[k] = s[k]
            /\ s = front \o <<s[n]>>
            /\ [s EXCEPT ![n] = x] = front \o <<x>>
<1> DEFINE n == Len(s)
           front == SubSeq(s, 1, n - 1)
<1>1. n \in Nat /\ n # 0
  OBVIOUS
<1>2. front \in Seq(T) /\ Len(front) = n - 1 /\ \A k \in 1..(n - 1) : front[k] = s[k]
  <2> DEFINE m == n - 1
  <2>1. m \in Nat /\ m <= n /\ \A k \in 1..m : k \in 1..n /\ k + 1 - 1 = k
    BY <1>1
  <2> HIDE DEF m, n
  <2>2. /\ SubSeq(s, 1, m) \in Seq(T) /\ Len(SubSeq(s, 1, m)) = m
        /\ \A k \in 1..m : SubSeq(s, 1, m)[k] = s[k]
    BY <2>1 DEF n
  <2> QED
    BY <2>2 DEF m, front
<1> HIDE DEF front
<1>3. ASSUME NEW y \in T
      PROVE  front \o <<y>> = [k \in 1..n |-> IF k = n THEN y ELSE s[k]]
  <2> DEFINE long == front \o <<y>>
  <2>1. /\ long \in Seq(T) /\ Len(long) = n /\ long[n] = y
        /\ \A k \in 1..(n - 1) : long[k] = front[k]
    BY <1>1, <1>2
  <2> HIDE DEF long
  <2>2. long = [k \in 1..n |-> long[k]]
    BY <2>1
  <2>3. \A k \in 1..n : long[k] = IF k = n THEN y ELSE s[k]
    BY <1>1, <1>2, <2>1
  <2> QED
    BY <2>2, <2>3 DEF long
<1>4. s = [k \in 1..n |-> s[k]]
  OBVIOUS
<1>5. [s EXCEPT ![n] = x] = [k \in 1..n |-> IF k = n THEN x ELSE s[k]]
  BY <1>1, <1>4
<1>6. s[n] \in T
  BY <1>1
<1>7. s = [k \in 1..n |-> IF k = n THEN s[n] ELSE s[k]]
  <2>1. \A k \in 1..n : s[k] = IF k = n THEN s[n] ELSE s[k]
    OBVIOUS
  <2> QED
    BY <1>4, <2>1
<1> QED
  BY <1>2, <1>3, <1>5, <1>6, <1>7 DEF front

\* and a letter behind a letter continues the last word.
LEMMA WordContinued ==
  ASSUME NEW t \in Seq(Int), NEW c \in Int, c > 0, t # <<>>, t[Len(t)] > 0,
         Precedes(Preparation!Letters(t), {c}), NEW words, WordsSoFar(words, t)
  PROVE  WordsSoFar([words EXCEPT ![Len(words)] = Append(@, c)], Append(t, c))
<1> DEFINE u == Append(t, c)
           n == Len(t)
           m == Len(words)
           front == SubSeq(words, 1, m - 1)
           word == words[m]
           longer == Append(word, c)
           more == [words EXCEPT ![m] = longer]
<1>1. /\ n \in Nat /\ u \in Seq(Int) /\ Len(u) = n + 1 /\ u[n + 1] = c
      /\ \A i \in 1..n : u[i] = t[i]
  OBVIOUS
<1>2. Lined(words) /\ words \in Seq(Seq(Int)) /\ m \in Nat /\ m # 0
  BY DEF WordsSoFar, Lined
<1>3. /\ word \in Seq(Int) /\ word # <<>> /\ Len(word) \in Nat /\ word[Len(word)] = t[n]
      /\ \A i \in 1..Len(word) : word[i] > 0
  BY <1>2 DEF WordsSoFar
<1>4. /\ front \in Seq(Seq(Int)) /\ Len(front) = m - 1 /\ \A k \in 1..(m - 1) : front[k] = words[k]
      /\ words = front \o <<word>>
  <2> HIDE DEF front, word
  <2> QED
    BY <1>2, <1>3, LastReplaced DEF front, word
<1>5. /\ longer \in Seq(Int) /\ longer # <<>> /\ longer[Len(longer)] = c
      /\ \A i \in 1..Len(longer) : longer[i] > 0
  <2>1. /\ longer \in Seq(Int) /\ Len(longer) = Len(word) + 1 /\ longer[Len(word) + 1] = c
        /\ \A i \in 1..Len(word) : longer[i] = word[i]
    BY <1>3
  <2>2. \A i \in 1..(Len(word) + 1) : i \in 1..Len(word) \/ i = Len(word) + 1
    BY <1>3
  <2> HIDE DEF longer, word
  <2> QED
    BY <1>3, <2>1, <2>2, SMTT(30)
<1>6. /\ more \in Seq(Seq(Int)) /\ Len(more) = m /\ more[m] = longer
      /\ \A k \in 1..(m - 1) : more[k] = words[k]
      /\ more = front \o <<longer>>
  <2> HIDE DEF longer
  <2>1. /\ more \in Seq(Seq(Int)) /\ Len(more) = m /\ more[m] = longer
        /\ \A k \in 1..(m - 1) : more[k] = words[k]
    BY <1>2, <1>5
  <2>2. more = front \o <<longer>>
    BY <1>2, <1>5, LastReplaced, SMTT(30)
  <2> QED
    BY <2>1, <2>2
<1>7. /\ \A k \in 1..m : k \in 1..(m - 1) \/ k = m
      /\ \A k \in 1..(m - 1) : k \in 1..m
      /\ m \in 1..m
  BY <1>2
<1> HIDE DEF u, n, m, front, word, longer, more
<1>8. Preparation!Letters(u) = Preparation!Letters(t) \cup {c} /\ Ties(u) = Ties(t) \cup {<<t[n], c>>}
  BY LongerText DEF u, n
<1>9. /\ Preparation!Letters(longer) = Preparation!Letters(word) \cup {c}
      /\ Ties(longer) = Ties(word) \cup {<<t[n], c>>}
      /\ Preparation!InOrder(longer)
  <2>1. word[Len(word)] > 0
    BY <1>3
  <2>2. Preparation!Letters(longer) = Preparation!Letters(word) \cup {c}
    BY <1>3, LongerText DEF longer
  <2>3. Ties(longer) = Ties(word) \cup {<<t[n], c>>}
    BY <1>3, <2>1, LongerText DEF longer
  <2>4. Preparation!InOrder(word)
    BY <1>2, <1>7 DEF Lined, word, m
  <2>5. Preparation!Letters(word) \subseteq Preparation!Letters(t)
    <3>1. Preparation!Letters(word) \subseteq LettersOf(words)
      BY <1>7 DEF LettersOf, word, m
    <3> QED
      BY <3>1 DEF WordsSoFar
  <2>6. Precedes(Preparation!Letters(word), {c})
    BY <2>5 DEF Precedes
  <2>7. Preparation!InOrder(longer)
    BY <1>3, <2>4, <2>6, LongerText DEF longer
  <2> QED
    BY <2>2, <2>3, <2>7
<1>10. Lined(front)
  <2>1. \A k \in 1..(m - 1) : Preparation!Letters(front[k]) # {} /\ Preparation!InOrder(front[k])
    BY <1>2, <1>4, <1>7 DEF Lined, m
  <2>2. \A j, k \in 1..(m - 1) : j < k => Precedes(Preparation!Letters(front[j]), Preparation!Letters(front[k]))
    BY <1>2, <1>4, <1>7 DEF Lined, m
  <2> QED
    BY <1>4, <2>1, <2>2 DEF Lined
<1>11. /\ LettersOf(words) = LettersOf(front) \cup Preparation!Letters(word)
       /\ TiesOf(words) = TiesOf(front) \cup Ties(word)
  <2>1. <<word>> \in Seq(Seq(Int))
    BY <1>3
  <2>2. LettersOf(front \o <<word>>) = LettersOf(front) \cup LettersOf(<<word>>)
    BY <1>4, <2>1, MoreTexts
  <2>3. TiesOf(front \o <<word>>) = TiesOf(front) \cup TiesOf(<<word>>)
    BY <1>4, <2>1, MoreTexts
  <2> QED
    BY <1>4, <2>2, <2>3, OneText
<1>12. /\ LettersOf(more) = LettersOf(front) \cup Preparation!Letters(longer)
       /\ TiesOf(more) = TiesOf(front) \cup Ties(longer)
  <2>1. <<longer>> \in Seq(Seq(Int))
    BY <1>5
  <2>2. LettersOf(front \o <<longer>>) = LettersOf(front) \cup LettersOf(<<longer>>)
    BY <1>4, <2>1, MoreTexts
  <2>3. TiesOf(front \o <<longer>>) = TiesOf(front) \cup TiesOf(<<longer>>)
    BY <1>4, <2>1, MoreTexts
  <2> QED
    BY <1>6, <2>2, <2>3, OneText
<1>13. LettersOf(more) = Preparation!Letters(u) /\ TiesOf(more) = Ties(u)
  BY <1>8, <1>9, <1>11, <1>12 DEF WordsSoFar
<1>14. Lined(more)
  <2>1. Precedes(LettersOf(front), Preparation!Letters(word))
    <3> SUFFICES ASSUME NEW p \in LettersOf(front), NEW q \in Preparation!Letters(word)
                 PROVE  p < q
      BY DEF Precedes
    <3>1. PICK k \in 1..(m - 1) : p \in Preparation!Letters(words[k])
      BY <1>4 DEF LettersOf
    <3>2. k < m /\ k \in 1..m
      BY <1>2
    <3>3. Precedes(Preparation!Letters(words[k]), Preparation!Letters(words[m]))
      BY <1>2, <1>7, <3>2 DEF Lined, m
    <3> QED
      BY <3>1, <3>3 DEF Precedes, word
  <2>2. LettersOf(front) \subseteq Preparation!Letters(t)
    BY <1>11 DEF WordsSoFar
  <2>3. Precedes(LettersOf(front), Preparation!Letters(longer))
    BY <1>9, <2>1, <2>2 DEF Precedes
  <2>4. Lined(<<longer>>)
    BY <1>5, <1>9, OneLined
  <2>5. LettersOf(<<longer>>) = Preparation!Letters(longer)
    BY OneText
  <2> QED
    BY <1>6, <1>10, <2>3, <2>4, <2>5, MoreLined
<1>15. \A k \in 1..m : more[k] # <<>> /\ \A i \in 1..Len(more[k]) : more[k][i] > 0
  BY <1>5, <1>6, <1>7 DEF WordsSoFar, m
<1>16. t[n] \in Preparation!Letters(word)
  <2>1. Len(word) \in 1..Len(word)
    BY <1>3
  <2> QED
    BY <1>3, <2>1, TextFacts
<1>17. ASSUME NEW k \in 1..m
       PROVE  Preparation!Letters(words[k]) \subseteq Preparation!Letters(more[k])
  BY <1>6, <1>7, <1>9 DEF word
<1>18. ASSUME NEW last \in 1..(n + 1), NEW first \in 1..last, \A i \in first..last : u[i] > 0
       PROVE  \E k \in 1..m : \A i \in first..last : u[i] \in Preparation!Letters(more[k])
  <2>1. CASE last \in 1..n
    <3>1. \A i \in first..last : i \in 1..n /\ u[i] = t[i]
      BY <1>1, <2>1
    <3>2. \A i \in first..last : t[i] > 0
      BY <1>18, <3>1
    <3>3. PICK k \in 1..m : \A i \in first..last : t[i] \in Preparation!Letters(words[k])
      BY <2>1, <3>2, RunsFacts DEF WordsSoFar, n, m
    <3> QED
      BY <1>17, <3>1, <3>3
  <2>2. CASE last = n + 1 /\ first = n + 1
    <3>1. \A i \in first..last : u[i] = c
      BY <1>1, <2>2
    <3> QED
      BY <1>6, <1>7, <1>9, <3>1
  <2>3. CASE last = n + 1 /\ first # n + 1
    <3>1. n \in 1..n /\ first \in 1..n
      BY <1>1, <2>3
    <3>2. \A i \in first..n : i \in first..last /\ i \in 1..n /\ u[i] = t[i]
      BY <1>1, <2>3, <3>1
    <3>3. \A i \in first..n : t[i] > 0
      BY <1>18, <3>2
    <3>4. PICK k \in 1..m : \A i \in first..n : t[i] \in Preparation!Letters(words[k])
      BY <3>1, <3>3, RunsFacts DEF WordsSoFar, n, m
    <3>5. k = m
      <4> SUFFICES ASSUME k # m
                   PROVE  FALSE
        OBVIOUS
      <4>1. k < m
        BY <1>2
      <4>2. Precedes(Preparation!Letters(words[k]), Preparation!Letters(words[m]))
        BY <1>2, <1>7, <4>1 DEF Lined, m
      <4>3. t[n] \in Preparation!Letters(words[k])
        BY <3>1, <3>4
      <4>4. t[n] < t[n] /\ t[n] \in Int
        BY <1>1, <1>16, <3>1, <4>2, <4>3 DEF Precedes, word, n
      <4> QED
        BY <4>4
    <3>6. \A i \in first..last : i \in first..n \/ i = n + 1
      BY <1>1, <2>3
    <3>7. \A i \in first..last : u[i] \in Preparation!Letters(more[m])
      BY <1>1, <1>6, <1>7, <1>9, <1>17, <3>2, <3>4, <3>5, <3>6
    <3> QED
      BY <1>7, <3>7
  <2>4. last \in 1..n \/ last = n + 1
    BY <1>1
  <2> QED
    BY <2>1, <2>2, <2>3, <2>4
<1>19. Runs(more, u)
  BY <1>1, <1>6, <1>18, RunsFacts
<1>20. WordsSoFar(more, u)
  <2>1. more # <<>> /\ more[Len(more)][Len(more[Len(more)])] = u[Len(u)]
    BY <1>1, <1>2, <1>5, <1>6
  <2> QED
    BY <1>6, <1>13, <1>14, <1>15, <1>19, <2>1 DEF WordsSoFar
<1> QED
  BY <1>20 DEF more, u, m, longer, word

\* The words of a text.
LEMMA WordsOfText ==
  ASSUME NEW text \in Seq(Int), Preparation!InOrder(text)
  PROVE  WordsSoFar(Preparation!Words(text), text)
<1> DEFINE n == Len(text)
           Next1(words, i) == Preparation!NextWord(words, text, i)
           Rec(g, m) == [i \in 0..m |-> IF i = 0 THEN <<>> ELSE Next1(g[i - 1], i)]
           S == {m \in Nat : m <= n => \E g : g = Rec(g, m)}
<1>0. n \in Nat
  OBVIOUS
<1> HIDE DEF Next1
<1>1. 0 \in S
  <2>0. 0..0 = {0}
    OBVIOUS
  <2>1. [i \in 0..0 |-> <<>>] = Rec([i \in 0..0 |-> <<>>], 0)
    BY <2>0
  <2> QED
    BY <2>1
<1>2. \A m \in Nat : m \in S => m + 1 \in S
  <2> SUFFICES ASSUME NEW m \in Nat, m + 1 <= n, \E g : g = Rec(g, m)
               PROVE  \E h : h = Rec(h, m + 1)
    <3> HIDE DEF Rec, n
    <3> QED
      BY <1>0
  <2>1. PICK g : g = Rec(g, m)
    OBVIOUS
  <2> DEFINE h == [i \in 0..(m + 1) |-> IF i = m + 1 THEN Next1(g[m], m + 1) ELSE g[i]]
  <2>2. \A i \in 0..(m + 1) : h[i] = IF i = 0 THEN <<>> ELSE Next1(h[i - 1], i)
    <3> SUFFICES ASSUME NEW i \in 0..(m + 1)
                 PROVE  h[i] = IF i = 0 THEN <<>> ELSE Next1(h[i - 1], i)
      OBVIOUS
    <3>1. CASE i = m + 1
      BY <3>1
    <3>2. CASE i # m + 1
      <4>1. i \in 0..m /\ h[i] = g[i]
        BY <3>2
      <4>2. g[i] = IF i = 0 THEN <<>> ELSE Next1(g[i - 1], i)
        BY <2>1, <4>1
      <4>3. i # 0 => h[i - 1] = g[i - 1]
        BY <3>2
      <4> QED
        BY <4>1, <4>2, <4>3
    <3> QED
      BY <3>1, <3>2
  <2>3. h = Rec(h, m + 1)
    BY <2>2
  <2> QED
    BY <2>3
<1>3. \E g : g = Rec(g, n)
  <2>1. Nat \subseteq S
    <3> HIDE DEF S
    <3> QED
      BY <1>1, <1>2, Induction
  <2> QED
    BY <1>0, <2>1
<1> DEFINE words == CHOOSE g : g = Rec(g, n)
<1>4. words = Rec(words, n)
  BY <1>3
<1>5. Preparation!Words(text) = words[n]
  BY DEF Preparation!Words, Next1
<1> HIDE DEF words
<1>6. words[0] = <<>> /\ \A i \in 1..n : words[i] = Next1(words[i - 1], i)
  BY <1>0, <1>4
<1> DEFINE first(i) == SubSeq(text, 1, i)
           U == {m \in Nat : m <= n => WordsSoFar(words[m], first(m))}
<1>7. \A i \in 0..n : first(i) \in Seq(Int) /\ Len(first(i)) = i /\ \A j \in 1..i : first(i)[j] = text[j]
  <2> SUFFICES ASSUME NEW i \in 0..n
               PROVE  first(i) \in Seq(Int) /\ Len(first(i)) = i /\ \A j \in 1..i : first(i)[j] = text[j]
    OBVIOUS
  <2>1. i \in Nat /\ i <= n /\ \A k \in 1..i : k \in 1..n /\ k + 1 - 1 = k
    BY <1>0
  <2> QED
    BY <2>1
<1>8. \A i \in 1..n : first(i) = Append(first(i - 1), text[i])
  <2> SUFFICES ASSUME NEW i \in 1..n
               PROVE  first(i) = Append(first(i - 1), text[i])
    OBVIOUS
  <2>1. i \in 0..n /\ i - 1 \in 0..n /\ i \in Nat
    BY <1>0
  <2>2. /\ first(i) \in Seq(Int) /\ Len(first(i)) = i /\ \A j \in 1..i : first(i)[j] = text[j]
        /\ first(i - 1) \in Seq(Int) /\ Len(first(i - 1)) = i - 1
        /\ \A j \in 1..(i - 1) : first(i - 1)[j] = text[j]
    BY <1>7, <2>1
  <2> DEFINE long == Append(first(i - 1), text[i])
  <2> HIDE DEF first
  <2>3. /\ long \in Seq(Int) /\ Len(long) = i /\ long[i] = text[i]
        /\ \A j \in 1..(i - 1) : long[j] = text[j]
    BY <2>1, <2>2
  <2> HIDE DEF long
  <2>4. long = [j \in 1..i |-> long[j]] /\ first(i) = [j \in 1..i |-> first(i)[j]]
    BY <2>2, <2>3
  <2>5. \A j \in 1..i : long[j] = first(i)[j]
    <3>1. \A j \in 1..i : j = i \/ j \in 1..(i - 1)
      BY <2>1
    <3> QED
      BY <2>2, <2>3, <3>1
  <2>6. long = first(i)
    BY <2>4, <2>5
  <2> QED
    BY <2>6 DEF long
<1>9. first(0) = <<>> /\ first(n) = text
  <2>1. 0 \in 0..n /\ n \in 0..n
    BY <1>0
  <2>2. /\ Len(first(0)) = 0 /\ first(0) \in Seq(Int) /\ Len(first(n)) = n /\ first(n) \in Seq(Int)
        /\ \A j \in 1..n : first(n)[j] = text[j]
    BY <1>7, <2>1
  <2> HIDE DEF first
  <2>3. first(n) = [j \in 1..n |-> first(n)[j]] /\ text = [j \in 1..n |-> text[j]]
    BY <2>2
  <2> QED
    BY <2>2, <2>3
<1>10. 0 \in U
  <2>1. Lined(<<>>)
    BY DEF Lined
  <2>2. LettersOf(<<>>) = {} /\ TiesOf(<<>>) = {} /\ Preparation!Letters(<<>>) = {} /\ Ties(<<>>) = {}
    BY DEF LettersOf, TiesOf, Preparation!Letters, Ties
  <2>3. Runs(<<>>, <<>>)
    BY DEF Runs, HoldsRuns
  <2>4. \A k \in 1..Len(<<>>) : FALSE
    OBVIOUS
  <2>5. WordsSoFar(<<>>, <<>>)
    BY <2>1, <2>2, <2>3, <2>4, Zenon DEF WordsSoFar
  <2> QED
    BY <1>6, <1>9, <2>5
<1>11. \A m \in Nat : m \in U => m + 1 \in U
  <2> SUFFICES ASSUME NEW m \in Nat, m + 1 <= n, WordsSoFar(words[m], first(m))
               PROVE  WordsSoFar(words[m + 1], first(m + 1))
    BY <1>0
  <2> DEFINE i == m + 1
             c == text[i]
             t == first(m)
             w == words[m]
  <2>1. i \in 1..n /\ i - 1 = m /\ m \in 0..n
    BY <1>0
  <2>2. first(i) = Append(t, c) /\ words[i] = Next1(w, i)
    BY <1>6, <1>8, <2>1
  <2>3. t \in Seq(Int) /\ Len(t) = m /\ \A j \in 1..m : t[j] = text[j]
    BY <1>7, <2>1
  <2>4. c \in Int
    BY <2>1
  <2> HIDE DEF first
  <2>5. c > 0 => Precedes(Preparation!Letters(t), {c})
    <3> SUFFICES ASSUME c > 0, NEW p \in Preparation!Letters(t)
                 PROVE  p < c
      BY DEF Precedes
    <3>1. PICK j \in 1..m : t[j] = p /\ p > 0
      BY <2>3, TextFacts
    <3>2. j \in 1..n /\ j < i /\ text[j] = p
      BY <1>0, <2>1, <2>3, <3>1
    <3> QED
      BY <2>1, <3>1, <3>2, TextFacts
  <2>6. m # 0 => t # <<>> /\ t[Len(t)] = text[i - 1] /\ text[i - 1] \in Int
    BY <1>0, <2>1, <2>3
  <2>7. m = 0 => t = <<>>
    BY <2>3
  <2>8. i > 1 <=> m # 0
    BY <2>1
  <2> HIDE DEF i, c, t, w
  <2>9. WordsSoFar(w, t)
    BY DEF w, t
  <2>10. CASE c <= 0
    <3>1. Next1(w, i) = w
      BY <2>10 DEF Next1, Preparation!NextWord, Preparation!IsSpace, c
    <3> QED
      BY <2>2, <2>3, <2>4, <2>9, <2>10, <3>1, SpaceRead DEF i
  <2>11. CASE c > 0 /\ m # 0 /\ text[i - 1] > 0
    <3>1. ~Preparation!IsSpace(text[i]) /\ ~Preparation!IsSpace(text[i - 1]) /\ i > 1
      BY <2>4, <2>6, <2>8, <2>11 DEF Preparation!IsSpace, c
    <3>2. Next1(w, i) = [w EXCEPT ![Len(w)] = Append(@, c)]
      BY <3>1 DEF Next1, Preparation!NextWord, c
    <3>3. WordsSoFar([w EXCEPT ![Len(w)] = Append(@, c)], Append(t, c))
      BY <2>3, <2>4, <2>5, <2>6, <2>9, <2>11, WordContinued
    <3> QED
      BY <2>2, <3>2, <3>3 DEF i
  <2>12. CASE c > 0 /\ (m = 0 \/ text[i - 1] <= 0)
    <3>1. ~Preparation!IsSpace(text[i]) /\ ~(i > 1 /\ ~Preparation!IsSpace(text[i - 1]))
      BY <2>4, <2>8, <2>12 DEF Preparation!IsSpace, c
    <3>2. Next1(w, i) = Append(w, <<c>>)
      BY <3>1 DEF Next1, Preparation!NextWord, c
    <3>3. t = <<>> \/ t[Len(t)] <= 0
      BY <2>6, <2>7, <2>12
    <3>4. WordsSoFar(Append(w, <<c>>), Append(t, c))
      BY <2>3, <2>4, <2>5, <2>9, <2>12, <3>3, WordBegun
    <3> QED
      BY <2>2, <3>2, <3>4 DEF i
  <2> QED
    BY <2>4, <2>6, <2>10, <2>11, <2>12
<1>12. n \in U
  <2> HIDE DEF U, n
  <2> QED
    BY <1>0, <1>10, <1>11, Induction
<1>13. n <= n => WordsSoFar(words[n], first(n))
  BY <1>12
<1> HIDE DEF first, n
<1> QED
  BY <1>0, <1>5, <1>9, <1>13

\* The first elements of a sequence, one more at a time.
Grows(s, T) ==
  LET n == Len(s)
  IN /\ SubSeq(s, 1, 0) = <<>> /\ SubSeq(s, 1, n) = s
     /\ \A i \in 0..n : SubSeq(s, 1, i) \in Seq(T) /\ Len(SubSeq(s, 1, i)) = i
     /\ \A i \in 0..n : \A j \in 1..i : SubSeq(s, 1, i)[j] = s[j]
     /\ \A i \in 1..n : SubSeq(s, 1, i) = Append(SubSeq(s, 1, i - 1), s[i])

LEMMA FirstElements ==
  ASSUME NEW T, NEW s \in Seq(T)
  PROVE  Grows(s, T)
<1> DEFINE n == Len(s)
           first(i) == SubSeq(s, 1, i)
<1>0. n \in Nat /\ \A i \in 1..n : s[i] \in T
  OBVIOUS
<1>1. \A i \in 0..n : first(i) \in Seq(T) /\ Len(first(i)) = i /\ \A j \in 1..i : first(i)[j] = s[j]
  <2> SUFFICES ASSUME NEW i \in 0..n
               PROVE  first(i) \in Seq(T) /\ Len(first(i)) = i /\ \A j \in 1..i : first(i)[j] = s[j]
    OBVIOUS
  <2>1. i \in Nat /\ i <= n /\ \A k \in 1..i : k \in 1..n /\ k + 1 - 1 = k
    BY <1>0
  <2> QED
    BY <2>1
<1> HIDE DEF first
<1>2. \A i \in 1..n : first(i) = Append(first(i - 1), s[i])
  <2> SUFFICES ASSUME NEW i \in 1..n
               PROVE  first(i) = Append(first(i - 1), s[i])
    OBVIOUS
  <2>1. i \in 0..n /\ i - 1 \in 0..n /\ i \in Nat /\ s[i] \in T
    BY <1>0
  <2>2. /\ first(i) \in Seq(T) /\ Len(first(i)) = i /\ \A j \in 1..i : first(i)[j] = s[j]
        /\ first(i - 1) \in Seq(T) /\ Len(first(i - 1)) = i - 1
        /\ \A j \in 1..(i - 1) : first(i - 1)[j] = s[j]
    BY <1>1, <2>1
  <2> DEFINE long == Append(first(i - 1), s[i])
  <2>3. /\ long \in Seq(T) /\ Len(long) = i /\ long[i] = s[i]
        /\ \A j \in 1..(i - 1) : long[j] = s[j]
    BY <2>1, <2>2
  <2> HIDE DEF long
  <2>4. long = [j \in 1..i |-> long[j]] /\ first(i) = [j \in 1..i |-> first(i)[j]]
    BY <2>2, <2>3
  <2>5. \A j \in 1..i : long[j] = first(i)[j]
    <3>1. \A j \in 1..i : j = i \/ j \in 1..(i - 1)
      BY <2>1
    <3> QED
      BY <2>2, <2>3, <3>1
  <2>6. long = first(i)
    BY <2>4, <2>5
  <2> QED
    BY <2>6 DEF long
<1>3. first(0) = <<>> /\ first(n) = s
  <2>1. 0 \in 0..n /\ n \in 0..n
    BY <1>0
  <2>2. /\ Len(first(0)) = 0 /\ first(0) \in Seq(T) /\ Len(first(n)) = n /\ first(n) \in Seq(T)
        /\ \A j \in 1..n : first(n)[j] = s[j]
    BY <1>1, <2>1
  <2>3. first(n) = [j \in 1..n |-> first(n)[j]] /\ s = [j \in 1..n |-> s[j]]
    BY <2>2
  <2> QED
    BY <2>2, <2>3
<1> QED
  BY <1>1, <1>2, <1>3 DEF first, Grows

LEMMA FirstTexts ==
  ASSUME NEW ts \in Seq(Seq(Int))
  PROVE  Grows(ts, Seq(Int))
<1> DEFINE T == Seq(Int)
<1>1. ts \in Seq(T)
  OBVIOUS
<1> HIDE DEF T
<1>2. Grows(ts, T)
  BY <1>1, FirstElements
<1> QED
  BY <1>2 DEF T

LEMMA LinedPrefix ==
  ASSUME NEW ts, Lined(ts), NEW i \in 1..Len(ts)
  PROVE  Lined(SubSeq(ts, 1, i))
<1> DEFINE first == SubSeq(ts, 1, i)
           n == Len(ts)
<1>1. ts \in Seq(Seq(Int)) /\ n \in Nat /\ i \in 0..n
  BY DEF Lined
<1>2. first \in Seq(Seq(Int)) /\ Len(first) = i /\ \A j \in 1..i : first[j] = ts[j]
  BY <1>1, FirstTexts DEF Grows
<1>3. \A j \in 1..i : j \in 1..n
  BY <1>1
<1> HIDE DEF first, n
<1>4. Lined(first)
  BY <1>2, <1>3 DEF Lined, n
<1> QED
  BY <1>4 DEF first

\* The same for one more text.
LEMMA OneMoreText ==
  ASSUME NEW ts \in Seq(Seq(Int)), NEW t \in Seq(Int)
  PROVE  LET more == Append(ts, t)
             n == Len(ts)
         IN /\ n \in Nat /\ more \in Seq(Seq(Int)) /\ Len(more) = n + 1 /\ more[n + 1] = t
            /\ \A k \in 1..n : more[k] = ts[k] /\ k \in 1..(n + 1)
            /\ \A k \in 1..(n + 1) : k \in 1..n \/ k = n + 1
            /\ n + 1 \in 1..(n + 1)
            /\ LettersOf(more) = LettersOf(ts) \cup Preparation!Letters(t)
            /\ TiesOf(more) = TiesOf(ts) \cup Ties(t)
<1> DEFINE more == Append(ts, t)
           n == Len(ts)
<1>1. /\ n \in Nat /\ more \in Seq(Seq(Int)) /\ Len(more) = n + 1 /\ more[n + 1] = t
      /\ \A k \in 1..n : more[k] = ts[k]
  OBVIOUS
<1>2. /\ \A k \in 1..n : k \in 1..(n + 1)
      /\ \A k \in 1..(n + 1) : k \in 1..n \/ k = n + 1
      /\ n + 1 \in 1..(n + 1)
  BY <1>1
<1>3. more = ts \o <<t>> /\ <<t>> \in Seq(Seq(Int))
  OBVIOUS
<1> HIDE DEF more
<1>4. LettersOf(more) = LettersOf(ts) \cup LettersOf(<<t>>)
  BY <1>3, MoreTexts
<1>5. TiesOf(more) = TiesOf(ts) \cup TiesOf(<<t>>)
  BY <1>3, MoreTexts
<1>6. /\ LettersOf(more) = LettersOf(ts) \cup Preparation!Letters(t)
      /\ TiesOf(more) = TiesOf(ts) \cup Ties(t)
  BY <1>4, <1>5, OneText
<1> QED
  BY <1>1, <1>2, <1>6 DEF more

LEMMA OneMoreLined ==
  ASSUME NEW ts \in Seq(Seq(Int)), NEW t \in Seq(Int)
  PROVE  Lined(Append(ts, t)) <=>
           /\ Lined(ts) /\ Preparation!Letters(t) # {} /\ Preparation!InOrder(t)
           /\ Precedes(LettersOf(ts), Preparation!Letters(t))
<1> DEFINE more == Append(ts, t)
           n == Len(ts)
<1>1. /\ n \in Nat /\ more \in Seq(Seq(Int)) /\ Len(more) = n + 1 /\ more[n + 1] = t
      /\ \A k \in 1..n : more[k] = ts[k] /\ k \in 1..(n + 1)
      /\ \A k \in 1..(n + 1) : k \in 1..n \/ k = n + 1
      /\ n + 1 \in 1..(n + 1)
  BY OneMoreText
<1> HIDE DEF more, n
<1>2. ASSUME Lined(more)
      PROVE  /\ Lined(ts) /\ Preparation!Letters(t) # {} /\ Preparation!InOrder(t)
             /\ Precedes(LettersOf(ts), Preparation!Letters(t))
  <2>1. Preparation!Letters(t) # {} /\ Preparation!InOrder(t)
    BY <1>1, <1>2 DEF Lined
  <2>2. \A k \in 1..n : Preparation!Letters(ts[k]) # {} /\ Preparation!InOrder(ts[k])
    BY <1>1, <1>2 DEF Lined
  <2>3. \A j, k \in 1..n : j < k => Precedes(Preparation!Letters(ts[j]), Preparation!Letters(ts[k]))
    BY <1>1, <1>2 DEF Lined
  <2>4. ASSUME NEW k \in 1..n
        PROVE  Precedes(Preparation!Letters(ts[k]), Preparation!Letters(t))
    <3>1. k < n + 1
      BY <1>1
    <3> QED
      BY <1>1, <1>2, <3>1 DEF Lined
  <2>5. Precedes(LettersOf(ts), Preparation!Letters(t))
    <3>1. LettersOf(ts) = UNION {Preparation!Letters(ts[k]) : k \in 1..n}
      BY DEF LettersOf, n
    <3> QED
      BY <2>4, <3>1 DEF Precedes
  <2>6. Lined(ts)
    BY <2>2, <2>3 DEF Lined, n
  <2> QED
    BY <2>1, <2>5, <2>6
<1>3. ASSUME Lined(ts), Preparation!Letters(t) # {}, Preparation!InOrder(t),
             Precedes(LettersOf(ts), Preparation!Letters(t))
      PROVE  Lined(more)
  <2>1. more = ts \o <<t>>
    BY DEF more
  <2>2. Lined(<<t>>) /\ LettersOf(<<t>>) = Preparation!Letters(t)
    BY <1>3, OneText, OneLined
  <2> QED
    BY <1>3, <2>1, <2>2, MoreLined
<1> QED
  BY <1>2, <1>3 DEF more

\* The words that are packed so far, in pieces that fit.
PackedSoFar(acc, words, limits) ==
  /\ acc = [pieces |-> acc.pieces, current |-> acc.current]
  /\ acc.pieces \in Seq(Seq(Int)) /\ acc.current \in Seq(Int)
  /\ words = <<>> => acc.pieces = <<>> /\ acc.current = <<>>
  /\ words # <<>> =>
       LET pieces == Append(acc.pieces, acc.current)
       IN /\ Lined(pieces)
          /\ LettersOf(pieces) = LettersOf(words) /\ TiesOf(pieces) = TiesOf(words)
          /\ \A j \in 1..Len(pieces) : Preparation!Fits(pieces[j], limits)
          /\ \A k \in 1..Len(words) : \E j \in 1..Len(pieces) :
               Preparation!Letters(words[k]) \subseteq Preparation!Letters(pieces[j])

\* Pack: one more word.
LEMMA OneMorePacked ==
  ASSUME NEW acc, NEW words, NEW word, NEW limits, PackedSoFar(acc, words, limits),
         words \in Seq(Seq(Int)), word \in Seq(Int), Lined(Append(words, word)),
         Preparation!Fits(word, limits)
  PROVE  PackedSoFar(Preparation!Pack(acc, word, limits), Append(words, word), limits)
<1> DEFINE blank == <<Preparation!Blank>>
           cand == Preparation!Join(acc.current, blank, word)
           new == Preparation!Pack(acc, word, limits)
           all == Append(acc.pieces, acc.current)
           more == Append(words, word)
           n == Len(words)
           m == Len(acc.pieces)
<1>1. /\ acc.pieces \in Seq(Seq(Int)) /\ acc.current \in Seq(Int)
      /\ acc = [pieces |-> acc.pieces, current |-> acc.current]
  BY DEF PackedSoFar
<1>2. /\ cand \in Seq(Int)
      /\ Preparation!Letters(cand) = Preparation!Letters(acc.current) \cup Preparation!Letters(word)
      /\ Ties(cand) = Ties(acc.current) \cup Ties(word)
      /\ Preparation!InOrder(acc.current) /\ Preparation!InOrder(word)
           /\ Precedes(Preparation!Letters(acc.current), Preparation!Letters(word)) => Preparation!InOrder(cand)
  <2>1. blank \in Seq(Int) /\ blank # <<>> /\ \A i \in 1..Len(blank) : blank[i] <= 0
    BY DEF Preparation!Blank
  <2> HIDE DEF blank
  <2> QED
    BY <1>1, <2>1, JoinedTexts
<1>3. /\ Lined(words) /\ Preparation!Letters(word) # {} /\ Preparation!InOrder(word)
      /\ Precedes(LettersOf(words), Preparation!Letters(word))
  BY OneMoreLined
<1>4. new = IF Preparation!Fits(cand, limits) THEN [acc EXCEPT !.current = cand]
            ELSE [pieces |-> Append(acc.pieces, acc.current), current |-> word]
  BY DEF Preparation!Pack
<1>5. /\ n \in Nat /\ more \in Seq(Seq(Int)) /\ Len(more) = n + 1 /\ more[n + 1] = word
      /\ \A k \in 1..n : more[k] = words[k]
      /\ \A k \in 1..(n + 1) : k \in 1..n \/ k = n + 1
      /\ LettersOf(more) = LettersOf(words) \cup Preparation!Letters(word)
      /\ TiesOf(more) = TiesOf(words) \cup Ties(word)
  <2> HIDE DEF more
  <2> QED
    BY OneMoreText DEF more
<1>6. ASSUME words = <<>>
      PROVE  cand = word /\ LettersOf(words) = {} /\ TiesOf(words) = {} /\ acc.pieces = <<>> /\ n = 0
  <2>1. acc.current = <<>> /\ acc.pieces = <<>>
    BY <1>6 DEF PackedSoFar
  <2>2. cand = word
    BY <2>1 DEF Preparation!Join
  <2> QED
    BY <1>6, <2>1, <2>2 DEF LettersOf, TiesOf
<1> HIDE DEF cand, new, more, n
<1>7. ASSUME words # <<>>
      PROVE  /\ Lined(all) /\ LettersOf(all) = LettersOf(words) /\ TiesOf(all) = TiesOf(words)
             /\ \A j \in 1..Len(all) : Preparation!Fits(all[j], limits)
             /\ \A k \in 1..n : \E j \in 1..Len(all) :
                  Preparation!Letters(words[k]) \subseteq Preparation!Letters(all[j])
  BY <1>7 DEF PackedSoFar, n
<1>8. CASE Preparation!Fits(cand, limits)
  <2>1. new.pieces = acc.pieces /\ new.current = cand /\ new = [pieces |-> acc.pieces, current |-> cand]
    BY <1>1, <1>4, <1>8
  <2> DEFINE pieces == Append(acc.pieces, cand)
  <2>2. /\ m \in Nat /\ pieces \in Seq(Seq(Int)) /\ Len(pieces) = m + 1 /\ pieces[m + 1] = cand
        /\ \A j \in 1..m : pieces[j] = acc.pieces[j]
        /\ \A j \in 1..(m + 1) : j \in 1..m \/ j = m + 1
        /\ m + 1 \in 1..(m + 1)
        /\ LettersOf(pieces) = LettersOf(acc.pieces) \cup Preparation!Letters(cand)
        /\ TiesOf(pieces) = TiesOf(acc.pieces) \cup Ties(cand)
    <3> HIDE DEF pieces
    <3> QED
      BY <1>1, <1>2, OneMoreText DEF pieces
  <2>3. Lined(pieces) <=>
           /\ Lined(acc.pieces) /\ Preparation!Letters(cand) # {} /\ Preparation!InOrder(cand)
           /\ Precedes(LettersOf(acc.pieces), Preparation!Letters(cand))
    BY <1>1, <1>2, OneMoreLined
  <2> HIDE DEF pieces, m
  <2>4. /\ Lined(pieces)
        /\ LettersOf(pieces) = LettersOf(more) /\ TiesOf(pieces) = TiesOf(more)
        /\ \A j \in 1..(m + 1) : Preparation!Fits(pieces[j], limits)
        /\ \A k \in 1..(n + 1) : \E j \in 1..(m + 1) :
             Preparation!Letters(more[k]) \subseteq Preparation!Letters(pieces[j])
    <3>1. CASE words = <<>>
      <4>0. m = 0
        BY <1>6, <3>1 DEF m
      <4>1. Lined(<<>>) /\ LettersOf(<<>>) = {} /\ TiesOf(<<>>) = {}
        BY DEF Lined, LettersOf, TiesOf
      <4>2. Lined(pieces)
        BY <1>3, <1>6, <2>3, <3>1, <4>1 DEF Precedes
      <4>3. LettersOf(pieces) = LettersOf(more) /\ TiesOf(pieces) = TiesOf(more)
        BY <1>5, <1>6, <2>2, <3>1, <4>1
      <4>4. \A j \in 1..(m + 1) : Preparation!Fits(pieces[j], limits)
        BY <1>8, <2>2, <4>0
      <4>5. ASSUME NEW k \in 1..(n + 1)
            PROVE  Preparation!Letters(more[k]) \subseteq Preparation!Letters(pieces[m + 1])
        BY <1>5, <1>6, <2>2, <3>1
      <4> QED
        BY <2>2, <4>2, <4>3, <4>4, <4>5
    <3>2. CASE words # <<>>
      <4>1. /\ Len(all) = m + 1 /\ all[m + 1] = acc.current
            /\ \A j \in 1..m : all[j] = acc.pieces[j]
            /\ LettersOf(all) = LettersOf(acc.pieces) \cup Preparation!Letters(acc.current)
            /\ TiesOf(all) = TiesOf(acc.pieces) \cup Ties(acc.current)
        <5> HIDE DEF all
        <5> QED
          BY <1>1, OneMoreText DEF all, m
      <4>2. /\ Lined(acc.pieces) /\ Preparation!Letters(acc.current) # {} /\ Preparation!InOrder(acc.current)
            /\ Precedes(LettersOf(acc.pieces), Preparation!Letters(acc.current))
        BY <1>1, <1>7, <3>2, OneMoreLined
      <4> HIDE DEF all
      <4>3. LettersOf(acc.pieces) \subseteq LettersOf(words) /\ Preparation!Letters(acc.current) \subseteq LettersOf(words)
        BY <1>7, <3>2, <4>1
      <4>4. /\ Precedes(LettersOf(acc.pieces), Preparation!Letters(word))
            /\ Precedes(Preparation!Letters(acc.current), Preparation!Letters(word))
        BY <1>3, <4>3 DEF Precedes
      <4>5. Lined(pieces)
        <5>1. Precedes(LettersOf(acc.pieces), Preparation!Letters(cand))
          BY <1>2, <4>2, <4>4 DEF Precedes
        <5>2. Preparation!InOrder(cand) /\ Preparation!Letters(cand) # {}
          BY <1>2, <1>3, <4>2, <4>4
        <5> QED
          BY <2>3, <4>2, <5>1, <5>2
      <4>6. LettersOf(pieces) = LettersOf(more) /\ TiesOf(pieces) = TiesOf(more)
        BY <1>2, <1>5, <1>7, <2>2, <3>2, <4>1
      <4>7. \A j \in 1..(m + 1) : Preparation!Fits(pieces[j], limits)
        BY <1>7, <1>8, <2>2, <3>2, <4>1
      <4>8. \A j \in 1..(m + 1) : Preparation!Letters(all[j]) \subseteq Preparation!Letters(pieces[j])
        BY <1>2, <2>2, <4>1
      <4>9. ASSUME NEW k \in 1..(n + 1)
            PROVE  \E j \in 1..(m + 1) : Preparation!Letters(more[k]) \subseteq Preparation!Letters(pieces[j])
        <5>1. CASE k = n + 1
          BY <1>2, <1>5, <2>2, <5>1
        <5>2. CASE k \in 1..n
          <6>1. PICK j \in 1..(m + 1) : Preparation!Letters(words[k]) \subseteq Preparation!Letters(all[j])
            BY <1>7, <3>2, <4>1, <5>2
          <6> QED
            BY <1>5, <4>8, <5>2, <6>1
        <5> QED
          BY <1>5, <5>1, <5>2
      <4> QED
        BY <4>5, <4>6, <4>7, <4>9
    <3> QED
      BY <3>1, <3>2
  <2>5. Append(new.pieces, new.current) = pieces
    BY <2>1 DEF pieces
  <2>6. more # <<>>
    BY <1>5
  <2>7. PackedSoFar(new, more, limits)
    BY <1>1, <1>2, <1>5, <2>1, <2>2, <2>4, <2>5, <2>6 DEF PackedSoFar
  <2> QED
    BY <2>7 DEF new, more
<1>9. CASE ~Preparation!Fits(cand, limits)
  <2>1. words # <<>>
    BY <1>6, <1>9
  <2>2. new.pieces = all /\ new.current = word /\ new = [pieces |-> all, current |-> word]
    BY <1>4, <1>9
  <2>3. all \in Seq(Seq(Int))
    BY <1>1
  <2> HIDE DEF all
  <2> DEFINE pieces == Append(all, word)
             l == Len(all)
  <2>4. /\ l \in Nat /\ pieces \in Seq(Seq(Int)) /\ Len(pieces) = l + 1 /\ pieces[l + 1] = word
        /\ \A j \in 1..l : pieces[j] = all[j] /\ j \in 1..(l + 1)
        /\ \A j \in 1..(l + 1) : j \in 1..l \/ j = l + 1
        /\ l + 1 \in 1..(l + 1)
        /\ LettersOf(pieces) = LettersOf(all) \cup Preparation!Letters(word)
        /\ TiesOf(pieces) = TiesOf(all) \cup Ties(word)
    <3> HIDE DEF pieces
    <3> QED
      BY <2>3, OneMoreText DEF pieces
  <2>5. Lined(pieces)
    BY <1>3, <1>7, <2>1, <2>3, OneMoreLined
  <2> HIDE DEF pieces
  <2>6. LettersOf(pieces) = LettersOf(more) /\ TiesOf(pieces) = TiesOf(more)
    BY <1>5, <1>7, <2>1, <2>4
  <2>7. \A j \in 1..(l + 1) : Preparation!Fits(pieces[j], limits)
    BY <1>7, <2>1, <2>4
  <2>8. ASSUME NEW k \in 1..(n + 1)
        PROVE  \E j \in 1..(l + 1) : Preparation!Letters(more[k]) \subseteq Preparation!Letters(pieces[j])
    <3>1. CASE k = n + 1
      BY <1>5, <2>4, <3>1
    <3>2. CASE k \in 1..n
      <4>1. PICK j \in 1..l : Preparation!Letters(words[k]) \subseteq Preparation!Letters(all[j])
        BY <1>7, <2>1, <3>2
      <4> QED
        BY <1>5, <2>4, <3>2, <4>1
    <3> QED
      BY <1>5, <3>1, <3>2
  <2>9. Append(new.pieces, new.current) = pieces
    BY <2>2 DEF pieces
  <2>10. more # <<>>
    BY <1>5
  <2>11. PackedSoFar(new, more, limits)
    BY <1>5, <2>2, <2>3, <2>4, <2>5, <2>6, <2>7, <2>8, <2>9, <2>10 DEF PackedSoFar
  <2> QED
    BY <2>11 DEF new, more
<1> QED
  BY <1>8, <1>9

\* The pieces of a block: they fit, have its letters and its ties, and divide no run.
Divides(pieces, block, limits) ==
  /\ Lined(pieces) /\ pieces # <<>>
  /\ LettersOf(pieces) = Preparation!Letters(block) /\ TiesOf(pieces) = Ties(block)
  /\ \A j \in 1..Len(pieces) : Preparation!Fits(pieces[j], limits)
  /\ Runs(pieces, block)

LEMMA BlockIsDivided ==
  ASSUME NEW block \in Seq(Int), NEW limits, Preparation!InOrder(block),
         Preparation!Letters(block) # {}, Preparation!Divisible(block, limits)
  PROVE  Divides(Preparation!SplitBlock(block, limits), block, limits)
<1> DEFINE words == Preparation!Words(block)
           n == Len(words)
           Next1(acc, i) == Preparation!Pack(acc, words[i], limits)
           Empty == [pieces |-> <<>>, current |-> <<>>]
           Rec(g, m) == [i \in 0..m |-> IF i = 0 THEN Empty ELSE Next1(g[i - 1], i)]
           S == {m \in Nat : m <= n => \E g : g = Rec(g, m)}
           packed == CHOOSE g : g = Rec(g, n)
<1>1. CASE Preparation!Fits(block, limits)
  <2>1. Preparation!SplitBlock(block, limits) = <<block>>
    BY <1>1 DEF Preparation!SplitBlock
  <2>2. Lined(<<block>>)
    BY OneLined
  <2>3. LettersOf(<<block>>) = Preparation!Letters(block) /\ TiesOf(<<block>>) = Ties(block)
    BY OneText
  <2>4. Len(<<block>>) = 1 /\ <<block>>[1] = block /\ <<block>> # <<>> /\ 1 \in 1..1
    OBVIOUS
  <2>5. \A j \in 1..Len(<<block>>) : Preparation!Fits(<<block>>[j], limits)
    BY <1>1, <2>4
  <2>6. Runs(<<block>>, block)
    <3> SUFFICES ASSUME NEW last \in 1..Len(block), NEW first \in 1..last,
                        \A i \in first..last : block[i] > 0
                 PROVE  \A i \in first..last : block[i] \in Preparation!Letters(<<block>>[1])
      BY <2>4, RunsFacts
    <3>1. \A i \in first..last : i \in 1..Len(block)
      OBVIOUS
    <3> QED
      BY <2>4, <3>1, TextFacts
  <2> QED
    BY <2>1, <2>2, <2>3, <2>4, <2>5, <2>6 DEF Divides
<1>2. CASE ~Preparation!Fits(block, limits)
  <2>1. Preparation!SplitBlock(block, limits) = Append(packed[n].pieces, packed[n].current)
    BY <1>2 DEF Preparation!SplitBlock
  <2>2. WordsSoFar(words, block) /\ \A i \in 1..n : Preparation!Fits(words[i], limits)
    BY <1>2, WordsOfText DEF Preparation!Divisible
  <2> HIDE DEF words
  <2>3. Lined(words) /\ words \in Seq(Seq(Int)) /\ n \in Nat
    BY <2>2 DEF WordsSoFar, Lined
  <2>4. n # 0
    <3> SUFFICES ASSUME n = 0
                 PROVE  FALSE
      OBVIOUS
    <3>1. LettersOf(words) = {}
      BY DEF LettersOf
    <3> QED
      BY <2>2, <3>1 DEF WordsSoFar
  <2> HIDE DEF Next1, Empty, n
  <2>5. 0 \in S
    <3>0. 0..0 = {0}
      OBVIOUS
    <3>1. [i \in 0..0 |-> Empty] = Rec([i \in 0..0 |-> Empty], 0)
      BY <3>0
    <3> QED
      BY <3>1
  <2>6. \A m \in Nat : m \in S => m + 1 \in S
    <3> SUFFICES ASSUME NEW m \in Nat, m + 1 <= n, \E g : g = Rec(g, m)
                 PROVE  \E h : h = Rec(h, m + 1)
      <4> HIDE DEF Rec
      <4> QED
        BY <2>3
    <3>1. PICK g : g = Rec(g, m)
      OBVIOUS
    <3> DEFINE h == [i \in 0..(m + 1) |-> IF i = m + 1 THEN Next1(g[m], m + 1) ELSE g[i]]
    <3>2. \A i \in 0..(m + 1) : h[i] = IF i = 0 THEN Empty ELSE Next1(h[i - 1], i)
      <4> SUFFICES ASSUME NEW i \in 0..(m + 1)
                   PROVE  h[i] = IF i = 0 THEN Empty ELSE Next1(h[i - 1], i)
        OBVIOUS
      <4>1. CASE i = m + 1
        BY <4>1
      <4>2. CASE i # m + 1
        <5>1. i \in 0..m /\ h[i] = g[i]
          BY <4>2
        <5>2. g[i] = IF i = 0 THEN Empty ELSE Next1(g[i - 1], i)
          BY <3>1, <5>1
        <5>3. i # 0 => h[i - 1] = g[i - 1]
          BY <4>2
        <5> QED
          BY <5>1, <5>2, <5>3
      <4> QED
        BY <4>1, <4>2
    <3>3. h = Rec(h, m + 1)
      BY <3>2
    <3> QED
      BY <3>3
  <2>7. \E g : g = Rec(g, n)
    <3>1. Nat \subseteq S
      <4> HIDE DEF S
      <4> QED
        BY <2>5, <2>6, Induction
    <3>2. n \in S
      <4> HIDE DEF S
      <4> QED
        BY <2>3, <3>1
    <3> QED
      BY <2>3, <3>2
  <2>8. packed = Rec(packed, n)
    BY <2>7
  <2> HIDE DEF packed
  <2>9. packed[0] = Empty /\ \A i \in 1..n : packed[i] = Next1(packed[i - 1], i)
    BY <2>3, <2>8
  <2> DEFINE before(i) == SubSeq(words, 1, i)
             U == {m \in Nat : m <= n => PackedSoFar(packed[m], before(m), limits)}
  <2>10. /\ before(0) = <<>> /\ before(n) = words
         /\ \A i \in 0..n : before(i) \in Seq(Seq(Int)) /\ Len(before(i)) = i
         /\ \A i \in 1..n : before(i) = Append(before(i - 1), words[i])
    BY <2>3, FirstTexts DEF n, Grows
  <2>11. \A i \in 1..n : Lined(before(i))
    BY <2>3, LinedPrefix DEF n
  <2> HIDE DEF before
  <2>12. 0 \in U
    <3>1. Empty = [pieces |-> Empty.pieces, current |-> Empty.current] /\ Empty.pieces = <<>> /\ Empty.current = <<>>
      BY DEF Empty
    <3>2. <<>> \in Seq(Seq(Int)) /\ <<>> \in Seq(Int)
      OBVIOUS
    <3>3. PackedSoFar(Empty, <<>>, limits)
      BY <3>1, <3>2 DEF PackedSoFar
    <3> QED
      BY <2>9, <2>10, <3>3
  <2>13. \A m \in Nat : m \in U => m + 1 \in U
    <3> SUFFICES ASSUME NEW m \in Nat, m + 1 <= n, PackedSoFar(packed[m], before(m), limits)
                 PROVE  PackedSoFar(packed[m + 1], before(m + 1), limits)
      BY <2>3
    <3> DEFINE i == m + 1
    <3>1. i \in 1..n /\ i - 1 = m /\ m \in 0..n
      BY <2>3
    <3> HIDE DEF i
    <3>2. packed[i] = Preparation!Pack(packed[m], words[i], limits)
      BY <2>9, <3>1 DEF Next1
    <3>3. before(i) = Append(before(m), words[i]) /\ before(m) \in Seq(Seq(Int))
      BY <2>10, <3>1
    <3>4. words[i] \in Seq(Int) /\ Preparation!Fits(words[i], limits)
      BY <2>2, <2>3, <3>1 DEF n
    <3>5. Lined(Append(before(m), words[i]))
      BY <2>11, <3>1, <3>3
    <3>6. PackedSoFar(packed[i], before(i), limits)
      BY <3>2, <3>3, <3>4, <3>5, OneMorePacked
    <3> QED
      BY <3>6 DEF i
  <2>14. n \in U
    <3> HIDE DEF U
    <3> QED
      BY <2>3, <2>12, <2>13, Induction
  <2>15. PackedSoFar(packed[n], words, limits)
    BY <2>3, <2>10, <2>14
  <2> DEFINE pieces == Append(packed[n].pieces, packed[n].current)
  <2>16. /\ packed[n].pieces \in Seq(Seq(Int)) /\ packed[n].current \in Seq(Int)
         /\ Lined(pieces) /\ LettersOf(pieces) = LettersOf(words) /\ TiesOf(pieces) = TiesOf(words)
         /\ \A j \in 1..Len(pieces) : Preparation!Fits(pieces[j], limits)
         /\ \A k \in 1..n : \E j \in 1..Len(pieces) :
              Preparation!Letters(words[k]) \subseteq Preparation!Letters(pieces[j])
    <3>1. words # <<>>
      BY <2>4 DEF n
    <3> QED
      BY <2>15, <3>1 DEF PackedSoFar, n
  <2>17. pieces # <<>>
    BY <2>16, SMTT(30)
  <2> HIDE DEF pieces
  <2>18. Runs(pieces, block)
    <3> SUFFICES ASSUME NEW last \in 1..Len(block), NEW first \in 1..last,
                        \A i \in first..last : block[i] > 0
                 PROVE  \E j \in 1..Len(pieces) : \A i \in first..last : block[i] \in Preparation!Letters(pieces[j])
      BY RunsFacts
    <3>1. PICK k \in 1..n : \A i \in first..last : block[i] \in Preparation!Letters(words[k])
      BY <2>2, RunsFacts DEF WordsSoFar, n
    <3> QED
      BY <2>16, <3>1
  <2> QED
    BY <2>1, <2>2, <2>16, <2>17, <2>18 DEF Divides, pieces, WordsSoFar
<1> QED
  BY <1>1, <1>2

\* A concatenation grows by one sequence at a time.
LEMMA ConcatGrows ==
  ASSUME NEW ss, Len(ss) \in Nat
  PROVE  \E upTo : /\ upTo[0] = <<>>
                   /\ \A i \in 1..Len(ss) : upTo[i] = upTo[i - 1] \o ss[i]
                   /\ Preparation!Concat(ss) = upTo[Len(ss)]
<1> DEFINE n == Len(ss)
           Rec(g, m) == [i \in 0..m |-> IF i = 0 THEN <<>> ELSE g[i - 1] \o ss[i]]
           S == {m \in Nat : m <= n => \E g : g = Rec(g, m)}
           upTo == CHOOSE g : g = Rec(g, n)
<1>1. 0 \in S
  <2>0. 0..0 = {0}
    OBVIOUS
  <2>1. [i \in 0..0 |-> <<>>] = Rec([i \in 0..0 |-> <<>>], 0)
    BY <2>0
  <2> QED
    BY <2>1
<1>2. \A m \in Nat : m \in S => m + 1 \in S
  <2> SUFFICES ASSUME NEW m \in Nat, m + 1 <= n, \E g : g = Rec(g, m)
               PROVE  \E h : h = Rec(h, m + 1)
    <3> HIDE DEF Rec, n
    <3> QED
      BY DEF n
  <2>1. PICK g : g = Rec(g, m)
    OBVIOUS
  <2> DEFINE h == [i \in 0..(m + 1) |-> IF i = m + 1 THEN g[m] \o ss[m + 1] ELSE g[i]]
  <2>2. \A i \in 0..(m + 1) : h[i] = IF i = 0 THEN <<>> ELSE h[i - 1] \o ss[i]
    <3> SUFFICES ASSUME NEW i \in 0..(m + 1)
                 PROVE  h[i] = IF i = 0 THEN <<>> ELSE h[i - 1] \o ss[i]
      OBVIOUS
    <3>1. CASE i = m + 1
      BY <3>1
    <3>2. CASE i # m + 1
      <4>1. i \in 0..m /\ h[i] = g[i]
        BY <3>2
      <4>2. g[i] = IF i = 0 THEN <<>> ELSE g[i - 1] \o ss[i]
        BY <2>1, <4>1
      <4>3. i # 0 => h[i - 1] = g[i - 1]
        BY <3>2
      <4> QED
        BY <4>1, <4>2, <4>3
    <3> QED
      BY <3>1, <3>2
  <2>3. h = Rec(h, m + 1)
    BY <2>2
  <2> QED
    BY <2>3
<1>3. \E g : g = Rec(g, n)
  <2>1. Nat \subseteq S
    <3> HIDE DEF S
    <3> QED
      BY <1>1, <1>2, Induction
  <2>2. n \in S
    BY <2>1
  <2>3. n <= n
    OBVIOUS
  <2> HIDE DEF n, Rec
  <2> QED
    BY <2>2, <2>3
<1>4. upTo = Rec(upTo, n)
  BY <1>3
<1>5. Preparation!Concat(ss) = upTo[n]
  BY DEF Preparation!Concat
<1>6. upTo[0] = <<>> /\ \A i \in 1..n : upTo[i] = upTo[i - 1] \o ss[i]
  <2>1. n \in Nat
    OBVIOUS
  <2> HIDE DEF upTo, n
  <2> QED
    BY <1>4, <2>1
<1> QED
  BY <1>5, <1>6

\* The units of the first blocks.
UnitsSoFar(units, blocks, limits) ==
  /\ Lined(units)
  /\ LettersOf(units) = LettersOf(blocks) /\ TiesOf(units) = TiesOf(blocks)
  /\ \A k \in 1..Len(units) : Preparation!Fits(units[k], limits)
  /\ \A b \in 1..Len(blocks) : Runs(units, blocks[b])

LEMMA RunsInMore ==
  ASSUME NEW ts \in Seq(Seq(Int)), NEW us \in Seq(Seq(Int)), NEW block \in Seq(Int),
         Runs(ts, block) \/ Runs(us, block)
  PROVE  Runs(ts \o us, block)
<1> DEFINE vs == ts \o us
           n == Len(ts)
           m == Len(us)
<1>1. /\ n \in Nat /\ m \in Nat /\ Len(vs) = n + m
      /\ \A i \in 1..n : vs[i] = ts[i] /\ i \in 1..(n + m)
      /\ \A i \in 1..m : vs[i + n] = us[i] /\ i + n \in 1..(n + m)
  OBVIOUS
<1> HIDE DEF vs, n, m
<1> SUFFICES ASSUME NEW last \in 1..Len(block), NEW first \in 1..last,
                    \A i \in first..last : block[i] > 0
             PROVE  \E k \in 1..(n + m) : \A i \in first..last : block[i] \in Preparation!Letters(vs[k])
  BY <1>1, RunsFacts DEF vs
<1>2. CASE Runs(ts, block)
  <2>1. PICK k \in 1..n : \A i \in first..last : block[i] \in Preparation!Letters(ts[k])
    BY <1>2, RunsFacts DEF n
  <2> QED
    BY <1>1, <2>1
<1>3. CASE Runs(us, block)
  <2>1. PICK k \in 1..m : \A i \in first..last : block[i] \in Preparation!Letters(us[k])
    BY <1>3, RunsFacts DEF m
  <2> QED
    BY <1>1, <2>1
<1> QED
  BY <1>2, <1>3

LEMMA MoreUnits ==
  ASSUME NEW units, NEW blocks \in Seq(Seq(Int)), NEW block \in Seq(Int), NEW limits, NEW pieces,
         UnitsSoFar(units, blocks, limits), Divides(pieces, block, limits), Lined(Append(blocks, block))
  PROVE  UnitsSoFar(units \o pieces, Append(blocks, block), limits)
<1> DEFINE all == units \o pieces
           n == Len(units)
           m == Len(pieces)
           more == Append(blocks, block)
<1>1. Lined(units) /\ Lined(pieces) /\ units \in Seq(Seq(Int)) /\ pieces \in Seq(Seq(Int))
  BY DEF UnitsSoFar, Divides, Lined
<1>2. /\ n \in Nat /\ m \in Nat /\ Len(all) = n + m
      /\ \A i \in 1..n : all[i] = units[i]
      /\ \A i \in (n + 1)..(n + m) : all[i] = pieces[i - n] /\ i - n \in 1..m
      /\ \A i \in 1..(n + m) : i \in 1..n \/ i \in (n + 1)..(n + m)
  BY <1>1
<1>3. LettersOf(all) = LettersOf(units) \cup LettersOf(pieces) /\ TiesOf(all) = TiesOf(units) \cup TiesOf(pieces)
  BY <1>1, MoreTexts
<1>4. /\ Len(more) = Len(blocks) + 1 /\ more[Len(blocks) + 1] = block
      /\ \A k \in 1..Len(blocks) : more[k] = blocks[k]
      /\ \A k \in 1..(Len(blocks) + 1) : k \in 1..Len(blocks) \/ k = Len(blocks) + 1
      /\ LettersOf(more) = LettersOf(blocks) \cup Preparation!Letters(block)
      /\ TiesOf(more) = TiesOf(blocks) \cup Ties(block)
  <2> HIDE DEF more
  <2> QED
    BY OneMoreText DEF more
<1> HIDE DEF all, more, n, m
<1>5. LettersOf(all) = LettersOf(more) /\ TiesOf(all) = TiesOf(more)
  BY <1>3, <1>4 DEF UnitsSoFar, Divides
<1>6. Lined(all)
  <2>1. Precedes(LettersOf(blocks), Preparation!Letters(block))
    BY OneMoreLined
  <2>2. Precedes(LettersOf(units), LettersOf(pieces))
    BY <2>1 DEF UnitsSoFar, Divides
  <2> QED
    BY <1>1, <2>2, MoreLined DEF all
<1>7. \A k \in 1..(n + m) : Preparation!Fits(all[k], limits)
  BY <1>2 DEF UnitsSoFar, Divides, n, m
<1>8. \A b \in 1..Len(more) : Runs(all, more[b])
  <2> SUFFICES ASSUME NEW b \in 1..Len(more)
               PROVE  Runs(all, more[b])
    OBVIOUS
  <2>1. CASE b \in 1..Len(blocks)
    <3>1. Runs(units, blocks[b]) /\ blocks[b] \in Seq(Int)
      BY <2>1 DEF UnitsSoFar
    <3>2. Runs(all, blocks[b])
      BY <1>1, <3>1, RunsInMore DEF all
    <3> QED
      BY <1>4, <2>1, <3>2
  <2>2. CASE b = Len(blocks) + 1
    <3>1. Runs(pieces, block)
      BY DEF Divides
    <3>2. Runs(all, block)
      BY <1>1, <3>1, RunsInMore DEF all
    <3> QED
      BY <1>4, <2>2, <3>2
  <2> QED
    BY <1>4, <2>1, <2>2
<1>9. UnitsSoFar(all, more, limits)
  BY <1>2, <1>5, <1>6, <1>7, <1>8 DEF UnitsSoFar
<1> QED
  BY <1>9 DEF all, more

\* The units of a section are those of all its blocks.
LEMMA UnitsOfSection ==
  ASSUME NEW section, NEW limits, Lined(section.blocks),
         \A b \in 1..Len(section.blocks) : Preparation!Divisible(section.blocks[b], limits)
  PROVE  UnitsSoFar(Preparation!Units(section, limits), section.blocks, limits)
<1> DEFINE blocks == section.blocks
           n == Len(blocks)
           ss == [b \in 1..n |-> Preparation!SplitBlock(blocks[b], limits)]
           before(i) == SubSeq(blocks, 1, i)
<1>1. blocks \in Seq(Seq(Int)) /\ n \in Nat
  BY DEF Lined
<1>2. Len(ss) = n
  BY <1>1
<1>3. Preparation!Units(section, limits) = Preparation!Concat(ss)
  BY DEF Preparation!Units
<1>4. \A b \in 1..n : Divides(ss[b], blocks[b], limits) /\ blocks[b] \in Seq(Int)
  <2> SUFFICES ASSUME NEW b \in 1..n
               PROVE  Divides(ss[b], blocks[b], limits) /\ blocks[b] \in Seq(Int)
    OBVIOUS
  <2>1. /\ blocks[b] \in Seq(Int) /\ Preparation!InOrder(blocks[b])
        /\ Preparation!Letters(blocks[b]) # {} /\ Preparation!Divisible(blocks[b], limits)
    BY <1>1 DEF Lined
  <2>2. Divides(Preparation!SplitBlock(blocks[b], limits), blocks[b], limits)
    BY <2>1, BlockIsDivided
  <2> QED
    BY <2>1, <2>2
<1>5. /\ before(0) = <<>> /\ before(n) = blocks
      /\ \A i \in 0..n : before(i) \in Seq(Seq(Int)) /\ Len(before(i)) = i
      /\ \A i \in 1..n : before(i) = Append(before(i - 1), blocks[i])
  BY <1>1, FirstTexts DEF Grows
<1>6. \A i \in 1..n : Lined(before(i))
  BY LinedPrefix
<1> HIDE DEF ss, n, before, blocks
<1>7. PICK upTo : /\ upTo[0] = <<>>
                  /\ \A i \in 1..n : upTo[i] = upTo[i - 1] \o ss[i]
                  /\ Preparation!Concat(ss) = upTo[n]
  BY <1>1, <1>2, ConcatGrows
<1> DEFINE U == {i \in Nat : i <= n => UnitsSoFar(upTo[i], before(i), limits)}
<1>8. 0 \in U
  <2>1. Lined(<<>>)
    BY DEF Lined
  <2>2. \A k \in 1..Len(<<>>) : FALSE
    OBVIOUS
  <2>3. UnitsSoFar(<<>>, <<>>, limits)
    BY <2>1, <2>2, Zenon DEF UnitsSoFar
  <2> QED
    BY <1>5, <1>7, <2>3
<1>9. \A i \in Nat : i \in U => i + 1 \in U
  <2> SUFFICES ASSUME NEW i \in Nat, i + 1 <= n, UnitsSoFar(upTo[i], before(i), limits)
               PROVE  UnitsSoFar(upTo[i + 1], before(i + 1), limits)
    BY <1>1
  <2> DEFINE j == i + 1
  <2>1. j \in 1..n /\ j - 1 = i /\ i \in 0..n
    BY <1>1
  <2> HIDE DEF j
  <2>2. upTo[j] = upTo[i] \o ss[j] /\ before(j) = Append(before(i), blocks[j]) /\ before(i) \in Seq(Seq(Int))
    BY <1>5, <1>7, <2>1
  <2>3. Divides(ss[j], blocks[j], limits) /\ blocks[j] \in Seq(Int) /\ Lined(Append(before(i), blocks[j]))
    BY <1>4, <1>6, <2>1, <2>2
  <2>4. UnitsSoFar(upTo[i] \o ss[j], Append(before(i), blocks[j]), limits)
    BY <2>2, <2>3, MoreUnits
  <2> QED
    BY <2>2, <2>4 DEF j
<1>10. n \in U
  <2> HIDE DEF U
  <2> QED
    BY <1>1, <1>8, <1>9, Induction
<1>11. UnitsSoFar(upTo[n], before(n), limits)
  BY <1>1, <1>10
<1> QED
  BY <1>3, <1>5, <1>7, <1>11 DEF blocks

\* The end of a text: the last of its letters, with their ties.
Ends(o, c) ==
  /\ o \in Seq(Int) /\ Preparation!InOrder(o)
  /\ Preparation!Letters(o) \subseteq Preparation!Letters(c)
  /\ \A p \in Preparation!Letters(o), l \in Preparation!Letters(c) : p < l => l \in Preparation!Letters(o)
  /\ Ties(o) = {tie \in Ties(c) : tie[1] \in Preparation!Letters(o) /\ tie[2] \in Preparation!Letters(o)}

LEMMA EndOfEnd ==
  ASSUME NEW a, NEW b, NEW c, Ends(a, b), Ends(b, c)
  PROVE  Ends(a, c)
<1>1. Preparation!Letters(a) \subseteq Preparation!Letters(b) /\ Preparation!Letters(b) \subseteq Preparation!Letters(c)
  BY DEF Ends
<1>2. \A p \in Preparation!Letters(a), l \in Preparation!Letters(c) : p < l => l \in Preparation!Letters(a)
  BY <1>1 DEF Ends
<1>3. Ties(a) = {tie \in Ties(c) : tie[1] \in Preparation!Letters(a) /\ tie[2] \in Preparation!Letters(a)}
  BY <1>1 DEF Ends
<1> QED
  BY <1>1, <1>2, <1>3 DEF Ends

\* An interval of a text, with nothing but space behind it, is an end of it.
LEMMA IntervalEnds ==
  ASSUME NEW c \in Seq(Int), Preparation!InOrder(c), NEW lo \in Nat, NEW hi \in Nat,
         lo # 0, lo <= hi + 1, hi <= Len(c), \A i \in (hi + 1)..Len(c) : c[i] <= 0
  PROVE  /\ Ends(SubSeq(c, lo, hi), c)
         /\ Len(SubSeq(c, lo, hi)) = hi - lo + 1
<1> DEFINE o == SubSeq(c, lo, hi)
           m == hi - lo + 1
           n == Len(c)
<1>1. m \in Nat /\ n \in Nat /\ \A i \in 1..m : (lo + i) - 1 \in 1..n /\ (lo + i) - 1 = lo + i - 1
  OBVIOUS
<1>2. o \in Seq(Int) /\ Len(o) = m /\ \A i \in 1..m : o[i] = c[lo + i - 1]
  <2>1. o \in Seq(Int) /\ Len(o) = m
    OBVIOUS
  <2>2. \A i \in 1..m : o[i] = c[lo + i - 1]
    OBVIOUS
  <2> QED
    BY <2>1, <2>2
<1>3. /\ \A i \in lo..hi : i - lo + 1 \in 1..m /\ i \in 1..n /\ o[i - lo + 1] = c[i]
      /\ \A i \in 1..m : lo + i - 1 \in lo..hi
  <2>1. \A i \in lo..hi : i - lo + 1 \in 1..m /\ i \in 1..n /\ lo + (i - lo + 1) - 1 = i
    BY <1>1
  <2>2. \A i \in 1..m : lo + i - 1 \in lo..hi
    BY <1>1
  <2> QED
    BY <1>2, <2>1, <2>2
<1> HIDE DEF o, m, n
<1>4. /\ Len(c) = n
      /\ \A i, j \in 1..n : i < j /\ c[i] > 0 /\ c[j] > 0 => c[i] < c[j]
      /\ \A i \in 1..n : c[i] \in Int
  BY TextFacts DEF n
<1>5. \A p : p \in Preparation!Letters(o) <=> \E i \in lo..hi : c[i] = p /\ p > 0
  <2>1. ASSUME NEW p \in Preparation!Letters(o)
        PROVE  \E i \in lo..hi : c[i] = p /\ p > 0
    <3>1. PICK i \in 1..m : o[i] = p /\ p > 0
      BY <1>2, TextFacts
    <3> QED
      BY <1>2, <1>3, <3>1
  <2>2. ASSUME NEW p, NEW i \in lo..hi, c[i] = p, p > 0
        PROVE  p \in Preparation!Letters(o)
    <3>1. i - lo + 1 \in 1..m /\ o[i - lo + 1] = p
      BY <1>3, <2>2
    <3> QED
      BY <1>2, <2>2, <3>1, TextFacts
  <2> QED
    BY <2>1, <2>2
<1>6. \A i \in 1..n : c[i] > 0 /\ i > hi => FALSE
  <2> SUFFICES ASSUME NEW i \in 1..n, c[i] > 0, i > hi
               PROVE  FALSE
    OBVIOUS
  <2>1. i \in (hi + 1)..Len(c)
    BY <1>4
  <2>2. c[i] <= 0 /\ c[i] \in Int
    BY <1>4, <2>1
  <2> QED
    BY <2>2
<1>7. Preparation!Letters(o) \subseteq Preparation!Letters(c)
  BY <1>3, <1>4, <1>5, TextFacts
<1>8. ASSUME NEW p \in Preparation!Letters(o), NEW l \in Preparation!Letters(c), p < l
      PROVE  l \in Preparation!Letters(o)
  <2>1. PICK i \in lo..hi : c[i] = p /\ p > 0
    BY <1>5
  <2>2. PICK j \in 1..n : c[j] = l /\ l > 0
    BY <1>4, TextFacts
  <2>3. i < j
    <3> SUFFICES ASSUME ~(i < j)
                 PROVE  FALSE
      OBVIOUS
    <3>1. i \in 1..n
      BY <1>3
    <3>2. i = j \/ j < i
      BY <1>1, <3>1
    <3>3. c[j] <= c[i]
      BY <1>4, <2>1, <2>2, <3>1, <3>2
    <3> QED
      BY <1>4, <1>8, <2>1, <2>2, <3>1, <3>3
  <2>4. j \in lo..hi
    BY <1>1, <1>6, <2>1, <2>2, <2>3
  <2> QED
    BY <1>5, <2>2, <2>4
<1>9. Preparation!InOrder(o)
  <2> SUFFICES ASSUME NEW i \in 1..m, NEW j \in 1..m, i < j, o[i] > 0, o[j] > 0
               PROVE  o[i] < o[j]
    BY <1>2, TextFacts
  <2> DEFINE k == lo + i - 1
             h == lo + j - 1
  <2>1. i \in Int /\ j \in Int
    BY <1>1
  <2>2. k < h
    BY <2>1
  <2>3. k \in 1..n /\ h \in 1..n
    BY <1>3
  <2>4. o[i] = c[k] /\ o[j] = c[h]
    BY <1>2
  <2> HIDE DEF k, h
  <2> QED
    BY <1>4, <2>2, <2>3, <2>4
<1>10. Ties(o) = {tie \in Ties(c) : tie[1] \in Preparation!Letters(o) /\ tie[2] \in Preparation!Letters(o)}
  <2>1. ASSUME NEW tie \in Ties(o)
        PROVE  tie \in Ties(c) /\ tie[1] \in Preparation!Letters(o) /\ tie[2] \in Preparation!Letters(o)
    <3>1. PICK i \in 1..(m - 1) : o[i] > 0 /\ o[i + 1] > 0 /\ tie = <<o[i], o[i + 1]>>
      BY <1>2, TextFacts
    <3>2. i \in 1..m /\ i + 1 \in 1..m
      BY <1>1
    <3> DEFINE k == lo + i - 1
    <3>33. i \in Int
      BY <3>2
    <3>34. lo + (i + 1) - 1 = k + 1
      BY <3>33
    <3>35. k \in lo..hi /\ lo + (i + 1) - 1 \in lo..hi
      BY <1>3, <3>2
    <3>3. k \in lo..hi /\ k + 1 \in lo..hi /\ lo + (i + 1) - 1 = k + 1
      BY <3>34, <3>35, Zenon
    <3>4. o[i] = c[k] /\ o[i + 1] = c[k + 1]
      BY <1>2, <3>2, <3>3, SMTT(30)
    <3> HIDE DEF k
    <3>5. k \in 1..(n - 1)
      BY <1>1, <1>3, <3>3
    <3>6. tie \in Ties(c)
      BY <1>4, <3>1, <3>4, <3>5, TextFacts
    <3> QED
      BY <1>5, <3>1, <3>3, <3>4, <3>6
  <2>2. ASSUME NEW tie \in Ties(c), tie[1] \in Preparation!Letters(o), tie[2] \in Preparation!Letters(o)
        PROVE  tie \in Ties(o)
    <3>1. PICK k \in 1..(n - 1) : c[k] > 0 /\ c[k + 1] > 0 /\ tie = <<c[k], c[k + 1]>>
      BY <1>4, TextFacts
    <3>2. k \in 1..n /\ k + 1 \in 1..n
      BY <1>1
    <3>3. PICK i \in lo..hi : c[i] = c[k]
      BY <1>5, <2>2, <3>1
    <3>4. PICK j \in lo..hi : c[j] = c[k + 1]
      BY <1>5, <2>2, <3>1
    <3>5. i \in 1..n /\ j \in 1..n
      BY <1>3
    <3>6. i = k
      BY <1>4, <3>1, <3>2, <3>3, <3>5
    <3>7. j = k + 1
      BY <1>4, <3>1, <3>2, <3>4, <3>5
    <3> DEFINE h == k - lo + 1
    <3>8. h \in 1..m /\ h + 1 = (k + 1) - lo + 1 /\ h + 1 \in 1..m
      BY <1>1, <1>3, <3>6, <3>7
    <3>9. o[h] = c[k] /\ o[h + 1] = c[k + 1]
      BY <1>3, <3>6, <3>7, <3>8
    <3> HIDE DEF h
    <3>10. h \in 1..(m - 1)
      BY <1>1, <3>8
    <3> QED
      BY <1>2, <3>1, <3>9, <3>10, TextFacts
  <2> QED
    BY <2>1, <2>2
<1>11. Ends(o, c)
  BY <1>2, <1>7, <1>8, <1>9, <1>10 DEF Ends
<1> QED
  BY <1>2, <1>11 DEF o, m

\* The least and the greatest of some positions.
LEMMA Extremes ==
  ASSUME NEW n \in Nat, NEW T, T # {}, \A x \in T : x \in 1..n
  PROVE  /\ Preparation!Min(T) \in T /\ \A y \in T : Preparation!Min(T) <= y
         /\ Preparation!Max(T) \in T /\ \A y \in T : y <= Preparation!Max(T)
<1>1. PICK x \in T : \A y \in T : ~(<<y, x>> \in OpToRel(<, Nat))
  <2>1. T \subseteq Nat
    OBVIOUS
  <2> QED
    BY <2>1, NatLessThanWellFounded, WFMin, Zenon
<1>2. \A y \in T : x <= y
  <2> SUFFICES ASSUME NEW y \in T, y < x
               PROVE  FALSE
    OBVIOUS
  <2>1. <<y, x>> \in OpToRel(<, Nat)
    BY DEF OpToRel
  <2> QED
    BY <1>1, <2>1
<1> DEFINE mirrored == {n - y : y \in T}
<1>3. \E z \in T : TRUE
  OBVIOUS
<1>4. mirrored # {} /\ mirrored \subseteq Nat
  BY <1>3
<1>5. PICK m \in mirrored : \A k \in mirrored : ~(<<k, m>> \in OpToRel(<, Nat))
  <2> HIDE DEF mirrored
  <2> QED
    BY <1>4, NatLessThanWellFounded, WFMin, Zenon
<1>6. PICK z \in T : m = n - z
  OBVIOUS
<1>7. \A y \in T : y <= z
  <2> SUFFICES ASSUME NEW y \in T, z < y
               PROVE  FALSE
    OBVIOUS
  <2>1. n - y \in mirrored /\ n - y < n - z /\ n - y \in Nat /\ n - z \in Nat
    OBVIOUS
  <2>2. <<n - y, m>> \in OpToRel(<, Nat)
    BY <1>6, <2>1 DEF OpToRel
  <2> QED
    BY <1>5, <2>1, <2>2
<1>8. Preparation!Min(T) \in T /\ \A y \in T : Preparation!Min(T) <= y
  BY <1>2 DEF Preparation!Min
<1>9. \E w \in T : \A y \in T : w >= y
  BY <1>7
<1>10. Preparation!Max(T) \in T /\ \A y \in T : Preparation!Max(T) >= y
  BY <1>9 DEF Preparation!Max
<1> QED
  BY <1>8, <1>10

\* Strip leaves the letters of a text and what is between them.
LEMMA StripEnds ==
  ASSUME NEW c \in Seq(Int), Preparation!InOrder(c)
  PROVE  Ends(Preparation!Strip(c), c) /\ Len(Preparation!Strip(c)) <= Len(c)
<1> DEFINE n == Len(c)
           inked == {i \in 1..n : ~Preparation!IsSpace(c[i])}
<1>1. n \in Nat /\ \A i \in 1..n : i \notin inked => c[i] <= 0
  BY TextFacts
<1>2. CASE inked = {}
  <2>1. Preparation!Strip(c) = <<>>
    BY <1>2 DEF Preparation!Strip
  <2>2. SubSeq(c, 1, 0) = <<>> /\ Len(<<>>) = 0
    OBVIOUS
  <2>3. 1 \in Nat /\ 0 \in Nat /\ 1 # 0 /\ 1 <= 0 + 1 /\ 0 <= Len(c) /\ \A i \in (0 + 1)..Len(c) : c[i] <= 0
    BY <1>1, <1>2
  <2>4. Ends(SubSeq(c, 1, 0), c)
    BY <2>3, IntervalEnds
  <2>5. Ends(<<>>, c)
    BY <2>2, <2>4
  <2>6. Len(<<>>) <= Len(c)
    BY <1>1, <2>2
  <2> QED
    BY <2>1, <2>5, <2>6, Zenon
<1>3. CASE inked # {}
  <2> DEFINE lo == Preparation!Min(inked)
             hi == Preparation!Max(inked)
  <2>1. lo \in inked /\ hi \in inked /\ \A i \in inked : i <= hi
    <3>1. \A i \in inked : i \in 1..n
      OBVIOUS
    <3> HIDE DEF inked
    <3> QED
      BY <1>1, <1>3, <3>1, Extremes
  <2>2. Preparation!Strip(c) = SubSeq(c, lo, hi)
    BY <1>3 DEF Preparation!Strip
  <2>3. lo \in 1..n /\ hi \in 1..n /\ lo <= hi
    BY <2>1
  <2> HIDE DEF lo, hi
  <2>4. \A i \in (hi + 1)..n : c[i] <= 0
    <3> SUFFICES ASSUME NEW i \in (hi + 1)..n
                 PROVE  c[i] <= 0
      OBVIOUS
    <3>1. i \in 1..n /\ ~(i <= hi)
      BY <1>1, <2>3
    <3> QED
      BY <1>1, <2>1, <3>1
  <2>5. lo \in Nat /\ hi \in Nat /\ lo # 0 /\ lo <= hi + 1 /\ hi <= Len(c) /\ hi - lo + 1 <= n
    BY <1>1, <2>3
  <2>6. Ends(SubSeq(c, lo, hi), c) /\ Len(SubSeq(c, lo, hi)) = hi - lo + 1
    BY <2>4, <2>5, IntervalEnds
  <2> QED
    BY <2>2, <2>5, <2>6
<1> QED
  BY <1>2, <1>3

\* A text has no more letters than characters.
LEMMA FewLetters ==
  ASSUME NEW t \in Seq(Int)
  PROVE  /\ IsFiniteSet(Preparation!Letters(t))
         /\ Cardinality(Preparation!Letters(t)) \in Nat /\ Cardinality(Preparation!Letters(t)) <= Len(t)
<1> DEFINE n == Len(t)
           characters == {t[i] : i \in 1..n}
<1>1. n \in Nat /\ IsFiniteSet(1..n) /\ Cardinality(1..n) = n
  <2>1. \A k \in Nat : IsFiniteSet(1..k) /\ Cardinality(1..k) = k
    BY FS_Interval
  <2> QED
    BY <2>1
<1>2. IsFiniteSet(characters) /\ Cardinality(characters) <= n
  <2>1. [i \in 1..n |-> t[i]] \in [1..n -> characters]
    OBVIOUS
  <2>2. [i \in 1..n |-> t[i]] \in Surjection(1..n, characters)
    BY DEF Surjection
  <2> HIDE DEF characters, n
  <2> QED
    BY <1>1, <2>2, FS_Surjection
<1>3. Preparation!Letters(t) \subseteq characters
  BY DEF Preparation!Letters
<1> HIDE DEF characters, n
<1>4. /\ IsFiniteSet(Preparation!Letters(t))
      /\ Cardinality(Preparation!Letters(t)) <= Cardinality(characters)
  BY <1>2, <1>3, FS_Subset
<1>5. Cardinality(Preparation!Letters(t)) \in Nat /\ Cardinality(characters) \in Nat
  BY <1>2, <1>4, FS_CardinalityType
<1> QED
  BY <1>1, <1>2, <1>4, <1>5 DEF n

\* What the next chunk repeats is an end of the chunk, no longer than the overlap.
LEMMA OverlapEnds ==
  ASSUME NEW c \in Seq(Int), Preparation!InOrder(c), NEW limits, limits.overlap \in Nat
  PROVE  /\ Ends(Preparation!OverlapSuffix(c, limits), c)
         /\ Cardinality(Preparation!Letters(Preparation!OverlapSuffix(c, limits))) <= limits.overlap
<1> DEFINE n == Len(c)
           start == Preparation!Max({1, n - limits.overlap + 1})
           tail == SubSeq(c, start, n)
           suffix == Preparation!Strip(tail)
           k == Len(suffix)
           blanks == {i \in 1..k : suffix[i] = Preparation!Blank}
           rest == SubSeq(suffix, Preparation!Min(blanks) + 1, k)
<1>1. n \in Nat
  OBVIOUS
<1>2. start \in Nat /\ start # 0 /\ start <= n + 1 /\ n - start + 1 <= limits.overlap
  <2> DEFINE other == n - limits.overlap + 1
  <2>1. other \in Int /\ other <= n + 1 /\ n - other + 1 = limits.overlap
    BY <1>1
  <2> HIDE DEF n
  <2>2. \E x \in {1, other} : \A y \in {1, other} : x >= y
    <3> HIDE DEF other
    <3>1. 1 >= other \/ other >= 1
      BY <2>1
    <3> QED
      BY <2>1, <3>1
  <2>3. start \in {1, other} /\ start >= 1 /\ start >= other
    BY <2>2 DEF Preparation!Max
  <2> HIDE DEF start, other
  <2> QED
    BY <1>1, <2>1, <2>3
<1> HIDE DEF start
<1>3. Ends(tail, c) /\ Len(tail) <= limits.overlap
  <2>1. n <= Len(c) /\ \A i \in (n + 1)..Len(c) : c[i] <= 0
    BY <1>1
  <2>2. Ends(SubSeq(c, start, n), c) /\ Len(SubSeq(c, start, n)) = n - start + 1
    BY <1>1, <1>2, <2>1, IntervalEnds
  <2> QED
    BY <1>2, <2>2
<1>4. tail \in Seq(Int) /\ Preparation!InOrder(tail)
  BY <1>3 DEF Ends
<1> HIDE DEF tail
<1>5. Ends(suffix, tail) /\ k <= Len(tail)
  BY <1>4, StripEnds
<1>6. Ends(suffix, c) /\ suffix \in Seq(Int) /\ Preparation!InOrder(suffix) /\ k \in Nat /\ k <= limits.overlap
  <2>1. Ends(suffix, c)
    BY <1>3, <1>5, EndOfEnd
  <2>2. suffix \in Seq(Int) /\ Preparation!InOrder(suffix)
    BY <2>1 DEF Ends
  <2> HIDE DEF suffix
  <2>3. k \in Nat /\ Len(tail) \in Nat
    BY <1>4, <2>2
  <2> QED
    BY <1>3, <1>5, <2>1, <2>2, <2>3
<1> HIDE DEF suffix
<1>7. blanks # {} => Ends(Preparation!Strip(rest), c) /\ Len(Preparation!Strip(rest)) <= limits.overlap
  <2> SUFFICES ASSUME blanks # {}
               PROVE  Ends(Preparation!Strip(rest), c) /\ Len(Preparation!Strip(rest)) <= limits.overlap
    OBVIOUS
  <2> DEFINE m == Preparation!Min(blanks)
  <2>1. m \in 1..k
    <3>1. \A i \in blanks : i \in 1..k
      OBVIOUS
    <3>2. m \in blanks
      <4> HIDE DEF blanks, k
      <4> QED
        BY <1>6, <3>1, Extremes
    <3> QED
      BY <3>1, <3>2
  <2> HIDE DEF m
  <2>2. m + 1 \in Nat /\ k \in Nat /\ m + 1 # 0 /\ m + 1 <= k + 1 /\ k <= Len(suffix)
        /\ (\A i \in (k + 1)..Len(suffix) : suffix[i] <= 0) /\ k - (m + 1) + 1 <= k
    BY <1>6, <2>1
  <2>3. Ends(SubSeq(suffix, m + 1, k), suffix) /\ Len(SubSeq(suffix, m + 1, k)) = k - (m + 1) + 1
    BY <1>6, <2>2, IntervalEnds
  <2> DEFINE left == SubSeq(suffix, m + 1, k)
  <2>4. Ends(left, suffix) /\ Len(left) <= k /\ left = rest
    BY <2>2, <2>3 DEF m
  <2>5. left \in Seq(Int) /\ Preparation!InOrder(left)
    BY <2>3 DEF Ends
  <2> HIDE DEF left, rest
  <2>6. Ends(Preparation!Strip(left), left) /\ Len(Preparation!Strip(left)) <= Len(left)
    BY <2>5, StripEnds
  <2>7. Ends(Preparation!Strip(left), suffix)
    BY <2>4, <2>6, EndOfEnd
  <2>8. Ends(Preparation!Strip(left), c)
    BY <1>6, <2>7, EndOfEnd
  <2>9. Preparation!Strip(left) \in Seq(Int)
    BY <2>8 DEF Ends
  <2>10. Len(Preparation!Strip(left)) \in Nat /\ Len(left) \in Nat
    BY <2>5, <2>9
  <2> QED
    BY <1>6, <2>4, <2>6, <2>8, <2>10
<1> DEFINE o == Preparation!OverlapSuffix(c, limits)
<1>8. o = IF n > limits.overlap /\ blanks # {} THEN Preparation!Strip(rest) ELSE suffix
  BY DEF Preparation!OverlapSuffix, suffix, tail, start
<1> HIDE DEF o, blanks, rest
<1>9. Ends(o, c) /\ Len(o) <= limits.overlap
  BY <1>6, <1>7, <1>8
<1>10. o \in Seq(Int)
  BY <1>9 DEF Ends
<1>11. Cardinality(Preparation!Letters(o)) \in Nat /\ Cardinality(Preparation!Letters(o)) <= Len(o) /\ Len(o) \in Nat
  BY <1>10, FewLetters
<1> QED
  BY <1>9, <1>11 DEF o

\* What is tied is there.
LEMMA TiesJoinLetters ==
  /\ \A t \in Seq(Int) : \A tie \in Ties(t) :
       tie[1] \in Preparation!Letters(t) /\ tie[2] \in Preparation!Letters(t)
  /\ \A ts \in Seq(Seq(Int)) : \A tie \in TiesOf(ts) :
       tie[1] \in LettersOf(ts) /\ tie[2] \in LettersOf(ts)
<1>1. ASSUME NEW t \in Seq(Int), NEW tie \in Ties(t)
      PROVE  tie[1] \in Preparation!Letters(t) /\ tie[2] \in Preparation!Letters(t)
  <2>1. PICK i \in 1..(Len(t) - 1) : t[i] > 0 /\ t[i + 1] > 0 /\ tie = <<t[i], t[i + 1]>>
    BY TextFacts
  <2>2. i \in 1..Len(t) /\ i + 1 \in 1..Len(t)
    BY <2>1
  <2>3. t[i] \in Preparation!Letters(t) /\ t[i + 1] \in Preparation!Letters(t)
    BY <2>1, <2>2, TextFacts
  <2> QED
    BY <2>1, <2>3
<1>2. ASSUME NEW ts \in Seq(Seq(Int)), NEW tie \in TiesOf(ts)
      PROVE  tie[1] \in LettersOf(ts) /\ tie[2] \in LettersOf(ts)
  <2>1. PICK b \in 1..Len(ts) : tie \in Ties(ts[b])
    BY <1>2 DEF TiesOf
  <2>2. ts[b] \in Seq(Int)
    BY <2>1
  <2> QED
    BY <1>1, <2>1, <2>2 DEF LettersOf
<1> QED
  BY <1>1, <1>2

\* A text that quotes others to their end.
QuotesToTheEnd(a, ts) ==
  /\ a \in Seq(Int) /\ Quotes(a, ts)
  /\ \A p \in Preparation!Letters(a), l \in LettersOf(ts) : p < l => l \in Preparation!Letters(a)

\* What quotes some texts quotes them and one more.
LEMMA QuotesMore ==
  ASSUME NEW ts \in Seq(Seq(Int)), NEW u \in Seq(Int), Lined(Append(ts, u)),
         NEW t \in Seq(Int), Quotes(t, ts)
  PROVE  Quotes(t, Append(ts, u))
<1> DEFINE L == LettersOf(ts)
           U == Preparation!Letters(u)
           T == Preparation!Letters(t)
           more == Append(ts, u)
<1>1. LettersOf(more) = L \cup U /\ TiesOf(more) = TiesOf(ts) \cup Ties(u)
  BY OneMoreText
<1>2. \A p \in L, q \in U : p < q /\ p \in Int /\ q \in Int
  <2>1. Precedes(L, U)
    BY OneMoreLined
  <2>2. \A q \in U : q \in Int
    BY TextFacts
  <2>3. \A p \in L : p \in Int
    <3> SUFFICES ASSUME NEW p \in L
                 PROVE  p \in Int
      OBVIOUS
    <3>1. PICK b \in 1..Len(ts) : p \in Preparation!Letters(ts[b])
      BY DEF LettersOf
    <3>2. ts[b] \in Seq(Int)
      BY <3>1
    <3> QED
      BY <3>1, <3>2, TextFacts
  <2> QED
    BY <2>1, <2>2, <2>3 DEF Precedes
<1>3. \A tie \in Ties(u) : tie[1] \in U
  BY TiesJoinLetters
<1>4. /\ Preparation!InOrder(t) /\ T \subseteq L
      /\ \A p, q \in T, l \in L : p < l /\ l < q => l \in T
      /\ Ties(t) = {tie \in TiesOf(ts) : tie[1] \in T /\ tie[2] \in T}
  BY DEF Quotes
<1> HIDE DEF L, U, T, more
<1>5. \A p \in L : p \notin U
  <2> SUFFICES ASSUME NEW p \in L, p \in U
               PROVE  FALSE
    OBVIOUS
  <2>1. p < p /\ p \in Int
    BY <1>2
  <2> QED
    BY <2>1
<1>6. \A p, q \in T, l \in L \cup U : p < l /\ l < q => l \in T
  <2> SUFFICES ASSUME NEW p \in T, NEW q \in T, NEW l \in L \cup U, p < l, l < q
               PROVE  l \in T
    OBVIOUS
  <2>1. CASE l \in L
    BY <1>4, <2>1
  <2>2. CASE l \in U
    <3>1. q < l /\ q \in Int /\ l \in Int
      BY <1>2, <1>4, <2>2
    <3> QED
      BY <3>1
  <2> QED
    BY <2>1, <2>2
<1>7. Ties(t) = {tie \in TiesOf(ts) \cup Ties(u) : tie[1] \in T /\ tie[2] \in T}
  BY <1>3, <1>4, <1>5
<1> QED
  BY <1>1, <1>4, <1>6, <1>7 DEF Quotes, T, more

\* A quotation to the end, and the next text.
LEMMA QuotesNext ==
  ASSUME NEW ts \in Seq(Seq(Int)), NEW u \in Seq(Int), Lined(Append(ts, u)),
         NEW a, QuotesToTheEnd(a, ts)
  PROVE  /\ QuotesToTheEnd(Preparation!Join(a, Preparation!Paragraph, u), Append(ts, u))
         /\ Preparation!Letters(Preparation!Join(a, Preparation!Paragraph, u)) =
              Preparation!Letters(a) \cup Preparation!Letters(u)
         /\ Precedes(LettersOf(ts), Preparation!Letters(u)) /\ Preparation!Letters(u) # {}
<1> DEFINE L == LettersOf(ts)
           U == Preparation!Letters(u)
           A == Preparation!Letters(a)
           more == Append(ts, u)
           t == Preparation!Join(a, Preparation!Paragraph, u)
<1>1. LettersOf(more) = L \cup U /\ TiesOf(more) = TiesOf(ts) \cup Ties(u)
  BY OneMoreText
<1>2. Precedes(L, U) /\ U # {} /\ Preparation!InOrder(u)
  BY OneMoreLined
<1>3. \A p \in U : p \in Int
  BY TextFacts
<1>4. \A p \in L : p \in Int
  <2> SUFFICES ASSUME NEW p \in L
               PROVE  p \in Int
    OBVIOUS
  <2>1. PICK b \in 1..Len(ts) : p \in Preparation!Letters(ts[b])
    BY DEF LettersOf
  <2>2. ts[b] \in Seq(Int)
    BY <2>1
  <2> QED
    BY <2>1, <2>2, TextFacts
<1>5. /\ \A tie \in Ties(u) : tie[1] \in U /\ tie[2] \in U
      /\ \A tie \in TiesOf(ts) : tie[1] \in L /\ tie[2] \in L
  BY TiesJoinLetters
<1>6. /\ a \in Seq(Int) /\ Preparation!InOrder(a) /\ A \subseteq L
      /\ Ties(a) = {tie \in TiesOf(ts) : tie[1] \in A /\ tie[2] \in A}
      /\ \A p \in A, l \in L : p < l => l \in A
  BY DEF QuotesToTheEnd, Quotes
<1>7. Precedes(A, U)
  BY <1>2, <1>6 DEF Precedes
<1>8. /\ t \in Seq(Int) /\ Preparation!Letters(t) = A \cup U /\ Ties(t) = Ties(a) \cup Ties(u)
      /\ Preparation!InOrder(t)
  <2>1. /\ Preparation!Paragraph \in Seq(Int) /\ Preparation!Paragraph # <<>>
        /\ \A i \in 1..Len(Preparation!Paragraph) : Preparation!Paragraph[i] <= 0
    BY DEF Preparation!Paragraph, Preparation!Break
  <2> QED
    BY <1>2, <1>6, <1>7, <2>1, JoinedTexts
<1> HIDE DEF L, U, A, more, t
<1>9. \A p \in L, q \in U : p < q /\ p # q /\ ~(q < p)
  BY <1>2, <1>3, <1>4 DEF Precedes
<1>10. \A p \in A \cup U, l \in L \cup U : p < l => l \in A \cup U
  BY <1>6, <1>9
<1>11. Ties(t) = {tie \in TiesOf(ts) \cup Ties(u) : tie[1] \in A \cup U /\ tie[2] \in A \cup U}
  <2>1. \A tie \in TiesOf(ts) : tie[1] \in A \cup U /\ tie[2] \in A \cup U => tie \in Ties(a)
    BY <1>5, <1>6, <1>9
  <2> QED
    BY <1>5, <1>6, <1>8, <2>1
<1>12. \A p, q \in A \cup U, l \in L \cup U : p < l /\ l < q => l \in A \cup U
  BY <1>10
<1>13. Quotes(t, more)
  BY <1>1, <1>6, <1>8, <1>11, <1>12 DEF Quotes
<1> QED
  BY <1>1, <1>2, <1>8, <1>10, <1>13 DEF QuotesToTheEnd, t, more, L, U, A

\* The end of a quotation to the end, and no quotation at all.
LEMMA EndQuotes ==
  ASSUME NEW ts, NEW c, NEW o, QuotesToTheEnd(c, ts), Ends(o, c)
  PROVE  QuotesToTheEnd(o, ts)
<1> DEFINE L == LettersOf(ts)
           C == Preparation!Letters(c)
           O == Preparation!Letters(o)
<1>1. /\ C \subseteq L
      /\ Ties(c) = {tie \in TiesOf(ts) : tie[1] \in C /\ tie[2] \in C}
      /\ \A p \in C, l \in L : p < l => l \in C
  BY DEF QuotesToTheEnd, Quotes
<1>2. /\ o \in Seq(Int) /\ Preparation!InOrder(o) /\ O \subseteq C
      /\ \A p \in O, l \in C : p < l => l \in O
      /\ Ties(o) = {tie \in Ties(c) : tie[1] \in O /\ tie[2] \in O}
  BY DEF Ends
<1> HIDE DEF L, C, O
<1>3. \A p \in O, l \in L : p < l => l \in O
  BY <1>1, <1>2
<1>4. Ties(o) = {tie \in TiesOf(ts) : tie[1] \in O /\ tie[2] \in O}
  BY <1>1, <1>2
<1>5. O \subseteq L /\ \A p, q \in O, l \in L : p < l /\ l < q => l \in O
  BY <1>1, <1>2, <1>3
<1> QED
  BY <1>2, <1>3, <1>4, <1>5 DEF QuotesToTheEnd, Quotes, L, O

LEMMA NothingQuoted ==
  ASSUME NEW ts
  PROVE  /\ QuotesToTheEnd(<<>>, ts) /\ Preparation!Letters(<<>>) = {}
         /\ Cardinality(Preparation!Letters(<<>>)) = 0
<1>1. <<>> \in Seq(Int) /\ Len(<<>>) = 0
  OBVIOUS
<1>2. Preparation!Letters(<<>>) = {} /\ Preparation!InOrder(<<>>)
  BY <1>1 DEF Preparation!Letters, Preparation!InOrder
<1>3. Ties(<<>>) = {}
  BY <1>1 DEF Ties
<1> QED
  BY <1>1, <1>2, <1>3, FS_EmptySet DEF QuotesToTheEnd, Quotes

\* The next chunk continues the one before: it repeats an end of it and goes on.
LEMMA NextContinues ==
  ASSUME NEW c, NEW more, NEW O, NEW U, NEW overlap,
         Preparation!Letters(more) = O \cup U, O \subseteq Preparation!Letters(c), U # {},
         Preparation!Letters(c) # {}, Precedes(Preparation!Letters(c), U),
         \A p \in Preparation!Letters(c) : p \in Int, \A q \in U : q \in Int,
         Cardinality(O) <= overlap
  PROVE  Continues(c, more, overlap)
<1> DEFINE C == Preparation!Letters(c)
<1>1. \A p \in C, q \in U : p < q /\ p <= q /\ p # q
  BY DEF Precedes
<1>2. \A q \in O \cup U : \E p \in C : p <= q
  <2>1. \A q \in O : q \in C /\ q <= q
    BY DEF C
  <2> QED
    BY <1>1, <2>1
<1>3. \E q \in O \cup U : \A p \in C : p < q
  BY <1>1
<1>4. C \cap (O \cup U) = O
  BY <1>1
<1> QED
  BY <1>2, <1>3, <1>4 DEF Continues, C

\* The chunks of the units so far and the one that is being filled.
PackedUnits(acc, ts, limits) ==
  /\ acc = [chunks |-> acc.chunks, current |-> acc.current]
  /\ acc.chunks \in Seq(Seq(Int)) /\ QuotesToTheEnd(acc.current, ts)
  /\ ts = <<>> => acc.chunks = <<>> /\ acc.current = <<>>
  /\ ts # <<>> => /\ acc.current # <<>> /\ Preparation!Letters(acc.current) # {}
                  /\ Preparation!Fits(acc.current, limits)
  /\ \A i \in 1..Len(acc.chunks) :
       Preparation!Fits(acc.chunks[i], limits) /\ Quotes(acc.chunks[i], ts)
  /\ LettersOf(acc.chunks) \cup Preparation!Letters(acc.current) = LettersOf(ts)
  /\ \A i \in 1..(Len(acc.chunks) - 1) :
       Continues(acc.chunks[i], acc.chunks[i + 1], limits.overlap)
  /\ acc.chunks # <<>> => Continues(acc.chunks[Len(acc.chunks)], acc.current, limits.overlap)
  /\ \A k \in 1..Len(ts) :
       \/ Preparation!Letters(ts[k]) \subseteq Preparation!Letters(acc.current)
       \/ \E i \in 1..Len(acc.chunks) :
            Preparation!Letters(ts[k]) \subseteq Preparation!Letters(acc.chunks[i])

\* The next unit is added to the current chunk.
LEMMA UnitAdded ==
  ASSUME NEW acc, NEW ts \in Seq(Seq(Int)), NEW u \in Seq(Int), NEW limits, limits.overlap \in Nat,
         PackedUnits(acc, ts, limits), Lined(Append(ts, u)), NEW candidate,
         candidate = Preparation!Join(acc.current, Preparation!Paragraph, u),
         Preparation!Fits(candidate, limits)
  PROVE  PackedUnits([acc EXCEPT !.current = candidate], Append(ts, u), limits)
<1> DEFINE chunks == acc.chunks
           current == acc.current
           n == Len(chunks)
           more == Append(ts, u)
           L == LettersOf(ts)
           U == Preparation!Letters(u)
           C == Preparation!Letters(current)
<1>1. /\ chunks \in Seq(Seq(Int)) /\ QuotesToTheEnd(current, ts)
      /\ ts = <<>> => chunks = <<>> /\ current = <<>>
      /\ ts # <<>> => current # <<>> /\ C # {} /\ Preparation!Fits(current, limits)
      /\ \A i \in 1..n : Preparation!Fits(chunks[i], limits) /\ Quotes(chunks[i], ts)
      /\ LettersOf(chunks) \cup C = L
      /\ \A i \in 1..(n - 1) : Continues(chunks[i], chunks[i + 1], limits.overlap)
      /\ chunks # <<>> => Continues(chunks[n], current, limits.overlap)
      /\ \A k \in 1..Len(ts) :
           \/ Preparation!Letters(ts[k]) \subseteq C
           \/ \E i \in 1..n : Preparation!Letters(ts[k]) \subseteq Preparation!Letters(chunks[i])
  BY DEF PackedUnits
<1>2. [acc EXCEPT !.current = candidate] = [chunks |-> chunks, current |-> candidate]
  BY DEF PackedUnits
<1> HIDE DEF chunks, current, n
<1>3. /\ QuotesToTheEnd(candidate, more) /\ Preparation!Letters(candidate) = C \cup U
      /\ Precedes(L, U) /\ U # {}
  BY <1>1, QuotesNext DEF current
<1>4. /\ Len(more) = Len(ts) + 1 /\ Len(ts) \in Nat /\ more[Len(ts) + 1] = u /\ more # <<>>
      /\ \A k \in 1..Len(ts) : more[k] = ts[k]
      /\ LettersOf(more) = L \cup U
  BY OneMoreText
<1>5. \A i \in 1..n : Quotes(chunks[i], more)
  <2> SUFFICES ASSUME NEW i \in 1..n
               PROVE  Quotes(chunks[i], more)
    OBVIOUS
  <2>1. chunks[i] \in Seq(Int) /\ Quotes(chunks[i], ts)
    BY <1>1 DEF n
  <2> QED
    BY <2>1, QuotesMore
<1>6. chunks # <<>> => Continues(chunks[n], candidate, limits.overlap)
  <2> SUFFICES ASSUME chunks # <<>>
               PROVE  Continues(chunks[n], candidate, limits.overlap)
    OBVIOUS
  <2> DEFINE D == Preparation!Letters(chunks[n])
  <2>1. n \in 1..n
    BY <1>1 DEF n
  <2>2. D \subseteq L
    BY <1>1, <2>1 DEF Quotes
  <2>3. /\ \A q \in C : \E p \in D : p <= q
        /\ \E q \in C : \A p \in D : p < q
        /\ Cardinality(D \cap C) <= limits.overlap
    BY <1>1 DEF Continues
  <2>4. C # {} /\ C \subseteq L
    BY <1>1
  <2>5. /\ \A p \in L, q \in U : p < q
        /\ \A p \in D : p \in Int /\ \A q \in U : q \in Int /\ p <= q /\ p # q
    <3>1. \A p \in L, q \in U : p < q
      BY <1>3 DEF Precedes
    <3>2. chunks[n] \in Seq(Int)
      BY <1>1, <2>1 DEF n
    <3>3. (\A p \in D : p \in Int) /\ \A q \in U : q \in Int
      BY <3>2, TextFacts
    <3> HIDE DEF D
    <3>4. ASSUME NEW p \in D, NEW q \in U
          PROVE  p <= q /\ p # q
      <4>1. p < q /\ p \in Int /\ q \in Int
        BY <2>2, <3>1, <3>3
      <4> QED
        BY <4>1
    <3> QED
      BY <3>1, <3>3, <3>4
  <2> HIDE DEF D, C, U, L
  <2>6. \A q \in C \cup U : \E p \in D : p <= q
    BY <2>3, <2>4, <2>5
  <2>7. D \cap (C \cup U) = D \cap C
    BY <2>5
  <2>8. \E q \in C \cup U : \A p \in D : p < q
    BY <2>3
  <2> QED
    BY <1>3, <2>3, <2>6, <2>7, <2>8 DEF Continues, D
<1>7. LettersOf(chunks) \cup Preparation!Letters(candidate) = LettersOf(more)
  BY <1>1, <1>3, <1>4
<1>8. ASSUME NEW k \in 1..Len(more)
      PROVE  \/ Preparation!Letters(more[k]) \subseteq Preparation!Letters(candidate)
             \/ \E i \in 1..n : Preparation!Letters(more[k]) \subseteq Preparation!Letters(chunks[i])
  <2>1. k \in 1..Len(ts) \/ k = Len(ts) + 1
    BY <1>4
  <2>2. CASE k \in 1..Len(ts)
    <3>1. more[k] = ts[k]
      BY <1>4, <2>2
    <3> HIDE DEF C, more
    <3> QED
      BY <1>1, <1>3, <2>2, <3>1
  <2>3. CASE k = Len(ts) + 1
    <3>1. more[k] = u
      BY <1>4, <2>3
    <3> HIDE DEF more
    <3> QED
      BY <1>3, <3>1
  <2> QED
    BY <2>1, <2>2, <2>3
<1>9. Preparation!Letters(candidate) # {} /\ candidate # <<>>
  <2>1. Preparation!Letters(candidate) # {}
    BY <1>3
  <2> QED
    BY <2>1, NothingQuoted
<1> HIDE DEF more, L, U, C
<1>10. PackedUnits([chunks |-> chunks, current |-> candidate], more, limits)
  BY <1>1, <1>3, <1>4, <1>5, <1>6, <1>7, <1>8, <1>9 DEF PackedUnits, n
<1> QED
  BY <1>2, <1>10 DEF more

\* The next unit begins a chunk, behind an end of the one before.
LEMMA UnitBegins ==
  ASSUME NEW acc, NEW ts \in Seq(Seq(Int)), NEW u \in Seq(Int), NEW limits, limits.overlap \in Nat,
         PackedUnits(acc, ts, limits), Lined(Append(ts, u)), ts # <<>>, NEW o,
         QuotesToTheEnd(o, ts), Preparation!Letters(o) \subseteq Preparation!Letters(acc.current),
         Cardinality(Preparation!Letters(o)) <= limits.overlap, NEW next,
         next = Preparation!Join(o, Preparation!Paragraph, u), Preparation!Fits(next, limits)
  PROVE  PackedUnits([chunks |-> Append(acc.chunks, acc.current), current |-> next],
                     Append(ts, u), limits)
<1> DEFINE chunks == acc.chunks
           current == acc.current
           n == Len(chunks)
           all == Append(chunks, current)
           more == Append(ts, u)
           L == LettersOf(ts)
           U == Preparation!Letters(u)
           C == Preparation!Letters(current)
           O == Preparation!Letters(o)
<1>1. /\ chunks \in Seq(Seq(Int)) /\ QuotesToTheEnd(current, ts)
      /\ C # {} /\ Preparation!Fits(current, limits)
      /\ \A i \in 1..n : Preparation!Fits(chunks[i], limits) /\ Quotes(chunks[i], ts)
      /\ LettersOf(chunks) \cup C = L
      /\ \A i \in 1..(n - 1) : Continues(chunks[i], chunks[i + 1], limits.overlap)
      /\ chunks # <<>> => Continues(chunks[n], current, limits.overlap)
      /\ \A k \in 1..Len(ts) :
           \/ Preparation!Letters(ts[k]) \subseteq C
           \/ \E i \in 1..n : Preparation!Letters(ts[k]) \subseteq Preparation!Letters(chunks[i])
  BY DEF PackedUnits
<1> HIDE DEF chunks, current
<1>2. current \in Seq(Int) /\ Quotes(current, ts) /\ C \subseteq L
  BY <1>1 DEF QuotesToTheEnd, Quotes
<1>3. /\ QuotesToTheEnd(next, more) /\ Preparation!Letters(next) = O \cup U
      /\ Precedes(L, U) /\ U # {}
  BY QuotesNext
<1>4. /\ Len(more) = Len(ts) + 1 /\ Len(ts) \in Nat /\ more[Len(ts) + 1] = u /\ more # <<>>
      /\ \A k \in 1..Len(ts) : more[k] = ts[k]
      /\ LettersOf(more) = L \cup U
  BY OneMoreText
<1>5. /\ n \in Nat /\ all \in Seq(Seq(Int)) /\ Len(all) = n + 1 /\ all[n + 1] = current
      /\ \A i \in 1..n : all[i] = chunks[i] /\ i \in 1..(n + 1)
      /\ \A i \in 1..(n + 1) : i \in 1..n \/ i = n + 1
      /\ LettersOf(all) = LettersOf(chunks) \cup C
      /\ n + 1 \in 1..(n + 1)
  BY <1>1, <1>2, OneMoreText
<1> HIDE DEF all, n
<1>6. ASSUME NEW i \in 1..(n + 1)
      PROVE  Preparation!Fits(all[i], limits) /\ Quotes(all[i], more)
  <2>1. all[i] \in Seq(Int)
    BY <1>5
  <2>2. Preparation!Fits(all[i], limits) /\ Quotes(all[i], ts)
    <3>1. CASE i \in 1..n
      BY <1>1, <1>5, <3>1
    <3>2. CASE i = n + 1
      BY <1>1, <1>2, <1>5, <3>2
    <3> QED
      BY <1>5, <3>1, <3>2
  <2>3. Quotes(all[i], more)
    BY <2>1, <2>2, QuotesMore
  <2> QED
    BY <2>2, <2>3
<1>7. ASSUME NEW i \in 1..n
      PROVE  Continues(all[i], all[i + 1], limits.overlap)
  <2>1. CASE i = n
    <3>1. chunks # <<>>
      BY <1>5, <2>1 DEF n
    <3>2. all[i] = chunks[n] /\ all[i + 1] = current
      BY <1>5, <2>1
    <3> QED
      BY <1>1, <3>1, <3>2
  <2>2. CASE i # n
    <3>1. i \in 1..(n - 1) /\ i + 1 \in 1..n
      BY <1>5, <2>2
    <3>2. all[i] = chunks[i] /\ all[i + 1] = chunks[i + 1]
      BY <1>5, <3>1
    <3> QED
      BY <1>1, <3>1, <3>2
  <2> QED
    BY <2>1, <2>2
<1>8. Continues(current, next, limits.overlap)
  <2>1. (\A p \in C : p \in Int) /\ \A q \in U : q \in Int
    BY <1>2, TextFacts
  <2>2. Precedes(C, U)
    BY <1>2, <1>3 DEF Precedes
  <2>3. O \subseteq C
    BY DEF current
  <2> HIDE DEF U, O
  <2>4. Cardinality(O) <= limits.overlap
    BY DEF O
  <2> QED
    BY <1>1, <1>3, <2>1, <2>2, <2>3, <2>4, NextContinues
<1>9. LettersOf(all) \cup Preparation!Letters(next) = LettersOf(more)
  <2>1. O \subseteq L
    BY <1>2 DEF current
  <2> QED
    BY <1>1, <1>3, <1>4, <1>5, <2>1
<1>10. ASSUME NEW k \in 1..Len(more)
       PROVE  \/ Preparation!Letters(more[k]) \subseteq Preparation!Letters(next)
              \/ \E i \in 1..(n + 1) : Preparation!Letters(more[k]) \subseteq Preparation!Letters(all[i])
  <2>1. k \in 1..Len(ts) \/ k = Len(ts) + 1
    BY <1>4
  <2>2. CASE k \in 1..Len(ts)
    <3>1. more[k] = ts[k]
      BY <1>4, <2>2
    <3>2. CASE Preparation!Letters(ts[k]) \subseteq C
      BY <1>5, <3>1, <3>2
    <3>3. CASE \E i \in 1..n : Preparation!Letters(ts[k]) \subseteq Preparation!Letters(chunks[i])
      BY <1>5, <3>1, <3>3
    <3> QED
      BY <1>1, <2>2, <3>2, <3>3
  <2>3. CASE k = Len(ts) + 1
    <3>1. more[k] = u
      BY <1>4, <2>3
    <3> HIDE DEF more
    <3> QED
      BY <1>3, <3>1
  <2> QED
    BY <2>1, <2>2, <2>3
<1>11. Preparation!Letters(next) # {} /\ next # <<>>
  <2>1. Preparation!Letters(next) # {}
    BY <1>3
  <2> QED
    BY <2>1, NothingQuoted
<1> DEFINE result == [chunks |-> all, current |-> next]
<1>12. result = [chunks |-> result.chunks, current |-> result.current] /\ result.chunks = all /\ result.current = next
  OBVIOUS
<1>13. (n + 1) - 1 = n
  BY <1>5
<1> HIDE DEF more, L, U, C, O, result
<1>14. \A i \in 1..(Len(all) - 1) : Continues(all[i], all[i + 1], limits.overlap)
  BY <1>5, <1>7, <1>13
<1>15. all # <<>> => Continues(all[Len(all)], next, limits.overlap)
  BY <1>5, <1>8
<1>16. PackedUnits(result, more, limits)
  BY <1>3, <1>4, <1>5, <1>6, <1>9, <1>10, <1>11, <1>12, <1>14, <1>15 DEF PackedUnits
<1> QED
  BY <1>16 DEF result, more, all, chunks, current

\* A step of the chunker.
LEMMA OneMoreUnit ==
  ASSUME NEW acc, NEW ts \in Seq(Seq(Int)), NEW u \in Seq(Int), NEW limits, limits.overlap \in Nat,
         PackedUnits(acc, ts, limits), Lined(Append(ts, u)), Preparation!Fits(u, limits)
  PROVE  PackedUnits(Preparation!Extend(acc, u, limits), Append(ts, u), limits)
<1> DEFINE current == acc.current
           candidate == Preparation!Join(current, Preparation!Paragraph, u)
           end == Preparation!OverlapSuffix(current, limits)
           overlapped == Preparation!Join(end, Preparation!Paragraph, u)
<1>1. Preparation!Join(<<>>, Preparation!Paragraph, u) = u
  BY DEF Preparation!Join
<1>2. CASE Preparation!Fits(candidate, limits)
  <2>1. Preparation!Extend(acc, u, limits) = [acc EXCEPT !.current = candidate]
    BY <1>2 DEF Preparation!Extend
  <2> HIDE DEF candidate
  <2>2. candidate = Preparation!Join(acc.current, Preparation!Paragraph, u)
    BY DEF candidate
  <2> DEFINE added == [acc EXCEPT !.current = candidate]
  <2>3. PackedUnits(added, Append(ts, u), limits)
    BY <1>2, <2>2, UnitAdded
  <2> HIDE DEF added
  <2>4. Preparation!Extend(acc, u, limits) = added
    BY <2>1 DEF added
  <2> QED
    BY <2>3, <2>4
<1>3. CASE ~Preparation!Fits(candidate, limits)
  <2>1. ts # <<>> /\ current # <<>> /\ QuotesToTheEnd(current, ts)
    BY <1>1, <1>3 DEF PackedUnits
  <2>2. current \in Seq(Int) /\ Preparation!InOrder(current)
    BY <2>1 DEF QuotesToTheEnd, Quotes
  <2>3. /\ Ends(end, current)
        /\ Cardinality(Preparation!Letters(end)) <= limits.overlap
    BY <2>2, OverlapEnds
  <2>4. QuotesToTheEnd(end, ts)
    BY <2>1, <2>3, EndQuotes
  <2>5. Preparation!Letters(end) \subseteq Preparation!Letters(current)
    BY <2>3 DEF Ends
  <2>6. Preparation!Extend(acc, u, limits) =
          [chunks |-> Append(acc.chunks, acc.current),
           current |-> IF Preparation!Fits(overlapped, limits) THEN overlapped ELSE u]
    BY <1>3, <2>1 DEF Preparation!Extend
  <2>7. CASE Preparation!Fits(overlapped, limits)
    <3> HIDE DEF end
    <3>1. overlapped = Preparation!Join(end, Preparation!Paragraph, u)
      OBVIOUS
    <3>2. Preparation!Letters(end) \subseteq Preparation!Letters(acc.current)
      BY <2>5
    <3> HIDE DEF overlapped, current
    <3>3. PackedUnits([chunks |-> Append(acc.chunks, acc.current), current |-> overlapped],
                      Append(ts, u), limits)
      BY <2>1, <2>3, <2>4, <2>7, <3>1, <3>2, UnitBegins
    <3> QED
      BY <2>6, <2>7, <3>3
  <2>8. CASE ~Preparation!Fits(overlapped, limits)
    <3> DEFINE none == Preparation!Letters(<<>>)
    <3>4. QuotesToTheEnd(<<>>, ts) /\ none = {} /\ Cardinality(none) = 0
      BY NothingQuoted
    <3> HIDE DEF none
    <3>5. none \subseteq Preparation!Letters(acc.current) /\ Cardinality(none) <= limits.overlap
      BY <3>4
    <3>1. /\ QuotesToTheEnd(<<>>, ts) /\ Preparation!Letters(<<>>) \subseteq Preparation!Letters(acc.current)
          /\ Cardinality(Preparation!Letters(<<>>)) <= limits.overlap
      BY <3>4, <3>5 DEF none
    <3>2. u = Preparation!Join(<<>>, Preparation!Paragraph, u)
      BY <1>1
    <3>3. PackedUnits([chunks |-> Append(acc.chunks, acc.current), current |-> u],
                      Append(ts, u), limits)
      BY <2>1, <3>1, <3>2, UnitBegins
    <3> QED
      BY <2>6, <2>8, <3>3
  <2> QED
    BY <2>7, <2>8
<1> QED
  BY <1>2, <1>3

\* The chunks of a section.
SectionCovered(contents, blocks, limits) ==
  /\ contents \in Seq(Seq(Int))
  /\ \A i \in 1..Len(contents) :
       Preparation!Fits(contents[i], limits) /\ Quotes(contents[i], blocks)
  /\ LettersOf(contents) = LettersOf(blocks)
  /\ \A i \in 1..(Len(contents) - 1) : Continues(contents[i], contents[i + 1], limits.overlap)
  /\ \A b \in 1..Len(blocks) : Runs(contents, blocks[b])

\* The units packed, as the chunks of what they are the units of.
LEMMA UnitsPacked ==
  ASSUME NEW acc, NEW units, NEW blocks \in Seq(Seq(Int)), NEW limits, units # <<>>,
         PackedUnits(acc, units, limits), UnitsSoFar(units, blocks, limits)
  PROVE  SectionCovered(Append(acc.chunks, acc.current), blocks, limits)
<1> DEFINE chunks == acc.chunks
           current == acc.current
           n == Len(chunks)
           all == Append(chunks, current)
           C == Preparation!Letters(current)
<1>1. /\ chunks \in Seq(Seq(Int)) /\ QuotesToTheEnd(current, units)
      /\ Preparation!Fits(current, limits)
      /\ \A i \in 1..n : Preparation!Fits(chunks[i], limits) /\ Quotes(chunks[i], units)
      /\ LettersOf(chunks) \cup C = LettersOf(units)
      /\ \A i \in 1..(n - 1) : Continues(chunks[i], chunks[i + 1], limits.overlap)
      /\ chunks # <<>> => Continues(chunks[n], current, limits.overlap)
      /\ \A k \in 1..Len(units) :
           \/ Preparation!Letters(units[k]) \subseteq C
           \/ \E i \in 1..n : Preparation!Letters(units[k]) \subseteq Preparation!Letters(chunks[i])
  BY DEF PackedUnits
<1> HIDE DEF chunks, current
<1>2. current \in Seq(Int) /\ Quotes(current, units)
  BY <1>1 DEF QuotesToTheEnd
<1>3. /\ LettersOf(units) = LettersOf(blocks) /\ TiesOf(units) = TiesOf(blocks)
      /\ \A b \in 1..Len(blocks) : Runs(units, blocks[b])
  BY DEF UnitsSoFar
<1>4. \A t : Quotes(t, units) => Quotes(t, blocks)
  BY <1>3 DEF Quotes
<1>5. /\ n \in Nat /\ all \in Seq(Seq(Int)) /\ Len(all) = n + 1 /\ all[n + 1] = current
      /\ \A i \in 1..n : all[i] = chunks[i] /\ i \in 1..(n + 1)
      /\ \A i \in 1..(n + 1) : i \in 1..n \/ i = n + 1
      /\ LettersOf(all) = LettersOf(chunks) \cup C
      /\ n + 1 \in 1..(n + 1)
  BY <1>1, <1>2, OneMoreText
<1> HIDE DEF all, n
<1>6. ASSUME NEW i \in 1..(n + 1)
      PROVE  Preparation!Fits(all[i], limits) /\ Quotes(all[i], blocks)
  <2>1. CASE i \in 1..n
    BY <1>1, <1>4, <1>5, <2>1
  <2>2. CASE i = n + 1
    BY <1>1, <1>2, <1>4, <1>5, <2>2
  <2> QED
    BY <1>5, <2>1, <2>2
<1>7. ASSUME NEW i \in 1..n
      PROVE  Continues(all[i], all[i + 1], limits.overlap)
  <2>1. CASE i = n
    <3>1. chunks # <<>>
      BY <1>5, <2>1 DEF n
    <3>2. all[i] = chunks[n] /\ all[i + 1] = current
      BY <1>5, <2>1
    <3> QED
      BY <1>1, <3>1, <3>2
  <2>2. CASE i # n
    <3>1. i \in 1..(n - 1) /\ i + 1 \in 1..n
      BY <1>5, <2>2
    <3>2. all[i] = chunks[i] /\ all[i + 1] = chunks[i + 1]
      BY <1>5, <3>1
    <3> QED
      BY <1>1, <3>1, <3>2
  <2> QED
    BY <2>1, <2>2
<1>8. ASSUME NEW k \in 1..Len(units)
      PROVE  \E i \in 1..(n + 1) : Preparation!Letters(units[k]) \subseteq Preparation!Letters(all[i])
  <2>1. CASE Preparation!Letters(units[k]) \subseteq C
    BY <1>5, <2>1
  <2>2. CASE \E i \in 1..n : Preparation!Letters(units[k]) \subseteq Preparation!Letters(chunks[i])
    BY <1>5, <2>2
  <2> QED
    BY <1>1, <2>1, <2>2
<1>9. ASSUME NEW b \in 1..Len(blocks)
      PROVE  Runs(all, blocks[b])
  <2>1. blocks[b] \in Seq(Int) /\ Runs(units, blocks[b])
    BY <1>3
  <2> DEFINE block == blocks[b]
  <2> HIDE DEF block
  <2>2. block \in Seq(Int) /\ Runs(units, block)
    BY <2>1 DEF block
  <2>3. \A last \in 1..Len(block) : \A first \in 1..last :
          (\A i \in first..last : block[i] > 0) =>
            \E k \in 1..Len(units) : \A i \in first..last : block[i] \in Preparation!Letters(units[k])
    BY <2>2, RunsFacts
  <2>4. \A last \in 1..Len(block) : \A first \in 1..last :
          (\A i \in first..last : block[i] > 0) =>
            \E j \in 1..Len(all) : \A i \in first..last : block[i] \in Preparation!Letters(all[j])
    <3> SUFFICES ASSUME NEW last \in 1..Len(block), NEW first \in 1..last,
                        \A i \in first..last : block[i] > 0
                 PROVE  \E j \in 1..Len(all) : \A i \in first..last : block[i] \in Preparation!Letters(all[j])
      OBVIOUS
    <3>1. PICK k \in 1..Len(units) : \A i \in first..last : block[i] \in Preparation!Letters(units[k])
      BY <2>3
    <3>2. PICK j \in 1..(n + 1) : Preparation!Letters(units[k]) \subseteq Preparation!Letters(all[j])
      BY <1>8
    <3> QED
      BY <1>5, <3>1, <3>2
  <2> QED
    BY <2>2, <2>4, RunsFacts DEF block
<1>10. (n + 1) - 1 = n
  BY <1>5
<1>11. \A i \in 1..(Len(all) - 1) : Continues(all[i], all[i + 1], limits.overlap)
  BY <1>5, <1>7, <1>10
<1> QED
  BY <1>1, <1>3, <1>5, <1>6, <1>9, <1>11 DEF SectionCovered, all, chunks, current

\* Packing the units one after the other.
LEMMA SectionIsCovered ==
  ASSUME NEW section, NEW limits, limits.overlap \in Nat, Lined(section.blocks),
         section.blocks # <<>>,
         \A b \in 1..Len(section.blocks) : Preparation!Divisible(section.blocks[b], limits)
  PROVE  \E contents :
           /\ SectionCovered(contents, section.blocks, limits)
           /\ Preparation!ChunkSection(section, limits) =
                [i \in 1..Len(contents) |-> [key |-> section.key, content |-> contents[i]]]
<1> DEFINE units == Preparation!Units(section, limits)
           n == Len(units)
           Next1(acc, i) == Preparation!Extend(acc, units[i], limits)
           Empty == [chunks |-> <<>>, current |-> <<>>]
           Rec(g, m) == [i \in 0..m |-> IF i = 0 THEN Empty ELSE Next1(g[i - 1], i)]
           S == {m \in Nat : m <= n => \E g : g = Rec(g, m)}
           packed == CHOOSE g : g = Rec(g, n)
           contents == Append(packed[n].chunks, packed[n].current)
<1>1. Preparation!ChunkSection(section, limits) =
        [i \in 1..Len(contents) |-> [key |-> section.key, content |-> contents[i]]]
  BY DEF Preparation!ChunkSection
<1>2. UnitsSoFar(units, section.blocks, limits)
  BY UnitsOfSection
<1> HIDE DEF units
<1>3. /\ Lined(units) /\ units \in Seq(Seq(Int)) /\ n \in Nat
      /\ \A i \in 1..n : Preparation!Fits(units[i], limits) /\ units[i] \in Seq(Int)
  BY <1>2 DEF UnitsSoFar, Lined
<1>4. units # <<>> /\ section.blocks \in Seq(Seq(Int))
  <2>1. section.blocks \in Seq(Seq(Int)) /\ 1 \in 1..Len(section.blocks)
    BY DEF Lined
  <2>2. Preparation!Letters(section.blocks[1]) # {}
    BY <2>1 DEF Lined
  <2>3. LettersOf(section.blocks) # {}
    BY <2>1, <2>2 DEF LettersOf
  <2>4. LettersOf(<<>>) = {}
    BY DEF LettersOf
  <2> QED
    BY <1>2, <2>1, <2>3, <2>4 DEF UnitsSoFar
<1> HIDE DEF Next1, Empty, n
<1>5. 0 \in S
  <2>0. 0..0 = {0}
    OBVIOUS
  <2>1. [i \in 0..0 |-> Empty] = Rec([i \in 0..0 |-> Empty], 0)
    BY <2>0
  <2> QED
    BY <2>1
<1>6. \A m \in Nat : m \in S => m + 1 \in S
  <2> SUFFICES ASSUME NEW m \in Nat, m + 1 <= n, \E g : g = Rec(g, m)
               PROVE  \E h : h = Rec(h, m + 1)
    <3> HIDE DEF Rec
    <3> QED
      BY <1>3
  <2>1. PICK g : g = Rec(g, m)
    OBVIOUS
  <2> DEFINE h == [i \in 0..(m + 1) |-> IF i = m + 1 THEN Next1(g[m], m + 1) ELSE g[i]]
  <2>2. \A i \in 0..(m + 1) : h[i] = IF i = 0 THEN Empty ELSE Next1(h[i - 1], i)
    <3> SUFFICES ASSUME NEW i \in 0..(m + 1)
                 PROVE  h[i] = IF i = 0 THEN Empty ELSE Next1(h[i - 1], i)
      OBVIOUS
    <3>1. CASE i = m + 1
      BY <3>1
    <3>2. CASE i # m + 1
      <4>1. i \in 0..m /\ h[i] = g[i]
        BY <3>2
      <4>2. g[i] = IF i = 0 THEN Empty ELSE Next1(g[i - 1], i)
        BY <2>1, <4>1
      <4>3. i # 0 => h[i - 1] = g[i - 1]
        BY <3>2
      <4> QED
        BY <4>1, <4>2, <4>3
    <3> QED
      BY <3>1, <3>2
  <2>3. h = Rec(h, m + 1)
    BY <2>2
  <2> QED
    BY <2>3
<1>7. \E g : g = Rec(g, n)
  <2>1. n \in S
    <3> HIDE DEF S
    <3> QED
      BY <1>3, <1>5, <1>6, Induction
  <2> QED
    BY <1>3, <2>1
<1>8. packed = Rec(packed, n)
  BY <1>7
<1> HIDE DEF packed
<1>9. packed[0] = Empty /\ \A i \in 1..n : packed[i] = Next1(packed[i - 1], i)
  BY <1>3, <1>8
<1> DEFINE before(i) == SubSeq(units, 1, i)
           P == {m \in Nat : m <= n => PackedUnits(packed[m], before(m), limits)}
<1>10. /\ before(0) = <<>> /\ before(n) = units
       /\ \A i \in 0..n : before(i) \in Seq(Seq(Int)) /\ Len(before(i)) = i
       /\ \A i \in 1..n : before(i) = Append(before(i - 1), units[i])
  BY <1>3, FirstTexts DEF n, Grows
<1>11. \A i \in 1..n : Lined(before(i))
  BY <1>3, LinedPrefix DEF n
<1> HIDE DEF before
<1>12. 0 \in P
  <2>1. Empty = [chunks |-> Empty.chunks, current |-> Empty.current] /\ Empty.chunks = <<>> /\ Empty.current = <<>>
    BY DEF Empty
  <2>2. <<>> \in Seq(Seq(Int)) /\ Len(<<>>) = 0
    OBVIOUS
  <2>3. QuotesToTheEnd(<<>>, <<>>) /\ Preparation!Letters(<<>>) = {}
    BY NothingQuoted
  <2>4. LettersOf(<<>>) = {}
    BY <2>2 DEF LettersOf
  <2>5. \A i \in 1..0 : FALSE
    OBVIOUS
  <2>6. \A i \in 1..(0 - 1) : FALSE
    OBVIOUS
  <2>7. PackedUnits(Empty, <<>>, limits)
    BY <2>1, <2>2, <2>3, <2>4, <2>5, <2>6, Zenon DEF PackedUnits
  <2> QED
    BY <1>9, <1>10, <2>7
<1>13. \A m \in Nat : m \in P => m + 1 \in P
  <2> SUFFICES ASSUME NEW m \in Nat, m + 1 <= n, PackedUnits(packed[m], before(m), limits)
               PROVE  PackedUnits(packed[m + 1], before(m + 1), limits)
    BY <1>3
  <2> DEFINE i == m + 1
  <2>1. i \in 1..n /\ i - 1 = m /\ m \in 0..n
    BY <1>3
  <2> HIDE DEF i
  <2>2. packed[i] = Preparation!Extend(packed[m], units[i], limits)
    BY <1>9, <2>1 DEF Next1
  <2>3. before(i) = Append(before(m), units[i]) /\ before(m) \in Seq(Seq(Int))
    BY <1>10, <2>1
  <2>4. units[i] \in Seq(Int) /\ Preparation!Fits(units[i], limits)
    BY <1>3, <2>1
  <2>5. Lined(Append(before(m), units[i]))
    BY <1>11, <2>1, <2>3
  <2>6. PackedUnits(packed[i], before(i), limits)
    BY <2>2, <2>3, <2>4, <2>5, OneMoreUnit
  <2> QED
    BY <2>6 DEF i
<1>14. n \in P
  <2> HIDE DEF P
  <2> QED
    BY <1>3, <1>12, <1>13, Induction
<1>15. PackedUnits(packed[n], units, limits)
  BY <1>3, <1>10, <1>14
<1>16. SectionCovered(contents, section.blocks, limits)
  BY <1>2, <1>4, <1>15, UnitsPacked
<1> QED
  BY <1>1, <1>16

\* Where the sequences are in their concatenation: the one with number r ends at e[r].
Placed(whole, e, ss) ==
  /\ \A r \in 0..Len(ss) : e[r] \in Nat
  /\ e[0] = 0 /\ Len(whole) = e[Len(ss)]
  /\ \A r \in 1..Len(ss) :
       e[r] = e[r - 1] + Len(ss[r]) /\ \A i \in 1..Len(ss[r]) : whole[e[r - 1] + i] = ss[r][i]
  /\ \A r, t \in 0..Len(ss) : r <= t => e[r] <= e[t]
  /\ \A i \in 1..Len(whole) : \E r \in 1..Len(ss) : e[r - 1] < i /\ i <= e[r]

LEMMA ConcatPlaces ==
  ASSUME NEW T, NEW ss \in Seq(Seq(T))
  PROVE  Preparation!Concat(ss) \in Seq(T) /\ \E e : Placed(Preparation!Concat(ss), e, ss)
<1> DEFINE n == Len(ss)
<1>1. n \in Nat /\ \A s \in 1..n : ss[s] \in Seq(T)
  OBVIOUS
<1>2. PICK upTo : /\ upTo[0] = <<>>
                  /\ \A i \in 1..Len(ss) : upTo[i] = upTo[i - 1] \o ss[i]
                  /\ Preparation!Concat(ss) = upTo[Len(ss)]
  BY <1>1, ConcatGrows
<1>3. upTo[0] = <<>> /\ (\A i \in 1..n : upTo[i] = upTo[i - 1] \o ss[i]) /\ Preparation!Concat(ss) = upTo[n]
  BY <1>2
<1> HIDE DEF n
<1> DEFINE e(r) == Len(upTo[r])
           J(s) == /\ \A r \in 0..s : upTo[r] \in Seq(T) /\ e(r) \in Nat /\ e(r) <= e(s)
                   /\ \A r \in 1..s : e(r) = e(r - 1) + Len(ss[r])
                   /\ \A r \in 1..s : \A i \in 1..Len(ss[r]) : upTo[s][e(r - 1) + i] = ss[r][i]
                   /\ \A i \in 1..e(s) : \E r \in 1..s : e(r - 1) < i /\ i <= e(r)
           U == {s \in Nat : s <= n => J(s)}
<1>4. 0 \in U
  <2>1. <<>> \in Seq(T) /\ Len(<<>>) = 0 /\ (\A r \in 0..0 : r = 0) /\ (\A r \in 1..0 : FALSE)
    OBVIOUS
  <2>2. e(0) = 0
    BY <1>3, <2>1
  <2> HIDE DEF e
  <2>3. \A r \in 0..0 : upTo[r] \in Seq(T) /\ e(r) \in Nat /\ e(r) <= e(0)
    <3> SUFFICES ASSUME NEW r \in 0..0
                 PROVE  upTo[r] \in Seq(T) /\ e(r) \in Nat /\ e(r) <= e(0)
      OBVIOUS
    <3>1. r = 0
      OBVIOUS
    <3>2. upTo[0] \in Seq(T) /\ e(0) \in Nat /\ e(0) <= e(0)
      BY <1>3, <2>1, <2>2
    <3> QED
      BY <3>1, <3>2
  <2>4. \A i \in 1..e(0) : FALSE
    BY <2>2
  <2>5. J(0)
    BY <2>1, <2>3, <2>4
  <2> HIDE DEF J
  <2> QED
    BY <2>5
<1>5. \A s \in Nat : s \in U => s + 1 \in U
  <2> SUFFICES ASSUME NEW s \in Nat, s + 1 <= n, J(s)
               PROVE  J(s + 1)
    <3> HIDE DEF J
    <3> QED
      BY <1>1
  <2> DEFINE q == s + 1
             a == upTo[s]
             b == ss[q]
  <2>1. /\ q \in 1..n /\ q - 1 = s /\ s \in 0..s /\ q \in Nat
        /\ (\A r \in 0..q : r \in 0..s \/ r = q) /\ \A r \in 1..q : r \in 1..s \/ r = q
    BY <1>1
  <2>10. \A r \in 1..s : r \in 1..q /\ r - 1 \in 0..s
    OBVIOUS
  <2> HIDE DEF q
  <2>2. upTo[q] = a \o b /\ a \in Seq(T) /\ b \in Seq(T)
    BY <1>1, <1>3, <2>1
  <2> DEFINE la == Len(a)
             lb == Len(b)
  <2>3. /\ upTo[q] \in Seq(T) /\ la \in Nat /\ lb \in Nat /\ e(q) = la + lb /\ e(s) = la
        /\ \A i \in 1..la : upTo[q][i] = a[i]
        /\ \A i \in 1..lb : upTo[q][la + i] = b[i]
    <3> HIDE DEF a, b
    <3>1. upTo[q] \in Seq(T) /\ la \in Nat /\ lb \in Nat /\ e(q) = la + lb
      BY <2>2
    <3>2. \A i \in 1..la : upTo[q][i] = a[i]
      BY <2>2
    <3>3. \A i \in 1..lb : upTo[q][la + i] = b[i]
      BY <2>2
    <3> QED
      BY <3>1, <3>2, <3>3 DEF a
  <2>4. /\ \A r \in 0..s : upTo[r] \in Seq(T) /\ e(r) \in Nat /\ e(r) <= la
        /\ \A r \in 1..s : e(r) = e(r - 1) + Len(ss[r])
        /\ \A r \in 1..s : \A i \in 1..Len(ss[r]) : a[e(r - 1) + i] = ss[r][i]
        /\ \A i \in 1..la : \E r \in 1..s : e(r - 1) < i /\ i <= e(r)
    OBVIOUS
  <2>5. \A r \in 1..s : Len(ss[r]) \in Nat /\ r \in 1..n
    <3>1. \A r \in 1..s : r \in 1..n
      BY <1>1
    <3> QED
      BY <1>1, <3>1
  <2> HIDE DEF e, a, b, la, lb
  <2>6. \A r \in 0..q : upTo[r] \in Seq(T) /\ e(r) \in Nat /\ e(r) <= e(q)
    BY <2>1, <2>3, <2>4
  <2>7. \A r \in 1..q : e(r) = e(r - 1) + Len(ss[r])
    BY <2>1, <2>3, <2>4 DEF b, lb
  <2>8. ASSUME NEW r \in 1..q, NEW i \in 1..Len(ss[r])
        PROVE  upTo[q][e(r - 1) + i] = ss[r][i]
    <3>1. CASE r = q
      BY <2>1, <2>3, <3>1 DEF b, lb
    <3>2. CASE r # q
      <4>1. r \in 1..s /\ r - 1 \in 0..s /\ r \in 0..s
        BY <2>1, <2>10, <3>2
      <4>2. e(r - 1) \in Nat /\ e(r) \in Nat /\ e(r) <= la /\ e(r) = e(r - 1) + Len(ss[r]) /\ Len(ss[r]) \in Nat
        BY <2>4, <2>5, <4>1
      <4> DEFINE x == e(r - 1)
                 k == Len(ss[r])
      <4>4. x \in Nat /\ k \in Nat /\ x + k <= la /\ i \in 1..k
        BY <4>2
      <4> HIDE DEF x, k
      <4>5. x + i \in 1..la
        BY <2>3, <4>4
      <4>3. e(r - 1) + i \in 1..la
        BY <4>5 DEF x
      <4> QED
        BY <2>3, <2>4, <4>1, <4>3
    <3> QED
      BY <3>1, <3>2
  <2>9. ASSUME NEW i \in 1..e(q)
        PROVE  \E r \in 1..q : e(r - 1) < i /\ i <= e(r)
    <3>1. CASE i <= la
      <4>1. i \in 1..la
        BY <2>3, <3>1
      <4> QED
        BY <2>4, <2>10, <4>1
    <3>2. CASE ~(i <= la)
      <4>1. e(q - 1) < i /\ i <= e(q) /\ q \in 1..q
        BY <2>1, <2>3, <3>2
      <4> QED
        BY <4>1
    <3> QED
      BY <3>1, <3>2
  <2>11. J(q)
    BY <2>6, <2>7, <2>8, <2>9
  <2> QED
    BY <2>11 DEF q
<1>6. \A s \in 0..n : J(s)
  <2>1. Nat \subseteq U
    <3> HIDE DEF U
    <3> QED
      BY <1>4, <1>5, Induction
  <2> HIDE DEF J
  <2> QED
    BY <1>1, <2>1
<1> DEFINE ends == [r \in 0..n |-> e(r)]
           whole == Preparation!Concat(ss)
<1>7. n \in 0..n /\ 0 \in 0..n /\ \A r \in 1..n : r \in 0..n /\ r - 1 \in 0..n
  BY <1>1
<1>8. \A r \in 0..n : ends[r] = e(r)
  OBVIOUS
<1>9. e(0) = 0 /\ e(n) = Len(whole)
  BY <1>3
<1>10. /\ \A r \in 0..n : upTo[r] \in Seq(T) /\ e(r) \in Nat
       /\ \A r \in 1..n : e(r) = e(r - 1) + Len(ss[r])
       /\ \A r \in 1..n : \A i \in 1..Len(ss[r]) : whole[e(r - 1) + i] = ss[r][i]
       /\ \A i \in 1..e(n) : \E r \in 1..n : e(r - 1) < i /\ i <= e(r)
  <2>1. J(n)
    BY <1>6, <1>7
  <2> HIDE DEF e
  <2> QED
    BY <1>3, <2>1
<1>11. \A r, t \in 0..n : r <= t => e(r) <= e(t)
  <2> SUFFICES ASSUME NEW r \in 0..n, NEW t \in 0..n, r <= t
               PROVE  e(r) <= e(t)
    OBVIOUS
  <2>1. r \in 0..t
    OBVIOUS
  <2>2. J(t)
    <3> HIDE DEF J
    <3> QED
      BY <1>6
  <2> QED
    BY <2>1, <2>2
<1> HIDE DEF e, ends, whole, J, U
<1>12. Placed(whole, ends, ss)
  <2>1. /\ \A r \in 0..n : ends[r] \in Nat
        /\ ends[0] = 0 /\ Len(whole) = ends[n]
        /\ \A r, t \in 0..n : r <= t => ends[r] <= ends[t]
    BY <1>7, <1>8, <1>9, <1>10, <1>11
  <2>2. \A r \in 1..n :
          ends[r] = ends[r - 1] + Len(ss[r]) /\ \A i \in 1..Len(ss[r]) : whole[ends[r - 1] + i] = ss[r][i]
    BY <1>7, <1>8, <1>10
  <2>3. \A i \in 1..Len(whole) : \E r \in 1..n : ends[r - 1] < i /\ i <= ends[r]
    <3> SUFFICES ASSUME NEW i \in 1..Len(whole)
                 PROVE  \E r \in 1..n : ends[r - 1] < i /\ i <= ends[r]
      OBVIOUS
    <3>1. PICK r \in 1..n : e(r - 1) < i /\ i <= e(r)
      BY <1>9, <1>10
    <3> QED
      BY <1>7, <1>8, <3>1
  <2> QED
    BY <2>1, <2>2, <2>3 DEF Placed, n
<1>13. whole \in Seq(T)
  BY <1>3, <1>7, <1>10 DEF whole
<1> QED
  BY <1>12, <1>13 DEF whole

\* What the chunker promises of valid sections whose blocks can be divided.
LEMMA SectionsAreCovered ==
  ASSUME NEW sections, NEW limits, Preparation!ValidSections(sections), limits.overlap \in Nat,
         \A s \in 1..Len(sections) : \A b \in 1..Len(sections[s].blocks) :
           Preparation!Divisible(sections[s].blocks[b], limits)
  PROVE  Covers(Preparation!ChunkSections(sections, limits), sections, limits)
<1> DEFINE m == Len(sections)
           blocks(s) == sections[s].blocks
           key(s) == sections[s].key
           IsCover(c, s) == /\ SectionCovered(c, blocks(s), limits)
                            /\ Preparation!ChunkSection(sections[s], limits) =
                                 [i \in 1..Len(c) |-> [key |-> key(s), content |-> c[i]]]
           contents(s) == CHOOSE c : IsCover(c, s)
           ss == [s \in 1..m |-> Preparation!ChunkSection(sections[s], limits)]
           T == [key : {key(s) : s \in 1..m}, content : Seq(Int)]
           chunks == Preparation!ChunkSections(sections, limits)
<1>1. m \in Nat
  BY DEF Preparation!ValidSections
<1>2. \A r, s \in 1..m : key(r) = key(s) => r = s
  BY DEF Preparation!ValidSections
<1>3. \A s \in 1..m : Lined(blocks(s)) /\ blocks(s) # <<>>
  <2> SUFFICES ASSUME NEW s \in 1..m
               PROVE  Lined(blocks(s)) /\ blocks(s) # <<>>
    OBVIOUS
  <2>1. /\ blocks(s) \in Seq(Seq(Int)) /\ blocks(s) # <<>>
        /\ \A b \in 1..Len(blocks(s)) :
             Preparation!Letters(blocks(s)[b]) # {} /\ Preparation!InOrder(blocks(s)[b])
        /\ \A a, b \in 1..Len(blocks(s)) : a < b =>
             \A p \in Preparation!Letters(blocks(s)[a]), q \in Preparation!Letters(blocks(s)[b]) : p < q
    BY DEF Preparation!ValidSections
  <2> QED
    BY <2>1 DEF Lined, Precedes
<1>4. ASSUME NEW s \in 1..m
      PROVE  IsCover(contents(s), s)
  <2> DEFINE section == sections[s]
  <2>1. \A b \in 1..Len(section.blocks) : Preparation!Divisible(section.blocks[b], limits)
    OBVIOUS
  <2>2. Lined(section.blocks) /\ section.blocks # <<>>
    BY <1>3
  <2> HIDE DEF section
  <2>3. \E c : /\ SectionCovered(c, section.blocks, limits)
               /\ Preparation!ChunkSection(section, limits) =
                    [i \in 1..Len(c) |-> [key |-> section.key, content |-> c[i]]]
    BY <2>1, <2>2, SectionIsCovered
  <2>4. \E c : IsCover(c, s)
    BY <2>3 DEF section
  <2> HIDE DEF IsCover
  <2> QED
    BY <2>4
<1> HIDE DEF contents
<1>5. \A s \in 1..m :
        /\ SectionCovered(contents(s), blocks(s), limits)
        /\ ss[s] = [i \in 1..Len(contents(s)) |-> [key |-> key(s), content |-> contents(s)[i]]]
  BY <1>4
<1>6. \A s \in 1..m : contents(s) \in Seq(Seq(Int)) /\ Len(contents(s)) \in Nat
  <2>1. \A s \in 1..m : contents(s) \in Seq(Seq(Int))
    BY <1>5 DEF SectionCovered
  <2> QED
    BY <2>1
<1>7. /\ \A s \in 1..m : ss[s] \in Seq(T) /\ Len(ss[s]) = Len(contents(s))
      /\ \A s \in 1..m : \A i \in 1..Len(contents(s)) :
           ss[s][i].key = key(s) /\ ss[s][i].content = contents(s)[i]
  <2> SUFFICES ASSUME NEW s \in 1..m
               PROVE  /\ ss[s] \in Seq(T) /\ Len(ss[s]) = Len(contents(s))
                      /\ \A i \in 1..Len(contents(s)) :
                           ss[s][i].key = key(s) /\ ss[s][i].content = contents(s)[i]
    OBVIOUS
  <2> DEFINE c == contents(s)
  <2>1. c \in Seq(Seq(Int)) /\ Len(c) \in Nat
    BY <1>6
  <2>2. ss[s] = [i \in 1..Len(c) |-> [key |-> key(s), content |-> c[i]]] /\ key(s) \in {key(r) : r \in 1..m}
    BY <1>5
  <2> HIDE DEF c, ss, key
  <2>3. \A i \in 1..Len(c) : [key |-> key(s), content |-> c[i]] \in T
    BY <2>1, <2>2
  <2>4. ss[s] \in Seq(T) /\ Len(ss[s]) = Len(c)
    BY <2>1, <2>2, <2>3
  <2> QED
    BY <2>2, <2>4 DEF c
<1>8. ss \in Seq(Seq(T)) /\ Len(ss) = m
  <2>1. \A s \in 1..m : ss[s] \in Seq(T)
    BY <1>7
  <2> HIDE DEF T
  <2>2. ss = [s \in 1..m |-> ss[s]]
    OBVIOUS
  <2> HIDE DEF ss
  <2> QED
    BY <1>1, <2>1, <2>2
<1>9. chunks = Preparation!Concat(ss)
  BY DEF Preparation!ChunkSections
<1> HIDE DEF ss, T, chunks, m, blocks, key, IsCover
<1>10. chunks \in Seq(T)
  BY <1>8, <1>9, ConcatPlaces
<1>11. PICK e : Placed(chunks, e, ss)
  BY <1>8, <1>9, ConcatPlaces
<1> DEFINE n == Len(chunks)
           k(s) == Len(contents(s))
<1>12. /\ \A r \in 0..m : e[r] \in Nat
       /\ \A r \in 1..m : e[r] = e[r - 1] + k(r)
       /\ \A r \in 1..m : \A i \in 1..k(r) : chunks[e[r - 1] + i] = ss[r][i]
       /\ \A r, t \in 0..m : r <= t => e[r] <= e[t]
       /\ \A i \in 1..n : \E r \in 1..m : e[r - 1] < i /\ i <= e[r]
       /\ n = e[m]
  BY <1>7, <1>8, <1>11 DEF Placed
<1>13. /\ \A r \in 1..m : r - 1 \in 0..m /\ r \in 0..m /\ k(r) \in Nat
       /\ m \in 0..m
  BY <1>1, <1>6
<1> HIDE DEF k
\* The chunks of a section are those between the ends of the one before and of its own.
<1>14. ASSUME NEW r \in 1..m, NEW j \in 1..k(r)
       PROVE  /\ e[r - 1] + j \in 1..n
              /\ chunks[e[r - 1] + j].key = key(r) /\ chunks[e[r - 1] + j].content = contents(r)[j]
  <2>1. e[r - 1] \in Nat /\ e[r] \in Nat /\ e[r] = e[r - 1] + k(r) /\ e[r] <= n /\ k(r) \in Nat /\ n \in Nat
    <3>1. r <= m
      BY <1>1
    <3> QED
      BY <1>12, <1>13, <3>1
  <2> DEFINE x == e[r - 1]
  <2> HIDE DEF x, n
  <2>2. x \in Nat /\ x + k(r) <= n
    BY <2>1 DEF x
  <2>3. x + j \in 1..n
    BY <2>1, <2>2
  <2>4. chunks[x + j] = ss[r][j]
    BY <1>12 DEF x
  <2> QED
    BY <1>7, <2>3, <2>4 DEF x, k
<1>15. ASSUME NEW i \in 1..n, NEW r \in 1..m, e[r - 1] < i, i <= e[r]
       PROVE  i - e[r - 1] \in 1..k(r) /\ e[r - 1] + (i - e[r - 1]) = i
  <2>1. e[r - 1] \in Nat /\ e[r] = e[r - 1] + k(r) /\ k(r) \in Nat
    BY <1>12, <1>13
  <2> DEFINE x == e[r - 1]
  <2>2. x \in Nat /\ i <= x + k(r) /\ x < i /\ i \in Int
    BY <1>15, <2>1
  <2> HIDE DEF x
  <2>3. i - x \in 1..k(r) /\ x + (i - x) = i
    BY <2>1, <2>2
  <2> QED
    BY <2>3 DEF x
<1>16. ASSUME NEW i \in 1..n
       PROVE  \E r \in 1..m : \E j \in 1..k(r) :
                /\ i = e[r - 1] + j /\ e[r - 1] < i /\ i <= e[r]
                /\ chunks[i].key = key(r) /\ chunks[i].content = contents(r)[j]
  <2>1. PICK r \in 1..m : e[r - 1] < i /\ i <= e[r]
    BY <1>12
  <2> DEFINE j == i - e[r - 1]
  <2>2. j \in 1..k(r) /\ e[r - 1] + j = i
    BY <1>15, <2>1
  <2> HIDE DEF j
  <2>3. chunks[e[r - 1] + j].key = key(r) /\ chunks[e[r - 1] + j].content = contents(r)[j]
    BY <1>14, <2>2
  <2> QED
    BY <2>1, <2>2, <2>3
<1> HIDE DEF n
<1>17. \A i \in 1..n : Preparation!Fits(chunks[i].content, limits)
  <2> SUFFICES ASSUME NEW i \in 1..n
               PROVE  Preparation!Fits(chunks[i].content, limits)
    OBVIOUS
  <2>1. PICK r \in 1..m : \E j \in 1..k(r) : chunks[i].content = contents(r)[j]
    BY <1>16
  <2> QED
    BY <1>5, <2>1 DEF SectionCovered, k
<1>18. \A i, j \in 1..n : i < j =>
         \E s, t \in 1..m : s <= t /\ chunks[i].key = key(s) /\ chunks[j].key = key(t)
  <2> SUFFICES ASSUME NEW i \in 1..n, NEW j \in 1..n, i < j
               PROVE  \E s, t \in 1..m : s <= t /\ chunks[i].key = key(s) /\ chunks[j].key = key(t)
    OBVIOUS
  <2>1. PICK s \in 1..m : e[s - 1] < i /\ i <= e[s] /\ chunks[i].key = key(s)
    BY <1>16
  <2>2. PICK t \in 1..m : e[t - 1] < j /\ j <= e[t] /\ chunks[j].key = key(t)
    BY <1>16
  <2>3. s <= t
    <3> SUFFICES ASSUME ~(s <= t)
                 PROVE  FALSE
      OBVIOUS
    <3>1. t <= s - 1 /\ t \in 0..m /\ s - 1 \in 0..m
      BY <1>1
    <3>2. e[t] <= e[s - 1] /\ e[t] \in Nat /\ e[s - 1] \in Nat
      BY <1>12, <3>1
    <3> QED
      BY <2>1, <2>2, <3>2
  <2> QED
    BY <2>1, <2>2, <2>3
<1>19. ASSUME NEW s \in 1..m
       PROVE  LET own == {i \in 1..n : chunks[i].key = key(s)}
              IN /\ \A i \in own : Quotes(chunks[i].content, blocks(s))
                 /\ LettersOf(blocks(s)) = UNION {Preparation!Letters(chunks[i].content) : i \in own}
                 /\ \A i \in own : i + 1 \in own =>
                      Continues(chunks[i].content, chunks[i + 1].content, limits.overlap)
                 /\ \A b \in 1..Len(blocks(s)) :
                      HoldsRuns({chunks[i].content : i \in own}, blocks(s)[b])
  <2> DEFINE own == {i \in 1..n : chunks[i].key = key(s)}
             c == contents(s)
             x == e[s - 1]
  <2>1. \A i \in own : \E j \in 1..Len(c) : i = x + j /\ chunks[i].content = c[j]
    <3> SUFFICES ASSUME NEW i \in 1..n, chunks[i].key = key(s)
                 PROVE  \E j \in 1..Len(c) : i = x + j /\ chunks[i].content = c[j]
      OBVIOUS
    <3>1. PICK r \in 1..m : \E j \in 1..k(r) : /\ i = e[r - 1] + j
                                               /\ chunks[i].key = key(r) /\ chunks[i].content = contents(r)[j]
      BY <1>16
    <3>2. r = s
      BY <1>2, <3>1
    <3> QED
      BY <3>1, <3>2 DEF k
  <2>2. \A j \in 1..Len(c) : x + j \in own /\ chunks[x + j].content = c[j]
    BY <1>14 DEF k
  <2>3. x \in Nat /\ Len(c) \in Nat
    BY <1>6, <1>12, <1>13
  <2>4. /\ \A j \in 1..Len(c) : Quotes(c[j], blocks(s))
        /\ LettersOf(c) = LettersOf(blocks(s))
        /\ \A j \in 1..(Len(c) - 1) : Continues(c[j], c[j + 1], limits.overlap)
        /\ \A b \in 1..Len(blocks(s)) : Runs(c, blocks(s)[b])
    BY <1>5 DEF SectionCovered
  <2> HIDE DEF own, c, x
  <2>5. \A i \in own : Quotes(chunks[i].content, blocks(s))
    BY <2>1, <2>4
  <2>6. {chunks[i].content : i \in own} = {c[j] : j \in 1..Len(c)}
    BY <2>1, <2>2
  <2>7. LettersOf(c) = UNION {Preparation!Letters(chunks[i].content) : i \in own}
    <3>1. \A p : p \in LettersOf(c) <=> \E j \in 1..Len(c) : p \in Preparation!Letters(c[j])
      BY DEF LettersOf
    <3>2. \A p : p \in UNION {Preparation!Letters(chunks[i].content) : i \in own} <=>
            \E i \in own : p \in Preparation!Letters(chunks[i].content)
      OBVIOUS
    <3>3. ASSUME NEW p
          PROVE  p \in LettersOf(c) <=> p \in UNION {Preparation!Letters(chunks[i].content) : i \in own}
      <4>1. ASSUME NEW j \in 1..Len(c), p \in Preparation!Letters(c[j])
            PROVE  \E i \in own : p \in Preparation!Letters(chunks[i].content)
        BY <2>2, <4>1
      <4>2. ASSUME NEW i \in own, p \in Preparation!Letters(chunks[i].content)
            PROVE  \E j \in 1..Len(c) : p \in Preparation!Letters(c[j])
        BY <2>1, <4>2
      <4> QED
        BY <3>1, <3>2, <4>1, <4>2
    <3> QED
      BY <3>3
  <2>8. ASSUME NEW i \in own, i + 1 \in own
        PROVE  Continues(chunks[i].content, chunks[i + 1].content, limits.overlap)
    <3>1. PICK j \in 1..Len(c) : i = x + j /\ chunks[i].content = c[j]
      BY <2>1
    <3>2. PICK h \in 1..Len(c) : i + 1 = x + h /\ chunks[i + 1].content = c[h]
      BY <2>1, <2>8
    <3>3. j \in 1..(Len(c) - 1) /\ h = j + 1
      BY <2>3, <3>1, <3>2
    <3> QED
      BY <2>4, <3>1, <3>2, <3>3
  <2>9. \A b \in 1..Len(blocks(s)) : HoldsRuns({chunks[i].content : i \in own}, blocks(s)[b])
    BY <2>4, <2>6 DEF Runs
  <2> QED
    BY <2>4, <2>5, <2>7, <2>8, <2>9 DEF own
<1> QED
  BY <1>17, <1>18, <1>19 DEF Covers, n, m, chunks, blocks, key

\* ChunksCoverTheText: what is returned as the chunks of a document covers its text.
THEOREM ChunksKeepTheText == Spec => []ChunksCoverTheText
<1>1. Recorded => ChunksCoverTheText
  <2> SUFFICES ASSUME Recorded, case.of = "chunk", case.out # Preparation!Refused
               PROVE  Covers(case.out.chunks, case.in.sections, case.in.limits)
    BY DEF ChunksCoverTheText
  <2>1. PICK sections \in Documents, limits \in Limits :
          /\ case.in = [sections |-> sections, limits |-> limits]
          /\ case.out = Chunked(sections, limits)
    BY DEF Recorded
  <2>2. case.in.sections = sections /\ case.in.limits = limits
    BY <2>1
  <2>3. /\ \A s \in 1..Len(sections) : \A b \in 1..Len(sections[s].blocks) :
             Preparation!Divisible(sections[s].blocks[b], limits)
        /\ case.out.chunks = Preparation!ChunkSections(sections, limits)
    BY <2>1 DEF Chunked
  <2>4. Preparation!ValidSections(sections)
    BY ArgumentAssumption
  <2>5. Preparation!ValidLimits(limits)
    BY ArgumentAssumption
  <2>6. limits.overlap \in Nat
    BY <2>5 DEF Preparation!ValidLimits
  <2> QED
    BY <2>2, <2>3, <2>4, <2>6, SectionsAreCovered
<1> QED
  BY <1>1, CallsAreRecorded, PTL

-----------------------------------------------------------------------------
(* The loading of sources *)

\* One more section does not change how many blocks the others have.
LEMMA BlocksOfMore ==
  ASSUME NEW T, NEW sections \in Seq([key : Int, path : Seq(T), blocks : Seq(T)]),
         NEW new \in [key : Int, path : Seq(T), blocks : Seq(T)]
  PROVE  LET more == Append(sections, new)
             n == Len(sections)
         IN /\ BlocksUpTo(sections, n) \in Int
            /\ \A s \in 0..n : BlocksUpTo(more, s) = BlocksUpTo(sections, s)
            /\ BlocksUpTo(more, n + 1) = BlocksUpTo(sections, n) + Len(new.blocks)
<1> DEFINE more == Append(sections, new)
           n == Len(sections)
           sizes(of, s) == [r \in 1..s |-> Len(of[r].blocks)]
<1>1. n \in Nat
  OBVIOUS
<1>2. Len(more) = n + 1 /\ more[n + 1] = new /\ \A r \in 1..n : more[r] = sections[r]
  OBVIOUS
<1>3. /\ \A r \in 1..n : Len(sections[r].blocks) \in Nat
      /\ Len(new.blocks) \in Nat
  BY SMTT(30)
<1> HIDE DEF more, n
<1>4. \A s \in 0..n : sizes(more, s) = sizes(sections, s)
  BY <1>1, <1>2
<1>5. \A r \in 1..(n + 1) : Len(more[r].blocks) \in Int
  BY <1>1, <1>2, <1>3
<1>6. sizes(more, n + 1) \in [1..(n + 1) -> Int] /\ sizes(sections, n) \in [1..n -> Int]
  BY <1>1, <1>3, <1>5
<1>7. [i \in 1..n |-> sizes(more, n + 1)[i]] = sizes(sections, n)
  BY <1>1, <1>2
<1>8. sizes(more, n + 1)[n + 1] = Len(new.blocks)
  BY <1>1, <1>2
<1>9. \A of, s : BlocksUpTo(of, s) = Evaluation!SumOf(sizes(of, s))
  BY DEF BlocksUpTo
<1> HIDE DEF sizes
<1>10. BlocksUpTo(sections, n) \in Int
  BY <1>1, <1>6, <1>9, SumIsNumber
<1>11. \A s \in 0..n : BlocksUpTo(more, s) = BlocksUpTo(sections, s)
  BY <1>4, <1>9
<1>12. BlocksUpTo(more, n + 1) = BlocksUpTo(sections, n) + Len(new.blocks)
  BY <1>1, <1>6, <1>7, <1>8, <1>9, SumOfMore
<1> QED
  BY <1>10, <1>11, <1>12 DEF more, n

\* One more token is one more text, or none.
LEMMA TextsOfMore ==
  ASSUME NEW tokens, NEW i \in Nat
  PROVE  /\ TextsUpTo(tokens, i) \in Nat
         /\ TextsUpTo(tokens, i + 1)
              = TextsUpTo(tokens, i) + (IF tokens[i + 1].kind = "text" THEN 1 ELSE 0)
         /\ TextsUpTo(tokens, 0) = 0
<1> DEFINE T(j) == {p \in 1..j : tokens[p].kind = "text"}
<1>0. \A j : TextsUpTo(tokens, j) = Cardinality(T(j))
  BY DEF TextsUpTo
<1>1. IsFiniteSet(T(i))
  <2>1. IsFiniteSet(1..i) /\ T(i) \in SUBSET (1..i)
    BY FS_Interval
  <2> HIDE DEF T
  <2> QED
    BY <2>1, FS_Subset
<1>2. T(0) = {}
  OBVIOUS
<1>3. Cardinality(T(i)) \in Nat /\ Cardinality(T(0)) = 0
  <2> HIDE DEF T
  <2> QED
    BY <1>1, <1>2, FS_CardinalityType, FS_EmptySet
<1>4. CASE tokens[i + 1].kind = "text"
  <2>1. T(i + 1) = T(i) \cup {i + 1} /\ i + 1 \notin T(i)
    BY <1>4
  <2> HIDE DEF T
  <2>2. Cardinality(T(i + 1)) = Cardinality(T(i)) + 1
    BY <1>1, <2>1, FS_AddElement
  <2> QED
    BY <1>0, <1>3, <1>4, <2>2
<1>5. CASE tokens[i + 1].kind # "text"
  <2>1. T(i + 1) = T(i)
    BY <1>5
  <2> HIDE DEF T
  <2>2. Cardinality(T(i)) \in Nat
    BY <1>1, FS_CardinalityType
  <2> QED
    BY <1>0, <1>3, <1>5, <2>1, <2>2
<1> QED
  BY <1>4, <1>5

\* Sections, and what is gathered while tokens are read, over texts of T.
SectionsOf(T) == Seq([key : Int, path : Seq(T), blocks : Seq(T)])
ReadingsOf(T) == [path : Seq(T), headed : BOOLEAN, blocks : Seq(T), sections : SectionsOf(T)]

\* A text lies in a section, under the headings above it.
Lies(tokens, sections, p) ==
  \E s \in 1..Len(sections) : \E b \in 1..Len(sections[s].blocks) :
    /\ BlocksUpTo(sections, s - 1) + b = TextsUpTo(tokens, p)
    /\ sections[s].blocks[b] = tokens[p].text
    /\ WellNested(tokens) => StandsUnder(sections[s].path, tokens, p)

\* A text is among the blocks that are no section yet, and no heading followed it.
Waits(tokens, i, acc, p) ==
  /\ \A q \in (p + 1)..i : tokens[q].kind # "heading"
  /\ \E b \in 1..Len(acc.blocks) :
       /\ BlocksUpTo(acc.sections, Len(acc.sections)) + b = TextsUpTo(tokens, p)
       /\ acc.blocks[b] = tokens[p].text

\* Sections are numbered; text before the first heading is the preamble.
KeysFollow(sections) ==
  \A s \in 1..Len(sections) : sections[s].key = s \/ (s = 1 /\ sections[s].key = Preparation!Preamble)

\* What holds after the first tokens.
ReadSoFar(tokens, i, acc) ==
  /\ acc \in ReadingsOf({tokens[j].text : j \in 1..Len(tokens)})
  /\ TextsUpTo(tokens, i) = BlocksUpTo(acc.sections, Len(acc.sections)) + Len(acc.blocks)
  /\ \A p \in 1..i : tokens[p].kind = "text" => Lies(tokens, acc.sections, p) \/ Waits(tokens, i, acc, p)
  /\ WellNested(tokens) => StandsUnder(acc.path, tokens, i + 1)
  /\ KeysFollow(acc.sections)

\* Positions without a heading between them stand under the same headings.
LEMMA AboveStays ==
  ASSUME NEW tokens, NEW p \in Nat, NEW i \in Nat, p <= i,
         \A q \in p..i : tokens[q].kind # "heading"
  PROVE  Above(tokens, i + 1) = Above(tokens, p)
<1>1. ASSUME NEW a \in Above(tokens, i + 1)
      PROVE  a \in Above(tokens, p)
  <2>1. a \in 1..i /\ tokens[a].kind = "heading"
    BY <1>1 DEF Above
  <2>2. a \in 1..(p - 1)
    BY <2>1
  <2>3. \A j \in (a + 1)..(p - 1) : tokens[j].kind = "heading" => tokens[j].level > tokens[a].level
    BY <1>1, <2>2 DEF Above
  <2> QED
    BY <2>1, <2>2, <2>3 DEF Above
<1>2. ASSUME NEW a \in Above(tokens, p)
      PROVE  a \in Above(tokens, i + 1)
  <2>1. a \in 1..(p - 1) /\ tokens[a].kind = "heading"
    BY <1>2 DEF Above
  <2>2. ASSUME NEW j \in (a + 1)..i, tokens[j].kind = "heading"
        PROVE  tokens[j].level > tokens[a].level
    <3>1. j \in (a + 1)..(p - 1)
      BY <2>1, <2>2
    <3> QED
      BY <1>2, <2>2, <3>1 DEF Above
  <2>3. a \in 1..((i + 1) - 1) /\ (i + 1) - 1 = i
    BY <2>1
  <2> QED
    BY <2>1, <2>2, <2>3 DEF Above
<1> QED
  BY <1>1, <1>2

\* What lies in a section still does when one is added.
LEMMA LiesInMore ==
  ASSUME NEW T, NEW tokens, NEW sections \in SectionsOf(T),
         NEW new \in [key : Int, path : Seq(T), blocks : Seq(T)], NEW p,
         Lies(tokens, sections, p)
  PROVE  Lies(tokens, Append(sections, new), p)
<1> DEFINE more == Append(sections, new)
<1>1. PICK s \in 1..Len(sections) : \E b \in 1..Len(sections[s].blocks) :
        /\ BlocksUpTo(sections, s - 1) + b = TextsUpTo(tokens, p)
        /\ sections[s].blocks[b] = tokens[p].text
        /\ WellNested(tokens) => StandsUnder(sections[s].path, tokens, p)
  BY DEF Lies
<1>2. s \in 1..Len(more) /\ more[s] = sections[s]
  BY DEF SectionsOf
<1>3. BlocksUpTo(more, s - 1) = BlocksUpTo(sections, s - 1)
  <2>1. s - 1 \in 0..Len(sections)
    BY DEF SectionsOf
  <2> QED
    BY <2>1, BlocksOfMore DEF SectionsOf
<1> HIDE DEF more
<1>4. Lies(tokens, more, p)
  BY <1>1, <1>2, <1>3 DEF Lies
<1> QED
  BY <1>4 DEF more

\* Flush: the blocks become a section of their own.
LEMMA FlushedSoFar ==
  ASSUME NEW tokens, NEW i \in Nat, NEW acc, ReadSoFar(tokens, i, acc)
  PROVE  /\ ReadSoFar(tokens, i, Preparation!Flush(acc))
         /\ Preparation!Flush(acc).blocks = <<>>
         /\ Preparation!Flush(acc).path = acc.path
         /\ \A p \in 1..i : tokens[p].kind = "text" => Lies(tokens, Preparation!Flush(acc).sections, p)
<1> DEFINE T == {tokens[j].text : j \in 1..Len(tokens)}
           n == Len(acc.sections)
           key == IF ~acc.headed /\ acc.sections = <<>> THEN Preparation!Preamble ELSE n + 1
           new == [key |-> key, path |-> acc.path, blocks |-> acc.blocks]
           flushed == Preparation!Flush(acc)
           more == Append(acc.sections, new)
<1>1. acc \in ReadingsOf(T)
  BY DEF ReadSoFar
<1>2. /\ acc.sections \in SectionsOf(T) /\ acc.path \in Seq(T) /\ acc.blocks \in Seq(T)
      /\ acc.headed \in BOOLEAN
  BY <1>1 DEF ReadingsOf
<1>3. /\ TextsUpTo(tokens, i) = BlocksUpTo(acc.sections, n) + Len(acc.blocks)
      /\ \A p \in 1..i : tokens[p].kind = "text" => Lies(tokens, acc.sections, p) \/ Waits(tokens, i, acc, p)
      /\ WellNested(tokens) => StandsUnder(acc.path, tokens, i + 1)
      /\ KeysFollow(acc.sections)
  BY DEF ReadSoFar
<1>4. CASE acc.blocks = <<>>
  <2>1. flushed = acc
    BY <1>4 DEF Preparation!Flush
  <2>2. \A p : ~Waits(tokens, i, acc, p)
    BY <1>4 DEF Waits
  <2> QED
    BY <1>3, <1>4, <2>1, <2>2
<1>5. CASE acc.blocks # <<>>
  <2>1. flushed = [acc EXCEPT !.blocks = <<>>, !.sections = more]
    BY <1>5 DEF Preparation!Flush
  <2>2. /\ flushed.blocks = <<>> /\ flushed.sections = more /\ flushed.path = acc.path
        /\ flushed.headed = acc.headed
    BY <1>1, <2>1 DEF ReadingsOf
  <2>3. n \in Nat
    BY <1>2 DEF SectionsOf
  <2>4. key \in Int
    BY <2>3 DEF Preparation!Preamble
  <2> HIDE DEF key
  <2>5. new \in [key : Int, path : Seq(T), blocks : Seq(T)]
    BY <1>2, <2>4
  <2>6. more \in SectionsOf(T) /\ Len(more) = n + 1 /\ more[n + 1] = new /\ \A s \in 1..n : more[s] = acc.sections[s]
    BY <1>2, <2>5 DEF SectionsOf
  <2>7. flushed \in ReadingsOf(T)
    <3> HIDE DEF flushed, more, new, T
    <3>1. <<>> \in Seq(T)
      OBVIOUS
    <3> QED
      BY <1>1, <2>1, <2>6, <3>1 DEF ReadingsOf
  <2>8. /\ BlocksUpTo(acc.sections, n) \in Int
        /\ BlocksUpTo(more, n) = BlocksUpTo(acc.sections, n)
        /\ BlocksUpTo(more, n + 1) = BlocksUpTo(acc.sections, n) + Len(new.blocks)
    <3>1. n \in 0..n
      BY <2>3
    <3> QED
      BY <1>2, <2>5, <3>1, BlocksOfMore DEF SectionsOf
  <2>9. new.blocks = acc.blocks /\ new.path = acc.path /\ new.key = key /\ Len(acc.blocks) \in Nat
    BY <1>2
  <2> HIDE DEF flushed, more, new, n, T
  <2>10. \A p \in 1..i : tokens[p].kind = "text" => Lies(tokens, more, p)
    <3> SUFFICES ASSUME NEW p \in 1..i, tokens[p].kind = "text"
                 PROVE  Lies(tokens, more, p)
      OBVIOUS
    <3>1. CASE Lies(tokens, acc.sections, p)
      BY <1>2, <2>5, <3>1, LiesInMore DEF more
    <3>2. CASE Waits(tokens, i, acc, p)
      <4>1. PICK b \in 1..Len(acc.blocks) :
              /\ BlocksUpTo(acc.sections, n) + b = TextsUpTo(tokens, p)
              /\ acc.blocks[b] = tokens[p].text
        BY <3>2 DEF Waits, n
      <4>2. WellNested(tokens) => StandsUnder(new.path, tokens, p)
        <5>1. \A q \in p..i : tokens[q].kind # "heading"
          BY <3>2 DEF Waits
        <5>2. Above(tokens, i + 1) = Above(tokens, p)
          BY <5>1, AboveStays
        <5> QED
          BY <1>3, <2>9, <5>2 DEF StandsUnder
      <4>3. n + 1 \in 1..Len(more) /\ (n + 1) - 1 = n
        BY <2>3, <2>6
      <4>4. BlocksUpTo(more, (n + 1) - 1) + b = TextsUpTo(tokens, p)
        BY <2>8, <4>1, <4>3
      <4> QED
        BY <2>6, <2>9, <4>1, <4>2, <4>3, <4>4 DEF Lies
    <3> QED
      BY <1>3, <3>1, <3>2
  <2>11. KeysFollow(more)
    <3>1. key = n + 1 \/ (n = 0 /\ key = Preparation!Preamble)
      BY <1>2 DEF key, n, SectionsOf
    <3>2. \A s \in 1..n : acc.sections[s].key = s \/ (s = 1 /\ acc.sections[s].key = Preparation!Preamble)
      BY <1>3 DEF KeysFollow, n
    <3> SUFFICES ASSUME NEW s \in 1..(n + 1)
                 PROVE  more[s].key = s \/ (s = 1 /\ more[s].key = Preparation!Preamble)
      BY <2>6 DEF KeysFollow
    <3>3. CASE s = n + 1
      BY <2>3, <2>6, <2>9, <3>1, <3>3
    <3>4. CASE s # n + 1
      <4>1. s \in 1..n
        BY <2>3, <3>4
      <4> QED
        BY <2>6, <3>2, <4>1
    <3> QED
      BY <3>3, <3>4
  <2>12. TextsUpTo(tokens, i) = BlocksUpTo(more, Len(more)) + Len(flushed.blocks)
    <3>1. Len(flushed.blocks) = 0
      BY <2>2
    <3> QED
      BY <1>3, <2>6, <2>8, <2>9, <3>1
  <2>13. ReadSoFar(tokens, i, flushed)
    BY <1>3, <2>2, <2>7, <2>10, <2>11, <2>12 DEF ReadSoFar, T
  <2> QED
    BY <2>2, <2>10, <2>13 DEF flushed
<1> QED
  BY <1>4, <1>5

\* A heading of a well-nested source becomes the last of the path, behind those it is under.
LEMMA PathUnderHeading ==
  ASSUME NEW tokens, Preparation!ValidTokens(tokens), WellNested(tokens), NEW i \in 1..Len(tokens),
         tokens[i].kind = "heading",
         NEW T, NEW path \in Seq(T), tokens[i].text \in T, StandsUnder(path, tokens, i)
  PROVE  StandsUnder(Preparation!Under(path, tokens[i].level, tokens[i].text), tokens, i + 1)
<1> DEFINE level == tokens[i].level
           kept == SubSeq(path, 1, level - 1)
           new == Append(kept, tokens[i].text)
           heading(j) == tokens[j].kind = "heading"
<1>0. Len(tokens) \in Nat /\ Len(path) \in Nat /\ i \in Nat
  BY DEF Preparation!ValidTokens
<1>1. \A j \in 1..Len(tokens) : heading(j) => tokens[j].level \in 1..6
  BY DEF Preparation!ValidTokens
<1>2. level \in 1..6
  BY <1>1
<1>3. level - 1 <= Len(path)
  <2>1. CASE level = 1
    BY <1>0, <2>1
  <2>2. CASE level # 1
    <3>1. level > 1
      BY <1>2, <2>2
    <3>2. PICK j \in 1..(i - 1) :
            /\ heading(j) /\ tokens[j].level >= level - 1
            /\ \A k \in (j + 1)..(i - 1) : ~heading(k)
      BY <3>1 DEF WellNested
    <3>3. j \in Above(tokens, i)
      BY <3>2 DEF Above
    <3>4. tokens[j].level \in 1..Len(path)
      BY <3>3 DEF StandsUnder
    <3> QED
      BY <1>0, <1>2, <3>2, <3>4
  <2> QED
    BY <2>1, <2>2
<1>4. Preparation!Under(path, level, tokens[i].text) = new
  <2>1. Preparation!Min({level - 1, Len(path)}) = level - 1
    <3> HIDE DEF level
    <3> QED
      BY <1>0, <1>2, <1>3 DEF Preparation!Min
  <2> QED
    BY <2>1 DEF Preparation!Under
<1>5. /\ Len(new) = level /\ new[level] = tokens[i].text
      /\ \A l \in 1..(level - 1) : new[l] = path[l]
  <2> HIDE DEF level
  <2>1. kept \in Seq(T) /\ Len(kept) = level - 1 /\ \A l \in 1..(level - 1) : kept[l] = path[l]
    BY <1>0, <1>2, <1>3
  <2> HIDE DEF kept
  <2> QED
    BY <1>2, <2>1
<1> HIDE DEF new, kept
<1>6. \A a \in Above(tokens, i) : a \in 1..(i - 1) /\ heading(a) /\ tokens[a].level \in 1..6
  BY <1>0, <1>1 DEF Above
<1>7. \A a : a \in Above(tokens, i + 1) <=> a = i \/ (a \in Above(tokens, i) /\ tokens[a].level < level)
  <2>1. ASSUME NEW a \in Above(tokens, i + 1), a # i
        PROVE  a \in Above(tokens, i) /\ tokens[a].level < level
    <3>1. a \in 1..i /\ heading(a)
      BY <1>0, <2>1 DEF Above
    <3>2. a \in 1..(i - 1)
      BY <1>0, <2>1, <3>1
    <3>3. \A j \in (a + 1)..i : heading(j) => tokens[j].level > tokens[a].level
      BY <1>0, <2>1 DEF Above
    <3>4. i \in (a + 1)..i
      BY <1>0, <3>2
    <3>5. tokens[i].level > tokens[a].level
      BY <3>3, <3>4
    <3>6. \A j \in (a + 1)..(i - 1) : j \in (a + 1)..i
      BY <1>0, <3>2
    <3>7. a \in Above(tokens, i)
      BY <3>1, <3>2, <3>3, <3>6 DEF Above
    <3> QED
      BY <1>2, <1>6, <3>5, <3>7
  <2>2. i \in Above(tokens, i + 1)
    BY <1>0 DEF Above
  <2>3. ASSUME NEW a \in Above(tokens, i), tokens[a].level < level
        PROVE  a \in Above(tokens, i + 1)
    <3>1. a \in 1..((i + 1) - 1) /\ heading(a)
      BY <1>0, <1>6
    <3>2. ASSUME NEW j \in (a + 1)..((i + 1) - 1), heading(j)
          PROVE  tokens[j].level > tokens[a].level
      <4>1. CASE j = i
        BY <1>2, <1>6, <2>3, <4>1
      <4>2. CASE j # i
        <5>1. j \in (a + 1)..(i - 1)
          BY <1>0, <3>1, <3>2, <4>2
        <5> QED
          BY <3>2, <5>1 DEF Above
      <4> QED
        BY <4>1, <4>2
    <3> QED
      BY <3>1, <3>2 DEF Above
  <2> QED
    BY <2>1, <2>2, <2>3
<1>8. /\ {tokens[a].level : a \in Above(tokens, i)} = 1..Len(path)
      /\ \A a \in Above(tokens, i) : path[tokens[a].level] = tokens[a].text
  BY DEF StandsUnder
<1> HIDE DEF level
<1>9. {tokens[a].level : a \in Above(tokens, i + 1)} = 1..level
  <2>1. ASSUME NEW a \in Above(tokens, i + 1)
        PROVE  tokens[a].level \in 1..level
    <3>1. CASE a = i
      BY <1>2, <3>1 DEF level
    <3>2. CASE a # i
      <4>1. a \in Above(tokens, i) /\ tokens[a].level < level
        BY <1>7, <2>1, <3>2
      <4>2. tokens[a].level \in 1..6
        BY <1>6, <4>1
      <4> QED
        BY <1>2, <4>1, <4>2
    <3> QED
      BY <3>1, <3>2
  <2>2. ASSUME NEW l \in 1..level
        PROVE  \E a \in Above(tokens, i + 1) : tokens[a].level = l
    <3>1. CASE l = level
      BY <1>7, <3>1 DEF level
    <3>2. CASE l # level
      <4>1. l \in 1..Len(path) /\ l < level
        BY <1>0, <1>2, <1>3, <3>2
      <4>2. PICK a \in Above(tokens, i) : tokens[a].level = l
        BY <1>8, <4>1
      <4> QED
        BY <1>7, <4>1, <4>2
    <3> QED
      BY <3>1, <3>2
  <2> QED
    BY <2>1, <2>2
<1>10. \A a \in Above(tokens, i + 1) : new[tokens[a].level] = tokens[a].text
  <2> SUFFICES ASSUME NEW a \in Above(tokens, i + 1)
               PROVE  new[tokens[a].level] = tokens[a].text
    OBVIOUS
  <2>1. CASE a = i
    BY <1>5, <2>1 DEF level
  <2>2. CASE a # i
    <3>1. a \in Above(tokens, i) /\ tokens[a].level < level
      BY <1>7, <2>2
    <3>2. tokens[a].level \in 1..6
      BY <1>6, <3>1
    <3>3. tokens[a].level \in 1..(level - 1)
      BY <1>2, <3>1, <3>2
    <3>4. new[tokens[a].level] = path[tokens[a].level]
      BY <1>5, <3>3
    <3> QED
      BY <1>8, <3>1, <3>4
  <2> QED
    BY <2>1, <2>2
<1>11. StandsUnder(new, tokens, i + 1)
  BY <1>5, <1>9, <1>10 DEF StandsUnder
<1> QED
  BY <1>4, <1>11 DEF level

\* What holds after the first tokens holds after a heading,
LEMMA HeadingRead ==
  ASSUME NEW tokens, Preparation!ValidTokens(tokens), NEW i \in Nat, i + 1 \in 1..Len(tokens),
         tokens[i + 1].kind = "heading", NEW acc, ReadSoFar(tokens, i, acc)
  PROVE  ReadSoFar(tokens, i + 1, Preparation!Consume(acc, tokens[i + 1]))
<1> DEFINE T == {tokens[j].text : j \in 1..Len(tokens)}
           f == Preparation!Flush(acc)
           token == tokens[i + 1]
           path == Preparation!Under(f.path, token.level, token.text)
           next == [f EXCEPT !.path = path, !.headed = TRUE]
<1>1. Preparation!Consume(acc, token) = next
  BY DEF Preparation!Consume
<1>2. /\ ReadSoFar(tokens, i, f) /\ f.blocks = <<>>
      /\ \A p \in 1..i : tokens[p].kind = "text" => Lies(tokens, f.sections, p)
  BY FlushedSoFar
<1>3. token.text \in T
  OBVIOUS
<1> HIDE DEF f, T
<1>4. /\ f \in ReadingsOf(T)
      /\ TextsUpTo(tokens, i) = BlocksUpTo(f.sections, Len(f.sections)) + Len(f.blocks)
      /\ WellNested(tokens) => StandsUnder(f.path, tokens, i + 1)
      /\ KeysFollow(f.sections)
  BY <1>2 DEF ReadSoFar, T
<1>5. f.path \in Seq(T)
  BY <1>4 DEF ReadingsOf
<1>6. path \in Seq(T)
  <2>1. token.level \in 1..6
    BY DEF Preparation!ValidTokens
  <2>2. Preparation!Min({token.level - 1, Len(f.path)}) \in 0..Len(f.path)
    <3>1. Len(f.path) \in Nat
      BY <1>5
    <3> HIDE DEF token
    <3>2. token.level - 1 \in Nat
      BY <2>1
    <3>3. CASE token.level - 1 <= Len(f.path)
      BY <3>1, <3>2, <3>3 DEF Preparation!Min
    <3>4. CASE Len(f.path) < token.level - 1
      BY <3>1, <3>2, <3>4 DEF Preparation!Min
    <3> QED
      BY <3>1, <3>2, <3>3, <3>4
  <2> DEFINE kept == SubSeq(f.path, 1, Preparation!Min({token.level - 1, Len(f.path)}))
  <2>3. path = Append(kept, token.text)
    BY DEF Preparation!Under
  <2>4. kept \in Seq(T)
    <3> DEFINE k == Preparation!Min({token.level - 1, Len(f.path)})
    <3>1. k \in 0..Len(f.path)
      BY <2>2
    <3> HIDE DEF k
    <3>2. SubSeq(f.path, 1, k) \in Seq(T)
      BY <1>5, <3>1
    <3> QED
      BY <3>2 DEF k
  <2> HIDE DEF token, kept, path
  <2> QED
    BY <1>3, <2>3, <2>4
<1>7. WellNested(tokens) => StandsUnder(path, tokens, (i + 1) + 1)
  BY <1>3, <1>4, <1>5, PathUnderHeading
<1> HIDE DEF path
<1>8. next \in ReadingsOf(T)
  BY <1>4, <1>6 DEF ReadingsOf
<1>9. next.path = path /\ next.blocks = f.blocks /\ next.sections = f.sections
  BY <1>4 DEF ReadingsOf
<1>10. TextsUpTo(tokens, i + 1) = TextsUpTo(tokens, i)
  <2>1. TextsUpTo(tokens, i) \in Nat
    BY TextsOfMore
  <2>2. TextsUpTo(tokens, i + 1)
          = TextsUpTo(tokens, i) + (IF tokens[i + 1].kind = "text" THEN 1 ELSE 0)
    BY TextsOfMore
  <2> QED
    BY <2>1, <2>2
<1> HIDE DEF next
<1>11. \A p \in 1..(i + 1) : tokens[p].kind = "text" => Lies(tokens, next.sections, p)
  <2> SUFFICES ASSUME NEW p \in 1..(i + 1), tokens[p].kind = "text"
               PROVE  Lies(tokens, next.sections, p)
    OBVIOUS
  <2>1. p \in 1..i
    OBVIOUS
  <2> QED
    BY <1>2, <1>9, <2>1
<1>12. ReadSoFar(tokens, i + 1, next)
  BY <1>4, <1>7, <1>8, <1>9, <1>10, <1>11 DEF ReadSoFar, T
<1> QED
  BY <1>1, <1>12

\* after a text,
LEMMA TextRead ==
  ASSUME NEW tokens, Preparation!ValidTokens(tokens), NEW i \in Nat, i + 1 \in 1..Len(tokens),
         tokens[i + 1].kind = "text", NEW acc, ReadSoFar(tokens, i, acc)
  PROVE  ReadSoFar(tokens, i + 1, Preparation!Consume(acc, tokens[i + 1]))
<1> DEFINE T == {tokens[j].text : j \in 1..Len(tokens)}
           token == tokens[i + 1]
           blocks == Append(acc.blocks, token.text)
           next == [acc EXCEPT !.blocks = blocks]
           n == BlocksUpTo(acc.sections, Len(acc.sections))
           m == Len(acc.blocks)
<1>1. Preparation!Consume(acc, token) = next
  BY DEF Preparation!Consume
<1>2. token.text \in T
  OBVIOUS
<1> HIDE DEF T
<1>3. /\ acc \in ReadingsOf(T)
      /\ TextsUpTo(tokens, i) = n + m
      /\ WellNested(tokens) => StandsUnder(acc.path, tokens, i + 1)
      /\ KeysFollow(acc.sections)
      /\ \A p \in 1..i : tokens[p].kind = "text" => Lies(tokens, acc.sections, p) \/ Waits(tokens, i, acc, p)
  BY DEF ReadSoFar, T
<1>4. acc.blocks \in Seq(T) /\ m \in Nat
  BY <1>3 DEF ReadingsOf
<1>5. blocks \in Seq(T) /\ Len(blocks) = m + 1 /\ blocks[m + 1] = token.text
      /\ \A b \in 1..m : blocks[b] = acc.blocks[b]
  BY <1>2, <1>4
<1> HIDE DEF blocks
<1>6. next \in ReadingsOf(T) /\ next.path = acc.path /\ next.blocks = blocks /\ next.sections = acc.sections
  BY <1>3, <1>5 DEF ReadingsOf
<1>7. TextsUpTo(tokens, i + 1) = TextsUpTo(tokens, i) + 1
  <2>1. tokens[i + 1].kind = "text"
    OBVIOUS
  <2> QED
    BY <2>1, TextsOfMore
<1>8. TextsUpTo(tokens, i) \in Nat
  BY TextsOfMore
<1> HIDE DEF next, m
<1>9. n \in Int
  <2>1. acc.sections \in SectionsOf(T)
    BY <1>3 DEF ReadingsOf
  <2>2. Len(acc.sections) \in Nat /\ [r \in 1..Len(acc.sections) |-> Len(acc.sections[r].blocks)]
          \in [1..Len(acc.sections) -> Int]
    BY <2>1 DEF SectionsOf
  <2> QED
    BY <2>2, SumIsNumber DEF BlocksUpTo
<1>10. Waits(tokens, i + 1, next, i + 1)
  <2>1. \A q \in ((i + 1) + 1)..(i + 1) : tokens[q].kind # "heading"
    OBVIOUS
  <2>2. n + (m + 1) = TextsUpTo(tokens, i + 1)
    <3> HIDE DEF n
    <3> QED
      BY <1>3, <1>4, <1>7, <1>9
  <2>3. m + 1 \in 1..Len(next.blocks)
    BY <1>4, <1>5, <1>6
  <2> QED
    BY <1>5, <1>6, <2>1, <2>2, <2>3 DEF Waits
<1>11. ASSUME NEW p \in 1..i, Waits(tokens, i, acc, p)
       PROVE  Waits(tokens, i + 1, next, p)
  <2>1. PICK b \in 1..Len(acc.blocks) : n + b = TextsUpTo(tokens, p) /\ acc.blocks[b] = tokens[p].text
    BY <1>11 DEF Waits
  <2>2. \A q \in (p + 1)..(i + 1) : tokens[q].kind # "heading"
    <3>1. \A q \in (p + 1)..i : tokens[q].kind # "heading"
      BY <1>11 DEF Waits
    <3>2. \A q \in (p + 1)..(i + 1) : q = i + 1 \/ q \in (p + 1)..i
      OBVIOUS
    <3>3. tokens[i + 1].kind # "heading"
      OBVIOUS
    <3> QED
      BY <3>1, <3>2, <3>3
  <2>3. b \in 1..Len(next.blocks) /\ next.blocks[b] = acc.blocks[b]
    BY <1>4, <1>5, <1>6, <2>1 DEF m
  <2> QED
    BY <1>6, <2>1, <2>2, <2>3 DEF Waits
<1>12. \A p \in 1..(i + 1) : tokens[p].kind = "text" =>
         Lies(tokens, next.sections, p) \/ Waits(tokens, i + 1, next, p)
  <2> SUFFICES ASSUME NEW p \in 1..(i + 1), tokens[p].kind = "text"
               PROVE  Lies(tokens, next.sections, p) \/ Waits(tokens, i + 1, next, p)
    OBVIOUS
  <2>1. p = i + 1 \/ p \in 1..i
    OBVIOUS
  <2> QED
    BY <1>3, <1>6, <1>10, <1>11, <2>1
<1>13. WellNested(tokens) => StandsUnder(next.path, tokens, (i + 1) + 1)
  <2>1. \A q \in (i + 1)..(i + 1) : tokens[q].kind # "heading"
    OBVIOUS
  <2>2. Above(tokens, (i + 1) + 1) = Above(tokens, i + 1)
    BY <2>1, AboveStays
  <2> QED
    BY <1>3, <1>6, <2>2 DEF StandsUnder
<1>14. TextsUpTo(tokens, i + 1) = n + Len(next.blocks)
  <2> HIDE DEF n
  <2> QED
    BY <1>3, <1>4, <1>5, <1>6, <1>7, <1>9
<1>15. ReadSoFar(tokens, i + 1, next)
  BY <1>3, <1>6, <1>12, <1>13, <1>14 DEF ReadSoFar, T
<1> QED
  BY <1>1, <1>15

\* after a rule,
LEMMA RuleRead ==
  ASSUME NEW tokens, NEW i \in Nat, i + 1 \in 1..Len(tokens),
         tokens[i + 1].kind = "rule", NEW acc, ReadSoFar(tokens, i, acc)
  PROVE  ReadSoFar(tokens, i + 1, Preparation!Consume(acc, tokens[i + 1]))
<1> DEFINE f == Preparation!Flush(acc)
<1>1. Preparation!Consume(acc, tokens[i + 1]) = f
  BY DEF Preparation!Consume
<1>2. /\ ReadSoFar(tokens, i, f)
      /\ \A p \in 1..i : tokens[p].kind = "text" => Lies(tokens, f.sections, p)
  BY FlushedSoFar
<1> HIDE DEF f
<1>3. TextsUpTo(tokens, i + 1) = TextsUpTo(tokens, i)
  <2>1. TextsUpTo(tokens, i) \in Nat
    BY TextsOfMore
  <2>2. TextsUpTo(tokens, i + 1)
          = TextsUpTo(tokens, i) + (IF tokens[i + 1].kind = "text" THEN 1 ELSE 0)
    BY TextsOfMore
  <2> QED
    BY <2>1, <2>2
<1>4. Above(tokens, (i + 1) + 1) = Above(tokens, i + 1)
  <2>1. \A q \in (i + 1)..(i + 1) : tokens[q].kind # "heading"
    OBVIOUS
  <2> QED
    BY <2>1, AboveStays
<1>5. WellNested(tokens) => StandsUnder(f.path, tokens, (i + 1) + 1)
  BY <1>2, <1>4 DEF ReadSoFar, StandsUnder
<1>6. \A p \in 1..(i + 1) : tokens[p].kind = "text" => Lies(tokens, f.sections, p)
  <2> SUFFICES ASSUME NEW p \in 1..(i + 1), tokens[p].kind = "text"
               PROVE  Lies(tokens, f.sections, p)
    OBVIOUS
  <2>1. p \in 1..i
    OBVIOUS
  <2> QED
    BY <1>2, <2>1
<1>7. ReadSoFar(tokens, i + 1, f)
  BY <1>2, <1>3, <1>5, <1>6 DEF ReadSoFar
<1> QED
  BY <1>1, <1>7

\* and before the first token.
LEMMA NothingRead ==
  ASSUME NEW tokens
  PROVE  ReadSoFar(tokens, 0, [path |-> <<>>, headed |-> FALSE, blocks |-> <<>>, sections |-> <<>>])
<1> DEFINE T == {tokens[j].text : j \in 1..Len(tokens)}
           start == [path |-> <<>>, headed |-> FALSE, blocks |-> <<>>, sections |-> <<>>]
<1>1. start \in ReadingsOf(T)
  BY DEF ReadingsOf, SectionsOf
<1>2. TextsUpTo(tokens, 0) = 0
  <2>1. 0 \in Nat
    OBVIOUS
  <2> QED
    BY <2>1, TextsOfMore
<1>3. BlocksUpTo(<<>>, 0) = 0
  <2> DEFINE none == [r \in 1..0 |-> Len(<<>>[r].blocks)]
  <2>1. none \in [1..0 -> Int] /\ 0 \in Nat
    OBVIOUS
  <2>2. BlocksUpTo(<<>>, 0) = Evaluation!SumOf(none)
    BY DEF BlocksUpTo
  <2> HIDE DEF none
  <2>3. PICK total \in [0..0 -> Int] : total[0] = 0 /\ Evaluation!SumOf(none) = total[0]
    BY <2>1, SumIsRunningTotal
  <2> QED
    BY <2>2, <2>3
<1>4. Above(tokens, 1) = {}
  BY DEF Above
<1>5. StandsUnder(<<>>, tokens, 0 + 1)
  BY <1>4 DEF StandsUnder
<1>6. /\ start.path = <<>> /\ start.blocks = <<>> /\ start.sections = <<>>
      /\ Len(start.sections) = 0 /\ Len(start.blocks) = 0
  OBVIOUS
<1> HIDE DEF start
<1>7. ReadSoFar(tokens, 0, start)
  BY <1>1, <1>2, <1>3, <1>5, <1>6 DEF ReadSoFar, KeysFollow
<1> QED
  BY <1>7 DEF start

\* The readings after each token exist, and Sections closes the last one.
LEMMA ReadingsFollow ==
  ASSUME NEW tokens, Preparation!ValidTokens(tokens),
         \A i \in 1..Len(tokens) : tokens[i].kind # "unsupported"
  PROVE  \E state :
           /\ state[0] = [path |-> <<>>, headed |-> FALSE, blocks |-> <<>>, sections |-> <<>>]
           /\ \A i \in 1..Len(tokens) : state[i] = Preparation!Consume(state[i - 1], tokens[i])
           /\ Preparation!Sections(tokens) = Preparation!Flush(state[Len(tokens)]).sections
<1> DEFINE n == Len(tokens)
           start == [path |-> <<>>, headed |-> FALSE, blocks |-> <<>>, sections |-> <<>>]
           Rec(g, m) == [i \in 0..m |-> IF i = 0 THEN start ELSE Preparation!Consume(g[i - 1], tokens[i])]
           S == {m \in Nat : \E g : g = Rec(g, m)}
<1>0. n \in Nat
  BY DEF Preparation!ValidTokens
<1>6. Preparation!Sections(tokens) = Preparation!Flush((CHOOSE g : g = Rec(g, n))[n]).sections
  BY DEF Preparation!Sections
<1> HIDE DEF start, n
<1>1. 0 \in S
  <2>0. 0..0 = {0}
    OBVIOUS
  <2>1. [i \in 0..0 |-> start] = Rec([i \in 0..0 |-> start], 0)
    BY <2>0
  <2> QED
    BY <2>1
<1>2. \A m \in Nat : m \in S => m + 1 \in S
  <2> SUFFICES ASSUME NEW m \in Nat, \E g : g = Rec(g, m)
               PROVE  \E h : h = Rec(h, m + 1)
    <3> HIDE DEF Rec
    <3> QED
      OBVIOUS
  <2>1. PICK g : g = Rec(g, m)
    OBVIOUS
  <2> DEFINE next(i) == Preparation!Consume(g[i - 1], tokens[i])
             h == [i \in 0..(m + 1) |-> IF i = m + 1 THEN next(i) ELSE g[i]]
  <2>2. \A i \in 0..(m + 1) :
          h[i] = IF i = 0 THEN start ELSE Preparation!Consume(h[i - 1], tokens[i])
    <3> SUFFICES ASSUME NEW i \in 0..(m + 1)
                 PROVE  h[i] = IF i = 0 THEN start ELSE Preparation!Consume(h[i - 1], tokens[i])
      OBVIOUS
    <3>1. i # 0 => h[i - 1] = g[i - 1]
      OBVIOUS
    <3>2. CASE i = m + 1
      BY <3>1, <3>2
    <3>3. CASE i # m + 1
      <4>1. i \in 0..m /\ h[i] = g[i]
        BY <3>3
      <4>2. g[i] = IF i = 0 THEN start ELSE next(i)
        BY <2>1, <4>1
      <4> QED
        BY <3>1, <4>1, <4>2
    <3> QED
      BY <3>2, <3>3
  <2>3. h = Rec(h, m + 1)
    <3> HIDE DEF next
    <3> QED
      BY <2>2
  <2> QED
    BY <2>3
<1>3. \E g : g = Rec(g, n)
  <2>1. n \in S
    <3> HIDE DEF S
    <3> QED
      BY <1>0, <1>1, <1>2, Induction
  <2> QED
    BY <2>1
<1> DEFINE state == CHOOSE g : g = Rec(g, n)
<1>4. state = Rec(state, n)
  BY <1>3
<1>5. Preparation!Sections(tokens) = Preparation!Flush(state[n]).sections
  BY <1>6
<1> HIDE DEF state
<1>7. state[0] = start
  BY <1>0, <1>4
<1>8. \A i \in 1..n : state[i] = Preparation!Consume(state[i - 1], tokens[i])
  BY <1>0, <1>4
<1> QED
  BY <1>5, <1>7, <1>8 DEF start, n

\* The sections of a supported source hold all of its text.
LEMMA SectionsHoldTheText ==
  ASSUME NEW tokens, Preparation!ValidTokens(tokens),
         \A i \in 1..Len(tokens) : tokens[i].kind # "unsupported"
  PROVE  LET sections == Preparation!Sections(tokens)
         IN /\ BlocksUpTo(sections, Len(sections)) = TextsUpTo(tokens, Len(tokens))
            /\ \A p \in 1..Len(tokens) : tokens[p].kind = "text" => Lies(tokens, sections, p)
            /\ KeysFollow(sections)
            /\ Len(sections) \in Nat
<1> DEFINE n == Len(tokens)
<1>0. n \in Nat
  BY DEF Preparation!ValidTokens
<1>1. PICK state :
        /\ state[0] = [path |-> <<>>, headed |-> FALSE, blocks |-> <<>>, sections |-> <<>>]
        /\ \A i \in 1..n : state[i] = Preparation!Consume(state[i - 1], tokens[i])
        /\ Preparation!Sections(tokens) = Preparation!Flush(state[n]).sections
  BY ReadingsFollow
<1> DEFINE S == {i \in Nat : i <= n => ReadSoFar(tokens, i, state[i])}
<1>2. 0 \in S
  BY <1>1, NothingRead
<1>3. \A i \in Nat : i \in S => i + 1 \in S
  <2> SUFFICES ASSUME NEW i \in Nat, i + 1 <= n, ReadSoFar(tokens, i, state[i])
               PROVE  ReadSoFar(tokens, i + 1, state[i + 1])
    BY <1>0
  <2>1. i + 1 \in 1..n
    BY <1>0
  <2>2. state[i + 1] = Preparation!Consume(state[i], tokens[i + 1])
    BY <1>1, <2>1
  <2>3. tokens[i + 1].kind \in {"heading", "text", "rule"}
    BY <2>1 DEF Preparation!ValidTokens
  <2> HIDE DEF n
  <2>4. i + 1 \in 1..Len(tokens)
    BY <2>1 DEF n
  <2>5. CASE tokens[i + 1].kind = "heading"
    BY <2>2, <2>4, <2>5, HeadingRead
  <2>6. CASE tokens[i + 1].kind = "text"
    BY <2>2, <2>4, <2>6, TextRead
  <2>7. CASE tokens[i + 1].kind = "rule"
    BY <2>2, <2>4, <2>7, RuleRead
  <2> QED
    BY <2>3, <2>5, <2>6, <2>7
<1>4. ReadSoFar(tokens, n, state[n])
  <2>1. n \in S
    <3> HIDE DEF S, n
    <3> QED
      BY <1>0, <1>2, <1>3, Induction
  <2> QED
    BY <1>0, <2>1
<1> DEFINE f == Preparation!Flush(state[n])
<1>5. /\ ReadSoFar(tokens, n, f) /\ f.blocks = <<>>
      /\ \A p \in 1..n : tokens[p].kind = "text" => Lies(tokens, f.sections, p)
  BY <1>0, <1>4, FlushedSoFar
<1> HIDE DEF f, n
<1>6. f.sections \in SectionsOf({tokens[j].text : j \in 1..Len(tokens)})
  BY <1>5 DEF ReadSoFar, ReadingsOf
<1>7. Len(f.sections) \in Nat
  BY <1>6 DEF SectionsOf
<1>8. BlocksUpTo(f.sections, Len(f.sections)) = TextsUpTo(tokens, n)
  <2>1. Len(f.blocks) = 0
    BY <1>5
  <2>2. TextsUpTo(tokens, n) = BlocksUpTo(f.sections, Len(f.sections)) + 0
    BY <1>5, <2>1 DEF ReadSoFar
  <2>3. BlocksUpTo(f.sections, Len(f.sections)) \in Int
    <3> DEFINE sizes == [r \in 1..Len(f.sections) |-> Len(f.sections[r].blocks)]
    <3>1. sizes \in [1..Len(f.sections) -> Int]
      BY <1>6 DEF SectionsOf
    <3> HIDE DEF sizes
    <3>2. Evaluation!SumOf(sizes) \in Int
      BY <1>7, <3>1, SumIsNumber
    <3> QED
      BY <3>2 DEF BlocksUpTo, sizes
  <2> QED
    BY <2>2, <2>3
<1>9. Preparation!Sections(tokens) = f.sections
  BY <1>1 DEF f
<1> QED
  BY <1>5, <1>7, <1>8, <1>9 DEF ReadSoFar, n

\* Only approved bytes that decode, of a source that is supported, become sections; and
\* those of an undisturbed file do.
LEMMA LoadedSections ==
  ASSUME NEW source
  PROVE  LET out == Preparation!Load(source, Entry)
             tokens == source.content.tokens
         IN /\ out # <<>> => /\ out = Preparation!Sections(tokens)
                             /\ source.content.digest = Entry.digest
                             /\ \A i \in 1..Len(tokens) : tokens[i].kind # "unsupported"
            /\ Undisturbed(source) => out = Preparation!Sections(tokens)
<1> DEFINE out == Preparation!Load(source, Entry)
           tokens == source.content.tokens
<1>1. ASSUME out # <<>>
      PROVE  /\ out = Preparation!Sections(tokens)
             /\ source.content.digest = Entry.digest
             /\ \A i \in 1..Len(tokens) : tokens[i].kind # "unsupported"
  <2>1. out = Preparation!Sections(tokens) /\ source.content.digest = Entry.digest
    BY <1>1 DEF Preparation!Load
  <2>2. Preparation!Sections(tokens) # <<>>
    BY <1>1, <2>1
  <2>3. \A i \in 1..Len(tokens) : tokens[i].kind # "unsupported"
    BY <2>2 DEF Preparation!Sections
  <2> QED
    BY <2>1, <2>3
<1>2. Undisturbed(source) => out = Preparation!Sections(tokens)
  BY DEF Undisturbed, Preparation!Load, Preparation!SameFile
<1> QED
  BY <1>1, <1>2

\* A draft is made of approved bytes only; it holds every text of the source once, in its order,
\* under the headings above it, in sections with keys of their own; and an approved file that
\* nobody touches is loaded: for any file, any replacement of it, and any number of tokens.
THEOREM DraftsKeepTheSource == Spec => []DraftsFollowTheSource
<1>1. Recorded => DraftsFollowTheSource
  <2> SUFFICES ASSUME Recorded, case.of = "load"
               PROVE  DraftsFollowTheSource
    BY DEF DraftsFollowTheSource
  <2> DEFINE source == case.in
             tokens == case.in.content.tokens
             sections == case.out
             texts == {p \in 1..Len(tokens) : tokens[p].kind = "text"}
             supported == \A i \in 1..Len(tokens) : tokens[i].kind # "unsupported"
  <2>1. source \in Sources /\ sections = Preparation!Load(source, Entry)
    BY DEF Recorded
  <2>2. Preparation!ValidTokens(tokens)
    BY <2>1, ArgumentAssumption
  <2>3. /\ sections # <<>> => /\ sections = Preparation!Sections(tokens)
                              /\ source.content.digest = Entry.digest
                              /\ supported
        /\ Undisturbed(source) => sections = Preparation!Sections(tokens)
    BY <2>1, LoadedSections
  <2>4. TextsUpTo(tokens, Len(tokens)) = Cardinality(texts)
    BY DEF TextsUpTo
  <2> HIDE DEF tokens, sections, source
  <2>5. ASSUME sections # <<>>
        PROVE  /\ source.content.digest = Entry.digest
               /\ BlocksUpTo(sections, Len(sections)) = Cardinality(texts)
               /\ \A p \in texts : Lies(tokens, sections, p)
               /\ \A s, t \in 1..Len(sections) : sections[s].key = sections[t].key => s = t
    <3>1. supported /\ sections = Preparation!Sections(tokens)
      BY <2>3, <2>5
    <3>2. /\ BlocksUpTo(sections, Len(sections)) = TextsUpTo(tokens, Len(tokens))
          /\ \A p \in 1..Len(tokens) : tokens[p].kind = "text" => Lies(tokens, sections, p)
          /\ KeysFollow(sections)
          /\ Len(sections) \in Nat
      BY <2>2, <3>1, SectionsHoldTheText
    <3>3. \A s, t \in 1..Len(sections) : sections[s].key = sections[t].key => s = t
      BY <3>2 DEF KeysFollow, Preparation!Preamble
    <3> QED
      BY <2>3, <2>4, <2>5, <3>2, <3>3
  <2>6. ASSUME Undisturbed(source), supported, texts # {}
        PROVE  sections # <<>>
    <3>1. PICK p \in 1..Len(tokens) : tokens[p].kind = "text"
      BY <2>6
    <3>2. Lies(tokens, sections, p)
      BY <2>2, <2>3, <2>6, <3>1, SectionsHoldTheText
    <3> QED
      BY <3>2 DEF Lies
  <2> HIDE DEF texts, supported
  <2>7. \A p \in texts : Lies(tokens, sections, p) => \E s \in 1..Len(sections) : \E b \in 1..Len(sections[s].blocks) :
          /\ BlocksUpTo(sections, s - 1) + b = TextsUpTo(tokens, p)
          /\ sections[s].blocks[b] = tokens[p].text
          /\ WellNested(tokens) => StandsUnder(sections[s].path, tokens, p)
    BY DEF Lies
  <2> QED
    BY <2>5, <2>6, <2>7 DEF DraftsFollowTheSource, source, tokens, sections, texts, supported
<1> QED
  BY <1>1, CallsAreRecorded, PTL

-----------------------------------------------------------------------------
(* The preparation of drafts *)

\* A preparation starts from what the one before it left.
LEMMA PreparationsFollow ==
  ASSUME NEW drafts, NEW limits, Len(drafts) \in Nat
  PROVE  \E state :
           /\ state[0] = [result |-> Preparation!Refused, manifest |-> Preparation!NoManifest]
           /\ \A i \in 1..Len(drafts) :
                state[i] = Preparation!PrepareNext(state[i - 1], drafts[i], limits)
           /\ Preparation!PrepareAll(drafts, limits) = [i \in 1..Len(drafts) |-> state[i].result]
<1> DEFINE n == Len(drafts)
           start == [result |-> Preparation!Refused, manifest |-> Preparation!NoManifest]
           Rec(g, m) == [i \in 0..m |-> IF i = 0 THEN start
                                        ELSE Preparation!PrepareNext(g[i - 1], drafts[i], limits)]
           S == {m \in Nat : \E g : g = Rec(g, m)}
<1>0. n \in Nat
  OBVIOUS
<1>6. Preparation!PrepareAll(drafts, limits)
        = [i \in 1..n |-> (CHOOSE g : g = Rec(g, n))[i].result]
  BY DEF Preparation!PrepareAll
<1> HIDE DEF start, n
<1>1. 0 \in S
  <2>0. 0..0 = {0}
    OBVIOUS
  <2>1. [i \in 0..0 |-> start] = Rec([i \in 0..0 |-> start], 0)
    BY <2>0
  <2> QED
    BY <2>1
<1>2. \A m \in Nat : m \in S => m + 1 \in S
  <2> SUFFICES ASSUME NEW m \in Nat, \E g : g = Rec(g, m)
               PROVE  \E h : h = Rec(h, m + 1)
    <3> HIDE DEF Rec
    <3> QED
      OBVIOUS
  <2>1. PICK g : g = Rec(g, m)
    OBVIOUS
  <2> DEFINE next(i) == Preparation!PrepareNext(g[i - 1], drafts[i], limits)
             h == [i \in 0..(m + 1) |-> IF i = m + 1 THEN next(i) ELSE g[i]]
  <2>2. \A i \in 0..(m + 1) :
          h[i] = IF i = 0 THEN start ELSE Preparation!PrepareNext(h[i - 1], drafts[i], limits)
    <3> SUFFICES ASSUME NEW i \in 0..(m + 1)
                 PROVE  h[i] = IF i = 0 THEN start
                               ELSE Preparation!PrepareNext(h[i - 1], drafts[i], limits)
      OBVIOUS
    <3>1. i # 0 => h[i - 1] = g[i - 1]
      OBVIOUS
    <3>2. CASE i = m + 1
      BY <3>1, <3>2
    <3>3. CASE i # m + 1
      <4>1. i \in 0..m /\ h[i] = g[i]
        BY <3>3
      <4>2. g[i] = IF i = 0 THEN start ELSE next(i)
        BY <2>1, <4>1
      <4> QED
        BY <3>1, <4>1, <4>2
    <3> QED
      BY <3>2, <3>3
  <2>3. h = Rec(h, m + 1)
    <3> HIDE DEF next
    <3> QED
      BY <2>2
  <2> QED
    BY <2>3
<1>3. \E g : g = Rec(g, n)
  <2>1. n \in S
    <3> HIDE DEF S
    <3> QED
      BY <1>0, <1>1, <1>2, Induction
  <2> QED
    BY <2>1
<1> DEFINE state == CHOOSE g : g = Rec(g, n)
<1>4. state = Rec(state, n)
  BY <1>3
<1>5. Preparation!PrepareAll(drafts, limits) = [i \in 1..n |-> state[i].result]
  BY <1>6
<1> HIDE DEF state
<1>7. state[0] = start
  BY <1>0, <1>4
<1>8. \A i \in 1..n : state[i] = Preparation!PrepareNext(state[i - 1], drafts[i], limits)
  BY <1>0, <1>4
<1> QED
  BY <1>5, <1>7, <1>8 DEF start, n

\* Versions are compared like words.
LEMMA BelowIsOrder ==
  /\ \A a, b \in [1..3 -> Int] : Preparation!Below(a, b) => ~Preparation!Below(b, a) /\ a # b
  /\ \A a, b, c \in [1..3 -> Int] :
       Preparation!Below(a, b) /\ Preparation!Below(b, c) => Preparation!Below(a, c)
  /\ \A a, b \in [1..3 -> Int] : a # b => Preparation!Below(a, b) \/ Preparation!Below(b, a)
<1> DEFINE First(a, b) ==
             \/ a[1] < b[1]
             \/ a[1] = b[1] /\ a[2] < b[2]
             \/ a[1] = b[1] /\ a[2] = b[2] /\ a[3] < b[3]
<1>1. \A a, b : Preparation!Below(a, b) <=> First(a, b)
  <2> SUFFICES ASSUME NEW a, NEW b
               PROVE  Preparation!Below(a, b) <=> First(a, b)
    OBVIOUS
  <2>1. \A i \in 1..3 : i = 1 \/ i = 2 \/ i = 3
    OBVIOUS
  <2>2. /\ \A j : j \notin 1..(1 - 1)
        /\ \A j \in 1..(2 - 1) : j = 1
        /\ \A j \in 1..(3 - 1) : j = 1 \/ j = 2
        /\ 1 \in 1..(2 - 1) /\ {1, 2} \subseteq 1..(3 - 1)
    OBVIOUS
  <2>3. First(a, b) => Preparation!Below(a, b)
    BY <2>2 DEF Preparation!Below
  <2>4. Preparation!Below(a, b) => First(a, b)
    BY <2>1, <2>2 DEF Preparation!Below
  <2> QED
    BY <2>3, <2>4
<1>2. \A a \in [1..3 -> Int] : a[1] \in Int /\ a[2] \in Int /\ a[3] \in Int
  OBVIOUS
<1>3. \A a, b \in [1..3 -> Int] : a[1] = b[1] /\ a[2] = b[2] /\ a[3] = b[3] => a = b
  <2> SUFFICES ASSUME NEW a \in [1..3 -> Int], NEW b \in [1..3 -> Int],
                      a[1] = b[1], a[2] = b[2], a[3] = b[3]
               PROVE  a = b
    OBVIOUS
  <2>1. \A i \in 1..3 : a[i] = b[i]
    OBVIOUS
  <2> QED
    BY <2>1
<1>4. ASSUME NEW a \in [1..3 -> Int], NEW b \in [1..3 -> Int]
      PROVE  /\ First(a, b) => ~First(b, a) /\ a # b
             /\ a # b => First(a, b) \/ First(b, a)
  BY <1>2, <1>3
<1>5. ASSUME NEW a \in [1..3 -> Int], NEW b \in [1..3 -> Int], NEW c \in [1..3 -> Int],
             First(a, b), First(b, c)
      PROVE  First(a, c)
  BY <1>2, <1>5
<1> HIDE DEF First
<1> QED
  BY <1>1, <1>4, <1>5

Manifest(draft) == [id |-> draft.id, version |-> draft.version,
                    fingerprint |-> Preparation!Fingerprint(draft)]

\* What an accepted preparation says of its draft and of the document it was accepted over.
LEMMA AcceptedPreparation ==
  ASSUME NEW draft, NEW existing, NEW limits
  PROVE  LET result == Preparation!Prepare(draft, existing, limits)
             chunks == Preparation!ChunkSections(draft.sections, limits)
         IN /\ result.status = "refused" => result = Preparation!Refused
            /\ result.status # "refused" =>
                 /\ result # Preparation!Refused
                 /\ result.manifest = Manifest(draft)
                 /\ \/ existing = Preparation!NoManifest /\ result.supersedes = <<>>
                    \/ /\ existing # Preparation!NoManifest
                       /\ existing.id = draft.id /\ existing.version = draft.version
                       /\ existing.fingerprint = Preparation!Fingerprint(draft)
                       /\ result.supersedes = <<>>
                    \/ /\ existing # Preparation!NoManifest /\ existing.version # draft.version
                       /\ ~Preparation!Below(draft.version, existing.version)
                       /\ result.supersedes = existing.version
                 /\ \A c \in Range(result.chunks) : \E i \in 1..Len(chunks) :
                      /\ c.id = <<Preparation!Fingerprint(draft), i - 1>>
                      /\ c.content = chunks[i].content
<1> DEFINE result == Preparation!Prepare(draft, existing, limits)
           chunks == Preparation!ChunkSections(draft.sections, limits)
           disposition == Preparation!Disposition(draft, existing)
           prepared == [status |-> disposition,
                        manifest |-> Manifest(draft),
                        supersedes |-> IF disposition = "superseding" THEN existing.version ELSE <<>>,
                        chunks |-> [i \in 1..Len(chunks) |->
                                      [id |-> <<Preparation!Fingerprint(draft), i - 1>>,
                                       key |-> chunks[i].key, content |-> chunks[i].content]]]
<1>1. result = Preparation!Refused \/ (disposition # "refused" /\ result = prepared)
  BY DEF Preparation!Prepare, Manifest
<1>2. Preparation!Refused.status = "refused"
  BY DEF Preparation!Refused
<1>3. prepared.status = disposition
  OBVIOUS
<1>4. CASE result = Preparation!Refused
  BY <1>2, <1>4
<1>5. CASE disposition # "refused" /\ result = prepared
  <2>1. result.manifest = Manifest(draft)
        /\ result.supersedes = (IF disposition = "superseding" THEN existing.version ELSE <<>>)
    BY <1>5
  <2>2. \/ existing = Preparation!NoManifest /\ disposition = "new"
        \/ /\ existing # Preparation!NoManifest
           /\ existing.id = draft.id /\ existing.version = draft.version
           /\ existing.fingerprint = Preparation!Fingerprint(draft)
           /\ disposition = "idempotent"
        \/ /\ existing # Preparation!NoManifest /\ existing.version # draft.version
           /\ ~Preparation!Below(draft.version, existing.version)
           /\ disposition = "superseding"
    BY <1>5 DEF Preparation!Disposition
  <2>3. \A c \in Range(result.chunks) : \E i \in 1..Len(chunks) :
          /\ c.id = <<Preparation!Fingerprint(draft), i - 1>>
          /\ c.content = chunks[i].content
    <3>1. result.chunks = [i \in 1..Len(chunks) |->
                             [id |-> <<Preparation!Fingerprint(draft), i - 1>>,
                              key |-> chunks[i].key, content |-> chunks[i].content]]
      BY <1>5
    <3> HIDE DEF chunks, result
    <3> QED
      BY <3>1 DEF Range
  <2>4. result.status # "refused"
    BY <1>3, <1>5
  <2> HIDE DEF result, disposition, chunks
  <2>5. result # Preparation!Refused
    BY <1>2, <2>4
  <2> QED
    BY <2>1, <2>2, <2>3, <2>4, <2>5 DEF chunks, result
<1> QED
  BY <1>1, <1>4, <1>5

LEMMA NextPreparation ==
  ASSUME NEW before, NEW draft, NEW limits
  PROVE  LET next == Preparation!PrepareNext(before, draft, limits)
             result == Preparation!Prepare(draft, before.manifest, limits)
         IN /\ next.result = result
            /\ next.manifest = IF result = Preparation!Refused THEN before.manifest ELSE result.manifest
BY DEF Preparation!PrepareNext

\* The preparations of the first drafts that were accepted, with what they left behind.
\* The document in force is the last one accepted; none accepted before is newer, and one
\* of the same version is the same.
History(drafts, state, m) ==
  LET accepted == {i \in 1..m : state[i].result.status # "refused"}
      current == state[m].manifest
  IN /\ accepted = {} => current = Preparation!NoManifest
     /\ accepted # {} => \E k \in accepted : (\A i \in accepted : i <= k) /\ current = Manifest(drafts[k])
     /\ \A i \in accepted :
          /\ ~Preparation!Below(current.version, drafts[i].version)
          /\ current.version = drafts[i].version => current = Manifest(drafts[i])

LEMMA HistoryIsKept ==
  ASSUME NEW drafts, NEW limits, NEW n \in Nat, NEW state,
         \A i \in 1..n : drafts[i].version \in [1..3 -> Nat],
         state[0] = [result |-> Preparation!Refused, manifest |-> Preparation!NoManifest],
         \A i \in 1..n : state[i] = Preparation!PrepareNext(state[i - 1], drafts[i], limits)
  PROVE  \A m \in 0..n : History(drafts, state, m)
<1> DEFINE S == {m \in Nat : m <= n => History(drafts, state, m)}
<1>1. 0 \in S
  <2>1. state[0].manifest = Preparation!NoManifest
    OBVIOUS
  <2> QED
    BY <2>1 DEF History
<1>2. \A m \in Nat : m \in S => m + 1 \in S
  <2> SUFFICES ASSUME NEW m \in Nat, m + 1 <= n, History(drafts, state, m)
               PROVE  History(drafts, state, m + 1)
    OBVIOUS
  <2> DEFINE accepted(l) == {i \in 1..l : state[i].result.status # "refused"}
             existing == state[m].manifest
             draft == drafts[m + 1]
             result == Preparation!Prepare(draft, existing, limits)
  <2>1. state[m + 1] = Preparation!PrepareNext(state[m], draft, limits)
    OBVIOUS
  <2>2. /\ state[m + 1].result = result
        /\ state[m + 1].manifest = IF result = Preparation!Refused THEN existing ELSE result.manifest
    BY <2>1, NextPreparation
  <2>3. /\ accepted(m) = {} => existing = Preparation!NoManifest
        /\ accepted(m) # {} => \E k \in accepted(m) : (\A i \in accepted(m) : i <= k)
                                                      /\ existing = Manifest(drafts[k])
        /\ \A i \in accepted(m) : /\ ~Preparation!Below(existing.version, drafts[i].version)
                                  /\ existing.version = drafts[i].version => existing = Manifest(drafts[i])
    BY DEF History
  <2>4. \A i \in accepted(m) : i \in 1..n /\ drafts[i].version \in [1..3 -> Int]
    OBVIOUS
  <2>5. draft.version \in [1..3 -> Int]
    OBVIOUS
  <2>6. /\ result.status = "refused" => accepted(m + 1) = accepted(m)
        /\ result.status # "refused" => accepted(m + 1) = accepted(m) \cup {m + 1}
        /\ \A i \in accepted(m) : i <= m
    BY <2>2, SMTT(30)
  <2> HIDE DEF accepted, existing, draft, result
  <2>7. ASSUME result.status = "refused"
        PROVE  History(drafts, state, m + 1)
    <3>1. state[m + 1].manifest = existing
      BY <2>2, <2>7, AcceptedPreparation DEF result
    <3> QED
      BY <2>3, <2>6, <2>7, <3>1 DEF History, accepted
  <2>8. ASSUME result.status # "refused"
        PROVE  History(drafts, state, m + 1)
    <3>1. /\ state[m + 1].manifest = Manifest(draft)
          /\ \/ existing = Preparation!NoManifest
             \/ /\ existing.id = draft.id /\ existing.version = draft.version
                /\ existing.fingerprint = Preparation!Fingerprint(draft)
             \/ /\ existing.version # draft.version
                /\ ~Preparation!Below(draft.version, existing.version)
      BY <2>2, <2>8, AcceptedPreparation DEF result
    <3>2. Manifest(draft).version = draft.version
      BY DEF Manifest
    <3>3. \A k : existing = Manifest(drafts[k]) =>
            /\ existing # Preparation!NoManifest
            /\ existing.version = drafts[k].version
            /\ existing.id = draft.id /\ existing.version = draft.version
               /\ existing.fingerprint = Preparation!Fingerprint(draft) => existing = Manifest(draft)
      BY DEF Manifest, Preparation!NoManifest
    <3>4. ASSUME NEW i \in accepted(m)
          PROVE  /\ ~Preparation!Below(draft.version, drafts[i].version)
                 /\ draft.version = drafts[i].version => Manifest(draft) = Manifest(drafts[i])
      <4>1. PICK k \in accepted(m) : existing = Manifest(drafts[k])
        BY <2>3
      <4>2. /\ existing # Preparation!NoManifest
            /\ existing.version \in [1..3 -> Int]
        BY <2>4, <3>3, <4>1
      <4>3. /\ ~Preparation!Below(existing.version, drafts[i].version)
            /\ existing.version = drafts[i].version => existing = Manifest(drafts[i])
        BY <2>3
      <4>4. drafts[i].version \in [1..3 -> Int]
        BY <2>4
      <4>5. CASE /\ existing.id = draft.id /\ existing.version = draft.version
                 /\ existing.fingerprint = Preparation!Fingerprint(draft)
        <5>1. existing = Manifest(draft)
          BY <3>3, <4>1, <4>5
        <5> QED
          BY <4>3, <4>5, <5>1
      <4>6. CASE /\ existing.version # draft.version
                 /\ ~Preparation!Below(draft.version, existing.version)
        <5>1. Preparation!Below(existing.version, draft.version)
          BY <2>5, <4>2, <4>6, BelowIsOrder
        <5>2. draft.version # drafts[i].version
          BY <4>3, <5>1
        <5>3. ~Preparation!Below(draft.version, drafts[i].version)
          BY <2>5, <4>2, <4>3, <4>4, <5>1, BelowIsOrder
        <5> QED
          BY <5>2, <5>3
      <4> QED
        BY <3>1, <4>2, <4>5, <4>6
    <3>5. ~Preparation!Below(draft.version, draft.version)
      BY <2>5, BelowIsOrder
    <3>6. \A i \in accepted(m + 1) :
            /\ ~Preparation!Below(draft.version, drafts[i].version)
            /\ draft.version = drafts[i].version => Manifest(draft) = Manifest(drafts[i])
      BY <2>6, <2>8, <3>4, <3>5 DEF draft
    <3>7. m + 1 \in accepted(m + 1) /\ \A i \in accepted(m + 1) : i <= m + 1
      BY <2>6, <2>8 DEF accepted
    <3> QED
      BY <3>1, <3>2, <3>6, <3>7 DEF History, accepted, draft
  <2> QED
    BY <2>7, <2>8
<1>3. ASSUME NEW m \in 0..n
      PROVE  History(drafts, state, m)
  <2>1. m \in Nat /\ m <= n
    OBVIOUS
  <2>2. m \in S
    <3> HIDE DEF S
    <3> QED
      BY <1>1, <1>2, <2>1, Induction
  <2> QED
    BY <2>1, <2>2
<1> QED
  BY <1>3

\* Over any sequence of preparations versions never go back, a version has one content, a
\* new version names the one it replaces, and an identifier of a chunk names one content:
\* for drafts of any number and content, and any limits.
THEOREM VersionsOnlyGrow == Spec => []VersionsGrow
<1>1. Recorded => VersionsGrow
  <2> SUFFICES ASSUME Recorded, case.of = "prepare"
               PROVE  VersionsGrow
    BY DEF VersionsGrow
  <2> DEFINE drafts == case.in
             limits == RevisionLimits
             results == case.out
             n == Len(drafts)
  <2>1. drafts \in Revisions /\ results = Preparation!PrepareAll(drafts, limits)
    BY DEF Recorded
  <2>2. n \in Nat
    BY <2>1, ArgumentAssumption
  <2>3. \A i \in 1..n : drafts[i].version \in [1..3 -> Nat]
    BY <2>1, ArgumentAssumption DEF Preparation!ValidDraft
  <2>4. PICK state :
          /\ state[0] = [result |-> Preparation!Refused, manifest |-> Preparation!NoManifest]
          /\ \A i \in 1..n : state[i] = Preparation!PrepareNext(state[i - 1], drafts[i], limits)
          /\ results = [i \in 1..n |-> state[i].result]
    <3> HIDE DEF drafts, limits, results
    <3> QED
      BY <2>1, <2>2, PreparationsFollow
  <2> HIDE DEF drafts, limits, results, n
  <2>5. \A m \in 0..n : History(drafts, state, m)
    BY <2>2, <2>3, <2>4, HistoryIsKept
  <2>6. Len(results) = n
    BY <2>2, <2>4
  <2> DEFINE accepted == {i \in 1..Len(results) : results[i].status # "refused"}
             versionOf(i) == results[i].manifest.version
             earlier(i) == {j \in accepted : j < i}
             chunks(i) == Preparation!ChunkSections(drafts[i].sections, limits)
             before(m) == {i \in 1..m : state[i].result.status # "refused"}
  <2>7. ASSUME NEW i \in accepted
        PROVE  /\ i \in 1..n /\ i - 1 \in 0..n
               /\ results[i] = state[i].result
               /\ results[i] = Preparation!Prepare(drafts[i], state[i - 1].manifest, limits)
               /\ results[i].status # "refused"
    <3>1. i \in 1..n /\ i - 1 \in 0..n /\ results[i].status # "refused"
      BY <2>2, <2>6
    <3>2. results[i] = state[i].result
      BY <2>4, <3>1
    <3>3. state[i] = Preparation!PrepareNext(state[i - 1], drafts[i], limits)
      BY <2>4, <3>1
    <3>4. state[i].result = Preparation!Prepare(drafts[i], state[i - 1].manifest, limits)
      BY <3>3, NextPreparation
    <3> QED
      BY <3>1, <3>2, <3>4
  <2>8. ASSUME NEW i \in accepted
        PROVE  LET existing == state[i - 1].manifest IN
               /\ results[i].manifest = Manifest(drafts[i])
               /\ state[i].manifest = Manifest(drafts[i])
               /\ versionOf(i) = drafts[i].version
               /\ \/ existing = Preparation!NoManifest /\ results[i].supersedes = <<>>
                  \/ /\ existing.version = drafts[i].version
                     /\ results[i].supersedes = <<>>
                  \/ /\ existing # Preparation!NoManifest
                     /\ existing.version # drafts[i].version
                     /\ results[i].supersedes = existing.version
               /\ \A c \in Range(results[i].chunks) : \E k \in 1..Len(chunks(i)) :
                    /\ c.id = <<Preparation!Fingerprint(drafts[i]), k - 1>>
                    /\ c.content = chunks(i)[k].content
    <3> DEFINE existing == state[i - 1].manifest
               result == Preparation!Prepare(drafts[i], existing, limits)
    <3>1. result = results[i] /\ result.status # "refused" /\ i \in 1..n
      BY <2>7
    <3>2. /\ result # Preparation!Refused
          /\ result.manifest = Manifest(drafts[i])
          /\ \/ existing = Preparation!NoManifest /\ result.supersedes = <<>>
             \/ /\ existing.version = drafts[i].version
                /\ result.supersedes = <<>>
             \/ /\ existing # Preparation!NoManifest
                /\ existing.version # drafts[i].version
                /\ result.supersedes = existing.version
          /\ \A c \in Range(result.chunks) : \E k \in 1..Len(chunks(i)) :
               /\ c.id = <<Preparation!Fingerprint(drafts[i]), k - 1>>
               /\ c.content = chunks(i)[k].content
      BY <3>1, AcceptedPreparation
    <3>3. state[i].manifest = IF result = Preparation!Refused THEN existing ELSE result.manifest
      BY <2>4, <3>1, NextPreparation
    <3>4. Manifest(drafts[i]).version = drafts[i].version
      BY DEF Manifest
    <3> HIDE DEF result, existing, chunks
    <3>5. /\ results[i].manifest = Manifest(drafts[i])
          /\ state[i].manifest = Manifest(drafts[i])
          /\ versionOf(i) = drafts[i].version
      BY <3>1, <3>2, <3>3, <3>4
    <3> QED
      BY <3>1, <3>2, <3>5 DEF existing
  <2>9. ASSUME NEW i \in accepted
        PROVE  before(i - 1) = earlier(i) /\ i \in before(i)
    <3>1. i \in 1..n /\ results[i].status # "refused"
      BY <2>7
    <3>2. \A j \in 1..n : results[j].status = state[j].result.status
      BY <2>4
    <3>3. \A j \in 1..i : j \in 1..n
      BY <2>2, <3>1
    <3>4. \A j : j \in 1..(i - 1) <=> j \in 1..n /\ j < i
      BY <2>2, <3>1
    <3>5. before(i - 1) = earlier(i)
      BY <2>6, <3>2, <3>4
    <3>6. i \in before(i)
      BY <2>2, <3>1, <3>2
    <3> QED
      BY <3>5, <3>6
  <2>10. ASSUME NEW i \in accepted, NEW j \in accepted, i < j
         PROVE  /\ ~Preparation!Below(versionOf(j), versionOf(i))
                /\ versionOf(i) = versionOf(j) => results[i].manifest = results[j].manifest
    <3>1. i \in before(j)
      BY <2>7, <2>10
    <3>2. History(drafts, state, j)
      BY <2>5, <2>7
    <3>3. /\ ~Preparation!Below(state[j].manifest.version, drafts[i].version)
          /\ state[j].manifest.version = drafts[i].version
               => state[j].manifest = Manifest(drafts[i])
      BY <3>1, <3>2 DEF History
    <3>4. /\ results[i].manifest = Manifest(drafts[i]) /\ versionOf(i) = drafts[i].version
          /\ results[j].manifest = Manifest(drafts[j]) /\ versionOf(j) = drafts[j].version
          /\ state[j].manifest = results[j].manifest
      BY <2>8
    <3> HIDE DEF versionOf
    <3>5. state[j].manifest.version = versionOf(j)
      BY <3>4 DEF versionOf
    <3> QED
      BY <3>3, <3>4, <3>5
  <2>11. ASSUME NEW i \in accepted
         PROVE  results[i].supersedes =
                  IF earlier(i) = {} \/ versionOf(Max(earlier(i))) = versionOf(i) THEN <<>>
                  ELSE versionOf(Max(earlier(i)))
    <3> DEFINE existing == state[i - 1].manifest
    <3>1. History(drafts, state, i - 1)
      BY <2>5, <2>7
    <3>2. /\ before(i - 1) = {} => existing = Preparation!NoManifest
          /\ before(i - 1) # {} => \E k \in before(i - 1) : (\A j \in before(i - 1) : j <= k)
                                                           /\ existing = Manifest(drafts[k])
      BY <3>1 DEF History
    <3>3. /\ versionOf(i) = drafts[i].version
          /\ \/ existing = Preparation!NoManifest /\ results[i].supersedes = <<>>
             \/ /\ existing.version = drafts[i].version
                /\ results[i].supersedes = <<>>
             \/ /\ existing # Preparation!NoManifest
                /\ existing.version # drafts[i].version
                /\ results[i].supersedes = existing.version
      BY <2>8
    <3>4. before(i - 1) = earlier(i)
      BY <2>9
    <3>5. \A j \in earlier(i) : j \in Int /\ j \in accepted
      BY <2>7
    <3> HIDE DEF before, existing
    <3>6. CASE earlier(i) = {}
      <4>1. existing = Preparation!NoManifest
        BY <3>2, <3>4, <3>6
      <4> QED
        BY <3>3, <3>6, <4>1
    <3>7. CASE earlier(i) # {}
      <4> HIDE DEF earlier
      <4>1. PICK k \in earlier(i) : (\A j \in earlier(i) : j <= k) /\ existing = Manifest(drafts[k])
        BY <3>2, <3>4, <3>7
      <4>2. Max(earlier(i)) = k
        BY <3>5, <4>1 DEF Max
      <4>3. versionOf(k) = drafts[k].version
        BY <2>8, <3>5
      <4>4. existing.version = drafts[k].version /\ existing # Preparation!NoManifest
        BY <4>1 DEF Manifest, Preparation!NoManifest
      <4> HIDE DEF versionOf
      <4> QED
        BY <3>3, <3>7, <4>2, <4>3, <4>4
    <3> QED
      BY <3>6, <3>7
  <2>12. ASSUME NEW i \in accepted, NEW j \in accepted,
                NEW c \in Range(results[i].chunks), NEW d \in Range(results[j].chunks), c.id = d.id
         PROVE  c.content = d.content
    <3> HIDE DEF chunks, accepted
    <3>1. PICK k \in 1..Len(chunks(i)) :
            c.id = <<Preparation!Fingerprint(drafts[i]), k - 1>> /\ c.content = chunks(i)[k].content
      BY <2>8
    <3>2. PICK l \in 1..Len(chunks(j)) :
            d.id = <<Preparation!Fingerprint(drafts[j]), l - 1>> /\ d.content = chunks(j)[l].content
      BY <2>8
    <3>3. Preparation!Fingerprint(drafts[i]) = Preparation!Fingerprint(drafts[j]) /\ k - 1 = l - 1
      <4> DEFINE f == Preparation!Fingerprint(drafts[i])
                 g == Preparation!Fingerprint(drafts[j])
                 a == k - 1
                 b == l - 1
      <4>1. <<f, a>> = <<g, b>>
        BY <2>12, <3>1, <3>2
      <4> HIDE DEF f, g, a, b
      <4>2. f = g /\ a = b
        BY <4>1
      <4> QED
        BY <4>2 DEF f, g, a, b
    <3>4. drafts[i].sections = drafts[j].sections
      BY <3>3 DEF Preparation!Fingerprint
    <3>5. k = l
      BY <3>3
    <3> QED
      BY <3>1, <3>2, <3>4, <3>5 DEF chunks
  <2> HIDE DEF versionOf, earlier
  <2> QED
    BY <2>10, <2>11, <2>12 DEF VersionsGrow, versionOf, earlier, results
<1> QED
  BY <1>1, CallsAreRecorded, PTL

-----------------------------------------------------------------------------
(* Assertions *)

Accepts(token, arrival) ==
  Trust!Authenticate(token, Config, arrival.request, arrival.now) # Trust!Denied

\* The guard of the authenticator.
Verified(token, arrival) ==
  /\ token.form = "profiled" /\ token.claims.wellformed
  /\ \E key \in Config.keys :
       /\ key.kid = token.kid /\ key.public = token.signer
       /\ key.activates <= token.claims.iat /\ token.claims.iat < key.retires
       /\ token.claims.exp <= key.retires
  /\ token.claims.iat < token.claims.exp
  /\ token.claims.exp - token.claims.iat <= Config.lifetime
  /\ token.claims.iat <= arrival.now + Config.skew
  /\ token.claims.exp > arrival.now - Config.skew
  /\ token.claims.parties = Config.parties
  /\ token.claims.route = arrival.request.route /\ token.claims.body = arrival.request.body

LEMMA AcceptsVerified ==
  ASSUME NEW token, NEW arrival
  PROVE  /\ Accepts(token, arrival) <=> Verified(token, arrival)
         /\ Accepts(token, arrival) =>
              Trust!Authenticate(token, Config, arrival.request, arrival.now).request
                = arrival.request.id
<1> DEFINE trusted == [status |-> "trusted", request |-> arrival.request.id,
                       reference |-> token.claims.reference]
<1>1. trusted # Trust!Denied
  <2>1. trusted.status # Trust!Denied.status
    BY DEF Trust!Denied
  <2> QED
    BY <2>1
<1>2. Trust!Authenticate(token, Config, arrival.request, arrival.now)
        = IF Verified(token, arrival) THEN trusted ELSE Trust!Denied
  BY DEF Trust!Authenticate, Verified, Trust!Profiled, Trust!KeysNamed, Trust!InLifetime,
         Trust!InTime, Trust!InKeyWindow, Trust!Bound
<1> QED
  BY <1>1, <1>2 DEF Accepts

LEMMA ContextIsOwn ==
  ASSUME NEW token, NEW arrival, Identified(token, arrival).context.status = "resolved"
  PROVE  /\ Accepts(token, arrival)
         /\ Identified(token, arrival).context.context.request = arrival.request.id
<1> DEFINE trusted == Trust!Authenticate(token, Config, arrival.request, arrival.now)
           resolved == Trust!Resolve(trusted, arrival.resolution)
<1>1. Trust!Denied.status # "resolved" /\ Trust!Unavailable.status # "resolved"
  BY DEF Trust!Denied, Trust!Unavailable
<1>2. trusted # Trust!Denied /\ Identified(token, arrival).context = resolved
  BY <1>1 DEF Identified
<1>3. resolved.context.request = trusted.request
  BY <1>1, <1>2 DEF Trust!Resolve
<1> QED
  BY <1>2, <1>3, AcceptsVerified DEF Accepts

\* An honest assertion is accepted in its lifetime, none long before or after it, with
\* another body or with a key that was not in use, and the context is the request's own:
\* for any keys whose names are unique, any lifetime and any skew.
THEOREM TrustInTime == Spec => []AssertionsAreCurrent
<1>1. Recorded => AssertionsAreCurrent
  <2> SUFFICES ASSUME Recorded, case.of = "identify"
               PROVE  AssertionsAreCurrent
    BY DEF AssertionsAreCurrent
  <2>1. PICK token \in Tokens, arrival \in Arrivals :
          /\ case.in = [token |-> token, arrival |-> arrival]
          /\ case.out = Identified(token, arrival)
    BY DEF Recorded
  <2> DEFINE claims == token.claims
             inUse == \E key \in Config.keys : /\ key.public = token.signer /\ key.kid = token.kid
                                               /\ key.activates <= claims.iat
                                               /\ claims.exp <= key.retires
             honest == /\ token.form = "profiled" /\ claims.wellformed /\ inUse
                       /\ claims.iat < claims.exp /\ claims.exp - claims.iat <= Config.lifetime
                       /\ claims.parties = Config.parties
                       /\ claims.route = arrival.request.route
                       /\ claims.body = arrival.request.body
  <2>2. /\ case.in.token = token /\ case.in.arrival = arrival
        /\ (case.out.trusted # Trust!Denied) <=> Accepts(token, arrival)
        /\ case.out.context = Identified(token, arrival).context
    BY <2>1 DEF Identified, Accepts
  <2>3. /\ claims.iat \in Int /\ claims.exp \in Int
        /\ Config.skew \in Nat
        /\ \A key \in Config.keys : key.activates \in Int /\ key.retires \in Int
        /\ arrival.time \in Int
        /\ arrival.now \in Int
        /\ arrival.time - Config.skew <= arrival.now
        /\ arrival.now <= arrival.time + Config.skew
    BY ArgumentAssumption DEF Trust!ValidToken, Trust!ValidConfig
  <2>4. Verified(token, arrival) =>
          /\ inUse /\ claims.body = arrival.request.body
          /\ claims.iat - 2 * Config.skew <= arrival.time
          /\ arrival.time < claims.exp + 2 * Config.skew
    BY <2>3 DEF Verified
  <2>5. honest /\ claims.iat <= arrival.time /\ arrival.time < claims.exp => Verified(token, arrival)
    BY <2>3 DEF Verified
  <2>6. case.out.context.status = "resolved" =>
          Accepts(token, arrival) /\ case.out.context.context.request = arrival.request.id
    BY <2>2, ContextIsOwn
  <2> HIDE DEF claims, inUse, honest
  <2>7. /\ Accepts(token, arrival) =>
             /\ inUse /\ claims.body = arrival.request.body
             /\ claims.iat - 2 * Config.skew <= arrival.time
             /\ arrival.time < claims.exp + 2 * Config.skew
        /\ honest /\ claims.iat <= arrival.time /\ arrival.time < claims.exp
             => Accepts(token, arrival)
    BY <2>4, <2>5, AcceptsVerified
  <2> QED
    BY <2>2, <2>6, <2>7 DEF AssertionsAreCurrent, claims, inUse, honest
<1> QED
  BY <1>1, CallsAreRecorded, PTL

-----------------------------------------------------------------------------
(* The agent *)

\* A sequence of checks that yields no code has none that fails.
LEMMA NoneFails ==
  ASSUME NEW n \in 1..4, NEW checks, DOMAIN checks = 1..n,
         \A i \in 1..n : checks[i].code # "none",
         Agent!FirstFailure(checks) = "none"
  PROVE  \A i \in 1..n : ~checks[i].fails
<1> DEFINE failed == {i \in DOMAIN checks : checks[i].fails}
<1> SUFFICES ASSUME failed # {}
             PROVE  FALSE
  OBVIOUS
<1>1. \E i \in failed : \A j \in failed : i <= j
  <2>1. failed \subseteq 1..4
    OBVIOUS
  <2>2. CASE 1 \in failed
    BY <2>1, <2>2
  <2>3. CASE 1 \notin failed /\ 2 \in failed
    BY <2>1, <2>3
  <2>4. CASE 1 \notin failed /\ 2 \notin failed /\ 3 \in failed
    BY <2>1, <2>4
  <2>5. CASE 1 \notin failed /\ 2 \notin failed /\ 3 \notin failed
    BY <2>1, <2>5
  <2> QED
    BY <2>2, <2>3, <2>4, <2>5
<1>2. Agent!Min(failed) \in failed
  BY <1>1 DEF Agent!Min
<1>3. Agent!FirstFailure(checks) = checks[Agent!Min(failed)].code
  BY DEF Agent!FirstFailure
<1> QED
  BY <1>2, <1>3

\* A tool of the catalog that has the name and version of the route may be used.
LEMMA CatalogIsEntitled ==
  ASSUME NEW system, NEW run,
         NEW tool \in Agent!Catalog(system, run.context),
         tool.name = run.route.tool, tool.version = run.route.version
  PROVE  MayUse(system, run)
BY DEF Agent!Catalog, Agent!Entitled, Agent!Allowed, MayUse

LEMMA AcceptedCall ==
  ASSUME NEW system, NEW run, NEW response, Agent!CallFailure(system, run, response) = "none"
  PROVE  response.tool = run.route.tool /\ response.version = run.route.version
<1> DEFINE parses == Agent!Models!Parses(response.arguments)
           other == response.tool # run.route.tool \/ response.version # run.route.version
           large == Agent!Models!Size(response.arguments) > system.limits.argument
           checks == <<Agent!Check(~parses, "INVALID_MODEL_RESPONSE"),
                       Agent!Check(other, "INVALID_MODEL_RESPONSE"),
                       Agent!Check(large, "AGENT_LIMIT_REACHED")>>
<1>1. Agent!FirstFailure(checks) = "none"
  BY DEF Agent!CallFailure
<1> HIDE DEF parses, other, large
<1>2. DOMAIN checks = 1..3 /\ \A i \in 1..3 : checks[i].code # "none"
  BY DEF Agent!Check
<1>3. checks[2].fails = other
  BY DEF Agent!Check
<1> HIDE DEF checks
<1>4. ~other
  BY <1>1, <1>2, <1>3, NoneFails
<1> QED
  BY <1>4 DEF other

LEMMA AcceptedResult ==
  ASSUME NEW system, NEW gateway, Agent!ResultFailure(system, gateway) = "none"
  PROVE  gateway.code = "none"
<1> DEFINE unaudited == gateway.code = "AUDIT_UNAVAILABLE"
           failed == gateway.code # "none"
           large == Len(gateway.result.content) > system.limits.result
           checks == <<Agent!Check(unaudited, "AUDIT_UNAVAILABLE"),
                       Agent!Check(failed, "AGENT_UNAVAILABLE"),
                       Agent!Check(large, "AGENT_LIMIT_REACHED")>>
<1>1. Agent!FirstFailure(checks) = "none"
  BY DEF Agent!ResultFailure
<1> HIDE DEF unaudited, failed, large
<1>2. DOMAIN checks = 1..3 /\ \A i \in 1..3 : checks[i].code # "none"
  BY DEF Agent!Check
<1>3. checks[2].fails = failed
  BY DEF Agent!Check
<1> HIDE DEF checks
<1>4. ~failed
  BY <1>1, <1>2, <1>3, NoneFails
<1> QED
  BY <1>4 DEF failed

\* The gateway lets a handler run only for a tool of the catalog, and reports success only
\* of an audited call whose result the handler has validated.
GatewayIsGuarded(system, run, call, gateway) ==
  /\ gateway.ran => \E tool \in Agent!Catalog(system, run.context) :
                      tool.name = call.tool /\ tool.version = call.version
  /\ gateway.code = "none" =>
       /\ run.tool_audited /\ gateway.ran
       /\ call.tool = Agent!KnowledgeTool => Agent!ValidMatches(run.answer.content, run.context)
  /\ gateway.result.tool = call.tool /\ gateway.result.content = run.answer.content

LEMMA GatewayGuards ==
  ASSUME NEW system, NEW run, NEW call
  PROVE  GatewayIsGuarded(system, run, call, Agent!Gateway(system, run.context, call, run.answer,
                                                           run.tool_audited))
<1> DEFINE gateway == Agent!Gateway(system, run.context, call, run.answer, run.tool_audited)
           usable == {t \in Agent!Catalog(system, run.context) :
                        t.name = call.tool /\ t.version = call.version}
           command == \E t \in {u \in Agent!Descriptors(system.registry) : u.name = call.tool} :
                        t.operation = "command"
           none == usable = {}
           reserved == call.arguments = "reserved"
           unfit == call.arguments \notin {"fine", "long"}
           checks == <<Agent!Check(command, "READ_ONLY_VIOLATION"),
                       Agent!Check(none, "TOOL_UNAVAILABLE"),
                       Agent!Check(reserved, "INVALID_TOOL_ARGUMENTS"),
                       Agent!Check(unfit, "INVALID_TOOL_ARGUMENTS")>>
           refusal == Agent!FirstFailure(checks)
           handled == Agent!Handle(call.tool, run.context, run.answer)
           code == IF refusal # "none" THEN refusal
                   ELSE CASE handled = "answered" -> "none"
                          [] handled = "junk" -> "INVALID_TOOL_OUTPUT"
                          [] OTHER -> "TOOL_EXECUTION_FAILED"
<1>1. gateway = [code |-> IF run.tool_audited THEN code ELSE "AUDIT_UNAVAILABLE",
                 ran |-> refusal = "none",
                 result |-> [tool |-> call.tool, version |-> call.version,
                             content |-> run.answer.content]]
  BY DEF Agent!Gateway
<1> HIDE DEF command, none, reserved, unfit
<1>2. DOMAIN checks = 1..4 /\ \A i \in 1..4 : checks[i].code # "none"
  BY DEF Agent!Check
<1>3. checks[2].fails = none
  BY DEF Agent!Check
<1> HIDE DEF checks
<1>4. refusal = "none" => ~none
  BY <1>2, <1>3, NoneFails
<1> HIDE DEF refusal
<1>5. code = "none" => refusal = "none" /\ handled = "answered"
  OBVIOUS
<1>6. handled = "answered" /\ call.tool = Agent!KnowledgeTool
        => Agent!ValidMatches(run.answer.content, run.context)
  BY DEF Agent!Handle
<1> HIDE DEF code, handled
<1> HIDE DEF gateway
<1>7. gateway.ran = (refusal = "none") /\ (gateway.code = "none" => run.tool_audited /\ code = "none")
  BY <1>1
<1>8. gateway.result.tool = call.tool /\ gateway.result.content = run.answer.content
  BY <1>1
<1>9. GatewayIsGuarded(system, run, call, gateway)
  BY <1>4, <1>5, <1>6, <1>7, <1>8 DEF none, GatewayIsGuarded
<1> QED
  BY <1>9 DEF gateway

\* What a successful end of a run has passed.
LEMMA FinishGuards ==
  ASSUME NEW system, NEW run, NEW response, NEW calls, NEW ran, NEW turns
  PROVE  LET over == Agent!Finish(system, run, response, calls, ran, turns)
         IN /\ over = [code |-> over.code, ran |-> ran, turns |-> turns, citations |-> over.citations]
            /\ over.code = "none" =>
                 /\ response.kind = "final" /\ over.citations = response.citations
                 /\ Agent!Grounded(response, calls)
                 /\ IF Agent!General(run) THEN response.basis = "general"
                    ELSE Agent!MatchesRoute(response, calls)
<1> DEFINE over == Agent!Finish(system, run, response, calls, ran, turns)
           unfinished == IF response.kind = "failed" THEN "AGENT_UNAVAILABLE"
                         ELSE "INVALID_MODEL_RESPONSE"
           large == response.size > system.limits.answer
           unfounded == ~Agent!Grounded(response, calls)
           other == Agent!General(run) /\ response.basis # "general"
           astray == ~Agent!General(run) /\ ~Agent!MatchesRoute(response, calls)
           checks == <<Agent!Check(large, "AGENT_LIMIT_REACHED"),
                       Agent!Check(unfounded, "INVALID_MODEL_RESPONSE"),
                       Agent!Check(other, "INVALID_MODEL_RESPONSE"),
                       Agent!Check(astray, "INVALID_MODEL_RESPONSE")>>
           code == Agent!FirstFailure(checks)
<1>1. over = IF response.kind # "final" THEN Agent!Over(unfinished, ran, turns)
             ELSE [Agent!Over(code, ran, turns) EXCEPT
                     !.citations = IF code = "none" THEN response.citations ELSE <<>>]
  BY DEF Agent!Finish
<1> HIDE DEF large, unfounded, other, astray
<1>2. DOMAIN checks = 1..4 /\ \A i \in 1..4 : checks[i].code # "none"
  BY DEF Agent!Check
<1>3. checks[2].fails = unfounded /\ checks[3].fails = other /\ checks[4].fails = astray
  BY DEF Agent!Check
<1> HIDE DEF checks
<1>4. code = "none" => ~unfounded /\ ~other /\ ~astray
  BY <1>2, <1>3, NoneFails
<1> HIDE DEF code, over
<1>5. over = [code |-> over.code, ran |-> ran, turns |-> turns, citations |-> over.citations]
  BY <1>1 DEF Agent!Over
<1>6. over.code = "none" => response.kind = "final" /\ code = "none"
                            /\ over.citations = response.citations
  BY <1>1 DEF Agent!Over
<1> QED
  BY <1>4, <1>5, <1>6 DEF over, unfounded, other, astray

\* On an exact route the one call is the evidence, and the only source of citations.
LEMMA EvidenceOfOneCall ==
  ASSUME NEW final, NEW made, Agent!Grounded(final, {made}), Agent!MatchesRoute(final, {made})
  PROVE  IF made.knowledge
         THEN final.citations # <<>> /\ Agent!Range(final.citations) \subseteq made.citations
         ELSE final.citations = <<>>
<1> DEFINE selected == {c \in {made} : c.id \in Agent!Range(final.evidence)}
           knowledge == {c \in selected : c.knowledge}
<1>1. final.basis = IF made.knowledge THEN "knowledge" ELSE "erp_data"
  BY DEF Agent!MatchesRoute
<1>2. CASE made.knowledge
  <2>1. final.citations # <<>>
    BY <1>1, <1>2 DEF Agent!Grounded
  <2>2. Agent!Range(final.citations) \subseteq UNION {c.citations : c \in knowledge}
    BY DEF Agent!Grounded
  <2> QED
    BY <1>2, <2>1, <2>2
<1>3. CASE ~made.knowledge
  BY <1>1, <1>3 DEF Agent!Grounded
<1> QED
  BY <1>2, <1>3

LEMMA EvidenceOfNoCall ==
  ASSUME NEW final, Agent!Grounded(final, {}), final.basis = "general"
  PROVE  final.citations = <<>>
BY DEF Agent!Grounded

\* What fails for want of a permission to send is not a final answer.
LEMMA AskedIsSent ==
  ASSUME NEW system, NEW run, NEW turn, NEW wire,
         Agent!Ask(system, run, turn, wire).kind # "failed"
  PROVE  Agent!Models!Sends(run.provider, turn, system.privacy, run.now) # {}
BY DEF Agent!Ask, Agent!Models!Complete, Agent!Models!Failed

LEMMA SentIsCovered ==
  ASSUME NEW system, NEW run, NEW turn,
         Agent!Models!ValidPrivacy(system.privacy), run.now \in Int,
         run.provider = "openai",
         turn.customer = run.context.customer, turn.purpose = run.context.purpose,
         Agent!Models!Sends(run.provider, turn, system.privacy, run.now) # {}
  PROVE  Covered(system, run, turn.classification)
<1>1. PICK r \in Agent!Models!Approved(system.privacy, turn, run.now) : TRUE
  BY DEF Agent!Models!Sends
<1>2. PICK a \in system.privacy.attestations :
        /\ a.id = r.attestation
        /\ turn.classification \in a.classifications /\ turn.purpose \in a.purposes
        /\ a.approved <= run.now /\ run.now < a.expires
        /\ a.expires - a.approved <= r.lifetime
  BY DEF Agent!Models!Approved
<1>3. /\ r \in system.privacy.routes /\ r.customer = turn.customer
      /\ turn.classification \in r.classifications /\ turn.purpose \in r.purposes
  BY DEF Agent!Models!Approved
<1>4. a.approved \in Int /\ a.expires \in Int /\ r.lifetime \in Nat
  BY <1>3 DEF Agent!Models!ValidPrivacy
<1>5. run.now \in a.approved..(a.expires - 1) /\ a.expires <= a.approved + r.lifetime
  BY <1>2, <1>4
<1> QED
  BY <1>2, <1>3, <1>5 DEF Covered

\* The classification of a turn is at least restricted: an exact route has one tool.
LEMMA CeilingIsRestricted ==
  ASSUME NEW system, NEW run, Agent!ValidRegistry(system.registry)
  PROVE  Agent!Ceiling(system, run) \in Int /\ Agent!Restricted <= Agent!Ceiling(system, run)
<1> DEFINE set == {Agent!Restricted} \cup {t.classification : t \in Agent!Routed(system, run)}
<1>1. \A s, t \in Agent!Routed(system, run) : s = t /\ t.classification \in 0..3
  BY DEF Agent!Routed, Agent!Catalog, Agent!Entitled, Agent!Descriptors, Agent!ValidRegistry,
         Agent!Models!HighlyRestricted
<1>2. \E x \in set : \A y \in set : x >= y
  <2>1. CASE \A t \in Agent!Routed(system, run) : t.classification <= Agent!Restricted
    BY <2>1 DEF Agent!Restricted
  <2>2. CASE \E t \in Agent!Routed(system, run) : ~(t.classification <= Agent!Restricted)
    <3>1. PICK t \in Agent!Routed(system, run) : ~(t.classification <= Agent!Restricted)
      BY <2>2
    <3>2. set = {Agent!Restricted, t.classification}
      BY <1>1, <3>1
    <3> QED
      BY <1>1, <3>1, <3>2 DEF Agent!Restricted
  <2> QED
    BY <2>1, <2>2
<1>3. Agent!Max(set) \in set /\ Agent!Max(set) >= Agent!Restricted
  BY <1>2 DEF Agent!Max
<1>4. set \subseteq Int
  BY <1>1 DEF Agent!Restricted
<1> HIDE DEF set
<1>5. Agent!Ceiling(system, run) \in {Agent!Restricted, Agent!Max(set)}
  BY DEF Agent!Ceiling, set
<1> DEFINE max == Agent!Max(set)
<1>6. max \in Int /\ max >= 2 /\ Agent!Restricted = 2
  BY <1>3, <1>4 DEF Agent!Restricted
<1>7. Agent!Ceiling(system, run) \in {2, max}
  BY <1>5 DEF Agent!Restricted
<1> HIDE DEF max
<1> QED
  BY <1>6, <1>7

LEMMA MatchesAreInScope ==
  ASSUME NEW context, NEW answer, Agent!ValidAnswer(answer),
         Agent!ValidMatches(answer.content, context)
  PROVE  \A match \in Range(answer.content) :
           /\ InScope(match, context)
           /\ match.classification \in Int /\ match.classification <= Agent!Restricted
<1> SUFFICES ASSUME NEW match \in Range(answer.content)
             PROVE  /\ InScope(match, context)
                    /\ match.classification \in Int /\ match.classification <= Agent!Restricted
  OBVIOUS
<1>1. answer.content \in Seq(Agent!Range(answer.content))
  BY DEF Agent!ValidAnswer
<1>2. DOMAIN answer.content = 1..Len(answer.content)
  BY <1>1
<1>3. PICK i \in 1..Len(answer.content) : match = answer.content[i]
  BY <1>2 DEF Range
<1>4. Agent!Visible(match, context)
  BY <1>3 DEF Agent!ValidMatches
<1>5. match.classification \in Int
  BY <1>2, <1>3 DEF Agent!ValidAnswer, Agent!Range, Agent!Models!HighlyRestricted
<1>6. InScope(match, context) /\ match.classification <= Agent!Restricted
  BY <1>4 DEF Agent!Visible, InScope
<1> QED
  BY <1>5, <1>6

\* What a turn says of the run, the tool it offers and the matches it gives.
TurnIsSound(system, run, turn) ==
  /\ turn.customer = run.context.customer /\ turn.purpose = run.context.purpose
  /\ turn.classification = Agent!Ceiling(system, run)
  /\ \A t \in turn.tools :
       t.name = run.route.tool /\ turn.interactions = <<>> /\ MayUse(system, run)
  /\ \A i \in Range(turn.interactions) : i.result.tool = "search_hr_knowledge" =>
       \A match \in Range(i.result.content) :
         /\ InScope(match, run.context)
         /\ match.classification \in Int /\ match.classification <= Agent!Restricted

\* A turn that was sent and gives the result that the citations come from.
IsSource(system, run, turn, citations) ==
  /\ Agent!Models!Sends(run.provider, turn, system.privacy, run.now) # {}
  /\ \E i \in Range(turn.interactions) :
       /\ i.result.tool = "search_hr_knowledge"
       /\ Range(citations) \subseteq {match.citation : match \in Range(i.result.content)}

\* What holds of a run before the terminal audit.
RunIsSound(system, run, over) ==
  /\ over = [code |-> over.code, ran |-> over.ran, turns |-> over.turns, citations |-> over.citations]
  /\ OnlyTheRouteRuns(system, run, over)
  /\ \A turn \in over.turns : TurnIsSound(system, run, turn)
  /\ over.code = "none" =>
       IF OnGeneralRoute(run) THEN over.ran = {} /\ over.citations = <<>>
       ELSE /\ run.tool_audited /\ over.ran # {}
            /\ over.citations # <<>> <=> run.route.tool = "search_hr_knowledge"
            /\ over.citations # <<>> =>
                 \E turn \in over.turns : IsSource(system, run, turn, over.citations)

LEMMA TurnWithoutResult ==
  ASSUME NEW system, NEW run,
         NEW selection \in {"no_tools", "required_exact_tool"}
  PROVE  TurnIsSound(system, run, Agent!Turn(system, run, selection, <<>>))
<1> DEFINE turn == Agent!Turn(system, run, selection, <<>>)
<1>1. /\ turn.customer = run.context.customer /\ turn.purpose = run.context.purpose
      /\ turn.classification = Agent!Ceiling(system, run)
      /\ turn.interactions = <<>>
      /\ turn.tools \subseteq Agent!Routed(system, run)
  BY DEF Agent!Turn
<1>2. \A t \in Agent!Routed(system, run) : t.name = run.route.tool /\ MayUse(system, run)
  BY CatalogIsEntitled DEF Agent!Routed
<1>3. Range(turn.interactions) = {}
  BY <1>1 DEF Range
<1> HIDE DEF turn
<1>4. TurnIsSound(system, run, turn)
  BY <1>1, <1>2, <1>3 DEF TurnIsSound
<1> QED
  BY <1>4 DEF turn

LEMMA TurnWithResult ==
  ASSUME NEW system, NEW run, NEW call, NEW result,
         result.tool = "search_hr_knowledge" =>
           \A match \in Range(result.content) :
             /\ InScope(match, run.context)
             /\ match.classification \in Int /\ match.classification <= Agent!Restricted
  PROVE  LET turn == Agent!Turn(system, run, "final_only", <<[call |-> call, result |-> result]>>)
         IN /\ TurnIsSound(system, run, turn)
            /\ \E i \in Range(turn.interactions) : i.result = result
<1> DEFINE interaction == [call |-> call, result |-> result]
           turn == Agent!Turn(system, run, "final_only", <<interaction>>)
<1>1. /\ turn.customer = run.context.customer /\ turn.purpose = run.context.purpose
      /\ turn.classification = Agent!Ceiling(system, run)
      /\ turn.interactions = <<interaction>>
      /\ turn.tools = {}
  BY DEF Agent!Turn
<1>2. Range(turn.interactions) = {interaction} /\ interaction.result = result
  BY <1>1 DEF Range
<1> HIDE DEF turn, interaction
<1>3. TurnIsSound(system, run, turn) /\ \E i \in Range(turn.interactions) : i.result = result
  BY <1>1, <1>2 DEF TurnIsSound
<1> QED
  BY <1>3 DEF turn, interaction

LEMMA GeneralRunIsSound ==
  ASSUME NEW system, NEW run, OnGeneralRoute(run), NEW response
  PROVE  RunIsSound(system, run, Agent!Finish(system, run, response, {}, {},
                                              {Agent!Turn(system, run, "no_tools", <<>>)}))
<1> DEFINE turn == Agent!Turn(system, run, "no_tools", <<>>)
           over == Agent!Finish(system, run, response, {}, {}, {turn})
<1>1. TurnIsSound(system, run, turn)
  BY TurnWithoutResult
<1> HIDE DEF turn
<1>2. over = [code |-> over.code, ran |-> {}, turns |-> {turn}, citations |-> over.citations]
  BY FinishGuards
<1>3. over.code = "none" => over.citations = <<>>
  BY FinishGuards, EvidenceOfNoCall DEF OnGeneralRoute, Agent!General
<1> HIDE DEF over
<1>4. over.ran = {} /\ over.turns = {turn}
  BY <1>2
<1>5. RunIsSound(system, run, over)
  BY <1>1, <1>2, <1>3, <1>4 DEF RunIsSound, OnlyTheRouteRuns, OnGeneralRoute
<1> QED
  BY <1>5 DEF over, turn

LEMMA ExactRunIsSound ==
  ASSUME NEW system, NEW run, ~OnGeneralRoute(run),
         Agent!ValidAnswer(run.answer)
  PROVE  RunIsSound(system, run, Agent!Exact(system, run))
<1> DEFINE turn == Agent!Turn(system, run, "required_exact_tool", <<>>)
           call == Agent!Ask(system, run, turn, run.first)
           refused == Agent!CallFailure(system, run, call)
           gateway == Agent!Gateway(system, run.context, call, run.answer, run.tool_audited)
           ran == IF gateway.ran THEN {call.tool} ELSE {}
           failed == Agent!ResultFailure(system, gateway)
           last == Agent!Turn(system, run, "final_only", <<[call |-> call, result |-> gateway.result]>>)
           made == [id |-> call.id, knowledge |-> call.tool = Agent!KnowledgeTool,
                    citations |-> Agent!Citations(gateway.result)]
           response == Agent!Ask(system, run, last, run.second)
           over == Agent!Exact(system, run)
<1>1. over = IF refused # "none" THEN Agent!Over(refused, {}, {turn})
             ELSE IF failed # "none" THEN Agent!Over(failed, ran, {turn})
             ELSE Agent!Finish(system, run, response, {made}, ran, {turn, last})
  BY DEF Agent!Exact
<1>2. TurnIsSound(system, run, turn)
  BY TurnWithoutResult
<1> HIDE DEF call
<1>3. refused = "none" => call.tool = run.route.tool /\ call.version = run.route.version
  BY AcceptedCall
<1>4. GatewayIsGuarded(system, run, call, gateway)
  BY GatewayGuards
<1> HIDE DEF gateway
<1>6. failed = "none" => gateway.code = "none"
  BY AcceptedResult
<1> HIDE DEF failed
<1>5. failed = "none" =>
        /\ run.tool_audited /\ gateway.ran
        /\ call.tool = Agent!KnowledgeTool => Agent!ValidMatches(run.answer.content, run.context)
  BY <1>4, <1>6 DEF GatewayIsGuarded
<1>7. gateway.result.tool = call.tool /\ gateway.result.content = run.answer.content
  BY <1>4 DEF GatewayIsGuarded
<1>8. refused = "none" /\ gateway.ran => MayUse(system, run)
  BY <1>3, <1>4, CatalogIsEntitled DEF GatewayIsGuarded
<1>9. failed = "none" => /\ TurnIsSound(system, run, last)
                         /\ \E i \in Range(last.interactions) : i.result = gateway.result
  <2> SUFFICES ASSUME failed = "none"
               PROVE  /\ TurnIsSound(system, run, last)
                      /\ \E i \in Range(last.interactions) : i.result = gateway.result
    OBVIOUS
  <2>1. call.tool = "search_hr_knowledge" =>
          \A match \in Range(run.answer.content) :
            /\ InScope(match, run.context)
            /\ match.classification \in Int /\ match.classification <= Agent!Restricted
    BY <1>5, MatchesAreInScope DEF Agent!KnowledgeTool
  <2> QED
    BY <2>1, <1>7, TurnWithResult
<1>10. /\ made.knowledge <=> call.tool = "search_hr_knowledge"
       /\ made.citations = Agent!Citations(gateway.result)
  BY DEF Agent!KnowledgeTool
<1>11. Agent!Citations(gateway.result) \subseteq {match.citation : match \in Range(gateway.result.content)}
  <2>1. run.answer.content \in Seq(Agent!Range(run.answer.content))
    BY DEF Agent!ValidAnswer
  <2>2. DOMAIN run.answer.content = 1..Len(run.answer.content)
    BY <2>1
  <2> QED
    BY <2>2, <1>7 DEF Agent!Citations, Range
<1>12. Agent!Range(response.citations) = Range(response.citations)
  BY DEF Agent!Range, Range
<1> HIDE DEF made, response, last, turn, ran
<1> DEFINE finish == Agent!Finish(system, run, response, {made}, ran, {turn, last})
<1>13. /\ finish = [code |-> finish.code, ran |-> ran, turns |-> {turn, last},
                    citations |-> finish.citations]
       /\ finish.code = "none" =>
            /\ response.kind = "final" /\ finish.citations = response.citations
            /\ Agent!Grounded(response, {made}) /\ Agent!MatchesRoute(response, {made})
  BY FinishGuards DEF OnGeneralRoute, Agent!General
<1>14. response.kind = "final" =>
         Agent!Models!Sends(run.provider, last, system.privacy, run.now) # {}
  BY AskedIsSent DEF response
<1>15. finish.code = "none" =>
         IF made.knowledge
         THEN finish.citations # <<>> /\ Range(finish.citations) \subseteq made.citations
         ELSE finish.citations = <<>>
  BY <1>12, <1>13, EvidenceOfOneCall
<1>16. refused # "none" => RunIsSound(system, run, Agent!Over(refused, {}, {turn}))
  <2> HIDE DEF refused
  <2> QED
    BY <1>2 DEF Agent!Over, RunIsSound, OnlyTheRouteRuns
<1>17. refused = "none" /\ failed # "none" => RunIsSound(system, run, Agent!Over(failed, ran, {turn}))
  <2>1. refused = "none" /\ ran # {} => MayUse(system, run) /\ ran = {run.route.tool}
    BY <1>3, <1>8 DEF ran
  <2> HIDE DEF refused
  <2> QED
    BY <1>2, <2>1 DEF Agent!Over, RunIsSound, OnlyTheRouteRuns
<1>18. refused = "none" /\ failed = "none" => RunIsSound(system, run, finish)
  <2> SUFFICES ASSUME refused = "none", failed = "none"
               PROVE  RunIsSound(system, run, finish)
    OBVIOUS
  <2>1. MayUse(system, run) /\ ran = {run.route.tool}
    BY <1>3, <1>5, <1>8 DEF ran
  <2>2. TurnIsSound(system, run, last) /\ run.tool_audited
    BY <1>5, <1>9
  <2>3. finish.code = "none" =>
          (finish.citations # <<>> <=> run.route.tool = "search_hr_knowledge")
    BY <1>3, <1>10, <1>15
  <2>4. finish.code = "none" /\ finish.citations # <<>> =>
          IsSource(system, run, last, finish.citations)
    <3> SUFFICES ASSUME finish.code = "none", finish.citations # <<>>
                 PROVE  IsSource(system, run, last, finish.citations)
      OBVIOUS
    <3>1. PICK i \in Range(last.interactions) : i.result = gateway.result
      BY <1>9
    <3>2. i.result.tool = "search_hr_knowledge"
      BY <1>7, <1>10, <1>15, <3>1
    <3>3. Range(finish.citations) \subseteq {match.citation : match \in Range(i.result.content)}
      BY <1>10, <1>11, <1>15, <3>1
    <3>4. Agent!Models!Sends(run.provider, last, system.privacy, run.now) # {}
      BY <1>13, <1>14
    <3> HIDE DEF finish
    <3> QED
      BY <3>1, <3>2, <3>3, <3>4 DEF IsSource
  <2> HIDE DEF finish
  <2>5. finish.ran = ran /\ finish.turns = {turn, last}
    BY <1>13
  <2> QED
    BY <1>2, <1>13, <2>1, <2>2, <2>3, <2>4, <2>5 DEF RunIsSound, OnlyTheRouteRuns
<1> HIDE DEF over, finish, refused
<1>19. RunIsSound(system, run, over)
  BY <1>1, <1>16, <1>17, <1>18 DEF finish
<1> QED
  BY <1>19 DEF over

\* The refusals before the first turn have a code.
LEMMA RefusedRunIsSound ==
  ASSUME NEW system, NEW run, NEW code, code # "none"
  PROVE  RunIsSound(system, run, Agent!Over(code, {}, {}))
BY DEF Agent!Over, RunIsSound, OnlyTheRouteRuns

\* The terminal audit keeps what was sound, and withholds an answer that it does not hold.
LEMMA OrchestrationIsSound ==
  ASSUME NEW system, NEW run,
         Agent!ValidRegistry(system.registry), Agent!ValidAnswer(run.answer),
         Agent!Models!ValidPrivacy(system.privacy), run.now \in Int
  PROVE  LET out == Agent!Orchestrate(system, run)
         IN /\ OnlyTheRouteRuns(system, run, out)
            /\ OnlyTheCoveredLeaves(system, run, out)
            /\ OnlyTheScopeIsGiven(run, out)
            /\ AnswersRestOnEvidence(run, out)
<1> DEFINE refused == Agent!BeforeTheModel(system, run)
           turn == Agent!Turn(system, run, "no_tools", <<>>)
           response == Agent!Ask(system, run, turn, run.first)
           over == IF refused # "none" THEN Agent!Over(refused, {}, {})
                   ELSE IF Agent!General(run)
                   THEN Agent!Finish(system, run, response, {}, {}, {turn})
                   ELSE Agent!Exact(system, run)
           told == [over EXCEPT !.turns = Agent!Sent(system, run, @)]
           out == Agent!Orchestrate(system, run)
<1>1. out = IF run.audited THEN told ELSE [told EXCEPT !.code = "AUDIT_UNAVAILABLE", !.citations = <<>>]
  BY DEF Agent!Orchestrate
<1>2. RunIsSound(system, run, over)
  <2>1. CASE refused # "none"
    <3>1. RunIsSound(system, run, Agent!Over(refused, {}, {}))
      BY <2>1, RefusedRunIsSound
    <3> QED
      BY <2>1, <3>1
  <2>2. CASE refused = "none" /\ Agent!General(run)
    <3>1. RunIsSound(system, run, Agent!Finish(system, run, response, {}, {}, {turn}))
      BY <2>2, GeneralRunIsSound DEF Agent!General, OnGeneralRoute
    <3> QED
      BY <2>2, <3>1
  <2>3. CASE refused = "none" /\ ~Agent!General(run)
    <3>1. RunIsSound(system, run, Agent!Exact(system, run))
      BY <2>3, ExactRunIsSound DEF Agent!General, OnGeneralRoute
    <3> QED
      BY <2>3, <3>1
  <2> QED
    BY <2>1, <2>2, <2>3
<1> HIDE DEF over
<1>3. over = [code |-> over.code, ran |-> over.ran, turns |-> over.turns, citations |-> over.citations]
  BY <1>2 DEF RunIsSound
<1>4. /\ out.ran = over.ran
      /\ out.turns = Agent!Sent(system, run, over.turns)
      /\ out.code = "none" => run.audited /\ over.code = "none" /\ out.citations = over.citations
  BY <1>1, <1>3
<1> HIDE DEF out
<1>5. OnlyTheRouteRuns(system, run, out)
  BY <1>2, <1>4 DEF RunIsSound, OnlyTheRouteRuns
<1>6. \A t \in out.turns :
        /\ t \in over.turns /\ TurnIsSound(system, run, t)
        /\ Agent!Models!Sends(run.provider, t, system.privacy, run.now) # {}
  BY <1>2, <1>4 DEF RunIsSound, Agent!Sent
<1>7. OnlyTheCoveredLeaves(system, run, out)
  <2> SUFFICES ASSUME NEW t \in out.turns
               PROVE  /\ \A u \in t.tools : u.name = run.route.tool /\ t.interactions = <<>>
                                            /\ MayUse(system, run)
                      /\ run.provider = "openai" => Covered(system, run, t.classification)
    BY DEF OnlyTheCoveredLeaves
  <2>1. TurnIsSound(system, run, t)
    BY <1>6
  <2>2. run.provider = "openai" => Covered(system, run, t.classification)
    BY <1>6, <2>1, SentIsCovered DEF TurnIsSound
  <2> QED
    BY <2>1, <2>2 DEF TurnIsSound
<1>8. OnlyTheScopeIsGiven(run, out)
  <2> SUFFICES ASSUME NEW match \in Given(out.turns)
               PROVE  /\ InScope(match, run.context)
                      /\ \A t \in out.turns : match.classification <= t.classification
    BY DEF OnlyTheScopeIsGiven
  <2>1. PICK t \in out.turns : \E i \in Range(t.interactions) :
          i.result.tool = "search_hr_knowledge" /\ match \in Range(i.result.content)
    BY DEF Given
  <2>2. /\ InScope(match, run.context)
        /\ match.classification \in Int /\ match.classification <= Agent!Restricted
    BY <1>6, <2>1 DEF TurnIsSound
  <2>3. Agent!Ceiling(system, run) \in Int /\ Agent!Restricted <= Agent!Ceiling(system, run)
    BY CeilingIsRestricted
  <2>4. \A u \in out.turns : u.classification = Agent!Ceiling(system, run)
    BY <1>6 DEF TurnIsSound
  <2> QED
    BY <2>2, <2>3, <2>4 DEF Agent!Restricted
<1>9. AnswersRestOnEvidence(run, out)
  <2> SUFFICES ASSUME out.code = "none"
               PROVE  /\ run.audited /\ (OnGeneralRoute(run) \/ run.tool_audited)
                      /\ IF OnGeneralRoute(run) THEN out.ran = {} /\ out.citations = <<>>
                         ELSE /\ out.ran # {}
                              /\ Range(out.citations) \subseteq {match.citation : match \in Given(out.turns)}
                              /\ out.citations # <<>> <=> run.route.tool = "search_hr_knowledge"
    BY DEF AnswersRestOnEvidence
  <2>1. run.audited /\ over.code = "none" /\ out.citations = over.citations
    BY <1>4
  <2>2. CASE OnGeneralRoute(run)
    BY <1>2, <1>4, <2>1, <2>2 DEF RunIsSound
  <2>3. CASE ~OnGeneralRoute(run)
    <3>1. /\ run.tool_audited /\ over.ran # {}
          /\ over.citations # <<>> <=> run.route.tool = "search_hr_knowledge"
          /\ over.citations # <<>> =>
               \E t \in over.turns : IsSource(system, run, t, over.citations)
      BY <1>2, <2>1, <2>3 DEF RunIsSound
    <3>2. CASE over.citations = <<>>
      <4>1. Range(out.citations) = {}
        BY <2>1, <3>2 DEF Range
      <4> QED
        BY <1>4, <2>1, <2>3, <3>1, <4>1
    <3>3. CASE over.citations # <<>>
      <4>1. PICK t \in over.turns : IsSource(system, run, t, over.citations)
        BY <3>1, <3>3
      <4>2. t \in out.turns
        BY <1>4, <4>1 DEF IsSource, Agent!Sent
      <4>3. PICK i \in Range(t.interactions) :
              /\ i.result.tool = "search_hr_knowledge"
              /\ Range(over.citations) \subseteq {match.citation : match \in Range(i.result.content)}
        BY <4>1 DEF IsSource
      <4>4. Range(i.result.content) \subseteq Given(out.turns)
        BY <4>2, <4>3 DEF Given
      <4>5. Range(out.citations) \subseteq {match.citation : match \in Given(out.turns)}
        BY <2>1, <4>3, <4>4
      <4> QED
        BY <1>4, <2>1, <2>3, <3>1, <4>5
    <3> QED
      BY <3>2, <3>3
  <2> QED
    BY <2>2, <2>3
<1> QED
  BY <1>5, <1>7, <1>8, <1>9 DEF out

\* Whatever model, ERP and knowledge provider return, what runs, what leaves, what is shown
\* and what is answered is what the user is entitled to: for any registry of tools with
\* unique names, any handlers, privacy routes and attestations, and any answers.
THEOREM GroundedAnswers == Spec => []AnswersAreGrounded
<1>1. Recorded => AnswersAreGrounded
  <2> SUFFICES ASSUME Recorded, case.of = "converse"
               PROVE  AnswersAreGrounded
    BY DEF AnswersAreGrounded
  <2>1. case.in \in Conversations /\ case.out = Agent!Orchestrate(case.in.system, case.in.run)
    BY DEF Recorded
  <2>2. /\ Agent!ValidRegistry(case.in.system.registry) /\ Agent!ValidAnswer(case.in.run.answer)
        /\ Agent!Models!ValidPrivacy(case.in.system.privacy) /\ case.in.run.now \in Int
    BY <2>1, ArgumentAssumption
  <2> QED
    BY <2>1, <2>2, OrchestrationIsSound DEF AnswersAreGrounded
<1> QED
  BY <1>1, CallsAreRecorded, PTL

-----------------------------------------------------------------------------
(* Legitimate runs *)

\* Nor does a sequence of checks of which none fails yield a code.
LEMMA NoFailure ==
  ASSUME NEW checks, \A i \in DOMAIN checks : ~checks[i].fails
  PROVE  Agent!FirstFailure(checks) = "none"
BY DEF Agent!FirstFailure

LEMMA SameAgentCounting ==
  ASSUME NEW S
  PROVE  /\ Agent!Cardinality(S) = Cardinality(S)
         /\ Agent!Models!Cardinality(S) = Cardinality(S)
<1>1. Agent!Cardinality(S) = Cardinality(S)
  BY Zenon DEF Agent!Cardinality, Cardinality
<1>2. Agent!Models!Cardinality(S) = Cardinality(S)
  BY Zenon DEF Agent!Models!Cardinality, Cardinality
<1> QED
  BY <1>1, <1>2

\* No more tools are in the catalog than handlers are installed.
LEMMA CatalogIsSmall ==
  ASSUME NEW system, NEW context,
         Agent!ValidRegistry(system.registry), IsFiniteSet(system.handlers)
  PROVE  /\ Cardinality(Agent!Catalog(system, context)) \in Nat
         /\ Cardinality(system.handlers) \in Nat
         /\ Cardinality(Agent!Catalog(system, context)) <= Cardinality(system.handlers)
<1> DEFINE catalog == Agent!Catalog(system, context)
           handlers == system.handlers
           f == [t \in catalog |-> CHOOSE h \in handlers : h.name = t.name]
<1>1. \A t \in catalog : f[t] \in handlers /\ f[t].name = t.name
  BY DEF Agent!Catalog
<1>2. \A s, t \in catalog : s.name = t.name => s = t
  BY DEF Agent!Catalog, Agent!Entitled, Agent!Descriptors, Agent!ValidRegistry
<1>3. f \in [catalog -> handlers]
  BY <1>1
<1>4. \A s, t \in catalog : f[s] = f[t] => s = t
  BY <1>1, <1>2
<1> HIDE DEF catalog, f, handlers
<1>5. f \in Injection(catalog, handlers)
  BY <1>3, <1>4 DEF Injection, IsInjective
<1>6. IsFiniteSet(catalog) /\ Cardinality(catalog) <= Cardinality(handlers)
  BY <1>5, FS_Injection DEF handlers
<1>7. Cardinality(catalog) \in Nat /\ Cardinality(handlers) \in Nat
  BY <1>6, FS_CardinalityType DEF handlers
<1> QED
  BY <1>6, <1>7 DEF catalog, handlers

\* The tool of the route is the only one of its name, and in the catalog of every user who
\* may use it.
LEMMA RoutedTool ==
  ASSUME NEW system, NEW run, ~OnGeneralRoute(run), MayUse(system, run),
         Agent!ValidRegistry(system.registry),
         Agent!ValidHandlers(system.handlers, system.registry),
         Agent!ValidRoute(run.route, system)
  PROVE  \E tool : /\ Agent!Routed(system, run) = {tool}
                   /\ tool.name = run.route.tool /\ tool.version = run.route.version
                   /\ \A t \in Agent!Descriptors(system.registry) :
                        t.name = run.route.tool => t.operation = "read"
<1>0. PICK m \in system.registry : \E t \in m.tools :
        /\ t.name = run.route.tool /\ t.version = run.route.version
        /\ m.modules \subseteq run.context.modules /\ t.permissions \subseteq run.context.permissions
        /\ t.roles # {} => t.roles \cap run.context.roles # {}
        /\ run.context.purpose \in t.purposes
        /\ t.employee => run.context.employee # "none"
  BY DEF MayUse
<1>1. PICK tool \in m.tools :
        /\ tool.name = run.route.tool /\ tool.version = run.route.version
        /\ m.modules \subseteq run.context.modules
        /\ tool.permissions \subseteq run.context.permissions
        /\ tool.roles # {} => tool.roles \cap run.context.roles # {}
        /\ run.context.purpose \in tool.purposes
        /\ tool.employee => run.context.employee # "none"
  BY <1>0
<1>2. tool \in Agent!Descriptors(system.registry)
  BY <1>1 DEF Agent!Descriptors
<1>3. \A t \in Agent!Descriptors(system.registry) : t.name = run.route.tool => t = tool
  BY <1>1 DEF Agent!Descriptors, Agent!ValidRegistry
<1>4. tool.operation = "read"
  BY <1>3 DEF Agent!ValidRoute, OnGeneralRoute
<1>5. tool \in Agent!Entitled(system.registry, run.context)
  BY <1>1, <1>2, <1>4 DEF Agent!Entitled, Agent!Allowed
<1>6. \E h \in system.handlers : h.name = tool.name
  BY <1>1 DEF Agent!ValidRoute, OnGeneralRoute
<1>7. tool \in Agent!Routed(system, run)
  BY <1>1, <1>5, <1>6 DEF Agent!Routed, Agent!Catalog
<1>8. \A t \in Agent!Routed(system, run) : t = tool
  BY <1>3 DEF Agent!Routed, Agent!Catalog, Agent!Entitled
<1>9. Agent!Routed(system, run) = {tool}
  BY <1>7, <1>8
<1> QED
  BY <1>1, <1>3, <1>4, <1>9

\* What a turn of the run declares, and the coverage of it for OpenAI.
IsTurnOf(system, run, turn) ==
  /\ turn.customer = run.context.customer /\ turn.purpose = run.context.purpose
  /\ turn.classification = Agent!Ceiling(system, run) /\ turn.size = run.message
  /\ Agent!Models!ValidTurn(turn)

IsCovered(system, run) ==
  run.provider = "openai" => Covered(system, run, Agent!Ceiling(system, run))

\* A turn that is covered and small enough is sent.
LEMMA TurnIsSent ==
  ASSUME NEW system, NEW run, NEW turn, IsTurnOf(system, run, turn),
         IsCovered(system, run), LimitsLeaveRoom(system, run),
         Agent!Models!ValidPrivacy(system.privacy),
         run.provider \in {"openai", "openrouter", "other"}, run.now \in Int
  PROVE  Agent!Models!Sends(run.provider, turn, system.privacy, run.now) # {}
<1> DEFINE sends == Agent!Models!Sends(run.provider, turn, system.privacy, run.now)
<1>1. CASE run.provider = "openai"
  <2>1. PICK r \in system.privacy.routes, a \in system.privacy.attestations :
          /\ r.customer = run.context.customer /\ r.attestation = a.id
          /\ turn.classification \in r.classifications \cap a.classifications
          /\ run.context.purpose \in r.purposes \cap a.purposes
          /\ run.now \in a.approved..(a.expires - 1) /\ a.expires <= a.approved + r.lifetime
    BY <1>1 DEF IsCovered, Covered, IsTurnOf
  <2>2. turn.classification # Agent!Models!HighlyRestricted
    BY <2>1 DEF Agent!Models!ValidPrivacy
  <2>3. a.approved \in Int /\ a.expires \in Int /\ r.lifetime \in Nat
    BY <2>1 DEF Agent!Models!ValidPrivacy
  <2>4. a.approved <= run.now /\ run.now < a.expires /\ a.expires - a.approved <= r.lifetime
    BY <2>1, <2>3
  <2>5. r \in Agent!Models!Approved(system.privacy, turn, run.now)
    BY <2>1, <2>2, <2>4 DEF Agent!Models!Approved, IsTurnOf
  <2>6. turn.size <= r.input
    BY <2>1 DEF LimitsLeaveRoom, IsTurnOf
  <2>7. sends = {q \in Agent!Models!Approved(system.privacy, turn, run.now) : turn.size <= q.input}
    BY <1>1 DEF Agent!Models!Sends, IsTurnOf
  <2> QED
    BY <2>5, <2>6, <2>7
<1>2. CASE run.provider = "openrouter"
  <2>1. turn.size <= system.privacy.request
    BY DEF LimitsLeaveRoom, IsTurnOf
  <2> QED
    BY <1>2, <2>1 DEF Agent!Models!Sends, IsTurnOf
<1>3. CASE run.provider = "other"
  BY <1>3 DEF Agent!Models!Sends, IsTurnOf
<1> QED
  BY <1>1, <1>2, <1>3

\* The call the model makes is what the run receives.
LEMMA CallArrives ==
  ASSUME NEW system, NEW run, ~OnGeneralRoute(run), NEW tool,
         Agent!Routed(system, run) = {tool}, tool.name = run.route.tool,
         tool.version = run.route.version,
         IsCovered(system, run), LimitsLeaveRoom(system, run),
         Agent!Models!ValidPrivacy(system.privacy),
         run.provider \in {"openai", "openrouter", "other"}, run.now \in Int,
         MakesTheCall(system, run, run.first)
  PROVE  LET turn == Agent!Turn(system, run, "required_exact_tool", <<>>)
         IN Agent!Ask(system, run, turn, run.first) = run.first.calls[1]
<1> DEFINE turn == Agent!Turn(system, run, "required_exact_tool", <<>>)
           wire == run.first
           call == wire.calls[1]
           limit == system.privacy.response
<1>1. /\ turn.customer = run.context.customer /\ turn.purpose = run.context.purpose
      /\ turn.classification = Agent!Ceiling(system, run) /\ turn.size = run.message
      /\ turn.selection = "required_exact_tool" /\ turn.interactions = <<>>
      /\ turn.tools = {tool} /\ turn.tool = tool.name /\ turn.version = tool.version
  BY DEF Agent!Turn
<1> HIDE DEF turn
<1>2. Agent!Models!Cardinality({tool}) = 1
  BY SameAgentCounting, FS_Singleton
<1>3. IsTurnOf(system, run, turn)
  BY <1>1, <1>2 DEF IsTurnOf, Agent!Models!ValidTurn
<1>4. Agent!Models!Sends(run.provider, turn, system.privacy, run.now) # {}
  BY <1>3, TurnIsSent
<1>5. /\ wire.code = 200 /\ wire.type = "json" /\ wire.size <= limit
      /\ wire.model = "configured" /\ wire.status = "completed"
      /\ wire.finals = <<>>
      /\ call.arguments \in {"fine", "long"}
  BY DEF MakesTheCall, Delivered
<1>6. /\ wire.calls = <<call>>
      /\ call = [kind |-> "call", id |-> call.id, tool |-> run.route.tool,
                 version |-> run.route.version, arguments |-> call.arguments]
  <2> DEFINE made == [kind |-> "call", id |-> call.id, tool |-> run.route.tool,
                      version |-> run.route.version, arguments |-> call.arguments]
  <2>1. wire.calls = <<made>>
    BY DEF MakesTheCall
  <2> HIDE DEF made
  <2>2. call = made
    BY <2>1
  <2> QED
    BY <2>1, <2>2 DEF made
<1> HIDE DEF call
<1>7. Agent!Models!Posted(wire, limit)
  BY <1>5 DEF Agent!Models!Posted
<1>8. Agent!Models!Parses(call.arguments) /\ Agent!Models!FitsSchema(call.arguments)
  BY <1>5 DEF Agent!Models!Parses, Agent!Models!FitsSchema, Agent!Models!Size
<1>9. call.tool = tool.name /\ [call EXCEPT !.version = tool.version] = call
  BY <1>6
<1>10. Agent!Models!Tool(turn) = tool
  BY <1>1 DEF Agent!Models!Tool
<1>11. wire.calls # <<>> /\ wire.calls[1] = call /\ Len(wire.calls) = 1
       /\ Len(wire.calls \o wire.finals) = 1
  BY <1>5, <1>6
<1> HIDE DEF wire, limit
<1>12. Agent!Models!ParseOpenAI(wire, turn, limit) = call
  BY <1>1, <1>5, <1>8, <1>9, <1>10, <1>11 DEF Agent!Models!ParseOpenAI, Agent!Models!ParseCall
<1>13. Agent!Models!ParseOpenRouter(wire, turn, limit) = call
  <2>1. Agent!Models!ParseRouterCall(call, turn) = call
    BY <1>1, <1>8, <1>9, <1>10 DEF Agent!Models!ParseRouterCall
  <2> QED
    BY <1>1, <1>5, <1>11, <2>1 DEF Agent!Models!ParseOpenRouter
<1>14. Agent!Models!Arbitrary(wire) = call
  BY <1>5, <1>8, <1>11 DEF Agent!Models!Arbitrary
<1>15. Agent!Ask(system, run, turn, wire) = call
  BY <1>4, <1>7, <1>12, <1>13, <1>14 DEF Agent!Ask, Agent!Models!Complete, limit
<1> QED
  BY <1>15 DEF turn, wire, call

\* The final answer of the model is what the run receives.
LEMMA FinalArrives ==
  ASSUME NEW system, NEW run, NEW turn, NEW wire, NEW basis, NEW evidence,
         IsTurnOf(system, run, turn), turn.selection \in {"no_tools", "final_only"},
         IsCovered(system, run), LimitsLeaveRoom(system, run),
         Agent!Models!ValidPrivacy(system.privacy),
         run.provider \in {"openai", "openrouter", "other"}, run.now \in Int,
         Concludes(system, wire, basis, evidence)
  PROVE  Agent!Ask(system, run, turn, wire) = wire.finals[1]
<1> DEFINE final == wire.finals[1]
           limit == system.privacy.response
<1>1. Agent!Models!Sends(run.provider, turn, system.privacy, run.now) # {}
  BY TurnIsSent
<1>2. /\ wire.code = 200 /\ wire.type = "json" /\ wire.size <= limit
      /\ wire.model = "configured" /\ wire.status = "completed"
      /\ wire.calls = <<>> /\ wire.finals = <<final>>
      /\ Agent!Models!ValidFinal(final) /\ final.size <= limit
  BY DEF Concludes, Delivered
<1> HIDE DEF final, limit
<1>3. Agent!Models!Posted(wire, limit)
  BY <1>2 DEF Agent!Models!Posted
<1>4. /\ wire.finals # <<>> /\ wire.finals[1] = final /\ Len(wire.finals) = 1
      /\ Len(wire.calls) = 0 /\ Len(wire.calls \o wire.finals) = 1
  BY <1>2
<1>5. Agent!Models!ParseFinal(wire.finals, limit) = final
  BY <1>2, <1>4 DEF Agent!Models!ParseFinal
<1>6. Agent!Models!ParseOpenAI(wire, turn, limit) = final
  BY <1>2, <1>4, <1>5 DEF Agent!Models!ParseOpenAI
<1>7. Agent!Models!ParseOpenRouter(wire, turn, limit) = final
  BY <1>2, <1>4, <1>5 DEF Agent!Models!ParseOpenRouter
<1>8. Agent!Models!Arbitrary(wire) = final
  BY <1>2, <1>4 DEF Agent!Models!Arbitrary
<1> QED
  BY <1>1, <1>3, <1>6, <1>7, <1>8 DEF Agent!Ask, Agent!Models!Complete, limit, final

\* A final answer within the limit, on the evidence of the calls and of the kind of the route.
AnswerIsFit(system, run, response, calls) ==
  /\ response.kind = "final" /\ Agent!Grounded(response, calls)
  /\ system.limits.answer \in Nat /\ response.size \in 0..system.limits.answer
  /\ IF Agent!General(run) THEN response.basis = "general"
     ELSE Agent!MatchesRoute(response, calls)

\* An answer within the limit that its evidence supports ends the run with success.
LEMMA FinishSucceeds ==
  ASSUME NEW system, NEW run, NEW response, NEW calls, NEW ran, NEW turns,
         AnswerIsFit(system, run, response, calls)
  PROVE  LET over == Agent!Finish(system, run, response, calls, ran, turns)
         IN over = [code |-> "none", ran |-> ran, turns |-> turns, citations |-> response.citations]
<1> DEFINE large == response.size > system.limits.answer
           unfounded == ~Agent!Grounded(response, calls)
           other == Agent!General(run) /\ response.basis # "general"
           astray == ~Agent!General(run) /\ ~Agent!MatchesRoute(response, calls)
           checks == <<Agent!Check(large, "AGENT_LIMIT_REACHED"),
                       Agent!Check(unfounded, "INVALID_MODEL_RESPONSE"),
                       Agent!Check(other, "INVALID_MODEL_RESPONSE"),
                       Agent!Check(astray, "INVALID_MODEL_RESPONSE")>>
           code == Agent!FirstFailure(checks)
           over == Agent!Finish(system, run, response, calls, ran, turns)
<1> USE DEF AnswerIsFit
<1>1. over = [Agent!Over(code, ran, turns) EXCEPT
                !.citations = IF code = "none" THEN response.citations ELSE <<>>]
  BY DEF Agent!Finish
<1>2. ~large /\ ~unfounded /\ ~other /\ ~astray
  OBVIOUS
<1> HIDE DEF large, unfounded, other, astray
<1>3. \A i \in DOMAIN checks : ~checks[i].fails
  BY <1>2 DEF Agent!Check
<1> HIDE DEF checks
<1>4. code = "none"
  BY <1>3, NoFailure
<1> HIDE DEF code, over
<1>5. over = [code |-> "none", ran |-> ran, turns |-> turns, citations |-> response.citations]
  BY <1>1, <1>4 DEF Agent!Over
<1> QED
  BY <1>5 DEF over

LEMMA RunMayStart ==
  ASSUME NEW system, NEW run,
         Agent!ValidRegistry(system.registry), Agent!ValidLimits(system.limits),
         run.message \in Nat, LimitsLeaveRoom(system, run),
         OnGeneralRoute(run) \/ Agent!Routed(system, run) # {}
  PROVE  Agent!BeforeTheModel(system, run) = "none"
<1> DEFINE long == run.message > system.limits.message
           many == Agent!Cardinality(Agent!Catalog(system, run.context)) > system.limits.tools
           unknown == ~Agent!General(run) /\ Agent!Routed(system, run) = {}
           short == ~Agent!General(run) /\ (system.limits.calls < 1 \/ system.limits.turns < 2)
           checks == <<Agent!Check(long, "AGENT_LIMIT_REACHED"),
                       Agent!Check(many, "AGENT_CATALOG_LIMIT"),
                       Agent!Check(unknown, "INVALID_MODEL_RESPONSE"),
                       Agent!Check(short, "AGENT_LIMIT_REACHED")>>
<1>1. Agent!BeforeTheModel(system, run) = Agent!FirstFailure(checks)
  BY DEF Agent!BeforeTheModel
<1>2. /\ system.limits.message \in Nat /\ system.limits.tools \in Nat
      /\ system.limits.calls \in Nat /\ system.limits.turns \in Nat
  BY DEF Agent!ValidLimits
<1>3. ~long
  BY <1>2 DEF LimitsLeaveRoom
<1>4. ~many
  <2>1. /\ Cardinality(Agent!Catalog(system, run.context)) \in Nat
        /\ Cardinality(system.handlers) \in Nat
        /\ Cardinality(Agent!Catalog(system, run.context)) <= Cardinality(system.handlers)
    BY CatalogIsSmall DEF LimitsLeaveRoom
  <2>2. Agent!Cardinality(Agent!Catalog(system, run.context))
          = Cardinality(Agent!Catalog(system, run.context))
    BY SameAgentCounting
  <2> QED
    BY <1>2, <2>1, <2>2 DEF LimitsLeaveRoom
<1>5. ~unknown /\ ~short
  BY <1>2 DEF LimitsLeaveRoom, OnGeneralRoute, Agent!General
<1> HIDE DEF long, many, unknown, short
<1>6. \A i \in DOMAIN checks : ~checks[i].fails
  BY <1>3, <1>4, <1>5 DEF Agent!Check
<1> HIDE DEF checks
<1> QED
  BY <1>1, <1>6, NoFailure

\* A call of the tool of the route, by a user who may use it, of a provider that answers.
CallIsFit(system, run, call) ==
  /\ Agent!Routed(system, run) # {}
  /\ \A t \in Agent!Descriptors(system.registry) :
       t.name = run.route.tool => t.operation = "read"
  /\ Agent!ValidLimits(system.limits) /\ LimitsLeaveRoom(system, run)
  /\ Len(run.answer.content) \in Nat
  /\ call.kind = "call" /\ call.tool = run.route.tool /\ call.version = run.route.version
  /\ call.arguments \in {"fine", "long"}
  /\ Agent!Models!Size(call.arguments) <= system.limits.argument
  /\ run.tool_audited /\ run.answer.status = "answered"
  /\ call.tool = Agent!KnowledgeTool => Agent!ValidMatches(run.answer.content, run.context)

\* The call of the route passes, and so does the gateway's result of it.
LEMMA CallSucceeds ==
  ASSUME NEW system, NEW run, NEW call, CallIsFit(system, run, call)
  PROVE  LET gateway == Agent!Gateway(system, run.context, call, run.answer, run.tool_audited)
         IN /\ Agent!CallFailure(system, run, call) = "none"
            /\ gateway = [code |-> "none", ran |-> TRUE,
                          result |-> [tool |-> call.tool, version |-> call.version,
                                      content |-> run.answer.content]]
            /\ Agent!ResultFailure(system, gateway) = "none"
<1> DEFINE gateway == Agent!Gateway(system, run.context, call, run.answer, run.tool_audited)
           result == [tool |-> call.tool, version |-> call.version, content |-> run.answer.content]
<1> USE DEF CallIsFit
<1>0. /\ system.limits.argument \in Nat /\ system.limits.result \in Nat
      /\ Agent!Models!Size(call.arguments) \in Nat
      /\ Agent!Models!Parses(call.arguments)
  BY DEF Agent!ValidLimits, Agent!Models!Size, Agent!Models!Parses
<1>1. Agent!CallFailure(system, run, call) = "none"
  <2> DEFINE garbled == ~Agent!Models!Parses(call.arguments)
             other == call.tool # run.route.tool \/ call.version # run.route.version
             large == Agent!Models!Size(call.arguments) > system.limits.argument
             checks == <<Agent!Check(garbled, "INVALID_MODEL_RESPONSE"),
                         Agent!Check(other, "INVALID_MODEL_RESPONSE"),
                         Agent!Check(large, "AGENT_LIMIT_REACHED")>>
  <2>1. Agent!CallFailure(system, run, call) = Agent!FirstFailure(checks)
    BY DEF Agent!CallFailure
  <2>2. ~garbled /\ ~other /\ ~large
    BY <1>0
  <2> HIDE DEF garbled, other, large
  <2>3. \A i \in DOMAIN checks : ~checks[i].fails
    BY <2>2 DEF Agent!Check
  <2> HIDE DEF checks
  <2> QED
    BY <2>1, <2>3, NoFailure
<1>2. gateway = [code |-> "none", ran |-> TRUE, result |-> result]
  <2> DEFINE usable == {t \in Agent!Catalog(system, run.context) :
                          t.name = call.tool /\ t.version = call.version}
             command == \E t \in {u \in Agent!Descriptors(system.registry) : u.name = call.tool} :
                          t.operation = "command"
             none == usable = {}
             reserved == call.arguments = "reserved"
             unfit == call.arguments \notin {"fine", "long"}
             checks == <<Agent!Check(command, "READ_ONLY_VIOLATION"),
                         Agent!Check(none, "TOOL_UNAVAILABLE"),
                         Agent!Check(reserved, "INVALID_TOOL_ARGUMENTS"),
                         Agent!Check(unfit, "INVALID_TOOL_ARGUMENTS")>>
             refusal == Agent!FirstFailure(checks)
             handled == Agent!Handle(call.tool, run.context, run.answer)
             code == IF refusal # "none" THEN refusal
                     ELSE CASE handled = "answered" -> "none"
                            [] handled = "junk" -> "INVALID_TOOL_OUTPUT"
                            [] OTHER -> "TOOL_EXECUTION_FAILED"
  <2>1. gateway = [code |-> IF run.tool_audited THEN code ELSE "AUDIT_UNAVAILABLE",
                   ran |-> refusal = "none", result |-> result]
    BY DEF Agent!Gateway
  <2>2. ~command /\ ~reserved /\ ~unfit
    OBVIOUS
  <2>3. ~none
    BY DEF Agent!Routed
  <2> HIDE DEF command, none, reserved, unfit
  <2>4. \A i \in DOMAIN checks : ~checks[i].fails
    BY <2>2, <2>3 DEF Agent!Check
  <2> HIDE DEF checks
  <2>5. refusal = "none"
    BY <2>4, NoFailure
  <2>6. handled = "answered"
    BY DEF Agent!Handle
  <2> HIDE DEF refusal, handled
  <2>7. code = "none"
    BY <2>5, <2>6
  <2> HIDE DEF code, result, gateway
  <2> QED
    BY <2>1, <2>5, <2>7
<1> HIDE DEF gateway
<1>3. gateway.code = "none" /\ gateway.result.content = run.answer.content
  BY <1>2
<1>4. Agent!ResultFailure(system, gateway) = "none"
  <2> DEFINE unaudited == gateway.code = "AUDIT_UNAVAILABLE"
             failed == gateway.code # "none"
             large == Len(gateway.result.content) > system.limits.result
             checks == <<Agent!Check(unaudited, "AUDIT_UNAVAILABLE"),
                         Agent!Check(failed, "AGENT_UNAVAILABLE"),
                         Agent!Check(large, "AGENT_LIMIT_REACHED")>>
  <2>1. Agent!ResultFailure(system, gateway) = Agent!FirstFailure(checks)
    BY DEF Agent!ResultFailure
  <2>2. ~unaudited /\ ~failed /\ ~large
    BY <1>0, <1>3 DEF LimitsLeaveRoom
  <2> HIDE DEF unaudited, failed, large
  <2>3. \A i \in DOMAIN checks : ~checks[i].fails
    BY <2>2 DEF Agent!Check
  <2> HIDE DEF checks
  <2> QED
    BY <2>1, <2>3, NoFailure
<1> QED
  BY <1>1, <1>2, <1>4 DEF gateway, result

\* What a conversation of the instance may be assumed to be.
IsConversation(system, run) ==
  /\ Agent!ValidRegistry(system.registry)
  /\ Agent!ValidHandlers(system.handlers, system.registry)
  /\ Agent!ValidRoute(run.route, system)
  /\ Agent!ValidLimits(system.limits)
  /\ Agent!Models!ValidPrivacy(system.privacy)
  /\ Agent!ValidAnswer(run.answer)
  /\ run.provider \in {"openai", "openrouter", "other"}
  /\ run.message \in Nat /\ run.now \in Int

Succeeds(over) ==
  \E ran, turns, citations :
    over = [code |-> "none", ran |-> ran, turns |-> turns, citations |-> citations]

LEMMA GeneralRunSucceeds ==
  ASSUME NEW system, NEW run, IsConversation(system, run), OnGeneralRoute(run),
         EverybodyDoesTheirPart(system, run), IsCovered(system, run)
  PROVE  LET turn == Agent!Turn(system, run, "no_tools", <<>>)
             response == Agent!Ask(system, run, turn, run.first)
         IN Succeeds(Agent!Finish(system, run, response, {}, {}, {turn}))
<1> DEFINE turn == Agent!Turn(system, run, "no_tools", <<>>)
           final == run.first.finals[1]
<1>1. /\ LimitsLeaveRoom(system, run) /\ Concludes(system, run.first, "general", <<>>)
      /\ final.citations = <<>>
  BY DEF EverybodyDoesTheirPart
<1>2. IsTurnOf(system, run, turn) /\ turn.selection = "no_tools"
  BY DEF Agent!Turn, IsTurnOf, Agent!Models!ValidTurn
<1> HIDE DEF turn
<1>3. Agent!Ask(system, run, turn, run.first) = final
  BY <1>1, <1>2, FinalArrives DEF IsConversation
<1>4. /\ final.kind = "final" /\ Agent!Models!ValidFinal(final) /\ final.basis = "general"
      /\ final.evidence = <<>> /\ final.size \in 0..system.limits.answer
  BY <1>1 DEF Concludes
<1> HIDE DEF final
<1>5. Agent!Grounded(final, {})
  <2>1. Agent!Range(final.evidence) = {} /\ Agent!Range(final.citations) = {}
    BY <1>1, <1>4 DEF Agent!Range
  <2> QED
    BY <1>1, <1>4, <2>1 DEF Agent!Grounded
<1>6. system.limits.answer \in Nat
  BY DEF IsConversation, Agent!ValidLimits
<1>7. AnswerIsFit(system, run, final, {})
  BY <1>4, <1>5, <1>6 DEF AnswerIsFit, OnGeneralRoute, Agent!General
<1>8. Agent!Finish(system, run, final, {}, {}, {turn})
        = [code |-> "none", ran |-> {}, turns |-> {turn}, citations |-> final.citations]
  BY <1>7, FinishSucceeds
<1>9. Succeeds(Agent!Finish(system, run, Agent!Ask(system, run, turn, run.first), {}, {}, {turn}))
  BY <1>3, <1>8 DEF Succeeds
<1> QED
  BY <1>9 DEF turn

LEMMA ExactRunSucceeds ==
  ASSUME NEW system, NEW run, IsConversation(system, run), ~OnGeneralRoute(run),
         MayUse(system, run), EverybodyDoesTheirPart(system, run), IsCovered(system, run)
  PROVE  Succeeds(Agent!Exact(system, run))
<1> DEFINE searches == run.route.tool = Agent!KnowledgeTool
           basis == IF searches THEN "knowledge" ELSE "erp_data"
           first == Agent!Turn(system, run, "required_exact_tool", <<>>)
           call == run.first.calls[1]
           result == [tool |-> call.tool, version |-> call.version, content |-> run.answer.content]
           gateway == [code |-> "none", ran |-> TRUE, result |-> result]
           last == Agent!Turn(system, run, "final_only", <<[call |-> call, result |-> result]>>)
           made == [id |-> call.id, knowledge |-> call.tool = Agent!KnowledgeTool,
                    citations |-> Agent!Citations(result)]
           final == run.second.finals[1]
<1>1. PICK tool : /\ Agent!Routed(system, run) = {tool}
                  /\ tool.name = run.route.tool /\ tool.version = run.route.version
                  /\ \A t \in Agent!Descriptors(system.registry) :
                       t.name = run.route.tool => t.operation = "read"
  BY RoutedTool DEF IsConversation
<1>2. /\ LimitsLeaveRoom(system, run) /\ run.tool_audited
      /\ MakesTheCall(system, run, run.first) /\ run.answer.status = "answered"
      /\ searches => Agent!ValidMatches(run.answer.content, run.context)
      /\ Concludes(system, run.second, basis, <<call.id>>)
      /\ final.citations # <<>> <=> searches
      /\ searches => Range(final.citations) \subseteq {m.citation : m \in Range(run.answer.content)}
  BY DEF EverybodyDoesTheirPart
<1>3. Agent!Ask(system, run, first, run.first) = call
  BY <1>1, <1>2, CallArrives DEF IsConversation
<1>4. /\ call.kind = "call" /\ call.tool = run.route.tool /\ call.version = run.route.version
      /\ call.arguments \in {"fine", "long"}
      /\ Agent!Models!Size(call.arguments) <= system.limits.argument
  BY <1>2 DEF MakesTheCall
<1> HIDE DEF call
<1>5. run.answer.content \in Seq(Agent!Range(run.answer.content))
      /\ Len(run.answer.content) \in Nat
  BY DEF IsConversation, Agent!ValidAnswer
<1>6. /\ Agent!CallFailure(system, run, call) = "none"
      /\ Agent!Gateway(system, run.context, call, run.answer, run.tool_audited) = gateway
      /\ Agent!ResultFailure(system, gateway) = "none"
  <2>1. Agent!Routed(system, run) # {} /\ Agent!ValidLimits(system.limits)
    BY <1>1 DEF IsConversation
  <2>2. call.tool = Agent!KnowledgeTool => Agent!ValidMatches(run.answer.content, run.context)
    BY <1>2, <1>4
  <2> DEFINE passed == Agent!Gateway(system, run.context, call, run.answer, run.tool_audited)
  <2>3. /\ Agent!CallFailure(system, run, call) = "none"
        /\ passed = gateway
        /\ Agent!ResultFailure(system, passed) = "none"
    <3>1. CallIsFit(system, run, call)
      BY <1>1, <1>2, <1>4, <1>5, <2>1, <2>2 DEF CallIsFit
    <3> QED
      BY <3>1, CallSucceeds
  <2> HIDE DEF passed, gateway
  <2> QED
    BY <2>3 DEF passed
<1>7. /\ IsTurnOf(system, run, last) /\ last.selection = "final_only"
  <2>1. Agent!Models!Parses(call.arguments)
    BY <1>4 DEF Agent!Models!Parses, Agent!Models!Size
  <2>2. result.tool = call.tool /\ result.version = call.version
    OBVIOUS
  <2> HIDE DEF result
  <2> QED
    BY <2>1, <2>2 DEF Agent!Turn, IsTurnOf, Agent!Models!ValidTurn
<1>8. Agent!Ask(system, run, last, run.second) = final
  <2> HIDE DEF last, final
  <2> QED
    BY <1>2, <1>7, FinalArrives DEF IsConversation, final
<1>9. /\ final.kind = "final" /\ Agent!Models!ValidFinal(final) /\ final.basis = basis
      /\ final.evidence = <<call.id>> /\ final.size \in 0..system.limits.answer
  BY <1>2 DEF Concludes
<1> HIDE DEF final
<1>10. made.id = call.id /\ made.knowledge = searches /\ made.citations = Agent!Citations(result)
  BY <1>4
<1>11. searches => Agent!Range(final.citations) \subseteq made.citations
  <2>1. DOMAIN run.answer.content = 1..Len(run.answer.content)
    BY <1>5
  <2>2. searches => made.citations = {m.citation : m \in Range(run.answer.content)}
    BY <1>4, <1>10, <2>1 DEF Agent!Citations, Range
  <2>3. Agent!Range(final.citations) = Range(final.citations)
    BY DEF Agent!Range, Range
  <2> QED
    BY <1>2, <2>2, <2>3
<1> HIDE DEF made
<1>12. Agent!Range(final.evidence) = {made.id}
  BY <1>9, <1>10 DEF Agent!Range
<1>13. Agent!Grounded(final, {made}) /\ Agent!MatchesRoute(final, {made})
  <2> DEFINE selected == {c \in {made} : c.id \in Agent!Range(final.evidence)}
             knowledge == {c \in selected : c.knowledge}
             citable == UNION {c.citations : c \in knowledge}
  <2>1. selected = {made} /\ knowledge = IF searches THEN {made} ELSE {}
    BY <1>10, <1>12
  <2>2. Agent!MatchesRoute(final, {made})
    BY <1>9, <1>10 DEF Agent!MatchesRoute
  <2>3. Agent!Range(final.evidence) \subseteq {c.id : c \in {made}}
    BY <1>12
  <2>4. Agent!Range(final.citations) \subseteq citable
    <3>1. CASE searches
      BY <1>11, <2>1, <3>1
    <3>2. CASE ~searches
      BY <1>2, <3>2 DEF Agent!Range
    <3> QED
      BY <3>1, <3>2
  <2>5. \/ searches /\ final.basis = "knowledge" /\ knowledge = selected
        \/ ~searches /\ final.basis = "erp_data" /\ knowledge = {}
    BY <1>9, <2>1
  <2>6. selected # {} /\ (final.citations # <<>> <=> searches)
    BY <1>2, <2>1
  <2>7. Agent!Grounded(final, {made})
    <3> HIDE DEF searches
    <3>1. Agent!Grounded(final, {made}) <=>
            /\ Agent!Models!ValidFinal(final)
            /\ Agent!Range(final.evidence) \subseteq {c.id : c \in {made}}
            /\ CASE final.basis = "general" ->
                      final.evidence = <<>> /\ final.citations = <<>> /\ {made} = {}
                 [] final.basis = "knowledge" ->
                      selected # {} /\ selected = knowledge /\ final.citations # <<>>
                 [] final.basis = "erp_data" ->
                      selected # {} /\ knowledge = {} /\ final.citations = <<>>
                 [] OTHER -> FALSE
            /\ Agent!Range(final.citations) \subseteq citable
      BY DEF Agent!Grounded
    <3> HIDE DEF selected, knowledge, citable
    <3> QED
      BY <1>9, <2>3, <2>4, <2>5, <2>6, <3>1
  <2> QED
    BY <2>2, <2>7
<1>14. system.limits.answer \in Nat
  BY DEF IsConversation, Agent!ValidLimits
<1> DEFINE ran == IF gateway.ran THEN {call.tool} ELSE {}
           over == Agent!Finish(system, run, final, {made}, ran, {first, last})
<1>15. Agent!Exact(system, run) = over
  <2> DEFINE asked == Agent!Ask(system, run, first, run.first)
             passed == Agent!Gateway(system, run.context, asked, run.answer, run.tool_audited)
             closing == Agent!Turn(system, run, "final_only",
                                   <<[call |-> asked, result |-> passed.result]>>)
             by == [id |-> asked.id, knowledge |-> asked.tool = Agent!KnowledgeTool,
                    citations |-> Agent!Citations(passed.result)]
             finish == Agent!Finish(system, run, Agent!Ask(system, run, closing, run.second), {by},
                                    IF passed.ran THEN {asked.tool} ELSE {}, {first, closing})
  <2>1. Agent!CallFailure(system, run, asked) = "none" /\ Agent!ResultFailure(system, passed) = "none"
          => Agent!Exact(system, run) = finish
    BY DEF Agent!Exact
  <2>2. asked = call
    BY <1>3
  <2>3. passed = gateway
    <3> HIDE DEF asked, gateway
    <3> QED
      BY <1>6, <2>2
  <2> HIDE DEF asked, passed, first
  <2>4. passed.result = result /\ passed.ran
    BY <2>3
  <2> HIDE DEF gateway, result
  <2>5. closing = last /\ by = made
    BY <2>2, <2>4 DEF made
  <2>6. (IF passed.ran THEN {asked.tool} ELSE {}) = ran
    BY <2>2, <2>3
  <2>7. Agent!CallFailure(system, run, asked) = "none" /\ Agent!ResultFailure(system, passed) = "none"
    BY <1>6, <2>2, <2>3
  <2> HIDE DEF closing, by, last, ran
  <2> QED
    BY <1>8, <2>1, <2>2, <2>5, <2>6, <2>7
<1>16. over = [code |-> "none", ran |-> ran, turns |-> {first, last}, citations |-> final.citations]
  <2> HIDE DEF first, last, ran
  <2>1. AnswerIsFit(system, run, final, {made})
    BY <1>9, <1>13, <1>14 DEF AnswerIsFit, OnGeneralRoute, Agent!General
  <2> QED
    BY <2>1, FinishSucceeds
<1> HIDE DEF over
<1> QED
  BY <1>15, <1>16 DEF Succeeds

\* A user who may use the tool of the route gets an answer if everybody else does their
\* part, and for OpenAI an attestation covers the classification of the tool: for any
\* registry, handlers, limits, routes and attestations.
THEOREM LegitimateRunsAreAnswered == Spec => []LegitimateRunsSucceed
<1>1. ASSUME NEW system, NEW run, IsConversation(system, run),
             EverybodyDoesTheirPart(system, run), IsCovered(system, run),
             OnGeneralRoute(run) \/ MayUse(system, run)
      PROVE  Agent!Orchestrate(system, run).code = "none"
  <2> DEFINE refused == Agent!BeforeTheModel(system, run)
             turn == Agent!Turn(system, run, "no_tools", <<>>)
             response == Agent!Ask(system, run, turn, run.first)
             over == IF refused # "none" THEN Agent!Over(refused, {}, {})
                     ELSE IF Agent!General(run)
                     THEN Agent!Finish(system, run, response, {}, {}, {turn})
                     ELSE Agent!Exact(system, run)
             out == Agent!Orchestrate(system, run)
  <2>1. run.audited /\ LimitsLeaveRoom(system, run)
    BY <1>1 DEF EverybodyDoesTheirPart
  <2>2. out = [over EXCEPT !.turns = Agent!Sent(system, run, @)]
    BY <2>1 DEF Agent!Orchestrate
  <2>3. refused = "none"
    <3>1. ~OnGeneralRoute(run) => Agent!Routed(system, run) # {}
      BY <1>1, RoutedTool DEF IsConversation
    <3> QED
      BY <1>1, <2>1, <3>1, RunMayStart DEF IsConversation
  <2>4. Succeeds(over)
    <3>1. CASE OnGeneralRoute(run)
      <4>1. Succeeds(Agent!Finish(system, run, response, {}, {}, {turn}))
        BY <1>1, <3>1, GeneralRunSucceeds
      <4> HIDE DEF response, turn
      <4> QED
        BY <2>3, <3>1, <4>1 DEF OnGeneralRoute, Agent!General
    <3>2. CASE ~OnGeneralRoute(run)
      <4>1. Succeeds(Agent!Exact(system, run))
        BY <1>1, <3>2, ExactRunSucceeds
      <4> HIDE DEF response, turn
      <4> QED
        BY <2>3, <3>2, <4>1 DEF OnGeneralRoute, Agent!General
    <3> QED
      BY <3>1, <3>2
  <2> HIDE DEF over
  <2> QED
    BY <2>2, <2>4 DEF Succeeds
<1>2. Recorded => LegitimateRunsSucceed
  <2> SUFFICES ASSUME Recorded, case.of = "converse", case.in \in Cooperative,
                      OnGeneralRoute(case.in.run) \/ MayUse(case.in.system, case.in.run),
                      case.in.run.provider = "openai" =>
                        Covered(case.in.system, case.in.run, Agent!Ceiling(case.in.system, case.in.run))
               PROVE  case.out.code = "none"
    BY DEF LegitimateRunsSucceed
  <2>1. case.in \in Conversations /\ case.out = Agent!Orchestrate(case.in.system, case.in.run)
    BY DEF Recorded
  <2>2. IsConversation(case.in.system, case.in.run)
    BY <2>1, ArgumentAssumption DEF IsConversation
  <2>3. EverybodyDoesTheirPart(case.in.system, case.in.run)
    BY CooperationAssumption
  <2> QED
    BY <1>1, <2>1, <2>2, <2>3 DEF IsCovered
<1> QED
  BY <1>2, CallsAreRecorded, PTL
================================================================================
