------------------------- MODULE RetrievalEvaluation -------------------------
(***************************************************************************)
(* Offline evaluation of retrieval (knowledge/evaluation): the metrics of  *)
(* a ranked answer, the choice of the semantic threshold, and the report   *)
(* over a suite of cases.                                                  *)
(*                                                                         *)
(* Qualities are integers in units of 1/Unit.  The discounts of NDCG are   *)
(* irrational and are rounded to that unit; every other quality of the     *)
(* instances is exact.                                                     *)
(***************************************************************************)
EXTENDS Integers, Sequences, FiniteSets, SequencesExt

Unit == 6000

Measures == {"precision", "recall", "mrr", "ndcg"}

ValidGates(gates) == gates \in [Measures -> 0..Unit]

SumOf(values) ==
  LET total[i \in 0..Len(values)] == IF i = 0 THEN 0 ELSE total[i - 1] + values[i]
  IN total[Len(values)]

\* Unit / log2(i + 1)
Discount == <<6000, 3786, 3000, 2584, 2321>>
\* 2^grade - 1
Gain(grade) == IF grade = 0 THEN 0 ELSE <<1, 3, 7>>[grade]

\* The grades of the relevant ids, 1..3.
ValidGrades(grades) == IsFiniteSet(DOMAIN grades) /\ grades \in [DOMAIN grades -> 1..3]

\* The i-th of the grades in descending order: so many grades have i ids or more.
Ideal(grades, i) ==
  Cardinality({g \in 1..3 : Cardinality({id \in DOMAIN grades : grades[id] >= g}) >= i})

\* retrieval_metrics: the first of the retrieved ids count.
Metrics(retrieved, grades, limit) ==
  LET shown == Min({limit, Len(retrieved)})
      grade(i) == IF retrieved[i] \in DOMAIN grades THEN grades[retrieved[i]] ELSE 0
      hits == {i \in 1..shown : grade(i) > 0}
      dcg == SumOf([i \in 1..shown |-> Gain(grade(i)) * Discount[i]])
      best == SumOf([i \in 1..Min({limit, Cardinality(DOMAIN grades)}) |->
                       Gain(Ideal(grades, i)) * Discount[i]])
  IN [precision |-> (Unit * Cardinality(hits)) \div limit,
      recall |-> IF grades = <<>> THEN 0 ELSE (Unit * Cardinality(hits)) \div Cardinality(DOMAIN grades),
      mrr |-> IF hits = {} THEN 0 ELSE Unit \div Min(hits),
      ndcg |-> IF best = 0 THEN 0 ELSE (Unit * dcg) \div best]

\* The mean of the values at some of the positions.
Mean(values, among) ==
  IF among = {} THEN 0
  ELSE SumOf([i \in 1..Len(values) |-> IF i \in among THEN values[i] ELSE 0]) \div Cardinality(among)

-----------------------------------------------------------------------------
(* The semantic threshold.  Scores and thresholds are the even numbers 0..Top, Top being  *)
(* 1.0; math.nextafter of a score is the odd number after it. *)

\* An observation is [empty, grades, limit, results], a result [id, score, violation].
ValidObservation(case, top) ==
  /\ case.limit \in 1..5 /\ ValidGrades(case.grades)
  /\ case.results \in Seq(Range(case.results))
  /\ \A r \in 1..Len(case.results) : case.results[r].score \in 0..top /\ case.results[r].score % 2 = 0
  /\ \A r, q \in 1..Len(case.results) : case.results[r].id = case.results[q].id => r = q

\* The results that reach the threshold, in their order.
Ascending(positions) == SetToSortSeq(positions, <)
Retained(case, threshold) ==
  LET kept == {r \in 1..Len(case.results) : case.results[r].score >= threshold}
  IN [i \in 1..Cardinality(kept) |-> case.results[Ascending(kept)[i]]]

\* What the threshold makes of all cases.
Outcome(observations, threshold) ==
  LET kept(i) == Retained(observations[i], threshold)
      asked == {i \in 1..Len(observations) : ~observations[i].empty}
      measured == [i \in 1..Len(observations) |->
                     Metrics([r \in 1..Len(kept(i)) |-> kept(i)[r].id],
                             observations[i].grades, observations[i].limit)]
  IN [violation |-> \E i \in 1..Len(observations) : \E r \in 1..Len(kept(i)) : kept(i)[r].violation,
      silent |-> \A i \in 1..Len(observations) : observations[i].empty => kept(i) = <<>>,
      quality |-> [m \in Measures |-> Mean([i \in 1..Len(observations) |-> measured[i][m]], asked)]]

Eligible(observations, threshold, gates) ==
  LET o == Outcome(observations, threshold)
  IN ~o.violation /\ o.silent /\ \A m \in Measures : o.quality[m] >= gates[m]

CandidatesAboveScores(observations, top) ==
  LET scores == UNION {{c.results[r].score : r \in 1..Len(c.results)} :
                         c \in {observations[i] : i \in 1..Len(observations)}}
  IN {0, top} \cup {s + 1 : s \in scores \ {top}}
Candidates(observations, top) ==
  LET scores == UNION {{c.results[r].score : r \in 1..Len(c.results)} :
                         c \in {observations[i] : i \in 1..Len(observations)}}
  IN {0, top} \cup scores \cup {s + 1 : s \in scores \ {top}}

\* Qualities in their order of importance, the threshold last.
Key(observations, threshold) ==
  LET q == Outcome(observations, threshold).quality
  IN <<q["precision"], q["recall"], q["mrr"], q["ndcg"], threshold>>
Less(a, b) == \E i \in 1..5 : a[i] < b[i] /\ \A j \in 1..(i - 1) : a[j] = b[j]

NoThreshold == -1

\* Gates of zero are refused, that of silence too, which is otherwise passed by every
\* eligible threshold: it keeps all that should be silent so.
SelectThreshold(observations, gates, silence, top) ==
  LET eligible == {t \in Candidates(observations, top) : Eligible(observations, t, gates)}
  IN IF silence <= 0 \/ (\E m \in Measures : gates[m] <= 0) \/ eligible = {}
     THEN NoThreshold
     ELSE CHOOSE t \in eligible :
            \A u \in eligible : ~Less(Key(observations, t), Key(observations, u))

-----------------------------------------------------------------------------
(* The report.  A case is [empty, grades, limit]; what a provider makes of it is a        *)
(* failure or a sequence of matches [id, forbidden, foreign, authorized]. *)

Broken == <<[id |-> "broken"]>>

\* A case expects no result exactly if none is relevant to it.
ValidCase(case) ==
  /\ case.limit \in 1..5 /\ ValidGrades(case.grades)
  /\ case.empty <=> case.grades = <<>>

\* An answer that is too long or repeats itself counts as a failure of the provider.
Acceptable(case, matches) ==
  /\ matches # Broken
  /\ Len(matches) <= case.limit
  /\ Cardinality({matches[i].id : i \in 1..Len(matches)}) = Len(matches)

ProviderFailure(case) ==
  [empty |-> case.empty, quality |-> [m \in Measures |-> 0], silent |-> 0,
   violation |-> FALSE, failure |-> TRUE]

Judge(case, matches) ==
  IF ~Acceptable(case, matches)
  THEN ProviderFailure(case)
  ELSE [empty |-> case.empty,
        quality |-> Metrics([i \in 1..Len(matches) |-> matches[i].id], case.grades, case.limit),
        silent |-> IF case.empty /\ matches = <<>> THEN Unit ELSE 0,
        violation |-> \E i \in 1..Len(matches) :
                        matches[i].forbidden \/ matches[i].foreign \/ ~matches[i].authorized,
        failure |-> FALSE]

\* The mean qualities of the cases that expect results, and the share of the others that
\* were answered with none.
Qualities(results, among) ==
  [m \in Measures |-> Mean([i \in 1..Len(results) |-> results[i].quality[m]], among)]
Silence(results) ==
  LET empty == {i \in 1..Len(results) : results[i].empty}
  IN IF empty = {} THEN Unit ELSE Mean([i \in 1..Len(results) |-> results[i].silent], empty)
SummaryOfAllCases(results) ==
  [quality |-> Qualities(results, 1..Len(results)), silent |-> Silence(results)]
Summary(results) ==
  [quality |-> Qualities(results, {i \in 1..Len(results) : ~results[i].empty}),
   silent |-> Silence(results)]

\* Whether a case is named among those that fail.
Failing(result, gates, silence) ==
  \/ result.failure \/ result.violation
  \/ ~result.empty /\ \E m \in Measures : result.quality[m] < gates[m]
  \/ result.empty /\ result.silent < silence

\* The worst of what happened decides.
Verdict(results, gates, silence) ==
  LET overall == Summary(results)
  IN IF \E i \in 1..Len(results) : results[i].violation THEN "security_failure"
     ELSE IF \E i \in 1..Len(results) : results[i].failure THEN "infrastructure_failure"
     ELSE IF overall.silent < silence \/ \E m \in Measures : overall.quality[m] < gates[m]
     THEN "quality_failure" ELSE "passed"

\* A candidate without a provider fails in every case.
Report(cases, answers, gates, silence) ==
  LET results == [i \in 1..Len(cases) |-> Judge(cases[i], answers[i])]
  IN [disposition |-> Verdict(results, gates, silence),
      failing |-> {i \in 1..Len(cases) : Failing(results[i], gates, silence)}]
=============================================================================
