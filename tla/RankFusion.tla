----------------------------- MODULE RankFusion -----------------------------
(***************************************************************************)
(* Weighted reciprocal-rank fusion of a lexical and a semantic ranking     *)
(* (infrastructure/postgres/hybrid_retrieval.py).                          *)
(*                                                                         *)
(* A candidate is [id, data, score]: its chunk id, the rest of the chunk,  *)
(* and the score of its own ranking.  Scores of the fusion are fractions   *)
(* <<numerator, denominator>>, compared exactly.                           *)
(***************************************************************************)
EXTENDS Integers, Sequences, FiniteSets, SequencesExt

Failure == [status |-> "failed"]

\* What the model of the policy admits.
ValidPolicy(policy) ==
  policy \in [lexical_limit : 1..100, semantic_limit : 1..100, final_limit : 1..5,
              lexical_weight : 1..100, semantic_weight : 1..100, rank_constant : 1..1000]

\* What a request may ask for, and what a query may return: ids are ordered.
ValidRequest(request) == request.limit \in 1..5
ValidRanking(ranking) ==
  ranking \in Seq(Range(ranking)) /\ \A r \in 1..Len(ranking) : ranking[r].id \in Nat

\* The candidate of a ranking with this id, and its rank, counted from one.
Ranks(ranking, id) == {r \in 1..Len(ranking) : ranking[r].id = id}
Ids(ranking) == {ranking[r].id : r \in 1..Len(ranking)}

\* Columns of a row that do not decode to a candidate fail the request: a score that is
\* no number, is not finite or lies outside of [0, 1].
Decodes(ranking) == \A r \in 1..Len(ranking) : ranking[r].score # "malformed"

UniqueIds(ranking) == Cardinality(Ids(ranking)) = Len(ranking)

\* The same chunk in both rankings, whatever its two scores.
SameChunk(a, b) == a.data = b.data

Add(f, g) == <<f[1] * g[2] + g[1] * f[2], f[2] * g[2]>>
Greater(f, g) == f[1] * g[2] > g[1] * f[2]
Equal(f, g) == f[1] * g[2] = g[1] * f[2]

\* What one ranking contributes to the score of an id: nothing when it is missing.
Contribution(ranking, weight, constant, id) ==
  IF Ranks(ranking, id) = {} THEN <<0, 1>>
  ELSE <<weight, constant + (CHOOSE r \in Ranks(ranking, id) : TRUE)>>

\* Definitions named ...Of..., ...Without... precede the definition they are a faulty
\* variant of.
ScoreOfLast(lexical, semantic, policy, id) ==
  IF Ranks(semantic, id) # {}
  THEN Contribution(semantic, policy.semantic_weight, policy.rank_constant, id)
  ELSE Contribution(lexical, policy.lexical_weight, policy.rank_constant, id)
Score(lexical, semantic, policy, id) ==
  Add(Contribution(lexical, policy.lexical_weight, policy.rank_constant, id),
      Contribution(semantic, policy.semantic_weight, policy.rank_constant, id))

\* reciprocal_rank_fusion: the ids in descending order of their scores, ties by id, cut.
\* The place of an id is one more than the number of the ids before it.
Before(score, a, b) == Greater(score[a], score[b]) \/ (Equal(score[a], score[b]) /\ a < b)
Fuse(lexical, semantic, policy, requested) ==
  LET all == Ids(lexical) \cup Ids(semantic)
      score == [id \in all |-> Score(lexical, semantic, policy, id)]
      place == [id \in all |-> Cardinality({other \in all : Before(score, other, id)}) + 1]
      length == Min({requested, policy.final_limit, Cardinality(all)})
  IN IF \/ Len(lexical) > policy.lexical_limit \/ Len(semantic) > policy.semantic_limit
        \/ ~UniqueIds(lexical) \/ ~UniqueIds(semantic)
        \/ \E l \in 1..Len(lexical), s \in 1..Len(semantic) :
             lexical[l].id = semantic[s].id /\ ~SameChunk(lexical[l], semantic[s])
     THEN Failure
     ELSE [status |-> "answered", ids |-> [i \in 1..length |-> CHOOSE id \in all : place[id] = i]]

\* Every result is checked again against the scope of the request; one that is not
\* authorized fails the whole request.
Authorized(scope, data) ==
  /\ data.namespace = scope.namespace
  /\ data.modules \subseteq scope.modules /\ data.permissions \subseteq scope.permissions
  /\ scope.purpose \in data.purposes
  /\ data.legal_entities \subseteq scope.legal_entities
  /\ data.customer \in {"none", scope.customer}
  /\ data.from <= scope.at /\ (data.to = 0 \/ scope.at < data.to)
  /\ data.classification # "highly_restricted"

Answer(lexical, semantic, policy, request) ==
  LET fused == Fuse(lexical, semantic, policy, request.limit)
      found(id) == CHOOSE c \in {lexical[r] : r \in 1..Len(lexical)} \cup {semantic[r] : r \in 1..Len(semantic)} :
                     c.id = id
  IN IF \/ ~Decodes(lexical) \/ ~Decodes(semantic) \/ fused = Failure
        \/ \E i \in 1..Len(fused.ids) : ~Authorized(request, found(fused.ids[i]).data)
     THEN Failure
     ELSE fused
=============================================================================
