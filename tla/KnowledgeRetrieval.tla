-------------------------- MODULE KnowledgeRetrieval --------------------------
(***************************************************************************)
(* Retrieval from the knowledge database while generations are published   *)
(* and rolled back and their embeddings are stored: the lexical, semantic, *)
(* bound (production) and hybrid readers                                   *)
(* (infrastructure/postgres/knowledge_retrieval.py, semantic_retrieval.py, *)
(* hybrid_retrieval.py and BoundKnowledgeTransactionVerifier of            *)
(* production_rag.py).                                                     *)
(*                                                                         *)
(* The writers are their abstract specifications, GenerationRegister and   *)
(* EmbeddingRegister, which KnowledgeIndex and EmbeddingStore implement.   *)
(*                                                                         *)
(* A request embeds its query first, then opens one REPEATABLE READ        *)
(* transaction and reads in several statements, between which writers      *)
(* commit.  It is one that matches some chunk of every generation: an      *)
(* empty answer means that the reader found nothing to search.             *)
(***************************************************************************)
EXTENDS Naturals, FiniteSets

CONSTANTS
  Requests,       \* retrieval requests, each made once
  Generations,    \* generation ids, numbers from 1
  OperationIds,   \* publications, rollbacks and materialisations that happen
  Profiles,       \* embedding profiles
  Profile,        \* the profile of the readers
  Digest,         \* generation -> digest of its contents, not always its own
  Bound           \* the generation the bound reader is for, and whose digest the
                  \* policy of the hybrid reader names

NoGeneration == 0

\* The reader's profile and bound generation are existing ones, contents are those
\* of a generation, and "no active generation" is none.
ASSUME ReaderAssumption == /\ Profile \in Profiles /\ Bound \in Generations
                           /\ DOMAIN Digest = Generations
                           /\ NoGeneration \notin Generations

Namespace == "hr"
Vectors == {"vectors"}

VARIABLES
  current, decisions, published,  \* GenerationRegister
  sets, completed, returned,      \* EmbeddingRegister
  kind,       \* the reader of a request
  pc,         \* the statement it has reached
  view,       \* the snapshot of its transaction
  generation, \* the active generation it has read
  lexical,    \* generations of the chunks its lexical query found
  semantic,   \* generations of the chunks its semantic query found
  during,     \* history: generations active since it began
  prepared    \* history: each of them had a ready set of its profile then

register == <<current, decisions, published>>
embeddings == <<sets, completed, returned>>
reader == <<kind, pc, view, generation, lexical, semantic>>
vars == <<current, decisions, published, sets, completed, returned,
          kind, pc, view, generation, lexical, semantic, during, prepared>>

Index == INSTANCE GenerationRegister WITH Namespaces <- {Namespace}, answered <- published
Store == INSTANCE EmbeddingRegister

Kinds == {"lexical", "semantic", "bound", "hybrid"}
Open == {"embed", "begin", "verify", "active", "ready", "lexical_query", "semantic_query"}
Ended == {"answered", "unavailable", "failed"}

-----------------------------------------------------------------------------
Active == current[Namespace]
Database == [active |-> Active, sets |-> sets]

\* Definitions named ...Live, ...IgnoringNone, ...LatestReady and so on are faulty
\* variants of the definitions after them; no specification uses them.  They
\* show that the properties tell the code from a plausible mistake in it.

\* What a statement of r reads: the snapshot of its transaction.
SeenLive(r) == Database
Seen(r) == view[r]

\* A complete ready set of generation g for the readers' profile.
ReadySet(db, g) == \E s \in db.sets : s.gen = g /\ s.profile = Profile

Init ==
  /\ Index!Init /\ Store!Init
  /\ kind \in [Requests -> Kinds]
  /\ pc = [r \in Requests |-> "new"]
  /\ view = [r \in Requests |-> [active |-> NoGeneration, sets |-> {}]]
  /\ generation = [r \in Requests |-> NoGeneration]
  /\ lexical = [r \in Requests |-> {}]
  /\ semantic = [r \in Requests |-> {}]
  /\ during = [r \in Requests |-> {}]
  /\ prepared = [r \in Requests |-> TRUE]

\* What the histories of the open requests become with the next database.
Watch ==
  /\ during' = [r \in Requests |->
       IF pc[r] \in Open THEN during[r] \cup {current'[Namespace]} ELSE during[r]]
  /\ prepared' = [r \in Requests |->
       prepared[r] /\ (pc[r] \in Open => ReadySet([sets |-> sets'], current'[Namespace]))]

-----------------------------------------------------------------------------
(* Writers *)

\* A publication makes a new generation active, a rollback an earlier one.
Publish(op, g) == /\ Index!Decide(op, Namespace, g)
                  /\ UNCHANGED <<embeddings, reader>>
                  /\ Watch

\* The embeddings of a published generation are stored.
Embed(op, s) == /\ \E d \in decisions : d.activated = s.gen
                /\ Store!Materialize(op, s)
                /\ UNCHANGED <<register, reader>>
                /\ Watch

-----------------------------------------------------------------------------
(* Readers *)

Quiet == UNCHANGED <<register, embeddings, kind, during, prepared>>
Goto(r, step) == pc' = [pc EXCEPT ![r] = step]

Arrive(r) ==
  /\ pc[r] = "new"
  /\ Goto(r, IF kind[r] = "lexical" THEN "begin" ELSE "embed")
  /\ during' = [during EXCEPT ![r] = {Active}]
  /\ prepared' = [prepared EXCEPT ![r] = ReadySet(Database, Active)]
  /\ UNCHANGED <<register, embeddings, kind, view, generation, lexical, semantic>>

\* The one attempt to embed the query, outside the transaction.
EmbedQuery(r) == /\ pc[r] = "embed"
                 /\ Goto(r, "begin")
                 /\ UNCHANGED <<view, generation, lexical, semantic>> /\ Quiet

\* The first statement takes the snapshot.
Begin(r) ==
  /\ pc[r] = "begin"
  /\ Goto(r, IF kind[r] = "bound" THEN "verify" ELSE "active")
  /\ view' = [view EXCEPT ![r] = Database]
  /\ UNCHANGED <<generation, lexical, semantic>> /\ Quiet

\* BoundKnowledgeTransactionVerifier: the active generation is the bound one and
\* has a ready set of the bound profile.
VerifyFirstSet(r) ==
  /\ pc[r] = "verify"
  /\ LET admitted == /\ Seen(r).active = Bound
                     /\ \A s \in Seen(r).sets : s.gen = Bound => s.profile = Profile
                     /\ ReadySet(Seen(r), Bound) IN
     Goto(r, IF admitted THEN "active" ELSE "unavailable")
  /\ UNCHANGED <<view, generation, lexical, semantic>> /\ Quiet
Verify(r) ==
  /\ pc[r] = "verify"
  /\ Goto(r, IF Seen(r).active = Bound /\ ReadySet(Seen(r), Bound) THEN "active"
             ELSE "unavailable")
  /\ UNCHANGED <<view, generation, lexical, semantic>> /\ Quiet

\* No active generation is an empty answer.  The hybrid reader refuses other
\* contents than its policy's.
ReadActive(r) ==
  /\ pc[r] = "active"
  /\ generation' = [generation EXCEPT ![r] = Seen(r).active]
  /\ Goto(r, CASE Seen(r).active = NoGeneration -> "answered"
               [] Seen(r).active # NoGeneration /\ kind[r] = "hybrid" ->
                    IF Digest[Seen(r).active] = Digest[Bound] THEN "ready" ELSE "unavailable"
               [] Seen(r).active # NoGeneration /\ kind[r] = "lexical" -> "lexical_query"
               [] OTHER -> "semantic_query")
  /\ UNCHANGED <<view, lexical, semantic>> /\ Quiet

\* The hybrid reader fails without a complete set.
CheckReadySkipped(r) ==
  /\ pc[r] = "ready"
  /\ Goto(r, "lexical_query")
  /\ UNCHANGED <<view, generation, lexical, semantic>> /\ Quiet
CheckReady(r) ==
  /\ pc[r] = "ready"
  /\ Goto(r, IF ReadySet(Seen(r), generation[r]) THEN "lexical_query" ELSE "unavailable")
  /\ UNCHANGED <<view, generation, lexical, semantic>> /\ Quiet

\* The chunks of the generation that was read.
LexicalQuery(r) ==
  /\ pc[r] = "lexical_query"
  /\ lexical' = [lexical EXCEPT ![r] = {generation[r]}]
  /\ Goto(r, IF kind[r] = "hybrid" THEN "semantic_query" ELSE "answered")
  /\ UNCHANGED <<view, generation, semantic>> /\ Quiet

\* Its embedded chunks, if it is (still) active and its set is ready.
SemanticQueryLatestReady(r) ==
  /\ pc[r] = "semantic_query"
  /\ LET found == IF ReadySet(Seen(r), generation[r]) THEN {generation[r]}
                  ELSE {g \in Generations : ReadySet(Seen(r), g)} IN
     semantic' = [semantic EXCEPT ![r] = found]
  /\ Goto(r, "answered")
  /\ UNCHANGED <<view, generation, lexical>> /\ Quiet
SemanticQuery(r) ==
  /\ pc[r] = "semantic_query"
  /\ LET found == {g \in {generation[r]} : Seen(r).active = g /\ ReadySet(Seen(r), g)} IN
     semantic' = [semantic EXCEPT ![r] = found]
  /\ Goto(r, "answered")
  /\ UNCHANGED <<view, generation, lexical>> /\ Quiet

\* The provider or the database fails, or the request is cancelled.
Fail(r) == /\ pc[r] \in Open
           /\ Goto(r, "failed")
           /\ UNCHANGED <<view, generation, lexical, semantic>> /\ Quiet

\* Every request of the bound has ended.
Rest == (\A r \in Requests : pc[r] \in Ended) /\ UNCHANGED vars

Step(r) == \/ EmbedQuery(r) \/ Begin(r) \/ Verify(r) \/ ReadActive(r) \/ CheckReady(r)
           \/ LexicalQuery(r) \/ SemanticQuery(r)

Next == \/ \E op \in OperationIds, g \in Generations : Publish(op, g)
        \/ \E op \in OperationIds, s \in Store!EmbeddingSet : Embed(op, s)
        \/ \E r \in Requests : Arrive(r) \/ Step(r) \/ Fail(r)
        \/ Rest

Spec == Init /\ [][Next]_vars

-----------------------------------------------------------------------------
(* Properties *)

TypeOK ==
  /\ current \in [{Namespace} -> Generations \cup {NoGeneration}]
  /\ decisions \subseteq Index!Decision /\ published \subseteq decisions
  /\ sets \subseteq Store!EmbeddingSet
  /\ kind \in [Requests -> Kinds]
  /\ pc \in [Requests -> {"new"} \cup Open \cup Ended]
  /\ view \in [Requests -> [active: Generations \cup {NoGeneration},
                            sets: SUBSET Store!EmbeddingSet]]
  /\ generation \in [Requests -> Generations \cup {NoGeneration}]
  /\ lexical \in [Requests -> SUBSET Generations]
  /\ semantic \in [Requests -> SUBSET Generations]
  /\ during \in [Requests -> SUBSET (Generations \cup {NoGeneration})]
  /\ prepared \in [Requests -> BOOLEAN]

Answered(r, kinds) == pc[r] = "answered" /\ kind[r] \in kinds
Matches(r) == lexical[r] \cup semantic[r]

\* The generations a bound reader may answer from.
Admitted(r) == IF kind[r] = "hybrid" THEN {g \in Generations : Digest[g] = Digest[Bound]}
               ELSE {Bound}

\* An answer comes from one generation, one that was active at some moment of the
\* request: never from two around a publication, never from an older one because
\* the active one has no embeddings yet.
AnswersAreFromOneActive ==
  \A r \in Requests : Answered(r, Kinds) =>
    Cardinality(Matches(r)) <= 1 /\ Matches(r) \subseteq during[r]

\* The bound reader answers from its generation, the hybrid one from contents with
\* its digest, or not at all, and both have the embeddings they demand: no answer
\* is empty because a set is missing, and none lacks its semantic half.
BoundReadersAnswerInFull ==
  \A r \in Requests :
    /\ Answered(r, {"bound"}) => semantic[r] = {Bound}
    /\ Answered(r, {"hybrid"}) =>
         \/ \E g \in Admitted(r) : lexical[r] = {g} /\ semantic[r] = {g}
         \/ Matches(r) = {} /\ NoGeneration \in during[r]

\* A reader finds nothing to search only if at some moment of the request there
\* was no active generation or, for the semantic one, no ready set of it: a
\* publication in between does not make it lose both the old and the new.
EmptyIsJustified ==
  \A r \in Requests :
    /\ Answered(r, {"lexical"}) /\ Matches(r) = {} => NoGeneration \in during[r]
    /\ Answered(r, {"semantic"}) /\ Matches(r) = {} => ~prepared[r]

\* A bound or hybrid reader refuses no request during which a generation it admits
\* was active and embedded all the time, whatever else was published, embedded
\* with other profiles or rolled back before.
RefusalIsJustified ==
  \A r \in Requests :
    pc[r] = "unavailable" => ~(during[r] \subseteq Admitted(r)) \/ ~prepared[r]
=============================================================================
