------------------------ MODULE KnowledgeRetrievalProofs ------------------------
(***************************************************************************)
(* Proofs about KnowledgeRetrieval, for every number of concurrent readers,*)
(* generations, profiles and operations.  IInv is the inductive invariant: *)
(* what a reader holds at each of its statements comes from one snapshot,  *)
(* and the snapshot from a moment of its request.                          *)
(***************************************************************************)
EXTENDS KnowledgeRetrieval, FiniteSetTheorems, TLAPS

\* The statements after the one that takes the snapshot.
Inside == {"verify", "active", "ready", "lexical_query", "semantic_query"}

\* An open request has seen the active generation, and knows whether it is prepared.
Watched(r) ==
  pc[r] \in Open => /\ Active \in during[r]
                    /\ prepared[r] => ReadySet(Database, Active)

\* The snapshot is of a moment of the request.
FromItsTime(r) ==
  pc[r] \in Inside \cup {"answered", "unavailable"} =>
    /\ view[r].active \in during[r]
    /\ prepared[r] => ReadySet(view[r], view[r].active)

\* A statement belongs to the readers that execute it, and a reader of one generation
\* goes on only if it may and, where it demands embeddings, they are there.
OnItsWay(r) ==
  /\ pc[r] = "verify" => kind[r] = "bound"
  /\ pc[r] = "ready" => kind[r] = "hybrid"
  /\ pc[r] = "lexical_query" => kind[r] \in {"lexical", "hybrid"}
  /\ pc[r] = "semantic_query" => kind[r] # "lexical"
  /\ pc[r] \in {"ready", "lexical_query", "semantic_query"} =>
       generation[r] = view[r].active /\ generation[r] \in Generations
  /\ kind[r] = "bound" /\ pc[r] \in {"active", "semantic_query"} =>
       view[r].active \in Admitted(r) /\ ReadySet(view[r], view[r].active)
  /\ kind[r] = "hybrid" /\ pc[r] \in {"ready", "lexical_query", "semantic_query"} =>
       view[r].active \in Admitted(r)
  /\ kind[r] = "hybrid" /\ pc[r] \in {"lexical_query", "semantic_query"} =>
       ReadySet(view[r], view[r].active)

\* What the queries of a request have found.
Found(r) ==
  /\ pc[r] \in {"new"} \cup Open =>
       /\ lexical[r] = IF pc[r] = "semantic_query" /\ kind[r] = "hybrid"
                       THEN {view[r].active} ELSE {}
       /\ semantic[r] = {}
  /\ pc[r] = "answered" =>
       \/ /\ view[r].active = NoGeneration /\ kind[r] # "bound"
          /\ lexical[r] = {} /\ semantic[r] = {}
       \/ /\ view[r].active \in Generations
          /\ lexical[r] = IF kind[r] \in {"lexical", "hybrid"} THEN {view[r].active} ELSE {}
          /\ semantic[r] = IF kind[r] # "lexical" /\ ReadySet(view[r], view[r].active)
                           THEN {view[r].active} ELSE {}
          /\ kind[r] \in {"bound", "hybrid"} =>
               view[r].active \in Admitted(r) /\ ReadySet(view[r], view[r].active)
  /\ pc[r] = "unavailable" =>
       view[r].active \notin Admitted(r) \/ ~ReadySet(view[r], view[r].active)

ReaderInv(r) == Watched(r) /\ FromItsTime(r) /\ OnItsWay(r) /\ Found(r)

IInv == TypeOK /\ \A r \in Requests : ReaderInv(r)

-----------------------------------------------------------------------------
(* Steps of the writers and of other readers *)

\* A reader that does not step keeps its part of the invariant while its histories
\* go on watching the database.
LEMMA ReaderKeeps ==
  ASSUME NEW r, ReaderInv(r),
         pc'[r] = pc[r], kind'[r] = kind[r], view'[r] = view[r],
         generation'[r] = generation[r], lexical'[r] = lexical[r], semantic'[r] = semantic[r],
         during[r] \subseteq during'[r], prepared'[r] => prepared[r],
         Watched(r)'
  PROVE  ReaderInv(r)'
<1> USE DEF ReaderInv
<1>1. FromItsTime(r)'
  BY DEF FromItsTime, ReadySet
<1>2. Admitted(r)' = Admitted(r)
  BY DEF Admitted
<1>3. ReadySet(view[r], view[r].active)' <=> ReadySet(view[r], view[r].active)
  BY DEF ReadySet
<1>4. OnItsWay(r)'
  BY <1>2, <1>3 DEF OnItsWay
<1>5. Found(r)'
  BY <1>2, <1>3 DEF Found
<1> QED
  BY <1>1, <1>4, <1>5

\* A commit of a writer is watched by every open request.
LEMMA WriterKeeps ==
  ASSUME IInv, TypeOK', UNCHANGED reader, Watch
  PROVE  IInv'
<1>1. ASSUME NEW r \in Requests PROVE ReaderInv(r)'
  <2>1. /\ during'[r] = IF pc[r] \in Open THEN during[r] \cup {Active'} ELSE during[r]
        /\ prepared'[r] =
             (prepared[r] /\ (pc[r] \in Open => ReadySet([sets |-> sets'], Active')))
    BY DEF Watch, Active
  <2>2. ReadySet([sets |-> sets'], Active') <=> ReadySet(Database, Active)'
    BY DEF ReadySet, Database
  <2>3. Watched(r)'
    BY <2>1, <2>2 DEF Watched, reader
  <2>4. ReaderInv(r)
    BY DEF IInv
  <2> QED
    BY <2>1, <2>3, <2>4, ReaderKeeps DEF reader
<1> QED
  BY <1>1 DEF IInv

LEMMA PublishKeeps ==
  ASSUME IInv, NEW op \in OperationIds, NEW g \in Generations, Publish(op, g)
  PROVE  IInv'
<1>1. /\ TypeOK /\ Watch /\ UNCHANGED <<embeddings, reader>>
      /\ current' = [current EXCEPT ![Namespace] = g]
      /\ decisions' = decisions \cup {[op |-> op, ns |-> Namespace,
                         previous |-> current[Namespace], activated |-> g]}
      /\ published' = published
  BY DEF Publish, Index!Decide, IInv
<1>2. /\ current' \in [{Namespace} -> Generations \cup {NoGeneration}]
      /\ decisions' \subseteq Index!Decision /\ published' \subseteq decisions'
  BY <1>1 DEF TypeOK, Index!Decision
<1>3. /\ during' \in [Requests -> SUBSET (Generations \cup {NoGeneration})]
      /\ prepared' \in [Requests -> BOOLEAN]
  BY <1>1, <1>2 DEF TypeOK, Watch
<1>4. TypeOK'
  BY <1>1, <1>2, <1>3 DEF TypeOK, embeddings, reader
<1> QED
  BY <1>1, <1>4, WriterKeeps

LEMMA EmbedKeeps ==
  ASSUME IInv, NEW op \in OperationIds, NEW s \in Store!EmbeddingSet, Embed(op, s)
  PROVE  IInv'
<1>1. /\ TypeOK /\ Watch /\ UNCHANGED <<register, reader>>
      /\ sets' = sets \cup {s}
  BY DEF Embed, Store!Materialize, IInv
<1>2. sets' \subseteq Store!EmbeddingSet
  BY <1>1 DEF TypeOK
<1>3. /\ during' \in [Requests -> SUBSET (Generations \cup {NoGeneration})]
      /\ prepared' \in [Requests -> BOOLEAN]
  BY <1>1 DEF TypeOK, Watch, register
<1>4. TypeOK'
  BY <1>1, <1>2, <1>3 DEF TypeOK, register, reader
<1> QED
  BY <1>1, <1>4, WriterKeeps

\* A step of one reader: the others see nothing of it.
LEMMA OneReads ==
  ASSUME IInv, NEW r \in Requests, TypeOK', ReaderInv(r)', UNCHANGED <<register, embeddings>>,
         \A q \in Requests \ {r} :
           /\ pc'[q] = pc[q] /\ kind'[q] = kind[q] /\ view'[q] = view[q]
           /\ generation'[q] = generation[q]
           /\ lexical'[q] = lexical[q] /\ semantic'[q] = semantic[q]
           /\ during'[q] = during[q] /\ prepared'[q] = prepared[q]
  PROVE  IInv'
<1>1. ASSUME NEW q \in Requests \ {r} PROVE ReaderInv(q)'
  <2>1. ReaderInv(q)
    BY DEF IInv
  <2>2. Active' = Active /\ Database' = Database
    BY DEF register, embeddings, Active, Database
  <2>3. Watched(q)'
    BY <2>1, <2>2 DEF ReaderInv, Watched, ReadySet
  <2> QED
    BY <2>1, <2>3, ReaderKeeps
<1> QED
  BY <1>1 DEF IInv

\* A quiet step of an open reader keeps what it has watched.
LEMMA QuietReads ==
  ASSUME IInv, NEW r \in Requests, pc[r] \in Open, Quiet,
         NEW step \in Open \cup Ended, Goto(r, step),
         /\ view' \in [Requests -> [active: Generations \cup {NoGeneration},
                                    sets: SUBSET Store!EmbeddingSet]]
         /\ generation' \in [Requests -> Generations \cup {NoGeneration}]
         /\ lexical' \in [Requests -> SUBSET Generations]
         /\ semantic' \in [Requests -> SUBSET Generations],
         \A q \in Requests \ {r} :
           /\ view'[q] = view[q] /\ generation'[q] = generation[q]
           /\ lexical'[q] = lexical[q] /\ semantic'[q] = semantic[q],
         FromItsTime(r)', OnItsWay(r)', Found(r)'
  PROVE  IInv'
<1>1. TypeOK /\ Watched(r)
  BY DEF IInv, ReaderInv
<1>2. TypeOK'
  BY <1>1 DEF TypeOK, Quiet, Goto, register, embeddings
<1>3. Watched(r)'
  BY <1>1 DEF Watched, Quiet, register, embeddings, Active, Database, ReadySet
<1>4. \A q \in Requests \ {r} : pc'[q] = pc[q]
  BY <1>1 DEF TypeOK, Goto
<1> QED
  BY <1>2, <1>3, <1>4, OneReads DEF Quiet, ReaderInv

\* Where a request is after a step.
LEMMA Gone ==
  ASSUME TypeOK, NEW r \in Requests, NEW step, Goto(r, step)
  PROVE  pc'[r] = step
BY DEF TypeOK, Goto

\* What a step on the unchanged snapshot keeps.
LEMMA SameView ==
  ASSUME TypeOK, NEW r \in Requests, Quiet, view' = view
  PROVE  /\ Admitted(r)' = Admitted(r)
         /\ ReadySet(view[r], view[r].active)' <=> ReadySet(view[r], view[r].active)
         /\ view'[r] = view[r] /\ kind'[r] = kind[r]
         /\ during'[r] = during[r] /\ prepared'[r] = prepared[r]
BY DEF Admitted, ReadySet, Quiet

LEMMA FromItsTimeKept ==
  ASSUME TypeOK, NEW r \in Requests, FromItsTime(r), pc[r] \in Inside, Quiet, view' = view
  PROVE  FromItsTime(r)'
BY SameView DEF FromItsTime

-----------------------------------------------------------------------------
(* The statements of a reader *)

LEMMA ArriveKeeps ==
  ASSUME IInv, NEW r \in Requests, Arrive(r)
  PROVE  IInv'
<1>1. TypeOK /\ ReaderInv(r) /\ pc[r] = "new"
  BY DEF IInv, Arrive
<1>2. /\ UNCHANGED <<register, embeddings, kind, view, generation, lexical, semantic>>
      /\ during' = [during EXCEPT ![r] = {Active}]
      /\ prepared' = [prepared EXCEPT ![r] = ReadySet(Database, Active)]
  BY DEF Arrive
<1>3. PICK step \in {"begin", "embed"} : Goto(r, step)
  BY DEF Arrive
<1>4. /\ pc' \in [Requests -> {"new"} \cup Open \cup Ended] /\ pc'[r] = step
      /\ \A q \in Requests \ {r} : pc'[q] = pc[q]
  BY <1>1, <1>3 DEF TypeOK, Goto, Open
<1>5. ReadySet(Database, Active) \in BOOLEAN
  BY DEF ReadySet
<1>6. /\ during' \in [Requests -> SUBSET (Generations \cup {NoGeneration})]
      /\ prepared' \in [Requests -> BOOLEAN]
      /\ during'[r] = {Active} /\ prepared'[r] = ReadySet(Database, Active)
      /\ \A q \in Requests \ {r} : during'[q] = during[q] /\ prepared'[q] = prepared[q]
  BY <1>1, <1>2, <1>5 DEF TypeOK, Active
<1>7. TypeOK'
  BY <1>1, <1>2, <1>4, <1>6 DEF TypeOK, register, embeddings
<1>8. Watched(r)'
  BY <1>2, <1>6 DEF Watched, Active, Database, ReadySet, register, embeddings
<1>9. FromItsTime(r)' /\ OnItsWay(r)'
  BY <1>4 DEF FromItsTime, OnItsWay, Inside
<1>10. Found(r)'
  BY <1>1, <1>2, <1>4 DEF ReaderInv, Found, Open
<1> QED
  BY <1>2, <1>4, <1>6, <1>7, <1>8, <1>9, <1>10, OneReads DEF ReaderInv

LEMMA EmbedQueryKeeps ==
  ASSUME IInv, NEW r \in Requests, EmbedQuery(r)
  PROVE  IInv'
<1>1. /\ TypeOK /\ Found(r) /\ pc[r] = "embed" /\ Goto(r, "begin")
      /\ UNCHANGED <<view, generation, lexical, semantic>> /\ Quiet
  BY DEF IInv, ReaderInv, EmbedQuery
<1>2. pc'[r] = "begin"
  BY <1>1, Gone
<1>3. FromItsTime(r)' /\ OnItsWay(r)'
  BY <1>2 DEF FromItsTime, OnItsWay, Inside
<1>4. Found(r)'
  BY <1>1, <1>2 DEF Found, Open
<1> QED
  BY <1>1, <1>3, <1>4, QuietReads DEF TypeOK, Open

\* The snapshot is what has been watched up to its moment.
LEMMA BeginKeeps ==
  ASSUME IInv, NEW r \in Requests, Begin(r)
  PROVE  IInv'
<1>1. /\ TypeOK /\ Found(r) /\ Watched(r) /\ pc[r] = "begin"
      /\ view' = [view EXCEPT ![r] = Database]
      /\ UNCHANGED <<generation, lexical, semantic>> /\ Quiet
  BY DEF IInv, ReaderInv, Begin
<1>2. PICK step \in {"verify", "active"} :
        Goto(r, step) /\ (step = "verify" <=> kind[r] = "bound")
  BY DEF Begin
<1>3. pc'[r] = step /\ kind'[r] = kind[r]
  BY <1>1, <1>2, Gone DEF Quiet
<1>4. Database \in [active: Generations \cup {NoGeneration}, sets: SUBSET Store!EmbeddingSet]
  BY <1>1 DEF TypeOK, Database, Active
<1>5. /\ view' \in [Requests -> [active: Generations \cup {NoGeneration},
                                 sets: SUBSET Store!EmbeddingSet]]
      /\ view'[r] = Database
      /\ \A q \in Requests \ {r} : view'[q] = view[q]
  BY <1>1, <1>4 DEF TypeOK
<1>6. FromItsTime(r)'
  BY <1>1, <1>5 DEF FromItsTime, Watched, Quiet, Open, Database, ReadySet
<1>7. OnItsWay(r)'
  BY <1>2, <1>3 DEF OnItsWay
<1>8. Found(r)'
  BY <1>1, <1>3 DEF Found, Open
<1> QED
  BY <1>1, <1>2, <1>5, <1>6, <1>7, <1>8, QuietReads DEF TypeOK, Open

LEMMA VerifyKeeps ==
  ASSUME IInv, NEW r \in Requests, Verify(r)
  PROVE  IInv'
<1>1. /\ TypeOK /\ ReaderInv(r) /\ pc[r] = "verify"
      /\ UNCHANGED <<view, generation, lexical, semantic>> /\ Quiet
  BY DEF IInv, Verify
<1>2. PICK step \in {"active", "unavailable"} :
        /\ Goto(r, step)
        /\ step = "active" <=> Seen(r).active = Bound /\ ReadySet(Seen(r), Bound)
  BY DEF Verify
<1>3. pc'[r] = step
  BY <1>1, <1>2, Gone
<1>4. kind[r] = "bound" /\ Admitted(r) = {Bound}
  BY <1>1 DEF ReaderInv, OnItsWay, Admitted
<1>5. step = "active" <=>
        view[r].active \in Admitted(r) /\ ReadySet(view[r], view[r].active)
  BY <1>2, <1>4 DEF Seen
<1>6. FromItsTime(r)'
  BY <1>1, FromItsTimeKept DEF ReaderInv, Inside
<1>7. OnItsWay(r)' /\ Found(r)'
  BY <1>1, <1>3, <1>4, <1>5, SameView DEF ReaderInv, OnItsWay, Found, Open
<1> QED
  BY <1>1, <1>2, <1>6, <1>7, QuietReads DEF TypeOK, Open, Ended

LEMMA ReadActiveKeeps ==
  ASSUME IInv, NEW r \in Requests, ReadActive(r)
  PROVE  IInv'
<1> DEFINE a == view[r].active
<1>1. /\ TypeOK /\ ReaderInv(r) /\ pc[r] = "active"
      /\ UNCHANGED <<view, lexical, semantic>> /\ Quiet
      /\ generation' = [generation EXCEPT ![r] = a]
  BY DEF IInv, ReadActive, Seen
<1>2. a \in Generations \cup {NoGeneration} /\ kind[r] \in Kinds
  BY <1>1 DEF TypeOK
<1>3. /\ generation' \in [Requests -> Generations \cup {NoGeneration}]
      /\ generation'[r] = a
      /\ \A q \in Requests \ {r} : generation'[q] = generation[q]
  BY <1>1, <1>2 DEF TypeOK
<1>4. FromItsTime(r)'
  BY <1>1, FromItsTimeKept DEF ReaderInv, Inside
<1>5. /\ Admitted(r)' = Admitted(r) /\ view'[r] = view[r] /\ kind'[r] = kind[r]
      /\ ReadySet(view[r], a)' <=> ReadySet(view[r], a)
  BY <1>1, SameView
<1>6. lexical[r] = {} /\ semantic[r] = {} /\ lexical'[r] = {} /\ semantic'[r] = {}
  BY <1>1 DEF ReaderInv, Found, Open
<1>7. kind[r] = "bound" => a \in Admitted(r) /\ ReadySet(view[r], a) /\ a \in Generations
  BY <1>1, ReaderAssumption DEF ReaderInv, OnItsWay, Admitted
<1>8. CASE a = NoGeneration
  <2>1. Goto(r, "answered")
    BY <1>8 DEF ReadActive, Seen
  <2>2. pc'[r] = "answered"
    BY <1>1, <2>1, Gone
  <2>3. OnItsWay(r)'
    BY <2>2 DEF OnItsWay
  <2>4. Found(r)'
    BY <1>5, <1>6, <1>7, <1>8, <2>2, ReaderAssumption DEF Found, Open
  <2> QED
    BY <1>1, <1>3, <1>4, <2>1, <2>3, <2>4, QuietReads DEF TypeOK, Open, Ended
<1>9. CASE a # NoGeneration /\ kind[r] = "hybrid"
  <2>1. PICK step \in {"ready", "unavailable"} :
          Goto(r, step) /\ (step = "ready" <=> Digest[a] = Digest[Bound])
    BY <1>9 DEF ReadActive, Seen
  <2>2. pc'[r] = step
    BY <1>1, <2>1, Gone
  <2>3. a \in Generations /\ (step = "ready" <=> a \in Admitted(r))
    BY <1>2, <1>9, <2>1 DEF Admitted
  <2>4. OnItsWay(r)'
    BY <1>3, <1>5, <1>9, <2>2, <2>3 DEF OnItsWay
  <2>5. Found(r)'
    BY <1>5, <1>6, <2>2, <2>3 DEF Found
  <2> QED
    BY <1>1, <1>3, <1>4, <2>1, <2>4, <2>5, QuietReads DEF TypeOK, Open, Ended
<1>10. CASE a # NoGeneration /\ kind[r] # "hybrid"
  <2>1. PICK step \in {"lexical_query", "semantic_query"} :
          Goto(r, step) /\ (step = "lexical_query" <=> kind[r] = "lexical")
    BY <1>10 DEF ReadActive, Seen
  <2>2. pc'[r] = step
    BY <1>1, <2>1, Gone
  <2>3. OnItsWay(r)'
    BY <1>2, <1>3, <1>5, <1>7, <1>10, <2>1, <2>2 DEF OnItsWay
  <2>4. Found(r)'
    BY <1>5, <1>6, <1>10, <2>2 DEF Found
  <2> QED
    BY <1>1, <1>3, <1>4, <2>1, <2>3, <2>4, QuietReads DEF TypeOK, Open
<1> QED
  BY <1>8, <1>9, <1>10

LEMMA CheckReadyKeeps ==
  ASSUME IInv, NEW r \in Requests, CheckReady(r)
  PROVE  IInv'
<1>1. /\ TypeOK /\ ReaderInv(r) /\ pc[r] = "ready"
      /\ UNCHANGED <<view, generation, lexical, semantic>> /\ Quiet
  BY DEF IInv, CheckReady
<1>2. kind[r] = "hybrid" /\ generation[r] = view[r].active /\ generation[r] \in Generations
  BY <1>1 DEF ReaderInv, OnItsWay
<1>3. PICK step \in {"lexical_query", "unavailable"} :
        Goto(r, step) /\ (step = "lexical_query" <=> ReadySet(view[r], view[r].active))
  BY <1>2 DEF CheckReady, Seen
<1>4. pc'[r] = step
  BY <1>1, <1>3, Gone
<1>5. FromItsTime(r)'
  BY <1>1, FromItsTimeKept DEF ReaderInv, Inside
<1>6. OnItsWay(r)'
  BY <1>1, <1>2, <1>3, <1>4, SameView DEF ReaderInv, OnItsWay
<1>7. Found(r)'
  BY <1>1, <1>3, <1>4, SameView DEF ReaderInv, Found, Open
<1> QED
  BY <1>1, <1>3, <1>5, <1>6, <1>7, QuietReads DEF TypeOK, Open, Ended

LEMMA LexicalQueryKeeps ==
  ASSUME IInv, NEW r \in Requests, LexicalQuery(r)
  PROVE  IInv'
<1>1. /\ TypeOK /\ ReaderInv(r) /\ pc[r] = "lexical_query"
      /\ lexical' = [lexical EXCEPT ![r] = {generation[r]}]
      /\ UNCHANGED <<view, generation, semantic>> /\ Quiet
  BY DEF IInv, LexicalQuery
<1>2. /\ kind[r] \in {"lexical", "hybrid"}
      /\ generation[r] = view[r].active /\ generation[r] \in Generations
  BY <1>1 DEF ReaderInv, OnItsWay
<1>3. PICK step \in {"semantic_query", "answered"} :
        Goto(r, step) /\ (step = "semantic_query" <=> kind[r] = "hybrid")
  BY DEF LexicalQuery
<1>4. pc'[r] = step
  BY <1>1, <1>3, Gone
<1>5. /\ lexical' \in [Requests -> SUBSET Generations]
      /\ lexical'[r] = {view[r].active}
      /\ \A q \in Requests \ {r} : lexical'[q] = lexical[q]
  BY <1>1, <1>2 DEF TypeOK
<1>6. semantic'[r] = {}
  BY <1>1 DEF ReaderInv, Found, Open
<1>7. FromItsTime(r)'
  BY <1>1, FromItsTimeKept DEF ReaderInv, Inside
<1>8. OnItsWay(r)'
  BY <1>1, <1>2, <1>3, <1>4, SameView DEF ReaderInv, OnItsWay
<1>9. Found(r)'
  BY <1>1, <1>2, <1>3, <1>4, <1>5, <1>6, SameView DEF Found, Open
<1> QED
  BY <1>1, <1>3, <1>5, <1>7, <1>8, <1>9, QuietReads DEF TypeOK, Open, Ended

LEMMA SemanticQueryKeeps ==
  ASSUME IInv, NEW r \in Requests, SemanticQuery(r)
  PROVE  IInv'
<1>1. /\ TypeOK /\ ReaderInv(r) /\ pc[r] = "semantic_query" /\ Goto(r, "answered")
      /\ UNCHANGED <<view, generation, lexical>> /\ Quiet
  BY DEF IInv, SemanticQuery
<1>2. /\ kind[r] # "lexical" /\ kind[r] \in Kinds
      /\ generation[r] = view[r].active /\ generation[r] \in Generations
  BY <1>1 DEF ReaderInv, OnItsWay, TypeOK
<1>3. pc'[r] = "answered"
  BY <1>1, Gone
<1>4. semantic' = [semantic EXCEPT ![r] =
        {g \in {generation[r]} : view[r].active = g /\ ReadySet(view[r], g)}]
  BY DEF SemanticQuery, Seen
<1>5. {g \in {generation[r]} : view[r].active = g /\ ReadySet(view[r], g)}
        = IF ReadySet(view[r], view[r].active) THEN {view[r].active} ELSE {}
  BY <1>2
<1>6. /\ semantic' \in [Requests -> SUBSET Generations]
      /\ semantic'[r] = IF ReadySet(view[r], view[r].active) THEN {view[r].active} ELSE {}
      /\ \A q \in Requests \ {r} : semantic'[q] = semantic[q]
  BY <1>1, <1>2, <1>4, <1>5 DEF TypeOK
<1>7. lexical'[r] = IF kind[r] = "hybrid" THEN {view[r].active} ELSE {}
  BY <1>1 DEF ReaderInv, Found, Open
<1>8. kind[r] \in {"bound", "hybrid"} =>
        view[r].active \in Admitted(r) /\ ReadySet(view[r], view[r].active)
  BY <1>1 DEF ReaderInv, OnItsWay
<1>9. FromItsTime(r)'
  BY <1>1, FromItsTimeKept DEF ReaderInv, Inside
<1>10. OnItsWay(r)'
  BY <1>3 DEF OnItsWay
<1>11. Found(r)'
  BY <1>1, <1>2, <1>3, <1>6, <1>7, <1>8, SameView DEF Found, Open
<1> QED
  BY <1>1, <1>6, <1>9, <1>10, <1>11, QuietReads DEF TypeOK, Ended, Open

LEMMA FailKeeps ==
  ASSUME IInv, NEW r \in Requests, Fail(r)
  PROVE  IInv'
<1>1. /\ TypeOK /\ pc[r] \in Open /\ Goto(r, "failed")
      /\ UNCHANGED <<view, generation, lexical, semantic>> /\ Quiet
  BY DEF IInv, Fail
<1>2. pc'[r] = "failed"
  BY <1>1, Gone
<1>3. FromItsTime(r)' /\ OnItsWay(r)' /\ Found(r)'
  BY <1>2 DEF FromItsTime, OnItsWay, Found, Inside, Open
<1> QED
  BY <1>1, <1>3, QuietReads DEF TypeOK, Ended

-----------------------------------------------------------------------------
(* The theorems *)

LEMMA Initially ==
  ASSUME Init
  PROVE  IInv
<1> USE DEF Init
<1>1. TypeOK
  BY DEF TypeOK, Index!Init, Store!Init, Index!Decision
<1>2. ASSUME NEW r \in Requests PROVE ReaderInv(r)
  BY DEF ReaderInv, Watched, FromItsTime, OnItsWay, Found, Inside, Open
<1> QED
  BY <1>1, <1>2 DEF IInv

LEMMA Inductive ==
  ASSUME IInv, [Next]_vars
  PROVE  IInv'
<1>1. ASSUME NEW r \in Requests, Arrive(r) \/ Step(r) \/ Fail(r) PROVE IInv'
  BY <1>1, ArriveKeeps, EmbedQueryKeeps, BeginKeeps, VerifyKeeps, ReadActiveKeeps,
     CheckReadyKeeps, LexicalQueryKeeps, SemanticQueryKeeps, FailKeeps DEF Step
<1>2. CASE UNCHANGED vars
  <2>1. TypeOK'
    BY <1>2 DEF IInv, TypeOK, vars
  <2>2. ASSUME NEW r \in Requests PROVE ReaderInv(r)'
    BY <1>2, ReaderKeeps
       DEF IInv, ReaderInv, Watched, vars, Active, Database, ReadySet
  <2> QED
    BY <2>1, <2>2 DEF IInv
<1> QED
  BY <1>1, <1>2, PublishKeeps, EmbedKeeps DEF Next, Rest

\* IInv holds in every reachable state, whatever is published, rolled back and embedded
\* between the statements of the readers.
THEOREM Invariance == Spec => []IInv
<1>1. Init => IInv
  BY Initially
<1>2. IInv /\ [Next]_vars => IInv'
  BY Inductive
<1> QED
  BY <1>1, <1>2, PTL DEF Spec

\* Every variable keeps its type.
THEOREM TypeCorrect == Spec => []TypeOK
<1>1. IInv => TypeOK
  BY DEF IInv
<1> QED
  BY <1>1, Invariance, PTL

\* What an answer contains, from the invariant alone.
LEMMA AnswerFromSnapshot ==
  ASSUME IInv, NEW r \in Requests, pc[r] = "answered"
  PROVE  /\ view[r].active \in during[r]
         /\ prepared[r] => ReadySet(view[r], view[r].active)
         /\ Found(r) /\ kind[r] \in Kinds
BY DEF IInv, ReaderInv, FromItsTime, TypeOK

\* An answer comes from one generation that was active at some moment of the request
\* (the REPEATABLE READ transaction of the readers).
THEOREM OneGenerationAnswers == Spec => []AnswersAreFromOneActive
<1>1. ASSUME IInv PROVE AnswersAreFromOneActive
  <2> SUFFICES ASSUME NEW r \in Requests, pc[r] = "answered"
               PROVE  Cardinality(Matches(r)) <= 1 /\ Matches(r) \subseteq during[r]
    BY DEF AnswersAreFromOneActive, Answered
  <2>1. view[r].active \in during[r] /\ Found(r)
    BY <1>1, AnswerFromSnapshot
  <2>2. Matches(r) = {} \/ Matches(r) = {view[r].active}
    BY <2>1 DEF Found, Matches
  <2>3. Cardinality({}) = 0 /\ Cardinality({view[r].active}) = 1
    BY FS_EmptySet, FS_Singleton
  <2> QED
    BY <2>1, <2>2, <2>3
<1> QED
  BY <1>1, Invariance, PTL

\* The bound and the hybrid reader answer from contents they may use and with both of
\* the halves they demand.
THEOREM BoundAnswersAreFull == Spec => []BoundReadersAnswerInFull
<1>1. ASSUME IInv PROVE BoundReadersAnswerInFull
  <2>1. ASSUME NEW r \in Requests, Answered(r, {"bound"})
        PROVE  semantic[r] = {Bound}
    <3>1. Found(r) /\ pc[r] = "answered" /\ kind[r] = "bound"
      BY <1>1, <2>1, AnswerFromSnapshot DEF Answered
    <3> QED
      BY <3>1 DEF Found, Admitted
  <2>2. ASSUME NEW r \in Requests, Answered(r, {"hybrid"})
        PROVE  \/ \E g \in Admitted(r) : lexical[r] = {g} /\ semantic[r] = {g}
               \/ Matches(r) = {} /\ NoGeneration \in during[r]
    <3>1. /\ Found(r) /\ pc[r] = "answered" /\ kind[r] = "hybrid"
          /\ view[r].active \in during[r]
      BY <1>1, <2>2, AnswerFromSnapshot DEF Answered
    <3> QED
      BY <3>1 DEF Found, Matches
  <2> QED
    BY <2>1, <2>2 DEF BoundReadersAnswerInFull
<1> QED
  BY <1>1, Invariance, PTL

\* A set of embeddings is of a generation.
LEMMA NoSetOfNone ==
  ASSUME TypeOK, NEW r \in Requests
  PROVE  ~ReadySet(view[r], NoGeneration)
<1>1. view[r].sets \subseteq Store!EmbeddingSet
  BY DEF TypeOK
<1> QED
  BY <1>1, ReaderAssumption DEF ReadySet, Store!EmbeddingSet

\* A lexical or semantic reader finds nothing to search only if there was nothing to
\* search at some moment of its request.
THEOREM JustifiedEmptyAnswers == Spec => []EmptyIsJustified
<1>1. ASSUME IInv PROVE EmptyIsJustified
  <2> SUFFICES ASSUME NEW r \in Requests, pc[r] = "answered", Matches(r) = {}
               PROVE  /\ kind[r] = "lexical" => NoGeneration \in during[r]
                      /\ kind[r] = "semantic" => ~prepared[r]
    BY DEF EmptyIsJustified, Answered
  <2>1. /\ view[r].active \in during[r] /\ Found(r)
        /\ prepared[r] => ReadySet(view[r], view[r].active)
    BY <1>1, AnswerFromSnapshot
  <2>2. ~ReadySet(view[r], NoGeneration)
    BY <1>1, NoSetOfNone DEF IInv
  <2>3. kind[r] = "lexical" => view[r].active = NoGeneration
    BY <2>1 DEF Found, Matches
  <2>4. kind[r] = "semantic" =>
          view[r].active = NoGeneration \/ ~ReadySet(view[r], view[r].active)
    BY <2>1 DEF Found, Matches
  <2> QED
    BY <2>1, <2>2, <2>3, <2>4
<1> QED
  BY <1>1, Invariance, PTL

\* A bound or hybrid reader refuses no request during which a generation it admits was
\* active and embedded all the time.
THEOREM JustifiedRefusals == Spec => []RefusalIsJustified
<1>1. ASSUME IInv PROVE RefusalIsJustified
  <2> SUFFICES ASSUME NEW r \in Requests, pc[r] = "unavailable"
               PROVE  ~(during[r] \subseteq Admitted(r)) \/ ~prepared[r]
    BY DEF RefusalIsJustified
  <2>1. /\ view[r].active \in during[r]
        /\ prepared[r] => ReadySet(view[r], view[r].active)
        /\ view[r].active \notin Admitted(r) \/ ~ReadySet(view[r], view[r].active)
    BY <1>1 DEF IInv, ReaderInv, FromItsTime, Found
  <2> QED
    BY <2>1
<1> QED
  BY <1>1, Invariance, PTL

=============================================================================
