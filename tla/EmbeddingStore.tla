---------------------------- MODULE EmbeddingStore ----------------------------
(***************************************************************************)
(* Storing the embeddings of published generations:                        *)
(* PostgresEmbeddingRepository                                             *)
(* (infrastructure/postgres/embedding_repository.py) with the sets that    *)
(* EmbeddingMaterializer prepares (knowledge/embeddings/service.py) and    *)
(* the tables of postgres/sql/0003_knowledge_embeddings.sql.               *)
(*                                                                         *)
(* persist runs one SERIALIZABLE transaction.  Calls of several workers    *)
(* interleave at the statements that another transaction can make wait or  *)
(* fail: the insertions into the tables of profiles, sets and operations,  *)
(* whose unique keys are the only coordination there is.  What a           *)
(* transaction writes in between (vectors, their verification, the change  *)
(* from building to ready) is seen by nobody before it commits.            *)
(***************************************************************************)
EXTENDS Naturals

CONSTANTS
  Workers,        \* processes, each makes one call of persist at a time
  OperationIds,   \* operation ids they choose (and reuse)
  Generations,    \* generations that get published
  Profiles,       \* embedding profiles
  Vectors,        \* what a provider can return for all chunks of a generation
  MaxCalls        \* bound: calls of persist in a behaviour

ASSUME CallBoundAssumption == MaxCalls \in Nat

VARIABLES
  \* The committed database
  generations,    \* published generations
  profiles,       \* embedding_profiles: the rows
  sets,           \* embedding_sets, all ready, with their chunk_embeddings
  operations,     \* embedding_operations: the rows
  outbox,         \* embedding_audit_outbox: the rows
  \* The workers
  pc,             \* the statement a worker's call has reached
  req,            \* its arguments: operation id and prepared set
  call,           \* the number of its call
  known,          \* the profile rows its snapshot contains
  calls,          \* calls made so far
  answered,       \* history: results returned
  refused         \* history: calls that raised a conflict

db == <<generations, profiles, sets, operations, outbox>>
vars == <<generations, profiles, sets, operations, outbox,
          pc, req, call, known, calls, answered, refused>>

-----------------------------------------------------------------------------
\* The sets materialize can prepare: one vector for each chunk of a generation
\* that load_generation_source finds.  Only immutable rows are read, and the
\* provider may return other vectors each time it is asked.
EmbeddingSet == [gen: Generations, profile: Profiles, vectors: Vectors]
Prepared == {s \in EmbeddingSet : s.gen \in generations}

Requests == [op: OperationIds, set: EmbeddingSet]
NoRequest == [op |-> "none"]

\* ...Without..., ...Keeping..., ...Waiting and ...Refusing are faulty variants of
\* the definitions after them; no specification uses them.  They show that the
\* properties tell the code from a plausible mistake in it.

\* The rows the lookup and the primary key of embedding_operations find.
DoneWithoutLookup(op) == {}
Done(op) == {o \in operations : o.op = op}

\* Unique keys are held from an insertion to the end of the transaction.  A
\* profile that was there already is not inserted again.
HoldsProfile(w) == pc[w] \in {"set", "record", "commit"} /\ req[w].set.profile \notin known[w]
HoldsSet(w) == pc[w] \in {"record", "commit"}
HoldsOperation(w) == pc[w] = "commit"

SameSet(s, t) == s.gen = t.gen /\ s.profile = t.profile
ProfileFree(w) ==
  \A v \in Workers \ {w} : ~(HoldsProfile(v) /\ req[v].set.profile = req[w].set.profile)
SetFree(w) == \A v \in Workers \ {w} : ~(HoldsSet(v) /\ SameSet(req[v].set, req[w].set))
OperationFreeWithoutKey(w) == TRUE
OperationFree(w) == \A v \in Workers \ {w} : ~(HoldsOperation(v) /\ req[v].op = req[w].op)

-----------------------------------------------------------------------------
Init ==
  /\ generations = {} /\ profiles = {} /\ sets = {} /\ operations = {} /\ outbox = {}
  /\ pc = [w \in Workers |-> "idle"]
  /\ req = [w \in Workers |-> NoRequest]
  /\ call = [w \in Workers |-> 0]
  /\ known = [w \in Workers |-> {}]
  /\ calls = 0
  /\ answered = {} /\ refused = {}

Finish(w) == /\ pc' = [pc EXCEPT ![w] = "idle"]
             /\ req' = [req EXCEPT ![w] = NoRequest]
             /\ call' = [call EXCEPT ![w] = 0]
             /\ known' = [known EXCEPT ![w] = {}]

\* EmbeddingMaterializationConflict
Conflict(w) == /\ Finish(w)
               /\ refused' = refused \cup {call[w]}
               /\ UNCHANGED <<db, calls, answered>>

Advance(w, step) == /\ pc' = [pc EXCEPT ![w] = step]
                    /\ UNCHANGED <<db, req, call, calls, answered, refused>>

\* A publisher commits a generation (KnowledgeIndex).
Publish(g) == /\ g \notin generations
              /\ generations' = generations \cup {g}
              /\ UNCHANGED <<profiles, sets, operations, outbox,
                             pc, req, call, known, calls, answered, refused>>

Start(w, op, s) ==
  /\ pc[w] = "idle" /\ calls < MaxCalls
  /\ calls' = calls + 1
  /\ pc' = [pc EXCEPT ![w] = "begin"]
  /\ req' = [req EXCEPT ![w] = [op |-> op, set |-> s]]
  /\ call' = [call EXCEPT ![w] = calls + 1]
  /\ UNCHANGED <<db, known, answered, refused>>

\* The snapshot and the lookup of the operation: its result is returned if it
\* has the same binding, digest of the vectors included, and conflicts otherwise.
Begin(w) ==
  /\ pc[w] = "begin"
  /\ \/ /\ req[w] \in operations
        /\ Finish(w)
        /\ answered' = answered \cup {req[w]}
        /\ UNCHANGED <<db, calls, refused>>
     \/ /\ Done(req[w].op) # {} /\ req[w] \notin operations
        /\ Conflict(w)
     \/ /\ Done(req[w].op) = {}
        /\ Advance(w, "profile")
        /\ known' = [known EXCEPT ![w] = profiles]

\* INSERT ... ON CONFLICT DO NOTHING: waits for another insertion of the same
\* profile, and fails if that has committed since the snapshot (see Fail).
InsertProfileWaiting(w) ==
  /\ pc[w] = "profile"
  /\ ProfileFree(w)
  /\ req[w].set.profile \in profiles => req[w].set.profile \in known[w]
  /\ Advance(w, "set") /\ UNCHANGED known
InsertProfile(w) ==
  /\ pc[w] = "profile"
  /\ ProfileFree(w)
  /\ \/ /\ req[w].set.profile \in profiles => req[w].set.profile \in known[w]
        /\ Advance(w, "set") /\ UNCHANGED known
     \/ /\ req[w].set.profile \in profiles \ known[w]
        /\ Finish(w) /\ UNCHANGED <<db, calls, answered, refused>>

\* INSERT of the set: waits for another insertion of its key, and conflicts with
\* a committed one.
InsertSet(w) ==
  /\ pc[w] = "set"
  /\ SetFree(w)
  /\ \/ (\A s \in sets : ~SameSet(s, req[w].set)) /\ Advance(w, "record") /\ UNCHANGED known
     \/ (\E s \in sets : SameSet(s, req[w].set)) /\ Conflict(w)

\* INSERT of the operation and the outbox row, after the vectors were stored
\* and verified and the set was made ready.
RecordOperation(w) ==
  /\ pc[w] = "record"
  /\ OperationFree(w)
  /\ \/ Done(req[w].op) = {} /\ Advance(w, "commit") /\ UNCHANGED known
     \/ Done(req[w].op) # {} /\ Conflict(w)

Commit(w) ==
  /\ pc[w] = "commit"
  /\ profiles' = profiles \cup {req[w].set.profile}
  /\ sets' = sets \cup {req[w].set}
  /\ operations' = operations \cup {req[w]}
  /\ outbox' = outbox \cup {[id |-> call[w], op |-> req[w].op, set |-> req[w].set]}
  /\ pc' = [pc EXCEPT ![w] = "committed"]
  /\ UNCHANGED <<generations, req, call, known, calls, answered, refused>>

\* The acknowledgement of COMMIT arrives.
Acknowledge(w) ==
  /\ pc[w] = "committed"
  /\ Finish(w)
  /\ answered' = answered \cup {req[w]}
  /\ UNCHANGED <<db, calls, refused>>

\* A timeout, a serialization failure, a lost connection or acknowledgement, a
\* cancellation or a crash: the caller learns at most that storage failed.
FailRefusing(w) == pc[w] # "idle" /\ Conflict(w)
Fail(w) == /\ pc[w] # "idle"
           /\ Finish(w)
           /\ UNCHANGED <<db, calls, answered, refused>>

\* All calls of the bound have returned and all generations are published.
Rest == /\ calls = MaxCalls /\ generations = Generations
        /\ \A w \in Workers : pc[w] = "idle"
        /\ UNCHANGED vars

Step(w) == \/ Begin(w) \/ InsertProfile(w) \/ InsertSet(w) \/ RecordOperation(w)
           \/ Commit(w) \/ Acknowledge(w)

Next == \/ \E g \in Generations : Publish(g)
        \/ \E w \in Workers :
             \/ \E op \in OperationIds, s \in Prepared : Start(w, op, s)
             \/ Step(w)
             \/ Fail(w)
        \/ Rest

Spec == Init /\ [][Next]_vars

-----------------------------------------------------------------------------
(* Properties *)

TypeOK ==
  /\ generations \subseteq Generations
  /\ profiles \subseteq Profiles
  /\ sets \subseteq EmbeddingSet
  /\ operations \subseteq Requests
  /\ outbox \subseteq [id: 1..MaxCalls, op: OperationIds, set: EmbeddingSet]
  /\ pc \in [Workers -> {"idle", "begin", "profile", "set", "record", "commit", "committed"}]
  /\ req \in [Workers -> Requests \cup {NoRequest}]
  /\ \A w \in Workers : req[w] = NoRequest <=> pc[w] = "idle"
  /\ call \in [Workers -> 0..MaxCalls]
  /\ known \in [Workers -> SUBSET Profiles]
  /\ calls \in 0..MaxCalls
  /\ answered \subseteq Requests
  /\ refused \subseteq 1..MaxCalls

\* Sets, completed operations and outbox events correspond one to one: each set
\* was made by exactly one operation, and that one has exactly one event; and a
\* generation has at most one set for each profile, although workers embed it at the
\* same time and get other vectors.
SetsAreAccountedFor ==
  /\ \A s, t \in sets : SameSet(s, t) => s = t
  /\ \A s \in sets : \E o \in operations : o.set = s
  /\ \A o \in operations : /\ o.set \in sets /\ o.set.profile \in profiles
                           /\ o.set.gen \in generations
  /\ \A o, q \in operations : o.op = q.op \/ o.set = q.set => o = q
  /\ operations = {[op |-> e.op, set |-> e.set] : e \in outbox}
  /\ \A e, f \in outbox : e.op = f.op => e = f

\* A call that raised a conflict has made no set.  (One that failed may have.)
ConflictMeansNoEffect == \A e \in outbox : e.id \notin refused

\* Workers never wait for each other in a circle: while calls are open, one of
\* them can go on without a timeout.
SomeoneProceeds == (\E w \in Workers : pc[w] # "idle") => \E w \in Workers : ENABLED Step(w)

\* The repository implements the abstract register of embedding sets.
Register == INSTANCE EmbeddingRegister WITH completed <- operations, returned <- answered
ImplementsRegister == Register!Spec
=============================================================================
