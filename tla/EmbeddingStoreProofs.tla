-------------------------- MODULE EmbeddingStoreProofs --------------------------
(***************************************************************************)
(* Proofs about EmbeddingStore, for every number of workers, operation     *)
(* ids, generations, profiles, vectors and calls.  IInv is the inductive   *)
(* invariant: what a transaction has found free stays free while it holds  *)
(* the unique key, so that its commit adds a set, an operation and an      *)
(* event that nobody else has added.                                       *)
(***************************************************************************)
EXTENDS EmbeddingStore, TLAPS

\* An open call embeds a published generation under a number of its own.  The
\* calls that were refused are over, and an event belongs to a call that was made,
\* was not refused, and has passed its commit.
CallInv ==
  /\ \A w \in Workers : pc[w] # "idle" =>
       /\ req[w] \in Requests /\ req[w].set.gen \in generations
       /\ call[w] \in 1 .. calls /\ call[w] \notin refused
  /\ \A v, w \in Workers : v # w /\ pc[v] # "idle" /\ pc[w] # "idle" => call[v] # call[w]
  /\ \A c \in refused : c <= calls
  /\ \A e \in outbox :
       /\ e.id <= calls /\ e.id \notin refused
       /\ \A w \in Workers : pc[w] \notin {"idle", "committed"} => e.id # call[w]

\* What a transaction inserted, no committed row has: its key was free when it
\* inserted and others wait for it.  A committed call has its row, and results are
\* results of operations.
KeyInv ==
  /\ \A w \in Workers : HoldsSet(w) => \A s \in sets : ~SameSet(s, req[w].set)
  /\ \A w \in Workers : HoldsOperation(w) => Done(req[w].op) = {}
  /\ \A w \in Workers : pc[w] = "committed" => req[w] \in operations
  /\ answered \subseteq operations

\* Unique keys are exclusive.
ExclusionInv ==
  \A v, w \in Workers : v # w =>
    /\ HoldsSet(v) /\ HoldsSet(w) => ~SameSet(req[v].set, req[w].set)
    /\ HoldsOperation(v) /\ HoldsOperation(w) => req[v].op # req[w].op

IInv == TypeOK /\ CallInv /\ KeyInv /\ ExclusionInv /\ SetsAreAccountedFor

-----------------------------------------------------------------------------
\* Nothing is stored and no call is open at first.
LEMMA InitIInv == Init => IInv
<1> SUFFICES ASSUME Init PROVE IInv
  OBVIOUS
<1>1. TypeOK
  BY CallBoundAssumption DEF Init, TypeOK
<1>2. CallInv /\ KeyInv /\ ExclusionInv
  BY DEF Init, CallInv, KeyInv, ExclusionInv, HoldsSet, HoldsOperation
<1>3. SetsAreAccountedFor
  BY DEF Init, SetsAreAccountedFor
<1> QED
  BY <1>1, <1>2, <1>3 DEF IInv

\* "No request" is not a request.
LEMMA NoRequestIsNone == NoRequest \notin Requests
<1> SUFFICES ASSUME NoRequest \in Requests PROVE FALSE
  OBVIOUS
<1>1. DOMAIN NoRequest = {"op"}
  BY DEF NoRequest
<1>2. DOMAIN NoRequest = {"op", "set"}
  BY DEF Requests
<1> QED
  BY <1>1, <1>2

\* A call that ends without writing gives its keys back; if it was refused, it
\* had not committed.
LEMMA FinishStep ==
  ASSUME IInv, NEW w \in Workers, pc[w] # "idle", Finish(w), UNCHANGED <<db, calls>>,
         answered' \subseteq operations,
         \/ refused' = refused
         \/ pc[w] # "committed" /\ refused' = refused \cup {call[w]}
  PROVE  IInv'
<1> USE DEF Finish, db
<1>1. call[w] \in 1 .. calls /\ calls \in 0 .. MaxCalls
  BY DEF IInv, TypeOK, CallInv
<1>2. TypeOK'
  <2>1. answered' \subseteq Requests
    BY DEF IInv, TypeOK
  <2>4. call[w] \in 1..MaxCalls /\ refused \subseteq 1..MaxCalls
    BY <1>1, CallBoundAssumption DEF IInv, TypeOK
  <2>5. refused' \subseteq 1..MaxCalls
    BY <2>4
  <2>2. \A v \in Workers : req'[v] = NoRequest <=> pc'[v] = "idle"
    BY DEF IInv, TypeOK
  <2>3. call' \in [Workers -> 0..MaxCalls]
    BY CallBoundAssumption DEF IInv, TypeOK
  <2> QED
    BY <2>1, <2>2, <2>3, <2>5 DEF IInv, TypeOK
<1>3. \A v \in Workers : pc'[v] # "idle" =>
        v # w /\ pc'[v] = pc[v] /\ req'[v] = req[v] /\ call'[v] = call[v]
  BY DEF IInv, TypeOK
<1>4. CallInv'
  <2>1. /\ \A v \in Workers : pc'[v] # "idle" =>
             /\ req'[v] \in Requests /\ req'[v].set.gen \in generations'
             /\ call'[v] \in 1 .. calls' /\ call'[v] \notin refused'
        /\ \A v, u \in Workers : v # u /\ pc'[v] # "idle" /\ pc'[u] # "idle" =>
             call'[v] # call'[u]
    BY <1>3 DEF IInv, CallInv
  <2>2. /\ \A c \in refused' : c <= calls'
        /\ \A e \in outbox' : e.id <= calls' /\ e.id \notin refused'
    BY <1>1 DEF IInv, CallInv
  <2>3. \A e \in outbox' : \A v \in Workers : pc'[v] \notin {"idle", "committed"} =>
          e.id # call'[v]
    BY <1>3 DEF IInv, CallInv
  <2> QED
    BY <2>1, <2>2, <2>3 DEF CallInv
<1>5. KeyInv' /\ ExclusionInv'
  BY <1>3 DEF IInv, KeyInv, ExclusionInv, HoldsSet, HoldsOperation, Done
<1>6. SetsAreAccountedFor'
  BY DEF IInv, SetsAreAccountedFor
<1> QED
  BY <1>2, <1>4, <1>5, <1>6 DEF IInv

\* A call that moves on inside its transaction writes nothing yet; it takes a key
\* only if nobody holds it and no committed row has it.
LEMMA AdvanceStep ==
  ASSUME IInv, NEW w \in Workers, pc[w] \notin {"idle", "committed"},
         NEW step \in {"profile", "set", "record", "commit"}, Advance(w, step),
         known' \in [Workers -> SUBSET Profiles],
         \/ step \in {"profile", "set"}
         \/ /\ step = "record" /\ SetFree(w)
            /\ \A s \in sets : ~SameSet(s, req[w].set)
         \/ /\ step = "commit" /\ pc[w] = "record" /\ OperationFree(w)
            /\ Done(req[w].op) = {}
  PROVE  IInv'
<1> USE DEF Advance, db
<1>1. TypeOK'
  BY DEF IInv, TypeOK
<1>2. \A v \in Workers : \/ v # w /\ pc'[v] = pc[v]
                         \/ v = w /\ pc'[v] = step
  BY DEF IInv, TypeOK
<1>3. CallInv'
  BY <1>2 DEF IInv, CallInv
<1>4. KeyInv'
  BY <1>2 DEF IInv, KeyInv, HoldsSet, HoldsOperation, Done
<1>5. ExclusionInv'
  <2>1. ASSUME NEW v \in Workers, v # w, HoldsSet(v)', HoldsSet(w)'
        PROVE  ~SameSet(req[v].set, req[w].set)
    BY <1>2, <2>1 DEF IInv, ExclusionInv, HoldsSet, SetFree
  <2>2. ASSUME NEW v \in Workers, v # w, HoldsOperation(v)', HoldsOperation(w)'
        PROVE  req[v].op # req[w].op
    BY <1>2, <2>2 DEF HoldsOperation, OperationFree
  <2>3. \A v \in Workers : v # w => /\ HoldsSet(v)' <=> HoldsSet(v)
                                    /\ HoldsOperation(v)' <=> HoldsOperation(v)
    BY <1>2 DEF HoldsSet, HoldsOperation
  <2>4. \A s, t : SameSet(s, t) <=> SameSet(t, s)
    BY DEF SameSet
  <2> QED
    BY <2>1, <2>2, <2>3, <2>4 DEF IInv, ExclusionInv
<1>6. SetsAreAccountedFor'
  BY DEF IInv, SetsAreAccountedFor
<1> QED
  BY <1>1, <1>3, <1>4, <1>5, <1>6 DEF IInv

\* A new call takes a number that no call, refusal or event carries.
LEMMA StartStep ==
  ASSUME IInv, NEW w \in Workers, NEW op \in OperationIds, NEW s \in Prepared,
         Start(w, op, s)
  PROVE  IInv'
<1> USE DEF Start, db
<1>1. [op |-> op, set |-> s] \in Requests /\ s.gen \in generations
  BY DEF Prepared, Requests
<1>2. calls \in Nat /\ calls' = calls + 1 /\ calls' \in 1 .. MaxCalls
  BY CallBoundAssumption DEF IInv, TypeOK
<1>3. TypeOK'
  BY <1>1, <1>2, NoRequestIsNone, CallBoundAssumption DEF IInv, TypeOK
<1>4. \A v \in Workers :
        \/ v # w /\ pc'[v] = pc[v] /\ req'[v] = req[v] /\ call'[v] = call[v]
        \/ /\ v = w /\ pc'[v] = "begin" /\ call'[v] = calls + 1
           /\ req'[v] = [op |-> op, set |-> s]
  BY DEF IInv, TypeOK
<1>5. /\ \A c \in refused : c \in Nat /\ c <= calls
      /\ \A e \in outbox : e.id \in Nat /\ e.id <= calls /\ e.id \notin refused
      /\ \A v \in Workers : pc[v] # "idle" => call[v] \in 1 .. calls
  BY CallBoundAssumption DEF IInv, TypeOK, CallInv
<1>6. CallInv'
  <2>1. ASSUME NEW v \in Workers, pc'[v] # "idle"
        PROVE  /\ req'[v] \in Requests /\ req'[v].set.gen \in generations'
               /\ call'[v] \in 1 .. calls' /\ call'[v] \notin refused'
    BY <1>1, <1>2, <1>4, <1>5, <2>1 DEF IInv, CallInv
  <2>2. \A v, u \in Workers : v # u /\ pc'[v] # "idle" /\ pc'[u] # "idle" =>
          call'[v] # call'[u]
    BY <1>2, <1>4, <1>5 DEF IInv, CallInv
  <2>3. /\ \A c \in refused' : c <= calls'
        /\ \A e \in outbox' : e.id <= calls' /\ e.id \notin refused'
    BY <1>2, <1>5
  <2>4. \A e \in outbox' : \A v \in Workers : pc'[v] \notin {"idle", "committed"} =>
          e.id # call'[v]
    BY <1>2, <1>4, <1>5 DEF IInv, CallInv
  <2> QED
    BY <2>1, <2>2, <2>3, <2>4 DEF CallInv
<1>7. KeyInv' /\ ExclusionInv'
  BY <1>4 DEF IInv, KeyInv, ExclusionInv, HoldsSet, HoldsOperation, Done
<1>8. SetsAreAccountedFor'
  BY DEF IInv, SetsAreAccountedFor
<1> QED
  BY <1>3, <1>6, <1>7, <1>8 DEF IInv

\* A publication only adds a generation.
LEMMA PublishStep ==
  ASSUME IInv, NEW g \in Generations, Publish(g)
  PROVE  IInv'
<1>1. TypeOK' /\ CallInv'
  BY DEF Publish, IInv, TypeOK, CallInv
<1>2. KeyInv' /\ ExclusionInv' /\ SetsAreAccountedFor'
  BY DEF Publish, IInv, KeyInv, ExclusionInv, HoldsSet, HoldsOperation, Done,
     SetsAreAccountedFor
<1> QED
  BY <1>1, <1>2 DEF IInv

\* COMMIT adds one set, its operation and its event together; the keys it holds
\* make them new.
LEMMA CommitStep ==
  ASSUME IInv, NEW w \in Workers, Commit(w)
  PROVE  IInv'
<1> DEFINE event == [id |-> call[w], op |-> req[w].op, set |-> req[w].set]
<1>1. /\ pc[w] = "commit" /\ pc' = [pc EXCEPT ![w] = "committed"]
      /\ profiles' = profiles \cup {req[w].set.profile}
      /\ sets' = sets \cup {req[w].set}
      /\ operations' = operations \cup {req[w]}
      /\ outbox' = outbox \cup {event}
      /\ UNCHANGED <<generations, req, call, known, calls, answered, refused>>
  BY DEF Commit
<1>2. /\ req[w] \in Requests /\ req[w].set.gen \in generations
      /\ call[w] \in 1 .. calls /\ call[w] \notin refused
      /\ \A s \in sets : ~SameSet(s, req[w].set)
      /\ \A o \in operations : o.op # req[w].op
  BY <1>1 DEF IInv, CallInv, KeyInv, HoldsSet, HoldsOperation, Done
<1>3. /\ req[w].op \in OperationIds /\ req[w].set \in EmbeddingSet
      /\ req[w].set.profile \in Profiles
      /\ req[w] = [op |-> req[w].op, set |-> req[w].set]
  BY <1>2 DEF Requests, EmbeddingSet
<1>4. event.id = call[w] /\ event.op = req[w].op /\ event.set = req[w].set
  OBVIOUS
<1>5. event \in [id: 1..MaxCalls, op: OperationIds, set: EmbeddingSet]
  BY <1>2, <1>3, CallBoundAssumption DEF IInv, TypeOK
<1> HIDE DEF event
<1>6. TypeOK'
  <2>1. /\ sets' \subseteq EmbeddingSet /\ profiles' \subseteq Profiles
        /\ operations' \subseteq Requests
        /\ outbox' \subseteq [id: 1..MaxCalls, op: OperationIds, set: EmbeddingSet]
    BY <1>1, <1>2, <1>3, <1>5 DEF IInv, TypeOK
  <2>2. /\ pc' \in [Workers -> {"idle", "begin", "profile", "set", "record", "commit",
                                "committed"}]
        /\ \A v \in Workers : req'[v] = NoRequest <=> pc'[v] = "idle"
    BY <1>1 DEF IInv, TypeOK
  <2> QED
    BY <2>1, <2>2, <1>1 DEF IInv, TypeOK
<1>7. \A v \in Workers : \/ v # w /\ pc'[v] = pc[v]
                         \/ v = w /\ pc'[v] = "committed"
  BY <1>1 DEF IInv, TypeOK
<1>8. CallInv'
  <2>1. \A v \in Workers : pc'[v] \notin {"idle", "committed"} => event.id # call'[v]
    BY <1>1, <1>4, <1>7 DEF IInv, CallInv
  <2>2. \A e \in outbox : \A v \in Workers : pc'[v] \notin {"idle", "committed"} =>
          e.id # call'[v]
    BY <1>1, <1>7 DEF IInv, CallInv
  <2>3. \A e \in outbox' : e.id <= calls' /\ e.id \notin refused'
    BY <1>1, <1>2, <1>4 DEF IInv, CallInv
  <2> QED
    BY <1>1, <1>7, <2>1, <2>2, <2>3 DEF IInv, CallInv
<1>9. KeyInv'
  <2>1. ASSUME NEW v \in Workers, HoldsSet(v)', NEW s \in sets'
        PROVE  ~SameSet(s, req'[v].set)
    <3>1. v # w /\ HoldsSet(v) /\ HoldsSet(w)
      BY <1>1, <1>7, <2>1 DEF HoldsSet
    <3>2. ~SameSet(req[w].set, req[v].set) /\ \A t \in sets : ~SameSet(t, req[v].set)
      BY <3>1 DEF IInv, ExclusionInv, KeyInv
    <3> QED
      BY <1>1, <2>1, <3>2
  <2>2. ASSUME NEW v \in Workers, HoldsOperation(v)'
        PROVE  Done(req[v].op)' = {}
    <3>1. v # w /\ HoldsOperation(v) /\ HoldsOperation(w)
      BY <1>1, <1>7, <2>2 DEF HoldsOperation
    <3>2. req[w].op # req[v].op /\ Done(req[v].op) = {}
      BY <3>1 DEF IInv, ExclusionInv, KeyInv
    <3> QED
      BY <1>1, <3>2 DEF Done
  <2>3. \A v \in Workers : pc'[v] = "committed" => req'[v] \in operations'
    BY <1>1, <1>7 DEF IInv, KeyInv
  <2> QED
    BY <1>1, <2>1, <2>2, <2>3 DEF IInv, KeyInv
<1>10. ExclusionInv'
  <2>1. \A v \in Workers : /\ HoldsSet(v)' => HoldsSet(v)
                           /\ HoldsOperation(v)' => HoldsOperation(v)
    BY <1>7 DEF HoldsSet, HoldsOperation
  <2> QED
    BY <1>1, <2>1 DEF IInv, ExclusionInv
<1>11. SetsAreAccountedFor'
  <2>1. \A s, t \in sets' : SameSet(s, t) => s = t
    <3>1. \A s \in sets : ~SameSet(req[w].set, s)
      BY <1>2 DEF SameSet
    <3> QED
      BY <1>1, <1>2, <3>1 DEF IInv, SetsAreAccountedFor
  <2>2. \A s \in sets' : \E o \in operations' : o.set = s
    BY <1>1 DEF IInv, SetsAreAccountedFor
  <2>3. \A o \in operations' : /\ o.set \in sets' /\ o.set.profile \in profiles'
                               /\ o.set.gen \in generations'
    BY <1>1, <1>2 DEF IInv, SetsAreAccountedFor
  <2>4. \A o, q \in operations' : o.op = q.op \/ o.set = q.set => o = q
    <3>1. \A o \in operations : o.set # req[w].set /\ o.op # req[w].op
      BY <1>2 DEF IInv, SetsAreAccountedFor, SameSet
    <3> QED
      BY <1>1, <3>1 DEF IInv, SetsAreAccountedFor
  <2>5. operations' = {[op |-> e.op, set |-> e.set] : e \in outbox'}
    <3>1. operations = {[op |-> e.op, set |-> e.set] : e \in outbox}
      BY DEF IInv, SetsAreAccountedFor
    <3>2. req[w] = [op |-> event.op, set |-> event.set]
      BY <1>3, <1>4
    <3> DEFINE pair(e) == [op |-> e.op, set |-> e.set]
    <3>3. operations = {pair(e) : e \in outbox} /\ req[w] = pair(event)
      BY <3>1, <3>2
    <3> HIDE DEF pair
    <3>4. operations' = {pair(e) : e \in outbox'}
      BY <1>1, <3>3
    <3> QED
      BY <3>4 DEF pair
  <2>6. \A e, f \in outbox' : e.op = f.op => e = f
    <3>1. \A e \in outbox : [op |-> e.op, set |-> e.set] \in operations
      BY DEF IInv, SetsAreAccountedFor
    <3>2. \A e \in outbox : [op |-> e.op, set |-> e.set].op # event.op
      BY <1>2, <1>4, <3>1
    <3>3. \A e \in outbox : e.op # event.op
      BY <3>2
    <3> QED
      BY <1>1, <3>3 DEF IInv, SetsAreAccountedFor
  <2> QED
    BY <2>1, <2>2, <2>3, <2>4, <2>5, <2>6 DEF SetsAreAccountedFor
<1> QED
  BY <1>6, <1>8, <1>9, <1>10, <1>11 DEF IInv

-----------------------------------------------------------------------------
\* A step of a call is its commit, a move inside its transaction, or its end.
LEMMA WorkerStep ==
  ASSUME IInv, NEW w \in Workers, Step(w) \/ Fail(w)
  PROVE  IInv'
<1>1. known \in [Workers -> SUBSET Profiles] /\ profiles \subseteq Profiles
  BY DEF IInv, TypeOK
<1>8. answered \subseteq operations
  BY DEF IInv, KeyInv
<1>2. CASE Begin(w)
  <2>1. CASE Advance(w, "profile") /\ known' = [known EXCEPT ![w] = profiles]
    BY <1>1, <1>2, <2>1, AdvanceStep DEF Begin
  <2>2. CASE Finish(w)
    <3>1. /\ pc[w] = "begin" /\ UNCHANGED <<db, calls>>
          /\ answered' \subseteq operations
          /\ refused' = refused \/ refused' = refused \cup {call[w]}
      BY <1>2, <1>8, <2>2 DEF Begin, Conflict, Advance, IInv, KeyInv
    <3> QED
      BY <2>2, <3>1, FinishStep
  <2> QED
    BY <1>2, <2>1, <2>2 DEF Begin, Conflict
<1>3. CASE InsertProfile(w)
  BY <1>1, <1>3, AdvanceStep, FinishStep DEF InsertProfile, IInv, KeyInv
<1>4. CASE InsertSet(w)
  BY <1>1, <1>4, AdvanceStep, FinishStep DEF InsertSet, Conflict, IInv, KeyInv
<1>5. CASE RecordOperation(w)
  BY <1>1, <1>5, AdvanceStep, FinishStep DEF RecordOperation, Conflict, IInv, KeyInv
<1>6. CASE Acknowledge(w)
  BY <1>6, FinishStep DEF Acknowledge, IInv, KeyInv
<1>7. CASE Fail(w)
  BY <1>7, FinishStep DEF Fail, IInv, KeyInv
<1> QED
  BY <1>2, <1>3, <1>4, <1>5, <1>6, <1>7, CommitStep DEF Step

\* Every step preserves the inductive invariant.
LEMMA NextIInv == IInv /\ [Next]_vars => IInv'
<1> SUFFICES ASSUME IInv, [Next]_vars PROVE IInv'
  OBVIOUS
<1>1. CASE UNCHANGED vars
  BY <1>1 DEF vars, IInv, TypeOK, CallInv, KeyInv, ExclusionInv, SetsAreAccountedFor,
     HoldsSet, HoldsOperation, Done
<1> QED
  BY <1>1, PublishStep, StartStep, WorkerStep DEF Next, Rest

\* IInv is an invariant.
THEOREM Invariance == Spec => []IInv
<1>1. Init => IInv
  BY InitIInv
<1>2. IInv /\ [Next]_vars => IInv'
  BY NextIInv
<1> QED
  BY <1>1, <1>2, PTL DEF Spec

\* The tables and the calls keep their shape.
THEOREM TypeCorrect == Spec => []TypeOK
<1>1. IInv => TypeOK
  BY DEF IInv
<1> QED
  BY <1>1, Invariance, PTL

\* Sets, operations and events correspond one to one, and a generation has at most
\* one set for each profile, however many workers embed it at the same time
\* (the unique keys of 0003_knowledge_embeddings.sql, which persist relies on).
THEOREM OneSetPerProfile == Spec => []SetsAreAccountedFor
<1>1. IInv => SetsAreAccountedFor
  BY DEF IInv
<1> QED
  BY <1>1, Invariance, PTL

\* A call of persist that raised a conflict has stored nothing.
THEOREM ConflictsLeaveNothing == Spec => []ConflictMeansNoEffect
<1>1. IInv => ConflictMeansNoEffect
  BY DEF IInv, CallInv, ConflictMeansNoEffect
<1> QED
  BY <1>1, Invariance, PTL

-----------------------------------------------------------------------------
(* The refinement *)

\* COMMIT materialises the set of the call.
LEMMA CommitMaterializes ==
  ASSUME IInv, NEW w \in Workers, Commit(w)
  PROVE  Register!Next
<1>1. /\ req[w] \in Requests
      /\ \A s \in sets : ~SameSet(s, req[w].set)
      /\ \A o \in operations : o.op # req[w].op
  BY DEF Commit, IInv, CallInv, KeyInv, HoldsSet, HoldsOperation, Done
<1>2. /\ req[w].op \in OperationIds /\ req[w].set \in EmbeddingSet
      /\ req[w] = [op |-> req[w].op, set |-> req[w].set]
  BY <1>1 DEF Requests
<1>3. Register!Materialize(req[w].op, req[w].set)
  BY <1>1, <1>2 DEF Commit, Register!Materialize, SameSet
<1> QED
  BY <1>2, <1>3 DEF Register!Next, Register!EmbeddingSet, EmbeddingSet

\* Every step of the repository is a step of the register or a stutter.
LEMMA NextRegister == IInv /\ [Next]_vars => [Register!Next]_(Register!vars)
<1> SUFFICES ASSUME IInv, [Next]_vars PROVE [Register!Next]_(Register!vars)
  OBVIOUS
<1>1. ASSUME UNCHANGED <<db, answered>> PROVE UNCHANGED Register!vars
  BY <1>1 DEF Register!vars, db
<1>2. ASSUME NEW o \in operations, answered' = answered \cup {o}, UNCHANGED db
      PROVE  Register!Next
  BY <1>2 DEF Register!Next, Register!Answer, db
<1>3. ASSUME NEW w \in Workers, Step(w), ~Commit(w)
      PROVE  [Register!Next]_(Register!vars)
  <2>1. CASE UNCHANGED <<db, answered>>
    BY <2>1, <1>1
  <2>2. CASE ~UNCHANGED <<db, answered>>
    <3>1. /\ answered' = answered \cup {req[w]} /\ UNCHANGED db
          /\ req[w] \in operations
      BY <1>3, <2>2 DEF Step, Begin, InsertProfile, InsertSet, RecordOperation, Acknowledge,
         Conflict, Advance, IInv, KeyInv
    <3> QED
      BY <3>1, <1>2
  <2> QED
    BY <2>1, <2>2
<1>4. CASE \/ UNCHANGED vars
           \/ \E w \in Workers : \E op \in OperationIds, s \in Prepared : Start(w, op, s)
           \/ \E w \in Workers : Fail(w)
  BY <1>4, <1>1 DEF vars, Start, Fail, db
<1>5. ASSUME NEW g \in Generations, Publish(g)
      PROVE  UNCHANGED Register!vars
  BY <1>5 DEF Publish, Register!vars
<1> QED
  BY <1>3, <1>4, <1>5, CommitMaterializes DEF Next, Rest

\* The repository under concurrent workers, failures and repeats implements the
\* register of embedding sets.
THEOREM Implements == Spec => ImplementsRegister
<1>1. Init => Register!Init
  BY DEF Init, Register!Init
<1>2. IInv /\ [Next]_vars => [Register!Next]_(Register!vars)
  BY NextRegister
<1> QED
  BY <1>1, <1>2, Invariance, PTL DEF Spec, ImplementsRegister, Register!Spec
=============================================================================
