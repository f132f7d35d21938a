------------------------ MODULE KnowledgeIndexProofs ------------------------
(***************************************************************************)
(* Proofs about KnowledgeIndex, for every number of callers, namespaces,   *)
(* operation ids, contents and calls.  IInv is the inductive invariant;    *)
(* TypeOK, CommitSeesExpected and OperationsAreUnique follow from it; the  *)
(* pointer, the outbox and refused calls have invariants of their own that *)
(* rest on it; and every step is a step of GenerationRegister or a stutter.*)
(***************************************************************************)
EXTENDS KnowledgeIndex, TLAPS

Request == PublishRequest \cup RollbackRequest

\* An open call has a request and a number of its own, and the generation id of
\* a call that has not committed has no row.
CallInv ==
  /\ \A p \in Callers : pc[p] # "idle" => req[p] \in Request /\ call[p] \in 1 .. calls
  /\ \A p, q \in Callers :
       p # q /\ pc[p] # "idle" /\ pc[q] # "idle" => call[p] # call[q]
  /\ \A p \in Callers : pc[p] \notin {"idle", "committed"} => status[call[p]] = "none"
  /\ \A g \in Generations : g > calls => status[g] = "none"

\* A pointer row names an active generation of its namespace, every stored
\* generation has contents, and no commit means no pointer.
PointerInv ==
  /\ \A g \in Generations : status[g] # "none" => manifest[g] \in Namespaces \X Documents
  /\ \A ns \in Namespaces : pointer[ns].gen # NoGeneration =>
       /\ status[pointer[ns].gen] = "active"
       /\ manifest[pointer[ns].gen][1] = ns
  /\ \A ns \in Namespaces : Version(ns) = 0 => pointer[ns].gen = NoGeneration

\* What a transaction has checked stays true while it holds the locks.
LockInv ==
  /\ \A p \in Callers : HoldsPointer(p) =>
       /\ pointer[req[p].ns].gen = req[p].expected
       /\ ~ChangedSinceSnapshot(p)
       /\ req[p].kind = "rollback" =>
            status[req[p].body] = "retired" /\ manifest[req[p].body][1] = req[p].ns
  /\ \A p \in Callers : pc[p] = "write" /\ base[p] = 0 => req[p].expected = NoGeneration
  /\ \A p \in Callers : HoldsOperation(p) => Done(req[p].op) = {}

\* Row and key locks are exclusive.
ExclusionInv ==
  \A p, q \in Callers : p # q =>
    /\ HoldsPointer(p) /\ HoldsPointer(q) => req[p].ns # req[q].ns
    /\ HoldsOperation(p) /\ HoldsOperation(q) => req[p].op # req[q].op

IInv == TypeOK /\ CallInv /\ PointerInv /\ LockInv /\ ExclusionInv /\ OperationsAreUnique

-----------------------------------------------------------------------------
\* Nothing is stored and no call is open at first.
LEMMA InitIInv == Init => IInv
<1> SUFFICES ASSUME Init PROVE IInv
  OBVIOUS
<1> USE DEF Init, NoGeneration, NoRequest, Generations, Calls
<1>1. TypeOK
  BY CallBoundAssumption DEF TypeOK
<1>2. CallInv /\ LockInv /\ ExclusionInv
  BY DEF CallInv, LockInv, ExclusionInv, HoldsPointer, HoldsOperation
<1>3. PointerInv /\ OperationsAreUnique
  BY DEF PointerInv, OperationsAreUnique, Version
<1> QED
  BY <1>1, <1>2, <1>3 DEF IInv

\* A call that ends without writing preserves the invariant: its locks go.
LEMMA FinishStep ==
  ASSUME IInv, NEW p \in Callers, Finish(p), UNCHANGED <<db, calls, expired>>,
         answered' \subseteq operations, refused' \subseteq Calls
  PROVE  IInv'
<1> USE DEF Finish, db
<1>1. TypeOK'
  BY DEF IInv, TypeOK
<1>2. CallInv'
  BY DEF IInv, TypeOK, CallInv
<1>3. PointerInv' /\ OperationsAreUnique'
  BY DEF IInv, PointerInv, OperationsAreUnique, Version
<1>4. LockInv'
  BY DEF IInv, TypeOK, LockInv, HoldsPointer, HoldsOperation, ChangedSinceSnapshot, Version, Done
<1>5. ExclusionInv'
  BY DEF IInv, TypeOK, ExclusionInv, HoldsPointer, HoldsOperation
<1> QED
  BY <1>1, <1>2, <1>3, <1>4, <1>5 DEF IInv

\* A call that raises a conflict (Refuse) only ends.
LEMMA RefuseStep ==
  ASSUME IInv, NEW p \in Callers, pc[p] # "idle", Refuse(p)
  PROVE  IInv'
<1>1. call[p] \in Calls
  BY CallBoundAssumption DEF IInv, TypeOK, CallInv, Calls
<1>2. refused' \subseteq Calls /\ answered' \subseteq operations
  BY <1>1 DEF IInv, TypeOK, Refuse
<1> QED
  BY <1>2, FinishStep DEF Refuse

\* Answering from the stored result only reads the operations table.
LEMMA ReplayStoredStep ==
  ASSUME IInv, NEW p \in Callers, pc[p] # "idle", ReplayStored(p)
  PROVE  IInv'
<1>1. CASE Refuse(p)
  BY <1>1, RefuseStep
<1>2. CASE ~Refuse(p)
  <2>1. refused' \subseteq Calls /\ answered' \subseteq operations
    BY <1>2 DEF IInv, TypeOK, ReplayStored, Matching, Done
  <2> QED
    BY <1>2, <2>1, FinishStep DEF ReplayStored
<1> QED
  BY <1>1, <1>2

-----------------------------------------------------------------------------
\* A new call takes a number, hence a generation id, that no other call has.
LEMMA StartCallStep ==
  ASSUME IInv, NEW p \in Callers, NEW r \in Request, KnownTo(r), StartCall(p, r)
  PROVE  IInv'
<1> USE DEF StartCall, db
<1>1. TypeOK'
  BY CallBoundAssumption DEF IInv, TypeOK, Request, Calls
<1>2. CallInv'
  BY CallBoundAssumption DEF IInv, TypeOK, CallInv, Generations, Calls
<1>3. PointerInv' /\ OperationsAreUnique'
  BY DEF IInv, PointerInv, OperationsAreUnique, Version
<1>4. LockInv'
  BY DEF IInv, TypeOK, LockInv, HoldsPointer, HoldsOperation, ChangedSinceSnapshot, Version, Done
<1>5. ExclusionInv'
  BY DEF IInv, TypeOK, ExclusionInv, HoldsPointer, HoldsOperation
<1> QED
  BY <1>1, <1>2, <1>3, <1>4, <1>5 DEF IInv

\* A plan that build_plan rejects touches no row and opens no call.
LEMMA RejectPlanStep ==
  ASSUME IInv, NEW p \in Callers, NEW r \in Request, RejectPlan(p, r)
  PROVE  IInv'
<1> USE DEF RejectPlan, db
<1>1. TypeOK'
  BY CallBoundAssumption DEF IInv, TypeOK, Calls
<1>2. CallInv'
  BY CallBoundAssumption DEF IInv, TypeOK, CallInv, Generations, Calls
<1>3. PointerInv' /\ LockInv' /\ ExclusionInv' /\ OperationsAreUnique'
  BY DEF IInv, PointerInv, OperationsAreUnique, Version, LockInv, ExclusionInv,
         HoldsPointer, HoldsOperation, ChangedSinceSnapshot, Done
<1> QED
  BY <1>1, <1>2, <1>3 DEF IInv

\* get_operation_result reads and holds no lock afterwards.
LEMMA LookUpStep ==
  ASSUME IInv, NEW p \in Callers, LookUp(p)
  PROVE  IInv'
<1>1. CASE ReplayStored(p)
  BY <1>1, ReplayStoredStep DEF LookUp
<1>2. CASE Advance(p, "begin") /\ UNCHANGED base
  <2> USE <1>2 DEF LookUp, Advance, db
  <2>1. TypeOK' /\ CallInv'
    BY DEF IInv, TypeOK, CallInv
  <2>2. PointerInv' /\ OperationsAreUnique'
    BY DEF IInv, PointerInv, OperationsAreUnique, Version
  <2>3. LockInv' /\ ExclusionInv'
    BY DEF IInv, TypeOK, LockInv, ExclusionInv, HoldsPointer, HoldsOperation,
           ChangedSinceSnapshot, Version, Done
  <2> QED
    BY <2>1, <2>2, <2>3 DEF IInv
<1> QED
  BY <1>1, <1>2 DEF LookUp

\* The transaction starts without locks; its snapshot is the committed state.
LEMMA BeginTransactionStep ==
  ASSUME IInv, NEW p \in Callers, BeginTransaction(p)
  PROVE  IInv'
<1>1. CASE ReplayStored(p)
  BY <1>1, ReplayStoredStep DEF BeginTransaction
<1>2. CASE /\ Advance(p, "lock")
           /\ base' = [base EXCEPT ![p] = Version(req[p].ns)]
  <2> USE <1>2 DEF BeginTransaction, Advance, db
  <2>1. Version(req[p].ns) \in Nat
    BY DEF IInv, TypeOK, CallInv, Version, Request, PublishRequest, RollbackRequest
  <2>2. TypeOK' /\ CallInv'
    BY <2>1 DEF IInv, TypeOK, CallInv
  <2>3. PointerInv' /\ OperationsAreUnique'
    BY DEF IInv, PointerInv, OperationsAreUnique, Version
  <2>4. LockInv' /\ ExclusionInv'
    BY DEF IInv, TypeOK, LockInv, ExclusionInv, HoldsPointer, HoldsOperation,
           ChangedSinceSnapshot, Version, Done
  <2> QED
    BY <2>2, <2>3, <2>4 DEF IInv
<1> QED
  BY <1>1, <1>2 DEF BeginTransaction

\* The row lock is granted on the checks that LockInv records.
LEMMA LockPointerStep ==
  ASSUME IInv, NEW p \in Callers, LockPointer(p)
  PROVE  IInv'
<1>1. CASE Refuse(p)
  BY <1>1, RefuseStep DEF LockPointer
<1>2. CASE /\ base[p] > 0 => ~ChangedSinceSnapshot(p) /\ Admissible(req[p])
           /\ base[p] = 0 => req[p].expected = NoGeneration
           /\ Advance(p, "write") /\ UNCHANGED base
  <2> USE <1>2 DEF LockPointer, Advance, db
  <2>1. TypeOK' /\ CallInv'
    BY DEF IInv, TypeOK, CallInv
  <2>2. PointerInv' /\ OperationsAreUnique'
    BY DEF IInv, PointerInv, OperationsAreUnique, Version
  <2>3. LockInv'
    BY DEF IInv, TypeOK, LockInv, HoldsPointer, HoldsOperation,
           ChangedSinceSnapshot, Version, Done, Admissible
  <2>4. ExclusionInv'
    BY DEF IInv, TypeOK, ExclusionInv, HoldsPointer, HoldsOperation, PointerFree
  <2> QED
    BY <2>1, <2>2, <2>3, <2>4 DEF IInv
<1> QED
  BY <1>1, <1>2 DEF LockPointer

\* A first publication takes the unique key of the pointer row here: with no
\* commit since its snapshot, there is still no pointer.
LEMMA WritePointerStep ==
  ASSUME IInv, NEW p \in Callers, WritePointer(p)
  PROVE  IInv'
<1>1. CASE Refuse(p)
  BY <1>1, RefuseStep DEF WritePointer
<1>2. CASE ~ChangedSinceSnapshot(p) /\ Advance(p, "record") /\ UNCHANGED base
  <2> USE <1>2 DEF WritePointer, Advance, db
  <2>1. TypeOK' /\ CallInv'
    BY DEF IInv, TypeOK, CallInv
  <2>2. PointerInv' /\ OperationsAreUnique'
    BY DEF IInv, PointerInv, OperationsAreUnique, Version
  <2>3. /\ pointer[req[p].ns].gen = req[p].expected
        /\ req[p].kind = "rollback" =>
             status[req[p].body] = "retired" /\ manifest[req[p].body][1] = req[p].ns
    <3>1. req[p] \in Request /\ base[p] \in Nat
      BY DEF IInv, TypeOK, CallInv
    <3>2. CASE base[p] > 0
      BY <3>2 DEF IInv, LockInv, HoldsPointer
    <3>3. CASE base[p] = 0
      BY <3>1, <3>3 DEF IInv, LockInv, PointerInv, ChangedSinceSnapshot, Request,
         PublishRequest, RollbackRequest, NoGeneration, Generations, Calls
    <3> QED
      BY <3>1, <3>2, <3>3
  <2>4. LockInv'
    BY <2>3 DEF IInv, TypeOK, LockInv, HoldsPointer, HoldsOperation,
           ChangedSinceSnapshot, Version, Done
  <2>5. ExclusionInv'
    BY DEF IInv, TypeOK, ExclusionInv, HoldsPointer, HoldsOperation, PointerFree
  <2> QED
    BY <2>1, <2>2, <2>4, <2>5 DEF IInv
<1> QED
  BY <1>1, <1>2 DEF WritePointer

\* The unique key of operations is granted only while no committed row has the id.
LEMMA RecordOperationStep ==
  ASSUME IInv, NEW p \in Callers, RecordOperation(p)
  PROVE  IInv'
<1>1. CASE Refuse(p)
  BY <1>1, RefuseStep DEF RecordOperation
<1>2. CASE Done(req[p].op) = {} /\ Advance(p, "commit") /\ UNCHANGED base
  <2> USE <1>2 DEF RecordOperation, Advance, db
  <2>1. TypeOK' /\ CallInv'
    BY DEF IInv, TypeOK, CallInv
  <2>2. PointerInv' /\ OperationsAreUnique'
    BY DEF IInv, PointerInv, OperationsAreUnique, Version
  <2>3. LockInv'
    BY DEF IInv, TypeOK, LockInv, HoldsPointer, HoldsOperation,
           ChangedSinceSnapshot, Version, Done
  <2>4. ExclusionInv'
    BY DEF IInv, TypeOK, ExclusionInv, HoldsPointer, HoldsOperation, OperationFree
  <2> QED
    BY <2>1, <2>2, <2>3, <2>4 DEF IInv
<1> QED
  BY <1>1, <1>2 DEF RecordOperation

-----------------------------------------------------------------------------
\* What a committing transaction knows of the generation it activates.
LEMMA ActivatedFacts ==
  ASSUME IInv, NEW p \in Callers, pc[p] = "commit"
  PROVE  /\ req[p] \in Request /\ call[p] \in Calls /\ req[p].ns \in Namespaces
         /\ Activated(req[p], call[p]) \in Generations
         /\ Contents(req[p]) \in Namespaces \X Documents
         /\ Contents(req[p])[1] = req[p].ns
         /\ Activated(req[p], call[p]) # pointer[req[p].ns].gen
         /\ pointer[req[p].ns].gen = req[p].expected
         /\ status[Activated(req[p], call[p])] \in {"none", "retired"}
         /\ status[Activated(req[p], call[p])] = "retired" =>
              manifest[Activated(req[p], call[p])] = Contents(req[p])
<1>1. /\ req[p] \in Request /\ call[p] \in Calls
      /\ req[p].ns \in Namespaces /\ pointer[req[p].ns].gen = req[p].expected
      /\ req[p].kind = "rollback" =>
           status[req[p].body] = "retired" /\ manifest[req[p].body][1] = req[p].ns
      /\ status[call[p]] = "none"
      /\ pointer[req[p].ns].gen # NoGeneration =>
           status[pointer[req[p].ns].gen] = "active"
  BY CallBoundAssumption DEF IInv, TypeOK, CallInv, LockInv, PointerInv, HoldsPointer,
     Request, PublishRequest, RollbackRequest, Calls
<1>2. CASE req[p] \in PublishRequest
  BY CallBoundAssumption, <1>1, <1>2 DEF PublishRequest, Activated, Contents,
     Generations, Calls, NoGeneration
<1>3. CASE req[p] \in RollbackRequest
  <2>1. req[p].kind = "rollback" /\ req[p].body \in Generations
    BY <1>3 DEF RollbackRequest
  <2>2. manifest[req[p].body] \in Namespaces \X Documents
    BY <1>1, <2>1 DEF IInv, PointerInv
  <2> QED
    BY CallBoundAssumption, <1>1, <2>1, <2>2 DEF Activated, Contents, Generations, Calls,
       NoGeneration
<1> QED
  BY <1>1, <1>2, <1>3 DEF Request

\* COMMIT publishes the writes together: the locks make them safe against other calls.
LEMMA CommitStep ==
  ASSUME IInv, NEW p \in Callers, Commit(p)
  PROVE  IInv'
<1> DEFINE r == req[p]
           prev == r.expected
           g == Activated(r, call[p])
           row == [op |-> r.op, ns |-> r.ns, digest |-> OperationDigest(r),
                   previous |-> prev, activated |-> g, contents |-> Contents(r)]
           event == [id |-> call[p], op |-> r.op, kind |-> r.kind,
                     previous |-> prev, activated |-> g, contents |-> Contents(r)]
<1>1. /\ pc[p] = "commit"
      /\ pointer' = [pointer EXCEPT ![r.ns] = [gen |-> g, contents |-> Contents(r)]]
      /\ status' = [h \in Generations |-> IF h = g THEN "active"
                                          ELSE IF h = prev THEN "retired" ELSE status[h]]
      /\ manifest' = [manifest EXCEPT ![g] = Contents(r)]
      /\ operations' = operations \cup {row}
      /\ outbox' = [outbox EXCEPT ![r.ns] = Append(@, event)]
      /\ pc' = [pc EXCEPT ![p] = "committed"]
      /\ UNCHANGED <<req, call, base, calls, expired, answered, refused>>
  BY DEF Commit, Statuses
<1>2. /\ r \in Request /\ call[p] \in Calls /\ r.ns \in Namespaces /\ r.op \in OperationIds
      /\ r.kind \in {"publish", "rollback"} /\ r.body \in Documents \cup Generations
      /\ g \in Generations /\ prev \in Generations \cup {NoGeneration}
      /\ Contents(r) \in Namespaces \X Documents
      /\ Contents(r)[1] = r.ns
      /\ g # prev /\ prev = pointer[r.ns].gen
      /\ status[g] \in {"none", "retired"}
      /\ status[g] = "retired" => manifest[g] = Contents(r)
  BY <1>1, ActivatedFacts DEF IInv, TypeOK, Request, PublishRequest, RollbackRequest
<1> HIDE DEF g, prev, r
<1>10. row \in Row /\ event \in Event
  BY <1>2 DEF Row, Event, Digest, OperationDigest
<1> HIDE DEF row, event
<1>3. TypeOK'
  <2>2. operations' \subseteq Row
    BY <1>1, <1>10 DEF IInv, TypeOK
  <2>3. outbox' \in [Namespaces -> Seq(Event)]
    BY <1>1, <1>2, <1>10 DEF IInv, TypeOK
  <2>4. /\ pointer' \in [Namespaces -> [gen: Generations \cup {NoGeneration},
                                        contents: (Namespaces \X Documents) \cup {<<>>}]]
        /\ status' \in [Generations -> {"none", "active", "retired"}]
        /\ manifest' \in [Generations -> (Namespaces \X Documents) \cup {<<>>}]
        /\ answered' \subseteq operations'
    BY <1>1, <1>2 DEF IInv, TypeOK
  <2> QED
    BY <1>1, <2>2, <2>3, <2>4 DEF IInv, TypeOK
<1>4. /\ Len(outbox'[r.ns]) = Len(outbox[r.ns]) + 1 /\ Len(outbox[r.ns]) \in Nat
      /\ \A ns \in Namespaces : ns # r.ns => outbox'[ns] = outbox[ns]
  <2>1. outbox \in [Namespaces -> Seq(Event)]
    BY DEF IInv, TypeOK
  <2>2. Len(Append(outbox[r.ns], event)) = Len(outbox[r.ns]) + 1 /\ Len(outbox[r.ns]) \in Nat
    BY <2>1, <1>2, <1>10
  <2> QED
    BY <2>1, <2>2, <1>1, <1>2
<1>5. CallInv'
  <2>1. \A q \in Callers : pc'[q] \notin {"idle", "committed"} => status'[call'[q]] = "none"
    <3> SUFFICES ASSUME NEW q \in Callers, pc'[q] \notin {"idle", "committed"}
                 PROVE  status'[call'[q]] = "none"
      OBVIOUS
    <3>1. q # p /\ pc[q] = pc'[q] /\ call'[q] = call[q] /\ call[q] \in Generations
      BY <1>1, CallBoundAssumption DEF IInv, TypeOK, CallInv, Calls, Generations
    <3>2. status[call[q]] = "none" /\ call[q] # call[p]
      BY <3>1, <1>1 DEF IInv, CallInv
    <3>3. call[q] # prev
      BY <1>2, <3>1, <3>2, CallBoundAssumption DEF IInv, PointerInv, Generations, Calls,
         NoGeneration, prev
    <3>4. call[q] # g
      <4>1. CASE r.kind = "publish"
        BY <4>1, <3>2 DEF g, Activated
      <4>2. CASE r.kind # "publish"
        BY <4>2, <3>2, <1>1, <1>2 DEF IInv, LockInv, HoldsPointer, g, r, Activated
      <4> QED
        BY <4>1, <4>2
    <3> QED
      BY <3>1, <3>2, <3>3, <3>4, <1>1
  <2>2. \A h \in Generations : h > calls' => status'[h] = "none"
    <3> SUFFICES ASSUME NEW h \in Generations, h > calls
                 PROVE  h # g /\ h # prev
      BY <1>1 DEF IInv, CallInv
    <3>1. status[h] = "none" /\ call[p] \in 1 .. calls /\ calls \in Nat
      BY <1>1 DEF IInv, CallInv, TypeOK
    <3>2. h # prev
      BY <1>2, <3>1, CallBoundAssumption DEF IInv, PointerInv, Generations, Calls,
         NoGeneration, prev
    <3>3. h # g
      <4>1. CASE r.kind = "publish"
        BY <4>1, <3>1, CallBoundAssumption DEF g, Activated, Generations, Calls
      <4>2. CASE r.kind # "publish"
        BY <4>2, <3>1, <1>1, <1>2 DEF IInv, LockInv, HoldsPointer, g, r, Activated
      <4> QED
        BY <4>1, <4>2
    <3> QED
      BY <3>2, <3>3
  <2> QED
    BY <1>1, <2>1, <2>2 DEF IInv, TypeOK, CallInv
<1>6. PointerInv'
  <2>1. \A h \in Generations : status'[h] # "none" => manifest'[h] \in Namespaces \X Documents
    <3> SUFFICES ASSUME NEW h \in Generations, status'[h] # "none", h # g
                 PROVE  manifest[h] \in Namespaces \X Documents
      BY <1>1, <1>2 DEF IInv, TypeOK
    <3>1. CASE h = prev
      BY <3>1, <1>2, CallBoundAssumption DEF IInv, PointerInv, NoGeneration, Generations,
         Calls, prev
    <3>2. CASE h # prev
      BY <3>2, <1>1 DEF IInv, PointerInv
    <3> QED
      BY <3>1, <3>2
  <2>2. ASSUME NEW ns \in Namespaces, pointer'[ns].gen # NoGeneration
        PROVE  status'[pointer'[ns].gen] = "active" /\ manifest'[pointer'[ns].gen][1] = ns
    <3>1. CASE ns = r.ns
      BY <3>1, <1>1, <1>2 DEF IInv, TypeOK
    <3>2. CASE ns # r.ns
      <4>1. pointer'[ns] = pointer[ns] /\ pointer[ns].gen \in Generations
        BY <3>2, <2>2, <1>1, <1>2 DEF IInv, TypeOK
      <4>2. status[pointer[ns].gen] = "active" /\ manifest[pointer[ns].gen][1] = ns
        BY <2>2, <4>1 DEF IInv, PointerInv
      <4>3. pointer[ns].gen # g /\ pointer[ns].gen # prev
        BY <3>2, <4>1, <4>2, <1>2, <2>2 DEF IInv, PointerInv, prev
      <4> QED
        BY <4>1, <4>2, <4>3, <1>1, <1>2 DEF IInv, TypeOK
    <3> QED
      BY <3>1, <3>2
  <2>3. \A ns \in Namespaces : Version(ns)' = 0 => pointer'[ns].gen = NoGeneration
    <3> SUFFICES ASSUME NEW ns \in Namespaces, Version(ns)' = 0
                 PROVE  pointer'[ns].gen = NoGeneration
      OBVIOUS
    <3>1. ns # r.ns /\ Version(ns) = 0
      BY <1>4 DEF Version
    <3> QED
      BY <3>1, <1>1, <1>2 DEF IInv, TypeOK, PointerInv
  <2> QED
    BY <2>1, <2>2, <2>3 DEF PointerInv
<1>7. LockInv'
  <2>1. ASSUME NEW q \in Callers, HoldsPointer(q)'
        PROVE  /\ pointer'[req'[q].ns].gen = req'[q].expected
               /\ ~ChangedSinceSnapshot(q)'
               /\ req'[q].kind = "rollback" =>
                    status'[req'[q].body] = "retired" /\ manifest'[req'[q].body][1] = req'[q].ns
    <3>1. q # p /\ HoldsPointer(q) /\ HoldsPointer(p)
      BY <2>1, <1>1 DEF IInv, TypeOK, HoldsPointer
    <3>2. req[q].ns # r.ns /\ req[q].ns \in Namespaces /\ req[q] \in Request
      BY <3>1 DEF IInv, CallInv, ExclusionInv, r, HoldsPointer, Request, PublishRequest, RollbackRequest
    <3>3. /\ pointer[req[q].ns].gen = req[q].expected
          /\ ~ChangedSinceSnapshot(q)
          /\ req[q].kind = "rollback" =>
               status[req[q].body] = "retired" /\ manifest[req[q].body][1] = req[q].ns
      BY <3>1 DEF IInv, LockInv
    <3>4. req[q].kind = "rollback" => req[q].body \in Generations /\ req[q].body # g
      BY <3>2, <3>3, <1>2 DEF Request, PublishRequest, RollbackRequest
    <3> QED
      BY <3>2, <3>3, <3>4, <1>1, <1>2, <1>4 DEF IInv, TypeOK, ChangedSinceSnapshot, Version
  <2>2. \A q \in Callers : pc'[q] = "write" /\ base'[q] = 0 => req'[q].expected = NoGeneration
    BY <1>1 DEF IInv, TypeOK, LockInv
  <2>3. \A q \in Callers : HoldsOperation(q)' => Done(req[q].op)' = {}
    <3> SUFFICES ASSUME NEW q \in Callers, HoldsOperation(q)'
                 PROVE  Done(req[q].op)' = {}
      OBVIOUS
    <3>1. q # p /\ HoldsOperation(q) /\ HoldsOperation(p)
      BY <1>1 DEF IInv, TypeOK, HoldsOperation
    <3>2. req[q].op # r.op /\ Done(req[q].op) = {}
      BY <3>1 DEF IInv, LockInv, ExclusionInv, r
    <3> QED
      BY <3>2, <1>1 DEF Done, row
  <2> QED
    BY <2>1, <2>2, <2>3, <1>1 DEF LockInv
<1>8. ExclusionInv'
  BY <1>1 DEF IInv, TypeOK, ExclusionInv, HoldsPointer, HoldsOperation
<1>9. OperationsAreUnique'
  <2>1. \A o \in operations : o.op # row.op
    BY <1>1 DEF IInv, LockInv, HoldsOperation, Done, row, r
  <2> QED
    BY <2>1, <1>1 DEF IInv, OperationsAreUnique
<1> QED
  BY <1>3, <1>5, <1>6, <1>7, <1>8, <1>9 DEF IInv

\* Every step preserves the inductive invariant.
LEMMA NextIInv == IInv /\ [Next]_vars => IInv'
<1> SUFFICES ASSUME IInv, [Next]_vars PROVE IInv'
  OBVIOUS
<1>1. ASSUME NEW p \in Callers, NEW r \in Request, KnownTo(r), StartCall(p, r)
      PROVE  IInv'
  BY <1>1, StartCallStep
<1>2. ASSUME NEW p \in Callers, NEW r \in Request, KnownTo(r), RejectPlan(p, r)
      PROVE  IInv'
  BY <1>2, RejectPlanStep
<1>3. ASSUME NEW p \in Callers, Step(p) PROVE IInv'
  <2>1. CASE Acknowledge(p)
    <3>1. answered' \subseteq operations /\ refused' \subseteq Calls
      BY <2>1 DEF IInv, TypeOK, Acknowledge, Matching, Done
    <3> QED
      BY <2>1, <3>1, FinishStep DEF Acknowledge
  <2> QED
    BY <1>3, <2>1, LookUpStep, BeginTransactionStep, LockPointerStep, WritePointerStep,
       RecordOperationStep, CommitStep DEF Step
<1>4. ASSUME NEW p \in Callers, Fail(p) PROVE IInv'
  <2>1. answered' \subseteq operations /\ refused' \subseteq Calls
    BY <1>4 DEF IInv, TypeOK, Fail
  <2> QED
    BY <1>4, <2>1, FinishStep DEF Fail
<1>5. ASSUME NEW p \in Callers, SerializationFailure(p) PROVE IInv'
  BY <1>5, RefuseStep DEF SerializationFailure
<1>6. ASSUME NEW d \in Documents, Expire(d) PROVE IInv'
  BY <1>6 DEF Expire, db, IInv, TypeOK, CallInv, PointerInv, LockInv, ExclusionInv,
     OperationsAreUnique, Version, HoldsPointer, HoldsOperation, ChangedSinceSnapshot, Done
<1>7. CASE UNCHANGED vars
  BY <1>7 DEF vars, IInv, TypeOK, CallInv, PointerInv, LockInv, ExclusionInv,
     OperationsAreUnique, Version, HoldsPointer, HoldsOperation, ChangedSinceSnapshot, Done
<1> QED
  BY <1>1, <1>2, <1>3, <1>4, <1>5, <1>6, <1>7 DEF Next, Rest, Request

\* IInv is an invariant.
THEOREM Invariance == Spec => []IInv
<1>1. Init => IInv
  BY InitIInv
<1>2. IInv /\ [Next]_vars => IInv'
  BY NextIInv
<1> QED
  BY <1>1, <1>2, PTL DEF Spec

\* The database and the calls keep their shape.
THEOREM TypeCorrect == Spec => []TypeOK
<1>1. IInv => TypeOK
  BY DEF IInv
<1> QED
  BY <1>1, Invariance, PTL

\* An operation id completes at most once, in whatever namespace and however
\* often callers repeat it (operations, PRIMARY KEY of 0001_knowledge_schema.sql).
THEOREM OperationsCompleteOnce == Spec => []OperationsAreUnique
<1>1. IInv => OperationsAreUnique
  BY DEF IInv
<1> QED
  BY <1>1, Invariance, PTL

\* The compare-and-swap of commit_generation and commit_rollback still holds
\* when they commit: no publisher overwrites a pointer it did not expect.
THEOREM NoLostUpdate == Spec => []CommitSeesExpected
<1>1. IInv => CommitSeesExpected
  BY DEF IInv, LockInv, CommitSeesExpected, HoldsPointer
<1> QED
  BY <1>1, Invariance, PTL

-----------------------------------------------------------------------------
\* Only COMMIT changes the database.
LEMMA OnlyCommitWrites ==
  ASSUME [Next]_vars, \A p \in Callers : ~Commit(p)
  PROVE  UNCHANGED db
BY DEF Next, vars, Step, StartCall, RejectPlan, LookUp, ReplayStored, BeginTransaction,
   LockPointer, WritePointer, RecordOperation, Acknowledge, Fail, SerializationFailure,
   Expire, Rest, Refuse, Advance, db

\* One step of ActiveIsPointed: the commit of p moves the pointer of its
\* namespace and the two status columns together.
LEMMA ActiveStep ==
  ASSUME IInv, ActiveIsPointed, [Next]_vars
  PROVE  ActiveIsPointed'
<1>1. CASE \A p \in Callers : ~Commit(p)
  BY <1>1, OnlyCommitWrites DEF ActiveIsPointed, db
<1>2. ASSUME NEW p \in Callers, Commit(p)
      PROVE  ActiveIsPointed'
  <2> DEFINE r == req[p]
             prev == r.expected
             g == Activated(r, call[p])
  <2>1. /\ r.ns \in Namespaces /\ g \in Generations /\ g # prev
        /\ prev = pointer[r.ns].gen
        /\ Contents(r)[1] = r.ns /\ status[g] \in {"none", "retired"}
        /\ status[g] = "retired" => manifest[g] = Contents(r)
        /\ pointer' = [pointer EXCEPT ![r.ns] = [gen |-> g, contents |-> Contents(r)]]
        /\ status' = [h \in Generations |-> IF h = g THEN "active"
                                            ELSE IF h = prev THEN "retired" ELSE status[h]]
        /\ manifest' = [manifest EXCEPT ![g] = Contents(r)]
    BY <1>2, ActivatedFacts DEF Commit, Statuses
  <2>2. manifest \in [Generations -> (Namespaces \X Documents) \cup {<<>>}]
        /\ pointer \in [Namespaces -> [gen: Generations \cup {NoGeneration},
                                       contents: (Namespaces \X Documents) \cup {<<>>}]]
    BY DEF IInv, TypeOK
  <2> HIDE DEF r, g
  <2>3. g # NoGeneration
    BY <2>1 DEF NoGeneration, Generations, Calls
  <2> SUFFICES ASSUME NEW ns \in Namespaces
               PROVE  /\ {h \in Generations : status'[h] = "active" /\ manifest'[h][1] = ns}
                           = {pointer'[ns].gen} \ {NoGeneration}
                      /\ pointer'[ns].gen # NoGeneration =>
                           pointer'[ns].contents = manifest'[pointer'[ns].gen]
    BY DEF ActiveIsPointed
  <2>4. /\ \A h \in Generations : status[h] = "active" /\ manifest[h][1] = ns
               <=> h = pointer[ns].gen /\ h # NoGeneration
        /\ pointer[ns].gen # NoGeneration => pointer[ns].contents = manifest[pointer[ns].gen]
        /\ pointer[ns].gen # NoGeneration => pointer[ns].gen \in Generations
    BY <2>2 DEF ActiveIsPointed
  <2>5. CASE ns = r.ns
    BY <2>1, <2>2, <2>3, <2>4, <2>5
  <2>6. CASE ns # r.ns
    <3>1. pointer'[ns] = pointer[ns]
      BY <2>1, <2>2, <2>6
    <3>2. prev # NoGeneration => prev \in Generations /\ manifest[prev][1] = r.ns
      BY <2>1, <2>2 DEF IInv, PointerInv
    <3>3. \A h \in Generations : status'[h] = "active" /\ manifest'[h][1] = ns
                                   <=> status[h] = "active" /\ manifest[h][1] = ns
      BY <2>1, <2>2, <2>6, <3>2 DEF NoGeneration, Generations, Calls
    <3>4. pointer[ns].gen # NoGeneration => pointer[ns].gen # g
      BY <2>1, <2>4
    <3> QED
      BY <2>1, <2>2, <2>4, <3>1, <3>3, <3>4
  <2> QED
    BY <2>5, <2>6
<1> QED
  BY <1>1, <1>2

\* In every namespace exactly the generation the pointer names is active, with
\* its own contents, whichever publications and rollbacks interleave.
THEOREM ActivePointer == Spec => []ActiveIsPointed
<1>1. Init => ActiveIsPointed
  BY DEF Init, ActiveIsPointed
<1>2. IInv /\ ActiveIsPointed /\ [Next]_vars => ActiveIsPointed'
  BY ActiveStep
<1> QED
  BY <1>1, <1>2, Invariance, PTL DEF Spec

-----------------------------------------------------------------------------
(* The outbox *)

\* Any step but a commit leaves the chains alone, and the commit of p appends an
\* event that starts at the pointer it replaces.
LEMMA HistoryStep ==
  ASSUME IInv, OutboxIsHistory, [Next]_vars
  PROVE  OutboxIsHistory'
<1>1. CASE \A p \in Callers : ~Commit(p)
  BY <1>1, OnlyCommitWrites DEF OutboxIsHistory, db
<1>2. ASSUME NEW p \in Callers, Commit(p)
      PROVE  OutboxIsHistory'
  <2> DEFINE r == req[p]
             g == Activated(r, call[p])
             event == [id |-> call[p], op |-> r.op, kind |-> r.kind,
                       previous |-> r.expected, activated |-> g, contents |-> Contents(r)]
  <2>1. /\ r.ns \in Namespaces /\ r.expected = pointer[r.ns].gen
        /\ pointer' = [pointer EXCEPT ![r.ns] = [gen |-> g, contents |-> Contents(r)]]
        /\ outbox' = [outbox EXCEPT ![r.ns] = Append(@, event)]
    BY <1>2, ActivatedFacts DEF Commit
  <2>2. event.previous = pointer[r.ns].gen /\ event.activated = g
    BY <2>1
  <2>3. /\ outbox \in [Namespaces -> Seq(Event)]
        /\ pointer \in [Namespaces -> [gen: Generations \cup {NoGeneration},
                                       contents: (Namespaces \X Documents) \cup {<<>>}]]
    BY DEF IInv, TypeOK
  <2> HIDE DEF r, g, event
  <2> SUFFICES ASSUME NEW ns \in Namespaces
               PROVE  /\ \A i \in DOMAIN outbox'[ns] : outbox'[ns][i].previous =
                           IF i = 1 THEN NoGeneration ELSE outbox'[ns][i - 1].activated
                      /\ pointer'[ns].gen = IF outbox'[ns] = <<>> THEN NoGeneration
                                            ELSE outbox'[ns][Len(outbox'[ns])].activated
    BY DEF OutboxIsHistory
  <2>4. CASE ns # r.ns
    BY <2>1, <2>3, <2>4 DEF OutboxIsHistory
  <2>5. CASE ns = r.ns
    <3> DEFINE old == outbox[ns]
               new == outbox'[ns]
    <3>1. old \in Seq(Event) /\ Len(old) \in Nat /\ DOMAIN old = 1 .. Len(old)
      BY <2>3
    <3>2. /\ Len(new) = Len(old) + 1 /\ DOMAIN new = 1 .. Len(old) + 1
          /\ new[Len(old) + 1] = event /\ \A i \in 1 .. Len(old) : new[i] = old[i]
      BY <2>1, <2>3, <2>5, <3>1
    <3>3. /\ \A i \in DOMAIN old :
                old[i].previous = IF i = 1 THEN NoGeneration ELSE old[i - 1].activated
          /\ pointer[ns].gen = IF old = <<>> THEN NoGeneration ELSE old[Len(old)].activated
      BY DEF OutboxIsHistory
    <3>4. pointer'[ns].gen = event.activated
      BY <2>1, <2>2, <2>3, <2>5
    <3>5. old = <<>> <=> Len(old) = 0
      BY <3>1
    <3> HIDE DEF old, new
    <3>6. ASSUME NEW i \in DOMAIN new
          PROVE  new[i].previous = IF i = 1 THEN NoGeneration ELSE new[i - 1].activated
      <4>1. CASE i \in 1 .. Len(old)
        BY <3>1, <3>2, <3>3, <4>1
      <4>2. CASE i = Len(old) + 1
        BY <2>2, <2>5, <3>1, <3>2, <3>3, <3>5, <4>2
      <4> QED
        BY <3>1, <3>2, <3>6, <4>1, <4>2
    <3>7. new # <<>> /\ pointer'[ns].gen = new[Len(new)].activated
      BY <3>1, <3>2, <3>4
    <3> QED
      BY <3>6, <3>7 DEF new
  <2> QED
    BY <2>4, <2>5
<1> QED
  BY <1>1, <1>2

\* The outbox of a namespace is the unbroken history of its pointer, from no
\* generation to the active one, for any number of concurrent publications and
\* rollbacks (publication_audit_outbox, written in the transaction of the change).
THEOREM OutboxHistory == Spec => []OutboxIsHistory
<1>1. Init => OutboxIsHistory
  BY DEF Init, OutboxIsHistory
<1>2. IInv /\ OutboxIsHistory /\ [Next]_vars => OutboxIsHistory'
  BY HistoryStep
<1> QED
  BY <1>1, <1>2, Invariance, PTL DEF Spec

-----------------------------------------------------------------------------
(* Refusals *)

\* A refused call is over, without a generation row; an event belongs to a call
\* that was made, was not refused, and has passed its commit.
OutcomeInv ==
  /\ \A c \in refused : c <= calls /\ status[c] = "none"
  /\ \A p \in Callers : pc[p] # "idle" => call[p] \notin refused
  /\ \A ns \in Namespaces : \A i \in DOMAIN outbox[ns] :
       /\ outbox[ns][i].id <= calls
       /\ outbox[ns][i].id \notin refused
       /\ \A p \in Callers : pc[p] \notin {"idle", "committed"} => outbox[ns][i].id # call[p]

\* A refusal ends a call that has not committed: its number has no row and no event.
LEMMA RefuseOutcome ==
  ASSUME IInv, OutcomeInv, NEW p \in Callers, pc[p] \notin {"idle", "committed"}, Refuse(p)
  PROVE  OutcomeInv'
<1> USE DEF Refuse, Finish, db
<1>1. call[p] \in 1 .. calls /\ status[call[p]] = "none" /\ calls \in Nat
  BY DEF IInv, TypeOK, CallInv
<1>2. \A c \in refused' : c <= calls' /\ status'[c] = "none"
  BY <1>1 DEF OutcomeInv
<1>3. \A q \in Callers : pc'[q] # "idle" => call'[q] \notin refused'
  BY DEF IInv, TypeOK, CallInv, OutcomeInv
<1>4. ASSUME NEW ns \in Namespaces, NEW i \in DOMAIN outbox'[ns]
      PROVE  /\ outbox'[ns][i].id <= calls' /\ outbox'[ns][i].id \notin refused'
             /\ \A q \in Callers : pc'[q] \notin {"idle", "committed"} =>
                  outbox'[ns][i].id # call'[q]
  BY <1>4 DEF IInv, TypeOK, OutcomeInv
<1> QED
  BY <1>2, <1>3, <1>4 DEF OutcomeInv

\* A step that refuses nobody, stores nothing and opens no call keeps every outcome.
LEMMA QuietOutcome ==
  ASSUME IInv, OutcomeInv, UNCHANGED <<db, calls, refused>>, NEW p \in Callers,
         \/ Finish(p)
         \/ /\ pc[p] \notin {"idle", "committed"} /\ call' = call
            /\ \E step \in {"begin", "lock", "write", "record", "commit"} :
                 pc' = [pc EXCEPT ![p] = step]
  PROVE  OutcomeInv'
<1>1. \A q \in Callers : pc'[q] # "idle" => pc[q] # "idle" /\ call'[q] = call[q]
  BY DEF IInv, TypeOK, Finish
<1>2. \A q \in Callers : pc'[q] \notin {"idle", "committed"} =>
        pc[q] \notin {"idle", "committed"} /\ call'[q] = call[q]
  BY DEF IInv, TypeOK, Finish
<1> QED
  BY <1>1, <1>2 DEF OutcomeInv, db

\* A new call has a number that no refusal and no event carries.
LEMMA NewCallOutcome ==
  ASSUME IInv, OutcomeInv, NEW p \in Callers, NEW r \in Request,
         StartCall(p, r) \/ RejectPlan(p, r)
  PROVE  OutcomeInv'
<1>1. /\ calls \in Nat /\ calls' = calls + 1 /\ calls + 1 \in Generations
      /\ UNCHANGED db /\ refused \subseteq Calls
  BY CallBoundAssumption DEF StartCall, RejectPlan, IInv, TypeOK, Generations, Calls
<1>2. status[calls + 1] = "none" /\ \A c \in refused : c \in Nat
  BY <1>1 DEF IInv, CallInv, Calls
<1>3. ASSUME NEW ns \in Namespaces, NEW i \in DOMAIN outbox[ns]
      PROVE  /\ outbox[ns][i].id <= calls' /\ outbox[ns][i].id # calls + 1
             /\ outbox[ns][i].id \notin refused
  <2>1. outbox[ns] \in Seq(Event)
    BY DEF IInv, TypeOK
  <2>2. outbox[ns][i] \in Event
    BY <2>1, <1>3
  <2>3. outbox[ns][i].id \in Nat
    BY <2>2 DEF Event, Calls
  <2>4. outbox[ns][i].id <= calls /\ outbox[ns][i].id \notin refused
    BY DEF OutcomeInv
  <2> QED
    BY <1>1, <2>3, <2>4
<1>4. \A c \in refused : c <= calls' /\ c # calls + 1 /\ status[c] = "none"
  BY <1>1, <1>2 DEF OutcomeInv
<1>5. CASE StartCall(p, r)
  <2>1. \A q \in Callers : \/ pc'[q] = pc[q] /\ call'[q] = call[q]
                           \/ call'[q] = calls + 1
    BY <1>5 DEF StartCall, IInv, TypeOK
  <2>2. refused' = refused /\ outbox' = outbox /\ status' = status
    BY <1>5 DEF StartCall, db
  <2> QED
    BY <1>3, <1>4, <2>1, <2>2 DEF OutcomeInv
<1>6. CASE RejectPlan(p, r)
  <2>1. \A q \in Callers : pc[q] # "idle" => call[q] # calls + 1
    BY <1>1 DEF IInv, CallInv
  <2>2. /\ refused' = refused \cup {calls + 1} /\ outbox' = outbox /\ status' = status
        /\ pc' = pc /\ call' = call
    BY <1>6 DEF RejectPlan, db
  <2> QED
    BY <1>1, <1>2, <1>3, <1>4, <2>1, <2>2 DEF OutcomeInv
<1> QED
  BY <1>5, <1>6

\* The commit of p writes one event, with p's own number, and gives a status to
\* p's generation, to its rollback target and to the one it replaces: none of a
\* refused call.
LEMMA CommitOutcome ==
  ASSUME IInv, OutcomeInv, NEW p \in Callers, Commit(p)
  PROVE  OutcomeInv'
<1> DEFINE r == req[p]
           g == Activated(r, call[p])
           event == [id |-> call[p], op |-> r.op, kind |-> r.kind,
                     previous |-> r.expected, activated |-> g, contents |-> Contents(r)]
<1>1. /\ pc[p] = "commit" /\ pc' = [pc EXCEPT ![p] = "committed"]
      /\ status' = [h \in Generations |-> IF h = g THEN "active"
                                 ELSE IF h = r.expected THEN "retired" ELSE status[h]]
      /\ outbox' = [outbox EXCEPT ![r.ns] = Append(@, event)]
      /\ UNCHANGED <<call, calls, refused>>
  BY DEF Commit, Statuses
<1>2. /\ r.ns \in Namespaces /\ r.expected = pointer[r.ns].gen
      /\ status[g] \in {"none", "retired"} /\ g \in Generations
      /\ r.expected # NoGeneration => status[r.expected] = "active"
      /\ r \in Request /\ call[p] \in 1 .. calls
  BY <1>1, ActivatedFacts DEF IInv, PointerInv, CallInv
<1>3. g = call[p] \/ status[g] = "retired"
  BY <1>1 DEF IInv, LockInv, HoldsPointer, CallInv, Activated, Request,
     PublishRequest, RollbackRequest
<1>4. event.id = call[p] /\ call[p] \notin refused
  BY <1>1 DEF OutcomeInv
<1> HIDE DEF r, g, event
<1>5. ASSUME NEW c \in refused'
      PROVE  c <= calls' /\ status'[c] = "none"
  <2>1. c \in Generations /\ c <= calls /\ status[c] = "none"
    BY <1>1 DEF IInv, TypeOK, OutcomeInv, Generations
  <2>2. c # NoGeneration
    BY <2>1, CallBoundAssumption DEF NoGeneration, Generations, Calls
  <2>3. c # g /\ c # r.expected
    BY <1>1, <1>2, <1>3, <1>4, <2>1, <2>2
  <2> QED
    BY <1>1, <2>1, <2>3
<1>6. \A q \in Callers : pc'[q] # "idle" => call'[q] \notin refused'
  BY <1>1 DEF IInv, TypeOK, OutcomeInv
<1>7. ASSUME NEW ns \in Namespaces, NEW i \in DOMAIN outbox'[ns]
      PROVE  outbox'[ns][i] = event \/ (i \in DOMAIN outbox[ns] /\ outbox'[ns][i] = outbox[ns][i])
  <2>1. outbox[ns] \in Seq(Event) /\ Len(outbox[ns]) \in Nat
        /\ DOMAIN outbox[ns] = 1 .. Len(outbox[ns])
    BY DEF IInv, TypeOK
  <2>2. outbox'[ns] = outbox[ns] \/ outbox'[ns] = Append(outbox[ns], event)
    BY <1>1, <1>2 DEF IInv, TypeOK
  <2>3. CASE outbox'[ns] = Append(outbox[ns], event)
    BY <1>7, <2>1, <2>3
  <2> QED
    BY <1>7, <2>2, <2>3
<1>8. \A q \in Callers : pc'[q] \notin {"idle", "committed"} =>
        pc[q] \notin {"idle", "committed"} /\ call[q] # call[p]
  BY <1>1 DEF IInv, TypeOK, CallInv
<1>9. ASSUME NEW ns \in Namespaces, NEW i \in DOMAIN outbox'[ns]
      PROVE  /\ outbox'[ns][i].id <= calls' /\ outbox'[ns][i].id \notin refused'
             /\ \A q \in Callers : pc'[q] \notin {"idle", "committed"} =>
                  outbox'[ns][i].id # call'[q]
  <2>1. CASE outbox'[ns][i] = event
    BY <1>1, <1>2, <1>4, <1>8, <2>1
  <2>2. CASE i \in DOMAIN outbox[ns] /\ outbox'[ns][i] = outbox[ns][i]
    BY <1>1, <1>8, <2>2 DEF OutcomeInv
  <2> QED
    BY <1>7, <2>1, <2>2
<1> QED
  BY <1>5, <1>6, <1>9 DEF OutcomeInv

\* Every step preserves the outcomes.
LEMMA OutcomeStep ==
  ASSUME IInv, OutcomeInv, [Next]_vars
  PROVE  OutcomeInv'
<1>1. ASSUME NEW p \in Callers, NEW r \in Request, StartCall(p, r) \/ RejectPlan(p, r)
      PROVE  OutcomeInv'
  BY <1>1, NewCallOutcome
<1>2. ASSUME NEW p \in Callers, pc[p] \in {"lookup", "begin"}, ReplayStored(p)
      PROVE  OutcomeInv'
  BY <1>2, QuietOutcome, RefuseOutcome DEF ReplayStored
<1>3. ASSUME NEW p \in Callers, Step(p)
      PROVE  OutcomeInv'
  <2>1. CASE LookUp(p)
    BY <2>1, <1>2, QuietOutcome DEF LookUp, Advance
  <2>2. CASE BeginTransaction(p)
    BY <2>2, <1>2, QuietOutcome DEF BeginTransaction, Advance
  <2>3. CASE LockPointer(p) \/ WritePointer(p) \/ RecordOperation(p)
    BY <2>3, RefuseOutcome, QuietOutcome DEF LockPointer, WritePointer, RecordOperation, Advance
  <2>4. CASE Acknowledge(p)
    BY <2>4, QuietOutcome DEF Acknowledge
  <2> QED
    BY <1>3, <2>1, <2>2, <2>3, <2>4, CommitOutcome DEF Step
<1>4. ASSUME NEW p \in Callers, Fail(p) \/ SerializationFailure(p)
      PROVE  OutcomeInv'
  BY <1>4, QuietOutcome, RefuseOutcome DEF Fail, SerializationFailure
<1>5. CASE UNCHANGED vars \/ \E d \in Documents : Expire(d)
  BY <1>5 DEF vars, Expire, db, OutcomeInv
<1> QED
  BY <1>1, <1>3, <1>4, <1>5 DEF Next, Rest, Request

\* A call that was told of a conflict or of an invalid plan has left no generation
\* and no event, although others committed around it (PublicationConflict and
\* PublicationValidationError are raised before COMMIT, never after it).
THEOREM RefusedCallsLeaveNothing == Spec => []RefusedMeansNoEffect
<1>1. Init => OutcomeInv
  BY DEF Init, OutcomeInv
<1>2. IInv /\ OutcomeInv /\ [Next]_vars => OutcomeInv'
  BY OutcomeStep
<1>3. OutcomeInv => RefusedMeansNoEffect
  BY DEF OutcomeInv, RefusedMeansNoEffect
<1> QED
  BY <1>1, <1>2, <1>3, Invariance, PTL DEF Spec

-----------------------------------------------------------------------------
(* The refinement *)

\* The empty database maps to the register before the first decision.
LEMMA InitRegister == Init => Register!Init
BY DEF Init, Register!Init

\* COMMIT decides the operation.
LEMMA CommitDecides ==
  ASSUME IInv, NEW p \in Callers, Commit(p)
  PROVE  Register!Decide(req[p].op, req[p].ns, Activated(req[p], call[p]))
<1> DEFINE r == req[p]
           prev == r.expected
           g == Activated(r, call[p])
           row == [op |-> r.op, ns |-> r.ns, digest |-> OperationDigest(r),
                   previous |-> prev, activated |-> g, contents |-> Contents(r)]
<1>1. /\ pc[p] = "commit" /\ g # prev /\ prev = pointer[r.ns].gen /\ r.ns \in Namespaces
      /\ pointer' = [pointer EXCEPT ![r.ns] = [gen |-> g, contents |-> Contents(r)]]
      /\ operations' = operations \cup {row}
      /\ answered' = answered
  BY ActivatedFacts DEF Commit
<1>2. pointer \in [Namespaces -> [gen: Generations \cup {NoGeneration},
                                  contents: (Namespaces \X Documents) \cup {<<>>}]]
  BY DEF IInv, TypeOK
<1>3. \A o \in operations : o.op # r.op
  BY <1>1 DEF IInv, LockInv, HoldsOperation, Done
<1>4. Decided(row) = [op |-> r.op, ns |-> r.ns, previous |-> prev, activated |-> g]
  BY DEF Decided
<1> HIDE DEF r, g, row
<1>5. [ns \in Namespaces |-> pointer[ns].gen]' =
        [[ns \in Namespaces |-> pointer[ns].gen] EXCEPT ![r.ns] = g]
  BY <1>1, <1>2
<1>6. {Decided(o) : o \in operations}' = {Decided(o) : o \in operations} \cup {Decided(row)}
  BY <1>1
<1>7. \A d \in {Decided(o) : o \in operations} : d.op # r.op
  BY <1>3 DEF Decided
<1>8. {Decided(o) : o \in answered}' = {Decided(o) : o \in answered}
  BY <1>1
<1> QED
  BY <1>1, <1>4, <1>5, <1>6, <1>7, <1>8 DEF Register!Decide, r, g

\* Returning the stored result answers with its decision.
LEMMA MatchingAnswers ==
  ASSUME IInv, NEW p \in Callers, answered' = answered \cup Matching(req[p]), UNCHANGED db
  PROVE  UNCHANGED Register!vars \/ \E d \in {Decided(o) : o \in operations} : Register!Answer(d)
<1>1. CASE Matching(req[p]) = {}
  BY <1>1 DEF Register!vars, db
<1>2. CASE Matching(req[p]) # {}
  <2>1. PICK o \in Matching(req[p]) : TRUE
    BY <1>2
  <2>2. o \in operations /\ Matching(req[p]) = {o}
    BY <2>1 DEF IInv, OperationsAreUnique, Matching, Done
  <2>3. Register!Answer(Decided(o))
    BY <2>2 DEF Register!Answer, db
  <2> QED
    BY <2>2, <2>3
<1> QED
  BY <1>1, <1>2

\* Every step of the repository is a step of the register or a stutter.
LEMMA NextRegister == IInv /\ [Next]_vars => [Register!Next]_(Register!vars)
<1> SUFFICES ASSUME IInv, [Next]_vars PROVE [Register!Next]_(Register!vars)
  OBVIOUS
<1>1. ASSUME NEW p \in Callers, Commit(p) PROVE Register!Next
  <2>1. req[p].op \in OperationIds /\ req[p].ns \in Namespaces
        /\ Activated(req[p], call[p]) \in Generations
    BY <1>1, ActivatedFacts DEF Commit, Request, PublishRequest, RollbackRequest
  <2>2. Register!Decide(req[p].op, req[p].ns, Activated(req[p], call[p]))
    BY <1>1, CommitDecides
  <2> QED
    BY <2>1, <2>2 DEF Register!Next, Register!Decide
<1>2. ASSUME UNCHANGED <<db, answered>> PROVE UNCHANGED Register!vars
  BY <1>2 DEF Register!vars, db
<1>3. ASSUME NEW p \in Callers, Acknowledge(p) \/ ReplayStored(p)
      PROVE  [Register!Next]_(Register!vars)
  <2>1. CASE answered' = answered \cup Matching(req[p]) /\ UNCHANGED db
    BY <2>1, MatchingAnswers DEF Register!Next
  <2>2. CASE UNCHANGED <<db, answered>>
    BY <1>2, <2>2
  <2> QED
    BY <1>3, <2>1, <2>2 DEF Acknowledge, ReplayStored, Refuse
<1>4. CASE /\ \A p \in Callers : ~Commit(p) /\ ~Acknowledge(p) /\ ~ReplayStored(p)
  <2>1. UNCHANGED <<db, answered>>
    BY <1>4, OnlyCommitWrites DEF Next, vars, Step, StartCall, RejectPlan, LookUp,
       BeginTransaction, LockPointer, WritePointer, RecordOperation, Fail,
       SerializationFailure, Expire, Rest, Refuse, Advance, db
  <2> QED
    BY <2>1, <1>2
<1> QED
  BY <1>1, <1>3, <1>4

\* The repository under concurrent callers, failures and repeats implements the
\* register of GenerationRegister.
THEOREM Implements == Spec => ImplementsRegister
<1>1. Init => Register!Init
  BY InitRegister
<1>2. IInv /\ [Next]_vars => [Register!Next]_(Register!vars)
  BY NextRegister
<1> QED
  BY <1>1, <1>2, Invariance, PTL DEF Spec, ImplementsRegister, Register!Spec
=============================================================================
