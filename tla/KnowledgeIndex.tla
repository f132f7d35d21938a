--------------------------- MODULE KnowledgeIndex ---------------------------
(***************************************************************************)
(* Publication and rollback of knowledge-index generations:                *)
(* KnowledgeIndexPublisher (knowledge/indexing/publisher.py) over          *)
(* PostgresKnowledgeIndexRepository                                        *)
(* (infrastructure/postgres/knowledge_repository.py) and the tables of     *)
(* postgres/sql/0001_knowledge_schema.sql, for one customer database.      *)
(*                                                                         *)
(* A call of publish or rollback runs two transactions: a lookup of the    *)
(* operation id, then a SERIALIZABLE one that repeats the lookup, locks    *)
(* the namespace's pointer row, compares it with the id the caller         *)
(* expects, writes, and commits.  Calls of several callers interleave at   *)
(* every statement that another transaction can see or be made to wait     *)
(* by.  PostgreSQL is modelled as the code uses it: a transaction's        *)
(* snapshot, row and unique-key locks that are held to its end, a          *)
(* serialization failure when a row it needs has changed since its         *)
(* snapshot, and a unique violation.                                       *)
(*                                                                         *)
(* Content is abstract: a member of Documents stands for the tuple of      *)
(* prepared bundles of a call, and for its digest.                         *)
(***************************************************************************)
EXTENDS Naturals, Sequences

CONSTANTS
  Callers,        \* publisher processes, each makes one call at a time
  Namespaces,     \* index namespaces of the customer
  OperationIds,   \* operation ids callers choose (and reuse)
  Documents,      \* contents that can be published
  MaxCalls        \* bound: calls of publish and rollback in a behaviour

ASSUME CallBoundAssumption == MaxCalls \in Nat

NoGeneration == 0
Calls == 1 .. MaxCalls

\* Generation and outbox UUIDs come from id_factory(), fresh in every call:
\* the number of the call stands for both.
Generations == Calls

VARIABLES
  \* The committed database
  pointer,        \* active_generations: namespace -> generation id and digest
  status,         \* generations.status, "none" for an id with no row
  manifest,       \* generations: id -> <<namespace, content>>, <<>> if no row
  operations,     \* operations: the rows
  outbox,         \* publication_audit_outbox: namespace -> rows, in commit order
  \* The callers
  pc,             \* the step a caller's call has reached, "idle" between calls
  req,            \* the arguments of its call
  call,           \* the number of its call
  base,           \* pointer changes of the namespace its snapshot contains
  calls,          \* calls made so far
  expired,        \* contents whose effective_to the clock has passed
  answered,       \* history: results returned to callers
  refused         \* history: calls that raised a conflict or validation error

db == <<pointer, status, manifest, operations, outbox>>
vars == <<pointer, status, manifest, operations, outbox,
          pc, req, call, base, calls, expired, answered, refused>>

-----------------------------------------------------------------------------
PublishRequest == [kind: {"publish"}, op: OperationIds, ns: Namespaces,
                   body: Documents, expected: Generations \cup {NoGeneration}]
RollbackRequest == [kind: {"rollback"}, op: OperationIds, ns: Namespaces,
                    body: Generations, expected: Generations]

NoRequest == [kind |-> "none"]

\* The digest of the scope and of the content or the rollback target.
OperationDigest(r) == [kind |-> r.kind, ns |-> r.ns, body |-> r.body]

\* The rows that the lookups and the primary key of operations find for an id.
Done(op) == {o \in operations : o.op = op}
Matching(r) == {o \in Done(r.op) : o.digest = OperationDigest(r)}

\* Definitions named ...Without..., ...Leaving..., ...AsRequested and so on are faulty variants
\* of the definition after them; no specification uses them.  They show that the properties
\* tell the code from a plausible mistake in it.

\* The generation a call activates: its own fresh one, or its target.
Activated(r, c) == IF r.kind = "publish" THEN c ELSE r.body

\* The content that becomes active, as the pointer row carries it.
Contents(r) == IF r.kind = "publish" THEN <<r.ns, r.body>> ELSE manifest[r.body]

\* Commits of the namespace's pointer so far: the version of its row.
Version(ns) == Len(outbox[ns])
ChangedSinceSnapshotUnnoticed(p) == FALSE
ChangedSinceSnapshot(p) == Version(req[p].ns) # base[p]

\* Who holds the row lock of a pointer row and the unique key of an operation:
\* taken at a statement, released when the transaction ends.
HoldsPointer(p) == (pc[p] = "write" /\ base[p] > 0) \/ pc[p] \in {"record", "commit"}
HoldsOperation(p) == pc[p] = "commit"
PointerFree(p) == \A q \in Callers \ {p} : ~(HoldsPointer(q) /\ req[q].ns = req[p].ns)
OperationFreeWithoutKey(p) == TRUE
OperationFreeByRequest(p) ==
  \A q \in Callers \ {p} : ~(pc[q] \in {"write", "record", "commit"} /\ req[q].op = req[p].op)
OperationFree(p) == \A q \in Callers \ {p} : ~(HoldsOperation(q) /\ req[q].op = req[p].op)

-----------------------------------------------------------------------------
Init ==
  /\ pointer = [ns \in Namespaces |-> [gen |-> NoGeneration, contents |-> <<>>]]
  /\ status = [g \in Generations |-> "none"]
  /\ manifest = [g \in Generations |-> <<>>]
  /\ operations = {}
  /\ outbox = [ns \in Namespaces |-> <<>>]
  /\ pc = [p \in Callers |-> "idle"]
  /\ req = [p \in Callers |-> NoRequest]
  /\ call = [p \in Callers |-> 0]
  /\ base = [p \in Callers |-> 0]
  /\ calls = 0
  /\ expired = {}
  /\ answered = {}
  /\ refused = {}

\* The call of p is over and its locals, locks and snapshot are gone.
Finish(p) == /\ pc' = [pc EXCEPT ![p] = "idle"]
             /\ req' = [req EXCEPT ![p] = NoRequest]
             /\ call' = [call EXCEPT ![p] = 0]
             /\ base' = [base EXCEPT ![p] = 0]

Refuse(p) == /\ Finish(p)
             /\ refused' = refused \cup {call[p]}
             /\ UNCHANGED <<db, calls, expired, answered>>

\* Only p's call moves on, to its next step.
Advance(p, step) == /\ pc' = [pc EXCEPT ![p] = step]
                    /\ UNCHANGED <<db, req, call, calls, expired, answered, refused>>

-----------------------------------------------------------------------------
\* build_plan refuses the content of a publish, before anything is looked up.
PlanInvalid(r) == r.kind = "publish" /\ r.body \in expired

StartCall(p, r) ==
  /\ pc[p] = "idle" /\ calls < MaxCalls
  /\ ~PlanInvalid(r)
  /\ calls' = calls + 1
  /\ pc' = [pc EXCEPT ![p] = "lookup"]
  /\ req' = [req EXCEPT ![p] = r]
  /\ call' = [call EXCEPT ![p] = calls + 1]
  /\ UNCHANGED <<db, base, expired, answered, refused>>

RejectPlan(p, r) ==
  /\ pc[p] = "idle" /\ calls < MaxCalls
  /\ PlanInvalid(r)
  /\ calls' = calls + 1
  /\ refused' = refused \cup {calls + 1}
  /\ UNCHANGED <<db, pc, req, call, base, expired, answered>>

\* The operation id is known: the stored result answers the call if it is of
\* the same kind and digest, and conflicts with it otherwise.
ReplayStored(p) ==
  \/ /\ Matching(req[p]) # {}
     /\ Finish(p)
     /\ answered' = answered \cup Matching(req[p])
     /\ UNCHANGED <<db, calls, expired, refused>>
  \/ /\ Done(req[p].op) # {} /\ Matching(req[p]) = {}
     /\ Refuse(p)

\* get_operation_result, a transaction of its own.
LookUp(p) ==
  /\ pc[p] = "lookup"
  /\ \/ ReplayStored(p)
     \/ Done(req[p].op) = {} /\ Advance(p, "begin") /\ UNCHANGED base

\* The SERIALIZABLE transaction takes its snapshot with its first query and
\* repeats the lookup in it.
BeginTransaction(p) ==
  /\ pc[p] = "begin"
  /\ \/ ReplayStored(p)
     \/ /\ Done(req[p].op) = {}
        /\ Advance(p, "lock")
        /\ base' = [base EXCEPT ![p] = Version(req[p].ns)]

\* What the compare-and-swap, and the target lookup of a rollback, require.
Admissible(r) ==
  /\ pointer[r.ns].gen = r.expected
  /\ r.kind = "rollback" => status[r.body] = "retired" /\ manifest[r.body][1] = r.ns

\* SELECT ... FOR UPDATE of the pointer row: waits for its lock, fails if the
\* row has changed since the snapshot; with no row in the snapshot it locks
\* nothing and the expected id must be None.
LockPointer(p) ==
  /\ pc[p] = "lock"
  /\ base[p] > 0 => PointerFree(p)
  /\ \/ /\ base[p] > 0 => ~ChangedSinceSnapshot(p) /\ Admissible(req[p])
        /\ base[p] = 0 => req[p].expected = NoGeneration
        /\ Advance(p, "write") /\ UNCHANGED base
     \/ /\ base[p] > 0 => ChangedSinceSnapshot(p) \/ ~Admissible(req[p])
        /\ base[p] = 0 => req[p].expected # NoGeneration
        /\ Refuse(p)

\* The generation rows and the pointer.  A first publication only meets a
\* concurrent one here, at the unique key of the pointer row.
WritePointer(p) ==
  /\ pc[p] = "write"
  /\ PointerFree(p)
  /\ \/ ~ChangedSinceSnapshot(p) /\ Advance(p, "record") /\ UNCHANGED base
     \/ ChangedSinceSnapshot(p) /\ Refuse(p)

\* INSERT into operations (and the outbox): waits for a transaction that has
\* inserted the same id, and fails on a committed row with it.
RecordOperation(p) ==
  /\ pc[p] = "record"
  /\ OperationFree(p)
  /\ \/ Done(req[p].op) = {} /\ Advance(p, "commit") /\ UNCHANGED base
     \/ Done(req[p].op) # {} /\ Refuse(p)

\* The status column after generation g has replaced prev.
StatusesLeavingPrevious(g, prev) == [status EXCEPT ![g] = "active"]
Statuses(g, prev) ==
  [h \in Generations |-> IF h = g THEN "active" ELSE IF h = prev THEN "retired" ELSE status[h]]

\* COMMIT: the transaction's writes become visible together.  The
\* previous generation is the one the compare-and-swap has read.
Commit(p) ==
  LET r == req[p]
      prev == r.expected
      g == Activated(r, call[p])
      row == [op |-> r.op, ns |-> r.ns, digest |-> OperationDigest(r),
              previous |-> prev, activated |-> g, contents |-> Contents(r)]
      event == [id |-> call[p], op |-> r.op, kind |-> r.kind,
                previous |-> prev, activated |-> g, contents |-> Contents(r)]
  IN
  /\ pc[p] = "commit"
  /\ pointer' = [pointer EXCEPT ![r.ns] = [gen |-> g, contents |-> Contents(r)]]
  /\ status' = Statuses(g, prev)
  /\ manifest' = [manifest EXCEPT ![g] = Contents(r)]
  /\ operations' = operations \cup {row}
  /\ outbox' = [outbox EXCEPT ![r.ns] = Append(@, event)]
  /\ pc' = [pc EXCEPT ![p] = "committed"]
  /\ UNCHANGED <<req, call, base, calls, expired, answered, refused>>

\* The acknowledgement of COMMIT arrives and the result is returned.
Acknowledge(p) ==
  /\ pc[p] = "committed"
  /\ Finish(p)
  /\ answered' = answered \cup Matching(req[p])
  /\ UNCHANGED <<db, calls, expired, refused>>

\* A timeout, a lost connection or acknowledgement, a cancellation or a crash:
\* an open transaction is rolled back, a committed one stays, and the caller
\* is told that storage is unavailable, or nothing.
Fail(p) ==
  /\ pc[p] # "idle"
  /\ Finish(p)
  /\ UNCHANGED <<db, calls, expired, answered, refused>>

\* PostgreSQL may fail any open SERIALIZABLE transaction with a serialization
\* failure; the repository reports it as a conflict.
SerializationFailureAfterCommit(p) ==
  pc[p] \in {"lock", "write", "record", "commit", "committed"} /\ Refuse(p)
SerializationFailure(p) ==
  /\ pc[p] \in {"lock", "write", "record", "commit"}
  /\ Refuse(p)

\* The clock passes the effective_to of a content.
Expire(d) == /\ d \notin expired
             /\ expired' = expired \cup {d}
             /\ UNCHANGED <<db, pc, req, call, base, calls, answered, refused>>

\* All the calls of the bound were made and have returned.
Rest == /\ calls = MaxCalls
        /\ \A p \in Callers : pc[p] = "idle"
        /\ UNCHANGED vars

-----------------------------------------------------------------------------
\* Callers know the generation ids that were issued.
KnownTo(r) == /\ r.expected <= calls
              /\ r.kind = "rollback" => r.body <= calls

Step(p) == \/ LookUp(p) \/ BeginTransaction(p) \/ LockPointer(p) \/ WritePointer(p)
           \/ RecordOperation(p) \/ Commit(p) \/ Acknowledge(p)

Next ==
  \/ \E p \in Callers :
       \/ \E r \in PublishRequest \cup RollbackRequest :
            KnownTo(r) /\ (StartCall(p, r) \/ RejectPlan(p, r))
       \/ Step(p)
       \/ Fail(p)
       \/ SerializationFailure(p)
  \/ \E d \in Documents : Expire(d)
  \/ Rest

Spec == Init /\ [][Next]_vars

-----------------------------------------------------------------------------
(* Properties *)

Digest == [kind: {"publish", "rollback"}, ns: Namespaces, body: Documents \cup Generations]
Row == [op: OperationIds, ns: Namespaces, digest: Digest,
        previous: Generations \cup {NoGeneration}, activated: Generations,
        contents: Namespaces \X Documents]
Event == [id: Calls, op: OperationIds, kind: {"publish", "rollback"},
          previous: Generations \cup {NoGeneration}, activated: Generations,
          contents: Namespaces \X Documents]

\* The shape of the database and of the calls.
TypeOK ==
  /\ pointer \in [Namespaces -> [gen: Generations \cup {NoGeneration},
                                 contents: (Namespaces \X Documents) \cup {<<>>}]]
  /\ status \in [Generations -> {"none", "active", "retired"}]
  /\ manifest \in [Generations -> (Namespaces \X Documents) \cup {<<>>}]
  /\ operations \subseteq Row
  /\ outbox \in [Namespaces -> Seq(Event)]
  /\ pc \in [Callers -> {"idle", "lookup", "begin", "lock", "write", "record",
                         "commit", "committed"}]
  /\ req \in [Callers -> PublishRequest \cup RollbackRequest \cup {NoRequest}]
  /\ call \in [Callers -> Calls \cup {0}]
  /\ base \in [Callers -> Nat]
  /\ calls \in 0 .. MaxCalls
  /\ expired \subseteq Documents
  /\ answered \subseteq operations
  /\ refused \subseteq Calls

\* In every namespace exactly the generation the pointer row names is active,
\* and the pointer carries that generation's own digest: the status columns and
\* the pointer are written by separate statements of concurrent transactions.
ActiveIsPointed ==
  \A ns \in Namespaces :
    /\ {g \in Generations : status[g] = "active" /\ manifest[g][1] = ns}
         = {pointer[ns].gen} \ {NoGeneration}
    /\ pointer[ns].gen # NoGeneration =>
         pointer[ns].contents = manifest[pointer[ns].gen]

\* The outbox of a namespace is the whole history of its pointer: each event
\* starts where the one before it ended and the last one ends at the pointer.
\* A lost update between two publishers breaks the chain.
OutboxIsHistory ==
  \A ns \in Namespaces :
    LET box == outbox[ns] IN
    /\ \A i \in DOMAIN box :
         box[i].previous = IF i = 1 THEN NoGeneration ELSE box[i - 1].activated
    /\ pointer[ns].gen = IF box = <<>> THEN NoGeneration ELSE box[Len(box)].activated

\* An operation id completes at most once, whatever callers share or repeat it,
\* in whatever namespace.
OperationsAreUnique == \A o1, o2 \in operations : o1.op = o2.op => o1 = o2

\* A call that raised a conflict or a validation error has left nothing behind:
\* no event, and no generation with its id.  (One that found storage unavailable
\* may have committed.)
RefusedMeansNoEffect ==
  \A c \in refused : /\ status[c] = "none"
                     /\ \A ns \in Namespaces : \A i \in DOMAIN outbox[ns] :
                          outbox[ns][i].id # c

\* A transaction that is about to commit still sees the pointer its caller
\* expected, at the version of its snapshot: nothing moved in between.
CommitSeesExpected ==
  \A p \in Callers : pc[p] \in {"record", "commit"} =>
    /\ pointer[req[p].ns].gen = req[p].expected
    /\ ~ChangedSinceSnapshot(p)

\* Callers never wait for each other in a circle of pointer rows and operation ids: while
\* calls are open, one of them can go on without a timeout or a failure.
SomeoneProceeds == (\E p \in Callers : pc[p] # "idle") => \E p \in Callers : ENABLED Step(p)

\* The repository implements the register of the abstract specification.
Decided(o) == [op |-> o.op, ns |-> o.ns,
               previous |-> o.previous, activated |-> o.activated]
Register == INSTANCE GenerationRegister WITH
  current <- [ns \in Namespaces |-> pointer[ns].gen],
  decisions <- {Decided(o) : o \in operations},
  answered <- {Decided(o) : o \in answered}
ImplementsRegister == Register!Spec

\* docs/contracts/knowledge-index-publication.md:46: "Operation IDs are
\* idempotency keys: the same operation and digest returns the original result".
\* A repeated call is refused although its operation is stored with its digest.
ReplayReturnsOriginal ==
  [][\A p \in Callers : \A r \in PublishRequest :
       RejectPlan(p, r) => Matching(r) = {}]_vars
=============================================================================
