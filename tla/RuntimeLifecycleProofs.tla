------------------------- MODULE RuntimeLifecycleProofs -------------------------
(***************************************************************************)
(* Proofs about RuntimeLifecycle, for any number of compositions, of       *)
(* concurrent lifespans and other callers, and of customer environments.   *)
(* IInv is the inductive invariant: who holds the lock and the lease, and  *)
(* what of the resources is open at each point of a startup, a rollback    *)
(* and a shutdown.                                                         *)
(***************************************************************************)
EXTENDS RuntimeLifecycle, TLAPS

\* A claim is held by one attempt until it composes; then the lease is committed.
LeaseInv ==
  \A c \in Composers :
    /\ composer[c] \in {"claimed", "composed", "interrupted"} => token = c
    /\ composer[c] = "composed" => committed
    /\ composer[c] \in {"claimed", "interrupted"} => ~committed

\* The lock is held by the one task that is in the middle of its work.
Busy == {"opening", "rolling_back", "closing"}
LockInv ==
  /\ \A t \in Tasks : task[t] \in Busy <=> lock = t
  /\ lock = Nobody => todo = {} /\ state \notin {"starting", "stopping"}

\* The runtime left state "created" for the startup that is opening or was.
StateInv ==
  /\ state = "created" => \A e \in Leaves : leaf[e] = "fresh"
  /\ state = "ready" => \A e \in Leaves : leaf[e] = "open"
  /\ state = "failed" => rolledBack \/ shutdownAttempted
  /\ rolledBack => state \in {"failed", "closed"}
  /\ state = "stopping" => shutdownAttempted
  /\ state \in {"failed", "closed"} => lock = Nobody
  /\ lock # Nobody => state = IF task[lock] = "closing" THEN "stopping" ELSE "starting"

\* While it opens, what is still to be opened is fresh and the rest is open.
OpeningInv ==
  lock # Nobody /\ task[lock] = "opening" =>
    \A e \in Leaves : leaf[e] = IF e \in todo THEN "fresh" ELSE "open"

\* With rest still to be closed, everything else that is open was skipped, and nothing
\* has closed that comes after rest.
Left(rest) ==
  /\ \A e \in rest : leaf[e] = "open"
  /\ \A e \in Leaves : leaf[e] = "open" => e \in rest \/ Skipped(e)
  /\ \A e \in Leaves, f \in rest : leaf[e] \in {"closed", "stuck"} =>
       Rank(e) >= Rank(f)
ClosingInv == lock # Nobody /\ task[lock] \in {"rolling_back", "closing"} => Left(todo)

\* What has ended has closed everything or skipped it; always in the order of the ranks.
EndedInv == state \in {"failed", "closed"} => \A e \in Leaves : leaf[e] = "open" => Skipped(e)
OrderInv ==
  \A e, f \in Leaves : Rank(e) < Rank(f) /\ leaf[e] \in {"closed", "stuck"} =>
    leaf[f] # "open" \/ Skipped(f)

\* The transport reports ready only after the startup, and, if no other caller shuts
\* the runtime down, until its own lifespan does.
ReadyInv ==
  /\ state \in {"created", "starting"} =>
       ~ready /\ \A t \in Lifespans : task[t] \notin {"serving", "shutdown", "closing"}
  /\ ready /\ (\A t \in Callers : task[t] = "idle") =>
       state = "ready" /\ \A t \in Lifespans : task[t] \notin {"shutdown", "closing"}

IInv == /\ TypeOK /\ LeaseInv /\ LockInv /\ StateInv /\ OpeningInv /\ ClosingInv
        /\ EndedInv /\ OrderInv /\ ReadyInv

-----------------------------------------------------------------------------
(* Resources *)

\* A resource has a rank, and there is always one.
LEMMA Ranks ==
  /\ Leaves # {}
  /\ \A e \in Leaves : Kind(e) \in {"audit", "erp", "laravel", "knowledge", "openai"}
  /\ \A e \in Leaves : Rank(e) \in 1..5
<1>1. Leaves # {}
  BY DEF Leaves
<1>2. \A e \in Leaves : Kind(e) \in {"audit", "erp", "laravel", "knowledge", "openai"}
  BY DEF Leaves, AuditPools, KnowledgePools, Kind
<1> QED
  BY <1>1, <1>2 DEF Rank

\* The next to close is at the end of the order.
LEMMA NextToClose ==
  ASSUME todo \subseteq Leaves, NEW e \in ToClose
  PROVE  /\ e \in todo /\ e \in Leaves
         /\ \A f \in todo : Rank(e) >= Rank(f)
<1>1. e \in todo /\ e \in Leaves /\ \A f \in todo : ClosesFirst(e, f)
  BY DEF ToClose
<1>2. ASSUME NEW f \in todo PROVE Rank(e) >= Rank(f)
  <2>1. Rank(e) \in 1..5 /\ Rank(f) \in 1..5
    BY <1>1, Ranks
  <2>2. Rank(e) > Rank(f) \/ Kind(e) = Kind(f)
    BY <1>1 DEF ClosesFirst
  <2>3. CASE Rank(e) > Rank(f)
    BY <2>1, <2>3
  <2>4. CASE Kind(e) = Kind(f)
    <3>1. Kind(f) \in {"audit", "erp", "laravel", "knowledge", "openai"}
      BY <1>1, Ranks
    <3>2. Rank(e) = Rank(f)
      BY <2>4, <3>1 DEF Rank
    <3> QED
      BY <2>1, <3>2
  <2> QED
    BY <2>2, <2>3, <2>4
<1> QED
  BY <1>1, <1>2

\* What was skipped stays so while nothing gets unstuck.
LEMMA SkippedStays ==
  ASSUME \A x \in Leaves : leaf[x] = "stuck" => leaf'[x] = "stuck", NEW e
  PROVE  Skipped(e) => Skipped(e)'
BY DEF Skipped

\* A resource that closes leaves the rest to do.
LEMMA ClosedLeft ==
  ASSUME TypeOK, Left(todo), NEW e \in ToClose, Closed(e), todo' = todo \ {e}
  PROVE  Left(todo)'
<1>1. /\ e \in todo /\ e \in Leaves /\ todo \subseteq Leaves
      /\ \A f \in todo : Rank(e) >= Rank(f)
  BY NextToClose DEF TypeOK
<1>2. \A x \in Leaves : leaf'[x] = IF x = e THEN "closed" ELSE leaf[x]
  BY <1>1 DEF TypeOK, Closed
<1>3. leaf[e] = "open"
  BY <1>1 DEF Left
<1>4. \A x : Skipped(x) => Skipped(x)'
  BY <1>2, <1>3, SkippedStays
<1>5. \A f \in todo' : leaf'[f] = "open"
  BY <1>1, <1>2 DEF Left
<1>6. \A f \in Leaves : leaf'[f] = "open" => f \in todo' \/ Skipped(f)'
  BY <1>2, <1>4 DEF Left
<1>7. \A g \in Leaves, f \in todo' : leaf'[g] \in {"closed", "stuck"} => Rank(g) >= Rank(f)
  BY <1>1, <1>2 DEF Left
<1> QED
  BY <1>5, <1>6, <1>7 DEF Left

\* One that does not leaves the rest of its router, skipped, and the other resources.
LEMMA StuckLeft ==
  ASSUME TypeOK, Left(todo), NEW e \in ToClose, Stuck(e), todo' = Skipping(e)
  PROVE  Left(todo)'
<1>1. /\ e \in todo /\ e \in Leaves /\ todo \subseteq Leaves
      /\ \A f \in todo : Rank(e) >= Rank(f)
  BY NextToClose DEF TypeOK
<1>2. \A x \in Leaves : leaf'[x] = IF x = e THEN "stuck" ELSE leaf[x]
  BY <1>1 DEF TypeOK, Stuck
<1>3. \A f : f \in todo' <=> f \in todo /\ Kind(f) # Kind(e)
  BY DEF Skipping
<1>4. \A x : Skipped(x) => Skipped(x)'
  BY <1>2, SkippedStays
<1>5. \A x : Kind(x) = Kind(e) => Skipped(x)'
  BY <1>1, <1>2 DEF Skipped
<1>6. \A f \in todo' : leaf'[f] = "open"
  BY <1>1, <1>2, <1>3 DEF Left
<1>7. \A f \in Leaves : leaf'[f] = "open" => f \in todo' \/ Skipped(f)'
  BY <1>2, <1>3, <1>4, <1>5 DEF Left
<1>8. \A g \in Leaves, f \in todo' : leaf'[g] \in {"closed", "stuck"} => Rank(g) >= Rank(f)
  BY <1>1, <1>2, <1>3 DEF Left
<1> QED
  BY <1>6, <1>7, <1>8 DEF Left

\* The order of the ranks follows from what is left.
LEMMA LeftInOrder ==
  ASSUME todo' \subseteq Leaves, Left(todo)'
  PROVE  OrderInv'
<1> SUFFICES ASSUME NEW e \in Leaves, NEW f \in Leaves, Rank(e) < Rank(f),
                    leaf'[e] \in {"closed", "stuck"}, leaf'[f] = "open"
             PROVE  Skipped(f)'
  BY DEF OrderInv
<1>1. Rank(e) \in 1..5 /\ Rank(f) \in 1..5
  BY Ranks
<1>2. f \notin todo'
  BY <1>1 DEF Left
<1> QED
  BY <1>2 DEF Left

\* A set of resources is all there is to close when nothing has closed.
LEMMA AllLeft ==
  ASSUME \A e \in Leaves : leaf[e] \in {"fresh", "open"}
  PROVE  Left(OpenLeaves(leaf))
BY DEF Left, OpenLeaves

-----------------------------------------------------------------------------
(* The lease *)

LEMMA ComposeKeepsLease ==
  ASSUME TypeOK, LeaseInv, NEW c \in Composers, Compose(c)
  PROVE  /\ LeaseInv'
         /\ token' \in Composers \cup {Nobody} /\ committed' \in BOOLEAN
         /\ composer' \in [Composers ->
                            {"new", "claimed", "composed", "failed", "interrupted"}]
<1> USE TasksAssumption DEF TypeOK, Composing
<1>1. CASE Claim(c)
  BY <1>1 DEF Claim, LeaseInv
<1>2. CASE CommitLease(c)
  BY <1>2 DEF CommitLease, LeaseInv
<1>3. CASE FailComposition(c)
  BY <1>3 DEF FailComposition, LeaseInv
<1>4. CASE Interrupt(c)
  BY <1>4 DEF Interrupt, LeaseInv
<1> QED
  BY <1>1, <1>2, <1>3, <1>4 DEF Compose

-----------------------------------------------------------------------------
(* Steps outside the lock *)

LEMMA ComposeKeeps ==
  ASSUME IInv, NEW c \in Composers, Compose(c)
  PROVE  IInv'
<1> USE DEF IInv
<1>1. UNCHANGED <<state, rolledBack, shutdownAttempted, lock, ready, task, outcome,
                  leaf, todo, cause, origin>>
  BY DEF Compose, run, work
<1>2. TypeOK' /\ LeaseInv'
  BY <1>1, ComposeKeepsLease DEF TypeOK
<1>3. LockInv' /\ StateInv' /\ OpeningInv' /\ ReadyInv'
  BY <1>1 DEF LockInv, StateInv, OpeningInv, ReadyInv
<1>4. ClosingInv' /\ EndedInv' /\ OrderInv'
  BY <1>1 DEF ClosingInv, Left, EndedInv, OrderInv, Skipped
<1> QED
  BY <1>2, <1>3, <1>4

\* A task that moves without the lock, while the runtime and the resources stay.
LEMMA TaskKeeps ==
  ASSUME IInv, UNCHANGED <<lease, run, work>>, NEW t \in Tasks, task[t] \notin Busy,
         NEW step, step \notin Busy, Become(t, step), TypeOK', ReadyInv'
  PROVE  IInv'
<1> USE DEF IInv
<1>1. /\ UNCHANGED <<token, committed, composer, state, rolledBack, shutdownAttempted, lock>>
      /\ UNCHANGED <<leaf, todo, cause, origin>>
  BY DEF lease, run, work
<1>2. \A u \in Tasks : task'[u] = IF u = t THEN step ELSE task[u]
  BY DEF TypeOK, Become
<1>3. LeaseInv'
  BY <1>1 DEF LeaseInv
<1>4. LockInv'
  BY <1>1, <1>2 DEF LockInv
<1>5. lock # Nobody => task'[lock] = task[lock]
  BY <1>2 DEF LockInv, TypeOK
<1>6. StateInv' /\ OpeningInv'
  BY <1>1, <1>5 DEF StateInv, OpeningInv
<1>7. ClosingInv'
  BY <1>1, <1>5 DEF ClosingInv, Left, Skipped
<1>8. EndedInv' /\ OrderInv'
  BY <1>1 DEF EndedInv, OrderInv, Skipped
<1> QED
  BY <1>3, <1>4, <1>6, <1>7, <1>8

LEMMA BeginKeeps ==
  ASSUME IInv, NEW t \in Tasks, Begin(t)
  PROVE  IInv'
<1>1. /\ TypeOK /\ ReadyInv /\ task[t] = "idle"
      /\ UNCHANGED <<lease, run, ready, outcome, work>>
  BY DEF IInv, Begin
<1>2. PICK step \in {"startup", "shutdown"} :
        Become(t, step) /\ (step = "shutdown" => t \in Callers)
  BY DEF Begin
<1>3. \A u \in Tasks : task'[u] = IF u = t THEN step ELSE task[u]
  BY <1>1, <1>2 DEF TypeOK, Become
<1>4. TypeOK'
  BY <1>1, <1>2 DEF TypeOK, Become, lease, run, work
<1>5. ReadyInv'
  <2>1. state' = state /\ ready' = ready
    BY <1>1 DEF run
  <2>2. CASE t \in Callers
    BY <1>1, <1>2, <1>3, <2>1, <2>2, TasksAssumption DEF ReadyInv, Tasks
  <2>3. CASE t \notin Callers
    BY <1>1, <1>2, <1>3, <2>1, <2>3, TasksAssumption DEF ReadyInv, Tasks
  <2> QED
    BY <2>2, <2>3
<1> QED
  BY <1>1, <1>2, <1>4, <1>5, TaskKeeps DEF Busy

LEMMA EndServingKeeps ==
  ASSUME IInv, NEW t \in Tasks, EndServing(t)
  PROVE  IInv'
<1>1. /\ TypeOK /\ ReadyInv /\ task[t] = "serving" /\ Become(t, "shutdown") /\ ready' = FALSE
      /\ UNCHANGED <<lease, run, outcome, work>>
  BY DEF IInv, EndServing
<1>2. \A u \in Tasks : task'[u] = IF u = t THEN "shutdown" ELSE task[u]
  BY <1>1 DEF TypeOK, Become
<1>3. TypeOK'
  <2>1. task' \in [Tasks -> {"idle", "startup", "opening", "rolling_back", "serving",
                            "shutdown", "closing", "ended"}]
    BY <1>1 DEF TypeOK, Become
  <2>2. /\ ready' \in BOOLEAN /\ outcome' = outcome /\ UNCHANGED <<token, committed, composer>>
        /\ UNCHANGED <<state, rolledBack, shutdownAttempted, lock>>
        /\ UNCHANGED <<leaf, todo, cause, origin>>
    BY <1>1 DEF lease, run, work
  <2> QED
    BY <1>1, <2>1, <2>2 DEF TypeOK
<1>4. ReadyInv'
  BY <1>1, <1>2 DEF ReadyInv, run, Tasks
<1> QED
  BY <1>1, <1>3, <1>4, TaskKeeps DEF Busy

LEMMA CancelWaitingKeeps ==
  ASSUME IInv, NEW t \in Tasks, CancelWaiting(t)
  PROVE  IInv'
<1>1. /\ TypeOK /\ ReadyInv /\ task[t] \in {"startup", "shutdown"}
      /\ Become(t, "ended") /\ outcome' = [outcome EXCEPT ![t] = "cancelled"]
      /\ UNCHANGED <<lease, run, ready, work>>
  BY DEF IInv, CancelWaiting, End
<1>2. \A u \in Tasks : task'[u] = IF u = t THEN "ended" ELSE task[u]
  BY <1>1 DEF TypeOK, Become
<1>3. TypeOK'
  BY <1>1 DEF TypeOK, Become, lease, run, work
<1>4. ReadyInv'
  BY <1>1, <1>2 DEF ReadyInv, run, Tasks
<1> QED
  BY <1>1, <1>3, <1>4, TaskKeeps DEF Busy

-----------------------------------------------------------------------------
(* Startup *)

\* The lock changes hands from nobody to t, who gets to work.
LEMMA LockTaken ==
  ASSUME TypeOK, LockInv, NEW t \in Tasks, lock = Nobody, lock' = t,
         NEW step \in Busy, Become(t, step)
  PROVE  LockInv' /\ \A u \in Tasks : task'[u] = IF u = t THEN step ELSE task[u]
<1>1. \A u \in Tasks : task'[u] = IF u = t THEN step ELSE task[u]
  BY DEF TypeOK, Become
<1>2. t # Nobody
  BY TasksAssumption DEF Tasks
<1> QED
  BY <1>1, <1>2, TasksAssumption DEF LockInv, Tasks

\* It stays with t.
LEMMA LockHeld ==
  ASSUME TypeOK, LockInv, NEW t \in Tasks, lock = t, lock' = t,
         NEW step \in Busy, Become(t, step)
  PROVE  LockInv' /\ \A u \in Tasks : task'[u] = IF u = t THEN step ELSE task[u]
<1>1. \A u \in Tasks : task'[u] = IF u = t THEN step ELSE task[u]
  BY DEF TypeOK, Become
<1>2. t # Nobody
  BY TasksAssumption DEF Tasks
<1> QED
  BY <1>1, <1>2 DEF LockInv

\* Or t gives it back.
LEMMA LockFreed ==
  ASSUME TypeOK, LockInv, NEW t \in Tasks, lock = t, lock' = Nobody,
         NEW step, step \notin Busy, Become(t, step), todo' = {},
         state' \notin {"starting", "stopping"}
  PROVE  LockInv' /\ \A u \in Tasks : task'[u] = IF u = t THEN step ELSE task[u]
<1>1. \A u \in Tasks : task'[u] = IF u = t THEN step ELSE task[u]
  BY DEF TypeOK, Become
<1>2. Nobody \notin Tasks
  BY TasksAssumption DEF Tasks
<1> QED
  BY <1>1, <1>2 DEF LockInv

LEMMA StartupKeeps ==
  ASSUME IInv, NEW t \in Tasks, Startup(t)
  PROVE  IInv'
<1>1. /\ TypeOK /\ LeaseInv /\ LockInv /\ StateInv /\ OrderInv /\ ReadyInv
      /\ task[t] = "startup" /\ lock = Nobody
      /\ UNCHANGED <<lease, rolledBack, shutdownAttempted, ready, leaf, cause, origin>>
  BY DEF IInv, Startup
<1>2. CASE /\ End(t, "raised") /\ UNCHANGED <<state, lock, todo>>
  <2>1. UNCHANGED run /\ UNCHANGED work /\ Become(t, "ended")
    BY <1>1, <1>2 DEF run, work, End
  <2>2. \A u \in Tasks : task'[u] = IF u = t THEN "ended" ELSE task[u]
    BY <1>1, <2>1 DEF TypeOK, Become
  <2>3. TypeOK'
    BY <1>1, <1>2 DEF TypeOK, End, Become, lease
  <2>4. ReadyInv'
    BY <1>1, <1>2, <2>2 DEF ReadyInv, Tasks
  <2> QED
    BY <1>1, <2>1, <2>3, <2>4, TaskKeeps DEF Busy
<1>3. CASE /\ state = "created" /\ state' = "starting" /\ lock' = t
           /\ Become(t, "opening") /\ todo' = Leaves /\ UNCHANGED outcome
  <2>1. \A e \in Leaves : leaf[e] = "fresh"
    BY <1>1, <1>3 DEF StateInv
  <2>2. LockInv' /\ \A u \in Tasks : task'[u] = IF u = t THEN "opening" ELSE task[u]
    BY <1>1, <1>3, LockTaken DEF Busy
  <2>3. TypeOK'
    BY <1>1, <1>3 DEF TypeOK, Become, lease, Tasks
  <2>4. lock' # Nobody /\ task'[lock'] = "opening"
    BY <1>3, <2>2, TasksAssumption DEF Tasks
  <2>5. StateInv'
    BY <1>1, <1>3, <2>4 DEF StateInv
  <2>6. OpeningInv' /\ ClosingInv' /\ EndedInv'
    BY <1>1, <1>3, <2>1, <2>4 DEF OpeningInv, ClosingInv, EndedInv
  <2>7. OrderInv'
    BY <1>1, <2>1 DEF OrderInv
  <2>8. ReadyInv'
    BY <1>1, <1>3, <2>2 DEF ReadyInv, Tasks
  <2>9. LeaseInv'
    BY <1>1 DEF LeaseInv, lease
  <2> QED
    BY <2>2, <2>3, <2>5, <2>6, <2>7, <2>8, <2>9 DEF IInv
<1> QED
  BY <1>1, <1>2, <1>3 DEF Startup

\* What t knows while it opens.
LEMMA Opening ==
  ASSUME IInv, NEW t \in Tasks, task[t] = "opening"
  PROVE  /\ lock = t /\ lock # Nobody /\ state = "starting" /\ ~rolledBack
         /\ \A e \in Leaves : leaf[e] = IF e \in todo THEN "fresh" ELSE "open"
<1>1. lock = t /\ lock # Nobody
  BY TasksAssumption DEF IInv, LockInv, Busy, Tasks
<1> QED
  BY <1>1 DEF IInv, StateInv, OpeningInv

LEMMA OpenKeeps ==
  ASSUME IInv, NEW t \in Tasks, Open(t)
  PROVE  IInv'
<1>1. /\ TypeOK /\ LeaseInv /\ LockInv /\ StateInv /\ ReadyInv
      /\ task[t] = "opening"
      /\ UNCHANGED <<lease, rolledBack, shutdownAttempted, cause, origin>>
  BY DEF IInv, Open
<1>2. PICK e \in todo : leaf' = [leaf EXCEPT ![e] = "open"] /\ todo' = todo \ {e}
  BY DEF Open, ToOpen
<1>3. /\ lock = t /\ lock # Nobody /\ state = "starting" /\ ~rolledBack
      /\ \A f \in Leaves : leaf[f] = IF f \in todo THEN "fresh" ELSE "open"
  BY <1>1, Opening
<1>4. \A f \in Leaves : leaf'[f] = IF f \in todo' THEN "fresh" ELSE "open"
  BY <1>1, <1>2, <1>3 DEF TypeOK
<1>5. LeaseInv'
  BY <1>1 DEF LeaseInv, lease
<1>6. OrderInv'
  BY <1>4 DEF OrderInv
<1>7. CASE todo' # {}
  <2>1. UNCHANGED <<state, lock, ready, task, outcome>>
    BY <1>7 DEF Open
  <2>2. TypeOK'
    BY <1>1, <1>2, <2>1 DEF TypeOK, lease
  <2>3. LockInv' /\ StateInv' /\ EndedInv' /\ ReadyInv'
    BY <1>1, <1>3, <2>1 DEF LockInv, StateInv, EndedInv, ReadyInv
  <2>4. OpeningInv' /\ ClosingInv'
    BY <1>1, <1>3, <1>4, <2>1 DEF OpeningInv, ClosingInv
  <2> QED
    BY <1>5, <1>6, <2>2, <2>3, <2>4 DEF IInv
<1>8. CASE todo' = {}
  <2>1. PICK step \in {"serving", "ended"} :
          /\ Become(t, step) /\ outcome' = [outcome EXCEPT ![t] = "returned"]
          /\ step = "serving" => t \in Lifespans
          /\ ready' = (step = "serving" \/ ready)
    BY <1>1, <1>8 DEF Open, End, TypeOK
  <2>2. state' = "ready" /\ lock' = Nobody
    BY <1>8 DEF Open
  <2>3. LockInv' /\ \A u \in Tasks : task'[u] = IF u = t THEN step ELSE task[u]
    BY <1>1, <1>3, <1>8, <2>1, <2>2, LockFreed DEF Busy
  <2>4. TypeOK'
    BY <1>1, <1>2, <2>1, <2>2 DEF TypeOK, Become, lease
  <2>5. StateInv' /\ OpeningInv' /\ ClosingInv' /\ EndedInv'
    BY <1>1, <1>3, <1>4, <1>8, <2>2 DEF StateInv, OpeningInv, ClosingInv, EndedInv
  <2>6. ReadyInv'
    BY <1>1, <1>3, <2>1, <2>2, <2>3 DEF ReadyInv, Tasks
  <2> QED
    BY <1>5, <1>6, <2>3, <2>4, <2>5, <2>6 DEF IInv
<1> QED
  BY <1>7, <1>8

\* A rollback goes on, or ends with the runtime failed, with what is left to close.
LEMMA RollbackKeeps ==
  ASSUME IInv, NEW t \in Tasks, task[t] \in {"opening", "rolling_back"},
         NEW rest \in SUBSET Leaves, NEW why \in {"none", "error", "cancelled"},
         Rollback(t, rest, why), Left(todo)',
         leaf' \in [Leaves -> {"fresh", "open", "closed", "stuck"}],
         origin' \in {"none", "audit", "erp", "laravel", "knowledge", "openai"},
         UNCHANGED <<lease, shutdownAttempted, ready>>
  PROVE  IInv'
<1>1. /\ TypeOK /\ LeaseInv /\ LockInv /\ StateInv /\ ReadyInv /\ todo' = rest
  BY DEF IInv, Rollback
<1>2. lock = t /\ lock # Nobody /\ state = "starting"
  BY <1>1, TasksAssumption DEF LockInv, StateInv, Busy, Tasks
<1>3. LeaseInv'
  BY <1>1 DEF LeaseInv, lease
<1>4. OrderInv'
  BY <1>1, LeftInOrder
<1>5. CASE rest # {}
  <2>1. /\ Become(t, "rolling_back") /\ cause' = why
        /\ UNCHANGED <<state, rolledBack, lock, outcome>>
    BY <1>5 DEF Rollback
  <2>2. LockInv' /\ \A u \in Tasks : task'[u] = IF u = t THEN "rolling_back" ELSE task[u]
    BY <1>1, <1>2, <2>1, LockHeld DEF Busy
  <2>3. TypeOK'
    BY <1>1, <2>1 DEF TypeOK, Become, lease
  <2>4. StateInv' /\ OpeningInv' /\ ClosingInv' /\ EndedInv'
    BY <1>1, <1>2, <2>1, <2>2 DEF StateInv, OpeningInv, ClosingInv, EndedInv
  <2>5. ReadyInv'
    BY <1>1, <1>2, <2>1, <2>2 DEF ReadyInv, Tasks
  <2> QED
    BY <1>3, <1>4, <2>2, <2>3, <2>4, <2>5 DEF IInv
<1>6. CASE rest = {}
  <2>1. /\ Become(t, "ended") /\ outcome' = [outcome EXCEPT ![t] = Raised(why)]
        /\ cause' = "none" /\ state' = "failed" /\ rolledBack' = TRUE /\ lock' = Nobody
    BY <1>6 DEF Rollback, End
  <2>2. LockInv' /\ \A u \in Tasks : task'[u] = IF u = t THEN "ended" ELSE task[u]
    BY <1>1, <1>2, <1>6, <2>1, LockFreed DEF Busy
  <2>3. TypeOK'
    BY <1>1, <2>1 DEF TypeOK, Become, lease, Raised
  <2>4. EndedInv'
    BY <1>1, <1>6 DEF EndedInv, Left
  <2>5. StateInv' /\ OpeningInv' /\ ClosingInv'
    BY <2>1 DEF StateInv, OpeningInv, ClosingInv
  <2>6. ReadyInv'
    BY <1>1, <1>2, <2>1 DEF ReadyInv
  <2> QED
    BY <1>3, <1>4, <2>2, <2>3, <2>4, <2>5, <2>6 DEF IInv
<1> QED
  BY <1>5, <1>6

LEMMA OpenFailsKeeps ==
  ASSUME IInv, NEW t \in Tasks, OpenFails(t)
  PROVE  IInv'
<1>1. /\ TypeOK /\ task[t] = "opening" /\ UNCHANGED <<lease, shutdownAttempted, ready>>
  BY DEF IInv, OpenFails
<1>2. PICK e \in todo, why \in {"error", "cancelled"}, left \in {"fresh", "open"} :
        /\ leaf' = [leaf EXCEPT ![e] = left]
        /\ origin' = Kind(e) /\ Rollback(t, OpenLeaves(leaf'), why)
  BY DEF OpenFails, ToOpen
<1>3. \A f \in Leaves : leaf'[f] \in {"fresh", "open"}
  BY <1>1, <1>2, Opening DEF TypeOK
<1>4. Left(todo)'
  <2>1. todo' = OpenLeaves(leaf')
    BY <1>2 DEF Rollback
  <2> QED
    BY <1>3, <2>1 DEF Left, OpenLeaves
<1>5. leaf' \in [Leaves -> {"fresh", "open", "closed", "stuck"}]
  BY <1>1, <1>2 DEF TypeOK
<1>6. origin' \in {"none", "audit", "erp", "laravel", "knowledge", "openai"}
  BY <1>1, <1>2, Ranks DEF TypeOK
<1>7. OpenLeaves(leaf') \in SUBSET Leaves
  BY DEF OpenLeaves
<1> QED
  BY <1>1, <1>2, <1>4, <1>5, <1>6, <1>7, RollbackKeeps

-----------------------------------------------------------------------------
(* Closing *)

LEMMA CloseInRollbackKeeps ==
  ASSUME IInv, NEW t \in Tasks, CloseInRollback(t)
  PROVE  IInv'
<1>1. /\ TypeOK /\ task[t] = "rolling_back"
      /\ UNCHANGED <<lease, shutdownAttempted, ready, origin>>
  BY DEF IInv, CloseInRollback
<1>2. Left(todo)
  BY <1>1, TasksAssumption DEF IInv, LockInv, ClosingInv, Busy, Tasks
<1>3. cause \in {"none", "error", "cancelled"} /\ todo \subseteq Leaves
      /\ origin' \in {"none", "audit", "erp", "laravel", "knowledge", "openai"}
  BY <1>1 DEF TypeOK
<1>4. ASSUME NEW e \in ToClose, Closed(e), Rollback(t, todo \ {e}, cause)
      PROVE  IInv'
  <2>1. Left(todo)'
    BY <1>1, <1>2, <1>4, ClosedLeft DEF Rollback
  <2>2. leaf' \in [Leaves -> {"fresh", "open", "closed", "stuck"}]
    BY <1>1, <1>4 DEF TypeOK, Closed
  <2> QED
    BY <1>1, <1>3, <1>4, <2>1, <2>2, RollbackKeeps
<1>5. ASSUME NEW e \in ToClose, NEW why \in {"none", "error", "cancelled"},
             Stuck(e), Rollback(t, Skipping(e), why)
      PROVE  IInv'
  <2>1. Left(todo)'
    BY <1>1, <1>2, <1>5, StuckLeft DEF Rollback
  <2>2. leaf' \in [Leaves -> {"fresh", "open", "closed", "stuck"}]
    BY <1>1, <1>5 DEF TypeOK, Stuck
  <2>3. Skipping(e) \in SUBSET Leaves
    BY <1>3 DEF Skipping
  <2> QED
    BY <1>1, <1>3, <1>5, <2>1, <2>2, <2>3, RollbackKeeps
<1> QED
  <2>1. PICK e \in ToClose :
          \/ Closed(e) /\ Rollback(t, todo \ {e}, cause)
          \/ \E why \in {"error", "cancelled"} :
               /\ Stuck(e)
               /\ Rollback(t, Skipping(e),
                           IF Kind(e) = origin /\ ~(origin = "laravel" /\ why = "error")
                           THEN why ELSE cause)
    BY DEF CloseInRollback
  <2>2. CASE Closed(e) /\ Rollback(t, todo \ {e}, cause)
    BY <1>4, <2>2
  <2>3. ASSUME NEW why \in {"error", "cancelled"}, Stuck(e),
               Rollback(t, Skipping(e),
                        IF Kind(e) = origin /\ ~(origin = "laravel" /\ why = "error")
                        THEN why ELSE cause)
        PROVE  IInv'
    BY <1>3, <1>5, <2>3
  <2> QED
    BY <2>1, <2>2, <2>3

\* Only a runtime that is ready is closed resource by resource.
LEMMA ShutdownKeeps ==
  ASSUME IInv, NEW t \in Tasks, Shutdown(t)
  PROVE  IInv'
<1>1. /\ TypeOK /\ LeaseInv /\ LockInv /\ StateInv /\ EndedInv /\ OrderInv /\ ReadyInv
      /\ task[t] = "shutdown" /\ lock = Nobody /\ todo = {}
      /\ UNCHANGED <<lease, rolledBack, ready, leaf, cause, origin>>
      /\ state \notin {"starting", "stopping"}
  BY DEF IInv, Shutdown, LockInv
<1>2. LeaseInv' /\ OrderInv'
  BY <1>1 DEF LeaseInv, lease, OrderInv, Skipped
<1>3. CASE End(t, "raised") /\ UNCHANGED <<state, shutdownAttempted, lock, todo>>
  <2>1. UNCHANGED run /\ UNCHANGED work /\ Become(t, "ended")
    BY <1>1, <1>3 DEF run, work, End
  <2>2. \A u \in Tasks : task'[u] = IF u = t THEN "ended" ELSE task[u]
    BY <1>1, <2>1 DEF TypeOK, Become
  <2>3. TypeOK'
    BY <1>1, <1>3 DEF TypeOK, End, Become, lease
  <2>4. ReadyInv'
    BY <1>1, <1>3, <2>2 DEF ReadyInv, Tasks
  <2> QED
    BY <1>1, <2>1, <2>3, <2>4, TaskKeeps DEF Busy
<1>4. CASE /\ ~shutdownAttempted /\ state # "closed" /\ shutdownAttempted' = TRUE
           /\ state = "created" \/ rolledBack
           /\ state' = "closed" /\ End(t, "returned") /\ UNCHANGED <<lock, todo>>
  <2>1. Become(t, "ended") /\ outcome' = [outcome EXCEPT ![t] = "returned"]
    BY <1>4 DEF End
  <2>2. \A u \in Tasks : task'[u] = IF u = t THEN "ended" ELSE task[u]
    BY <1>1, <2>1 DEF TypeOK, Become
  <2>3. TypeOK'
    BY <1>1, <1>4, <2>1 DEF TypeOK, Become, lease
  <2>4. LockInv'
    BY <1>1, <1>4, <2>2, TasksAssumption DEF LockInv, Tasks, Busy
  <2>5. EndedInv'
    BY <1>1, <1>4 DEF EndedInv, StateInv, Skipped
  <2>6. StateInv' /\ OpeningInv' /\ ClosingInv'
    BY <1>1, <1>4 DEF StateInv, OpeningInv, ClosingInv
  <2>7. ReadyInv'
    BY <1>1, <1>4, <2>2, TasksAssumption DEF ReadyInv, Tasks, StateInv
  <2> QED
    BY <1>2, <2>3, <2>4, <2>5, <2>6, <2>7 DEF IInv
<1>5. CASE /\ ~shutdownAttempted /\ state # "closed" /\ shutdownAttempted' = TRUE
           /\ ~(state = "created" \/ rolledBack)
           /\ state' = "stopping" /\ lock' = t
           /\ Become(t, "closing") /\ todo' = OpenLeaves(leaf) /\ UNCHANGED outcome
  <2>1. state = "ready" /\ \A e \in Leaves : leaf[e] = "open"
    BY <1>1, <1>5 DEF StateInv, TypeOK
  <2>2. LockInv' /\ \A u \in Tasks : task'[u] = IF u = t THEN "closing" ELSE task[u]
    BY <1>1, <1>5, LockTaken DEF Busy
  <2>3. TypeOK'
    BY <1>1, <1>5 DEF TypeOK, Become, lease, Tasks, OpenLeaves
  <2>4. lock' # Nobody /\ task'[lock'] = "closing"
    BY <1>5, <2>2, TasksAssumption DEF Tasks
  <2>5. StateInv' /\ OpeningInv' /\ EndedInv'
    BY <1>1, <1>5, <2>1, <2>4 DEF StateInv, OpeningInv, EndedInv
  <2>6. Left(todo)'
    BY <1>1, <1>5, <2>1 DEF Left, OpenLeaves
  <2>7. ClosingInv'
    BY <2>6 DEF ClosingInv
  <2>8. ReadyInv'
    BY <1>1, <1>5, <2>1, <2>2, TasksAssumption DEF ReadyInv, Tasks
  <2> QED
    BY <1>2, <2>2, <2>3, <2>5, <2>7, <2>8 DEF IInv
<1> QED
  BY <1>1, <1>3, <1>4, <1>5 DEF Shutdown

\* A shutdown goes on, or ends, with what is left to close.
LEMMA StopKeeps ==
  ASSUME IInv, NEW t \in Tasks, task[t] = "closing",
         NEW rest \in SUBSET Leaves, NEW why \in {"none", "error", "cancelled"},
         Stop(t, rest, why), Left(todo)',
         leaf' \in [Leaves -> {"fresh", "open", "closed", "stuck"}],
         UNCHANGED <<lease, rolledBack, shutdownAttempted, ready, origin>>
  PROVE  IInv'
<1>1. /\ TypeOK /\ LeaseInv /\ LockInv /\ StateInv /\ ReadyInv /\ todo' = rest
  BY DEF IInv, Stop
<1>2. lock = t /\ lock # Nobody /\ state = "stopping" /\ ~rolledBack
  BY <1>1, TasksAssumption DEF LockInv, StateInv, Busy, Tasks
<1>3. LeaseInv'
  BY <1>1 DEF LeaseInv, lease
<1>4. OrderInv'
  BY <1>1, LeftInOrder
<1>5. CASE rest # {}
  <2>1. cause' = why /\ UNCHANGED <<state, lock, task, outcome>>
    BY <1>5 DEF Stop
  <2>2. TypeOK'
    BY <1>1, <2>1 DEF TypeOK, lease
  <2>3. LockInv' /\ StateInv' /\ OpeningInv' /\ ClosingInv' /\ EndedInv' /\ ReadyInv'
    BY <1>1, <1>2, <2>1
       DEF LockInv, StateInv, OpeningInv, ClosingInv, EndedInv, ReadyInv
  <2> QED
    BY <1>3, <1>4, <2>2, <2>3 DEF IInv
<1>6. CASE rest = {}
  <2>1. /\ End(t, IF why = "none" THEN "returned" ELSE Raised(why))
        /\ state' = (IF why = "none" THEN "closed" ELSE "failed")
        /\ lock' = Nobody /\ cause' = "none"
    BY <1>6 DEF Stop
  <2>2. Become(t, "ended")
    BY <2>1 DEF End
  <2>3. LockInv' /\ \A u \in Tasks : task'[u] = IF u = t THEN "ended" ELSE task[u]
    BY <1>1, <1>2, <1>6, <2>1, <2>2, LockFreed DEF Busy
  <2>4. TypeOK'
    BY <1>1, <2>1 DEF TypeOK, Become, End, lease, Raised
  <2>5. EndedInv'
    BY <1>1, <1>6 DEF EndedInv, Left
  <2>6. shutdownAttempted
    BY <1>1, <1>2 DEF StateInv
  <2>7. StateInv' /\ OpeningInv' /\ ClosingInv'
    BY <1>2, <2>1, <2>6 DEF StateInv, OpeningInv, ClosingInv
  <2>8. ReadyInv'
    BY <1>1, <1>2, <2>1, <2>3, TasksAssumption DEF ReadyInv, Tasks
  <2> QED
    BY <1>3, <1>4, <2>3, <2>4, <2>5, <2>7, <2>8 DEF IInv
<1> QED
  BY <1>5, <1>6

LEMMA CloseInShutdownKeeps ==
  ASSUME IInv, NEW t \in Tasks, CloseInShutdown(t)
  PROVE  IInv'
<1>1. /\ TypeOK /\ task[t] = "closing"
      /\ UNCHANGED <<lease, rolledBack, shutdownAttempted, ready, origin>>
  BY DEF IInv, CloseInShutdown
<1>2. Left(todo)
  BY <1>1, TasksAssumption DEF IInv, LockInv, ClosingInv, Busy, Tasks
<1>3. cause \in {"none", "error", "cancelled"} /\ todo \subseteq Leaves
  BY <1>1 DEF TypeOK
<1>4. ASSUME NEW e \in ToClose, Closed(e), Stop(t, todo \ {e}, cause)
      PROVE  IInv'
  <2>1. Left(todo)'
    BY <1>1, <1>2, <1>4, ClosedLeft DEF Stop
  <2>2. leaf' \in [Leaves -> {"fresh", "open", "closed", "stuck"}]
    BY <1>1, <1>4 DEF TypeOK, Closed
  <2> QED
    BY <1>1, <1>3, <1>4, <2>1, <2>2, StopKeeps
<1>5. ASSUME NEW e \in ToClose, NEW why \in {"none", "error", "cancelled"},
             Stuck(e), Stop(t, Skipping(e), why)
      PROVE  IInv'
  <2>1. Left(todo)'
    BY <1>1, <1>2, <1>5, StuckLeft DEF Stop
  <2>2. leaf' \in [Leaves -> {"fresh", "open", "closed", "stuck"}]
    BY <1>1, <1>5 DEF TypeOK, Stuck
  <2>3. Skipping(e) \in SUBSET Leaves
    BY <1>3 DEF Skipping
  <2> QED
    BY <1>1, <1>3, <1>5, <2>1, <2>2, <2>3, StopKeeps
<1> QED
  BY <1>3, <1>4, <1>5 DEF CloseInShutdown

-----------------------------------------------------------------------------
(* The theorems *)

LEMMA Initially ==
  ASSUME Init
  PROVE  IInv
<1> USE TasksAssumption DEF Init
<1>1. TypeOK /\ LeaseInv /\ LockInv /\ StateInv
  BY DEF TypeOK, LeaseInv, LockInv, StateInv, Busy, Tasks
<1>2. OpeningInv /\ ClosingInv /\ EndedInv /\ OrderInv /\ ReadyInv
  BY DEF OpeningInv, ClosingInv, EndedInv, OrderInv, ReadyInv, Tasks
<1> QED
  BY <1>1, <1>2 DEF IInv

LEMMA Inductive ==
  ASSUME IInv, [Next]_vars
  PROVE  IInv'
<1>1. ASSUME NEW t \in Tasks, Step(t) PROVE IInv'
  BY <1>1, StartupKeeps, OpenKeeps, OpenFailsKeeps, CloseInRollbackKeeps, ShutdownKeeps,
     CloseInShutdownKeeps DEF Step
<1>2. CASE UNCHANGED vars
  <2> USE DEF IInv, vars
  <2>1. TypeOK' /\ LeaseInv' /\ LockInv' /\ StateInv' /\ OpeningInv' /\ ReadyInv'
    BY <1>2 DEF TypeOK, LeaseInv, LockInv, StateInv, OpeningInv, ReadyInv
  <2>2. ClosingInv' /\ EndedInv' /\ OrderInv'
    BY <1>2 DEF ClosingInv, Left, EndedInv, OrderInv, Skipped
  <2> QED
    BY <2>1, <2>2
<1> QED
  BY <1>1, <1>2, ComposeKeeps, BeginKeeps, EndServingKeeps, CancelWaitingKeeps DEF Next, Rest

\* IInv holds in every reachable state, whatever compositions, startups, shutdowns,
\* failures and cancellations race.
THEOREM Invariance == Spec => []IInv
<1>1. Init => IInv
  BY Initially
<1>2. IInv /\ [Next]_vars => IInv'
  BY Inductive
<1> QED
  BY <1>1, <1>2, PTL DEF Spec

\* Every variable keeps its type.
THEOREM TypeCorrect == Spec => []TypeOK
<1>1. IInv => TypeOK
  BY DEF IInv
<1> QED
  BY <1>1, Invariance, PTL

\* One lease composes at most one runtime (ProviderLifecycleLease of
\* runtime/lifecycle.py).
THEOREM SingleRuntime == Spec => []OneRuntimePerLease
<1>1. ASSUME IInv PROVE OneRuntimePerLease
  BY <1>1 DEF IInv, LeaseInv, OneRuntimePerLease
<1> QED
  BY <1>1, Invariance, PTL

\* Whatever fails or is cancelled, what remains open follows the state of the runtime:
\* all of it while ready, nothing but skipped pools after a failed startup or a
\* shutdown, and nothing of a lower rank closed before what uses it.
THEOREM EverythingIsClosed == Spec => []NothingIsForgotten
<1>1. ASSUME IInv PROVE NothingIsForgotten
  <2>1. state \in {"failed", "closed"} => \A e \in Leaves : leaf[e] = "open" => Skipped(e)
    BY <1>1 DEF IInv, EndedInv
  <2>2. \A e, f \in Leaves : Rank(e) < Rank(f) /\ leaf[e] \in {"closed", "stuck"} =>
          leaf[f] # "open" \/ Skipped(f)
    BY <1>1 DEF IInv, OrderInv
  <2>3. ready /\ (\A t \in Callers : task[t] = "idle") =>
          state = "ready" /\ \A e \in Leaves : leaf[e] = "open"
    BY <1>1 DEF IInv, ReadyInv, StateInv
  <2> QED
    BY <2>1, <2>2, <2>3 DEF NothingIsForgotten
<1> QED
  BY <1>1, Invariance, PTL

\* No resource is opened twice, and one that was closed or is stuck stays so: startup
\* opens what is fresh, rollback and shutdown close what is open.
Once == \A e \in Leaves : leaf[e] # "fresh" => leaf'[e] = leaf[e] \/ leaf[e] = "open"

LEMMA StepsOpenOnce ==
  ASSUME IInv, NEW t \in Tasks, Step(t)
  PROVE  Once
<1>1. TypeOK /\ todo \subseteq Leaves
  BY DEF IInv, TypeOK
<1>2. CASE Startup(t) \/ Shutdown(t)
  BY <1>2 DEF Startup, Shutdown, Once
<1>3. CASE Open(t) \/ OpenFails(t)
  <2>1. PICK e \in todo, left \in {"fresh", "open"} : leaf' = [leaf EXCEPT ![e] = left]
    BY <1>3 DEF Open, OpenFails, ToOpen
  <2>2. leaf[e] = "fresh"
    BY <1>1, <1>3, Opening DEF Open, OpenFails
  <2> QED
    BY <1>1, <2>1, <2>2 DEF Once, TypeOK
<1>4. CASE CloseInRollback(t) \/ CloseInShutdown(t)
  <2>1. PICK e \in todo, left \in {"closed", "stuck"} : leaf' = [leaf EXCEPT ![e] = left]
    BY <1>4 DEF CloseInRollback, CloseInShutdown, ToClose, Closed, Stuck
  <2>2. lock = t /\ lock # Nobody /\ task[lock] \in {"rolling_back", "closing"}
    BY <1>4, TasksAssumption
       DEF CloseInRollback, CloseInShutdown, IInv, LockInv, Busy, Tasks
  <2>3. leaf[e] = "open"
    BY <2>2 DEF IInv, ClosingInv, Left
  <2> QED
    BY <1>1, <2>1, <2>3 DEF Once, TypeOK
<1> QED
  BY <1>2, <1>3, <1>4 DEF Step

\* A resource is opened at most once, and a closed one stays closed.
THEOREM NoSecondOpen == Spec => OpenedOnce
<1>1. IInv /\ [Next]_vars => [Once]_vars
  <2> SUFFICES ASSUME IInv, Next PROVE Once \/ UNCHANGED vars
    OBVIOUS
  <2>1. CASE \E c \in Composers : Compose(c)
    BY <2>1 DEF Compose, work, Once
  <2>2. CASE \E t \in Tasks : Begin(t) \/ EndServing(t) \/ CancelWaiting(t)
    BY <2>2 DEF Begin, EndServing, CancelWaiting, work, Once
  <2>3. CASE \E t \in Tasks : Step(t)
    BY <2>3, StepsOpenOnce
  <2> QED
    BY <2>1, <2>2, <2>3 DEF Next, Rest
<1> QED
  BY <1>1, Invariance, PTL DEF Spec, OpenedOnce, Once

=============================================================================
