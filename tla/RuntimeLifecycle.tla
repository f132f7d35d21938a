-------------------------- MODULE RuntimeLifecycle --------------------------
(***************************************************************************)
(* Ownership, startup and shutdown of one production runtime: the lease    *)
(* that composition claims (runtime/composition.py, runtime/lifecycle.py), *)
(* the lifespan of the HTTP application, and every external resource the   *)
(* runtime opens: the pools of the audit router, the ERP trust client, the *)
(* Laravel client, the pools of the knowledge router and the OpenAI client *)
(* (deployment/factory.py nests the last three).                           *)
(*                                                                         *)
(* An open or a close may fail, and where it suspends it may be cancelled. *)
(* A close that fails ends the loop of the router it belongs to; the       *)
(* lifecycles around the router go on with the other resources.            *)
(***************************************************************************)
EXTENDS Naturals

CONSTANTS
  Composers,      \* composition attempts on one external bundle
  Lifespans,      \* ASGI lifespans of the composed application
  Callers,        \* other tasks that call startup or shutdown once
  CustomerCount,  \* customer environments, numbered from 1
  Nobody          \* no composer, no task

ASSUME CustomerCountAssumption == CustomerCount \in Nat

\* A lifespan is no other caller; Nobody is no attempt and no task.
ASSUME TasksAssumption == /\ Lifespans \cap Callers = {}
                          /\ Nobody \notin Composers \cup Lifespans \cup Callers

VARIABLES
  token, committed,  \* the lease
  composer,          \* progress of each composition
  state,             \* RuntimeState
  rolledBack,        \* _rolled_back
  shutdownAttempted, \* _shutdown_attempted
  lock,              \* holder of the asyncio lock
  ready,             \* state.ready of the transport
  task,              \* progress of each lifespan and caller
  outcome,           \* how its last call of startup or shutdown ended
  leaf,              \* each external resource
  todo,              \* resources the lock holder has still to open or close
  cause,             \* the exception it carries
  origin             \* kind of the resource whose open failed

lease == <<token, committed, composer>>
run == <<state, rolledBack, shutdownAttempted, lock>>
work == <<leaf, todo, cause, origin>>
vars == <<token, committed, composer, state, rolledBack, shutdownAttempted, lock,
          ready, task, outcome, leaf, todo, cause, origin>>

Tasks == Lifespans \cup Callers

\* A resource is its kind and, for a pool, its database: 0 is audit control.
Kind(e) == e[1]
Database(e) == e[2]
AuditPools == {<<"audit", i>> : i \in 0..CustomerCount}
KnowledgePools == {<<"knowledge", i>> : i \in 1..CustomerCount}
Leaves == AuditPools \cup KnowledgePools \cup {<<"erp", 0>>, <<"laravel", 0>>, <<"openai", 0>>}

\* The order of the startup.
Rank(e) == CASE Kind(e) = "audit" -> 1 [] Kind(e) = "erp" -> 2 [] Kind(e) = "laravel" -> 3
             [] Kind(e) = "knowledge" -> 4 [] Kind(e) = "openai" -> 5

OpensFirst(e, f) == \/ Rank(e) < Rank(f)
                    \/ Kind(e) = Kind(f) /\ Database(e) <= Database(f)

\* Everything closes in the reverse order, but the audit router its pools in the
\* order of their opening.
ClosesFirst(e, f) == \/ Rank(e) > Rank(f)
                     \/ Kind(e) = Kind(f) /\ IF Kind(e) = "audit" THEN Database(e) <= Database(f)
                                             ELSE Database(e) >= Database(f)

ToOpen == {e \in todo : \A f \in todo : OpensFirst(e, f)}
ToClose == {e \in todo : \A f \in todo : ClosesFirst(e, f)}

Init == /\ token = Nobody /\ committed = FALSE
        /\ composer = [c \in Composers |-> "new"]
        /\ state = "created" /\ rolledBack = FALSE /\ shutdownAttempted = FALSE
        /\ lock = Nobody
        /\ ready = FALSE
        /\ task = [t \in Tasks |-> "idle"]
        /\ outcome = [t \in Tasks |-> "none"]
        /\ leaf = [e \in Leaves |-> "fresh"]
        /\ todo = {} /\ cause = "none" /\ origin = "none"

-----------------------------------------------------------------------------
(* Composition *)

\* Definitions named ...Taken, ...Again, ...Others and ...Keeping are faulty
\* variants of the definition after them; no specification uses them.  They show
\* that the properties tell the code from a plausible mistake in it.

Composing(c, from, to) == composer[c] = from /\ composer' = [composer EXCEPT ![c] = to]

ClaimTaken(c) == Composing(c, "new", "claimed") /\ token' = c /\ UNCHANGED committed
Claim(c) ==
  \/ /\ token = Nobody /\ ~committed
     /\ Composing(c, "new", "claimed")
     /\ token' = c /\ UNCHANGED committed
  \/ /\ token # Nobody \/ committed
     /\ Composing(c, "new", "failed") /\ UNCHANGED <<token, committed>>

CommitLease(c) ==
  /\ token = c /\ ~committed
  /\ Composing(c, "claimed", "composed")
  /\ committed' = TRUE /\ UNCHANGED token

\* A constructor fails: an attempt that holds the claim releases it.
FailComposition(c) ==
  \/ Composing(c, "new", "failed") /\ UNCHANGED <<token, committed>>
  \/ /\ Composing(c, "claimed", "failed")
     /\ IF token = c /\ ~committed THEN token' = Nobody ELSE UNCHANGED token
     /\ UNCHANGED committed

\* Only Exception is caught: an interrupt keeps the claim.
Interrupt(c) == Composing(c, "claimed", "interrupted") /\ UNCHANGED <<token, committed>>

Compose(c) == /\ Claim(c) \/ CommitLease(c) \/ FailComposition(c) \/ Interrupt(c)
              /\ UNCHANGED <<run, ready, task, outcome, work>>

-----------------------------------------------------------------------------
(* Tasks *)

Become(t, step) == task' = [task EXCEPT ![t] = step]
End(t, how) == Become(t, "ended") /\ outcome' = [outcome EXCEPT ![t] = how]
Raised(why) == IF why = "cancelled" THEN "cancelled" ELSE "raised"
OpenLeaves(l) == {e \in Leaves : l[e] = "open"}

Begin(t) ==
  /\ task[t] = "idle" /\ \E c \in Composers : composer[c] = "composed"
  /\ \/ Become(t, "startup")
     \/ t \in Callers /\ Become(t, "shutdown")
  /\ UNCHANGED <<lease, run, ready, outcome, work>>

\* The server stops: the lifespan leaves its yield.
EndServing(t) ==
  /\ task[t] = "serving" /\ Become(t, "shutdown")
  /\ ready' = FALSE
  /\ UNCHANGED <<lease, run, outcome, work>>

\* Cancelled while another call holds the lock.
CancelWaiting(t) ==
  /\ task[t] \in {"startup", "shutdown"} /\ lock # Nobody
  /\ End(t, "cancelled")
  /\ UNCHANGED <<lease, run, ready, work>>

-----------------------------------------------------------------------------
(* Startup *)

StartupAgain(t) ==
  /\ task[t] = "startup" /\ lock = Nobody
  /\ state' = "starting" /\ lock' = t
  /\ Become(t, "opening") /\ todo' = Leaves
  /\ UNCHANGED <<lease, rolledBack, shutdownAttempted, ready, outcome, leaf, cause, origin>>
Startup(t) ==
  /\ task[t] = "startup" /\ lock = Nobody
  /\ \/ /\ state # "created" /\ End(t, "raised")
        /\ UNCHANGED <<state, lock, todo>>
     \/ /\ state = "created"
        /\ state' = "starting" /\ lock' = t
        /\ Become(t, "opening") /\ todo' = Leaves
        /\ UNCHANGED outcome
  /\ UNCHANGED <<lease, rolledBack, shutdownAttempted, ready, leaf, cause, origin>>

Open(t) ==
  /\ task[t] = "opening"
  /\ \E e \in ToOpen : leaf' = [leaf EXCEPT ![e] = "open"] /\ todo' = todo \ {e}
  /\ IF todo' # {} THEN UNCHANGED <<state, lock, ready, task, outcome>>
     ELSE /\ state' = "ready" /\ lock' = Nobody
          /\ IF t \in Lifespans
             THEN ready' = TRUE /\ Become(t, "serving") /\ outcome' = [outcome EXCEPT ![t] = "returned"]
             ELSE End(t, "returned") /\ UNCHANGED ready
  /\ UNCHANGED <<lease, rolledBack, shutdownAttempted, cause, origin>>

\* What is left of a rollback for exception why.
Rollback(t, rest, why) ==
  /\ todo' = rest
  /\ IF rest # {}
     THEN /\ Become(t, "rolling_back") /\ cause' = why
          /\ UNCHANGED <<state, rolledBack, lock, outcome>>
     ELSE /\ End(t, Raised(why)) /\ cause' = "none"
          /\ state' = "failed" /\ rolledBack' = TRUE /\ lock' = Nobody

\* The open, or the verification after it, fails or is cancelled: a pool and the
\* Laravel client may be open by then.  Its owner closes what it opened, then the
\* lifecycles around it close what was opened before.
OpenFails(t) ==
  /\ task[t] = "opening"
  /\ \E e \in ToOpen, why \in {"error", "cancelled"}, left \in {"fresh", "open"} :
       /\ \/ Kind(e) \in {"audit", "laravel", "knowledge"}
          \/ why = "error" /\ left = "fresh"
       /\ leaf' = [leaf EXCEPT ![e] = left]
       /\ origin' = Kind(e)
       /\ Rollback(t, OpenLeaves(leaf'), why)
  /\ UNCHANGED <<lease, shutdownAttempted, ready>>

-----------------------------------------------------------------------------
(* Closing *)

\* A resource whose close failed is stuck.  The rest of its router's loop is
\* skipped.
Closed(e) == leaf' = [leaf EXCEPT ![e] = "closed"]
Stuck(e) == leaf' = [leaf EXCEPT ![e] = "stuck"]
SkippingOthers(e) == {}
Skipping(e) == {x \in todo : Kind(x) # Kind(e)}

\* An exception from the cleanup of the owner replaces the one that started it,
\* except that the Laravel client suppresses ordinary ones; those of the
\* lifecycles around it are suppressed.
CloseInRollback(t) ==
  /\ task[t] = "rolling_back"
  /\ \E e \in ToClose :
     \/ Closed(e) /\ Rollback(t, todo \ {e}, cause)
     \/ \E why \in {"error", "cancelled"} :
          /\ Stuck(e)
          /\ Rollback(t, Skipping(e),
                      IF Kind(e) = origin /\ ~(origin = "laravel" /\ why = "error")
                      THEN why ELSE cause)
  /\ UNCHANGED <<lease, shutdownAttempted, ready, origin>>

Shutdown(t) ==
  /\ task[t] = "shutdown" /\ lock = Nobody
  /\ \/ /\ shutdownAttempted \/ state = "closed"
        /\ End(t, "raised")
        /\ UNCHANGED <<state, shutdownAttempted, lock, todo>>
     \/ /\ ~shutdownAttempted /\ state # "closed"
        /\ shutdownAttempted' = TRUE
        /\ IF state = "created" \/ rolledBack
           THEN /\ state' = "closed" /\ End(t, "returned")
                /\ UNCHANGED <<lock, todo>>
           ELSE /\ state' = "stopping" /\ lock' = t
                /\ Become(t, "closing") /\ todo' = OpenLeaves(leaf)
                /\ UNCHANGED outcome
  /\ UNCHANGED <<lease, rolledBack, ready, leaf, cause, origin>>

\* What is left of a shutdown that met exception why.
StopKeeping(t, rest, why) ==
  /\ todo' = rest
  /\ IF rest # {}
     THEN cause' = why /\ UNCHANGED <<state, lock, task, outcome>>
     ELSE /\ End(t, IF why = "none" THEN "returned" ELSE Raised(why))
          /\ state' = IF why = "none" THEN "closed" ELSE "failed"
          /\ lock' = IF why = "none" THEN Nobody ELSE lock
          /\ cause' = "none"
Stop(t, rest, why) ==
  /\ todo' = rest
  /\ IF rest # {}
     THEN cause' = why /\ UNCHANGED <<state, lock, task, outcome>>
     ELSE /\ End(t, IF why = "none" THEN "returned" ELSE Raised(why))
          /\ state' = IF why = "none" THEN "closed" ELSE "failed"
          /\ lock' = Nobody /\ cause' = "none"

\* A cancellation outlives every other error.
CloseInShutdown(t) ==
  /\ task[t] = "closing"
  /\ \E e \in ToClose :
     \/ Closed(e) /\ Stop(t, todo \ {e}, cause)
     \/ \E why \in {"error", "cancelled"} :
          /\ Stuck(e)
          /\ Stop(t, Skipping(e), IF cause = "cancelled" THEN cause ELSE why)
  /\ UNCHANGED <<lease, rolledBack, shutdownAttempted, ready, origin>>

-----------------------------------------------------------------------------
Step(t) == \/ Startup(t) \/ Open(t) \/ OpenFails(t)
           \/ CloseInRollback(t) \/ Shutdown(t) \/ CloseInShutdown(t)

\* No attempt composed a runtime, or every task has ended.
Rest ==
  /\ \A c \in Composers : composer[c] \notin {"new", "claimed"}
  /\ \/ \A c \in Composers : composer[c] # "composed"
     \/ \A t \in Tasks : task[t] = "ended"
  /\ UNCHANGED vars

Next == \/ \E c \in Composers : Compose(c)
        \/ \E t \in Tasks : Begin(t) \/ EndServing(t) \/ CancelWaiting(t) \/ Step(t)
        \/ Rest

Spec == Init /\ [][Next]_vars

\* The event loop resumes every call, and opens and closes end: they work under
\* connection and close timeouts.
FairSpec == Spec /\ \A t \in Tasks : WF_vars(Step(t))

-----------------------------------------------------------------------------
(* Properties *)

TypeOK ==
  /\ token \in Composers \cup {Nobody} /\ committed \in BOOLEAN
  /\ composer \in [Composers -> {"new", "claimed", "composed", "failed", "interrupted"}]
  /\ state \in {"created", "starting", "ready", "stopping", "closed", "failed"}
  /\ rolledBack \in BOOLEAN /\ shutdownAttempted \in BOOLEAN /\ ready \in BOOLEAN
  /\ lock \in Tasks \cup {Nobody}
  /\ task \in [Tasks -> {"idle", "startup", "opening", "rolling_back", "serving",
                         "shutdown", "closing", "ended"}]
  /\ outcome \in [Tasks -> {"none", "returned", "raised", "cancelled"}]
  /\ leaf \in [Leaves -> {"fresh", "open", "closed", "stuck"}]
  /\ todo \subseteq Leaves
  /\ cause \in {"none", "error", "cancelled"}
  /\ origin \in {"none", "audit", "erp", "laravel", "knowledge", "openai"}

\* One lease composes at most one runtime, whatever attempts race, fail or are
\* interrupted around it, and once composed nobody can claim it again.
OneRuntimePerLease ==
  \A c \in Composers : composer[c] = "composed" => /\ token = c /\ committed
                                                   /\ \A d \in Composers \ {c} :
                                                        composer[d] \notin {"claimed", "composed"}

\* A resource is opened at most once, and a closed one stays closed, whatever
\* calls of startup and shutdown race.
OpenedOnce ==
  [][\A e \in Leaves : leaf[e] # "fresh" => leaf'[e] = leaf[e] \/ leaf[e] = "open"]_vars

Skipped(e) == \E x \in Leaves : Kind(x) = Kind(e) /\ leaf[x] = "stuck"

\* What is open follows the state.  A failed startup and a finished shutdown leave
\* nothing open, except the pools of a router one of whose closes failed; on the way
\* there resources close in the reverse order of the startup, so that no audit pool
\* goes while a provider that reports to it is open; and the transport reports ready
\* only while everything is open, as long as only lifespans start and stop the runtime.
NothingIsForgotten ==
  /\ state \in {"failed", "closed"} => \A e \in Leaves : leaf[e] = "open" => Skipped(e)
  /\ \A e, f \in Leaves : Rank(e) < Rank(f) /\ leaf[e] \in {"closed", "stuck"} =>
       leaf[f] # "open" \/ Skipped(f)
  /\ ready /\ (\A t \in Callers : task[t] = "idle") =>
       state = "ready" /\ \A e \in Leaves : leaf[e] = "open"

\* Every call of startup or shutdown ends.
CallsEnd == \A t \in Tasks :
  task[t] \in {"startup", "opening", "rolling_back", "shutdown", "closing"} ~>
    task[t] \in {"serving", "ended"}

\* docs/contracts/production-rag-provider.md:55: "partial failure or cancellation
\* closes opened pools in reverse order".
PartialFailureClosesPools ==
  rolledBack => \A e \in Leaves : Kind(e) = "knowledge" => leaf[e] # "open"
=============================================================================
