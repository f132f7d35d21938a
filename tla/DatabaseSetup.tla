---------------------------- MODULE DatabaseSetup ----------------------------
(***************************************************************************)
(* Preparing a customer database and serving from it.                      *)
(*                                                                         *)
(* An administrative job (deployment/admin.py) migrates the schema, binds  *)
(* the database to an identity and grants the runtime role, in three       *)
(* transactions of one connection.  Jobs of several releases may overlap,  *)
(* fail anywhere, and are repeated.  A server verifies the database when it *)
(* opens and again in the transaction of every answer, which checks first  *)
(* and queries in later statements, while jobs go on.                      *)
(*                                                                         *)
(* The knowledge and the audit databases are prepared by two               *)
(* implementations of the same steps; "target" says which one this is.     *)
(***************************************************************************)
EXTENDS Integers, Sequences, FiniteSets

CONSTANTS
  Jobs,         \* processes that run administrative jobs, one after the other
  Servers,      \* runtime processes
  Releases,     \* releases of the software
  Manifest,     \* Manifest[r]: the migrations packaged with r, [name, sha] in order
  Forcing,      \* name of the migration that forces row security on the identity
  Altering,     \* names of the migrations that alter a table every answer checks
  Identities,   \* what a database can be bound to: kind, name and customer
  Unbound,      \* the table of the identity is empty
  Configs,      \* configurations of a job: [release, want, bypass]
  Deployments,  \* configurations of a server: [release, want]
  MaxRuns,      \* bound: jobs started
  MaxOpens      \* bound: openings of servers

ASSUME SetupAssumption == /\ Unbound \notin Identities
                          /\ \A r \in Releases : Manifest[r] \in Seq([name : Nat, sha : Nat])
                          /\ Forcing \in Altering
                          /\ MaxRuns \in Nat /\ MaxOpens \in Nat

\* A job and a server are configured for a packaged release and for an identity.
ASSUME ConfigAssumption ==
  /\ Configs # {} /\ Configs \subseteq [release: Releases, want: Identities, bypass: BOOLEAN]
  /\ Deployments \subseteq [release: Releases, want: Identities]

\* A manifest lists each of its files once (the tuples MIGRATIONS, CONTROL_MIGRATIONS
\* and CUSTOMER_MIGRATIONS).
ASSUME ManifestAssumption ==
  \A r \in Releases : \A i, k \in 1..Len(Manifest[r]) :
    Manifest[r][i].name = Manifest[r][k].name => i = k

Migrations == UNION {{Manifest[r][i] : i \in 1..Len(Manifest[r])} : r \in Releases}
Packaged(r) == {Manifest[r][i] : i \in 1..Len(Manifest[r])}

\* Deviations of a site from the contract of its software: the vector extension is
\* too old, or newer than the approved version; objects were altered by hand; the
\* runtime role owns something or has more privileges than it should.
KnowledgeDeviations == {"ancient", "newer", "altered", "unsafe"}
AuditDeviations == {"altered", "unsafe"}
Deviations(t) == IF t = "knowledge" THEN KnowledgeDeviations ELSE AuditDeviations

VARIABLES
  target,     \* "knowledge" or "audit"
  site,       \* the deviation of the site, if any
  history,    \* schema_migrations in the order of applied_at
  identity,   \* the row of database_identity, or Unbound
  granted,    \* the runtime role has its privileges
  pc,         \* the step of a job
  config,     \* its configuration
  work,       \* migrations executed by its open transaction
  pos,        \* migrations of its manifest it has dealt with
  found,      \* the identity the database had when the job looked
  why,        \* why it was refused
  runs,       \* jobs started so far
  server,     \* [state, release, want, view, seen] of a server
  opens,      \* openings so far
  answers     \* what was answered: [release, want, rows, before, after]

db == <<history, identity, granted>>
job == <<pc, config, work, pos, found, why>>
served == <<server, opens, answers>>
vars == <<target, site, db, job, runs, served>>

Applied == {history[i] : i \in 1..Len(history)}
Altered == {m \in Applied : m.name \in Altering}

\* The rows a snapshot holds; the tables themselves are those of the moment.
Now == [migrations |-> Applied, identity |-> identity]
NoView == [migrations |-> {}, identity |-> Unbound]

TypeOK ==
  /\ target \in {"knowledge", "audit"} /\ site \in {"sound"} \cup Deviations(target)
  /\ history \in Seq(Migrations)
  /\ identity \in Identities \cup {Unbound} /\ granted \in BOOLEAN
  /\ pc \in [Jobs -> {"idle", "lock", "apply", "lookup", "insert", "bind", "grant",
                      "done", "failed", "refused"}]
  /\ config \in [Jobs -> Configs]
  /\ work \in [Jobs -> Seq(Migrations)] /\ pos \in [Jobs -> Nat]
  /\ found \in [Jobs -> Identities \cup {Unbound}]
  /\ why \in [Jobs -> {"none", "authority", "drift", "extension", "bound", "key"}]
  /\ runs \in 0..MaxRuns /\ opens \in 0..MaxOpens
  /\ \A s \in Servers : server[s].state \in {"down", "verifying", "ready", "begun", "checked",
                                             "failed"}

-----------------------------------------------------------------------------
\* Definitions named ...Without..., ...Committing, ...As... precede the definition
\* they are a faulty variant of; no specification uses them.

\* The transaction-level advisory lock of the migrations.
HoldsLockAfterRefusal(j) == pc[j] \in {"apply", "refused"}
HoldsLock(j) == pc[j] = "apply"
LockFree(j) == \A k \in Jobs \ {j} : ~HoldsLock(k)

\* The unique key of database_identity, which holds at most one row.
HoldsKey(j) == pc[j] = "bind"
KeyFree(j) == \A k \in Jobs \ {j} : ~HoldsKey(k)

\* Every transaction keeps the tables it has touched until it ends: a job that of the
\* identity while it binds it, a server those it has checked.
UsesTable(j) == pc[j] \in {"insert", "bind"}
KeepsTableForOneStatement(s) == s \in Servers /\ FALSE
KeepsTable(s) == server[s].state = "checked"
Exclusive == /\ \A j \in Jobs : ~UsesTable(j)
             /\ \A s \in Servers : ~KeepsTable(s)

\* A migration that alters such a table needs it for its transaction alone, and whoever
\* comes after it is queued behind it, also while it still waits.
Alters(j) == target = "knowledge" /\ \E i \in 1..Len(work[j]) : work[j][i].name \in Altering
AltersNext(j) ==
  LET manifest == Manifest[config[j].release]
  IN /\ target = "knowledge" /\ pc[j] = "apply" /\ pos[j] < Len(manifest)
     /\ manifest[pos[j] + 1].name \in Altering
     /\ \A a \in Applied : a.name # manifest[pos[j] + 1].name
Unclaimed == \A j \in Jobs : ~Alters(j) /\ ~AltersNext(j)

\* Row security hides the identity from its owner once it is forced, unless it is the
\* one the transaction is set to; the audit table has none.
VisibleWithoutSetting(j) == ~(target = "knowledge" /\ \E m \in Applied : m.name = Forcing)
Visible(j) == \/ target = "audit"
              \/ config[j].bypass
              \/ \A m \in Applied : m.name # Forcing
              \/ identity = config[j].want

\* Migrate, bind, grant: the order of the three transactions.
Following(phase) == CASE phase = "migrate" -> "lookup"
                      [] phase = "bind" -> "grant"
                      [] phase = "grant" -> "done"

Init ==
  /\ target \in {"knowledge", "audit"} /\ site \in {"sound"} \cup Deviations(target)
  /\ history = <<>> /\ identity = Unbound /\ granted = FALSE
  /\ pc = [j \in Jobs |-> "idle"]
  /\ config = [j \in Jobs |-> CHOOSE c \in Configs : TRUE]
  /\ work = [j \in Jobs |-> <<>>] /\ pos = [j \in Jobs |-> 0]
  /\ found = [j \in Jobs |-> Unbound] /\ why = [j \in Jobs |-> "none"]
  /\ runs = 0 /\ opens = 0 /\ answers = {}
  /\ server = [s \in Servers |-> [state |-> "down", release |-> CHOOSE r \in Releases : TRUE,
                                  want |-> CHOOSE i \in Identities : TRUE, view |-> NoView,
                                  seen |-> {}]]

-----------------------------------------------------------------------------
(* Administrative jobs *)

Go(j, step) == /\ pc' = [pc EXCEPT ![j] = step]
               /\ UNCHANGED <<target, site, config, runs, served>>

\* The job ends and what its open transaction did is gone.
End(j, step, reason) ==
  /\ Go(j, step)
  /\ why' = [why EXCEPT ![j] = reason]
  /\ work' = [work EXCEPT ![j] = <<>>]
  /\ pos' = [pos EXCEPT ![j] = 0]
  /\ UNCHANGED <<db, found>>

Refuse(j, reason) == End(j, "refused", reason)

Start(j, c) ==
  /\ pc[j] \in {"idle", "done", "failed", "refused"} /\ runs < MaxRuns
  /\ runs' = runs + 1
  /\ pc' = [pc EXCEPT ![j] = "lock"]
  /\ config' = [config EXCEPT ![j] = c]
  /\ work' = [work EXCEPT ![j] = <<>>] /\ pos' = [pos EXCEPT ![j] = 0]
  /\ found' = [found EXCEPT ![j] = Unbound] /\ why' = [why EXCEPT ![j] = "none"]
  /\ UNCHANGED <<target, site, db, served>>

\* An audit job whose role has authority over more than the database is refused
\* before it waits for the lock.
RejectAuthority(j) ==
  /\ pc[j] = "lock" /\ target = "audit" /\ config[j].bypass
  /\ Refuse(j, "authority")

IsPrefix(h, manifest) == Len(h) <= Len(manifest) /\ h = SubSeq(manifest, 1, Len(h))

\* The audit job compares the whole history once and goes on behind it.
Lock(j) ==
  LET manifest == Manifest[config[j].release]
  IN /\ pc[j] = "lock" /\ ~(target = "audit" /\ config[j].bypass)
     /\ LockFree(j)
     /\ IF target = "audit" /\ ~IsPrefix(history, manifest)
        THEN Refuse(j, "drift")
        ELSE /\ Go(j, "apply")
             /\ pos' = [pos EXCEPT ![j] = IF target = "audit" THEN Len(history) ELSE 0]
             /\ UNCHANGED <<db, work, found, why>>

\* The next migration of the manifest is skipped when it is recorded with the same
\* digest, refused when it is recorded with another one, and executed otherwise.
ApplyCommitting(j) ==
  LET m == Manifest[config[j].release][pos[j] + 1]
  IN /\ pc[j] = "apply" /\ pos[j] < Len(Manifest[config[j].release])
     /\ \A a \in Applied : a.name # m.name
     /\ history' = Append(history, m)
     /\ Go(j, "apply")
     /\ pos' = [pos EXCEPT ![j] = @ + 1]
     /\ UNCHANGED <<identity, granted, work, found, why>>
Apply(j) ==
  LET m == Manifest[config[j].release][pos[j] + 1]
      same == {a \in Applied : a.name = m.name}
  IN /\ pc[j] = "apply" /\ pos[j] < Len(Manifest[config[j].release])
     /\ AltersNext(j) => Exclusive
     /\ IF \E a \in same : a.sha # m.sha
        THEN Refuse(j, "drift")
        ELSE /\ Go(j, "apply")
             /\ pos' = [pos EXCEPT ![j] = @ + 1]
             /\ work' = [work EXCEPT ![j] = IF same = {} THEN Append(@, m) ELSE @]
             /\ UNCHANGED <<db, found, why>>

\* The transaction commits; a knowledge job first looks at the vector extension.
CommitSchema(j) ==
  /\ pc[j] = "apply" /\ pos[j] = Len(Manifest[config[j].release])
  /\ IF target = "knowledge" /\ site = "ancient"
     THEN Refuse(j, "extension")
     ELSE /\ Go(j, Following("migrate"))
          /\ history' = history \o work[j]
          /\ work' = [work EXCEPT ![j] = <<>>]
          /\ UNCHANGED <<identity, granted, pos, found, why>>

\* SELECT ... FOR UPDATE of the identity.  With the right one there is nothing to do.
Lookup(j) ==
  /\ pc[j] = "lookup" /\ Unclaimed
  /\ CASE identity # Unbound /\ Visible(j) /\ identity # config[j].want -> Refuse(j, "bound")
       [] identity # Unbound /\ Visible(j) /\ identity = config[j].want ->
            Go(j, Following("bind")) /\ UNCHANGED <<db, work, pos, found, why>>
       [] OTHER -> /\ Go(j, "insert")
                   /\ found' = [found EXCEPT ![j] = identity]
                   /\ UNCHANGED <<db, work, pos, why>>

\* The insertion waits for another one, and fails when there is a row, visible or not.
InsertAsUpsert(j) == /\ pc[j] = "insert" /\ KeyFree(j)
                     /\ Go(j, "bind") /\ UNCHANGED <<db, work, pos, found, why>>
Insert(j) ==
  /\ pc[j] = "insert" /\ KeyFree(j)
  /\ IF identity # Unbound
     THEN Refuse(j, "key")
     ELSE Go(j, "bind") /\ UNCHANGED <<db, work, pos, found, why>>

Bind(j) == /\ pc[j] = "bind"
           /\ identity' = config[j].want
           /\ Go(j, Following("bind"))
           /\ UNCHANGED <<history, granted, work, pos, found, why>>

Grant(j) == /\ pc[j] = "grant"
            /\ granted' = TRUE
            /\ Go(j, Following("grant"))
            /\ UNCHANGED <<history, identity, work, pos, found, why>>

\* A lost connection, a failing statement, a cancellation or a crash.
Fail(j) == /\ pc[j] \notin {"idle", "done", "failed", "refused"}
           /\ End(j, "failed", "none")

Step(j) == \/ RejectAuthority(j) \/ Lock(j) \/ Apply(j) \/ CommitSchema(j)
           \/ Lookup(j) \/ Insert(j) \/ Bind(j) \/ Grant(j)

-----------------------------------------------------------------------------
(* Servers *)

RightIdentity(s, view) == view.identity = server[s].want

\* Every migration of the release and no other: they are compared in the order of their
\* names.
RightHistory(s, view) == view.migrations = Packaged(server[s].release)

RightObjects == site # "altered"
SafeRole == granted /\ site # "unsafe"

\* What the verification of a database compares; an audit writer cannot read migrations.
KnowledgeSound(s, view) == /\ RightIdentity(s, view) /\ RightHistory(s, view)
                           /\ site \notin {"ancient", "newer"}
                           /\ RightObjects /\ SafeRole
AuditSound(s, view) == RightIdentity(s, view) /\ RightObjects /\ SafeRole

SetServer(s, st, r, i, v, seen) ==
  /\ server' = [server EXCEPT ![s] = [state |-> st, release |-> r, want |-> i, view |-> v,
                                      seen |-> seen]]
  /\ UNCHANGED <<target, site, db, job, runs>>

Become(s, st, v, seen) == SetServer(s, st, server[s].release, server[s].want, v, seen)

\* A process starts and its verification takes its snapshot.
Open(s, d) ==
  /\ server[s].state = "down" /\ opens < MaxOpens
  /\ opens' = opens + 1
  /\ SetServer(s, "verifying", d.release, d.want, Now, {})
  /\ UNCHANGED answers

\* Rows come from the snapshot; privileges are those of the moment.
Verify(s) ==
  LET view == server[s].view
      ok == IF target = "knowledge" THEN KnowledgeSound(s, view) ELSE AuditSound(s, view)
  IN /\ server[s].state = "verifying"
     /\ Become(s, IF ok THEN "ready" ELSE "failed", NoView, {})
     /\ UNCHANGED <<opens, answers>>

\* The transaction of an answer.  That of a retrieval is REPEATABLE READ: its first
\* statement takes the snapshot, before it looks at any table.
Begin(s) ==
  /\ server[s].state = "ready"
  /\ Become(s, "begun", IF target = "knowledge" THEN Now ELSE NoView, {})
  /\ UNCHANGED <<opens, answers>>

\* It then looks again at the identity and, for knowledge, at the migrations; "seen" are
\* the altered tables it found.
KnowledgeBound(s, view) == RightIdentity(s, view) /\ RightHistory(s, view)
AuditBound(s) == RightIdentity(s, Now)

Check(s) ==
  LET view == server[s].view
      ok == IF target = "knowledge" THEN KnowledgeBound(s, view) ELSE AuditBound(s)
  IN /\ server[s].state = "begun" /\ Unclaimed
     /\ IF ok THEN Become(s, "checked", view, Altered) ELSE Become(s, "ready", NoView, {})
     /\ UNCHANGED <<opens, answers>>

\* The search, or the insertion of an audit event.
Query(s) ==
  LET me == server[s]
  IN /\ me.state = "checked"
     /\ answers' = answers \cup {[release |-> me.release, want |-> me.want,
                                  rows |-> me.view.migrations,
                                  before |-> me.seen, after |-> Altered]}
     /\ Become(s, "ready", NoView, {})
     /\ UNCHANGED opens

\* A timeout, a failing statement or a cancellation.
Abandon(s) == /\ server[s].state \in {"begun", "checked"}
              /\ Become(s, "ready", NoView, {})
              /\ UNCHANGED <<opens, answers>>

Stop(s) == /\ server[s].state # "down"
           /\ Become(s, "down", NoView, {})
           /\ UNCHANGED <<opens, answers>>

\* What goes on in the transaction of a server.
Serve(s) == Check(s) \/ Query(s) \/ Abandon(s)

\* Somebody changes the site by hand.
Tamper(d) == /\ site = "sound" /\ d \in Deviations(target)
             /\ site' = d
             /\ UNCHANGED <<target, db, job, runs, served>>

\* Nothing more happens within the bounds.
Rest == /\ runs = MaxRuns /\ opens = MaxOpens
        /\ \A j \in Jobs : pc[j] \in {"idle", "done", "failed", "refused"}
        /\ \A s \in Servers : server[s].state = "down"
        /\ UNCHANGED vars

Next ==
  \/ \E j \in Jobs : Step(j) \/ Fail(j) \/ \E c \in Configs : Start(j, c)
  \/ \E s \in Servers : \/ Verify(s) \/ Begin(s) \/ Serve(s) \/ Stop(s)
                        \/ \E d \in Deployments : Open(s, d)
  \/ \E d \in KnowledgeDeviations \cup AuditDeviations : Tamper(d)
  \/ Rest

Spec == Init /\ [][Next]_vars

\* A job goes from one statement to the next, and the database answers a statement that
\* waits for no lock; nothing puts a limit to a job's wait for one, which is over when the
\* transactions that have the lock have ended.  Those of servers work under timeouts.
FairSpec == /\ Spec
            /\ \A j \in Jobs : WF_vars(Step(j))
            /\ \A s \in Servers : WF_vars(Serve(s))

-----------------------------------------------------------------------------
(* Properties *)

\* A migration run leaves all of its migrations or none, wherever it fails and whatever
\* runs beside it; no name is recorded twice; the audit history is in the order of a
\* release; and whatever fails between the three transactions of a job, only a database
\* with the schema of a release is bound, and the runtime role has no privileges in an
\* unbound one.
HistoriesAreWhole ==
  /\ \A a, b \in 1..Len(history) : history[a].name = history[b].name => a = b
  /\ \A m \in Applied : \E r \in Releases : m \in Packaged(r) /\ Packaged(r) \subseteq Applied
  /\ target = "audit" => \E r \in Releases : IsPrefix(history, Manifest[r])
  /\ identity # Unbound => \E r \in Releases : Packaged(r) \subseteq Applied
  /\ granted => identity # Unbound

\* A database has one owner for ever: every job that succeeded and every answer was for
\* the identity it is bound to, even when row security hid that identity from a job.
OneOwner ==
  /\ \A j \in Jobs : pc[j] \in {"grant", "done"} => identity = config[j].want
  /\ \A a \in answers : identity = a.want

\* What an answer of a knowledge server checked still holds when it queries, in a later
\* statement: its rows are those of a database with exactly the migrations of its release,
\* although another job may have committed more since; and no migration that alters what
\* it checked has come between, because its transaction keeps those tables.  A migration
\* between its snapshot and its check is not noticed, and no answer reads its rows.
AnswersFitSchema ==
  target = "knowledge" =>
    \A a \in answers : a.rows = Packaged(a.release) /\ a.before = a.after

\* A job is refused for a reason that lasts: other digests, another owner, an extension
\* that is too old, too much authority; or it met a database that was unbound when it
\* looked and that another job bound first.  Jobs never refuse each other otherwise.
RefusalIsJustified ==
  \A j \in Jobs :
    LET manifest == Manifest[config[j].release]
    IN /\ why[j] = "drift" =>
            \/ \E a \in Applied, m \in Packaged(config[j].release) : a.name = m.name /\ a.sha # m.sha
            \/ target = "audit" /\ ~IsPrefix(history, manifest)
       /\ why[j] = "extension" => site = "ancient"
       /\ why[j] = "bound" => identity # config[j].want
       /\ why[j] = "key" => identity # Unbound /\ found[j] # config[j].want
       /\ why[j] = "authority" => config[j].bypass

\* A job that was started ends: it never waits for ever for the migration lock, for the
\* key of the identity, or for a table that servers keep reading.
JobsEnd == \A j \in Jobs : (pc[j] = "lock") ~> (pc[j] \in {"done", "failed", "refused"})
=============================================================================
