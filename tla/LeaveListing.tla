----------------------------- MODULE LeaveListing -----------------------------
(***************************************************************************)
(* Listing and reading an employee's leave requests from the ERP database: *)
(* PostgresLeaveReadProvider (infrastructure/postgres_erp/providers.py),   *)
(* SignedLeaveRequestCursor (cursor.py) and the handlers of                *)
(* capabilities/leave/handlers.py.                                         *)
(*                                                                         *)
(* Pages are read in transactions of their own, and what holds them        *)
(* together is only the signed cursor the client brings back: clients may  *)
(* follow it late, twice, or with another query, while requests appear and *)
(* change their status and the signing key is rotated.                     *)
(***************************************************************************)
EXTENDS Naturals, Sequences, FiniteSets

CONSTANTS
  Clients,        \* callers, each makes one call at a time
  RequestIds,     \* ids of leave requests, ordered like numbers
  Statuses,       \* workflow states the view shows
  Scopes,         \* trusted contexts: customer, employee, legal entities, snapshot
  Owned,          \* scope -> the requests of its employee and legal entities
  Unscoped,       \* scopes without any legal entity
  Filters,        \* sets of statuses asked for; the empty one asks for all
  Limits,         \* page sizes
  Keys,           \* cursor signing keys
  TTL,            \* seconds a cursor lives
  MaxTime,        \* bound: the clock
  MaxSteps,       \* bound: workflow transitions of a request
  MaxCalls        \* bound: calls

ASSUME ListingAssumption ==
  /\ RequestIds \subseteq Nat /\ Limits \subseteq Nat \ {0}
  /\ Filters \subseteq SUBSET Statuses
  /\ Owned \in [Scopes -> SUBSET RequestIds] /\ Unscoped \subseteq Scopes
  /\ TTL \in Nat /\ MaxTime \in Nat /\ MaxSteps \in Nat /\ MaxCalls \in Nat

VARIABLES
  rows,           \* the view of leave requests, with the steps of their workflow
  now,            \* the clock
  ring,           \* the key that signs, and older ones that still verify
  issued,         \* cursors clients have been given
  pc,             \* the await a client's call has reached
  call,           \* its arguments
  view,           \* the snapshot of its transaction
  found,          \* the row a detail call has read
  answer,         \* what the last step answered, if it answered a call
  calls           \* calls made so far

vars == <<rows, now, ring, issued, pc, call, view, found, answer, calls>>

-----------------------------------------------------------------------------
\* A request never changes its submission; its status is its last step.
Row == [id: RequestIds, at: 0..MaxTime, steps: Seq(Statuses)]
Status(row) == row.steps[Len(row.steps)]

Query == [scope: Scopes, filter: Filters, limit: Limits]
NoCursor == [key |-> "none"]
NoCall == [kind |-> "none"]
NoRow == [id |-> "none"]
NoAnswer == [kind |-> "none"]

\* ...Without..., ...Of..., ...By..., ...OrAt, ...Keeping... and ...Live are
\* faulty variants of the definitions after them; no specification uses them.
\* They show that the properties tell the code from a plausible mistake in it.

\* ORDER BY submitted_at DESC, request_id ASC
Before(x, y) == x.at > y.at \/ (x.at = y.at /\ x.id < y.id)

\* The condition that a row comes after the last one of the page before.
AfterByTime(row, cursor) == row.at < cursor.at
AfterOrAt(row, cursor) == row.at < cursor.at \/ (row.at = cursor.at /\ row.id >= cursor.id)
After(row, cursor) == row.at < cursor.at \/ (row.at = cursor.at /\ row.id > cursor.id)

MatchesFilter(row, filter) == filter = {} \/ Status(row) \in filter

\* The rows of the query that come after the cursor, under its ceiling.
Ceiling(cursor) == IF cursor = NoCursor THEN now ELSE cursor.ceiling
Eligible(db, q, cursor) ==
  {row \in db : /\ row.id \in Owned[q.scope]
                /\ row.at <= Ceiling(cursor)
                /\ MatchesFilter(row, q.filter)
                /\ cursor # NoCursor => After(row, cursor)}

\* LIMIT limit + 1, of which the last one only tells that there are more.
Page(eligible, limit) ==
  {row \in eligible : Cardinality({other \in eligible : Before(other, row)}) < limit}
HasMore(eligible, limit) == Cardinality(eligible) > limit
IsLast(row, page) == row \in page /\ \A other \in page : other = row \/ Before(other, row)

\* What the keyed digests of a cursor bind it to: customer, employee and
\* authorization snapshot; legal entities are digested without key.
Binding(key, scope) == <<key, scope>>

\* decode: the key that signed is looked up, and the bindings recomputed with it.
AcceptsOfActive(cursor, q) ==
  /\ cursor.key \in ring.previous \cup {ring.active}
  /\ now \in cursor.from..cursor.until
  /\ cursor.filter = q.filter /\ cursor.limit = q.limit
  /\ cursor.owner = Binding(ring.active, q.scope)
AcceptsWithoutFilter(cursor, q) ==
  /\ cursor.key \in ring.previous \cup {ring.active}
  /\ now \in cursor.from..cursor.until
  /\ cursor.limit = q.limit
  /\ cursor.owner = Binding(cursor.key, q.scope)
Accepts(cursor, q) ==
  /\ cursor.key \in ring.previous \cup {ring.active}
  /\ now \in cursor.from..cursor.until
  /\ cursor.filter = q.filter /\ cursor.limit = q.limit
  /\ cursor.owner = Binding(cursor.key, q.scope)

\* encode, with the history of the listing: its query, the rows
\* it had to list then, and the ids on its pages so far.
Cursor(q, ceiling, last, trail) ==
  [key |-> ring.active, owner |-> Binding(ring.active, q.scope),
   filter |-> q.filter, limit |-> q.limit, from |-> now, until |-> now + TTL,
   ceiling |-> ceiling, at |-> last.at, id |-> last.id, trail |-> trail]

-----------------------------------------------------------------------------
Init ==
  /\ rows = {} /\ now = 0
  /\ \E key \in Keys : ring = [active |-> key, previous |-> {}]
  /\ issued = {}
  /\ pc = [c \in Clients |-> "idle"]
  /\ call = [c \in Clients |-> NoCall]
  /\ view = [c \in Clients |-> {}]
  /\ found = [c \in Clients |-> NoRow]
  /\ answer = NoAnswer
  /\ calls = 0

-----------------------------------------------------------------------------
(* The ERP, the clock and the operator *)

Outside == /\ answer' = NoAnswer
           /\ UNCHANGED <<issued, pc, call, view, found, calls>>

Tick == /\ now < MaxTime
        /\ now' = now + 1
        /\ UNCHANGED <<rows, ring>> /\ Outside

\* A request becomes visible, possibly long after its submission.
Appear(id, at, status) ==
  /\ \A row \in rows : row.id # id
  /\ at <= now
  /\ rows' = rows \cup {[id |-> id, at |-> at, steps |-> <<status>>]}
  /\ UNCHANGED <<now, ring>> /\ Outside

\* A workflow step: the status and its history entry change together.
Change(row, status) ==
  /\ row \in rows /\ Len(row.steps) <= MaxSteps /\ status # Status(row)
  /\ rows' = (rows \ {row}) \cup {[row EXCEPT !.steps = Append(@, status)]}
  /\ UNCHANGED <<now, ring>> /\ Outside

\* The service is restarted with a new key and some of the old ones; calls that
\* are open end.
Rotate(key, kept) ==
  /\ key \notin ring.previous \cup {ring.active}
  /\ kept \subseteq ring.previous \cup {ring.active}
  /\ ring' = [active |-> key, previous |-> kept]
  /\ pc' = [c \in Clients |-> "idle"] /\ call' = [c \in Clients |-> NoCall]
  /\ view' = [c \in Clients |-> {}] /\ found' = [c \in Clients |-> NoRow]
  /\ answer' = NoAnswer
  /\ UNCHANGED <<rows, now, issued, calls>>

-----------------------------------------------------------------------------
(* Calls *)

Start(c, step, arguments) ==
  /\ pc[c] = "idle" /\ calls < MaxCalls
  /\ calls' = calls + 1
  /\ pc' = [pc EXCEPT ![c] = step]
  /\ call' = [call EXCEPT ![c] = arguments]
  /\ answer' = NoAnswer
  /\ UNCHANGED <<rows, now, ring, issued, view, found>>

End(c, result) ==
  /\ pc' = [pc EXCEPT ![c] = "idle"]
  /\ call' = [call EXCEPT ![c] = NoCall]
  /\ view' = [view EXCEPT ![c] = {}]
  /\ found' = [found EXCEPT ![c] = NoRow]
  /\ answer' = result

\* Answers without the database: nothing for a scope without entities, and a
\* refusal of the cursor.
Reply(c, result) ==
  /\ pc[c] = "idle" /\ calls < MaxCalls
  /\ calls' = calls + 1
  /\ answer' = result
  /\ UNCHANGED <<rows, now, ring, issued, pc, call, view, found>>

List(c, q, cursor) ==
  \/ /\ q.scope \in Unscoped
     /\ Reply(c, [kind |-> "nothing"])
  \/ /\ q.scope \notin Unscoped
     /\ cursor # NoCursor /\ ~Accepts(cursor, q)
     /\ Reply(c, [kind |-> "refused", query |-> q, cursor |-> cursor, time |-> now,
                   keys |-> ring.previous \cup {ring.active}])
  \/ /\ q.scope \notin Unscoped
     /\ cursor # NoCursor => Accepts(cursor, q)
     /\ Start(c, "begin", [kind |-> "list", query |-> q, cursor |-> cursor])

Get(c, scope, id) ==
  \/ scope \in Unscoped /\ Reply(c, [kind |-> "missing"])
  \/ /\ scope \notin Unscoped
     /\ Start(c, "begin", [kind |-> "get", scope |-> scope, id |-> id])

\* The transaction's first statement takes its snapshot.
Begin(c) ==
  /\ pc[c] = "begin"
  /\ pc' = [pc EXCEPT ![c] = call[c].kind]
  /\ view' = [view EXCEPT ![c] = rows]
  /\ answer' = NoAnswer
  /\ UNCHANGED <<rows, now, ring, issued, call, found, calls>>

\* The listing query; the first page sets the ceiling from the clock, later than
\* the snapshot.
ReadPage(c) ==
  /\ pc[c] = "list"
  /\ LET q == call[c].query
         cursor == call[c].cursor
         eligible == Eligible(view[c], q, cursor)
         page == Page(eligible, q.limit)
         more == HasMore(eligible, q.limit)
         trail == IF cursor = NoCursor
                  THEN [query |-> q, base |-> eligible, listed |-> {}]
                  ELSE cursor.trail
         listed == {row.id : row \in page} IN
     /\ End(c, [kind |-> "page", query |-> q, trail |-> trail, page |-> page,
                more |-> more, view |-> view[c]])
     /\ \/ /\ more
           /\ \E last \in page :
                /\ IsLast(last, page)
                /\ issued' = issued \cup {Cursor(q, Ceiling(cursor), last,
                                                [trail EXCEPT !.listed = @ \cup listed])}
        \/ ~more /\ UNCHANGED issued
  /\ UNCHANGED <<rows, now, ring, calls>>

\* What the statements of a detail call read.
Seen(c) == view[c]

ReadDetail(c) ==
  /\ pc[c] = "get"
  /\ \/ \E row \in Seen(c) :
          /\ row.id = call[c].id /\ row.id \in Owned[call[c].scope]
          /\ pc' = [pc EXCEPT ![c] = "history"]
          /\ found' = [found EXCEPT ![c] = row]
          /\ answer' = NoAnswer /\ UNCHANGED <<call, view>>
     \/ /\ \A row \in Seen(c) : row.id # call[c].id \/ row.id \notin Owned[call[c].scope]
        /\ End(c, [kind |-> "missing"])
  /\ UNCHANGED <<rows, now, ring, issued, calls>>

\* The handler refuses a detail whose history does not end in its status.
ReadHistory(c) ==
  /\ pc[c] = "history"
  /\ \E row \in Seen(c) :
       /\ row.id = found[c].id
       /\ End(c, [kind |-> IF Status(row) = Status(found[c]) THEN "detail" ELSE "torn"])
  /\ UNCHANGED <<rows, now, ring, issued, calls>>

\* A timeout, a lost connection or a cancellation.
Fail(c) == /\ pc[c] # "idle"
           /\ End(c, [kind |-> "failed"])
           /\ UNCHANGED <<rows, now, ring, issued, calls>>

\* The bound on calls is used up.
Rest == calls = MaxCalls /\ (\A c \in Clients : pc[c] = "idle") /\ UNCHANGED vars

Next ==
  \/ Tick
  \/ \E id \in RequestIds, at \in 0..MaxTime, status \in Statuses : Appear(id, at, status)
  \/ \E row \in rows, status \in Statuses : Change(row, status)
  \/ \E key \in Keys, kept \in SUBSET Keys : Rotate(key, kept)
  \/ \E c \in Clients :
       \/ \E q \in Query, cursor \in issued \cup {NoCursor} : List(c, q, cursor)
       \/ \E scope \in Scopes, id \in RequestIds : Get(c, scope, id)
       \/ Begin(c) \/ ReadPage(c) \/ ReadDetail(c) \/ ReadHistory(c) \/ Fail(c)
  \/ Rest

Spec == Init /\ [][Next]_vars

-----------------------------------------------------------------------------
(* Properties *)

TypeOK ==
  /\ \A row \in rows : /\ row.id \in RequestIds /\ row.at \in 0..now
                       /\ row.steps # <<>> /\ row.steps \in Seq(Statuses)
  /\ \A row, twin \in rows : row.id = twin.id => row = twin
  /\ now \in 0..MaxTime
  /\ ring.active \in Keys /\ ring.previous \subseteq Keys \ {ring.active}
  /\ \A cursor \in issued :
       /\ cursor.key \in Keys /\ cursor.owner \in Keys \X Scopes
       /\ cursor.filter \in Filters /\ cursor.limit \in Limits
       /\ cursor.ceiling \in 0..now /\ cursor.at \in 0..cursor.ceiling
       /\ cursor.id \in RequestIds /\ cursor.trail.query \in Query
       /\ cursor.trail.listed \subseteq RequestIds
  /\ pc \in [Clients -> {"idle", "begin", "list", "get", "history"}]
  /\ \A c \in Clients : /\ call[c] = NoCall <=> pc[c] = "idle"
                        /\ found[c] # NoRow <=> pc[c] = "history"
  /\ calls \in 0..MaxCalls

Pages == {a \in {answer} : a.kind = "page"}

\* No request is on two pages of a listing, or twice on one, although requests
\* appear and change in between and a cursor may be followed more than once.
NoRowTwice ==
  \A a \in Pages : /\ \A row \in a.page : row.id \notin a.trail.listed
                   /\ \A row, other \in a.page : row.id = other.id => row = other

\* A request whose status matched from step from on, as far as view knows.
MatchedSince(row, steps, filter) ==
  filter = {} \/ \A i \in Len(steps)..Len(row.steps) : row.steps[i] \in filter

\* When a listing ends, it has listed every request that was there at its
\* beginning and has matched the query all the time since.
NoRowLost ==
  \A a \in Pages : ~a.more =>
    \A first \in a.trail.base, row \in a.view :
      row.id = first.id /\ MatchedSince(row, first.steps, a.query.filter)
        => row.id \in a.trail.listed \/ row \in a.page

\* All pages of a listing answer the same question to the same trusted context,
\* whatever cursors clients bring back with other questions.
OneQueryPerListing == \A a \in Pages : a.trail.query = a.query

\* A cursor is refused only to another query, after its time, or when the key it
\* was signed with is gone: a rotation that keeps the old key ends no listing.
RefusalIsJustified ==
  answer.kind = "refused" =>
    \/ answer.cursor.trail.query # answer.query
    \/ answer.time > answer.cursor.from + TTL
    \/ answer.cursor.key \notin answer.keys

\* A detail is never refused because the request changed while it was read.
DetailIsWhole == answer.kind # "torn"
=============================================================================
