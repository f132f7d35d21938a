-------------------------- MODULE LeaveListingProofs --------------------------
(***************************************************************************)
(* Proofs about LeaveListing, for every number of clients, requests, keys, *)
(* page sizes and calls.  A cursor is worth its listing: CursorOver says   *)
(* what the position of a cursor and the history it stands for tell about  *)
(* a state of the view, and is kept by everything the view can become.     *)
(***************************************************************************)
EXTENDS LeaveListing, FiniteSetTheorems, TLAPS

\* A state of the view: finitely many requests, each with an id of its own.
WellFormed(db) ==
  /\ IsFiniteSet(db) /\ db \subseteq Row
  /\ \A row \in db : Len(row.steps) > 0
  /\ \A row, twin \in db : row.id = twin.id => row = twin

\* The same request, possibly some workflow steps later.
Continues(row, first) ==
  /\ row.id = first.id /\ row.at = first.at
  /\ Len(first.steps) <= Len(row.steps)
  /\ \A i \in 1..Len(first.steps) : row.steps[i] = first.steps[i]

\* A later state of the view has every request of an earlier one.
Extends(db, earlier) == \A first \in earlier : \E row \in db : Continues(row, first)

\* A cursor carries the query of its listing.
OwnQuery(cursor) ==
  LET q == cursor.trail.query IN
  /\ cursor.owner = Binding(cursor.key, q.scope)
  /\ cursor.filter = q.filter /\ cursor.limit = q.limit

\* Every request listed so far is at or before the cursor; the first page's
\* requests are still there, and of those at or before the cursor the ones that
\* kept matching are listed.
CursorOver(cursor, db) ==
  LET trail == cursor.trail IN
  /\ \A id \in trail.listed : \E row \in db : row.id = id /\ ~After(row, cursor)
  /\ Extends(db, trail.base)
  /\ \A first \in trail.base : /\ first.id \in Owned[trail.query.scope]
                               /\ first.at <= cursor.ceiling /\ Len(first.steps) > 0
  /\ \A first \in trail.base, row \in db :
       /\ row.id = first.id /\ ~After(first, cursor)
       /\ MatchedSince(row, first.steps, trail.query.filter)
       => row.id \in trail.listed

CursorType(cursor) ==
  /\ cursor.at \in Nat /\ cursor.id \in Nat /\ cursor.ceiling \in Nat
  /\ cursor.from \in Nat /\ cursor.until = cursor.from + TTL
  /\ cursor.trail \in [query: Query, base: SUBSET Row, listed: SUBSET RequestIds]

CursorInv == \A cursor \in issued :
               /\ CursorType(cursor) /\ OwnQuery(cursor) /\ CursorOver(cursor, rows)
               /\ cursor.from <= now

\* A listing call has a cursor of its own query, or none.
CallInv ==
  /\ DOMAIN pc = Clients /\ DOMAIN call = Clients
  /\ DOMAIN view = Clients /\ DOMAIN found = Clients
  /\ \A c \in Clients :
    /\ pc[c] = "begin" => call[c].kind \in {"list", "get"}
    /\ pc[c] = "list" => call[c].kind = "list"
    /\ pc[c] \in {"begin", "list"} /\ call[c].kind = "list" =>
         /\ call[c].query \in Query
         /\ call[c].cursor \in issued \cup {NoCursor}
         /\ call[c].cursor # NoCursor => call[c].cursor.trail.query = call[c].query

\* A transaction sees a past state of the view, which the cursor it follows is
\* about; a detail call has found its row there.
ViewInv ==
  \A c \in Clients :
    /\ pc[c] \in {"list", "get", "history"} =>
         WellFormed(view[c]) /\ Extends(rows, view[c])
    /\ pc[c] = "list" /\ call[c].cursor # NoCursor => CursorOver(call[c].cursor, view[c])
    /\ pc[c] = "history" => found[c] \in view[c]

Correct == /\ NoRowTwice /\ NoRowLost /\ OneQueryPerListing
           /\ RefusalIsJustified /\ DetailIsWhole

IInv == /\ now \in 0..MaxTime /\ WellFormed(rows)
        /\ CursorInv /\ CallInv /\ ViewInv /\ Correct

-----------------------------------------------------------------------------
(* The order of the listing and its pages *)

\* Being after a position is being after everything at or before it.
LEMMA AfterIsTransitive ==
  ASSUME NEW x, NEW y, NEW z, x.at \in Nat, x.id \in Nat, y.at \in Nat, y.id \in Nat,
         z.at \in Nat, z.id \in Nat
  PROVE  /\ After(x, y) /\ After(y, z) => After(x, z)
         /\ Before(x, y) /\ Before(y, z) => Before(x, z)
         /\ After(x, y) <=> Before(y, x)
         /\ ~Before(x, x)
         /\ Before(x, y) => ~Before(y, x)
         /\ ~After(x, y) => Before(x, y) \/ (x.at = y.at /\ x.id = y.id)
  BY DEF After, Before

\* Rows have ordered ids and times.
LEMMA RowTypes ==
  ASSUME NEW row \in Row
  PROVE  row.id \in Nat /\ row.at \in Nat /\ row.id \in RequestIds
         /\ row.steps \in Seq(Statuses) /\ Len(row.steps) \in Nat
<1>1. row.id \in RequestIds /\ row.at \in 0..MaxTime /\ row.steps \in Seq(Statuses)
  BY DEF Row
<1>2. Len(row.steps) \in Nat
  BY <1>1
<1>3. row.id \in Nat
  BY <1>1, ListingAssumption
<1>4. row.at \in Nat
  BY <1>1, ListingAssumption
<1> QED
  BY <1>1, <1>2, <1>3, <1>4

\* What comes before a row of a page is on that page as well.
LEMMA PageIsClosed ==
  ASSUME NEW db, WellFormed(db), NEW eligible \in SUBSET db, NEW limit \in Nat,
         NEW row \in Page(eligible, limit), NEW other \in eligible, Before(other, row)
  PROVE  other \in Page(eligible, limit)
<1> DEFINE Ahead(x) == {y \in eligible : Before(y, x)}
<1>1. IsFiniteSet(eligible)
  BY FS_Subset DEF WellFormed
<1>2. row \in eligible /\ Cardinality(Ahead(row)) < limit
  BY DEF Page
<1>3. Ahead(other) \subseteq Ahead(row)
  <2> SUFFICES ASSUME NEW y \in eligible, Before(y, other) PROVE Before(y, row)
    OBVIOUS
  <2>1. /\ y.at \in Nat /\ y.id \in Nat /\ other.at \in Nat /\ other.id \in Nat
        /\ row.at \in Nat /\ row.id \in Nat
    BY <1>2, RowTypes DEF WellFormed
  <2> QED
    BY <2>1, AfterIsTransitive
<1>4. IsFiniteSet(Ahead(row)) /\ IsFiniteSet(Ahead(other))
  BY <1>1, FS_Subset
<1>5. /\ Cardinality(Ahead(other)) <= Cardinality(Ahead(row))
      /\ Cardinality(Ahead(other)) \in Nat /\ Cardinality(Ahead(row)) \in Nat
  BY <1>3, <1>4, FS_Subset, FS_CardinalityType
<1>6. Cardinality(Ahead(other)) < limit
  BY <1>2, <1>5
<1> QED
  BY <1>6 DEF Page

\* A page that is not followed by another has every row that was left.
LEMMA LastPageIsWhole ==
  ASSUME NEW db, WellFormed(db), NEW eligible \in SUBSET db, NEW limit \in Nat,
         ~HasMore(eligible, limit)
  PROVE  Page(eligible, limit) = eligible
<1> SUFFICES ASSUME NEW row \in eligible
             PROVE  Cardinality({y \in eligible : Before(y, row)}) < limit
  BY DEF Page
<1> DEFINE ahead == {y \in eligible : Before(y, row)}
<1>1. IsFiniteSet(eligible)
  BY FS_Subset DEF WellFormed
<1>2. row \notin ahead
  BY RowTypes, AfterIsTransitive DEF WellFormed
<1>3. Cardinality(ahead) <= Cardinality(eligible) /\ Cardinality(ahead) # Cardinality(eligible)
  BY <1>1, <1>2, FS_Subset
<1>4. Cardinality(ahead) \in Nat /\ Cardinality(eligible) \in Nat
  BY <1>1, FS_Subset, FS_CardinalityType
<1> QED
  BY <1>3, <1>4 DEF HasMore

-----------------------------------------------------------------------------
(* What later states of the view keep *)

\* Workflow steps only add up.
LEMMA ContinuesIsTransitive ==
  ASSUME NEW row \in Row, NEW mid \in Row, NEW first \in Row,
         Continues(row, mid), Continues(mid, first)
  PROVE  Continues(row, first)
<1>1. Len(row.steps) \in Nat /\ Len(mid.steps) \in Nat /\ Len(first.steps) \in Nat
  BY RowTypes
<1>2. Len(first.steps) <= Len(row.steps)
  BY <1>1 DEF Continues
<1>3. ASSUME NEW i \in 1..Len(first.steps) PROVE row.steps[i] = first.steps[i]
  BY <1>1, <1>3 DEF Continues
<1> QED
  BY <1>2, <1>3 DEF Continues

\* A request that matches after some steps has matched before them.
LEMMA MatchedBefore ==
  ASSUME NEW row \in Row, NEW mid \in Row, NEW first \in Row, NEW filter,
         Len(first.steps) > 0, Continues(row, mid), Continues(mid, first),
         MatchedSince(row, first.steps, filter)
  PROVE  MatchedSince(mid, first.steps, filter)
<1>1. Len(row.steps) \in Nat /\ Len(mid.steps) \in Nat /\ Len(first.steps) \in Nat
  BY RowTypes
<1>2. ASSUME NEW i \in Len(first.steps)..Len(mid.steps), filter # {}
      PROVE  mid.steps[i] \in filter
  <2>1. i \in Len(first.steps)..Len(row.steps) /\ i \in 1..Len(mid.steps)
    BY <1>1 DEF Continues
  <2>2. row.steps[i] \in filter /\ row.steps[i] = mid.steps[i]
    BY <1>2, <2>1 DEF MatchedSince, Continues
  <2> QED
    BY <2>2
<1> QED
  BY <1>2 DEF MatchedSince

\* What a cursor says of a state of the view it says of every later one.
LEMMA CursorLasts ==
  ASSUME NEW cursor, NEW earlier, NEW db, WellFormed(earlier), WellFormed(db),
         Extends(db, earlier), cursor.trail.base \subseteq Row,
         CursorOver(cursor, earlier)
  PROVE  CursorOver(cursor, db)
<1> DEFINE trail == cursor.trail
<1>0. earlier \subseteq Row /\ db \subseteq Row
  BY DEF WellFormed
<1>1. ASSUME NEW id \in trail.listed
      PROVE  \E row \in db : row.id = id /\ ~After(row, cursor)
  <2>1. PICK mid \in earlier : mid.id = id /\ ~After(mid, cursor)
    BY <1>1 DEF CursorOver
  <2>2. PICK row \in db : Continues(row, mid)
    BY DEF Extends
  <2> QED
    BY <2>1, <2>2 DEF Continues, After
<1>2. ASSUME NEW first \in trail.base
      PROVE  \E mid \in earlier, row \in db :
               Continues(mid, first) /\ Continues(row, mid) /\ Continues(row, first)
  <2>1. PICK mid \in earlier : Continues(mid, first)
    BY DEF CursorOver, Extends
  <2>2. PICK row \in db : Continues(row, mid)
    BY DEF Extends
  <2> QED
    BY <1>0, <2>1, <2>2, ContinuesIsTransitive
<1>3. Extends(db, trail.base)
  BY <1>2 DEF Extends
<1>4. ASSUME NEW first \in trail.base, NEW row \in db, row.id = first.id,
             ~After(first, cursor), MatchedSince(row, first.steps, trail.query.filter)
      PROVE  row.id \in trail.listed
  <2>1. PICK mid \in earlier, later \in db :
          Continues(mid, first) /\ Continues(later, mid) /\ Continues(later, first)
    BY <1>2
  <2>2. later = row
    BY <1>4, <2>1 DEF WellFormed, Continues
  <2>3. MatchedSince(mid, first.steps, trail.query.filter)
    BY <1>0, <1>4, <2>1, <2>2, MatchedBefore DEF CursorOver
  <2>4. mid.id = first.id
    BY <2>1 DEF Continues
  <2> QED
    BY <1>4, <2>3, <2>4 DEF CursorOver
<1> QED
  BY <1>1, <1>3, <1>4 DEF CursorOver

\* The rows of a query are those of the view that are after the cursor.
LEMMA EligibleRows ==
  ASSUME NEW db, NEW q, NEW cursor
  PROVE  /\ Eligible(db, q, cursor) \subseteq db
         /\ \A row \in Eligible(db, q, cursor) :
              /\ row.id \in Owned[q.scope] /\ row.at <= Ceiling(cursor)
              /\ cursor # NoCursor => After(row, cursor)
  BY DEF Eligible

\* A request of the first page that kept matching is on the pages so far or
\* still to come.
LEMMA ListedOrEligible ==
  ASSUME NEW db, WellFormed(db), NEW cursor, cursor # NoCursor,
         cursor.trail.base \subseteq Row, CursorOver(cursor, db),
         NEW first \in cursor.trail.base, NEW row \in db, row.id = first.id,
         MatchedSince(row, first.steps, cursor.trail.query.filter),
         row.id \notin cursor.trail.listed
  PROVE  row \in Eligible(db, cursor.trail.query, cursor)
<1>1. PICK later \in db : Continues(later, first)
  BY DEF CursorOver, Extends
<1>2. Continues(row, first)
  BY <1>1 DEF WellFormed, Continues
<1>3. After(first, cursor)
  BY DEF CursorOver
<1>4. After(row, cursor)
  BY <1>2, <1>3 DEF Continues, After
<1>5. row.id \in Owned[cursor.trail.query.scope] /\ row.at <= cursor.ceiling
  BY <1>2 DEF CursorOver, Continues
<1>6. Len(row.steps) \in Len(first.steps)..Len(row.steps)
  <2>1. Len(first.steps) \in Nat /\ Len(row.steps) \in Nat
    BY RowTypes DEF WellFormed
  <2> QED
    BY <1>2, <2>1 DEF Continues
<1>7. MatchesFilter(row, cursor.trail.query.filter)
  BY <1>6 DEF MatchesFilter, MatchedSince, Status
<1> QED
  BY <1>4, <1>5, <1>7 DEF Eligible, Ceiling

-----------------------------------------------------------------------------
(* One page *)

\* The history that a page adds to.
Trail(db, q, cursor) ==
  IF cursor = NoCursor THEN [query |-> q, base |-> Eligible(db, q, cursor), listed |-> {}]
                       ELSE cursor.trail

\* A call that follows a cursor of its query, or none, on a state of the view.
Follows(db, q, cursor) ==
  /\ WellFormed(db) /\ q \in Query
  /\ cursor # NoCursor => /\ CursorType(cursor) /\ CursorOver(cursor, db)
                          /\ cursor.trail.query = q

\* The position a page ends at.
EndsAt(next, last, db, q, cursor) ==
  LET page == Page(Eligible(db, q, cursor), q.limit)
      trail == Trail(db, q, cursor) IN
  /\ next.at = last.at /\ next.id = last.id /\ next.ceiling = Ceiling(cursor)
  /\ next.trail = [trail EXCEPT !.listed = @ \cup {row.id : row \in page}]

LEMMA TrailType ==
  ASSUME NEW db, NEW q, NEW cursor, Follows(db, q, cursor)
  PROVE  /\ Trail(db, q, cursor) \in [query: Query, base: SUBSET Row, listed: SUBSET RequestIds]
         /\ Trail(db, q, cursor).query = q
<1>1. CASE cursor = NoCursor
  <2>1. Eligible(db, q, cursor) \subseteq Row
    BY EligibleRows DEF Follows, WellFormed
  <2> QED
    BY <1>1, <2>1 DEF Trail, Follows
<1>2. CASE cursor # NoCursor
  BY <1>2 DEF Trail, Follows, CursorType
<1> QED
  BY <1>1, <1>2

\* A page has no request of an earlier page, and no two rows of one request.
LEMMA PageIsNew ==
  ASSUME NEW db, NEW q, NEW cursor, Follows(db, q, cursor)
  PROVE  LET page == Page(Eligible(db, q, cursor), q.limit) IN
         /\ \A row \in page : row.id \notin Trail(db, q, cursor).listed
         /\ \A row, other \in page : row.id = other.id => row = other
<1> DEFINE page == Page(Eligible(db, q, cursor), q.limit)
<1>1. page \subseteq Eligible(db, q, cursor) /\ page \subseteq db
  BY EligibleRows DEF Page
<1>2. ASSUME NEW row \in page, row.id \in Trail(db, q, cursor).listed PROVE FALSE
  <2>1. CASE cursor = NoCursor
    BY <1>2, <2>1 DEF Trail
  <2>2. CASE cursor # NoCursor
    <3>1. PICK twin \in db : twin.id = row.id /\ ~After(twin, cursor)
      BY <1>2, <2>2 DEF Trail, Follows, CursorOver
    <3>2. twin = row
      BY <1>1, <3>1 DEF Follows, WellFormed
    <3> QED
      BY <1>1, <2>2, <3>1, <3>2, EligibleRows
  <2> QED
    BY <2>1, <2>2
<1>3. \A row, other \in page : row.id = other.id => row = other
  BY <1>1 DEF Follows, WellFormed
<1> QED
  BY <1>2, <1>3

\* When no page follows, what kept matching has been listed.
LEMMA LastPageEndsListing ==
  ASSUME NEW db, NEW q, NEW cursor, Follows(db, q, cursor),
         ~HasMore(Eligible(db, q, cursor), q.limit),
         NEW first \in Trail(db, q, cursor).base, NEW row \in db,
         row.id = first.id, MatchedSince(row, first.steps, q.filter)
  PROVE  \/ row.id \in Trail(db, q, cursor).listed
         \/ row \in Page(Eligible(db, q, cursor), q.limit)
<1>1. Page(Eligible(db, q, cursor), q.limit) = Eligible(db, q, cursor)
  <2>1. q.limit \in Nat
    BY ListingAssumption DEF Follows, Query
  <2> QED
    BY <2>1, EligibleRows, LastPageIsWhole DEF Follows
<1>2. CASE cursor = NoCursor
  <2>1. first \in Eligible(db, q, cursor)
    BY <1>2 DEF Trail
  <2>2. first = row
    BY <2>1, EligibleRows DEF Follows, WellFormed
  <2> QED
    BY <1>1, <2>1, <2>2
<1>3. CASE cursor # NoCursor
  <2>1. /\ Trail(db, q, cursor) = cursor.trail /\ cursor.trail.query = q
        /\ cursor.trail.base \subseteq Row /\ CursorOver(cursor, db) /\ WellFormed(db)
    BY <1>3 DEF Trail, Follows, CursorType
  <2>2. row.id \in cursor.trail.listed \/ row \in Eligible(db, q, cursor)
    BY <1>3, <2>1, ListedOrEligible
  <2> QED
    BY <1>1, <2>1, <2>2
<1> QED
  BY <1>2, <1>3

\* The cursor of the next page stands for the listing as far as this page.
LEMMA NextCursor ==
  ASSUME NEW db, NEW q, NEW cursor, Follows(db, q, cursor), NEW last, NEW next,
         IsLast(last, Page(Eligible(db, q, cursor), q.limit)),
         EndsAt(next, last, db, q, cursor)
  PROVE  CursorOver(next, db)
<1> DEFINE eligible == Eligible(db, q, cursor)
           page == Page(eligible, q.limit)
           trail == Trail(db, q, cursor)
<1>0. /\ page \subseteq eligible /\ eligible \subseteq db /\ db \subseteq Row
      /\ last \in page /\ q.limit \in Nat
  BY EligibleRows, ListingAssumption DEF Page, Follows, WellFormed, IsLast, Query
<1>1. /\ next.at = last.at /\ next.id = last.id /\ next.ceiling = Ceiling(cursor)
      /\ next.trail.query = q /\ next.trail.base = trail.base
      /\ next.trail.listed = trail.listed \cup {row.id : row \in page}
  BY TrailType DEF EndsAt
<1>2. \A row \in db : row.at \in Nat /\ row.id \in Nat
  BY <1>0, RowTypes
<1>3. next.at \in Nat /\ next.id \in Nat
  BY <1>0, <1>1, <1>2
<1>4. ASSUME NEW row \in page PROVE ~After(row, next)
  <2>1. row = last \/ Before(row, last)
    BY DEF IsLast
  <2> QED
    BY <1>0, <1>1, <1>2, <2>1 DEF After, Before
<1>5. ASSUME NEW row \in eligible, ~After(row, next) PROVE row \in page
  <2>1. row = last \/ Before(row, last)
    <3>1. Before(row, last) \/ row.id = last.id
      BY <1>0, <1>1, <1>2, <1>5 DEF After, Before
    <3> QED
      BY <1>0, <3>1 DEF Follows, WellFormed
  <2> QED
    BY <1>0, <2>1, PageIsClosed DEF Follows
<1>6. CASE cursor = NoCursor
  <2>1. trail.base = eligible /\ trail.listed = {} /\ trail.query = q
    BY <1>6 DEF Trail
  <2>2. Extends(db, eligible)
    BY <1>0 DEF Extends, Continues
  <2>3. \A first \in eligible : /\ first.id \in Owned[q.scope] /\ first.at <= next.ceiling
                               /\ Len(first.steps) > 0
    BY <1>0, <1>1, EligibleRows DEF Follows, WellFormed
  <2>4. \A id \in next.trail.listed : \E row \in db : row.id = id /\ ~After(row, next)
    BY <1>0, <1>1, <1>4, <2>1
  <2>5. ASSUME NEW first \in eligible, NEW row \in db, row.id = first.id, ~After(first, next)
        PROVE  row.id \in next.trail.listed
    BY <1>1, <1>5, <2>5
  <2> QED
    BY <1>1, <2>1, <2>2, <2>3, <2>4, <2>5 DEF CursorOver
<1>7. CASE cursor # NoCursor
  <2>1. /\ trail = cursor.trail /\ cursor.trail.query = q
        /\ cursor.trail.base \subseteq Row /\ CursorOver(cursor, db)
        /\ WellFormed(db) /\ cursor.at \in Nat /\ cursor.id \in Nat
        /\ next.ceiling = cursor.ceiling
    BY <1>1, <1>7 DEF Trail, Follows, CursorType, Ceiling
  <2>2. After(last, cursor)
    BY <1>0, <1>7, EligibleRows
  <2>3. ASSUME NEW row \in db, ~After(row, cursor) PROVE ~After(row, next)
    BY <1>0, <1>1, <1>2, <2>1, <2>2, <2>3 DEF After
  <2>4. \A id \in next.trail.listed : \E row \in db : row.id = id /\ ~After(row, next)
    <3>1. ASSUME NEW id \in cursor.trail.listed
          PROVE  \E row \in db : row.id = id /\ ~After(row, next)
      BY <2>1, <2>3 DEF CursorOver
    <3> QED
      BY <1>0, <1>1, <1>4, <2>1, <3>1
  <2>5. ASSUME NEW first \in trail.base, NEW row \in db, row.id = first.id,
               ~After(first, next), MatchedSince(row, first.steps, q.filter)
        PROVE  row.id \in next.trail.listed
    <3>1. row.id \in cursor.trail.listed \/ row \in eligible
      BY <1>7, <2>1, <2>5, ListedOrEligible
    <3>2. CASE row \in eligible
      <4>1. PICK later \in db : Continues(later, first)
        BY <2>1 DEF CursorOver, Extends
      <4>2. later = row
        BY <2>1, <2>5, <4>1 DEF WellFormed, Continues
      <4>3. ~After(row, next)
        BY <2>5, <4>1, <4>2 DEF Continues, After
      <4> QED
        BY <1>1, <1>5, <3>2, <4>3
    <3> QED
      BY <1>1, <2>1, <3>1, <3>2
  <2> QED
    BY <1>1, <2>1, <2>4, <2>5 DEF CursorOver
<1> QED
  BY <1>6, <1>7

-----------------------------------------------------------------------------
(* The inductive invariant *)

LEMMA InitIInv == Init => IInv
<1> SUFFICES ASSUME Init PROVE IInv
  OBVIOUS
<1>1. now \in 0..MaxTime
  BY ListingAssumption DEF Init
<1>2. WellFormed(rows) /\ CursorInv
  BY FS_EmptySet DEF Init, WellFormed, CursorInv
<1>3. CallInv /\ ViewInv
  BY DEF Init, CallInv, ViewInv
<1>4. Correct
  BY DEF Init, NoAnswer, Correct, NoRowTwice, NoRowLost, OneQueryPerListing,
         RefusalIsJustified, DetailIsWhole, Pages
<1> QED
  BY <1>1, <1>2, <1>3, <1>4 DEF IInv

\* Only pages, refusals and torn details can be wrong.
LEMMA OtherAnswers ==
  ASSUME answer'.kind \notin {"page", "refused", "torn"}
  PROVE  Correct'
  BY DEF Correct, NoRowTwice, NoRowLost, OneQueryPerListing, RefusalIsJustified,
         DetailIsWhole, Pages

\* What happens in the ERP and time passing keep what calls and cursors rest on.
LEMMA OutsideStep ==
  ASSUME IInv, Outside, WellFormed(rows'), Extends(rows', rows),
         now' \in 0..MaxTime, now <= now'
  PROVE  IInv'
<1>1. CursorInv'
  <2> SUFFICES ASSUME NEW cursor \in issued
               PROVE  /\ CursorType(cursor) /\ OwnQuery(cursor) /\ CursorOver(cursor, rows')
                      /\ cursor.from <= now'
    BY DEF Outside, CursorInv
  <2>1. /\ CursorType(cursor) /\ OwnQuery(cursor) /\ CursorOver(cursor, rows)
        /\ cursor.from <= now
    BY DEF IInv, CursorInv
  <2>2. cursor.from <= now'
    BY <2>1, ListingAssumption DEF CursorType, IInv
  <2>3. CursorOver(cursor, rows')
    BY <2>1, CursorLasts DEF IInv, CursorType
  <2> QED
    BY <2>1, <2>2, <2>3
<1>2. CallInv'
  BY DEF IInv, CallInv, Outside
<1>3. ViewInv'
  <2> SUFFICES ASSUME NEW c \in Clients, pc[c] \in {"list", "get", "history"}
               PROVE  Extends(rows', view[c])
    BY DEF ViewInv, IInv, Outside
  <2>1. WellFormed(view[c]) /\ Extends(rows, view[c]) /\ WellFormed(rows)
    BY DEF IInv, ViewInv
  <2>2. ASSUME NEW first \in view[c] PROVE \E row \in rows' : Continues(row, first)
    <3>1. PICK mid \in rows : Continues(mid, first)
      BY <2>1 DEF Extends
    <3>2. PICK row \in rows' : Continues(row, mid)
      BY DEF Extends
    <3> QED
      BY <2>1, <3>1, <3>2, ContinuesIsTransitive DEF WellFormed
  <2> QED
    BY <2>2 DEF Extends
<1>4. Correct'
  BY OtherAnswers DEF Outside, NoAnswer
<1> QED
  BY <1>1, <1>2, <1>3, <1>4 DEF IInv

LEMMA TickStep == ASSUME IInv, Tick PROVE IInv'
<1>1. WellFormed(rows') /\ Extends(rows', rows)
  BY RowTypes DEF IInv, Tick, WellFormed, Extends, Continues
<1>2. now' \in 0..MaxTime /\ now <= now'
  BY ListingAssumption DEF IInv, Tick
<1> QED
  BY <1>1, <1>2, OutsideStep DEF Tick

\* A new request has an id that no other has.
LEMMA AppearStep ==
  ASSUME IInv, NEW id \in RequestIds, NEW at \in 0..MaxTime, NEW status \in Statuses,
         Appear(id, at, status)
  PROVE  IInv'
<1> DEFINE new == [id |-> id, at |-> at, steps |-> <<status>>]
<1>1. new \in Row /\ Len(new.steps) > 0
  BY DEF Row
<1>2. rows' = rows \cup {new} /\ WellFormed(rows)
  BY DEF Appear, IInv
<1>3. IsFiniteSet(rows')
  BY <1>2, FS_AddElement DEF WellFormed
<1>4. \A row, twin \in rows' : row.id = twin.id => row = twin
  BY <1>2 DEF WellFormed, Appear
<1>5. WellFormed(rows')
  BY <1>1, <1>2, <1>3, <1>4 DEF WellFormed
<1>6. Extends(rows', rows)
  BY <1>2 DEF Extends, Continues, WellFormed
<1> QED
  BY <1>5, <1>6, OutsideStep, ListingAssumption DEF Appear, IInv

\* A changed request keeps its submission and its history.
LEMMA ChangeStep ==
  ASSUME IInv, NEW row \in rows, NEW status \in Statuses, Change(row, status)
  PROVE  IInv'
<1> DEFINE new == [row EXCEPT !.steps = Append(@, status)]
<1>1. row \in Row /\ WellFormed(rows) /\ rows' = (rows \ {row}) \cup {new}
  BY DEF IInv, WellFormed, Change
<1>2. /\ new \in Row /\ new.id = row.id /\ new.at = row.at
      /\ new.steps = Append(row.steps, status)
  BY <1>1 DEF Row
<1>3. Len(new.steps) > 0 /\ Continues(new, row)
  <2>1. row.steps \in Seq(Statuses) /\ Len(row.steps) \in Nat
    BY <1>1, RowTypes
  <2>2. Len(new.steps) = Len(row.steps) + 1
    BY <1>2, <2>1
  <2>3. \A i \in 1..Len(row.steps) : new.steps[i] = row.steps[i]
    BY <1>2, <2>1
  <2> QED
    BY <1>2, <2>1, <2>2, <2>3 DEF Continues
<1>4. IsFiniteSet(rows')
  BY <1>1, FS_AddElement, FS_RemoveElement DEF WellFormed
<1>5. \A x, twin \in rows' : x.id = twin.id => x = twin
  <2>1. \A x \in rows \ {row} : x.id # row.id
    BY <1>1 DEF WellFormed
  <2>2. \A x, twin \in rows : x.id = twin.id => x = twin
    BY <1>1 DEF WellFormed
  <2> HIDE DEF new
  <2> QED
    BY <1>1, <1>2, <2>1, <2>2
<1>6. WellFormed(rows')
  BY <1>1, <1>2, <1>3, <1>4, <1>5 DEF WellFormed
<1>7. ASSUME NEW first \in rows PROVE \E x \in rows' : Continues(x, first)
  <2>1. CASE first = row
    BY <1>1, <1>3, <2>1
  <2>2. CASE first # row
    BY <1>1, <2>2 DEF Continues, WellFormed
  <2> QED
    BY <2>1, <2>2
<1> QED
  BY <1>6, <1>7, OutsideStep, ListingAssumption DEF Change, IInv, Extends

\* A restart loses every call, and no cursor.
LEMMA RotateStep ==
  ASSUME IInv, NEW key \in Keys, NEW kept \in SUBSET Keys, Rotate(key, kept)
  PROVE  IInv'
<1>1. now' \in 0..MaxTime /\ WellFormed(rows') /\ CursorInv'
  BY DEF IInv, Rotate, CursorInv
<1>2. CallInv' /\ ViewInv'
  BY DEF Rotate, CallInv, ViewInv
<1>3. Correct'
  BY OtherAnswers DEF Rotate, NoAnswer
<1> QED
  BY <1>1, <1>2, <1>3 DEF IInv

-----------------------------------------------------------------------------
(* Calls *)

\* A call that answers leaves the other calls alone.
LEMMA EndStep ==
  ASSUME IInv, NEW c \in Clients, NEW result, End(c, result), UNCHANGED <<rows, now>>,
         issued \subseteq issued', CursorInv', Correct'
  PROVE  IInv'
<1>1. CallInv'
  BY DEF IInv, CallInv, End
<1>2. ViewInv'
  BY DEF IInv, CallInv, ViewInv, End
<1> QED
  BY <1>1, <1>2 DEF IInv

\* A call that starts has no snapshot yet.
LEMMA StartStep ==
  ASSUME IInv, NEW c \in Clients, NEW arguments, Start(c, "begin", arguments),
         arguments.kind \in {"list", "get"},
         arguments.kind = "list" =>
           /\ arguments.query \in Query /\ arguments.cursor \in issued \cup {NoCursor}
           /\ arguments.cursor # NoCursor => arguments.cursor.trail.query = arguments.query
  PROVE  IInv'
<1>1. now' \in 0..MaxTime /\ WellFormed(rows') /\ CursorInv'
  BY DEF IInv, Start, CursorInv
<1>2. CallInv'
  BY DEF IInv, CallInv, Start
<1>3. ViewInv'
  BY DEF IInv, CallInv, ViewInv, Start
<1>4. Correct'
  BY OtherAnswers DEF Start, NoAnswer
<1> QED
  BY <1>1, <1>2, <1>3, <1>4 DEF IInv

LEMMA ReplyStep ==
  ASSUME IInv, NEW c \in Clients, NEW result, Reply(c, result), Correct'
  PROVE  IInv'
<1>1. now' \in 0..MaxTime /\ WellFormed(rows') /\ CursorInv'
  BY DEF IInv, Reply, CursorInv
<1>2. CallInv' /\ ViewInv'
  BY DEF IInv, CallInv, ViewInv, Reply
<1> QED
  BY <1>1, <1>2 DEF IInv

\* A cursor that carries a query is accepted only for that query.
LEMMA OwnQueryIsAccepted ==
  ASSUME NEW cursor \in issued, CursorInv, NEW q \in Query,
         cursor.filter = q.filter, cursor.limit = q.limit,
         cursor.owner = Binding(cursor.key, q.scope)
  PROVE  cursor.trail.query = q
<1>1. cursor.trail.query \in Query /\ OwnQuery(cursor)
  BY DEF CursorInv, CursorType
<1>2. /\ cursor.trail.query.filter = q.filter /\ cursor.trail.query.limit = q.limit
      /\ cursor.trail.query.scope = q.scope
  BY <1>1 DEF OwnQuery, Binding
<1> QED
  BY <1>1, <1>2 DEF Query

\* A cursor that is not accepted is for another query, too old, or of a lost key.
LEMMA RefusedCursor ==
  ASSUME IInv, NEW cursor \in issued, NEW q \in Query, ~Accepts(cursor, q)
  PROVE  \/ cursor.trail.query # q
         \/ now > cursor.from + TTL
         \/ cursor.key \notin ring.previous \cup {ring.active}
<1>1. /\ OwnQuery(cursor) /\ cursor.from \in Nat /\ cursor.from <= now
      /\ cursor.until = cursor.from + TTL
  BY DEF IInv, CursorInv, CursorType
<1>2. now \in Nat /\ TTL \in Nat
  BY ListingAssumption DEF IInv
<1>3. ~(now > cursor.from + TTL) => now \in cursor.from..cursor.until
  BY <1>1, <1>2
<1> QED
  BY <1>1, <1>3 DEF Accepts, OwnQuery

LEMMA ListStep ==
  ASSUME IInv, NEW c \in Clients, NEW q \in Query, NEW cursor \in issued \cup {NoCursor},
         List(c, q, cursor)
  PROVE  IInv'
<1>1. CASE Reply(c, [kind |-> "nothing"])
  <2>1. Correct'
    BY <1>1, OtherAnswers DEF Reply
  <2> QED
    BY <1>1, <2>1, ReplyStep
<1>2. CASE /\ cursor # NoCursor /\ ~Accepts(cursor, q)
           /\ Reply(c, [kind |-> "refused", query |-> q, cursor |-> cursor, time |-> now,
                        keys |-> ring.previous \cup {ring.active}])
  <2>1. RefusalIsJustified'
    BY <1>2, RefusedCursor DEF Reply, RefusalIsJustified
  <2>2. Correct'
    BY <1>2, <2>1 DEF Reply, Correct, NoRowTwice, NoRowLost, OneQueryPerListing,
                      DetailIsWhole, Pages
  <2> QED
    BY <1>2, <2>2, ReplyStep
<1>3. CASE /\ cursor # NoCursor => Accepts(cursor, q)
           /\ Start(c, "begin", [kind |-> "list", query |-> q, cursor |-> cursor])
  <2>1. cursor # NoCursor => cursor.trail.query = q
    BY <1>3, OwnQueryIsAccepted DEF Accepts, IInv
  <2> QED
    BY <1>3, <2>1, StartStep
<1> QED
  BY <1>1, <1>2, <1>3 DEF List

LEMMA GetStep ==
  ASSUME IInv, NEW c \in Clients, NEW scope, NEW id, Get(c, scope, id)
  PROVE  IInv'
<1>1. CASE Reply(c, [kind |-> "missing"])
  <2>1. Correct'
    BY <1>1, OtherAnswers DEF Reply
  <2> QED
    BY <1>1, <2>1, ReplyStep
<1>2. CASE Start(c, "begin", [kind |-> "get", scope |-> scope, id |-> id])
  BY <1>2, StartStep
<1> QED
  BY <1>1, <1>2 DEF Get

\* The snapshot is the view as it is, which every cursor is about.
LEMMA BeginStep ==
  ASSUME IInv, NEW c \in Clients, Begin(c)
  PROVE  IInv'
<1>1. now' \in 0..MaxTime /\ WellFormed(rows') /\ CursorInv'
  BY DEF IInv, Begin, CursorInv
<1>2. CallInv'
  BY DEF IInv, CallInv, Begin
<1>3. Extends(rows, rows)
  <2>1. \A row \in rows : Continues(row, row)
    BY DEF IInv, WellFormed, Continues, Row
  <2> QED
    BY <2>1 DEF Extends
<1>4. ViewInv'
  BY <1>3 DEF IInv, CallInv, ViewInv, Begin, CursorInv
<1>5. Correct'
  BY OtherAnswers DEF Begin, NoAnswer
<1> QED
  BY <1>1, <1>2, <1>4, <1>5 DEF IInv

\* A page goes on where its cursor stands, and hands out the next cursor.
LEMMA ReadPageStep ==
  ASSUME IInv, NEW c \in Clients, ReadPage(c)
  PROVE  IInv'
<1> DEFINE q == call[c].query
           cursor == call[c].cursor
           db == view[c]
           eligible == Eligible(db, q, cursor)
           page == Page(eligible, q.limit)
           more == HasMore(eligible, q.limit)
           trail == Trail(db, q, cursor)
           result == [kind |-> "page", query |-> q, trail |-> trail, page |-> page,
                      more |-> more, view |-> db]
           next(last) == Cursor(q, Ceiling(cursor), last,
                                [trail EXCEPT !.listed = @ \cup {row.id : row \in page}])
<1>1. /\ pc[c] = "list" /\ End(c, result) /\ UNCHANGED <<rows, now>>
      /\ \/ more /\ \E last \in page : IsLast(last, page) /\ issued' = issued \cup {next(last)}
         \/ ~more /\ issued' = issued
  BY DEF ReadPage, Trail
<1>2. Follows(db, q, cursor) /\ Extends(rows, db) /\ WellFormed(rows)
  BY <1>1 DEF IInv, CallInv, ViewInv, CursorInv, Follows
<1>3. answer' = result
  BY <1>1 DEF End
<1>4. NoRowTwice'
  BY <1>2, <1>3, PageIsNew DEF NoRowTwice, Pages
<1>5. NoRowLost'
  BY <1>2, <1>3, LastPageEndsListing DEF NoRowLost, Pages
<1>6. OneQueryPerListing'
  BY <1>2, <1>3, TrailType DEF OneQueryPerListing, Pages
<1>7. Correct'
  BY <1>3, <1>4, <1>5, <1>6 DEF Correct, RefusalIsJustified, DetailIsWhole
<1>8. CursorInv'
  <2>1. \A old \in issued : /\ CursorType(old) /\ OwnQuery(old) /\ CursorOver(old, rows)
                             /\ old.from <= now
    BY DEF IInv, CursorInv
  <2>2. ASSUME NEW last \in page, IsLast(last, page)
        PROVE  /\ CursorType(next(last)) /\ OwnQuery(next(last))
               /\ CursorOver(next(last), rows) /\ next(last).from <= now
    <3>1. /\ trail \in [query: Query, base: SUBSET Row, listed: SUBSET RequestIds]
          /\ trail.query = q
      BY <1>2, TrailType
    <3>2. page \subseteq Row
      BY <1>2, EligibleRows DEF Page, Follows, WellFormed
    <3>3. last.at \in Nat /\ last.id \in Nat
      BY <3>2, RowTypes
    <3>4. now \in Nat /\ TTL \in Nat /\ Ceiling(cursor) \in Nat
      BY <1>2, ListingAssumption DEF IInv, Ceiling, Follows, CursorType
    <3>5. {row.id : row \in page} \subseteq RequestIds
      BY <3>2, RowTypes
    <3>6. /\ next(last).trail \in [query: Query, base: SUBSET Row, listed: SUBSET RequestIds]
          /\ next(last).trail.query = q /\ next(last).trail.base = trail.base
      BY <3>1, <3>5 DEF Cursor
    <3>7. CursorType(next(last)) /\ next(last).from <= now
      <4>1. Ceiling(cursor) \in Nat /\ next(last).from <= now
        BY <3>4 DEF Cursor
      <4>2. CursorType(next(last))
        BY <3>3, <3>4, <3>6 DEF CursorType, Cursor
      <4> QED
        BY <4>1, <4>2
    <3>8. OwnQuery(next(last))
      BY <3>6 DEF OwnQuery, Cursor
    <3>9. EndsAt(next(last), last, db, q, cursor)
      BY DEF EndsAt, Cursor
    <3>10. CursorOver(next(last), db)
      BY <1>2, <2>2, <3>9, NextCursor
    <3>11. CursorOver(next(last), rows)
      BY <1>2, <3>1, <3>6, <3>10, CursorLasts DEF Follows
    <3> QED
      BY <3>7, <3>8, <3>11
  <2> QED
    BY <1>1, <2>1, <2>2 DEF CursorInv
<1> QED
  BY <1>1, <1>7, <1>8, EndStep

\* A detail call reads the row and then its history in one snapshot.
LEMMA ReadDetailStep ==
  ASSUME IInv, NEW c \in Clients, ReadDetail(c)
  PROVE  IInv'
<1>1. CursorInv'
  BY DEF IInv, ReadDetail, CursorInv
<1>2. CASE End(c, [kind |-> "missing"])
  <2>1. Correct'
    BY <1>2, OtherAnswers DEF End
  <2> QED
    BY <1>1, <1>2, <2>1, EndStep DEF ReadDetail
<1>3. CASE \E row \in view[c] : /\ pc' = [pc EXCEPT ![c] = "history"]
                               /\ found' = [found EXCEPT ![c] = row]
                               /\ answer' = NoAnswer /\ UNCHANGED <<call, view>>
  <2>1. CallInv' /\ ViewInv'
    BY <1>3 DEF IInv, CallInv, ViewInv, ReadDetail
  <2>2. Correct'
    BY <1>3, OtherAnswers DEF NoAnswer
  <2> QED
    BY <1>1, <2>1, <2>2 DEF IInv, ReadDetail
<1> QED
  BY <1>2, <1>3 DEF ReadDetail, Seen

LEMMA ReadHistoryStep ==
  ASSUME IInv, NEW c \in Clients, ReadHistory(c)
  PROVE  IInv'
<1>1. CursorInv'
  BY DEF IInv, ReadHistory, CursorInv
<1>2. PICK row \in view[c] :
        /\ row.id = found[c].id
        /\ End(c, [kind |-> IF Status(row) = Status(found[c]) THEN "detail" ELSE "torn"])
  BY DEF ReadHistory, Seen
<1>3. row = found[c]
  BY <1>2 DEF IInv, ViewInv, WellFormed, ReadHistory
<1>4. Correct'
  BY <1>2, <1>3, OtherAnswers DEF End
<1> QED
  BY <1>1, <1>2, <1>4, EndStep DEF ReadHistory

LEMMA FailStep ==
  ASSUME IInv, NEW c \in Clients, Fail(c)
  PROVE  IInv'
<1>1. CursorInv' /\ End(c, [kind |-> "failed"])
  BY DEF IInv, Fail, CursorInv
<1>2. Correct'
  BY <1>1, OtherAnswers DEF End
<1> QED
  BY <1>1, <1>2, EndStep DEF Fail

LEMMA IInvIsInductive == IInv /\ [Next]_vars => IInv'
<1> SUFFICES ASSUME IInv, [Next]_vars PROVE IInv'
  OBVIOUS
<1>1. CASE UNCHANGED vars
  BY <1>1 DEF vars, IInv, CursorInv, CallInv, ViewInv, Correct, NoRowTwice,
              NoRowLost, OneQueryPerListing, RefusalIsJustified, DetailIsWhole, Pages
<1>2. CASE Tick
  BY <1>2, TickStep
<1>3. ASSUME NEW id \in RequestIds, NEW at \in 0..MaxTime, NEW status \in Statuses,
             Appear(id, at, status)
      PROVE  IInv'
  BY <1>3, AppearStep
<1>4. ASSUME NEW row \in rows, NEW status \in Statuses, Change(row, status)
      PROVE  IInv'
  BY <1>4, ChangeStep
<1>5. ASSUME NEW key \in Keys, NEW kept \in SUBSET Keys, Rotate(key, kept)
      PROVE  IInv'
  BY <1>5, RotateStep
<1>6. ASSUME NEW c \in Clients, NEW q \in Query, NEW cursor \in issued \cup {NoCursor},
             List(c, q, cursor)
      PROVE  IInv'
  BY <1>6, ListStep
<1>7. ASSUME NEW c \in Clients, NEW scope \in Scopes, NEW id \in RequestIds, Get(c, scope, id)
      PROVE  IInv'
  BY <1>7, GetStep
<1>8. ASSUME NEW c \in Clients,
             Begin(c) \/ ReadPage(c) \/ ReadDetail(c) \/ ReadHistory(c) \/ Fail(c)
      PROVE  IInv'
  BY <1>8, BeginStep, ReadPageStep, ReadDetailStep, ReadHistoryStep, FailStep
<1> QED
  BY <1>1, <1>2, <1>3, <1>4, <1>5, <1>6, <1>7, <1>8 DEF Next, Rest

THEOREM ListingInvariant == Spec => []IInv
BY InitIInv, IInvIsInductive, PTL DEF Spec

-----------------------------------------------------------------------------
\* Following cursors, whenever and however often, never shows a request twice.
THEOREM ListingsHaveNoDuplicates == Spec => []NoRowTwice
<1>1. IInv => NoRowTwice
  BY DEF IInv, Correct
<1> QED
  BY <1>1, ListingInvariant, PTL

\* A listing that ended has shown every request that was there at its beginning
\* and kept matching, whatever appeared and changed in between.
THEOREM ListingsAreComplete == Spec => []NoRowLost
<1>1. IInv => NoRowLost
  BY DEF IInv, Correct
<1> QED
  BY <1>1, ListingInvariant, PTL

\* No cursor is accepted for another query or another trusted context.
THEOREM CursorsKeepTheirQuery == Spec => []OneQueryPerListing
<1>1. IInv => OneQueryPerListing
  BY DEF IInv, Correct
<1> QED
  BY <1>1, ListingInvariant, PTL

\* A cursor of the same query, in its time and with a key that is left, is
\* never refused.
THEOREM RefusalsAreJustified == Spec => []RefusalIsJustified
<1>1. IInv => RefusalIsJustified
  BY DEF IInv, Correct
<1> QED
  BY <1>1, ListingInvariant, PTL

\* The two statements of a detail call agree.
THEOREM DetailsAreWhole == Spec => []DetailIsWhole
<1>1. IInv => DetailIsWhole
  BY DEF IInv, Correct
<1> QED
  BY <1>1, ListingInvariant, PTL
=============================================================================
