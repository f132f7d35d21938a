--------------------------- MODULE ChatRequestProofs ---------------------------
(***************************************************************************)
(* Proofs about ChatRequest, for every number of concurrent requests, ids  *)
(* and users.  IInv is the inductive invariant: how much of the chain of   *)
(* audit events is stored for a request at each of its awaits.             *)
(***************************************************************************)
EXTENDS ChatRequest, TLAPS

\* An event of success of the request's own id and user is stored.
Succeeded(slot, r) ==
  \E e \in audit : /\ e.slot = slot /\ e.id = id[r]
                   /\ e.user = user[r] /\ e.outcome = "success"

\* Before its first result a request holds none; a success it holds has the events of
\* the audits behind it; what it has replied is stored; and a request that was not
\* verified when the snapshot was revoked gets no further.
ChainInv(r) ==
  /\ pc[r] \in Awaits => id[r] \in RequestIds
  /\ pc[r] \in {"new", "body", "authenticate", "resolve", "verify", "model", "handler"} =>
       result[r] = "none"
  /\ route[r] = "exact" =>
       \/ Succeeded("tool", r)
       \/ pc[r] \in {"agent_audit", "application_audit", "replied"} => result[r] # "success"
  /\ pc[r] = "final_model" => Succeeded("tool", r)
  /\ pc[r] \in {"application_audit", "replied"} /\ result[r] = "success" => Succeeded("agent", r)
  /\ Replied(r, {"success", "failure", "rejected"}) => Stored("application", r, Outcome(result[r]))
  /\ r \in late => /\ pc[r] \notin {"model", "handler", "tool_audit", "final_model"}
                   /\ result[r] # "success"

IInv == /\ TypeOK /\ LogsAgree /\ ReservedIdsAreOpen
        /\ \A r \in Requests : ChainInv(r)
        /\ snapshot = "current" => late = {}

-----------------------------------------------------------------------------
(* What one request does to the others *)

\* A request whose own state does not change keeps its part of the invariant while
\* the logs grow.
LEMMA OthersKeep ==
  ASSUME NEW q, ChainInv(q), audit \subseteq audit', late' = late,
         pc'[q] = pc[q], id'[q] = id[q], user'[q] = user[q], route'[q] = route[q],
         result'[q] = result[q]
  PROVE  ChainInv(q)'
<1>1. \A slot : Succeeded(slot, q) => Succeeded(slot, q)'
  BY DEF Succeeded
<1>2. \A slot, o : Stored(slot, q, o) => Stored(slot, q, o)'
  BY DEF Stored
<1>3. (route[q] = "exact" =>
         \/ Succeeded("tool", q)
         \/ pc[q] \in {"agent_audit", "application_audit", "replied"} => result[q] # "success")'
  BY <1>1 DEF ChainInv
<1>4. (/\ pc[q] = "final_model" => Succeeded("tool", q)
       /\ pc[q] \in {"application_audit", "replied"} /\ result[q] = "success" =>
            Succeeded("agent", q))'
  BY <1>1 DEF ChainInv
<1>5. (Replied(q, {"success", "failure", "rejected"}) =>
         Stored("application", q, Outcome(result[q])))'
  BY <1>2 DEF ChainInv, Replied, Outcome
<1>6. (/\ pc[q] \in Awaits => id[q] \in RequestIds
       /\ pc[q] \in {"new", "body", "authenticate", "resolve", "verify", "model", "handler"} =>
            result[q] = "none"
       /\ q \in late => /\ pc[q] \notin {"model", "handler", "tool_audit", "final_model"}
                        /\ result[q] # "success")'
  BY DEF ChainInv
<1> QED
  BY <1>3, <1>4, <1>5, <1>6 DEF ChainInv

\* One request steps and only its own state and the logs change: the invariant is
\* that of the parts the step can disturb.
LEMMA OneSteps ==
  ASSUME IInv, NEW r \in Requests, TypeOK', LogsAgree', ReservedIdsAreOpen', ChainInv(r)',
         audit \subseteq audit', late' = late, snapshot' = snapshot,
         \A q \in Requests \ {r} :
           /\ pc'[q] = pc[q] /\ id'[q] = id[q] /\ user'[q] = user[q]
           /\ route'[q] = route[q] /\ result'[q] = result[q]
  PROVE  IInv'
<1>1. ASSUME NEW q \in Requests PROVE ChainInv(q)'
  <2>1. CASE q = r
    BY <2>1
  <2>2. CASE q # r
    <3>1. /\ pc'[q] = pc[q] /\ id'[q] = id[q] /\ user'[q] = user[q]
          /\ route'[q] = route[q] /\ result'[q] = result[q]
      BY <2>2
    <3>2. ChainInv(q)
      BY DEF IInv
    <3> QED
      BY <3>1, <3>2, OthersKeep
  <2> QED
    BY <2>1, <2>2
<1>2. (snapshot = "current" => late = {})'
  BY DEF IInv
<1> QED
  BY <1>1, <1>2 DEF IInv

-----------------------------------------------------------------------------
(* The logs *)

\* What the insertion trigger of a slot accepts keeps the logs in agreement, if a
\* success the application claims is one the agent log has.
LEMMA LogsStored ==
  ASSUME LogsAgree, NEW e, Accepts(e), audit' = audit \cup {e},
         e.slot = "application" /\ e.outcome = "success" =>
           \E f \in audit : f.slot = "agent" /\ f.id = e.id /\ f.outcome = "success"
  PROVE  LogsAgree'
<1>1. (\A d \in audit : d.slot = "application" /\ d.outcome = "success" =>
         \E f \in audit : f.slot = "agent" /\ f.id = d.id /\ f.outcome = "success")'
  BY DEF LogsAgree
<1>2. (\A d, f \in audit : d.slot = f.slot /\ d.id = f.id => d = f)'
  BY DEF LogsAgree, Accepts
<1> QED
  BY <1>1, <1>2 DEF LogsAgree

LEMMA LogsKept ==
  ASSUME LogsAgree, audit' = audit
  PROVE  LogsAgree'
BY DEF LogsAgree

\* The event of a request is a row of its log.
LEMMA EventIsRow ==
  ASSUME TypeOK, NEW r \in Requests, id[r] \in RequestIds,
         NEW slot \in {"application", "agent", "tool"}
  PROVE  /\ Event(r, slot) \in Row
         /\ Event(r, slot).slot = slot /\ Event(r, slot).id = id[r]
         /\ Event(r, slot).outcome = Outcome(result[r])
         /\ slot # "application" => Event(r, slot).user = user[r]
BY DEF Event, Row, Outcome, TypeOK

-----------------------------------------------------------------------------
(* The reserved ids *)

\* An open request that stays open keeps its reservation.
LEMMA StaysReserved ==
  ASSUME TypeOK, ReservedIdsAreOpen, NEW r \in Requests, pc[r] \in Awaits,
         NEW s \in Awaits, Goto(r, s), id' = id, inFlight' = inFlight
  PROVE  ReservedIdsAreOpen'
<1>1. \A q \in Requests : pc'[q] \in Awaits <=> pc[q] \in Awaits
  BY DEF Goto, TypeOK
<1>2. {id'[q] : q \in {x \in Requests : pc'[x] \in Awaits}}
        = {id[q] : q \in {x \in Requests : pc[x] \in Awaits}}
  BY <1>1
<1> QED
  BY <1>1, <1>2 DEF ReservedIdsAreOpen

\* One that ends frees its id, which no other open request has.
LEMMA ReleasesItsOwn ==
  ASSUME TypeOK, ReservedIdsAreOpen, NEW r \in Requests, pc[r] \in Awaits,
         NEW s \in Ended, Goto(r, s), id' = id, Release(r)
  PROVE  ReservedIdsAreOpen'
<1>1. /\ \A q \in Requests \ {r} : pc'[q] = pc[q]
      /\ pc'[r] \notin Awaits
  BY DEF Goto, TypeOK, Awaits, Ended
<1>2. \A q \in Requests : pc'[q] \in Awaits <=> pc[q] \in Awaits /\ q # r
  BY <1>1
<1>3. \A q, x \in Requests : pc[q] \in Awaits /\ pc[x] \in Awaits /\ id[q] = id[x] => q = x
  BY DEF ReservedIdsAreOpen
<1>4. inFlight' = {id'[q] : q \in {x \in Requests : pc'[x] \in Awaits}}
  <2>1. inFlight = {id[q] : q \in {x \in Requests : pc[x] \in Awaits}}
    BY DEF ReservedIdsAreOpen
  <2>2. \A i : i \in inFlight' <=> i \in inFlight /\ i # id[r]
    BY DEF Release
  <2>3. \A i : i \in inFlight <=> \E q \in Requests : pc[q] \in Awaits /\ id[q] = i
    BY <2>1
  <2>4. \A i : i \in inFlight' <=> \E q \in Requests : pc'[q] \in Awaits /\ id'[q] = i
    BY <2>2, <2>3, <1>2, <1>3
  <2> QED
    BY <2>4
<1> QED
  BY <1>2, <1>3, <1>4 DEF ReservedIdsAreOpen

\* A request that arrives takes an id that no open request has.
LEMMA TakesAFreeId ==
  ASSUME TypeOK, ReservedIdsAreOpen, NEW r \in Requests, pc[r] = "new",
         NEW i \in RequestIds, i \notin inFlight, NEW s \in Awaits, Goto(r, s),
         id' = [id EXCEPT ![r] = i], inFlight' = inFlight \cup {i}
  PROVE  ReservedIdsAreOpen'
<1>1. \A q \in Requests : pc'[q] = IF q = r THEN s ELSE pc[q]
  BY DEF Goto, TypeOK
<1>2. \A q \in Requests : id'[q] = IF q = r THEN i ELSE id[q]
  BY DEF TypeOK
<1>3. pc[r] \notin Awaits
  BY DEF Awaits
<1>4. \A j : j \in inFlight <=> \E q \in Requests : pc[q] \in Awaits /\ id[q] = j
  BY DEF ReservedIdsAreOpen
<1>5. \A j : j \in inFlight' <=> \E q \in Requests : pc'[q] \in Awaits /\ id'[q] = j
  BY <1>1, <1>2, <1>3, <1>4
<1>6. \A q, x \in Requests :
        pc[q] \in Awaits /\ pc[x] \in Awaits /\ id[q] = id[x] => q = x
  BY DEF ReservedIdsAreOpen
<1>7. \A q, x \in Requests :
        pc'[q] \in Awaits /\ pc'[x] \in Awaits /\ id'[q] = id'[x] => q = x
  BY <1>1, <1>2, <1>3, <1>4, <1>6
<1>8. inFlight' = {id'[q] : q \in {x \in Requests : pc'[x] \in Awaits}}
  BY <1>5
<1> QED
  BY <1>7, <1>8 DEF ReservedIdsAreOpen

-----------------------------------------------------------------------------
(* Steps that store nothing *)

\* A request goes from one await to another with a result it may hold there.
Moves(r, s, res, why) ==
  /\ s \in Awaits /\ res \in Results /\ why \in Reasons
  /\ Conclude(r, s, res, why)
  /\ UNCHANGED <<phase, snapshot, inFlight, audit, id, user, route, late>>
  /\ s \in {"authenticate", "resolve", "verify", "model", "handler"} => res = "none"
  /\ s # "body" /\ s # "final_model"
  /\ res = "success" =>
       \/ s = "tool_audit"
       \/ s = "agent_audit" /\ (route[r] = "exact" => Succeeded("tool", r))
  /\ r \in late => s \notin {"model", "handler", "tool_audit"} /\ res # "success"

LEMMA MoveKeeps ==
  ASSUME IInv, NEW r \in Requests, pc[r] \in Awaits, NEW s, NEW res, NEW why,
         Moves(r, s, res, why)
  PROVE  IInv'
<1> USE DEF Moves, Conclude, Goto
<1>1. TypeOK /\ LogsAgree /\ ReservedIdsAreOpen /\ ChainInv(r)
  BY DEF IInv
<1>2. TypeOK'
  BY <1>1 DEF TypeOK
<1>3. /\ pc'[r] = s /\ result'[r] = res
      /\ \A q \in Requests \ {r} : pc'[q] = pc[q] /\ result'[q] = result[q]
  BY <1>1 DEF TypeOK
<1>4. ChainInv(r)'
  <2>1. Succeeded("tool", r) => Succeeded("tool", r)'
    BY DEF Succeeded
  <2>2. s \notin {"new", "replied"}
    BY DEF Awaits
  <2>3. id[r] \in RequestIds
    BY <1>1 DEF ChainInv
  <2>4. (route[r] = "exact" =>
           \/ Succeeded("tool", r)
           \/ pc[r] \in {"agent_audit", "application_audit", "replied"} => result[r] # "success")'
    BY <1>3, <2>1
  <2>5. (pc[r] \in {"application_audit", "replied"} /\ result[r] = "success" =>
           Succeeded("agent", r))'
    BY <1>3
  <2>6. (Replied(r, {"success", "failure", "rejected"}) =>
           Stored("application", r, Outcome(result[r])))'
    BY <1>3, <2>2 DEF Replied
  <2>7. (pc[r] \in {"new", "body", "authenticate", "resolve", "verify", "model", "handler"} =>
           result[r] = "none")'
    BY <1>3, <2>2
  <2>8. (/\ pc[r] \in Awaits => id[r] \in RequestIds
         /\ pc[r] = "final_model" => Succeeded("tool", r)
         /\ r \in late => /\ pc[r] \notin {"model", "handler", "tool_audit", "final_model"}
                          /\ result[r] # "success")'
    BY <1>3, <2>3
  <2> QED
    BY <2>4, <2>5, <2>6, <2>7, <2>8 DEF ChainInv
<1>5. LogsAgree'
  BY <1>1, LogsKept
<1>6. ReservedIdsAreOpen'
  BY <1>1, StaysReserved
<1>7. \A q \in Requests \ {r} :
        /\ pc'[q] = pc[q] /\ id'[q] = id[q] /\ user'[q] = user[q]
        /\ route'[q] = route[q] /\ result'[q] = result[q]
  BY <1>3
<1> QED
  BY <1>2, <1>4, <1>5, <1>6, <1>7, OneSteps

\* A step that leaves result and reason alone.
LEMMA SameResult ==
  ASSUME TypeOK, NEW r \in Requests, NEW s, Goto(r, s), UNCHANGED <<result, reason>>
  PROVE  Conclude(r, s, result[r], reason[r])
BY DEF Conclude, TypeOK

\* The quiet steps are such moves.
LEMMA QuietSteps ==
  ASSUME IInv, NEW r \in Requests,
         ReadBody(r) \/ Authenticate(r) \/ Verify(r) \/ FirstTurn(r) \/ RunHandler(r)
           \/ FinalTurn(r)
  PROVE  IInv'
<1> USE DEF Reject, ApplicationFailure, AgentFailure, AnswerAccepted, Awaits, Results, Reasons
<1>1. /\ TypeOK /\ ChainInv(r)
      /\ result[r] \in Results /\ reason[r] \in Reasons
  BY DEF IInv, TypeOK
<1>2. pc[r] \in Awaits
  BY DEF ReadBody, Authenticate, Verify, FirstTurn, RunHandler, FinalTurn
<1>3. pc[r] \in {"body", "authenticate", "verify", "model", "handler"} => result[r] = "none"
  BY <1>1 DEF ChainInv
<1>4. r \in late => pc[r] \notin {"model", "handler", "tool_audit", "final_model"}
  BY <1>1 DEF ChainInv
<1>5. CASE ReadBody(r)
  <2>1. CASE Goto(r, "authenticate") /\ UNCHANGED <<result, reason>>
    <3>1. Moves(r, "authenticate", result[r], reason[r])
      BY <1>1, <1>3, <1>5, <2>1, SameResult DEF ReadBody, Moves
    <3> QED
      BY <3>1, <1>2, MoveKeeps
  <2>2. CASE Reject(r, "invalid_public_request")
    <3>1. Moves(r, "application_audit", "rejected", "invalid_public_request")
      BY <1>5, <2>2 DEF ReadBody, Moves
    <3> QED
      BY <3>1, <1>2, MoveKeeps
  <2> QED
    BY <1>5, <2>1, <2>2 DEF ReadBody
<1>6. CASE Authenticate(r)
  <2>1. CASE Goto(r, "resolve") /\ UNCHANGED <<result, reason>>
    <3>1. Moves(r, "resolve", result[r], reason[r])
      BY <1>1, <1>3, <1>6, <2>1, SameResult DEF Authenticate, Moves
    <3> QED
      BY <3>1, <1>2, MoveKeeps
  <2>2. CASE Reject(r, "ingress_authentication_rejected")
    <3>1. Moves(r, "application_audit", "rejected", "ingress_authentication_rejected")
      BY <1>6, <2>2 DEF Authenticate, Moves
    <3> QED
      BY <3>1, <1>2, MoveKeeps
  <2> QED
    BY <1>6, <2>1, <2>2 DEF Authenticate
<1>7. CASE Verify(r)
  <2>1. ASSUME NEW why \in Reasons, ApplicationFailure(r, why)
        PROVE  IInv'
    <3>1. Moves(r, "application_audit", "failure", why)
      BY <1>7, <2>1 DEF Verify, Moves
    <3> QED
      BY <3>1, <1>2, MoveKeeps
  <2>2. CASE AgentFailure(r, "route_not_authorized")
    <3>1. Moves(r, "agent_audit", "failure", "route_not_authorized")
      BY <1>7, <2>2 DEF Verify, Moves
    <3> QED
      BY <3>1, <1>2, MoveKeeps
  <2>3. CASE snapshot = "current" /\ Goto(r, "model") /\ UNCHANGED <<result, reason>>
    <3>1. r \notin late /\ result[r] = "none"
      BY <2>3, <1>3, <1>7 DEF IInv, Verify
    <3>2. Moves(r, "model", result[r], reason[r])
      BY <1>1, <3>1, <1>7, <2>3, SameResult DEF Verify, Moves
    <3> QED
      BY <3>2, <1>2, MoveKeeps
  <2>4. \/ \E why \in Reasons : ApplicationFailure(r, why)
        \/ AgentFailure(r, "route_not_authorized")
        \/ snapshot = "current" /\ Goto(r, "model") /\ UNCHANGED <<result, reason>>
    <3> HIDE DEF ApplicationFailure, AgentFailure
    <3> QED
      BY <1>7 DEF Verify
  <2> QED
    BY <2>1, <2>2, <2>3, <2>4
<1>8. CASE FirstTurn(r)
  <2>1. CASE AgentFailure(r, "model_provider_failed")
    <3>1. Moves(r, "agent_audit", "failure", "model_provider_failed")
      BY <1>8, <2>1 DEF FirstTurn, Moves
    <3> QED
      BY <3>1, <1>2, MoveKeeps
  <2>2. CASE route[r] = "general" /\ AnswerAccepted(r)
    <3>1. Moves(r, "agent_audit", "success", "completed")
      BY <1>8, <1>4, <2>2 DEF FirstTurn, Moves
    <3> QED
      BY <3>1, <1>2, MoveKeeps
  <2>3. CASE Goto(r, "handler") /\ UNCHANGED <<result, reason>>
    <3>1. Moves(r, "handler", result[r], reason[r])
      BY <1>1, <1>3, <1>4, <1>8, <2>3, SameResult DEF FirstTurn, Moves
    <3> QED
      BY <3>1, <1>2, MoveKeeps
  <2>4. CASE Conclude(r, "tool_audit", "failure", "tool_not_authorized_or_installed")
    <3>1. Moves(r, "tool_audit", "failure", "tool_not_authorized_or_installed")
      BY <1>8, <1>4, <2>4 DEF FirstTurn, Moves
    <3> QED
      BY <3>1, <1>2, MoveKeeps
  <2> QED
    BY <1>8, <2>1, <2>2, <2>3, <2>4 DEF FirstTurn
<1>9. CASE RunHandler(r)
  <2>1. CASE Conclude(r, "tool_audit", "success", "execution_succeeded")
    <3>1. Moves(r, "tool_audit", "success", "execution_succeeded")
      BY <1>9, <1>4, <2>1 DEF RunHandler, Moves
    <3> QED
      BY <3>1, <1>2, MoveKeeps
  <2>2. CASE Conclude(r, "tool_audit", "failure", "handler_execution_failed")
    <3>1. Moves(r, "tool_audit", "failure", "handler_execution_failed")
      BY <1>9, <1>4, <2>2 DEF RunHandler, Moves
    <3> QED
      BY <3>1, <1>2, MoveKeeps
  <2> QED
    BY <1>9, <2>1, <2>2 DEF RunHandler
<1>10. CASE FinalTurn(r)
  <2>1. CASE AnswerAccepted(r)
    <3>1. Succeeded("tool", r)
      BY <1>1, <1>10 DEF ChainInv, FinalTurn
    <3>2. Moves(r, "agent_audit", "success", "completed")
      BY <1>10, <1>4, <2>1, <3>1 DEF FinalTurn, Moves
    <3> QED
      BY <3>2, <1>2, MoveKeeps
  <2>2. CASE AgentFailure(r, "model_provider_failed")
    <3>1. Moves(r, "agent_audit", "failure", "model_provider_failed")
      BY <1>10, <2>2 DEF FinalTurn, Moves
    <3> QED
      BY <3>1, <1>2, MoveKeeps
  <2> QED
    BY <1>10, <2>1, <2>2 DEF FinalTurn
<1> QED
  BY <1>5, <1>6, <1>7, <1>8, <1>9, <1>10

\* The trusted context is fixed before the request has any result or event.
LEMMA ResolveKeeps ==
  ASSUME IInv, NEW r \in Requests, NEW u \in Users, NEW mode \in {"general", "exact"},
         Resolve(r, u, mode)
  PROVE  IInv'
<1>1. /\ TypeOK /\ LogsAgree /\ ReservedIdsAreOpen /\ ChainInv(r)
      /\ result[r] \in Results /\ reason[r] \in Reasons
  BY DEF IInv, TypeOK
<1>2. pc[r] \in Awaits /\ pc[r] = "resolve" /\ result[r] = "none"
  BY <1>1 DEF ChainInv, Resolve, Awaits
<1>3. CASE ApplicationFailure(r, "trusted_resolution_failed") /\ UNCHANGED <<user, route>>
  <2>1. Moves(r, "application_audit", "failure", "trusted_resolution_failed")
    BY <1>3 DEF Resolve, Moves, ApplicationFailure, Awaits, Results, Reasons
  <2> QED
    BY <2>1, <1>2, MoveKeeps
<1>4. CASE /\ Goto(r, "verify")
           /\ user' = [user EXCEPT ![r] = u] /\ route' = [route EXCEPT ![r] = mode]
           /\ UNCHANGED <<result, reason>>
  <2> USE DEF Goto
  <2>1. UNCHANGED <<phase, snapshot, inFlight, audit, id, result, reason, late>>
    BY <1>4 DEF Resolve
  <2>2. TypeOK'
    BY <1>1, <1>4, <2>1 DEF TypeOK, Awaits
  <2>3. /\ pc'[r] = "verify" /\ result'[r] = "none"
        /\ \A q \in Requests \ {r} :
             /\ pc'[q] = pc[q] /\ id'[q] = id[q] /\ user'[q] = user[q]
             /\ route'[q] = route[q] /\ result'[q] = result[q]
    BY <1>1, <1>2, <1>4, <2>1 DEF TypeOK
  <2>4. ChainInv(r)'
    <3>1. id'[r] \in RequestIds
      BY <1>1, <1>2, <2>1 DEF ChainInv
    <3> QED
      BY <2>3, <3>1 DEF ChainInv, Replied
  <2>5. LogsAgree'
    BY <1>1, <2>1, LogsKept
  <2>6. ReservedIdsAreOpen'
    BY <1>1, <1>2, <1>4, <2>1, StaysReserved DEF Awaits
  <2> QED
    BY <2>1, <2>2, <2>3, <2>4, <2>5, <2>6, OneSteps
<1> QED
  BY <1>3, <1>4 DEF Resolve

-----------------------------------------------------------------------------
(* Steps that may store an event *)

\* An audit insert commits, or it does not.
Commits(r, slot) == Accepts(Event(r, slot)) /\ audit' = audit \cup {Event(r, slot)}
Stores(r, slot) == audit' = audit \/ Commits(r, slot)

\* A success that the application event states is behind an agent event that does.
LEMMA StoreKeeps ==
  ASSUME TypeOK, LogsAgree, NEW r \in Requests, ChainInv(r), pc[r] \in Awaits,
         NEW slot \in {"application", "agent", "tool"},
         slot = "application" => pc[r] = "application_audit",
         Stores(r, slot)
  PROVE  /\ LogsAgree' /\ audit \subseteq audit'
         /\ \A e \in audit' : e \in Row
<1>1. \A e \in audit : e \in Row
  BY DEF TypeOK
<1>2. CASE audit' = audit
  BY <1>1, <1>2, LogsKept
<1>3. CASE Commits(r, slot)
  <2> DEFINE e == Event(r, slot)
  <2>1. id[r] \in RequestIds
    BY DEF ChainInv
  <2>2. /\ e \in Row /\ e.slot = slot /\ e.id = id[r] /\ e.outcome = Outcome(result[r])
    BY <2>1, EventIsRow
  <2>3. e.slot = "application" /\ e.outcome = "success" =>
          \E f \in audit : f.slot = "agent" /\ f.id = e.id /\ f.outcome = "success"
    <3>1. ASSUME e.slot = "application", e.outcome = "success"
          PROVE  Succeeded("agent", r)
      BY <2>2, <3>1 DEF Outcome, ChainInv
    <3> QED
      BY <2>2, <3>1 DEF Succeeded
  <2>4. Accepts(e) /\ audit' = audit \cup {e}
    BY <1>3 DEF Commits
  <2> HIDE DEF e
  <2>5. LogsAgree'
    BY <2>3, <2>4, LogsStored
  <2> QED
    BY <1>1, <2>2, <2>4, <2>5
<1> QED
  BY <1>2, <1>3 DEF Stores

\* What a commit leaves in the logs of a request that keeps its id and user.
LEMMA Committed ==
  ASSUME TypeOK, NEW r \in Requests, ChainInv(r), pc[r] \in Awaits,
         NEW slot \in {"application", "agent", "tool"}, Commits(r, slot),
         id'[r] = id[r], user'[r] = user[r]
  PROVE  /\ \E e \in audit' :
              e.slot = slot /\ e.id = id'[r] /\ e.outcome = Outcome(result[r])
         /\ slot # "application" /\ result[r] = "success" => Succeeded(slot, r)'
<1> DEFINE e == Event(r, slot)
<1>1. id[r] \in RequestIds
  BY DEF ChainInv
<1>2. /\ e.slot = slot /\ e.id = id[r] /\ e.outcome = Outcome(result[r])
      /\ slot # "application" => e.user = user[r]
  BY <1>1, EventIsRow
<1>3. e \in audit'
  BY DEF Commits
<1> HIDE DEF e
<1> QED
  BY <1>2, <1>3 DEF Succeeded, Outcome

\* A record() call stores the event or not, and returns what it held only if it did.
LEMMA Recorded ==
  ASSUME TypeOK, NEW r \in Requests, NEW slot, Record(r, Event(r, slot), result[r])
  PROVE  /\ Stores(r, slot)
         /\ result'[r] \in {result[r], "audit_unavailable"}
         /\ result' \in [Requests -> Results]
         /\ \A q \in Requests \ {r} : result'[q] = result[q]
         /\ result'[r] # "audit_unavailable" => result'[r] = result[r] /\ Commits(r, slot)
<1>1. result \in [Requests -> Results]
  BY DEF TypeOK
<1> QED
  BY <1>1 DEF Record, Stores, Commits, Results

\* The orchestrator's last audit.
LEMMA AuditAgentKeeps ==
  ASSUME IInv, NEW r \in Requests, AuditAgent(r)
  PROVE  IInv'
<1>1. /\ TypeOK /\ LogsAgree /\ ReservedIdsAreOpen /\ ChainInv(r)
      /\ pc[r] \in Awaits /\ pc[r] = "agent_audit"
  BY DEF IInv, AuditAgent, Awaits
<1>2. /\ Record(r, Event(r, "agent"), result[r]) /\ Goto(r, "application_audit")
      /\ reason' = [reason EXCEPT ![r] = "completed"]
      /\ UNCHANGED <<phase, snapshot, inFlight, id, user, route, late>>
  BY DEF AuditAgent
<1>3. /\ Stores(r, "agent")
      /\ result'[r] \in {result[r], "audit_unavailable"}
      /\ result' \in [Requests -> Results]
      /\ \A q \in Requests \ {r} : result'[q] = result[q]
      /\ result'[r] # "audit_unavailable" => result'[r] = result[r] /\ Commits(r, "agent")
  BY <1>1, <1>2, Recorded
<1>4. /\ LogsAgree' /\ audit \subseteq audit'
      /\ \A e \in audit' : e \in Row
  BY <1>1, <1>3, StoreKeeps
<1>5. /\ pc' \in [Requests -> {"new"} \cup Awaits \cup Ended]
      /\ pc'[r] = "application_audit"
      /\ \A q \in Requests \ {r} : pc'[q] = pc[q]
  BY <1>1, <1>2 DEF TypeOK, Goto, Awaits
<1>6. TypeOK'
  BY <1>1, <1>2, <1>3, <1>4, <1>5 DEF TypeOK, Reasons
<1>7. ReservedIdsAreOpen'
  BY <1>1, <1>2, StaysReserved DEF Awaits
<1>8. ChainInv(r)'
  <2>1. Succeeded("tool", r) => Succeeded("tool", r)'
    BY <1>2, <1>4 DEF Succeeded
  <2>2. result'[r] = "success" => Succeeded("agent", r)'
    BY <1>1, <1>2, <1>3, Committed
  <2>3. route[r] = "exact" => Succeeded("tool", r) \/ result[r] # "success"
    BY <1>1 DEF ChainInv
  <2>4. /\ id[r] \in RequestIds
        /\ r \in late => result[r] # "success"
    BY <1>1 DEF ChainInv
  <2> QED
    BY <1>2, <1>3, <1>5, <2>1, <2>2, <2>3, <2>4 DEF ChainInv, Replied
<1> QED
  BY <1>2, <1>3, <1>4, <1>5, <1>6, <1>7, <1>8, OneSteps

\* The application's last audit, the response and the release of the id.
LEMMA ReplyKeeps ==
  ASSUME IInv, NEW r \in Requests, Reply(r)
  PROVE  IInv'
<1>1. /\ TypeOK /\ LogsAgree /\ ReservedIdsAreOpen /\ ChainInv(r)
      /\ pc[r] \in Awaits /\ pc[r] = "application_audit"
  BY DEF IInv, Reply, Awaits
<1>2. /\ Record(r, Event(r, "application"), result[r]) /\ Goto(r, "replied") /\ Release(r)
      /\ UNCHANGED <<phase, snapshot, id, user, route, reason, late>>
  BY DEF Reply
<1>3. /\ Stores(r, "application")
      /\ result'[r] \in {result[r], "audit_unavailable"}
      /\ result' \in [Requests -> Results]
      /\ \A q \in Requests \ {r} : result'[q] = result[q]
      /\ result'[r] # "audit_unavailable" => result'[r] = result[r] /\ Commits(r, "application")
  BY <1>1, <1>2, Recorded
<1>4. /\ LogsAgree' /\ audit \subseteq audit'
      /\ \A e \in audit' : e \in Row
  BY <1>1, <1>3, StoreKeeps
<1>5. /\ pc' \in [Requests -> {"new"} \cup Awaits \cup Ended]
      /\ pc'[r] = "replied"
      /\ \A q \in Requests \ {r} : pc'[q] = pc[q]
  BY <1>1, <1>2 DEF TypeOK, Goto, Ended
<1>6. TypeOK'
  BY <1>1, <1>2, <1>3, <1>4, <1>5 DEF TypeOK, Release
<1>7. ReservedIdsAreOpen'
  BY <1>1, <1>2, ReleasesItsOwn DEF Ended
<1>8. ChainInv(r)'
  <2>1. \A slot : Succeeded(slot, r) => Succeeded(slot, r)'
    BY <1>2, <1>4 DEF Succeeded
  <2>2. result'[r] # "audit_unavailable" => Stored("application", r, Outcome(result[r]))'
    BY <1>1, <1>2, <1>3, Committed DEF Stored, Outcome
  <2>3. /\ route[r] = "exact" => Succeeded("tool", r) \/ result[r] # "success"
        /\ result[r] = "success" => Succeeded("agent", r)
        /\ r \in late => result[r] # "success"
    BY <1>1 DEF ChainInv
  <2>4. /\ (route[r] = "exact" =>
              \/ Succeeded("tool", r)
              \/ pc[r] \in {"agent_audit", "application_audit", "replied"} =>
                   result[r] # "success")'
        /\ (pc[r] \in {"application_audit", "replied"} /\ result[r] = "success" =>
              Succeeded("agent", r))'
    BY <1>2, <1>3, <2>1, <2>3
  <2>5. (Replied(r, {"success", "failure", "rejected"}) =>
           Stored("application", r, Outcome(result[r])))'
    BY <1>3, <2>2 DEF Replied
  <2> QED
    BY <1>2, <1>3, <1>5, <2>3, <2>4, <2>5 DEF ChainInv, Awaits
<1> QED
  BY <1>2, <1>3, <1>4, <1>5, <1>6, <1>7, <1>8, OneSteps

\* The gateway's audit of a tool call: the result goes on only when it is stored.
LEMMA AuditToolKeeps ==
  ASSUME IInv, NEW r \in Requests, AuditTool(r)
  PROVE  IInv'
<1>1. /\ TypeOK /\ LogsAgree /\ ReservedIdsAreOpen /\ ChainInv(r)
      /\ pc[r] \in Awaits /\ pc[r] = "tool_audit"
  BY DEF IInv, AuditTool, Awaits
<1>2. /\ UNCHANGED <<phase, snapshot, inFlight, id, user, route, late>>
      /\ r \notin late /\ id[r] \in RequestIds
  BY <1>1 DEF AuditTool, ChainInv
<1>3. /\ Stores(r, "tool")
      /\ \E s \in {"final_model", "agent_audit", "application_audit"} : Goto(r, s)
      /\ result' \in [Requests -> Results]
      /\ reason' \in [Requests -> Reasons]
      /\ \A q \in Requests \ {r} : result'[q] = result[q]
      /\ \/ pc'[r] = "final_model" /\ result'[r] = "success" /\ result[r] = "success"
              /\ Commits(r, "tool")
         \/ pc'[r] \in {"agent_audit", "application_audit"}
              /\ result'[r] \in {"failure", "audit_unavailable"}
  <2>1. CASE Record(r, Event(r, "tool"), result[r])
    <3>1. /\ Stores(r, "tool")
          /\ result'[r] \in {result[r], "audit_unavailable"}
          /\ result' \in [Requests -> Results]
          /\ \A q \in Requests \ {r} : result'[q] = result[q]
          /\ result'[r] # "audit_unavailable" => result'[r] = result[r] /\ Commits(r, "tool")
      BY <1>1, <2>1, Recorded
    <3>2. CASE result'[r] = "success" /\ Goto(r, "final_model") /\ UNCHANGED reason
      BY <1>1, <3>1, <3>2 DEF TypeOK, Goto
    <3>3. CASE /\ result'[r] = "failure" /\ Goto(r, "agent_audit")
               /\ reason' = [reason EXCEPT ![r] = "routed_tool_failed"]
      BY <1>1, <3>1, <3>3 DEF TypeOK, Goto, Reasons
    <3>4. CASE /\ result'[r] = "audit_unavailable" /\ Goto(r, "agent_audit")
               /\ reason' = [reason EXCEPT ![r] = "tool_audit_unavailable"]
      BY <1>1, <3>1, <3>4 DEF TypeOK, Goto, Reasons
    <3>5. CASE /\ result[r] = "success" /\ Accepts(Event(r, "tool"))
               /\ audit' = audit \cup {Event(r, "tool")}
               /\ \/ AgentFailure(r, "tool_result_size_limit_reached")
                  \/ ApplicationFailure(r, "orchestrator_failed")
      BY <1>1, <3>5 DEF TypeOK, Goto, Reasons, Results, AgentFailure, ApplicationFailure,
                        Conclude, Stores, Commits
    <3> QED
      BY <3>2, <3>3, <3>4, <3>5 DEF AuditTool
  <2>2. CASE /\ Accepts(Event(r, "tool"))
             /\ audit' = audit \cup {Event(r, "tool")}
             /\ \/ AgentFailure(r, "tool_result_size_limit_reached")
                \/ ApplicationFailure(r, "orchestrator_failed")
    BY <1>1, <2>2 DEF TypeOK, Goto, Reasons, Results, AgentFailure, ApplicationFailure,
                      Conclude, Stores, Commits
  <2> QED
    BY <2>1, <2>2 DEF AuditTool
<1>4. /\ LogsAgree' /\ audit \subseteq audit'
      /\ \A e \in audit' : e \in Row
  BY <1>1, <1>3, StoreKeeps
<1>5. PICK s \in {"final_model", "agent_audit", "application_audit"} : Goto(r, s)
  BY <1>3
<1>6. /\ pc' \in [Requests -> {"new"} \cup Awaits \cup Ended]
      /\ pc'[r] = s
      /\ \A q \in Requests \ {r} : pc'[q] = pc[q]
  BY <1>1, <1>5 DEF TypeOK, Goto, Awaits
<1>7. TypeOK'
  BY <1>1, <1>2, <1>3, <1>4, <1>6 DEF TypeOK
<1>8. ReservedIdsAreOpen'
  BY <1>1, <1>2, <1>5, StaysReserved DEF Awaits
<1>9. ChainInv(r)'
  <2>1. CASE /\ pc'[r] = "final_model" /\ result'[r] = "success" /\ result[r] = "success"
             /\ Commits(r, "tool")
    <3>1. Succeeded("tool", r)'
      BY <1>1, <1>2, <2>1, Committed
    <3> QED
      BY <1>2, <2>1, <3>1 DEF ChainInv, Replied
  <2>2. CASE /\ pc'[r] \in {"agent_audit", "application_audit"}
             /\ result'[r] \in {"failure", "audit_unavailable"}
    BY <1>2, <2>2 DEF ChainInv, Replied
  <2> QED
    BY <1>3, <2>1, <2>2
<1> QED
  BY <1>2, <1>3, <1>4, <1>6, <1>7, <1>8, <1>9, OneSteps

\* A cancelled request frees its id; the insert it waited for may have committed.
LEMMA CancelKeeps ==
  ASSUME IInv, NEW r \in Requests, Cancel(r)
  PROVE  IInv'
<1>1. /\ TypeOK /\ LogsAgree /\ ReservedIdsAreOpen /\ ChainInv(r) /\ pc[r] \in Awaits
  BY DEF IInv, Cancel
<1>2. /\ UNCHANGED <<phase, snapshot, id, user, route, result, reason, late>>
      /\ Goto(r, "cancelled") /\ Release(r)
  BY DEF Cancel
<1>3. /\ LogsAgree' /\ audit \subseteq audit'
      /\ \A e \in audit' : e \in Row
  <2>1. CASE audit' = audit
    BY <1>1, <2>1, StoreKeeps DEF Stores
  <2>2. ASSUME NEW slot \in {"tool", "agent", "application"},
               <<pc[r], slot>> \in {<<"tool_audit", "tool">>, <<"agent_audit", "agent">>,
                                    <<"application_audit", "application">>},
               Commits(r, slot)
        PROVE  LogsAgree' /\ audit \subseteq audit' /\ \A e \in audit' : e \in Row
    <3>1. slot = "application" => pc[r] = "application_audit"
      BY <2>2
    <3> QED
      BY <1>1, <2>2, <3>1, StoreKeeps DEF Stores
  <2> QED
    BY <2>1, <2>2 DEF Cancel, Commits
<1>4. /\ pc' \in [Requests -> {"new"} \cup Awaits \cup Ended]
      /\ pc'[r] = "cancelled"
      /\ \A q \in Requests \ {r} : pc'[q] = pc[q]
  BY <1>1, <1>2 DEF TypeOK, Goto, Ended
<1>5. TypeOK'
  BY <1>1, <1>2, <1>3, <1>4 DEF TypeOK, Release
<1>6. ReservedIdsAreOpen'
  BY <1>1, <1>2, ReleasesItsOwn DEF Ended
<1>7. ChainInv(r)'
  BY <1>1, <1>2, <1>4 DEF ChainInv, Replied, Awaits
<1> QED
  BY <1>2, <1>3, <1>4, <1>5, <1>6, <1>7, OneSteps

-----------------------------------------------------------------------------
(* Arrivals and the surroundings *)

\* A request arrives with an id that is free.
LEMMA ArriveKeeps ==
  ASSUME IInv, NEW r \in Requests, NEW i \in RequestIds, Arrive(r, i)
  PROVE  IInv'
<1>1. /\ TypeOK /\ LogsAgree /\ ReservedIdsAreOpen /\ ChainInv(r) /\ pc[r] = "new"
      /\ result[r] = "none"
  BY DEF IInv, Arrive, ChainInv
<1>2. /\ UNCHANGED <<phase, snapshot, audit, user, route, late>>
      /\ id' = [id EXCEPT ![r] = i] /\ inFlight' = inFlight \cup {i} /\ i \notin inFlight
  BY DEF Arrive
<1>3. PICK s \in {"application_audit", "body"} :
        /\ Goto(r, s)
        /\ result' \in [Requests -> Results] /\ reason' \in [Requests -> Reasons]
        /\ \A q \in Requests \ {r} : result'[q] = result[q]
        /\ s = "application_audit" => result'[r] = "rejected"
        /\ s = "body" => result'[r] = "none"
  BY <1>1 DEF Arrive, Reject, Conclude, TypeOK, Results, Reasons
<1>4. /\ pc' \in [Requests -> {"new"} \cup Awaits \cup Ended]
      /\ pc'[r] = s /\ id'[r] = i
      /\ \A q \in Requests \ {r} : pc'[q] = pc[q] /\ id'[q] = id[q]
  BY <1>1, <1>2, <1>3 DEF TypeOK, Goto, Awaits
<1>5. TypeOK'
  BY <1>1, <1>2, <1>3, <1>4 DEF TypeOK
<1>6. ReservedIdsAreOpen'
  BY <1>1, <1>2, <1>3, TakesAFreeId DEF Awaits
<1>7. LogsAgree'
  BY <1>1, <1>2, LogsKept
<1>8. ChainInv(r)'
  BY <1>1, <1>2, <1>3, <1>4 DEF ChainInv, Replied
<1> QED
  BY <1>2, <1>3, <1>4, <1>5, <1>6, <1>7, <1>8, OneSteps

\* One whose id is in flight is answered and leaves everything as it was.
LEMMA CollideKeeps ==
  ASSUME IInv, NEW r \in Requests, NEW i \in RequestIds, Collide(r, i)
  PROVE  IInv'
<1>1. /\ TypeOK /\ LogsAgree /\ ReservedIdsAreOpen /\ ChainInv(r) /\ pc[r] = "new"
  BY DEF IInv, Collide
<1>2. /\ UNCHANGED <<phase, snapshot, inFlight, audit, id, user, route, reason, late>>
      /\ Goto(r, "replied") /\ result' = [result EXCEPT ![r] = "internal_error"]
  BY DEF Collide
<1>3. /\ pc' \in [Requests -> {"new"} \cup Awaits \cup Ended]
      /\ pc'[r] = "replied" /\ result'[r] = "internal_error"
      /\ \A q \in Requests \ {r} : pc'[q] = pc[q] /\ result'[q] = result[q]
  BY <1>1, <1>2 DEF TypeOK, Goto, Ended
<1>4. TypeOK'
  BY <1>1, <1>2, <1>3 DEF TypeOK, Results
<1>5. ReservedIdsAreOpen'
  <2>1. \A q \in Requests : pc'[q] \in Awaits <=> pc[q] \in Awaits
    BY <1>1, <1>3 DEF Awaits
  <2>2. {id'[q] : q \in {x \in Requests : pc'[x] \in Awaits}}
          = {id[q] : q \in {x \in Requests : pc[x] \in Awaits}}
    BY <1>2, <2>1
  <2> QED
    BY <1>1, <1>2, <2>1, <2>2 DEF ReservedIdsAreOpen
<1>6. LogsAgree'
  BY <1>1, <1>2, LogsKept
<1>7. ChainInv(r)'
  BY <1>1, <1>2, <1>3 DEF ChainInv, Replied, Awaits
<1> QED
  BY <1>2, <1>3, <1>4, <1>5, <1>6, <1>7, OneSteps

\* Neither a change of the lifespan's phase nor rest touches a request.
LEMMA IdleKeeps ==
  ASSUME IInv, UNCHANGED <<snapshot, inFlight, audit, local, late>>,
         phase' \in {"starting", "serving", "stopping", "stopped"}
  PROVE  IInv'
<1> USE DEF local
<1>1. TypeOK'
  BY DEF IInv, TypeOK
<1>2. LogsAgree'
  BY LogsKept DEF IInv
<1>3. ReservedIdsAreOpen'
  BY DEF IInv, ReservedIdsAreOpen
<1>4. ASSUME NEW q \in Requests PROVE ChainInv(q)'
  BY OthersKeep DEF IInv
<1> QED
  BY <1>1, <1>2, <1>3, <1>4 DEF IInv

\* A revocation comes before the result of every request it makes late.
LEMMA RevokeKeeps ==
  ASSUME IInv, Revoke
  PROVE  IInv'
<1> USE DEF Revoke, local
<1>1. TypeOK'
  BY DEF IInv, TypeOK
<1>2. LogsAgree'
  BY LogsKept DEF IInv
<1>3. ReservedIdsAreOpen'
  BY DEF IInv, ReservedIdsAreOpen
<1>4. ASSUME NEW q \in Requests PROVE ChainInv(q)'
  <2>1. ChainInv(q) /\ late = {}
    BY DEF IInv
  <2>2. q \in late' => /\ pc[q] \notin {"model", "handler", "tool_audit", "final_model"}
                       /\ result[q] = "none"
    BY <2>1 DEF ChainInv
  <2> QED
    BY <2>1, <2>2 DEF ChainInv, Succeeded, Stored, Replied, Outcome
<1> QED
  BY <1>1, <1>2, <1>3, <1>4 DEF IInv

-----------------------------------------------------------------------------
(* The theorems *)

LEMMA Initially ==
  ASSUME Init
  PROVE  IInv
<1> USE DEF Init
<1>1. TypeOK
  BY DEF TypeOK, Results, Reasons
<1>2. LogsAgree /\ ReservedIdsAreOpen
  BY DEF LogsAgree, ReservedIdsAreOpen, Awaits
<1>3. ASSUME NEW r \in Requests PROVE ChainInv(r)
  BY DEF ChainInv, Replied, Awaits
<1> QED
  BY <1>1, <1>2, <1>3 DEF IInv

LEMMA Inductive ==
  ASSUME IInv, [Next]_vars
  PROVE  IInv'
<1>1. ASSUME NEW r \in Requests, ReadBody(r) \/ Proceed(r) PROVE IInv'
  BY <1>1, QuietSteps, ResolveKeeps, AuditToolKeeps, AuditAgentKeeps, ReplyKeeps DEF Proceed
<1>2. ASSUME NEW r \in Requests, NEW i \in RequestIds, Arrive(r, i) \/ Collide(r, i)
      PROVE  IInv'
  BY <1>2, ArriveKeeps, CollideKeeps
<1>3. CASE ChangePhase
  BY <1>3, IdleKeeps DEF ChangePhase
<1>4. CASE UNCHANGED vars
  BY <1>4, IdleKeeps DEF vars, local, IInv, TypeOK
<1> QED
  BY <1>1, <1>2, <1>3, <1>4, CancelKeeps, RevokeKeeps DEF Next, Rest

\* IInv holds in every reachable state, whatever the interleaving of requests, their
\* cancellations, the failures of the sinks and the revocation.
THEOREM Invariance == Spec => []IInv
<1>1. Init => IInv
  BY Initially
<1>2. IInv /\ [Next]_vars => IInv'
  BY Inductive
<1> QED
  BY <1>1, <1>2, PTL DEF Spec

\* Every variable keeps its type.
THEOREM TypeCorrect == Spec => []TypeOK
<1>1. IInv => TypeOK
  BY DEF IInv
<1> QED
  BY <1>1, Invariance, PTL

\* No answer that is a result leaves before the application event of its outcome is
\* stored (the _finish of application/service.py and the transport's rejections).
THEOREM AuditBeforeAnswer == Spec => []AnswersAreAudited
<1>1. IInv => AnswersAreAudited
  BY DEF IInv, ChainInv, AnswersAreAudited
<1> QED
  BY <1>1, Invariance, PTL

\* A success leaves with the agent's event and, on an exact route, the tool's, of its
\* own user, and not for a snapshot revoked before it was verified.
THEOREM ChainBehindSuccess == Spec => []SuccessHasItsChain
<1>1. ASSUME IInv PROVE SuccessHasItsChain
  <2> SUFFICES ASSUME NEW r \in Requests, Replied(r, {"success"})
               PROVE  /\ Succeeded("agent", r)
                      /\ route[r] = "exact" => Succeeded("tool", r)
                      /\ r \notin late
    BY DEF SuccessHasItsChain, Succeeded
  <2> QED
    BY <1>1 DEF IInv, ChainInv, Replied
<1> QED
  BY <1>1, Invariance, PTL

\* No slot of a log holds two events, and the application log claims no success that
\* the agent log does not have.
THEOREM AgreementOfLogs == Spec => []LogsAgree
<1>1. IInv => LogsAgree
  BY DEF IInv
<1> QED
  BY <1>1, Invariance, PTL

\* The ids in flight are those of the open requests, one each.
THEOREM ReservationIsExact == Spec => []ReservedIdsAreOpen
<1>1. IInv => ReservedIdsAreOpen
  BY DEF IInv
<1> QED
  BY <1>1, Invariance, PTL

=============================================================================
