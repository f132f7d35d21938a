----------------------------- MODULE ChatRequest -----------------------------
(***************************************************************************)
(* Concurrent chat requests from the HTTP transport to the audited answer: *)
(* the /v1/chat handler (transport/http/app.py), TrustedChatApplication    *)
(* (application/service.py), AgentOrchestrator (orchestration/service.py), *)
(* ReadToolGateway (tools/gateway.py) and the three PostgreSQL audit sinks *)
(* with the triggers that own their logical slots                          *)
(* (infrastructure/postgres_audit).                                        *)
(*                                                                         *)
(* A request is a coroutine: what it does between two awaits is one step,  *)
(* and the steps of different requests interleave.  It may be cancelled at *)
(* every await.  An audit sink may store an event, store it and lose the   *)
(* acknowledgement, or fail without storing it.                            *)
(***************************************************************************)
EXTENDS Naturals

CONSTANTS
  Requests,    \* HTTP exchanges, each made once
  RequestIds,  \* ids the request-id factory produces (it may repeat one)
  Users,       \* users the trusted resolver returns
  NoId, NoUser \* before an id is claimed and a user resolved

VARIABLES
  phase,       \* lifespan: state.ready holds while "serving"
  snapshot,    \* the authorization snapshot in the ERP, "current" or "revoked"
  inFlight,    \* state.in_flight_request_ids
  audit,       \* rows of application_events, agent_events and tool_events
  pc,          \* the await a request is in
  id,          \* its request id
  user,        \* the user of its trusted context
  route,       \* its routing policy
  result,      \* the public result it holds
  reason,      \* the internal reason its next audit event gives
  late         \* history: not verified yet when the snapshot was revoked

local == <<pc, id, user, route, result, reason>>
vars == <<phase, snapshot, inFlight, audit, pc, id, user, route, result, reason, late>>

Awaits == {"body", "authenticate", "resolve", "verify", "model", "handler",
           "tool_audit", "final_model", "agent_audit", "application_audit"}
Ended == {"replied", "cancelled"}
Results == {"none", "success", "failure", "rejected", "audit_unavailable", "internal_error"}

Init == /\ phase = "starting"
        /\ snapshot = "current"
        /\ inFlight = {}
        /\ audit = {}
        /\ pc = [r \in Requests |-> "new"]
        /\ id = [r \in Requests |-> NoId]
        /\ user = [r \in Requests |-> NoUser]
        /\ route = [r \in Requests |-> "none"]
        /\ result = [r \in Requests |-> "none"]
        /\ reason = [r \in Requests |-> "none"]
        /\ late = {}

-----------------------------------------------------------------------------
(* Audit events and sinks *)

\* Definitions named ...Without..., ...Ignoring..., ...First, ...Retrying and so on are faulty variants of
\* the definition after them; no specification uses them.  They show that the
\* properties tell the code from a plausible mistake in it.

Outcome(res) == IF res = "success" THEN "success" ELSE "failure"

\* The application event names no user.
Event(r, slot) ==
  [slot |-> slot, id |-> id[r],
   user |-> IF slot = "application" THEN NoUser ELSE user[r],
   outcome |-> Outcome(result[r]), reason |-> reason[r]]

SinksOpen == phase \in {"serving", "stopping"}

\* The insertion trigger of a slot suppresses an exact duplicate and raises on
\* any other event for the slot.
Accepts(e) ==
  /\ SinksOpen
  /\ \A f \in audit : f.slot = e.slot /\ f.id = e.id => f = e

\* One record() call: kept is the result if it returns, otherwise the result
\* held is withheld.
Record(r, e, kept) ==
  \/ /\ Accepts(e)
     /\ audit' = audit \cup {e}
     /\ \E res \in {kept, "audit_unavailable"} : result' = [result EXCEPT ![r] = res]
  \/ /\ audit' = audit
     /\ result' = [result EXCEPT ![r] = "audit_unavailable"]

Goto(r, step) == pc' = [pc EXCEPT ![r] = step]

\* The request goes on to an audit of result res for reason why.
Conclude(r, step, res, why) == /\ Goto(r, step)
                               /\ result' = [result EXCEPT ![r] = res]
                               /\ reason' = [reason EXCEPT ![r] = why]

Reject(r, why) == Conclude(r, "application_audit", "rejected", why)
ApplicationFailure(r, why) == Conclude(r, "application_audit", "failure", why)
AgentFailure(r, why) == Conclude(r, "agent_audit", "failure", why)

Release(r) == inFlight' = inFlight \ {id[r]}

-----------------------------------------------------------------------------
(* Transport *)

\* chat: the id is reserved, then readiness, envelope, bearer syntax and media
\* are checked, up to the first await.
Arrive(r, i) ==
  /\ pc[r] = "new" /\ i \notin inFlight
  /\ id' = [id EXCEPT ![r] = i]
  /\ inFlight' = inFlight \cup {i}
  /\ \/ phase # "serving" /\ Reject(r, "transport_not_ready")
     \/ phase = "serving" /\ Reject(r, "invalid_http_envelope")
     \/ phase = "serving" /\ Goto(r, "body") /\ UNCHANGED <<result, reason>>
  /\ UNCHANGED <<phase, snapshot, audit, user, route, late>>

\* The factory repeats an id that is in flight: no id, no audit, and nothing of
\* the other request is released.
CollideReleasing(r, i) ==
  /\ pc[r] = "new" /\ i \in inFlight
  /\ Goto(r, "replied")
  /\ result' = [result EXCEPT ![r] = "internal_error"]
  /\ inFlight' = inFlight \ {i}
  /\ UNCHANGED <<phase, snapshot, audit, id, user, route, reason, late>>
Collide(r, i) ==
  /\ pc[r] = "new" /\ i \in inFlight
  /\ Goto(r, "replied")
  /\ result' = [result EXCEPT ![r] = "internal_error"]
  /\ UNCHANGED <<phase, snapshot, inFlight, audit, id, user, route, reason, late>>

ReadBody(r) ==
  /\ pc[r] = "body"
  /\ \/ Goto(r, "authenticate") /\ UNCHANGED <<result, reason>>
     \/ Reject(r, "invalid_public_request")
  /\ UNCHANGED <<phase, snapshot, inFlight, audit, id, user, route, late>>

Authenticate(r) ==
  /\ pc[r] = "authenticate"
  /\ \/ Goto(r, "resolve") /\ UNCHANGED <<result, reason>>
     \/ Reject(r, "ingress_authentication_rejected")
  /\ UNCHANGED <<phase, snapshot, inFlight, audit, id, user, route, late>>

-----------------------------------------------------------------------------
(* Application *)

\* The opaque reference is resolved to a context and an intent bound to it.
Resolve(r, u, mode) ==
  /\ pc[r] = "resolve"
  /\ \/ /\ Goto(r, "verify")
        /\ user' = [user EXCEPT ![r] = u]
        /\ route' = [route EXCEPT ![r] = mode]
        /\ UNCHANGED <<result, reason>>
     \/ ApplicationFailure(r, "trusted_resolution_failed") /\ UNCHANGED <<user, route>>
  /\ UNCHANGED <<phase, snapshot, inFlight, audit, id, late>>

\* A current snapshot leads on to the route and the orchestrator's own checks,
\* up to its first model call.
Verify(r) ==
  /\ pc[r] = "verify"
  /\ \/ ApplicationFailure(r, "authorization_snapshot_unavailable")
     \/ snapshot = "revoked" /\ ApplicationFailure(r, "authorization_snapshot_rejected")
     \/ /\ snapshot = "current"
        /\ \/ ApplicationFailure(r, "trusted_route_unavailable")
           \/ ApplicationFailure(r, "orchestrator_failed")
           \/ AgentFailure(r, "route_not_authorized")
           \/ Goto(r, "model") /\ UNCHANGED <<result, reason>>
  /\ UNCHANGED <<phase, snapshot, inFlight, audit, id, user, route, late>>

-----------------------------------------------------------------------------
(* Orchestrator and tool gateway *)

AnswerAccepted(r) == Conclude(r, "agent_audit", "success", "completed")

\* The first model turn: a final answer on a general route, one call of the
\* routed tool on an exact one; the gateway re-authorizes and validates it.
FirstTurn(r) ==
  /\ pc[r] = "model"
  /\ \/ AgentFailure(r, "model_provider_failed")
     \/ route[r] = "general" /\ AnswerAccepted(r)
     \/ /\ route[r] = "exact"
        /\ \/ Goto(r, "handler") /\ UNCHANGED <<result, reason>>
           \/ Conclude(r, "tool_audit", "failure", "tool_not_authorized_or_installed")
  /\ UNCHANGED <<phase, snapshot, inFlight, audit, id, user, route, late>>

RunHandler(r) ==
  /\ pc[r] = "handler"
  /\ \/ Conclude(r, "tool_audit", "success", "execution_succeeded")
     \/ Conclude(r, "tool_audit", "failure", "handler_execution_failed")
  /\ UNCHANGED <<phase, snapshot, inFlight, audit, id, user, route, late>>

\* The tool result goes to the model only after its audit returned, and only if
\* it was a success within the transcript limits.
AuditToolWithoutWaiting(r) ==
  /\ pc[r] = "tool_audit"
  /\ Record(r, Event(r, "tool"), result[r])
  /\ IF result[r] = "success" THEN Goto(r, "final_model") /\ UNCHANGED reason
     ELSE Goto(r, "agent_audit") /\ reason' = [reason EXCEPT ![r] = "routed_tool_failed"]
  /\ UNCHANGED <<phase, snapshot, inFlight, id, user, route, late>>
AuditTool(r) ==
  /\ pc[r] = "tool_audit"
  /\ \/ /\ Record(r, Event(r, "tool"), result[r])
        /\ \/ result'[r] = "success" /\ Goto(r, "final_model") /\ UNCHANGED reason
           \/ /\ result'[r] = "failure" /\ Goto(r, "agent_audit")
              /\ reason' = [reason EXCEPT ![r] = "routed_tool_failed"]
           \/ /\ result'[r] = "audit_unavailable" /\ Goto(r, "agent_audit")
              /\ reason' = [reason EXCEPT ![r] = "tool_audit_unavailable"]
     \/ /\ result[r] = "success" /\ Accepts(Event(r, "tool"))
        /\ audit' = audit \cup {Event(r, "tool")}
        /\ \/ AgentFailure(r, "tool_result_size_limit_reached")
           \/ ApplicationFailure(r, "orchestrator_failed")
  /\ UNCHANGED <<phase, snapshot, inFlight, id, user, route, late>>

FinalTurn(r) ==
  /\ pc[r] = "final_model"
  /\ \/ AnswerAccepted(r)
     \/ AgentFailure(r, "model_provider_failed")
  /\ UNCHANGED <<phase, snapshot, inFlight, audit, id, user, route, late>>

\* _finish of the orchestrator.
AuditAgentIgnoringFailure(r) ==
  /\ pc[r] = "agent_audit"
  /\ \/ audit' = audit \cup {Event(r, "agent")} /\ Accepts(Event(r, "agent"))
     \/ audit' = audit
  /\ Goto(r, "application_audit")
  /\ reason' = [reason EXCEPT ![r] = "completed"]
  /\ UNCHANGED <<phase, snapshot, inFlight, id, user, route, result, late>>
AuditAgent(r) ==
  /\ pc[r] = "agent_audit"
  /\ Record(r, Event(r, "agent"), result[r])
  /\ Goto(r, "application_audit")
  /\ reason' = [reason EXCEPT ![r] = "completed"]
  /\ UNCHANGED <<phase, snapshot, inFlight, id, user, route, late>>

-----------------------------------------------------------------------------
\* _finish of the application, and the rejections of the transport: the last
\* audit, the response, and the id is free again.
ReplyFirst(r) ==
  /\ pc[r] = "application_audit"
  /\ Goto(r, "replied")
  /\ Release(r)
  /\ UNCHANGED <<phase, snapshot, audit, id, user, route, result, reason, late>>
ReplyRetrying(r) ==
  /\ pc[r] = "application_audit"
  /\ Accepts(Event(r, "application"))
  /\ audit' = audit \cup {Event(r, "application")}
  /\ Goto(r, "replied")
  /\ Release(r)
  /\ UNCHANGED <<phase, snapshot, id, user, route, result, reason, late>>
Reply(r) ==
  /\ pc[r] = "application_audit"
  /\ Record(r, Event(r, "application"), result[r])
  /\ Goto(r, "replied")
  /\ Release(r)
  /\ UNCHANGED <<phase, snapshot, id, user, route, reason, late>>

\* CancelledError at an await: no further audit, no response, the id is free
\* again; an audit insert in progress may still have committed.
Cancel(r) ==
  /\ pc[r] \in Awaits
  /\ Goto(r, "cancelled")
  /\ Release(r)
  /\ \/ UNCHANGED audit
     \/ \E slot \in {"tool", "agent", "application"} :
          /\ <<pc[r], slot>> \in {<<"tool_audit", "tool">>, <<"agent_audit", "agent">>,
                                  <<"application_audit", "application">>}
          /\ Accepts(Event(r, slot))
          /\ audit' = audit \cup {Event(r, slot)}
  /\ UNCHANGED <<phase, snapshot, id, user, route, result, reason, late>>

\* The lifespan around the requests, and the ERP.
ChangePhase ==
  /\ \/ phase = "starting" /\ phase' = "serving"
     \/ phase = "serving" /\ phase' = "stopping"
     \/ phase = "stopping" /\ phase' = "stopped"
  /\ UNCHANGED <<snapshot, inFlight, audit, local, late>>

Revoke ==
  /\ snapshot = "current" /\ snapshot' = "revoked"
  /\ late' = {r \in Requests : pc[r] \in {"new", "body", "authenticate", "resolve", "verify"}}
  /\ UNCHANGED <<phase, inFlight, audit, local>>

\* Every exchange of the bound has ended.
Rest == (\A r \in Requests : pc[r] \in Ended) /\ UNCHANGED vars

\* Whatever a request does once its body is there.
Proceed(r) ==
  \/ Authenticate(r)
  \/ \E u \in Users, mode \in {"general", "exact"} : Resolve(r, u, mode)
  \/ Verify(r) \/ FirstTurn(r) \/ RunHandler(r) \/ AuditTool(r) \/ FinalTurn(r)
  \/ AuditAgent(r) \/ Reply(r)

Next ==
  \/ \E r \in Requests :
       \/ \E i \in RequestIds : Arrive(r, i) \/ Collide(r, i)
       \/ ReadBody(r) \/ Proceed(r) \/ Cancel(r)
  \/ ChangePhase
  \/ Revoke
  \/ Rest

Spec == Init /\ [][Next]_vars

\* The event loop resumes a coroutine whose await has completed, and the awaits past the
\* body complete: HTTP clients and databases work under timeouts.  The body comes from the
\* client without one, so a client that stalls may keep its request, and its id, open.
FairSpec == Spec /\ \A r \in Requests : WF_vars(Proceed(r))

-----------------------------------------------------------------------------
(* Properties *)

Reasons ==
  {"none", "transport_not_ready", "invalid_http_envelope", "invalid_public_request",
   "ingress_authentication_rejected", "trusted_resolution_failed",
   "authorization_snapshot_unavailable", "authorization_snapshot_rejected",
   "trusted_route_unavailable", "orchestrator_failed", "route_not_authorized",
   "model_provider_failed", "tool_not_authorized_or_installed", "execution_succeeded",
   "handler_execution_failed", "routed_tool_failed", "tool_audit_unavailable",
   "tool_result_size_limit_reached", "completed"}

Row == [slot: {"application", "agent", "tool"}, id: RequestIds, user: Users \cup {NoUser},
        outcome: {"success", "failure"}, reason: Reasons]

TypeOK ==
  /\ phase \in {"starting", "serving", "stopping", "stopped"}
  /\ snapshot \in {"current", "revoked"}
  /\ inFlight \subseteq RequestIds
  /\ \A e \in audit : e \in Row
  /\ pc \in [Requests -> {"new"} \cup Awaits \cup Ended]
  /\ id \in [Requests -> RequestIds \cup {NoId}]
  /\ user \in [Requests -> Users \cup {NoUser}]
  /\ route \in [Requests -> {"none", "general", "exact"}]
  /\ result \in [Requests -> Results]
  /\ reason \in [Requests -> Reasons]
  /\ late \subseteq Requests

Stored(slot, r, outcome) ==
  \E e \in audit : e.slot = slot /\ e.id = id[r] /\ e.outcome = outcome

Replied(r, results) == pc[r] = "replied" /\ result[r] \in results

\* Every answer that is not itself an audit or infrastructure failure has an
\* application event with its outcome: no result leaves before its audit.
AnswersAreAudited ==
  \A r \in Requests : Replied(r, {"success", "failure", "rejected"}) =>
    Stored("application", r, Outcome(result[r]))

\* A success leaves only with the whole chain stored for its id: the agent's
\* success and, on an exact route, the tool's, both for its user, although each
\* audit is a transaction in another database that can fail on its own; and only if
\* its authorization snapshot had not been revoked when it was verified.
SuccessHasItsChain ==
  \A r \in Requests : Replied(r, {"success"}) =>
    /\ \E e \in audit : /\ e.slot = "agent" /\ e.id = id[r]
                        /\ e.user = user[r] /\ e.outcome = "success"
    /\ route[r] = "exact" => \E e \in audit : /\ e.slot = "tool" /\ e.id = id[r]
                                              /\ e.user = user[r] /\ e.outcome = "success"
    /\ r \notin late

\* The application log never claims a success that the agent log of the same id
\* does not have, whatever was cancelled or lost between the two writes, and no slot
\* of a log ever holds two different events.
LogsAgree ==
  /\ \A e \in audit : e.slot = "application" /\ e.outcome = "success" =>
       \E f \in audit : f.slot = "agent" /\ f.id = e.id /\ f.outcome = "success"
  /\ \A e, f \in audit : e.slot = f.slot /\ e.id = f.id => e = f

\* The reserved ids are exactly those of the open requests, each of one request:
\* a collision, a rejection or a cancellation releases its own id and no other.
ReservedIdsAreOpen ==
  /\ inFlight = {id[r] : r \in {q \in Requests : pc[q] \in Awaits}}
  /\ \A r, q \in Requests : pc[r] \in Awaits /\ pc[q] \in Awaits /\ id[r] = id[q] => r = q

\* Every request whose body has arrived, or that was rejected before, ends answered or
\* cancelled, whatever fails on its way and whatever other clients do with their bodies.
RequestsEnd == \A r \in Requests : pc[r] \in Awaits \ {"body"} ~> pc[r] \in Ended

\* docs/contracts/internal-erp-http-transport.md:80: "Sequential reuse is rejected
\* by the durable application-audit logical-slot conflict".  Two exchanges with
\* one id would then never both be given the result they came to.
SequentialReuseIsRejected ==
  \A r, q \in Requests : r # q /\ id[r] = id[q] /\ id[r] # NoId =>
    ~(Replied(r, {"success", "failure", "rejected"}) /\
      Replied(q, {"success", "failure", "rejected"}))
=============================================================================
