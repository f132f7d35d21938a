------------------------------- MODULE AgentRun -------------------------------
(***************************************************************************)
(* One run of the agent (AgentOrchestrator.execute) as a decision: the     *)
(* tools a user is entitled to, the route the server has chosen, what the  *)
(* gateway lets a call do, which matches of a search may be shown, and     *)
(* which final answers the evidence supports.  The order of the audits and *)
(* of concurrent requests is the matter of ChatRequest.                    *)
(*                                                                         *)
(* A run is [context, route, message, provider, now, first, answer,        *)
(* tool_audited, second, audited]: first and second are what comes back    *)
(* from the model, answer what the ERP or the knowledge provider returns,  *)
(* the audited fields whether the sinks accept their event.                *)
(***************************************************************************)
EXTENDS Integers, Sequences, FiniteSets, SequencesExt, Functions

Models == INSTANCE ModelProviders

KnowledgeTool == "search_hr_knowledge"
Restricted == 2

\* The first of several checks that fails.
Check(fails, code) == [fails |-> fails, code |-> code]
FirstFailure(checks) ==
  LET failed == {i \in DOMAIN checks : checks[i].fails}
  IN IF failed = {} THEN "none" ELSE checks[Min(failed)].code

-----------------------------------------------------------------------------
(* Registry, gateway and routes as they are when the service starts. *)

Descriptors(registry) == UNION {manifest.tools : manifest \in registry}

ValidRegistry(registry) ==
  /\ \A m, n \in registry : m.code = n.code => m = n
  /\ \A m, n \in registry : \A s \in m.tools, t \in n.tools : s.name = t.name => m = n /\ s = t
  /\ \A m \in registry : /\ m.modules # {}
                         /\ \A t \in m.tools : /\ t.purposes # {}
                                              /\ t.classification \in 0..Models!HighlyRestricted

ValidHandlers(handlers, registry) ==
  /\ \A g, h \in handlers : g.name = h.name => g = h
  /\ \A h \in handlers : \E t \in Descriptors(registry) :
       t.name = h.name /\ t.version = h.version /\ t.operation = "read"

ValidLimits(limits) ==
  limits \in [{"message", "tools", "calls", "turns", "argument", "result", "answer"} -> Nat]

\* A route is general, or leads to one installed read tool.
ValidRoute(route, system) ==
  IF route.mode = "general_only" THEN route.tool = "none" /\ route.version = "none"
  ELSE /\ \E t \in Descriptors(system.registry) :
            t.name = route.tool /\ t.version = route.version /\ t.operation = "read"
       /\ [name |-> route.tool, version |-> route.version] \in system.handlers

-----------------------------------------------------------------------------
(* Entitlement *)

AllowedWithAllRoles(tool, context) ==
  /\ tool.operation # "command"
  /\ tool.employee => context.employee # "none"
  /\ tool.permissions \subseteq context.permissions
  /\ tool.roles \subseteq context.roles
  /\ context.purpose \in tool.purposes
AllowedWithoutPermissions(tool, context) ==
  /\ tool.operation # "command"
  /\ tool.employee => context.employee # "none"
  /\ tool.roles = {} \/ tool.roles \cap context.roles # {}
  /\ context.purpose \in tool.purposes
Allowed(tool, context) ==
  /\ tool.operation # "command"
  /\ tool.employee => context.employee # "none"
  /\ tool.permissions \subseteq context.permissions
  /\ tool.roles = {} \/ tool.roles \cap context.roles # {}
  /\ context.purpose \in tool.purposes

\* evaluate_capability_access
Entitled(registry, context) ==
  {t \in Descriptors(registry) :
     /\ \E m \in registry : t \in m.tools /\ m.modules \subseteq context.modules
     /\ Allowed(t, context)}

\* The entitled tools that are installed.
Catalog(system, context) ==
  {t \in Entitled(system.registry, context) : \E h \in system.handlers : h.name = t.name}

-----------------------------------------------------------------------------
(* The knowledge handler *)

Before(a, b) == a.score > b.score \/ (a.score = b.score /\ a.chunk <= b.chunk)

\* What the models of the results admit.
ValidAnswer(answer) ==
  /\ answer.content \in Seq(Range(answer.content))
  /\ \A match \in Range(answer.content) : match.classification \in 0..Models!HighlyRestricted

\* A match of the knowledge provider that may be shown to the user.
Visible(match, context) ==
  /\ match.namespace = "hr"
  /\ match.modules \subseteq context.modules
  /\ match.permissions \subseteq context.permissions
  /\ context.purpose \in match.purposes
  /\ match.customer = IF match.product THEN "none" ELSE context.customer
  /\ match.legal_entities \subseteq context.legal_entities
  /\ match.from <= context.at /\ (match.to # 0 => context.at <= match.to)
  /\ match.classification <= Restricted

\* One match that fails refuses all of them.
ValidMatches(matches, context) ==
  /\ Len(matches) <= 5
  /\ IsInjective([i \in 1..Len(matches) |-> matches[i].chunk])
  /\ IsInjective([i \in 1..Len(matches) |-> matches[i].citation])
  /\ FoldLeft(LAMBDA sum, match : sum + match.size, 0, matches) <= 12
  /\ \A i \in 1..Len(matches) : Visible(matches[i], context)
  /\ \A i \in 2..Len(matches) : Before(matches[i - 1], matches[i])

\* What a handler makes of the answer to its query: a result, or an exception.
Handle(tool, context, answer) ==
  IF answer.status # "answered" THEN answer.status
  ELSE IF tool = KnowledgeTool /\ ~ValidMatches(answer.content, context) THEN "failed"
  ELSE "answered"

-----------------------------------------------------------------------------
(* The gateway: [code, ran, result] *)

Gateway(system, context, call, answer, audited) ==
  LET described == {t \in Descriptors(system.registry) : t.name = call.tool}
      usable == {t \in Catalog(system, context) : t.name = call.tool /\ t.version = call.version}
      refusal == FirstFailure(<<
        Check(\E t \in described : t.operation = "command", "READ_ONLY_VIOLATION"),
        Check(usable = {}, "TOOL_UNAVAILABLE"),
        Check(call.arguments = "reserved", "INVALID_TOOL_ARGUMENTS"),
        Check(call.arguments \notin {"fine", "long"}, "INVALID_TOOL_ARGUMENTS")>>)
      handled == Handle(call.tool, context, answer)
      code == IF refusal # "none" THEN refusal
              ELSE CASE handled = "answered" -> "none"
                     [] handled = "junk" -> "INVALID_TOOL_OUTPUT"
                     [] OTHER -> "TOOL_EXECUTION_FAILED"
  IN [code |-> IF audited THEN code ELSE "AUDIT_UNAVAILABLE",
      ran |-> refusal = "none",
      result |-> [tool |-> call.tool, version |-> call.version, content |-> answer.content]]

-----------------------------------------------------------------------------
(* Grounding; a successful call is [id, knowledge, citations] *)

Citations(result) ==
  IF result.tool = KnowledgeTool
  THEN {result.content[i].citation : i \in 1..Len(result.content)} ELSE {}

\* The basis of an answer, its evidence and its citations fit the calls that were made.
Grounded(final, calls) ==
  LET selected == {c \in calls : c.id \in Range(final.evidence)}
      knowledge == {c \in selected : c.knowledge}
  IN /\ Models!ValidFinal(final)
     /\ Range(final.evidence) \subseteq {c.id : c \in calls}
     /\ CASE final.basis = "general" -> final.evidence = <<>> /\ final.citations = <<>> /\ calls = {}
          [] final.basis = "knowledge" -> selected # {} /\ selected = knowledge /\ final.citations # <<>>
          [] final.basis = "erp_data" -> selected # {} /\ knowledge = {} /\ final.citations = <<>>
          [] OTHER -> FALSE
     /\ Range(final.citations) \subseteq UNION {c.citations : c \in knowledge}

\* On an exact route the one call must be the evidence, and its kind the basis.
MatchesRoute(final, calls) ==
  \E c \in calls : /\ calls = {c} /\ final.evidence = <<c.id>>
                   /\ final.basis = IF c.knowledge THEN "knowledge" ELSE "erp_data"

-----------------------------------------------------------------------------
(* The run: [code, ran, turns, citations], code "none" being success and ran and turns the *)
(* sets of the tools that ran and of the turns that were sent.                             *)

General(run) == run.route.mode = "general_only"

Routed(system, run) ==
  {t \in Catalog(system, run.context) : t.name = run.route.tool /\ t.version = run.route.version}

\* The classification a model provider must be approved for.
Ceiling(system, run) ==
  IF General(run) THEN Restricted ELSE Max({Restricted} \cup {t.classification : t \in Routed(system, run)})

BeforeTheModel(system, run) ==
  FirstFailure(<<
    Check(run.message > system.limits.message, "AGENT_LIMIT_REACHED"),
    Check(Cardinality(Catalog(system, run.context)) > system.limits.tools, "AGENT_CATALOG_LIMIT"),
    Check(~General(run) /\ Routed(system, run) = {}, "INVALID_MODEL_RESPONSE"),
    Check(~General(run) /\ (system.limits.calls < 1 \/ system.limits.turns < 2), "AGENT_LIMIT_REACHED")>>)

Turn(system, run, selection, interactions) ==
  LET forced == selection = "required_exact_tool"
  IN [selection |-> selection,
      tool |-> IF forced THEN run.route.tool ELSE "none",
      version |-> IF forced THEN run.route.version ELSE "none",
      tools |-> IF forced THEN Routed(system, run) ELSE {},
      interactions |-> interactions, classification |-> Ceiling(system, run),
      purpose |-> run.context.purpose, customer |-> run.context.customer, size |-> run.message]

Ask(system, run, turn, wire) ==
  Models!Complete(run.provider, turn, wire, system.privacy, run.now)

\* The turns whose content left for a model.
Sent(system, run, turns) ==
  {turn \in turns : Models!Sends(run.provider, turn, system.privacy, run.now) # {}}

Over(code, ran, turns) == [code |-> code, ran |-> ran, turns |-> turns, citations |-> <<>>]

\* The last turn: only a final answer that its evidence supports is one.
Finish(system, run, response, calls, ran, turns) ==
  IF response.kind # "final"
  THEN Over(IF response.kind = "failed" THEN "AGENT_UNAVAILABLE" ELSE "INVALID_MODEL_RESPONSE", ran, turns)
  ELSE LET code == FirstFailure(<<
             Check(response.size > system.limits.answer, "AGENT_LIMIT_REACHED"),
             Check(~Grounded(response, calls), "INVALID_MODEL_RESPONSE"),
             Check(General(run) /\ response.basis # "general", "INVALID_MODEL_RESPONSE"),
             Check(~General(run) /\ ~MatchesRoute(response, calls), "INVALID_MODEL_RESPONSE")>>)
       IN [Over(code, ran, turns) EXCEPT !.citations = IF code = "none" THEN response.citations ELSE <<>>]

\* The call a model makes of the forced tool, before the gateway sees it.
CallFailure(system, run, response) ==
  IF response.kind # "call"
  THEN IF response.kind = "failed" THEN "AGENT_UNAVAILABLE" ELSE "INVALID_MODEL_RESPONSE"
  ELSE FirstFailure(<<
         Check(~Models!Parses(response.arguments), "INVALID_MODEL_RESPONSE"),
         Check(response.tool # run.route.tool \/ response.version # run.route.version,
               "INVALID_MODEL_RESPONSE"),
         Check(Models!Size(response.arguments) > system.limits.argument, "AGENT_LIMIT_REACHED")>>)

\* What a result of the gateway means for the run: transcripts have a limit of their own.
ResultFailure(system, gateway) ==
  FirstFailure(<<
    Check(gateway.code = "AUDIT_UNAVAILABLE", "AUDIT_UNAVAILABLE"),
    Check(gateway.code # "none", "AGENT_UNAVAILABLE"),
    Check(Len(gateway.result.content) > system.limits.result, "AGENT_LIMIT_REACHED")>>)

\* An exact route: the forced call, then the final answer.
Exact(system, run) ==
  LET turn == Turn(system, run, "required_exact_tool", <<>>)
      call == Ask(system, run, turn, run.first)
      refused == CallFailure(system, run, call)
  IN IF refused # "none" THEN Over(refused, {}, {turn})
     ELSE LET gateway == Gateway(system, run.context, call, run.answer, run.tool_audited)
              ran == IF gateway.ran THEN {call.tool} ELSE {}
              failed == ResultFailure(system, gateway)
              last == Turn(system, run, "final_only", <<[call |-> call, result |-> gateway.result]>>)
              made == [id |-> call.id, knowledge |-> call.tool = KnowledgeTool,
                       citations |-> Citations(gateway.result)]
          IN IF failed # "none" THEN Over(failed, ran, {turn})
             ELSE Finish(system, run, Ask(system, run, last, run.second), {made}, ran, {turn, last})

Orchestrate(system, run) ==
  LET refused == BeforeTheModel(system, run)
      turn == Turn(system, run, "no_tools", <<>>)
      over == IF refused # "none" THEN Over(refused, {}, {})
              ELSE IF General(run) THEN Finish(system, run, Ask(system, run, turn, run.first), {}, {}, {turn})
              ELSE Exact(system, run)
      told == [over EXCEPT !.turns = Sent(system, run, @)]
  IN IF run.audited THEN told
     ELSE [told EXCEPT !.code = "AUDIT_UNAVAILABLE", !.citations = <<>>]
=============================================================================
