---------------------------- MODULE ModelProviders ----------------------------
(***************************************************************************)
(* One turn with a language model: what the adapters of infrastructure/    *)
(* openai and infrastructure/openrouter send, whether they may send it,    *)
(* and which response of the provider-neutral contract                     *)
(* (orchestration/models.py) they make of the answer.                      *)
(*                                                                         *)
(* A turn is [selection, tool, version, tools, interactions,               *)
(* classification, purpose, customer, size]; an interaction is             *)
(* [call, result].  An answer on the wire is [code, type, size, model,     *)
(* status, calls, finals]: what it holds of tool calls and of final texts. *)
(* Arguments of a call are told apart by what the checks make of them.     *)
(***************************************************************************)
EXTENDS Integers, Sequences, FiniteSets, Functions

Failed == [kind |-> "failed"]
Junk == [kind |-> "junk"]

\* Arguments: "fine"; "long" and "huge", which only differ in size; "blank", which has the
\* shape of the schema and a value its model refuses; "reserved", which names something of
\* the trusted context; "malformed", which is not one JSON object with safe values.
Size(arguments) == CASE arguments = "long" -> 2 [] arguments = "huge" -> 3 [] OTHER -> 1
Parses(arguments) == arguments # "malformed" /\ Size(arguments) <= 2
FitsSchema(arguments) == arguments \in {"fine", "long", "huge", "blank"}

ValidFinal(final) ==
  /\ final.form = "object"
  /\ IsInjective(final.evidence) /\ Len(final.evidence) <= 4
  /\ IsInjective(final.citations) /\ Len(final.citations) <= 20

\* A turn exposes the forced tool and nothing else, or follows one successful call.
ValidTurn(turn) ==
  CASE turn.selection = "no_tools" -> turn.tools = {} /\ turn.interactions = <<>>
    [] turn.selection = "required_exact_tool" ->
         /\ turn.interactions = <<>> /\ Cardinality(turn.tools) = 1
         /\ \A tool \in turn.tools : tool.name = turn.tool /\ tool.version = turn.version
    [] turn.selection = "final_only" ->
         /\ turn.tools = {} /\ Len(turn.interactions) = 1
         /\ LET interaction == turn.interactions[1] IN
            /\ Parses(interaction.call.arguments)
            /\ interaction.result.tool = interaction.call.tool
            /\ interaction.result.version = interaction.call.version

-----------------------------------------------------------------------------
(* OpenAI *)

HighlyRestricted == 3

ValidPrivacy(privacy) ==
  /\ \A q, r \in privacy.routes : q.customer = r.customer => q = r
  /\ \A a, b \in privacy.attestations : a.id = b.id => a = b
  /\ privacy.request \in Nat /\ privacy.response \in Nat
  /\ \A r \in privacy.routes : /\ r.lifetime \in Nat \ {0} /\ r.input \in Nat
                               /\ \E a \in privacy.attestations : a.id = r.attestation
  /\ \A a \in privacy.attestations :
       /\ a.approved \in Int /\ a.expires \in Int /\ a.approved < a.expires
       /\ HighlyRestricted \notin a.classifications

\* The routes of a customer that may carry the turn, with one reading of the clock.
Approved(privacy, turn, now) ==
  {r \in privacy.routes :
     /\ r.customer = turn.customer
     /\ turn.classification \in r.classifications \ {HighlyRestricted}
     /\ turn.purpose \in r.purposes
     /\ \E a \in privacy.attestations :
          /\ a.id = r.attestation
          /\ turn.classification \in a.classifications /\ turn.purpose \in a.purposes
          /\ a.approved <= now /\ now < a.expires
          /\ a.expires - a.approved <= r.lifetime}

\* One attempt: a status of success, one JSON body within the limit.
Posted(wire, limit) == wire.code = 200 /\ wire.type = "json" /\ wire.size <= limit

Tool(turn) == CHOOSE tool \in turn.tools : TRUE

\* A call names the forced tool and fits its schema; the adapter supplies the version.
ParseCall(call, turn) ==
  IF call.tool = turn.tool /\ FitsSchema(call.arguments) /\ Parses(call.arguments)
  THEN [call EXCEPT !.version = Tool(turn).version] ELSE Failed

ParseFinal(finals, limit) ==
  IF Len(finals) = 1 /\ ValidFinal(finals[1]) /\ finals[1].size <= limit THEN finals[1] ELSE Failed

\* Exactly one output item, of the kind the turn asked for.
ParseOpenAI(wire, turn, limit) ==
  IF wire.model # "configured" \/ wire.status # "completed" \/ Len(wire.calls \o wire.finals) # 1 THEN Failed
  ELSE IF turn.selection = "required_exact_tool"
  THEN IF wire.calls = <<>> THEN Failed ELSE ParseCall(wire.calls[1], turn)
  ELSE ParseFinal(wire.finals, limit)

-----------------------------------------------------------------------------
(* OpenRouter *)

\* A call names a tool that was offered, the forced one, with an id of its own.
ParseRouterCall(call, turn) ==
  IF /\ \E tool \in turn.tools : tool.name = call.tool
     /\ turn.selection = "required_exact_tool" => call.tool = turn.tool
     /\ \A i \in 1..Len(turn.interactions) : turn.interactions[i].call.id # call.id
     /\ Parses(call.arguments)
  THEN [call EXCEPT !.version = Tool(turn).version] ELSE Failed

\* One choice with at most one call, none beside a text, one when a tool is forced.
ParseOpenRouter(wire, turn, limit) ==
  IF \/ wire.model # "configured" \/ wire.status # "completed" \/ Len(wire.calls) > 1
     \/ turn.selection = "required_exact_tool" /\ wire.calls = <<>>
  THEN Failed
  ELSE IF wire.calls # <<>>
  THEN IF turn.selection = "final_only" \/ wire.finals # <<>> THEN Failed
       ELSE ParseRouterCall(wire.calls[1], turn)
  ELSE ParseFinal(wire.finals, limit)

-----------------------------------------------------------------------------
\* Another implementation of the contract returns what it likes: a call, a final answer, or
\* something else.
Arbitrary(wire) ==
  IF wire.code # 200 THEN Failed
  ELSE IF wire.calls # <<>> THEN IF Parses(wire.calls[1].arguments) THEN wire.calls[1] ELSE Failed
  ELSE IF wire.finals # <<>> THEN IF ValidFinal(wire.finals[1]) THEN wire.finals[1] ELSE Failed
  ELSE Junk

\* The adapters dump the envelope of a result, whose content is declared to be of the base
\* class of all models: what the subclass adds, which is all of it, is not dumped.
Dump(result) == [result EXCEPT !.content = <<>>]

\* What a provider sends for a turn: the turn itself, or what the adapter makes of it; or
\* nothing, when it may not or it is too large.
Sends(provider, turn, privacy, now) ==
  CASE ~ValidTurn(turn) -> {}
    [] provider = "openai" -> {r \in Approved(privacy, turn, now) : turn.size <= r.input}
    [] provider = "openrouter" -> IF turn.size <= privacy.request THEN {"openrouter"} ELSE {}
    [] provider = "other" -> {"other"}

Shown(provider, turn) ==
  [i \in 1..Len(turn.interactions) |->
     IF provider = "other" THEN turn.interactions[i].result ELSE Dump(turn.interactions[i].result)]

\* complete_turn
Complete(provider, turn, wire, privacy, now) ==
  IF Sends(provider, turn, privacy, now) = {} THEN Failed
  ELSE IF provider = "other" THEN Arbitrary(wire)
  ELSE IF ~Posted(wire, privacy.response) THEN Failed
  ELSE IF provider = "openai" THEN ParseOpenAI(wire, turn, privacy.response)
  ELSE ParseOpenRouter(wire, turn, privacy.response)
=============================================================================
