------------------------------ MODULE Decisions ------------------------------
(***************************************************************************)
(* The procedures of the program that decide from their arguments alone,   *)
(* one call at a time: preparing knowledge, fusing rankings, choosing a    *)
(* threshold, reporting an evaluation, trusting a request, answering it.   *)
(* A call takes any argument of the instance; the properties state what    *)
(* its result must be in terms that are not those of the procedure.        *)
(***************************************************************************)
EXTENDS Integers, Sequences, FiniteSets, SequencesExt

CONSTANTS
  Wide,                  \* letters of two bytes
  Documents, Limits,     \* sections to be chunked, limits of ingestion
  Entry, Sources,        \* the catalog entry, and files and what becomes of them
  Revisions, RevisionLimits, \* sequences of drafts prepared one after the other
  Rankings, Policies, Requests,
  Calibrations, Top,     \* [observations, gates, silence], the score 1.0
  Suites,                \* [cases, answers, gates, silence]
  Config, Tokens, Arrivals, \* the verifier, assertions, and how they arrive
  Conversations,         \* [system, run]: the agent as configured, and one run of it
  Cooperative            \* those in which the model, the ERP and the sinks do their part

Preparation == INSTANCE KnowledgePreparation
Fusion == INSTANCE RankFusion
Evaluation == INSTANCE RetrievalEvaluation
Trust == INSTANCE RequestAssertion
Agent == INSTANCE AgentRun

\* Arguments are what the models of the program admit.
ASSUME ArgumentAssumption ==
  /\ \A limits \in Limits \cup {RevisionLimits} : Preparation!ValidLimits(limits)
  /\ \A sections \in Documents : Preparation!ValidSections(sections)
  /\ \A source \in Sources : Preparation!ValidTokens(source.content.tokens)
  /\ \A drafts \in Revisions :
       /\ drafts \in Seq(Range(drafts))
       /\ \A i \in 1..Len(drafts) : Preparation!ValidDraft(drafts[i])
  /\ \A policy \in Policies : Fusion!ValidPolicy(policy)
  /\ \A ranking \in Rankings : Fusion!ValidRanking(ranking)
  /\ \A request \in Requests : Fusion!ValidRequest(request)
  /\ Top \in Nat
  /\ \A c \in Calibrations :
       /\ c.observations \in Seq(Range(c.observations))
       /\ Evaluation!ValidGates(c.gates) /\ c.silence \in 0..Evaluation!Unit
       /\ \A i \in 1..Len(c.observations) : Evaluation!ValidObservation(c.observations[i], Top)
  /\ \A s \in Suites :
       /\ s.cases \in Seq(Range(s.cases))
       /\ Evaluation!ValidGates(s.gates) /\ s.silence \in 0..Evaluation!Unit
       /\ \A i \in 1..Len(s.cases) : /\ Evaluation!ValidCase(s.cases[i])
                                     /\ s.answers[i] \in Seq(Range(s.answers[i]))
  /\ Trust!ValidConfig(Config)
  /\ \A token \in Tokens : Trust!ValidToken(token)
  \* The clock of the ERP and that of the service differ by no more than the skew.
  /\ \A arrival \in Arrivals :
       /\ arrival.time \in Int
       /\ arrival.now \in (arrival.time - Config.skew)..(arrival.time + Config.skew)
  /\ Cooperative \subseteq Conversations
  /\ \A c \in Conversations :
       /\ Agent!ValidRegistry(c.system.registry)
       /\ Agent!ValidHandlers(c.system.handlers, c.system.registry)
       /\ Agent!ValidRoute(c.run.route, c.system)
       /\ Agent!ValidLimits(c.system.limits)
       /\ Agent!Models!ValidPrivacy(c.system.privacy)
       /\ Agent!ValidAnswer(c.run.answer)
       /\ c.run.provider \in {"openai", "openrouter", "other"}
       /\ c.run.message \in Nat /\ c.run.now \in Int

VARIABLE case    \* [of, in, out]: the procedure, its argument, its result

NoCase == [of |-> "none", in |-> "none", out |-> "none"]

Call(procedure, argument, result) ==
  case' = [of |-> procedure, in |-> argument, out |-> result]

Init == case = NoCase

\* A document with a block that cannot be divided is refused.
Chunked(sections, limits) ==
  IF \A s \in 1..Len(sections) : \A b \in 1..Len(sections[s].blocks) :
       Preparation!Divisible(sections[s].blocks[b], limits)
  THEN [status |-> "prepared", chunks |-> Preparation!ChunkSections(sections, limits)]
  ELSE Preparation!Refused

Chunk == \E sections \in Documents, limits \in Limits :
  Call("chunk", [sections |-> sections, limits |-> limits], Chunked(sections, limits))

Load == \E source \in Sources : Call("load", source, Preparation!Load(source, Entry))

Prepare == \E drafts \in Revisions :
  Call("prepare", drafts, Preparation!PrepareAll(drafts, RevisionLimits))

Fuse == \E lexical, semantic \in Rankings, policy \in Policies, request \in Requests :
  Call("fuse", [lexical |-> lexical, semantic |-> semantic, policy |-> policy, request |-> request],
       Fusion!Answer(lexical, semantic, policy, request))

Calibrate == \E c \in Calibrations :
  Call("calibrate", c, Evaluation!SelectThreshold(c.observations, c.gates, c.silence, Top))

Evaluate == \E s \in Suites :
  Call("evaluate", s, Evaluation!Report(s.cases, s.answers, s.gates, s.silence))

\* A request is authenticated, resolved, and its snapshot verified.
Identified(token, arrival) ==
  LET trusted == Trust!Authenticate(token, Config, arrival.request, arrival.now)
      resolved == Trust!Resolve(trusted, arrival.resolution)
  IN [trusted |-> trusted,
      context |-> IF trusted = Trust!Denied THEN Trust!Denied
                  ELSE IF resolved.status # "resolved" THEN resolved
                  ELSE IF Trust!VerifySnapshot(resolved.context, arrival.snapshot).status = "valid"
                  THEN resolved ELSE Trust!Unavailable]

Identify == \E token \in Tokens, arrival \in Arrivals :
  Call("identify", [token |-> token, arrival |-> arrival], Identified(token, arrival))

Converse == \E c \in Conversations : Call("converse", c, Agent!Orchestrate(c.system, c.run))

Return == case # NoCase /\ case' = NoCase

Next == \/ case = NoCase /\ (Chunk \/ Load \/ Prepare \/ Fuse \/ Identify \/ Evaluate \/ Converse
                             \/ Calibrate)
        \/ Return

Spec == Init /\ [][Next]_case

-----------------------------------------------------------------------------
(* Properties *)

\* The pairs of letters that follow one another without a space.
Ties(text) ==
  {<<text[i], text[i + 1]>> : i \in {j \in 1..(Len(text) - 1) : /\ ~Preparation!IsSpace(text[j])
                                                             /\ ~Preparation!IsSpace(text[j + 1])}}

LettersOf(blocks) == UNION {Preparation!Letters(blocks[b]) : b \in 1..Len(blocks)}
TiesOf(blocks) == UNION {Ties(blocks[b]) : b \in 1..Len(blocks)}

\* A text holds letters next to each other, as they are in the blocks: in the same order,
\* with none left out between them, tied or separated as there.
Quotes(text, blocks) ==
  LET held == Preparation!Letters(text) IN
  /\ Preparation!InOrder(text) /\ held \subseteq LettersOf(blocks)
  /\ \A p, q \in held, l \in LettersOf(blocks) : p < l /\ l < q => l \in held
  /\ Ties(text) = {tie \in TiesOf(blocks) : tie[1] \in held /\ tie[2] \in held}

\* The next text begins no earlier and ends later, and little of the one before is repeated.
Continues(text, next, overlap) ==
  LET held == Preparation!Letters(text)
      more == Preparation!Letters(next)
  IN /\ \A q \in more : \E p \in held : p <= q
     /\ \E q \in more : \A p \in held : p < q
     /\ Cardinality(held \cap more) <= overlap

\* Any letters of a block without a space between them are together in one of the texts.
HoldsRuns(texts, block) ==
  \A last \in 1..Len(block) : \A first \in 1..last :
    (\A i \in first..last : ~Preparation!IsSpace(block[i])) =>
      \E text \in texts : \A i \in first..last : block[i] \in Preparation!Letters(text)

\* Every chunk fits the limits, chunks come in the order of their sections, and those of a
\* section quote it, have all its letters, each continue the one before with no more than the
\* overlap repeated, and divide no run of letters without a space in it.
Covers(chunks, sections, limits) ==
  /\ \A i \in 1..Len(chunks) : Preparation!Fits(chunks[i].content, limits)
  /\ \A i, j \in 1..Len(chunks) : i < j =>
       \E s, t \in 1..Len(sections) :
         s <= t /\ chunks[i].key = sections[s].key /\ chunks[j].key = sections[t].key
  /\ \A s \in 1..Len(sections) :
       LET blocks == sections[s].blocks
           own == {i \in 1..Len(chunks) : chunks[i].key = sections[s].key}
       IN /\ \A i \in own : Quotes(chunks[i].content, blocks)
          /\ LettersOf(blocks) = UNION {Preparation!Letters(chunks[i].content) : i \in own}
          /\ \A i \in own : i + 1 \in own =>
               Continues(chunks[i].content, chunks[i + 1].content, limits.overlap)
          /\ \A b \in 1..Len(blocks) :
               HoldsRuns({chunks[i].content : i \in own}, blocks[b])

\* Chunking loses, repeats and reorders nothing but the overlap.
ChunksCoverTheText ==
  case.of = "chunk" /\ case.out # Preparation!Refused =>
    Covers(case.out.chunks, case.in.sections, case.in.limits)

\* The headings a position stands under: those that no later heading before it closes.
Above(tokens, position) ==
  {i \in 1..(position - 1) :
     /\ tokens[i].kind = "heading"
     /\ \A j \in (i + 1)..(position - 1) :
          tokens[j].kind = "heading" => tokens[j].level > tokens[i].level}

\* A path names them, each at its level.
StandsUnder(path, tokens, position) ==
  /\ {tokens[i].level : i \in Above(tokens, position)} = 1..Len(path)
  /\ \A i \in Above(tokens, position) : path[tokens[i].level] = tokens[i].text

\* Headings start at the first level and skip none.
WellNested(tokens) ==
  \A i \in 1..Len(tokens) :
    tokens[i].kind = "heading" /\ tokens[i].level > 1 =>
      \E j \in 1..(i - 1) :
        /\ tokens[j].kind = "heading" /\ tokens[j].level >= tokens[i].level - 1
        /\ \A k \in (j + 1)..(i - 1) : tokens[k].kind # "heading"

\* How many blocks of text the first tokens, and the first sections, have.
TextsUpTo(tokens, i) == Cardinality({p \in 1..i : tokens[p].kind = "text"})
BlocksUpTo(sections, s) == Evaluation!SumOf([r \in 1..s |-> Len(sections[r].blocks)])

\* Nobody replaces the approved file or writes to it.
Undisturbed(source) ==
  /\ \A c \in source.directories : Preparation!Plain(c)
  /\ Preparation!Plain(source.inspected) /\ source.inspected.regular
  /\ source.opened = source.inspected
  /\ source.inspected.size <= Entry.maximum /\ source.content.size <= Entry.maximum
  /\ source.content.digest = Entry.digest /\ source.content.decodes

\* A draft holds the approved bytes and no others, though the file may be replaced or
\* written to while it is loaded; all of its text and no other, in its order, each block in
\* the section of the headings above it, and sections have keys of their own.  An approved
\* file that nobody touches is loaded.
DraftsFollowTheSource ==
  case.of = "load" =>
    LET tokens == case.in.content.tokens
        texts == {p \in 1..Len(tokens) : tokens[p].kind = "text"}
        supported == \A i \in 1..Len(tokens) : tokens[i].kind # "unsupported"
        sections == case.out
    IN /\ sections # <<>> =>
            /\ case.in.content.digest = Entry.digest
            /\ BlocksUpTo(sections, Len(sections)) = Cardinality(texts)
            /\ \A p \in texts : \E s \in 1..Len(sections) : \E b \in 1..Len(sections[s].blocks) :
                 /\ BlocksUpTo(sections, s - 1) + b = TextsUpTo(tokens, p)
                 /\ sections[s].blocks[b] = tokens[p].text
                 /\ WellNested(tokens) => StandsUnder(sections[s].path, tokens, p)
            /\ \A s, t \in 1..Len(sections) : sections[s].key = sections[t].key => s = t
       /\ Undisturbed(case.in) /\ supported /\ texts # {} => sections # <<>>

\* Over a sequence of preparations, each against the manifest the last one left: versions
\* never go back, a version has one content and one governance, a new version names the
\* one it replaces, and an identifier of a chunk names one content for ever.
VersionsGrow ==
  case.of = "prepare" =>
    LET results == case.out
        accepted == {i \in 1..Len(results) : results[i].status # "refused"}
        versionOf(i) == results[i].manifest.version
        earlier(i) == {j \in accepted : j < i}
    IN /\ \A i, j \in accepted : i < j =>
            /\ ~Preparation!Below(versionOf(j), versionOf(i))
            /\ versionOf(i) = versionOf(j) => results[i].manifest = results[j].manifest
       /\ \A i \in accepted :
            results[i].supersedes =
              IF earlier(i) = {} \/ versionOf(Max(earlier(i))) = versionOf(i) THEN <<>>
              ELSE versionOf(Max(earlier(i)))
       /\ \A i, j \in accepted : \A c \in Range(results[i].chunks), d \in Range(results[j].chunks) :
            c.id = d.id => c.content = d.content

\* Rank of an id, or one behind the last.
RankIn(ranking, id) == IF Fusion!Ranks(ranking, id) = {} THEN Len(ranking) + 1
                       ELSE CHOOSE r \in Fusion!Ranks(ranking, id) : TRUE

\* The fused answer respects both rankings: what is ahead of another in each ranking that
\* has the other is ahead in the answer too and is not cut before it; the answer is as long
\* as the limits and the candidates allow; it is the same with the rankings exchanged; and
\* nothing in it is outside of the scope of the request.
FusionRespectsRankings ==
  case.of = "fuse" /\ case.out # Fusion!Failure =>
    LET lexical == case.in.lexical
        semantic == case.in.semantic
        policy == case.in.policy
        ids == case.out.ids
        all == Fusion!Ids(lexical) \cup Fusion!Ids(semantic)
        ahead(a, b) ==
          /\ a # b
          /\ b \in Fusion!Ids(lexical) => RankIn(lexical, a) < RankIn(lexical, b)
          /\ b \in Fusion!Ids(semantic) => RankIn(semantic, a) < RankIn(semantic, b)
        exchanged == [policy EXCEPT !.lexical_weight = policy.semantic_weight,
                                    !.semantic_weight = policy.lexical_weight,
                                    !.lexical_limit = policy.semantic_limit,
                                    !.semantic_limit = policy.lexical_limit]
    IN /\ Len(ids) = Cardinality({ids[i] : i \in 1..Len(ids)})
       /\ Len(ids) = Min({case.in.request.limit, policy.final_limit, Cardinality(all)})
       /\ \A a \in all, j \in 1..Len(ids) :
            ahead(a, ids[j]) => \E i \in 1..(j - 1) : ids[i] = a
       /\ Fusion!Answer(semantic, lexical, exchanged, case.in.request) = case.out
       /\ \A c \in {lexical[r] : r \in 1..Len(lexical)} \cup {semantic[r] : r \in 1..Len(semantic)} :
            c.id \in {ids[i] : i \in 1..Len(ids)} => Fusion!Authorized(case.in.request, c.data)

\* The threshold chosen among the candidates is the best of all thresholds between 0 and
\* 1, and there is one whenever the gates are admitted and any threshold passes them and
\* holds back every result that must not be shown.
ThresholdIsBest ==
  case.of = "calibrate" =>
    LET observations == case.in.observations
        allowed == {t \in 0..Top : Evaluation!Eligible(observations, t, case.in.gates)}
        gated == case.in.silence > 0 /\ \A m \in Evaluation!Measures : case.in.gates[m] > 0
    IN /\ gated => (case.out = Evaluation!NoThreshold <=> allowed = {})
       /\ case.out # Evaluation!NoThreshold =>
            /\ case.out \in allowed
            /\ \A t \in allowed \ {case.out} :
                 Evaluation!Less(Evaluation!Key(observations, t), Evaluation!Key(observations, case.out))

\* A report that does not pass names a case that fails, unless no case expects a result;
\* every case with a violation or a broken provider is named; and a report passes only if
\* no case has one.
FailuresAreNamed ==
  case.of = "evaluate" =>
    LET broken == {i \in 1..Len(case.in.cases) :
                     \/ ~Evaluation!Acceptable(case.in.cases[i], case.in.answers[i])
                     \/ \E j \in 1..Len(case.in.answers[i]) :
                          LET match == case.in.answers[i][j]
                          IN match.forbidden \/ match.foreign \/ ~match.authorized}
        asked == \E i \in 1..Len(case.in.cases) : ~case.in.cases[i].empty
    IN /\ broken \subseteq case.out.failing
       /\ case.out.disposition = "passed" => broken = {}
       /\ case.out.disposition # "passed" /\ asked => case.out.failing # {}

\* With clocks that differ by no more than the skew, an honest assertion is accepted in all
\* of its lifetime, across the rotation of keys; none is accepted twice the skew before it
\* was made or after it ended, with another body, or with a key that was not in use; and
\* the context the request gets is its own.
AssertionsAreCurrent ==
  case.of = "identify" =>
    LET token == case.in.token
        claims == token.claims
        arrival == case.in.arrival
        time == arrival.time
        accepted == case.out.trusted # Trust!Denied
        inUse == \E key \in Config.keys : /\ key.public = token.signer /\ key.kid = token.kid
                                          /\ key.activates <= claims.iat /\ claims.exp <= key.retires
        honest == /\ token.form = "profiled" /\ claims.wellformed /\ inUse
                  /\ claims.iat < claims.exp /\ claims.exp - claims.iat <= Config.lifetime
                  /\ claims.parties = Config.parties
                  /\ claims.route = arrival.request.route /\ claims.body = arrival.request.body
    IN /\ accepted => /\ inUse /\ claims.body = arrival.request.body
                      /\ claims.iat - 2 * Config.skew <= time
                      /\ time < claims.exp + 2 * Config.skew
       /\ honest /\ claims.iat <= time /\ time < claims.exp => accepted
       /\ case.out.context.status = "resolved" =>
            accepted /\ case.out.context.context.request = arrival.request.id

\* What the OpenAI policy admits: a route of the customer, with an attestation in force at
\* the time of the run and no longer than the route allows, that both name the
\* classification and the purpose.
Covered(system, run, classification) ==
  \E r \in system.privacy.routes, a \in system.privacy.attestations :
    /\ r.customer = run.context.customer /\ r.attestation = a.id
    /\ classification \in r.classifications \cap a.classifications
    /\ run.context.purpose \in r.purposes \cap a.purposes
    /\ run.now \in a.approved..(a.expires - 1) /\ a.expires <= a.approved + r.lifetime

\* The user may use the tool of the route.
MayUse(system, run) ==
  \E m \in system.registry : \E t \in m.tools :
    /\ t.name = run.route.tool /\ t.version = run.route.version
    /\ m.modules \subseteq run.context.modules /\ t.permissions \subseteq run.context.permissions
    /\ t.roles # {} => t.roles \cap run.context.roles # {}
    /\ run.context.purpose \in t.purposes
    /\ t.employee => run.context.employee # "none"

OnGeneralRoute(run) == run.route.mode = "general_only"

InScope(match, context) ==
  /\ match.namespace = "hr" /\ match.customer \in {"none", context.customer}
  /\ match.modules \subseteq context.modules /\ match.permissions \subseteq context.permissions
  /\ match.legal_entities \subseteq context.legal_entities /\ context.purpose \in match.purposes
  /\ match.from <= context.at

\* The matches of a search that the model was given.
Given(turns) ==
  UNION {IF i.result.tool = "search_hr_knowledge" THEN Range(i.result.content) ELSE {} :
           i \in UNION {Range(turn.interactions) : turn \in turns}}

\* A tool runs only if it is the one of the route and the user may use it.
OnlyTheRouteRuns(system, run, out) ==
  out.ran # {} => ~OnGeneralRoute(run) /\ MayUse(system, run) /\ out.ran = {run.route.tool}

\* Nothing but that tool is offered to the model, and nothing leaves for OpenAI that no
\* attestation in force covers.
OnlyTheCoveredLeaves(system, run, out) ==
  \A turn \in out.turns :
    /\ \A t \in turn.tools : t.name = run.route.tool /\ turn.interactions = <<>> /\ MayUse(system, run)
    /\ run.provider = "openai" => Covered(system, run, turn.classification)

\* Every match the model is given lies in the scope of the user and under the
\* classification the turn declares.
OnlyTheScopeIsGiven(run, out) ==
  \A match \in Given(out.turns) :
    InScope(match, run.context) /\ \A turn \in out.turns : match.classification <= turn.classification

\* An answer is given only if both audits hold it; a general one rests on no tool, another
\* one on the one tool that ran, citing matches of it and only if it is a search.
AnswersRestOnEvidence(run, out) ==
  out.code = "none" =>
    /\ run.audited /\ (OnGeneralRoute(run) \/ run.tool_audited)
    /\ IF OnGeneralRoute(run) THEN out.ran = {} /\ out.citations = <<>>
       ELSE /\ out.ran # {}
            /\ Range(out.citations) \subseteq {match.citation : match \in Given(out.turns)}
            /\ out.citations # <<>> <=> run.route.tool = "search_hr_knowledge"

\* Whatever the model, the ERP and the knowledge provider return, what runs, what leaves,
\* what is shown and what is answered is what the user is entitled to (the four parts are
\* explained above).
AnswersAreGrounded ==
  case.of = "converse" =>
    /\ OnlyTheRouteRuns(case.in.system, case.in.run, case.out)
    /\ OnlyTheCoveredLeaves(case.in.system, case.in.run, case.out)
    /\ OnlyTheScopeIsGiven(case.in.run, case.out)
    /\ AnswersRestOnEvidence(case.in.run, case.out)

\* The limits leave room for the run.
LimitsLeaveRoom(system, run) ==
  /\ IsFiniteSet(system.handlers) /\ Cardinality(system.handlers) <= system.limits.tools
  /\ OnGeneralRoute(run) \/ (system.limits.calls >= 1 /\ system.limits.turns >= 2)
  /\ run.message <= system.limits.message /\ run.message <= system.privacy.request
  /\ \A r \in system.privacy.routes : run.message <= r.input
  /\ Len(run.answer.content) <= system.limits.result

Delivered(wire, system) ==
  /\ wire.code = 200 /\ wire.type = "json" /\ wire.size \in 0..system.privacy.response
  /\ wire.model = "configured" /\ wire.status = "completed"

\* The model makes the one call it is asked for.
MakesTheCall(system, run, wire) ==
  LET call == wire.calls[1] IN
  /\ Delivered(wire, system)
  /\ wire.finals = <<>>
  /\ wire.calls = <<[kind |-> "call", id |-> call.id, tool |-> run.route.tool,
                     version |-> run.route.version, arguments |-> call.arguments]>>
  /\ call.arguments \in {"fine", "long"}
  /\ Agent!Models!Size(call.arguments) <= system.limits.argument

\* The model concludes with a final answer of this basis on this evidence.
Concludes(system, wire, basis, evidence) ==
  LET final == wire.finals[1] IN
  /\ Delivered(wire, system)
  /\ wire.calls = <<>> /\ wire.finals = <<final>>
  /\ final.kind = "final" /\ Agent!Models!ValidFinal(final)
  /\ final.size \in 0..system.limits.answer /\ final.size <= system.privacy.response
  /\ final.basis = basis /\ final.evidence = evidence

\* The limits, the sinks, the model, and the ERP or the knowledge provider do their part.
\* Nothing here says what the user may do or what OpenAI may get.
EverybodyDoesTheirPart(system, run) ==
  LET searches == run.route.tool = Agent!KnowledgeTool
      citations == run.second.finals[1].citations
  IN /\ LimitsLeaveRoom(system, run)
     /\ run.audited
     /\ IF OnGeneralRoute(run)
        THEN Concludes(system, run.first, "general", <<>>) /\ run.first.finals[1].citations = <<>>
        ELSE /\ run.tool_audited
             /\ MakesTheCall(system, run, run.first)
             /\ run.answer.status = "answered"
             /\ searches => Agent!ValidMatches(run.answer.content, run.context)
             /\ Concludes(system, run.second, IF searches THEN "knowledge" ELSE "erp_data",
                          <<run.first.calls[1].id>>)
             /\ citations # <<>> <=> searches
             /\ searches => Range(citations) \subseteq {m.citation : m \in Range(run.answer.content)}

ASSUME CooperationAssumption ==
  \A c \in Cooperative : EverybodyDoesTheirPart(c.system, c.run)

\* A user who may use the tool of the route gets an answer if everybody does their part,
\* and for OpenAI an attestation covers the classification of the tool: the checks that
\* keep others out do not refuse a legitimate run.
LegitimateRunsSucceed ==
  /\ case.of = "converse" /\ case.in \in Cooperative
  /\ OnGeneralRoute(case.in.run) \/ MayUse(case.in.system, case.in.run)
  /\ case.in.run.provider = "openai" =>
       Covered(case.in.system, case.in.run, Agent!Ceiling(case.in.system, case.in.run))
  => case.out.code = "none"

\* The last turn carries "the exact assistant call plus matching public tool result"
\* (docs/contracts/openai-production-provider.md): what the model is shown of a result is
\* the result.
ModelSeesTheResult ==
  case.of = "converse" =>
    \A turn \in case.out.turns : \A i \in 1..Len(turn.interactions) :
      Agent!Models!Shown(case.in.run.provider, turn)[i] = turn.interactions[i].result
=============================================================================
