----------------------------- MODULE MCDecisions -----------------------------
(* Instances of Decisions for TLC. *)
EXTENDS Decisions

SeqsUpTo(S, n) == UNION {[1..k -> S] : k \in 0..n}
SeqsFrom(S, lo, hi) == UNION {[1..k -> S] : k \in lo..hi}

\* Letters of a word, of a block with words of these lengths, of a section.
WordOf(s, b, w, length) == [k \in 1..length |-> 1000 * s + 100 * b + 10 * w + k]
BlockOf(s, b, lengths) ==
  Tail(FlattenSeq([w \in 1..Len(lengths) |-> <<0>> \o WordOf(s, b, w, lengths[w])]))
SectionOf(s, shape) == [key |-> s, blocks |-> [b \in 1..Len(shape) |-> BlockOf(s, b, shape[b])]]

Shapes == SeqsFrom({<<1>>, <<3>>, <<1, 1>>, <<3, 1>>, <<1, 3, 1>>}, 1, 3)
SomeDocuments ==
  {<<SectionOf(1, shape)>> : shape \in Shapes}
    \cup {<<SectionOf(1, shape), SectionOf(2, <<<<3, 1>>>>)>> : shape \in Shapes}
LimitsOf(characters, bytes, overlap) ==
  [characters |-> characters, bytes |-> bytes, overlap |-> overlap, sections |-> 2, blocks |-> 3,
   chunks |-> 3, block_bytes |-> 5, document_bytes |-> 8]
SomeLimits == {LimitsOf(c, b, o) : c \in {2, 4, 7, 9}, b \in {8, 20}, o \in {0, 1, 3, 9}}
WideLetters == {1111, 1113, 1211}

\* Sources
Plainly(inode, size) == [link |-> FALSE, regular |-> TRUE, inode |-> inode, size |-> size]
Bytes(digest, tokens, decodes) == [digest |-> digest, size |-> 1, decodes |-> decodes, tokens |-> tokens]
TheEntry == [digest |-> "approved", maximum |-> 1]
Parts == {[kind |-> "heading", level |-> 1], [kind |-> "heading", level |-> 2],
          [kind |-> "heading", level |-> 3], [kind |-> "text"], [kind |-> "rule"]}
Numbered(parts) ==
  [i \in 1..Len(parts) |->
     CASE parts[i].kind = "heading" -> Preparation!Heading(parts[i].level, i)
       [] parts[i].kind = "text" -> Preparation!Text(i)
       [] parts[i].kind = "rule" -> Preparation!Rule]
TokensOf == {Numbered(parts) : parts \in SeqsFrom(Parts, 1, 5)}
Source(directories, inspected, opened, content) ==
  [directories |-> directories, inspected |-> inspected, opened |-> opened, content |-> content]
Untouched(tokens) ==
  Source({Plainly("dir", 1)}, Plainly("a", 1), Plainly("a", 1),
         Bytes("approved", tokens, TRUE))
Sample == <<Preparation!Heading(1, 1), Preparation!Text(2)>>
Objects == {Plainly("a", 1), Plainly("b", 1), Plainly("unknown", 1), Plainly("a", 2),
            [Plainly("a", 1) EXCEPT !.link = TRUE], [Plainly("a", 1) EXCEPT !.regular = FALSE]}
SomeSources ==
  {Untouched(tokens) : tokens \in TokensOf \cup {Append(Sample, Preparation!Unsupported)}}
    \cup {Source({d}, i, o, c) :
            d \in {Plainly("dir", 1), [Plainly("dir", 1) EXCEPT !.link = TRUE]},
            i \in Objects, o \in Objects,
            c \in {Bytes("approved", Sample, TRUE), Bytes("other", Sample, TRUE),
                   Bytes("approved", Sample, FALSE)}}

\* Revisions
Governance == [namespace |-> "hr", type |-> "policy", customer |-> "c1",
               classification |-> "internal", modules |-> {"hr_core"}]
Draft(id, version, governance, letter) ==
  [id |-> id, version |-> version, governance |-> governance,
   sections |-> <<[key |-> 1, blocks |-> <<<<letter, 0, 8, 9>>>>]>>]
Drafts ==
  {Draft("d1", v, Governance, l) : v \in {<<1, 0, 0>>, <<1, 9, 0>>, <<1, 10, 0>>, <<2, 0, 0>>}, l \in {5, 6}}
    \cup {Draft("d2", <<3, 0, 0>>, Governance, 5),
          Draft("d1", <<1, 9, 0>>, [Governance EXCEPT !.modules = {"leave", "hr_core"}], 5),
          Draft("d1", <<3, 0, 0>>, [Governance EXCEPT !.modules = {"leave"}], 5),
          Draft("d1", <<3, 0, 0>>, [Governance EXCEPT !.type = "product"], 5)}
SomeRevisions == SeqsFrom(Drafts, 1, 3)
TheRevisionLimits == LimitsOf(2, 8, 1)

\* Rankings
Data(modules) == [namespace |-> "hr", modules |-> modules, permissions |-> {}, purposes |-> {"p"},
                  legal_entities |-> {}, customer |-> "none", from |-> 1, to |-> 0,
                  classification |-> "internal"]
Candidate(id, modules) == [id |-> id, data |-> Data(modules), score |-> "number"]
\* The fourth chunk is outside of the scope of the request; the copy of the first differs.
Pool == {Candidate(1, {}), Candidate(2, {}), Candidate(3, {}), Candidate(4, {"payroll"})}
Ordered(n) == {r \in SeqsUpTo(Pool, n) : Fusion!UniqueIds(r)}
SomeRankings == Ordered(3) \cup {<<Candidate(1, {"hr_core"})>>, <<Candidate(1, {}), Candidate(1, {})>>,
                                 <<[Candidate(2, {}) EXCEPT !.score = "malformed"]>>}
Policy(lw, sw, constant, final) ==
  [lexical_weight |-> lw, semantic_weight |-> sw, rank_constant |-> constant,
   lexical_limit |-> 3, semantic_limit |-> 2, final_limit |-> final]
SomePolicies == {Policy(1, 1, 60, 5), Policy(3, 1, 1, 2)}
SomeRequests == {[limit |-> l, namespace |-> "hr", modules |-> {"hr_core"}, permissions |-> {},
                  purpose |-> "p", legal_entities |-> {}, customer |-> "c1", at |-> 1] : l \in {1, 3}}

\* Calibrations: scores are even.
Result(id, score, violation) == [id |-> id, score |-> score, violation |-> violation]
Few == {<<>>} \cup {<<Result(a, s, FALSE)>> : a \in {1, 2}, s \in {4, 8}} \cup {<<Result(2, 8, TRUE)>>}
ResultSeqs == Few
                \cup {<<Result(1, s, FALSE), Result(2, t, v)>> : s \in {4, 8}, t \in {2, 4}, v \in BOOLEAN}
                \cup {<<Result(2, s, FALSE), Result(1, t, FALSE)>> : s \in {4, 6}, t \in {2, 4}}
Observation(empty, results) ==
  [empty |-> empty, grades |-> IF empty THEN <<>> ELSE (1 :> 2 @@ 3 :> 1), limit |-> 2, results |-> results]
Gates(g) == [m \in Evaluation!Measures |-> g]
Calibration(a, b, empty, gate, silence) ==
  [observations |-> <<Observation(FALSE, a), Observation(empty, b)>>, gates |-> Gates(gate),
   silence |-> silence]
SomeCalibrations ==
  {Calibration(a, b, e, g, 6000) : a \in ResultSeqs, b \in Few, e \in BOOLEAN, g \in {1, 1500}}
  \cup {Calibration(a, b, TRUE, g[1], g[2]) : a \in ResultSeqs, b \in Few, g \in {<<0, 6000>>, <<1, 0>>}}

\* Suites
Case(empty) == [empty |-> empty, grades |-> IF empty THEN <<>> ELSE (1 :> 1), limit |-> 2]
Match(id, f, c, a) == [id |-> id, forbidden |-> f, foreign |-> c, authorized |-> a]
Fine(id) == Match(id, FALSE, FALSE, TRUE)
Answers == {Evaluation!Broken, <<>>, <<Fine(1)>>, <<Fine(2)>>, <<Fine(2), Fine(1)>>, <<Fine(1), Fine(1)>>,
            <<Fine(1), Fine(2), Fine(3)>>, <<Match(1, TRUE, FALSE, TRUE)>>,
            <<Match(1, FALSE, TRUE, FALSE)>>, <<Fine(1), Match(2, FALSE, FALSE, FALSE)>>}
SomeSuites ==
  {[cases |-> [i \in 1..n |-> Case(e[i])], answers |-> [i \in 1..n |-> a[i]],
    gates |-> Gates(g), silence |-> s] :
     n \in {2, 3}, e \in [1..3 -> BOOLEAN], a \in [1..3 -> Answers], g \in {0, 1500, 3000}, s \in {0, 6000}}

\* Assertions: two keys whose windows overlap, and a stranger's.
Key(kid, public, activates, retires) ==
  [kid |-> kid, public |-> public, activates |-> activates, retires |-> retires]
TheConfig == [keys |-> {Key("k1", "p1", 1, 5), Key("k2", "p2", 4, 8)}, lifetime |-> 2, skew |-> 1,
              parties |-> "erp_to_ai"]
Token(kid, signer, iat, exp, body, form) ==
  [form |-> form, kid |-> kid, signer |-> signer,
   claims |-> [iat |-> iat, exp |-> exp, parties |-> "erp_to_ai", route |-> "chat", body |-> body,
               wellformed |-> TRUE, reference |-> "ref"]]
SomeTokens ==
  {Token(k, p, i, e, b, f) : k \in {"k1", "k2", "k3"}, p \in {"p1", "p2"}, i \in 0..7, e \in 1..9,
                             b \in {"b1", "b2"}, f \in {"profiled"}}
    \cup {Token("k1", "p1", 2, 3, "b1", "malformed")}
Fields(r) == [request |-> r, customer |-> "c1", user |-> "u1", snapshot |-> "s1", decision |-> "valid"]
Reply(code, fields) == [code |-> code, type |-> "json", fields |-> fields]
NoReply == [code |-> 0, type |-> "none", fields |-> Fields("r1")]
Usual == Reply(200, Fields("r1"))
SomeArrivals ==
  {[request |-> [id |-> "r1", route |-> "chat", body |-> "b1"], time |-> t, now |-> t + d,
    resolution |-> Usual, snapshot |-> Usual] : t \in 0..9, d \in -1..1}
   \cup {[request |-> [id |-> "r1", route |-> "chat", body |-> "b1"], time |-> 2, now |-> 2,
          resolution |-> r, snapshot |-> s] :
            r \in {NoReply, Reply(404, Fields("r1")), Reply(500, Fields("r1")), Reply(200, Fields("r2"))},
            s \in {NoReply, Usual, Reply(200, Fields("r2"))}}

\* Conversations: the tools of the program, and in another registry one with a role, one
\* that no model provider is approved for, and one that is not installed.
ToolOf(name, permissions, employee) ==
  [name |-> name, version |-> "1", operation |-> "read", permissions |-> permissions, roles |-> {},
   purposes |-> {"self_service"}, employee |-> employee, classification |-> 2]
Profile == ToolOf("get_my_employee_profile", {"profile.read"}, TRUE)
Search == ToolOf("search_hr_knowledge", {"knowledge.read"}, FALSE)
Reviews == [Profile EXCEPT !.name = "list_reviews", !.roles = {"manager", "hr"}]
Salary == [Profile EXCEPT !.name = "get_my_salary", !.classification = 3]
Rename == [Profile EXCEPT !.name = "rename", !.operation = "command"]
Manifest(code, tools) == [code |-> code, modules |-> {"hr_core"}, tools |-> tools]
Installed(tools) == {[name |-> t.name, version |-> t.version] : t \in tools}
Ample == [message |-> 3, tools |-> 2, calls |-> 1, turns |-> 2, argument |-> 2, result |-> 2, answer |-> 2]
Attested(id, classifications, approved) ==
  [id |-> id, classifications |-> classifications, purposes |-> {"self_service"},
   approved |-> approved, expires |-> 9]
Routing(customer, attestation) ==
  [customer |-> customer, classifications |-> {1, 2}, purposes |-> {"self_service", "payroll"},
   attestation |-> attestation, lifetime |-> 6, input |-> 2]
Privacy == [routes |-> {Routing("c1", "a1"), Routing("c2", "a2"), Routing("c3", "a3")},
            attestations |-> {Attested("a1", {1, 2}, 4), Attested("a2", {1}, 4), Attested("a3", {2}, 1)},
            request |-> 2, response |-> 2]
Real == [registry |-> {Manifest("hr_core", {Profile}), Manifest("hr_knowledge", {Search})},
         handlers |-> Installed({Profile, Search}), limits |-> Ample, privacy |-> Privacy]
Other == [registry |-> {Manifest("hr", {Reviews, Salary, Rename, Search})},
          handlers |-> Installed({Reviews, Salary}), limits |-> Ample, privacy |-> Privacy]
Tight == {[Real EXCEPT !.limits[l] = @ - 1] : l \in DOMAIN Ample}

User == [modules |-> {"hr_core"}, permissions |-> {"profile.read", "knowledge.read"}, roles |-> {"hr"},
         purpose |-> "self_service", employee |-> "e1", customer |-> "c1", legal_entities |-> {"l1"}, at |-> 5]
Users == {User, [User EXCEPT !.modules = {}], [User EXCEPT !.permissions = {}],
          [User EXCEPT !.permissions = {"knowledge.read"}], [User EXCEPT !.roles = {"employee"}],
          [User EXCEPT !.purpose = "payroll"], [User EXCEPT !.employee = "none"],
          [User EXCEPT !.customer = "c2"], [User EXCEPT !.customer = "c3"], [User EXCEPT !.customer = "c4"]}

CallOf(tool, version, arguments) ==
  [kind |-> "call", id |-> "call1", tool |-> tool, version |-> version, arguments |-> arguments]
FinalOf(basis, evidence, citations) ==
  [kind |-> "final", form |-> "object", basis |-> basis, evidence |-> evidence, citations |-> citations,
   size |-> 1]
Wire(calls, finals) ==
  [code |-> 200, type |-> "json", size |-> 1, model |-> "configured", status |-> "completed",
   calls |-> calls, finals |-> finals]
Fails(wire) == {[wire EXCEPT !.code = 500], [wire EXCEPT !.type = "html"], [wire EXCEPT !.size = 3],
                [wire EXCEPT !.model = "another"], [wire EXCEPT !.status = "incomplete"]}
Talk == FinalOf("general", <<>>, <<>>)

MatchOf(chunk, score) ==
  [chunk |-> chunk, citation |-> 10 + chunk, size |-> 1, score |-> score, namespace |-> "hr",
   modules |-> {}, permissions |-> {}, purposes |-> {"self_service"}, product |-> FALSE, customer |-> "c1",
   legal_entities |-> {"l1"}, from |-> 1, to |-> 9, classification |-> 2]
One == MatchOf(1, 5)
\* What another tool returns; nothing looks into it.
Datum == MatchOf(0, 0)
Matches ==
  {<<>>, <<One>>, <<One, MatchOf(2, 5)>>, <<MatchOf(2, 5), One>>, <<One, MatchOf(1, 4)>>,
   <<One, [MatchOf(2, 4) EXCEPT !.citation = 11]>>, [i \in 1..6 |-> MatchOf(i, 5)],
   <<[One EXCEPT !.product = TRUE, !.customer = "none"], MatchOf(2, 4)>>}
   \cup {<<m>> : m \in {[One EXCEPT !.size = 13], [One EXCEPT !.namespace = "payroll"],
          [One EXCEPT !.modules = {"leave"}], [One EXCEPT !.permissions = {"leave.read"}],
          [One EXCEPT !.purposes = {"payroll"}], [One EXCEPT !.product = TRUE], [One EXCEPT !.customer = "c2"],
          [One EXCEPT !.legal_entities = {"l1", "l2"}], [One EXCEPT !.from = 6], [One EXCEPT !.to = 4],
          [One EXCEPT !.to = 0], [One EXCEPT !.classification = 3]}}
Answered(content) == [status |-> "answered", content |-> content]
Unanswered == {[status |-> s, content |-> <<>>] : s \in {"failed", "junk"}}

Usually(route, tool, provider) ==
  [context |-> User, provider |-> provider, message |-> 1, now |-> 5, tool_audited |-> TRUE, audited |-> TRUE,
   route |-> IF route = "general_only" THEN [mode |-> route, tool |-> "none", version |-> "none"]
             ELSE [mode |-> route, tool |-> tool.name, version |-> "1"],
   first |-> IF route = "general_only" THEN Wire(<<>>, <<Talk>>)
             ELSE Wire(<<CallOf(tool.name, "1", "fine")>>, <<>>),
   answer |-> Answered(IF tool = Search THEN <<One>> ELSE <<Datum>>),
   second |-> Wire(<<>>, <<IF tool = Search THEN FinalOf("knowledge", <<"call1">>, <<11>>)
                           ELSE FinalOf("erp_data", <<"call1">>, <<>>)>>)]
Providers == {"openai", "openrouter", "other"}
Routes(tools) ==
  {Usually("general_only", Search, p) : p \in Providers}
    \cup {Usually("exact_read_then_final", t, p) : t \in tools, p \in Providers}
Asking(run) ==
  LET name == run.route.tool
      fine == CallOf(name, "1", "fine")
      talk == Wire(<<>>, <<Talk>>)
  IN {[run EXCEPT !.first = w] :
        w \in {Wire(<<CallOf(t, v, a)>>, <<>>) : t \in {name, "rename"}, v \in {"1", "2"},
                 a \in {"fine", "long", "huge", "blank", "reserved", "malformed"}}
           \cup {talk, Wire(<<fine, fine>>, <<>>), Wire(<<fine>>, <<Talk>>), Wire(<<>>, <<>>),
                 Wire(<<>>, <<Talk, Talk>>), Wire(<<>>, <<[Talk EXCEPT !.form = "text"]>>),
                 Wire(<<>>, <<[Talk EXCEPT !.size = 2]>>), Wire(<<>>, <<[Talk EXCEPT !.size = 3]>>)}
           \cup Fails(Wire(<<fine>>, <<>>)) \cup Fails(talk)}
Closing(run) ==
  {[run EXCEPT !.answer = a, !.second = w] :
     a \in {Answered(m) : m \in Matches} \cup {Answered(<<Datum>>)} \cup Unanswered,
     w \in {Wire(<<>>, <<FinalOf(b, e, c)>>) : b \in {"general", "knowledge", "erp_data", "mixed"},
              e \in {<<>>, <<"call1">>, <<"call2">>}, c \in {<<>>, <<11>>, <<12>>, <<11, 12>>}}
           \cup {Wire(<<CallOf(run.route.tool, "1", "fine")>>, <<>>)} \cup Fails(run.second)}
Searching(run) == {r \in Closing(run) : r.answer.content # <<Datum>>}

\* A run of a user, with matches of the user's customer and for the user's purpose.
For(run, user, now) ==
  [run EXCEPT !.context = user, !.now = now, !.answer.content[1].customer = user.customer,
              !.answer.content[1].purposes = {user.purpose}]
SomeCooperative ==
  {[system |-> Real, run |-> For(run, user, now)] :
     run \in Routes({Profile, Search}), user \in Users, now \in {3, 5, 9}}
   \cup {[system |-> Other, run |-> For(run, user, 5)] : run \in Routes({Reviews}), user \in Users}
SomeConversations ==
  SomeCooperative
    \cup {[system |-> system, run |-> [run EXCEPT !.message = m, !.tool_audited = t, !.audited = a]] :
            system \in {Real} \cup Tight, run \in Routes({Profile, Search}), m \in 1..4,
            t \in BOOLEAN, a \in BOOLEAN}
    \cup {[system |-> Other, run |-> run] : run \in Routes({Salary})}
    \cup {[system |-> system, run |-> run] : system \in {Real} \cup Tight,
            run \in UNION {Asking(r) : r \in Routes({Profile, Search})}}
    \cup {[system |-> [Real EXCEPT !.limits.result = 1], run |-> run] :
            run \in Searching(Usually("exact_read_then_final", Search, "openrouter"))}
    \cup {[system |-> Real, run |-> run] :
            run \in UNION ({Searching(Usually("exact_read_then_final", Search, p)) : p \in Providers}
                      \cup {{r \in Closing(Usually("exact_read_then_final", Profile, p)) :
                               r.answer.content = <<Datum>> \/ r.answer.status # "answered"} : p \in Providers})}
=============================================================================
