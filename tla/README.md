# Verification of the ERP AI platform

TLA+ models of `src/src/erp_ai`, the Python service that answers ERP questions of
authenticated users with a language model, read tools and a knowledge index.
This directory holds the models, the TLC configurations that check them on small
instances, and TLAPS proofs for arbitrary ones.  `PROJECT.json` maps every
definition that stands for code to the lines it stands for, and lists runs,
mutants, hazards, findings and theorems.

Paths below are relative to `src/src/erp_ai/` unless they start with `src/`.

## 1. Inventory

| Part | State it keeps | Operations | What makes it correct |
|---|---|---|---|
| Knowledge index publication (`knowledge/indexing`, `infrastructure/postgres/knowledge_repository.py`, `sql/0001`) | generations with a status column, one active-generation pointer per namespace, completed operations, an audit outbox | `publish`, `rollback`, `get_operation_result`, `get_active_snapshot` | no lost update of the pointer; an operation id completes once; statuses, pointer, operation and outbox agree; a conflict leaves nothing behind |
| HTTP transport (`transport/http`) | readiness flag, ids in flight | `/v1/chat`, lifespan, health | an id serves one open request; nothing is answered before its audit; readiness only while everything is open |
| Trusted application (`application`) | none of its own; per-request locals | resolve, verify the authorization snapshot, route, run the orchestrator, audit | fails closed; one terminal audit per request |
| Orchestrator and tool gateway (`orchestration`, `tools`) | per-request transcript | model turns, one routed tool call, audits | the model sees only audited tool results; a success has its whole audit chain |
| Audit storage (`infrastructure/postgres_audit`) | append-only event tables with one logical slot per key, in a control and in per-customer databases | `record` of three sinks; the router's pools | a slot never holds two different events; events of one request agree across databases |
| Runtime composition and lifecycle (`runtime`, `deployment/factory.py`, `infrastructure/laravel_erp/bundle.py`) | lease, lifecycle state, open resources | claim, commit, release; startup, rollback, shutdown | one runtime per bundle; what is opened is closed, once, in reverse order |
| Knowledge database router (`infrastructure/postgres/production_rag.py`) | one pool per customer, a pinned generation | open, verify, close; per-transaction checks | a bound reader answers from its generation or not at all |
| Embedding materialisation (`knowledge/embeddings`, `embedding_repository.py`, `sql/0003`) | profiles, embedding sets, operations, outbox | `materialize`, `load`, `persist` | one set per generation and profile; a ready set is complete; one result per operation id |
| Knowledge retrieval (`semantic_retrieval.py`, `hybrid_retrieval.py`, `knowledge_retrieval.py`) | none | `query`, `retrieve` | answers come from one generation and a complete embedding set |
| ERP read database (`infrastructure/postgres_erp`) | signed cursors, held by the client | list, detail, balances | pages of a listing neither repeat nor lose a row; a cursor serves only the query it was issued for |
| Capabilities (`capabilities`) | a registry, built once | access decision, read handlers | a refused capability is never executed; only matches in the user's scope leave a handler |
| Knowledge sources and ingestion (`knowledge/sources`, `knowledge/ingestion`) | catalogue of prepared versions, in memory | load an approved file, derive sections, prepare a version, chunk | a draft holds the approved bytes; versions only grow; chunks lose nothing but repeat the overlap |
| Knowledge evaluation (`knowledge/evaluation`, `hybrid_retrieval.py:134`) | none | fuse rankings, choose a threshold, report | fusion respects both rankings; the chosen threshold is the best one; a failed report names a case |
| Migrations and provisioning (`infrastructure/postgres*/migrations.py`, `deployment/admin.py`) | applied versions and checksums, database identity, privileges | migrate, bind, grant; verify at opening and at each answer | migrations are whole, wherever a job fails; a database has one owner; answers are given under the schema of their release |
| ERP trust client (`infrastructure/erp_trust`) | one HTTP client | verify an assertion, resolve, verify a snapshot | an assertion is accepted in its lifetime, for its body, with a key in use |
| OpenAI and OpenRouter providers (`infrastructure/openai`, `openrouter`) | one HTTP client each | complete one turn | one attempt; nothing leaves without a privacy route; a malformed response is never an answer |
| Laravel client (`infrastructure/laravel_erp`) | one HTTP client | open, close, requests | closed with the runtime |
| TEI provider, context and API models, deployment configuration | a client, none, files | parsing, validation | values and files, no protocol |

### How the parts interact

- A chat request is one coroutine.  The transport reserves its id, the
  application resolves an opaque reference to a trusted context and verifies the
  authorization snapshot with the ERP, the orchestrator calls the model and, on an
  exact route, one tool through the gateway.  Gateway, orchestrator and application
  each write one audit event, each in its own transaction; tool and agent events
  go to the customer's audit database, application events to the control database.
- The lifespan of the HTTP application starts the runtime before it reports
  ready and shuts it down after it has stopped reporting so.  The runtime opens
  audit pools, ERP trust client, Laravel client, knowledge pools and OpenAI client
  in this order and closes them in the reverse one.
- Publishers write the knowledge database; the embedding job reads an active
  generation and adds an embedding set to it; retrieval reads both in a
  REPEATABLE READ transaction and is pinned, in production, to one generation.
- An administrative job migrates, binds and grants a database; a server verifies it
  when it opens and looks again at identity and migrations in the transaction of each answer.
- Nothing but PostgreSQL is shared between processes.  Within a process, tasks
  share the lifecycle's asyncio lock, the lease's thread lock, the set of ids in
  flight and the readiness flag.

### Which behaviours are hard

Transactions of several publishers on one pointer row; retried and reused operation
ids; lost acknowledgements of COMMIT; cancellation at every await, in the
middle of an audit insert or of a rollback; several audit databases without a
common transaction; revocation of an authorization during a request; startup that
fails half-way and cleanup that fails too; shutdown under open requests; pages of
a listing that changes under the reader; jobs of several
releases on one database; a decision that depends on what a model, an ERP and a file
system return.  `PROJECT.json` lists them under
`hazards`, each at the line where it bites.

## 2. Modules

| Module | Models | Checked by |
|---|---|---|
| `GenerationRegister` | abstract: a register per namespace, each operation id decides one change at most once, and answers are decisions | `index`, theorem `Implements` |
| `KnowledgeIndex` | `KnowledgeIndexPublisher` over `PostgresKnowledgeIndexRepository` and the tables of `sql/0001_knowledge_schema.sql` | `index`, `index_replay` |
| `ChatRequest` | transport, application, orchestrator, gateway, audit sinks and slot triggers | `chat`, `chat_reuse` |
| `RuntimeLifecycle` | lease and composition, lifecycle, lifespan, every external resource | `runtime_lifecycle`, `runtime_pools` |
| `EmbeddingRegister` | abstract: one ready set per generation and profile, each operation id makes one at most, answers are what was made | `embedding_store` |
| `EmbeddingStore` | `PostgresEmbeddingRepository` and the tables of `sql/0003_knowledge_embeddings.sql` | `embedding_store` |
| `KnowledgeRetrieval` | the lexical, semantic, bound and hybrid readers, composed with `GenerationRegister` and `EmbeddingRegister` as writers | `knowledge_retrieval` |
| `LeaveListing` | `PostgresLeaveReadProvider`, `SignedLeaveRequestCursor` and the leave handlers | `leave_listing` |
| `DatabaseSetup` | the administrative jobs, both migration runs, provisioning, and the verification of servers | `database_setup` |
| `KnowledgePreparation` | loading an approved file, sections from tokens, governance and versions, chunking | `decisions` |
| `RankFusion` | weighted reciprocal-rank fusion and the scope of its candidates | `decisions` |
| `RetrievalEvaluation` | quality measures, choice of a threshold, judgement and verdict of a report | `decisions` |
| `RequestAssertion` | verification of an ERP assertion, resolution of the context, the authorization snapshot | `decisions` |
| `ModelProviders` | the OpenAI and OpenRouter model adapters: what they send and what they make of a response | `decisions`, `model_result` |
| `AgentRun` | one run of `AgentOrchestrator.execute` with registry, access decision, gateway, knowledge handler and grounding | `decisions`, `model_result` |
| `Decisions` | calls of the procedures of the six modules above, and what their results must be | `decisions`, `model_result` |
| `KnowledgeIndexProofs`, `EmbeddingStoreProofs`, `KnowledgeRetrievalProofs`, `ChatRequestProofs`, `RuntimeLifecycleProofs`, `DatabaseSetupProofs`, `LeaveListingProofs`, `DecisionsProofs` | theorems about the module each is named after, with inductive invariants and proofs | TLAPS |
| `MC...` | symmetry for TLC, and the arguments of `Decisions` and the manifests of `DatabaseSetup`; the values of the other constants are in the `.cfg` files | |

Definitions that precede another one with a longer name (`...Without...`,
`...Leaving...`, `...Retrying`, `...Committing`, `...Keeping` and the like) are faulty variants of it.  No
specification uses them: they are what a plausible bug would turn the definition
into, and each checked property is violated by at least one of them.

### KnowledgeIndex

A caller's call goes through the steps of `publish` / `rollback`:

| `pc` | code |
|---|---|
| `idle` → `lookup` | `build_plan` validates the content against the clock (`publisher.py:188-301`); `RejectPlan` if it refuses |
| `lookup` → `begin` | `get_operation_result`, a transaction of its own (`knowledge_repository.py:110-123`) |
| `begin` → `lock` | the SERIALIZABLE transaction and its first query, the same lookup (`129-141`) |
| `lock` → `write` | `SELECT ... FOR UPDATE` of the pointer, the compare with the expected id, the target of a rollback (`142-151`, `402-423`) |
| `write` → `record` | generation rows and the upsert of the pointer (`152-310`) |
| `record` → `commit` | operation row and outbox row (`312-350`) |
| `commit` → `committed` → `idle` | COMMIT, and its acknowledgement |

The variables `pointer`, `status`, `manifest`, `operations` and `outbox` are the
committed tables; a transaction's own writes stay invisible until `Commit`, which is
why they appear only there.  What other transactions can notice before that is
kept: the row lock (`HoldsPointer`), the unique-key wait (`HoldsOperation`), the
snapshot (`base`, the number of pointer changes it contains).  With no row there is
no row lock: two first publications meet at the unique key of the pointer.
`Fail` stands for a timeout, a lost connection or acknowledgement, a cancellation and a
crash: before COMMIT it undoes everything, after it nothing.  `Expire` is the clock
passing `effective_to`.

Generation ids and outbox ids come from `id_factory()`, fresh for each call; the number of
the call stands for both.  Chunks, documents, digests and timestamps of a
generation are one abstract content.  The constraint that a rollback target is
retired and belongs to the namespace is part of `Admissible`.

### ChatRequest

`pc` is the await a request is suspended in; everything the code does between two
awaits is one action, because nothing else of the process runs there.  `Record` is
one call of a sink: it may store the event and return, store it and lose the
acknowledgement, or fail.  `Accepts` is the trigger of the logical slot: an exact duplicate is
suppressed and reported as success, anything else for the slot raises.
`Cancel` may happen at any await, and in an audit await the insert may still have
committed.  `ChangePhase` is the lifespan, `Revoke` the ERP withdrawing the
authorization snapshot.  `ReadBody` is set apart from the other steps (`Proceed`): `_read_body` awaits the
client's `receive()` without a timeout, so nothing makes that await end.  The code verifies the authorization
snapshot once; a revocation after the verification is not noticed before the answer, and `SuccessHasItsChain`
speaks only of one before it.

Merged outcomes: the reasons of a refused resolution, of a refused route and
of the model's failures are one each, because no property tells them apart.  Limits,
grounding and argument validation are nondeterministic outcomes here; `AgentRun` decides them.  The tool slot
is keyed by the id alone (the code adds tool name, version and action to it; a
request makes one tool call).

### RuntimeLifecycle

`composer` is a composition attempt over one bundle and its lease (`runtime/composition.py`,
`lifecycle.py:36-84`); `task` is a lifespan or another task that calls
`startup` or `shutdown`.  The asyncio lock is held from `Startup` to the end of the
opening or rollback, and during a shutdown.  `leaf` is each external resource:
fresh, open, closed, or stuck (its close raised or was cancelled).  `todo` is the set of those that the
holder of the lock has still to open or close; which of them is next follows from the nesting of
`deployment/factory.py` and of the routers (`Rank`, `OpensFirst`, `ClosesFirst`).  `OpenFails`
covers a failure before and after the resource itself is open, and a cancellation
where the open suspends.  `Skipping` is what a failed close does: it ends the loop of
the router it belongs to, and the lifecycles around it go on.

A close of a client that has already been detached (`_client = None` before `aclose`)
does nothing; the model has no step for it.

### EmbeddingStore

`pc` is the statement a call of `persist` (`infrastructure/postgres/embedding_repository.py`) has
reached: `begin` the lookup of the operation (127-149), `profile` the
`INSERT ... ON CONFLICT DO NOTHING` (274-322), `set` the insertion of the set (150-165), `record`
vectors, their verification, `ready`, operation and outbox (166-263), `commit` and
`committed` the COMMIT and its acknowledgement.  There is no row lock at all: calls meet at
three unique keys, which `ProfileFree`, `SetFree` and `OperationFree` hold from an insertion
to the end of the transaction.  A profile committed after the snapshot makes the
insertion fail in a SERIALIZABLE transaction, a set or an operation makes it conflict.

`load_generation_source` and `materialize` read immutable rows and call the provider, so they are
the set `Prepared`: any published generation with any vectors the provider may return, other ones at
each attempt.  One member of `Vectors` stands for all vectors of a generation and
the digest over them.

### KnowledgeRetrieval

The writers are the two abstract registers, which `KnowledgeIndex` and `EmbeddingStore` implement
(runs `index`, `embedding_store`): the readers see only what is committed, and that is
what the registers describe.  A request goes through embedding the query, the first statement
(which takes the snapshot), the verification of the bound reader, the active
generation, the ready set (hybrid), and the lexical and semantic queries; writers
commit between any two of them.  `Seen` is what a statement reads, the snapshot.
`during` and `prepared` remember what was active and embedded while the request was open.

The request matches some chunk of every generation, so an empty answer means that the reader
had nothing to search; authorization filters, scores, thresholds and the decoding of rows are
left out.  `Digest` says which generations have equal contents: the hybrid
reader's policy names a digest, not a generation.  The hybrid reader is used by
evaluations only; the server composes the bound one.

### LeaveListing

| `pc` | code |
|---|---|
| `idle` → `begin` | arguments and cursor are checked without the database (`postgres_erp/providers.py:201-229`, `284-294`); `List` answers nothing, refuses the cursor, or starts |
| `begin` → `list`, `get` | the REPEATABLE READ transaction; its first statement takes the snapshot `view` (`71-100`) |
| `list` → `idle` | the listing query with `LIMIT limit + 1`, the checks of the handler and the next cursor (`230-278`) |
| `get` → `history` → `idle` | the row, then its history, and the handler's check that they agree (`295-320`, `capabilities/leave/handlers.py:247-308`) |

Rows are requests in the view `ai_read.leave_requests_v1` (the ERP itself is external): their submission is
immutable and they are never deleted (`src/docs/database/hr/05A`), but a row may become visible
with any earlier submission time (`src/docs/contracts/postgres-erp-read-adapters.md:54` speaks of
backdated inserts), and every workflow step appends a status.  `MatchesFilter` is the set of
statuses of the code's filter; dates and leave types select rows in the same way and are left out.
A cursor's keyed digests are what they bind, the pair of key and scope, so a forged
cursor does not exist.  `Rotate` is a restart with another keyring: keys are configuration, so open
calls end.  Cursors carry a `trail` the code does not have: the query of the listing, the
requests that matched at its beginning, and the ids listed so far; no guard reads it.

The document above admits that rows which become visible late are skipped; `NoRowLost` says what is
left: requests of the beginning that matched all the time since.  That no page shows a request
newer than its listing follows from the order alone on later pages, so no property is spent on it.
The profile and the balances are one statement each.

### DatabaseSetup

`target` says whether the database holds knowledge or audit events; both are prepared by the same
three transactions of one connection, in two implementations.

| `pc` | code |
|---|---|
| `idle` → `lock` | a job starts with a release, an identity and a role (`deployment/admin.py`); `RejectAuthority` is the refusal of an audit role that has too much |
| `lock` → `apply` | the advisory lock; an audit job compares the whole history once |
| `apply` → `apply` | one migration: skipped, refused (other digest) or executed; `work` is invisible until the commit |
| `apply` → `lookup` | COMMIT; a knowledge job first looks at the version of the vector extension |
| `lookup` → `insert` → `bind` | `SELECT ... FOR UPDATE` of the identity, then its insertion under the unique key |
| `bind` → `grant` → `done` | COMMIT of the identity, then the privileges of the runtime role |

`Fail` ends a job anywhere and undoes its open transaction; a repeated job is a new `Start`.
A migration is its name and digest.  `Visible` is row security: once the migration `Forcing` has
forced it, an ordinary owner sees only the identity its transaction is set to.  A server takes the
snapshot of its verification in `Open` and compares it in `Verify`.  The catalogue queries of the verification are
the `Deviations` they find, and `Tamper` is somebody making one.  The checks of profile and
publication that the same verification makes are in `KnowledgeRetrieval`.

| server | code, for a knowledge answer |
|---|---|
| `ready` → `begun` | the REPEATABLE READ transaction; its first statement takes the snapshot `view` |
| `begun` → `checked` | identity and migrations are read and compared (`production_rag.py:731-754`); `seen` is what the tables read were altered by |
| `checked` → `ready` | the search, in later statements of the same transaction |

An audit event is checked and inserted in one READ COMMITTED transaction, so there is no snapshot, and `Check` compares the identity of
the moment.  `Abandon` is a timeout, a failing statement or a cancellation.

Jobs commit between any two of these statements.  Two things keep an answer consistent, and both are in the model.  Rows come from the
snapshot (`view`), whatever is committed later.  Table definitions do not: a statement works on the tables of the
moment.  They hold still because a transaction keeps a lock on every table it has read until it ends (`KeepsTable`), and a
migration that alters such a table needs it alone (`Exclusive`) and makes later comers queue behind it (`Unclaimed`).
`Altering` are the migrations that alter a table the check reads; in the repository they are 0002 and 0004.
Migration 0003 only adds tables, and commits beside an answer.  That a migration which alters a table only the search
reads alters one of the checked tables too is true of the packaged ones and is assumed of others.  A migration that is
committed between the snapshot and the check is not noticed, because `schema_migrations` is read from the snapshot:
`AnswersFitSchema` promises no more than that the rows are those of the release and that what the check found altered is
what the query finds altered.

What the model shows beside its properties: a knowledge job does not compare the history as a whole, so an old
release's job succeeds on a newer database, where the audit job refuses; two first provisioners meet
at the unique key and one fails even if both want the same identity; with forced row security the
refusal of a stranger comes from that key, not from the lookup; the migration accepts any vector extension from 0.8.6, the
server only the approved version; `docs/deployment/production-rag-provider.md:11` says that the grant
replaces broad access to the migration table, and `grant_runtime_roles` only grants.

### Decisions and its procedures

Some parts of the program are procedures that decide from their arguments alone.  `Decisions` calls
one of them at a time with any argument of the instance; its only variable `case` holds the call
and its result.  What is checked is never the procedure against itself: a chunking is compared with the
text it was made of, sections with the headings that stand open above a block, a threshold with every
threshold between 0 and 1, an accepted assertion with the clocks, a fused ranking with the two it was made of,
an agent's answer with what the user is entitled to and what left for the model.

- `KnowledgePreparation`: a file is inspected, opened and read, and somebody may replace it in
  between, so that what is inspected, opened and read are three values of the argument.  What is read is the bytes that the reads of the open
  file returned together, of which the digest is taken; a write between two reads makes them a mixture, which has another
  digest than the approved contents, and is not modelled apart from any other contents.  A token is a heading, a text, a rule or
  something unsupported, which is what the Markdown parser makes of a line.  A text is a sequence of characters;
  a letter is a positive number, its position in the document, so that each letter can be followed into the chunks.
  `ValidSections` says what the models of the code admit: keys of their own, blocks with letters in them, in the order
  of the document.  `PrepareAll` prepares a sequence of drafts, each against the manifest the last accepted one left.
- `RankFusion`: scores are fractions compared by cross-multiplication, as the code compares
  `Fraction`s; ties fall back to the ids.  The answer gives each place to the candidate that has as many others `Before` it,
  which is the sorted list.
- `RetrievalEvaluation`: discounts of NDCG are rounded to multiples of 1/6000; a threshold is an even number for a score
  and an odd one for the float behind it (`nextafter`).  A gate of zero is refused, that of the cases which expect
  nothing included.
- `RequestAssertion`: a token is its claims and what signed it; time is the verifier's clock, and the skew is
  in the configuration.
- `ModelProviders`: `Approved` is the privacy routes, `Sends` says whether a turn leaves; `Dump` is what a
  serialised model consists of, and `Shown` what a provider is given of each result.
- `AgentRun`: the model, the ERP and the knowledge provider are arguments, any response they may
  give; `FirstFailure` keeps the order of the code's checks; the result tells which tools ran and which turns were
  sent.  One run is sequential; its audits and the interleaving of runs are in `ChatRequest`.
- `AnswersAreGrounded` says what no answer of a model, ERP or provider can bring about, and
  `LegitimateRunsSucceed` that the same checks let through the runs in which everybody does their part (`Cooperative`
  names those of the instance; `CooperationAssumption` says what doing one's part is).
- `ChunksCoverTheText` compares a chunking with the text as sets.  A chunk `Quotes` the blocks of its section if its letters are
  in their order, none between two of them is left out, and two of them are tied (no space between them) exactly where they are
  tied in a block; each chunk `Continues` the one before, beginning no earlier, ending later and repeating no more letters
  than the overlap; together the chunks have all letters, and `HoldsRuns` says that letters without a space
  between them are together in some chunk.
- `DraftsFollowTheSource` counts: the n-th text among the tokens is the n-th block among the sections, and the path of its section
  names the headings `Above` it that no later heading has closed.  `Undisturbed` is the file nobody touches, which must be loaded.
- `FusionRespectsRankings` exchanges the two rankings together with their weights and limits; with the
  weights alone the answer may change, because a ranking longer than its own limit is refused.

What the models show beside the properties:

- `heading_path[level-1:] = [content]` nests headings wrongly when a document starts below the first level or skips one, although
  `docs/contracts/markdown-source-adapter.md:51` speaks of the headings' ancestry;
  `DraftsFollowTheSource` therefore asks for the path only of documents that skip none.
- The overlap of two chunks may start inside a word that has no blank (`chunking.py:44`).
- The fingerprint does not contain the ingestion limits, so a chunk id names one content only under one
  policy of limits (`VersionsGrow` is stated for one).
- A suite whose cases all expect nothing has quality means of zero and can fail without a failing case;
  `FailuresAreNamed` therefore asks for a failing case only if some case expects a result.
- The fused order need not be descending in relevance, which the knowledge handler would require; only
  evaluations use it.
- A knowledge route whose search finds nothing is never answered: the basis demands a
  citation.  An OpenAI route that admits only lower classifications never answers anything, because
  every turn declares at least `restricted`, and a tool of the highest classification is never answered through OpenAI.
- `docs/contracts/agent-orchestration.md:46` describes mixed answers and several calls;
  the code allows one call and no mixed basis, as `docs/contracts/forced-tool-routing.md` says.

## 3. Runs

| Run | Instance | Distinct states | Shows |
|---|---|---|---|
| `index` | 3 callers, 2 namespaces, 3 operation ids, 1 content, 3 calls | 151,930 | implements `GenerationRegister`; pointer, statuses, outbox and refusals stay consistent; an id shared by two namespaces completes once; no circular wait |
| `index_replay` | 2 callers, 1 namespace, 2 ids, 3 calls | violation | finding 1 |
| `chat` | 2 requests, 1 id, 2 users, fairness | 958,987 | answers agree with the three audit logs; every request whose body has arrived ends |
| `chat_reuse` | 2 requests, 1 id | violation | finding 2 |
| `runtime_lifecycle` | 2 compositions, 2 lifespans, 1 other caller, 2 customers, fairness | 173,384 | exclusive ownership; what is opened is closed once, in reverse order; readiness only while all is open; every call ends |
| `runtime_pools` | 1 composition, 1 lifespan, 2 customers | violation | finding 3 |
| `embedding_store` | 3 workers, 2 generations, 2 profiles, 2 vectors, 3 ids, 3 calls | 162,319 | implements `EmbeddingRegister`; sets, operations and events are one to one; a conflict made nothing; no circular wait |
| `knowledge_retrieval` | 1 request, 3 generations (two with equal contents), 2 profiles, 3 writes | 1,946,804 | answers, empty answers and refusals are true of a moment of the request |
| `leave_listing` | 1 client, 2 requests, 2 statuses, 3 scopes, 2 filters, page sizes 1 and 2, 2 keys, 3 calls, times 0 to 2 | 1,912,841 | no row twice, none that stayed is lost, one query per listing, justified refusals |
| `database_setup` | 2 jobs, 4 releases (old, new, next, edited), 2 identities, 5 configurations of jobs and 5 of servers, 2 runs, 1 server opened once, fairness | 673,175 | migrations are whole, one owner, what an answer checked holds in its query, justified refusals, every job ends |
| `decisions` | the arguments of `MCDecisions` | 120,707 | every procedure's results, over every argument |
| `model_result` | the same | violation | finding 4 |

**Bounds.**  `MaxCalls` bounds publishes and rollbacks.  Three calls of three callers are a
publication, a second one and a rollback to the first, or two calls and a retry of either, each
interleaved with the others; contention on a row or a key is between two transactions, and a third
one is what could close a circle of waiting or overtake both.
Three operation ids are what a publication, a second one and a
rollback to the first need.  The second namespace matters, because only the primary key of `operations` excludes its
calls; a call for it with a used id has another digest, so one content gives both kinds of reuse.
Two requests with one id meet in flight and one after the other, as the same and as different
users; a third request is in the position of the second.  Two customers make three audit pools and two knowledge pools: one
before and one after the pool that fails.  In `embedding_store` one call commits a
profile, so that two others race past its key to the set or, for other sets, to the operation.  Readers only read, so requests do not
interact and one is enough; three writes are a publication, its embedding and whatever
invalidates it between two statements.  In `leave_listing` calls only read and answer, so one client
that keeps its cursors is enough; two requests, submitted at the same or at different times, make a page, its
successor and a tie, and three calls follow a cursor twice, or after it has expired (`TTL` 1 of 2 time steps).
`LeaveListingProofs` needs none of these bounds.  In `database_setup` two jobs are one
that fails or refuses and the one that repeats it, or two that race; the new release adds a migration that alters tables to the old one, the next one another that
alters none, and the edited one changes the first; so an altering migration waits for an answer or is committed before its check, and one that
alters nothing is committed between check and query.  A server opened once is verified before, between and after the jobs, and
answers any number of times.
`MCDecisions` builds its arguments so that the procedures refuse as well as accept: letters of one and of two bytes and
limits that a word just fits or misses, rankings that share, repeat or lack an id and tie, tokens
at, before and behind every edge of a key's and an assertion's window, and conversations on each route
with good, malformed, refused and oversized responses of model, ERP and knowledge provider at each step.  Symmetry is used only in runs without
liveness, over sets whose members no definition tells apart.

**Deadlock** is checked in every run: where calls are bounded, `Rest` is enabled only when the
bound is used up and nothing is open, so a state in which calls wait for each other would be reported.
A procedure of `Decisions` always returns.

**Fairness** is weak fairness of `Proceed` for each request of `ChatRequest`, of `Step` for each task of
`RuntimeLifecycle` and each job of `DatabaseSetup`, of `Serve` for each of its servers, and of nothing else; `KnowledgeIndex` and
`EmbeddingStore` say with `SomeoneProceeds` that open calls never all wait for each other, which needs none.

- Everywhere: the event loop resumes a coroutine whose await has completed, statements of an open transaction are issued one
  after the other by the coroutine that runs it, and PostgreSQL grants a lock that is free.
- `ChatRequest`: the awaits past the body complete because the database and HTTP clients of the service are configured with
  timeouts.  Reading the body has none (`transport/http/app.py:169-188`), so `ReadBody` is not fair, and `RequestsEnd`
  is stated for requests past it: a client that stalls keeps its request open.
- `RuntimeLifecycle`: opens and closes run under connection and close timeouts.
- `DatabaseSetup`: the connections of jobs set neither a statement nor a lock timeout (`deployment/admin.py:84,114`).
  That every job ends rests on the locks it waits for being released: by other jobs, which end, and by answers of servers,
  whose transactions end because those connections do have timeouts (`production_rag.py:925-928`, `sinks.py:30-32`);
  and on the database answering a statement that waits for no lock.  Without the fairness of servers `JobsEnd` fails:
  an answer that never ends keeps a migration waiting.

Starting a call, failing, being cancelled, revoking, tampering, beginning an answer and stopping a server are never assumed to happen
(`Serve` contains `Abandon`, so it says that an answer ends, not how).

### Findings

1. `index_replay`: `docs/contracts/knowledge-index-publication.md:46` promises that the
   same operation id and digest return the original result.  `publish` validates the
   whole plan against the clock before it looks the id up, so a retry that
   arrives after `effective_to` raises instead (`knowledge/indexing/publisher.py:311`).
2. `chat_reuse`: `docs/contracts/internal-erp-http-transport.md:79` promises that a
   request id used again later is rejected by the slot of the application audit.  The
   trigger suppresses an equal event, so a second request that ends the same way
   is answered normally.
3. `runtime_pools`: `docs/contracts/production-rag-provider.md:55` promises that a partial
   failure closes the opened pools.  The clean-up loop stops at the first close that raises,
   and later pools stay open with nothing referring to them (`production_rag.py:849`).

4. `model_result`: `docs/contracts/openai-production-provider.md:41` promises that the final turn carries
   the matching public tool result.  Both adapters dump it with `model_dump(mode="json")`
   (`infrastructure/openai/model_provider.py:123`, `openrouter/provider.py:158`), and `PublicToolSuccess` declares its content as
   `result: BaseModel` (`tools/models.py:48`), which is dumped by its declared fields, of which there are none: the
   content sent is `{}`.  The transcript accounting asks for `serialize_as_any=True` (`orchestration/models.py:269`).

## 4. Proofs

TLC checks the instances of section 3; the theorems below hold for every value of the constants that the named
assumption admits.  TLC evaluates each assumption in the passing run of its module.  Each module has an
inductive invariant `IInv` with the lemmas `Init => IInv` and `IInv /\ [Next]_vars => IInv'`,
one lemma per action under it (`DecisionsProofs` is the exception, see there); `Invariance` is `Spec => []IInv`
and `TypeCorrect` is `Spec => []TypeOK`.

| Module | Assumption | Theorems beside `Invariance` and `TypeCorrect`, and the property each states |
|---|---|---|
| `KnowledgeIndexProofs` | `CallBoundAssumption`: `MaxCalls \in Nat` | `OperationsCompleteOnce` (`OperationsAreUnique`), `NoLostUpdate` (`CommitSeesExpected`), `ActivePointer` (`ActiveIsPointed`), `OutboxHistory` (`OutboxIsHistory`), `RefusedCallsLeaveNothing` (`RefusedMeansNoEffect`), `Implements` (`ImplementsRegister`) |
| `EmbeddingStoreProofs` | `CallBoundAssumption` | `OneSetPerProfile` (`SetsAreAccountedFor`), `ConflictsLeaveNothing` (`ConflictMeansNoEffect`), `Implements` (`ImplementsRegister`) |
| `KnowledgeRetrievalProofs` | `ReaderAssumption`: the configured profile and generation exist, each generation has a digest, "no generation" is none | `OneGenerationAnswers` (`AnswersAreFromOneActive`), `BoundAnswersAreFull` (`BoundReadersAnswerInFull`), `JustifiedEmptyAnswers` (`EmptyIsJustified`), `JustifiedRefusals` (`RefusalIsJustified`) |
| `ChatRequestProofs` | none | `AuditBeforeAnswer` (`AnswersAreAudited`), `ChainBehindSuccess` (`SuccessHasItsChain`), `AgreementOfLogs` (`LogsAgree`), `ReservationIsExact` (`ReservedIdsAreOpen`) |
| `RuntimeLifecycleProofs` | `CustomerCountAssumption`, `TasksAssumption`: a lifespan is no other caller, "nobody" is none of them | `SingleRuntime` (`OneRuntimePerLease`), `EverythingIsClosed` (`NothingIsForgotten`), `NoSecondOpen` (`OpenedOnce`) |
| `DatabaseSetupProofs` | `SetupAssumption`, `ConfigAssumption`, `ManifestAssumption`: `Forcing` is one of `Altering`, a manifest lists each file once, jobs and servers are configured for packaged releases | `WholeHistories` (`HistoriesAreWhole`), `SingleOwner` (`OneOwner`), `AnswersUnderOwnSchema` (`AnswersFitSchema`), `JustifiedRefusals` (`RefusalIsJustified`) |
| `LeaveListingProofs` | `ListingAssumption`: ids and page sizes are natural numbers, filters are sets of statuses | `ListingInvariant` (its `Invariance`), `ListingsHaveNoDuplicates` (`NoRowTwice`), `ListingsAreComplete` (`NoRowLost`), `CursorsKeepTheirQuery` (`OneQueryPerListing`), `RefusalsAreJustified` (`RefusalIsJustified`), `DetailsAreWhole` (`DetailIsWhole`) |
| `DecisionsProofs` | `ArgumentAssumption`: arguments are what the models of the program admit, the clocks of ERP and service differ by at most the skew; `CooperationAssumption`: in the conversations of `Cooperative` everybody does their part | `ChunksKeepTheText` (`ChunksCoverTheText`), `DraftsKeepTheSource` (`DraftsFollowTheSource`), `VersionsOnlyGrow` (`VersionsGrow`), `FusionKeepsRankings` (`FusionRespectsRankings`), `BestThreshold` (`ThresholdIsBest`), `FailingCasesAreNamed` (`FailuresAreNamed`), `TrustInTime` (`AssertionsAreCurrent`), `GroundedAnswers` (`AnswersAreGrounded`), `LegitimateRunsAreAnswered` (`LegitimateRunsSucceed`) |

`CommitSeesExpected`, `OperationsAreUnique` (which `Decide` of the register implies) and `DetailIsWhole` are
properties that no run needs to check any more.  The `TypeOK` of the modules are proved and therefore left out of the configurations.

### KnowledgeIndexProofs

None of the invariants is inductive alone.  That a transaction at its commit still
sees the pointer its caller expected depends on who holds which lock; that the lock
suffices depends on the generation of an open call having no row yet; that nobody
else can have inserted the operation id depends on the unique key.  `IInv` is the
conjunction: `TypeOK`; `CallInv` (an open call has its own number, and its generation
no row before the commit); `PointerInv` (a pointer names an active generation of its
namespace); `LockInv` (what was checked under a lock stays true while the lock is held);
`ExclusionInv` (two holders hold different rows and keys); and `OperationsAreUnique`.
`CommitStep` is the interesting lemma, where the holder's
`LockInv` becomes the new `PointerInv`, and the exclusion keeps the other holders'
`LockInv`.  `ActiveStep` adds that exactly one generation per namespace is active, and
`HistoryStep` that an event is appended to the history of its namespace where that history ends, which is where the
pointer of `LockInv` stands.  A refused call leaves nothing because no event carries the number of a call before its commit
(`OutcomeStep`).  `NextRegister` shows that every commit is a `Decide` of the register, every return of a stored
result an `Answer`, and every other step a stutter.

### EmbeddingStoreProofs

There is no row lock, so all depends on unique keys: `KeyInv` says that what a transaction has inserted nobody has
committed while it holds the key, `ExclusionInv` that two holders hold different keys, `CallInv` that an event belongs to a call
that has passed its commit and was not refused.  `CommitStep` turns them into `SetsAreAccountedFor` of the next
state, and `CommitMaterializes` into a step of the register.

### KnowledgeRetrievalProofs

The writers are the abstract registers, whose steps only add decisions and sets.  For each reader, `Watched` connects the
histories `during` and `prepared` with the database as long as the request is open, `FromItsTime` the snapshot with the
histories, `OnItsWay` says which statements a kind of reader reaches and what it has already verified there, and `Found`
what its queries have returned.  Nothing relates two readers, so the invariant is a conjunction over readers.

### ChatRequestProofs

`ChainInv(r)` says, for each position of a request, which events stand behind the result it carries: the tool's before the final
turn of an exact route, the agent's success before the application's audit, the application's event of the outcome with the answer.  The
logs only grow, so another request's step keeps it (`OthersKeep`), and so do cancellations and lost acknowledgements, after
which no result is carried that needs the event.  `LogsAgree` follows because the
trigger (`Accepts`) admits nothing but an equal event to a filled slot, and because the application claims a success
only after the agent's event.  `late` holds the requests that were not verified when their authorization was revoked; none of them
gets past the verification.

### RuntimeLifecycleProofs

`LockInv` names the one task in the middle of its work, `OpeningInv` and `ClosingInv` say what is open at that point:
while opening, what is in `todo` is fresh and everything else open; while closing, what is in `todo` is open, what else
is open was skipped, and nothing of a lower rank has been closed (`Left`).  At the end `todo` is empty, which is `EndedInv`.
`OrderInv` is the order of closing across the whole life, `ReadyInv` what the transport's flag may say, and
`LeaseInv` who holds the lease.  `NoSecondOpen` is an action property, proved from the invariant before the step.

### DatabaseSetupProofs

A job is three transactions, and what it finds in one it uses in the next.  `Continues` describes the open migration
transaction: each of the first `n` migrations of the manifest is in the history or in its uncommitted work, which holds nothing
else; `CommitHistory` concludes that the history stays a union of whole runs.  `LockInv` is the advisory lock and
the unique key of the identity, `PhaseSound` what a job in a later transaction may still rely on, `Justified` that the reason
of a refusal lasts (`DriftLasts`: a recorded migration with another digest stays recorded), and `ServerSound` what a server
has verified.  `TableInv` says that no job has altered a table in its open transaction that a server has checked in its own; it is what takes the check of an answer
to its query, where `ServerSound` of a checked server (its snapshot has the migrations of its release, and `seen` is still `Altered`)
becomes `AnswersFitSchema`.  A commit keeps it because a job with an altering migration in its work excludes
such a server, and the commit of any other adds nothing to `Altered`.

### LeaveListingProofs

Nothing connects two pages but the cursor, so the invariant is about cursors: `CursorOver(cursor, db)` says that in
the state `db` of the view everything listed so far is at or before the cursor, and that of the requests of the
beginning that are at or before it, those that kept matching are listed.  `CursorLasts` carries this from a state of
the view to every later one (`Extends`: rows stay, keep their submission and only gain steps), from the snapshot of
a page to the tables and from the tables to the snapshot of the next.  `NextCursor` establishes it at the end of a
page; it needs that a page is closed under the order (`PageIsClosed`) and that the order is total on rows with
distinct ids.  A page after the cursor then has nothing that is at or before it (`PageIsNew`), and a page without
successor has everything that was left (`LastPageIsWhole`, `LastPageEndsListing`).

### DecisionsProofs

The procedures have no state, so there the invariant is only `Recorded`: a record holds what its procedure returns, which the lemma
`CallsAreRecorded` reads off the definitions.  The work is
in the lemmas about the procedures, which hold for arguments of any size.

**Loops.**  A loop of the code is a recursive function on `0..n` (`upTo`, `packed`, `words`, `state`): its value at i is what the
loop has after i steps.  What it has at each step is shown by `Induction`, which says that a set with 0 and the successors of its
members has every natural number; it is proved from the well-foundedness of the natural numbers, and taking a set instead
of an operator it is within reach of the installed provers.  Each loop needs it twice: for the existence of the
function the definition names, and for the invariant of the loop, a predicate of its own named `...SoFar` where it is one.

**Preparation.**  `WordsSoFar` is the invariant of reading words, `PackedSoFar` that of packing them into pieces, `UnitsSoFar`
that of splitting a section's blocks, `PackedUnits` that of packing units into chunks.  Each says of a list of texts
the same things: in the order of the document, with the letters and the ties of what has been read, and with room for every run.
`SeparatedTexts` is the fact below them all: white space between two texts unites their letters and adds no tie.  `QuotesNext` adds a
unit to a quotation that reaches the end, and `OverlapEnds` shows that what a chunk repeats is an end of the one
before, no longer than the overlap.  `ConcatPlaces` says where the parts of a concatenation are, which takes `SectionIsCovered` to
`SectionsAreCovered`.  `ReadSoFar` is the invariant of the Markdown adapter: every text read is in a section or waits in the open one, at
the place its number gives it, under the path of the headings still open (`PathUnderHeading`).  `History` is that of
preparations one after the other, and `BelowIsOrder` that versions are ordered.

**Fusion and evaluation.**  Contributions and scores are fractions (`FractionsAreOrdered`, `SumsOfFractions`), a candidate ahead in
both rankings scores more (`AheadScoresMore`), and in a total order of finitely many the places 1 to n are each taken once
(`PlacesAreTaken`).  `SameOutcome` is the reason why the threshold chosen among few candidates is the best of all: between two
neighbouring candidates the outcome does not change, and the upper one has the better key.  `MeanIsBounded` and `SumIsBounded` show that a mean below
a gate has a term below it, which is the case that a report names.

**Trust and agent.**  `AcceptsVerified` reads the guard of the authenticator off its definition, and arithmetic on the
clocks gives `TrustInTime`.  For the agent, `GatewayGuards` lists what a tool call that ran has passed and
`FinishGuards` what an answer has passed; `EvidenceOfOneCall` and `MatchesAreInScope` say what the evidence
is, `SentIsCovered` and `CeilingIsRestricted` that a turn that left had a privacy route for the highest classification in it.
A run is general, exact or refused before it starts (`GeneralRunIsSound`, `ExactRunIsSound`, `RefusedRunIsSound`), and
an exact one has a second turn or not (`TurnWithResult`, `TurnWithoutResult`).  `LegitimateRunsAreAnswered` goes the other way,
check by check: `RunMayStart`, `TurnIsSent`, `CallArrives`, `CallSucceeds`, `FinalArrives`, `FinishSucceeds`.

### Model-checked only

- `RequestsEnd`, `CallsEnd`, `JobsEnd`: liveness under fairness is beyond the proof system.
- `SomeoneProceeds` of `KnowledgeIndex` and `EmbeddingStore`: it speaks of ENABLED.
- That the faulty variants violate their properties, and the four findings: they are counterexamples, which TLC finds.

Every other property of a passing run is a theorem.  What no theorem speaks of are the folds with an operator
(`TotalBytes` and `BlockCount` of a draft, the size of the matches in `ValidMatches`): only guards read them.

## 5. Not modelled

- The TEI provider and the OpenAI embedding provider: HTTP adapters whose answers are, for the models that
  use them, any vectors or a failure.
- Pure input and output: configuration, secrets and SSL contexts, the launcher, HTTP envelopes, the
  parsing of Laravel responses, the loading of evaluation suites and the rendering of reports.
- The Markdown parser, inline text and front matter: `KnowledgePreparation` starts from their tokens.
- Value objects (`context`, `api`, most `models.py`): field validation without state, present as
  the fields that guards read.
- The audited 404, 405 and unhandled-exception handlers of the transport.
- The catalogue queries of the contract checks, which are kinds of deviation in `DatabaseSetup` and one outcome of
  `OpenFails` in `RuntimeLifecycle`; what a migration's SQL does, except whether it alters a
  table every answer checks.
- The profile and balance handlers, which pass on the one row of one statement.

## 6. Plan

Every safety property of a passing run is proved, except `SomeoneProceeds`.  What is left:

1. A statement of `SomeoneProceeds` without ENABLED: a ranking of the locks a call may wait for, with the holder of the last one
   not waiting, which could be proved.
2. The composition of `KnowledgeRetrieval` with the detailed writers, which the two `Implements` theorems make redundant for
   safety but which would show which statements of a writer a reader can observe.
3. The fingerprint of a draft as a function of its limits too, if the code comes to include them.
