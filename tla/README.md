# TLA+ models of the EiraOS chat backend

The models in this directory follow the Python source statement by statement
where statements are transactions, awaits or external calls, and abstract the
data (prompts, answers, tool arguments, file contents) to what the properties
tell apart.  Paths below are relative to `src/src/eiraos/`; architecture
documents are under `src/docs/architecture/`.

## 1. Inventory

| Component | State it keeps | Operations | Interacts with |
|---|---|---|---|
| Idempotency ledger (`core/idempotency.py`) | `idempotency_records`: status, lease, token, payload hash, cached response, expiry | begin, read cached response, renew, complete, cleanup | chat and document handlers; `chat_persistence` writes its table too |
| Chat handler (`api/v1/chat.py`) | local variables of a request, lease heartbeat task | authorize, ledger, budget, persist, provider call or stream, finalize, preflight failure | everything below |
| Chat persistence (`application/chat_persistence.py`) | `chat_executions`, assistant message, usage rows | prepare_exchange, mark_streaming, assert_recovery_allowed, finalize | ledger table, governance decisions |
| Governance audit (`application/governance_audit.py`) | decisions and their result | record, bind, close | written inside the transactions of chat persistence |
| Token budget (`domains/usage/redis_reservation.py`) | Redis counters, markers, settlements with time to live | reserve, release, settle (Lua scripts) | chat handler |
| Streaming (`application/streaming_lifecycle.py`) | pump tasks, read deadline, terminal state | next_event, close, claim and apply a terminal | `event_generator` of the chat handler |
| Admission (`api/v1/auth.py`, `application/authorization.py`, `provider_execution_policy.py`, `domains/governance/capabilities.py`, `core/secrets.py`) | users, organizations, memberships, bots, the token's claims | register, create organization, login, check permission and identity, permit a provider, choose a key and a verifier | chat and bot routes, governance audit |
| Retrieval and chunking (`domains/documents/rag_service.py`) | `document_chunks` | cut a text into chunks, hybrid search | ingestion writes, the chat's provider context reads |
| Context construction (`application/context_construction.py`) | none | select history under token limits, compact the rest | chat handler, message rows |
| Provider adapters (`application/providers/`) | the token counts of a stream | stream, complete, each with and without usage | provider boundary |
| Provider boundary (`application/provider_failure_isolation.py`, `application/providers/http.py`) | attempt counter, sleep | execute with a deadline, post_with_retry | provider adapters |
| Agent runtime (`application/agent_loop.py`, `agent_runtime.py`, `execution_budget.py`, `tool_authorization.py`) | depth, deadline, shared budget, permit | plan, authorize, consume, execute, observe | agent audit trail |
| Agent audit trail (`application/agent_audit.py`) | ordered events per run | record (commit, may be ambiguous) | agent loop |
| Document ingestion (`api/v1/documents.py`, `document_upload.py`, `workers/`) | document status, chunks, ARQ job | ingest, upload, enqueue, process, fail | ledger, queue |
| Durable memory and provenance (`application/memory_runtime.py`, `provenance.py`) | `memory_records` with sources and digests | create, delete, get/list, trace | messages of conversations |
| Conversation state (`domains/conversations/state.py`, `application/conversation_state.py`, `api/v1/conversations.py`) | versioned row | create, archive | chat admission |
| Not modelled | | | configuration, middleware, logging, rate-limit identity, cost arithmetic, file extraction, the in-process usage gate, the unused `MemoryStore` |

What is hard about this system:

* *Leases.*  A request owns its idempotency key through a lease that can expire
  while it runs; another request then reclaims the key and both go on.  Tokens
  and conditional updates decide who may write, but not every write looks at
  them.
* *Ambiguous commits.*  A commit that reports an error may have been applied;
  handlers treat it as if it had not.
* *Crashes.*  Nothing cleans up after a killed process except the next request
  with the same key.
* *Key expiry in Redis.*  Counters, markers and settlements expire
  independently; a write to an expired counter recreates it without expiry.
* *Races inside one task.*  The stream waits for a chunk, a timer, a disconnect
  and the loss of the lease at once; any subset may be ready.
* *At-least-once delivery.*  A job is delivered again after a worker crash, and
  an enqueue that raises may have enqueued.
* *Reads that are not atomic.*  A lineage is read record by record while other
  users delete and promote; a request checks role, membership, identity,
  conversation and bot in five statements while all of them change.
* *Limits that interact.*  Window, reserved output, history and compaction share
  one token budget, and answers are dropped after they were counted.
* *Three wire formats.*  Text, usage, corrupt and error lines come in a different
  order from every provider.

The list of places where this bites, with the property that watches each, is
`hazards` in `PROJECT.json`.

## 2. Modules

| Module | Models | State and actions |
|---|---|---|
| `Idempotency` | `core/idempotency.py` for one key | `row` is the record; `pc`, `now`, `tries`, `recordId`, `isRecovery`, `reply` are the locals of each request.  `begin_idempotency` is split where it awaits: `BeginInsert`/`BeginConflict`, then one action per branch after the select (`BeginVanished`, `BeginExpired`, `BeginReplay`, `BeginReopen`, `BeginReclaim`, `BeginRefused`).  `now[r]` is read once and may be old when it is used, as in the code; `renew` and `complete` use a clock value at most `MaxLag` old. |
| `ChatExecution` | `api/v1/chat.py`, `chat_persistence.py`, `governance_audit.py`, `chat_recovery.py` | Extends `Idempotency`.  `stage[r]` is the next transaction or external call of the handler, `exec[i]` the execution (with assistant message, attempt count, stored retry limit) of record `i`, `audit`/`boundTo` the governance decisions, `accounted` the usage rows, `answer` what clients received.  `DbFails` may strike any call, `CommittedOrUnknown` makes a commit ambiguous, `CrashRequest` kills a handler anywhere. |
| `ExchangeLifecycle` | what the persistence contract promises of one execution | `phase`, `tried`, `limit`; refined by `ChatExecution`. |
| `TokenBudget` | the three tenant scripts of `redis_reservation.py`, `execution_budget.py`, `cost_estimator.py` | counters, markers and settlements with the ticks they have left (0: no key); one action per outcome of each script; `Elapse` ages the keys. |
| `ChatBudget` | the two together | conjoins the chat's budget calls with the scripts; the other steps leave the budget alone.  `reported[r]` remembers the usage `r`'s call was settled with, as long as the settlement key lasts. |
| `StreamLifecycle` | `StreamPump`, `StreamFinalizer`, `event_generator` | `at` is the await or yield of the generator; reader, disconnect poll, timers and lease event are separate. |
| `AgentLoop` | `run_agent_loop_async` with runtime, policy, budget and audit trail | `at[r]` is the await or piece of code; `event[r]` is being written at the await `"audit"`. |
| `Chunking` | `intelligent_chunking` | operators; a text is the sequence of its paragraphs' lengths, a chunk a sequence of ranges of characters. |
| `DocumentIngestion` | ingest and upload handlers, queue client, worker task | Extends `Chunking`.  One action per transaction or queue call; the ledger's calls are single steps here, their detail is in `Idempotency`. |
| `MemoryLineage` | `DurableMemoryStore`, `ProvenanceResolver` | sessions issue one request after another; each database call is a step. |
| `ConversationState` | the DELETE route and the versioned row | load, commit, stale commit, failed commit. |
| `Registration` | `register_user`, `create_organization` | committed users and owners, `signup[s]` how far a transaction is; an uncommitted duplicate of a unique value makes another insert wait. |
| `ChatAdmission` | `login`, the dependencies of `api/v1/auth.py`, `authorize`, `_provider_for_bot` and `_find_verifier_bot` of the chat, `create_bot` | Composes `ConversationState` and `Registration`.  `req.at` is the next statement of the request, the other fields its locals; `account` and `bots` are changed by an operator between any two statements; `seen` records what was true at some moment of the request. |
| `Retrieval` | `hybrid_search`, `build_knowledge_system_context` | operators; the database returns the visible chunks in any order, scores are fractions. |
| `ContextConstruction` | the history query and `ConversationContextBuilder` | operators on lengths, with independent definitions of what the result should be (`FitsWindow`, `IsNewestPart`). |
| `ProviderAdapters` | the streaming and completing methods of the three adapters | `lines` read, `pieces` passed on, `meter` the adapter's own counts, `usage` what was reported; one action per kind of line and adapter. |
| `ProviderRetry` | `post_with_retry`, `retry_delay` under `execute`'s deadline | Python's `min`/`max` on NaN and infinity are modelled by what they return. |
| `ProviderTurn` | `prepare_provider` and the provider call | Composes the four modules above it into one turn: search, history, context, then a stream or a retried request, for the primary bot or the verifier. |
| `MC*` | | constant values, symmetry and views of the instances. |
| `DataProofs` | | lemmas on numbers, sums, loops and rankings that the other proof modules use. |
| `ChatProofs` (ledger, handler, token budget and their composition), `AdmissionProofs` (with the conversation), `StreamProofs`, `AgentProofs`, `IngestProofs` (with the chunker), `MemoryProofs`, `ProviderProofs` (with retrieval and context) | | theorems, section 4. |

`map` in `PROJECT.json` gives the source lines of every definition.  Operators
named `X_Y` next to an operator `X` are faulty variants of it; every property is
shown to be violated when the variant `PROJECT.json` names replaces `X`.

## 3. Runs

| Run | Instance and bounds | What it shows |
|---|---|---|
| `ledger` | 3 requests, one with another body; lease 1, lifetime 2, clock up to 4, readings up to 1 old, 3 records | a key has one winner; replays return a committed response, of the same body unless the matched record expired and was replaced in between (section 6); a completed record is only ever deleted; nobody takes over inside a lease |
| `chat_takeover` | 3 requests (2 streaming), limit of 2 attempts, clock up to 2, one record | record and execution complete together with the same response; an answer a client saw stays the stored one; an execution that ended has no decision open, those of crashed attempts included, unless the retry limit ended it; an owner inside its lease is never refused by `finalize` |
| `chat_life` | 2 streaming requests, limits 1 and 2, lease 1, lifetime 2, clock up to 3, two records, cleanup | `ChatExecution` implements `LedgerSpec` and `ExchangeLifecycle`; executions end under a live lease unless their record was deleted; at most the stored limit of attempts reach the provider |
| `chat_budget` | 2 streaming requests of one execution and another user's; user limit 6, organization limit 7, estimates 4 and 2, usages 1 and 6, time to live 2 | live reservations are counted, apart from the refund named in section 6; no counter is immortal; the usage of a completed answer is the settled one |
| `stream` | 3 chunks, heartbeat 2, read timeout 5, with verification | a read keeps its deadline through heartbeats; what is committed as completed is whole; a terminal is not overwritten; a disconnect ends the stream |
| `agent` | one run, depth 2, 3 executions, deadlines 3, 2 and 4; one proposal per decision of the policy | tools run only with the full evidence durable; the trail accounts for the work; refusals are final; after the deadline no tool starts except one whose start was being written; runs end |
| `ingest` | 2 ingest requests with one key and an upload; one blank text, one the database refuses; one worker crash; chunks of 6 with overlap 2 | ready documents have chunks that hold their whole text and are not too long; chunks are stored once for each time the document became ready; answers are backed by the queue |
| `memory` | 3 sessions in 2 tenants, 3 records, 1 message, depth limits 3, 2 and 1, forged claims | provenance shows only visible records and the true lineage; digests verify |
| `access` | 3 sign-ups (two lead to one organization name), 2 bots of 4 and 3 rows, 4 roles, 2 changes, 2 archivers | no half-made account; a request takes effect only on authority that existed while it ran; what is called is what the recorded decision allowed; one archiver is accepted |
| `provider_turn` | 5 chunks (one private, one blank, one of another tenant), every history of up to 4 rows, streams of up to 4 lines per adapter, 3 attempts with 8 kinds of Retry-After | the context fits its window and is the newest part that does; the merged ranking respects what both queries agree on; the answer is the text on the wire and the usage the provider's final report; only transient failures are repeated |
| `chat_non_streaming` | 2 requests | *violated*, see section 6 |
| `chat_recovery` | 2 streaming requests | *violated*, see section 6 |

Why the bounds suffice.  The interesting ledger cases need an owner, a
successor and a third party with another body; for a replay to meet that body's
response the matched record has to be replaced once, after `begin`.  In `chat_takeover` the lease
lasts for the rest of the current clock unit (`LEASE_SECONDS = 0`), so two units
allow an owner to be superseded twice and its late writes to meet both
successors; in `chat_life` a lease lasts a full unit, so renewals matter.  The
limits 1 and 2 there are needed both: with 2, attempts resume; with 1, a
superseded request can insert the first attempt between its successor's
admission and persistence, which is the only way the limit is reached in
`prepare_exchange`.  In `ingest` a single worker crash redelivers a job at every
point of its first delivery; its text has short paragraphs that are joined, a
blank one, one of exactly the chunk size, and long ones whose last window is
full, short, or repeats an overlap only.  In `access` sign-ups are over before
requests begin, since they write no row that is used later, and `MaxChanges`
lets an authority be taken away and given back within one request.  In
`provider_turn` four rows are one more than the query limit and two more than
the message limit, so every cut happens; what a later step does not read is
forgotten (`EndsWith`, `NotBuilt`), so that the cases of the steps add up instead
of multiplying.  Four lines hold two usage reports around a text or corrupt
line.  In `memory` three records are a lineage from one user's record over an
organization's to another user's; the depth limit of a session lets bob follow it
to its end, admin alice to its second record, and stops the other alice at the
first.  `VIEW`s hide locals a finished request can no longer read and histories no
property looks at any more; symmetry is never used with a liveness property.

`RollbackExpires` is `TRUE` in `chat_recovery` only, which is what SQLAlchemy does
(section 6).  Every other chat run sets it to `FALSE`, as the code expects.  With
`TRUE` a recovering request fails before it persists, and since every database
call may fail anyway, each behaviour with `TRUE` is one with `FALSE`: what the
runs show holds for both, and they also cover the recovery once it works.

`CHECK_DEADLOCK FALSE` is set where the modelled requests are finite in number
and simply end.

Fairness.  `stream`: the event loop runs what is ready, the disconnect poll runs
and time passes; nothing is assumed of provider or client.  `agent`: time passes
and timers fire (`Forced`); planner, policy and tools may hang for ever.  Nothing
is said of when a chat request ends: a stream has a deadline for each chunk
but none for the whole, and yields to a client that may not read.

`AgentTypeOK`, `StreamTypeOK`, `IngestTypeOK`, `MemoryTypeOK`, `ConvTypeOK`,
`LedgerTypeOK` and `BudgetTypeOK` record the types of the variables; no run spends
a property on them, since each is a theorem or part of a proved invariant.

## 4. Proofs

Every theorem holds for any value of the constants that satisfies the named
assumptions; the caps on clocks, lines or crashes are parameters, so the proofs
cover every cap.  Each module states one inductive invariant, proves that the
initial states satisfy it and that every action keeps it (one step per action),
and draws the properties from it.

*Ledger* (`ChatProofs`, first part), from `ConstantsAssumption`.  `OneWinner` is
not inductive: a second completion is excluded only because the row of a winner
stays the winner's (`WinnerShape`) and because the token of a present row
determines what its holder may be (`TokenShape`).  `ReplayIsCommitted` needs
`ReplayShape` (when a request is about to read the response, the record that
`begin` matched is still there with its body, or the clock has moved past `begin`'s
reading), `ReplyShape` and that ids are drawn in order (`IdsDrawn`, `RowShape`).
`LedgerInv` is their conjunction with `LedgerTypeOK`, `ClockShape` and
`LeasedIffProcessing`.  From it follow also the action properties
`CompletedIsStable` and `TakeoverAfterExpiry`; the latter uses `ClockShape`: a
stale clock reading errs on the safe side.

*Chat handler* (`ChatProofs`, second part), from `ChatAssumption` too.  First
every step is shown to be a step of the ledger or to leave it alone
(`UsesLedger`), so `LedgerInv` holds of the handler as well, although
`finalize` writes the ledger's table by itself.  `ChatShape` adds where a request
stands with the ledger at each stage (`StandingShape`), what exists of an
execution (`ExecShape`, `StartedShape`), which decisions are bound and open
(`DecisionShape`, `AccountShape`), and what the holder of the record finds
(`HolderShape`: the execution running, its own decision open, its attempt not
accounted); the last is what makes `OwnerCanFinalize` inductive.  From
`ChatInv == LedgerInv /\ ChatShape` follow `LedgerAgrees`, `AnswerIsDurable`,
`EndedIsAudited`, `OwnerCanFinalize`, `AttemptsAreBounded` (with `AttemptShape`: the
way to the provider leads through `prepare_exchange`, and the requests bound to an
execution are as many as its attempts), the action property `EndsUnderLease` and
the refinement `ImplementsLifecycle` of `ExchangeLifecycle`: every step starts,
resumes, marks, ends or exhausts one execution, or leaves its life alone.

*Token budget and its composition* (`ChatProofs`, third part), from
`BudgetAssumption` and `SharedAssumption`.  `CountersExpire` is not inductive: a settlement on an
expired counter would create it without expiry.  The strengthening is
`CountersOutliveMarkers`: a counter lives at least as long as every marker
charged to it, and both scripts act only on a live marker.  `ChatBudget`
implements the handler's specification (`BudgetKeepsChat`), so `ChatInv` carries
over; `CBInv` adds that the stored content of a completed execution is by one of
its attempts (`ContentShape`) and that a usage counts as reported only while the
settlement holds it (`MeterShape`), from which `CompletedUsageIsSettled` follows.
`ChargesAreKept` compares a counter with a sum over the reservations charged to it
(`Kept`).  A script changes one reservation, so one term of the sum and the counter
move together (`SumPart`); `SettledShape`, that a settlement lives exactly as long
as its marker, is what rules out a term that grows back when a settlement expires
by itself.  A refund of a settled reservation breaks the sum, and
`overRefunded` then holds for ever; every step without one keeps `Kept`.

*Admission* (`AdmissionProofs`), from `NobodyAssumption`, `SignUpAssumption` and
`AdmissionAssumption`.  Conversation: the version determines the shape of the row,
so a session that loaded the active row either archives it or finds another
version.  Sign-up: an uncommitted organization name is held by one transaction
(`NameIsHeld`), hence `AccountIsWhole`.  Request: what has been seen before each
statement (`SeenShape`) and what has been decided and called (`CallShape`), under
any change of accounts and bots.  The composition implements `ConvSpec`, so what
is proved of archiving holds in it.

*Stream* (`StreamProofs`), from `StreamAssumption`.  `CompletedIsWhole` needs
`CountShape`: every chunk is accumulated or in the reader's hands, and no reader
is left when the end is reached.  `ReadKeepsDeadline` needs that a timer never
outlasts the deadline it was set for; `TerminalIsNotOverwritten` needs
`ResultShape`.

*Agent loop* (`AgentProofs`), from `AgentAssumption`.  The invariant is a table:
for each place of the loop, what the trail counts, what it ends with and what it
does not contain (`Fits`).  It is stated of the place the run goes on at and of
the trail with the event being written (`Place`, `Written`), so a committed write
changes nothing and a lost one ends the run.

*Ingestion* (`IngestProofs`), from `IngestAssumption`.  Per request, what handler,
queue and worker say of each other, and a ledger of copies: copies stored equal
marks undone plus one if the document is ready (`CopyShape`).
`ReadyIsWhole` is this and a theorem about the chunker alone, `ChunksHoldText`,
from `ChunkingAssumption`: after `k` paragraphs every character of them is in a
finished chunk or in the current one, and no chunk is too long (`Carries`); for
a paragraph longer than a chunk, the windows reach its end because each
starts past the start of the one before and no later than right after its end.

*Memory* (`MemoryProofs`), from `MemoryAssumption`.  `TraceIsLineage` claims that
no trace ends in a cycle, which needs that no lineage is circular.  Without
induction over paths this is said of sets: no nonempty set of records is closed
under "source memory" (`NoCircle`); a new record names only an existing one,
and no source is ever changed.  An unfinished trace is a path of rows that were
visible and whose sources are as read (`Walking`); since a row keeps its
owner, scope and source for ever and deletion is only a mark, later deletions do
not falsify it.

*Provider turn* (`ProviderProofs`), from the named assumptions of the four parts
and `TurnAssumption`.  The retried request, the stream and the preparation do not
share state; each has its own invariant.  `UsageIsFinalReport` follows from what the counts of a stream being
read are, by adapter (`OpenAIShape`, `AnthropicShape`, `GeminiShape`), in terms
of the last line of a kind (`LastAfterAppend`).  `TextIsWire` says that the
pieces are those of the well-formed lines and strictly ordered, which determines
them without a fold over the lines, so it is kept by appending.

What the preparation leaves in `found` and `built` is what `Fused` and
`BuildContext` return (`PrepareInv`); the rest is about these operators.
`RankingIsFused`: `Sooner`, score first and insertion second, is a strict linear
order of the rows (`SoonerIsLinear`), a finite set is enumerated by the number of
members before each (`Ranked`), and a row that both queries prefer has the greater
score, as fractions that are compared by multiplication.  `ContextFits` and
`ContextIsNewestPart`: `_select` stops at the first message that does not fit
(`Taking`) and the cost of a prefix grows with its length, so it has taken the
longest prefix that fits; an artifact costs no more than the room left
for it (`ArtifactIs`); answers dropped from the front are paid back to the estimate
exactly.

*Data* (`DataProofs`).  What a recursive function or a sum computes is proved by
induction over a set: one that holds 0 and the successor of each member holds
every number, applied to the set of the numbers with a property.  From it: a loop
given by a step function has a run of any length, the sum over a finite set does
not depend on the order and can be split, changed in one term and compared term by
term, and the members of a finite set can be listed in any linear order of them.

Only model-checked are liveness under fairness (`DisconnectEnds`, `RunsEnd`) and the
two properties that are violated (section 6).  `ENABLED`, in
`RecoveryCanStart`, and liveness are outside the prover's logic.  Every invariant,
action property and refinement of a passing run is a theorem.

## 5. Not modelled, and why

* Requests without an idempotency key: they share no record and cannot be
  taken over.
* Two tasks on one `AsyncSession` (heartbeat and handler): its behaviour is not
  defined; the model lets each of their calls succeed or fail by itself.
* A second cancellation while a handler is already cleaning up after one.
* Overlapping deliveries of one ARQ job, and several documents created by
  takeovers of an ingest key beyond those of the modelled requests.
* The synchronous `run_agent_loop`, the single-counter scripts and the
  in-process usage gate, which a deployed chat does not use.
* Text extraction, embeddings and the ranking functions of PostgreSQL: the
  database may return the visible chunks in any order.
* Request bodies sent to providers, the list of models, password hashing and the
  cryptography of tokens; a token that does not decode is refused by the library.
* More than one request at a time in `ChatAdmission`: its statements read rows
  that requests do not write, so the interference is the operator's.
* Rate-limit identity and cost arithmetic (pure functions of a few lines),
  settings, logging, listing routes, and `MemoryStore`, which nothing calls.

## 6. Where code and documents disagree

Kept as a run:

* `chat_non_streaming`.  `execute` returns the value of `validate`, a string,
  and `chat.py:672` reads `.text` of it.  The resulting error is handled as a
  provider failure: no non-streaming request completes.

* `chat_recovery`.  `assert_recovery_allowed` ends with a rollback also when it
  allows the recovery (`chat_persistence.py:264`, and `:238` when nothing was
  persisted yet).  A rollback expires every loaded object, whatever
  `expire_on_commit` says; `persist_request` then reads
  `authorized.conversation.id` outside a greenlet, and `MissingGreenlet` ends the
  request as a database error.  F2-07, line 48, promises that a replay starts
  the next attempt; as it is, no retry does.

Met while modelling; the steps are part of the modules, the traces are given in
words.

* *A key reused with a different payload is refused* (`core/idempotency.py:109`).
  `begin` compares the payload with the record it selected, and
  `read_cached_response` (line 165) then looks the key up anew, without a payload.
  A record that is unexpired at `begin`'s reading of the clock and expires and is
  replaced before the second statement answers with the response to another
  payload.  `ReplayIsCommitted` allows exactly this.
* *Only the owner mutates* (F2-07, line 57).  `mark_streaming` and the insert of
  a first attempt look at neither lease nor token: r1 begins, its lease expires,
  r2 reclaims, r1 inserts or marks the execution.
* *Result and governance result in one transaction* (F3-05, line 24).  The retry
  limit fails an execution and leaves decisions of crashed attempts open.
* *The reservation covers the running call* (F2-02, line 41).  A release names
  the execution: a superseded request whose preflight fails late refunds its
  estimate although its successor has settled at the real usage.
  `ChargesAreKept` allows exactly this (`overRefunded`).
* *A settlement is final* only for the life of its key (`ttl_seconds`, one hour by
  default).  Once it has expired, a superseded attempt that is still before its
  provider call reserves again, and one that is still in its call settles another
  usage for an execution that was completed and settled before.
  `CompletedUsageIsSettled` is therefore about settlements that last.
* *Provider-reported stream errors fail closed* (F4-02, line 15).  Only `stream`
  looks for error chunks; `stream_with_usage`, which the chat prefers, skips them
  and ends as a complete answer.
* *A failed text query degrades to the vector results* (`rag_service.py:129`).
  PostgreSQL has aborted the transaction, so the history query fails next.
* *Provider failures are retryable* (F2-07, line 36).  After an attempt was
  settled, a retry whose usage differs is refused by `settle_tenant`.
* *Exactly one terminal is claimed* (F2-05, line 11).  `GeneratorExit` at a yield
  passes every handler.
* *No step begins after the deadline* (F6-06, line 24) and *no execution
  continues after the budget deadline* (F6-04, line 32).  Both deadlines are
  tested before an awaited audit write; the budget's is not part of the tool's
  timeout.  `NoStepAfterDeadline` allows the one tool whose start is being
  written.
* *Every terminal transition is recorded* (F6-07, line 63).  A run cancelled
  outside a tool leaves no terminal event.
* *queued -> processing -> ready | failed* (`workers/tasks.py:49`).  A refused
  flush is not rolled back, so the status `failed` cannot be committed; and
  `_fail_document_ingest` overwrites `ready` when an enqueue raised after the
  job was accepted.
* *A queue failure closes the key* (`tests/test_document_ingest_failure.py:17`).
  The branch for an unreachable queue leaves the record in progress.
* *Corrupt sources end as integrity failure* (F5-05, line 18).  So does an intact
  record with both a source memory and a source message: the message's digest
  overwrites the one the resolver compares with the memory.
* *An archived conversation rejects executions* (F5-01, line 16).  The lifecycle
  is read once, in `authorize`; the exchange is inserted several transactions
  later.

## 7. Plan

Done, in this order: ledger, chat, budget, their composition, stream, agent,
ingestion, memory, conversation, provider retry; proofs of ledger, budget and
conversation; then chunking, retrieval, context construction, adapters and their
composition with the retry, registration and admission; then the proofs of the
chat handler with its two refinements, of its composition with the budget, and of
admission, stream, agent loop, ingestion, memory and provider turn; last, what the
recursive definitions compute: the sums of the budget, the chunker, the fusion of
the rankings and the construction of the context.

Next: overlapping deliveries and key takeover in `DocumentIngestion`.
