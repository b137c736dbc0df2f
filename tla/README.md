# A verification project for enterprise-ai

TLA+ modules that model the core of this repository, TLC configurations that check them on small
instances, and TLAPS proofs of their invariants, refinements and variants for every instance (any number
of actors, any timeouts, databases of any size).  Paths below are relative to the
repository root.  `PROJECT.json` maps every definition to the lines it models.

## 1. The system

A user asks a question in the **analytics dashboard** (`frontends/analytics-dashboard`).  The
**analytics agent** (`agents/analytics-agent`) streams the answer back: its **chat service** runs a
LangGraph **graph** (route the intent, call tools, synthesize a narrative, or handle an error), a
**stream encoder** turns the graph's events into frames of the AI SDK data stream protocol, and a
**conversation store** (memory or Postgres) keeps what was said.  The tools live in four **MCP
servers** (`tools/*-mcp`), reached over long-lived SSE sessions that an **MCP bridge** per server keeps
alive (`platform-sdk/platform_sdk/mcp_bridge.py`).  Each tool call is authorized by **OPA** through the
**OPA client** (`security.py`) and answered from a **Redis cache** (`cache.py`) or by a business
service; both clients sit behind a **circuit breaker** (`resilience.py`).

Everything is asyncio: one event loop per process, so an interleaving is possible at each `await`, at
each `yield` of a generator, and nowhere else.  That is the granularity of every module here.

### Inventory

| component | state it keeps | operations | talks to | what is hard | what makes it correct |
|---|---|---|---|---|---|
| Circuit breaker (`resilience.py`) | `_failures`, `_open_until` | `is_open`, `record_success`, `record_failure` | its callers | outcomes recorded late and out of order by concurrent calls; a window that is restarted; the end of a window | opens at the threshold only; ends its window; forgets on success |
| OPA client (`security.py`) | locals of each `authorize` | `authorize`, `aclose` | OPA, breaker | time-outs, retries that do not look at the breaker again, broken answers, cancellation | fail closed; bounded load on a broken OPA; every call returns; heals |
| Tool servers (`tools/*-mcp`) | locals of each call | six tools | OPA client, cache, a business service | the cache is shared by callers that may see different data, under keys that do not always say so; a service that fails inside a normal result | only authorized callers get results, and only what was computed for their view of the data |
| Tool result cache (`cache.py`) | Redis entries with a ttl, a breaker | `get`, `set`, `make_cache_key` | Redis | slow writes, writes that Redis does after the client gave them up, eviction, outage | bounded age; an outage costs no latency once the circuit is open |
| MCP bridge (`mcp_bridge.py`) | `_session`, `_task`, `_stop`, the loop's failures and sleep | `connect`, `disconnect`, the reconnect loop, tool invocation | an MCP server, the agent | the session is read by requests while the loop replaces it; stop during any phase; back-off; a connect that times out; a handshake and a held link without time-outs | no session and no task after disconnect; a session exactly while connected; heals, and stops, if the server is not silent for ever |
| Bridge health (`bridge_health.py`) | per-bridge status, event | `mark`, waiting for any or all | nobody: exported, but never constructed | — | — |
| Chat service (`chat_service.py`) | locals of each turn | `execute` | graph, encoder, store | statements that fail between two awaits, a client that goes away, two turns of one new conversation | the stream is always well formed; only completed turns are stored, questions before answers |
| Conversation stores, routes | conversations, messages | create, get, add, rename, delete, list | chat service, dashboard | no transaction around a turn; a cascade in the middle of one; order by `updated_at` | nothing is overwritten; no orphans |
| Stream encoder | `_active_tool_calls`, `_narrative_streamed`, … | `encode_event`, `finalize` | graph events | matches starts and ends by name; retries stream twice | every call opened is closed; the answer is shown, once |
| Analytics graph | the thread's checkpoint, per-node state | `intent_router`, `mcp_tool_caller`, `synthesis`, `error_handler` | LLM, bridges, checkpointer | state of earlier or concurrent turns in the same thread; retries; failing tools | a turn works on its own plan and results; context survives to the next turn; a turn ends |
| Router prompt cache (in `intent_router.py`) | prompt, its age | refresh | bridges | an empty catalogue is cached for the whole ttl; refreshes overlap | tools that are back are offered again |
| App life cycle (`app.py`, `app_dependencies.py`, `enterprise_agent_service.py`) | dependencies | start, stop | bridges, stores | partial failure of start and stop; tools fetched once | what was opened is closed |
| MCP service life cycle (`base/mcp_service.py`) | the handles of authorizer, cache and pool on one service object, and who made them | per-session start and end | FastMCP, the tool calls of all sessions | sessions overlap: an end closes what others use, two starts both open a pool; a close that raises leaves its handle | a quiet server is usable, but for what a failed close left; only overlapping leaks or disturbs; an end ends |
| Compaction, prompts, configuration | none | pure functions | graph | boundaries | keeps the newest messages within the budget |
| Authentication, user context (`auth.py`, `mcp_auth.py`) | secrets of two generations, a ContextVar per request | sign, verify, row and column rules | agents, tool servers | signer and server hold different secrets while these are rotated; a context that is missing or garbled | nobody sees more than verified claims allow |
| Telemetry, logging, metrics | counters | — | all | observes only | — |
| Dashboard | the client's list, its stream state | hooks | chat route | merges server list, local list and stream data | no conversation lost or shown twice |
| Business services (`payments_service.py`, `salesforce_service.py`, `data_query_service.py`, `news_search_service.py`) | one connection per call | the queries of a summary, one SELECT, a search | databases, search API | other applications commit between the queries of one answer; parts of an answer that come from different queries | an answer is of one moment; its figures agree |
| Schema introspection (`schema_introspection.py`) | none | the catalogue queries | database, the agent's planner | no transaction, while tables are migrated | what is listed was there |

`PROJECT.json` lists the hazards of these components at their lines, with the property that watches each
one, or why none does yet.

## 2. The modules

| module | what it models | built from |
|---|---|---|
| `BreakerContract` | what a breaker promises, without its counter or clock | |
| `CircuitBreaker` | the breaker's two fields and three methods, as operators | |
| `OpaClient` | any number of concurrent `authorize` calls through one breaker | `CircuitBreaker`, `BreakerContract` |
| `ToolContract` | what a tool server promises its caller: each call answered on its own, as without a cache | |
| `ToolServer` | the six tool handlers over one cache and its breaker | `CircuitBreaker`, `ToolContract` |
| `BridgeContract` | the three phases of a bridge that its user sees | |
| `McpBridge` | owner, reconnect loop and tool calls around one session | `BridgeContract` |
| `ConversationStore` | the two back ends, as operators | |
| `ChatService` | any number of turns, and the conversation routes, over one store of either back end | `ConversationStore` |
| `AgentApp` | start and stop of the agent with its bridges and store, and the tool catalogue in the router's prompt | |
| `ServiceLifespan` | the sessions of a tool server over its one service object, with their tool calls | |
| `AgentContext` | signing, verifying and reading the claims of a caller, as operators | |
| `PaymentQueries`, `CrmQueries`, `DataQueries`, `NewsQueries` | what each query returns on a state of the database, and the answers made of their rows, as operators | |
| `Summaries` | one caller of all business services, query by query, with other applications that commit in between | the five above |
| `StreamEncoder` | one encoder per run, as operators | |
| `AnalyticsGraph` | the turns of one thread over its checkpoint | `StreamEncoder` |
| `*Proofs` | the theorems about the module they are named after | TLAPS |
| `MC*` | callers, plans and small databases for TLC; the other modules need none and are checked directly | |

Where one component contains another (breaker in client, store in service, encoder in graph) the contained
one is a module of operators over its own variables, and the container has the actions.  Where one merely
calls another, the caller's module has a choice over the answers that the callee may give: `ToolServer`
sees OPA as yes or no (a caller cannot tell a refusal from a failure, which `FailClosed` of `OpaClient`
justifies), `AgentApp` sees a bridge as the places of `McpBridge`'s loop, `ChatService` sees the graph as
events that end or raise, and `AnalyticsGraph` sees a tool call as data, "not found" or an error.
External: OPA, Redis, Postgres, the MCP transport, the LLM, the applications that write the databases.
They fail and recover at any moment, except where a run says otherwise.

### Correspondence with the code

**CircuitBreaker.** `openFor` is `max(0, _open_until - now)`, so that time is a countdown and the state
space is finite; `Elapse` is one unit passing.  `failures` stops at `CountCap`, at or above the threshold,
beyond which the code does not tell counts apart either.

**OpaClient.** `pc` has the three places where `authorize` suspends or rests.  `ShortCircuit` and
`FirstPost` are the two sides of the `is_open` test (and happen in one step with it, there is no await
between them); `ReceiveDecision`, `ReceiveHttpError` and `AttemptLost` are the ends of one post;
`RetryLater` and `GiveUp` are the tail of the `except` branches, and record the failure where the code
does. An answer is the policy's Boolean or something else; `AsBool` is Python's `bool(...)` of it, so a
malformed `result` that Python takes for true is granted, as `security.py` line 123 has it.  `Cancel` is a
client that leaves.  An answer that OPA sent may be overtaken by the time-out.

**ToolServer.** Places: authorizing, the two halves of a `GET` (`looking`, `reading`), executing, the two
halves of a `SETEX` (`storing`, `confirming`); between the halves Redis does the command.  A caller is the
three attributes of its claims that matter here, and the handlers differ in data only (`Handlers`): which
attributes the service's result depends on (`sees`), which of them the cache key names (`names`), whether
a failure may come as an ordinary result, and what becomes of an exception.  `KeysTell` says that the
keys of the tools offered name all that their results depend on; every handler satisfies it but
`get_salesforce_summary`.  A value is its kind, the view it was computed for and its age; its text does
not matter to any property.  A write that its call gave up, after the time-out or because the client went
away, stays in `overdue`: Redis may do it at any time (`LateWrite`), and what it stores is `late`, of
unknown age.  `RedisTimeout` is the connect and the socket time-out of one command together.

**McpBridge.** `owner` is the agent's life cycle (`connect` and `disconnect` with their waits), `loop` the
place of `_reconnect_loop`: top, opening, handshaking, holding, unwinding, sleeping, done.  `session` is
`_session is not None`; `linkUp` is the transport under it.  `DisconnectCancelled` is a `disconnect` that
is cancelled while it waits: the await hands the cancellation to the loop's task, which breaks out of it.
A call holds on to the session it read, which may be gone by the time it is used.  `downFor` and `tries`
watch a server that is down for `RetryLoad`; the code has no such counters.

**AgentApp.** `stage` is the place of `lifespan`, one per `await`; what raises there ends the process
(`aborted`).  A bridge is `closed`, `down` (its loop sleeps), `opening`, `handshaking`, `ready` or `stale`
(the link died unnoticed).  `is_connected` holds in the last three, and in two of them the bridge does not
answer in order.  The loop looks at its stop event before an attempt (`Begins`) and not in it, so one that
is under way when the bridge is told to stop goes on and still sets the session (`Opens`).  A bridge in
`unsupported` has a tool whose schema cannot be converted, and raises when its tools are listed.  A turn
is `idle` (not in the router), `listing` (in `_MCPBridgeToolsProvider`, waiting for the bridge `at`) or
`asking` (the model, with the prompt).  The prompt is what it offers: the bridges whose tools it lists.
`promptAge` and `listed` are `now - _cached_at` and the time since the turn took `now`, so building a
prompt sets its age to that of the list.  Ages are not told apart beyond the time to live. `since` and
`calmFor` are history, for the properties.

**ConversationStore, ChatService.** A method of the memory store has no await and is one step; a method of
the Postgres store is a statement per step (`add_message`: `Insert`, then `Touch`).  Every step may find the
database gone, and a statement that raised may have been executed or not (`DoneOrNot`).  `frames` is what
the client was sent, with adjacent data frames as one.  `Cancel` is a client that goes away, at any
suspension.  `parted` remembers that the client deleted a conversation under a running turn, which is the
only way an answer may be there without its question.

**ServiceLifespan.** A resource is named by the session that made it, or `injected`.  `held` and `owns` are
the fields of the service object; `status` is what became of each resource, which the code does not
record.  A session goes through `lifespan` await by await: `opening` (`create_pool`), `serving`, and
`closing`, where `closing` and `target` say which kind and which resource it has taken for closing, as
the method reads the handle before its await and resets it after.  `CloseFails` is a close that raises or is
cancelled: the resource is gone (`asyncpg` terminates the pool), the handle stays, the kinds after it are
not closed.  `broken` and `spoiled` are history: which handles a failed close has left, and which sessions
started alone with one of those.  A call reads the authorizer's handle
when it begins and the pool that the business service was made with when it needs it.  `overlapped` is
history: the sessions that were ever in the server together with another.

**AgentContext, Summaries and the queries.** A state of the database is the status of each payment that
there may be, the names that the dimension tables list, the records of the CRM, and the columns of the
tables with what they hold.  A query is an operator on such a state, named for what it returns; a call is
`Authorize`, `Open`, and one `Fetch` per query, whose result depends on `View`: the state that its
`REPEATABLE READ` transaction saw first, or for the catalogue the state of the moment.  `DbChanges` is one
commit of another application.  `lived` is history: the states during the call.  Of the server's cache
only that of the CRM tool is here, because its keys do not tell all that an answer depends on: `kept` is
one entry of it, with the claims it was computed for; `Hit` answers from it, `Keep` replaces it and
`Expire` drops it.  `entitled` is history: the claims for which the answer in hand was computed.  An
answer is made of the rows only (`ClientAnswer`, `BankAnswer`, `CrmAnswer`, ...), as in the code.  A
signature is the generation of the secret it was made with; `header` is what the caller's agent sent,
which may be forged, signed a generation too early or too late, or missing.

**StreamEncoder, AnalyticsGraph.** A turn is one `astream_events` run.  A node is one step: what it awaits
in between, it keeps in locals and writes with its result.  Nodes of two runs interleave when `Overlap` is
TRUE, because nothing serialises the requests of a thread.  `saved` is the checkpoint, written after each
node; `state[t]` is the run's own copy, taken when it begins.  `context` is `raw_data_context` with a
result's key, turn and outcome; `suggestion` is its entry `_client_suggestions`, kept apart.  A synthesis
attempt may stream tokens and then fail, and be retried.  Texts are abstracted to how the narrative was
shown: `tokens` are the attempts whose tokens went out, `narratives` counts how often it was sent as a
whole.  Synthesized narratives are non-empty here.

## 3. The runs

Passing runs (every action and disjunct fires in one of them):

| run | bounds | shows |
|---|---|---|
| `opa` | 2 callers, threshold 2, window 2, 2 retries, back-off 1 | `FailClosed`; `LoadWhileOpen` (a caller posts to an open circuit at most its remaining retries); the abstract breaker `KeepsBreakerContract`; `AuthorizeReturns`, `HealsWithOpa` |
| `tools_safety` | 2 calls, callers of 2 column masks, ttl 1, Redis time-out 1, threshold 1, window 1 | `AnswersAreForTheCaller`, `FreshEnough` (age below ttl + two Redis time-outs, unless the write was late), `OpenCircuitDrains`, the abstract server without a cache `KeepsToolContract`, `CallsReturn` |
| `bridge` | 1 request, start-up 2, call time-out 1, delay cap 4, watch 12 | `NothingOutlives` (no task after disconnect, no session without its connection), `NoWorkAfterStop`, `RetryLoad`, the abstract bridge `KeepsBridgeContract`; if no attempt is silent for ever, `DisconnectEnds`, and, if dead links are noticed too, `Heals` |
| `app` | 2 bridges, any of them with an unsupported schema, 2 turns, time to live 2, list time-out 1 | `CatalogueRecovers` and `OfferedWasReady` (the catalogue follows the bridges, within a time to live, both ways); `StopEnds` (a stop ends, with everything closed, if no attempt is silent for ever) |
| `chat` | 2 turns, 2 conversation ids, both back ends | `FramesWellFormed`, `OnlyCompletedTurnsStored`, `AnswersFollowQuestions` (strict in memory, where a method has no await), `TurnsOnlyAdd`, `TurnsEnd` |
| `graph` | 2 overlapping turns, three plans of up to two steps, 1 retry | `ToolsRunOwnPlan`, `FreshResults`, `SuggestionsGrounded`, `DistinctCallsAnswered`, `NarrativeShown`, `ContextPersists`, `TurnsEnd` (if its tools end) |
| `service` | 3 sessions, 1 of them calling tools, 1 whose close may fail, every choice of injected clients | `QuietMeansUsable` (whatever overlapped before, a server without sessions has no closed client left but where the last close failed), `OpenIsHeld` (only overlapping sessions leak), `AloneUndisturbed`, `SessionsEnd` (if queries end) |
| `summary` | 4 payments, 3 names, 2 CRM accounts, 2 tables, 1 commit at any moment, 3 identities | `AnswersOneMoment` (what nine queries say is the answer on one committed state), `CatalogueWasThere`, `FiguresAgree` (totals, rails, banks and status mix, each from its own query), `NoMoreThanClaims` (an account is shown on the caller's claims, or out of the cache on those of an earlier caller of the same role) |

Counterexample runs, each for a sentence of the repository that the code does not keep:

| run | the sentence | what TLC shows |
|---|---|---|
| `service_shared` | `base/mcp_service.py`: "Ensure it was injected or created during startup", "Teardown only owned resources" | `_owns_*` says that some session made a client, not which: the end of one session takes the authorizer from another whose startup made sure of it |
| `tools_crm` | `salesforce_mcp_service.py`: "Cache key includes role so different clearance levels get separate entries" | the key names the role, and the summary depends on the assigned accounts as well: what was computed for one relationship manager is served to another of the same role who has other accounts |
| `tools_cached_errors` | `docs/DEVELOPER_GUIDE.md`: "never cache errors" | a service that returns its failure as text has it cached for a ttl, past the end of the outage |
| `graph_stale` | the synthesis prompt: "the requested client was not found" | the suggestion of an earlier turn is never removed, so the model is told so in a turn whose look-ups succeeded |

While reading, these were noticed as well, and are in the models as the code has them: the first back-off
is 2 s where the docstring says 1 s; `is_connected`, "live and ready for tool calls", is true before
`initialize()` has returned, and on a link that died unnoticed, and one bridge that raises while it is
asked for its tools hides those of all the others, for a time to live; the apology of a synthesis that
failed three times is stored like an answer (the architecture notes say errors are not persisted); a plan
that uses one tool twice closes one of its two tool calls twice and the other never, because the encoder
keeps one id per tool name (hence the condition of `DistinctCallsAnswered`); of two clients looked up
together the suggestion may name the one that was found; of two overlapping turns the later checkpoint
drops what the other fetched (hence the condition in `ContextPersists` that a turn has seen the latest
one); a suggestion is made when any step of the plan came back "not found", a query beside a look-up that
succeeded for instance, which is all that `SuggestionsGrounded` claims; when tokens went out and then
every attempt failed the user has the fragments and no narrative, because the encoder only looks at
whether there were tokens.

OPA's `result` goes through Python's `bool`, so `FailClosed` reads: OPA's answer, in this very attempt,
was true or a value that Python takes for true.  A `SETEX` that timed out at the client may be done by Redis
at any later time, and then nothing bounds the age of what is served (`FreshEnough` excepts it).
`disconnect` waits for the reconnect loop without a time-out, and the loop for `initialize()`.

In `resilience.py` lines 36-38 say that after the window "a single probe is allowed through", but every
waiting call is, until one has an outcome; `BreakerContract` promises what the code does.  In the
business services: `_apply_col_mask` looks the names of a record's fields up in a mask of column names,
and the profile of a payments summary has other field names (`ProfileColumns`), so it masks nothing
there; the bank summary takes no mask at all; the docstring of the CRM summary promises a warning of an
ambiguous name that is not given; `auth.py` line 169 calls an empty tuple of accounts "no row
restriction", and the code denies; a
summary's `tx_count` by rail leaves inbound payments out for a client and not for a bank; the row filter
of the payments server is built and never denies.  While secrets are rotated a server accepts the
previous one, not the next: a signer that is redeployed first is not believed.  The statement with which
`mcp_tool_caller.py` looks for similar names has a parameter `$1` "bound at execution time", but
`execute_read_query` takes no parameters, so the statement raises and the suggestions are always empty
(`Bound`).  Articles from Tavily are all neutral news, so with a key for it the news signal is `NEUTRAL`
or `NO_NEWS` only.

### Why the bounds are enough

Two callers are what an interleaving of breaker outcomes needs: one that is late and one that is not; a
threshold of 2 separates "a failure" from "opens", two retries separate "a retry while open" from "the
last one".  Two calls and two callers are what it takes to fill a cache for the wrong reader; with a ttl
and a Redis time-out of 1 a write under way, an entry about to expire and a slow lookup add up to the
greatest age, and with a threshold of 1 every failure meets calls that are under way.  A delay cap of 4 is
reached after two failures, so uncapped, capped and counter-at-its-limit all happen; a watch of 12 units
sees four attempts. Two turns meet at every pair of statements. The three plans are a look-up, the look-up
of another client beside a query, and nothing: the look-ups share a result key, so each turn can find
results of another under its own; one failed and one successful attempt are what a retry adds.  Two
bridges are one that works and one, before or after it in the dict, that does not; two turns overlap a
slow list with a quick one; a time to live of 2 and a list time-out of 1 let a prompt be made of a list
that is old already.  Three sessions are two that overlap and one before, between or after them; one that
calls tools is enough, because another's call only delays the pool, and one whose close may fail, because
the next that closes the kind repairs it or fails in its turn.  One followed entry of the CRM's cache is
what a call can find.  One commit during a call is what a mixture of two states needs; four payments have
two rails, two banks, both periods, a payment back and more counterparties than the list shows; a column
with more values than are listed and one with fewer.  And for the safety properties the small instances
are not what they rest on: section 5.

All bounds are constants, and are named where they are declared: `CountCap`, `FailureCap` and `WatchCap`
are only of the models, the others are settings of the code in small units.  No run uses symmetry.
Deadlock is checked in every run; where all work has ended the module has an explicit stuttering step.

## 4. Fairness

Only what the event loop and the time-outs give.  Where the code awaits something without a time-out,
that it ends is not fairness but a hypothesis of the property:

- `OpaClient`: time passes, a post ends (httpx has a time-out), a sleep that is over is followed by the
  retry, and an OPA that was asked and works answers.  Nothing makes OPA work: `HealsWithOpa` supposes
  that it does from some moment on.
- `ToolServer`: time passes and each call takes its next step.  Redis owes nothing: a command that got no
  answer ends by the client's time-out.  The authorizer returns by `AuthorizeReturns`, and a business
  service is taken to return or raise; of their queries only that of `execute_read_query` has a statement
  time-out, the others end when the database ends them.
- `McpBridge`: time passes, the loop's task runs whenever it is ready, waits with a time-out end.  Nothing
  is assumed of the server, nor that entering `sse_client` and `initialize()` end, nor that a dead link is
  noticed: none of them has a time-out or a heartbeat of the bridge's.  `DisconnectEnds` and `Heals` suppose
  it (`AttemptsEnd`, `DeadLinksShow`); `Heals` also supposes that the server stays up and that the owner
  does not close the bridge.
- `AgentApp`: what the stop awaits (`Stops`: the store's pool, whose commands have a time-out,
  `postgres_store.py` line 36, and each disconnect) and the loop that sees the stop event while it holds a
  session (`SeesStop`).  That an attempt to connect is not silent for ever is a hypothesis of `StopEnds`.
  A list is cut off by its time-out, which is in the guard of `Tick` (`asyncio.wait_for`), and a bridge
  that stays ready answers within it; that is an assumption about the servers.
- `ChatService`: the steps before and after the graph.  The graph is not taken to end: listing the tools
  in `mcp_tool_caller` has no time-out, so `TurnsEnd` is stated under the hypothesis that it does.
- `ServiceLifespan`: a close that waits for nobody gets done, or raises.  `create_pool` sets no
  `command_timeout`, so neither a query nor the close of its pool is taken to end; `SessionsEnd` supposes
  that queries do.  No session is obliged to start, to call or to end.
- `AnalyticsGraph`: the nodes that wait for a model (`ModelNode`), whose client has a time-out of its own.
  `CallTools` lists the tools without one, so `TurnsEnd` supposes that a turn does not stay there.

No strong fairness is used, and cancellation, failures, tokens and clients are never obliged to happen.

## 5. Proofs

Eight modules hold theorems.  Every theorem holds for any number of callers, calls, sessions, turns,
conversations, tools, plans and commits, for any time-outs, and for databases of any size, under the
assumption named in the module (settings are naturals, thresholds positive, model values distinct).  Each
module proves, in this order, types, then an inductive invariant `IInv` (`InitInv`, `StepInv`), then the
properties, then the refinement and the variant if it has one.  The type invariants are theorems and not
checked again by the runs.

Every invariant and action property of a passing run is a theorem, and so is every refinement.
`ServedToTheRightCaller` and `ImplementsUncached` have the hypothesis `KeysTell`, which is what the run's
handler satisfies, every other one but `get_salesforce_summary` too; for that tool the run `tools_crm` shows
that it is needed, and two theorems say what is left: `ServedForTheKey`, a result is of a granted call and was
computed for a caller with the same cache key, and `ClaimsBoundAnswers`, it was computed for claims of the same
role that reach the account.

### The inductive invariants

| module | `IInv` beside types and properties | why it is needed |
|---|---|---|
| `OpaClientProofs` | `RetryBudget`, `OpenPostsAreRetries` | `LoadWhileOpen` counts posts; that they are few follows from the attempts that are left, and that the first post of a call never goes to an open circuit |
| `ToolServerProofs` | `CacheSound`, `CallsSound` | a hit is right only if what every entry, and every write that Redis may yet do, holds was computed for a caller with its key, and that only if what every call is about to store is; ages add up over a slow write, the entry's ttl and a slow lookup |
| `McpBridgeProofs` | `TaskOwned`, `CallsHoldSession` | who may have a task and in which place it is, for each phase of the owner |
| | `Spread`, for `RetryLoad` | the attempts that a server has seen while it was down were each counted as a failure, but for the one under way, and the sleep after the last lies within the time that it has been down; so the next attempt is as late as the sum of the sleeps says |
| `AgentAppProofs` | `PromptSound`, `ListSound`, `TroubleShows` | what a prompt may and must offer at its age holds of every list that is under way, at the age of that; so it does not matter which list ends last.  It is what taking `now` before the list is for: `CatalogueRecovers` fails with a time taken after it |
| `ServiceLifespanProofs` | `OverlapShows`, `HandlesGood`, `ClosersKnow`, `OpenersKnow`, `AloneUnspoiled`, `AloneEquipped` | an end resets the handle that it finds after its await, a start replaces the one that it finds after `create_pool`; both may be another's, and then the two overlapped.  A closed client is held only while somebody is about to reset the handle, or after a close that failed; while a session is alone none fails, so what it met when it started is all there is |
| `ChatServiceProofs` | `WireAt`, `StoredAt`, `NoOrphans` | what was sent and what is stored at each place of a turn: the stream's grammar and the order of rows are properties of all places together |
| `SummariesProofs` | `NothingEarly`, `ContextKnown`, `SnapshotLived` | nothing is read before the policy has allowed it, the claims the server goes by are those it verified, and the snapshot is a database that was committed during the call |
| | `KeptBounded` | the cached answer is one that the claims it was computed for allow, and these have the role of its key |
| | `RowsRead`, `CatalogueRead`, `AnswerOfRows` | each row is the query of its place on the snapshot (of the catalogue: on some state of the call), and the answer is made of these rows; with `SnapshotLived`, the answer is what one committed database says |
| `AnalyticsGraphProofs` | `Unheard`, `EncoderFollows`, `OneRun` | a turn has sent nothing before it starts, the encoder's flags follow the node that is active, whether a narrative was sent follows the attempts that streamed tokens, and without overlap one run at a time holds the checkpoint |
| | `IdsKnown`, for `DistinctCallsAnswered` | between the router and the tools the encoder has begun exactly the calls of the turn's plan and answered none, and knows each tool by the last step that uses it, which is the only one if no tool is used twice |

### Refinements

Initial states map to initial states, each step to a step or a stutter:

- `RefinesBreakerContract`, in `OpaClientProofs` for the authorizer's breaker and in `ToolServerProofs`
  for that of the cache: outcomes recorded late and in any order implement `BreakerContract`.
- `ImplementsUncached`: `ToolServer` implements `ToolContract`, a server without cache, breaker or other
  callers.  A call's `phase` is idle, asking (until the authorizer's word) or working; its `view` is what
  its answer may depend on; its `answer` is refused, failed, none, or data of a view.  The step that
  returns a cached value must give data of the *call's* view: that is `CacheSound` with `KeysTell`, so the
  refinement rests on the invariant before and after the step.  How old the data may be is `ServedFresh`.
- `RefinesBridgeContract`: owner, loop and requests of `McpBridge` implement the three phases that the user
  of a bridge sees.  `Clean` says of `AgentApp` that an orderly stop leaves nothing open.

### Variants

What the runs check as liveness has two halves: no step takes anybody back, and the next step is taken.
The second is fairness, which the provers at hand cannot use; the first is proved, as an action property
with a variant.  A measure never grows while a call (or turn, or stop) is under way, whatever anybody
else does, and each step of its own lowers it:

| theorem | the measure | liveness it is half of |
|---|---|---|
| `AuthorizeIsBounded` (`OpaClientProofs`) | posts and sleeps left, then what is left of the sleep | `AuthorizeReturns` |
| `CallsAreBounded` (`ToolServerProofs`) | places before the call is back, at most seven, the second try of the news search included (no run offers that tool) | `CallsReturn` |
| `StopIsBounded` (`McpBridgeProofs`) | places of the loop before it is done, once `stop` is set; an attempt that is under way may still open its session | `DisconnectEnds` |
| `EndsAreBounded` (`ServiceLifespanProofs`) | kinds still to close, awaits of a call; and nobody takes a connection of a pool that is being closed | `SessionsEnd` |
| `TurnsAreBounded` (`ChatServiceProofs`) | places of the turn, besides the events of its graph | `TurnsEnd` of `ChatService` |
| `TurnsAreBounded` (`AnalyticsGraphProofs`) | nodes and attempts left | `TurnsEnd` of `AnalyticsGraph` |

### Other theorems, and how data is handled

`ContextIsKept` and `NothingFetchedIsLost` say two things of one thread: a turn that has seen the latest
checkpoint loses nothing of it, and if turns do not overlap (`Overlap = FALSE`) every turn has.

The library's induction rules take an operator as a parameter, which the provers cannot instantiate. Where
an induction is needed all the same it is made of sets: `NatSetInduction` takes the least number outside
of a set (`WFMin` on `<` of the naturals), and `SubsetInduction` does it by the size of a subset.
`NatRecursion` of `McpBridgeProofs` shows from it that a recursive function of its shape is defined
everywhere; `Power` and `Earliest` (the sum of the sleeps) are two.  `SumsExist` of `SummariesProofs` does
the same for the sums of the community modules, which fold a function over a finite set; from that follow
the sum of a union and of a split by rail, bank or status, and `CompleteFiguresAgree` for any finite set
of payments of any positive amounts (the schema does not check that they are; it is an assumption about
the data).  `LastIndexOf` of the encoder is a choice, found as a minimal set of later steps. No module
uses a `RECURSIVE` operator.

Model-checked only: liveness (`AuthorizeReturns`, `HealsWithOpa`, `CallsReturn`, `DisconnectEnds`,
`Heals`, `StopEnds`, `SessionsEnd`, and `TurnsEnd` of both modules), for it needs fairness and `ENABLED`.
The four sentences of section 3 that the code does not keep are, of course, not theorems.

`tlapm <Module>Proofs.tla` checks a module's proofs, `tlc -config <cfg> <module>` makes a run.

## 6. Not modelled, and the plan

Left out, and why:

- Telemetry, metrics and logging observe and never decide.  Prompts, the wording of frames and answers,
  and the cut of an answer at `max_result_bytes` are text.
- `bridge_health.py` and `mcp_server_base.py` are exported and constructed by no agent and no server, so
  they have no behaviour in this system.
- The dashboard's hooks run in the order that `useChat`, SWR and React give them, which are not in the
  repository; a model would be of those libraries.
- The order of the conversation list (`updated_at`): the later of two writes may carry the earlier time,
  which nothing but the list shows.
- `auth_context`, the login headers of the dashboard, `thread_id.py` and the per-request ContextVar are
  sequential and stateless.
- The relationships file and the Markdown of the schema context, the conversion of JSON schemas to
  argument models in the bridge: formatting.

Planned, in this order:

1. Proofs: that the turns of `ChatService` and the runs of `AnalyticsGraph` implement an abstract chat, in
   which a turn is answered once or not at all; a variant for the orderly stop of `AgentApp`.
2. `EnterpriseAgentService`: the second agent, which fetches its tools only once after a connect that may
   have timed out.
3. Compaction of the message list and `migrate_state` against a reference definition, over bounded
   inputs.
4. A refinement between `AnalyticsGraph` and the graph that `ChatService` sees, and the remaining frames
   of the encoder.
