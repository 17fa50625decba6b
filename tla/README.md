# spanbox in TLA+

spanbox is one Go process in front of one SQLite database. It receives spans of
LLM applications by OTLP, by relaying model calls as a proxy and by import,
stores them, summarises them per trace, announces them to live clients and
deletes them after a while. This directory models the parts of it in which
something can go wrong between two steps: transactions, two goroutines, a cache
and its table, a queue at its limit, a crash.

All paths below are relative to the repository (`src/` here).

## Inventory

| Part | Source | State it keeps | Operations | What makes it correct |
|---|---|---|---|---|
| Span store, writing side | `internal/store/insert.go`, `store.go`, triggers in `migrate.go` | tables `spans`, `traces`, index `spans_fts` | `InsertBatch`, `purgeBatch`, the triggers | summary and index always match the spans; a batch is all or nothing; costs stay in range |
| Retention | `internal/store/retention.go`, `cmd/spanbox/main.go` | `retentionMu`, `wal_autocheckpoint`, the worker's place in `Purge` | `Purge`, `reclaim`, `checkpointRetention`, `PauseRetention` | only what is long over is deleted; an import is left alone; checkpoints are turned on again; the purge ends |
| Proxy capture | `internal/proxy/relay.go`, `turns.go`, `internal/store/proxy_tool_calls.go`, `proxy_turns.go` | capture slots, `toolMu`, FIFO cache of 1,024 tool calls, tables `proxy_tool_calls` and `proxy_turns` | `captureAsync`, `capture`, `recordDroppedOrigins`, `toolSpansLocked`, `commitProxy`, `upsertProxyTurn` | a tool result is linked to the call that issued it, with the time of the first result; the root of a turn covers its calls; nothing is lost by eviction or restart |
| Proxy relay | `internal/proxy/relay.go` | per request one response stream, its reader goroutine, an idle timer | `ServeHTTP`, `relay`, `stream`, `captureAsync` | all that came is relayed; what is captured is what was relayed; no goroutine stays behind |
| Proxy parsers | `internal/proxy/parser.go`, `turns.go` | none | `parseExchange`, stream assembly per vendor, `toolCalls`, `toolResults`, `turnAnchor` | chunks and non-streaming answers give the same message and usage; a stream that is cut keeps what was sent; results find their calls in the next request; a prompt begins a turn, a continuation does not |
| OTLP log pairing | `internal/otlp/logs.go` | queues of requests that wait for their response, a count, a mutex | `Decode`, `addPending`, `popPending`, `expire`, `dropOldest` | a request is paired once, with a response that is not earlier, also when batches are sent again; the count is right |
| OTLP decoding, normalization | `internal/otlp/decode.go`, `json.go`, `internal/normalize` | none | `Decode`, `Span`, `detectKind`, token and cost columns, content extraction | one kind per span, and the same columns whatever the SDK calls them |
| Ingest, live events | `internal/web/ingest.go`, `events.go` | ingest slots, the set of subscribers, a queue of 32 for each | `limitIngest`, `ingest`, `publishIngestEvents`, `subscribe`, `eventStream` | an event tells of a stored span; a slow client stalls nobody |
| Pipeline, pricing | `internal/pipeline`, `internal/pricing` | the price table, read only | `Commit`, `lookup`, `Cost` | a reply costs the same by every path; every token is paid once, at the rate of its place; a stated cost is kept |
| Import, export | `internal/web/export.go`, `internal/store/export.go` | a batch of up to 500 spans | `importSpans`, `ExportSpans` | committed batches stay; an export can be imported at the same cost |
| Schema | `internal/store/migrate.go` | the file's tables, `user_version`, header; four connection pools | `Open` | a start after a crash goes on where it stopped; a file is never lowered; a store is complete or not handed out |
| Queries, pages | `internal/store/query.go`, `sqlpage.go`, `internal/web/agent_json.go`, `pages.go` | none; a cursor the client holds | lists with cursors, a trace with its spans, search, charts, user SQL | pages neither skip nor repeat, and end; what is put together from several queries fits together |
| UI, server, auth, configuration | `internal/web`, `internal/config` | login cookies | handlers | |
| Process | `cmd/spanbox/main.go` | signal, shutdown timeout | `main` | captures that were admitted are finished |

How the parts interact: the ingest, import and capture handlers call
`pipeline.Commit`, which writes through the store's single writer connection and,
for OTLP only, calls back into the broadcaster. An import holds `retentionMu`; the
retention worker only tries to take it. The capture goroutines share `toolMu`, the
cache and the two proxy tables, which the retention worker deletes from without
taking `toolMu`. Readers use their own connections and meet the writers only in
the write-ahead log.

The hard behaviours are listed line by line under `hazards` in `PROJECT.json`.

## Modules

| Module | What it is |
|---|---|
| `SpanTable` | The two tables and the index as values; the SQL that changes them as operators. No state. |
| `SpanLedger` | Abstract: what the store promises of its spans, one action per batch and per purge. |
| `SpanStore` | The transactions of `InsertBatch` and `purgeBatch`, a statement at a time, with a rollback at any of them. Implements `SpanLedger`. |
| `TraceReads` | Composes `SpanStore` with a client that walks a list, opens a trace or loads the charts, one query at a time. |
| `RecentArrivals` | `SpanStore` with a clock and the cutoff of `retentionSweep`. |
| `ProxyTables` | Spans, rows and cache entries the proxy derives from an exchange, as operators. No state. |
| `ToolCallRegister` | Abstract: what the proxy promises of tool calls, without cache, database, locks or restarts. |
| `ProxyCapture` | Captures, dropped captures, retention sweeps and restarts around `toolMu`, the cache and the tables. Implements `ToolCallRegister`. |
| `RetentionWorker` | `Purge` and everything it does around its deletes, with imports, ingest and readers. |
| `LogPairing` | `LogsAdapter`, and the commits of the batches it has decoded. |
| `IngestEvents` | Ingest requests, their slots and the clients of `/events`. |
| `RelayStream` | Relayed requests with their reader goroutines and timers, clients, and the shutdown of the process. |
| `StreamParsing` | The parsers of streamed and whole responses of four APIs, fed with every way to cut a reply. |
| `Pricing` | The columns that make the cost of a span, which spans are priced, and the price, as operators. No state. |
| `ReplyCosts` | Composes `StreamParsing` and `Pricing`: the cost of one reply by every path it can come to the store. |
| `ToolHistories` | Calls, results and prompts as they are read from a request and a reply, as operators. No state. |
| `Conversation` | Composes `ReplyCosts` and `ToolHistories`: an agent's conversation over several captured exchanges. |
| `Migrations` | `Open`, step by step, with kills and failures, by newer and older programs. |
| `TraceReadsProofs`, `RetentionWorkerProofs`, `MigrationsProofs`, `ProxyCaptureProofs`, `LogPairingProofs`, `IngestEventsProofs`, `RelayStreamProofs`, `ConversationProofs` | Theorems and their proofs, each over the module of its name and those it composes: `TraceReadsProofs` has those of `SpanStore`, `ConversationProofs` those of `StreamParsing`. |
| `MC*` | Instances for TLC. |

### SpanStore and SpanTable

`db` is what is committed; `tx` is the one transaction that the writer connection
(`SetMaxOpenConns(1)`) can have open, with its private copy of the tables. Each
`Exec` of `insertBatch` and `purgeBatch` is an action on the copy; `Commit`
publishes it and `Rollback` stands for a failing statement, a cancelled request
and a crash alike, since SQLite treats them alike. The check of span costs before
the transaction is the guard of `BeginInsert`; the check of the trace's sum after
each recomputation is in `RecomputeTrace`.

A span keeps the columns that the summary, the index or the retention rule read.
`tokens` stands for both token columns and `name` for the three indexed columns,
as one rule treats them alike. Costs are integers: a floating-point sum depends on
the order in which SQLite adds, which no property is about.

### TraceReads

`read` is what a client has of the answer it is reading; the reads change nothing
in the store, so one at a time beside the writer is enough. Each page of a list is
a query of its own over what is committed (`FirstPage`, `NextPage`): one row more
than was asked for makes the next cursor, the key of the last row. A trace is its
summary (`OpenTrace`) and its spans (`ReadSpans`), and the page reads its first
span again (`SelectFirst`, `ReadFirst`); the tree and the bars are computed from
the two. The charts are three scans (`BeginCharts`, `ScanPercentiles`,
`ScanModels`) of the snapshot that the first one fixes. `steady`, `shown`,
`twice`, `lost` and `purged` are history.

A walk takes one cursor that the code confuses with none: `ListTraces` and
`ListSessions` test the cursor's time against 0, so the walk begins again after a
page that ends at time 0 (below). The case is in the instance, and
`SteadyRowsShownOnce` and `PagingEnds` except exactly the walks in which it
happens. A search may lose a hit that has the start and the span id of another
trace's hit at the end of a page, since its key names no trace.
Left out: `sort=relevance`, which has no pages; the HTML search page, one query of
100 hits; filters by text and by number, which select rows as `errors` does;
ranges relative to the present, which move between two pages; windows on contents.

### ProxyCapture and ProxyTables

An exchange is a fixed record: its scope (route and session), its anchor (index
and hash of the last user message), the calls its response issues, the results
its request carries, its times and whether it failed. `stage` follows the
exchange through `captureAsync`; `job` is the capture that holds `toolMu`, as it
works through `proxyTurn` (`FindTurn`), the results (`CorrelateResult`), the
calls (`IssueCall`), the transaction (`Commit`), the cache, one call at a time in any
order (`PublishCall`), and the release of `toolMu` (`Unlock`). An exchange that
found no slot runs the same steps as `recordDroppedOrigins`: no results, no spans.
`Abandon` is every error between taking `toolMu` and the commit. The sweep deletes
calls, turns and traces in statements of their own between the steps of a capture.
`Crash` empties the cache and loses the captures that have not committed.

Identifiers are tuples of what the code hashes, so equal seeds give equal
identifiers and nothing else does. What the root of a turn shows as output is the
identity of the model call that wrote it. A commit takes one step, because all its
statements run in one writer transaction, which `SpanStore` takes apart.
Left out: that a tool span fails to normalize and is skipped by itself, and that
two exchanges have the same response id.

`ImplementsRegister` maps the register's calls to what a lookup would find (`Known`):
the cache laid over the rows and, between a commit and its last `PublishCall`, the
committed calls of the capture over both. So an eviction, a restart, a failed
transaction and a sweep that has deleted a row which is still cached forget old
calls at most, and the issuer and the first result of a call never change under
any of them.

### RetentionWorker

`worker.at` is the statement of `Purge`, `purge` or `reclaim` that comes next;
`worker.resume` is where `checkpointRetention` returns to. `policy` is the
connection's `wal_autocheckpoint`. The log and the space to reclaim are counts:
`wal` grows with each commit up to the limit that makes a checkpoint insist, and
`garbage` with each batch of deletes. A trace is a name, and only traces that have
expired are followed. `Cancel` is the end of the purge's context; `main` passes
one that never ends, callers and tests of `Purge` pass others.

### LogPairing

A record is its key, its time and its type. `decoder` is the `Decode` that holds
the mutex: a batch is processed record by record with nothing between but the
clock. The spans it made wait in `writing` until their `Commit`, which happens
without the mutex, in any order, or fails (`CommitFails`); a client that got no
answer sends its batch again, which is another `Deliver` of it. `rows` is what is
stored. `spans` is a history of what was made, in batches that fail too, because
the code has taken the request from its queue by then. Records with another event
name change nothing and are left out.

### IngestEvents

A request is a set of spans with costs. `Insert` is the transaction, which returns
the costs of the traces it touched; `Interest` and each publication take the
broadcaster's mutex separately, so that clients come, go, and fall behind in
between. `sent`, `missed` and `watching` are history.

### RelayStream

`relay` is each handler with its `streamResult`; `reader` is the goroutine that
`stream` starts for each read, which shares the handler's buffer, so the data of
a read stay in `reader` until they are written. What an upstream sends is
numbered units: a body is right when its numbers are in order. `Take` is the
`select` taking a read, with the headers and the part that is kept for the
capture; `Write` is the write, the flush, and either the end or the next
goroutine; `Idle` and `GiveUp` are the timer, closing the body, joining the
reader and answering. A timer may fire with a read already there, as `select`
picks either. Statuses are one for each way to answer: 502 stands for 504 too,
400 for 404 and 413. `server` is where `main` is; `Shutdown` returns when no
request is in flight or after its timeout, which may be any moment. What a capture does once it
runs is in `ProxyCapture`. A panic of the handler, which `net/http` recovers, is
left out.

### StreamParsing

Each parser is a loop over the chunks that were captured. `acc` holds its
variables after the chunks sent so far, and `Parsed` is what it would return if
the stream ended there, so a stream cut at every chunk is a state of one
behaviour. `Start`, `SendPiece`, `NextItem`, `Finish` and `StopEarly` are the
vendors: they are external, and written from the events the parsers look at
and the fixtures of their tests. Text and arguments are sequences of tokens; `}`
ends the arguments of a call, so that a proper prefix is no JSON. A part of a
message has one form for all vendors; a call has an id, which Gemini may leave
out, and a tool; a text by which Gemini shows its thinking has a mark in their place.
`counts` is the usage besides the reply's own tokens; vendors
report it at the start, with the chunks or at the end, and phase `bare` is a last
report of the output alone. Left out: models and service tiers, which are kept as
the id is; the separate count of reasoning tokens, which are in `counts.thought` and,
for Gemini as for the others, among those of the output; events no parser looks at;
several streamed choices.

### Pricing and ReplyCosts

`Pricing` has no state. `Span` is `normalize.Span` as far as a cost depends on it:
kind, names, token counts and stated costs by the keys of each dialect, in the
order the code asks for them. `Priced` is the loop of `Commit`, `Lookup` and
`Cost` the two functions of `internal/pricing`. Prices are whole numbers of a
small unit, as no property is about the rounding of a float; a name is its prefix
and its base.

`ReplyCosts` takes each reply of `StreamParsing` along every path: captured from
its stream (`ProxyAttributes`), reported over OTLP in one of five dialects
(`Attributes`, external), exported and imported, with its cost or without.
`TrueCost` is the reference: every token once, at the rate of its place. A dialect
is held to it only where it has keys for all that the cost depends on (`CanTell`).
As the cost of a reply depends on nothing but the reply, the run asks `PricedAlike`
of the first reply of each conversation only (`FirstPricedAlike`).

### ToolHistories and Conversation

`ToolHistories` has no state: `ToolCalls`, `ToolResults` and `TurnAnchor` over
messages, one operator for the four vendors with their differences in it.
`Conversation` lets a client, which is external, talk for several exchanges: it
reads a reply, whole or cut, and then asks the same again, or sends the results of
all calls, or another prompt with the same words, or results and prompt together.
It sends the whole history, or what is left from its last prompt on, or for the
Responses API only what is new; results with ids come in any order. `Capture` is
what the proxy does with an exchange: the calls of the reply that it *captured*
become known under this exchange (`origins`), the results of the request get their
spans, and the turn is found. Captures come one after the other here and nothing
expires, as their overlap and expiry are in `ProxyCapture`, which takes as given
the keys that are computed here. Left out: a Responses input that is a string,
several choices, and results for only some of the calls of a reply.

### Migrations

`file` is the database file: which migrations' objects it has, `user_version`,
whether its header is written, which fixes `auto_vacuum`, and whether it is in
WAL mode. `opener` is the process in `Open`, with what it has read and what its
transaction has changed. `Fail` is every error return with the pools it closes,
`Crash` the end of the process at any step. `Start` picks the number of
migrations its program knows, so newer and older programs follow each other on
one file. Files of earlier versions may be older than the use of `auto_vacuum`;
a foreign file has tables of somebody else.

## Runs

| Run | Question | Bounds |
|---|---|---|
| `trace_reads` | Do summary, index, costs and deletions stay right under every interleaving of statements, commits and rollbacks; do walks, pages and charts fit together beside them; do walks end? | 2 traces of 2 spans, 6 batches: a key written twice in a batch, a batch over two traces, a rewrite with other text or a later start, a child before its root, a span that is its own parent, a span that ends before it starts, a late span, spans at time 0, a missing cost, a sum over the limit; 1 cutoff, 1 trace per purge; 4 lists, pages of 1 row; 1 range of the charts, days of 3 |
| `recent_arrivals` (violated) | Is a trace with recent arrivals safe from retention? | 1 trace, 1 span, clock to 4 |
| `proxy_capture` | Do results find their calls, and roots cover their turns, under concurrency, eviction, drops, sweeps and restarts; is every capture finished? | 2 stories of 3 exchanges: 2 calls, one of them issued twice and answered twice; one session with a failure, and a tool result without an anchor; a cache of 1, 2 slots, clock to 4, retention 1 |
| `proxy_turn_expiry` (violated) | Does the root cover the retained calls when the turn outlives its row? | 3 exchanges of one turn, clock to 5 |
| `retention_worker` | Do imports, the checkpoint policy and the recovery rule survive failures and cancellation at every step; does a purge end and an import get its turn? | 2 traces, 1 per batch, a merge every 2 batches, a log of 2 frames, 1 reader, 3 arrivals |
| `log_pairing` | Are requests paired once and in order, and is the count right? | 2 keys, 2 waiting requests, 5 batches, 4 deliveries, 2 uncommitted batches, clock to 3 |
| `resent_logs` (violated) | Does a response keep its request when its batch is sent again? | as `log_pairing`, 1 uncommitted batch |
| `relay_stream` | Is all relayed, captured as relayed, and stored before the database closes; does every relay end, and the process after a signal? | 2 requests, one response of 2 units and one of none, reads of up to 2, a capture limit of 1, 1 capture slot |
| `conversation` | Is a streamed reply the whole one, and a cut stream what was sent; does it cost the same by every path; do results find their calls and prompts make turns as the conversation goes on? | 4 APIs, replies of up to 3 items of up to 4 tokens, pieces of up to 3; 4 usages, 6 names, 5 dialects, 6 stated costs; 3 exchanges |
| `partial_responses` (violated) | Does a cut Responses stream keep its output? | the replies of the Responses API |
| `migrations` | Can a start be interrupted anywhere, by any program? | 4 migrations, programs of 1 to 4 of them |
| `ingest_events` | Do clients learn what was stored, and nothing else; can a client stall ingest? | 3 requests, 2 slots, 2 clients, queues of 1 |

Why these bounds are enough: every limit in the code (cache, slots, queue, batch
size, log, page) occurs only in a comparison with a count, and each instance both
stays below and reaches it. Two traces are the least with which a batch or purge can
touch one and leave another, and with pages of one row the writer moves between
any two rows of a list. Two calls with a cache of one make every lookup
either a hit, an eviction or a miss; three exchanges are the least for an order in
which a result, its call and a second issue of the call meet, and for a reply that
is asked for again and whose results are sent twice. The clock is bounded
so that everything can expire once. Two requests are the least that compete for one capture slot
while one is cut off by the shutdown; a response of two units with a limit of one
has reads below, at and across the limit. With pieces of up to three tokens
a body of three is sent whole or cut at any place, and the body of four always cut.

Deadlock is checked except where behaviours end: in `log_pairing` and `resent_logs`
by their bounds on the clock and the deliveries, in `conversation` by the bound on
the exchanges, in `partial_responses` with the stream, in `relay_stream` with the
process.

### Places where code and documentation differ

Shown by a run:

* `docs/retention.md` says that a trace with "recent arrivals is never deleted".
  `purgeBatch` looks at the times of the spans only: a span that ended before the
  cutoff and arrives today is deleted within the hour (`recent_arrivals`).
* `docs/proxy.md` says that the root of a turn "spans the earliest model start
  through the latest model end [...] and keeps error status if any model call
  fails". The row that holds the root's state expires by its creation time even
  if the turn's trace goes on; the next call of the turn then begins a new root
  and overwrites the stored one (`proxy_turn_expiry`). Until the row expires
  the statement holds (`proxy_capture`).
* `docs/proxy.md` says that a "client disconnect mid-stream keeps the partial
  Responses output". The items reported by `response.output_item.done` are used
  only after `response.completed`; without it the text deltas are kept and the
  function calls that were already complete are not (`partial_responses`), so
  their results find no origin. For the other three APIs the statement holds of
  text and of calls, for this one of text (`conversation`).
* `docs/superpowers/specs/2026-09-15-spanbox-design.md:402` says that after a
  failed write the SDK sends again and that upserts make this idempotent. For
  adapted logs a response whose batch failed has already taken its request from the
  queue, and is stored without it when the batch is sent again (`resent_logs`).

Met while modelling, each stated by a property that excepts or describes it:

* `README.md:270` says to pass the cursor back "until it is `null`".
  `query.go:178` takes a cursor with time 0 for none, so a list whose page ends in
  such a trace starts again (`PagingEnds`).
* A search drops a hit with the start and span id of the last one of a page;
  `2026-09-28-agent-json-cursor.md:21` fixes this key, and its line 39 counts such a
  loss among the failures to test (`SteadyRowsShownOnce`).
* A `message_delta` whose usage has the output alone sets the input counts to 0
  (`parser.go:601`); `scripts/proxy-tools-e2e.sh:95` sends such a report
  (`StreamedAsWhole`).
* The design (`2026-09-16-proxy-capture.md:48`) has Gemini's parts "concatenated per
  part kind". `mergeGeminiParts` (`parser.go:663`) appends any text to a text before
  it, so a shown thought and the answer after it become one part with the mark of the
  thought. `CutKeepsSent` counts the text of both and `StreamedAsWhole` finds the whole
  reply joined in the same way.
* The calls of an exchange that found no capture slot are recorded without its span
  (`relay.go:379`), so the results of such a call are stored under a parent that is not
  there (`LinkedSpansHaveParents` excepts these exchanges).
* A Gemini reply without call ids that is asked for again gets the keys of the reply
  it replaces; a call that is known stays as it is, so results go to the first one
  (`ResultsFindCalls`).
* The design (`2026-09-15-spanbox-design.md:278`) wants `input_tokens` to be the
  inclusive total. `usage_details` with `cache_read_input_tokens` counts these as
  cached but not as input (`normalize.go:66`), and a bucket that is no token count
  is left out of the sum (`normalize.go:207`). The dialect in `ReplyCosts` uses
  `input_cached_tokens`, which counts as both.

## Fairness

* `TraceReads`: a client that was given a cursor asks for the next page (weak,
  `NextPage`). The writer may do anything meanwhile, for ever; a walk ends because
  cursors only go down.
* `ProxyCapture`: the goroutine that holds `toolMu` runs on and its statements
  return (weak, `JobStep`); Go's mutex does not starve a waiter (strong, `Lock`);
  a deferred receive is executed (weak, `Release`). No exchange has to arrive, no
  sweep has to begin, no clock has to advance.
* `RetentionWorker`: the worker's next statement is executed (weak, `Running`);
  readers end, because the server's write timeout ends them (weak, `CloseReader`);
  TRUNCATE, which waits up to 250 ms and is retried, meets a moment without an
  older snapshot (strong, `CheckpointTruncate`); `sync.Mutex` hands itself to a
  waiter that starves (strong, `ImportLock`); an import's body ends by the read
  timeout (weak, `ImportEnd`). Ingest is bounded in the instance: with arrivals of
  expired traces that never stop, a purge need not end, and the code makes no
  attempt to.
* `RelayStream`: goroutines are scheduled, a body that is closed or a request that
  is canceled ends its read, timers fire, and dialing, which has timeouts in the
  transport, and captures end (weak, `Proceed` for each request); `Shutdown`
  returns by its timeout (weak, `ShutdownReturns`); `main` runs on (weak, `Stop`).
  Upstreams may be silent for ever and clients may stop reading without leaving.
  Since `relay` lifts the write deadline, a handler whose client does so need not
  end, and `RelaysAndShutdownEnd` excludes it.
* `IngestEvents`: the handler of an admitted request runs on (weak, `Handle`).
  Nothing is assumed of clients.

## Proofs

Proved for all values of the constants that satisfy the named assumptions
(`PROJECT.json`, `theorems`):

* **SpanStore.** The assumptions say that identifiers are natural numbers, times an
  interval, `NULL` apart, and batches sequences of spans. `TracesSummarizeSpans`
  is not inductive, as it says nothing of the transaction. `IInv` adds what holds
  of the transaction's copy at every statement: the summaries of the traces that
  are *not* in `touched` are right, those in it may not be; the index is right
  throughout, since the triggers run inside each statement; and the copy's spans
  are those of `db` with the first `next - 1` spans of the batch written over
  them. From that follow the store's properties in the run `trace_reads`;
  `ImplementsLedger` by showing that a commit is one `Record` or `Expire` and every
  other step a stutter. `TraceCostsInRange` and `PurgesOnlyLongOver`, which say
  what the guards of `Record` and `Expire` mean for the tables, are proved only.
  Its first part has the facts about the operators of `SpanTable`: an upsert keeps one row
  per key, the entries of an upserted table are the upserted entries, the costs
  of a trace do not depend on others.
* **RetentionWorker.** `IInv` says for each statement of a purge what the saved
  policy is and whether reclaiming has begun, and ties `mu` to the places of the
  worker and of the import. The safety properties of the run follow, and
  `CanceledSkipsCleanup`, which is proved only.
* **Migrations.** For any number of migrations. `VersionMatchesSchema` needs that
  what `Open` has read is still so when it commits (`ReadsStay`);
  `OursAreReclaimable` needs that the header is written with the mode before the
  first migration, and that the wish for the mode was judged on the file as it
  still is (`HeaderHasMode`). `ReadyOrNothing` needs what `Open` has reached at each
  of its steps (`Progress`): which pools are open, that the mode of the log is set
  before the checkpointer, and that a transaction has all it will commit.
  `SpecNeverOlder` is an action property from the same invariants.
* **ProxyCapture.** For any exchanges, any capacity of cache and slots, any retention.
  A tool call exists in up to four copies: its row, the cached call, the origin in
  the capture that holds `toolMu`, and the span of its result; the safety properties
  are about two of them at a time, and none is inductive. `IInv` says how the four may
  differ. The cache differs from the rows only in what is yet to be published or was
  purged for its age (`Agreement`); an origin of the capture is its own or one of the
  known calls with at most the first result, from this exchange (`Origins`, `Own`,
  `Successor`); a span of a result shows what a lookup finds now, not only what the
  row has (`Results`), or a later commit could contradict it; a parent is a model call
  that may have committed, and stored unless it was dropped or is old (`Anchored`),
  where a purge has to be shown too slow to separate the two (`Sweeping`); the root of
  a turn is the one of its row until the row is purged (`Roots`). From this follow
  the four invariants of the run, `NoOrphanWhileKnown`, and `ImplementsRegister`: a commit is
  one `Capture` of the register, every other step a `Forget`, a `Tick` or a stutter.

* **TraceReads.** `ReadsLeaveStore` shows that the reads change nothing in the store,
  so that all of the above holds beside them. `ReadIInv` adds what is known of the one
  read under way. Of a walk (`Walked`): nothing shown is below the cursor, and of the
  steady rows just those that are not below it were shown; a page keeps this because
  the rows it takes are above all it leaves (`NewestIsTop`) and all below the old cursor,
  keys being ordered. Of a trace (`TraceRead`): it has at least as many spans as its
  summary said, because until it is purged a span leaves only with its whole trace and
  an upsert keeps its key (`TraceKeepsSpans`). Of the charts: one snapshot. The rest is
  pure. The tree: every span is on a level or in a ring, since a set of spans on no
  level has all its parents within, and `Cardinality` levels are enough because levels
  are apart (`RenderedIsUnringed`). The costs: a sum over rows that add up groups is
  the sum over what they group (`RowsAddUp`), for days over traces, traces over billed
  spans and spans by model. The percentiles: the numbers of shorter calls are 0, 1, 2
  and so on, each once (`RanksAreNumbers`), hence the values are sorted and the
  element at the rounded-up rank is a nearest rank (`PercentileIsRank`).
* **LogPairing.** `Orderly` says that the numbers of waiting requests are unique over all
  queues and grow along each, with the time of arrival. So `dropOldest`, which compares
  the heads of the queues, finds the oldest of all, `expire` stops at the first request
  that is young enough, and the count is the sum of the lengths. `Paired` says that a
  request which became part of a span is in no queue and in no other span, whichever
  batches fail later. `OnlyOldestEvicted` is an action property from the same invariant:
  the count it speaks of is that of the young requests themselves, which is that of the
  places (`OneEntryPerPlace`), so `dropOldest` runs only when the limit is reached, the
  new request has a number none had, and a response makes a span of what it takes.
* **RelayStream.** The units are counted at each stage: what the upstream has sent is what
  the client has, followed by what the reader holds, and what is captured is a prefix of
  it as far as the limit goes (`Streams`); each way to end leaves its own account of
  this (`RefusedIt`, `AnsweredIt`, `StreamedIt`). `Captures` says of each step of `main`
  who can still be there: after `Shutdown` the requests in flight, and after `Wait` the
  captures that run, are among those that were cut off by the timeout.
* **IngestEvents.** `IInv` says what a handler has still to publish at each step of its
  loops (`ToCome`, `left`), and that what was sent and what is to come is together what
  its transaction committed. That a client is told of the stored version of a span needs
  the last of several versions in a batch to be the one written; that it gets one cost
  of a trace, that the transaction computes one for each trace it touches.

* **StreamParsing.** For any replies of any length, any way to cut them into pieces, any
  counts. `StreamedAsWhole` and `CutKeepsSent` say what would be returned if the stream
  ended here; neither is inductive, as they say nothing of what a parser holds for the
  chunks to come. `IInv` does, for each parser in its own terms: `AnthropicInv` that the
  blocks are those of the items sent, the last one up to `offset`, with its arguments in
  the partial JSON; `ChatInv` that the text builder has the text sent and `tools` has each
  call under the number of its item; `ResponsesInv` the text streamed beside the items that
  are done, and that the last event has all items or, as the API may, none; `GeminiInv`
  that the parts merge to the items sent, which needs that two pieces of a text merge as
  the text does (`MergesTwice`), however far the pieces before have been merged. `PlaceInv`
  has what they share: where in the reply the vendor is. That the result is the whole
  one is then a fact about each parser's end (`orderedBlocks`, the sorted `tools`,
  `mergeGeminiParts`, the items once per id) and its usage. Each vendor may report usage
  more than once, so that the counts must be set and not added is part of the proof.
* **Conversation.** `PromptsMakeTurns` compares two captured exchanges; `TalkInv` says what
  the next one will be compared by. `Anchor` is the place of the last prompt in the history
  the client has, and `Key` that place and its message: a request that is sent whole finds
  this key, or has no prompt in it and goes on with the last turn. Later prompts have later
  anchors, so turns with the same words differ. It holds because nothing else than a
  prompt is one to `turnAnchor`: not a reply (`RepliesAreNoPrompts`), not the results of
  tools, in whichever order and alone or before a prompt (`ResultsArePrompts`,
  `OrdersAre`), for each of the four forms of a history.

The assumptions of the last two are that an item of a reply is not empty and that the
arguments of a call end with the one token that makes them JSON; that `NULL` is none of the
values it stands in for; and that follow-up replies and usages are of the same kind as first
ones. The parsers are folds, and no fact about a fold can be cited for an operator that is
its parameter. So the proofs first show for each loop, by its name, that it has after each
element one more step than before (`Runs`, `LoopSteps`); what it computes is then a sequence
that is given and checked step by step.

Induction over numbers or over sets is done by taking a smallest counterexample
(`SmallestSet`, and `WFMin` of the library), as the library's theorems of induction
take an operator, which no installed prover can instantiate.

Only model-checked:

* `NeverOvercharged` and `FirstPricedAlike`. The columns of a span are made from maps that
  are put together with `@@` and from the first of several keys that is given (`SelectSeq`);
  the provers know nothing of either operator. That the usage is the same whichever way a
  reply came in is the part of it that is proved, by `StreamedAsWhole`.
* `ResultsFindCalls`, for the same reason: `ToolCalls` and `ToolResults` are selections from
  the parts of all messages. The turns need only `TurnAnchor`, which selects nothing.
* That the results of `ModelsOf` are what they should be: the proofs use it as an opaque
  function of its arguments.
* `PartialResponsesKept` and the other three properties that the code violates.
* Every liveness property, as fairness and ENABLED are out of the prover's reach:
  `PagingEnds`, and that captures, purges, imports, relays, the shutdown and handlers end.

## Plan

Done: the modules above, in the order SpanStore, ProxyCapture, RetentionWorker,
LogPairing, IngestEvents, RelayStream, StreamParsing, Migrations, TraceReads,
ToolCallRegister, Pricing, ReplyCosts, ToolHistories, Conversation; and the proofs, in
the order SpanStore, RetentionWorker, Migrations, ProxyCapture, LogPairing, RelayStream,
IngestEvents, TraceReads, StreamParsing, Conversation.

What could come next:

1. Proofs: that no path overcharges a reply, and that a result finds its call, once
   selections and maps are written as the provers can take them.
2. Pure algorithms against reference definitions: the contents that
   `internal/normalize` takes from indexed attribute paths, the timestamps and
   identifiers of OTLP decoding, the tokenizer of the SQL console.

## Not modelled

* OTLP decoding and the extraction of contents: conversions of one request, without
  state; of normalization the part that makes the cost is in `Pricing`.
* The SQL console: a guard over text in front of a read-only connection.
* HTML rendering, the agent API's formatting, routing, cookies and configuration
  parsing, which keep no state across requests.
* Record validation of the import and the stream of the export, besides the lock,
  the batches and the cost.
* `scripts/load`, a benchmark.
* SQLite itself, of which the models assume atomic transactions, snapshot reads
  and the documented behaviour of checkpoints.
