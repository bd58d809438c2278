# A TLA+ model of the opencode gateway

The repository is a gateway in Go. It takes chat requests in three protocols
(chat completions, Messages, Responses), authenticates them by client token,
chooses an upstream and one of its pooled API keys, converts the request when the
upstream speaks another protocol, and relays the answer. An admin API edits keys,
tokens and the model catalog at run time. State is in SQLite, except for a few
in-memory structures.

This directory holds a model of its core: the key pool, the token gates, the
failover of a request, the conversion of its bodies between the protocols, and the
catalog, mappings and clients it is routed by. With it go the runs of TLC over
small instances and proofs for instances of any size.

## 1. The system

| component | state | operations | interacts with |
|---|---|---|---|
| key pool (`pool/key.go`, key handlers of `admin/router.go`) | `keys` rows; `Picker.cursor` in memory, under a mutex | `PickAttempts`, `MarkSuccess`, `MarkFailure`, `MarkFailureWithQuota`; create, edit, toggle, reset, delete | called by the proxy per upstream and attempt; rows shared with the admin |
| token gates (`api/middleware.go`, `api/ratelimit.go`, `store.TryReserveRequest`) | `tokens` rows; the limiter's windows in memory | `Auth`, `allow`, `TryReserveRequest`; create, edit, delete | gin middleware before the proxy; rows shared with the admin |
| request failover (`api/proxy.go`, `api/ollama.go`, `api/stream.go`, `api/error.go`) | per request: the upstream, the key, the attempt's result, whether bytes are out | `proxyRequest`, the key loops of Go and Ollama, the body handlers | key pool, upstream clients, usage log, client connection |
| model catalog (`modelsync/sync.go`, `config/models.go`, model handlers) | `model_routes` rows; the registry in memory | `Sync`, `Rebuild`, `ReloadRuntimeFromStore`; upsert, update, toggle, delete | the proxy resolves routes in the registry |
| model mappings (`config/model_mapping.go`) | rows; a map in memory | register, remove, load | `internal/router.Resolve` |
| quota sweep (`pool/quota.go`) | `keys` rows | `CheckGroupQuotas`, `disableKey` | five workers at most; nothing starts it |
| stream conversion (`protocol/stream_*.go`, `api/responses_sse_tracker.go`) | per stream: source and emitter state | `StreamConvertIncremental`, the tracker | the body handlers |
| protocol conversion (`protocol/*.go`) | none | request and response conversion | the proxy |
| upstream clients (`upstream/client.go`) | a map of clients under a read-write lock | `NewClientForProxy`, `CloseIdleConnections` | the proxy |
| usage log (`api/usage.go`) | one row per logged attempt | `markAndLog` | the body handlers |

What is hard in it:

* **Statements that other goroutines run between.** `MarkFailure`, the quota
  branch of `MarkFailureWithQuota`, `toggleKey` and `TryReserveRequest` each take
  two or three SQL statements; only the cursor and the limiter have a mutex.
* **Snapshots used later.** A request keeps the candidates `PickAttempts` loaded
  and the token `Auth` loaded while the admin edits the rows; the limiter keeps
  the limit it saw first.
* **Failover.** Keys within an upstream, upstreams within a route, a token's
  group restriction on each hop, answers that fail before or after their first
  byte is out, a client that leaves and a deadline that passes at any point.
* **Restarts.** Cursors and limiter windows are lost, rows and reservations stay.
* **The merge** of two remote catalogs into rows the admin edits meanwhile, when
  one fetch may fail, rows are saved one by one, and the registry is reloaded last.
* **Event streams.** Three protocols number tool calls, blocks and items
  differently and put finish reasons and usage in different places; a stream may
  end anywhere, end twice, or fail before its first content; a tracker reads bytes
  that are cut anywhere.
* **Histories.** Clients send tool outputs late, twice or not at all, and reasoning
  between calls; upstreams refuse histories that are not paired.

What makes each component correct: the pool shares traffic by weight, tries each
candidate once per request, takes a key out of rotation only for the key's own
fault and lets it return; the gates let through no more than the cap and the rate
allow and count exactly; the failover loop gives a client one response, tries
upstreams and keys once and in order, and reports the failure that decided the
request; the catalog keeps what the admin customised and never drops a model
because a fetch failed; a converted stream ends once, and only as its source did.

## 2. The modules

| module | models | state |
|---|---|---|
| `KeyPool` | the pool, the admin's key handlers, time, restart | `row` (`keys`), `cursor` (`Picker.cursor`), `req` (a request between `PickAttempts` and its end), `toggle` (a `toggleKey` between its statements) |
| `KeyPoolShare` | `KeyPool` with a history of the round robin's choices | adds `window` |
| `TokenGate` | the three gates, the admin's token handlers, time, restart | `token` (`tokens`), `window` (`rateLimiter.windows`), `req`; the histories `recent`, `granted`, `peak` |
| `Failover` | one request through `proxyRequest`, the key loops and the body handlers | `route`, `ui`, `keys`, `key`, `mode`, `result`, `attempted`, `wrote`, `answer`, `client`; the history `trail` |
| `OneResponse` | what the gateway promises a client about a request; `Failover` implements it | `phase` |
| `StreamDecoders` | the upstream events of the three protocols and what the decoders make of one | none (operators) |
| `StreamEmitters` | the three emitters as operators on their state and the events written | none (operators) |
| `StreamConvert` | `StreamConvertIncremental` under `proxyCrossProtocolStream` | `up`, `dst`, `given` (events received), `closed`, `conv` (converter and emitter), `out` (events written), `mark` |
| `AnswerRelay` | what a converted stream promises; `StreamConvert` implements it | `heard`, `told`, `source`, `answer` |
| `LiveRelay` | `proxySameProtocolSSELive` and `responsesSSETracker` | `inbound`, `lines`, `size` (what arrives), `pos`, `tracker`, `fate` |
| `MessageConvert` | `ConvertRequest` and `ConvertResponse` | `from`, `form`, `invalid`, `history` (the conversation so far) |
| `Conversion` | the three routes a body takes, composed | adds `route` |
| `ModelRoutes` | what is computed with one route: rows, defaults, validation, merge, reconciliation | none (operators) |
| `ModelCatalog` | rows, registry, `syncCatalog`, the admin's handlers, restart | `rows`, `registry`, `sync`, `ops`, `serving`; the histories `asked`, `torn` |
| `ModelMappings` | the rewrite rules, their rows, the handlers, the start's overlay | `stored`, `rules`, `overlay`, `handlers`; the histories `fixed`, `raced` |
| `ClientCache` | `NewClientForProxy` | `clientCache`, `made`, `waiting`, `holds` |
| `Catalog` | the last three, composed | adds `part` |
| `Maps` | Go maps and keyed tables as functions | none (operators) |
| `MCKeyPool`, `MCKeyPoolShare`, `MCTokenGate`, `MCConversion`, `MCCatalog` | values of constants and symmetry for TLC | |
| `KeyPoolProofs`, `TokenGateProofs`, `FailoverProofs`, `CatalogProofs`, `StreamConvertProofs`, `ConversionProofs`, `MessageProofs` | theorems and proofs | |
| `RecursionLemmas` | what proofs about runs and lists share | |

### KeyPool

One action is one SQL statement or one critical section. `Load` is
`PickAttempts` up to the candidate filter and `Advance` the part under the mutex:
between them other goroutines move the cursor and change rows. The attempt list is
not stored; it is the candidates in id order from `first` round to the one before
it, and `After` is its next element. An attempt ends with one of the answers the
pool tells apart (`Success`, `Final`, `Deadline`, `ServerError`, `StreamBroken`,
`Unauthorized`, `RateLimited`, `QuotaLimited`). 401 and 429 go on to `ReadFails`
(a SELECT) and `WriteFails` (an UPDATE); the quota branch reads in `QuotaLimited`
and writes in `WriteFails`. `toggleKey` is `ToggleRead`, `ToggleWrite` and, for a
key that is being disabled, `ToggleClear`.

Cooldowns are the ticks left, and `Tick` counts them down. `fail_count` saturates
at `FailCap`, at or above `Overflow`, from where on every count has the same
cooldowns. `Overflow` stands for 32: 30 s * 2^29 is the first backoff that does
not fit a `time.Duration`. What such a float64 converts to is left to the machine
by the Go specification, so `Backoff` is a set there: the cap, or nothing.

Left out: `usage_count` and `last_used_at` (nothing decides on them), the moments
between computing `cooldown_until` and the UPDATE, failed UPDATEs (the pool
ignores their errors), reset times so large that they overflow. Ids are not
reused because the column is AUTOINCREMENT, so a deleted key stays `gone`.

### TokenGate

`Auth` takes the snapshot all later gates use. `Unlimited`, `RateAdmit` and
`RateReject` are the limiter under its mutex; `CapCheck` is the SELECT of
`TryReserveRequest` and `Reserve`/`Refuse` its conditional UPDATE; `StoreError` is
SQLite failing at either. Timestamps are ages in ticks. A limit or cap below zero
behaves like zero in the code (unlimited), so the model has none below zero. The
expiry is a flag: `Expire` is time passing it, and an edit may set it either way.
`granted` counts what was let through on a reservation and `peak` is the highest
cap a token ever had; both are histories, and no guard reads them.

### Failover

`pc` follows the goroutine: `received` (body, model and route checks), `choose`
(the head of the upstream loop), `attempt` (a request to the upstream), `body`
(headers accepted, nothing relayed), `piping` (a stream whose first event is out),
`returned`, `answering`, `done`. The upstream and the client are the environment:
any answer may come to any attempt, and `ClientLeaves` at any time. `mode` is the
body handler: `convert` (`proxyCrossProtocolStream` and the Responses
normaliser), `buffered` (`proxyCrossProtocolResponse`), `whole` (a same-protocol
JSON body) and `live` (`proxySameProtocolSSELive`). The two upstreams share the
actions where their code agrees and differ in `LogOf` (Ollama logs only the last
key's failure), `OllamaSame` (other 4xx are retried, `Terminal` is ignored) and
the log of `KeyFailure`. A status stands for its class where the code treats the
class alike: 400 for the non-retryable client errors, 410 for the other 4xx, the
members of `KeyStatus` for what marks a key. Keys are numbered in the order the
pool returned them: which keys those are is `KeyPool`'s matter. `trail` has one
record per finished attempt; no guard reads it.

`Phase` maps a state to `OneResponse`: nothing sent, part of an answer, all of
it, a broken answer, an envelope, or an end without a response.

### Stream conversion

An upstream event is a type, the index it carries, a kind and a payload, and the
payload is the event's position in the stream: so a property can tell every piece
of text, thinking and tool arguments from every other, where real strings could
repeat. `StreamDecoders` says which events an upstream may send next (the
environment) and translates the `Decode...` functions; a field of `IRStreamEvent`
the converter does not look at is left out. `StreamEmitters` has one operator per
method of the three emitter structs, on a pair of the emitter's fields and the
events written. `StreamConvert` has one action per way the scanner loop can go:
an event, `[DONE]`, the end of the body, a body that breaks, a client that left. HTTP 200 is committed
by the first event written (`firstEventWriter`), so `out` being empty says the
response is uncommitted and the caller may still fail over.

`AnswerRelay` is the abstract specification: pieces arrive, pieces are passed on in
the same order, and "whole" is said once, last, and only after the source said it
and everything heard was told. The refinement maps content events of `given` and
`out` to pieces and the end marker of the client's protocol to "whole".

`LiveRelay` cuts a stream of lines into chunks anywhere, also inside a line, and
breaks it anywhere. A line is pieces rather than characters; a long line has more
pieces than the tracker buffers (`maxSSERead`).

### Message conversion

Every state of `MessageConvert` is a conversation a client of protocol `from` may
send; the properties apply the conversions to it. `decodeRequest` and the
`Encode...` operators translate the request path, with `normalizeChatHistory`,
`coalesce...` and the reasoning that is attached to calls; `decodeResponse` and its
encoders the response path, applied to the conversation's last answer. Text is a
sequence of payloads `<<position, part>>`, so that concatenation is visible.

### Catalog, mappings, clients

`ModelCatalog` has one action per row saved, because `syncCatalog` and the handlers
share no lock and SQLite serialises only statements. A handler is a read, a second
read in `mergeModelCustomizedFields`, a save and a registration in memory; `Delete`
takes the registry first. The fetches end before the rows are read, so `BeginSync`
is both. `ReplaceRows` is the transaction of a rebuild. A field of a route stands
for all fields that are treated alike (`pricing` for `context_len` and `tags`).
`asked` remembers what admins' requests left set without overlapping another writer,
`torn` the models that two writers worked on at once; no guard reads them. A PATCH
adds the fields it names to `asked`. A POST replaces the whole row, so there fields
edited earlier get the values it wrote, blanks for those it does not name; they stay in
`asked` because the row still flags them as customized.

`ModelMappings` keeps the order of each handler's two steps (row then rule on
saving, rule then row on deleting) and the start's overlay of rows with
`MODEL_MAPPINGS` and the mapping file. `ClientCache` has the critical section under
the read lock and the one under the write lock.

The three share no state, so `Catalog` lets a behaviour follow one of them, as
`Conversion` does with its routes: one run, and the sum of the state spaces.

## 3. The runs

| run | instance | shows |
|---|---|---|
| `pool_rotation` | three keys in two groups, weights 1 and 2, two requests, deletes | `OnceEach`, `WeightedShare` |
| `pool_health` | one key, two requests, one admin with all operations; threshold 2, cooldowns up to 3 ticks and quota resets of 2 and 4, overflow at 5 | `TypeOK`, `CooldownCause`, `Recovers` |
| `pool_lost_failure` | the same | `FailureCounted` fails |
| `pool_overflow` | the same | `FailureCools` fails |
| `token_gate` | one token, two requests, caps 0 to 2, rates 0 and 2, a minute of 2 ticks | `TypeOK`, `CapHeld`, `UsedExact`, `RateHeld` |
| `token_rate` | rates 0 to 2 | `RateAsConfigured` fails |
| `failover` | all routes over two upstreams, up to two keys each, both deadline settings | `TypeOK`, `TriesAll`, `PermittedOnly`, `AnswerFromLast`, `OnlyLastReachesClient`, `LastLogged`, `NoSilentEnd`, `ImplementsOneResponse`, `EndsWhenClientLeft` |
| `failover_blame` | no deadline | `NoBlameForClient` fails |
| `failover_deadline` | a deadline is set | `WaitingClientIsAnswered` fails |
| `conversion` | all nine pairs of protocols that are converted, two tool calls; live streams of three lines; conversations of three protocols, one call perhaps with an invalid name | `RelaysAnswer`, `RightCall`, `WellFormed`, `EndingTold`, `FailsOverBeforeContent`, `VerdictIgnoresCuts`, `ToolsPaired`, `TextKept`, `ReasoningKept`, `AnswerKept` |
| `history_output` | the conversations of `conversion` | `ToolOutputKept` fails |
| `catalog` | two models, two upstreams, four catalogs, two admins, a restart; three names and two admins; three callers and four spellings of three proxies | `EditsKept`, `RegistryAgrees`, `FetchesDecide`, `RightTarget`, `RowsStay`, `OneClientPerProxy` |

Why the bounds are enough to be interesting:

* Two goroutines and an admin give every pair of interleaved statements; a third
  goroutine adds no new pair. One key is enough for health, because no statement
  on a row looks at another row.
* In `pool_rotation` two keys share a group, so total weights are 1 to 4 while
  keys come and go; `CursorPeriod` is 12, a multiple of them all, so keeping the
  cursor modulo 12 changes no choice. The other group has a cursor of its own.
* Threshold 2 with an overflow at 5 gives counts below the threshold, on the
  doubling, at the cap and past the overflow. The two quota resets lie on both
  sides of `maxDuration`.
* Caps 0, 1, 2 let the admin raise and lower a cap around the counter; two
  requests race for a last slot. A minute of 2 ticks has an admission inside the
  window, on its edge and outside.
* Two keys per upstream have a first, a last and, with one key, an only key; two
  upstreams are all there are.

* Streams of 4 events (chat), 9 (Messages) and 8 (Responses) hold two parts of an
  answer with their begin and end events and the stream's end, so two tool calls,
  or text and a call, interleave or follow each other, and may be cut at each event.
* Three lines of which each may be longer than the tracker's buffer (two pieces)
  put a cut before, inside and after a terminal event and after a dropped line.
* Conversations of 3, 3 and 5 messages hold a call, something between, and its
  output; a Responses client needs five items because reasoning, call, text and
  output are items of their own. Two call ids make outputs cross.
* In `catalog`, two pieces of work (requests or synchronisations) and a restart
  give every pair of writers every interleaving of their statements; Init already
  holds a database an admin edited. The four catalogs list a model at both
  upstreams, at one, at the other and at none. Three mapping requests give two
  that race and one after them. Three callers miss the cache at once.

`CHECK_DEADLOCK FALSE` is set in the `failover*` runs, where a finished request
stops, and in `conversion`, `history_output` and `catalog`, where a stream ends, a
conversation reaches its bound and the admins run out of requests.

Symmetry is over the goroutines (and tokens), only in runs without liveness.

**Fairness.** `pool_health` assumes `WF(Tick)`: time passes. Nothing is assumed of
requests or admins, and `Recovers` holds all the same, since a request can extend
the cooldown only of a key it loaded while the key was eligible, and only once.
`failover` assumes `WF(Handle)`: the goroutine is scheduled and its upstream calls
return. The code justifies it once the client has left, because every upstream
request carries the client's context, and `EndsWhenClientLeft` speaks of no other
case.

### What the code does not keep

Six runs are expected to end in a counterexample; each quotes the repository.

1. `FailureCounted`: `MarkFailure` reads, adds and writes in separate statements;
   of two failures at once one is lost (`pool/key.go:197`).
2. `FailureCools`: the backoff is converted to an int64 before it is capped; from
   32 failures on, on amd64, a failure ends the cooldown (`pool/key.go:190`). 5xx
   failures count too, so the first 401 after 31 of them is enough.
3. `RateAsConfigured`: a limiter window keeps the limit it was created with
   (`api/ratelimit.go:38`).
4. `NoBlameForClient`: only the first write of a converted stream is recognised as
   the client's failure; later ones count against the key (`api/stream.go:921`).
5. `WaitingClientIsAnswered`: a deadline that passes while a body is read is taken
   for a client that left; the waiting client gets nothing (`api/proxy.go:475` and
   the other callers of `isClientContextError`). With Ollama and no conversion it
   gets an error envelope under status 200 (`api/ollama.go:384`).
6. `ToolOutputKept`: the output of a `tool_result` is gone when a Messages request
   is converted to Chat, because `irMsgToChatWithReasoning` writes text and image
   blocks only (`protocol/chat.go:493`); `convert_test.go:1127` has the decoder keep
   the payload so that it is not lost.

Other properties hold with exceptions that their definitions name. The exceptions
are what the code does, met while modelling:

* **Requests.** Of several `tool_result` blocks in a user message only the last
  call id survives. A Responses assistant message with string content after a
  reasoning item loses its text. Chat instructions in parts are lost on the way to
  a Messages upstream, and so are the tool calls of a Chat or Responses client
  (`irMsgToMsg`). A Responses upstream gets only the first of several calls and no
  text beside it.
* **Answers.** A Messages client gets only the first choice of a Responses answer
  of several items, a Responses client only the first of several calls, and its
  `status` is always `completed`.
* **Streams.** The Responses decoder reports a finish reason at every finished
  item. `message_stop` overwrites `max_tokens`, so a Responses client takes a
  truncated Messages answer for a complete one. Usage that a Chat upstream sends
  after its finish reason never reaches a Messages client. An upstream's
  `message_start` or first chunk commits a Messages or Responses answer, so a
  failure right after it can no longer fail over.
* **Live streams.** A line longer than `maxSSERead` costs a healthy key its success.
  Chat and Messages streams that end without a terminal event count as success.
* **Catalog.** `POST /admin/models` ("add/update route") on a model that is there builds
  the row from the request alone (`admin/router.go:646`): targets, upstreams or a
  disabled status that an admin set before are blanked or reset unless it names them.
  `mergeModelCustomizedFields` carries their flags over all the same
  (`admin/router.go:755`), so every later synchronisation takes the blank for "a locally
  edited field" (`config/models.go:498`), preserves it and never fills it again.
  `EditsKept` holds of such a field for the blank, not for the edit. Writers save
  whole rows they read before: an edit that overlaps a synchronisation is
  overwritten, a deletion undone. An error between two saves leaves the registry
  stale until the next synchronisation. A row without a list of upstreams is
  disabled when nothing was fetched (`modelsync/sync_test.go:1122` wants a failed
  fetch to disable nothing). While one catalog is missing, its upstream stays in the
  list but its target goes. A model only Ollama lists is given the protocol its name
  suggests, though Ollama speaks Chat.
* **Mappings.** The handlers of one name race (row and rule may end up different),
  a failed DELETE is not noticed, and rules from the environment return at a start.

## 4. The proofs

`tlapm` checks every leaf. Assumed are only the `ASSUME`s of the modules
(`PoolAssumption`, `GateAssumption`, `FailoverAssumption`, `PatchAssumption`,
`ToolsAssumption`, `MaxPendingAssumption`, `CallsAssumption`: types and signs of
constants; `CursorAssumption`), which TLC evaluates in the runs.

* **`KeyPoolProofs`**, for any set of keys, goroutines and admins and any weights,
  thresholds and bounds. `IInv` is `TypeOK` with `Sound(req[h])` for each request.
  `OnceEach` is not inductive: from "cur was not tried" nothing follows for the
  next key. `Sound` says what the loop really keeps, that `tried` is exactly the
  stretch of candidates from `first` round to before `cur` (`Passed`); the lemmas on
  `After` show that the stretch grows by `cur` and closes when it reaches
  `first`. `Sound` also records that a request on its way to a mark got a 401 or
  429, which is what `CooldownCause` needs. From `Invariance` follow
  `TypeCorrect` (`TypeOK`), `EachOnce` (`OnceEach`) and `OnlyKeyFaultsCool`
  (`CooldownCause`, an action property).
  `SharesByWeight` (`WeightedShare`) has three layers. *Sums*: `SumFunctionOnSet` is
  a recursive function, so it is first shown to exist (`FoldExists`, by induction over
  the subsets of a finite set, which `WFMin` of the library gives for sets rather than
  predicates), then to be the sum of any one term and the rest (`SumFacts`). *Slices*:
  the accumulated weights divide a round of `TotalWeight` positions into one slice per
  candidate, as long as its weight, and the cursor's position chooses the candidate of
  its slice (`ChosenBySlice`). *The window*: each observed pick is the choice for the
  position the cursor had then (`FromCursor`, in `ShareInv`), and a full window has
  every position of a round once (`RoundIsShared`, a bijection of a slice with the
  picks that fell into it). `CursorAssumption` says that keeping the cursor modulo
  `CursorPeriod` changes no choice; it stands for a cursor that does not wrap.
* **`TokenGateProofs`**: `CapIsHeld` (`CapHeld`) and `UsedIsExact` (`UsedExact`)
  from an invariant that adds what the reservation relies on: the counter equals
  the history, the row's cap is at most `peak`, and an unborn token has no history.
  `RateIsHeld` (`RateHeld`) from `RateInv`: the admissions of the last minute are
  what the limiter remembers of a token after what it has not purged yet (`Remembers`),
  and both are in order of age, so that the purge, which the model writes as the
  longest young suffix, exists and takes nothing else. `TypeCorrect` assumes
  that there is a token at all: a request that is served needs one.
* **`FailoverProofs`**: `OneResponseIsKept`, `Failover` implements `OneResponse`.
  Each action maps to a step of `OneResponse` or a stutter; the invariant behind it
  (`SentInv`) says that bytes are out only while piping or at the end and that an
  envelope is sent only at the end, over nothing. The theorems on `trail`
  (`EverythingTriedOnce`, `GroupsHold`, `LastFailureIsAnswered`,
  `OneAttemptReachesClient`, `DecisionIsLogged`, `SilenceIsExplained`) and
  `TypeCorrect` share `IInv`, which ties the history to where the goroutine is:
  `Place` says which upstream and key the loop stands at and that `trail` ends there,
  `Leads` that a record is followed by the next key or a later upstream, `Through`
  that every permitted upstream passed was entered and left after its last key or a
  408, and `Outcome` what `result` says of the last record.
* **`CatalogProofs`** has an invariant for each part of `Catalog`, for any models, names,
  admins, catalogs, configuration and requests, any callers and any finite set of proxy
  keys. First the synchronisation (`ModelCatalog`): `RoutesAgree` says nothing of a
  model a handler is working on, so it is not inductive. `Settled` adds what a handler
  relies on between two of its statements (`Halfway`) while no synchronisation runs: it
  has the model to itself, and the registry lags behind by what it saved, or is ahead by
  what it is about to delete. While one runs three facts take over: the registry agrees
  with the rows the synchronisation read first, so that it may fail (`Waits`); the rows
  it read last are still what is stored, of every model no handler has touched since
  it began (`Reread`); and it remembers every model a handler has touched (`Meets`).
  Without `Meets` the end of a synchronisation, which writes its rows into the
  registry whatever has happened since, would not restore `Settled`.
  Two more invariants sit on top. `EditInv`: a row that nobody else worked on has what
  its admins' requests left set, and so has every copy of it a synchronisation or a PATCH
  is about to save; of what a POST does not name only the flags are carried (`Carries`). `Progress`: what a synchronisation has settled by each of its steps, which
  rows it kept, added or disabled and with which targets. The lemmas they need are
  about lists of upstreams: what `deduplicateUpstreams`, `Without` and the merge
  contain, whatever the lists are.
  *Clients*: as many were made as are cached, a cached client dials a proxy of the key it
  is cached under, and what a caller got is what is cached still (`ClientsInv`). The
  first fails if the slow path does not look again; the others make two callers'
  clients equal exactly if their keys are. *Mappings*: `MappingInv` is to `RulesAgree`
  what `Settled` is to `RoutesAgree`, for a name, its row and its rule.
  The theorems are about the composed specification the run checks, of which every step
  is a step or a stutter of each part: `CatalogSharesClients` (`OneClientPerProxy`),
  `CatalogAgrees` (`RegistryAgrees`: models and mappings), `EditsStay` (`EditsKept`),
  `FetchesRule` (`FetchesDecide`), `TargetsFit` (`RightTarget`) and `RowsGoOnPurpose`
  (`RowsStay`, an action property).
* **`StreamConvertProofs`**, for the composed specification `conversion` checks, any
  two protocols, streams of any length and any set of tool calls: `Relayed`
  (`RelaysAnswer`, the converter implements `AnswerRelay`), `EndsAsTold`
  (`EndingTold`) and `FailsOver` (`FailsOverBeforeContent`). The argument has three
  layers.
  1. What one emitter call writes. `Says(s, t, p)`: from state `s` to `t` an emitter
     wrote events that do not end the answer and whose content is `p`; it composes
     over calls (`SaysThen`), so each `On...` operator has a lemma and `Emit` has one
     for every decoded event (`Puts`). `Ends` and `CompletesAs` say the same of the
     finish and of the farewell, with what they tell of truncation and usage. The
     sums over a stream are facts about `Content` of a concatenation, by induction
     over its length.
  2. What one received event makes of converter and stream (`Converts`, `Learns`).
     The stream a client sees was converted from the events in their order, and the
     only events ever held back are the `response.created` of a Responses upstream
     (`Held`), which say nothing.
  3. `Inv`, while no end was recorded (`mark = ""`): everything the client heard is
     what was given (`Content(out) = Content(given)`), the converter knows the finish
     reason, the usage and the truncation of what it read (`KnowsEnd`, `KnowsUsage`,
     `KnowsCut`), and nothing is written while only openings came (`Uncommitted`).
     `EndingTold` and `FailsOverBeforeContent` speak of the moment the end is recorded
     and are not inductive without it. `Inv` was model-checked on the instance of
     `conversion` before it was proved.
* **`ConversionProofs`**, for the two other parts of the specification `conversion` checks.
  `VerdictsIgnoreCuts` (`VerdictIgnoresCuts`) holds for any stream of SSE lines, cut
  into network reads anywhere, and any `MaxPending`. The bytes read so far, put end to
  end, are the first `pos` of the stream's pieces (`Ordered`). `LiveInv` says what the
  tracker then is, whatever the cuts were: `pending` is the start of the line `pos`
  stands in, `Believes` that it was told by a complete line whatever it says, and
  `Knows` that it says whatever a complete line told, unless a line was given up as too
  long. None of the three mentions a chunk, so that two cuts of a stream agree. One
  `feed` of a chunk is a recursion over its pieces, whose invariant is the same with
  `pos` moved along the chunk.
  `ToolsArePaired` (`ToolsPaired`) holds for any conversation and any of the pairs of
  protocols. Its invariant (`MessageInv`) says that the history so far is a sequence of
  well-typed wire messages; the rest is about what `pairCalls` makes of one:
  `Pairs` says of each prefix which calls are collected and which still wait for a
  result, `Paired` and `Chats` that the history which is sent has each result
  right behind the message of its call, and none of another. Every decoder and encoder
  is typed on the way.
* **`MessageProofs`**, on top of it, says what a conversation does not lose, whatever its
  length, the calls in it and the pair of protocols.
  `AnswersAreKept` (`AnswerKept`) and `TextsAreKept` (`TextKept`) compare lists that the
  conversion splits and joins: a sum over a list of messages (`Sum`) is one over the
  pieces they are made of. `Answers` says what each decoded choice still holds of the
  wire message behind it, `Renders` what each decoded message of a history does, and
  `NormalStepAdds` that pairing calls with outputs adds to the history what each message
  says (`Carries`), in its order.
  `ReasoningIsKept` (`ReasoningKept`) has two halves. Thoughts may change places, so
  the lists have the same elements and length (`Alike`); the decoder of Responses items
  holds some back, and what it has put out and what it holds is together what
  came (`Mused`). For the outputs the state needs more than its types: an output
  carries the number of the item it came in and comes after its call (`OutputInv`), or
  the first of several would not be determined. Then the first output of a valid
  call is found by `findToolOutput` (`FirstFound`) and stays behind its call to the end
  (`Serves`). `OutputInv` was model-checked on the instance of `conversion` before it was
  proved.

The proofs asked for three definitions to be put so that they can be reasoned about,
without changing what they mean. `deduplicateUpstreams` keeps first occurrences; as
there are two upstreams, that is the head and then the other one if it occurs. `reconcile` drops the upstreams that are gone
(`Without`). The limiter's purge keeps the suffix of young timestamps instead
of filtering, as they are appended in order under the mutex. `PatchAssumption` (the
fields an edit may carry are those of the request body in `admin/router.go`, and its
upstreams are a list of names) is needed for rows to keep their shape. `Emit` folds
`PassText`, `PassCall` and `PassArgs`, the body of the converter's loops, as operators
of their own; `Content` recurses over the stream's length; and tool indices are
naturals (`ToolsAssumption`), as the decoders read them from integers. `LiveRelay`'s
`Stream` and `feed` recurse over the number of lines and pieces; `MessageConvert` folds
over messages with one recursive function (`Fold`) and joins what the elements of a
list give with `FlattenSeq`, which drops an element by joining nothing for it.
`RecursionLemmas` shows once that such a function exists and has the values its
equation says (`RecursionExists`), with an induction whose property is a set of numbers
instead of a predicate.

Only model-checked: `Recovers` and `EndsWhenClientLeft` (liveness), and of `conversion`
`RightCall` and `WellFormed`, whose invariant must relate every tool and block the
emitters keep, three kinds of them, to the events written about it.

## 5. Not modelled

Listed with reasons in `PROJECT.json`.

* The quota sweep: nothing in the program starts it, so every interleaving with it
  would be one the program cannot have.
* Parsing of third-party quota pages, OAuth and the import of keys, page assets,
  configuration, schema and usage sums: no protocol to check.
* In the conversions: `tool_choice`, tool schemas, images, ids that are made up, and
  malformed JSON (a broken source stands for it). The buffered stream conversion
  of `convert.go` (`StreamConvert`, from line 108) is used by tests alone.
* In the catalog: listing, pricing arithmetic, the contents of OpenRouter's metadata,
  and the fetches' HTTP.

## 6. Plan

1. The rest of `StreamConvert`: `RightCall` and `WellFormed`, by an invariant on
   `em.tools`, `em.order` and the blocks open in `out`.
2. The quota sweep on top of `KeyPool`'s rows, should it be started.
