# DNSentinel in TLA+

DNSentinel is a DNS resolver that looks at every query before it answers it. A
query goes through a decision cache, an indicator store filled from threat
feeds, a classifier of generated domains and a detector of DNS tunnels; a risk
engine turns what they say into ALLOW, SUSPICIOUS or BLOCK; the front end then
answers with a sinkhole address or forwards the packet to an upstream resolver.
Two consoles in the browser show what it decides: the DNSentinel dashboard
(`frontend/`) and the EliteCore demonstration (`elitecore/`). The project models
the parts that keep state or decide, checks them with TLC on small instances and
proves the most important facts with TLAPS for every instance.

Paths below are relative to the repository.

## 1. Inventory

| Component | State | Operations | Talks to | What is hard, and what must hold |
|---|---|---|---|---|
| Risk engine `core/risk_engine.py` | none | `calculate_risk` | called by the orchestrator | rounding, cap and thresholds at their boundaries; more evidence never softens a decision |
| Decision cache `resolver/dns_cache.py` | a dict in insertion order, each entry with its expiry | `get` (deletes what it finds expired), `set` (evicts the oldest), `clear`, `prune_expired` | called by every query of every thread | the clock is read outside the lock; never more than `max_entries`, never an expired or foreign decision |
| Orchestrator `core/orchestrator.py` | none of its own; reads and writes the cache | `process_query` (threads), `process_query_async` (event loop, detectors fanned out under a timeout) | cache, store, classifier, tunnel detector, risk engine | a decision is stored long after its inputs were read; a detector fails or is late; two queries for one name race |
| Front ends `resolver/udp_server.py`, `doh_server.py`, `upstream_client.py`, `action_handler.py` | sockets, `running` | receive, decide, sinkhole or forward (primary, then secondary), SERVFAIL | orchestrator, upstream resolvers, metrics | a blocked name never leaves; each query gets an answer; start and stop of the loop |
| Indicator store and database `threat_intel/ioc_store.py`, `threat_db.py` | a dict read without a lock; the SQLite tables `threat_iocs`, `feed_health` | `lookup`, `add_ioc`, load, seed, batch insert, health update | orchestrator reads; synchronisation swaps the dict | two reads of one attribute; dict, tables and health rows after an error or a crash |
| Feed synchronisation `background_worker.py`, `aggregator.py` | `_sync_lock`, `_shutdown_event`, `_is_running`, the thread | `start`, `stop`, `_run_loop`, `sync_all_feeds`, `update_store_and_db` | TAXII client, store, database | overlapping loops, failure of one step of several, health claims that are not true |
| TAXII client, STIX parser | none | paginated poll, parse | called by the synchronisation | pagination that may not end; a bad field that empties a feed |
| Tunnel detector, volume tracker `passive/` | a window of timestamps per client, in memory or in Redis | `analyze`, `record_query`, `get_stats`, `clear` | called by the orchestrator | timestamps out of order, failover in the middle of a call |
| Forensic uploads `passive/batch_analyzer.py`, `UploadModal.tsx`, `PcapZeekInvestigator.tsx` | the modal's file and loading, the investigator's report, App's report | choose, upload, cancel, answer or failure, made-up report | upload endpoints, the query list | an upload cannot be cancelled; answers reach other tabs; a batch that is run twice |
| Telemetry `backend/` | `query_logs`, the list of sockets | `log_decision`, `broadcast`, `get_recent_queries` | dashboard | rows replaced by the id of a cached decision; the list changed across awaits |
| Resolver metrics `resolver/metrics.py` | counters and windows under a lock | `record_query`, `snapshot`, `reset` | front ends | whether the counters add up |
| DTLS server `resolver/dtls_server.py` | a session per peer | datagrams, idle cleaning | orchestrator | idle cleaning against a handshake; the file imports names that `shared/config.py` lacks |
| Dashboard stream `App.tsx` | `queries`, `wsConnected`, `tableLimit`, sockets and timers | frames, refreshes, settings, reports | telemetry API, every view | two chains of sockets, answers in any order, a closure over an old limit; at rest the list is the back end's |
| Query table, inspector, indicator browser | search, filter, sort and page; the last domain and its result; controls, timer and requests | the controls of each, the copilot's and the topbar's | App's state, `evaluate`, `get_indicators` | pages of a list that changes; answers to abandoned views; requests nothing cancels |
| Overlays and keys `EvidenceModal`, `SearchModal`, `SettingsModal`, `UploadModal`, `App` | which are open, the selected decision, the tab, the search | Ctrl+K, Escape, clicks | each other, through listeners on the window | one key, several listeners that re-register while it is dispatched |
| Charts and summaries `ThreatCharts`, `SourceIpAnalytics` | the selection and search over addresses | percentages, buckets, aggregation | `queries`, `summary` | rounding, bucket edges, order |
| Copilot `CopilotChat.tsx`, `copilot/` | the conversation, the model, the request | send, answer, action, choose a model | every view | turns in step with requests, actions executed once |
| EliteCore dashboard `elitecore/frontend` | events, rows, toasts; search, page and requests; the two dialogs | frames, refreshes, paging, opening, uploading | its back end | reconnecting with backoff, duplicates, cancelled requests, late details |
| DGA classifier and its training `ml/` | a trained model | predict, train | orchestrator | numbers, not behaviour |

The hazards of this code, each at its line and with the properties that watch
it, are listed in `PROJECT.json`. Real, and in no property yet: a TAXII server that
ignores the Range header keeps a poll going (`taxii_client.py:162`); the cache
key leaves out the client that the tunnel score is about (`orchestrator.py:49`);
`stop()` before the listen thread runs is lost and a bind failure is not reported
(`udp_server.py:237-248`); broadcasts iterate over collections that change across
awaits (`backend/websocket.py:23`, `elitecore/backend/websocket.py:24`); an upload
blocks the event loop and may be analysed twice (`batch_analyzer.py:27-31`);
resolver counters do not add up (`metrics.py:108`).

## 2. Modules

| Module | Models | Kind |
|---|---|---|
| `RiskEngine` | `calculate_risk` | operators |
| `RiskEngineInputs`, `MCRiskEngine` | the engine over growing evidence | state machine, TLC instance |
| `DNSCacheOps` | what each method does to the dict | operators, shared by the next two |
| `DNSCache`, `MCDNSCache` | the cache's methods called by threads | state machine, TLC instance |
| `LossyMap` | what a cache promises its users | abstract specification |
| `Resolver`, `MCResolver` | a query from the packet to the answer, in threads and in tasks | composes `RiskEngine` and `DNSCacheOps` |
| `ThreatIntel`, `MCThreatIntel` | store, database, synchronisation, `add_ioc`, `lookup` | state machine, TLC instance |
| `FeedPolling`, `MCFeedPolling` | pages of a collection, the parser, the merge of several feeds | state machine, TLC instance |
| `FeedWorker`, `MCFeedWorker` | start, stop and loop of the synchronisation thread | state machine, TLC instance |
| `TunnelDetector` | the four heuristics of `analyze` | operators |
| `VolumeTracker`, `MCVolumeTracker` | the sliding window under `analyze` | state machine, TLC instance |
| `MCDetectors`, `MCFeeds` | the two instances of the risk engine and the volume tracker as one; those of the worker and the polls as one | TLC instances |
| `LiveFeed`, `MCLiveFeed` | App's sockets, frames, refreshes and list of queries | state machine, TLC instance |
| `StreamTable` | search, filter, sort and pages of the query table | state machine |
| `DomainInspector` | the inspector, its evaluations and App's pair | state machine |
| `IndicatorBrowser` | the browser of indicators with its debounce, and `get_indicators` | state machine |
| `ForensicUpload` | modal, investigator and the report they share | state machine |
| `CopilotChat` | conversation, requests, actions, model | state machine |
| `Overlays` | overlays, tabs, searches and the keys | state machine |
| `DonutChart`, `QueryGroups` | percentages; buckets, summaries by address and the audit table | operators under a small state machine |
| `EliteTelemetry`, `EliteQueryTable`, `EliteDialogs` | EliteCore's event stream, paged table and dialogs | state machines |
| `Consoles`, `MCConsoles` | the eleven console modules other than `LiveFeed` as one specification | composes them, TLC instance |
| `Subsequence` | what remains of a sequence when positions are dropped | operators, used by the cache and the volume tracker |
| `SequenceLemmas`, `OperatorLemmas` | facts about sequences and `Subsequence`; facts about the operators of the risk engine and the cache | proofs |
| `ResolverProofs`, `DNSCacheProofs`, `DetectorProofs`, `ThreatIntelProofs`, `FeedProofs`, `ConsoleProofs` | theorems about the specifications | proofs |

Definitions named `...` with the comment `Mutant:` are mistakes a programmer
could make in the operator that follows. No action uses them; each property is
seen to fail when the operator is replaced by its mutant.

### 2.1 RiskEngine

Scores are integers in hundredths of a point, weights percentages, so the
products are exact and `round(raw, 2)` is an integer division. Python rounds an
exact tie by the binary value of the product and the model rounds it up; no tie
lies on a threshold. `behavior_score` is an input although no caller of the
repository passes one. The indicator's confidence does not matter: a match
counts 100.

### 2.2 DNSCacheOps, DNSCache and LossyMap

The dict is a sequence in insertion order, because eviction takes
`next(iter(...))`; replacing a value keeps its place. `expires_at` is kept as
the lifetime left, and `Tick` ages every entry and every lifetime that a thread
has computed but not stored. `_normalize_domain` has been applied: keys are
classes of names, `NoKey` is what it makes of an empty name. Each method is two
steps, what it does before it takes the lock (`CallGet`, `CallSet`, `CallPrune`)
and what it does while it holds it; `late` says whether time has passed since
`prune_expired` read the clock, in which case it may spare what expired since.

`LossyMap` is the contract: a map that may forget anything at any time, and
answers a lookup with nothing or with the last decision written for that key,
within its lifetime. `Visible`, the refinement mapping, is the function from
the keys still live to their decisions.

### 2.3 Resolver

`pc[w]` is where a worker stands: `cache` (before `dns_cache.get`), `intel`,
`detect`, `stamp` (before `set` computes the expiry), `store` (before it has the
lock), `respond`, `primary` and `secondary` (the upstream exchange), `reply`.
`SyncWorkers` run `process_query` on behalf of `handle_packet` or
`process_wire_query`; `AsyncWorkers` run `process_query_async` for the evaluate
handler. The difference between the two is in the code and in the model: the
fast path after a match, and the timeout of the fan-out. A step is what runs
between two points where another thread or task can come in.

- `CacheHit`/`CacheMiss` are `DNSCache.get`, with the deletion of an expired
  entry on a miss; `Stamp`/`Store` are `DNSCache.set`.
- `IntelLookup` reads the store as a set of matching names; `PublishIntel` is
  any swap or insertion. `ThreatIntel` opens both up.
- `Detect` is classifier, tunnel detector and `calculate_risk`. The probability
  is a constant of the name; the tunnel score is any value of a set, since it
  depends on the client, the query type and its recent volume.
- `IntelRaises`, `DetectorRaises` and `DetectionTimeout` are the fallbacks of
  `_call_module_*` and of `except asyncio.TimeoutError`. `degraded` is a history
  variable: the decision object does not say that a fallback was used.
- `PipelineRaises` is the front ends' `except Exception`, from any point of the query
  on, after its decision was stored as well: the answer that was being made is
  replaced by SERVFAIL. For a task it is the exception that leaves the evaluate
  handler, out of the pipeline or out of what follows it.
- A dropped malformed packet changes nothing and has no action.

### 2.4 ThreatIntel

`db` and `health` are the tables and survive `CrashAndRestart`; all else is the
process. `sync[t]` holds the locals of one `sync_all_feeds`, and the steps are
its calls: `BeginSync` (the lock that nobody waits for), `PollSucceeds` and
`PollFails`, `EndPolling` (also the break at a shutdown), `Commit`, `Load`,
`Swap`, `StoreFails` (rolled back; statuses turned into FAILED), `ReadHealth`
and `WriteHealth` (two statements without a transaction around both),
`HealthFails`, `EndSync`. Two threads synchronise because `stop` gives up
joining after five seconds and `start` clears the event the first loop waits
for. `add_ioc` is `AddToMemory` then `AddToDatabase` or `AddFails`. A lookup
tries its candidates one read at a time (`TryCandidate`), and reads the attribute
again to index it (`ReadEntry`). `published` is a history variable: what a
synchronisation has swapped in.

Left out: what an indicator says beside its domain, timestamps, latencies and
messages of the health rows.

### 2.5 FeedPolling

What `ThreatIntel` takes as one result is a loop of requests here. `Page` is
the range that `fetch_collection_objects` asks for, out of what the server holds
at that moment: `Publish` and `Withdraw` happen between any two requests.
`ParseStix` folds `Keep` over the domain indicators, in the order they came;
an unreadable confidence makes it empty, as the `except` around the loop does.
`Escapes` is what that `except` does not name: the category of an object whose name or
description is not a text (`Unmapped`) raises AttributeError, which `poll_and_parse_feed`
turns into a FAILED poll (`ParseFails`), unless an unreadable confidence came first.
`MergeFeed` is folded over the feeds in the order of the dict. A category is its
`CATEGORY_PRIORITY`. `before` and `shifted` are history variables. The shutdown
that breaks off the loop over the feeds is in `ThreatIntel` and `FeedWorker`.

### 2.6 FeedWorker

`start` and the first half of `stop` are atomic, since they run under
`_state_lock`. `Join` reads `self._thread` after that lock is released, and
`Joined` may come before the thread has ended. `pc[t]` is where a thread stands:
`top` (before the test of the event), `sync` (before the lock), `poll`, `update`
(store and health rows), `sleep`, `ended`. `UpdateRaises` is the exception that
leaves `_run_loop`: the thread ends while `_is_running` stays set, and `Start`
does nothing from then on. `Threads` bounds the threads alive at a time.

### 2.7 TunnelDetector and VolumeTracker

`TunnelDetector` gives the points of each heuristic; the two rates are constants
so that a small window can have a burst (30 and 50 in the code, used with these
values in `MCRiskEngine`, where the scores of the detector are the inputs of the
risk engine). In `VolumeTracker` a query gets its timestamp in `Receive` and is
recorded later; in between the clock may advance and others may be recorded.
The deque is purged from its front only (`Purged`), the sorted set of Redis by
score (`Removed`). `RedisFails` may have executed the pipeline or not, and goes
on to `RecordInMemory`. `log` and `heard` are history variables: what each backend was
given, and what the clock showed when Redis was given it.

Timestamps and the clock are two things. The parsers of captures build naive times from
UTC seconds (`pcap_parser.py:62,113`, `zeek_parser.py:78`) and
`tunnel_detector.py:67` reads them as local, so an uploaded query can be hours ahead of the
clock or behind it; `Skew` is how far ahead, any natural number. The window goes by
the timestamps and the key of Redis by the clock: entries that are inside the window of later
timestamps can be dropped with their key. This is what the code does; what the
properties promise of Redis is therefore about entries given to it less than two windows
ago by the clock, and of the deque about all.

### 2.8 The consoles

A user interface is a state machine driven by clicks, frames, answers, failures
and timers, in any order; each module has one action for each. A control that the
page disables or covers is a guard. `fetch` is two or three steps (asked, read by
the back end, answered or failed), so answers overtake each other. What several
components share (the list of queries, the topbar's search, the report, the tab)
is an action of each, taken at any time with any value it may have.

Two facts of React 18 matter and are modelled as they are used. `main.tsx` mounts
under `StrictMode`: effects run, are cleaned up and run again, so an effect that
opens a socket opens two, and the cleanup's `close()` brings a close event that
starts another chain (`Mounts`, `HookRuns`, `EffectRuns`, `ModelFetches`). And a
listener that changes state makes React re-render before the next listener on the
window is reached, and every overlay gets a new `onClose` at each render of App:
its old listener is removed and the new one is not part of the dispatch
(`ListenerRuns`). A production build has one run of each effect; it is the case
of the constants at 1.

- `LiveFeed`: `chain[e]` is where the sockets of the e-th run of the effect are
  (`connecting`, `open`, `closing`, `waiting` for its timer). `requests` is a bag
  of refreshes with the limit they close over and, once the back end has read, the
  length of its log then. `shown` and `disturbed` are history variables: the
  newest data the list was given, and whether an answer was lost or overtaken.
  A decision is logged (`LogDecision`) and later broadcast (`Broadcast`), as the two
  awaits of the handlers do; `unsent` are those in between. `second` is `created_at`,
  which counts whole seconds: `RecentRows` is the set of lists that
  `ORDER BY created_at DESC LIMIT` may give, with the rows of one second in any order and
  any of them cut. The metrics fetched before each list are left out.
- `StreamTable`: a search term is the set of rows it matches, `Key` what a column
  sorts by. A list may have a row twice, as App's has between two refreshes. `shrunk` says that the list or the topbar's search changed since the
  page was set; the page is then not corrected.
- `DomainInspector`: `evaluations` says of each whether the mounted view sent it.
  `Outcomes` are the back end's decision, the guess by letters when the answer is
  not ok, and SUSPICIOUS when the request throws.
- `IndicatorBrowser`: `Scanned` is the count of `get_indicators`, which stops
  `Lookahead` matches after the page, so that the pages are a lower bound until
  the last. `overtaken` and `early` are history variables.
- `ForensicUpload`: a file is its extension, whether its name has `dns.log` in
  it, and what the back end would find in it with the right parser.
- `CopilotChat`: an answer carries an action or none. The back end passes on any JSON
  that the language model wrote (`copilot_manager.py:150-160`): an action may have a type
  that the console does not know, or lack its tab or domain. Each gets a card, and
  `executeAction` runs those that are `Executable`. `executed` and `clicks` are
  history variables.
- `Overlays`: `pending` are the listeners that a key has not reached. `OverlayOrder`
  is the order of the JSX, of the effects and of the layers.
- `DonutChart`: the floating-point quotient decides exact halves, so
  `NearestPercents` has both. `QueryGroups`: ages are tenths of a second; a
  search text is the addresses, statuses and scores it lets through.
- `EliteTelemetry`: `unrendered` separates frames from the render after them;
  `raised` is a history variable. `EliteQueryTable`: `current` is the effect's
  `cancelled` negated. `EliteDialogs`: `details` are requests for evidence,
  `upset` a history variable: whether the selected row's own request failed since it
  was opened, or another row's answer came with none for it since. These are the two ways
  in which the code leaves another row's evidence under it, and all that the property exempts.

## 3. Runs

| Run | Bounds | Shows |
|---|---|---|
| `resolver` | one thread, one task, two names (one generated), a cache of one entry, lifetime two ticks, one detector fault | `TypeOK`, `CacheWellFormed`, `DecisionsJustified`, `BlockedNeverForwarded`, `StaleVerdictsNotRenewed` hold |
| `resolver_live` | the same with one name, `FairSpec` | `EveryQueryAnswered`, `KnownThreatsEventuallyBlocked` hold |
| `resolver_match` | as `resolver` | `DirectMatchBlocks` is violated |
| `detectors` | engine: every tunnel score the detector can give, fourteen probabilities around the thresholds, three behaviour scores; tracker: two threads, one client, four queries, a window of two ticks, five instants, timestamps up to three ticks ahead of the clock, one Redis fault; the second query is an elevated rate, the third a burst | `FastPathAgrees`, `OneDetectorNeverBlocks`, `MoreEvidenceNeverSofter`, `RecentQueriesKept`, `InOrderVolumeExact` hold |
| `risk_readme` | the scores of `detectors` | `ReadmeBoundaries` is violated |
| `dns_cache` | two threads, three keys, two values, a cache of two, lifetimes of one and two ticks | `DictWellFormed`, `LiveKeysLeaveInOrder` and the refinement `RefinesLossyMap` hold |
| `threat_intel` | two feeds, two indicators (the parent of the looked-up name, and the one an empty table is seeded with), two synchronising threads, one `add_ioc`, one lookup, one fault, one failure in a row | `SuccessMeansInForce`, `ListedNamesNeverClean`, `FeedIndicatorsStay`, `FailuresCountedOnce` hold |
| `feeds` | worker: two controllers, three threads alive at a time, two feeds, one exception; fair. Polls: two feeds, two objects to a page, up to three and one objects, five kinds of objects | `WorkerTypeOK`, `SyncsNeverOverlap`, `StoppedLoopsEnd`, `RunningKeepsPolling`, `PollComplete`, `MergeIsJoin`, `ParsedAllOrNothing` hold |
| `intel_lookup` | one feed, one thread, no fault; the looked-up name and its parent can both be listed | `ListedNamesMatch` is violated |
| `consoles` | below | `ConsolesTypeOK` and one property of each of the eleven modules hold |
| `live_feed` | two decisions logged, one seed row, two chains, limits 1 and 2, four refreshes, one fault or change | `QuietStreamAgrees`, `BadgeTrueAtRest` hold |
| `stream_limit` | as `live_feed` | `StreamLimitHonoured` is violated |

Why these bounds are enough for what is asked: a cache of one entry with two
names makes every store evict; a lifetime of two ticks separates fresh, old and
expired; one thread and one task give every pair of steps of the two pipelines,
which is where they differ. Three keys and a cache of two make eviction order
visible. Two synchronising threads are what the lock is for, and one fault lets
each single step fail after any history. `MaxFaults` bounds faults and
`MaxFailures` the failures of a feed in a row; nothing else is cut there. Three
objects and a page of two give a last page that is short, full or empty. Three
threads are a loop, one that a stop gave up on, and one more after it; a start
that would need a fourth has to wait for one to end. Four queries and three
rates are one more than a burst needs; `MaxClock` lets a key expire and one more
query come. `risk_readme` turns the deadlock check off since evidence only
grows, `detectors` since the clock and the queries of its tracker are bounded too,
`consoles`, `live_feed` and `stream_limit` since logs, conversations and faults are; all other
instances run for ever. `detectors` and `feeds` are sums: `part` says which of two
components that share no state a behaviour is about, so nothing is lost by not
interleaving them. Type invariants of modules whose next-strongest invariant needs the types
anyway are conjuncts of that one (`DictWellFormed`, `RecentQueriesKept`,
`SuccessMeansInForce`, `MergeIsJoin`). Symmetry is used where no liveness is
checked and the permuted values are interchangeable in every definition.

`live_feed` has duplicates from two chains, an answer older than a frame, two rows of one
second, a decision read before it is broadcast, and a limit below the default's.
`consoles` is a sum of the same kind as `detectors`, over `view`. A component's behaviour depends
on another only through values that are actions of its own, taken at any time; the
sum has every behaviour of each, and no instance of all eleven at once would have
more. Its bounds, one case each:

| Module | Bound | Case it is for |
|---|---|---|
| `StreamTable` | lists of up to three, with a row twice too, keys with a tie, pages of one or two, a term with two rows and one with none | stable sorting, a filter that leaves the page behind |
| `DomainInspector` | two names, three evaluations, the effect run twice | overlapping evaluations of both names from two mounts |
| `IndicatorBrowser` | three indicators, a search with one hit, pages of one or two, a lookahead of one | counts that are lower bounds, a page turned during the debounce |
| `ForensicUpload` | an empty capture, a log in capitals, a rotated `dns.log`, a file refused; two uploads of views | every endpoint and parser, overlapping answers |
| `CopilotChat` | five messages, two prompts, a model the pickers do not offer | a prompt while loading, a late list of models, actions that are ignored |
| `Overlays` | three decisions, one text, a palette of two rows | every set of open overlays with every key |
| `DonutChart` | counters of 0, 1, 2, 7 | no query, halves, shares that round up together |
| `QueryGroups` | two queries, ages at and beyond both ends of the minute, three scores, one seeded address, two texts | edges, a text that matches nothing, a status from another query than the last, a selection hidden by a search |
| `EliteTelemetry` | two ids (one blocked), one event kept, two rows, two chains | an id delivered again after the list dropped it |
| `EliteQueryTable` | two rows, pages of one, three requests, one failure | answers of three parameter sets in any order |
| `EliteDialogs` | two rows, two captures, two requests | a late answer for the other row, a failed request of either |

**Fairness.** `FairSpec` is weakly fair for each worker's own next step and for
the clock: the operating system runs ready threads, the event loop runs ready
tasks, a lock is held for a few instructions. Upstream exchanges and detectors
are bounded by their timeouts, so a step out of them is always enabled. No
fairness is assumed of queries, feeds, faults or the indicator store.
`FeedWorker` is fair to each loop and each `join`: threads are scheduled, sleeps
and joins are bounded, and a poll is assumed to end, which the code leaves to the
server (a server that ignores the Range header and has a full page never lets it
end). Starts, stops and exceptions are not owed.

### What the violated properties say

- `DirectMatchBlocks`: README.md:164 promises BLOCK on a direct match. When
  `asyncio.wait_for` gives up, `process_query_async` replaces the three results
  by empty ones, including a match that had already arrived, decides ALLOW, and
  caches it. `KnownThreatsEventuallyBlocked` still holds under the bounded
  faults: the entry dies.
- `ReadmeBoundaries`: README.md:165-166 put the lower boundary at 40; the
  code's is 35 (`shared/config.py:50`), and a detector's own flag makes any
  score SUSPICIOUS.
- `ListedNamesMatch`: `lookup` tests and indexes `self._store` in two reads. A
  swap between them, after an `add_ioc` that the reload had not seen, raises
  `KeyError` although the parent is listed in both dicts; the orchestrator takes
  that for an unmatched name.
- `StreamLimitHonoured`: SettingsModal.tsx:192 calls the setting the maximum of
  records displayed. The WebSocket effect of App.tsx has no dependencies, so its
  handler knows the limit of the first render only, cuts by it and refreshes with
  it. After the limit was lowered, the next frame exceeds it again.

### What else the models made visible

These agree with no stated promise, or are outside a checked property; each can
be followed in the module named.

- `StreamTable`: after the list shrinks the table stays on a page that no longer
  exists ("3 of 1"), empty, until its own controls are used.
- `IndicatorBrowser`: "Next" during the debounce can lead past the end of the new
  search.
- `ForensicUpload`: the modal's reports have no field `threats_found`, so the
  investigator's counter is blank; an empty capture is shown as one of six
  queries; a Zeek log called `.LOG` is sent to the packet parser by both views,
  and `dns.log.1` by the modal. Failures are shown as made-up reports and verdicts.
- `VolumeTracker`: west of Greenwich an uploaded capture is hours ahead of the clock; its
  queries leave the window of Redis with the key, two windows after the last of them was
  recorded, although the next capture may have queries less than a window younger.
- `CopilotChat`: "Action Executed" is also shown for an action that was ignored, as
  it has a type the console does not know or no tab or domain. The models fetched never reach the pickers, and the fetch
  overrides a choice made before it answered.
- `Overlays`: Escape closes the overlay at the bottom first; the palette's filter
  does nothing without a text.
- `DonutChart`: the allowed share can be -1, a dash array that SVG rejects.
- `QueryGroups`: buckets do not move while no query comes; without a query in the
  last minute the chart draws a made-up wave; the seeded address 192.168.1.110
  has threats and yet the status SUSPICIOUS.
- `LiveFeed`: the label says "REST POLLING" while the socket is down, and nothing
  polls; `handleRunTestQuery` is never called.
- `EliteTelemetry`: a blocked event followed by another before the render raises
  no toast; a toast whose timer the next event cancelled stays until it is closed;
  the status OFFLINE is never set. elitecore/README.md:80-81 says an evaluated
  query "appears in the live query table instantly"; the table asks every five
  seconds and never uses the events.
- `EliteDialogs`: the evidence dialog cannot be closed while details load, and shows
  another row's evidence in two ways. Open A, close it while its details load, open B: A's
  late answer stands under B until B's comes. And if B's own request fails, what was
  there before stays: A's evidence under B, whenever A's answer came.
- `LiveFeed`: a decision is in the list by a refresh before its frame comes; two of one
  second may change places between two refreshes, and at the limit either is cut.

## 4. Proofs

Everything below is checked by `tlapm` to the last leaf, for every value of the
constants. The assumptions are the named ones of the modules, none stronger than
the code: lifetimes, sizes of the cache and of pages, windows are positive, the
two kinds of workers are disjoint, sets of limits and keys are what their names
say, `No...` values are outside the sets they stand beside. Three say what a value
of the code is in the model: a category its place in `CATEGORY_PRIORITY`, a
confidence that `float()` takes a number (`ObjectsAssumption`; NaN, which compares
with nothing, is left out), what a column sorts by numbers in the order of its
values (`StreamTableAssumption`). The types of the consoles need three more facts: the
verdicts of the back end are the page's three, no search has more hits than the
store, the seed rows are a list. Each theorem of the form
`Spec => []P` is an inductive invariant (the initial states have it, every action
keeps it, it implies P); most of the P are not inductive, and what had to be added
is what the following paragraphs are about.

| Theorem | States |
|---|---|
| `ResolverProofs!TypesHold` | `Spec => []TypeOK` |
| `ResolverProofs!CacheStaysWellFormed` | `Spec => []CacheWellFormed` |
| `ResolverProofs!DecisionsStayJustified` | `Spec => []DecisionsJustified` |
| `ResolverProofs!BlockedStaysHome` | `Spec => []BlockedNeverForwarded` |
| `ResolverProofs!StaleVerdictsAreNotRenewed` | `Spec => StaleVerdictsNotRenewed` |
| `DNSCacheProofs!DictStaysWellFormed` | `Spec => []DictWellFormed` |
| `DNSCacheProofs!LiveKeysAlwaysLeaveInOrder` | `Spec => LiveKeysLeaveInOrder` |
| `DNSCacheProofs!CacheIsALossyMap` | `Spec => RefinesLossyMap` |
| `DetectorProofs!FastPathAlwaysAgrees` | `EvidenceSpec => []FastPathAgrees` |
| `DetectorProofs!OneDetectorNeverBlocksAlone` | `EvidenceSpec => []OneDetectorNeverBlocks` |
| `DetectorProofs!MoreEvidenceIsNeverSofter` | `EvidenceSpec => MoreEvidenceNeverSofter` |
| `DetectorProofs!RecentQueriesAlwaysKept` | `Spec => []RecentQueriesKept` |
| `DetectorProofs!InOrderVolumesAreExact` | `Spec => InOrderVolumeExact` |
| `ThreatIntelProofs!SuccessAlwaysMeansInForce` | `Spec => []SuccessMeansInForce` |
| `ThreatIntelProofs!ListedNamesAreNeverClean` | `Spec => []ListedNamesNeverClean` |
| `ThreatIntelProofs!FeedIndicatorsAlwaysStay` | `Spec => FeedIndicatorsStay` |
| `ThreatIntelProofs!FailuresAreCountedOnce` | `Spec => FailuresCountedOnce` |
| `FeedProofs!WorkerTypesHold` | `Spec => []WorkerTypeOK` |
| `FeedProofs!SyncsStayApart` | `Spec => []SyncsNeverOverlap` |
| `FeedProofs!PollsAreComplete` | `PollingSpec => []PollComplete` |
| `FeedProofs!MergeIsOrderless` | `PollingSpec => []MergeIsJoin` |
| `FeedProofs!PollsAreAllOrNothing` | `PollingSpec => ParsedAllOrNothing` |
| `ConsoleProofs!BadgeIsTrueAtRest` | `LiveSpec => []BadgeTrueAtRest` |
| `ConsoleProofs!QuietStreamAlwaysAgrees` | `LiveSpec => []QuietStreamAgrees` |
| `ConsoleProofs!LiveTypesHold` | `LiveSpec => []LiveTypeOK` |
| `ConsoleProofs!ConsolesAreTheirComponents` | `Consoles!Spec` implies the specification of each of its eleven components |
| `ConsoleProofs!ConsolesAlwaysTyped` | `Spec => []ConsolesTypeOK` |
| `ConsoleProofs!PagesAlwaysShowEverything` | `TableSpec => []PagesShowEverything` |
| `ConsoleProofs!GroupingsAlwaysCount` | `GroupsSpec => []GroupingsCount` |
| `ConsoleProofs!InspectorAlwaysAgrees` | `InspectorSpec => []InspectorAgrees` |
| `ConsoleProofs!BrowserAlwaysAgrees` | `BrowserSpec => []BrowserAgreesAtRest` |
| `ConsoleProofs!UploadsAlwaysAgree` | `UploadSpec => []UploadsAgree` |
| `ConsoleProofs!TurnsAlwaysAlternate` | `ChatSpec => []TurnsAlternate` |
| `ConsoleProofs!KeysAlwaysActOnce` | `OverlaysSpec => []KeysActOnce` |
| `ConsoleProofs!DonutSharesAlwaysAddUp` | `DonutSpec => []DonutSharesAddUp` |
| `ConsoleProofs!EliteFeedAlwaysAgrees` | `EliteSpec => []EliteFeedAgrees` |
| `ConsoleProofs!TableAlwaysAgrees` | `QueryTableSpec => []EliteTableAgrees` |
| `ConsoleProofs!DialogsAlwaysAgree` | `DialogsSpec => []DialogsAgree` |

### Loops over lists

What a loop of the code makes of a list is a fold in the model, and what it yields
for a list of any length needs induction. The induction theorems of the library have
an operator parameter that the installed provers cannot instantiate;
`InductionOnNat` and `InductionUpTo` of `SequenceLemmas` say the same of a set of
numbers, by its least missing one (`LeastNumber`). `FoldRuns` then gives a fold its
run: the function from the places of the list to what has been computed up to there.
It starts with the base, takes one step of the loop at each place and ends with the
fold; what the loop keeps is shown of the run by `InductionUpTo`. Sorting is in the
models a count: the place of an element is one more than the number of those before
it. `PlacesOfOrder` shows that each place is then taken exactly once, `CutAndJoin`
that a list cut into pages and joined is the list.

### Resolver

- *Types.* `TypeOK` is inductive. Its work is in the cache: `OperatorLemmas`
  shows that `AfterMiss`, `Put` and `Aged` map sequences of entries to such.
- *Cache.* `CacheWellFormed` is inductive given `TypeOK`: `RemoveAt`, an
  overwrite in place and `Append(Tail(cache), _)` keep keys unique, and the last
  is taken exactly when the cache is full.
- *Justified decisions.* The invariant speaks of workers and of the cache
  together, since a decision moves from the one to the other and back: a store
  makes a worker's decision the cache's, under the same key, and a hit makes the
  cache's a worker's. It is relative to `TypeOK` and unique keys (the entry that
  `At` finds is then *the* entry of a key). What the risk engine decides is justified by
  `DecideCases`, which names the branch it took.
- *Blocked names.* `BlockedNeverForwarded` is not inductive: a worker at `reply`
  with an upstream's answer says nothing about how it got there. `ForwardInv`
  adds that a worker that has not answered carries no answer yet.
- *Renewal.* An action property, so one proof for each action. Only `Store` can
  make an entry live longer; that it then belongs to a query which had looked the
  name up before needs `LookupInv`: up to its store a query has had no cache hit, and
  what it stores without a match comes from a lookup that was clean, or from a fallback.

### DNSCache

`DictWellFormed` is inductive with `StoresRealEntries`: what a `set` is about to
store has a real key and a real decision, which only its first half has tested.
`LiveKeysLeaveInOrder` then is a case distinction over what a method does to the
dict: dropping entries keeps the order of the others, and a store adds at the end.

The refinement maps the cache to `Visible`, the function from the keys still live to
their decisions. Each operation is a lemma about that function: `AfterMiss` and
pruning do not change it, `Put` replaces one key's decision and pushes out at most one
other, `Aged` is the map's passing of time. A get is a lookup, a set that stores is a
write with what the wait for the lock left of the lifetime, `clear` forgets
everything, and a call, which clears the thread's answer, is a lookup of no key.

### Risk engine and volume tracker

`CompositeScoreMonotone` and `DecideMonotone` carry the engine's action property;
the rounding is monotone because integer division is. The three theorems hold for
every score, not only for those on the grid of `detectors`.

`RecentQueriesKept` is about single timestamps, and of Redis about entries that are
fresh by the clock, so it neither adds up to the counts of a window nor
survives a purge. `WindowInv` says it of any set of times: if none of them is too old
for a query that the backend has been given, there are as many entries with these
times in the backend as it was given. A purge takes only what is too old for the
query that purges, and this query is then among those the premise speaks of.
`ExpiryInv` is for Redis' expiry of the whole key: the key lives for two windows
after the clock at which it was last given an entry (`heard`), so while one entry is fresh
the key is there with all that were given after it. No relation between timestamps and
clock is assumed. For
exactness `SortedInv` adds that a deque that was given its entries in order holds
them in order, so that the purge from the front leaves nothing old behind; and what
is not too old is not too new either, because the query's own time is the last.

### ThreatIntel

All four properties follow from `IntelInv`. `Alone`: who is between two steps of a
synchronisation holds the lock, and who is not has no locals left. `StoreSound`:
what was published and what a health row claims is in the table and in the dict.
`SyncSound` is the same of the synchronisation that is under way, for what it is
about to load, swap in and report: in particular the dict it is about to swap in has
all that other rows claim, although the rows were written before. `LookupSound`
says of a lookup of a listed name that a published candidate is still to be tried,
or was found in the dict a moment ago. The crash empties memory and keeps the table, and the
restart loads the dict from it, which is why the table is part of every conjunct.

### Feeds

- *Worker.* `SyncsNeverOverlap` is an equivalence (a thread is in the region
  exactly if it is the lock's holder), which makes it inductive given the types;
  the weaker "at most one" is not, since it does not say who may release.
- *Pages.* `PagesInv`: until something is withdrawn, what a poll has fetched is the
  front of the collection, as far as the next page. A short page ends it, and then
  all that was there at the beginning has been read.
- *Merge.* After each feed, what is merged is the join of the feeds so far
  (`MergeJoins`): `resolve_category` takes the greater of two, so one more feed is one
  more element of the maximum (`MaxOfMore`). `MergedInv` carries it to the next
  synchronisation.
- *Bundle.* After each indicator, every domain seen has one of its indicators so far
  that none of the others exceeds (`KeepStrongest`).

### Consoles

What most of them share: the property speaks of a component at rest, and the
invariant says what is still on its way when it is not.

- *Together.* The component that `view` names takes its own steps and the others
  stutter, so `ConsolesAreTheirComponents` carries each theorem about a component over
  to the specification that the run `consoles` checks.
- *Types.* Parts of the invariants below are types already; the rest (`LiveTypes`,
  `ResultsTyped`, `BrowserTyped`, `ModalTyped`, `EliteTyped`, ...) is inductive next to
  them (`LiveTypesHold` is proved of the stream alone). Not every type is local to a step: that a frame names a logged decision needs
  that the log only grows, that what an answer brings is a decision needs that the
  request was read from the log, and that a count is the store's needs `CountInv`.
- *Badge.* While all sockets are open the badge is on, whichever wrote it last.
- *List.* `ListInv`: undisturbed, the list is what the back end had when its newest
  data was read, or some refresh under way has read, or is yet to read, what is no
  older. Requests are a bag; `BagPlusOne` and `BagMinusOne` are all that is needed of it.
- *Table.* `TablePageInv`: the page exists or is the first, unless the list changed
  since it was set, since each control that may shorten what is listed goes back to the
  first. That the pages joined are the sorted list is `CutAndJoin`; that it has the rows
  that match, each as often as the list does, is `PlacesOfOrder`, since ties fall to the place in the list
  and the order is therefore strict and total.
- *Groups.* The steps keep only the types (`GroupsInv`); the rest is about two
  loops. After each query a bucket counts those of its age so far, and a summary has its
  seed and the queries of its address so far, with the status its counts and score
  give, or the seed's if there were none. Cards are sorted by score, so no card exceeds the first.
- *Inspector.* A view that shows another pair than App's has an evaluation under way.
- *Browser.* `FetchInv`: with no timer running, the last request is for the controls
  as they are, under way, answered last, overtaken or lost. `CountInv`: the page starts
  within what its search matches unless it was turned early, which needs that
  `Scanned` looks far enough beyond the page.
- *Uploads.* That the modal has at most one upload is not inductive: a second
  could start while one is under way unless `modalLoading` says so, and an answer
  clears it. `ModalInv` says of the set that all its members are equal, and that it
  is not empty exactly while loading; `ViewInv` is the rest, inductive as it stands.
- *Turns.* The parity of the conversation's length says whose turn it is; the one
  request was sent with the history before the last message. `CardsInv`: the actions
  executed are those of the cards that can be executed, in their order; one more card
  adds its action to both or to neither (`AnswerStep`).
- *Keys.* Until a listener reacts nothing has changed; Ctrl+K is first for App, which
  always reacts, and Escape is first for App, which does not, and then for an open
  overlay, which does.
- *Donut.* Multiplied by the total, each share is within half a percent of its
  counter, and the third's error is the sum of the other two. The provers are given
  the products as named numbers, since they do not multiply variables.
- *EliteCore's stream.* Lists of events, rows and toasts are injective sequences; an
  id that was raised is remembered.
- *EliteCore's table.* Requests of the parameters' own last no longer than these;
  rows come with the total of what they answer.
- *EliteCore's dialogs.* `EvidenceInv`: unless upset, the selected row's evidence is
  shown or its request is in the bag, which another row's answer does not take from it.

### Only model-checked

- `EveryQueryAnswered`, `KnownThreatsEventuallyBlocked`, `StoppedLoopsEnd`,
  `RunningKeepsPolling`: liveness under fairness is out of the provers' reach.

## 5. Plan

In this order:

1. `UDPLifecycle` with `ResolverMetrics`: the listen thread, its socket, start
   and stop, and the counters that each packet moves;
2. the broadcasts of both back ends with their awaits, uploads that run twice;
3. `DTLSSessions`.

## 6. Not modelled

The classifier and its training, feature extraction, the parsers of packet
captures and Zeek logs, DNS wire formats and the copilot's language model are
numbers, bytes and text rather than behaviour. `resolve_target_ip` fills a field
of the report and decides nothing. Of the consoles: colours, themes, tooltips,
curves, animations, icons, number and date formats, PDF and CSV reports, the tabs
inside the evidence modal, the check for a local model in the settings, the feed
statistics and the widgets of EliteCore that show one answer of the back end (top
blocked domains, trends, gauges): each displays or formats a value and keeps none
that another part reads. Performance figures of the documentation are not about
states.
