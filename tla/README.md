# A verification project for opencode-dashboard

`opencode-dashboard` reads the local data of six coding tools, keeps the part of it that cannot
change any more in a SQLite cache, and shows cached and recent data together in a terminal and a web
dashboard, with an assistant that answers questions about them. This directory models how that works
in TLA+, checks the models with TLC on small instances, and proves theorems about them with TLAPS for
every instance. Paths are relative to the repository; `internal/...` is below `src/`.

    tlc -workers 2 -config CacheStore_core.cfg MCCacheStore      (any run below)
    tlapm CacheStore_proofs.tla                                  (any *_proofs module)

`PROJECT.json` lists the components, the runs, the code behind every definition (`map`), what can go
wrong where (`hazards`), the disagreements between code and documentation (`findings`), for every
checked property the mutations of the model that break it (`mutants`), and the theorems.

1. [The system](#the-system)
2. [Modules](#modules): what each models, and what it leaves out
3. [Runs](#runs): questions, bounds, fairness, violations
4. [Theorems](#theorems): the inductive invariants, and what stays model-checked
5. [Not modelled](#not-modelled) and [what is left](#what-is-left)

## The system

| part | state | operations | what is hard |
|---|---|---|---|
| Cache store (`internal/cache/store.go`, `merge_store.go`, `fingerprint.go`, `schema.go`) | `source_state`, `message_index`, one lock per source, one write slot, a memo of the state row | `SyncSourceWithOptions`, `LastSafeCutoff`, `Open` | two phases (collect, write) while pricing, clock, availability and other syncs change |
| Rollup tables (`store.go`) | hourly usage, session rollups, tool index | replace all, replace a suffix | only a suffix is recomputed: what is before it must already agree |
| Cached reads (`internal/cache/source.go`, `merge*.go`, `*_rollup.go`, `query.go`) | memo of the recent window, fetch in flight | aggregates, lists, `Invalidate` | splitting a read at a cutoff that moves; pages over two halves; single flight across failures |
| Cache runtime (`cmd/opencode-dashboard/main.go`, `source_settings.go`) and registry (`internal/source/registry.go`) | the job, its queues, the cancel function of the current source, disabled ids | `Sync`, `NotifyPricingChange`, startup queue, tick, `RefreshPreferences`, `Close` | lost wake-ups, overtaking callbacks, a cancellation that hits the wrong sync, shutdown |
| Source snapshots (`internal/source/*/source.go`) | parsed snapshot with a time to live and a generation | load, bounded load, `Invalidate` | invalidation during a scan |
| Transcripts (`internal/source/{claudecode,codex,kimicode,qwencode,antigravity}`) | none: files of other programs | list, parse, normalise, deduplicate | forks, copies, interrupted requests, several records of one request |
| OpenCode reader (`internal/store`, `internal/stats`, `internal/source/opencode`) | the layout it detected | read-only SQL in two layouts | OpenCode migrates its data while it is read |
| Pricing (`internal/pricingalias`, `internal/source/pricing.go`, `*/cost.go`, `internal/web/pricing_aliases.go`) | settings database, snapshot per process, catalog index | upsert, delete, resolve | several processes, a snapshot against the database, identities of cached costs |
| Assistant (`internal/analyticsagent`, `internal/web/assistant.go`) | budget and records of a turn, event sink | rounds, tool calls, specialists, retry | concurrent agents on one budget; a stream that breaks half way |
| Assistant providers (`internal/analyticsagent/providers.go`, `internal/pricingalias/provider_settings.go`) | providers, keys, models, selection, revision | create, update, refresh, select, capture | read, call the network, write back |
| Assistant chats (`internal/chatstore`) | sessions, turns, signing key | append a turn, restore, delete | processes that share one database |
| Terminal UI (`internal/tui`) | tabs, overlays, selection | keys, results of loads | results that come in any order |
| Quota collectors (`internal/quota`, `internal/source/codex/ratelimits.go`) | kept answers, last good ones; the Kimi credential file and its lock directory, shared with Kimi Code | collect, refresh the login, save Claude's status line | a credential that can be used once, between processes that die or stop; answers that overtake each other |
| Configuration, update, web front end | | | see [Not modelled](#not-modelled) |

How they interact. A read of the web or the terminal goes to a `CachedSource`, which splits its window
at the cutoff of the store, reads what is before it from the cache and the rest from the live source,
and starts a fill when the cache is old. The live source answers from its snapshot of transcripts, or
from OpenCode's database. The runtime runs jobs that call the same `SyncSourceWithOptions` as a fill.
Preference changes reach the runtime through a callback of the registry and the fill through
`SetParticipation`; pricing changes reach the runtime (`NotifyPricingChange`), the memo of the recent
window and the snapshots (`Invalidate`) and, through the fingerprint, the next sync. The assistant
answers by reads of the same kind, with the provider its settings have selected, and stores the answer
in the chat database.

What makes each part correct:

* Store: the cache ends at the advertised cutoff, nothing before it is missing, wrong prices show in
  the stored identity, the cutoff does not go back, only a collection changes rows, what can become
  final does.
* Rollups and reads: every figure equals the one computed from all rows, wherever the cutoff lies.
* Runtime: one job; a cancellation reaches the right sync; a queue that is not empty is looked at;
  enabled sources catch up; the database is closed when nothing uses it.
* Snapshots and the shared fetch: no answer is older than an announced change; what is stale is so by
  a bounded time; reads do not go back.
* Transcripts and OpenCode: a request is counted once, keeps its row, and is the same in every load.
* Pricing: an alias prices what it names, an identity stands for one cost.
* Assistant: budgets hold, what is shown is what is signed and stored, keys stay with their origin,
  questions go where the tab says, stored sessions come back whole.
* Terminal: what is shown belongs to what is selected, and no overlay waits for ever.
* Quotas: the login outlives whoever refreshes it, old figures carry a badge, figures do not go back.

## Modules

| module | models | used by |
|---|---|---|
| `CacheTables` | operators of the tables: truncation to the hour, default cutoff, what a collection returns, upsert, replacement of a suffix, rollups | `CacheStore`, `CacheRollups` |
| `CacheStore` | consolidation of one source by jobs and fills, reads at the memoized cutoff | `MCCacheStore`, `CacheStore_proofs` |
| `CacheRollups` | the rollup tables after replacements, with rows that vanish or move | `MCTranscripts`, `SyncRuntime_proofs` |
| `WindowSplit` | how a period becomes a window, and a window two halves and whole hours | `UsageReads`, `CachedSource_proofs` |
| `UsageReads` | what a source answers from all of its rows: every aggregate and list | `CachedReads` |
| `CachedReads` | the same answers from the cached half and the live half | `MCFigures` |
| `GapRead` | the shared fetch of the recent window, its memo, `Invalidate` (`MCGapRead` takes the windows from `WindowSplit`) | `MCGapRead`, `CachedSource_proofs` |
| `SyncRuntime` | `cacheRuntime` and the preferences of the registry; one step `SyncSource` stands for a sync of `CacheStore` | `MCSyncRuntime`, `SyncRuntime_proofs` |
| `SnapshotCache` | snapshots of the transcript sources, five kinds | `MCSnapshotCache`, `SnapshotCache_proofs` |
| `AnnouncedReads` | abstract: a read shows nothing priced before the change that was announced when it began | implemented by `SnapshotCache` and `GapRead` (`KeepsPromise`) |
| `ClaudeTranscripts`, `CodexRollouts`, `KimiWires`, `QwenChats`, `AntigravitySteps` | what each tool writes and what its reader makes of it | `MCTranscripts` |
| `OpenCodeReads` | OpenCode's database under migration, and every live read of it | `MCFigures`, `Figures_proofs` |
| `PricingAliases` | aliases, catalog index, resolution, costs, pricing identity | `MCFigures`, `Figures_proofs` |
| `AgentTurn` | one turn of the assistant with its specialists | `MCAgentTurn`, `AgentTurn_proofs` |
| `ProviderStream` | the streamed answer of a provider, with its retries | `MCServices`, `TerminalViews_proofs` |
| `ReasoningText` | how a reply is cleaned of reasoning, whole or still coming in | `MCServices` |
| `AssistantProviders` | providers, keys, models, selection | `MCServices`, `Assistant_proofs` |
| `AssistantChats` | stored conversations and the key that signs them | `MCServices`, `Assistant_proofs` |
| `TerminalViews` | the terminal dashboard under keys and loads | `MCServices`, `TerminalViews_proofs` |
| `KimiLogin` | the login of Kimi Code, refreshed by several processes under a lock directory | `MCServices`, `MCKimiLogin`, `Assistant_proofs` |
| `QuotaAnswers` | what is told of the quotas, with the answers that are kept | `MCFigures`, `Figures_proofs` |
| `MC*` | instances for TLC | |

Some MC modules put several systems into one run. The parts share no state: `part` is chosen in the
initial state and a behaviour is one of one part, so a property of such a run is the conjunction of
what each part has to satisfy. `MCFigures` has the parts reads, aliases, pricing, opencode and quotas;
`MCServices` stream, providers, chats, terminal, overlays and login; `MCTranscripts` the five tools, and
the rollups of rows like theirs.

### CacheStore

`state` is the `source_state` row (status, pricing and data part of the fingerprint, cutoff), `index`
the `message_index` rows, each with the pricing and the data version it was written with, `lock` the
source lock, `slot` the write slot (`OtherSource`: the sync of another source holds it), `memo` the
memoized cutoff. A syncer goes `Begin` (the caller computes the cutoff), `Probe` (`Info`, before the
lock, which is where the pricing identity is read), `Acquire` or `Skip` (`TryLock` of a fill),
`Inspect` (fingerprint, state row, mode, window, or a skip to verification), `Collect`, `Commit`,
`Publish` (invalidation of the memo, unlock). `InspectUnavailable`, `GiveUpUnavailable`,
`CollectFails` and `WriteFails` are the error paths. A reader goes `ReadBegin`, `ReadQuery`,
`ReadSeed` (`sourceMemo`, whose generation check is `read.fresh`), `ReadCache`, `ReadLive`. The
environment ticks, may set the clock back, adds rows, changes pricing and availability, and restarts
the program, also with a newer data version or another schema.

Abstractions: time is in small units; a collection is one stable snapshot (the code retries until it
gets one); a pricing identity is a number, which by default never comes back and under
`PriceMayRevert` may, as the content digest it is. Known exceptions: `ReadsComplete` excepts a read
that was split at a cutoff a rebuild has since moved back (a rebuild takes the cutoff of its caller,
which a fill may have passed); `StalePricingIsDetected` needs identities that do not come back,
because `Info` is called before the lock (store.go:408-433); `NothingHidden` needs rows that appear
within the safety delay (`Lag`) and a clock that is not set back.

### CacheRollups, WindowSplit, UsageReads, CachedReads

In `CacheRollups` a sum is the set of rows it sums over, so that two aggregates are equal exactly if
they count the same rows as often. `Fill` and `Replace` are the transactions of `fillSource` and
`replaceSource`. `Undated` messages take the modification time of their file and move when it is
written (`Restamp`); an undated row that moves stays counted in its old hour until a rebuild
(store.go:1365), which `HourlyAgrees` excepts.

`UsageReads` says what every read has to return, `CachedReads` how the cached source puts it together
(`splitPeriod`, whole hours from rollups, edges row by row, merges of both halves, pages over a list
that is partly cached). Costs are powers of two, so a sum tells which rows it counts. A read happens
in one state; what happens between its steps is the subject of `CacheStore` and `GapRead`. Known
exceptions, written into the properties: an hour trend of a rolling window shows the whole first hour
once the cache answers; sessions count twice in a hour that spans a cutoff that is not aligned, in the
tools and per dimension (documented in the code); the session page loses an entry whose live creation
time is earlier than the cached one (merge_lists.go:246); a page of a project's sessions that is
interrupted by a commit (merge_store.go:312). Token columns are one amount; a text filter on titles,
the order of sessions that tie, and roles of the SQL cost sum are abstracted.

### GapRead, SnapshotCache, AnnouncedReads

A request of `GapRead` is at `check` under `gapMu`, `wait` on the channel of the request in
`inflight`, `fetch` or `store`. `memo.to` and `req.to` are what the code does not keep, the end of the
window the fetch had; `known` is what the source held at that fetch.

`SnapshotCache` has the steps of `loadSnapshot` and `loadBoundedSnapshot`; `kind` selects among the
variants: `claudecode` takes the pricing before it parses and the others after, `kimicode` looks at
the slots once more after it has parsed, `antigravity` reads with its lock held and keeps the pricing
with the snapshot, `qwencode` takes the steps of `codex`. Files only grow; a record is written when
its file gets its modification time, up to `Margin` after the time it carries. Reads of kimicode may
go back when the deadline of a caller lets a scan outlast `SnapshotTTL` (kimicode/source.go:536-543).

### SyncRuntime

A step is what happens between two lock operations. A caller of `RefreshPreferences` is at `Load`
(settings read), `Swap` (applied under the registry's lock), then for every changed source `Visit`
(reads `Enabled`), `Apply` (the runtime's lock), `Participate`, `Requeue`, and last `Launch`. The
ticker is such a caller too and goes on with `List` and `TickStart`. A runner goes `Pick`, `Arm`,
`Recheck`, `Probe`, `Announce`, `SyncSource` per source, then `FinishJob` and two drains. `Reprice`,
`NotifyCheck`, `NotifyQueue` are a pricing change and `NotifyPricingChange`; `Stop`, `TickerLeaves`,
`CloseStore` are `Close`. Logs, progress, pruning and the counters of a job are left out. Known
exceptions: a tick drops a catch-up that was queued after it had listed its targets (main.go:1205; the
next tick heals it); callbacks of two preference changes may overtake each other and leave fills
cancelled (source_settings.go:111-131).

### Transcripts

Each module has a log of the records in the order they were written, actions of the tool that write
them (requests that stream, end, fail or are cut off; forks, resumes, copies, subagents), and as
operators the reader: discovery, parsing, normalisation, deduplication, a load of everything, a load
with a lower bound, the load of one row. The usage of a request is a number of its own. File formats
and the copying of Antigravity's database beside its log are abstracted. What the tools are assumed
to do, and known exceptions:

* Claude: a file that is copied has dated records (an undated one takes a new time); a session forked
  under a new id, and records without uuid on one line, count twice or collide; a chunk with reported
  cost and no usage overwrites usage; a copy of an unfinished request is not continued.
* Codex: texts of prompts differ, a resumed thread is not resumed again (`ResumeChains`, which counts
  twice), parents are not deleted; a parent whose file is named in local time may be missed by a
  bounded load (codex/source.go:529).
* Kimi: a prompt in the middle of a step (`MidStep`) counts its request twice (normalizer.go:434);
  undated leading records change time; a fork shows copied history until its marker is written.
* Qwen: main and aside requests differ in their usage, one of each at a time per session, none longer
  than the margin of a bounded load; rows are judged while no request is under way.
* Antigravity: steps are dated; copies without a mark come from a conversation that sorts first
  (discovery.go:218); a row's session changes when the summary arrives that names its parent.

### OpenCodeReads

OpenCode 1.x keeps sessions, messages and parts; 2.x one row per item, and copies the old history
in the background, session by session, after `Upgrade`. The reader's detection is three statements
(`DetectTables`, `DetectPhase`, `DetectCount`), trusted until `Age` (15 s). Every read is an operator
per layout; `FiguresAgree` compares each with what consolidation collects (`ConsolidationData`), and
`HistoryIsWhole` says that while the import runs no message is lost or shown twice. Assumed: the
import makes one row of each message and drops the cost of compaction summaries (README.md:78); 1.x
does not write after the upgrade. Abstracted: a read is one statement (the code's statements are not
in one transaction and may use two layouts), texts, order, paging and filters of the lists, the
streaming fallback of the tools, `ConsolidationData` without `ensureStore`. Known: a page by hours
with times of its own extends by a day; a list of projects has those with requests, the page of one
counts all its sessions; a copied row of a fork with an equal millisecond counts twice; tools of 1.x
have call times of their own.

### PricingAliases

Dashboards of two releases share one settings database; each has a snapshot of the aliases and an
index of its bundled catalogs. `Begin`, `Commit`, `Swap`, `Answer` are the upsert and delete with
their lock and checks, `Resolve` the five sources' rules, `Cost` their cost formulas over one token of
each kind, `Identity` the digest the cache keeps. Known: another process's snapshot stays old until
it restarts or changes an alias itself; an Antigravity alias whose target is gone shows as resolved
(web/pricing_aliases.go:71); Antigravity does not compare currencies; Codex takes a borrowed price of
zero for cache writes as free (codex/cost.go:313), Kimi drops a borrowed one. The load of the index is
one step.

### AgentTurn, ProviderStream, ReasoningText

A run (the lead agent or a specialist) is `round`, `model`, `plan`, `announce`, `execute`, `collect`;
planned calls are items with a state and a code, a delegation starts a run named by its call, the
budget is shared, the records and the number of usage are what is stored with the answer, `view` is
what the browser shows. `ProviderStream` is one agent's rounds as text: pieces cumulative or not,
reasoning that is stripped, calls put together from fragments, an attempt that is withdrawn, the
answer that is signed. How a text is cleaned is a constant of it, which `MCServices` gives the operators
of `ReasoningText`. Known: an adaptive provider may be read wrongly when a piece repeats all the
text so far (minimax.go:1087, comments at 484-490), and records of concurrent calls are in the order
they end, not the order the model named them (run.go:711-713).

The calls of a turn have the numbers `Ids`, as many as its rounds can ask for (a reply with more than
`MaxPerRound` calls fails, the last round may not call); `PlanCall` has that bound in its guard, and it
never holds a turn up: `TurnEnds` is checked with it.

### AssistantProviders, AssistantChats

Requests that change providers are steps of single statements or transactions; what a request has
read stays in its record while another one writes. `turn` is the last question that was admitted,
`seen` what the tab shows, `Token` the consent it was shown with. Known: a rename that was begun
earlier can take an endpoint back without a new revision, a refresh may store the list of an old
endpoint, `Select` and `Delete` are not one step, and a built in credential that moves does not count
as a new revision. Catalog status, names and the verified flag are abstracted.

A custom model may be selected and asked with a limit of at least `MinimumUsable` (providers.go:21, 447),
a built in one with any. `named` is a history variable: the limit that the user (`PutModel`) or a list
(`Listed`) has last named for a model. `LimitsSurvive` says that the row keeps it. A list that names a
limit takes the place of the user's (provider_settings.go:365): a model that was set to 16384 can no longer
be selected once a list names 4096, and the run contains that case. Limits outside the range that
`PutAssistantModel` accepts are refused there, and are not tried.

`AssistantChats` has processes with a version and a key (`HistoryKey`: the first key that is inserted
is used by all; a process that cannot read it signs with a `local` one, and its answers are excepted from
`HistoryVerifies`), tabs that ask, restore and
go on, and turns that are appended in one transaction. `GetSession` is three reads. Two versions never
run at once, and every turn has a tool call.

### TerminalViews

One model, changed by keys and by results of loads; results of the tabs are taken whenever they come,
those of an overlay by the id it is open for. Known, and excepted: a day overlay is tagged by its date
only; identical loads in flight are one; late results overwrite newer ones of the same selection; a
load of the sessions clears the error of another load; a session opened from a project may be marked
missing; the cursor of the days is not reset when a shorter period loads, and then Enter is outside
the list of days, which ends the program (`panicked`, model.go:682). Rendering, cursors of the
tables, the configuration browser and help are left out.

### KimiLogin, QuotaAnswers

In `KimiLogin` a credential is a number, in the order the server issues them; the server takes each
refresh token once. `agent` is where a refresher is in `ensureFreshAccessToken`: it waits for the lock
directory, takes it or removes it when it looks abandoned, reads the file again, asks, and stores the
new credential or, after a confirmed revocation, a tombstone. Time is left out: a lock ages when nobody
beats, and `Pause` stops a process for longer than that. Retries are not counted. External, from how
the code uses them: Kimi Code itself (a refresher like the others), the server, logging in (while
nobody has the lock) and out. What is dropped with a lost reply, a dead process or a failed write is
lost, and the properties say so (`Underway`). Known: a lock that is taken away from a holder, because it
was stopped or because another process had found the one before abandoned (kimi_auth.go:627), lets two
refresh at once (`robbed`); the run `login_taken` shows what that may come to.

`QuotaAnswers` is one account of any of four kinds. `Fetch` takes the collector's mutex, `FetchedCodex`
and `FetchedLive` are the answers with what is remembered through failures, `TellCached` the answer that
is kept for `TTL`; Claude Code's snapshot is written by its status lines and read for every request. An
answer is its status and the time of its figures; the windows in it and their parsing are left out.
Known: an answer of a request whose browser has left is a failure, and is kept for the others like any;
a rollout of Codex that was written to last may have older limits than another; status lines overtake
each other, so Claude's figures may go back, as may an answer that says that there are none.

## Runs

| run | module, config | question | bounds |
|---|---|---|---|
| `store_core` | `MCCacheStore`, `CacheStore_core.cfg` | is the cache right whatever a job and a fill of one source do, and does a read that is split at the memo lose a row | 1 row, clock 4..5 and set back, 1 pricing change, 1 fault, 1 reader |
| `store_live` | `MCCacheStore`, `CacheStore_live.cfg` | is everything finalized in the end, and nothing hidden | 1 upgrade of the data version, 1 fault |
| `figures` | `MCFigures`, `Figures.cfg` | are reads and prices what a recomputation says | see below |
| `runtime` | `MCSyncRuntime`, `Runtime.cfg` | one job, right cancellation, no queue forgotten, safe close, catching up | 1 source, 1 request, the ticker, 2 workers, 2 events |
| `gap` | `MCGapRead`, `GapRead.cfg` | shared fetch: single, complete, current, ends | 3 requests, 2 overlapping windows, 1 pricing change, 1 fault |
| `gap_short` | `MCGapRead`, `GapRead_short.cfg` | violation: the memo forgets where its window ended | 2 requests |
| `snapshots` | `MCSnapshotCache`, `SnapshotCache.cfg` | snapshots: current, bounded in age, never back | 2 readers, 1 file, 3 of the 5 kinds, 2 events |
| `turn` | `MCAgentTurn`, `AgentTurn.cfg` | budgets, what is shown and stored, the end of a turn | 2 queries, 2 tasks and a bad call; 2 rounds, 4 calls |
| `services` | `MCServices`, `Services.cfg` | stream, providers, chats, terminal, login | see below |
| `transcripts` | `MCTranscripts`, `Transcripts.cfg` | is every request counted once and kept, in every load, and summed once | 2 or 3 requests, 4 or 5 steps of each tool; 3 rows |
| `dated_rates` | `MCFigures`, `Figures_dated.cfg` | violation: one release, two prices | 1 release, 1 day |
| `login_taken` | `MCKimiLogin`, `KimiLogin_taken.cfg` | violation: a tombstone over a login that holds | 3 refreshers, nobody is stopped, 1 fault |

Bounds. In `store_core` a read begins and ends before the first fault and pricing change (`CalmReads`, an action
constraint): with both at any time the run would be too large, and the theorems have no such bound. The
clock needs to pass one hour boundary for a row to turn from recent to final; `MinNow` is the first time
with a cutoff above zero; one row suffices for properties about one row. One fault at any point covers
each error path and a restart between any two steps. In `SyncRuntime`, `MaxEvents` bounds preference
changes, pricing changes, failed syncs and absent sources together: two of them are a source that is
switched off and on, or off around a failure. `Workers` stands for an unbounded number of goroutines:
`FinishJob` waits until one is left to start what the drains start. The theorems about `SyncRuntime`,
`CacheStore`, `GapRead`, `SnapshotCache` and the assistant hold for all bounds.

`transcripts`: rollups have three messages of two sessions, one of them undated, over three hours.
`figures`: reads have a pool of six messages of three sessions over two days, every subset that the
clock can produce, every period, filter, order, page size 1 and 2 and every legal cutoff, aligned or
not; aliases and pricing two processes on two releases, five sources, two edits; opencode two sessions
and a fork of one, four steps of the other program before, during and after the import. Four steps are
what it takes to write a turn, upgrade, import it and delete or complete it. `services`: one answer
with two attempts; two requests out of three at a time on one custom and one built in provider with two
models, addresses on two origins, two limits, one too small to be used and one just large enough (only
one of the models is ever given the small one, and a provider saved earlier starts with the large one);
two dashboards, two tabs, two sessions, two versions; the terminal
with two sources; two refreshers of the login, three credentials and two events, which is what it takes
to stop one and lose something of the other. Quotas, in `figures`, have two requests, two sessions of
the agent and a clock that outlasts both the time an answer is kept and the time it needs no badge. The
`snapshots` run leaves out `codex` and `qwencode`, whose steps are those of kimicode without its last
look at the slots; the theorems have all five.

Deadlock checking is off in all runs: clocks, rows, events and steps run out, a closed program stops,
a turn ends.

Fairness. `CacheStore`: goroutines run, the clock advances, the periodic loop keeps starting
incremental syncs, a waiter of a `sync.Mutex` is not starved (strong fairness on `Acquire`: Go's mutex
hands over after 1 ms), the write slot is passed on (strong fairness on `Commit`: another source may
take it in between), a source that is away comes back. Arrivals, faults and reads are not fair.
`SyncRuntime`: the ticker fires, runners, callbacks and notifications proceed; requests, events and
`Stop` are not fair. `GapRead`: a request that can take a step under the mutex, or whose fetch is
running, does. `AgentTurn`: each run takes its next step, for the provider answers or its client times
out; that the browser leaves or the time is up is not fair.

### What the violated properties show

* `WindowAlwaysServed` (`gap_short`): a memo is reused for a window that reaches beyond the end of the
  one it was made for (source.go:212). `WindowServed` excepts that case and is checked and proved.
* `SameReleaseSamePrice` (`dated_rates`): a rate that changes on a date is borrowed as of the day the
  index was loaded (antigravity/cost.go:129), so two machines with the same release may price a
  request differently, which README.md:260 of the repository denies.
* `TombstoneIsDeserved` (`login_taken`): who finds the lock directory abandoned removes whatever is there
  when it gets to it (quota/kimi_auth.go:627), so a third process may refresh next to the second; the one
  that comes late is refused, and puts a tombstone over the credential the other is about to get or has
  just stored. README.md:331 says that the lock is there to avoid such races.

## Theorems

All are proved for every value of the constants that meets the named assumptions of the module, or
the hypothesis the theorem states. What each says is in `PROJECT.json` and above it in the module.
Every proof has the same layout: lemmas about the operators, type correctness, then the inductive
invariant action by action, then the theorem by one temporal step.

`CacheStore_proofs`. Assumed: actors are distinct, an hour and the safety delay are not later than the
first time of the clock, a row shows up within the safety delay.

* `StoreIsConsistent`: the inductive invariant `StoreInv`. `RowsBeforeCutoff` alone is not inductive:
  a commit needs to know that its plan was made from the state row that is still there. So: who is past
  `Acquire` holds the lock (`LockInv`); its `cur` is the state row (`CurrentInv`), because only the
  holder commits; its window starts and ends at whole hours and does not end before the stored cutoff
  unless it rebuilds (`PlanInv`); the rows it collected are in it (`RowsInv`); the stored cutoff is
  aligned (`StateInv`). `CacheEndsAtCutoff` and `CutoffAdvances` follow, with the clock set back at any
  time.
* `OnlyCollectionWrites`: an action property; of all steps only `Commit` and `UpgradeSchema` touch rows.
* `NothingIsHidden`, for a clock that is not set back (`~ClockMayStep`): adds that a window ends a
  safety delay behind the clock, so no row can arrive behind it (`DelayInv`), and that a payload has all
  rows of its window (`PayloadInv`). With a clock set back, a row may be written behind a stored cutoff.
* `StalePricingShows`, while identities do not come back (`~PriceMayRevert`): tags are never newer than
  the rows written with them (`PriceInv`).
* `MemoFollowsStore`: a reader about to seed the memo with an old value has lost its generation
  (`SeedInv`).
* `SplitReadsAreComplete`: `OriginInv` says that the cut a reader goes by was stored once, or is older
  than the stored one, `FoundInv` that what is before the cut was found unless the cutoff moved back.
  It rests on `NothingHidden`, hence on the same assumption about the clock.

`CachedSource_proofs`, about `WindowSplit`: `HalvesPartition` and `PartsPartition`: wherever the cutoff
lies and however the window is cut into hours, every moment of the window is read exactly once. They are
about operators, so there is no invariant. About `GapRead`: `Flight` ties the control point of a request
to `gapInflight`, across invalidation, failure and abandonment (`FetchesNeverOverlap`); the memo and a
fetch whose generation still counts are costed with the pricing announced last, and an answer with the
one its request began under (`Fresh`, `PricingReachesReads`); memo and answers are exactly what the fetch
could see in the window it was asked for (`Served`, `SharedReadIsComplete`). `Promised` is the refinement
of `AnnouncedReads`, step by step: it rests on `Fresh`, and on `Known`, that no row was costed with a
pricing that is not there yet.

`SnapshotCache_proofs`: `IInv` says what the generation stands for: a slot, and a scan that was not
overtaken, holds or is still to read all that was there at the last invalidation, costed with a pricing
no older than the announced one (`InvalidationIsFinal`). `Promised` is the refinement: a step is a step
of `AnnouncedReads` or a stutter. `BoundedStaleness` adds times to it (`Timely`: what was written before
a scan began is in what it reads, a scan is over within the deadline), `NoReadGoesBack` the order of
reads (`Forward`: what any read has shown is in the full slot and, for a scan that may yet store, either
in what it holds or in a slot that is newer than it). Kinds that neither lock nor look again do go back,
which is why the property names them.

`SyncRuntime_proofs`: `Jobs` (one runner has a job; the runner with an armed source is the one in
`job.cancel`, and the job names that source) gives `OneJobRuns` and `CancelIsExact`; `Shut` adds that
the ticker is gone and no runner is past its last check, for `ClosedIsIdle`; `QueuesAreSeen` needs that
a runner that stops the job still has its drains before it; `DisablingIsSeen` needs the most: `Settled`,
`TickerWorks` and `Reached`, that a sync of a disabled source that is not cancelled has a caller that is
still to visit or cancel it (`WillAct`).
About `CacheRollups`, with nothing assumed of messages, sessions or `Lag`: `RollupsInv` gives
`RollupsStayTrue`. That the tables agree is not inductive, for a fill keeps the buckets before its
boundary as they are: they stay right because a dated row never comes back with another time, so that no
row of the window replaces one before it (`DatedRowsStay`, `PrefixStays`); because truncation keeps the
order of times against a whole hour, so that the buckets that are kept and those that are rebuilt are all
of them (`TruncOrder`, `BucketsJoin`); and because a message never changes its session, so that
`ChangedSessions` names every session whose rows change (`RefreshedSessions`).

`Assistant_proofs`. About `AssistantProviders`, under `Meant` (a machine's credential is not a key the
user enters, limits are positive): `KeysInv` follows every place a key may be in, the row, a request that
lists models, one that is about to write, the question that was admitted (`InUse`): a key that is entered
is one of its origin everywhere, and a key that is not saved yet is nowhere else. `ShownInv` ties the
selection and consent that a tab shows to the revision. `LimitsInv` says that the history of limits that
were named is the limits of the rows themselves, for a list replaces exactly what it names
(`ReplacedTyped`); `ModelsKeepLimits` follows.
About `AssistantChats`, under `SomeKeys`: `ChatKeysInv` (dashboards that run have the database's version;
one that is up has the stored key or a key of its own), `AnswersInv` (what is stored was signed with one
of them), `RestoreInv` (what was read of a session stays the beginning of it, because sessions grow
until they are deleted for good).
About `KimiLogin`, with nothing assumed but that refreshers have names: `LoginInv` says, as long as no
lock was taken from its holder, that who works has the lock (`Held`), that the file is, while it works,
what it has seen: the token it asks with, which the server no longer takes once it has refused it; and
nothing the server takes is overwritten (`InStep`); and that what the server takes is in the file, with the
one that stores it, or was dropped (`KeptOrLost`). `LoginSurvives` follows.

`AgentTurn_proofs`, under `Budgeted` (budgets are numbers, replies are lists of calls): the invariant is
`TypeOK`, `Spent`, `Numbered`, `Orderly`, `Announced`, `Running`, `Awaited`, `Shown`. That no more
specialists work than the budget has delegations is not inductive, for delegations are paid for when they
are planned: `Spent` counts the planned ones too (`Committed`). That nothing is shown as running at the
end needs to know which run will finish it (`Ends`), that a run finds its calls under their numbers
(`Numbered`), and that a specialist works only while the lead agent waits for it (`Awaited`).
`TurnsAddUp` is about the account, which only adds up at the end: `AccountInv` is the invariant above,
with `Books`, which hold in every turn, and `Account`, which holds as long as the turn may still be
answered (`Answerable`, which no step brings back, `StaysLost`): a call is to be recorded or was, once
(`NotFiledTwice`), what was shown to end is either (`ShownIsFiled`), and so is every specialist that was
started (`StartedIsFiled`), and the usage of the turn is that of the lead agent, of the records, and what
specialists owe whose record is still to come (`Balanced`). A step charges, files, or does neither
(`StepAccounts`). The sums are recursive functions; what a term or one more record changes is proved by
induction (`Totals`, `TotalMoves`, `UsageAppends`), which the library states with a predicate as
parameter and `ByInduction` with a set, from the well-foundedness of the numbers.

`Figures_proofs`, about `OpenCodeReads`, under `Named` (the fork is no other session, and no session is named `NotFork`):
`HistoryIsWhole` says nothing of the tables a detection does not read, so it is far from inductive. The
invariant says what the tables are to each other: the rows of 1.x have one of each message and are not
written once there are others (`OldWhole`, `Tables`); two rows of 2.x that show the same message are a
row and its copy in the fork, which is older than the fork (`NewWhole`); a session is imported with all
of its history, and the import does not complete before all sessions are there or deleted (`Imported`);
and what each statement of a detection has read still holds when the next one runs, because the tables
and the phase only grow (`Detected`). That the counts of `DetectCount` tell anything is a lemma about
finite sets (`CountTells`).
About `PricingAliases`, under `Configured` (targets and requests are of known sources, prices are
numbers, an alias key has three parts): `OneIdentityOneCost` also needs `IdsTellCatalogs`, that a release
with a changed catalog has given it a new id (the ids carry a date and are written by hand), and
`LoansUndated`, that no alias borrows a dated rate. TLC finds that the instance of `dated_rates` violates
only the last of these: it is what the finding is about. The argument is in the lemma `OneCost`: equal
identities have equal aliases, an equal own catalog and, if anything is borrowed, an equal index
(`IdentityTells`, `MetaTells`), and a cost depends on nothing else (`MatchTells`, `CostTells`). The
invariant carries it through restarts, updates and changes: a pass goes by the identity of the aliases it
captured (`Passes`), and every price ever computed was computed in some release on some day from the
aliases of its identity (`Costs`). `SavedAliasesPrice` needs no ids: what was answered is in the table, in
the snapshot of the process and in every snapshot it is about to take (`Holds`), and so is a change from
its commit on unless a later one overtook it (`Pending`), because a process swaps one snapshot at a time
(`OneSwap`). What a handler accepted fits the release of its process (`Fit`), and a target that fits is
found, borrowed or own, at the price of its owner (`FitMatches`). The run states both in its property
`IdentityTellsCosts` of `MCFigures`, through instances.
About `QuotaAnswers`, for a patience shorter than the time an answer is kept: `QuotaInv` says that one
request asks at a time and holds the mutex (`OneAsks`), that figures that are kept without a badge needed
none when they were fetched (`KeptFresh`), and, of an account that is asked, that the kept answer has the
last good figures and nobody was told newer ones (`KeptGood`); `QuotasStayTrue` is the action
property of the run.

`TerminalViews_proofs` assumes nothing of sources, periods or pages. `Waits` and `Served` say that what
waits has a load under way that will answer it: closing an overlay leaves its load behind, so the load
has to be one of the id that is open. While `orderly`, there is at most one load of the tabs and one of
the aggregate, each of what is selected, and without one the tabs show what is selected (`Views`,
`Whole`); the loads of an open overlay are of its page (`Own`). A source is switched behind no overlay
(`Alone`). `TerminalStaysTrue` is both theorems, for the property `TerminalIsTrue` of the run.

The same module proves `StreamIsShown` of `ProviderStream`. It assumes (`Sensible`) that a cleaned text
is a text, whatever is cut from it, and that the model calls tools it was offered with arguments that
are JSON; the instance that is checked is one of those. `StreamInv` says that of the two readings of a
call the one that fits the deployment is what was sent of it so far (`BothKept`). `Resolve` settles for
one of two readings that differ only when the other is not JSON, or names no tool, and so for the call
that was meant. Until an attempt has ended the browser shows what that attempt has emitted, and nothing
between attempts (`OnScreen`).

### Model-checked only

* Liveness: `EverythingIsFinalized`, `EverySourceCatchesUp`, `EveryRequestEnds`, `TurnEnds`. Fairness and
  `ENABLED` are out of the prover's reach.
* What the transcript readers and the merges compute from data by folds, for every input:
  `ReadsAgree`, `UsageOnce`, `RowsStay`, `LoadsAgree`, and of `StreamIsFaithful` the part
  `OnlyProse`, what is left of a text by its cleaning. An induction over numbers can be
  done (see `ByInduction`); these need one over trees of folds, sorts and texts that is longer than
  everything above it, and half of it is in RECURSIVE operators.

## Not modelled

* Configuration, update, uninstall, version: one process that resolves paths and moves files.
* The web front end, whose state is a cache of answers, and the web handlers that only pass a read on.
* `ensureFresh` and the pacing of fills: `CacheStore` lets a fill begin at any time instead.
* The tools of the assistant: their queries are the reads of `CachedReads`.

## What is left

An abstract cache, in which rows become final and are then served for ever, which `CacheStore` refines.
