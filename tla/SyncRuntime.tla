----------------------------- MODULE SyncRuntime -----------------------------
(***************************************************************************)
(* The runtime that owns the cache (cacheRuntime of cmd/opencode-dashboard,*)
(* with the preferences of internal/source/registry.go): one sync job at a *)
(* time, started by a request, a pricing change, the startup queue or the  *)
(* periodic tick; queues for what arrives while it runs; sources switched  *)
(* on and off under it; shutdown.                                          *)
(*                                                                         *)
(* A step is what the code does between two lock operations.  Syncing one  *)
(* source is one step here; CacheStore has its inside.                     *)
(***************************************************************************)
EXTENDS Integers, FiniteSets

CONSTANTS
  Sources,
  Requests,     \* goroutines that refresh the preferences
  Ticker,       \* the auto-sync loop, which refreshes them too
  Workers,      \* goroutines of launchSyncJob
  None,
  MaxEvents     \* preference changes, pricing changes, failed syncs and
                \* unavailable sources in one behaviour

ASSUME IdentitiesAssumption ==
  /\ Ticker \notin Requests \union Workers
  /\ Requests \intersect Workers = {}
  /\ None \notin Sources \union Workers \union {Ticker}
ASSUME BoundsAssumption == MaxEvents \in Nat

Callers == Requests \union {Ticker}
Runners == Workers \union {Ticker}

VARIABLES
  setting,         \* the stored preferences and their revision
  reg,             \* the registry's copy
  cpc, call,       \* RefreshPreferences, sourcePreferencesChanged, the tick
  pendingInitial, pendingPricing,
  job,             \* running, CurrentSourceID, the runner sourceCancel cancels
  rpc, run,        \* runSyncJob
  note,            \* NotifyPricingChange, per source
  fill,            \* the fill context of a source's CachedSource
  pricing, costed, \* pricing identity of a source, and of its cache
  closing, closed,
  events

vars == <<setting, reg, cpc, call, pendingInitial, pendingPricing, job, rpc, run,
          note, fill, pricing, costed, closing, closed, events>>

Prefs == [rev : Nat, on : [Sources -> BOOLEAN]]
CallRec == [seen : Prefs, todo : SUBSET Sources,   \* loaded settings, changed ids
            id : Sources \union {None}, on : BOOLEAN,
            available : SUBSET Sources]            \* the tick's snapshot
RunRec == [todo : SUBSET Sources, src : Sources \union {None},
           cancelled : BOOLEAN, tag : 0..MaxEvents]
JobRec == [running : BOOLEAN, current : Sources \union {None},
           cancel : Runners \union {None}]

NoCall == [seen |-> [rev |-> 0, on |-> [s \in Sources |-> TRUE]], todo |-> {},
           id |-> None, on |-> FALSE, available |-> {}]
NoRun == [todo |-> {}, src |-> None, cancelled |-> FALSE, tag |-> 0]

Never == -1   \* the pricing identity of a cache that was never consolidated

Armed == {"recheck", "probe", "announce", "sync"}
InJob == {"launching", "pick", "arm"} \union Armed
Visiting == {"visit", "apply", "participate", "requeue"}
Draining == {"drainPricing", "drainInitial"}

TypeOK ==
  /\ setting \in Prefs /\ reg \in Prefs
  /\ cpc \in [Callers -> {"startup", "idle", "loaded", "visit", "apply", "participate", "requeue",
                          "launch", "list", "begin", "working", "gone"}]
  /\ call \in [Callers -> CallRec]
  /\ pendingInitial \in SUBSET Sources /\ pendingPricing \in SUBSET Sources
  /\ job \in JobRec
  /\ rpc \in [Runners -> {"off"} \union InJob \union Draining]
  /\ run \in [Runners -> RunRec]
  /\ \A r \in Runners : run[r].src # None <=> rpc[r] \in Armed \union {"arm"}
  /\ note \in [Sources -> {"none", "changed", "checked"}]
  /\ fill \in [Sources -> {"unwrapped", "live", "cancelled"}]
  /\ pricing \in [Sources -> 0..MaxEvents]
  /\ costed \in [Sources -> {Never} \union 0..MaxEvents]
  /\ closing \in BOOLEAN /\ closed \in BOOLEAN
  /\ events \in 0..MaxEvents

Enabled(s) == reg.on[s]

\* Startup: sources without a usable cache are queued; the goroutine that built
\* the registry starts on the queue and then the auto-sync loop.
Init ==
  /\ setting \in [rev : {0}, on : [Sources -> BOOLEAN]] /\ reg = setting
  /\ cpc = [c \in Callers |-> IF c = Ticker THEN "startup" ELSE "idle"]
  /\ call = [c \in Callers |-> NoCall]
  /\ costed \in [Sources -> {Never, 0}]
  /\ pendingInitial = {s \in Sources : reg.on[s] /\ costed[s] = Never}
  /\ pendingPricing = {}
  /\ job = [running |-> FALSE, current |-> None, cancel |-> None]
  /\ rpc = [r \in Runners |-> "off"] /\ run = [r \in Runners |-> NoRun]
  /\ note = [s \in Sources |-> "none"]
  /\ fill = [s \in Sources |-> IF reg.on[s] /\ costed[s] # Never THEN "live"
                                                              ELSE "unwrapped"]
  /\ pricing = [s \in Sources |-> 0]
  /\ closing = FALSE /\ closed = FALSE
  /\ events = 0

prefVars == <<setting, reg, cpc, call>>
jobVars == <<pendingInitial, pendingPricing, job, rpc, run>>
dataVars == <<note, fill, pricing, costed, closing, closed, events>>

-----------------------------------------------------------------------------
(* startJobLocked and launchSyncJob *)

Started(r, targets) ==
  /\ job' = [job EXCEPT !.running = TRUE, !.current = None]
  /\ rpc' = [rpc EXCEPT ![r] = "launching"]
  /\ run' = [run EXCEPT ![r] = [NoRun EXCEPT !.todo = targets]]

\* Mutant: without looking at the running job.
StartJobAlways(targets) ==
  \E r \in Workers : rpc[r] = "off" /\ Started(r, targets)

StartJob(targets) ==
  /\ ~job.running
  /\ \E r \in Workers : rpc[r] = "off" /\ Started(r, targets)

\* A request for a sync, incremental or rebuild, of one source or of all; it is
\* dropped while a job runs.
Sync ==
  /\ \/ StartJob({s \in Sources : Enabled(s)})
     \/ \E s \in Sources : Enabled(s) /\ StartJob({s})
  /\ UNCHANGED <<prefVars, pendingInitial, pendingPricing, dataVars>>

(* NotifyPricingChange: the alias store has changed, then the runtime is told. *)

Reprice(s) ==
  /\ note[s] = "none"
  /\ events < MaxEvents /\ events' = events + 1
  /\ pricing' = [pricing EXCEPT ![s] = @ + 1]
  /\ note' = [note EXCEPT ![s] = "changed"]
  /\ UNCHANGED <<prefVars, jobVars, fill, costed, closing, closed>>

NotifyCheck(s) ==
  /\ note[s] = "changed"
  /\ note' = [note EXCEPT ![s] = IF Enabled(s) THEN "checked" ELSE "none"]
  /\ UNCHANGED <<prefVars, jobVars, fill, pricing, costed, closing, closed, events>>

NotifyQueue(s) ==
  /\ note[s] = "checked"
  /\ note' = [note EXCEPT ![s] = "none"]
  /\ \/ /\ job.running
        /\ pendingPricing' = pendingPricing \union {s}
        /\ UNCHANGED <<job, rpc, run>>
     \/ /\ StartJob({s})
        /\ pendingPricing' = pendingPricing \ {s}
  /\ UNCHANGED <<prefVars, pendingInitial, fill, pricing, costed, closing, closed, events>>

\* startPendingPricingSync, with what the caller becomes in others.
DrainPricing(targets) ==
  /\ IF closing \/ job.running \/ pendingPricing = {}
     THEN targets = {} /\ UNCHANGED pendingPricing
     ELSE /\ targets = {s \in pendingPricing : Enabled(s)}
          /\ pendingPricing' = {}

\* startPendingInitialSync: the queue is kept while a job runs.
DrainInitial(targets) ==
  /\ IF closing \/ job.running \/ pendingInitial = {}
     THEN targets = {} /\ UNCHANGED pendingInitial
     ELSE /\ targets = {s \in pendingInitial : Enabled(s)}
          /\ pendingInitial' = {}

-----------------------------------------------------------------------------
(* RefreshPreferences and its callback *)

Toggle(s) ==
  /\ events < MaxEvents /\ events' = events + 1
  /\ setting' = [rev |-> setting.rev + 1, on |-> [setting.on EXCEPT ![s] = ~setting.on[s]]]
  /\ UNCHANGED <<reg, cpc, call, jobVars, note, fill, pricing, costed, closing, closed>>

\* Where a caller goes when its refresh is over.
Refreshed(c) == IF c = Ticker THEN "list" ELSE "idle"

\* SourceSettings; for the ticker, the tick.  A request that loads what the registry
\* holds has no effect at all and is left out.
Load(c) ==
  /\ cpc[c] = "idle" /\ ~closing
  /\ c = Ticker \/ setting # reg
  /\ call' = [call EXCEPT ![c] = [NoCall EXCEPT !.seen = setting]]
  /\ cpc' = [cpc EXCEPT ![c] = "loaded"]
  /\ UNCHANGED <<setting, reg, jobVars, dataVars>>

Swap(c) ==
  /\ cpc[c] = "loaded"
  /\ LET seen == call[c].seen
         changed == {s \in Sources : reg.on[s] # seen.on[s]}
     IN  IF seen.rev < reg.rev
         THEN /\ call' = [call EXCEPT ![c] = NoCall]
              /\ cpc' = [cpc EXCEPT ![c] = Refreshed(c)]
              /\ UNCHANGED reg
         ELSE /\ reg' = seen
              /\ call' = [call EXCEPT ![c] = [NoCall EXCEPT !.todo = changed]]
              /\ cpc' = [cpc EXCEPT ![c] = IF changed = {} THEN Refreshed(c)
                                                           ELSE "visit"]
  /\ UNCHANGED <<setting, jobVars, dataVars>>

\* The callback reads whether the source is enabled now...
Visit(c) ==
  /\ cpc[c] = "visit"
  /\ IF call[c].todo = {}
     THEN /\ cpc' = [cpc EXCEPT ![c] = "launch"]
          /\ call' = [call EXCEPT ![c] = NoCall]
     ELSE \E s \in call[c].todo :
            /\ call' = [call EXCEPT ![c].id = s, ![c].on = Enabled(s),
                                    ![c].todo = @ \ {s}]
            /\ cpc' = [cpc EXCEPT ![c] = "apply"]
  /\ UNCHANGED <<setting, reg, jobVars, dataVars>>

\* After the runtime's lock: the wrapper, then the queue of an enabled source.
AfterApply(c) ==
  IF fill[call[c].id] # "unwrapped" THEN "participate"
  ELSE IF call[c].on THEN "requeue" ELSE "visit"

\* Mutant: a running sync is left alone.
ApplyQueuesOnly(c) ==
  /\ cpc[c] = "apply"
  /\ IF call[c].on
     THEN UNCHANGED <<pendingPricing, pendingInitial>>
     ELSE /\ pendingPricing' = pendingPricing \ {call[c].id}
          /\ pendingInitial' = pendingInitial \ {call[c].id}
  /\ cpc' = [cpc EXCEPT ![c] = AfterApply(c)]
  /\ UNCHANGED <<setting, reg, call, job, rpc, run, dataVars>>

\* ... and acts on it under the runtime's lock: a disabled source leaves the queues,
\* a sync that is working on it is cancelled.
Apply(c) ==
  /\ cpc[c] = "apply"
  /\ IF call[c].on
     THEN UNCHANGED <<pendingPricing, pendingInitial, run>>
     ELSE /\ pendingPricing' = pendingPricing \ {call[c].id}
          /\ pendingInitial' = pendingInitial \ {call[c].id}
          /\ run' = [r \in Runners |->
               [run[r] EXCEPT !.cancelled =
                  @ \/ (r = job.cancel /\ job.current = call[c].id)]]
  /\ cpc' = [cpc EXCEPT ![c] = AfterApply(c)]
  /\ UNCHANGED <<setting, reg, call, job, rpc, dataVars>>

\* SetParticipation: the fill context of the wrapper is cancelled, or replaced.
Participate(c) ==
  /\ cpc[c] = "participate"
  /\ fill' = [fill EXCEPT ![call[c].id] = IF call[c].on THEN "live" ELSE "cancelled"]
  /\ cpc' = [cpc EXCEPT ![c] = IF call[c].on THEN "requeue" ELSE "visit"]
  /\ UNCHANGED <<setting, reg, call, jobVars, note, pricing, costed, closing, closed, events>>

\* queueInitialSync
Requeue(c) ==
  /\ cpc[c] = "requeue"
  /\ pendingInitial' = IF Enabled(call[c].id) THEN pendingInitial \union {call[c].id}
                                              ELSE pendingInitial
  /\ cpc' = [cpc EXCEPT ![c] = "visit"]
  /\ UNCHANGED <<setting, reg, call, pendingPricing, job, rpc, run, dataVars>>

Launch(c) ==
  /\ cpc[c] \in {"startup", "launch"}
  /\ cpc' = [cpc EXCEPT ![c] = IF cpc[c] = "startup" THEN "idle" ELSE Refreshed(c)]
  /\ \E targets \in SUBSET Sources :
       /\ DrainInitial(targets)
       /\ IF targets = {} THEN UNCHANGED <<job, rpc, run>> ELSE StartJob(targets)
  /\ UNCHANGED <<setting, reg, call, pendingPricing, dataVars>>

-----------------------------------------------------------------------------
(* runAutoSyncTick *)

\* The snapshot of available sources, taken without the lock.
List ==
  /\ cpc[Ticker] = "list"
  /\ \E lost \in SUBSET Sources :
       LET available == {s \in Sources \ lost : Enabled(s)}
       IN  /\ lost # {} => events < MaxEvents
           /\ events' = IF lost = {} THEN events ELSE events + 1
           /\ call' = [call EXCEPT ![Ticker].available = available]
           /\ cpc' = [cpc EXCEPT ![Ticker] = IF available = {} THEN "idle" ELSE "begin"]
  /\ UNCHANGED <<setting, reg, jobVars, note, fill, pricing, costed, closing, closed>>

\* A running job wins; otherwise the tick supersedes the startup queue.
TickStart ==
  /\ cpc[Ticker] = "begin"
  /\ IF job.running
     THEN /\ cpc' = [cpc EXCEPT ![Ticker] = "idle"]
          /\ UNCHANGED <<pendingInitial, job, rpc, run>>
     ELSE /\ cpc' = [cpc EXCEPT ![Ticker] = "working"]
          /\ pendingInitial' = {}
          /\ Started(Ticker, call[Ticker].available)
  /\ call' = [call EXCEPT ![Ticker] = NoCall]
  /\ UNCHANGED <<setting, reg, pendingPricing, dataVars>>

-----------------------------------------------------------------------------
(* runSyncJob *)

\* The next enabled target, and a context of its own for it.
Pick(r) ==
  /\ rpc[r] \in {"launching", "pick"}
  /\ \E s \in run[r].todo :
       IF Enabled(s)
       THEN /\ run' = [run EXCEPT ![r].src = s]
            /\ rpc' = [rpc EXCEPT ![r] = "arm"]
       ELSE /\ run' = [run EXCEPT ![r].todo = @ \ {s}]
            /\ rpc' = [rpc EXCEPT ![r] = "pick"]
  /\ UNCHANGED <<prefVars, pendingInitial, pendingPricing, job, dataVars>>

Arm(r) ==
  /\ rpc[r] = "arm"
  /\ job' = [job EXCEPT !.current = run[r].src, !.cancel = r]
  /\ rpc' = [rpc EXCEPT ![r] = "recheck"]
  /\ UNCHANGED <<prefVars, pendingInitial, pendingPricing, run, dataVars>>

Recheck(r) ==
  /\ rpc[r] = "recheck"
  /\ run' = [run EXCEPT ![r].cancelled = @ \/ ~Enabled(run[r].src)]
  /\ rpc' = [rpc EXCEPT ![r] = "probe"]
  /\ UNCHANGED <<prefVars, pendingInitial, pendingPricing, job, dataVars>>

Cancelled(r) == run[r].cancelled \/ closing

\* Mutant: the context of a skipped source stays behind.
ProbeKeepsCancel(r) ==
  /\ rpc[r] = "probe"
  /\ \/ /\ ~Cancelled(r)
        /\ rpc' = [rpc EXCEPT ![r] = "announce"]
        /\ UNCHANGED <<run, events>>
     \/ /\ Cancelled(r) \/ events < MaxEvents
        /\ events' = IF Cancelled(r) THEN events ELSE events + 1
        /\ rpc' = [rpc EXCEPT ![r] = "pick"]
        /\ run' = [run EXCEPT ![r] = [NoRun EXCEPT !.todo = run[r].todo \ {run[r].src}]]
  /\ UNCHANGED <<prefVars, pendingInitial, pendingPricing, job, note, fill, pricing,
                 costed, closing, closed>>

\* Info: a cancelled or unavailable source is passed over.
Probe(r) ==
  /\ rpc[r] = "probe"
  /\ \/ /\ ~Cancelled(r)
        /\ rpc' = [rpc EXCEPT ![r] = "announce"]
        /\ UNCHANGED <<job, run, events>>
     \/ /\ Cancelled(r) \/ events < MaxEvents
        /\ events' = IF Cancelled(r) THEN events ELSE events + 1
        /\ rpc' = [rpc EXCEPT ![r] = "pick"]
        /\ run' = [run EXCEPT ![r] = [NoRun EXCEPT !.todo = run[r].todo \ {run[r].src}]]
        /\ job' = [job EXCEPT !.cancel = None]
  /\ UNCHANGED <<prefVars, pendingInitial, pendingPricing, note, fill, pricing,
                 costed, closing, closed>>

\* setCurrentSource and the last look before SyncSourceWithOptions.
Announce(r) ==
  /\ rpc[r] = "announce"
  /\ run' = [run EXCEPT ![r].cancelled = @ \/ ~Enabled(run[r].src),
                        ![r].tag = pricing[run[r].src]]
  /\ rpc' = [rpc EXCEPT ![r] = "sync"]
  /\ UNCHANGED <<prefVars, pendingInitial, pendingPricing, job, dataVars>>

\* SyncSourceWithOptions returns; a cancelled one may have committed before.  The
\* first success wraps the source in a CachedSource.
SyncSource(r) ==
  /\ rpc[r] = "sync"
  /\ \/ /\ costed' = [costed EXCEPT ![run[r].src] = run[r].tag]
        /\ fill' = [fill EXCEPT ![run[r].src] =
                      IF @ = "unwrapped" /\ Enabled(run[r].src) THEN "live" ELSE @]
        /\ UNCHANGED events
     \/ /\ Cancelled(r) \/ events < MaxEvents
        /\ events' = IF Cancelled(r) THEN events ELSE events + 1
        /\ UNCHANGED <<costed, fill>>
  /\ job' = [job EXCEPT !.cancel = None]
  /\ rpc' = [rpc EXCEPT ![r] = "pick"]
  /\ run' = [run EXCEPT ![r] = [NoRun EXCEPT !.todo = run[r].todo \ {run[r].src}]]
  /\ UNCHANGED <<prefVars, pendingInitial, pendingPricing, note, pricing, closing, closed>>

\* Bound: Workers stands for any number of goroutines, so a job is over only when
\* one is left to run what the drains start.
AWorkerIsFree(r) == \E w \in Workers \ {r} : rpc[w] = "off"

\* Mutant: the job stays marked running.
FinishJobRunning(r) ==
  /\ rpc[r] \in {"launching", "pick"} /\ run[r].todo = {} /\ AWorkerIsFree(r)
  /\ job' = [job EXCEPT !.current = None]
  /\ rpc' = [rpc EXCEPT ![r] = "drainPricing"]
  /\ run' = [run EXCEPT ![r] = NoRun]
  /\ UNCHANGED <<prefVars, pendingInitial, pendingPricing, dataVars>>

\* Mutant: without startPendingPricingSync.
FinishJobNoPricing(r) ==
  /\ rpc[r] \in {"launching", "pick"} /\ run[r].todo = {} /\ AWorkerIsFree(r)
  /\ job' = [job EXCEPT !.running = FALSE, !.current = None]
  /\ rpc' = [rpc EXCEPT ![r] = "drainInitial"]
  /\ run' = [run EXCEPT ![r] = NoRun]
  /\ UNCHANGED <<prefVars, pendingInitial, pendingPricing, dataVars>>

FinishJob(r) ==
  /\ rpc[r] \in {"launching", "pick"} /\ run[r].todo = {} /\ AWorkerIsFree(r)
  /\ job' = [job EXCEPT !.running = FALSE, !.current = None]
  /\ rpc' = [rpc EXCEPT ![r] = "drainPricing"]
  /\ run' = [run EXCEPT ![r] = NoRun]
  /\ UNCHANGED <<prefVars, pendingInitial, pendingPricing, dataVars>>

\* After its job a runner drains both queues; a drain may start the next job.
Drain(r) ==
  /\ rpc[r] \in Draining
  /\ \E targets \in SUBSET Sources, next \in {"drainInitial", "off"} :
       /\ \/ /\ rpc[r] = "drainPricing" /\ next = "drainInitial"
             /\ DrainPricing(targets) /\ UNCHANGED pendingInitial
          \/ /\ rpc[r] = "drainInitial" /\ next = "off"
             /\ DrainInitial(targets) /\ UNCHANGED pendingPricing
       /\ IF targets = {}
          THEN rpc' = [rpc EXCEPT ![r] = next] /\ UNCHANGED <<job, run>>
          ELSE \E w \in Workers :
                 /\ rpc[w] = "off"
                 /\ job' = [job EXCEPT !.running = TRUE, !.current = None]
                 /\ rpc' = [rpc EXCEPT ![r] = next, ![w] = "launching"]
                 /\ run' = [run EXCEPT ![w] = [NoRun EXCEPT !.todo = targets]]
       /\ cpc' = IF r = Ticker /\ next = "off" THEN [cpc EXCEPT ![Ticker] = "idle"]
                                               ELSE cpc
  /\ UNCHANGED <<setting, reg, call, dataVars>>

-----------------------------------------------------------------------------
(* Close *)

Stop ==
  /\ ~closing /\ closing' = TRUE
  /\ UNCHANGED <<prefVars, jobVars, note, fill, pricing, costed, closed, events>>

\* The loop sees that the context is done.
TickerLeaves ==
  /\ closing /\ cpc[Ticker] = "idle"
  /\ cpc' = [cpc EXCEPT ![Ticker] = "gone"]
  /\ UNCHANGED <<setting, reg, call, jobVars, dataVars>>

\* Mutant: without jobWG.Wait.
CloseStoreAtOnce ==
  /\ closing /\ ~closed /\ cpc[Ticker] = "gone"
  /\ closed' = TRUE
  /\ UNCHANGED <<prefVars, jobVars, note, fill, pricing, costed, closing, events>>

CloseStore ==
  /\ closing /\ ~closed /\ cpc[Ticker] = "gone"
  /\ \A r \in Workers : rpc[r] \in {"off", "launching"}
  /\ closed' = TRUE
  /\ UNCHANGED <<prefVars, jobVars, note, fill, pricing, costed, closing, events>>

-----------------------------------------------------------------------------
Refresh(c) ==
  Swap(c) \/ Visit(c) \/ Apply(c) \/ Participate(c) \/ Requeue(c) \/ Launch(c)
RunJob(r) ==
  \/ Pick(r) \/ Arm(r) \/ Recheck(r) \/ Probe(r) \/ Announce(r)
  \/ SyncSource(r) \/ FinishJob(r) \/ Drain(r)
Notify(s) == NotifyCheck(s) \/ NotifyQueue(s)

Next ==
  \/ Sync
  \/ \E s \in Sources : Reprice(s) \/ Notify(s) \/ Toggle(s)
  \/ \E c \in Callers : Load(c) \/ Refresh(c)
  \/ List \/ TickStart
  \/ \E r \in Runners : RunJob(r)
  \/ Stop \/ TickerLeaves \/ CloseStore

Spec == Init /\ [][Next]_vars

\* Goroutines run, the ticker keeps firing.
Fairness ==
  /\ WF_vars(Load(Ticker)) /\ WF_vars(List) /\ WF_vars(TickStart)
  /\ \A c \in Callers : WF_vars(Refresh(c))
  /\ \A r \in Runners : WF_vars(RunJob(r))
  /\ \A s \in Sources : WF_vars(Notify(s))

FairSpec == Spec /\ Fairness

-----------------------------------------------------------------------------

\* One job runs at a time, and the flag every starter looks at says so.
OneJob ==
  /\ \A r, t \in Runners : rpc[r] \in InJob /\ rpc[t] \in InJob => r = t
  /\ job.running <=> \E r \in Runners : rpc[r] \in InJob

\* What a preference change would cancel is the source the job names as current:
\* nobody cancels a context that is over, or the next source's in its place.
CancelHitsCurrentSource ==
  \A r \in Runners :
    job.cancel = r => rpc[r] \in Armed /\ run[r].src = job.current

\* Four starters and the callbacks of preference changes meet in one job at most,
\* and what is cancelled is what that job works on.
OneJobToCancel == OneJob /\ CancelHitsCurrentSource

\* A source switched off while a job works on it is not synced on: unless its
\* context is cancelled, the runner is still to look at the preference or the
\* callback of the change is still to cancel it.
DisablingReachesTheJob ==
  \A r \in Runners :
    rpc[r] \in {"sync"} /\ ~Enabled(run[r].src) /\ ~Cancelled(r) =>
      \E c \in Callers :
        \/ run[r].src \in call[c].todo
        \/ cpc[c] = "apply" /\ call[c].id = run[r].src

\* A queue with something in it is looked at by somebody who finds no job running.
NothingWaitsUnseen ==
  ~closing /\ ~job.running =>
    /\ pendingPricing # {} => \E r \in Runners : rpc[r] = "drainPricing"
    /\ pendingInitial # {} =>
         \/ \E r \in Runners : rpc[r] \in Draining
         \/ \E c \in Callers : cpc[c] \in {"startup", "launch"} \union Visiting

\* The database is closed when nothing can be syncing.
ClosedMeansIdle == closed => \A r \in Runners : rpc[r] # "sync"

\* Failures, dropped requests and overtaken callbacks heal: once nothing changes
\* any more, every enabled source ends up consolidated with its current pricing.
EverySourceCatchesUp ==
  <>[](\A s \in Sources : Enabled(s) => costed[s] = pricing[s]) \/ <>closing
=============================================================================
