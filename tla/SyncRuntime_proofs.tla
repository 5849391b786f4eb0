------------------------- MODULE SyncRuntime_proofs -------------------------
(***************************************************************************)
(* What SyncRuntime promises of its jobs holds for every number of         *)
(* sources, of requests and of workers, and every bound on the events.     *)
(* What the syncs leave in the aggregate tables (CacheRollups) agrees with *)
(* the rows, for every number of messages and sessions.                    *)
(***************************************************************************)
EXTENDS SyncRuntime, CacheRollups, TLAPS

\* What bounds the pricing identities: every change of one is an event.
Counted == \A s \in Sources : pricing[s] <= events

\* A caller that has picked a source to act on has one.
Named == \A c \in Callers : cpc[c] \in {"apply", "participate", "requeue"} => call[c].id \in Sources

Types == TypeOK /\ Counted /\ Named

---------------------------------------------------------------------------
(* Types                                                                   *)

LEMMA NothingTyped == NoCall \in CallRec /\ NoRun \in RunRec
BY BoundsAssumption DEF NoCall, CallRec, NoRun, RunRec, Prefs

LEMMA InitTypes == Init => Types
<1> SUFFICES ASSUME Init PROVE Types
  OBVIOUS
<1> USE BoundsAssumption DEF Init
<1>1. setting \in Prefs /\ reg \in Prefs
  BY DEF Prefs
<1>2. job \in JobRec /\ job.cancel = None
  BY DEF JobRec
<1>3. \A r \in Runners : rpc[r] = "off" /\ run[r] = NoRun /\ NoRun.src = None
  BY DEF NoRun
<1>4. /\ cpc \in [Callers -> {"startup", "idle", "loaded", "visit", "apply", "participate", "requeue",
                              "launch", "list", "begin", "working", "gone"}]
      /\ \A c \in Callers : cpc[c] \in {"startup", "idle"}
      /\ call \in [Callers -> CallRec]
      /\ rpc \in [Runners -> {"off"} \union InJob \union Draining] /\ run \in [Runners -> RunRec]
  BY NothingTyped
<1>5. /\ note \in [Sources -> {"none", "changed", "checked"}]
      /\ fill \in [Sources -> {"unwrapped", "live", "cancelled"}]
      /\ pricing \in [Sources -> 0..MaxEvents] /\ costed \in [Sources -> {Never} \union 0..MaxEvents]
      /\ \A s \in Sources : pricing[s] <= events
  OBVIOUS
<1>6. pendingInitial \in SUBSET Sources /\ pendingPricing \in SUBSET Sources
  OBVIOUS
<1>7. closing \in BOOLEAN /\ closed \in BOOLEAN
  BY Zenon
<1>8. events \in 0..MaxEvents
  OBVIOUS
<1>9. \A r \in Runners : run[r].src # None <=> rpc[r] \in Armed \union {"arm"}
  BY <1>3 DEF Armed
<1>10. TypeOK
  BY <1>1, <1>2, <1>4, <1>5, <1>6, <1>7, <1>8, <1>9 DEF TypeOK
<1> QED
  BY <1>4, <1>5, <1>10 DEF Types, Counted, Named

LEMMA StartedTypes ==
  ASSUME Types, NEW r \in Runners, NEW targets \in SUBSET Sources, Started(r, targets)
  PROVE  /\ job' \in JobRec
         /\ rpc' \in [Runners -> {"off"} \union InJob \union Draining]
         /\ run' \in [Runners -> RunRec]
         /\ \A t \in Runners : run'[t].src # None <=> rpc'[t] \in Armed \union {"arm"}
<1>1. [NoRun EXCEPT !.todo = targets] \in RunRec /\ [NoRun EXCEPT !.todo = targets].src = None
  BY NothingTyped DEF RunRec, NoRun
<1>2. job' = [job EXCEPT !.running = TRUE, !.current = None]
  BY DEF Started
<1> QED
  BY <1>1, <1>2, ZenonT(60) DEF Started, Types, TypeOK, JobRec, InJob, Armed

LEMMA StartJobTypes ==
  ASSUME Types, NEW targets \in SUBSET Sources, StartJob(targets)
  PROVE  /\ job' \in JobRec
         /\ rpc' \in [Runners -> {"off"} \union InJob \union Draining]
         /\ run' \in [Runners -> RunRec]
         /\ \A t \in Runners : run'[t].src # None <=> rpc'[t] \in Armed \union {"arm"}
BY StartedTypes DEF StartJob, Runners

LEMMA SyncTypes == Types /\ Sync => Types'
<1> SUFFICES ASSUME Types, Sync PROVE Types'
  OBVIOUS
<1>1. PICK targets \in SUBSET Sources : StartJob(targets)
  BY DEF Sync
<1> QED
  BY <1>1, StartJobTypes DEF Sync, Types, TypeOK, Counted, Named, prefVars, dataVars

LEMMA PricingTypes ==
  ASSUME Types, NEW s \in Sources, Reprice(s) \/ Notify(s) \/ Toggle(s)
  PROVE  Types'
<1> USE BoundsAssumption DEF prefVars, jobVars
<1>1. CASE Reprice(s)
  BY <1>1 DEF Reprice, Types, TypeOK, Counted, Named
<1>2. CASE NotifyCheck(s)
  BY <1>2 DEF NotifyCheck, Types, TypeOK, Counted, Named
<1>3. CASE NotifyQueue(s)
  BY <1>3, StartJobTypes DEF NotifyQueue, Types, TypeOK, Counted, Named
<1>4. CASE Toggle(s)
  <2>1. [setting.on EXCEPT ![s] = ~setting.on[s]] \in [Sources -> BOOLEAN]
    BY DEF Types, TypeOK, Prefs
  <2> QED
    BY <1>4, <2>1 DEF Toggle, Types, TypeOK, Counted, Named, Prefs
<1> QED
  BY <1>1, <1>2, <1>3, <1>4 DEF Notify

LEMMA RefreshTypes ==
  ASSUME Types, NEW c \in Callers, Load(c) \/ Refresh(c)
  PROVE  Types'
<1> USE DEF prefVars, jobVars, dataVars
<1>c. call[c] \in CallRec
  BY DEF Types, TypeOK
<1>1. CASE Load(c)
  <2>1. [NoCall EXCEPT !.seen = setting] \in CallRec
    BY NothingTyped DEF CallRec, Types, TypeOK
  <2> QED
    BY <1>1, <2>1 DEF Load, Types, TypeOK, Counted, Named
<1>2. CASE Swap(c)
  <2> DEFINE changed == {s \in Sources : reg.on[s] # call[c].seen.on[s]}
  <2>1. [NoCall EXCEPT !.todo = changed] \in CallRec /\ NoCall \in CallRec
    BY NothingTyped DEF CallRec
  <2>2. call' = [call EXCEPT ![c] = NoCall] \/ call' = [call EXCEPT ![c] = [NoCall EXCEPT !.todo = changed]]
    BY <1>2 DEF Swap
  <2>3. call' \in [Callers -> CallRec]
    BY <2>1, <2>2 DEF Types, TypeOK
  <2>4. reg' \in Prefs /\ UNCHANGED <<setting, jobVars, dataVars>>
    BY <1>2, <1>c DEF Swap, CallRec, Types, TypeOK
  <2>5. cpc' \in [Callers -> {"startup", "idle", "loaded", "visit", "apply", "participate", "requeue",
                              "launch", "list", "begin", "working", "gone"}]
    BY <1>2 DEF Swap, Refreshed, Types, TypeOK
  <2>6. Named'
    BY <1>2 DEF Swap, Refreshed, Types, TypeOK, Named
  <2> QED
    BY <2>3, <2>4, <2>5, <2>6 DEF Types, TypeOK, Counted
<1>3. CASE Visit(c)
  <2>1. call' \in [Callers -> CallRec] /\ Named'
    <3>1. CASE call[c].todo = {}
      BY <1>3, <3>1, NothingTyped DEF Visit, Types, TypeOK, Named
    <3>2. ASSUME NEW s \in call[c].todo,
                 call' = [call EXCEPT ![c].id = s, ![c].on = Enabled(s), ![c].todo = @ \ {s}],
                 cpc' = [cpc EXCEPT ![c] = "apply"]
          PROVE  call' \in [Callers -> CallRec] /\ Named'
      <4>1. s \in Sources /\ Enabled(s) \in BOOLEAN
        BY <1>c DEF CallRec, Enabled, Types, TypeOK, Prefs
      <4>2. [call[c] EXCEPT !.id = s, !.on = Enabled(s), !.todo = @ \ {s}] \in CallRec
        BY <1>c, <4>1 DEF CallRec
      <4>3. call' = [call EXCEPT ![c] = [call[c] EXCEPT !.id = s, !.on = Enabled(s), !.todo = @ \ {s}]]
        BY <3>2
      <4>4. [call[c] EXCEPT !.id = s, !.on = Enabled(s), !.todo = @ \ {s}].id = s
        BY <1>c DEF CallRec
      <4> QED
        BY <3>2, <4>1, <4>2, <4>3, <4>4 DEF Types, TypeOK, Named
    <3> QED
      BY <1>3, <3>1, <3>2 DEF Visit
  <2> QED
    BY <1>3, <2>1 DEF Visit, Types, TypeOK, Counted
<1>4. CASE Apply(c)
  <2>1. run' \in [Runners -> RunRec] /\ \A r \in Runners : run'[r].src = run[r].src
    <3>1. CASE call[c].on
      BY <1>4, <3>1 DEF Apply, Types, TypeOK
    <3>2. CASE ~call[c].on
      <4>1. \A r \in Runners : run[r] \in RunRec
        BY DEF Types, TypeOK
      <4>2. \A r \in Runners, b \in BOOLEAN : [run[r] EXCEPT !.cancelled = b] \in RunRec
        BY <4>1 DEF RunRec
      <4>3. run' = [r \in Runners |-> [run[r] EXCEPT !.cancelled =
                       run[r].cancelled \/ (r = job.cancel /\ job.current = call[c].id)]]
        BY <1>4, <3>2 DEF Apply
      <4>4. \A r \in Runners :
              run[r].cancelled \/ (r = job.cancel /\ job.current = call[c].id) \in BOOLEAN
        BY <4>1 DEF RunRec
      <4> QED
        BY <4>1, <4>2, <4>3 DEF RunRec
    <3> QED
      BY <3>1, <3>2
  <2> QED
    BY <1>4, <2>1 DEF Apply, AfterApply, Types, TypeOK, Counted, Named
<1>5. CASE Participate(c)
  BY <1>5 DEF Participate, Types, TypeOK, Counted, Named
<1>6. CASE Requeue(c)
  <2>1. pendingInitial' \in SUBSET Sources
    BY <1>6 DEF Requeue, Types, TypeOK, Named
  <2> QED
    BY <1>6, <2>1 DEF Requeue, Types, TypeOK, Counted, Named
<1>7. CASE Launch(c)
  <2>1. PICK targets \in SUBSET Sources :
          /\ DrainInitial(targets)
          /\ IF targets = {} THEN UNCHANGED <<job, rpc, run>> ELSE StartJob(targets)
    BY <1>7 DEF Launch
  <2>2. pendingInitial' \in SUBSET Sources
    BY <2>1 DEF DrainInitial, Types, TypeOK
  <2> QED
    BY <1>7, <2>1, <2>2, StartJobTypes DEF Launch, Refreshed, Types, TypeOK, Counted, Named
<1> QED
  BY <1>1, <1>2, <1>3, <1>4, <1>5, <1>6, <1>7 DEF Refresh
LEMMA TickTypes == Types /\ (List \/ TickStart) => Types'
<1> SUFFICES ASSUME Types, List \/ TickStart PROVE Types'
  OBVIOUS
<1> USE DEF jobVars, dataVars
<1>t. Ticker \in Callers /\ Ticker \in Runners
  BY DEF Callers, Runners
<1>1. CASE List
  <2>1. PICK available \in SUBSET Sources :
          call' = [call EXCEPT ![Ticker] = [call[Ticker] EXCEPT !.available = available]]
    BY <1>1 DEF List
  <2>2. [call[Ticker] EXCEPT !.available = available] \in CallRec
    BY <1>t, SMTT(30) DEF CallRec, Types, TypeOK
  <2>3. PICK lost \in SUBSET Sources :
          /\ lost # {} => events < MaxEvents
          /\ events' = IF lost = {} THEN events ELSE events + 1
          /\ \E next \in {"idle", "begin"} : cpc' = [cpc EXCEPT ![Ticker] = next]
    BY <1>1 DEF List
  <2>4. events' \in 0..MaxEvents /\ events <= events' /\ events \in Int
    BY <2>3, BoundsAssumption DEF Types, TypeOK
  <2>5. Counted'
    BY <1>1, <2>4, BoundsAssumption DEF List, Types, TypeOK, Counted
  <2>6. Named'
    BY <2>1, <2>3, <1>t DEF Types, TypeOK, Named
  <2> QED
    BY <1>1, <2>1, <2>2, <2>3, <2>4, <2>5, <2>6 DEF List, Types, TypeOK
<1>2. CASE TickStart
  <2>1. CASE job.running
    BY <1>2, <2>1, NothingTyped DEF TickStart, Types, TypeOK, Counted, Named
  <2>2. CASE ~job.running
    <3>1. call[Ticker].available \in SUBSET Sources
      BY <1>t DEF CallRec, Types, TypeOK
    <3> QED
      BY <1>2, <1>t, <2>2, <3>1, NothingTyped, StartedTypes DEF TickStart, Types, TypeOK, Counted, Named
  <2> QED
    BY <2>1, <2>2
<1> QED
  BY <1>1, <1>2

Points == {"off"} \union InJob \union Draining

RunnersTyped ==
  /\ rpc \in [Runners -> Points] /\ run \in [Runners -> RunRec]
  /\ \A r \in Runners : run[r].src # None <=> rpc[r] \in Armed \union {"arm"}
JobTyped == job \in JobRec

LEMMA RunnerMoves ==
  ASSUME Types, NEW r \in Runners, NEW p \in Points, NEW x \in RunRec,
         x.src # None <=> p \in Armed \union {"arm"},
         rpc' = [rpc EXCEPT ![r] = p], run' = [run EXCEPT ![r] = x]
  PROVE  RunnersTyped'
BY DEF RunnersTyped, Types, TypeOK, Points

\* What a runner does leaves the preferences and those who change them alone.
LEMMA OnlyRunners ==
  ASSUME Types, RunnersTyped', JobTyped', UNCHANGED <<prefVars, note, pricing, closing, closed>>,
         pendingInitial' \in SUBSET Sources, pendingPricing' \in SUBSET Sources,
         fill' \in [Sources -> {"unwrapped", "live", "cancelled"}],
         costed' \in [Sources -> {Never} \union 0..MaxEvents],
         events' \in 0..MaxEvents, events <= events'
  PROVE  Types'
<1>1. \A s \in Sources : pricing[s] \in Int
  BY BoundsAssumption DEF Types, TypeOK
<1>2. Counted'
  BY <1>1, BoundsAssumption DEF Types, TypeOK, Counted
<1> QED
  BY <1>2 DEF RunnersTyped, JobTyped, Points, Types, TypeOK, Named, prefVars

\* A runner turns to the next of its targets.
LEMMA NextTargetTyped ==
  ASSUME Types, NEW r \in Runners
  PROVE  /\ [NoRun EXCEPT !.todo = run[r].todo \ {run[r].src}] \in RunRec
         /\ [NoRun EXCEPT !.todo = run[r].todo \ {run[r].src}].src = None
BY NothingTyped DEF Types, TypeOK, RunRec, NoRun

LEMMA RunTypes ==
  ASSUME Types, NEW r \in Runners, RunJob(r)
  PROVE  Types'
<1> USE BoundsAssumption
<1>r. run[r] \in RunRec /\ (run[r].src # None <=> rpc[r] \in Armed \union {"arm"})
  BY DEF Types, TypeOK
<1>p. {"arm", "pick", "recheck", "probe", "announce", "sync", "launching", "off", "drainPricing", "drainInitial"}
        \subseteq Points
  BY DEF Points, InJob, Armed, Draining
<1>a. "arm" \notin Armed /\ "pick" \notin Armed \union {"arm"} /\ "drainPricing" \notin Armed \union {"arm"}
      /\ {"recheck", "probe", "announce", "sync"} \subseteq Armed
  BY DEF Armed
<1>t. /\ pendingInitial \in SUBSET Sources /\ pendingPricing \in SUBSET Sources /\ JobTyped
      /\ fill \in [Sources -> {"unwrapped", "live", "cancelled"}]
      /\ costed \in [Sources -> {Never} \union 0..MaxEvents]
      /\ events \in 0..MaxEvents /\ events <= events
  BY DEF Types, TypeOK, JobTyped
<1>1. CASE Pick(r)
  <2>1. PICK s \in run[r].todo :
          IF Enabled(s)
          THEN run' = [run EXCEPT ![r] = [run[r] EXCEPT !.src = s]] /\ rpc' = [rpc EXCEPT ![r] = "arm"]
          ELSE run' = [run EXCEPT ![r] = [run[r] EXCEPT !.todo = @ \ {s}]] /\ rpc' = [rpc EXCEPT ![r] = "pick"]
    BY <1>1 DEF Pick
  <2>2. run[r].src = None
    BY <1>1, <1>r DEF Pick, Armed
  <2>3. /\ [run[r] EXCEPT !.src = s] \in RunRec /\ [run[r] EXCEPT !.src = s].src # None
        /\ [run[r] EXCEPT !.todo = @ \ {s}] \in RunRec /\ [run[r] EXCEPT !.todo = @ \ {s}].src = None
    BY <2>2, <1>r, IdentitiesAssumption DEF RunRec
  <2>4. RunnersTyped'
    BY <1>p, <1>a, <2>1, <2>3, RunnerMoves
  <2> QED
    BY <1>1, <1>t, <2>4, OnlyRunners DEF Pick, JobTyped, dataVars
<1>2. CASE Arm(r)
  <2>1. [job EXCEPT !.current = run[r].src, !.cancel = r] \in JobRec
    BY <1>r, <1>t DEF JobRec, RunRec, JobTyped
  <2>2. JobTyped'
    BY <1>2, <1>t, <2>1 DEF Arm, JobTyped, JobRec
  <2>3. rpc' = [rpc EXCEPT ![r] = "recheck"] /\ run' = [run EXCEPT ![r] = run[r]]
    BY <1>2 DEF Arm, Types, TypeOK
  <2>4. run[r].src # None /\ "recheck" \in Armed /\ "recheck" \in Points
    BY <1>2, <1>p, <1>a, <1>r DEF Arm
  <2>5. RunnersTyped'
    BY <1>r, <2>3, <2>4, RunnerMoves
  <2> QED
    BY <1>2, <1>t, <2>2, <2>5, OnlyRunners DEF Arm, dataVars
<1>3. CASE Recheck(r)
  <2>1. \A b \in BOOLEAN : [run[r] EXCEPT !.cancelled = b] \in RunRec /\ [run[r] EXCEPT !.cancelled = b].src = run[r].src
    BY <1>r DEF RunRec
  <2>2. run' = [run EXCEPT ![r] = [run[r] EXCEPT !.cancelled = run[r].cancelled \/ ~Enabled(run[r].src)]]
    BY <1>3 DEF Recheck
  <2>3. (run[r].cancelled \/ ~Enabled(run[r].src)) \in BOOLEAN /\ rpc[r] \in Armed
    BY <1>3, <1>r DEF RunRec, Recheck, Armed
  <2>4. RunnersTyped'
    BY <1>3, <1>p, <1>a, <1>r, <2>1, <2>2, <2>3, RunnerMoves DEF Recheck
  <2> QED
    BY <1>3, <1>t, <2>4, OnlyRunners DEF Recheck, JobTyped, dataVars
<1>4. CASE Probe(r)
  <2>1. CASE rpc' = [rpc EXCEPT ![r] = "announce"] /\ UNCHANGED <<job, run, events>>
    <3>1. run' = [run EXCEPT ![r] = run[r]] /\ rpc[r] \in Armed
      BY <1>4, <2>1, <1>a DEF Probe, Types, TypeOK
    <3>2. RunnersTyped'
      BY <2>1, <3>1, <1>p, <1>a, <1>r, RunnerMoves
    <3> QED
      BY <1>4, <2>1, <3>2, <1>t, OnlyRunners DEF Probe, JobTyped
  <2>2. CASE /\ rpc' = [rpc EXCEPT ![r] = "pick"]
             /\ run' = [run EXCEPT ![r] = [NoRun EXCEPT !.todo = run[r].todo \ {run[r].src}]]
             /\ job' = [job EXCEPT !.cancel = None]
             /\ Cancelled(r) \/ events < MaxEvents
             /\ events' = IF Cancelled(r) THEN events ELSE events + 1
    <3>1. RunnersTyped'
      BY <2>2, <1>p, <1>a, NextTargetTyped, RunnerMoves
    <3>2. JobTyped' /\ events' \in 0..MaxEvents /\ events <= events'
      BY <2>2, <1>t DEF JobTyped, JobRec
    <3> QED
      BY <1>4, <3>1, <3>2, <1>t, OnlyRunners DEF Probe
  <2> QED
    BY <1>4, <2>1, <2>2 DEF Probe
<1>5. CASE Announce(r)
  <2>0. rpc[r] \in Armed /\ run[r].src \in Sources
    BY <1>5, <1>a, <1>r DEF Announce, RunRec
  <2>1. \A b \in BOOLEAN : /\ [run[r] EXCEPT !.cancelled = b, !.tag = pricing[run[r].src]] \in RunRec
                           /\ [run[r] EXCEPT !.cancelled = b, !.tag = pricing[run[r].src]].src = run[r].src
    BY <2>0, <1>r DEF RunRec, Types, TypeOK
  <2>2. run' = [run EXCEPT ![r] = [run[r] EXCEPT !.cancelled = run[r].cancelled \/ ~Enabled(run[r].src),
                                                 !.tag = pricing[run[r].src]]]
    BY <1>5 DEF Announce
  <2>3. (run[r].cancelled \/ ~Enabled(run[r].src)) \in BOOLEAN
    BY <1>r DEF RunRec
  <2>4. RunnersTyped'
    BY <1>5, <1>p, <1>a, <1>r, <2>0, <2>1, <2>2, <2>3, RunnerMoves DEF Announce
  <2> QED
    BY <1>5, <1>t, <2>4, OnlyRunners DEF Announce, JobTyped, dataVars
<1>6. CASE SyncSource(r)
  <2>1. run[r].src \in Sources /\ run[r].tag \in 0..MaxEvents
    BY <1>6, <1>r, <1>a DEF SyncSource, RunRec
  <2>2. JobTyped'
    BY <1>6, <1>t DEF SyncSource, JobRec, JobTyped
  <2>3. /\ costed' \in [Sources -> {Never} \union 0..MaxEvents]
        /\ fill' \in [Sources -> {"unwrapped", "live", "cancelled"}]
    BY <1>6, <1>t, <2>1 DEF SyncSource
  <2>4. events' \in 0..MaxEvents /\ events <= events'
    BY <1>6, <1>t DEF SyncSource
  <2>5. RunnersTyped'
    BY <1>6, <1>p, <1>a, NextTargetTyped, RunnerMoves DEF SyncSource
  <2> QED
    BY <1>6, <1>t, <2>2, <2>3, <2>4, <2>5, OnlyRunners DEF SyncSource
<1>7. CASE FinishJob(r)
  <2>1. RunnersTyped'
    BY <1>7, <1>p, <1>a, NothingTyped, RunnerMoves DEF FinishJob, NoRun
  <2> QED
    BY <1>7, <1>t, <2>1, OnlyRunners DEF FinishJob, JobTyped, JobRec, dataVars
<1>8. CASE Drain(r)
  <2>1. PICK targets \in SUBSET Sources, next \in {"drainInitial", "off"} :
          /\ \/ DrainPricing(targets) /\ UNCHANGED pendingInitial
             \/ DrainInitial(targets) /\ UNCHANGED pendingPricing
          /\ IF targets = {}
             THEN rpc' = [rpc EXCEPT ![r] = next] /\ UNCHANGED <<job, run>>
             ELSE \E w \in Workers :
                    /\ rpc[w] = "off"
                    /\ job' = [job EXCEPT !.running = TRUE, !.current = None]
                    /\ rpc' = [rpc EXCEPT ![r] = next, ![w] = "launching"]
                    /\ run' = [run EXCEPT ![w] = [NoRun EXCEPT !.todo = targets]]
          /\ cpc' = IF r = Ticker /\ next = "off" THEN [cpc EXCEPT ![Ticker] = "idle"] ELSE cpc
    BY <1>8 DEF Drain
  <2>2. pendingPricing' \in SUBSET Sources /\ pendingInitial' \in SUBSET Sources
    BY <2>1, <1>t DEF DrainPricing, DrainInitial
  <2>3. [NoRun EXCEPT !.todo = targets] \in RunRec /\ [NoRun EXCEPT !.todo = targets].src = None
    BY NothingTyped DEF RunRec, NoRun
  <2>4. run[r].src = None /\ rpc[r] \in Draining
    BY <1>8, <1>r DEF Drain, Armed, Draining
  <2>5. JobTyped'
    BY <2>1, <1>t DEF JobTyped, JobRec
  <2>6. next \notin Armed \union {"arm"} /\ "launching" \notin Armed \union {"arm"} /\ next \in Points
    BY <1>p DEF Armed
  <2>7. RunnersTyped'
    <3>1. CASE targets = {}
      <4>1. run' = [run EXCEPT ![r] = run[r]]
        BY <2>1, <3>1 DEF Types, TypeOK
      <4> QED
        BY <2>1, <2>4, <2>6, <3>1, <4>1, <1>r, RunnerMoves
    <3>2. CASE targets # {}
      <4>1. PICK w \in Workers :
              /\ rpc[w] = "off"
              /\ rpc' = [rpc EXCEPT ![r] = next, ![w] = "launching"]
              /\ run' = [run EXCEPT ![w] = [NoRun EXCEPT !.todo = targets]]
        BY <2>1, <3>2
      <4>2. w \in Runners /\ w # r /\ "launching" \in Points
        BY <4>1, <2>4, <1>p DEF Runners, Draining
      <4>3. rpc \in [Runners -> Points] /\ run \in [Runners -> RunRec]
            /\ \A t \in Runners : run[t].src # None <=> rpc[t] \in Armed \union {"arm"}
        BY DEF Types, TypeOK, Points
      <4>4. rpc' \in [Runners -> Points] /\ run' \in [Runners -> RunRec]
        BY <4>1, <4>3, <4>2, <2>3, <2>6
      <4>5. \A t \in Runners : run'[t].src # None <=> rpc'[t] \in Armed \union {"arm"}
        BY <4>1, <4>2, <4>3, <2>3, <2>4, <2>6
      <4> QED
        BY <4>4, <4>5 DEF RunnersTyped
    <3> QED
      BY <3>1, <3>2
  <2>8. /\ cpc' \in [Callers -> {"startup", "idle", "loaded", "visit", "apply", "participate", "requeue",
                                 "launch", "list", "begin", "working", "gone"}]
        /\ Named'
    BY <1>8, <2>1 DEF Drain, Types, TypeOK, Named
  <2> QED
    BY <1>8, <2>2, <2>5, <2>7, <2>8
       DEF Drain, RunnersTyped, JobTyped, Points, Types, TypeOK, Counted, dataVars
<1> QED
  BY <1>1, <1>2, <1>3, <1>4, <1>5, <1>6, <1>7, <1>8 DEF RunJob

LEMMA NextTypes == Types /\ [Next]_vars => Types'
<1> SUFFICES ASSUME Types, [Next]_vars PROVE Types'
  OBVIOUS
<1>1. CASE Stop \/ TickerLeaves \/ CloseStore
  BY <1>1 DEF Stop, TickerLeaves, CloseStore, Types, TypeOK, Counted, Named, prefVars, jobVars, dataVars
<1>2. CASE UNCHANGED vars
  BY <1>2 DEF vars, Types, TypeOK, Counted, Named
<1> QED
  BY <1>1, <1>2, SyncTypes, PricingTypes, RefreshTypes, TickTypes, RunTypes DEF Next

\* Every reachable state is well typed, and no pricing identity is ahead of the
\* events that were counted.
THEOREM TypeCorrect == Spec => []TypeOK
<1>1. Types => TypeOK
  BY DEF Types
<1> QED
  BY <1>1, InitTypes, NextTypes, PTL DEF Spec

---------------------------------------------------------------------------
(* The one job                                                             *)

\* The runner whose context can be cancelled is the one that has an armed source,
\* and the job names that source.
CancelExact ==
  \A r \in Runners : /\ rpc[r] \in Armed <=> job.cancel = r
                     /\ job.cancel = r => run[r].src = job.current

Jobs == Types /\ OneJob /\ CancelExact

\* Jobs are started in one way and by the tick; only runners carry them on.
LEMMA WhoRuns ==
  ASSUME Types, [Next]_vars
  PROVE  \/ UNCHANGED <<job, rpc>> /\ \A r \in Runners : run'[r].src = run[r].src
         \/ \E targets \in SUBSET Sources : StartJob(targets)
         \/ TickStart /\ ~job.running
         \/ \E r \in Runners : RunJob(r)
<1> DEFINE Keeps == UNCHANGED <<job, rpc>> /\ \A r \in Runners : run'[r].src = run[r].src
<1> USE DEF prefVars, jobVars, dataVars
<1>1. CASE Sync
  BY <1>1 DEF Sync
<1>2. ASSUME NEW s \in Sources, Reprice(s) \/ Notify(s) \/ Toggle(s)
      PROVE  Keeps \/ \E targets \in SUBSET Sources : StartJob(targets)
  BY <1>2 DEF Reprice, Notify, NotifyCheck, NotifyQueue, Toggle
<1>3. ASSUME NEW c \in Callers, Load(c) \/ Refresh(c)
      PROVE  Keeps \/ \E targets \in SUBSET Sources : StartJob(targets)
  <2>1. CASE Apply(c)
    <3>1. \A r \in Runners : run[r] \in RunRec
      BY DEF Types, TypeOK
    <3>2. \/ UNCHANGED run
          \/ run' = [r \in Runners |-> [run[r] EXCEPT !.cancelled =
                                          @ \/ (r = job.cancel /\ job.current = call[c].id)]]
      BY <2>1 DEF Apply
    <3> QED
      BY <2>1, <3>1, <3>2 DEF Apply, RunRec
  <2>2. CASE Load(c) \/ Swap(c) \/ Visit(c) \/ Participate(c) \/ Requeue(c)
    BY <2>2 DEF Load, Swap, Visit, Participate, Requeue
  <2>3. CASE Launch(c)
    BY <2>3 DEF Launch
  <2> QED
    BY <1>3, <2>1, <2>2, <2>3 DEF Refresh
<1>4. CASE List \/ Stop \/ TickerLeaves \/ CloseStore \/ UNCHANGED vars
  BY <1>4 DEF List, Stop, TickerLeaves, CloseStore, vars
<1>5. CASE TickStart
  BY <1>5 DEF TickStart
<1> QED
  BY <1>1, <1>2, <1>3, <1>4, <1>5 DEF Next

LEMMA ArmedInJob == Armed \subseteq InJob /\ None \notin Runners /\ "launching" \in InJob \ Armed
BY IdentitiesAssumption DEF Armed, InJob, Runners

LEMMA StartedAlone ==
  ASSUME Jobs, ~job.running, NEW r \in Runners, NEW targets \in SUBSET Sources, Started(r, targets)
  PROVE  (OneJob /\ CancelExact)'
<1>1. \A t \in Runners : rpc[t] \notin InJob
  BY DEF Jobs, OneJob
<1>2. job.cancel \notin Runners
  BY <1>1, ArmedInJob DEF Jobs, CancelExact
<1>3. job'.running = TRUE /\ job'.cancel = job.cancel
  BY DEF Started, Jobs, Types, TypeOK, JobRec
<1>4. \A t \in Runners : rpc'[t] = IF t = r THEN "launching" ELSE rpc[t]
  BY DEF Started, Jobs, Types, TypeOK
<1>5. OneJob'
  BY <1>1, <1>3, <1>4, ArmedInJob DEF OneJob
<1>6. CancelExact'
  BY <1>1, <1>2, <1>3, <1>4, ArmedInJob DEF CancelExact
<1> QED
  BY <1>5, <1>6

\* A runner in the job goes on.
LEMMA RunnerGoesOn ==
  ASSUME Jobs, NEW r \in Runners, rpc[r] \in InJob, NEW p \in InJob,
         rpc' = [rpc EXCEPT ![r] = p], job'.running = job.running,
         \A t \in Runners \ {r} : run'[t] = run[t] /\ job'.cancel # t,
         p \in Armed <=> job'.cancel = r,
         job'.cancel = r => run'[r].src = job'.current
  PROVE  (OneJob /\ CancelExact)'
<1>1. \A t \in Runners : rpc'[t] = IF t = r THEN p ELSE rpc[t]
  BY DEF Jobs, Types, TypeOK
<1>2. \A t \in Runners : rpc[t] \in InJob => t = r
  BY DEF Jobs, OneJob
<1>3. OneJob'
  BY <1>1, <1>2 DEF Jobs, OneJob
<1>4. CancelExact'
  BY <1>1, <1>2, ArmedInJob DEF CancelExact
<1> QED
  BY <1>3, <1>4

LEMMA RunJobAlone ==
  ASSUME Jobs, NEW r \in Runners, RunJob(r)
  PROVE  (OneJob /\ CancelExact)'
<1> USE DEF prefVars, dataVars
<1>a. /\ {"recheck", "probe", "announce", "sync"} = Armed
      /\ {"launching", "pick", "arm"} \subseteq InJob \ Armed /\ Armed \subseteq InJob
      /\ Draining \intersect InJob = {} /\ "off" \notin InJob
      /\ None \notin Runners
  BY IdentitiesAssumption DEF Armed, InJob, Draining, Runners
<1>t. /\ job \in JobRec /\ run \in [Runners -> RunRec] /\ rpc \in [Runners -> {"off"} \union InJob \union Draining]
  BY DEF Jobs, Types, TypeOK
<1>o. \A t \in Runners : rpc[r] \in InJob /\ rpc[t] \in InJob => t = r
  BY DEF Jobs, OneJob
<1>c. \A t \in Runners : /\ rpc[t] \in Armed <=> job.cancel = t
                         /\ job.cancel = t => run[t].src = job.current
  BY DEF Jobs, CancelExact
<1>1. CASE Pick(r)
  <2>1. PICK p \in {"arm", "pick"} : rpc' = [rpc EXCEPT ![r] = p]
    BY <1>1 DEF Pick
  <2>2. rpc[r] \in InJob \ Armed /\ job' = job /\ \A t \in Runners \ {r} : run'[t] = run[t]
    BY <1>1, <1>a, <1>t DEF Pick
  <2>3. \A t \in Runners : job.cancel # t
    BY <2>2, <1>o, <1>c, <1>a
  <2> QED
    BY <2>1, <2>2, <2>3, <1>a, RunnerGoesOn
<1>2. CASE Arm(r)
  <2>1. job'.cancel = r /\ job'.current = run[r].src /\ job'.running = job.running
    BY <1>2, <1>t DEF Arm, JobRec
  <2>2. rpc[r] \in InJob /\ rpc' = [rpc EXCEPT ![r] = "recheck"] /\ run' = run
    BY <1>2, <1>a DEF Arm
  <2> QED
    BY <2>1, <2>2, <1>a, RunnerGoesOn
<1>3. CASE Recheck(r) \/ Announce(r)
  <2>1. PICK p \in {"probe", "sync"} : rpc' = [rpc EXCEPT ![r] = p]
    BY <1>3 DEF Recheck, Announce
  <2>2. rpc[r] \in Armed /\ job' = job /\ \A t \in Runners \ {r} : run'[t] = run[t]
    BY <1>3, <1>a, <1>t DEF Recheck, Announce
  <2>3. run'[r].src = run[r].src
    BY <1>3, <1>t DEF Recheck, Announce, RunRec
  <2>4. \A t \in Runners \ {r} : job.cancel # t
    BY <2>2, <1>o, <1>c, <1>a
  <2>5. job'.cancel = r /\ run'[r].src = job'.current /\ job'.running = job.running
    BY <2>2, <2>3, <1>c
  <2>6. p \in Armed /\ p \in InJob /\ rpc[r] \in InJob
    BY <2>2, <1>a
  <2> QED
    BY <2>1, <2>2, <2>4, <2>5, <2>6, RunnerGoesOn
<1>4. CASE Probe(r) /\ rpc' = [rpc EXCEPT ![r] = "announce"] /\ UNCHANGED <<job, run>>
  <2>1. rpc[r] \in Armed /\ \A t \in Runners \ {r} : job.cancel # t
    BY <1>4, <1>o, <1>c, <1>a DEF Probe
  <2> QED
    BY <1>4, <2>1, <1>a, <1>c, RunnerGoesOn
<1>5. CASE \/ SyncSource(r)
           \/ Probe(r) /\ rpc' = [rpc EXCEPT ![r] = "pick"] /\ job' = [job EXCEPT !.cancel = None]
  <2>1. /\ rpc[r] \in InJob /\ rpc' = [rpc EXCEPT ![r] = "pick"]
        /\ job'.cancel = None /\ job'.running = job.running
        /\ \A t \in Runners \ {r} : run'[t] = run[t]
    BY <1>5, <1>a, <1>t DEF SyncSource, Probe, JobRec
  <2> QED
    BY <2>1, <1>a, RunnerGoesOn
<1>6. CASE FinishJob(r)
  <2>1. /\ rpc[r] \in InJob \ Armed /\ job'.running = FALSE /\ job'.cancel = job.cancel
        /\ rpc' = [rpc EXCEPT ![r] = "drainPricing"]
    BY <1>6, <1>a, <1>t DEF FinishJob, JobRec
  <2>2. \A t \in Runners : rpc'[t] \notin InJob
    BY <2>1, <1>o, <1>t, <1>a DEF Draining
  <2>3. \A t \in Runners : job'.cancel # t
    BY <2>1, <1>o, <1>c, <1>a
  <2> QED
    BY <2>1, <2>2, <2>3, <1>a DEF OneJob, CancelExact
<1>7. CASE Drain(r)
  <2>1. PICK targets \in SUBSET Sources, next \in {"drainInitial", "off"} :
          /\ DrainPricing(targets) \/ DrainInitial(targets)
          /\ IF targets = {}
             THEN rpc' = [rpc EXCEPT ![r] = next] /\ UNCHANGED <<job, run>>
             ELSE \E w \in Workers :
                    /\ rpc[w] = "off"
                    /\ job' = [job EXCEPT !.running = TRUE, !.current = None]
                    /\ rpc' = [rpc EXCEPT ![r] = next, ![w] = "launching"]
                    /\ run' = [run EXCEPT ![w] = [NoRun EXCEPT !.todo = targets]]
    BY <1>7 DEF Drain
  <2>2. rpc[r] \in Draining /\ next \notin InJob
    BY <1>7, <1>a DEF Drain, Draining
  <2>3. CASE targets = {}
    <3>1. \A t \in Runners : rpc'[t] = IF t = r THEN next ELSE rpc[t]
      BY <2>1, <2>3, <1>t
    <3>2. \A t \in Runners : (rpc'[t] \in InJob <=> rpc[t] \in InJob) /\ (rpc'[t] \in Armed <=> rpc[t] \in Armed)
      BY <3>1, <2>2, <1>a
    <3> QED
      BY <2>1, <2>3, <3>2 DEF Jobs, OneJob, CancelExact
  <2>4. CASE targets # {}
    <3>1. ~job.running
      BY <2>1, <2>4 DEF DrainPricing, DrainInitial
    <3>2. PICK w \in Workers : /\ rpc[w] = "off"
                               /\ rpc' = [rpc EXCEPT ![r] = next, ![w] = "launching"]
      BY <2>1, <2>4
    <3>3. w \in Runners /\ \A t \in Runners : rpc'[t] = IF t = w THEN "launching" ELSE IF t = r THEN next ELSE rpc[t]
      BY <3>2, <1>t DEF Runners
    <3>4. \A t \in Runners : rpc[t] \notin InJob /\ job.cancel # t
      BY <3>1, <1>c, <1>a DEF Jobs, OneJob
    <3>5. job'.running = TRUE /\ job'.cancel = job.cancel
      BY <2>1, <2>4, <1>t DEF JobRec
    <3>6. OneJob'
      BY <3>3, <3>4, <3>5, <2>2, <1>a DEF OneJob
    <3>7. CancelExact'
      BY <3>3, <3>4, <3>5, <2>2, <1>a DEF CancelExact
    <3> QED
      BY <3>6, <3>7
  <2> QED
    BY <2>3, <2>4
<1> QED
  BY <1>1, <1>2, <1>3, <1>4, <1>5, <1>6, <1>7 DEF RunJob, Probe

LEMMA InitJobs == Init => Jobs
<1> SUFFICES ASSUME Init PROVE Jobs
  OBVIOUS
<1>1. \A r \in Runners : rpc[r] = "off"
  BY DEF Init
<1>2. job.running = FALSE /\ job.cancel = None
  BY DEF Init
<1>3. "off" \notin InJob /\ "off" \notin Armed
  BY DEF InJob, Armed
<1> QED
  BY <1>1, <1>2, <1>3, InitTypes, ArmedInJob DEF Jobs, OneJob, CancelExact

LEMMA NextJobs == Jobs /\ [Next]_vars => Jobs'
<1> SUFFICES ASSUME Jobs, [Next]_vars PROVE Jobs'
  OBVIOUS
<1>1. Types'
  BY NextTypes DEF Jobs
<1>2. CASE UNCHANGED <<job, rpc>> /\ \A r \in Runners : run'[r].src = run[r].src
  BY <1>1, <1>2 DEF Jobs, OneJob, CancelExact
<1>3. ASSUME NEW targets \in SUBSET Sources, StartJob(targets) PROVE Jobs'
  BY <1>1, <1>3, StartedAlone DEF StartJob, Jobs, Runners
<1>4. CASE TickStart /\ ~job.running
  <2>1. call[Ticker].available \in SUBSET Sources /\ Ticker \in Runners
    BY DEF Jobs, Types, TypeOK, CallRec, Callers, Runners
  <2> QED
    BY <1>1, <1>4, <2>1, StartedAlone DEF TickStart, Jobs
<1>5. ASSUME NEW r \in Runners, RunJob(r) PROVE Jobs'
  BY <1>1, <1>5, RunJobAlone DEF Jobs
<1> QED
  BY <1>2, <1>3, <1>4, <1>5, WhoRuns DEF Jobs

\* However requests, pricing changes, the tick and the queues start jobs, one runs
\* at a time and the flag says so.
THEOREM OneJobRuns == Spec => []OneJob
<1>1. Jobs => OneJob
  BY DEF Jobs
<1> QED
  BY <1>1, InitJobs, NextJobs, PTL DEF Spec

\* What a preference change cancels is the context of the source the job names.
THEOREM CancelIsExact == Spec => []CancelHitsCurrentSource
<1>1. Jobs => CancelHitsCurrentSource
  BY DEF Jobs, CancelExact, CancelHitsCurrentSource
<1> QED
  BY <1>1, InitJobs, NextJobs, PTL DEF Spec

\* Starters and cancelling callbacks meet in one job, and agree on its source.
THEOREM OneJobIsCancelled == Spec => []OneJobToCancel
  BY OneJobRuns, CancelIsExact, PTL DEF OneJobToCancel

---------------------------------------------------------------------------
(* The callers: the tick has a runner only while it works, and a caller that is *)
(* not in the callback of a change has nothing left to visit.                   *)

TickerWorks == rpc[Ticker] # "off" => cpc[Ticker] = "working"
Settled == \A c \in Callers : cpc[c] \notin Visiting => call[c].todo = {}

Calls == Jobs /\ TickerWorks /\ Settled

LEMMA TickerIs ==
  Ticker \in Callers /\ Ticker \in Runners /\ Ticker \notin Workers /\ Workers \subseteq Runners
BY IdentitiesAssumption DEF Callers, Runners

LEMMA JobByWorker ==
  ASSUME Types, NEW targets \in SUBSET Sources, StartJob(targets)
  PROVE  /\ job'.running = TRUE /\ job'.cancel = job.cancel
         /\ rpc'[Ticker] = rpc[Ticker]
         /\ \A r \in Runners : \/ rpc'[r] = rpc[r] /\ run'[r] = run[r]
                               \/ rpc[r] = "off" /\ rpc'[r] = "launching"
BY TickerIs DEF StartJob, Started, Types, TypeOK, JobRec

LEMMA RunnerSteps ==
  ASSUME Types, NEW r \in Runners, RunJob(r)
  PROVE  /\ rpc[r] # "off" /\ call' = call
         /\ \/ Drain(r)
            \/ UNCHANGED cpc /\ \A t \in Runners \ {r} : rpc'[t] = rpc[t] /\ run'[t] = run[t]
<1> USE DEF prefVars
<1>t. rpc \in [Runners -> Points] /\ run \in [Runners -> RunRec]
  BY DEF Types, TypeOK, Points
<1>1. CASE Pick(r) \/ Arm(r) \/ Recheck(r) \/ Probe(r)
  BY <1>1, <1>t DEF Pick, Arm, Recheck, Probe
<1>2. CASE Announce(r) \/ SyncSource(r) \/ FinishJob(r)
  BY <1>2, <1>t DEF Announce, SyncSource, FinishJob
<1>3. CASE Drain(r)
  BY <1>3 DEF Drain, Draining
<1> QED
  BY <1>1, <1>2, <1>3 DEF RunJob

\* A drain ends, or starts a job if it has found none.
LEMMA DrainSteps ==
  ASSUME Types, NEW r \in Runners, Drain(r)
  PROVE  \E next \in {"drainInitial", "off"} :
           /\ \A t \in Runners : \/ rpc'[t] = (IF t = r THEN next ELSE rpc[t]) /\ run'[t] = run[t]
                                 \/ /\ t \in Workers /\ t # r
                                    /\ rpc'[t] = "launching" /\ ~job.running /\ job'.running = TRUE
           /\ cpc' = IF r = Ticker /\ next = "off" THEN [cpc EXCEPT ![Ticker] = "idle"] ELSE cpc
           /\ job'.cancel = job.cancel /\ (job' = job \/ job'.running = TRUE)
           /\ \/ /\ rpc[r] = "drainPricing" /\ next = "drainInitial" /\ pendingInitial' = pendingInitial
                 /\ ~closing /\ ~job.running => pendingPricing' = {}
              \/ /\ rpc[r] = "drainInitial" /\ next = "off" /\ pendingPricing' = pendingPricing
                 /\ ~closing /\ ~job.running => pendingInitial' = {}
<1>t. rpc \in [Runners -> Points] /\ run \in [Runners -> RunRec] /\ job \in JobRec
  BY DEF Types, TypeOK, Points
<1>1. PICK targets \in SUBSET Sources, next \in {"drainInitial", "off"} :
        /\ \/ /\ rpc[r] = "drainPricing" /\ next = "drainInitial"
              /\ DrainPricing(targets) /\ UNCHANGED pendingInitial
           \/ /\ rpc[r] = "drainInitial" /\ next = "off"
              /\ DrainInitial(targets) /\ UNCHANGED pendingPricing
        /\ IF targets = {}
           THEN rpc' = [rpc EXCEPT ![r] = next] /\ UNCHANGED <<job, run>>
           ELSE \E w \in Workers :
                  /\ rpc[w] = "off"
                  /\ job' = [job EXCEPT !.running = TRUE, !.current = None]
                  /\ rpc' = [rpc EXCEPT ![r] = next, ![w] = "launching"]
                  /\ run' = [run EXCEPT ![w] = [NoRun EXCEPT !.todo = targets]]
        /\ cpc' = IF r = Ticker /\ next = "off" THEN [cpc EXCEPT ![Ticker] = "idle"] ELSE cpc
  BY DEF Drain
<1>2. \/ /\ rpc[r] = "drainPricing" /\ next = "drainInitial" /\ pendingInitial' = pendingInitial
         /\ ~closing /\ ~job.running => pendingPricing' = {}
      \/ /\ rpc[r] = "drainInitial" /\ next = "off" /\ pendingPricing' = pendingPricing
         /\ ~closing /\ ~job.running => pendingInitial' = {}
  BY <1>1 DEF DrainPricing, DrainInitial
<1>3. CASE targets = {}
  BY <1>1, <1>2, <1>3, <1>t
<1>4. CASE targets # {}
  <2>1. ~job.running
    BY <1>1, <1>4 DEF DrainPricing, DrainInitial
  <2>2. PICK w \in Workers :
          /\ rpc[w] = "off"
          /\ job' = [job EXCEPT !.running = TRUE, !.current = None]
          /\ rpc' = [rpc EXCEPT ![r] = next, ![w] = "launching"]
          /\ run' = [run EXCEPT ![w] = [NoRun EXCEPT !.todo = targets]]
    BY <1>1, <1>4
  <2>3. job'.running = TRUE /\ job'.cancel = job.cancel
    BY <2>2, <1>t DEF JobRec
  <2>4. w # r /\ w \in Runners
    BY <1>1, <2>2, TickerIs
  <2>5. \A t \in Runners : \/ rpc'[t] = (IF t = r THEN next ELSE rpc[t]) /\ run'[t] = run[t]
                           \/ t = w /\ rpc'[t] = "launching"
    BY <2>2, <2>4, <1>t
  <2> QED
    BY <1>1, <1>2, <2>1, <2>3, <2>4, <2>5
<1> QED
  BY <1>3, <1>4

LEMMA InitCalls == Init => Calls
<1> SUFFICES ASSUME Init PROVE Calls
  OBVIOUS
<1>1. \A r \in Runners : rpc[r] = "off"
  BY DEF Init
<1>2. \A c \in Callers : call[c] = NoCall /\ NoCall.todo = {}
  BY DEF Init, NoCall
<1> QED
  BY <1>1, <1>2, TickerIs, InitJobs DEF Calls, TickerWorks, Settled

LEMMA NextCalls == Calls /\ [Next]_vars => Calls'
<1> SUFFICES ASSUME Calls, [Next]_vars PROVE Calls'
  OBVIOUS
<1> USE DEF prefVars, jobVars, dataVars
<1>n. Jobs' /\ Types
  BY NextJobs DEF Calls, Jobs
<1>t. /\ cpc \in [Callers -> {"startup", "idle", "loaded", "visit", "apply", "participate", "requeue",
                              "launch", "list", "begin", "working", "gone"}]
      /\ call \in [Callers -> CallRec]
  BY <1>n DEF Types, TypeOK
<1>v. /\ {"visit", "apply", "participate", "requeue"} = Visiting
      /\ NoCall.todo = {} /\ \A x \in Prefs : [NoCall EXCEPT !.seen = x].todo = {}
  BY DEF Visiting, NoCall
<1>i. /\ TickerWorks /\ \A c \in Callers : cpc[c] \notin Visiting => call[c].todo = {}
  BY DEF Calls, Settled
<1>1. CASE Sync
  BY <1>1, <1>n, <1>i, JobByWorker DEF Sync, Calls, TickerWorks, Settled
<1>2. ASSUME NEW s \in Sources, Reprice(s) \/ Notify(s) \/ Toggle(s) PROVE Calls'
  BY <1>2, <1>n, <1>i, JobByWorker
     DEF Reprice, Notify, NotifyCheck, NotifyQueue, Toggle, Calls, TickerWorks, Settled
<1>3. ASSUME NEW c \in Callers, Load(c) \/ Refresh(c) PROVE Calls'
  <2>1. /\ \A d \in Callers \ {c} : cpc'[d] = cpc[d] /\ call'[d] = call[d]
        /\ cpc'[c] \notin Visiting => call'[c].todo = {}
        /\ cpc[c] # "working"
    <3>1. CASE Load(c)
      <4>1. setting \in Prefs
        BY <1>n DEF Types, TypeOK
      <4> QED
        BY <3>1, <4>1, <1>t, <1>v DEF Load
    <3>2. CASE Swap(c)
      <4>1. CASE call[c].seen.rev < reg.rev
        BY <3>2, <4>1, <1>t, <1>v DEF Swap
      <4>2. CASE ~(call[c].seen.rev < reg.rev)
        <5> DEFINE changed == {s \in Sources : reg.on[s] # call[c].seen.on[s]}
        <5>1. call' = [call EXCEPT ![c] = [NoCall EXCEPT !.todo = changed]]
          BY <3>2, <4>2 DEF Swap
        <5>2. [NoCall EXCEPT !.todo = changed].todo = changed
          BY DEF NoCall
        <5>3. cpc' = [cpc EXCEPT ![c] = IF changed = {} THEN Refreshed(c) ELSE "visit"]
              /\ cpc[c] = "loaded"
          BY <3>2, <4>2 DEF Swap
        <5> QED
          BY <5>1, <5>2, <5>3, <1>t, <1>v
      <4> QED
        BY <4>1, <4>2
    <3>3. CASE Visit(c)
      BY <3>3, <1>t, <1>v DEF Visit
    <3>4. CASE Apply(c)
      BY <3>4, <1>i, <1>t, <1>v DEF Apply, AfterApply
    <3>5. CASE Participate(c) \/ Requeue(c)
      BY <3>5, <1>i, <1>t, <1>v DEF Participate, Requeue
    <3>6. CASE Launch(c)
      BY <3>6, <1>i, <1>t, <1>v DEF Launch
    <3> QED
      BY <1>3, <3>1, <3>2, <3>3, <3>4, <3>5, <3>6 DEF Refresh
  <2>2. rpc'[Ticker] = rpc[Ticker]
    <3>1. CASE Launch(c)
      BY <3>1, <1>n, JobByWorker DEF Launch
    <3>2. CASE ~Launch(c)
      BY <1>3, <3>2 DEF Refresh, Load, Swap, Visit, Apply, Participate, Requeue
    <3> QED
      BY <3>1, <3>2
  <2> QED
    BY <2>1, <2>2, <1>n, <1>i, TickerIs DEF Calls, TickerWorks, Settled
<1>4. CASE List
  <2>1. PICK available \in SUBSET Sources, next \in {"idle", "begin"} :
          /\ call' = [call EXCEPT ![Ticker] = [call[Ticker] EXCEPT !.available = available]]
          /\ cpc' = [cpc EXCEPT ![Ticker] = next]
    <3>1. PICK lost \in SUBSET Sources :
            LET available == {s \in Sources \ lost : Enabled(s)}
            IN  /\ call' = [call EXCEPT ![Ticker].available = available]
                /\ cpc' = [cpc EXCEPT ![Ticker] = IF available = {} THEN "idle" ELSE "begin"]
      BY <1>4 DEF List
    <3> DEFINE available == {s \in Sources \ lost : Enabled(s)}
    <3>2. available \in SUBSET Sources
      OBVIOUS
    <3> QED
      BY <3>1, <3>2
  <2>2. [call[Ticker] EXCEPT !.available = available].todo = call[Ticker].todo
    BY <1>t, TickerIs DEF CallRec
  <2>3. cpc[Ticker] = "list" /\ rpc' = rpc
    BY <1>4 DEF List
  <2> QED
    BY <2>1, <2>2, <2>3, <1>n, <1>i, <1>t, <1>v, TickerIs DEF Calls, TickerWorks, Settled
<1>5. CASE TickStart
  <2>1. /\ call' = [call EXCEPT ![Ticker] = NoCall] /\ cpc[Ticker] = "begin"
        /\ \/ cpc' = [cpc EXCEPT ![Ticker] = "idle"] /\ rpc' = rpc
           \/ cpc' = [cpc EXCEPT ![Ticker] = "working"]
    BY <1>5 DEF TickStart
  <2> QED
    BY <2>1, <1>n, <1>i, <1>t, <1>v, TickerIs DEF Calls, TickerWorks, Settled
<1>6. ASSUME NEW r \in Runners, RunJob(r) PROVE Calls'
  <2>1. rpc[r] # "off" /\ call' = call
    BY <1>6, <1>n, RunnerSteps
  <2>2. CASE UNCHANGED cpc /\ \A t \in Runners \ {r} : rpc'[t] = rpc[t]
    BY <2>1, <2>2, <1>n, <1>i, TickerIs DEF Calls, TickerWorks, Settled
  <2>3. CASE Drain(r)
    <3>1. PICK next \in {"drainInitial", "off"} :
            /\ \A t \in Runners \ Workers : rpc'[t] = IF t = r THEN next ELSE rpc[t]
            /\ cpc' = IF r = Ticker /\ next = "off" THEN [cpc EXCEPT ![Ticker] = "idle"] ELSE cpc
      BY <2>3, <1>n, DrainSteps, ZenonT(60)
    <3>2. rpc'[Ticker] = IF r = Ticker THEN next ELSE rpc[Ticker]
      BY <3>1, TickerIs
    <3>3. r = Ticker => cpc[Ticker] = "working" /\ call[Ticker].todo = {}
      BY <2>1, <1>i, <1>v, TickerIs DEF TickerWorks
    <3> QED
      BY <2>1, <3>1, <3>2, <3>3, <1>n, <1>i, <1>t, TickerIs DEF Calls, TickerWorks, Settled
  <2> QED
    BY <1>6, <1>n, <2>2, <2>3, RunnerSteps
<1>7. CASE Stop \/ CloseStore \/ UNCHANGED vars
  BY <1>7, <1>n, <1>i DEF Stop, CloseStore, vars, Calls, TickerWorks, Settled
<1>8. CASE TickerLeaves
  BY <1>8, <1>n, <1>i, <1>t, <1>v, TickerIs DEF TickerLeaves, Calls, TickerWorks, Settled
<1> QED
  BY <1>1, <1>2, <1>3, <1>4, <1>5, <1>6, <1>7, <1>8 DEF Next

---------------------------------------------------------------------------
(* Shutdown: once the database is closed the ticker is gone, and whoever still *)
(* runs is stopped by the closing context before it announces a source.         *)

Shut ==
  closed => /\ closing /\ cpc[Ticker] = "gone"
            /\ \A r \in Runners : rpc[r] \notin {"announce", "sync"}

LEMMA NextShut == Calls /\ Shut /\ [Next]_vars => Shut'
<1> SUFFICES ASSUME Calls, Shut, [Next]_vars PROVE Shut'
  OBVIOUS
<1> USE DEF prefVars, jobVars, dataVars
<1>n. Types /\ TickerWorks
  BY DEF Calls, Jobs
<1>t. /\ cpc \in [Callers -> {"startup", "idle", "loaded", "visit", "apply", "participate", "requeue",
                              "launch", "list", "begin", "working", "gone"}]
      /\ rpc \in [Runners -> Points]
  BY <1>n DEF Types, TypeOK, Points
<1>1. CASE CloseStore
  <2>1. rpc[Ticker] = "off" /\ closing /\ cpc[Ticker] = "gone" /\ closing' = closing /\ cpc' = cpc /\ rpc' = rpc
    BY <1>1, <1>n DEF CloseStore, TickerWorks
  <2>2. \A r \in Runners : rpc[r] \in {"off", "launching"}
    BY <1>1, <2>1 DEF CloseStore, Runners
  <2> QED
    BY <2>1, <2>2 DEF Shut
<1>2. CASE Sync
  BY <1>2, <1>n, JobByWorker DEF Sync, Shut
<1>3. ASSUME NEW s \in Sources, Reprice(s) \/ Notify(s) \/ Toggle(s) PROVE Shut'
  BY <1>3, <1>n, JobByWorker DEF Reprice, Notify, NotifyCheck, NotifyQueue, Toggle, Shut
<1>4. ASSUME NEW c \in Callers, Load(c) \/ Refresh(c) PROVE Shut'
  <2>1. closed' = closed /\ closing' = closing
    BY <1>4 DEF Refresh, Load, Swap, Visit, Apply, Participate, Requeue, Launch
  <2>2. cpc[c] # "gone" /\ \A d \in Callers \ {c} : cpc'[d] = cpc[d]
    <3>1. CASE Load(c) \/ Swap(c) \/ Visit(c)
      BY <3>1, <1>t DEF Load, Swap, Visit
    <3>2. CASE Apply(c) \/ Participate(c) \/ Requeue(c) \/ Launch(c)
      BY <3>2, <1>t DEF Apply, Participate, Requeue, Launch
    <3> QED
      BY <1>4, <3>1, <3>2 DEF Refresh
  <2>3. (\E targets \in SUBSET Sources : StartJob(targets)) \/ rpc' = rpc
    BY <1>4 DEF Refresh, Load, Swap, Visit, Apply, Participate, Requeue, Launch
  <2>4. \A r \in Runners : rpc'[r] = rpc[r] \/ rpc'[r] = "launching"
    BY <2>3, <1>n, JobByWorker
  <2> QED
    BY <2>1, <2>2, <2>4, TickerIs DEF Shut
<1>5. CASE List \/ TickStart \/ TickerLeaves
  <2>1. cpc[Ticker] \in {"list", "begin", "idle"} /\ closed' = closed
    BY <1>5 DEF List, TickStart, TickerLeaves
  <2> QED
    BY <2>1 DEF Shut
<1>6. ASSUME NEW r \in Runners, RunJob(r) PROVE Shut'
  <2>1. closed' = closed /\ closing' = closing
    BY <1>6 DEF RunJob, Pick, Arm, Recheck, Probe, Announce, SyncSource, FinishJob, Drain
  <2> SUFFICES ASSUME closed PROVE Shut'
    BY <2>1 DEF Shut
  <2>2. Cancelled(r) /\ cpc[Ticker] = "gone" /\ r # Ticker
    BY <1>6, <1>n, RunnerSteps DEF Shut, Cancelled, TickerWorks
  <2>3. \A t \in Runners : rpc[t] \notin {"announce", "sync"}
    BY DEF Shut
  <2>4. \A t \in Runners : rpc'[t] \notin {"announce", "sync"} /\ cpc' = cpc
    <3>1. CASE Drain(r)
      BY <3>1, <2>2, <2>3, <1>n, DrainSteps
    <3>2. CASE Pick(r) \/ Arm(r) \/ Recheck(r) \/ FinishJob(r)
      BY <3>2, <2>3, <1>t DEF Pick, Arm, Recheck, FinishJob
    <3>3. CASE Probe(r)
      BY <3>3, <2>2, <2>3, <1>t DEF Probe
    <3>4. CASE Announce(r) \/ SyncSource(r)
      BY <3>4, <2>3 DEF Announce, SyncSource
    <3> QED
      BY <1>6, <3>1, <3>2, <3>3, <3>4 DEF RunJob
  <2> QED
    BY <2>1, <2>2, <2>4 DEF Shut
<1>7. CASE Stop \/ UNCHANGED vars
  BY <1>7 DEF Stop, vars, Shut
<1> QED
  BY <1>1, <1>2, <1>3, <1>4, <1>5, <1>6, <1>7 DEF Next

\* The store is closed when no runner is inside a sync, and none begins one later.
THEOREM ClosedIsIdle == Spec => []ClosedMeansIdle
<1>1. Init => Calls /\ Shut
  BY InitCalls DEF Init, Shut
<1>2. Calls /\ Shut /\ [Next]_vars => Calls' /\ Shut'
  BY NextCalls, NextShut
<1>3. Shut => ClosedMeansIdle
  BY DEF Shut, ClosedMeansIdle
<1> QED
  BY <1>1, <1>2, <1>3, PTL DEF Spec

---------------------------------------------------------------------------
(* The queues                                                               *)

\* A step that ends with no job running and the queues no fuller than before keeps
\* every promise to look at them, when those who will are still there.
LEMMA NextWaits == Calls /\ NothingWaitsUnseen /\ [Next]_vars => NothingWaitsUnseen'
<1> SUFFICES ASSUME Calls, NothingWaitsUnseen, [Next]_vars PROVE NothingWaitsUnseen'
  OBVIOUS
<1> USE DEF prefVars, jobVars, dataVars
<1>n. Types
  BY DEF Calls, Jobs
<1>t. /\ cpc \in [Callers -> {"startup", "idle", "loaded", "visit", "apply", "participate", "requeue",
                              "launch", "list", "begin", "working", "gone"}]
      /\ rpc \in [Runners -> Points] /\ job \in JobRec
  BY <1>n DEF Types, TypeOK, Points
<1>s. ASSUME NEW targets \in SUBSET Sources, StartJob(targets)
      PROVE  NothingWaitsUnseen'
  BY <1>n, <1>s, JobByWorker DEF NothingWaitsUnseen
<1>1. CASE Sync
  BY <1>1, <1>s DEF Sync
<1>2. ASSUME NEW s \in Sources, Reprice(s) \/ Notify(s) \/ Toggle(s) PROVE NothingWaitsUnseen'
  BY <1>2, <1>s DEF Reprice, Notify, NotifyCheck, NotifyQueue, Toggle, NothingWaitsUnseen
<1>3. ASSUME NEW c \in Callers, Load(c) \/ Refresh(c) PROVE NothingWaitsUnseen'
  <2>1. CASE Launch(c)
    <3>1. PICK targets \in SUBSET Sources :
            /\ DrainInitial(targets)
            /\ IF targets = {} THEN UNCHANGED <<job, rpc, run>> ELSE StartJob(targets)
      BY <2>1 DEF Launch
    <3>2. CASE targets = {}
      BY <2>1, <3>1, <3>2 DEF Launch, DrainInitial, NothingWaitsUnseen
    <3> QED
      BY <3>1, <3>2, <1>s
  <2>2. CASE Load(c) \/ Swap(c)
    <3>1. cpc[c] \in {"idle", "loaded"} /\ \A d \in Callers \ {c} : cpc'[d] = cpc[d]
      BY <2>2, <1>t DEF Load, Swap
    <3>2. cpc[c] \notin {"startup", "launch"} \union Visiting
      BY <3>1 DEF Visiting
    <3> QED
      BY <2>2, <3>1, <3>2 DEF Load, Swap, NothingWaitsUnseen
  <2>3. CASE Visit(c) \/ Apply(c) \/ Participate(c) \/ Requeue(c)
    <3>1. cpc'[c] \in {"startup", "launch"} \union Visiting
      <4>1. CASE Visit(c) \/ Apply(c)
        BY <4>1, <1>t DEF Visit, Apply, AfterApply, Visiting
      <4>2. CASE Participate(c) \/ Requeue(c)
        BY <4>2, <1>t DEF Participate, Requeue, Visiting
      <4> QED
        BY <2>3, <4>1, <4>2
    <3>2. pendingPricing' # {} => pendingPricing # {}
      BY <2>3 DEF Visit, Apply, Participate, Requeue
    <3>3. UNCHANGED <<job, rpc, closing>>
      BY <2>3 DEF Visit, Apply, Participate, Requeue
    <3> QED
      BY <3>1, <3>2, <3>3 DEF NothingWaitsUnseen
  <2> QED
    BY <1>3, <2>1, <2>2, <2>3 DEF Refresh
<1>4. CASE List
  <2>1. cpc[Ticker] \notin {"startup", "launch"} \union Visiting
    BY <1>4 DEF List, Visiting
  <2>2. \A d \in Callers \ {Ticker} : cpc'[d] = cpc[d]
    BY <1>4, <1>t DEF List
  <2> QED
    BY <1>4, <2>1, <2>2 DEF List, NothingWaitsUnseen
<1>5. CASE TickStart
  <2>1. job'.running = TRUE
    <3>1. CASE job.running
      BY <1>5, <3>1, <1>t DEF TickStart, JobRec
    <3>2. CASE ~job.running
      BY <1>5, <3>2, <1>t DEF TickStart, Started, JobRec
    <3> QED
      BY <3>1, <3>2
  <2> QED
    BY <2>1 DEF NothingWaitsUnseen
<1>6. ASSUME NEW r \in Runners, RunJob(r) PROVE NothingWaitsUnseen'
  <2>1. closing' = closing
    BY <1>6 DEF RunJob, Pick, Arm, Recheck, Probe, Announce, SyncSource, FinishJob, Drain
  <2>2. CASE FinishJob(r)
    <3>1. rpc'[r] = "drainPricing" /\ "drainPricing" \in Draining
      BY <2>2, <1>t DEF FinishJob, Draining
    <3> QED
      BY <3>1 DEF NothingWaitsUnseen
  <2>3. CASE Drain(r)
    <3>1. PICK next \in {"drainInitial", "off"} :
            /\ \A t \in Runners : \/ rpc'[t] = (IF t = r THEN next ELSE rpc[t])
                                  \/ ~job.running /\ job'.running = TRUE
            /\ cpc' = IF r = Ticker /\ next = "off" THEN [cpc EXCEPT ![Ticker] = "idle"] ELSE cpc
            /\ job' = job \/ job'.running = TRUE
            /\ \/ /\ rpc[r] = "drainPricing" /\ next = "drainInitial" /\ pendingInitial' = pendingInitial
                  /\ ~closing /\ ~job.running => pendingPricing' = {}
               \/ /\ rpc[r] = "drainInitial" /\ next = "off" /\ pendingPricing' = pendingPricing
                  /\ ~closing /\ ~job.running => pendingInitial' = {}
      BY <2>3, <1>n, DrainSteps, ZenonT(60)
    <3> SUFFICES ASSUME ~closing, ~job'.running PROVE NothingWaitsUnseen'
      BY <2>1 DEF NothingWaitsUnseen
    <3>2. job' = job /\ \A t \in Runners : rpc'[t] = IF t = r THEN next ELSE rpc[t]
      BY <3>1
    <3>3. CASE rpc[r] = "drainPricing" /\ next = "drainInitial"
      <4>1. pendingPricing' = {} /\ rpc'[r] = "drainInitial" /\ "drainInitial" \in Draining
        BY <3>1, <3>2, <3>3 DEF Draining
      <4> QED
        BY <4>1 DEF NothingWaitsUnseen
    <3>4. CASE rpc[r] = "drainInitial" /\ next = "off"
      <4>1. pendingInitial' = {} /\ pendingPricing' = pendingPricing
        BY <3>1, <3>2, <3>4
      <4>2. pendingPricing' # {} => \E t \in Runners : rpc'[t] = "drainPricing"
        BY <3>2, <3>4, <4>1 DEF NothingWaitsUnseen
      <4> QED
        BY <4>1, <4>2 DEF NothingWaitsUnseen
    <3> QED
      BY <3>1, <3>3, <3>4
  <2>4. CASE Pick(r) \/ Arm(r) \/ Recheck(r) \/ Probe(r) \/ Announce(r) \/ SyncSource(r)
    <3>1. /\ rpc[r] \notin Draining /\ \A t \in Runners \ {r} : rpc'[t] = rpc[t]
          /\ UNCHANGED <<cpc, pendingInitial, pendingPricing>>
      BY <2>4, <1>t DEF Pick, Arm, Recheck, Probe, Announce, SyncSource, Draining
    <3>2. job'.running = job.running
      BY <2>4, <1>t DEF Pick, Arm, Recheck, Probe, Announce, SyncSource, JobRec
    <3>3. \A t \in Runners : (rpc[t] = "drainPricing" => rpc'[t] = "drainPricing")
                             /\ (rpc[t] \in Draining => rpc'[t] \in Draining)
      BY <3>1 DEF Draining
    <3> QED
      BY <2>1, <3>1, <3>2, <3>3 DEF NothingWaitsUnseen
  <2> QED
    BY <1>6, <2>2, <2>3, <2>4 DEF RunJob
<1>7. CASE Stop \/ CloseStore \/ UNCHANGED vars
  BY <1>7 DEF Stop, CloseStore, vars, NothingWaitsUnseen
<1>8. CASE TickerLeaves
  BY <1>8 DEF TickerLeaves, NothingWaitsUnseen
<1> QED
  BY <1>1, <1>2, <1>3, <1>4, <1>5, <1>6, <1>7, <1>8 DEF Next

\* Whoever queues a source while a job runs can rely on the runner to find it, and
\* one who finds no job running looks at the queue itself.
THEOREM QueuesAreSeen == Spec => []NothingWaitsUnseen
<1>1. Init => NothingWaitsUnseen
  <2> SUFFICES ASSUME Init PROVE NothingWaitsUnseen
    OBVIOUS
  <2>1. cpc[Ticker] = "startup" /\ pendingPricing = {}
    BY TickerIs DEF Init
  <2> QED
    BY <2>1, TickerIs DEF NothingWaitsUnseen
<1> QED
  BY <1>1, InitCalls, NextCalls, NextWaits, PTL DEF Spec

---------------------------------------------------------------------------
(* A source switched off under a job                                        *)

\* Somebody is still to act on what the source has been set to.
WillAct(s) ==
  \E c \in Callers : \/ s \in call[c].todo
                     \/ cpc[c] = "apply" /\ call[c].id = s /\ ~call[c].on

Reached ==
  \A r \in Runners :
    rpc[r] = "sync" /\ ~Enabled(run[r].src) /\ ~Cancelled(r) => WillAct(run[r].src)

\* Nothing is lost by a step that leaves who acts, and the preferences, alone and
\* announces nothing.
LEMMA StillReached ==
  ASSUME Reached, UNCHANGED <<cpc, call, reg>>, closing' = closing \/ closing' = TRUE,
         \A r \in Runners : rpc'[r] = "sync" =>
           \/ rpc[r] = "sync" /\ run'[r] = run[r]
           \/ Cancelled(r)' \/ Enabled(run'[r].src)
  PROVE  Reached'
<1> SUFFICES ASSUME NEW r \in Runners, (rpc[r] = "sync" /\ ~Enabled(run[r].src) /\ ~Cancelled(r))'
             PROVE  WillAct(run[r].src)'
  BY DEF Reached
<1>1. rpc[r] = "sync" /\ run'[r] = run[r]
  BY DEF Enabled
<1>2. ~Enabled(run[r].src) /\ ~(run[r].cancelled \/ closing)
  BY <1>1 DEF Enabled, Cancelled
<1>3. WillAct(run[r].src)
  BY <1>1, <1>2 DEF Reached, Cancelled
<1> QED
  BY <1>1, <1>3 DEF WillAct

\* The change is one of the callback's list, in its hands, or has reached the job.
LEMMA CallerReaches ==
  ASSUME Calls, Reached, NEW c \in Callers, Load(c) \/ Refresh(c)
  PROVE  Reached'
<1> USE DEF prefVars, jobVars, dataVars
<1>n. Types /\ CancelExact
  BY DEF Calls, Jobs
<1>t. /\ cpc \in [Callers -> {"startup", "idle", "loaded", "visit", "apply", "participate", "requeue",
                              "launch", "list", "begin", "working", "gone"}]
      /\ call \in [Callers -> CallRec] /\ run \in [Runners -> RunRec] /\ reg \in Prefs
      /\ \A r \in Runners : run[r].src # None <=> rpc[r] \in Armed \union {"arm"}
  BY <1>n DEF Types, TypeOK
<1>s. \A r \in Runners : rpc[r] = "sync" => run[r].src \in Sources /\ run[r].src = job.current /\ job.cancel = r
  <2> SUFFICES ASSUME NEW r \in Runners, rpc[r] = "sync"
               PROVE  run[r].src \in Sources /\ run[r].src = job.current /\ job.cancel = r
    OBVIOUS
  <2>1. rpc[r] \in Armed
    BY DEF Armed
  <2> QED
    BY <2>1, <1>n, <1>t DEF CancelExact, RunRec
<1>i. cpc[c] \notin Visiting => call[c].todo = {}
  BY DEF Calls, Settled
<1>1. CASE Launch(c)
  <2>1. call' = call /\ reg' = reg /\ closing' = closing
        /\ cpc[c] \in {"startup", "launch"} /\ \A d \in Callers \ {c} : cpc'[d] = cpc[d]
    BY <1>1, <1>t DEF Launch
  <2>2. \A r \in Runners : rpc'[r] = "sync" => rpc[r] = "sync" /\ run'[r] = run[r]
    <3>1. CASE \E targets \in SUBSET Sources : StartJob(targets)
      BY <3>1, <1>n, JobByWorker
    <3>2. CASE UNCHANGED <<job, rpc, run>>
      BY <3>2
    <3> QED
      BY <1>1, <3>1, <3>2 DEF Launch
  <2> SUFFICES ASSUME NEW r \in Runners, (rpc[r] = "sync" /\ ~Enabled(run[r].src) /\ ~Cancelled(r))'
               PROVE  WillAct(run[r].src)'
    BY DEF Reached
  <2>3. rpc[r] = "sync" /\ run'[r] = run[r] /\ ~Enabled(run[r].src) /\ ~Cancelled(r)
    BY <2>1, <2>2 DEF Enabled, Cancelled
  <2>4. PICK d \in Callers : \/ run[r].src \in call[d].todo
                             \/ cpc[d] = "apply" /\ call[d].id = run[r].src /\ ~call[d].on
    BY <2>3 DEF Reached, WillAct
  <2> QED
    BY <2>1, <2>3, <2>4 DEF WillAct
<1>2. CASE ~Launch(c)
  <2>r. rpc' = rpc /\ closing' = closing /\ \A r \in Runners : run'[r].src = run[r].src
    <3>1. CASE Apply(c)
      <4>1. \/ UNCHANGED run
            \/ run' = [r \in Runners |-> [run[r] EXCEPT !.cancelled =
                                            @ \/ (r = job.cancel /\ job.current = call[c].id)]]
        BY <3>1 DEF Apply
      <4> QED
        BY <3>1, <4>1, <1>t DEF Apply, RunRec
    <3> QED
      BY <1>2, <3>1 DEF Refresh, Load, Swap, Visit, Participate, Requeue
  <2>c. \A r \in Runners : run'[r].cancelled = FALSE => run[r].cancelled = FALSE
    <3>1. CASE Apply(c)
      <4>1. \/ UNCHANGED run
            \/ run' = [r \in Runners |-> [run[r] EXCEPT !.cancelled =
                                            @ \/ (r = job.cancel /\ job.current = call[c].id)]]
        BY <3>1 DEF Apply
      <4> QED
        BY <4>1, <1>t DEF RunRec
    <3> QED
      BY <1>2, <3>1 DEF Refresh, Load, Swap, Visit, Participate, Requeue
  <2>b. run' \in [Runners -> RunRec]
    BY NextTypes, <1>n DEF Types, TypeOK, Next
  <2> SUFFICES ASSUME NEW r \in Runners, (rpc[r] = "sync" /\ ~Enabled(run[r].src) /\ ~Cancelled(r))'
               PROVE  WillAct(run[r].src)'
    BY DEF Reached
  <2> DEFINE s == run[r].src
  <2>1. rpc[r] = "sync" /\ run'[r].src = s /\ s \in Sources /\ ~Cancelled(r) /\ ~reg'.on[s]
        /\ job.cancel = r /\ s = job.current /\ run'[r].cancelled = FALSE
    BY <2>r, <2>c, <2>b, <1>s, <1>t DEF Enabled, Cancelled, RunRec
  <2>o. \A d \in Callers \ {c} : cpc'[d] = cpc[d] /\ call'[d] = call[d]
    <3>1. CASE Load(c) \/ Swap(c) \/ Visit(c)
      BY <3>1, <1>t DEF Load, Swap, Visit
    <3>2. CASE Apply(c) \/ Participate(c) \/ Requeue(c)
      BY <3>2, <1>t DEF Apply, Participate, Requeue
    <3> QED
      BY <1>2, <3>1, <3>2 DEF Refresh
  <2>2. ASSUME reg.on[s] = FALSE
        PROVE  \E d \in Callers : \/ s \in call[d].todo
                                  \/ cpc[d] = "apply" /\ call[d].id = s /\ ~call[d].on
    BY <2>1, <2>2 DEF Reached, WillAct, Enabled
  <2>3. CASE Load(c)
    <3>1. call[c].todo = {} /\ cpc[c] # "apply" /\ reg' = reg
      BY <2>3, <1>i DEF Load, Visiting
    <3>2. reg.on[s] = FALSE
      BY <2>1, <3>1, <1>t DEF Prefs
    <3> QED
      BY <2>1, <2>2, <2>o, <3>1, <3>2 DEF WillAct
  <2>4. CASE Swap(c)
    <3>1. call[c].todo = {} /\ cpc[c] # "apply"
      BY <2>4, <1>i DEF Swap, Visiting
    <3>2. CASE reg.on[s] = FALSE
      BY <2>1, <2>2, <2>o, <3>1, <3>2 DEF WillAct
    <3>3. CASE reg.on[s] # FALSE
      <4> DEFINE changed == {x \in Sources : reg.on[x] # call[c].seen.on[x]}
      <4>1. reg' = call[c].seen /\ call' = [call EXCEPT ![c] = [NoCall EXCEPT !.todo = changed]]
        <5>1. reg.on[s] = TRUE
          BY <2>1, <3>3, <1>t DEF Prefs
        <5>2. reg' # reg
          BY <2>1, <5>1
        <5> QED
          BY <2>4, <5>2 DEF Swap
      <4>2. s \in changed
        BY <2>1, <3>3, <4>1, <1>t, ZenonT(60) DEF CallRec, Prefs
      <4>3. call'[c].todo = changed
        BY <4>1, <1>t DEF NoCall
      <4> QED
        BY <2>1, <4>2, <4>3 DEF WillAct
    <3> QED
      BY <3>2, <3>3
  <2>5. CASE Visit(c)
    <3>1. reg' = reg /\ reg.on[s] = FALSE
      BY <2>1, <2>5, <1>t DEF Visit, Prefs
    <3>2. PICK d \in Callers : \/ s \in call[d].todo
                               \/ cpc[d] = "apply" /\ call[d].id = s /\ ~call[d].on
      BY <2>2, <3>1
    <3>3. CASE d # c
      BY <2>1, <2>o, <3>2, <3>3 DEF WillAct
    <3>4. CASE d = c
      <4>1. s \in call[c].todo /\ cpc[c] = "visit"
        BY <2>5, <3>2, <3>4 DEF Visit
      <4>2. PICK x \in call[c].todo :
              /\ call' = [call EXCEPT ![c].id = x, ![c].on = Enabled(x), ![c].todo = @ \ {x}]
              /\ cpc' = [cpc EXCEPT ![c] = "apply"]
        BY <2>5, <4>1 DEF Visit
      <4>3. call' = [call EXCEPT ![c] = [call[c] EXCEPT !.id = x, !.on = Enabled(x), !.todo = @ \ {x}]]
        BY <4>2
      <4>4. call'[c].id = x /\ call'[c].on = Enabled(x) /\ call'[c].todo = call[c].todo \ {x}
        BY <4>3, <1>t DEF CallRec
      <4>5. cpc'[c] = "apply"
        BY <4>2, <1>t
      <4>6. s = x => ~call'[c].on
        BY <3>1, <4>4 DEF Enabled
      <4> QED
        BY <2>1, <4>1, <4>4, <4>5, <4>6 DEF WillAct
    <3> QED
      BY <3>3, <3>4
  <2>6. CASE Apply(c)
    <3>1. reg' = reg /\ call' = call /\ reg.on[s] = FALSE /\ cpc[c] = "apply"
      BY <2>1, <2>6, <1>t DEF Apply, Prefs
    <3>2. PICK d \in Callers : \/ s \in call[d].todo
                               \/ cpc[d] = "apply" /\ call[d].id = s /\ ~call[d].on
      BY <2>2, <3>1
    <3>3. ~(call[c].id = s /\ ~call[c].on)
      <4> SUFFICES ASSUME call[c].id = s, ~call[c].on PROVE FALSE
        OBVIOUS
      <4>1. run' = [t \in Runners |-> [run[t] EXCEPT !.cancelled =
                      @ \/ (t = job.cancel /\ job.current = call[c].id)]]
        BY <2>6 DEF Apply
      <4>2. run'[r].cancelled
        BY <4>1, <2>1, <1>t DEF RunRec
      <4> QED
        BY <2>1, <4>2
    <3> QED
      BY <2>1, <2>o, <3>1, <3>2, <3>3 DEF WillAct
  <2>7. CASE Participate(c) \/ Requeue(c)
    <3>1. reg' = reg /\ call' = call /\ reg.on[s] = FALSE /\ cpc[c] # "apply"
      BY <2>1, <2>7, <1>t DEF Participate, Requeue, Prefs
    <3> QED
      BY <2>1, <2>2, <2>o, <3>1 DEF WillAct
  <2> QED
    BY <1>2, <2>3, <2>4, <2>5, <2>6, <2>7 DEF Refresh
<1> QED
  BY <1>1, <1>2

LEMMA NextReached == Calls /\ Reached /\ [Next]_vars => Reached'
<1> SUFFICES ASSUME Calls, Reached, [Next]_vars PROVE Reached'
  OBVIOUS
<1> USE DEF prefVars, jobVars, dataVars
<1>n. Types
  BY DEF Calls, Jobs
<1>t. rpc \in [Runners -> Points] /\ run \in [Runners -> RunRec]
  BY <1>n DEF Types, TypeOK, Points
<1>s. ASSUME NEW targets \in SUBSET Sources, StartJob(targets)
      PROVE  \A r \in Runners : rpc'[r] = "sync" => rpc[r] = "sync" /\ run'[r] = run[r]
  BY <1>n, <1>s, JobByWorker
<1>1. CASE Sync
  BY <1>1, <1>s, StillReached DEF Sync
<1>2. ASSUME NEW s \in Sources, Reprice(s) \/ Notify(s) \/ Toggle(s) PROVE Reached'
  BY <1>2, <1>s, StillReached DEF Reprice, Notify, NotifyCheck, NotifyQueue, Toggle
<1>3. ASSUME NEW c \in Callers, Load(c) \/ Refresh(c) PROVE Reached'
  BY <1>3, CallerReaches
<1>4. ASSUME List \/ TickStart \/ TickerLeaves PROVE Reached'
  <2>1. cpc[Ticker] \notin Visiting /\ call[Ticker].todo = {} /\ cpc[Ticker] # "apply"
    BY <1>4, TickerIs DEF List, TickStart, TickerLeaves, Visiting, Calls, Settled
  <2>2. /\ \A c \in Callers \ {Ticker} : cpc'[c] = cpc[c] /\ call'[c] = call[c]
        /\ reg' = reg /\ closing' = closing
    BY <1>4, <1>n DEF List, TickStart, TickerLeaves, Types, TypeOK
  <2>3. \A r \in Runners : rpc'[r] = "sync" => rpc[r] = "sync" /\ run'[r] = run[r]
    BY <1>4, <1>t DEF List, TickStart, Started, TickerLeaves
  <2> SUFFICES ASSUME NEW r \in Runners, (rpc[r] = "sync" /\ ~Enabled(run[r].src) /\ ~Cancelled(r))'
               PROVE  WillAct(run[r].src)'
    BY DEF Reached
  <2>4. rpc[r] = "sync" /\ run'[r] = run[r] /\ ~Enabled(run[r].src) /\ ~Cancelled(r)
    BY <2>2, <2>3 DEF Enabled, Cancelled
  <2>5. PICK c \in Callers : \/ run[r].src \in call[c].todo
                             \/ cpc[c] = "apply" /\ call[c].id = run[r].src /\ ~call[c].on
    BY <2>4 DEF Reached, WillAct
  <2> QED
    BY <2>1, <2>2, <2>4, <2>5 DEF WillAct
<1>5. ASSUME NEW r \in Runners, RunJob(r) PROVE Reached'
  <2>1. closing' = closing /\ reg' = reg
    BY <1>5 DEF RunJob, Pick, Arm, Recheck, Probe, Announce, SyncSource, FinishJob, Drain
  <2>2. CASE Drain(r)
    <3>1. PICK next \in {"drainInitial", "off"} :
            /\ \A t \in Runners : \/ rpc'[t] = (IF t = r THEN next ELSE rpc[t]) /\ run'[t] = run[t]
                                  \/ rpc'[t] = "launching"
            /\ cpc' = IF r = Ticker /\ next = "off" THEN [cpc EXCEPT ![Ticker] = "idle"] ELSE cpc
      BY <2>2, <1>n, DrainSteps, ZenonT(60)
    <3>2. r = Ticker => cpc[Ticker] = "working"
      BY <1>5, <1>n, RunnerSteps DEF Calls, TickerWorks
    <3>3. \A c \in Callers : cpc[c] = "apply" => cpc'[c] = "apply"
      BY <3>1, <3>2, <1>n DEF Types, TypeOK
    <3>4. call' = call
      BY <2>2 DEF Drain
    <3> SUFFICES ASSUME NEW t \in Runners, (rpc[t] = "sync" /\ ~Enabled(run[t].src) /\ ~Cancelled(t))'
                 PROVE  WillAct(run[t].src)'
      BY DEF Reached
    <3>5. rpc[t] = "sync" /\ run'[t] = run[t] /\ ~Enabled(run[t].src) /\ ~Cancelled(t)
      BY <2>1, <3>1 DEF Enabled, Cancelled
    <3>6. PICK c \in Callers : \/ run[t].src \in call[c].todo
                               \/ cpc[c] = "apply" /\ call[c].id = run[t].src /\ ~call[c].on
      BY <3>5 DEF Reached, WillAct
    <3> QED
      BY <3>3, <3>4, <3>5, <3>6 DEF WillAct
  <2>3. CASE Announce(r)
    <3>1. run' = [run EXCEPT ![r] = [run[r] EXCEPT !.cancelled = run[r].cancelled \/ ~Enabled(run[r].src),
                                                   !.tag = pricing[run[r].src]]]
      BY <2>3 DEF Announce
    <3>2. run'[r].src = run[r].src /\ run'[r].cancelled = (run[r].cancelled \/ ~Enabled(run[r].src))
      BY <3>1, <1>t DEF RunRec
    <3>3. Cancelled(r)' \/ Enabled(run'[r].src)
      BY <3>2 DEF Cancelled
    <3>4. \A t \in Runners \ {r} : rpc'[t] = rpc[t] /\ run'[t] = run[t]
      BY <2>3, <1>t DEF Announce
    <3> QED
      BY <2>1, <2>3, <3>3, <3>4, StillReached DEF Announce
  <2>4. CASE Pick(r) \/ Arm(r) \/ Recheck(r) \/ Probe(r) \/ SyncSource(r) \/ FinishJob(r)
    <3>1. rpc'[r] # "sync" /\ \A t \in Runners \ {r} : rpc'[t] = rpc[t] /\ run'[t] = run[t]
      <4>1. CASE Pick(r) \/ Arm(r) \/ Recheck(r)
        BY <4>1, <1>t DEF Pick, Arm, Recheck
      <4>2. CASE Probe(r) \/ SyncSource(r) \/ FinishJob(r)
        BY <4>2, <1>t DEF Probe, SyncSource, FinishJob
      <4> QED
        BY <2>4, <4>1, <4>2
    <3>2. UNCHANGED <<cpc, call>>
      BY <2>4 DEF Pick, Arm, Recheck, Probe, SyncSource, FinishJob
    <3> QED
      BY <2>1, <3>1, <3>2, StillReached
  <2> QED
    BY <1>5, <2>2, <2>3, <2>4 DEF RunJob
<1>6. CASE Stop \/ CloseStore \/ UNCHANGED vars
  BY <1>6, StillReached DEF Stop, CloseStore, vars
<1> QED
  BY <1>1, <1>2, <1>3, <1>4, <1>5, <1>6 DEF Next

\* A source that is switched off while a job syncs it is noticed by the runner or
\* cancelled by the callback, however the loads, swaps and callbacks of several
\* callers overtake one another.
THEOREM DisablingIsSeen == Spec => []DisablingReachesTheJob
<1>1. Init => Reached
  <2> SUFFICES ASSUME Init PROVE Reached
    OBVIOUS
  <2>1. \A r \in Runners : rpc[r] = "off"
    BY DEF Init
  <2> QED
    BY <2>1 DEF Reached
<1>2. Reached => DisablingReachesTheJob
  BY DEF Reached, WillAct, DisablingReachesTheJob
<1> QED
  BY <1>1, <1>2, InitCalls, NextCalls, NextReached, PTL DEF Spec

---------------------------------------------------------------------------
(* Aggregate tables                                                        *)

\* Rows have times, and their sessions are those of their messages.
RowsOK(rows) == \A m \in rows : m.t \in Nat /\ m.s = MessageSession[m.id]

\* A message that has a time of its own is the same row wherever it is found.
OneRow(rows) == \A m, r \in rows : m.id = r.id /\ m.id \notin Undated => m = r

\* A fill may replace its suffix and leave the buckets before it alone because
\* a dated row never comes back with another time: its id is never new again,
\* and the source and message_index hold it at the same time.
DatedRowsStay ==
  /\ now \in Nat /\ cutoff \in Int
  /\ RowsOK(raw \union index)
  /\ OneRow(raw \union index)
  /\ IdsOf(raw \union index) \subseteq seen

RollupsInv == DatedRowsStay /\ DOMAIN sessions = SessionIds /\ RollupsAgree

Dated(rows) == {m \in rows : m.id \notin Undated}
DatedBuckets(buckets) == {h \in buckets : h.member.id \notin Undated}

\* Truncation keeps a time's order against a whole hour.
LEMMA TruncBounds ==
  ASSUME NEW x \in Int
  PROVE  Trunc(x) \in Int /\ Trunc(x) <= x
BY HourAssumption, SMTT(30) DEF Trunc

LEMMA TruncOrder ==
  ASSUME NEW x \in Int, NEW y \in Int
  PROVE  (Trunc(x) < Trunc(y)) <=> (x < Trunc(y))
<1> DEFINE a == x \div Hour
           b == y \div Hour
<1>1. a \in Int /\ b \in Int /\ a * Hour <= x /\ x < (a + 1) * Hour
  BY HourAssumption, SMTT(30)
<1> HIDE DEF a, b
<1>2. a < b => a + 1 <= b /\ (a + 1) * Hour <= b * Hour
  BY <1>1, HourAssumption, SMTT(30)
<1>3. ~(a < b) => b * Hour <= a * Hour
  BY <1>1, HourAssumption, SMTT(30)
<1>4. (a * Hour < b * Hour) <=> (x < b * Hour)
  BY <1>1, <1>2, <1>3, HourAssumption
<1> QED
  BY <1>4 DEF Trunc, a, b

\* What HourlyOf keeps of some rows is what it makes of those rows.
LEMMA HourlyOfDated ==
  ASSUME NEW rows
  PROVE  DatedBuckets(HourlyOf(rows)) = HourlyOf(Dated(rows))
BY DEF DatedBuckets, HourlyOf, Dated

\* Rows that are united keep what holds of each half, and fewer rows keep it too.
LEMMA FewerRows ==
  ASSUME NEW rows, NEW fewer \in SUBSET rows, RowsOK(rows), OneRow(rows)
  PROVE  RowsOK(fewer) /\ OneRow(fewer) /\ IdsOf(fewer) \subseteq IdsOf(rows)
BY DEF RowsOK, OneRow, IdsOf

LEMMA InitRollups == RollupsInit => RollupsInv
<1> SUFFICES ASSUME RollupsInit PROVE RollupsInv
  OBVIOUS
<1>1. now \in Nat /\ cutoff \in Int /\ index \subseteq raw
  BY HourAssumption, SafetyDelayAssumption DEF RollupsInit
<1>2. PICK old \in SUBSET Ids, t \in [Ids -> 0..now] :
        raw = {Row(i, t[i]) : i \in old} /\ seen = old
  BY DEF RollupsInit
<1>3. \A m \in raw : m.id \in old /\ m = Row(m.id, t[m.id])
  BY <1>2 DEF Row
<1>4. RowsOK(raw) /\ OneRow(raw) /\ IdsOf(raw) \subseteq seen
  <2>1. \A m \in raw : m.t = t[m.id] /\ m.s = MessageSession[m.id]
    BY <1>3 DEF Row
  <2>2. \A m \in raw : m.t \in Nat
    BY <1>1, <1>2, <1>3, <2>1
  <2> QED
    BY <1>2, <1>3, <2>1, <2>2 DEF RowsOK, OneRow, IdsOf
<1>5. raw \union index = raw
  BY <1>1
<1>6. RollupsAgree
  <2>1. hourly = HourlyOf(index) /\ tools = ToolsOf(index)
        /\ sessions = [s \in SessionIds |-> MembersOf(index, s)]
    BY DEF RollupsInit, Agreed
  <2>2. HourlyAgrees
    BY <2>1, HourlyOfDated DEF HourlyAgrees, DatedBuckets, Dated
  <2> QED
    BY <2>1, <2>2 DEF RollupsAgree, SessionsAgree, ToolsAgree
<1>7. DOMAIN sessions = SessionIds
  BY DEF RollupsInit, Agreed
<1> QED
  BY <1>1, <1>4, <1>5, <1>6, <1>7 DEF RollupsInv, DatedRowsStay

\* What the source does leaves the tables alone.
LEMMA SourceMoves ==
  ASSUME RollupsInv, UNCHANGED tables, DatedRowsStay'
  PROVE  RollupsInv'
BY DEF RollupsInv, RollupsAgree, HourlyAgrees, SessionsAgree, ToolsAgree, tables

LEMMA ArriveStays ==
  ASSUME DatedRowsStay, NEW i \in Ids, NEW t \in 0..MaxNow, Arrive(i, t)
  PROVE  DatedRowsStay'
<1> DEFINE r == Row(i, t)
           rows == raw \union index
<1>1. i \notin seen /\ seen' = seen \union {i} /\ raw' = raw \union {r}
      /\ UNCHANGED <<now, cutoff, index>>
  BY DEF Arrive, tables
<1>2. r.id = i /\ r.t \in Nat /\ r.s = MessageSession[r.id]
  BY DEF Row
<1>3. (raw \union index)' = rows \union {r}
  BY <1>1
<1>4. \A m \in rows : m.id \in seen
  BY DEF DatedRowsStay, IdsOf
<1> HIDE DEF r, rows
<1>5. RowsOK(rows \union {r})
  BY <1>2 DEF RowsOK, DatedRowsStay, rows
<1>6. OneRow(rows \union {r})
  BY <1>1, <1>2, <1>4 DEF OneRow, DatedRowsStay, rows
<1>7. IdsOf(rows \union {r}) \subseteq seen'
  BY <1>1, <1>2, <1>4 DEF IdsOf
<1> QED
  BY <1>1, <1>3, <1>5, <1>6, <1>7 DEF DatedRowsStay

LEMMA RestampStays ==
  ASSUME DatedRowsStay, NEW r \in raw, Restamp(r)
  PROVE  DatedRowsStay'
<1> DEFINE q == Row(r.id, now)
           rows == raw \union index
<1>1. r.id \in Undated /\ raw' = (raw \ {r}) \union {q}
      /\ UNCHANGED <<now, seen, cutoff, index>>
  BY DEF Restamp, tables
<1>2. q.id = r.id /\ q.t \in Nat /\ q.s = MessageSession[q.id]
  BY DEF Row, DatedRowsStay
<1>3. (raw \union index)' \subseteq rows \union {q}
  BY <1>1
<1> HIDE DEF q
<1>4. RowsOK(rows \union {q})
  BY <1>2 DEF RowsOK, DatedRowsStay
<1>5. OneRow(rows \union {q})
  BY <1>1, <1>2 DEF OneRow, DatedRowsStay
<1>6. IdsOf(rows \union {q}) \subseteq seen
  BY <1>2 DEF IdsOf, DatedRowsStay
<1>7. /\ RowsOK((raw \union index)') /\ OneRow((raw \union index)')
      /\ IdsOf((raw \union index)') \subseteq seen
  BY <1>3, <1>4, <1>5, <1>6, FewerRows
<1> QED
  BY <1>1, <1>7 DEF DatedRowsStay

\* A full replacement recomputes every table from the rows it stores.
LEMMA ReplaceAgrees == RollupsInv /\ Replace => RollupsInv'
<1> SUFFICES ASSUME RollupsInv, Replace PROVE RollupsInv'
  OBVIOUS
<1> DEFINE to == DefaultSafeCutoff(now)
           rows == {r \in raw : InWindow(r, 0, to)}
<1>1. /\ cutoff' = to /\ index' = rows
      /\ hourly' = HourlyOf(rows)
      /\ sessions' = [s \in SessionIds |-> MembersOf(rows, s)]
      /\ tools' = ToolsOf(rows)
      /\ UNCHANGED <<now, raw, seen>>
  BY DEF Replace
<1>2. to \in Int
  BY TruncBounds, SafetyDelayAssumption DEF DefaultSafeCutoff, RollupsInv, DatedRowsStay
<1>3. rows \subseteq raw
  OBVIOUS
<1> HIDE DEF to, rows
<1>4. DatedRowsStay'
  <2>1. (raw \union index)' \subseteq raw \union index
    BY <1>1, <1>3
  <2> QED
    BY <1>1, <1>2, <2>1, FewerRows DEF RollupsInv, DatedRowsStay
<1>5. HourlyAgrees'
  BY <1>1, HourlyOfDated DEF HourlyAgrees, DatedBuckets, Dated
<1> QED
  BY <1>1, <1>4, <1>5 DEF RollupsInv, RollupsAgree, SessionsAgree, ToolsAgree

\* The sessions that prepareChangedSessions names are all whose rows change.
LEMMA RefreshedSessions ==
  ASSUME RollupsInv, NEW rows \in SUBSET raw, NEW since \in Int, NEW to \in Int,
         NEW s \in SessionIds,
         s \notin ChangedSessions(rows, Boundary(since, to))
  PROVE  MembersOf(FillIndex(index, rows, since, to), s) = MembersOf(index, s)
<1> DEFINE b == Boundary(since, to)
<1>1. \A m \in raw \union index : m.t \in Int /\ m.s = MessageSession[m.id]
  BY DEF RollupsInv, DatedRowsStay, RowsOK
<1>2. \A r \in rows : r.s # s
  BY DEF ChangedSessions
<1>3. b \in Int
  BY DEF Boundary, EarlierOf
<1>4. \A m \in index : m.s = s => m.t < b
  BY <1>1, <1>3 DEF ChangedSessions
<1>5. \A m \in index : m.s = s => m.id \notin IdsOf(rows)
  BY <1>1, <1>2 DEF IdsOf
<1> QED
  BY <1>2, <1>4, <1>5 DEF MembersOf, FillIndex, Upsert

\* A fill leaves the dated rows before the boundary's hour as they are.
LEMMA PrefixStays ==
  ASSUME RollupsInv, NEW since \in Int, NEW to \in Int,
         NEW rows \in SUBSET {r \in raw : InWindow(r, since, to)}
  PROVE  LET first == Trunc(Boundary(since, to))
             filled == FillIndex(index, rows, since, to)
         IN  {m \in Dated(filled) : m.t < first} = {m \in Dated(index) : m.t < first}
<1> DEFINE b == Boundary(since, to)
           first == Trunc(b)
           filled == FillIndex(index, rows, since, to)
<1>1. \A m \in raw \union index : m.t \in Int
  BY DEF RollupsInv, DatedRowsStay, RowsOK
<1>2. b \in Int /\ first \in Int /\ first <= b /\ b <= since
  BY TruncBounds DEF Boundary, EarlierOf
<1>3. \A r \in rows : ~(r.t < first)
  BY <1>1, <1>2 DEF InWindow
<1>4. \A m \in Dated(index) : m.t < first => m.id \notin IdsOf(rows)
  BY <1>3 DEF RollupsInv, DatedRowsStay, OneRow, Dated, IdsOf
<1>5. \A m \in index : m.t < first => m.t < b
  BY <1>1, <1>2
<1> HIDE DEF first, b
<1>6. \A m : m \in filled /\ m.t < first /\ m.id \notin Undated
          <=> m \in index /\ m.t < first /\ m.id \notin Undated
  BY <1>3, <1>4, <1>5 DEF Dated, FillIndex, Upsert, b
<1> QED
  BY <1>6 DEF Dated, first, b

\* The buckets that stay and those that are rebuilt are the buckets of all rows.
LEMMA BucketsJoin ==
  ASSUME NEW old, NEW new, NEW first \in Int, NEW edge \in Int, first = Trunc(edge),
         RowsOK(old), RowsOK(new),
         {m \in new : m.t < first} = {m \in old : m.t < first}
  PROVE  {h \in HourlyOf(old) : h.bucket < first} \union HourlyOf({m \in new : m.t >= first})
           = HourlyOf(new)
<1>1. \A m \in old \union new : m.t \in Int
  BY DEF RowsOK
<1>2. \A m \in old \union new : (Trunc(m.t) < first) <=> (m.t < first)
  BY <1>1, TruncOrder
<1>3. {h \in HourlyOf(old) : h.bucket < first} = HourlyOf({m \in old : m.t < first})
  BY <1>2 DEF HourlyOf
<1>4. HourlyOf(new) = HourlyOf({m \in new : m.t < first}) \union HourlyOf({m \in new : m.t >= first})
  BY <1>1 DEF HourlyOf
<1> QED
  BY <1>3, <1>4

\* A fill recomputes the suffix from its boundary on, and what it keeps of every
\* table was already right.
LEMMA FillAgrees == RollupsInv /\ Fill => RollupsInv'
<1> SUFFICES ASSUME RollupsInv, Fill PROVE RollupsInv'
  OBVIOUS
<1> DEFINE to == Trunc(LaterOf(cutoff, DefaultSafeCutoff(now)))
           rows == {r \in raw : InWindow(r, cutoff, to)}
           boundary == Boundary(cutoff, to)
           filled == FillIndex(index, rows, cutoff, to)
           first == Trunc(boundary)
<1>1. /\ cutoff' = to /\ index' = filled
      /\ tools' = FillTools(tools, rows, boundary)
      /\ sessions' = RefreshSessions(sessions, index', ChangedSessions(rows, boundary))
      /\ hourly' = RefreshHourly(hourly, index', boundary)
      /\ UNCHANGED <<now, raw, seen>>
  BY DEF Fill
<1>2. to \in Int /\ cutoff \in Int /\ boundary \in Int /\ first \in Int
  <2>1. cutoff \in Int /\ now - SafetyDelay \in Int
    BY SafetyDelayAssumption DEF RollupsInv, DatedRowsStay
  <2>2. DefaultSafeCutoff(now) \in Int
    BY <2>1, TruncBounds DEF DefaultSafeCutoff
  <2>3. LaterOf(cutoff, DefaultSafeCutoff(now)) \in Int
    BY <2>1, <2>2 DEF LaterOf
  <2>4. to \in Int
    BY <2>3, TruncBounds
  <2>5. boundary \in Int
    BY <2>1, <2>4 DEF Boundary, EarlierOf
  <2> QED
    BY <2>1, <2>4, <2>5, TruncBounds
<1>3. rows \subseteq raw /\ filled \subseteq raw \union index
  BY DEF FillIndex, Upsert
<1>4. DatedRowsStay'
  <2>1. (raw \union index)' \subseteq raw \union index
    BY <1>1, <1>3
  <2> QED
    BY <1>1, <1>2, <2>1, FewerRows DEF RollupsInv, DatedRowsStay
<1>5. SessionsAgree'
  <2> SUFFICES ASSUME NEW s \in SessionIds PROVE sessions'[s] = MembersOf(filled, s)
    BY <1>1 DEF SessionsAgree
  <2>1. s \in DOMAIN sessions /\ sessions[s] = MembersOf(index, s)
    BY DEF RollupsInv, RollupsAgree, SessionsAgree
  <2>2. s \notin ChangedSessions(rows, boundary) => MembersOf(filled, s) = MembersOf(index, s)
    BY <1>2, <1>3, RefreshedSessions
  <2> QED
    BY <1>1, <2>1, <2>2 DEF RefreshSessions
<1>6. ToolsAgree'
  <2>1. tools' = {x \in ToolsOf(index) : x.t < boundary /\ x.id \notin IdsOf(rows)}
                   \union ToolsOf(rows)
    BY <1>1 DEF FillTools, RollupsInv, RollupsAgree, ToolsAgree
  <2> QED
    BY <1>1, <2>1 DEF ToolsAgree, ToolsOf, FillIndex, Upsert
<1>7. HourlyAgrees'
  <2> HIDE DEF to, boundary, filled, first
  <2>1. DatedBuckets(hourly) = HourlyOf(Dated(index))
    BY DEF RollupsInv, RollupsAgree, HourlyAgrees, DatedBuckets, Dated
  <2>2. hourly' = {h \in hourly : h.bucket < first}
                    \union HourlyOf({m \in filled : m.t >= first})
    BY <1>1 DEF RefreshHourly, first
  <2>3. DatedBuckets(hourly') = {h \in DatedBuckets(hourly) : h.bucket < first}
          \union DatedBuckets(HourlyOf({m \in filled : m.t >= first}))
    BY <2>2 DEF DatedBuckets
  <2>4. DatedBuckets(HourlyOf({m \in filled : m.t >= first}))
          = HourlyOf({m \in Dated(filled) : m.t >= first})
    BY HourlyOfDated DEF Dated
  <2>5. {m \in Dated(filled) : m.t < first} = {m \in Dated(index) : m.t < first}
    BY <1>2, PrefixStays DEF filled, first, boundary
  <2>6. RowsOK(Dated(index)) /\ RowsOK(Dated(filled))
    BY <1>3 DEF RowsOK, Dated, RollupsInv, DatedRowsStay
  <2>7. DatedBuckets(hourly') = HourlyOf(Dated(filled))
    <3>1. first = Trunc(boundary)
      BY DEF first
    <3>2. {h \in HourlyOf(Dated(index)) : h.bucket < first}
            \union HourlyOf({m \in Dated(filled) : m.t >= first}) = HourlyOf(Dated(filled))
      BY <1>2, <2>5, <2>6, <3>1, BucketsJoin
    <3> QED
      BY <2>1, <2>3, <2>4, <3>2
  <2>8. HourlyAgrees' <=> DatedBuckets(hourly') = HourlyOf(Dated(index'))
    BY DEF HourlyAgrees, DatedBuckets, Dated
  <2> QED
    BY <1>1, <2>7, <2>8
<1>8. DOMAIN sessions' = SessionIds
  BY <1>1 DEF RefreshSessions, RollupsInv
<1> QED
  BY <1>4, <1>5, <1>6, <1>7, <1>8 DEF RollupsInv, RollupsAgree

LEMMA NextRollups == RollupsInv /\ [RollupsNext]_rollupVars => RollupsInv'
<1> SUFFICES ASSUME RollupsInv, [RollupsNext]_rollupVars PROVE RollupsInv'
  OBVIOUS
<1>0. DatedRowsStay
  BY DEF RollupsInv
<1>1. CASE Tick
  <2>1. DatedRowsStay'
    BY <1>0, <1>1 DEF Tick, tables, DatedRowsStay
  <2> QED
    BY <1>1, <2>1, SourceMoves DEF Tick
<1>2. ASSUME NEW i \in Ids, NEW t \in 0..MaxNow, Arrive(i, t) PROVE RollupsInv'
  BY <1>0, <1>2, ArriveStays, SourceMoves DEF Arrive
<1>3. ASSUME NEW r \in raw, Vanish(r) PROVE RollupsInv'
  <2>1. (raw \union index)' \subseteq raw \union index
    BY <1>3 DEF Vanish, tables
  <2>2. DatedRowsStay'
    BY <1>0, <1>3, <2>1, FewerRows DEF DatedRowsStay, Vanish, tables
  <2> QED
    BY <1>3, <2>2, SourceMoves DEF Vanish
<1>4. ASSUME NEW r \in raw, Restamp(r) PROVE RollupsInv'
  BY <1>0, <1>4, RestampStays, SourceMoves DEF Restamp
<1>5. CASE Replace
  BY <1>5, ReplaceAgrees
<1>6. CASE Fill
  BY <1>6, FillAgrees
<1>7. CASE UNCHANGED rollupVars
  <2>1. DatedRowsStay'
    BY <1>0, <1>7 DEF rollupVars, DatedRowsStay
  <2> QED
    BY <1>7, <2>1, SourceMoves DEF rollupVars, tables
<1> QED
  BY <1>1, <1>2, <1>3, <1>4, <1>5, <1>6, <1>7 DEF RollupsNext

\* After any sequence of full and suffix replacements, over rows that arrive late,
\* vanish or move, every hourly bucket, session row and tool row aggregates
\* exactly the cached rows: for every number of messages and every hour.
THEOREM RollupsStayTrue == RollupsSpec => []RollupsAgree
<1>1. RollupsInv => RollupsAgree
  BY DEF RollupsInv
<1> QED
  BY <1>1, InitRollups, NextRollups, PTL DEF RollupsSpec

=============================================================================
