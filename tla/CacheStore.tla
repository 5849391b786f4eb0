------------------------------ MODULE CacheStore ------------------------------
(***************************************************************************)
(* Consolidation of one source into the cache (internal/cache/store.go,    *)
(* merge_store.go, fingerprint.go): manual and periodic jobs, read-        *)
(* triggered background fills and reads, interleaved with raw data that    *)
(* keeps arriving, pricing changes, failures, restarts and upgrades.       *)
(*                                                                         *)
(* A job calls SyncSourceWithOptions with ReadTriggered false, a fill with *)
(* ReadTriggered true.  A sync holds the source lock from Acquire to       *)
(* Publish or Release and the store's write slot from Commit to Publish.   *)
(***************************************************************************)
EXTENDS CacheTables

CONSTANTS
  Ids,            \* message ids
  Jobs, Fills,    \* callers of SyncSourceWithOptions
  Readers,        \* requests served by a CachedSource
  NoOne,          \* the free lock, the free write slot
  OtherSource,    \* a sync of another source, seen only through the write slot
  MinNow, MaxNow, \* the clock starts at MinNow and stops at MaxNow
  Lag,            \* longest delay between a row's time and its appearance
  MaxPrice,       \* identities of the pricing catalog and data layout; 0 is none
  MaxVersion,     \* data versions of the program
  MaxFaults,      \* failures, restarts and clock steps in one behaviour
  ClockMayStep,   \* whether the wall clock may be set back
  PriceMayRevert  \* whether a pricing identity may come back (content hash)

ASSUME ActorsAssumption ==
  /\ Jobs \intersect Fills = {}
  /\ NoOne \notin Jobs \union Fills
  /\ OtherSource \notin Jobs \union Fills
  /\ NoOne # OtherSource
ASSUME ClockAssumption ==
  /\ MinNow \in Nat /\ MaxNow \in Nat /\ MinNow <= MaxNow
  /\ SafetyDelay + Hour <= MinNow
ASSUME LagAssumption == Lag \in Nat /\ Lag <= SafetyDelay
ASSUME BoundsAssumption ==
  /\ MaxPrice \in Nat /\ MaxVersion \in Nat /\ MaxFaults \in Nat
  /\ ClockMayStep \in BOOLEAN /\ PriceMayRevert \in BOOLEAN

Syncers == Jobs \union Fills
Time == Nat

Untagged == -1   \* a fingerprint without a pricing tag
Cleared == -2    \* the empty fingerprint written by resetOutdatedDataVersions
Fallback == -3   \* fallbackFingerprint: says nothing about the raw files

VARIABLES
  now,       \* wall clock
  raw,       \* rows visible in the source's own files
  files,     \* digest of those files: changes whenever they do
  price,     \* rebuild identity the live source reports
  available, \* whether the live source reports itself available
  version,   \* dataVersion of the running program
  state,     \* the source_state row
  index,     \* the message_index rows
  lock,      \* holder of the source lock
  slot,      \* holder of the store's write slot
  memo,      \* memoized cutoff, or NoMemo
  pc, job,   \* the syncers: control point and locals
  rpc, read, \* the readers: control point and locals
  faults

NoMemo == -1

vars == <<now, raw, files, price, available, version, state, index, lock, slot,
          memo, pc, job, rpc, read, faults>>

RawRow == [id : Ids, t : Time]
CachedRow == [id : Ids, t : Time, price : 0..MaxPrice, dv : 0..MaxVersion]
StateRow == [status : {"none", "ready", "error", "unavailable"},
             tag : {Untagged} \union 0..MaxPrice,
             data : Int,
             cutoff : Time]
JobRec == [mode : {"incremental", "rebuild"},
           want : Time,            \* opts.Cutoff
           tag : 0..MaxPrice, up : BOOLEAN,  \* from Info
           data : Int,             \* fingerprint of the raw files
           cur : StateRow,         \* current
           since : Time, cutoff : Time,
           rows : SUBSET CachedRow]
ReadRec == [fresh : BOOLEAN,        \* memoGen has not moved since the lookup
            cut : Time, need : SUBSET RawRow,
            got : SUBSET Ids, behind : BOOLEAN]  \* cutoff stored at ReadCache < cut

NoState == [status |-> "none", tag |-> Untagged, data |-> Cleared, cutoff |-> 0]
NoJob == [mode |-> "incremental", want |-> 0, tag |-> 0, up |-> FALSE,
          data |-> Cleared, cur |-> NoState, since |-> 0, cutoff |-> 0,
          rows |-> {}]
NoRead == [fresh |-> TRUE, cut |-> 0, need |-> {}, got |-> {}, behind |-> FALSE]

Writing == {"write", "verify", "unavailable", "failed"}

TypeOK ==
  /\ now \in MinNow..MaxNow
  /\ raw \in SUBSET RawRow
  /\ files \in Nat
  /\ price \in 0..MaxPrice
  /\ available \in BOOLEAN
  /\ version \in 0..MaxVersion
  /\ state \in StateRow
  /\ index \in SUBSET CachedRow
  /\ lock \in Syncers \union {NoOne}
  /\ slot \in Syncers \union {NoOne, OtherSource}
  /\ memo \in Time \union {NoMemo}
  /\ pc \in [Syncers -> {"idle", "begun", "probed", "locked", "collect",
                         "committed"} \union Writing]
  /\ job \in [Syncers -> JobRec]
  /\ rpc \in [Readers -> {"idle", "query", "seed", "cache", "live", "done"}]
  /\ read \in [Readers -> ReadRec]
  /\ faults \in 0..MaxFaults

Init ==
  /\ now = MinNow
  /\ \E old \in SUBSET Ids : raw = {[id |-> i, t |-> 0] : i \in old}
  /\ files = 0
  /\ price \in 0..MaxPrice
  /\ available = TRUE
  /\ version = 0
  /\ state = NoState
  /\ index = {}
  /\ lock = NoOne /\ slot = NoOne
  /\ memo = NoMemo
  /\ pc = [p \in Syncers |-> "idle"] /\ job = [p \in Syncers |-> NoJob]
  /\ rpc = [r \in Readers |-> "idle"] /\ read = [r \in Readers |-> NoRead]
  /\ faults = 0
-----------------------------------------------------------------------------
(* The environment: time, the tool that writes the raw files, the pricing  *)
(* catalog, other sources' writes.                                         *)

storeVars == <<state, index, lock, slot, memo>>
actorVars == <<pc, job, rpc, read>>

Tick ==
  /\ now < MaxNow
  /\ now' = now + 1
  /\ UNCHANGED <<raw, files, price, available, version, storeVars, actorVars, faults>>

\* The wall clock is set back.
StepBack ==
  /\ ClockMayStep /\ faults < MaxFaults /\ now > MinNow
  /\ now' \in MinNow..(now - 1)
  /\ faults' = faults + 1
  /\ UNCHANGED <<raw, files, price, available, version, storeVars, actorVars>>

\* A row becomes visible at most Lag after the time it carries.
Arrive(i, t) ==
  /\ i \notin IdsOf(raw)
  /\ t <= now /\ now <= t + Lag
  /\ raw' = raw \union {[id |-> i, t |-> t]}
  /\ files' = files + 1
  /\ UNCHANGED <<now, price, available, version, storeVars, actorVars, faults>>

\* A new pricing catalog, alias set or data layout.
ChangePricing(q) ==
  /\ q # price
  /\ ~PriceMayRevert => q > price
  /\ PriceMayRevert => faults < MaxFaults
  /\ price' = q
  /\ faults' = IF PriceMayRevert THEN faults + 1 ELSE faults
  /\ UNCHANGED <<now, raw, files, available, version, storeVars, actorVars>>

ChangeAvailability ==
  /\ available => faults < MaxFaults
  /\ faults' = IF available THEN faults + 1 ELSE faults
  /\ available' = ~available
  /\ UNCHANGED <<now, raw, files, price, version, storeVars, actorVars>>

OtherSourceWrites ==
  /\ slot = NoOne
  /\ slot' = OtherSource
  /\ UNCHANGED <<now, raw, files, price, available, version, state, index, lock,
                 memo, actorVars, faults>>

OtherSourceEnds ==
  /\ slot = OtherSource
  /\ slot' = NoOne
  /\ UNCHANGED <<now, raw, files, price, available, version, state, index, lock,
                 memo, actorVars, faults>>

envVars == <<now, raw, files, price, available, version>>

-----------------------------------------------------------------------------
(* SyncSourceWithOptions *)

PricingIdentityChanged(cachedTag, currentTag) ==
  IF cachedTag # Untagged THEN cachedTag # currentTag ELSE currentTag # 0

\* The caller fixes the cutoff (DefaultSafeCutoff) before anything else.
Begin(p, mode) ==
  /\ pc[p] = "idle"
  /\ p \in Fills => mode = "incremental"
  /\ pc' = [pc EXCEPT ![p] = "begun"]
  /\ job' = [job EXCEPT ![p] = [NoJob EXCEPT !.mode = mode,
                                             !.want = DefaultSafeCutoff(now)]]
  /\ UNCHANGED <<envVars, storeVars, rpc, read, faults>>

\* info := src.Info(ctx), before the lock is taken.
Probe(p) ==
  /\ pc[p] = "begun"
  /\ pc' = [pc EXCEPT ![p] = "probed"]
  /\ job' = [job EXCEPT ![p].tag = price, ![p].up = available]
  /\ UNCHANGED <<envVars, storeVars, rpc, read, faults>>

Acquire(p) ==
  /\ pc[p] = "probed" /\ lock = NoOne
  /\ lock' = p
  /\ pc' = [pc EXCEPT ![p] = "locked"]
  /\ UNCHANGED <<envVars, state, index, slot, memo, job, rpc, read, faults>>

\* TryLock failed: a fill gives up, a job keeps waiting.
Skip(p) ==
  /\ p \in Fills
  /\ pc[p] = "probed" /\ lock # NoOne
  /\ pc' = [pc EXCEPT ![p] = "idle"]
  /\ job' = [job EXCEPT ![p] = NoJob]
  /\ UNCHANGED <<envVars, storeVars, rpc, read, faults>>

\* Mutant: an early return that keeps the lock.
ReleaseLockLeaks(p) ==
  /\ pc' = [pc EXCEPT ![p] = "idle"]
  /\ job' = [job EXCEPT ![p] = NoJob]
  /\ UNCHANGED <<envVars, storeVars, rpc, read>>

\* A sync ends without writing: the deferred unlock.
ReleaseLock(p) ==
  /\ lock' = NoOne
  /\ pc' = [pc EXCEPT ![p] = "idle"]
  /\ job' = [job EXCEPT ![p] = NoJob]
  /\ UNCHANGED <<envVars, state, index, slot, memo, rpc, read>>

\* Mode, cutoff and first row to collect, decided from the state row.
PricingChanged(j) ==
  j.cur.status # "none" /\ PricingIdentityChanged(j.cur.tag, j.tag)

\* Mutant: a pricing change is collected incrementally.
EffectiveModeUnpromoted(j) == j.mode

EffectiveMode(j) == IF PricingChanged(j) THEN "rebuild" ELSE j.mode

\* Mutant: the requested cutoff is taken as it is.
EffectiveCutoffRequested(j) == Trunc(j.want)

EffectiveCutoff(j) ==
  IF EffectiveMode(j) = "rebuild" THEN Trunc(j.want)
  ELSE Trunc(LaterOf(j.cur.cutoff, j.want))

\* Mutant: an hour of overlap subtracted without a floor.
EffectiveSinceOverlap(j) ==
  IF EffectiveMode(j) = "rebuild" THEN 0 ELSE j.cur.cutoff - Hour

EffectiveSince(j) == IF EffectiveMode(j) = "rebuild" THEN 0 ELSE j.cur.cutoff

\* Mutant: an unchanged fingerprint is enough.
NothingToCollectUnchanged(j) ==
  /\ EffectiveMode(j) = "incremental"
  /\ j.cur.status = "ready"
  /\ j.data # Fallback
  /\ j.cur.data = j.data /\ j.cur.tag = j.tag
  /\ j.cur.cutoff > 0

\* Nothing to collect: same files, ready, and the cutoff does not move past
\* what has been consolidated.
NothingToCollect(j) ==
  /\ EffectiveMode(j) = "incremental"
  /\ j.cur.status = "ready"
  /\ j.data # Fallback
  /\ j.cur.data = j.data /\ j.cur.tag = j.tag
  /\ j.cur.cutoff > 0
  /\ EffectiveCutoff(j) <= j.cur.cutoff

Planned(j) == [j EXCEPT !.mode = EffectiveMode(j),
                        !.since = EffectiveSince(j),
                        !.cutoff = EffectiveCutoff(j)]

\* Fingerprint the raw files and read the state row, under the lock.
Inspected(p, data) == [job[p] EXCEPT !.data = data, !.cur = state]

Inspect(p, data) ==
  /\ pc[p] = "locked" /\ job[p].up
  /\ data \in {files, Fallback}
  /\ LET j == Inspected(p, data)
     IN  /\ job' = [job EXCEPT ![p] = Planned(j)]
         /\ pc' = [pc EXCEPT ![p] = IF NothingToCollect(j) THEN "verify"
                                                           ELSE "collect"]
  /\ UNCHANGED <<envVars, storeVars, rpc, read, faults>>

\* An unavailable source: a job records it, a fill only reports an error.
InspectUnavailable(p, data) ==
  /\ p \in Jobs
  /\ pc[p] = "locked" /\ ~job[p].up
  /\ data \in {files, Fallback}
  /\ job' = [job EXCEPT ![p] = Inspected(p, data)]
  /\ pc' = [pc EXCEPT ![p] = "unavailable"]
  /\ UNCHANGED <<envVars, storeVars, rpc, read, faults>>

GiveUpUnavailable(p) ==
  /\ p \in Fills
  /\ pc[p] = "locked" /\ ~job[p].up
  /\ ReleaseLock(p)
  /\ UNCHANGED faults

\* One stable snapshot of the source, costed with the pricing it has now.
Collect(p) ==
  /\ pc[p] = "collect"
  /\ job' = [job EXCEPT ![p].rows = Collected(raw, job[p].since, job[p].cutoff,
                                              price, version)]
  /\ pc' = [pc EXCEPT ![p] = "write"]
  /\ UNCHANGED <<envVars, storeVars, rpc, read, faults>>

CollectFails(p) ==
  /\ pc[p] = "collect" /\ faults < MaxFaults
  /\ faults' = faults + 1
  /\ \/ /\ p \in Jobs
        /\ pc' = [pc EXCEPT ![p] = "failed"]
        /\ UNCHANGED <<envVars, storeVars, job, rpc, read>>
     \/ p \in Fills /\ ReleaseLock(p)

\* What each kind of write leaves in source_state.
StateAfter(p) ==
  LET j == job[p]
      stamp == [status |-> "ready", tag |-> j.tag, data |-> j.data,
                cutoff |-> j.cutoff]
      keptFingerprint == j.cur.status # "none"
  IN  CASE pc[p] \in {"write", "verify"} -> stamp
        [] pc[p] = "unavailable" ->
             IF keptFingerprint THEN [j.cur EXCEPT !.status = "unavailable"]
             ELSE [stamp EXCEPT !.status = "unavailable", !.cutoff = 0]
        [] pc[p] = "failed" ->
             IF PricingChanged(j) THEN [j.cur EXCEPT !.status = "error"]
             ELSE [stamp EXCEPT !.status = "error", !.cutoff = j.cur.cutoff]

\* Mutant: an unavailable source loses its cached rows.
IndexAfterWiped(p) ==
  LET j == job[p]
  IN  IF pc[p] = "unavailable" THEN {}
      ELSE IF pc[p] # "write" THEN index
      ELSE IF j.mode = "rebuild" THEN j.rows
      ELSE FillIndex(index, j.rows, j.since, j.cutoff)

IndexAfter(p) ==
  LET j == job[p]
  IN  IF pc[p] # "write" THEN index
      ELSE IF j.mode = "rebuild" THEN j.rows
      ELSE FillIndex(index, j.rows, j.since, j.cutoff)

\* beginWrite and the transaction, up to its commit.
Commit(p) ==
  /\ pc[p] \in Writing
  /\ slot = NoOne
  /\ slot' = p
  /\ state' = StateAfter(p)
  /\ index' = IndexAfter(p)
  /\ pc' = [pc EXCEPT ![p] = "committed"]
  /\ UNCHANGED <<envVars, lock, memo, job, rpc, read, faults>>

\* invalidateStateMemo, endWrite, the deferred unlock.
Publish(p) ==
  /\ pc[p] = "committed"
  /\ memo' = NoMemo
  /\ slot' = NoOne
  /\ lock' = NoOne
  /\ pc' = [pc EXCEPT ![p] = "idle"]
  /\ job' = [job EXCEPT ![p] = NoJob]
  /\ read' = [r \in Readers |-> [read[r] EXCEPT !.fresh = FALSE]]
  /\ UNCHANGED <<envVars, state, index, rpc, faults>>

\* Cancelled while queued for the slot, or the transaction rolled back.
WriteFails(p) ==
  /\ pc[p] \in Writing /\ faults < MaxFaults
  /\ faults' = faults + 1
  /\ ReleaseLock(p)

-----------------------------------------------------------------------------
(* Reads: sourceMemo, the cache half, the live half.                       *)

ReadBegin(r) ==
  /\ rpc[r] = "idle"
  /\ IF memo # NoMemo
     THEN /\ rpc' = [rpc EXCEPT ![r] = "cache"]
          /\ read' = [read EXCEPT ![r] = [NoRead EXCEPT !.cut = memo, !.need = raw]]
     ELSE /\ rpc' = [rpc EXCEPT ![r] = "query"]
          /\ read' = [read EXCEPT ![r] = [NoRead EXCEPT !.need = raw]]
  /\ UNCHANGED <<envVars, storeVars, pc, job, faults>>

ReadQuery(r) ==
  /\ rpc[r] = "query"
  /\ rpc' = [rpc EXCEPT ![r] = "seed"]
  /\ read' = [read EXCEPT ![r].cut = state.cutoff]
  /\ UNCHANGED <<envVars, storeVars, pc, job, faults>>

\* Mutant: the memo is seeded without looking at the generation.
ReadSeedUnchecked(r) ==
  /\ rpc[r] = "seed"
  /\ memo' = read[r].cut
  /\ rpc' = [rpc EXCEPT ![r] = "cache"]
  /\ UNCHANGED <<envVars, state, index, lock, slot, pc, job, read, faults>>

ReadSeed(r) ==
  /\ rpc[r] = "seed"
  /\ memo' = IF read[r].fresh THEN read[r].cut ELSE memo
  /\ rpc' = [rpc EXCEPT ![r] = "cache"]
  /\ UNCHANGED <<envVars, state, index, lock, slot, pc, job, read, faults>>

\* A zero cutoff means the cache serves nothing.
ReadCache(r) ==
  /\ rpc[r] = "cache"
  /\ rpc' = [rpc EXCEPT ![r] = "live"]
  /\ read' = [read EXCEPT ![r].got = IdsOf({m \in index : m.t < read[r].cut}),
                          ![r].behind = state.cutoff < read[r].cut]
  /\ UNCHANGED <<envVars, storeVars, pc, job, faults>>

ReadLive(r) ==
  /\ rpc[r] = "live"
  /\ rpc' = [rpc EXCEPT ![r] = "done"]
  /\ read' = [read EXCEPT ![r].got = @ \union IdsOf({x \in raw : read[r].cut <= x.t})]
  /\ UNCHANGED <<envVars, storeVars, pc, job, faults>>

ReadEnd(r) ==
  /\ rpc[r] = "done"
  /\ rpc' = [rpc EXCEPT ![r] = "idle"]
  /\ read' = [read EXCEPT ![r] = NoRead]
  /\ UNCHANGED <<envVars, storeVars, pc, job, faults>>

-----------------------------------------------------------------------------
(* The process stops at any point and is started again: Open.              *)

\* Mutant: only the fingerprint is cleared.
ResetOutdatedKeepsCutoff(s) ==
  IF s.status = "none" THEN s ELSE [s EXCEPT !.tag = Untagged, !.data = Cleared]

\* resetOutdatedDataVersions: the status and the rows stay.
ResetOutdated(s) ==
  IF s.status = "none" THEN s
  ELSE [s EXCEPT !.tag = Untagged, !.data = Cleared, !.cutoff = 0]

Forget ==
  /\ lock' = NoOne /\ slot' = NoOne
  /\ memo' = NoMemo
  /\ pc' = [p \in Syncers |-> "idle"] /\ job' = [p \in Syncers |-> NoJob]
  /\ rpc' = [r \in Readers |-> "idle"] /\ read' = [r \in Readers |-> NoRead]
  /\ faults < MaxFaults /\ faults' = faults + 1
  /\ UNCHANGED <<now, raw, files, price, available>>

Restart == Forget /\ UNCHANGED <<state, index, version>>

\* A program with a newer dataVersion.
UpgradeData ==
  /\ version < MaxVersion
  /\ Forget
  /\ version' = version + 1
  /\ state' = ResetOutdated(state)
  /\ UNCHANGED index

\* A program with another schemaVersion removes and recreates the database.
UpgradeSchema ==
  /\ state.status # "none"
  /\ Forget
  /\ state' = NoState
  /\ index' = {}
  /\ UNCHANGED version

-----------------------------------------------------------------------------
Sync(p) ==
  \/ \E mode \in {"incremental", "rebuild"} : Begin(p, mode)
  \/ Probe(p) \/ Acquire(p) \/ Skip(p)
  \/ \E data \in {files, Fallback} : Inspect(p, data) \/ InspectUnavailable(p, data)
  \/ GiveUpUnavailable(p)
  \/ Collect(p) \/ CollectFails(p)
  \/ Commit(p) \/ Publish(p) \/ WriteFails(p)

Read(r) ==
  \/ ReadBegin(r) \/ ReadQuery(r) \/ ReadSeed(r)
  \/ ReadCache(r) \/ ReadLive(r) \/ ReadEnd(r)

Env ==
  \/ Tick \/ StepBack \/ ChangeAvailability
  \/ \E i \in Ids, t \in 0..MaxNow : Arrive(i, t)
  \/ \E q \in 0..MaxPrice : ChangePricing(q)
  \/ OtherSourceWrites \/ OtherSourceEnds
  \/ Restart \/ UpgradeData \/ UpgradeSchema

Next ==
  \/ \E p \in Syncers : Sync(p)
  \/ \E r \in Readers : Read(r)
  \/ Env

Spec == Init /\ [][Next]_vars

\* The periodic loop keeps starting syncs, goroutines run, sync.Mutex does not
\* starve a waiter, the write slot is passed on, sources come back.
Fairness ==
  /\ WF_vars(Tick)
  /\ WF_vars(~available /\ ChangeAvailability)
  /\ WF_vars(OtherSourceEnds)
  /\ \A p \in Jobs : WF_vars(Begin(p, "incremental"))
  /\ \A p \in Syncers :
       /\ WF_vars(Probe(p)) /\ SF_vars(Acquire(p))
       /\ WF_vars(\E data \in {files, Fallback} :
                    Inspect(p, data) \/ InspectUnavailable(p, data))
       /\ WF_vars(GiveUpUnavailable(p))
       /\ WF_vars(Collect(p)) /\ SF_vars(Commit(p)) /\ WF_vars(Publish(p))

FairSpec == Spec /\ Fairness

-----------------------------------------------------------------------------
(* What consolidation promises.                                            *)

\* Every cached row is strictly older than the finality boundary the store
\* advertises (LastSafeCutoff), so the cache half and the live half of a read
\* never show the same hour twice.
RowsBeforeCutoff == state.cutoff > 0 => \A m \in index : m.t < state.cutoff

\* No row is lost behind the boundary: whatever the source holds before the
\* cutoff is cached, as normalised by the running program.  Nothing is read
\* live there, so a missing row would be hidden from every view.
NothingHidden ==
  state.cutoff > 0 =>
    \A r \in raw : r.t < state.cutoff =>
      \E m \in index : m.id = r.id /\ m.dv = version

\* Rows costed with a pricing the source no longer reports never go unnoticed:
\* the stored pricing tag then differs from the live one, and that is what
\* NeedsSync and the next sync act on.
StalePricingIsDetected ==
  (\E m \in index : m.price # price) => PricingIdentityChanged(state.tag, price)

\* The memoized watermark is the stored one, except between a commit and the
\* invalidation that follows it.
MemoIsCurrent ==
  (memo # NoMemo /\ ~\E p \in Syncers : pc[p] = "committed")
    => memo = state.cutoff

\* A finished read shows every row that was in the source when it began, whatever
\* was consolidated meanwhile, unless a rebuild had moved the stored cutoff back
\* behind the one the read was split at.
ReadsComplete ==
  \A r \in Readers :
    rpc[r] = "done" /\ ~read[r].behind => IdsOf(read[r].need) \subseteq read[r].got

\* An incremental sync never moves the cutoff back, even if the clock is.
IncrementalNeverRegresses ==
  [][\A p \in Syncers :
       Commit(p) /\ (job[p].mode = "incremental" \/ pc[p] # "write")
         => state'.cutoff >= state.cutoff]_vars

\* Every row that can become final does, and stays cached: failures do not
\* leave a lock behind, a retry collects what a failed sync missed.
EverythingIsFinalized ==
  <>[](\A r \in raw : r.t < DefaultSafeCutoff(MaxNow) =>
         r.t < state.cutoff /\ r.id \in IdsOf(index))

\* A sync that did not collect leaves the cached rows alone: unavailability,
\* failure and verification never delete.
OnlyCollectedDataIsWritten ==
  [][index' # index =>
       \/ \E p \in Syncers : pc[p] = "write" /\ pc'[p] = "committed"
       \/ state' = NoState]_vars
==============================================================================
