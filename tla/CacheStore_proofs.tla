--------------------------- MODULE CacheStore_proofs ---------------------------
(***************************************************************************)
(* Proofs about consolidation, for every set of ids and callers, every     *)
(* clock range and every number of faults.                                 *)
(***************************************************************************)
EXTENDS CacheStore, TLAPS

---------------------------------------------------------------------------
(* Hours: what truncation to the clock hour guarantees.                    *)

\* An hour boundary.
Aligned(c) == Trunc(c) = c

LEMMA DivLemma ==
  \A t \in Nat : /\ t \div Hour \in Nat
                 /\ Hour * (t \div Hour) <= t
                 /\ t < Hour * (t \div Hour) + Hour
BY HourAssumption

LEMMA DivOfMultiple == \A k \in Nat : (k * Hour) \div Hour = k
<1> SUFFICES ASSUME NEW k \in Nat PROVE (k * Hour) \div Hour = k
  OBVIOUS
<1> DEFINE q == (k * Hour) \div Hour
<1>1. k * Hour \in Nat
  BY HourAssumption
<1>2. q \in Nat /\ Hour * q <= k * Hour /\ k * Hour < Hour * q + Hour
  BY <1>1, DivLemma
<1> HIDE DEF q
<1>3. q <= k
  BY <1>2, HourAssumption
<1>4. k < q + 1
  BY <1>2, HourAssumption
<1> QED
  BY <1>2, <1>3, <1>4 DEF q

LEMMA TruncIsNat == \A t \in Nat : Trunc(t) \in Nat /\ Trunc(t) <= t
<1> SUFFICES ASSUME NEW t \in Nat PROVE Trunc(t) \in Nat /\ Trunc(t) <= t
  OBVIOUS
<1>1. t \div Hour \in Nat /\ Hour * (t \div Hour) <= t
  BY DivLemma
<1> QED
  BY <1>1, HourAssumption DEF Trunc

LEMMA TruncIsAligned == \A t \in Nat : Aligned(Trunc(t))
BY DivLemma, DivOfMultiple DEF Trunc, Aligned

LEMMA TruncMonotone == \A s, t \in Nat : s <= t => Trunc(s) <= Trunc(t)
<1> SUFFICES ASSUME NEW s \in Nat, NEW t \in Nat, s <= t PROVE Trunc(s) <= Trunc(t)
  OBVIOUS
<1>1. s \div Hour <= t \div Hour
  BY DivLemma, HourAssumption
<1> QED
  BY <1>1, DivLemma, HourAssumption DEF Trunc

\* An aligned boundary is not rounded below itself.
LEMMA TruncOfAligned == \A c, t \in Nat : Aligned(c) /\ c <= t => c <= Trunc(t)
BY TruncMonotone DEF Aligned

---------------------------------------------------------------------------
(* Types                                                                   *)

LEMMA EmptyRecords ==
  NoState \in StateRow /\ NoJob \in JobRec /\ NoRead \in ReadRec
BY BoundsAssumption
   DEF NoState, NoJob, NoRead, StateRow, JobRec, ReadRec, Time, Untagged, Cleared

LEMMA CutoffType ==
  ASSUME NEW t \in Nat, MinNow <= t
  PROVE  /\ DefaultSafeCutoff(t) \in Nat
         /\ DefaultSafeCutoff(t) + SafetyDelay <= t
         /\ Aligned(DefaultSafeCutoff(t))
<1>1. t - SafetyDelay \in Nat
  BY ClockAssumption, SafetyDelayAssumption, HourAssumption
<1> QED
  BY <1>1, TruncIsNat, TruncIsAligned, SafetyDelayAssumption DEF DefaultSafeCutoff

\* What a collection returns: a cached row for each raw row of the window.
LEMMA CollectedFacts ==
  ASSUME TypeOK, NEW since \in Nat, NEW cutoff \in Nat
  PROVE  LET rows == Collected(raw, since, cutoff, price, version)
         IN  /\ rows \in SUBSET CachedRow
             /\ \A m \in rows : /\ since <= m.t /\ m.t < cutoff
                                /\ m.price = price /\ m.dv = version
             /\ \A r \in raw : since <= r.t /\ r.t < cutoff =>
                  \E m \in rows : m.id = r.id
<1> DEFINE rows == Collected(raw, since, cutoff, price, version)
<1>1. \A r \in raw : r.id \in Ids /\ r.t \in Nat
  BY DEF TypeOK, RawRow, Time
<1>2. \A m \in rows : \E r \in raw :
         /\ m = [id |-> r.id, t |-> r.t, price |-> price, dv |-> version]
         /\ since <= r.t /\ r.t < cutoff
  BY DEF Collected, InWindow
<1>3. rows \in SUBSET CachedRow
  BY <1>1, <1>2 DEF TypeOK, CachedRow, Time
<1>4. \A m \in rows : since <= m.t /\ m.t < cutoff /\ m.price = price /\ m.dv = version
  BY <1>2
<1>5. ASSUME NEW r \in raw, since <= r.t, r.t < cutoff
      PROVE  \E m \in rows : m.id = r.id
  <2>1. [id |-> r.id, t |-> r.t, price |-> price, dv |-> version] \in rows
    BY <1>5 DEF Collected, InWindow
  <2> QED
    BY <2>1
<1> QED
  BY <1>3, <1>4, <1>5

\* What a fill leaves in the index: the rows before the boundary whose id does
\* not come again, and the incoming rows.
LEMMA FillIndexFacts ==
  ASSUME NEW rows, NEW since, NEW cutoff
  PROVE  FillIndex(index, rows, since, cutoff) =
           {m \in index : m.t < Boundary(since, cutoff) /\ m.id \notin IdsOf(rows)}
             \union rows
BY DEF FillIndex, Upsert

LEMMA PlannedType ==
  ASSUME NEW j \in JobRec
  PROVE  /\ Planned(j) \in JobRec
         /\ EffectiveMode(j) \in {"incremental", "rebuild"}
         /\ EffectiveCutoff(j) \in Nat /\ EffectiveSince(j) \in Nat
<1>1. EffectiveMode(j) \in {"incremental", "rebuild"}
  BY DEF EffectiveMode, JobRec
<1>2. LaterOf(j.cur.cutoff, j.want) \in Nat /\ j.want \in Nat
  BY DEF LaterOf, JobRec, StateRow, Time
<1>3. EffectiveCutoff(j) \in Nat
  BY <1>2, TruncIsNat DEF EffectiveCutoff
<1>4. EffectiveSince(j) \in Nat
  BY DEF EffectiveSince, JobRec, StateRow, Time
<1>5. Planned(j) \in JobRec
  BY <1>1, <1>3, <1>4 DEF Planned, JobRec, Time
<1> QED
  BY <1>1, <1>3, <1>4, <1>5

LEMMA InspectedType ==
  ASSUME TypeOK, NEW p \in Syncers, NEW data \in {files, Fallback}
  PROVE  Inspected(p, data) \in JobRec
<1>1. job[p] \in JobRec /\ data \in Int /\ state \in StateRow
  BY DEF TypeOK, Fallback
<1> QED
  BY <1>1 DEF Inspected, JobRec

LEMMA StateAfterType ==
  ASSUME TypeOK, NEW p \in Syncers, pc[p] \in Writing
  PROVE  StateAfter(p) \in StateRow
<1> DEFINE j == job[p]
           stamp == [status |-> "ready", tag |-> j.tag, data |-> j.data,
                     cutoff |-> j.cutoff]
<1>1. j \in JobRec
  BY DEF TypeOK
<1>2. stamp \in StateRow /\ j.cur \in StateRow
  BY <1>1 DEF StateRow, JobRec
<1>3. CASE pc[p] \in {"write", "verify"}
  BY <1>2, <1>3 DEF StateAfter
<1>4. CASE pc[p] = "unavailable"
  BY <1>2, <1>4 DEF StateAfter, StateRow, Time
<1>5. CASE pc[p] = "failed"
  BY <1>2, <1>5 DEF StateAfter, StateRow, Time
<1> QED
  BY <1>3, <1>4, <1>5 DEF Writing

LEMMA IndexAfterType ==
  ASSUME TypeOK, NEW p \in Syncers
  PROVE  IndexAfter(p) \in SUBSET CachedRow
BY FillIndexFacts DEF TypeOK, IndexAfter, JobRec

\* Type correctness of every reachable state.
THEOREM TypeCorrect == Spec => []TypeOK
<1> USE BoundsAssumption, ClockAssumption
<1>1. Init => TypeOK
  BY EmptyRecords DEF Init, TypeOK, RawRow, Time, NoMemo, Writing
<1>2. ASSUME TypeOK, [Next]_vars PROVE TypeOK'
  <2> USE <1>2 DEF storeVars, actorVars, envVars
  <2>1. CASE UNCHANGED vars
    BY <2>1 DEF vars, TypeOK
  <2>2. CASE Tick
    BY <2>2 DEF Tick, TypeOK
  <2>3. CASE StepBack
    BY <2>3 DEF StepBack, TypeOK
  <2>4. ASSUME NEW i \in Ids, NEW t \in 0..MaxNow, Arrive(i, t) PROVE TypeOK'
    BY <2>4 DEF Arrive, TypeOK, RawRow, Time
  <2>5. ASSUME NEW q \in 0..MaxPrice, ChangePricing(q) PROVE TypeOK'
    BY <2>5 DEF ChangePricing, TypeOK
  <2>6. CASE ChangeAvailability
    BY <2>6 DEF ChangeAvailability, TypeOK
  <2>7. CASE OtherSourceWrites \/ OtherSourceEnds
    BY <2>7 DEF OtherSourceWrites, OtherSourceEnds, TypeOK
  <2>8. CASE Restart \/ UpgradeData \/ UpgradeSchema
    <3>1. ResetOutdated(state) \in StateRow
      <4>1. state \in StateRow
        BY DEF TypeOK
      <4>2. ResetOutdated(state) \in StateRow
        <5>1. Cleared \in Int /\ 0 \in Time
          BY DEF Cleared, Time
        <5>2. [state EXCEPT !.tag = Untagged, !.data = Cleared, !.cutoff = 0] \in StateRow
          BY <4>1, <5>1 DEF StateRow
        <5> QED
          BY <4>1, <5>2 DEF ResetOutdated
      <4> QED
        BY <4>2
    <3> QED
      BY <2>8, <3>1, EmptyRecords
         DEF Restart, UpgradeData, UpgradeSchema, Forget, TypeOK, NoMemo, Writing
  <2>9. ASSUME NEW r \in Readers, Read(r) PROVE TypeOK'
    <3>1. CASE ReadBegin(r)
      <4>1. [NoRead EXCEPT !.need = raw] \in ReadRec
        BY EmptyRecords DEF TypeOK, ReadRec
      <4>2. memo # NoMemo => [NoRead EXCEPT !.cut = memo, !.need = raw] \in ReadRec
        BY EmptyRecords DEF TypeOK, ReadRec
      <4> QED
        BY <3>1, <4>1, <4>2 DEF ReadBegin, TypeOK
    <3>2. CASE ReadQuery(r)
      BY <3>2, ZenonT(60) DEF ReadQuery, TypeOK, ReadRec, StateRow
    <3>3. CASE ReadSeed(r)
      BY <3>3 DEF ReadSeed, TypeOK, ReadRec
    <3>4. CASE ReadCache(r)
      <4> DEFINE got == IdsOf({m \in index : m.t < read[r].cut})
                 behind == state.cutoff < read[r].cut
      <4>1. got \in SUBSET Ids
        BY DEF TypeOK, IdsOf, CachedRow
      <4>2. state.cutoff \in Nat /\ read[r] \in ReadRec
        BY DEF TypeOK, StateRow, Time
      <4>3. behind \in BOOLEAN
        OBVIOUS
      <4> HIDE DEF got, behind
      <4>4. [read[r] EXCEPT !.got = got, !.behind = behind] \in ReadRec
        BY <4>1, <4>2, <4>3 DEF ReadRec
      <4>5. read' = [read EXCEPT ![r] = [read[r] EXCEPT !.got = got, !.behind = behind]]
        BY <3>4 DEF ReadCache, got, behind, TypeOK
      <4> QED
        BY <3>4, <4>4, <4>5 DEF ReadCache, TypeOK
    <3>5. CASE ReadLive(r)
      <4> DEFINE live == IdsOf({x \in raw : read[r].cut <= x.t})
      <4>1. live \in SUBSET Ids
        BY DEF TypeOK, IdsOf, RawRow
      <4> HIDE DEF live
      <4>2. [read[r] EXCEPT !.got = @ \union live] \in ReadRec
        BY <4>1 DEF TypeOK, ReadRec
      <4>3. read' = [read EXCEPT ![r] = [read[r] EXCEPT !.got = @ \union live]]
        BY <3>5 DEF ReadLive, live, TypeOK
      <4> QED
        BY <3>5, <4>2, <4>3 DEF ReadLive, TypeOK
    <3>6. CASE ReadEnd(r)
      BY <3>6, EmptyRecords DEF ReadEnd, TypeOK
    <3> QED
      BY <2>9, <3>1, <3>2, <3>3, <3>4, <3>5, <3>6 DEF Read
  <2>10. ASSUME NEW p \in Syncers, Sync(p) PROVE TypeOK'
    <3> USE DEF Writing
    <3>1. ASSUME NEW mode \in {"incremental", "rebuild"}, Begin(p, mode)
          PROVE  TypeOK'
      <4>1. DefaultSafeCutoff(now) \in Time
        BY CutoffType DEF TypeOK, Time
      <4>2. [NoJob EXCEPT !.mode = mode, !.want = DefaultSafeCutoff(now)] \in JobRec
        BY <4>1, EmptyRecords DEF JobRec
      <4> QED
        BY <3>1, <4>2 DEF Begin, TypeOK
    <3>2. CASE Probe(p)
      <4>1. [job[p] EXCEPT !.tag = price, !.up = available] \in JobRec
        BY ZenonT(60) DEF TypeOK, JobRec
      <4>2. job' = [job EXCEPT ![p] = [job[p] EXCEPT !.tag = price, !.up = available]]
        BY <3>2 DEF Probe, TypeOK
      <4> QED
        BY <3>2, <4>1, <4>2 DEF Probe, TypeOK
    <3>3. CASE Acquire(p)
      BY <3>3 DEF Acquire, TypeOK
    <3>4. CASE Skip(p)
      BY <3>4, EmptyRecords DEF Skip, TypeOK
    <3>5. ASSUME NEW data \in {files, Fallback}, Inspect(p, data)
          PROVE  TypeOK'
      BY <3>5, InspectedType, PlannedType DEF Inspect, TypeOK
    <3>6. ASSUME NEW data \in {files, Fallback}, InspectUnavailable(p, data)
          PROVE  TypeOK'
      BY <3>6, InspectedType DEF InspectUnavailable, TypeOK
    <3>7. CASE GiveUpUnavailable(p)
      BY <3>7, EmptyRecords DEF GiveUpUnavailable, ReleaseLock, TypeOK
    <3>8. CASE Collect(p)
      <4> DEFINE rows == Collected(raw, job[p].since, job[p].cutoff, price, version)
      <4>1. job[p] \in JobRec /\ job[p].since \in Nat /\ job[p].cutoff \in Nat
        BY DEF TypeOK, JobRec, Time
      <4>2. rows \in SUBSET CachedRow
        BY <4>1, CollectedFacts
      <4> HIDE DEF rows
      <4>3. [job[p] EXCEPT !.rows = rows] \in JobRec
        BY <4>1, <4>2 DEF JobRec
      <4>4. job' = [job EXCEPT ![p] = [job[p] EXCEPT !.rows = rows]]
        BY <3>8 DEF Collect, rows, TypeOK
      <4> QED
        BY <3>8, <4>3, <4>4 DEF Collect, TypeOK
    <3>9. CASE CollectFails(p)
      BY <3>9, EmptyRecords DEF CollectFails, ReleaseLock, TypeOK
    <3>10. CASE Commit(p)
      BY <3>10, StateAfterType, IndexAfterType DEF Commit, TypeOK
    <3>11. CASE Publish(p)
      BY <3>11, EmptyRecords DEF Publish, TypeOK, NoMemo, ReadRec
    <3>12. CASE WriteFails(p)
      BY <3>12, EmptyRecords DEF WriteFails, ReleaseLock, TypeOK
    <3> QED
      BY <2>10, <3>1, <3>2, <3>3, <3>4, <3>5, <3>6, <3>7, <3>8, <3>9, <3>10,
         <3>11, <3>12 DEF Sync
  <2> QED
    BY <2>1, <2>2, <2>3, <2>4, <2>5, <2>6, <2>7, <2>8, <2>9, <2>10 DEF Next, Env
<1> QED
  BY <1>1, <1>2, PTL DEF Spec

-----------------------------------------------------------------------------
(* What every write of the store keeps, with a clock that may be set back  *)
(* and pricing that may revert.                                            *)

Planning == {"collect"} \union Writing
Holding == {"locked", "committed"} \union Planning

\* A sync between Acquire and Publish holds the source lock.
LockInv == \A p \in Syncers : pc[p] \in Holding <=> lock = p

\* So the state row it read is still the stored one when it writes.
CurrentInv == \A p \in Syncers : pc[p] \in Planning => job[p].cur = state

\* What Planned leaves in the locals of a sync.
PlanInv ==
  \A p \in Syncers : pc[p] \in Planning \ {"unavailable"} =>
    /\ Aligned(job[p].cutoff)
    /\ job[p].mode = "rebuild" => job[p].since = 0
    /\ job[p].mode = "incremental" =>
         /\ ~PricingChanged(job[p])
         /\ job[p].since = state.cutoff
         /\ job[p].cutoff >= state.cutoff
    /\ pc[p] = "verify" => /\ job[p].mode = "incremental"
                           /\ job[p].cutoff = state.cutoff

RowsInv ==
  \A p \in Syncers : pc[p] = "write" =>
    \A m \in job[p].rows : job[p].since <= m.t /\ m.t < job[p].cutoff

StateInv ==
  /\ Aligned(state.cutoff)
  /\ state.status = "none" => index = {} /\ state.cutoff = 0

StoreInv ==
  /\ LockInv /\ CurrentInv /\ PlanInv /\ RowsInv
  /\ StateInv /\ RowsBeforeCutoff

LEMMA SyncersNotNoOne == NoOne \notin Syncers
BY ActorsAssumption DEF Syncers

LEMMA PlannedFacts ==
  ASSUME NEW j \in JobRec, Aligned(j.cur.cutoff)
  PROVE  LET k == Planned(j)
         IN  /\ k.cur = j.cur /\ k.tag = j.tag /\ k.want = j.want
             /\ Aligned(k.cutoff)
             /\ k.mode = "rebuild" => k.since = 0 /\ k.cutoff <= j.want
             /\ k.mode = "incremental" =>
                  /\ ~PricingChanged(k)
                  /\ k.since = j.cur.cutoff
                  /\ k.cutoff >= j.cur.cutoff
                  /\ k.cutoff <= LaterOf(j.cur.cutoff, j.want)
             /\ NothingToCollect(j) =>
                  k.mode = "incremental" /\ k.cutoff = j.cur.cutoff
<1> DEFINE k == Planned(j)
           later == LaterOf(j.cur.cutoff, j.want)
<1>1. /\ j.cur.cutoff \in Nat /\ j.want \in Nat /\ later \in Nat
      /\ j.cur.cutoff <= later
      /\ j.mode \in {"incremental", "rebuild"}
  BY DEF LaterOf, JobRec, StateRow, Time
<1>2. k = [j EXCEPT !.mode = EffectiveMode(j), !.since = EffectiveSince(j),
                    !.cutoff = EffectiveCutoff(j)]
  BY DEF Planned
<1>3. /\ k.cur = j.cur /\ k.tag = j.tag /\ k.want = j.want
      /\ k.mode = EffectiveMode(j) /\ k.since = EffectiveSince(j)
      /\ k.cutoff = EffectiveCutoff(j)
  BY <1>2 DEF JobRec
<1>4. PricingChanged(k) <=> PricingChanged(j)
  BY <1>3 DEF PricingChanged
<1>5. CASE EffectiveMode(j) = "rebuild"
  BY <1>1, <1>3, <1>5, TruncIsNat, TruncIsAligned
     DEF EffectiveCutoff, EffectiveSince, NothingToCollect
<1>6. CASE EffectiveMode(j) # "rebuild"
  <2>1. EffectiveMode(j) = "incremental" /\ ~PricingChanged(j)
    BY <1>1, <1>6 DEF EffectiveMode
  <2>2. k.cutoff = Trunc(later) /\ k.since = j.cur.cutoff
    BY <1>3, <1>6 DEF EffectiveCutoff, EffectiveSince
  <2>3. Aligned(k.cutoff) /\ k.cutoff <= later /\ k.cutoff >= j.cur.cutoff
    BY <1>1, <2>2, TruncIsNat, TruncIsAligned, TruncOfAligned
  <2>4. NothingToCollect(j) => k.cutoff = j.cur.cutoff
    BY <1>1, <1>3, <2>2, <2>3, TruncIsNat DEF NothingToCollect
  <2> QED
    BY <1>3, <1>4, <2>1, <2>2, <2>3, <2>4
<1> QED
  BY <1>5, <1>6

\* What a commit makes of the state row and the index.
LEMMA CommitEffect ==
  ASSUME TypeOK, StoreInv, NEW p \in Syncers, pc[p] \in Writing
  PROVE  /\ Aligned(StateAfter(p).cutoff)
         /\ StateAfter(p).status # "none"
         /\ pc[p] = "write" => StateAfter(p).cutoff = job[p].cutoff
         /\ pc[p] # "write" => /\ StateAfter(p).cutoff = state.cutoff
                               /\ IndexAfter(p) = index
         /\ job[p].mode = "incremental" => StateAfter(p).cutoff >= state.cutoff
         /\ StateAfter(p).cutoff > 0 =>
              \A m \in IndexAfter(p) : m.t < StateAfter(p).cutoff
<1> DEFINE j == job[p]
<1>1. j \in JobRec /\ j.cur = state /\ state \in StateRow
  BY DEF TypeOK, StoreInv, CurrentInv, Planning
<1>2. state.cutoff \in Nat /\ j.cutoff \in Nat /\ j.since \in Nat
      /\ j.mode \in {"incremental", "rebuild"}
  BY <1>1 DEF StateRow, JobRec, Time
<1>3. pc[p] # "write" => IndexAfter(p) = index
  BY DEF IndexAfter
<1>4. CASE pc[p] = "write"
  <2>1. StateAfter(p).cutoff = j.cutoff /\ StateAfter(p).status = "ready"
    BY <1>4 DEF StateAfter
  <2>2. Aligned(j.cutoff) /\ (j.mode = "incremental" => j.since = state.cutoff
                                                   /\ j.cutoff >= state.cutoff)
    BY <1>4 DEF StoreInv, PlanInv, Planning, Writing
  <2>3. \A m \in j.rows : m.t < j.cutoff
    BY <1>4 DEF StoreInv, RowsInv
  <2>4. ASSUME NEW m \in IndexAfter(p) PROVE m.t < j.cutoff
    <3>1. CASE j.mode = "rebuild"
      BY <1>4, <2>3, <3>1 DEF IndexAfter
    <3>2. CASE j.mode = "incremental"
      <4>1. IndexAfter(p) = FillIndex(index, j.rows, j.since, j.cutoff)
        BY <1>4, <3>2 DEF IndexAfter
      <4>2. m \in j.rows \/ (m \in index /\ m.t < Boundary(j.since, j.cutoff))
        BY <4>1, FillIndexFacts
      <4>3. Boundary(j.since, j.cutoff) = j.since
        BY <1>2, <2>2, <3>2 DEF Boundary, EarlierOf
      <4>4. m \in index => m.t \in Nat
        BY DEF TypeOK, CachedRow, Time
      <4> QED
        BY <1>2, <2>2, <2>3, <3>2, <4>2, <4>3, <4>4
    <3> QED
      BY <1>2, <3>1, <3>2
  <2> QED
    BY <1>4, <2>1, <2>2, <2>4
<1>5. CASE pc[p] = "verify"
  <2>1. StateAfter(p).cutoff = j.cutoff /\ StateAfter(p).status = "ready"
    BY <1>5 DEF StateAfter
  <2>2. j.cutoff = state.cutoff
    BY <1>5 DEF StoreInv, PlanInv, Planning, Writing
  <2> QED
    BY <1>2, <1>3, <1>5, <2>1, <2>2 DEF StoreInv, StateInv, RowsBeforeCutoff
<1>6. CASE pc[p] = "unavailable" \/ pc[p] = "failed"
  <2>1. StateAfter(p).cutoff = state.cutoff /\ StateAfter(p).status # "none"
    <3>1. state.status = "none" => state.cutoff = 0
      BY DEF StoreInv, StateInv
    <3>2. CASE pc[p] = "unavailable"
      BY <1>1, <3>1, <3>2 DEF StateAfter, StateRow
    <3>3. CASE pc[p] = "failed"
      BY <1>1, <3>3 DEF StateAfter, StateRow
    <3> QED
      BY <1>6, <3>2, <3>3
  <2> QED
    BY <1>2, <1>3, <1>6, <2>1 DEF StoreInv, StateInv, RowsBeforeCutoff
<1> QED
  BY <1>4, <1>5, <1>6 DEF Writing

\* The environment and the readers leave the syncs, the state row, the index
\* and the lock alone.
syncVars == <<state, index, lock, pc, job>>

LEMMA EnvKeepsSyncs ==
  ASSUME Next
  PROVE  \/ UNCHANGED syncVars
         \/ \E p \in Syncers : Sync(p)
         \/ Restart \/ UpgradeData \/ UpgradeSchema
<1>1. ASSUME NEW r \in Readers, Read(r) PROVE UNCHANGED syncVars
  BY <1>1 DEF Read, ReadBegin, ReadQuery, ReadSeed, ReadCache, ReadLive, ReadEnd,
              syncVars, storeVars
<1>2. ASSUME Env, ~(Restart \/ UpgradeData \/ UpgradeSchema)
      PROVE  UNCHANGED syncVars
  BY <1>2 DEF Env, Tick, StepBack, ChangeAvailability, Arrive, ChangePricing,
              OtherSourceWrites, OtherSourceEnds, syncVars, storeVars, actorVars
<1> QED
  BY <1>1, <1>2 DEF Next

\* A sync outside the critical section can only be before or past it.
LEMMA StoreInvInit == Init => StoreInv
BY SyncersNotNoOne, HourAssumption
   DEF Init, StoreInv, LockInv, CurrentInv, PlanInv, RowsInv, StateInv,
       RowsBeforeCutoff, NoState, Planning, Holding, Writing, Aligned, Trunc

LEMMA StoreInvForget ==
  ASSUME TypeOK, StoreInv, Restart \/ UpgradeData \/ UpgradeSchema
  PROVE  StoreInv'
<1>1. LockInv' /\ CurrentInv' /\ PlanInv' /\ RowsInv'
  BY SyncersNotNoOne
     DEF Restart, UpgradeData, UpgradeSchema, Forget, LockInv, CurrentInv, PlanInv,
         RowsInv, Planning, Holding, Writing
<1>2. StateInv' /\ RowsBeforeCutoff'
  <2>1. CASE Restart
    BY <2>1 DEF Restart, StoreInv, StateInv, RowsBeforeCutoff
  <2>2. CASE UpgradeData
    <3>1. state \in StateRow
      BY DEF TypeOK
    <3>2. /\ state'.cutoff = 0 \/ state' = state
          /\ state'.status = state.status
      BY <2>2, <3>1 DEF UpgradeData, ResetOutdated, StateRow
    <3>3. Aligned(0)
      BY HourAssumption DEF Aligned, Trunc
    <3> QED
      BY <2>2, <3>2, <3>3
         DEF UpgradeData, StoreInv, StateInv, RowsBeforeCutoff
  <2>3. CASE UpgradeSchema
    BY <2>3, HourAssumption
       DEF UpgradeSchema, StateInv, RowsBeforeCutoff, NoState, Aligned, Trunc
  <2> QED
    BY <2>1, <2>2, <2>3
<1> QED
  BY <1>1, <1>2 DEF StoreInv

LEMMA StoreInvSync ==
  ASSUME TypeOK, StoreInv, NEW p \in Syncers, Sync(p)
  PROVE  StoreInv'
<1> USE DEF Planning, Holding, Writing
<1>1. /\ pc \in [Syncers -> {"idle", "begun", "probed", "locked", "collect",
                             "committed"} \union Writing]
      /\ job \in [Syncers -> JobRec]
      /\ state \in StateRow
  BY DEF TypeOK
<1>2. CASE \/ \E mode \in {"incremental", "rebuild"} : Begin(p, mode)
           \/ Probe(p) \/ Acquire(p) \/ Skip(p)
           \/ \E data \in {files, Fallback} : InspectUnavailable(p, data)
           \/ GiveUpUnavailable(p) \/ CollectFails(p) \/ WriteFails(p)
  <2>1. UNCHANGED <<state, index>>
    BY <1>2 DEF Begin, Probe, Acquire, Skip, InspectUnavailable, GiveUpUnavailable,
                CollectFails, WriteFails, ReleaseLock, storeVars
  <2>2. /\ \A q \in Syncers \ {p} : pc'[q] = pc[q] /\ job'[q] = job[q]
        /\ \/ pc'[p] \in {"idle", "begun", "probed", "locked"}
           \/ pc'[p] = "unavailable" /\ job'[p].cur = state
           \/ pc'[p] = "failed" /\ pc[p] = "collect" /\ job'[p] = job[p]
    <3>1. CASE \/ \E mode \in {"incremental", "rebuild"} : Begin(p, mode)
               \/ Probe(p) \/ Acquire(p) \/ Skip(p)
      BY <1>1, <3>1 DEF Begin, Probe, Acquire, Skip
    <3>2. CASE \/ GiveUpUnavailable(p) \/ WriteFails(p)
               \/ CollectFails(p) /\ p \notin Jobs
      BY <1>1, <3>2 DEF GiveUpUnavailable, WriteFails, CollectFails, ReleaseLock
    <3>3. ASSUME NEW data \in {files, Fallback}, InspectUnavailable(p, data)
          PROVE  /\ \A q \in Syncers \ {p} : pc'[q] = pc[q] /\ job'[q] = job[q]
                 /\ pc'[p] = "unavailable" /\ job'[p].cur = state
      <4>1. Inspected(p, data).cur = state
        BY <1>1 DEF Inspected, JobRec
      <4> QED
        BY <1>1, <3>3, <4>1 DEF InspectUnavailable
    <3>4. CASE CollectFails(p) /\ p \in Jobs
      BY <1>1, <3>4, ActorsAssumption DEF CollectFails
    <3> QED
      BY <1>2, <3>1, <3>2, <3>3, <3>4
  <2>3. LockInv'
    <3>1. CASE Acquire(p)
      BY <1>1, <3>1, SyncersNotNoOne DEF Acquire, StoreInv, LockInv
    <3>2. CASE \/ GiveUpUnavailable(p) \/ WriteFails(p)
               \/ CollectFails(p) /\ p \notin Jobs
      BY <1>1, <3>2, SyncersNotNoOne
         DEF GiveUpUnavailable, CollectFails, WriteFails, ReleaseLock, StoreInv, LockInv
    <3>3. CASE \/ \E mode \in {"incremental", "rebuild"} : Begin(p, mode)
               \/ Probe(p) \/ Skip(p)
      BY <1>1, <3>3 DEF Begin, Probe, Skip, storeVars, StoreInv, LockInv
    <3>4. CASE \E data \in {files, Fallback} : InspectUnavailable(p, data)
      BY <1>1, <3>4 DEF InspectUnavailable, storeVars, StoreInv, LockInv
    <3>5. CASE CollectFails(p) /\ p \in Jobs
      BY <1>1, <3>5, ActorsAssumption, SyncersNotNoOne
         DEF CollectFails, ReleaseLock, storeVars, StoreInv, LockInv, Syncers
    <3> QED
      BY <1>2, <3>1, <3>2, <3>3, <3>4, <3>5
  <2>4. CurrentInv' /\ PlanInv' /\ RowsInv'
    BY <2>1, <2>2 DEF StoreInv, CurrentInv, PlanInv, RowsInv, PricingChanged
  <2> QED
    BY <2>1, <2>3, <2>4 DEF StoreInv, StateInv, RowsBeforeCutoff
<1>3. ASSUME NEW data \in {files, Fallback}, Inspect(p, data) PROVE StoreInv'
  <2> DEFINE j == Inspected(p, data)
  <2>1. j \in JobRec /\ j.cur = state
    BY <1>1, InspectedType DEF Inspected, JobRec
  <2>2. /\ UNCHANGED <<state, index, lock>>
        /\ pc[p] = "locked" /\ job'[p] = Planned(j)
        /\ pc' = [pc EXCEPT ![p] = IF NothingToCollect(j) THEN "verify" ELSE "collect"]
        /\ \A q \in Syncers \ {p} : pc'[q] = pc[q] /\ job'[q] = job[q]
    BY <1>1, <1>3 DEF Inspect, storeVars
  <2>3. LockInv'
    BY <1>1, <2>2 DEF StoreInv, LockInv
  <2>4. CurrentInv' /\ PlanInv' /\ RowsInv'
    <3>1. /\ Planned(j).cur = state /\ Aligned(Planned(j).cutoff)
          /\ Planned(j).mode = "rebuild" => Planned(j).since = 0
          /\ Planned(j).mode = "incremental" =>
               /\ ~PricingChanged(Planned(j))
               /\ Planned(j).since = state.cutoff
               /\ Planned(j).cutoff >= state.cutoff
          /\ NothingToCollect(j) => /\ Planned(j).mode = "incremental"
                                    /\ Planned(j).cutoff = state.cutoff
      BY <2>1, PlannedFacts DEF StoreInv, StateInv
    <3> HIDE DEF j
    <3> QED
      BY <1>1, <2>2, <3>1 DEF StoreInv, CurrentInv, PlanInv, RowsInv, PricingChanged
  <2> QED
    BY <2>2, <2>3, <2>4 DEF StoreInv, StateInv, RowsBeforeCutoff
<1>4. CASE Collect(p)
  <2> DEFINE rows == Collected(raw, job[p].since, job[p].cutoff, price, version)
  <2>1. /\ UNCHANGED <<state, index, lock>>
        /\ pc[p] = "collect" /\ pc' = [pc EXCEPT ![p] = "write"]
        /\ job' = [job EXCEPT ![p].rows = rows]
    BY <1>4 DEF Collect, storeVars
  <2>2. /\ \A q \in Syncers \ {p} : pc'[q] = pc[q] /\ job'[q] = job[q]
        /\ pc'[p] = "write"
        /\ job'[p].cutoff = job[p].cutoff /\ job'[p].since = job[p].since
        /\ job'[p].mode = job[p].mode /\ job'[p].cur = job[p].cur
        /\ job'[p].tag = job[p].tag /\ job'[p].rows = rows
    <3> HIDE DEF rows
    <3> QED
      BY <1>1, <2>1 DEF JobRec
  <2>3. \A m \in rows : job[p].since <= m.t /\ m.t < job[p].cutoff
    BY <1>1, CollectedFacts DEF JobRec, Time
  <2> HIDE DEF rows
  <2>4. LockInv'
    BY <1>1, <2>1 DEF StoreInv, LockInv
  <2>5. CurrentInv' /\ PlanInv' /\ RowsInv'
    BY <2>1, <2>2, <2>3 DEF StoreInv, CurrentInv, PlanInv, RowsInv, PricingChanged
  <2> QED
    BY <2>1, <2>4, <2>5 DEF StoreInv, StateInv, RowsBeforeCutoff
<1>5. CASE Commit(p)
  <2>1. /\ pc[p] \in Writing /\ pc' = [pc EXCEPT ![p] = "committed"]
        /\ UNCHANGED <<lock, job>>
        /\ state' = StateAfter(p) /\ index' = IndexAfter(p)
    BY <1>5 DEF Commit
  <2>2. \A q \in Syncers \ {p} : pc[q] \notin Planning /\ pc'[q] = pc[q]
    BY <1>1, <2>1 DEF StoreInv, LockInv
  <2>3. LockInv'
    BY <1>1, <2>1 DEF StoreInv, LockInv
  <2>4. CurrentInv' /\ PlanInv' /\ RowsInv'
    BY <1>1, <2>1, <2>2 DEF CurrentInv, PlanInv, RowsInv
  <2>5. StateInv' /\ RowsBeforeCutoff'
    BY <2>1, CommitEffect DEF StateInv, RowsBeforeCutoff
  <2> QED
    BY <2>3, <2>4, <2>5 DEF StoreInv
<1>6. CASE Publish(p)
  <2>1. /\ pc[p] = "committed" /\ pc' = [pc EXCEPT ![p] = "idle"]
        /\ job' = [job EXCEPT ![p] = NoJob]
        /\ lock' = NoOne /\ UNCHANGED <<state, index>>
    BY <1>6 DEF Publish
  <2>2. LockInv'
    BY <1>1, <2>1, SyncersNotNoOne DEF StoreInv, LockInv
  <2>3. CurrentInv' /\ PlanInv' /\ RowsInv'
    BY <1>1, <2>1 DEF StoreInv, CurrentInv, PlanInv, RowsInv, PricingChanged
  <2> QED
    BY <2>1, <2>2, <2>3 DEF StoreInv, StateInv, RowsBeforeCutoff
<1> QED
  BY <1>2, <1>3, <1>4, <1>5, <1>6 DEF Sync

LEMMA StoreInvNext == TypeOK /\ StoreInv /\ [Next]_vars => StoreInv'
<1> SUFFICES ASSUME TypeOK, StoreInv, [Next]_vars PROVE StoreInv'
  OBVIOUS
<1>1. CASE UNCHANGED syncVars
  BY <1>1 DEF syncVars, StoreInv, LockInv, CurrentInv, PlanInv, RowsInv, StateInv,
              RowsBeforeCutoff, PricingChanged
<1>2. CASE \E p \in Syncers : Sync(p)
  BY <1>2, StoreInvSync
<1>3. CASE Restart \/ UpgradeData \/ UpgradeSchema
  BY <1>3, StoreInvForget
<1> QED
  BY <1>1, <1>2, <1>3, EnvKeepsSyncs DEF vars, syncVars

\* The invariant on which the theorems below rest.
THEOREM StoreIsConsistent == Spec => []StoreInv
BY TypeCorrect, StoreInvInit, StoreInvNext, PTL DEF Spec

\* No cached row ever reaches the advertised finality boundary: not when jobs,
\* fills, failures, restarts and upgrades interleave, nor when the clock is set
\* back.
THEOREM CacheEndsAtCutoff == Spec => []RowsBeforeCutoff
<1>1. StoreInv => RowsBeforeCutoff
  BY DEF StoreInv
<1> QED
  BY <1>1, StoreIsConsistent, PTL

\* An incremental sync, a verification and a failed sync never move the cutoff back.
THEOREM CutoffAdvances == Spec => IncrementalNeverRegresses
<1>1. TypeOK /\ StoreInv =>
        \A p \in Syncers :
          Commit(p) /\ (job[p].mode = "incremental" \/ pc[p] # "write")
            => state'.cutoff >= state.cutoff
  <2> SUFFICES ASSUME TypeOK, StoreInv, NEW p \in Syncers, Commit(p),
                      job[p].mode = "incremental" \/ pc[p] # "write"
               PROVE  state'.cutoff >= state.cutoff
    OBVIOUS
  <2>1. pc[p] \in Writing /\ state' = StateAfter(p)
    BY DEF Commit
  <2>2. state.cutoff \in Nat
    BY DEF TypeOK, StateRow, Time
  <2> QED
    BY <2>1, <2>2, CommitEffect
<1> QED
  BY <1>1, TypeCorrect, StoreIsConsistent, PTL DEF IncrementalNeverRegresses

\* Cached rows change only by the commit of a sync that has collected, or when
\* a new schema empties the store: an outage, a failure, a verification and a
\* restart leave them alone.
THEOREM OnlyCollectionWrites == Spec => OnlyCollectedDataIsWritten
<1> DEFINE Allowed == \/ \E p \in Syncers : pc[p] = "write" /\ pc'[p] = "committed"
                      \/ state' = NoState
<1>1. ASSUME TypeOK, [Next]_vars, index' # index PROVE Allowed
  <2>1. (\E p \in Syncers : Sync(p)) \/ Restart \/ UpgradeData \/ UpgradeSchema
    <3>1. Next
      BY <1>1 DEF vars, storeVars
    <3> QED
      BY <1>1, <3>1, EnvKeepsSyncs DEF syncVars
  <2>2. CASE Restart \/ UpgradeData
    BY <1>1, <2>2 DEF Restart, UpgradeData, storeVars
  <2>3. CASE UpgradeSchema
    BY <2>3 DEF UpgradeSchema
  <2>4. ASSUME NEW p \in Syncers, Sync(p) PROVE Allowed
    <3>1. Commit(p)
      BY <1>1, <2>4
         DEF Sync, Begin, Probe, Acquire, Skip, Inspect, InspectUnavailable,
             GiveUpUnavailable, Collect, CollectFails, Publish, WriteFails, ReleaseLock,
             storeVars
    <3>2. pc[p] = "write"
      BY <1>1, <3>1 DEF Commit, IndexAfter
    <3>3. pc'[p] = "committed"
      BY <1>1, <3>1 DEF Commit, TypeOK
    <3> QED
      BY <3>2, <3>3
  <2> QED
    BY <2>1, <2>2, <2>3, <2>4
<1>2. TypeOK /\ [Next]_vars => (index' # index => Allowed)
  BY <1>1
<1> QED
  BY <1>2, TypeCorrect, PTL DEF Spec, OnlyCollectedDataIsWritten

-----------------------------------------------------------------------------
(* Completeness, when the clock is not set back.                           *)

\* No boundary, stored or planned, comes closer to now than the safety delay.
DelayInv ==
  /\ state.cutoff + SafetyDelay <= now
  /\ \A p \in Syncers : /\ job[p].want + SafetyDelay <= now
                        /\ job[p].cutoff + SafetyDelay <= now

\* The rows of a sync still cover its window when it writes them.
PayloadInv ==
  \A p \in Syncers : pc[p] = "write" =>
    /\ \A m \in job[p].rows : m.dv = version
    /\ \A r \in raw : job[p].since <= r.t /\ r.t < job[p].cutoff =>
         \E m \in job[p].rows : m.id = r.id

CompleteInv == DelayInv /\ PayloadInv /\ NothingHidden

LEMMA CompleteInvInit == Init => CompleteInv
BY ClockAssumption, HourAssumption, SafetyDelayAssumption
   DEF Init, CompleteInv, DelayInv, PayloadInv, NothingHidden, NoState, NoJob

LEMMA RawRowType == TypeOK => \A r \in raw : r.id \in Ids /\ r.t \in Nat
BY DEF TypeOK, RawRow, Time

\* A commit leaves a cached row for every raw row before the cutoff it stores.
LEMMA CommitHidesNothing ==
  ASSUME TypeOK, StoreInv, CompleteInv, NEW p \in Syncers, pc[p] \in Writing,
         StateAfter(p).cutoff > 0,
         NEW r \in raw, r.t < StateAfter(p).cutoff
  PROVE  \E m \in IndexAfter(p) : m.id = r.id /\ m.dv = version
<1> DEFINE j == job[p]
<1>1. /\ j.since \in Nat /\ j.cutoff \in Nat /\ r.t \in Nat /\ state.cutoff \in Nat
      /\ j.mode \in {"incremental", "rebuild"}
  BY RawRowType DEF TypeOK, StateRow, JobRec, Time
<1>2. CASE pc[p] # "write"
  BY <1>2, CommitEffect DEF CompleteInv, NothingHidden
<1>3. CASE pc[p] = "write"
  <2>1. r.t < j.cutoff
    BY <1>3, CommitEffect
  <2>2. \A m \in j.rows : m \in IndexAfter(p)
    BY <1>3, FillIndexFacts DEF IndexAfter
  <2>3. CASE j.since <= r.t
    BY <1>3, <2>1, <2>2, <2>3 DEF CompleteInv, PayloadInv
  <2>4. CASE r.t < j.since
    <3>1. /\ j.mode = "incremental" /\ j.since = state.cutoff
          /\ j.since <= j.cutoff
      BY <1>1, <1>3, <2>4 DEF StoreInv, PlanInv, Planning, Writing
    <3>2. PICK m \in index : m.id = r.id /\ m.dv = version
      BY <1>1, <2>4, <3>1 DEF CompleteInv, NothingHidden
    <3>3. m.t < Boundary(j.since, j.cutoff)
      BY <1>1, <2>4, <3>1 DEF StoreInv, RowsBeforeCutoff, Boundary, EarlierOf
    <3>4. IndexAfter(p) = FillIndex(index, j.rows, j.since, j.cutoff)
      BY <1>3, <3>1 DEF IndexAfter
    <3>5. CASE m.id \notin IdsOf(j.rows)
      BY <3>2, <3>3, <3>4, <3>5, FillIndexFacts
    <3>6. CASE m.id \in IdsOf(j.rows)
      <4>1. PICK n \in j.rows : n.id = r.id
        BY <3>2, <3>6 DEF IdsOf
      <4>2. n.dv = version
        BY <1>3 DEF CompleteInv, PayloadInv
      <4> QED
        BY <2>2, <4>1, <4>2
    <3> QED
      BY <3>5, <3>6
  <2> QED
    BY <1>1, <2>3, <2>4
<1> QED
  BY <1>2, <1>3

\* The variables the completeness argument reads.
completeVars == <<now, raw, version, state, index, pc, job>>

LEMMA OthersKeepComplete ==
  ASSUME Next
  PROVE  \/ UNCHANGED completeVars
         \/ Tick \/ StepBack \/ \E i \in Ids, t \in 0..MaxNow : Arrive(i, t)
         \/ \E p \in Syncers : Sync(p)
         \/ Restart \/ UpgradeData \/ UpgradeSchema
<1>1. ASSUME NEW r \in Readers, Read(r) PROVE UNCHANGED completeVars
  BY <1>1 DEF Read, ReadBegin, ReadQuery, ReadSeed, ReadCache, ReadLive, ReadEnd,
              completeVars, storeVars, envVars
<1>2. CASE \/ ChangeAvailability \/ OtherSourceWrites \/ OtherSourceEnds
           \/ \E q \in 0..MaxPrice : ChangePricing(q)
  BY <1>2 DEF ChangeAvailability, ChangePricing, OtherSourceWrites, OtherSourceEnds,
              completeVars, storeVars, actorVars
<1> QED
  BY <1>1, <1>2 DEF Next, Env

LEMMA CompleteInvSync ==
  ASSUME TypeOK, StoreInv, CompleteInv, NEW p \in Syncers, Sync(p)
  PROVE  CompleteInv'
<1>1. /\ pc \in [Syncers -> {"idle", "begun", "probed", "locked", "collect",
                             "committed"} \union Writing]
      /\ job \in [Syncers -> JobRec]
      /\ now \in Nat /\ MinNow <= now
  BY ClockAssumption DEF TypeOK
<1>2. UNCHANGED <<now, raw, version>>
  BY DEF Sync, Begin, Probe, Acquire, Skip, Inspect, InspectUnavailable,
         GiveUpUnavailable, Collect, CollectFails, Commit, Publish, WriteFails,
         ReleaseLock, envVars
<1>3. /\ NoJob.want + SafetyDelay <= now /\ NoJob.cutoff + SafetyDelay <= now
  BY <1>1, ClockAssumption, SafetyDelayAssumption, HourAssumption DEF NoJob
<1>4. \A q \in Syncers : /\ job[q].want \in Nat /\ job[q].cutoff \in Nat
                         /\ state.cutoff \in Nat
  BY <1>1 DEF TypeOK, JobRec, StateRow, Time
<1>5. CASE \/ \E mode \in {"incremental", "rebuild"} : Begin(p, mode)
           \/ Probe(p) \/ Acquire(p) \/ Skip(p)
           \/ \E data \in {files, Fallback} :
                Inspect(p, data) \/ InspectUnavailable(p, data)
           \/ GiveUpUnavailable(p) \/ CollectFails(p) \/ WriteFails(p) \/ Publish(p)
  <2>1. UNCHANGED <<state, index>>
    BY <1>5 DEF Begin, Probe, Acquire, Skip, Inspect, InspectUnavailable,
                GiveUpUnavailable, CollectFails, WriteFails, Publish, ReleaseLock,
                storeVars
  <2> DEFINE Framed ==
        /\ \A q \in Syncers \ {p} : pc'[q] = pc[q] /\ job'[q] = job[q]
        /\ pc'[p] # "write"
        /\ job'[p].want + SafetyDelay <= now /\ job'[p].cutoff + SafetyDelay <= now
  <2>2. Framed
    <3>1. CASE \/ Skip(p) \/ GiveUpUnavailable(p) \/ WriteFails(p) \/ Publish(p)
               \/ CollectFails(p) /\ p \notin Jobs
      BY <1>1, <1>3, <3>1 DEF Skip, GiveUpUnavailable, WriteFails, Publish,
                              CollectFails, ReleaseLock
    <3>2. CASE Acquire(p) \/ (CollectFails(p) /\ p \in Jobs)
      BY <1>1, <3>2, ActorsAssumption
         DEF Acquire, CollectFails, CompleteInv, DelayInv
    <3>3. CASE Probe(p)
      <4>1. job'[p].want = job[p].want /\ job'[p].cutoff = job[p].cutoff
        BY <1>1, <3>3 DEF Probe, JobRec
      <4> QED
        BY <1>1, <3>3, <4>1 DEF Probe, CompleteInv, DelayInv
    <3>4. ASSUME NEW mode \in {"incremental", "rebuild"}, Begin(p, mode)
          PROVE  Framed
      <4>1. DefaultSafeCutoff(now) + SafetyDelay <= now
        BY <1>1, CutoffType
      <4>2. job'[p].want = DefaultSafeCutoff(now) /\ job'[p].cutoff = 0
        BY <1>1, <3>4 DEF Begin, NoJob
      <4> QED
        BY <1>1, <1>3, <3>4, <4>1, <4>2 DEF Begin, NoJob
    <3>5. ASSUME NEW data \in {files, Fallback}, InspectUnavailable(p, data)
          PROVE  Framed
      <4>1. /\ job'[p].want = job[p].want /\ job'[p].cutoff = job[p].cutoff
        BY <1>1, <3>5 DEF InspectUnavailable, Inspected, JobRec
      <4> QED
        BY <1>1, <3>5, <4>1 DEF InspectUnavailable, CompleteInv, DelayInv
    <3>6. ASSUME NEW data \in {files, Fallback}, Inspect(p, data)
          PROVE  Framed
      <4> DEFINE j == Inspected(p, data)
      <4>1. j \in JobRec /\ j.cur = state /\ j.want = job[p].want
        BY <1>1, InspectedType DEF Inspected, JobRec
      <4>2. job'[p] = Planned(j) /\ pc'[p] # "write"
            /\ \A q \in Syncers \ {p} : pc'[q] = pc[q] /\ job'[q] = job[q]
        BY <1>1, <3>6 DEF Inspect
      <4> HIDE DEF j
      <4>3. /\ Planned(j).want = j.want
            /\ \/ Planned(j).cutoff <= j.want
               \/ Planned(j).cutoff <= LaterOf(state.cutoff, j.want)
            /\ Planned(j).cutoff \in Nat
        BY <4>1, PlannedFacts, PlannedType DEF StoreInv, StateInv, JobRec, Time
      <4>4. Planned(j).cutoff + SafetyDelay <= now
        BY <1>1, <1>4, <4>1, <4>3, SafetyDelayAssumption
           DEF LaterOf, CompleteInv, DelayInv
      <4> QED
        BY <4>1, <4>2, <4>3, <4>4 DEF CompleteInv, DelayInv
    <3>7. CASE \E data \in {files, Fallback} :
                 Inspect(p, data) \/ InspectUnavailable(p, data)
      BY <3>5, <3>6, <3>7
    <3>8. CASE \E mode \in {"incremental", "rebuild"} : Begin(p, mode)
      BY <3>4, <3>8
    <3> QED
      BY <1>5, <3>1, <3>2, <3>3, <3>7, <3>8
  <2> QED
    BY <1>2, <2>1, <2>2 DEF CompleteInv, DelayInv, PayloadInv, NothingHidden
<1>6. CASE Collect(p)
  <2> DEFINE rows == Collected(raw, job[p].since, job[p].cutoff, price, version)
  <2>1. /\ UNCHANGED <<state, index>>
        /\ pc' = [pc EXCEPT ![p] = "write"]
        /\ job' = [job EXCEPT ![p].rows = rows]
    BY <1>6 DEF Collect, storeVars
  <2>2. /\ \A m \in rows : m.dv = version
        /\ \A r \in raw : job[p].since <= r.t /\ r.t < job[p].cutoff =>
             \E m \in rows : m.id = r.id
    BY <1>1, CollectedFacts DEF JobRec, Time
  <2> HIDE DEF rows
  <2>3. /\ \A q \in Syncers \ {p} : pc'[q] = pc[q] /\ job'[q] = job[q]
        /\ job'[p].cutoff = job[p].cutoff /\ job'[p].since = job[p].since
        /\ job'[p].want = job[p].want /\ job'[p].rows = rows
    BY <1>1, <2>1 DEF JobRec
  <2> QED
    BY <1>2, <2>1, <2>2, <2>3 DEF CompleteInv, DelayInv, PayloadInv, NothingHidden
<1>7. CASE Commit(p)
  <2>1. /\ pc[p] \in Writing /\ pc' = [pc EXCEPT ![p] = "committed"]
        /\ UNCHANGED job
        /\ state' = StateAfter(p) /\ index' = IndexAfter(p)
    BY <1>7 DEF Commit
  <2>2. NothingHidden'
    BY <1>2, <2>1, CommitHidesNothing DEF NothingHidden
  <2>3. DelayInv'
    BY <1>2, <2>1, CommitEffect DEF CompleteInv, DelayInv
  <2>4. PayloadInv'
    BY <1>1, <1>2, <2>1 DEF CompleteInv, PayloadInv
  <2> QED
    BY <2>2, <2>3, <2>4 DEF CompleteInv
<1> QED
  BY <1>5, <1>6, <1>7 DEF Sync

LEMMA CompleteInvNext ==
  ~ClockMayStep /\ TypeOK /\ StoreInv /\ CompleteInv /\ [Next]_vars => CompleteInv'
<1> SUFFICES ASSUME ~ClockMayStep, TypeOK, StoreInv, CompleteInv, [Next]_vars
             PROVE  CompleteInv'
  OBVIOUS
<1>1. now \in Nat /\ MinNow <= now /\ state.cutoff \in Nat
      /\ \A q \in Syncers : job[q].want \in Nat /\ job[q].cutoff \in Nat
  BY ClockAssumption DEF TypeOK, JobRec, StateRow, Time
<1>2. CASE UNCHANGED completeVars
  BY <1>2 DEF completeVars, CompleteInv, DelayInv, PayloadInv, NothingHidden
<1>3. CASE Tick
  <2>1. now' = now + 1 /\ UNCHANGED <<raw, version, state, index, pc, job>>
    BY <1>3 DEF Tick, storeVars, actorVars
  <2> QED
    BY <1>1, <2>1, SafetyDelayAssumption
       DEF CompleteInv, DelayInv, PayloadInv, NothingHidden
<1>4. ASSUME NEW i \in Ids, NEW t \in 0..MaxNow, Arrive(i, t) PROVE CompleteInv'
  <2>1. /\ raw' = raw \union {[id |-> i, t |-> t]} /\ now <= t + Lag
        /\ UNCHANGED <<now, version, state, index, pc, job>>
    BY <1>4 DEF Arrive, storeVars, actorVars
  <2>2. t >= state.cutoff /\ \A q \in Syncers : t >= job[q].cutoff
    BY <1>1, <2>1, SafetyDelayAssumption, LagAssumption, ClockAssumption
       DEF CompleteInv, DelayInv
  <2>3. \A r \in raw' : r \in raw \/ r.t = t
    BY <2>1
  <2> QED
    BY <1>1, <2>1, <2>2, <2>3, ClockAssumption
       DEF CompleteInv, DelayInv, PayloadInv, NothingHidden
<1>5. CASE \E p \in Syncers : Sync(p)
  BY <1>5, CompleteInvSync
<1>6. CASE Restart \/ UpgradeData \/ UpgradeSchema
  <2>1. /\ UNCHANGED <<now, raw>>
        /\ \A q \in Syncers : pc'[q] = "idle" /\ job'[q] = NoJob
    BY <1>6 DEF Restart, UpgradeData, UpgradeSchema, Forget
  <2>2. \/ UNCHANGED <<state, index, version>>
        \/ state'.cutoff = 0
    <3>1. state \in StateRow /\ (state.status = "none" => state.cutoff = 0)
      BY DEF TypeOK, StoreInv, StateInv
    <3>2. CASE UpgradeData
      <4>1. ResetOutdated(state).cutoff = 0
        BY <3>1 DEF ResetOutdated, StateRow
      <4> QED
        BY <3>2, <4>1 DEF UpgradeData
    <3> QED
      BY <1>6, <3>2 DEF Restart, UpgradeSchema, NoState
  <2> QED
    BY <1>1, <2>1, <2>2, ClockAssumption, SafetyDelayAssumption, HourAssumption
       DEF CompleteInv, DelayInv, PayloadInv, NothingHidden, NoJob
<1> QED
  BY <1>2, <1>3, <1>4, <1>5, <1>6, OthersKeepComplete
     DEF StepBack, vars, completeVars

\* Nothing the source holds before the cutoff is missing from the cache, as long
\* as the clock is not set back and no row appears later than the safety delay.
THEOREM NothingIsHidden ==
  ASSUME ~ClockMayStep
  PROVE  Spec => []NothingHidden
<1>1. TypeOK /\ StoreInv /\ CompleteInv /\ [Next]_vars => CompleteInv'
  BY CompleteInvNext
<1>2. CompleteInv => NothingHidden
  BY DEF CompleteInv
<1> QED
  BY <1>1, <1>2, CompleteInvInit, TypeCorrect, StoreIsConsistent, PTL DEF Spec

-----------------------------------------------------------------------------
(* Pricing, when an identity does not come back.                           *)

PriceInv ==
  /\ \A m \in index : state.tag <= m.price /\ m.price <= price
  /\ \A p \in Syncers :
       /\ job[p].tag <= price
       /\ pc[p] = "write" =>
            \A m \in job[p].rows : job[p].tag <= m.price /\ m.price <= price

LEMMA PriceInvInit == Init => PriceInv
BY BoundsAssumption DEF Init, PriceInv, NoJob

\* A commit stores no pricing tag that is newer than a row it keeps.
LEMMA CommitTagsRows ==
  ASSUME TypeOK, StoreInv, PriceInv, NEW p \in Syncers, pc[p] \in Writing,
         NEW m \in IndexAfter(p)
  PROVE  StateAfter(p).tag <= m.price /\ m.price <= price
<1> DEFINE j == job[p]
<1>1. /\ j \in JobRec /\ j.cur = state /\ state \in StateRow
      /\ j.tag \in 0..MaxPrice
      /\ j.mode \in {"incremental", "rebuild"}
  BY DEF TypeOK, JobRec, StoreInv, CurrentInv, Planning
<1>2. \A n \in index : /\ n.price \in Nat /\ n.price <= price
                       /\ state.tag <= n.price
  BY BoundsAssumption DEF TypeOK, CachedRow, PriceInv
<1>3. ASSUME NEW n \in index, ~PricingChanged(j) PROVE j.tag <= n.price
  <2>1. state.status # "none"
    BY <1>3 DEF StoreInv, StateInv
  <2>2. IF state.tag # Untagged THEN state.tag = j.tag ELSE j.tag = 0
    BY <1>1, <1>3, <2>1 DEF PricingChanged, PricingIdentityChanged
  <2> QED
    BY <1>2, <2>2
<1>4. CASE pc[p] = "write"
  <2>1. StateAfter(p).tag = j.tag
    BY <1>4 DEF StateAfter
  <2>2. m \in j.rows \/ (m \in index /\ j.mode = "incremental")
    BY <1>1, <1>4, FillIndexFacts DEF IndexAfter
  <2>3. j.mode = "incremental" => ~PricingChanged(j)
    BY <1>4 DEF StoreInv, PlanInv, Planning, Writing
  <2> QED
    BY <1>2, <1>3, <1>4, <2>1, <2>2, <2>3 DEF PriceInv
<1>5. CASE pc[p] # "write"
  <2>1. m \in index
    BY <1>5 DEF IndexAfter
  <2>2. pc[p] = "verify" => ~PricingChanged(j)
    BY DEF StoreInv, PlanInv, Planning, Writing
  <2>3. state.status # "none"
    BY <2>1 DEF StoreInv, StateInv
  <2>4. \/ StateAfter(p).tag = state.tag
        \/ StateAfter(p).tag = j.tag /\ ~PricingChanged(j)
    <3>1. CASE pc[p] = "verify"
      BY <2>2, <3>1 DEF StateAfter
    <3>2. CASE pc[p] = "unavailable"
      BY <1>1, <2>3, <3>2 DEF StateAfter, StateRow
    <3>3. CASE pc[p] = "failed"
      BY <1>1, <3>3 DEF StateAfter, StateRow
    <3> QED
      BY <1>5, <3>1, <3>2, <3>3 DEF Writing
  <2> QED
    BY <1>2, <1>3, <2>1, <2>4
<1> QED
  BY <1>4, <1>5

LEMMA PriceInvSync ==
  ASSUME TypeOK, StoreInv, PriceInv, NEW p \in Syncers, Sync(p)
  PROVE  PriceInv'
<1>1. /\ pc \in [Syncers -> {"idle", "begun", "probed", "locked", "collect",
                             "committed"} \union Writing]
      /\ job \in [Syncers -> JobRec]
      /\ price \in Nat
  BY BoundsAssumption DEF TypeOK
<1>2. price' = price
  BY DEF Sync, Begin, Probe, Acquire, Skip, Inspect, InspectUnavailable,
         GiveUpUnavailable, Collect, CollectFails, Commit, Publish, WriteFails,
         ReleaseLock, envVars
<1>3. NoJob.tag <= price
  BY <1>1 DEF NoJob
<1>4. CASE Commit(p)
  <2>1. /\ pc[p] \in Writing /\ pc' = [pc EXCEPT ![p] = "committed"]
        /\ UNCHANGED job
        /\ state' = StateAfter(p) /\ index' = IndexAfter(p)
    BY <1>4 DEF Commit
  <2>2. \A m \in index' : state'.tag <= m.price /\ m.price <= price'
    BY <1>2, <2>1, CommitTagsRows
  <2> QED
    BY <1>1, <1>2, <2>1, <2>2 DEF PriceInv
<1>5. CASE Collect(p)
  <2> DEFINE rows == Collected(raw, job[p].since, job[p].cutoff, price, version)
  <2>1. /\ UNCHANGED <<state, index>>
        /\ pc' = [pc EXCEPT ![p] = "write"]
        /\ job' = [job EXCEPT ![p].rows = rows]
    BY <1>5 DEF Collect, storeVars
  <2>2. \A m \in rows : m.price = price
    BY <1>1, CollectedFacts DEF JobRec, Time
  <2> HIDE DEF rows
  <2>3. /\ \A q \in Syncers \ {p} : pc'[q] = pc[q] /\ job'[q] = job[q]
        /\ job'[p].tag = job[p].tag /\ job'[p].rows = rows
    BY <1>1, <2>1 DEF JobRec
  <2> QED
    BY <1>1, <1>2, <2>1, <2>2, <2>3 DEF PriceInv
<1>6. ASSUME ~Commit(p), ~Collect(p) PROVE PriceInv'
  <2>1. UNCHANGED <<state, index>>
    BY <1>6 DEF Sync, Begin, Probe, Acquire, Skip, Inspect, InspectUnavailable,
                GiveUpUnavailable, CollectFails, WriteFails, Publish, ReleaseLock,
                storeVars
  <2> DEFINE Framed ==
        /\ \A q \in Syncers \ {p} : pc'[q] = pc[q] /\ job'[q] = job[q]
        /\ pc'[p] # "write" /\ job'[p].tag <= price
  <2>2. Framed
    <3>1. CASE \/ Skip(p) \/ GiveUpUnavailable(p) \/ WriteFails(p) \/ Publish(p)
               \/ CollectFails(p) /\ p \notin Jobs
      BY <1>1, <1>3, <3>1 DEF Skip, GiveUpUnavailable, WriteFails, Publish,
                              CollectFails, ReleaseLock
    <3>2. CASE Acquire(p) \/ (CollectFails(p) /\ p \in Jobs)
      BY <1>1, <3>2, ActorsAssumption DEF Acquire, CollectFails, PriceInv
    <3>3. CASE Probe(p)
      <4>1. job'[p].tag = price
        BY <1>1, <3>3 DEF Probe, JobRec
      <4> QED
        BY <1>1, <3>3, <4>1 DEF Probe
    <3>4. CASE \E mode \in {"incremental", "rebuild"} : Begin(p, mode)
      BY <1>1, <3>4 DEF Begin, NoJob
    <3>5. ASSUME NEW data \in {files, Fallback}, InspectUnavailable(p, data)
          PROVE  Framed
      <4>1. job'[p].tag = job[p].tag
        BY <1>1, <3>5 DEF InspectUnavailable, Inspected, JobRec
      <4> QED
        BY <1>1, <3>5, <4>1 DEF InspectUnavailable, PriceInv
    <3>6. ASSUME NEW data \in {files, Fallback}, Inspect(p, data) PROVE Framed
      <4> DEFINE j == Inspected(p, data)
      <4>1. j \in JobRec /\ j.cur = state /\ j.tag = job[p].tag
        BY <1>1, InspectedType DEF Inspected, JobRec
      <4>2. job'[p] = Planned(j) /\ pc'[p] # "write"
            /\ \A q \in Syncers \ {p} : pc'[q] = pc[q] /\ job'[q] = job[q]
        BY <1>1, <3>6 DEF Inspect
      <4> HIDE DEF j
      <4>3. Planned(j).tag = j.tag
        BY <4>1, PlannedFacts DEF StoreInv, StateInv
      <4> QED
        BY <4>1, <4>2, <4>3 DEF PriceInv
    <3>7. CASE \E data \in {files, Fallback} :
                 Inspect(p, data) \/ InspectUnavailable(p, data)
      BY <3>5, <3>6, <3>7
    <3> QED
      BY <1>6, <3>1, <3>2, <3>3, <3>4, <3>7 DEF Sync
  <2> QED
    BY <1>2, <2>1, <2>2 DEF PriceInv
<1> QED
  BY <1>4, <1>5, <1>6

LEMMA PriceInvNext ==
  ~PriceMayRevert /\ TypeOK /\ StoreInv /\ PriceInv /\ [Next]_vars => PriceInv'
<1> SUFFICES ASSUME ~PriceMayRevert, TypeOK, StoreInv, PriceInv, [Next]_vars
             PROVE  PriceInv'
  OBVIOUS
<1>1. /\ price \in Nat /\ state \in StateRow
      /\ \A m \in index : m.price \in Nat
      /\ \A q \in Syncers : job[q].tag \in Nat /\ \A m \in job[q].rows : m.price \in Nat
  BY BoundsAssumption DEF TypeOK, CachedRow, JobRec
<1>2. ASSUME UNCHANGED <<state, index, pc, job>>, price <= price', price' \in Nat
      PROVE  PriceInv'
  BY <1>1, <1>2 DEF PriceInv
<1>3. CASE \E p \in Syncers : Sync(p)
  BY <1>3, PriceInvSync
<1>4. CASE Restart \/ UpgradeData \/ UpgradeSchema
  <2>1. /\ price' = price
        /\ \A q \in Syncers : pc'[q] = "idle" /\ job'[q] = NoJob
    BY <1>4 DEF Restart, UpgradeData, UpgradeSchema, Forget
  <2>2. \/ UNCHANGED <<state, index>>
        \/ index' = index /\ state'.tag = -1
        \/ index' = {}
    <3>1. CASE UpgradeData
      <4>1. ResetOutdated(state) = state \/ ResetOutdated(state).tag = -1
        BY <1>1 DEF ResetOutdated, StateRow, Untagged
      <4> QED
        BY <3>1, <4>1 DEF UpgradeData
    <3> QED
      BY <1>4, <3>1 DEF Restart, UpgradeSchema
  <2> QED
    BY <1>1, <2>1, <2>2 DEF PriceInv, NoJob
<1>5. ASSUME NEW q \in 0..MaxPrice, ChangePricing(q) PROVE PriceInv'
  BY <1>1, <1>2, <1>5 DEF ChangePricing, storeVars, actorVars
<1>6. ASSUME NEW r \in Readers, Read(r) PROVE PriceInv'
  BY <1>1, <1>2, <1>6
     DEF Read, ReadBegin, ReadQuery, ReadSeed, ReadCache, ReadLive, ReadEnd,
         storeVars, envVars
<1>7. CASE \/ Tick \/ StepBack \/ ChangeAvailability
           \/ \E i \in Ids, t \in 0..MaxNow : Arrive(i, t)
           \/ OtherSourceWrites \/ OtherSourceEnds \/ UNCHANGED vars
  BY <1>1, <1>2, <1>7
     DEF Tick, StepBack, ChangeAvailability, Arrive, OtherSourceWrites,
         OtherSourceEnds, storeVars, actorVars, vars
<1> QED
  BY <1>3, <1>4, <1>5, <1>6, <1>7 DEF Next, Env

\* While identities do not come back, rows costed with another pricing than the
\* one the source reports always show in the stored tag.
THEOREM StalePricingShows ==
  ASSUME ~PriceMayRevert
  PROVE  Spec => []StalePricingIsDetected
<1>1. TypeOK /\ StoreInv /\ PriceInv /\ [Next]_vars => PriceInv'
  BY PriceInvNext
<1>2. TypeOK /\ PriceInv => StalePricingIsDetected
  <2> SUFFICES ASSUME TypeOK, PriceInv, NEW m \in index, m.price # price
               PROVE  PricingIdentityChanged(state.tag, price)
    BY DEF StalePricingIsDetected
  <2>1. m.price \in Nat /\ price \in Nat /\ state.tag <= m.price /\ m.price <= price
    BY BoundsAssumption DEF TypeOK, CachedRow, PriceInv
  <2>2. state.tag \in Int /\ state.tag < price /\ price # 0
    BY <2>1, BoundsAssumption DEF TypeOK, StateRow, Untagged
  <2> QED
    BY <2>2 DEF PricingIdentityChanged
<1> QED
  BY <1>1, <1>2, PriceInvInit, TypeCorrect, StoreIsConsistent, PTL DEF Spec

-----------------------------------------------------------------------------
(* The watermark memo.                                                     *)

Committed == \E p \in Syncers : pc[p] = "committed"

\* A reader whose generation has not moved saw the stored cutoff.
SeedInv ==
  \A r \in Readers : rpc[r] = "seed" /\ read[r].fresh /\ ~Committed
    => read[r].cut = state.cutoff

MemoInv == MemoIsCurrent /\ SeedInv

LEMMA MemoInvNext == TypeOK /\ MemoInv /\ [Next]_vars => MemoInv'
<1> SUFFICES ASSUME TypeOK, MemoInv, [Next]_vars PROVE MemoInv'
  OBVIOUS
<1> USE DEF MemoInv, MemoIsCurrent, SeedInv, Committed
<1>1. /\ pc \in [Syncers -> {"idle", "begun", "probed", "locked", "collect",
                             "committed"} \union Writing]
      /\ rpc \in [Readers -> {"idle", "query", "seed", "cache", "live", "done"}]
      /\ read \in [Readers -> ReadRec]
  BY DEF TypeOK
<1>2. ASSUME UNCHANGED <<state, memo, rpc, read>>, Committed => Committed'
      PROVE  MemoInv'
  BY <1>2
<1>3. ASSUME NEW p \in Syncers, Sync(p) PROVE MemoInv'
  <2>1. CASE Commit(p)
    BY <1>1, <2>1 DEF Commit
  <2>2. CASE Publish(p)
    BY <1>1, <2>2 DEF Publish, NoMemo, ReadRec
  <2>3. CASE ~Commit(p) /\ ~Publish(p)
    <3>1. UNCHANGED <<state, memo, rpc, read>>
      BY <1>3, <2>3 DEF Sync, Begin, Probe, Acquire, Skip, Inspect,
         InspectUnavailable, GiveUpUnavailable, Collect, CollectFails, WriteFails,
         ReleaseLock, storeVars
    <3>2. pc[p] # "committed" /\ \A q \in Syncers \ {p} : pc'[q] = pc[q]
      BY <1>1, <1>3, <2>3 DEF Sync, Begin, Probe, Acquire, Skip, Inspect,
         InspectUnavailable, GiveUpUnavailable, Collect, CollectFails, WriteFails,
         ReleaseLock, Writing
    <3> QED
      BY <1>2, <3>1, <3>2
  <2> QED
    BY <2>1, <2>2, <2>3
<1>4. ASSUME NEW r \in Readers, Read(r) PROVE MemoInv'
  <2>1. UNCHANGED <<state, pc>>
    BY <1>4 DEF Read, ReadBegin, ReadQuery, ReadSeed, ReadCache, ReadLive, ReadEnd,
                storeVars
  <2>2. CASE ReadQuery(r)
    <3>1. read'[r].cut = state.cutoff /\ UNCHANGED memo
      BY <1>1, <2>2 DEF ReadQuery, ReadRec, storeVars
    <3>2. \A q \in Readers \ {r} : rpc'[q] = rpc[q] /\ read'[q] = read[q]
      BY <1>1, <2>2 DEF ReadQuery
    <3> QED
      BY <2>1, <3>1, <3>2
  <2>3. CASE ReadSeed(r)
    BY <1>1, <2>1, <2>3 DEF ReadSeed
  <2>4. CASE ReadBegin(r) \/ ReadCache(r) \/ ReadLive(r) \/ ReadEnd(r)
    <3>1. /\ UNCHANGED memo /\ rpc'[r] # "seed"
          /\ \A q \in Readers \ {r} : rpc'[q] = rpc[q] /\ read'[q] = read[q]
      BY <1>1, <2>4 DEF ReadBegin, ReadCache, ReadLive, ReadEnd, storeVars
    <3> QED
      BY <2>1, <3>1
  <2> QED
    BY <1>4, <2>2, <2>3, <2>4 DEF Read
<1>5. CASE Restart \/ UpgradeData \/ UpgradeSchema
  BY <1>5 DEF Restart, UpgradeData, UpgradeSchema, Forget
<1>6. CASE \/ Tick \/ StepBack \/ ChangeAvailability
           \/ \E i \in Ids, t \in 0..MaxNow : Arrive(i, t)
           \/ \E q \in 0..MaxPrice : ChangePricing(q)
           \/ OtherSourceWrites \/ OtherSourceEnds \/ UNCHANGED vars
  BY <1>2, <1>6
     DEF Tick, StepBack, ChangeAvailability, Arrive, ChangePricing, OtherSourceWrites,
         OtherSourceEnds, storeVars, actorVars, vars
<1> QED
  BY <1>3, <1>4, <1>5, <1>6 DEF Next, Env

\* No reader seeds the memo with a watermark that a commit has overtaken, and no
\* later read is split at one, however lookups, commits and invalidations interleave.
THEOREM MemoFollowsStore == Spec => []MemoIsCurrent
<1>1. Init => MemoInv
  BY DEF Init, MemoInv, MemoIsCurrent, SeedInv
<1>2. MemoInv => MemoIsCurrent
  BY DEF MemoInv
<1> QED
  BY <1>1, <1>2, MemoInvNext, TypeCorrect, PTL DEF Spec

-----------------------------------------------------------------------------
(* Reads split at the watermark, while consolidation goes on.              *)

\* A row of the source, whatever it was costed with.
Sourced(m) == \E x \in raw : x.id = m.id /\ x.t = m.t

\* Ids tell the rows of the source apart, and what is cached or collected was
\* read from it.
OriginInv ==
  /\ \A x, y \in raw : x.id = y.id => x = y
  /\ \A m \in index : Sourced(m)
  /\ \A p \in Syncers : pc[p] = "write" => \A m \in job[p].rows : Sourced(m)

\* What a read has found so far: the rows before its cut once the cache has
\* answered, all of them once the live source has.
FoundInv ==
  \A r \in Readers :
    /\ read[r].need \subseteq raw
    /\ rpc[r] = "live" /\ ~read[r].behind =>
         \A x \in read[r].need : x.t < read[r].cut => x.id \in read[r].got
    /\ rpc[r] = "done" /\ ~read[r].behind =>
         \A x \in read[r].need : x.id \in read[r].got

LEMMA OriginInvSync ==
  ASSUME TypeOK, OriginInv, NEW p \in Syncers, Sync(p)
  PROVE  OriginInv'
<1>1. /\ pc \in [Syncers -> {"idle", "begun", "probed", "locked", "collect",
                             "committed"} \union Writing]
      /\ job \in [Syncers -> JobRec]
  BY DEF TypeOK
<1>2. UNCHANGED raw
  BY DEF Sync, Begin, Probe, Acquire, Skip, Inspect, InspectUnavailable,
         GiveUpUnavailable, Collect, CollectFails, Commit, Publish, WriteFails,
         ReleaseLock, envVars
<1>3. CASE Collect(p)
  <2> DEFINE rows == Collected(raw, job[p].since, job[p].cutoff, price, version)
  <2>1. /\ UNCHANGED index
        /\ job' = [job EXCEPT ![p].rows = rows]
        /\ \A q \in Syncers \ {p} : pc'[q] = pc[q]
    BY <1>1, <1>3 DEF Collect, storeVars
  <2>2. \A m \in rows : Sourced(m)
    BY DEF Collected, Sourced
  <2> HIDE DEF rows
  <2>3. \A q \in Syncers \ {p} : job'[q] = job[q]
    BY <1>1, <2>1
  <2>4. job'[p].rows = rows
    BY <1>1, <2>1 DEF JobRec
  <2> QED
    BY <1>2, <2>1, <2>2, <2>3, <2>4 DEF OriginInv, Sourced
<1>4. CASE Commit(p)
  <2>1. /\ pc' = [pc EXCEPT ![p] = "committed"] /\ UNCHANGED job
        /\ index' = IndexAfter(p)
    BY <1>4 DEF Commit
  <2>2. \A m \in IndexAfter(p) : m \in index \/ (pc[p] = "write" /\ m \in job[p].rows)
    BY FillIndexFacts DEF IndexAfter
  <2> QED
    BY <1>1, <1>2, <2>1, <2>2 DEF OriginInv, Sourced
<1>5. ASSUME ~Commit(p), ~Collect(p) PROVE OriginInv'
  <2>1. UNCHANGED index
    BY <1>5 DEF Sync, Begin, Probe, Acquire, Skip, Inspect, InspectUnavailable,
                GiveUpUnavailable, CollectFails, WriteFails, Publish, ReleaseLock,
                storeVars
  <2>2. /\ pc'[p] # "write"
        /\ \A q \in Syncers \ {p} : pc'[q] = pc[q] /\ job'[q] = job[q]
    BY <1>1, <1>5 DEF Sync, Begin, Probe, Acquire, Skip, Inspect, InspectUnavailable,
                GiveUpUnavailable, CollectFails, WriteFails, Publish, ReleaseLock
  <2> QED
    BY <1>2, <2>1, <2>2 DEF OriginInv, Sourced
<1> QED
  BY <1>3, <1>4, <1>5

LEMMA OriginInvNext == TypeOK /\ OriginInv /\ [Next]_vars => OriginInv'
<1> SUFFICES ASSUME TypeOK, OriginInv, [Next]_vars PROVE OriginInv'
  OBVIOUS
<1>1. CASE UNCHANGED <<raw, index, pc, job>>
  BY <1>1 DEF OriginInv, Sourced
<1>2. ASSUME NEW i \in Ids, NEW t \in 0..MaxNow, Arrive(i, t) PROVE OriginInv'
  <2>1. /\ raw' = raw \union {[id |-> i, t |-> t]}
        /\ \A x \in raw : x.id # i
        /\ UNCHANGED <<index, pc, job>>
    BY <1>2 DEF Arrive, storeVars, actorVars, IdsOf
  <2>2. \A x, y \in raw' : x.id = y.id => x = y
    BY <2>1 DEF OriginInv
  <2>3. \A m : Sourced(m) => Sourced(m)'
    BY <2>1 DEF Sourced
  <2> QED
    BY <2>1, <2>2, <2>3 DEF OriginInv
<1>3. CASE Restart \/ UpgradeData \/ UpgradeSchema
  <2>1. /\ UNCHANGED raw /\ (index' = index \/ index' = {})
        /\ \A q \in Syncers : pc'[q] = "idle"
    BY <1>3 DEF Restart, UpgradeData, UpgradeSchema, Forget
  <2> QED
    BY <2>1 DEF OriginInv, Sourced
<1>4. CASE Tick \/ StepBack
  BY <1>1, <1>4 DEF Tick, StepBack, storeVars, actorVars
<1> QED
  BY <1>1, <1>2, <1>3, <1>4, OriginInvSync, OthersKeepComplete DEF vars, completeVars

LEMMA FoundInvRead ==
  ASSUME TypeOK, NothingHidden, OriginInv, FoundInv, NEW r \in Readers, Read(r)
  PROVE  FoundInv'
<1>1. /\ rpc \in [Readers -> {"idle", "query", "seed", "cache", "live", "done"}]
      /\ read \in [Readers -> ReadRec]
      /\ state \in StateRow
  BY DEF TypeOK
<1>2. UNCHANGED raw
  BY DEF Read, ReadBegin, ReadQuery, ReadSeed, ReadCache, ReadLive, ReadEnd, envVars
<1>3. \A q \in Readers \ {r} : rpc'[q] = rpc[q] /\ read'[q] = read[q]
  BY <1>1 DEF Read, ReadBegin, ReadQuery, ReadSeed, ReadCache, ReadLive, ReadEnd
<1>4. /\ state.cutoff \in Nat /\ read[r].cut \in Nat
      /\ \A x \in raw : x.t \in Nat
  <2>1. read[r] \in ReadRec
    BY <1>1
  <2>2. read[r].cut \in Nat
    BY <2>1 DEF ReadRec, Time
  <2>3. state.cutoff \in Nat
    BY <1>1 DEF StateRow, Time
  <2>4. \A x \in raw : x.t \in Nat
    BY DEF TypeOK, RawRow, Time
  <2> QED
    BY <2>2, <2>3, <2>4
<1>5. CASE ReadBegin(r) \/ ReadQuery(r) \/ ReadSeed(r) \/ ReadEnd(r)
  <2>1. rpc'[r] \notin {"live", "done"}
    BY <1>1, <1>5 DEF ReadBegin, ReadQuery, ReadSeed, ReadEnd
  <2>2. read'[r].need \in {{}, raw, read[r].need}
    <3>1. CASE ReadBegin(r)
      BY <1>1, <3>1 DEF ReadBegin, NoRead
    <3>2. CASE ReadQuery(r)
      <4>1. read'[r] = [read[r] EXCEPT !.cut = state.cutoff]
        BY <1>1, <3>2 DEF ReadQuery
      <4> QED
        BY <1>1, <4>1 DEF ReadRec
    <3>3. CASE ReadSeed(r) \/ ReadEnd(r)
      BY <1>1, <3>3 DEF ReadSeed, ReadEnd, NoRead
    <3> QED
      BY <1>5, <3>1, <3>2, <3>3
  <2> QED
    BY <1>2, <1>3, <2>1, <2>2 DEF FoundInv
<1>6. CASE ReadCache(r)
  <2> DEFINE got == IdsOf({m \in index : m.t < read[r].cut})
             behind == state.cutoff < read[r].cut
  <2>1. /\ rpc'[r] = "live"
        /\ read'[r].need = read[r].need /\ read'[r].cut = read[r].cut
        /\ read'[r].got = got /\ read'[r].behind = behind
    BY <1>1, <1>6 DEF ReadCache, ReadRec
  <2>2. ASSUME ~behind, NEW x \in read[r].need, x.t < read[r].cut
        PROVE  x.id \in got
    <3>1. x \in raw /\ x.t \in Nat
      BY <1>4 DEF FoundInv
    <3>2. x.t < state.cutoff /\ state.cutoff > 0
      BY <1>4, <2>2, <3>1
    <3>3. PICK m \in index : m.id = x.id
      BY <3>1, <3>2 DEF NothingHidden
    <3>4. m.t = x.t
      BY <3>1, <3>3 DEF OriginInv, Sourced
    <3> QED
      BY <2>2, <3>3, <3>4 DEF IdsOf
  <2> HIDE DEF got, behind
  <2> QED
    BY <1>2, <1>3, <2>1, <2>2 DEF FoundInv
<1>7. CASE ReadLive(r)
  <2> DEFINE live == IdsOf({x \in raw : read[r].cut <= x.t})
  <2>1. /\ rpc[r] = "live" /\ rpc'[r] = "done"
        /\ read'[r].need = read[r].need /\ read'[r].behind = read[r].behind
        /\ read'[r].got = read[r].got \union live
    BY <1>1, <1>7 DEF ReadLive, ReadRec
  <2>2. \A x \in read[r].need : x.t < read[r].cut \/ x.id \in live
    BY <1>4 DEF FoundInv, IdsOf
  <2> HIDE DEF live
  <2> QED
    BY <1>2, <1>3, <2>1, <2>2 DEF FoundInv
<1> QED
  BY <1>5, <1>6, <1>7 DEF Read

LEMMA FoundInvNext ==
  TypeOK /\ NothingHidden /\ OriginInv /\ FoundInv /\ [Next]_vars => FoundInv'
<1> SUFFICES ASSUME TypeOK, NothingHidden, OriginInv, FoundInv, [Next]_vars
             PROVE  FoundInv'
  OBVIOUS
<1>1. ASSUME UNCHANGED <<rpc, read>>, raw \subseteq raw' PROVE FoundInv'
  BY <1>1 DEF FoundInv
<1>2. ASSUME NEW p \in Syncers, Sync(p) PROVE FoundInv'
  <2>1. CASE Publish(p)
    <3>1. UNCHANGED <<raw, rpc>>
      BY <2>1 DEF Publish, envVars
    <3>2. \A r \in Readers : /\ read'[r].need = read[r].need /\ read'[r].cut = read[r].cut
                             /\ read'[r].got = read[r].got
                             /\ read'[r].behind = read[r].behind
      BY <2>1 DEF Publish, TypeOK, ReadRec
    <3> QED
      BY <3>1, <3>2 DEF FoundInv
  <2>2. CASE ~Publish(p)
    BY <1>1, <1>2, <2>2
       DEF Sync, Begin, Probe, Acquire, Skip, Inspect, InspectUnavailable,
           GiveUpUnavailable, Collect, CollectFails, Commit, WriteFails, ReleaseLock,
           envVars
  <2> QED
    BY <2>1, <2>2
<1>3. CASE Restart \/ UpgradeData \/ UpgradeSchema
  BY <1>3 DEF Restart, UpgradeData, UpgradeSchema, Forget, FoundInv, NoRead
<1>4. CASE \/ Tick \/ StepBack \/ ChangeAvailability
           \/ \E i \in Ids, t \in 0..MaxNow : Arrive(i, t)
           \/ \E q \in 0..MaxPrice : ChangePricing(q)
           \/ OtherSourceWrites \/ OtherSourceEnds \/ UNCHANGED vars
  BY <1>1, <1>4
     DEF Tick, StepBack, ChangeAvailability, Arrive, ChangePricing, OtherSourceWrites,
         OtherSourceEnds, storeVars, actorVars, vars
<1> QED
  BY <1>2, <1>3, <1>4, FoundInvRead DEF Next, Env

\* Nobody sees a gap: a read that was split at a watermark as old as it may be, and
\* whose cached half is read while syncs, failures and restarts go on, shows every
\* row that was there when it began, unless the stored cutoff had moved back behind
\* the split meanwhile (sourceMemo and the split reads of internal/cache/source.go).
THEOREM SplitReadsAreComplete ==
  ASSUME ~ClockMayStep
  PROVE  Spec => []ReadsComplete
<1>1. Init => OriginInv /\ FoundInv
  BY DEF Init, OriginInv, FoundInv, Sourced, NoRead
<1>2. TypeOK /\ NothingHidden /\ OriginInv /\ FoundInv /\ [Next]_vars
        => OriginInv' /\ FoundInv'
  BY OriginInvNext, FoundInvNext
<1>3. TypeOK /\ FoundInv => ReadsComplete
  BY DEF FoundInv, ReadsComplete, IdsOf
<1> QED
  BY <1>1, <1>2, <1>3, TypeCorrect, NothingIsHidden, PTL DEF Spec
=============================================================================
