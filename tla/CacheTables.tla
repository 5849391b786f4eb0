----------------------------- MODULE CacheTables -----------------------------
(***************************************************************************)
(* The tables of one source in the dashboard's SQLite cache, and what one  *)
(* write transaction does to them (internal/cache/store.go).               *)
(*                                                                         *)
(* Time is a natural number of ticks, Hour ticks to a clock hour.  A row   *)
(* of raw data is an id and its creation time; a cached row also carries   *)
(* the pricing it was costed with and the data version of the program that *)
(* normalised it.  An aggregate (a SUM or COUNT of SQLite) is represented  *)
(* by the set of the rows it was computed from.                            *)
(***************************************************************************)
EXTENDS Integers, FiniteSets

CONSTANTS Hour,        \* ticks in one clock hour
          SafetyDelay  \* DefaultSyncSafetyDelay, in ticks

ASSUME HourAssumption == Hour \in Nat \ {0}
ASSUME SafetyDelayAssumption == SafetyDelay \in Nat

Trunc(t) == (t \div Hour) * Hour

\* The finality boundary requested by a sync that starts at time t.
DefaultSafeCutoff(t) == Trunc(t - SafetyDelay)

LaterOf(s, t) == IF s < t THEN t ELSE s
EarlierOf(s, t) == IF s < t THEN s ELSE t

IdsOf(rows) == {r.id : r \in rows}

\* Collection keeps the half-open window [since, cutoff).
InWindow(r, since, cutoff) == since <= r.t /\ r.t < cutoff

\* Mutant: collection without the upper bound.
CollectedUnbounded(raw, since, cutoff, price, dv) ==
  {[id |-> r.id, t |-> r.t, price |-> price, dv |-> dv] :
     r \in {x \in raw : since <= x.t}}

Collected(raw, since, cutoff, price, dv) ==
  {[id |-> r.id, t |-> r.t, price |-> price, dv |-> dv] :
     r \in {x \in raw : InWindow(x, since, cutoff)}}

-----------------------------------------------------------------------------
(* message_index *)

\* INSERT ... ON CONFLICT(source_id, message_id) DO UPDATE.
\* Mutant: a plain INSERT.
InsertOnly(index, rows) == index \union rows

Upsert(index, rows) == {m \in index : m.id \notin IdsOf(rows)} \union rows

Boundary(since, cutoff) == EarlierOf(since, cutoff)

\* What fillSource leaves in message_index.
FillIndex(index, rows, since, cutoff) ==
  Upsert({m \in index : m.t < Boundary(since, cutoff)}, rows)

-----------------------------------------------------------------------------
(* hourly_usage and the overview_hourly family: one group per clock hour.  *)
(* A member is a cached row a bucket's sums include.                       *)

HourlyOf(index) == {[bucket |-> Trunc(m.t), member |-> m] : m \in index}

\* Mutant: the bucket the boundary falls in is not rebuilt.
RefreshHourlyLate(hourly, index, boundary) ==
  {h \in hourly : h.bucket <= Trunc(boundary)}
    \union HourlyOf({m \in index : m.t >= Trunc(boundary) + Hour})

\* refreshHourlyUsage, refreshOverviewHourly: buckets from the boundary's hour on.
RefreshHourly(hourly, index, boundary) ==
  {h \in hourly : h.bucket < Trunc(boundary)}
    \union HourlyOf({m \in index : m.t >= Trunc(boundary)})

(* sessions: MIN, MAX, COUNT and SUM over the rows of one session.         *)

MembersOf(index, s) == {m \in index : m.s = s}

\* refreshChangedSessionRollups; an empty member set is a deleted session row.
RefreshSessions(sessions, index, changed) ==
  [s \in DOMAIN sessions |->
     IF s \in changed THEN MembersOf(index, s) ELSE sessions[s]]

(* tool_index: the tool rows of a message carry its time.                  *)

ToolsOf(rows) == {[id |-> m.id, t |-> m.t] : m \in rows}

\* Mutant: without deleteToolsForMessages.
FillToolsUnmatched(tools, rows, boundary) ==
  {x \in tools : x.t < boundary} \union ToolsOf(rows)

FillTools(tools, rows, boundary) ==
  {x \in tools : x.t < boundary /\ x.id \notin IdsOf(rows)} \union ToolsOf(rows)

=============================================================================
