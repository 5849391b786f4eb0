----------------------------- MODULE CacheRollups -----------------------------
(***************************************************************************)
(* The aggregate tables of one source against the message rows they are    *)
(* computed from (internal/cache/store.go).  fillSource touches only the   *)
(* suffix it replaces: the hours from the boundary on, the sessions with a *)
(* row in it, the tools of its messages.  Everything before must already   *)
(* agree.                                                                  *)
(***************************************************************************)
EXTENDS CacheTables

CONSTANTS Ids,        \* message ids
          SessionIds, \* session ids
          MessageSession, \* the session of every message
          MaxNow,     \* the clock stops here
          Lag,        \* longest delay between a row's time and its appearance,
                      \* at most SafetyDelay
          Undated     \* messages without a time of their own: they take their
                      \* file's, which moves when the file is appended to

VARIABLES now,
          raw,       \* rows visible in the source
          seen,      \* ids that ever were
          cutoff,    \* last_safe_cutoff_ms
          index,     \* message_index
          hourly,    \* hourly_usage, overview_hourly and their companions
          sessions,  \* sessions
          tools      \* tool_index

rollupVars == <<now, raw, seen, cutoff, index, hourly, sessions, tools>>
tables == <<cutoff, index, hourly, sessions, tools>>

Row(i, t) == [id |-> i, t |-> t, s |-> MessageSession[i]]

Agreed ==
  /\ hourly = HourlyOf(index)
  /\ sessions = [s \in SessionIds |-> MembersOf(index, s)]
  /\ tools = ToolsOf(index)

\* A cache that was never filled, or one inherited from a version that also
\* mirrored the recent window: any cutoff, rows on both sides of it.
RollupsInit ==
  /\ now = SafetyDelay + Hour
  /\ \E old \in SUBSET Ids, t \in [Ids -> 0..now] :
       raw = {Row(i, t[i]) : i \in old} /\ seen = old
  /\ \/ cutoff = 0 /\ index = {}
     \/ cutoff \in 1..(now - SafetyDelay) /\ index = raw
  /\ Agreed

Tick == now < MaxNow /\ now' = now + 1 /\ UNCHANGED <<raw, seen, tables>>

Arrive(i, t) ==
  /\ i \notin seen /\ seen' = seen \union {i}
  /\ t <= now /\ now <= t + Lag
  /\ raw' = raw \union {Row(i, t)}
  /\ UNCHANGED <<now, tables>>

\* The source drops a message.
Vanish(r) == r \in raw /\ raw' = raw \ {r} /\ UNCHANGED <<now, seen, tables>>

Restamp(r) ==
  /\ r \in raw /\ r.id \in Undated
  /\ raw' = (raw \ {r}) \union {Row(r.id, now)}
  /\ UNCHANGED <<now, seen, tables>>

\* replaceSource
Replace ==
  LET to == DefaultSafeCutoff(now)
      rows == {r \in raw : InWindow(r, 0, to)}
  IN  /\ cutoff' = to
      /\ index' = rows
      /\ hourly' = HourlyOf(rows)
      /\ sessions' = [s \in SessionIds |-> MembersOf(rows, s)]
      /\ tools' = ToolsOf(rows)
      /\ UNCHANGED <<now, raw, seen>>

\* Mutant: only the incoming rows name changed sessions.
ChangedSessionsIncoming(rows, boundary) == {r.s : r \in rows}

\* prepareChangedSessions
ChangedSessions(rows, boundary) ==
  {m.s : m \in {x \in index : x.t >= boundary}} \union {r.s : r \in rows}

\* fillSource
Fill ==
  LET to == Trunc(LaterOf(cutoff, DefaultSafeCutoff(now)))
      rows == {r \in raw : InWindow(r, cutoff, to)}
      boundary == Boundary(cutoff, to)
  IN  /\ cutoff' = to
      /\ index' = FillIndex(index, rows, cutoff, to)
      /\ tools' = FillTools(tools, rows, boundary)
      /\ sessions' = RefreshSessions(sessions, index', ChangedSessions(rows, boundary))
      /\ hourly' = RefreshHourly(hourly, index', boundary)
      /\ UNCHANGED <<now, raw, seen>>

RollupsNext ==
  \/ Tick
  \/ \E i \in Ids, t \in 0..MaxNow : Arrive(i, t)
  \/ \E r \in raw : Vanish(r) \/ Restamp(r)
  \/ Replace \/ Fill

RollupsSpec == RollupsInit /\ [][RollupsNext]_rollupVars

-----------------------------------------------------------------------------

\* Every hourly bucket sums exactly the cached rows of its hour, as far as dated
\* rows go: aligned overviews read the buckets and never the rows.  An undated
\* row that moves stays in the older bucket too, until a rebuild: its id leaves
\* the suffix before refreshHourlyUsage looks at it.
HourlyAgrees ==
  {h \in hourly : h.member.id \notin Undated} =
    HourlyOf({m \in index : m.id \notin Undated})

\* Every session row aggregates exactly the cached rows of its session, and a
\* session without rows has none: also when only a suffix was replaced.
SessionsAgree == \A s \in SessionIds : sessions[s] = MembersOf(index, s)

\* Tool rows follow their message, also one that was cached under another time.
ToolsAgree == tools = ToolsOf(index)

\* All three, after any sequence of full and suffix replacements.
RollupsAgree == HourlyAgrees /\ SessionsAgree /\ ToolsAgree
=============================================================================
