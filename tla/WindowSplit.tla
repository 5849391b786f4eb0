----------------------------- MODULE WindowSplit -----------------------------
(***************************************************************************)
(* How a read of the dashboard resolves its period to a window of time and *)
(* divides it: at the finality cutoff between the cache and the live       *)
(* source (internal/cache/merge.go, query.go), and, inside the cache,      *)
(* between whole clock hours, which rollups answer, and the partial hours  *)
(* at the edges, which message_index answers (overview_rollup.go).         *)
(*                                                                         *)
(* Times are natural numbers of ticks and a window is half open.  A start  *)
(* of 0 is also the "no lower bound" of the period "all"; a cutoff of 0 is *)
(* that of a source that was never consolidated.                           *)
(***************************************************************************)
EXTENDS Integers

CONSTANTS Hour,  \* ticks in one clock hour
          Day    \* ticks in one UTC day

ASSUME HourAssumption == Hour \in Nat \ {0}
ASSUME DayAssumption == Day \in Nat \ {0} /\ Day % Hour = 0

TruncHour(t) == (t \div Hour) * Hour
TruncDay(t) == (t \div Day) * Day

Window(from, to) == [start |-> from, end |-> to]
Covers(w, t) == w.start <= t /\ t < w.end

EarlierOf(s, t) == IF s < t THEN s ELSE t
LaterOf(s, t) == IF s < t THEN t ELSE s

-----------------------------------------------------------------------------
(* Periods: a rolling number of hours, a number of calendar days, dates    *)
(* from-to, everything.                                                    *)

RollingHours(n) == [kind |-> "hours", n |-> n]
CalendarDays(n) == [kind |-> "days", n |-> n]
Dates(from, to) == [kind |-> "dates", from |-> from, to |-> to]
AllTime == [kind |-> "all"]

NextMidnight(now) == TruncDay(now) + Day

\* The window of a period, as the split resolves it at the time now.
Resolve(pq, now) ==
  CASE pq.kind = "hours" -> Window(LaterOf(0, now - pq.n * Hour), now)
    [] pq.kind = "days"  -> Window(LaterOf(0, NextMidnight(now) - pq.n * Day), NextMidnight(now))
    [] pq.kind = "dates" -> Window(pq.from * Day, pq.to * Day + Day)
    [] pq.kind = "all"   -> Window(0, now)

-----------------------------------------------------------------------------
(* The split at the finality cutoff                                        *)

\* Mutant: the live half starts behind the cutoff, where the cache has rows.
GapStartOverlaps(w, cutoff) == LaterOf(w.start, cutoff - 1)

GapStart(w, cutoff) == LaterOf(w.start, cutoff)

CachedPart(w, cutoff) == Window(w.start, EarlierOf(w.end, cutoff))
LivePart(w, cutoff) == Window(GapStart(w, cutoff), w.end)

HasLive(w, cutoff) == cutoff = 0 \/ cutoff < w.end

\* A window that neither half covers is served by the cache: an empty answer.
HasCache(w, cutoff) ==
  /\ cutoff # 0
  /\ w.start < EarlierOf(w.end, cutoff) \/ ~ HasLive(w, cutoff)

-----------------------------------------------------------------------------
(* The split of a cached window at whole hours                             *)

FirstFull(w) == IF TruncHour(w.start) < w.start THEN TruncHour(w.start) + Hour ELSE TruncHour(w.start)
LastFullEnd(w) == TruncHour(w.end)

HasFullHours(w) == w.start < w.end /\ FirstFull(w) < LastFullEnd(w)

\* The hours a rollup answers for the window.
FullHours(w) == IF HasFullHours(w) THEN Window(FirstFull(w), LastFullEnd(w)) ELSE Window(0, 0)

\* Mutant: the fragment before the first whole hour is forgotten.
EdgesTrailing(w) ==
  IF HasFullHours(w) THEN {e \in {Window(LastFullEnd(w), w.end)} : e.start < e.end}
  ELSE {e \in {w} : e.start < e.end}

\* The fragments of hours that have to be read row by row.
Edges(w) ==
  IF HasFullHours(w)
  THEN {e \in {Window(w.start, FirstFull(w)), Window(LastFullEnd(w), w.end)} : e.start < e.end}
  ELSE {e \in {w} : e.start < e.end}
=============================================================================
