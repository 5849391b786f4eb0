---------------------------- MODULE CachedReads ----------------------------
(***************************************************************************)
(* Reads of the cached source (internal/cache/source.go): the part of the  *)
(* window before the finality cutoff is answered by the cache, the rest by *)
(* the live source, and the two halves are merged (merge.go,               *)
(* merge_lists.go).  UsageReads says what the answer has to be.            *)
(*                                                                         *)
(* A read happens in one state: what can happen between its steps is the   *)
(* subject of CacheStore and GapRead.  It splits at the memoized cutoff,   *)
(* which is behind the stored one while a commit has not dropped it yet.   *)
(***************************************************************************)
EXTENDS UsageReads

CONSTANTS Pool,     \* rows that may be written, at most one per moment
          Early,    \* sessions whose record is older than their first row
          Start,    \* first moment; earlier rows of the pool may exist
          End,      \* last moment
          Legacy    \* cutoffs that an older version may have left

VARIABLES now,    \* the clock
          raw,    \* the rows of the source
          cutoff, \* source_state.last_safe_cutoff_ms, 0 if never consolidated
          memo    \* the cutoff that reads know

vars == <<now, raw, cutoff, memo>>

\* Every row before the cutoff is cached, none behind it.
Index == {r \in raw : r.t < cutoff}

\* The rows that the gap fetch pages out of the live source.
Gap(w, f) == Matching(Within(raw, LivePart(w, memo)), f)

-----------------------------------------------------------------------------
(* Windows of the cache                                                    *)

ObservedWindow ==
  IF Index = {} THEN Window(TruncDay(now), NextMidnight(now))
  ELSE Window(Min({TruncDay(r.t) : r \in Index}), Max({TruncDay(r.t) : r \in Index}) + Day)

\* The cache resolves the period itself; the split hands it the cutoff as end.
StoreWindow(pq) ==
  LET w == IF pq = AllTime THEN ObservedWindow ELSE Resolve(pq, now)
  IN  Window(w.start, EarlierOf(w.end, memo))

\* What the hourly rollups keep of the whole hours of a window.
RollupGroups(w, f) ==
  {Matching({r \in Index : TruncHour(r.t) = h}, f) : h \in {TruncHour(r.t) : r \in Within(Index, FullHours(w))}}

\* The rows of the fragments of hours at the edges.
EdgeGroups(w, f) == {Matching(Within(Index, e), f) : e \in Edges(w)}

CachedGroups(w, f) == RollupGroups(w, f) \union EdgeGroups(w, f)

\* Cached rows that a merge looks sessions up in.
Seen(w, f) == Matching(Within(Index, CachedPart(w, memo)), f)

Overlap(gap, seen) == Cardinality(SessionsOf(gap) \intersect SessionsOf(seen))

MergeStatus(a, b) == IF b = "none" THEN a ELSE IF a \in {"none", b} THEN b ELSE "mixed"

\* Two halves of a figure; both count the sessions they share.
Merge(a, b, shared) ==
  [messages |-> a.messages + b.messages, requests |-> a.requests + b.requests,
   cost |-> a.cost + b.cost, sessions |-> a.sessions + b.sessions - shared,
   status |-> MergeStatus(a.status, b.status)]

At(f, x) == IF x \in DOMAIN f THEN f[x] ELSE Zero

-----------------------------------------------------------------------------
(* Overview                                                                *)

\* Mutant: the day of the cutoff counts on both sides.
MergeOverviewDays(c, gap, w, f) ==
  [tally |-> Merge(c.tally, Tally({gap}), Overlap(gap, Seen(w, f))),
   days  |-> c.days + Cardinality(DaysOf(gap))]

MergeOverview(c, gap, w, f) ==
  LET boundary == TruncDay(memo)
      active == \E r \in Seen(w, f) : r.t >= boundary
      shared == IF boundary \in DaysOf(gap) /\ active THEN 1 ELSE 0
  IN  [tally |-> Merge(c.tally, Tally({gap}), Overlap(gap, Seen(w, f))),
       days  |-> c.days + Cardinality(DaysOf(gap)) - shared]

Overview(pq, f) ==
  LET w == Resolve(pq, now)
      c == OverviewOf(CachedGroups(StoreWindow(pq), f))
  IN  IF ~ HasCache(w, memo) THEN LiveOverview(raw, LivePart(w, memo), f)
      ELSE IF ~ HasLive(w, memo) \/ Gap(w, f) = {} THEN c
      ELSE MergeOverview(c, Gap(w, f), w, f)

-----------------------------------------------------------------------------
(* Trends                                                                  *)

\* The hourly trend of the cache starts with a whole hour.
TrendWindow(w, gran) ==
  IF gran = "day" THEN w ELSE Window(TruncHour(w.start), LaterOf(w.end, TruncHour(w.start) + 1))

CachedDaily(w, gran, f) ==
  LET v == TrendWindow(w, gran)
      groups == CachedGroups(v, f)
  IN  [k \in BucketKeys(v, gran) |-> Tally({Keyed(g, k, gran) : g \in groups})]

\* An hour is finalized, live, or split by a cutoff that is not at full hour.
MergeHour(c, gap, k) ==
  CASE k + Hour <= memo -> At(c, k)
    [] k >= memo -> Tally({Keyed(gap, k, "hour")})
    [] OTHER -> Merge(At(c, k), Tally({Keyed(gap, k, "hour")}), 0)

\* Mutant: sessions that span the cutoff are counted twice.
MergeDayTwice(c, gap, w, f, k) == Merge(At(c, k), Tally({Keyed(gap, k, "day")}), 0)

\* Sessions can only be on both sides on the day of the cutoff.
MergeDay(c, gap, w, f, k) ==
  LET day == Keyed(gap, k, "day")
      shared == IF k = TruncDay(memo) /\ k \in DOMAIN c
                THEN Overlap(day, {r \in Seen(w, f) : r.t >= k}) ELSE 0
  IN  Merge(At(c, k), Tally({day}), shared)

Daily(pq, gran, f) ==
  LET w == Resolve(pq, now)
      c == CachedDaily(StoreWindow(pq), gran, f)
      gap == Gap(w, f)
  IN  IF ~ HasCache(w, memo) THEN LiveDaily(raw, LivePart(w, memo), gran, f)
      ELSE IF ~ HasLive(w, memo) THEN c
      ELSE [k \in BucketKeys(w, gran) |->
              IF gran = "hour" THEN MergeHour(c, gap, k)
              ELSE IF Keyed(gap, k, gran) = {} THEN At(c, k) ELSE MergeDay(c, gap, w, f, k)]

-----------------------------------------------------------------------------
(* Breakdowns                                                              *)

\* Mutant: a session with finalized rows of any kind counts as shared.
MergeEntriesAnyRow(c, gap, seen) ==
  [x \in DOMAIN c \union DOMAIN gap |->
     Merge(At(c, x), Tally({gap[y] : y \in DOMAIN gap \intersect {x}}),
           IF x \in DOMAIN c /\ x \in DOMAIN gap THEN Overlap(gap[x], UNION {seen[y] : y \in DOMAIN seen}) ELSE 0)]

\* Entries by model or project: gap and seen give the rows of every entry.
MergeEntries(c, gap, seen) ==
  [x \in DOMAIN c \union DOMAIN gap |->
     Merge(At(c, x), Tally({gap[y] : y \in DOMAIN gap \intersect {x}}),
           IF x \in DOMAIN c /\ x \in DOMAIN gap THEN Overlap(gap[x], seen[x]) ELSE 0)]

ByModel(rows) ==
  LET shown == ModelRows(rows)
  IN  [m \in {r.model : r \in shown} |-> {r \in shown : r.model = m}]

ByProject(rows) == [p \in Projects(rows) |-> OfProject(rows, p)]

CachedModels(w) ==
  LET groups == {ModelRows(g) : g \in CachedGroups(w, NoFilter)}
  IN  [m \in {r.model : r \in UNION groups} |-> Tally({{r \in g : r.model = m} : g \in groups})]

Models(pq) ==
  LET w == Resolve(pq, now)
  IN  IF ~ HasCache(w, memo) THEN LiveModels(raw, LivePart(w, memo))
      ELSE IF ~ HasLive(w, memo) THEN CachedModels(StoreWindow(pq))
      ELSE MergeEntries(CachedModels(StoreWindow(pq)), ByModel(Gap(w, NoFilter)), ByModel(Seen(w, NoFilter)))

ProjectEntries(pq) ==
  LET w == Resolve(pq, now)
      c == LiveProjects(Index, StoreWindow(pq))
  IN  IF ~ HasCache(w, memo) THEN LiveProjects(raw, LivePart(w, memo))
      ELSE IF ~ HasLive(w, memo) THEN c
      ELSE MergeEntries(c, ByProject(Gap(w, NoFilter)), ByProject(Seen(w, NoFilter)))

MergeTools(c, g) ==
  LET none == [invocations |-> 0, sessions |-> 0]
      entry(f, x) == IF x \in DOMAIN f THEN f[x] ELSE none
  IN  [x \in DOMAIN c \union DOMAIN g |->
         [invocations |-> entry(c, x).invocations + entry(g, x).invocations,
          sessions    |-> entry(c, x).sessions + entry(g, x).sessions]]

ToolEntries(pq) ==
  LET w == Resolve(pq, now)
      c == LiveTools(Index, StoreWindow(pq))
      g == LiveTools(raw, LivePart(w, memo))
  IN  IF ~ HasCache(w, memo) THEN g ELSE IF ~ HasLive(w, memo) THEN c ELSE MergeTools(c, g)

\* In the trend by tool, the cache counts calls and not messages.
CachedDimension(w, dim, gran) ==
  LET cells == LiveDimension(Index, w, dim, gran)
      calls(c) == Calls(Keyed(Within(Index, w), c[1], gran), c[2])
  IN  IF dim # "tool" THEN cells
      ELSE [c \in DOMAIN cells |-> [Zero EXCEPT !.messages = calls(c), !.sessions = cells[c].sessions]]

DailyDimension(pq, dim, gran) ==
  LET w == Resolve(pq, now)
      c == CachedDimension(StoreWindow(pq), dim, gran)
      g == LiveDimension(raw, LivePart(w, memo), dim, gran)
  IN  IF ~ HasCache(w, memo) THEN g
      ELSE IF ~ HasLive(w, memo) THEN c
      ELSE [x \in DOMAIN c \union DOMAIN g |-> Merge(At(c, x), At(g, x), 0)]

-----------------------------------------------------------------------------
(* Lists                                                                   *)

MessagesSlice(w, f, offset, limit, sort) ==
  Slice(SortedMessages(Matching(Within(Index, w), f), sort), offset, LaterOf(0, limit))

\* Mutant: the rows of the page are looked for among as many cached ones.
MergedPageShort(w, f, gap, offset, limit, sort) ==
  Slice(SortedMessages(ToSet(MessagesSlice(w, f, 0, limit, sort)) \union gap, sort), offset, limit)

\* Sorted by cost: the first offset + limit cached rows and all recent ones.
MergedPage(w, f, gap, offset, limit, sort) ==
  Slice(SortedMessages(ToSet(MessagesSlice(w, f, 0, offset + limit, sort)) \union gap, sort), offset, limit)

\* Sorted by time: one half follows the other.
Newest(w, f, recent, offset, limit, sort) ==
  LET head == Slice(recent, offset, limit)
  IN  head \o MessagesSlice(w, f, LaterOf(0, offset - Len(recent)), limit - Len(head), sort)

Oldest(w, f, recent, total, offset, limit, sort) ==
  LET head == MessagesSlice(w, f, offset, limit, sort)
  IN  head \o Slice(recent, LaterOf(0, offset - total), limit - Len(head))

Messages(pq, f, page, limit, sort) ==
  LET w == Resolve(pq, now)
      sw == StoreWindow(pq)
      cached == Matching(Within(Index, sw), f)
      gap == Gap(w, f)
      offset == (page - 1) * limit
  IN  IF ~ HasCache(w, memo) THEN LiveMessages(raw, LivePart(w, memo), f, page, limit, sort)
      ELSE IF ~ HasLive(w, memo) THEN LiveMessages(Index, sw, f, page, limit, sort)
      ELSE [total |-> Cardinality(cached) + Cardinality(gap),
            page |-> CASE sort.by = "cost" -> MergedPage(sw, f, gap, offset, limit, sort)
                       [] sort.asc -> Oldest(sw, f, SortedMessages(gap, sort), Cardinality(cached), offset, limit, sort)
                       [] OTHER -> Newest(sw, f, SortedMessages(gap, sort), offset, limit, sort)]

\* Mutant: no more cached sessions are ranked than a page has.
RankLimitPage(offset, size) == size

\* Cached sessions to rank for a page.
RankLimit(offset, size) == offset + size

\* A session of the list: figures of the window; created is what the source
\* says, or the first message where only the cache knows it.
FirstRow(rows, s) == Min({r.t : r \in {x \in rows : x.s = s}})
Created(s) == IF s \in Early THEN 0 ELSE FirstRow(raw, s)
Entry(rows, s, created) ==
  [s |-> s, created |-> created, count |-> Cardinality({r \in rows : r.s = s}),
   cost |-> MapThenSumSet(RowCost, {r \in rows : r.s = s})]

CachedSessions(w) ==
  LET shown == Within(Index, w) IN {Entry(shown, s, FirstRow(Index, s)) : s \in SessionsOf(shown)}

LiveSessions(w) ==
  LET shown == Within(raw, w) IN {Entry(shown, s, Created(s)) : s \in SessionsOf(shown)}

Top(entries, mode, n) == ToSet(Slice(SortedSessions(entries, mode), 0, n))

MergeSession(c, g) ==
  [g EXCEPT !.created = EarlierOf(c.created, g.created), !.count = @ + c.count, !.cost = @ + c.cost]

\* Mutant: only the best ranked cached sessions are candidates.
CandidatesRanked(cached, gap, mode, n) ==
  LET ranked == Top(cached, mode, n)
  IN  {c \in ranked : \A g \in gap : g.s # c.s}
        \union {g \in gap : \A c \in ranked : g.s # c.s}
        \union {MergeSession(p[1], p[2]) : p \in {x \in ranked \X gap : x[1].s = x[2].s}}

\* The best ranked cached sessions, and every session with recent messages.
Candidates(cached, gap, mode, n) ==
  {c \in Top(cached, mode, n) : \A g \in gap : g.s # c.s}
    \union {g \in gap : \A c \in cached : g.s # c.s}
    \union {MergeSession(p[1], p[2]) : p \in {x \in cached \X gap : x[1].s = x[2].s}}

Sessions(pq, page, size, mode) ==
  LET w == Resolve(pq, now)
      cached == CachedSessions(StoreWindow(pq))
      gap == LiveSessions(LivePart(w, memo))
      offset == (page - 1) * size
      shown == CASE ~ HasCache(w, memo) -> gap
                 [] ~ HasLive(w, memo) -> cached
                 [] OTHER -> Candidates(cached, gap, mode, RankLimit(offset, size))
      both == {s \in SessionsOf(cached) : s \in SessionsOf(gap)}
  IN  [total |-> CASE ~ HasCache(w, memo) -> Cardinality(gap)
                   [] ~ HasLive(w, memo) -> Cardinality(cached)
                   [] OTHER -> Cardinality(cached) + Cardinality(gap) - Cardinality(both),
       page |-> Slice(SortedSessions(shown, mode), offset, size)]

\* The sessions of a project, whatever the window: whole-session figures of the
\* sessions table, to which the recent messages are added.
CachedRecent(p) == {Entry(OfProject(Index, p), s, FirstRow(Index, s)) : s \in SessionsOf(OfProject(Index, p))}

AddRecent(c, g) == [c EXCEPT !.count = @ + g.count, !.cost = @ + g.cost]

RecentCandidates(cached, gap, n) ==
  {c \in Top(cached, "newest", n) : \A g \in gap : g.s # c.s}
    \union {g \in gap : \A c \in cached : g.s # c.s}
    \union {AddRecent(x[1], x[2]) : x \in {y \in cached \X gap : y[1].s = y[2].s}}

\* A page of the sessions of a project, in a window that the cache answers.
ProjectSessions(pq, p, page, size) ==
  LET w == Resolve(pq, now)
      rows == OfProject(Within(raw, LivePart(w, memo)), p)
      gap == IF HasLive(w, memo) THEN {Entry(rows, s, Created(s)) : s \in SessionsOf(rows)} ELSE {}
      cached == CachedRecent(p)
      offset == (page - 1) * size
  IN  [total |-> Cardinality(cached) + Cardinality({g \in gap : \A c \in cached : c.s # g.s}),
       page |-> Slice(SortedSessions(RecentCandidates(cached, gap, RankLimit(offset, size)), "newest"), offset, size)]

-----------------------------------------------------------------------------
(* The source and its consolidation                                        *)

Init ==
  /\ now = Start
  /\ raw \in SUBSET {r \in Pool : r.t < Start}
  /\ cutoff \in Legacy
  /\ memo = cutoff

Arrive(r) ==
  /\ r \in Pool \ raw /\ r.t = now
  /\ raw' = raw \union {r}
  /\ UNCHANGED <<now, cutoff, memo>>

Tick ==
  /\ now < End
  /\ now' = now + 1
  /\ UNCHANGED <<raw, cutoff, memo>>

\* A job commits everything up to a full hour; readers learn of it later.
Consolidate(c) ==
  /\ cutoff < c /\ c <= now /\ c = TruncHour(c)
  /\ cutoff' = c
  /\ UNCHANGED <<now, raw, memo>>

DropMemo ==
  /\ memo # cutoff
  /\ memo' = cutoff
  /\ UNCHANGED <<now, raw, cutoff>>

Next ==
  \/ \E r \in Pool : Arrive(r)
  \/ Tick
  \/ \E c \in 1..End : Consolidate(c)
  \/ DropMemo

Spec == Init /\ [][Next]_vars

-----------------------------------------------------------------------------
(* Properties                                                              *)

CONSTANTS Periods, Filters, Limits

\* A filter is refused as long as nothing is consolidated.
Answers(pq, f) == f = NoFilter \/ HasCache(Resolve(pq, now), memo)

\* The overview of a period has the figures that the source has for it, for
\* any period, model filter and position of the cutoff in it: no row is counted
\* twice or lost, no session or day is counted in both halves.
OverviewAgrees ==
  \A pq \in Periods, f \in Filters :
    Answers(pq, f) => Overview(pq, f) = LiveOverview(raw, Resolve(pq, now), f)

\* The buckets of a trend are those of the source.  By hour, the first bucket
\* is a whole hour as soon as the cache answers, and the hour that a cutoff of
\* an older version divides may count a session twice.
TrendAgrees ==
  \A pq \in Periods, f \in Filters, gran \in {"hour", "day"} :
    LET w == Resolve(pq, now)
        v == IF HasCache(w, memo) THEN TrendWindow(w, gran) ELSE w
        shown == Daily(pq, gran, f)
        due == LiveDaily(raw, v, gran, f)
        divided(k) == gran = "hour" /\ k < memo /\ memo < k + Hour
    IN  Answers(pq, f) =>
          \A k \in DOMAIN shown \union DOMAIN due :
            IF divided(k) THEN [At(shown, k) EXCEPT !.sessions = 0] = [At(due, k) EXCEPT !.sessions = 0]
            ELSE At(shown, k) = At(due, k)

\* Breakdowns by model, project and tool, and trends by model and project, add
\* up to those of the source.  Only tools and trends count a session twice that
\* is active on both sides of the cutoff, never more.
BreakdownsAgree ==
  \A pq \in Periods :
    LET w == Resolve(pq, now)
        tools == ToolEntries(pq)
        due == LiveTools(raw, w)
        atMost(n, m) == m <= n /\ n <= 2 * m
        spans == \E r \in Within(raw, w), q \in Within(raw, w) : r.s = q.s /\ r.t < memo /\ q.t >= memo
    IN  /\ Models(pq) = LiveModels(raw, w)
        /\ ProjectEntries(pq) = LiveProjects(raw, w)
        /\ DOMAIN tools = DOMAIN due
        /\ \A x \in DOMAIN due : /\ tools[x].invocations = due[x].invocations
                                 /\ atMost(tools[x].sessions, due[x].sessions)
                                 /\ spans \/ tools[x] = due[x]
        /\ \A dim \in {"model", "project"}, gran \in {"hour", "day"} :
             LET cells == DailyDimension(pq, dim, gran)
                 ref == LiveDimension(raw, w, dim, gran)
             IN  /\ DOMAIN cells = DOMAIN ref
                 /\ \A c \in DOMAIN ref :
                      /\ [cells[c] EXCEPT !.sessions = 0] = [ref[c] EXCEPT !.sessions = 0]
                      /\ IF c[1] = BucketKey(memo, gran) THEN atMost(cells[c].sessions, ref[c].sessions)
                         ELSE cells[c] = ref[c]

\* Overviews, trends and breakdowns together.
AggregatesAgree == OverviewAgrees /\ TrendAgrees /\ BreakdownsAgree

\* Every page of the message list, in either half or across the cutoff, is that
\* of one sorted list: paging through shows each message once.
MessagePagesExact ==
  \A pq \in Periods, f \in Filters, by \in {"time", "cost"}, asc \in BOOLEAN, limit \in Limits :
    LET w == Resolve(pq, now)
        sort == [by |-> by, asc |-> asc]
        count == Cardinality(Matching(Within(raw, w), f))
    IN  Answers(pq, f) =>
          \A page \in 1..(count \div limit) + 1 :
            Messages(pq, f, page, limit, sort) = LiveMessages(raw, w, f, page, limit, sort)

\* Every page of the session list is that of one sorted list, although only
\* the best ranked cached sessions are considered.
SessionPagesExact ==
  \A pq \in Periods, mode \in {"newest", "oldest", "cost", "messages"}, size \in Limits :
    LET w == Resolve(pq, now)
        shown == Within(raw, w)
        live == SessionsOf(Within(raw, LivePart(w, memo)))
        created(s) == IF HasLive(w, memo) /\ s \in live THEN Created(s) ELSE FirstRow(raw, s)
        all == SortedSessions({Entry(shown, s, created(s)) : s \in SessionsOf(shown)}, mode)
    IN  \A page \in 1..(Len(all) \div size) + 1 :
          Sessions(pq, page, size, mode) =
            [total |-> Len(all), page |-> Slice(all, (page - 1) * size, size)]

\* Every page of the sessions of a project lists them with all their finalized
\* messages and those of the recent window, each once.  Between a commit and the
\* drop of the memo, a read may count what was just finalized on both sides.
ProjectPagesExact ==
  \A pq \in Periods, p \in {ProjectOf[s] : s \in DOMAIN ProjectOf}, size \in Limits :
    LET w == Resolve(pq, now)
        rows == OfProject(Index \union (IF HasLive(w, memo) THEN Within(raw, LivePart(w, memo)) ELSE {}), p)
        all == SortedSessions({Entry(rows, s, FirstRow(raw, s)) : s \in SessionsOf(rows)}, "newest")
    IN  HasCache(w, memo) /\ memo = cutoff =>
          \A page \in 1..(Len(all) \div size) + 1 :
            ProjectSessions(pq, p, page, size) =
              [total |-> Len(all), page |-> Slice(all, (page - 1) * size, size)]

\* Paging through any list shows each entry once, in the order asked for.
PagesExact == MessagePagesExact /\ SessionPagesExact /\ ProjectPagesExact
=============================================================================
