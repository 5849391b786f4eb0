----------------------------- MODULE UsageReads -----------------------------
(***************************************************************************)
(* What a source answers from all of its rows: the reads that five sources *)
(* implement over their snapshot (internal/source/claudecode/aggregate.go  *)
(* and its siblings) and that the cached source has to reproduce.          *)
(*                                                                         *)
(* A row is a message: its id, time, session, role, model, cost, cost      *)
(* status and the number of calls of each tool.  Token columns are sums    *)
(* like the cost.  Costs are powers of two, so that a sum tells which rows *)
(* it counts.                                                              *)
(***************************************************************************)
EXTENDS WindowSplit, FiniteSets, FiniteSetsExt, Sequences, SequencesExt

CONSTANTS ProjectOf,  \* the project of every session
          Tools       \* the tools messages call

NoModel == "no model"
NoFilter == "any"

Assistants(rows) == {r \in rows : r.role = "assistant"}
Within(rows, w) == {r \in rows : Covers(w, r.t)}
SessionsOf(rows) == {r.s : r \in rows}
DaysOf(rows) == {TruncDay(r.t) : r \in rows}
RowCost(r) == r.cost
ModelRows(rows) == {r \in Assistants(rows) : r.model # NoModel}

\* The model filter: inactive, it lets every role through.
Matching(rows, f) == IF f = NoFilter THEN rows ELSE {r \in ModelRows(rows) : r.model = f}

\* The status of a total: that of its requests, or mixed.
Combined(statuses) ==
  CASE statuses = {} -> "none"
    [] Cardinality(statuses) = 1 -> CHOOSE s \in statuses : TRUE
    [] OTHER -> "mixed"

\* The figures of a set of groups of rows: sums add up over the groups,
\* sessions and cost statuses are counted once.
Tally(groups) ==
  LET all == UNION groups
  IN  [messages |-> MapThenSumSet(Cardinality, groups),
       requests |-> MapThenSumSet(LAMBDA g : Cardinality(Assistants(g)), groups),
       cost     |-> MapThenSumSet(LAMBDA g : MapThenSumSet(RowCost, g), groups),
       sessions |-> Cardinality(SessionsOf(all)),
       status   |-> Combined({r.status : r \in Assistants(all)})]

Zero == Tally({})

OverviewOf(groups) == [tally |-> Tally(groups), days |-> Cardinality(DaysOf(UNION groups))]

\* The bucket of a moment in a trend.
BucketKey(t, gran) == IF gran = "hour" THEN TruncHour(t) ELSE TruncDay(t)
BucketStep(gran) == IF gran = "hour" THEN Hour ELSE Day

\* The buckets a trend shows, empty ones included.
BucketKeys(w, gran) == {k \in w.start - BucketStep(gran) .. w.end - 1 :
                          k >= BucketKey(w.start, gran) /\ k = BucketKey(k, gran)}

Keyed(rows, k, gran) == {r \in rows : BucketKey(r.t, gran) = k}

-----------------------------------------------------------------------------
(* Aggregates of a window                                                  *)

LiveOverview(rows, w, f) == OverviewOf({Matching(Within(rows, w), f)})

LiveDaily(rows, w, gran, f) ==
  [k \in BucketKeys(w, gran) |-> Tally({Keyed(Matching(Within(rows, w), f), k, gran)})]

LiveModels(rows, w) ==
  LET shown == ModelRows(Within(rows, w))
  IN  [m \in {r.model : r \in shown} |-> Tally({{r \in shown : r.model = m}})]

Projects(rows) == {ProjectOf[r.s] : r \in rows}
OfProject(rows, p) == {r \in rows : ProjectOf[r.s] = p}

LiveProjects(rows, w) ==
  LET shown == Within(rows, w)
  IN  [p \in Projects(shown) |-> Tally({OfProject(shown, p)})]

Calls(rows, tool) == MapThenSumSet(LAMBDA r : r.calls[tool], rows)
Callers(rows, tool) == {r \in rows : r.calls[tool] > 0}

ToolEntry(rows, tool) ==
  [invocations |-> Calls(rows, tool), sessions |-> Cardinality(SessionsOf(Callers(rows, tool)))]

LiveTools(rows, w) ==
  LET shown == Within(rows, w)
  IN  [tool \in {x \in Tools : Callers(shown, x) # {}} |-> ToolEntry(shown, tool)]

\* A trend per dimension: assistant rows by bucket and value.  A message
\* counts once for each tool it calls.
InDimension(rows, dim, value) ==
  CASE dim = "model"   -> {r \in ModelRows(rows) : r.model = value}
    [] dim = "project" -> {r \in Assistants(rows) : ProjectOf[r.s] = value}
    [] dim = "tool"    -> {r \in Assistants(rows) : r.calls[value] > 0}

Values(rows, dim) ==
  CASE dim = "model"   -> {r.model : r \in ModelRows(rows)}
    [] dim = "project" -> Projects(Assistants(rows))
    [] dim = "tool"    -> {x \in Tools : Callers(Assistants(rows), x) # {}}

LiveDimension(rows, w, dim, gran) ==
  LET shown == Within(rows, w)
      cells == {c \in {BucketKey(r.t, gran) : r \in shown} \X Values(shown, dim) :
                  InDimension(Keyed(shown, c[1], gran), dim, c[2]) # {}}
  IN  [c \in cells |-> Tally({InDimension(Keyed(shown, c[1], gran), dim, c[2])})]

-----------------------------------------------------------------------------
(* Lists                                                                   *)

Field(r, sort) == IF sort.by = "cost" THEN r.cost ELSE r.t

\* Order of the message list; ids break ties upwards in both directions.
MessageLess(a, b, sort) ==
  \/ Field(a, sort) = Field(b, sort) /\ a.id < b.id
  \/ sort.asc /\ Field(a, sort) < Field(b, sort)
  \/ ~ sort.asc /\ Field(a, sort) > Field(b, sort)

SortedMessages(rows, sort) == SetToSortSeq(rows, LAMBDA a, b : MessageLess(a, b, sort))

\* Rows offset + 1 to offset + limit of a list, as far as it goes.
Slice(list, offset, limit) ==
  SubSeq(list, offset + 1, EarlierOf(offset + limit, Len(list)))

LiveMessages(rows, w, f, page, limit, sort) ==
  LET shown == Matching(Within(rows, w), f)
  IN  [total |-> Cardinality(shown),
       page  |-> Slice(SortedMessages(shown, sort), (page - 1) * limit, limit)]

\* Order of the session list.
SessionLess(a, b, mode) ==
  LET newer == a.created > b.created \/ (a.created = b.created /\ a.s < b.s)
  IN  CASE mode = "newest"   -> newer
        [] mode = "oldest"   -> a.created < b.created \/ (a.created = b.created /\ a.s < b.s)
        [] mode = "cost"     -> a.cost > b.cost \/ (a.cost = b.cost /\ newer)
        [] mode = "messages" -> a.count > b.count \/ (a.count = b.count /\ newer)

SortedSessions(entries, mode) == SetToSortSeq(entries, LAMBDA a, b : SessionLess(a, b, mode))
=============================================================================
