---------------------------- MODULE TerminalViews ----------------------------
(***************************************************************************)
(* The terminal dashboard (internal/tui): one model, changed by keys and   *)
(* by the results of loads that run meanwhile.  Results of the tabs are    *)
(* taken whenever they come; results of an overlay are taken by the id it  *)
(* is open for.                                                            *)
(*                                                                         *)
(* A row is chosen with a cursor; only that of the days is kept, for the   *)
(* tables any row of what is shown may be the one chosen.  Order stands    *)
(* for the sort and the filter of the sessions.                            *)
(***************************************************************************)
EXTENDS Integers, FiniteSets

CONSTANTS
  Sources, Periods, Orders,
  StartPeriod, StartOrder,  \* stats.DefaultPeriodPreset, newest first
  Days,       \* [Periods -> Nat \ {0}], of the Daily tab
  Pages,      \* of sessions, of messages of a day, of sessions of a project
  MaxLoads, MaxChanges  \* bounds

VARIABLES
  enabled, known,   \* sources: in the settings, and in the registry; src is nil for the others
  source, src, period, order, page,
  loading, loaded, loadErr, data, sessions, agg, aggErr,
  dailyCursor, panicked,
  picker,           \* "none", "period", or the sources on offer
  session, project, day, message,   \* the overlays
  flight,           \* loads under way
  begun, changes,   \* loads begun and changes of the settings so far
  orderly           \* whether no load has failed or overlapped one it competes with

registry == <<enabled, known, changes>>
selection == <<source, src, period, order, page>>
content == <<loading, loaded, loadErr, data, sessions>>
aggregate == <<agg, aggErr>>
overlays == <<session, project, day, message>>
loads == <<flight, begun, orderly>>
viewVars == <<registry, selection, content, aggregate, dailyCursor, panicked, picker, overlays, loads>>

NoSource == "none"
NoData == [source |-> NoSource, period |-> "none"]
NoList == [source |-> NoSource, period |-> "none", order |-> 0, page |-> 0]
Closed == [open |-> FALSE]
NoDetail == [source |-> NoSource]

\* A session, a project, a day and a message, as the lists name them.  A day is
\* a date: sources share it.
SessionOf(s) == <<"session", s>>
ProjectOf(s) == <<"project", s>>
Dates(d) == IF d = NoData THEN 0 ELSE Days[d.period]
MaxDays == CHOOSE n \in {Days[p] : p \in Periods} : \A p \in Periods : Days[p] <= n
DateAt(d, cursor) == MaxDays - Days[d.period] + cursor + 1

Unobscured == ~panicked /\ picker = "none" /\ {session, project, day, message} = {Closed}

-----------------------------------------------------------------------------
(* Loads                                                                   *)

Snapshot(s, p, o, n) == [kind |-> "snapshot", source |-> s, period |-> p, order |-> o, page |-> n]
SessionList(s, p, o, n) == [Snapshot(s, p, o, n) EXCEPT !.kind = "sessions"]
Aggregate(p) == [kind |-> "agg", source |-> "all", period |-> p]
Detail(kind, s, id) == [kind |-> kind, source |-> s, id |-> id]
DetailPage(kind, s, id, p, n) == [kind |-> kind, source |-> s, id |-> id, period |-> p, page |-> n]

Competes(c, d) == c.kind = d.kind \/ {c.kind, d.kind} = {"snapshot", "sessions"}

\* Commands the runtime starts beside those under way.
Begin(commands) ==
  /\ begun + Cardinality(commands) <= MaxLoads
  /\ begun' = begun + Cardinality(commands)
  /\ flight' = flight \union commands
  /\ orderly' = (orderly /\ \A c \in commands : \A d \in flight : ~Competes(c, d))

\* loadAllForCurrent
Current == Snapshot(src, period, order, page)

\* Mutant: the aggregate of all sources is not loaded again.
ReloadCurrent(s, p, o, n) == {Snapshot(s, p, o, n)}

ReloadAll(s, p, o, n) == {Snapshot(s, p, o, n), Aggregate(p)}

ViewsInit ==
  /\ enabled = Sources /\ known = Sources /\ changes = 0
  /\ source \in Sources /\ src = source
  /\ period = StartPeriod /\ order = StartOrder /\ page = 1
  /\ loading = TRUE /\ loaded = FALSE /\ loadErr = FALSE /\ data = NoData /\ sessions = NoList
  /\ agg = "none" /\ aggErr = FALSE /\ dailyCursor = 0 /\ panicked = FALSE /\ picker = "none"
  /\ session = Closed /\ project = Closed /\ day = Closed /\ message = Closed
  /\ flight = {Current, Aggregate(period)} /\ begun = 2 /\ orderly = TRUE

\* Another process changes the settings.
Switch(s) ==
  /\ changes < MaxChanges /\ changes' = changes + 1
  /\ enabled' = IF s \in enabled THEN enabled \ {s} ELSE enabled \union {s}
  /\ UNCHANGED <<known, selection, content, aggregate, dailyCursor, panicked, picker, overlays, loads>>

Resolved(s, on) == IF s \in on THEN s ELSE NoSource

-----------------------------------------------------------------------------
(* Keys: time range, source, refresh                                       *)

OpenPeriods == /\ Unobscured /\ picker' = "period"
               /\ UNCHANGED <<registry, selection, content, aggregate, dailyCursor, panicked, overlays, loads>>

\* openSourcePicker: the settings are read, what is shown stays.
OpenSources ==
  /\ Unobscured
  /\ known' = enabled /\ picker' = "source"
  /\ UNCHANGED <<enabled, changes, selection, content, aggregate, dailyCursor, panicked, overlays, loads>>

ClosePicker == /\ picker # "none" /\ picker' = "none"
               /\ UNCHANGED <<registry, selection, content, aggregate, dailyCursor, panicked, overlays, loads>>

\* applyPeriodPreset and applyPeriodCustom: what is shown stays until the load.
PickPeriod(p) ==
  /\ picker = "period" /\ picker' = "none"
  /\ period' = p /\ page' = 1 /\ dailyCursor' = 0 /\ loading' = TRUE
  /\ Begin(ReloadAll(src, p, order, 1))
  /\ UNCHANGED <<registry, source, src, order, loaded, loadErr, data, sessions, aggregate, panicked, overlays>>

Reset == loaded' = FALSE /\ data' = NoData /\ sessions' = NoList

\* switchSource; a source that is off is not on offer, and may be off by now.
PickSource(s) ==
  /\ picker = "source" /\ s \in known \ {source} /\ picker' = "none"
  /\ known' = enabled /\ source' = s /\ src' = Resolved(s, enabled)
  /\ order' \in Orders /\ page' = 1 /\ dailyCursor' = 0
  /\ Reset /\ loading' = TRUE /\ loadErr' = FALSE
  /\ Begin({Snapshot(src', period, order', 1)})
  /\ UNCHANGED <<enabled, changes, period, aggregate, panicked, overlays>>

\* The refresh key.  Settings that changed since the registry last read them
\* empty the views; a source that is off is replaced.
RefreshViews ==
  /\ Unobscured
  /\ known' = enabled
  /\ IF enabled = known THEN UNCHANGED <<loaded, data, sessions, agg>> ELSE Reset /\ agg' = "none"
  /\ IF source \in enabled \/ enabled = {} THEN source' = source ELSE source' \in enabled
  /\ src' = Resolved(source', enabled) /\ loading' = TRUE
  /\ Begin(ReloadAll(src', period, order, page))
  /\ UNCHANGED <<enabled, changes, period, order, page, loadErr, aggErr, dailyCursor, panicked, picker, overlays>>

-----------------------------------------------------------------------------
(* Keys: the tabs                                                          *)

MoveDay(cursor) ==
  /\ Unobscured /\ Dates(data) > 0
  /\ cursor \in {0, Dates(data) - 1} /\ cursor # dailyCursor /\ dailyCursor' = cursor
  /\ UNCHANGED <<registry, selection, content, aggregate, panicked, picker, overlays, loads>>

DayLoad(date, n) == DetailPage("day", src, date, "day", n)

\* Enter on the Daily tab: daily.Days[m.dailyCursor]
EnterDay ==
  /\ Unobscured /\ Dates(data) > 0
  /\ IF dailyCursor >= Dates(data)
     THEN panicked' = TRUE /\ UNCHANGED <<day, loads>>
     ELSE LET date == DateAt(data, dailyCursor)
          IN  /\ day' = [open |-> TRUE, id |-> date, page |-> 1, loading |-> TRUE, shown |-> NoDetail]
              /\ Begin({DayLoad(date, 1)}) /\ UNCHANGED panicked
  /\ UNCHANGED <<registry, selection, content, aggregate, dailyCursor, picker, session, project, message>>

\* Sort, filter and paging of the sessions
ListSessions(o, n) ==
  /\ Unobscured
  /\ order' = o /\ page' = n /\ loading' = TRUE
  /\ Begin({SessionList(src, period, o, n)})
  /\ UNCHANGED <<registry, source, src, period, loaded, loadErr, data, sessions, aggregate, dailyCursor, panicked,
                 picker, overlays>>

SortSessions == \E o \in Orders \ {order} : ListSessions(o, 1)
NextPage == sessions # NoList /\ sessions.page < Pages /\ ListSessions(order, page + 1)
PrevPage == page > 1 /\ ListSessions(order, page - 1)

OpenedSession(id) == [open |-> TRUE, id |-> id, loading |-> TRUE, missing |-> FALSE, shown |-> NoDetail]

EnterSession ==
  /\ Unobscured /\ sessions # NoList
  /\ session' = OpenedSession(SessionOf(sessions.source))
  /\ Begin({Detail("session", src, SessionOf(sessions.source))})
  /\ UNCHANGED <<registry, selection, content, aggregate, dailyCursor, panicked, picker, project, day, message>>

ProjectLoad(p) == DetailPage("project", src, p.id, p.period, p.page)

EnterProject ==
  /\ Unobscured /\ data # NoData
  /\ project' = [open |-> TRUE, id |-> ProjectOf(data.source), page |-> 1, period |-> period, loading |-> TRUE,
                 shown |-> NoDetail]
  /\ Begin({ProjectLoad(project')})
  /\ UNCHANGED <<registry, selection, content, aggregate, dailyCursor, panicked, picker, session, day, message>>

-----------------------------------------------------------------------------
(* Keys: the overlays.  Those of a message lie on top of those of its day.  *)

KeepsTabs == UNCHANGED <<registry, selection, data, sessions, loaded, loadErr, aggregate, dailyCursor, panicked, picker>>
TopDay == day.open /\ ~message.open

CloseSession == session.open /\ session' = Closed /\ KeepsTabs /\ UNCHANGED <<loading, project, day, message, loads>>
CloseProject == project.open /\ project' = Closed /\ KeepsTabs /\ UNCHANGED <<loading, session, day, message, loads>>
CloseDay == TopDay /\ day' = Closed /\ KeepsTabs /\ UNCHANGED <<loading, session, project, message, loads>>
CloseMessage == message.open /\ message' = Closed /\ KeepsTabs /\ UNCHANGED <<loading, session, project, day, loads>>

RefreshSession ==
  /\ session.open /\ session' = [session EXCEPT !.loading = TRUE] /\ loading' = TRUE
  /\ Begin({Current, Detail("session", src, session.id)})
  /\ KeepsTabs /\ UNCHANGED <<project, day, message>>

PageProject(n) ==
  /\ project.open /\ n \in project.page - 1..project.page + 1
  /\ project' = [project EXCEPT !.page = n, !.loading = TRUE]
  /\ \/ n = project.page /\ loading' = TRUE /\ Begin({Current, ProjectLoad(project')})
     \/ /\ n # project.page /\ UNCHANGED loading /\ Begin({ProjectLoad(project')})
        /\ n > project.page => project.shown # NoDetail
  /\ KeepsTabs /\ UNCHANGED <<session, day, message>>

\* Enter on a session of the project
EnterProjectSession ==
  /\ project.open /\ project.shown # NoDetail
  /\ project' = Closed /\ session' = OpenedSession(SessionOf(project.shown.source))
  /\ Begin({Detail("session", src, session'.id)})
  /\ KeepsTabs /\ UNCHANGED <<loading, day, message>>

PageDay(n) ==
  /\ TopDay /\ n \in day.page - 1..day.page + 1
  /\ \/ n = day.page
     \/ day.shown # NoDetail /\ (n < day.page \/ day.shown.page < Pages)
  /\ day' = [day EXCEPT !.page = n, !.loading = TRUE]
  /\ Begin({DayLoad(day.id, n)})
  /\ KeepsTabs /\ UNCHANGED <<loading, session, project, message>>

MessageOf(shown) == <<"message", shown.source, shown.id, shown.page>>

EnterMessage ==
  /\ TopDay /\ day.shown # NoDetail
  /\ message' = [open |-> TRUE, id |-> MessageOf(day.shown), loading |-> TRUE, shown |-> NoDetail]
  /\ Begin({Detail("message", src, MessageOf(day.shown))})
  /\ KeepsTabs /\ UNCHANGED <<loading, session, project, day>>

RefreshMessage ==
  /\ message.open /\ message' = [message EXCEPT !.loading = TRUE]
  /\ Begin({Detail("message", src, message.id)})
  /\ KeepsTabs /\ UNCHANGED <<loading, session, project, day>>

-----------------------------------------------------------------------------
(* Results                                                                 *)

Failing(c) == IF c.source = NoSource THEN {TRUE} ELSE {TRUE, FALSE}
Done(c, fails) == /\ c \in flight /\ flight' = flight \ {c} /\ fails \in Failing(c)
                  /\ orderly' = (orderly /\ ~(fails /\ c.kind = "snapshot")) /\ UNCHANGED begun

\* A session that is not on the page that is shown is said to be gone.
\* reconcileSessionOverlay
Reconciled(list) ==
  IF session.open /\ ~session.loading /\ session.id # SessionOf(list.source)
  THEN [session EXCEPT !.missing = TRUE] ELSE session

ListOf(c) == [source |-> c.source, period |-> c.period, order |-> c.order, page |-> c.page]

SnapshotLoaded(c, fails) ==
  /\ c.kind = "snapshot" /\ Done(c, fails)
  /\ loading' = FALSE /\ loadErr' = fails
  /\ IF fails THEN UNCHANGED <<loaded, data, sessions, page, session>>
     ELSE /\ loaded' = TRUE /\ data' = [source |-> c.source, period |-> c.period]
          /\ sessions' = ListOf(c) /\ page' = c.page /\ session' = Reconciled(ListOf(c))
  /\ UNCHANGED <<registry, source, src, period, order, aggregate, dailyCursor, panicked, picker, project, day,
                 message>>

SessionsLoaded(c, fails) ==
  /\ c.kind = "sessions" /\ Done(c, fails)
  /\ loading' = FALSE /\ loadErr' = fails
  /\ IF fails THEN UNCHANGED <<loaded, sessions, page, session>>
     ELSE loaded' = TRUE /\ sessions' = ListOf(c) /\ page' = c.page /\ session' = Reconciled(ListOf(c))
  /\ UNCHANGED <<registry, source, src, period, order, data, aggregate, dailyCursor, panicked, picker, project, day,
                 message>>

AggregateLoaded(c, fails) ==
  /\ c.kind = "agg" /\ Done(c, fails)
  /\ aggErr' = fails /\ agg' = IF fails THEN agg ELSE c.period
  /\ UNCHANGED <<registry, selection, content, dailyCursor, panicked, picker, overlays>>

\* Mutant: a result is taken by whatever is open.
IsForAny(overlay, c) == overlay.open

IsFor(overlay, c) == overlay.open /\ overlay.id = c.id

\* Mutant: a failure leaves the overlay as it is.
LoadedOnly(overlay, c, fails) ==
  IF ~IsFor(overlay, c) \/ fails THEN overlay ELSE [overlay EXCEPT !.loading = FALSE, !.shown = c]

\* A failure takes away what was shown.
Loaded(overlay, c, fails) ==
  IF ~IsFor(overlay, c) THEN overlay
  ELSE [overlay EXCEPT !.loading = FALSE, !.shown = IF fails THEN NoDetail ELSE c]

DetailLoaded(c, fails) ==
  /\ c.kind \in {"session", "project", "day", "message"} /\ Done(c, fails)
  /\ session' = IF c.kind # "session" \/ ~IsFor(session, c) THEN session
                ELSE [Loaded(session, c, fails) EXCEPT !.missing = FALSE]
  /\ project' = IF c.kind = "project" THEN Loaded(project, c, fails) ELSE project
  /\ day' = IF c.kind # "day" \/ ~IsFor(day, c) THEN day
            ELSE [Loaded(day, c, fails) EXCEPT !.page = IF fails THEN @ ELSE c.page]
  /\ message' = IF c.kind = "message" THEN Loaded(message, c, fails) ELSE message
  /\ UNCHANGED <<registry, selection, content, aggregate, dailyCursor, panicked, picker>>

Result(c, fails) ==
  ~panicked /\ (SnapshotLoaded(c, fails) \/ SessionsLoaded(c, fails) \/ AggregateLoaded(c, fails)
                \/ DetailLoaded(c, fails))

ViewsNext ==
  \/ \E s \in Sources : Switch(s) \/ PickSource(s)
  \/ \E p \in Periods : PickPeriod(p)
  \/ OpenPeriods \/ OpenSources \/ ClosePicker \/ RefreshViews
  \/ \E n \in 0..MaxDays - 1 : MoveDay(n)
  \/ EnterDay \/ SortSessions \/ NextPage \/ PrevPage \/ EnterSession \/ EnterProject
  \/ CloseSession \/ CloseProject \/ CloseDay \/ CloseMessage
  \/ RefreshSession \/ EnterProjectSession \/ EnterMessage \/ RefreshMessage
  \/ \E n \in 1..Pages : PageProject(n)
  \/ \E n \in 1..Pages + MaxLoads : PageDay(n)
  \/ \E c \in flight, fails \in BOOLEAN : Result(c, fails)

ViewsSpec == ViewsInit /\ [][ViewsNext]_viewVars

-----------------------------------------------------------------------------
(* Properties                                                              *)

\* Once every load is answered nothing is shown as being loaded, whatever was
\* opened, closed and asked for meanwhile.
WaitsEnd ==
  flight = {} => ~loading /\ \A overlay \in {session, project, day, message} : overlay.open => ~overlay.loading

\* What an overlay shows belongs to the row it was opened for, even when it was
\* closed and another opened before its load was answered.
OverlayIsOfItsRow ==
  \A overlay \in {session, project, day, message} :
    overlay.open /\ overlay.shown # NoDetail => overlay.shown.id = overlay.id

\* Unless a load failed or two competed, views without a banner are those of
\* the selected source, period, order and page, and overlays those of the page
\* they name.
ShownIsSelected ==
  orderly /\ ~panicked =>
    /\ loaded /\ ~loading /\ ~loadErr =>
         /\ data = [source |-> src, period |-> period]
         /\ sessions = [source |-> src, period |-> period, order |-> order, page |-> page]
    /\ ~aggErr /\ (\A c \in flight : c.kind # "agg") => agg = period
    /\ \A overlay \in {project, day} :
         overlay.open /\ ~overlay.loading /\ overlay.shown # NoDetail =>
           overlay.shown.source = src /\ overlay.shown.page = overlay.page

\* Whatever is loaded in whatever order, the terminal shows what is selected.
TerminalIsTrue == WaitsEnd /\ OverlayIsOfItsRow /\ ShownIsSelected
=============================================================================
