------------------------- MODULE TerminalViews_proofs -------------------------
(***************************************************************************)
(* What the terminal shows belongs to what is selected and opened, and     *)
(* nothing is shown as being loaded once all loads are answered: for any   *)
(* sources, periods, orders, pages and number of loads.  What is streamed  *)
(* to the browser is what is signed in the end, however texts are cleaned. *)
(***************************************************************************)
EXTENDS TerminalViews, ProviderStream, SequenceTheorems, TLAPS

-----------------------------------------------------------------------------
(* The inductive invariant                                                 *)

Tab(c) == c.kind \in {"snapshot", "sessions"}

\* An overlay is closed, or has all of its fields.
Shapes ==
  /\ session = Closed \/ session = [open |-> TRUE, id |-> session.id, loading |-> session.loading,
                                    missing |-> session.missing, shown |-> session.shown]
  /\ project = Closed \/ project = [open |-> TRUE, id |-> project.id, page |-> project.page, period |-> project.period,
                                    loading |-> project.loading, shown |-> project.shown]
  /\ day = Closed \/ day = [open |-> TRUE, id |-> day.id, page |-> day.page, loading |-> day.loading,
                            shown |-> day.shown]
  /\ message = Closed \/ message = [open |-> TRUE, id |-> message.id, loading |-> message.loading,
                                    shown |-> message.shown]

\* What waits has a load that answers it, and what an overlay has got is its own.
Waits == loading => \E c \in flight : Tab(c)
Served(kind, overlay) ==
  overlay.open =>
    /\ overlay.loading => \E c \in flight : c.kind = kind /\ c.id = overlay.id
    /\ overlay.shown # NoDetail => overlay.shown.id = overlay.id
AllServed ==
  Served("session", session) /\ Served("project", project) /\ Served("day", day) /\ Served("message", message)

\* Nothing is opened behind a picker.
AllClosed == session = Closed /\ project = Closed /\ day = Closed /\ message = Closed
Alone == picker # "none" => AllClosed

\* The loads of an overlay that is open are of the page that it names.
Own(kind, overlay) ==
  orderly /\ overlay.open =>
    /\ \A c \in flight : c.kind = kind => c.source = src /\ c.page = overlay.page
    /\ ~overlay.loading /\ overlay.shown # NoDetail => overlay.shown.source = src /\ overlay.shown.page = overlay.page
AllOwn == Own("project", project) /\ Own("day", day)

\* One load of the tabs, of what is selected; without one they show what is selected.
Views ==
  orderly =>
    /\ \A c \in flight :
         Tab(c) => loading /\ c.source = src /\ c.period = period /\ c.order = order /\ c.page = page
    /\ \A c, d \in flight : Tab(c) /\ Tab(d) => c = d
    /\ (\A c \in flight : c.kind # "snapshot") => data = [source |-> src, period |-> period]
    /\ (\A c \in flight : ~Tab(c)) =>
         loadErr \/ sessions = [source |-> src, period |-> period, order |-> order, page |-> page]

\* The same of the aggregate over all sources.
Whole ==
  orderly =>
    /\ \A c \in flight : c.kind = "agg" => c.period = period
    /\ \A c, d \in flight : c.kind = "agg" /\ d.kind = "agg" => c = d
    /\ (\A c \in flight : c.kind # "agg") => aggErr \/ agg = period

Inv == Shapes /\ Waits /\ AllServed /\ Alone /\ AllOwn /\ Views /\ Whole

-----------------------------------------------------------------------------
(* Loads                                                                   *)

LEMMA SnapshotIs ==
  ASSUME NEW s, NEW p, NEW o, NEW n
  PROVE  /\ Snapshot(s, p, o, n).kind = "snapshot" /\ Snapshot(s, p, o, n).source = s
         /\ Snapshot(s, p, o, n).period = p /\ Snapshot(s, p, o, n).order = o /\ Snapshot(s, p, o, n).page = n
         /\ SessionList(s, p, o, n).kind = "sessions" /\ SessionList(s, p, o, n).source = s
         /\ SessionList(s, p, o, n).period = p /\ SessionList(s, p, o, n).order = o
         /\ SessionList(s, p, o, n).page = n
BY DEF Snapshot, SessionList

LEMMA AggregateIs == ASSUME NEW p PROVE Aggregate(p).kind = "agg" /\ Aggregate(p).period = p
BY DEF Aggregate

LEMMA DetailIs ==
  ASSUME NEW kind, NEW s, NEW id, NEW p, NEW n
  PROVE  /\ Detail(kind, s, id).kind = kind /\ Detail(kind, s, id).source = s /\ Detail(kind, s, id).id = id
         /\ DetailPage(kind, s, id, p, n).kind = kind /\ DetailPage(kind, s, id, p, n).source = s
         /\ DetailPage(kind, s, id, p, n).id = id /\ DetailPage(kind, s, id, p, n).page = n
BY DEF Detail, DetailPage

LEMMA BeginIs ==
  ASSUME NEW C, Begin(C)
  PROVE  /\ flight' = flight \union C
         /\ orderly' => orderly /\ \A c \in C : \A d \in flight : c.kind # d.kind /\ ~(Tab(c) /\ Tab(d))
<1>1. flight' = flight \union C
  BY DEF Begin
<1>2. ASSUME orderly' PROVE orderly /\ \A c \in C : \A d \in flight : ~Competes(c, d)
  BY <1>2, Zenon DEF Begin
<1>3. \A c, d : Tab(c) /\ Tab(d) => Competes(c, d)
  BY DEF Competes, Tab
<1> QED
  BY <1>1, <1>2, <1>3 DEF Competes

-----------------------------------------------------------------------------
(* What a step leaves alone                                                *)

\* Loads begin, of what is then selected.
LEMMA ViewsBegin ==
  ASSUME Inv, NEW C, Begin(C),
         \A c \in C : Tab(c) =>
           loading' /\ c.source = src' /\ c.period = period' /\ c.order = order' /\ c.page = page',
         \A c, d \in C : Tab(c) /\ Tab(d) => c = d,
         (\E c \in C : Tab(c)) \/ UNCHANGED <<src, period, order, page, loading, loadErr, sessions>>,
         (\E c \in C : c.kind = "snapshot") \/ UNCHANGED <<src, period, data>>
  PROVE  Views'
<1> SUFFICES ASSUME orderly' PROVE Views'
  BY DEF Views
<1>1. /\ flight' = flight \union C /\ orderly
      /\ \A c \in C : \A d \in flight : c.kind # d.kind /\ ~(Tab(c) /\ Tab(d))
  BY BeginIs
<1>2. /\ \A c \in flight :
           Tab(c) => loading /\ c.source = src /\ c.period = period /\ c.order = order /\ c.page = page
      /\ \A c, d \in flight : Tab(c) /\ Tab(d) => c = d
      /\ (\A c \in flight : c.kind # "snapshot") => data = [source |-> src, period |-> period]
      /\ (\A c \in flight : ~Tab(c)) =>
           loadErr \/ sessions = [source |-> src, period |-> period, order |-> order, page |-> page]
  BY <1>1 DEF Inv, Views
<1>3. \A c \in flight' :
        Tab(c) => loading' /\ c.source = src' /\ c.period = period' /\ c.order = order' /\ c.page = page'
  BY <1>1, <1>2
<1>4. \A c, d \in flight' : Tab(c) /\ Tab(d) => c = d
  BY <1>1, <1>2
<1>5. (\A c \in flight' : c.kind # "snapshot") => data' = [source |-> src', period |-> period']
  BY <1>1, <1>2
<1>6. (\A c \in flight' : ~Tab(c)) =>
        loadErr' \/ sessions' = [source |-> src', period |-> period', order |-> order', page |-> page']
  BY <1>1, <1>2
<1> QED
  BY <1>3, <1>4, <1>5, <1>6 DEF Views, Tab

LEMMA WholeBegin ==
  ASSUME Inv, NEW C, Begin(C),
         \A c \in C : c.kind = "agg" => c.period = period',
         \A c, d \in C : c.kind = "agg" /\ d.kind = "agg" => c = d,
         (\E c \in C : c.kind = "agg") \/ UNCHANGED <<period, agg, aggErr>>
  PROVE  Whole'
<1> SUFFICES ASSUME orderly' PROVE Whole'
  BY DEF Whole
<1>1. flight' = flight \union C /\ orderly /\ \A c \in C : \A d \in flight : c.kind # d.kind
  BY BeginIs
<1> QED
  BY <1>1 DEF Inv, Whole

\* Nothing of the tabs changes and none of their loads begins.
LEMMA TabsStay ==
  ASSUME Inv, NEW C, Begin(C), \A c \in C : ~Tab(c) /\ c.kind # "agg",
         UNCHANGED <<src, period, order, page, loading, loadErr, data, sessions, agg, aggErr>>
  PROVE  Waits' /\ Views' /\ Whole'
<1>1. flight' = flight \union C
  BY BeginIs
<1>2. Waits'
  BY <1>1 DEF Inv, Waits, Tab
<1>3. Views'
  BY ViewsBegin
<1>4. Whole'
  BY WholeBegin
<1> QED
  BY <1>2, <1>3, <1>4

\* They are loaded again, beside an overlay.
LEMMA TabsReload ==
  ASSUME Inv, NEW C, Begin(C), Current \in C, \A c \in C : c = Current \/ (~Tab(c) /\ c.kind # "agg"), loading' = TRUE,
         UNCHANGED <<src, period, order, page, loadErr, data, sessions, agg, aggErr>>
  PROVE  Waits' /\ Views' /\ Whole'
<1>1. /\ Current.kind = "snapshot" /\ Current.source = src /\ Current.period = period /\ Current.order = order
      /\ Current.page = page
  BY SnapshotIs DEF Current
<1>2. flight' = flight \union C /\ Tab(Current)
  BY <1>1, BeginIs DEF Tab
<1> HIDE DEF Current
<1>3. Waits'
  BY <1>2 DEF Waits, Tab
<1>4. Views'
  <2>1. \A c \in C : Tab(c) =>
          loading' /\ c.source = src' /\ c.period = period' /\ c.order = order' /\ c.page = page'
    BY <1>1
  <2>2. \A c, d \in C : Tab(c) /\ Tab(d) => c = d
    OBVIOUS
  <2>3. \E c \in C : c.kind = "snapshot"
    BY <1>1
  <2>4. \E c \in C : Tab(c)
    BY <1>2
  <2> QED
    BY <2>1, <2>2, <2>3, <2>4, ViewsBegin
<1>5. Whole'
  <2>1. \A c \in C : c.kind # "agg"
    BY <1>1
  <2> QED
    BY <2>1, WholeBegin
<1> QED
  BY <1>3, <1>4, <1>5

\* An overlay that does not change, while other loads begin.
LEMMA OverlayStays ==
  ASSUME Inv, NEW C, Begin(C)
  PROVE  /\ session' = session => Served("session", session)'
         /\ project' = project => Served("project", project)'
         /\ day' = day => Served("day", day)'
         /\ message' = message => Served("message", message)'
         /\ project' = project /\ src' = src /\ (\A c \in C : c.kind # "project") => Own("project", project)'
         /\ day' = day /\ src' = src /\ (\A c \in C : c.kind # "day") => Own("day", day)'
<1>1. flight' = flight \union C /\ (orderly' => orderly)
  BY BeginIs
<1>2. /\ session' = session => Served("session", session)'
      /\ project' = project => Served("project", project)'
      /\ day' = day => Served("day", day)'
      /\ message' = message => Served("message", message)'
  BY <1>1 DEF Inv, AllServed, Served
<1>3. project' = project /\ src' = src /\ (\A c \in C : c.kind # "project") => Own("project", project)'
  BY <1>1 DEF Inv, AllOwn, Own
<1>4. day' = day /\ src' = src /\ (\A c \in C : c.kind # "day") => Own("day", day)'
  BY <1>1 DEF Inv, AllOwn, Own
<1> QED
  BY <1>2, <1>3, <1>4

LEMMA ClosedIsFine ==
  /\ session = Closed => Served("session", session)
  /\ project = Closed => Served("project", project) /\ Own("project", project)
  /\ day = Closed => Served("day", day) /\ Own("day", day)
  /\ message = Closed => Served("message", message)
BY DEF Closed, Served, Own

LEMMA UnobscuredIsClosed == Unobscured => picker = "none" /\ AllClosed
BY DEF Unobscured, AllClosed

LEMMA ViewsUnchanged ==
  ASSUME Inv, UNCHANGED <<flight, orderly, src, period, order, page, loading, loadErr, data, sessions, agg, aggErr>>
  PROVE  Waits' /\ Views' /\ Whole'
BY DEF Inv, Waits, Views, Whole, Tab

\* The steps of the tabs leave the overlays, and change the source only when none is open.
LEMMA OverlaysStay ==
  ASSUME Inv, NEW C, Begin(C), UNCHANGED overlays, \A c \in C : Tab(c) \/ c.kind = "agg", src' = src \/ AllClosed
  PROVE  Shapes' /\ AllServed' /\ AllOwn'
<1>1. UNCHANGED <<session, project, day, message>>
  BY DEF overlays
<1>2. Shapes'
  BY <1>1 DEF Inv, Shapes
<1>3. AllServed'
  BY <1>1, OverlayStays DEF AllServed
<1>4. \A c \in C : c.kind # "project" /\ c.kind # "day"
  BY DEF Tab
<1>5. CASE src' = src
  BY <1>1, <1>2, <1>3, <1>4, <1>5, OverlayStays DEF AllOwn
<1>6. CASE AllClosed
  <2>1. project' = Closed /\ day' = Closed
    BY <1>1, <1>6 DEF AllClosed
  <2>2. Own("project", project)' /\ Own("day", day)'
    BY <2>1 DEF Own, Closed
  <2> QED
    BY <1>2, <1>3, <2>2 DEF AllOwn
<1> QED
  BY <1>5, <1>6

-----------------------------------------------------------------------------
(* Keys of the tabs                                                        *)

LEMMA InitInv == ViewsInit => Inv
<1> SUFFICES ASSUME ViewsInit PROVE Inv
  OBVIOUS
<1> DEFINE first == Snapshot(src, period, order, page)
           all == Aggregate(period)
<1>1. /\ first.kind = "snapshot" /\ first.source = src /\ first.period = period /\ first.order = order
      /\ first.page = page /\ all.kind = "agg" /\ all.period = period
  BY SnapshotIs, AggregateIs
<1>2. /\ flight = {first, all} /\ loading = TRUE /\ picker = "none" /\ session = Closed /\ project = Closed
      /\ day = Closed /\ message = Closed
  BY DEF ViewsInit, Current
<1> HIDE DEF first, all
<1>3. Shapes /\ Alone
  BY <1>2 DEF Shapes, Alone
<1>4. AllServed /\ AllOwn
  BY <1>2, ClosedIsFine DEF AllServed, AllOwn
<1>5. Waits /\ Views /\ Whole
  BY <1>1, <1>2 DEF Waits, Views, Whole, Tab
<1> QED
  BY <1>3, <1>4, <1>5 DEF Inv

\* Steps that begin no load: settings, pickers, cursors.
LEMMA QuietKeeps ==
  ASSUME Inv, UNCHANGED <<overlays, flight, orderly, src, period, order, page, content, aggregate>>,
         picker' = "none" \/ picker' = picker \/ AllClosed
  PROVE  Inv'
<1>1. Waits' /\ Views' /\ Whole'
  BY ViewsUnchanged DEF content, aggregate
<1>2. UNCHANGED <<session, project, day, message, flight, orderly, src>>
  BY DEF overlays
<1>3. Shapes' /\ AllServed' /\ AllOwn'
  BY <1>2 DEF Inv, Shapes, AllServed, AllOwn, Served, Own
<1>4. Alone'
  BY <1>2 DEF Inv, Alone, AllClosed
<1> QED
  BY <1>1, <1>3, <1>4 DEF Inv

LEMMA QuietSteps ==
  ASSUME Inv, \/ \E s \in Sources : Switch(s)
              \/ OpenPeriods \/ OpenSources \/ ClosePicker
              \/ \E n \in 0..MaxDays - 1 : MoveDay(n)
              \/ UNCHANGED viewVars
  PROVE  Inv'
<1>1. ASSUME NEW s \in Sources, Switch(s) PROVE Inv'
  BY <1>1, QuietKeeps DEF Switch, loads, selection
<1>2. CASE OpenPeriods
  BY <1>2, QuietKeeps, UnobscuredIsClosed DEF OpenPeriods, loads, selection
<1>3. CASE OpenSources
  BY <1>3, QuietKeeps, UnobscuredIsClosed DEF OpenSources, loads, selection
<1>4. CASE ClosePicker
  BY <1>4, QuietKeeps DEF ClosePicker, loads, selection
<1>5. ASSUME NEW n \in 0..MaxDays - 1, MoveDay(n) PROVE Inv'
  BY <1>5, QuietKeeps DEF MoveDay, loads, selection
<1>6. CASE UNCHANGED viewVars
  BY <1>6, QuietKeeps DEF viewVars, loads, selection
<1> QED
  BY <1>1, <1>2, <1>3, <1>4, <1>5, <1>6

\* Everything is loaded again, or all but the aggregate.
LEMMA ReloadKeeps ==
  ASSUME Inv, NEW C, Begin(C), UNCHANGED overlays, picker' = "none", loading' = TRUE,
         src' = src \/ AllClosed,
         LET first == Snapshot(src', period', order', page')
             all == Aggregate(period')
         IN  C = {first, all} \/ (C = {first} /\ UNCHANGED <<period, agg, aggErr>>)
  PROVE  Inv'
<1> DEFINE first == Snapshot(src', period', order', page')
           all == Aggregate(period')
<1>1. /\ first.kind = "snapshot" /\ first.source = src' /\ first.period = period' /\ first.order = order'
      /\ first.page = page' /\ all.kind = "agg" /\ all.period = period'
  BY SnapshotIs, AggregateIs
<1>2. C = {first, all} \/ (C = {first} /\ UNCHANGED <<period, agg, aggErr>>)
  OBVIOUS
<1> HIDE DEF first, all
<1>3. Tab(first) /\ ~Tab(all)
  BY <1>1 DEF Tab
<1>4. Views'
  <2>1. \A c \in C : Tab(c) =>
          loading' /\ c.source = src' /\ c.period = period' /\ c.order = order' /\ c.page = page'
    BY <1>1, <1>2, <1>3
  <2>2. \A c, d \in C : Tab(c) /\ Tab(d) => c = d
    BY <1>2, <1>3
  <2>3. (\E c \in C : Tab(c)) /\ (\E c \in C : c.kind = "snapshot")
    BY <1>1, <1>2, <1>3
  <2> QED
    BY <2>1, <2>2, <2>3, ViewsBegin
<1>5. Whole'
  <2>1. \A c \in C : c.kind = "agg" => c = all /\ c.period = period'
    BY <1>1, <1>2
  <2>2. (\E c \in C : c.kind = "agg") \/ UNCHANGED <<period, agg, aggErr>>
    BY <1>1, <1>2
  <2> QED
    BY <2>1, <2>2, WholeBegin
<1>6. Waits'
  <2>1. flight' = flight \union C
    BY BeginIs
  <2> QED
    BY <1>2, <1>3, <2>1 DEF Waits, Tab
<1>7. Shapes' /\ AllServed' /\ AllOwn'
  <2>1. \A c \in C : Tab(c) \/ c.kind = "agg"
    BY <1>1, <1>2, <1>3
  <2> QED
    BY <2>1, OverlaysStay
<1> QED
  BY <1>4, <1>5, <1>6, <1>7 DEF Inv, Alone

LEMMA PickPeriodKeeps ==
  ASSUME Inv, NEW p \in Periods, PickPeriod(p) PROVE Inv'
<1>1. Begin({Snapshot(src', period', order', page'), Aggregate(period')})
  BY DEF PickPeriod, ReloadAll
<1> QED
  BY <1>1, ReloadKeeps DEF PickPeriod

LEMMA PickSourceKeeps ==
  ASSUME Inv, NEW s \in Sources, PickSource(s) PROVE Inv'
<1>1. Begin({Snapshot(src', period', order', page')}) /\ UNCHANGED <<period, agg, aggErr>>
  BY DEF PickSource, aggregate
<1>2. AllClosed
  BY DEF PickSource, Inv, Alone
<1> QED
  BY <1>1, <1>2, ReloadKeeps DEF PickSource

LEMMA RefreshKeeps ==
  ASSUME Inv, RefreshViews PROVE Inv'
<1>1. Begin({Snapshot(src', period', order', page'), Aggregate(period')})
  BY DEF RefreshViews, ReloadAll
<1>2. AllClosed /\ picker' = "none"
  BY UnobscuredIsClosed DEF RefreshViews
<1> QED
  BY <1>1, <1>2, ReloadKeeps DEF RefreshViews

LEMMA ListSessionsKeeps ==
  ASSUME Inv, NEW o, NEW n, ListSessions(o, n) PROVE Inv'
<1> DEFINE list == SessionList(src, period, o, n)
           C == {list}
<1>1. /\ Begin(C) /\ order' = o /\ page' = n /\ loading' = TRUE /\ picker' = picker
      /\ UNCHANGED <<src, period, data, agg, aggErr, overlays>>
  BY DEF ListSessions, aggregate
<1>2. list.kind = "sessions" /\ list.source = src /\ list.period = period /\ list.order = o /\ list.page = n
  BY SnapshotIs
<1> HIDE DEF list
<1>3. Tab(list) /\ \A c \in C : c = list
  BY <1>2 DEF Tab
<1>4. Views'
  BY <1>1, <1>2, <1>3, ViewsBegin
<1>5. Whole'
  BY <1>1, <1>2, <1>3, WholeBegin
<1>6. Waits'
  <2>1. flight' = flight \union C
    BY <1>1, BeginIs
  <2> QED
    BY <1>3, <2>1 DEF Waits, Tab
<1>7. Shapes' /\ AllServed' /\ AllOwn'
  BY <1>1, <1>3, OverlaysStay
<1>8. Alone'
  BY <1>1 DEF Inv, Alone, AllClosed, overlays
<1> QED
  BY <1>4, <1>5, <1>6, <1>7, <1>8 DEF Inv

-----------------------------------------------------------------------------
(* Keys that open, page and close an overlay                               *)

LEMMA EnterDayKeeps ==
  ASSUME Inv, EnterDay PROVE Inv'
<1>1. UNCHANGED <<selection, content, aggregate, picker, session, project, message>>
  BY DEF EnterDay
<1>2. CASE dailyCursor >= Dates(data)
  BY <1>1, <1>2, QuietKeeps DEF EnterDay, loads, overlays, selection
<1>3. CASE ~(dailyCursor >= Dates(data))
  <2> DEFINE date == DateAt(data, dailyCursor)
             c == DayLoad(date, 1)
             C == {c}
  <2>1. /\ day' = [open |-> TRUE, id |-> date, page |-> 1, loading |-> TRUE, shown |-> NoDetail]
        /\ Begin(C)
    BY <1>3 DEF EnterDay
  <2>2. c.kind = "day" /\ c.source = src /\ c.id = date /\ c.page = 1
    BY DetailIs DEF DayLoad
  <2> HIDE DEF c, date
  <2>3. day'.open /\ day'.id = date /\ day'.page = 1 /\ day'.loading /\ day'.shown = NoDetail
    BY <2>1
  <2>4. flight' = flight \union C /\ (orderly' => \A d \in flight : d.kind # "day")
    BY <2>1, <2>2, BeginIs
  <2>5. Waits' /\ Views' /\ Whole'
    <3>1. \A x \in C : ~Tab(x) /\ x.kind # "agg"
      BY <2>2 DEF Tab
    <3> QED
      BY <1>1, <2>1, <3>1, TabsStay DEF selection, content, aggregate
  <2>6. Served("day", day)' /\ Own("day", day)'
    BY <1>1, <2>2, <2>3, <2>4 DEF Served, Own, selection
  <2>7. AllServed' /\ AllOwn'
    <3>1. \A x \in C : x.kind # "project"
      BY <2>2
    <3> QED
      BY <1>1, <2>1, <2>6, <3>1, OverlayStays DEF AllServed, AllOwn, selection
  <2>8. Shapes'
    BY <1>1, <2>1 DEF Inv, Shapes
  <2>9. Alone'
    BY <1>1, UnobscuredIsClosed DEF EnterDay, Alone
  <2> QED
    BY <2>5, <2>7, <2>8, <2>9 DEF Inv
<1> QED
  BY <1>2, <1>3

\* A session is opened, in the tabs or in a project, which is closed.
LEMMA OpenSessionKeeps ==
  ASSUME Inv, NEW id, session' = OpenedSession(id), Begin({Detail("session", src, id)}),
         project' = project \/ project' = Closed, UNCHANGED <<day, message>>, picker' = "none",
         UNCHANGED <<src, period, order, page, loading, loadErr, data, sessions, agg, aggErr>>
  PROVE  Inv'
<1> DEFINE c == Detail("session", src, id)
           C == {c}
<1>1. c.kind = "session" /\ c.id = id /\ Begin(C)
  BY DetailIs
<1> HIDE DEF c
<1>2. session'.open /\ session'.id = id /\ session'.shown = NoDetail
  BY DEF OpenedSession
<1>3. \A x \in C : ~Tab(x) /\ x.kind # "agg" /\ x.kind # "project" /\ x.kind # "day"
  BY <1>1 DEF Tab
<1>4. flight' = flight \union C
  BY <1>1, BeginIs
<1>5. Served("session", session)'
  BY <1>1, <1>2, <1>4 DEF Served
<1>6. Served("project", project)' /\ Own("project", project)'
  <2>1. CASE project' = project
    BY <1>1, <1>3, <2>1, OverlayStays
  <2>2. CASE project' = Closed
    BY <2>2 DEF Served, Own, Closed
  <2> QED
    BY <2>1, <2>2
<1>7. AllServed' /\ AllOwn'
  BY <1>1, <1>3, <1>5, <1>6, OverlayStays DEF AllServed, AllOwn
<1>8. Waits' /\ Views' /\ Whole'
  BY <1>1, <1>3, TabsStay
<1>9. Shapes'
  BY DEF Inv, Shapes, OpenedSession
<1> QED
  BY <1>7, <1>8, <1>9 DEF Inv, Alone

LEMMA EnterSessionKeeps ==
  ASSUME Inv, EnterSession PROVE Inv'
<1>1. picker' = "none"
  BY UnobscuredIsClosed DEF EnterSession
<1> QED
  BY <1>1, OpenSessionKeeps DEF EnterSession, selection, content, aggregate

\* With an overlay there is no picker.
LEMMA OpenIsAlone ==
  ASSUME Inv, session.open \/ project.open \/ day.open \/ message.open PROVE picker = "none"
BY DEF Inv, Alone, AllClosed, Closed

LEMMA EnterProjectSessionKeeps ==
  ASSUME Inv, EnterProjectSession PROVE Inv'
<1> DEFINE id == SessionOf(project.shown.source)
<1>1. session' = OpenedSession(id) /\ project' = Closed /\ KeepsTabs /\ UNCHANGED <<loading, day, message>>
  BY DEF EnterProjectSession
<1>2. session'.id = id
  BY <1>1 DEF OpenedSession
<1>3. Begin({Detail("session", src, id)})
  BY <1>2 DEF EnterProjectSession
<1> HIDE DEF id
<1>4. picker' = "none"
  BY <1>1, OpenIsAlone DEF EnterProjectSession, KeepsTabs
<1> QED
  BY <1>1, <1>3, <1>4, OpenSessionKeeps DEF KeepsTabs, selection, aggregate

\* A project, or a page of it: what waits is asked for, beside what else is loaded.
LEMMA ProjectKeeps ==
  ASSUME Inv, NEW C, Begin(C), ProjectLoad(project') \in C, project'.open, project'.loading,
         project'.shown # NoDetail => project'.shown.id = project'.id,
         \A c \in C : c = ProjectLoad(project') \/ Tab(c), UNCHANGED <<src, session, day, message>>
  PROVE  AllServed' /\ AllOwn'
<1> DEFINE c == ProjectLoad(project')
<1>1. c.kind = "project" /\ c.source = src /\ c.id = project'.id /\ c.page = project'.page
  BY DetailIs DEF ProjectLoad
<1>2. c \in C /\ \A x \in C : x = c \/ Tab(x)
  OBVIOUS
<1> HIDE DEF c
<1>3. flight' = flight \union C /\ (orderly' => \A d \in flight : d.kind # "project")
  BY <1>1, <1>2, BeginIs
<1>4. Served("project", project)'
  BY <1>1, <1>2, <1>3 DEF Served
<1>5. Own("project", project)'
  BY <1>1, <1>2, <1>3 DEF Own, Tab
<1>6. \A x \in C : x.kind # "day"
  BY <1>1, <1>2 DEF Tab
<1> QED
  BY <1>4, <1>5, <1>6, OverlayStays DEF AllServed, AllOwn

LEMMA ProjectLoadIs == ASSUME NEW p PROVE ProjectLoad(p).kind = "project"
BY DetailIs DEF ProjectLoad

LEMMA EnterProjectKeeps ==
  ASSUME Inv, EnterProject PROVE Inv'
<1> DEFINE C == {ProjectLoad(project')}
<1>1. /\ project' = [open |-> TRUE, id |-> ProjectOf(data.source), page |-> 1, period |-> period, loading |-> TRUE,
                     shown |-> NoDetail]
      /\ Begin(C) /\ UNCHANGED <<selection, content, aggregate, picker, session, day, message>>
  BY DEF EnterProject
<1>2. project'.open /\ project'.loading /\ project'.shown = NoDetail
  BY <1>1
<1>3. \A c \in C : ~Tab(c) /\ c.kind # "agg"
  BY ProjectLoadIs DEF Tab
<1>4. AllServed' /\ AllOwn'
  BY <1>1, <1>2, ProjectKeeps DEF selection
<1>5. Waits' /\ Views' /\ Whole'
  BY <1>1, <1>3, TabsStay DEF selection, content, aggregate
<1>6. Shapes'
  BY <1>1 DEF Inv, Shapes
<1>7. Alone'
  BY <1>1, UnobscuredIsClosed DEF EnterProject, Alone
<1> QED
  BY <1>4, <1>5, <1>6, <1>7 DEF Inv

LEMMA PageProjectKeeps ==
  ASSUME Inv, NEW n, PageProject(n) PROVE Inv'
<1> DEFINE c == ProjectLoad(project')
<1>1. /\ project.open /\ project' = [project EXCEPT !.page = n, !.loading = TRUE]
      /\ KeepsTabs /\ UNCHANGED <<session, day, message>>
      /\ (loading' = TRUE /\ Begin({Current, c})) \/ (loading' = loading /\ Begin({c}))
  BY DEF PageProject
<1>2. project = [open |-> TRUE, id |-> project.id, page |-> project.page, period |-> project.period,
                 loading |-> project.loading, shown |-> project.shown]
  BY <1>1 DEF Inv, Shapes, Closed
<1>3. project' = [open |-> TRUE, id |-> project.id, page |-> n, period |-> project.period,
                  loading |-> TRUE, shown |-> project.shown]
  BY <1>1, <1>2
<1>4. /\ project'.open /\ project'.loading /\ project'.id = project.id /\ project'.shown = project.shown
      /\ project'.page = n /\ project'.period = project.period
  BY <1>3
<1>5. project'.shown # NoDetail => project'.shown.id = project'.id
  BY <1>1, <1>4 DEF Inv, AllServed, Served
<1>6. c.kind = "project" /\ Tab(Current)
  BY ProjectLoadIs, SnapshotIs DEF Current, Tab
<1>7. UNCHANGED <<src, period, order, page, loadErr, data, sessions, agg, aggErr, picker>>
  BY <1>1 DEF KeepsTabs, selection, aggregate
<1> HIDE DEF c
<1>8. Waits' /\ Views' /\ Whole'
  <2>1. ~Tab(c) /\ c.kind # "agg"
    BY <1>6 DEF Tab
  <2>2. CASE loading' = TRUE /\ Begin({Current, c})
    BY <1>7, <2>1, <2>2, TabsReload
  <2>3. CASE loading' = loading /\ Begin({c})
    BY <1>7, <2>1, <2>3, TabsStay
  <2> QED
    BY <1>1, <2>2, <2>3
<1>9. AllServed' /\ AllOwn'
  <2>1. \/ Begin({Current, c}) \/ Begin({c})
    BY <1>1
  <2> QED
    BY <1>1, <1>4, <1>5, <1>6, <1>7, <2>1, ProjectKeeps DEF c
<1>10. Shapes'
  BY <1>1, <1>3, <1>4 DEF Inv, Shapes
<1>11. Alone'
  BY <1>1, <1>7, OpenIsAlone DEF Alone
<1> QED
  BY <1>8, <1>9, <1>10, <1>11 DEF Inv

LEMMA RefreshSessionKeeps ==
  ASSUME Inv, RefreshSession PROVE Inv'
<1> DEFINE c == Detail("session", src, session.id)
           C == {Current, c}
<1>1. /\ session.open /\ session' = [session EXCEPT !.loading = TRUE] /\ loading' = TRUE /\ Begin(C)
      /\ UNCHANGED <<project, day, message>>
      /\ UNCHANGED <<src, period, order, page, loadErr, data, sessions, agg, aggErr, picker>>
  BY DEF RefreshSession, KeepsTabs, selection, aggregate
<1>2. session = [open |-> TRUE, id |-> session.id, loading |-> session.loading,
                 missing |-> session.missing, shown |-> session.shown]
  BY <1>1 DEF Inv, Shapes, Closed
<1>3. session' = [open |-> TRUE, id |-> session.id, loading |-> TRUE, missing |-> session.missing,
                  shown |-> session.shown]
  BY <1>1, <1>2
<1>4. session'.open /\ session'.id = session.id /\ session'.shown = session.shown
  BY <1>3
<1>5. c.kind = "session" /\ c.id = session.id /\ Current.kind = "snapshot"
  BY DetailIs, SnapshotIs DEF Current
<1> HIDE DEF c
<1>6. \A x \in C : x = Current \/ (~Tab(x) /\ x.kind # "agg")
  BY <1>5 DEF Tab
<1>7. Waits' /\ Views' /\ Whole'
  BY <1>1, <1>6, TabsReload
<1>8. Served("session", session)'
  <2>1. flight' = flight \union C
    BY <1>1, BeginIs
  <2> QED
    BY <1>1, <1>4, <1>5, <2>1 DEF Served, Inv, AllServed
<1>9. AllServed' /\ AllOwn'
  <2>1. \A x \in C : x.kind # "project" /\ x.kind # "day"
    BY <1>5
  <2> QED
    BY <1>1, <1>8, <2>1, OverlayStays DEF AllServed, AllOwn
<1>10. Shapes'
  BY <1>1, <1>3, <1>4 DEF Inv, Shapes
<1>11. Alone'
  BY <1>1, OpenIsAlone DEF Alone
<1> QED
  BY <1>7, <1>9, <1>10, <1>11 DEF Inv

LEMMA PageDayKeeps ==
  ASSUME Inv, NEW n, PageDay(n) PROVE Inv'
<1> DEFINE c == DayLoad(day.id, n)
           C == {c}
<1>1. /\ day.open /\ day' = [day EXCEPT !.page = n, !.loading = TRUE] /\ Begin(C)
      /\ UNCHANGED <<session, project, message>>
      /\ UNCHANGED <<src, period, order, page, loading, loadErr, data, sessions, agg, aggErr, picker>>
  BY DEF PageDay, TopDay, KeepsTabs, selection, aggregate
<1>2. day = [open |-> TRUE, id |-> day.id, page |-> day.page, loading |-> day.loading, shown |-> day.shown]
  BY <1>1 DEF Inv, Shapes, Closed
<1>3. day' = [open |-> TRUE, id |-> day.id, page |-> n, loading |-> TRUE, shown |-> day.shown]
  BY <1>1, <1>2
<1>4. day'.open /\ day'.id = day.id /\ day'.shown = day.shown /\ day'.page = n /\ day'.loading
  BY <1>3
<1>5. c.kind = "day" /\ c.source = src /\ c.id = day.id /\ c.page = n
  BY DetailIs DEF DayLoad
<1> HIDE DEF c
<1>6. \A x \in C : ~Tab(x) /\ x.kind # "agg" /\ x.kind # "project"
  BY <1>5 DEF Tab
<1>7. Waits' /\ Views' /\ Whole'
  BY <1>1, <1>6, TabsStay
<1>8. flight' = flight \union C /\ (orderly' => \A d \in flight : d.kind # "day")
  BY <1>1, <1>5, BeginIs
<1>9. Served("day", day)'
  BY <1>1, <1>4, <1>5, <1>8 DEF Served, Inv, AllServed
<1>10. Own("day", day)'
  BY <1>1, <1>4, <1>5, <1>8 DEF Own
<1>11. AllServed' /\ AllOwn'
  BY <1>1, <1>6, <1>9, <1>10, OverlayStays DEF AllServed, AllOwn
<1>12. Shapes'
  BY <1>1, <1>3, <1>4 DEF Inv, Shapes
<1>13. Alone'
  BY <1>1, OpenIsAlone DEF Alone
<1> QED
  BY <1>7, <1>11, <1>12, <1>13 DEF Inv

\* A message is opened, or loaded again.
LEMMA MessageKeeps ==
  ASSUME Inv, NEW c, Begin({c}), c.kind = "message", message'.open, message'.id = c.id,
         message'.shown # NoDetail => message'.shown.id = message'.id,
         message' = [open |-> TRUE, id |-> message'.id, loading |-> message'.loading, shown |-> message'.shown],
         UNCHANGED <<session, project, day, loading>>, KeepsTabs, picker = "none"
  PROVE  Inv'
<1>1. UNCHANGED <<src, period, order, page, loadErr, data, sessions, agg, aggErr, picker>>
  BY DEF KeepsTabs, selection, aggregate
<1>2. \A x \in {c} : ~Tab(x) /\ x.kind # "agg" /\ x.kind # "project" /\ x.kind # "day"
  BY DEF Tab
<1>3. Waits' /\ Views' /\ Whole'
  BY <1>1, <1>2, TabsStay
<1>4. Served("message", message)'
  <2>1. flight' = flight \union {c}
    BY BeginIs
  <2> QED
    BY <2>1 DEF Served
<1>5. AllServed' /\ AllOwn'
  BY <1>1, <1>2, <1>4, OverlayStays DEF AllServed, AllOwn
<1>6. Shapes'
  BY DEF Inv, Shapes
<1> QED
  BY <1>1, <1>3, <1>5, <1>6 DEF Inv, Alone

LEMMA MessageSteps ==
  ASSUME Inv, EnterMessage \/ RefreshMessage PROVE Inv'
<1>1. CASE EnterMessage
  <2> DEFINE id == MessageOf(day.shown)
             c == Detail("message", src, id)
  <2>1. /\ message' = [open |-> TRUE, id |-> id, loading |-> TRUE, shown |-> NoDetail] /\ Begin({c}) /\ day.open
        /\ KeepsTabs /\ UNCHANGED <<loading, session, project, day>>
    BY <1>1 DEF EnterMessage, TopDay
  <2>2. c.kind = "message" /\ c.id = id
    BY DetailIs
  <2>3. picker = "none"
    BY <2>1, OpenIsAlone
  <2> HIDE DEF id, c
  <2>4. message'.open /\ message'.id = id /\ message'.shown = NoDetail /\ message'.loading = TRUE
    BY <2>1
  <2> QED
    BY <2>1, <2>2, <2>3, <2>4, MessageKeeps
<1>2. CASE RefreshMessage
  <2> DEFINE c == Detail("message", src, message.id)
  <2>1. /\ message.open /\ message' = [message EXCEPT !.loading = TRUE] /\ Begin({c})
        /\ KeepsTabs /\ UNCHANGED <<loading, session, project, day>>
    BY <1>2 DEF RefreshMessage
  <2>2. c.kind = "message" /\ c.id = message.id
    BY DetailIs
  <2>3. picker = "none"
    BY <2>1, OpenIsAlone
  <2> HIDE DEF c
  <2>4. message = [open |-> TRUE, id |-> message.id, loading |-> message.loading, shown |-> message.shown]
    BY <2>1 DEF Inv, Shapes, Closed
  <2>5. message' = [open |-> TRUE, id |-> message.id, loading |-> TRUE, shown |-> message.shown]
    BY <2>1, <2>4
  <2>6. message'.open /\ message'.id = message.id /\ message'.shown = message.shown /\ message'.loading = TRUE
    BY <2>5
  <2>7. message'.shown # NoDetail => message'.shown.id = message'.id
    BY <2>1, <2>6 DEF Inv, AllServed, Served
  <2> QED
    BY <2>1, <2>2, <2>3, <2>5, <2>6, <2>7, MessageKeeps
<1> QED
  BY <1>1, <1>2

LEMMA CloseKeeps ==
  ASSUME Inv, CloseSession \/ CloseProject \/ CloseDay \/ CloseMessage PROVE Inv'
<1>1. /\ UNCHANGED <<src, period, order, page, loading, loadErr, data, sessions, agg, aggErr, picker, flight, orderly>>
      /\ session' = session \/ session' = Closed
      /\ project' = project \/ project' = Closed
      /\ day' = day \/ day' = Closed
      /\ message' = message \/ message' = Closed
  BY DEF CloseSession, CloseProject, CloseDay, CloseMessage, KeepsTabs, selection, aggregate, loads
<1>2. Waits' /\ Views' /\ Whole'
  BY <1>1, ViewsUnchanged
<1>3. Served("session", session)'
  BY <1>1 DEF Inv, AllServed, Served, Closed
<1>4. Served("project", project)' /\ Own("project", project)'
  BY <1>1 DEF Inv, AllServed, AllOwn, Served, Own, Closed
<1>5. Served("day", day)' /\ Own("day", day)'
  BY <1>1 DEF Inv, AllServed, AllOwn, Served, Own, Closed
<1>6. Served("message", message)'
  BY <1>1 DEF Inv, AllServed, Served, Closed
<1>7. Shapes' /\ Alone'
  BY <1>1 DEF Inv, Shapes, Alone, AllClosed
<1> QED
  BY <1>2, <1>3, <1>4, <1>5, <1>6, <1>7 DEF Inv, AllServed, AllOwn

-----------------------------------------------------------------------------
(* Results                                                                 *)

LEMMA DoneIs ==
  ASSUME NEW c, NEW fails, Done(c, fails)
  PROVE  /\ c \in flight /\ flight' = flight \ {c}
         /\ orderly' => orderly /\ ~(fails /\ c.kind = "snapshot")
<1>1. c \in flight /\ flight' = flight \ {c}
  BY DEF Done
<1>2. ASSUME orderly' PROVE orderly /\ ~(fails /\ c.kind = "snapshot")
  BY <1>2, Zenon DEF Done
<1> QED
  BY <1>1, <1>2

\* The other overlays do not notice.
LEMMA OthersServed ==
  ASSUME Inv, NEW c, NEW fails, Done(c, fails)
  PROVE  /\ session' = session /\ c.kind # "session" => Served("session", session)'
         /\ project' = project /\ c.kind # "project" => Served("project", project)'
         /\ day' = day /\ c.kind # "day" => Served("day", day)'
         /\ message' = message /\ c.kind # "message" => Served("message", message)'
         /\ project' = project /\ src' = src => Own("project", project)'
         /\ day' = day /\ src' = src => Own("day", day)'
<1>1. flight' = flight \ {c} /\ (orderly' => orderly)
  BY DoneIs
<1>2. session' = session /\ c.kind # "session" => Served("session", session)'
  BY <1>1 DEF Inv, AllServed, Served
<1>3. project' = project /\ c.kind # "project" => Served("project", project)'
  BY <1>1 DEF Inv, AllServed, Served
<1>4. day' = day /\ c.kind # "day" => Served("day", day)'
  BY <1>1 DEF Inv, AllServed, Served
<1>5. message' = message /\ c.kind # "message" => Served("message", message)'
  BY <1>1 DEF Inv, AllServed, Served
<1>6. project' = project /\ src' = src => Own("project", project)'
  BY <1>1 DEF Inv, AllOwn, Own
<1>7. day' = day /\ src' = src => Own("day", day)'
  BY <1>1 DEF Inv, AllOwn, Own
<1> QED
  BY <1>2, <1>3, <1>4, <1>5, <1>6, <1>7

\* A list has come: a session that is open may be gone from it.
LEMMA ListedKeepsOverlays ==
  ASSUME Inv, NEW c, NEW fails, Done(c, fails), Tab(c), NEW list, session' = session \/ session' = Reconciled(list),
         UNCHANGED <<src, project, day, message, picker>>
  PROVE  Shapes' /\ AllServed' /\ AllOwn' /\ Alone'
<1>1. session' = session \/ (session.open /\ session' = [session EXCEPT !.missing = TRUE])
  BY DEF Reconciled
<1>2. flight' = flight \ {c} /\ c.kind # "session" /\ c.kind # "project" /\ c.kind # "day" /\ c.kind # "message"
  BY DoneIs DEF Tab
<1>3. CASE session' = session
  BY <1>2, <1>3, OthersServed DEF Inv, Shapes, AllServed, AllOwn, Alone, AllClosed
<1>4. CASE session.open /\ session' = [session EXCEPT !.missing = TRUE]
  <2>1. session = [open |-> TRUE, id |-> session.id, loading |-> session.loading,
                   missing |-> session.missing, shown |-> session.shown]
    BY <1>4 DEF Inv, Shapes, Closed
  <2>2. session' = [open |-> TRUE, id |-> session.id, loading |-> session.loading,
                    missing |-> TRUE, shown |-> session.shown]
    BY <1>4, <2>1
  <2>3. /\ session'.open /\ session'.id = session.id /\ session'.loading = session.loading
        /\ session'.missing = TRUE /\ session'.shown = session.shown
    BY <2>2
  <2>4. Served("session", session)'
    BY <1>2, <1>4, <2>3 DEF Inv, AllServed, Served
  <2>5. Shapes'
    BY <2>2, <2>3 DEF Inv, Shapes
  <2>6. Alone'
    BY <1>4, OpenIsAlone DEF Alone
  <2> QED
    BY <1>2, <2>4, <2>5, <2>6, OthersServed DEF AllServed, AllOwn
<1> QED
  BY <1>1, <1>3, <1>4

\* The load of the tabs has come, which is the only one if none has competed.
LEMMA TabLoaded ==
  ASSUME Inv, NEW c, NEW fails, Done(c, fails), Tab(c), loading' = FALSE,
         UNCHANGED <<src, period, order, agg, aggErr>>,
         \/ fails /\ loadErr' = TRUE /\ UNCHANGED <<data, sessions, page>>
         \/ /\ sessions' = ListOf(c) /\ page' = c.page
            /\ data' = [source |-> c.source, period |-> c.period] \/ (c.kind = "sessions" /\ data' = data)
  PROVE  Waits' /\ Views' /\ Whole'
<1>1. c \in flight /\ flight' = flight \ {c} /\ (orderly' => orderly /\ ~(fails /\ c.kind = "snapshot"))
  BY DoneIs
<1>2. Waits'
  BY DEF Waits
<1>3. Whole'
  <2>1. c.kind # "agg"
    BY DEF Tab
  <2> QED
    BY <1>1, <2>1 DEF Inv, Whole
<1>4. Views'
  <2> SUFFICES ASSUME orderly' PROVE Views'
    BY DEF Views
  <2>1. /\ c.source = src /\ c.period = period /\ c.order = order /\ c.page = page
        /\ \A d \in flight : Tab(d) => d = c
    BY <1>1 DEF Inv, Views
  <2>2. \A d \in flight' : ~Tab(d)
    BY <1>1, <2>1
  <2>3. CASE fails /\ loadErr' = TRUE /\ UNCHANGED <<data, sessions, page>>
    <3>1. c.kind = "sessions"
      BY <1>1, <2>3 DEF Tab
    <3>2. \A d \in flight : d.kind # "snapshot"
      BY <2>1, <3>1 DEF Tab
    <3>3. data' = [source |-> src', period |-> period']
      BY <1>1, <2>3, <3>2 DEF Inv, Views
    <3> QED
      BY <2>2, <2>3, <3>3 DEF Views, Tab
  <2>4. CASE ~(fails /\ loadErr' = TRUE /\ UNCHANGED <<data, sessions, page>>)
    <3>1. /\ sessions' = ListOf(c) /\ page' = c.page
          /\ data' = [source |-> c.source, period |-> c.period] \/ (c.kind = "sessions" /\ data' = data)
      BY <2>4
    <3>2. sessions' = [source |-> src', period |-> period', order |-> order', page |-> page']
      BY <2>1, <3>1 DEF ListOf
    <3>3. data' = [source |-> src', period |-> period']
      <4>1. CASE data' = [source |-> c.source, period |-> c.period]
        BY <2>1, <4>1
      <4>2. CASE c.kind = "sessions" /\ data' = data
        <5>1. \A d \in flight : d.kind # "snapshot"
          BY <2>1, <4>2 DEF Tab
        <5> QED
          BY <1>1, <4>2, <5>1 DEF Inv, Views
      <4> QED
        BY <3>1, <4>1, <4>2
    <3> QED
      BY <2>2, <3>2, <3>3 DEF Views, Tab
  <2> QED
    BY <2>3, <2>4
<1> QED
  BY <1>2, <1>3, <1>4

LEMMA SnapshotLoadedKeeps ==
  ASSUME Inv, NEW c, NEW fails \in BOOLEAN, SnapshotLoaded(c, fails) PROVE Inv'
<1>1. /\ Done(c, fails) /\ Tab(c) /\ loading' = FALSE /\ UNCHANGED <<src, period, order, agg, aggErr>>
      /\ UNCHANGED <<src, project, day, message, picker>>
  BY DEF SnapshotLoaded, Tab, aggregate
<1>2. CASE fails
  <2>1. loadErr' = TRUE /\ UNCHANGED <<data, sessions, page, session>>
    BY <1>2 DEF SnapshotLoaded
  <2> QED
    BY <1>1, <1>2, <2>1, TabLoaded, ListedKeepsOverlays DEF Inv
<1>3. CASE ~fails
  <2>1. /\ data' = [source |-> c.source, period |-> c.period] /\ sessions' = ListOf(c) /\ page' = c.page
        /\ session' = Reconciled(ListOf(c))
    BY <1>3 DEF SnapshotLoaded
  <2> QED
    BY <1>1, <2>1, TabLoaded, ListedKeepsOverlays DEF Inv
<1> QED
  BY <1>2, <1>3

LEMMA SessionsLoadedKeeps ==
  ASSUME Inv, NEW c, NEW fails \in BOOLEAN, SessionsLoaded(c, fails) PROVE Inv'
<1>1. /\ Done(c, fails) /\ Tab(c) /\ c.kind = "sessions" /\ loading' = FALSE /\ data' = data
      /\ UNCHANGED <<src, period, order, agg, aggErr>> /\ UNCHANGED <<src, project, day, message, picker>>
  BY DEF SessionsLoaded, Tab, aggregate
<1>2. CASE fails
  <2>1. loadErr' = TRUE /\ UNCHANGED <<data, sessions, page, session>>
    BY <1>1, <1>2 DEF SessionsLoaded
  <2> QED
    BY <1>1, <1>2, <2>1, TabLoaded, ListedKeepsOverlays DEF Inv
<1>3. CASE ~fails
  <2>1. sessions' = ListOf(c) /\ page' = c.page /\ session' = Reconciled(ListOf(c))
    BY <1>3 DEF SessionsLoaded
  <2> QED
    BY <1>1, <2>1, TabLoaded, ListedKeepsOverlays DEF Inv
<1> QED
  BY <1>2, <1>3

LEMMA AggregateLoadedKeeps ==
  ASSUME Inv, NEW c, NEW fails \in BOOLEAN, AggregateLoaded(c, fails) PROVE Inv'
<1>1. /\ Done(c, fails) /\ c.kind = "agg" /\ (fails => aggErr' = TRUE) /\ (~fails => agg' = c.period)
      /\ UNCHANGED <<selection, content, picker, overlays>>
  BY DEF AggregateLoaded
<1>2. c \in flight /\ flight' = flight \ {c} /\ (orderly' => orderly)
  BY <1>1, DoneIs
<1>3. ~Tab(c)
  BY <1>1 DEF Tab
<1>4. Waits' /\ Views'
  BY <1>1, <1>2, <1>3 DEF Inv, Waits, Views, Tab, selection, content
<1>5. Whole'
  BY <1>1, <1>2 DEF Inv, Whole, selection
<1>6. AllServed' /\ AllOwn'
  BY <1>1, OthersServed DEF AllServed, AllOwn, overlays, selection
<1>7. Shapes' /\ Alone'
  BY <1>1 DEF Inv, Shapes, Alone, AllClosed, overlays
<1> QED
  BY <1>4, <1>5, <1>6, <1>7 DEF Inv

\* An overlay that is open for something else waits for a load of its own.
LEMMA NotItsOwn ==
  ASSUME Inv, NEW c, NEW fails, Done(c, fails)
  PROVE  /\ session' = session /\ ~IsFor(session, c) => Served("session", session)'
         /\ project' = project /\ ~IsFor(project, c) => Served("project", project)'
         /\ day' = day /\ ~IsFor(day, c) => Served("day", day)'
         /\ message' = message /\ ~IsFor(message, c) => Served("message", message)'
<1>1. flight' = flight \ {c}
  BY DoneIs
<1>2. session' = session /\ ~IsFor(session, c) => Served("session", session)'
  BY <1>1 DEF Inv, AllServed, Served, IsFor
<1>3. project' = project /\ ~IsFor(project, c) => Served("project", project)'
  BY <1>1 DEF Inv, AllServed, Served, IsFor
<1>4. day' = day /\ ~IsFor(day, c) => Served("day", day)'
  BY <1>1 DEF Inv, AllServed, Served, IsFor
<1>5. message' = message /\ ~IsFor(message, c) => Served("message", message)'
  BY <1>1 DEF Inv, AllServed, Served, IsFor
<1> QED
  BY <1>2, <1>3, <1>4, <1>5

\* The result of an overlay leaves the tabs and, unless it is theirs, the others.
LEMMA TabsUnaware ==
  ASSUME Inv, NEW c, NEW fails, DetailLoaded(c, fails)
  PROVE  /\ Done(c, fails) /\ c.kind \in {"session", "project", "day", "message"} /\ UNCHANGED <<src, picker>>
         /\ Waits' /\ Views' /\ Whole'
<1>1. /\ Done(c, fails) /\ c.kind \in {"session", "project", "day", "message"}
      /\ UNCHANGED <<selection, content, aggregate, picker>>
  BY DEF DetailLoaded
<1>2. c \in flight /\ flight' = flight \ {c} /\ (orderly' => orderly)
  BY <1>1, DoneIs
<1>3. c.kind # "snapshot" /\ c.kind # "sessions" /\ c.kind # "agg" /\ ~Tab(c)
  BY <1>1 DEF Tab
<1>4. Waits' /\ Views'
  BY <1>1, <1>2, <1>3 DEF Inv, Waits, Views, Tab, selection, content
<1>5. Whole'
  BY <1>1, <1>2, <1>3 DEF Inv, Whole, selection, aggregate
<1> QED
  BY <1>1, <1>4, <1>5 DEF selection

LEMMA SessionLoaded ==
  ASSUME Inv, NEW c, NEW fails \in BOOLEAN, DetailLoaded(c, fails), c.kind = "session"
  PROVE  Inv'
<1>1. Done(c, fails) /\ UNCHANGED <<src, picker>> /\ Waits' /\ Views' /\ Whole'
  BY TabsUnaware
<1>2. UNCHANGED <<project, day, message>>
  BY DEF DetailLoaded
<1>3. /\ Served("project", project)' /\ Served("day", day)' /\ Served("message", message)'
      /\ AllOwn'
  BY <1>1, <1>2, OthersServed DEF AllOwn
<1>4. CASE ~IsFor(session, c)
  <2>1. session' = session
    BY <1>4 DEF DetailLoaded
  <2>2. Served("session", session)'
    BY <1>1, <1>4, <2>1, NotItsOwn
  <2>3. Shapes' /\ Alone'
    BY <1>1, <1>2, <2>1 DEF Inv, Shapes, Alone, AllClosed
  <2> QED
    BY <1>1, <1>3, <2>2, <2>3 DEF Inv, AllServed
<1>5. CASE IsFor(session, c)
  <2> DEFINE got == IF fails THEN NoDetail ELSE c
  <2>1. session.open /\ session = [open |-> TRUE, id |-> session.id, loading |-> session.loading,
                   missing |-> session.missing, shown |-> session.shown]
    BY <1>5 DEF Inv, Shapes, Closed, IsFor
  <2>2. session' = [[session EXCEPT !.loading = FALSE, !.shown = got] EXCEPT !.missing = FALSE]
    BY <1>5 DEF DetailLoaded, Loaded
  <2>3. got = NoDetail \/ got = c
    OBVIOUS
  <2> HIDE DEF got
  <2>4. session' = [open |-> TRUE, id |-> session.id, loading |-> FALSE, missing |-> FALSE, shown |-> got]
    BY <2>1, <2>2
  <2>5. /\ session'.open /\ session'.id = session.id /\ session'.loading = FALSE /\ session'.missing = FALSE
        /\ session'.shown = got
    BY <2>4
  <2>6. Served("session", session)'
    BY <1>5, <2>3, <2>5 DEF Served, IsFor
  <2>7. Shapes'
    BY <1>2, <2>4, <2>5 DEF Inv, Shapes
  <2>8. Alone'
    BY <1>1, <1>5, OpenIsAlone DEF Alone, IsFor
  <2> QED
    BY <1>1, <1>3, <2>6, <2>7, <2>8 DEF Inv, AllServed
<1> QED
  BY <1>4, <1>5

LEMMA MessageLoaded ==
  ASSUME Inv, NEW c, NEW fails \in BOOLEAN, DetailLoaded(c, fails), c.kind = "message"
  PROVE  Inv'
<1>1. Done(c, fails) /\ UNCHANGED <<src, picker>> /\ Waits' /\ Views' /\ Whole'
  BY TabsUnaware
<1>2. UNCHANGED <<session, project, day>>
  BY DEF DetailLoaded
<1>3. /\ Served("session", session)' /\ Served("project", project)' /\ Served("day", day)'
      /\ AllOwn'
  BY <1>1, <1>2, OthersServed DEF AllOwn
<1>4. CASE ~IsFor(message, c)
  <2>1. message' = message
    BY <1>4 DEF DetailLoaded, Loaded
  <2>2. Served("message", message)'
    BY <1>1, <1>4, <2>1, NotItsOwn
  <2>3. Shapes' /\ Alone'
    BY <1>1, <1>2, <2>1 DEF Inv, Shapes, Alone, AllClosed
  <2> QED
    BY <1>1, <1>3, <2>2, <2>3 DEF Inv, AllServed
<1>5. CASE IsFor(message, c)
  <2> DEFINE got == IF fails THEN NoDetail ELSE c
  <2>1. /\ message.open
        /\ message = [open |-> TRUE, id |-> message.id, loading |-> message.loading, shown |-> message.shown]
    BY <1>5 DEF Inv, Shapes, Closed, IsFor
  <2>2. message' = [message EXCEPT !.loading = FALSE, !.shown = got]
    BY <1>5 DEF DetailLoaded, Loaded
  <2>3. got = NoDetail \/ got = c
    OBVIOUS
  <2> HIDE DEF got
  <2>4. message' = [open |-> TRUE, id |-> message.id, loading |-> FALSE, shown |-> got]
    BY <2>1, <2>2
  <2>5. message'.open /\ message'.id = message.id /\ message'.loading = FALSE /\ message'.shown = got
    BY <2>4
  <2>6. Served("message", message)'
    BY <1>5, <2>3, <2>5 DEF Served, IsFor
  <2>7. Shapes'
    BY <1>2, <2>4, <2>5 DEF Inv, Shapes
  <2>8. Alone'
    BY <1>1, <1>5, OpenIsAlone DEF Alone, IsFor
  <2> QED
    BY <1>1, <1>3, <2>6, <2>7, <2>8 DEF Inv, AllServed
<1> QED
  BY <1>4, <1>5

LEMMA ProjectLoaded ==
  ASSUME Inv, NEW c, NEW fails \in BOOLEAN, DetailLoaded(c, fails), c.kind = "project"
  PROVE  Inv'
<1>1. Done(c, fails) /\ UNCHANGED <<src, picker>> /\ Waits' /\ Views' /\ Whole'
  BY TabsUnaware
<1>2. UNCHANGED <<session, day, message>>
  BY DEF DetailLoaded
<1>3. /\ Served("session", session)' /\ Served("message", message)' /\ Served("day", day)'
      /\ Own("day", day)'
  BY <1>1, <1>2, OthersServed
<1>4. CASE ~IsFor(project, c)
  <2>1. project' = project
    BY <1>4 DEF DetailLoaded, Loaded
  <2>2. Served("project", project)' /\ Own("project", project)'
    BY <1>1, <1>4, <2>1, NotItsOwn, OthersServed
  <2>3. Shapes' /\ Alone'
    BY <1>1, <1>2, <2>1 DEF Inv, Shapes, Alone, AllClosed
  <2> QED
    BY <1>1, <1>3, <2>2, <2>3 DEF Inv, AllServed, AllOwn
<1>5. CASE IsFor(project, c)
  <2> DEFINE got == IF fails THEN NoDetail ELSE c
  <2>1. project.open /\ project = [open |-> TRUE, id |-> project.id, page |-> project.page, period |-> project.period,
                   loading |-> project.loading, shown |-> project.shown]
    BY <1>5 DEF Inv, Shapes, Closed, IsFor
  <2>2. project' = [project EXCEPT !.loading = FALSE, !.shown = got]
    BY <1>5 DEF DetailLoaded, Loaded
  <2>3. got = NoDetail \/ got = c
    OBVIOUS
  <2> HIDE DEF got
  <2>4. project' = [open |-> TRUE, id |-> project.id, page |-> project.page, period |-> project.period,
                    loading |-> FALSE, shown |-> got]
    BY <2>1, <2>2
  <2>5. /\ project'.open /\ project'.id = project.id /\ project'.page = project.page
        /\ project'.period = project.period /\ project'.loading = FALSE /\ project'.shown = got
    BY <2>4
  <2>6. Served("project", project)'
    BY <1>5, <2>3, <2>5 DEF Served, IsFor
  <2>7. Own("project", project)'
    <3>1. c \in flight /\ flight' = flight \ {c} /\ (orderly' => orderly)
      BY <1>1, DoneIs
    <3> QED
      BY <1>1, <1>5, <2>3, <2>5, <3>1 DEF Inv, AllOwn, Own, IsFor
  <2>8. Shapes'
    BY <1>2, <2>4, <2>5 DEF Inv, Shapes
  <2>9. Alone'
    BY <1>1, <1>5, OpenIsAlone DEF Alone, IsFor
  <2> QED
    BY <1>1, <1>3, <2>6, <2>7, <2>8, <2>9 DEF Inv, AllServed, AllOwn
<1> QED
  BY <1>4, <1>5

LEMMA DayLoaded ==
  ASSUME Inv, NEW c, NEW fails \in BOOLEAN, DetailLoaded(c, fails), c.kind = "day"
  PROVE  Inv'
<1>1. Done(c, fails) /\ UNCHANGED <<src, picker>> /\ Waits' /\ Views' /\ Whole'
  BY TabsUnaware
<1>2. UNCHANGED <<session, project, message>>
  BY DEF DetailLoaded
<1>3. /\ Served("session", session)' /\ Served("message", message)' /\ Served("project", project)'
      /\ Own("project", project)'
  BY <1>1, <1>2, OthersServed
<1>4. CASE ~IsFor(day, c)
  <2>1. day' = day
    BY <1>4 DEF DetailLoaded
  <2>2. Served("day", day)' /\ Own("day", day)'
    BY <1>1, <1>4, <2>1, NotItsOwn, OthersServed
  <2>3. Shapes' /\ Alone'
    BY <1>1, <1>2, <2>1 DEF Inv, Shapes, Alone, AllClosed
  <2> QED
    BY <1>1, <1>3, <2>2, <2>3 DEF Inv, AllServed, AllOwn
<1>5. CASE IsFor(day, c)
  <2> DEFINE got == IF fails THEN NoDetail ELSE c
             on == IF fails THEN day.page ELSE c.page
  <2>1. /\ day.open
        /\ day = [open |-> TRUE, id |-> day.id, page |-> day.page, loading |-> day.loading, shown |-> day.shown]
    BY <1>5 DEF Inv, Shapes, Closed, IsFor
  <2>2. day' = [Loaded(day, c, fails) EXCEPT !.page = IF fails THEN @ ELSE c.page]
    BY <1>5 DEF DetailLoaded
  <2>3. Loaded(day, c, fails) = [day EXCEPT !.loading = FALSE, !.shown = got]
    BY <1>5 DEF Loaded
  <2>4. (got = NoDetail /\ on = day.page) \/ (got = c /\ on = c.page)
    OBVIOUS
  <2>5. Loaded(day, c, fails) = [open |-> TRUE, id |-> day.id, page |-> day.page, loading |-> FALSE, shown |-> got]
    <3> HIDE DEF got, on
    <3> QED
      BY <2>1, <2>3
  <2>6. day' = [open |-> TRUE, id |-> day.id, page |-> on, loading |-> FALSE, shown |-> got]
    <3> DEFINE after == Loaded(day, c, fails)
    <3> HIDE DEF got, on
    <3>1. after = [open |-> TRUE, id |-> day.id, page |-> day.page, loading |-> FALSE, shown |-> got]
      BY <2>5
    <3>2. day' = [after EXCEPT !.page = IF fails THEN @ ELSE c.page]
      BY <2>2
    <3> HIDE DEF after
    <3>3. after.open /\ after.page = day.page
      BY <3>1
    <3>4. day' = [after EXCEPT !.page = on]
      BY <3>2, <3>3 DEF on
    <3> QED
      BY <3>1, <3>3, <3>4
  <2> HIDE DEF got, on
  <2>7. day'.open /\ day'.id = day.id /\ day'.page = on /\ day'.loading = FALSE /\ day'.shown = got
    BY <2>6
  <2>8. Served("day", day)'
    BY <1>5, <2>4, <2>7 DEF Served, IsFor
  <2>9. Own("day", day)'
    <3>1. c \in flight /\ flight' = flight \ {c} /\ (orderly' => orderly)
      BY <1>1, DoneIs
    <3> QED
      BY <1>1, <1>5, <2>4, <2>7, <3>1 DEF Inv, AllOwn, Own, IsFor
  <2>10. Shapes'
    BY <1>2, <2>6, <2>7 DEF Inv, Shapes
  <2>11. Alone'
    BY <1>1, <1>5, OpenIsAlone DEF Alone, IsFor
  <2> QED
    BY <1>1, <1>3, <2>8, <2>9, <2>10, <2>11 DEF Inv, AllServed, AllOwn
<1> QED
  BY <1>4, <1>5

LEMMA ResultKeeps ==
  ASSUME Inv, NEW c, NEW fails \in BOOLEAN, Result(c, fails) PROVE Inv'
<1>1. ASSUME DetailLoaded(c, fails) PROVE Inv'
  <2>1. c.kind \in {"session", "project", "day", "message"}
    BY <1>1 DEF DetailLoaded
  <2> QED
    BY <1>1, <2>1, SessionLoaded, ProjectLoaded, DayLoaded, MessageLoaded
<1> QED
  BY <1>1, SnapshotLoadedKeeps, SessionsLoadedKeeps, AggregateLoadedKeeps DEF Result

-----------------------------------------------------------------------------
(* Theorems                                                                *)

LEMMA ListKeys == (SortSessions \/ NextPage \/ PrevPage) => \E o, n : ListSessions(o, n)
BY DEF SortSessions, NextPage, PrevPage

LEMMA NextInv == Inv /\ [ViewsNext]_viewVars => Inv'
<1> SUFFICES ASSUME Inv, [ViewsNext]_viewVars PROVE Inv'
  OBVIOUS
<1>1. ASSUME NEW s \in Sources, Switch(s) PROVE Inv'
  BY <1>1, QuietSteps
<1>2. ASSUME NEW s \in Sources, PickSource(s) PROVE Inv'
  BY <1>2, PickSourceKeeps
<1>3. ASSUME NEW p \in Periods, PickPeriod(p) PROVE Inv'
  BY <1>3, PickPeriodKeeps
<1>4. CASE OpenPeriods \/ OpenSources \/ ClosePicker
  BY <1>4, QuietSteps
<1>5. CASE RefreshViews
  BY <1>5, RefreshKeeps
<1>6. ASSUME NEW n \in 0..MaxDays - 1, MoveDay(n) PROVE Inv'
  BY <1>6, QuietSteps
<1>7. CASE EnterDay
  BY <1>7, EnterDayKeeps
<1>8. CASE SortSessions \/ NextPage \/ PrevPage
  BY <1>8, ListKeys, ListSessionsKeeps
<1>9. CASE EnterSession
  BY <1>9, EnterSessionKeeps
<1>10. CASE EnterProject
  BY <1>10, EnterProjectKeeps
<1>11. CASE CloseSession \/ CloseProject \/ CloseDay \/ CloseMessage
  BY <1>11, CloseKeeps
<1>12. CASE RefreshSession
  BY <1>12, RefreshSessionKeeps
<1>13. CASE EnterProjectSession
  BY <1>13, EnterProjectSessionKeeps
<1>14. CASE EnterMessage \/ RefreshMessage
  BY <1>14, MessageSteps
<1>15. ASSUME NEW n, PageProject(n) PROVE Inv'
  BY <1>15, PageProjectKeeps
<1>16. ASSUME NEW n, PageDay(n) PROVE Inv'
  BY <1>16, PageDayKeeps
<1>17. ASSUME NEW c \in flight, NEW fails \in BOOLEAN, Result(c, fails) PROVE Inv'
  BY <1>17, ResultKeeps
<1>18. CASE UNCHANGED viewVars
  BY <1>18, QuietSteps
<1> QED
  BY <1>1, <1>2, <1>3, <1>4, <1>5, <1>6, <1>7, <1>8, <1>9, <1>10, <1>11, <1>12, <1>13, <1>14, <1>15, <1>16, <1>17,
     <1>18 DEF ViewsNext

LEMMA InvHolds == ViewsSpec => []Inv
<1>1. ViewsInit => Inv
  BY InitInv
<1>2. Inv /\ [ViewsNext]_viewVars => Inv'
  BY NextInv
<1> QED
  BY <1>1, <1>2, PTL DEF ViewsSpec

\* Whatever is opened, closed, paged and asked for again while loads are under
\* way: once all of them are answered nothing waits, and an overlay never shows
\* what was loaded for another row.
THEOREM OverlaysAreServed == ViewsSpec => [](WaitsEnd /\ OverlayIsOfItsRow)
<1>1. Inv => WaitsEnd
  BY DEF Inv, Waits, AllServed, Served, WaitsEnd
<1>2. Inv => OverlayIsOfItsRow
  BY DEF Inv, AllServed, Served, OverlayIsOfItsRow
<1> QED
  BY <1>1, <1>2, InvHolds, PTL

\* As long as no load has failed and none has overlapped one that it competes
\* with, what is shown without a banner is what is selected: the source, the
\* period, the order and the pages, of the tabs and of the overlays.
THEOREM ViewsFollowSelection == ViewsSpec => []ShownIsSelected
<1>1. Inv => ShownIsSelected
  <2> SUFFICES ASSUME Inv, orderly PROVE ShownIsSelected
    BY DEF ShownIsSelected
  <2>1. ASSUME loaded, ~loading, ~loadErr
        PROVE  /\ data = [source |-> src, period |-> period]
               /\ sessions = [source |-> src, period |-> period, order |-> order, page |-> page]
    <3>1. \A c \in flight : ~Tab(c)
      BY <2>1 DEF Inv, Views
    <3>2. \A c \in flight : c.kind # "snapshot"
      BY <3>1 DEF Tab
    <3> QED
      BY <2>1, <3>1, <3>2 DEF Inv, Views
  <2>2. ~aggErr /\ (\A c \in flight : c.kind # "agg") => agg = period
    BY DEF Inv, Whole
  <2>3. \A overlay \in {project, day} :
          overlay.open /\ ~overlay.loading /\ overlay.shown # NoDetail =>
            overlay.shown.source = src /\ overlay.shown.page = overlay.page
    BY DEF Inv, AllOwn, Own
  <2> QED
    BY <2>1, <2>2, <2>3 DEF ShownIsSelected
<1> QED
  BY <1>1, InvHolds, PTL

\* Whatever is loaded in whatever order, the terminal shows what is selected.
THEOREM TerminalStaysTrue == ViewsSpec => []TerminalIsTrue
  BY OverlaysAreServed, ViewsFollowSelection, PTL DEF TerminalIsTrue

-----------------------------------------------------------------------------
(* The browser: what is streamed to it                                     *)

\* A symbol is a string; the provers have to be told that the notice is one.
Symbol == STRING \union {Notice}
Text == Seq(Symbol)
Cleaned == [ok : BOOLEAN, text : Text]

\* Texts are texts however they are cleaned, and the model calls tools that it
\* was offered, with arguments that are JSON.
Sensible ==
  /\ MaxVisible \in Nat
  /\ Texts \subseteq Text
  /\ Calls \subseteq [name : Names \intersect Text, arguments : ValidJSON \intersect Text]
  /\ \A s \in Text : Strip(s) \in Cleaned /\ Streamable(s) \in Cleaned

Fragments == [incremental : Text, cumulative : Text, possible : BOOLEAN]

StreamTypes ==
  /\ stream \in BOOLEAN /\ noticed \in BOOLEAN
  /\ meant.text \in Text /\ meant.call \in [name : Text, arguments : Text]
  /\ meant.finish = "tool_calls" => meant.call \in Calls
  /\ sent \in [text : 0..Len(meant.text), name : 0..Len(meant.call.name),
               arguments : 0..Len(meant.call.arguments), pieces : Nat]
  /\ acc \in [text : Text, name : Fragments, arguments : Fragments]
  /\ visible \in [emitted : Text, published : BOOLEAN, discarded : BOOLEAN]
  /\ shown \in Text /\ answer \in Text

\* The reading that fits the deployment is what was sent of a text.
Kept(f, s, k) ==
  IF mode = "cumulative" THEN f.possible /\ f.cumulative = SubSeq(s, 1, k)
  ELSE f.incremental = SubSeq(s, 1, k)

BothKept ==
  /\ Kept(acc.name, meant.call.name, sent.name)
  /\ Kept(acc.arguments, meant.call.arguments, sent.arguments)

\* Tools are run when all of their calls has come and one reading was chosen.
ToolsReady ==
  pc = "tools" =>
    /\ meant.finish = "tool_calls"
    /\ stream => AllSent /\ Resolve(acc.name, acc.arguments).ok

Coming == {"reply", "retryable", "failed", "tools", "final"}

\* The browser shows what the attempt under way has emitted, and nothing in
\* between.
OnScreen ==
  /\ pc \in Coming \union {"call", "over", "answered", "cancelled"}
  /\ pc \in Coming =>
       /\ ~visible.discarded /\ shown = visible.emitted
       /\ visible.emitted # <<>> => visible.published
  /\ pc \in {"call", "over"} => shown = <<>>

StreamInv == StreamTypes /\ BothKept /\ ToolsReady /\ OnScreen /\ ShownIsSigned

\* What precedes a position and what follows it are the text.
LEMMA PrefixJoins ==
  ASSUME NEW s \in Text, NEW p \in Text, HasPrefix(s, p)
  PROVE  /\ After(s, Len(p)) \in Text
         /\ p \o After(s, Len(p)) = s
<1>1. Len(p) \in 0..Len(s) /\ p = SubSeq(s, 1, Len(p))
  BY DEF HasPrefix, Text
<1>2. SubSeq(s, 1, Len(p)) \o SubSeq(s, Len(p) + 1, Len(s)) = SubSeq(s, 1, Len(s))
  <2>1. Len(p) \in 1 - 1..Len(s) /\ Len(s) \in Len(p)..Len(s) /\ 1 \in 1..Len(s) + 1
    BY <1>1 DEF Text
  <2> QED
    BY <2>1, ConcatAdjacentSubSeq DEF Text
<1>3. SubSeq(s, 1, Len(s)) = s
  BY SubSeqFull DEF Text
<1>4. After(s, Len(p)) \in Text
  BY <1>1 DEF After, Text
<1> QED
  BY <1>1, <1>2, <1>3, <1>4 DEF After

LEMMA Joined ==
  ASSUME NEW s \in Text, NEW t \in Text
  PROVE  s \o t \in Text /\ Len(s \o t) = Len(s) + Len(t) /\ Len(s) \in Nat /\ Len(t) \in Nat
  BY ConcatProperties DEF Text

LEMMA PieceIs ==
  ASSUME NEW s \in Text, NEW k \in 0..Len(s), NEW n \in k + 1..Len(s)
  PROVE  /\ Piece(s, k, n) \in Text /\ Piece(s, k, n) # <<>>
         /\ mode = "cumulative" => /\ Piece(s, k, n) = SubSeq(s, 1, n)
                                   /\ HasPrefix(Piece(s, k, n), SubSeq(s, 1, k))
         /\ mode # "cumulative" => SubSeq(s, 1, k) \o Piece(s, k, n) = SubSeq(s, 1, n)
<1> USE DEF Text
<1>1. ASSUME NEW m \in 0..k
      PROVE  SubSeq(s, m + 1, n) \in Text /\ Len(SubSeq(s, m + 1, n)) = n - m
  BY <1>1, SubSeqProperties
<1>2. \A m \in 0..k : SubSeq(s, m + 1, n) # <<>>
  BY <1>1
<1>3. Len(SubSeq(s, 1, k)) = k
  BY SubSeqProperties
<1>4. SubSeq(SubSeq(s, 1, n), 1, k) = SubSeq(s, 1, k)
  <2>1. CASE k = 0
    <3>1. SubSeq(s, 1, k) = <<>> /\ SubSeq(SubSeq(s, 1, n), 1, k) = <<>>
      BY <2>1, SubSeqEmpty
    <3> QED
      BY <3>1
  <2>2. CASE k # 0
    <3>1. k \in 1..n - 1 + 1 /\ 1 \in 1..n - 1 + 1 /\ n \in 1..Len(s) /\ 1 \in 1..Len(s)
      BY <2>2
    <3> QED
      BY <3>1, SubSeqOfSubSeq
  <2> QED
    BY <2>1, <2>2
<1>5. SubSeq(s, 1, k) \o SubSeq(s, k + 1, n) = SubSeq(s, 1, n)
  <2>1. k \in 1 - 1..Len(s) /\ n \in k..Len(s) /\ 1 \in 1..Len(s) + 1
    OBVIOUS
  <2> QED
    BY <2>1, ConcatAdjacentSubSeq
<1>6. CASE mode = "cumulative"
  <2>1. Piece(s, k, n) = SubSeq(s, 0 + 1, n)
    BY <1>6 DEF Piece
  <2> QED
    BY <1>1, <1>2, <1>3, <1>4, <1>6, <2>1 DEF HasPrefix
<1>7. CASE mode # "cumulative"
  <2>1. Piece(s, k, n) = SubSeq(s, k + 1, n) /\ k \in 0..k
    BY <1>7 DEF Piece
  <2>2. Piece(s, k, n) \in Text /\ Piece(s, k, n) # <<>>
    BY <1>1, <1>2, <2>1
  <2> QED
    BY <1>5, <1>7, <2>1, <2>2
<1> QED
  BY <1>6, <1>7

\* Another piece keeps the reading that fits.
LEMMA AddKeeps ==
  ASSUME NEW s \in Text, NEW k \in 0..Len(s), NEW n \in k + 1..Len(s),
         NEW f \in Fragments, Kept(f, s, k)
  PROVE  LET g == Add(f, Piece(s, k, n)) IN g \in Fragments /\ Kept(g, s, n)
<1> DEFINE p == Piece(s, k, n)
<1>1. p \in Text /\ p # <<>>
  BY PieceIs
<1>2. Add(f, p) = [incremental |-> f.incremental \o p,
                   possible |-> f.possible /\ HasPrefix(p, f.cumulative),
                   cumulative |-> IF f.possible /\ HasPrefix(p, f.cumulative) THEN p ELSE f.cumulative]
  BY <1>1 DEF Add
<1>3. Add(f, p) \in Fragments
  <2>1. f.incremental \o p \in Text
    BY <1>1 DEF Fragments, Text
  <2>2. (f.possible /\ HasPrefix(p, f.cumulative)) \in BOOLEAN
    BY DEF Fragments, HasPrefix
  <2> QED
    BY <1>1, <1>2, <2>1, <2>2 DEF Fragments
<1> HIDE DEF p
<1>4. CASE mode = "cumulative"
  <2>1. p = SubSeq(s, 1, n) /\ HasPrefix(p, f.cumulative) /\ f.possible
    BY <1>4, PieceIs DEF Kept, p
  <2>2. Add(f, p).possible = (f.possible /\ HasPrefix(p, f.cumulative)) /\ Add(f, p).cumulative = p
    BY <1>2, <2>1
  <2> QED
    BY <1>3, <1>4, <2>1, <2>2 DEF Kept, p
<1>5. CASE mode # "cumulative"
  <2>1. f.incremental \o p = SubSeq(s, 1, n)
    BY <1>5, PieceIs DEF Kept, p
  <2> QED
    BY <1>2, <1>3, <1>5, <2>1 DEF Kept, p
<1> QED
  BY <1>4, <1>5

\* One valid reading is chosen, and the one that fits is valid.
LEMMA ResolvesAsMeant ==
  ASSUME NEW c \in Calls, Sensible, NEW name \in Fragments, NEW args \in Fragments,
         Kept(name, c.name, Len(c.name)), Kept(args, c.arguments, Len(c.arguments)),
         Resolve(name, args).ok
  PROVE  Resolve(name, args).text = c
<1> DEFINE inc == [name |-> name.incremental, arguments |-> args.incremental]
           cum == [name |-> name.cumulative, arguments |-> args.cumulative]
<1>1. /\ c = [name |-> c.name, arguments |-> c.arguments]
      /\ c.name \in Names /\ c.name \in Text
      /\ c.arguments \in ValidJSON /\ c.arguments \in Text
  BY DEF Sensible
<1>2. SubSeq(c.name, 1, Len(c.name)) = c.name /\ SubSeq(c.arguments, 1, Len(c.arguments)) = c.arguments
  BY <1>1, SubSeqFull DEF Text
<1>3. CASE mode = "cumulative"
  <2>1. cum = c /\ name.possible /\ args.possible
    BY <1>1, <1>2, <1>3 DEF Kept
  <2> QED
    BY <1>1, <2>1 DEF Resolve, Good, Failed
<1>4. CASE mode # "cumulative"
  <2>1. inc = c
    BY <1>1, <1>2, <1>4 DEF Kept
  <2> QED
    BY <1>1, <2>1 DEF Resolve, Good, Failed
<1> QED
  BY <1>3, <1>4

LEMMA NothingKept ==
  /\ NoFragments \in Fragments /\ <<>> \in Text
  /\ \A s \in Text : Kept(NoFragments, s, 0)
<1>1. <<>> \in Text
  BY DEF Text
<1>2. \A s : SubSeq(s, 1, 0) = <<>>
  BY SubSeqEmpty
<1> QED
  BY <1>1, <1>2 DEF NoFragments, Fragments, Kept

LEMMA InitStream == Init => StreamInv
<1> SUFFICES ASSUME Init PROVE StreamInv
  OBVIOUS
<1> USE NothingKept DEF Init
<1>1. StreamTypes
  <2>1. NoReply.text = <<>> /\ NoReply.call = NoCall /\ NoReply.finish = "stop"
        /\ NoCall \in [name : Text, arguments : Text]
        /\ NoCall.name = <<>> /\ NoCall.arguments = <<>>
    BY DEF NoReply, NoCall
  <2>2. NothingSent \in [text : 0..0, name : 0..0, arguments : 0..0, pieces : Nat]
    BY DEF NothingSent
  <2>3. Len(<<>>) = 0
    OBVIOUS
  <2> QED
    BY <2>1, <2>2, <2>3 DEF StreamTypes, NewAcc, NewVisible
<1>2. BothKept
  BY <1>1 DEF BothKept, NewAcc, NothingSent, StreamTypes
<1> QED
  BY <1>1, <1>2 DEF StreamInv, ToolsReady, OnScreen, Coming, ShownIsSigned

LEMMA RequestKeeps == Sensible /\ StreamInv /\ Request => StreamInv'
<1> SUFFICES ASSUME Sensible, StreamInv, Request PROVE StreamInv'
  OBVIOUS
<1> USE NothingKept
<1>1. /\ meant' \in Replies /\ sent' = NothingSent /\ acc' = NewAcc /\ visible' = NewVisible
      /\ pc = "call" /\ pc' = "reply" /\ shown = <<>>
      /\ UNCHANGED <<mode, stream, noticed, shown, answer>>
  BY DEF Request, StreamInv, OnScreen
<1>2. /\ meant'.text \in Text /\ meant'.call \in [name : Text, arguments : Text]
      /\ meant'.finish = "tool_calls" => meant'.call \in Calls
  <2>1. NoCall \in [name : Text, arguments : Text]
    BY DEF NoCall
  <2> QED
    BY <1>1, <2>1 DEF Replies, Sensible
<1>3. sent' \in [text : 0..Len(meant'.text), name : 0..Len(meant'.call.name),
                 arguments : 0..Len(meant'.call.arguments), pieces : Nat]
  <2>1. \A s \in Text : 0 \in 0..Len(s)
    BY DEF Text
  <2> QED
    BY <1>1, <1>2, <2>1 DEF NothingSent
<1>4. StreamTypes'
  BY <1>1, <1>2, <1>3 DEF StreamTypes, StreamInv, NewAcc, NewVisible
<1>5. BothKept'
  BY <1>1, <1>2 DEF BothKept, NewAcc, NothingSent, Kept
<1> QED
  BY <1>1, <1>4, <1>5 DEF StreamInv, ToolsReady, OnScreen, Coming, ShownIsSigned, NewVisible

LEMMA SendTextKeeps ==
  ASSUME Sensible, StreamInv, NEW n \in Int, SendText(n)
  PROVE  StreamInv'
<1> DEFINE piece == Piece(meant.text, sent.text, n)
           p == Pushed(piece)
           delta == After(p.emitted, Len(visible.emitted))
<1>1. /\ pc = "reply" /\ pc' = pc
      /\ n \in sent.text + 1..Len(meant.text)
      /\ p.ok
      /\ acc' = [acc EXCEPT !.text = p.text]
      /\ visible' = [visible EXCEPT !.emitted = p.emitted, !.published = @ \/ delta # <<>>]
      /\ shown' = shown \o delta
      /\ sent' = [sent EXCEPT !.text = n, !.pieces = @ + 1]
      /\ UNCHANGED <<mode, stream, noticed, meant, answer>>
  BY DEF SendText, MorePieces
<1>2. StreamTypes /\ BothKept /\ OnScreen
  BY DEF StreamInv
<1>3. p.text \in Text /\ p.emitted \in Text /\ HasPrefix(p.emitted, visible.emitted)
  <2>1. piece \in Text
    BY <1>1, <1>2, PieceIs DEF StreamTypes
  <2>2. Advance(acc.text, piece) \in Text
    <3>1. acc.text \in Text
      BY <1>2 DEF StreamTypes
    <3>2. acc.text \o piece \in Text
      BY <2>1, <3>1 DEF Text
    <3> QED
      BY <2>1, <3>1, <3>2 DEF Advance
  <2>3. Streamable(Advance(acc.text, piece)) \in Cleaned
    BY <2>2 DEF Sensible
  <2> QED
    BY <1>1, <2>2, <2>3 DEF Pushed, Cleaned
<1> HIDE DEF p, piece
<1>4. delta \in Text /\ visible.emitted \o delta = p.emitted
  BY <1>2, <1>3, PrefixJoins DEF StreamTypes
<1> HIDE DEF delta
<1>5. /\ ~visible.discarded /\ shown = visible.emitted
      /\ visible.emitted # <<>> => visible.published
  BY <1>1, <1>2 DEF OnScreen, Coming
<1>6. /\ visible'.emitted = p.emitted /\ visible'.published = (visible.published \/ delta # <<>>)
      /\ visible'.discarded = visible.discarded
      /\ visible' \in [emitted : Text, published : BOOLEAN, discarded : BOOLEAN]
  BY <1>1, <1>2, <1>3 DEF StreamTypes
<1>7. shown' = p.emitted
  BY <1>1, <1>4, <1>5
<1>8. p.emitted # <<>> => visible.published \/ delta # <<>>
  <2>1. delta = <<>> => p.emitted = visible.emitted
    BY <1>2, <1>4 DEF StreamTypes, Text
  <2> QED
    BY <1>5, <2>1
<1>9. StreamTypes'
  <2>1. acc' \in [text : Text, name : Fragments, arguments : Fragments]
    BY <1>1, <1>2, <1>3 DEF StreamTypes
  <2>2. n \in 0..Len(meant.text) /\ sent.pieces + 1 \in Nat
    <3>1. n \in sent.text + 1..Len(meant.text)
      BY <1>1
    <3>2. sent.text \in 0..Len(meant.text) /\ sent.pieces \in Nat
      BY <1>2 DEF StreamTypes
    <3>3. Len(meant.text) \in Nat
      BY <1>2 DEF StreamTypes, Text
    <3> QED
      BY <3>1, <3>2, <3>3
  <2>3. sent' \in [text : 0..Len(meant.text), name : 0..Len(meant.call.name),
                   arguments : 0..Len(meant.call.arguments), pieces : Nat]
    BY <1>1, <1>2, <2>2 DEF StreamTypes
  <2>4. shown' \in Text /\ visible' \in [emitted : Text, published : BOOLEAN, discarded : BOOLEAN]
    BY <1>3, <1>6, <1>7
  <2> QED
    BY <1>1, <1>2, <2>1, <2>3, <2>4 DEF StreamTypes
<1>10. BothKept'
  BY <1>1, <1>2 DEF BothKept, Kept, StreamTypes
<1> QED
  BY <1>1, <1>5, <1>6, <1>7, <1>8, <1>9, <1>10 DEF StreamInv, ToolsReady, OnScreen, Coming, ShownIsSigned

LEMMA SendCallKeeps ==
  ASSUME Sensible, StreamInv, NEW n \in Int, NEW a \in Int, SendCall(n, a)
  PROVE  StreamInv'
<1> DEFINE name == meant.call.name
           args == meant.call.arguments
           f == IF n = sent.name THEN acc.name ELSE Add(acc.name, Piece(name, sent.name, n))
           g == IF a = sent.arguments THEN acc.arguments
                ELSE Add(acc.arguments, Piece(args, sent.arguments, a))
<1>1. /\ pc = "reply" /\ pc' = pc
      /\ n \in sent.name..Len(name) /\ a \in sent.arguments..Len(args)
      /\ acc' = [acc EXCEPT !.name = f, !.arguments = g]
      /\ sent' = [sent EXCEPT !.name = n, !.arguments = a, !.pieces = @ + 1]
      /\ UNCHANGED <<mode, stream, noticed, meant, visible, shown, answer>>
  BY DEF SendCall, MorePieces
<1>2. StreamTypes /\ BothKept /\ OnScreen
  BY DEF StreamInv
<1>3. /\ name \in Text /\ args \in Text /\ acc.name \in Fragments /\ acc.arguments \in Fragments
      /\ sent.name \in 0..Len(name) /\ sent.arguments \in 0..Len(args)
  BY <1>2 DEF StreamTypes
<1>4. f \in Fragments /\ Kept(f, name, n)
  <2>1. CASE n = sent.name
    BY <1>2, <1>3, <2>1 DEF BothKept
  <2>2. CASE n # sent.name
    <3>1. n \in sent.name + 1..Len(name)
      BY <1>1, <1>3, <2>2
    <3> QED
      BY <1>2, <1>3, <2>2, <3>1, AddKeeps DEF BothKept
  <2> QED
    BY <2>1, <2>2
<1>5. g \in Fragments /\ Kept(g, args, a)
  <2>1. CASE a = sent.arguments
    BY <1>2, <1>3, <2>1 DEF BothKept
  <2>2. CASE a # sent.arguments
    <3>1. a \in sent.arguments + 1..Len(args)
      BY <1>1, <1>3, <2>2
    <3> QED
      BY <1>2, <1>3, <2>2, <3>1, AddKeeps DEF BothKept
  <2> QED
    BY <2>1, <2>2
<1> HIDE DEF f, g
<1>6. StreamTypes'
  <2>1. acc' \in [text : Text, name : Fragments, arguments : Fragments]
    BY <1>1, <1>2, <1>4, <1>5 DEF StreamTypes
  <2>2. sent' \in [text : 0..Len(meant.text), name : 0..Len(name), arguments : 0..Len(args), pieces : Nat]
    <3>1. n \in 0..Len(name) /\ a \in 0..Len(args) /\ sent.pieces + 1 \in Nat
      <4>1. n \in sent.name..Len(name) /\ a \in sent.arguments..Len(args)
        BY <1>1
      <4>2. Len(name) \in Nat /\ Len(args) \in Nat
        BY <1>3 DEF Text
      <4>3. sent.pieces \in Nat
        BY <1>2 DEF StreamTypes
      <4>4. sent.name \in 0..Len(name) /\ sent.arguments \in 0..Len(args)
        BY <1>3
      <4> HIDE DEF name, args
      <4> QED
        BY <4>1, <4>2, <4>3, <4>4
    <3>2. /\ sent'.text = sent.text /\ sent'.name = n /\ sent'.arguments = a
          /\ sent'.pieces = sent.pieces + 1 /\ sent.text \in 0..Len(meant.text)
          /\ sent' = [text |-> sent'.text, name |-> sent'.name, arguments |-> sent'.arguments,
                       pieces |-> sent'.pieces]
      BY <1>1, <1>2 DEF StreamTypes
    <3> QED
      BY <3>1, <3>2
  <2> QED
    BY <1>1, <1>2, <2>1, <2>2 DEF StreamTypes
<1>7. BothKept'
  <2>1. acc'.name = f /\ acc'.arguments = g /\ sent'.name = n /\ sent'.arguments = a
    BY <1>1, <1>2 DEF StreamTypes
  <2> QED
    BY <1>1, <1>4, <1>5, <2>1 DEF BothKept, Kept
<1> QED
  BY <1>1, <1>2, <1>6, <1>7 DEF StreamInv, ToolsReady, OnScreen, Coming, ShownIsSigned

\* What an attempt has shown is off the screen once it is withdrawn.
LEMMA WithdrawClears ==
  ASSUME StreamTypes, OnScreen, pc \in Coming, Withdraw
  PROVE  /\ shown' = <<>>
         /\ visible' \in [emitted : Text, published : BOOLEAN, discarded : BOOLEAN]
<1>1. /\ ~visible.discarded /\ shown = visible.emitted
      /\ visible.emitted # <<>> => visible.published
  BY DEF OnScreen
<1> QED
  BY <1>1 DEF Withdraw, Withdrawn, StreamTypes

LEMMA WithdrawingKeeps ==
  ASSUME StreamInv, Retry \/ GiveUp \/ RunTools \/ Refuse
  PROVE  StreamInv'
<1>1. /\ pc \in Coming /\ Withdraw /\ pc' \in {"call", "over"}
      /\ noticed' \in {noticed, TRUE}
      /\ UNCHANGED <<mode, stream, meant, sent, acc, answer>>
  BY DEF Retry, GiveUp, RunTools, Refuse, Coming
<1>2. StreamTypes /\ BothKept /\ OnScreen
  BY DEF StreamInv
<1>3. /\ shown' = <<>>
      /\ visible' \in [emitted : Text, published : BOOLEAN, discarded : BOOLEAN]
  BY <1>1, <1>2, WithdrawClears
<1>4. StreamTypes'
  BY <1>1, <1>2, <1>3, NothingKept DEF StreamTypes
<1>5. BothKept'
  BY <1>1, <1>2 DEF BothKept, Kept
<1> QED
  BY <1>1, <1>3, <1>4, <1>5 DEF StreamInv, ToolsReady, OnScreen, Coming, ShownIsSigned

\* A reply that ends one way or another leaves the screen to what comes next.
LEMMA EndingKeeps ==
  ASSUME Sensible, StreamInv,
         (\E n \in Int : SendUnfit(n)) \/ Breaks \/ Cancel \/ Completes \/ CompletesAmbiguously
  PROVE  StreamInv'
<1> USE DEF StreamInv
<1>1. CASE (\E n \in Int : SendUnfit(n)) \/ Breaks \/ Cancel \/ CompletesAmbiguously
  <2>1. /\ pc \in {"call", "reply", "retryable"}
        /\ pc' \in {"failed", "retryable", "cancelled"}
        /\ pc' # "cancelled" => pc = "reply"
        /\ UNCHANGED <<mode, stream, noticed, meant, sent, acc, visible, shown, answer>>
    BY <1>1 DEF SendUnfit, MorePieces, Breaks, Cancel, CompletesAmbiguously
  <2>2. StreamTypes'
    BY <2>1 DEF StreamTypes
  <2>3. BothKept'
    BY <2>1 DEF BothKept, Kept
  <2> QED
    BY <2>1, <2>2, <2>3 DEF ToolsReady, OnScreen, Coming, ShownIsSigned
<1>2. CASE Completes
  <2>1. /\ pc = "reply"
        /\ IF stream THEN AllSent /\ ~Ambiguous /\ UNCHANGED acc
           ELSE acc' = [acc EXCEPT !.text = meant.text]
        /\ pc' = IF meant.finish = "tool_calls" THEN "tools" ELSE "final"
        /\ UNCHANGED <<mode, stream, noticed, meant, sent, visible, shown, answer>>
    BY <1>2 DEF Completes
  <2>2. /\ acc' \in [text : Text, name : Fragments, arguments : Fragments]
        /\ acc'.name = acc.name /\ acc'.arguments = acc.arguments
    BY <2>1 DEF StreamTypes
  <2>3. StreamTypes'
    BY <2>1, <2>2 DEF StreamTypes
  <2>4. BothKept'
    BY <2>1, <2>2 DEF BothKept, Kept
  <2>5. ToolsReady'
    <3> SUFFICES ASSUME pc' = "tools"
        PROVE  meant.finish = "tool_calls"
               /\ (stream => AllSent /\ Resolve(acc.name, acc.arguments).ok)
      BY <2>1, <2>2 DEF ToolsReady, AllSent
    <3> QED
      BY <2>1 DEF Ambiguous
  <2> QED
    BY <2>1, <2>3, <2>4, <2>5 DEF OnScreen, Coming, ShownIsSigned
<1> QED
  BY <1>1, <1>2

\* The browser is given the rest of what is signed, and no more.
LEMMA AnswerKeeps == Sensible /\ StreamInv /\ Answer => StreamInv'
<1> SUFFICES ASSUME Sensible, StreamInv, Answer PROVE StreamInv'
  OBVIOUS
<1> DEFINE v == Strip(acc.text)
<1>1. /\ pc = "final" /\ Final.ok /\ pc' = "answered"
      /\ answer' = Final.text \o Suffix
      /\ shown' = IF stream THEN shown \o Tail_ \o Suffix ELSE shown
      /\ UNCHANGED <<mode, stream, noticed, meant, sent, acc, visible>>
  BY DEF Answer
<1>2. StreamTypes /\ BothKept /\ shown = visible.emitted
  BY <1>1 DEF StreamInv, OnScreen, Coming
<1>3. v \in Cleaned
  BY <1>2 DEF Sensible, StreamTypes
<1>4. /\ Final = v /\ Len(v.text) <= VisibleLimit
      /\ stream => Finish(acc.text).ok
  <2>1. VisibleLimit \in Int /\ Len(v.text) \in Nat
    BY <1>2, <1>3 DEF VisibleLimit, Sensible, StreamTypes, Cleaned, Text
  <2>2. ~(Len(v.text) > VisibleLimit) /\ (stream => Finish(acc.text).ok) /\ Final = v
    BY <1>1 DEF Final, Failed
  <2> QED
    BY <2>1, <2>2
<1>5. Suffix \in Text /\ Len(v.text \o Suffix) <= MaxVisible /\ v.text \o Suffix \in Text
  <2>1. v.text \in Text /\ noticed \in BOOLEAN
    BY <1>2, <1>3 DEF Cleaned, StreamTypes
  <2>2. Suffix \in Text /\ Len(Suffix) = IF noticed THEN 1 ELSE 0
    <3>1. CASE noticed
      <4>1. Suffix = <<"n">>
        BY <3>1 DEF Suffix, Notice
      <4>2. Len(<<"n">>) = 1
        OBVIOUS
      <4>3. "n" \in Symbol
        BY DEF Symbol, Notice
      <4> QED
        BY <3>1, <4>1, <4>2, <4>3 DEF Text
    <3>2. CASE ~noticed
      <4>1. Suffix = <<>>
        BY <3>2 DEF Suffix
      <4> QED
        BY <3>2, <4>1 DEF Text
    <3> QED
      BY <3>1, <3>2
  <2> DEFINE t == v.text
  <2>3. t \in Text
    BY <2>1
  <2> HIDE DEF t
  <2>4. Len(t \o Suffix) = Len(t) + Len(Suffix) /\ t \o Suffix \in Text /\ Len(t) \in Nat
    BY <2>2, <2>3, Joined
  <2>5. Len(t) <= MaxVisible - (IF noticed THEN 1 ELSE 0)
    BY <1>4 DEF VisibleLimit, t
  <2>6. Len(t \o Suffix) <= MaxVisible
    BY <2>2, <2>4, <2>5 DEF Sensible
  <2> QED
    BY <2>2, <2>4, <2>6 DEF t
<1>6. stream => Tail_ \in Text /\ shown \o Tail_ = v.text
  <2> SUFFICES ASSUME stream PROVE Tail_ \in Text /\ shown \o Tail_ = v.text
    OBVIOUS
  <2>1. v.ok /\ HasPrefix(v.text, visible.emitted) /\ Tail_ = After(v.text, Len(visible.emitted))
    BY <1>4 DEF Finish, Failed, Good, Tail_
  <2>2. v.text \in Text /\ visible.emitted \in Text
    BY <1>2, <1>3 DEF Cleaned, StreamTypes
  <2> QED
    BY <1>2, <2>1, <2>2, PrefixJoins
<1> HIDE DEF v
<1>7. answer' = v.text \o Suffix /\ (stream => shown' = v.text \o Suffix)
  BY <1>1, <1>4, <1>6
<1>8. StreamTypes'
  <2>1. answer' \in Text /\ shown' \in Text
    BY <1>1, <1>2, <1>5, <1>7 DEF StreamTypes
  <2> QED
    BY <1>1, <1>2, <2>1 DEF StreamTypes
<1>9. BothKept'
  BY <1>1, <1>2 DEF BothKept, Kept
<1>10. ShownIsSigned'
  BY <1>1, <1>5, <1>7 DEF ShownIsSigned
<1> QED
  BY <1>1, <1>8, <1>9, <1>10 DEF StreamInv, ToolsReady, OnScreen, Coming

LEMMA NextStream == Sensible /\ StreamInv /\ [Next]_vars => StreamInv'
<1> SUFFICES ASSUME Sensible, StreamInv, [Next]_vars PROVE StreamInv'
  OBVIOUS
<1>1. CASE Request
  BY <1>1, RequestKeeps
<1>2. ASSUME NEW n \in 1..MaxVisible + 6, SendText(n) PROVE StreamInv'
  <2>1. n \in Int
    BY DEF Sensible
  <2> QED
    BY <1>2, <2>1, SendTextKeeps
<1>3. ASSUME NEW n \in 0..4, NEW a \in 0..4, SendCall(n, a) PROVE StreamInv'
  <2>1. n \in Int /\ a \in Int
    OBVIOUS
  <2> QED
    BY <1>3, <2>1, SendCallKeeps
<1>4. ASSUME (\E n \in 1..MaxVisible + 6 : SendUnfit(n)) \/ Breaks \/ Cancel \/ Completes \/ CompletesAmbiguously
      PROVE  StreamInv'
  <2>1. (\E n \in Int : SendUnfit(n)) \/ Breaks \/ Cancel \/ Completes \/ CompletesAmbiguously
    BY <1>4 DEF Sensible
  <2> QED
    BY <2>1, EndingKeeps
<1>5. CASE Retry \/ GiveUp \/ RunTools \/ Refuse
  BY <1>5, WithdrawingKeeps
<1>6. CASE Answer
  BY <1>6, AnswerKeeps
<1>7. CASE UNCHANGED vars
  <2>1. StreamTypes' /\ BothKept'
    BY <1>7 DEF StreamInv, StreamTypes, BothKept, Kept, vars
  <2>2. ToolsReady' /\ OnScreen' /\ ShownIsSigned'
    BY <1>7 DEF StreamInv, ToolsReady, AllSent, OnScreen, ShownIsSigned, vars
  <2> QED
    BY <2>1, <2>2 DEF StreamInv
<1> QED
  BY <1>1, <1>2, <1>3, <1>4, <1>5, <1>6, <1>7 DEF Next

\* However a deployment streams, whatever attempt breaks and is tried again: what
\* the browser has put together is what is signed and fits, text of an attempt
\* that was given up is gone, and a tool is called as the model meant it.
THEOREM StreamIsShown ==
  ASSUME Sensible
  PROVE  Spec => [](ShownIsSigned /\ OnlyThisAttempt /\ CallsAsMeant)
<1>1. StreamInv => ShownIsSigned /\ OnlyThisAttempt /\ CallsAsMeant
  <2> SUFFICES ASSUME StreamInv PROVE ShownIsSigned /\ OnlyThisAttempt /\ CallsAsMeant
    OBVIOUS
  <2> USE DEF StreamInv
  <2>1. OnlyThisAttempt
    <3> SUFFICES ASSUME pc \notin {"answered", "cancelled"}, shown # <<>>
        PROVE  visible.published /\ HasPrefix(visible.emitted, shown)
      BY DEF OnlyThisAttempt
    <3>1. shown = visible.emitted /\ visible.published /\ shown \in Text
      BY DEF OnScreen, StreamTypes
    <3>2. SubSeq(shown, 1, Len(shown)) = shown /\ Len(shown) \in Nat
      BY <3>1, SubSeqFull DEF Text
    <3> QED
      BY <3>1, <3>2 DEF HasPrefix
  <2>2. CallsAsMeant
    <3> SUFFICES ASSUME pc = "tools", stream PROVE Resolve(acc.name, acc.arguments).text = meant.call
      BY DEF CallsAsMeant
    <3>1. /\ meant.call \in Calls /\ acc.name \in Fragments /\ acc.arguments \in Fragments
          /\ Resolve(acc.name, acc.arguments).ok
          /\ sent.name = Len(meant.call.name) /\ sent.arguments = Len(meant.call.arguments)
      BY DEF ToolsReady, StreamTypes, AllSent
    <3> QED
      BY <3>1, ResolvesAsMeant DEF BothKept
  <2> QED
    BY <2>1, <2>2
<1> QED
  BY <1>1, InitStream, NextStream, PTL DEF Spec

=============================================================================
