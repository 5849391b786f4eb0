---------------------------- MODULE OpenCodeReads ----------------------------
(***************************************************************************)
(* The reader of OpenCode's database (internal/store, internal/stats and   *)
(* internal/source/opencode).  Another program writes it: OpenCode 1.x     *)
(* keeps sessions, messages and parts; OpenCode 2.x one row per item of a  *)
(* transcript, and copies the 1.x history over in the background.  The     *)
(* reader detects the layout, trusts it for a while, and answers every     *)
(* read by SQL of its own over the tables of that layout.                  *)
(*                                                                         *)
(* A moment is a number; two pass with every step of the other program.    *)
(* Cost and tokens of a request are one amount each, a power of two of its *)
(* own, so that a sum tells which requests it is over.                     *)
(***************************************************************************)
EXTENDS Integers, FiniteSets, FiniteSetsExt, TLC

CONSTANTS Hour, Day,   \* in moments
          Windows,     \* <<from, to>>, to excluded
          SessionIds,  \* that are not forks
          TheFork,     \* the session that is one
          ProjectOf,   \* the project of every session that is no fork
          MaxSteps     \* bound: steps of OpenCode

VARIABLES
  tables,                \* the tables that exist
  phase,                 \* of the import, in table kv: "none", "running", "completed"
  oldSessions, oldRows,  \* 1.x: session; message with its parts
  sessions, rows,        \* 2.x: session_v2; session_message
  schema, fresh,         \* the layout as last detected; whether that is recent
  detect,                \* the detection under way
  steps, deleted         \* so far; sessions deleted in OpenCode 2

database == <<tables, phase, oldSessions, oldRows, sessions, rows, steps, deleted>>
layout == <<schema, fresh, detect>>
vars == <<database, layout>>

NoModel == ""
NotFork == 0
Unknown == 0
None == [id |-> 0]
Now == 2 * steps
Amount(n) == 2 ^ n

V1Tables == {"session", "message", "project", "workspace", "part"}
V2Tables == {"session_v2", "session_message", "project"}

SessionIn(all, s) == CHOOSE x \in all : x.id = s
IdsIn(all) == {x.id : x \in all}

-----------------------------------------------------------------------------
(* The layout                                                              *)

Closed == [version |-> Unknown, import |-> "none", legacy |-> 0, imported |-> 0, asked |-> "none", open |-> FALSE]
Idle == [at |-> "idle", info |-> Closed, kv |-> FALSE]

\* The 2.x tables win whenever they exist; session_message alone is no mark.
\* Asked is the phase the import has then (for the properties).
classifySchema(found) ==
  [Closed EXCEPT
     !.version = IF V2Tables \subseteq found THEN 2 ELSE IF V1Tables \subseteq found THEN 1 ELSE Unknown,
     !.open = TRUE, !.asked = phase]

\* Mutant: an import that has not begun does not count.
IncompleteWhenRunning(info) == info.import = "running" /\ info.imported < info.legacy

ImportIncomplete(info) == info.import \in {"pending", "running"} /\ info.imported < info.legacy

\* A store that is opened with neither layout is closed again.
Finish(info) ==
  /\ schema' = IF info.version = Unknown /\ ~schema.open THEN schema ELSE info
  /\ fresh' = schema'.open /\ detect' = Idle

\* Readers of a layout that is not fresh wait for one of them to detect it.
DetectTables ==
  /\ detect = Idle /\ ~fresh
  /\ LET info == classifySchema(tables)
     IN  IF info.version = 2 /\ "session" \in tables
         THEN /\ detect' = [at |-> "phase", info |-> info, kv |-> "kv" \in tables]
              /\ UNCHANGED <<schema, fresh>>
         ELSE Finish(info)
  /\ UNCHANGED database

\* detectLegacyImport
DetectPhase ==
  /\ detect.at = "phase"
  /\ LET state == IF ~detect.kv \/ phase = "none" THEN "pending" ELSE phase
         info == [detect.info EXCEPT !.import = state]
     IN  IF state = "completed" THEN Finish(info)
         ELSE detect' = [detect EXCEPT !.at = "count", !.info = info] /\ UNCHANGED <<schema, fresh>>
  /\ UNCHANGED database

DetectCount ==
  /\ detect.at = "count"
  /\ LET info == [detect.info EXCEPT !.legacy = Cardinality(oldSessions),
                                     !.imported = Cardinality(IdsIn(oldSessions) \cap IdsIn(sessions))]
     IN  Finish(IF ImportIncomplete(info) /\ V1Tables \subseteq tables THEN [info EXCEPT !.version = 1] ELSE info)
  /\ UNCHANGED database

\* A layout that was detected before is kept, for as long as one that was found.
DetectFails ==
  /\ detect # Idle
  /\ detect' = Idle /\ fresh' = schema.open
  /\ UNCHANGED <<schema, database>>

\* schemaRecheckInterval passes.
Age == fresh /\ fresh' = FALSE /\ UNCHANGED <<schema, detect, database>>

Info == [available |-> schema.version # Unknown, layout |-> schema.version]

-----------------------------------------------------------------------------
(* What OpenCode writes                                                    *)

Step == steps < MaxSteps /\ steps' = steps + 1 /\ UNCHANGED layout

InSession(all, s, fork) ==
  IF s \in IdsIn(all) THEN all ELSE all \union {[id |-> s, created |-> Now, fork |-> fork]}

Row(n, s, type) ==
  [id |-> n, orig |-> n, s |-> s, t |-> Now, type |-> type, running |-> FALSE, usage |-> FALSE, error |-> "none",
   model |-> NoModel, cost |-> 0, tokens |-> 0, finished |-> 0, calls |-> {}]

ModelOf(s) == IF ProjectOf[s] = "p" THEN "m1" ELSE "m2"

Init ==
  /\ tables \in {{}, V1Tables, V1Tables \union {"session_message"}}
  /\ phase = "none" /\ steps = 0 /\ deleted = {}
  /\ oldSessions = {} /\ oldRows = {} /\ sessions = {} /\ rows = {}
  /\ schema = Closed /\ fresh = FALSE /\ detect = Idle

Create ==
  /\ tables = {} /\ tables' = V2Tables \union {"kv"}
  /\ UNCHANGED <<phase, oldSessions, oldRows, sessions, rows, steps, deleted, layout>>

\* A prompt of OpenCode 1.x and its answer, in some number of model steps; a
\* tool is called after the answer began.
OldTurn(s, finished, calls) ==
  /\ V1Tables \subseteq tables /\ "session_v2" \notin tables /\ Step
  /\ oldSessions' = InSession(oldSessions, s, NotFork)
  /\ oldRows' = oldRows \union
       {Row(Now, s, "user"),
        [Row(Now + 1, s, "assistant") EXCEPT !.usage = TRUE, !.model = ModelOf(s), !.cost = Amount(Now + 1),
           !.tokens = Amount(Now + 1), !.finished = finished, !.calls = calls]}
  /\ UNCHANGED <<tables, phase, sessions, rows, deleted>>

Upgrade ==
  /\ V1Tables \subseteq tables /\ "session_v2" \notin tables /\ Step
  /\ tables' = tables \union V2Tables
  /\ UNCHANGED <<phase, oldSessions, oldRows, sessions, rows, deleted>>

ImportStarts ==
  /\ "session_v2" \in tables /\ "session" \in tables /\ phase = "none"
  /\ tables' = tables \union {"kv"} /\ phase' = "running"
  /\ UNCHANGED <<oldSessions, oldRows, sessions, rows, steps, deleted, layout>>

ImportSession(s) ==
  /\ phase = "running" /\ s \in IdsIn(oldSessions) \ (IdsIn(sessions) \union deleted)
  /\ sessions' = sessions \union {SessionIn(oldSessions, s)}
  /\ rows' = rows \union {m \in oldRows : m.s = s}
  /\ UNCHANGED <<tables, phase, oldSessions, oldRows, steps, deleted, layout>>

ImportCompletes ==
  /\ phase = "running" /\ IdsIn(oldSessions) \subseteq IdsIn(sessions) \union deleted
  /\ phase' = "completed"
  /\ UNCHANGED <<tables, oldSessions, oldRows, sessions, rows, steps, deleted, layout>>

Writes(s, new) ==
  /\ "session_v2" \in tables /\ s \notin deleted /\ Step
  /\ sessions' = InSession(sessions, s, NotFork)
  /\ rows' = rows \union new
  /\ UNCHANGED <<tables, phase, oldSessions, oldRows, deleted>>

\* A prompt of OpenCode 2, with a row that is no message, and the model step it
\* starts, which has no usage yet.
Prompt(s) ==
  /\ s \in SessionIds \ IdsIn(oldSessions) \/ s \in IdsIn(sessions)
  /\ Writes(s, {Row(Now, s, "user"), [Row(Now, s, "note") EXCEPT !.id = Now + 100],
                [Row(Now + 1, s, "assistant") EXCEPT !.running = TRUE, !.model = ModelOf(IF s = TheFork THEN 1 ELSE s)]})

Compact(s) ==
  /\ s \in IdsIn(sessions)
  /\ Writes(s, {[Row(Now + 1, s, "compaction") EXCEPT !.running = TRUE]})

\* A step or a compaction ends; usage is recorded unless it never came.
Settle(m, usage, error, calls) ==
  /\ m.running /\ Step /\ (usage \/ error # "none") /\ (m.type = "compaction" => calls = {})
  /\ rows' = (rows \ {m}) \union
       {[m EXCEPT !.running = FALSE, !.usage = usage, !.error = error, !.calls = calls,
           !.cost = IF usage THEN Amount(m.orig) ELSE 0, !.tokens = IF usage THEN Amount(m.orig) ELSE 0]}
  /\ UNCHANGED <<tables, phase, oldSessions, oldRows, sessions, deleted>>

\* The settled rows of a session are copied with their times.
Fork(s) ==
  /\ s \in IdsIn(sessions) /\ TheFork \notin IdsIn(sessions) \union deleted /\ Step
  /\ sessions' = InSession(sessions, TheFork, s)
  /\ rows' = rows \union {[m EXCEPT !.id = m.id + 200, !.s = TheFork] : m \in {x \in rows : x.s = s /\ ~x.running}}
  /\ UNCHANGED <<tables, phase, oldSessions, oldRows, deleted>>

Delete(s) ==
  /\ s \in IdsIn(sessions) /\ Step
  /\ sessions' = {x \in sessions : x.id # s} /\ rows' = {m \in rows : m.s # s} /\ deleted' = deleted \union {s}
  /\ UNCHANGED <<tables, phase, oldSessions, oldRows>>

Outcomes == {<<TRUE, "none", {"completed", "error"}>>, <<TRUE, "other", {}>>, <<FALSE, "aborted", {}>>, <<FALSE, "other", {}>>}

OldTurns == {<<0, {}>>, <<2, {"completed"}>>}

Next ==
  \/ DetectTables \/ DetectPhase \/ DetectCount \/ DetectFails \/ Age
  \/ Create \/ Upgrade \/ ImportStarts \/ ImportCompletes
  \/ \E s \in SessionIds, turn \in OldTurns : OldTurn(s, turn[1], turn[2])
  \/ \E s \in SessionIds : ImportSession(s) \/ Fork(s)
  \/ \E s \in SessionIds \union {TheFork} : Prompt(s) \/ Compact(s) \/ Delete(s)
  \/ \E m \in rows, o \in Outcomes : Settle(m, o[1], o[2], o[3])

Spec == Init /\ [][Next]_vars
-----------------------------------------------------------------------------
(* The rows that are counted                                               *)

IsV2 == schema.version = 2

\* v2Message
Message(m) == m.type \in {"user", "assistant"} \/ (m.type = "compaction" /\ ~m.running)

\* Mutant: a compaction counts from its start.
RequestRunning(m) == m.type \in {"assistant", "compaction"}

\* v2Request
Request(m) == m.type = "assistant" \/ (m.type = "compaction" /\ ~m.running)

\* Mutant: the copies in a fork count again.
OwnedCopies(m) == TRUE

\* v2Owned: a fork has copied what is older than it.
Owned(m) == \A s \in sessions : s.id = m.s => s.fork = NotFork \/ m.t >= s.created

\* usage_state; "" stands for the prompts', which is NULL.
UsageState(m) ==
  IF m.type = "user" THEN ""
  ELSE IF m.usage THEN "recorded"
  ELSE IF m.error = "aborted" THEN "cancelled"
  ELSE IF m.error # "none" THEN "failed" ELSE "unknown"

Role(m) == IF m.type = "user" THEN "user" ELSE "assistant"

V2Messages == {m \in rows : Message(m) /\ Owned(m)}

Relation == IF IsV2 THEN V2Messages ELSE oldRows
SessionTable == IF IsV2 THEN sessions ELSE oldSessions

Between(t, w) == w[1] <= t /\ t < w[2]
In(all, w) == {m \in all : Between(m.t, w)}
Answered(all) == {m \in all : Role(m) = "assistant"}

CostOf(all) == MapThenSumSet(LAMBDA m : m.cost, all)
TokensOf(all) == MapThenSumSet(LAMBDA m : m.tokens, all)
Sum(f, all) == MapThenSumSet(LAMBDA x : f[x], all)

Counts(all) ==
  [sessions |-> Cardinality({m.s : m \in all}), messages |-> Cardinality(all), cost |-> CostOf(all), tokens |-> TokensOf(all)]

-----------------------------------------------------------------------------
(* The reads: each has SQL of its own, in two versions                      *)

Stats(all) ==
  [messages |-> Cardinality(all), requests |-> Cardinality(Answered(all)),
   cost |-> CostOf(Answered(all)), tokens |-> TokensOf(Answered(all))]

Overview(w) ==
  LET found == In(Relation, w)
  IN  [sessions |-> Cardinality({m.s : m \in found}), days |-> Cardinality({m.t \div Day : m \in found})] @@ Stats(found)

\* The buckets of a trend; sessions count where they were created.
SessionCountsByDay(w, day) == Cardinality({s \in SessionTable : Between(s.created, w) /\ s.created \div Day = day})
MessageStatsByDay(w, day) == Stats({m \in In(Relation, w) : m.t \div Day = day})

Daily(w) ==
  [day \in (w[1] \div Day)..((w[2] - 1) \div Day) |->
     [sessions |-> SessionCountsByDay(w, day)] @@ MessageStatsByDay(w, day)]

SessionCountsByHour(w, hour) == Cardinality({s \in SessionTable : Between(s.created, w) /\ s.created \div Hour = hour})
MessageStatsByHour(w, hour) == Stats({m \in In(Relation, w) : m.t \div Hour = hour})

\* By hours, the window grows to a whole hour at its start.
DailyHourly(w) ==
  LET start == w[1] \div Hour
      span == <<start * Hour, w[2]>>
  IN  [hour \in start..((w[2] - 1) \div Hour) |->
         [sessions |-> SessionCountsByHour(span, hour)] @@ MessageStatsByHour(span, hour)]

WithModel(w, model) == {m \in Answered(In(Relation, w)) : m.model = model}

\* A 1.x message may have lost all but its last step's tokens: its finished
\* steps have them.
StepTokens(m) == IF m.finished > 0 THEN m.finished * m.tokens ELSE m.tokens

Models(w, model) ==
  LET found == WithModel(w, model)
  IN  [Counts(found) EXCEPT !.tokens = IF IsV2 THEN @ ELSE MapThenSumSet(StepTokens, found)]

DailyDimension(w, size, model) ==
  LET at(b) == {m \in WithModel(w, model) : m.t \div size = b}
  IN  [b \in (w[1] \div size)..((w[2] - 1) \div size) |->
         [Counts(at(b)) EXCEPT !.tokens = IF IsV2 THEN @ ELSE MapThenSumSet(StepTokens, at(b))]]

\* Calls of 1.x are parts, with a time of their own.
ToolStats(w) ==
  LET calling == IF IsV2 THEN {m \in In(V2Messages, w) : m.type = "assistant"} ELSE {m \in oldRows : Between(m.t + 1, w)}
  IN  [succeeded |-> Cardinality({m \in calling : "completed" \in m.calls}),
       failed |-> Cardinality({m \in calling : "error" \in m.calls}),
       sessions |-> Cardinality({m.s : m \in {c \in calling : c.calls # {}}})]

\* A fork is in the project of its parent.
ProjectOfSession(s) == ProjectOf[IF s.id = TheFork THEN s.fork ELSE s.id]

InProject(p) == {s \in SessionTable : ProjectOfSession(s) = p}

Projects(w, p) == Counts({m \in Answered(In(Relation, w)) : m.s \in IdsIn(InProject(p))})

\* The requests as the queries that start from the sessions select them.
Joined(s) == IF IsV2 THEN {m \in rows : m.s = s /\ Request(m) /\ Owned(m)} ELSE {m \in Answered(oldRows) : m.s = s}
Active(s) == IF IsV2 THEN {m \in rows : m.s = s /\ Message(m) /\ Owned(m)} ELSE {m \in oldRows : m.s = s}

ProjectByID(p, w) ==
  LET found == UNION {In(Joined(s), w) : s \in IdsIn(InProject(p))}
  IN  [Counts(found) EXCEPT !.sessions = Cardinality(InProject(p))]

RecentSessions(p) ==
  {[id |-> s, messages |-> Cardinality(Active(s)), cost |-> CostOf(Joined(s))] : s \in IdsIn(InProject(p))}

SessionsWithQuery(w) ==
  {[id |-> s, requests |-> Cardinality(In(Joined(s), w)), cost |-> CostOf(In(Joined(s), w))] :
     s \in {x \in IdsIn(SessionTable) : In(Active(x), w) # {}}}

SessionByID(s) ==
  LET found == {m \in Relation : m.s = s}
  IN  [messages |-> Cardinality(found), cost |-> CostOf(Answered(found)), tokens |-> TokensOf(Answered(found))]

\* A request without usage has no tokens, which differs from none.
Entry(m) ==
  [id |-> m.id, session |-> m.s, role |-> Role(m), cost |-> IF Role(m) = "user" THEN 0 ELSE m.cost,
   tokens |-> IF Role(m) = "user" \/ (IsV2 /\ UsageState(m) # "recorded") THEN {} ELSE {m.tokens},
   status |-> IF ~IsV2 THEN "" ELSE UsageState(m)]

MessagesByPeriod(w) == {Entry(m) : m \in In(Relation, w)}
MessageByID(id) == {Entry(m) : m \in {x \in Relation : x.id = id}}

\* The parts of a 1.x message, the content of a 2.x step; only 1.x has tokens
\* of its finished steps, which replace the message's for the models.
ToolCalls(m) == IF IsV2 /\ m.type # "assistant" THEN {} ELSE m.calls
ModelTokens(m) == IF IsV2 \/ m.model = NoModel \/ m.finished = 0 THEN {} ELSE {m.finished * m.tokens}

ConsolidationMessage(m) ==
  [entry |-> Entry(m), model |-> m.model, project |-> ProjectOfSession(SessionIn(SessionTable, m.s)),
   modelTokens |-> ModelTokens(m), calls |-> ToolCalls(m)]

\* What the cache is filled from, in one transaction.
ConsolidationData(w) == {ConsolidationMessage(m) : m \in In(Relation, w)}

-----------------------------------------------------------------------------
(* Properties                                                              *)

Settled == fresh /\ detect = Idle /\ Info.available

\* The figures the cache makes of what it is filled with.
Collected(w) ==
  LET all == ConsolidationData(w)
      tokens(x) == IF x.entry.tokens = {} THEN 0 ELSE CHOOSE n \in x.entry.tokens : TRUE
      modelTokens(x) == IF x.modelTokens = {} THEN tokens(x) ELSE CHOOSE n \in x.modelTokens : TRUE
      with(model) == {x \in all : x.model = model}
      figures(some) ==
        [sessions |-> Cardinality({x.entry.session : x \in some}), messages |-> Cardinality(some),
         cost |-> MapThenSumSet(LAMBDA x : x.entry.cost, some), tokens |-> MapThenSumSet(tokens, some)]
      of(p) == {x \in all : x.entry.role = "assistant" /\ x.project = p}
  IN  [total |-> figures(all), requests |-> Cardinality({x \in all : x.entry.role = "assistant"}),
       models |-> [m \in {"m1", "m2"} |-> [figures(with(m)) EXCEPT !.tokens = MapThenSumSet(modelTokens, with(m))]],
       projects |-> [p \in {"p", "q"} |-> figures(of(p))],
       entries |-> {x.entry : x \in all},
       tools |-> [succeeded |-> Cardinality({x \in all : "completed" \in x.calls}),
                  failed |-> Cardinality({x \in all : "error" \in x.calls}),
                  sessions |-> Cardinality({x.entry.session : x \in {y \in all : y.calls # {}}})]]

Totals(f) == [messages |-> f.messages, requests |-> f.requests, cost |-> f.cost, tokens |-> f.tokens]
Added(days) ==
  LET sum(field) == Sum([b \in DOMAIN days |-> days[b][field]], DOMAIN days)
  IN  [messages |-> sum("messages"), requests |-> sum("requests"), cost |-> sum("cost"), tokens |-> sum("tokens")]

\* Every page of the live reader shows the figures the cache will show once it
\* has consolidated the same window, and those of the other pages: the totals,
\* the trends, the models, the tools (of 1.x over the whole time only, because
\* a call has its own time), the projects, the sessions and the messages.  Each
\* has a query of its own for each layout; compactions, aborted steps, rows
\* that are no messages and the copies in a fork are what they could count
\* differently.
FiguresAgree ==
  Settled =>
    /\ \A w \in Windows :
         LET o == Overview(w)
             c == Collected(w)
             list == SessionsWithQuery(w)
         IN  /\ <<o.sessions, o.messages, o.cost, o.tokens>> = <<c.total.sessions, c.total.messages, c.total.cost, c.total.tokens>>
             /\ o.requests = c.requests
             /\ Added(Daily(w)) = Totals(o)
             /\ w[1] % Hour = 0 => Added(DailyHourly(w)) = Totals(o)
             /\ \A m \in {"m1", "m2"} :
                  /\ Models(w, m) = c.models[m]
                  /\ \A size \in {Hour, Day} :
                       LET days == DailyDimension(w, size, m)
                       IN  \A f \in {"messages", "cost", "tokens"} :
                             Sum([b \in DOMAIN days |-> days[b][f]], DOMAIN days) = c.models[m][f]
             /\ (IsV2 \/ (w[1] = 0 /\ \A m \in oldRows : m.t + 1 < w[2])) => ToolStats(w) = c.tools
             /\ \A p \in {"p", "q"} :
                  /\ Projects(w, p) = c.projects[p]
                  /\ [ProjectByID(p, w) EXCEPT !.sessions = 0] = [c.projects[p] EXCEPT !.sessions = 0]
             /\ Cardinality(list) = o.sessions
             /\ MapThenSumSet(LAMBDA s : s.requests, list) = o.requests
             /\ MapThenSumSet(LAMBDA s : s.cost, list) = o.cost
             /\ MessagesByPeriod(w) = c.entries
    /\ \A s \in UNION {RecentSessions(p) : p \in {"p", "q"}} :
         LET d == SessionByID(s.id) IN s.messages = d.messages /\ s.cost = d.cost
    /\ \A m \in rows \union oldRows : (MessageByID(m.id) # {}) <=> m.id \in IdsIn(Relation)

\* Nothing is shown twice, by a fork or by the import; and once the reader
\* shows the 2.x tables, every message of 1.x is in them unless its session was
\* deleted there, however the three statements of the detection fell among the
\* steps of the import.
HistoryIsWhole ==
  /\ \A m, n \in Relation : m.orig = n.orig => m = n
  /\ Info.layout = 2 => {m.orig : m \in {x \in oldRows : x.s \notin deleted}} \subseteq {m.orig : m \in Relation}
  /\ schema.asked = "completed" => Info.layout = 2
=============================================================================
