------------------------------ MODULE KimiWires ------------------------------
(***************************************************************************)
(* What internal/source/kimicode reads out of the wires of Kimi Code: the  *)
(* append-only record of one agent of a session.  A request shows up as a  *)
(* request record, a usage record and the usage in the end of its step,    *)
(* and the engines of Kimi Code write different ones in different orders.  *)
(*                                                                         *)
(* The log holds the records of all wires in the order they were written.  *)
(* The usage of request k is the number k, ids and texts are numbers.      *)
(***************************************************************************)
EXTENDS Integers, Sequences, FiniteSets, SequencesExt, FiniteSetsExt

CONSTANTS Sessions,    \* session directories
          Forks,       \* sessions that are forks of others
          RootOnly,    \* sessions whose main wire stands in their root
          Mirrored,    \* sessions whose root wire repeats the main wire
          MaxRequests, \* model calls
          MaxPrompts,  \* user prompts
          MaxSteps,    \* bursts of records
          MidStep      \* whether prompts arrive within a step

VARIABLES log,     \* the records of all wires
          made,    \* requests so far
          prompts, \* prompts so far
          steps,   \* bursts so far
          prog     \* what each wire's agent has left to write of its step

vars == <<log, made, prompts, steps, prog>>

None == 0

--------------------------------------------------------------------------
\* Wires.

Wire(s, agent) == [session |-> s, agent |-> agent]
OfWire(records, w) == SelectSeq(records, LAMBDA r : w \in r.wires)
OfSession(records, s) == SelectSeq(records, LAMBDA r : \E w \in r.wires : w.session = s)
WiresOf(records) == UNION {records[i].wires : i \in DOMAIN records}

\* discoverSessions: a session was written when any of its files was.
MTime(s) == Max({r.t : r \in ToSet(OfSession(log, s))} \union {0})

\* parseWireFile: the last fork marker ends the copied history.
Parsed(records, w) ==
  LET own == OfWire(records, w)
      marks == {i \in DOMAIN own : own[i].kind = "forked"}
  IN  SubSeq(own, Max(marks \union {0}) + 1, Len(own))

\* parseSession: the wire in the root counts if there is no main wire.
Read(records, s) ==
  LET wires == {w \in WiresOf(records) : w.session = s}
  IN  {w \in wires : w.agent # "root" \/ Wire(s, "main") \notin wires}

--------------------------------------------------------------------------
\* Rows.  A row is a user prompt or one request, pending until the record
\* that closes it.

NoRow == [serial |-> 0]
NoCall == [c \in {} |-> [row |-> 0, status |-> ""]]

Agent(w) == IF w.agent = "root" THEN "main" ELSE w.agent

Start(w) ==
  [name |-> <<w.session, Agent(w)>>, rows |-> <<>>, pending |-> NoRow, turnStep |-> None,
   turn |-> None, terminal |-> FALSE, echo |-> None, current |-> [turn |-> None, uuid |-> None],
   req |-> 0, usr |-> 0, serial |-> 0, calls |-> NoCall, seen |-> {}]

\* newAssistantMessage
NewRequest(s, key, t) ==
  [s EXCEPT !.serial = @ + 1,
            !.pending = [serial |-> s.serial + 1, id |-> <<s.name, "r", key, s.req>>, t |-> t,
                         role |-> "assistant", trace |-> "", status |-> "", reason |-> "",
                         usage |-> 0, text |-> 0]]

KeyOf(s, uuid) == IF uuid = None THEN s.current.uuid ELSE uuid

EnsurePending(s, uuid, t) == IF s.pending # NoRow THEN s ELSE NewRequest(s, <<KeyOf(s, uuid), 0>>, t)

Register(s, row) == [s EXCEPT !.rows = Append(@, row)]

\* finishPending: what has neither a request record nor a usage is no request.
Finish(s) ==
  LET p == s.pending
      told == IF p.status = "unavailable" /\ p.reason = "" THEN [p EXCEPT !.reason = "unknown"] ELSE p
  IN  CASE p = NoRow -> s
        [] p # NoRow /\ p.trace = "" /\ p.status = "" -> [s EXCEPT !.pending = NoRow]
        [] OTHER -> [Register(s, told) EXCEPT !.pending = NoRow, !.turnStep = None, !.turn = None,
                                              !.terminal = FALSE, !.req = @ + 1]

\* finishAtEOF: the request that is still running is shown as interrupted.
FinishAtEOF(s) ==
  LET p == s.pending
  IN  IF p # NoRow /\ p.status = "unavailable" /\ ~s.terminal /\ p.reason = ""
      THEN Finish([s EXCEPT !.pending.reason = "interrupted"])
      ELSE Finish(s)

--------------------------------------------------------------------------
\* Records.

\* addPrompt: what the turn tells and the context repeats is one prompt.
AddPrompt(s, r, primary) ==
  LET quiet == [s EXCEPT !.echo = None]
      u == Finish(quiet)
      row == [serial |-> 0, id |-> <<s.name, "u", <<r.t, r.text>>, s.usr>>, t |-> r.t, role |-> "user",
              trace |-> "", status |-> "", reason |-> "", usage |-> 0, text |-> r.text]
  IN  IF ~r.shown \/ (~primary /\ s.echo = r.text) THEN quiet
      ELSE [Register(u, row) EXCEPT !.usr = @ + 1, !.echo = IF primary THEN r.text ELSE None]

\* startRequest: a second request of a step tells that the first one failed.
StartRequest(s, r) ==
  LET failed == s.pending # NoRow /\ s.pending.status = "unavailable"
                  /\ r.uuid # None /\ r.uuid = s.turnStep
      u == Finish(IF failed THEN [s EXCEPT !.pending.reason = "failed"] ELSE s)
      n == NewRequest(u, <<KeyOf(u, r.uuid), r.attempt>>, r.t)
  IN  [n EXCEPT !.turnStep = r.uuid, !.turn = s.current.turn, !.terminal = FALSE,
                !.pending.trace = "observed", !.pending.status = "unavailable"]

SetUsage(s, usage, status) ==
  [s EXCEPT !.pending.usage = usage, !.pending.status = status, !.pending.reason = "",
            !.pending.trace = IF @ = "" THEN "inferred" ELSE @]

\* closeUsage: a request has one usage record, the next is another request's.
CloseUsage(s, r) ==
  LET u == IF s.pending # NoRow /\ s.pending.status = "recorded" THEN Finish(s) ELSE s
  IN  SetUsage(EnsurePending(u, None, r.t), r.usage, "recorded")

\* Mutant: the end of a step is one more usage.
RecoverUsageAgain(s, r) == CloseUsage(s, r)

\* recoverStepUsage: the end of a step tells the usage if nothing else did.
RecoverUsage(s, r) ==
  LET u == EnsurePending(s, r.uuid, r.t)
  IN  IF u.pending.status = "recorded" THEN u ELSE SetUsage(u, r.usage, "recovered")

EndStep(s, r) ==
  LET u == IF s.current.uuid = None THEN [s EXCEPT !.current = [turn |-> r.turn, uuid |-> r.uuid]] ELSE s
  IN  CASE r.usage # 0 -> RecoverUsage(u, r)
        [] r.usage = 0 /\ u.pending # NoRow -> [u EXCEPT !.terminal = TRUE]
        [] OTHER -> u

BeginStep(s, r) == [Finish(s) EXCEPT !.current = [turn |-> r.turn, uuid |-> r.uuid]]

AddCall(s, r) ==
  LET u == EnsurePending(s, r.uuid, r.t)
  IN  IF r.call \in DOMAIN s.calls THEN u
      ELSE [u EXCEPT !.calls = (r.call :> [row |-> u.pending.serial, status |-> "partial"]) @@ @]

ApplyResult(s, r) ==
  IF r.call \in DOMAIN s.calls THEN [s EXCEPT !.calls[r.call].status = "completed"] ELSE s

\* applyTurnCancel
CancelTurn(s, r) ==
  IF s.pending # NoRow /\ s.pending.status = "unavailable" /\ r.turn \in {None, s.turn}
  THEN [s EXCEPT !.pending.reason = "cancelled"] ELSE s

\* Records that may stand between a prompt and its repetition.
Transparent == {"prompt", "message", "control"}

Apply(s, r) ==
  LET u == IF r.kind \in Transparent THEN s ELSE [s EXCEPT !.echo = None]
  IN  CASE r.kind = "prompt" -> AddPrompt(u, r, TRUE)
        [] r.kind = "message" -> AddPrompt(u, r, FALSE)
        [] r.kind = "request" -> StartRequest(u, r)
        [] r.kind = "usage" -> CloseUsage(u, r)
        [] r.kind = "cancel" -> CancelTurn(u, r)
        [] r.kind = "begin" -> BeginStep(u, r)
        [] r.kind = "end" -> EndStep(u, r)
        [] r.kind = "text" -> EnsurePending(u, r.uuid, r.t)
        [] r.kind = "call" -> AddCall(u, r)
        [] r.kind = "result" -> ApplyResult(u, r)
        [] OTHER -> u

\* durableWireRecordKey
DurableKey(r) == IF r.kind = "request" THEN <<r.kind, r.id, r.uuid, r.attempt>> ELSE <<r.kind, r.id>>

Step(s, r) ==
  CASE r.id # None /\ DurableKey(r) \in s.seen -> s
    [] r.id # None -> Apply([s EXCEPT !.seen = @ \union {DurableKey(r)}], r)
    [] OTHER -> Apply(s, r)

WireRows(records, w) ==
  LET s == FinishAtEOF(FoldLeft(Step, Start(w), Parsed(records, w)))
      CallsOf(r) == {c \in DOMAIN s.calls : s.calls[c].row = r.serial}
  IN  {[calls |-> {<<c, s.calls[c].status>> : c \in CallsOf(r)}] @@ r : r \in ToSet(s.rows)}

Rows(records, sessions) ==
  UNION {UNION {WireRows(records, w) : w \in Read(records, s)} : s \in sessions}

--------------------------------------------------------------------------
\* Loads.

AllRows == Rows(log, Sessions)

\* Mutant: a session was written when its main agent was.
BoundedSessionsOfMain(from) ==
  {s \in Sessions : \E r \in ToSet(OfSession(log, s)) : r.t >= from /\ \A w \in r.wires : Agent(w) = "main"}

\* loadBoundedSnapshot: whole sessions.
BoundedSessions(from) == {s \in Sessions : MTime(s) >= from}

Listed(from) == {r \in Rows(log, BoundedSessions(from)) : r.t >= from}

\* MessageByID: the id names the session to load.
Detail(id) == {r \in Rows(log, {id[1][1]}) : r.id = id}

--------------------------------------------------------------------------
\* Kimi Code.

Now == Max({r.t : r \in ToSet(log)} \union {0})

Rec(kind) ==
  [wires |-> {}, t |-> 0, kind |-> kind, id |-> None, uuid |-> None, turn |-> None, text |-> 0,
   shown |-> TRUE, usage |-> 0, attempt |-> 0, call |-> 0]

\* Where the record of an agent is written.
Targets(s, agent) ==
  CASE agent = "main" /\ s \in RootOnly -> {Wire(s, "root")}
    [] agent = "main" /\ s \in Mirrored -> {Wire(s, "root"), Wire(s, "main")}
    [] OTHER -> {Wire(s, agent)}

Written(s, agent, records) ==
  log' = log \o [i \in DOMAIN records |->
                   [records[i] EXCEPT !.t = Now + i, !.wires = Targets(s, agent)]]

Prog(s, agent) == prog[<<s, agent>>]
Idle == [left |-> <<>>, k |-> 0, attempt |-> 0]

\* The records of step k, by engine: without request records; with the usage
\* last; with the usage first and repeated at the end; a compaction.
Shapes ==
  {<<"begin", "text", "end", "usage">>, <<"begin", "call", "closing">>,
   <<"begin", "request", "text", "end", "usage">>,
   <<"begin", "request", "usage", "call", "result", "closing">>, <<"request", "usage">>}

\* Step k as its records name it; requests of a step share their durable id,
\* usages have none.
Record(kind, p) ==
  [Rec(IF kind = "closing" THEN "end" ELSE kind) EXCEPT
     !.id = IF kind \in {"usage"} THEN None ELSE p.k,
     !.uuid = p.k, !.turn = prompts, !.attempt = IF kind = "request" THEN p.attempt ELSE 0,
     !.usage = IF kind \in {"usage", "closing"} THEN 10 * p.k + p.attempt ELSE 0,
     !.call = IF kind \in {"call", "result"} THEN p.k ELSE 0]

\* Prompts come between steps: told twice, told once, or not the user's.
Prompt(s, agent, how, text) ==
  LET r == [Rec("prompt") EXCEPT !.text = text, !.shown = how # "hidden"]
      m == [r EXCEPT !.kind = "message"]
  IN  /\ prompts < MaxPrompts
      /\ MidStep \/ Prog(s, agent).left = <<>>
      /\ prompts' = prompts + 1
      /\ Written(s, agent, CASE how = "repeated" -> <<r, Rec("control"), m>>
                             [] how = "once" -> <<m>>
                             [] OTHER -> <<r>>)
      /\ UNCHANGED <<made, prog>>

\* A step begins and is written as far as it goes at once.
Begin(s, agent, shape, n) ==
  LET p == [left |-> SubSeq(shape, n + 1, Len(shape)), k |-> made + 1, attempt |-> 0]
  IN  /\ Prog(s, agent).left = <<>> /\ made < MaxRequests /\ prompts > 0
      /\ n \in 1..Len(shape)
      /\ made' = made + 1
      /\ prog' = [prog EXCEPT ![<<s, agent>>] = p]
      /\ Written(s, agent, [i \in 1..n |-> Record(shape[i], p)])
      /\ UNCHANGED prompts

\* It goes on.
Advance(s, agent, n) ==
  LET p == Prog(s, agent)
  IN  /\ n \in 1..Len(p.left)
      /\ prog' = [prog EXCEPT ![<<s, agent>>].left = SubSeq(p.left, n + 1, Len(p.left))]
      /\ Written(s, agent, [i \in 1..n |-> Record(p.left[i], p)])
      /\ UNCHANGED <<made, prompts>>

Requested(p) == \E r \in ToSet(log) : r.kind = "request" /\ r.id = p.k /\ r.attempt = p.attempt
Charged(p) == \E r \in ToSet(log) : r.usage = 10 * p.k + p.attempt

\* The request fails and is sent again.
Retry(s, agent) ==
  LET p == Prog(s, agent)
      again == [p EXCEPT !.attempt = @ + 1]
  IN  /\ p.left # <<>> /\ p.attempt = 0 /\ Requested(p) /\ ~Charged(p)
      /\ Last(OfWire(log, CHOOSE w \in Targets(s, agent) : TRUE)).kind = "request"
      /\ prog' = [prog EXCEPT ![<<s, agent>>] = again]
      /\ Written(s, agent, <<Record("request", again)>>)
      /\ UNCHANGED <<made, prompts>>

\* The user cancels the turn: nothing more is written of the step.
Cancel(s, agent) ==
  /\ Prog(s, agent).left # <<>>
  /\ prog' = [prog EXCEPT ![<<s, agent>>] = Idle]
  /\ Written(s, agent, <<[Rec("cancel") EXCEPT !.turn = prompts]>>)
  /\ UNCHANGED <<made, prompts>>

\* A record with an id of its own is written twice.
Repeat(s, agent) ==
  LET own == OfWire(log, CHOOSE w \in Targets(s, agent) : TRUE)
  IN  /\ own # <<>> /\ Last(own).id # None
      /\ Written(s, agent, <<Last(own)>>)
      /\ UNCHANGED <<made, prompts, prog>>

\* A fork begins with a copy of the main wire and a marker.
Fork(s, p) ==
  LET copied == OfWire(log, CHOOSE w \in Targets(p, "main") : TRUE)
      t == Now + 1
  IN  /\ copied # <<>> /\ Prog(p, "main").left = <<>>
      /\ OfSession(log, s) = <<>>
      /\ log' = log \o [i \in DOMAIN copied |-> [copied[i] EXCEPT !.wires = Targets(s, "main")]]
                    \o <<[Rec("forked") EXCEPT !.t = t, !.wires = Targets(s, "main")]>>
      /\ UNCHANGED <<made, prompts, prog>>

Agents == {"main", "sub"}

Init ==
  /\ log = <<>> /\ made = 0 /\ prompts = 0 /\ steps = 0
  /\ prog = [x \in Sessions \X Agents |-> Idle]

Next ==
  /\ steps < MaxSteps /\ steps' = steps + 1
  /\ \/ \E s \in Forks, p \in Sessions : Fork(s, p)
     \/ \E s \in Sessions, agent \in Agents :
          /\ s \in Forks => agent = "main" /\ OfSession(log, s) # <<>>
          /\ \/ \E how \in {"repeated", "once", "hidden"} :
                  agent = "main" /\ Prompt(s, agent, how, 1)
             \/ Prompt(s, agent, "repeated", prompts + 1)
             \/ \E shape \in Shapes : \E n \in {2, 3, Len(shape)} : Begin(s, agent, shape, n)
             \/ Advance(s, agent, 1)
             \/ Advance(s, agent, Len(Prog(s, agent).left))
             \/ Retry(s, agent)
             \/ Cancel(s, agent)
             \/ Repeat(s, agent)

Spec == Init /\ [][Next]_vars

--------------------------------------------------------------------------
\* Properties.

Told == ToSet(log)
Evident == {<<r.uuid, r.attempt>> : r \in {x \in Told : x.kind = "request"}}
             \union {<<u \div 10, u % 10>> : u \in {x.usage : x \in Told} \ {0}}
Requests == {r \in AllRows : r.role = "assistant"}

\* Why a request has no usage, as the wire tells.
Reason(p) ==
  CASE \E r \in Told : r.kind = "request" /\ r.uuid = p[1] /\ r.attempt > p[2] -> "failed"
    [] \E r \in Told : r.kind = "cancel" -> "cancelled"
    [] OTHER -> "open"

\* A request has one row from the time its wire tells of it, with the usage
\* once that is told, whichever records tell of it, in whichever order, and
\* however often; prompts have one row each.
UsageOnce ==
  /\ Cardinality(Requests) = Cardinality(Evident)
  /\ \A r \in Told : r.usage # 0 => \E x \in Requests : x.usage = r.usage
  /\ \A x \in Requests : x.reason = "failed" => \E p \in Evident : Reason(p) = "failed"
  /\ \A x \in Requests : x.reason = "cancelled" => \E r \in Told : r.kind = "cancel"
  /\ \A r \in Told : r.kind = "call" /\ r.usage = 0 =>
       \A x \in Requests : x.usage \div 10 = r.uuid => \E c \in x.calls : c[1] = r.call

\* A row is cached under its id: a row that was shown keeps its id and time.
KeepsRows ==
  \A records \in {log'} :
    LET after == Rows(records, Sessions)
    IN  \A r \in AllRows : \E x \in after : x.id = r.id /\ x.t = r.t /\ x.role = r.role

\* A load of the sessions written since a moment shows the rows of that time
\* as a load of all does, and a detail is the row of the list.
LoadsAgree ==
  LET all == AllRows
  IN  /\ \A from \in {MTime(s) : s \in Sessions} : Listed(from) = {r \in all : r.t >= from}
      /\ \A r \in all : Detail(r.id) = {r}

=============================================================================
