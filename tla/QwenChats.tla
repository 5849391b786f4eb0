------------------------------ MODULE QwenChats ------------------------------
(***************************************************************************)
(* What internal/source/qwencode reads out of the files of Qwen Code.  A   *)
(* request may be told three times: by the assistant record of the chat of *)
(* its session, by a telemetry event in that chat, and by a line of the    *)
(* month's token-usage log.  None of them names the others, so the reader  *)
(* pairs them by model and usage and shows what is left over.              *)
(*                                                                         *)
(* The log holds the records of all files in the order they were written.  *)
(* A usage is the pair of a model and a number that stands for its         *)
(* counters.  All records are dated.                                       *)
(***************************************************************************)
EXTENDS Integers, Sequences, FiniteSets, SequencesExt, FiniteSetsExt

CONSTANTS Sessions,    \* session ids
          Stores,      \* the records that tell of a request of the session, in their order
          SideStores,  \* the records that tell of a request Qwen Code makes aside
          Margin,      \* boundedLoadMargin, no request takes longer
          Month,       \* the length of a month
          MaxRequests, \* model calls
          MaxPrompts,  \* user prompts
          MaxSteps     \* bursts of records

Kinds == {"assistant", "event", "log"}

VARIABLES log,     \* the records of all files
          made,    \* requests so far
          prompts, \* prompts so far
          steps,   \* bursts so far, which is the time
          prog     \* what is left to write of the requests under way

vars == <<log, made, prompts, steps, prog>>

None == 0
NoUsage == <<None, None>>

--------------------------------------------------------------------------
\* Files: a chat per session, a usage log per month, one file of rollups.

Chat(records, s) == SelectSeq(records, LAMBDA r : r.file = "chat" /\ r.session = s)
Usages(records, s) == SelectSeq(records, LAMBDA r : r.file = "usage" /\ r.session = s)
MonthOf(t) == t \div Month
MTime(s) == Max({r.t : r \in ToSet(Chat(log, s))} \union {0})

\* Mutant: the model is no part of the key.
MatchKeyOfCounters(r) == <<None, r.usage[2]>>

\* matchKey
MatchKey(r) == r.usage

OfKind(records, kind) == SelectSeq(records, LAMBDA r : r.kind = kind)
Number(records, key) == Len(SelectSeq(records, LAMBDA r : MatchKey(r) = key))
Rank(records, i) == Number(SubSeq(records, 1, i), MatchKey(records[i]))
Picked(records, chosen) == [i \in 1..Cardinality(chosen) |->
  records[CHOOSE j \in chosen : Cardinality({k \in chosen : k <= j}) = i]]

--------------------------------------------------------------------------
\* Rows.

\* parseSessionRollups: the last project that a rollup of the session names.
RolledUp(records, s) ==
  LET told == SelectSeq(records, LAMBDA r : r.file = "rollup" /\ r.session = s /\ r.project # "")
  IN  IF told = <<>> THEN "unknown" ELSE Last(told).project

\* ensureUsageSession: a session without a chat is known by its rollup.
Project(records, s, chat) == IF chat # <<>> THEN chat[1].project ELSE RolledUp(records, s)

Row(s, kind, r, role, project) ==
  [id |-> <<s, kind, r.uuid, IF r.uuid = None THEN r.line ELSE 0>>, t |-> r.t, role |-> role,
   usage |-> r.usage, text |-> r.text, project |-> project, tools |-> {}]

\* addToolCall: a call belongs to the first record that makes it.
Called(chat, i) ==
  {c \in chat[i].calls : \A j \in 1..(i - 1) : c \notin chat[j].calls}

\* applyToolResult: the last result that follows the call stands.
Answer(chat, i, c) ==
  LET told == SelectSeq(SubSeq(chat, i + 1, Len(chat)), LAMBDA r : r.kind = "result" /\ r.answers = c)
  IN  IF told = <<>> THEN "partial" ELSE Last(told).status

Transcript(chat, s, project) ==
  LET shown(i) == chat[i].kind = "assistant" \/ (chat[i].kind = "user" /\ chat[i].text # 0)
  IN  {[Row(s, "t", chat[i], chat[i].kind, project) EXCEPT
          !.tools = {<<c, Answer(chat, i, c)>> : c \in Called(chat, i)}] : i \in {j \in DOMAIN chat : shown(j)}}

Charged(chat) == SelectSeq(chat, LAMBDA r : r.kind = "assistant" /\ r.usage # NoUsage)

\* Pass 2: as many events as there are records with their usage are echoes.
Unechoed(chat) ==
  LET events == OfKind(chat, "event")
  IN  Picked(events, {i \in DOMAIN events :
                        Rank(events, i) > Number(Charged(chat), MatchKey(events[i]))})

\* Mutant: a request that only telemetry tells does not cover its usage log.
CoveredByTranscript(chat, key) == Number(Charged(chat), key)

\* coverRequest: the requests that have a row.
Covered(chat, key) == Number(Charged(chat), key) + Number(Unechoed(chat), key)

\* normalizeUsageLog: as many lines as there are rows with their usage are told.
Uncovered(chat, usages) ==
  Picked(usages, {i \in DOMAIN usages : Rank(usages, i) > Covered(chat, MatchKey(usages[i]))})

SessionRows(records, s, chat, usages) ==
  LET project == Project(records, s, chat)
  IN  Transcript(chat, s, project)
        \union {Row(s, "e", r, "assistant", project) : r \in ToSet(Unechoed(chat))}
        \union {Row(s, "g", r, "assistant", project) : r \in ToSet(Uncovered(chat, usages))}

\* normalizeData, of the chats of some sessions and the usage logs of some months.
RowsOf(records, chats, months) ==
  UNION {SessionRows(records, s, IF s \in chats THEN Chat(records, s) ELSE <<>>,
                     SelectSeq(Usages(records, s), LAMBDA r : MonthOf(r.t) \in months)) : s \in Sessions}

Months == 0..MonthOf(MaxSteps)
Rows(records) == RowsOf(records, Sessions, Months)

--------------------------------------------------------------------------
\* Loads.

\* Mutant: exactly the chats that were written since.
BoundedChatsExactly(from) == {s \in Sessions : MTime(s) >= from}

\* loadBoundedSnapshot
BoundedChats(from) == {s \in Sessions : MTime(s) >= from - Margin}

\* usageFileInWindow
BoundedMonths(from) == {m \in Months : (m + 1) * Month > from - Margin}

Listed(from) == {r \in RowsOf(log, BoundedChats(from), BoundedMonths(from)) : r.t >= from}

\* MessageByID: the chat the id names and all usage logs, failing that all.
Detail(id) ==
  LET s == id[1]
  IN  {r \in IF Chat(log, s) # <<>> THEN RowsOf(log, {s}, Months) ELSE Rows(log) : r.id = id}

--------------------------------------------------------------------------
\* Qwen Code.

Now == steps + 1
ProjectOf(s) == IF s = 1 THEN "p1" ELSE "p2"
Idle == [left |-> <<>>, usage |-> NoUsage, k |-> 0, since |-> 0]
Callers == {"main", "aside"}
UnderWay == {x \in Sessions \X Callers : prog[x].left # <<>>}

Rec(s, file, kind) ==
  [file |-> file, session |-> s, kind |-> kind, t |-> Now, uuid |-> None, line |-> Len(Chat(log, s)) + 1,
   usage |-> NoUsage, text |-> 0, calls |-> {}, answers |-> 0, status |-> "", project |-> ProjectOf(s)]

\* The record of the request in a store; some requests call a tool.
Told(s, kind, p) ==
  [Rec(s, IF kind = "log" THEN "usage" ELSE "chat", kind) EXCEPT
     !.uuid = p.k, !.usage = p.usage,
     !.calls = IF kind = "assistant" /\ p.usage[2] = 1 THEN {1} ELSE {}]

Add(records) == log' = log \o [i \in DOMAIN records |-> [records[i] EXCEPT !.line = @ + i - 1]]

\* A request is told in all stores of its kind, first in n of them.
Request(s, who, counters, n) ==
  LET stores == IF who = "main" THEN Stores[s] ELSE SideStores[s]
      p == [left |-> SubSeq(stores, n + 1, Len(stores)), k |-> made + 1, since |-> Now,
            usage |-> <<IF who = "main" THEN 1 ELSE 2, counters>>]
      after == IF p.left = <<>> THEN Idle ELSE p
  IN  /\ made < MaxRequests /\ prog[<<s, who>>].left = <<>> /\ n \in 1..Len(stores)
      /\ made' = made + 1
      /\ prog' = [prog EXCEPT ![<<s, who>>] = after]
      /\ Add([i \in 1..n |-> Told(s, stores[i], p)])
      /\ UNCHANGED prompts

\* The rest of it is told.
Tell(s, who, n) ==
  LET p == prog[<<s, who>>]
  IN  /\ n \in 1..Len(p.left)
      /\ prog' = [prog EXCEPT ![<<s, who>>] =
                   IF n = Len(p.left) THEN Idle ELSE [p EXCEPT !.left = SubSeq(@, n + 1, Len(@))]]
      /\ Add([i \in 1..n |-> Told(s, p.left[i], p)])
      /\ UNCHANGED <<made, prompts>>

\* Qwen Code is killed before all stores are written; no other request has
\* the usage of this one.
Kill(s, who) ==
  LET p == prog[<<s, who>>]
  IN  /\ p.left # <<>> /\ p.usage[2] # 1
      /\ prog' = [prog EXCEPT ![<<s, who>>] = Idle]
      /\ UNCHANGED <<log, made, prompts>>

Prompt(s, text) ==
  /\ "assistant" \in ToSet(Stores[s]) /\ prompts < MaxPrompts
  /\ prompts' = prompts + 1
  /\ Add(<<[Rec(s, "chat", "user") EXCEPT !.text = text]>>)
  /\ UNCHANGED <<made, prog>>

\* A call is answered.
Result(s, status) ==
  /\ \E r \in ToSet(Chat(log, s)) : r.calls # {}
  /\ Add(<<[Rec(s, "chat", "result") EXCEPT !.answers = 1, !.status = status]>>)
  /\ UNCHANGED <<made, prompts, prog>>

\* A model answers without telling what it used.
Silent(s) ==
  /\ "assistant" \in ToSet(Stores[s]) /\ Chat(log, s) # <<>>
  /\ Add(<<Rec(s, "chat", "assistant")>>)
  /\ UNCHANGED <<made, prompts, prog>>

\* A session ends, with or without the name of its project.
End(s, project) ==
  /\ \A who \in Callers : prog[<<s, who>>].left = <<>>
  /\ Add(<<[Rec(s, "rollup", "rollup") EXCEPT !.project = project]>>)
  /\ UNCHANGED <<made, prompts, prog>>

Init ==
  /\ log = <<>> /\ made = 0 /\ prompts = 0 /\ steps = 0
  /\ prog = [x \in Sessions \X Callers |-> Idle]

Next ==
  /\ steps < MaxSteps /\ steps' = steps + 1
  /\ \/ \E s \in Sessions, who \in Callers :
          /\ \A x \in UnderWay : Now < prog[x].since + Margin \/ x = <<s, who>>
          /\ \/ \E n \in {1, 2, 3} : Tell(s, who, n)
             \/ Kill(s, who)
     \/ /\ \A x \in UnderWay : Now < prog[x].since + Margin
        /\ \/ \E s \in Sessions, who \in Callers, n \in {1, 2, 3}, c \in {1, made + 2} : Request(s, who, c, n)
           \/ \E s \in Sessions, text \in {0, 1} : Prompt(s, text)
           \/ \E s \in Sessions, status \in {"completed", "error"} : Result(s, status)
           \/ \E s \in Sessions : Silent(s)
           \/ \E s \in Sessions, project \in {"", "p2"} : End(s, project)

Spec == Init /\ [][Next]_vars

--------------------------------------------------------------------------
\* Properties.

Quiet(s) == \A who \in Callers : prog[<<s, who>>].left = <<>>
Requests(s) == {<<r.uuid, r.usage>> : r \in {x \in ToSet(log) : x.session = s /\ x.usage # NoUsage}}

\* As many rows have a usage as requests were told with it, whichever stores
\* tell of a request and in whichever order the requests of a session and
\* those made aside are written; a call has the outcome it was last told.
UsageOnce ==
  \A s \in {x \in Sessions : Quiet(x)} :
    LET rows == {r \in Rows(log) : r.id[1] = s}
        last == SelectSeq(Chat(log, s), LAMBDA r : r.kind = "result")
        told == UNION {r.tools : r \in rows}
    IN  /\ \A u \in {q[2] : q \in Requests(s)} :
             Cardinality({r \in rows : r.usage = u}) = Cardinality({q \in Requests(s) : q[2] = u})
        /\ last # <<>> => told = {<<1, Last(last).status>>}

\* A row is cached under its id: what is shown of a session that is not
\* making a request stays, under its id and at its time.
KeepsRows ==
  \A records \in {log'} :
    LET after == Rows(records)
    IN  \A r \in {x \in Rows(log) : Quiet(x.id[1])} :
          \E x \in after : x.id = r.id /\ x.t = r.t /\ x.usage = r.usage

\* A load bounded in time shows the rows of that time as a load of all does,
\* and a detail is the row of the list.
LoadsAgree ==
  LET all == Rows(log)
      quiet == {r \in all : Quiet(r.id[1])}
  IN  /\ \A from \in 1..Now : {r \in Listed(from) : Quiet(r.id[1])} = {r \in quiet : r.t >= from}
      /\ \A r \in all : Detail(r.id) = {r}

=============================================================================
