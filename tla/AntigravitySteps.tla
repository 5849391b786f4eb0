--------------------------- MODULE AntigravitySteps ---------------------------
(***************************************************************************)
(* What internal/source/antigravity reads out of the databases of          *)
(* Antigravity: one per conversation, with a row per step and a row per    *)
(* generation, and one of summaries, which names the conversation that     *)
(* started another.  A step is updated as it goes on, its usage may stand  *)
(* in the step or in the generation, and a fork begins with copies of      *)
(* steps, which mostly name the conversation they come from.               *)
(*                                                                         *)
(* The log holds the writes to all databases; the last write of a row is   *)
(* the row.  The usage of request k is the number k, all steps are dated.  *)
(***************************************************************************)
EXTENDS Integers, Sequences, FiniteSets, SequencesExt, FiniteSetsExt

CONSTANTS Conversations, \* numbers, in the order of the names of their files
          Parent,        \* what started the conversation, or None
          MaxRequests,   \* planner steps
          MaxPrompts,    \* user steps
          MaxSteps       \* writes

None == 0

VARIABLES log,     \* the writes to all databases
          made,    \* planner steps so far
          prompts, \* user steps so far
          steps    \* writes so far, which is the time

vars == <<log, made, prompts, steps>>

--------------------------------------------------------------------------
\* Databases.

Same(a, b) == a.table = b.table /\ a.conversation = b.conversation /\ a.index = b.index
Current(writes, table) ==
  {writes[i] : i \in {j \in DOMAIN writes : /\ writes[j].table = table
                                            /\ \A l \in (j + 1)..Len(writes) : ~Same(writes[j], writes[l])}}
HasFile(writes, c) == \E i \in DOMAIN writes : writes[i].table # "summaries" /\ writes[i].conversation = c

\* The session of a conversation is the one that started it all, as far as the
\* summaries and the files tell.
Session(writes, c) ==
  LET told == {r.conversation : r \in Current(writes, "summaries")}
      climb[n \in 0..Cardinality(Conversations)] ==
        IF n = 0 THEN [at |-> c, visited |-> {c}]
        ELSE LET below == climb[n - 1]
                 up == IF below.at \in told THEN Parent[below.at] ELSE None
             IN  IF up = None \/ ~HasFile(writes, up) \/ up \in below.visited THEN below
                 ELSE [at |-> up, visited |-> below.visited \union {up}]
  IN  climb[Cardinality(Conversations)].at

--------------------------------------------------------------------------
\* Rows.

User == 14
Planner == 15
NoOrigin == <<None, None>>

\* A step is named by where it was made.
Id(x) == IF x.origin = NoOrigin THEN <<x.conversation, x.index>> ELSE x.origin
Precedes(a, b) ==
  \/ a.conversation < b.conversation
  \/ a.conversation = b.conversation /\ a.index < b.index

\* Mutant: copies count as their originals do.
OwnOrCopied(x) == TRUE

\* Imported rows are told by their native database.
Own(x) == x.imported \in {None, x.conversation}

\* Mutant: a step is known by its place alone.
KeptByPlace(writes) == {x \in Current(writes, "steps") : x.format = 0 /\ Own(x)}

\* seenSteps: the first row of a step counts.
Kept(writes) ==
  LET own == {x \in Current(writes, "steps") : x.format = 0 /\ Own(x)}
  IN  {x \in own : \A y \in own : Id(y) = Id(x) => ~Precedes(y, x)}

Shown(writes) == {x \in Kept(writes) : x.type \in {User, Planner} \/ x.call # 0}

NotCharged == [usage |-> 0, status |-> "unavailable"]

\* The usage of the step, failing that of its generation.
Usage(writes, x) ==
  LET recovered == {g \in Current(writes, "generations") :
                      g.conversation = x.conversation /\ x.origin # NoOrigin /\ g.index = x.generation}
  IN  CASE x.usage # 0 -> [usage |-> x.usage, status |-> "recorded"]
        [] x.usage = 0 /\ recovered # {} ->
             [usage |-> (CHOOSE g \in recovered : TRUE).usage, status |-> "recovered"]
        [] OTHER -> NotCharged

Outcome(x) ==
  CASE x.status = 3 -> "completed"
    [] x.status \in {4, 7} -> "error"
    [] OTHER -> "partial"

\* lastPlanner: the planner step that a tool step belongs to.
PlannersBefore(shown, x) ==
  {y \in shown : y.type = Planner /\ y.conversation = x.conversation /\ y.index < x.index}
LastPlanner(shown, x) ==
  CHOOSE y \in PlannersBefore(shown, x) : \A z \in PlannersBefore(shown, x) : z.index <= y.index

Attached(shown, x) == x.type \notin {User, Planner} /\ PlannersBefore(shown, x) # {}
ToolSteps(shown, x) ==
  {y \in shown : y.call # 0 /\ (y = x \/ (Attached(shown, y) /\ LastPlanner(shown, y) = x))}

Role(x) == CASE x.type = User -> "user" [] x.type = Planner -> "assistant" [] OTHER -> "tool"

\* readConversation, of all conversations.
Rows(writes) ==
  LET shown == Shown(writes)
  IN  {[id |-> Id(x), t |-> x.t, role |-> Role(x), session |-> Session(writes, x.conversation),
        usage |-> IF x.type = Planner THEN Usage(writes, x) ELSE NotCharged,
        tools |-> {<<y.call, Outcome(y)>> : y \in ToolSteps(shown, x)},
        ref |-> [conversation |-> x.conversation, index |-> x.index],
        toolRefs |-> {[conversation |-> y.conversation, index |-> y.index] : y \in ToolSteps(shown, x)}]
       : x \in {z \in shown : ~Attached(shown, z)}}

\* loadDetail: the steps whose transcripts are shown with a row.
Detail(id) ==
  UNION {{r.ref} \union r.toolRefs : r \in {x \in Rows(log) : x.id = id}}

--------------------------------------------------------------------------
\* Antigravity.

Now == steps + 1
StepsOf(c) == {x \in Current(log, "steps") : x.conversation = c}
NextIndex(c) == Max({x.index : x \in StepsOf(c)} \union {0}) + 1

Rec(table, c, index) ==
  [table |-> table, conversation |-> c, index |-> index, t |-> Now, type |-> 0, status |-> 1, format |-> 0,
   k |-> 0, origin |-> NoOrigin, imported |-> None, generation |-> 0, usage |-> 0, call |-> 0]

Write(records) == log' = log \o records

Summarize(c) ==
  /\ ~\E r \in Current(log, "summaries") : r.conversation = c
  /\ Write(<<Rec("summaries", c, 0)>>)
  /\ UNCHANGED <<made, prompts>>

\* A step names its origin or not; with and without a tool call of its own.
Plan(c, origin, call) ==
  LET i == NextIndex(c)
  IN  /\ made < MaxRequests
      /\ made' = made + 1
      /\ Write(<<[Rec("steps", c, i) EXCEPT
                    !.type = Planner, !.k = made + 1, !.generation = made + 1,
                    !.call = IF call THEN 10 + made ELSE 0, !.origin = IF origin THEN <<c, i>> ELSE NoOrigin]>>)
      /\ UNCHANGED prompts

Ask(c) ==
  /\ prompts < MaxPrompts
  /\ prompts' = prompts + 1
  /\ Write(<<[Rec("steps", c, NextIndex(c)) EXCEPT !.type = User]>>)
  /\ UNCHANGED made

\* The usage of a planner step becomes known, in the step, in its generation
\* or in both.
Charge(c, x, where) ==
  LET step == [x EXCEPT !.usage = x.k, !.status = 3]
      generation == [Rec("generations", c, x.generation) EXCEPT !.usage = x.k]
  IN  /\ x.type = Planner /\ x.usage = 0 /\ x.imported = None /\ x.origin \in {NoOrigin, <<c, x.index>>}
      /\ ~\E g \in Current(log, "generations") : g.conversation = c /\ g.index = x.generation
      /\ where = "generation" => x.origin # NoOrigin
      /\ Write(CASE where = "step" -> <<step>>
                 [] where = "generation" -> <<generation>>
                 [] OTHER -> <<generation, step>>)
      /\ UNCHANGED <<made, prompts>>

\* A tool is called by a step of its own, or something else is written in a
\* format of another version.
Call(c, format) ==
  /\ Write(<<[Rec("steps", c, NextIndex(c)) EXCEPT !.type = 132, !.call = 20 + steps, !.format = format]>>)
  /\ UNCHANGED <<made, prompts>>

Settle(x, status) ==
  /\ x.call # 0 /\ x.status = 1 /\ x.imported = None /\ x.origin \in {NoOrigin, <<x.conversation, x.index>>}
  /\ Write(<<[x EXCEPT !.status = status]>>)
  /\ UNCHANGED <<made, prompts>>

\* Fork: copies name their origin, and the conversation they are imported from
\* unless the copy's name follows the original's.
Fork(c, p, marked) ==
  LET own == {x \in StepsOf(p) : x.imported = None}
      copied == SetToSeq(own)
  IN  /\ c # p /\ own # {} /\ StepsOf(c) = {} /\ (marked \/ p < c)
      /\ Write([i \in DOMAIN copied |->
                  [copied[i] EXCEPT !.conversation = c, !.origin = Id(copied[i]),
                                    !.imported = IF marked THEN p ELSE None]])
      /\ UNCHANGED <<made, prompts>>

Init == log = <<>> /\ made = 0 /\ prompts = 0 /\ steps = 0

Next ==
  /\ steps < MaxSteps /\ steps' = steps + 1
  /\ \/ \E c \in Conversations :
          \/ Summarize(c)
          \/ Ask(c)
          \/ \E call \in BOOLEAN : Plan(c, TRUE, call)
          \/ Plan(c, FALSE, FALSE)
          \/ \E x \in StepsOf(c), where \in {"step", "generation", "both"} : Charge(c, x, where)
          \/ \E x \in StepsOf(c), status \in {3, 7} : Settle(x, status)
          \/ \E format \in {0, 1} : Call(c, format)
     \/ \E c, p \in Conversations, marked \in BOOLEAN : Fork(c, p, marked)

Spec == Init /\ [][Next]_vars

--------------------------------------------------------------------------
\* Properties.

Told == {x \in Current(log, "steps") : x.imported = None /\ x.format = 0
                                        /\ x.origin \in {NoOrigin, <<x.conversation, x.index>>}}
Charged(x) ==
  x.usage # 0 \/ \E g \in Current(log, "generations") : g.conversation = x.conversation /\ g.index = x.generation

\* A request is charged once, with its usage as soon as it is known, in
\* whichever store, and a tool call is counted once, with its present outcome,
\* however often conversations are forked.
UsageOnce ==
  LET rows == Rows(log)
  IN  /\ Cardinality({r \in rows : r.role = "assistant"}) = Cardinality({x \in Told : x.type = Planner})
      /\ \A x \in {y \in Told : y.type = Planner} :
           Cardinality({r \in rows : r.usage.usage = x.k}) = IF Charged(x) THEN 1 ELSE 0
      /\ \A x \in {y \in Told : y.call # 0} :
           /\ Cardinality({r \in rows : \E o \in r.tools : o[1] = x.call}) = 1
           /\ \E r \in rows : <<x.call, Outcome(x)>> \in r.tools

\* A row is cached under its id: a row that was shown keeps its id and time.
KeepsRows ==
  \A writes \in {log'} :
    LET after == Rows(writes)
    IN  \A r \in Rows(log) : \E x \in after : x.id = r.id /\ x.t = r.t /\ x.role = r.role

\* Ids are unique, and the detail of a row is read from the steps that made it.
LoadsAgree ==
  LET rows == Rows(log)
      held(r) == {x \in Current(log, "steps") : \E y \in Detail(r.id) :
                    x.conversation = y.conversation /\ x.index = y.index}
  IN  \A r \in rows :
        /\ Cardinality({x \in rows : x.id = r.id}) = 1
        /\ {<<x.call, Outcome(x)>> : x \in {y \in held(r) : y.call # 0}} = r.tools
        /\ \A x \in held(r) : x.k # 0 /\ r.usage.usage # 0 => x.k = r.usage.usage

=============================================================================
