------------------------------- MODULE AgentTurn -------------------------------
(***************************************************************************)
(* One question to the analytics assistant (analyticsagent: run.go,        *)
(* service.go): a lead agent and the specialists it delegates to, each in  *)
(* rounds of a provider call and the tool calls it asks for, which run     *)
(* concurrently; one budget, one stream of events to the browser, one set  *)
(* of records that is stored with the answer.                              *)
(*                                                                         *)
(* A run of an agent is named by the call that started it, Lead is 0.      *)
(* How the reply of the provider comes in is the subject of ProviderStream.*)
(***************************************************************************)
EXTENDS Integers, Sequences, FiniteSets

CONSTANTS
  Queries,        \* well formed tool calls, each with its arguments
  Tasks,          \* well formed delegations
  Bad,            \* calls that are refused whatever the budget
  LeadReplies,    \* sequences of calls the models may ask for
  ChildReplies,
  MaxRounds,      \* of the lead agent
  ChildRounds,    \* of a specialist
  ChildCalls,     \* tool calls of one specialist
  MaxToolCalls, MaxOutput, MaxDelegations,  \* the budget of a turn
  MaxPerRound,    \* maxToolCallsPerRound
  Sizes,          \* of results
  MayFail         \* whether connection, provider and deadline may fail

Lead == 0

\* As many calls as the rounds of a turn may ask for.
Ids == 1..MaxRounds * MaxPerRound * (1 + MaxDelegations * ChildRounds)
Runs == {Lead} \union Ids

VARIABLES
  budget,     \* runBudget
  run,        \* agentRun
  parent,     \* which run a call belongs to
  seq,        \* callSeq
  records,    \* toolCalls and subagents, as they are appended
  view,       \* the browser: state of each call
  sink,       \* eventSink: up, broken
  ctx,        \* live, over
  outcome     \* none, answered, error

vars == <<budget, run, parent, seq, records, view, sink, ctx, outcome>>

Idle == [pc |-> "none", round |-> 0, final |-> FALSE, count |-> 0, todo |-> <<>>,
         items |-> <<>>, next |-> 1, seen |-> {}, usage |-> 0]

Init ==
  /\ budget = [calls |-> MaxToolCalls, output |-> MaxOutput, delegations |-> MaxDelegations, usage |-> 0]
  /\ run = [k \in Runs |-> IF k = Lead THEN [Idle EXCEPT !.pc = "round", !.round = 1] ELSE Idle]
  /\ parent = [k \in Ids |-> Lead] /\ seq = 0 /\ records = <<>>
  /\ view = [k \in Ids |-> "none"] /\ sink = "up" /\ ctx = "live" /\ outcome = "none"

Active(k) == run[k].pc \notin {"none", "answered", "failed"}
RoundsOf(k) == IF k = Lead THEN MaxRounds ELSE ChildRounds
CallsOf(k) == IF k = Lead THEN MaxToolCalls ELSE ChildCalls

\* send: nothing is delivered after the connection has failed.
Delivers == sink = "up"
Fails(k) == run' = [run EXCEPT ![k].pc = "failed"]

-----------------------------------------------------------------------------
(* execute                                                                 *)

Exhausted == budget.calls <= 0 \/ budget.output <= 0

\* The last round, and those after the budget is spent, are offered no tools.
StartRound(k) ==
  /\ run[k].pc = "round"
  /\ IF ctx = "live" /\ Delivers
     THEN run' = [run EXCEPT ![k].pc = "model",
                    ![k].final = run[k].round = RoundsOf(k) \/ Exhausted \/ run[k].count >= CallsOf(k)]
     ELSE Fails(k)
  /\ UNCHANGED <<budget, parent, seq, records, view, sink, ctx, outcome>>

\* After its retries, or with an answer that is not accepted.
ModelFails(k) ==
  /\ run[k].pc = "model" /\ (MayFail \/ ctx = "over" \/ ~Delivers)
  /\ Fails(k)
  /\ UNCHANGED <<budget, parent, seq, records, view, sink, ctx, outcome>>

Counted(k) == [budget EXCEPT !.usage = @ + 1]

ModelAnswers(k) ==
  /\ run[k].pc = "model"
  /\ budget' = Counted(k)
  /\ run' = [run EXCEPT ![k].pc = "answered", ![k].usage = @ + 1]
  /\ UNCHANGED <<parent, seq, records, view, sink, ctx, outcome>>

ModelCalls(k) ==
  /\ run[k].pc = "model"
  /\ budget' = Counted(k)
  /\ \E calls \in IF k = Lead THEN LeadReplies ELSE ChildReplies :
       run' = [run EXCEPT ![k].pc = IF run[k].final \/ Len(calls) > MaxPerRound THEN "failed" ELSE "plan",
                          ![k].usage = @ + 1, ![k].todo = calls, ![k].items = <<>>]
  /\ UNCHANGED <<parent, seq, records, view, sink, ctx, outcome>>

-----------------------------------------------------------------------------
(* planCall                                                                *)

\* Why a call is refused, with the calls and delegations it takes.
Refused(code, c, d) == [code |-> code, calls |-> c, delegations |-> d]

\* Mutant: checks the budget of the turn for executable calls only.
VerdictLate(k, call) ==
  IF run[k].count >= CallsOf(k) THEN Refused("agent_budget_exhausted", 0, 0)
  ELSE IF call \in run[k].seen THEN Refused("duplicate_call", 1, 0)
  ELSE IF call \in Bad \/ (call \in Tasks /\ k # Lead) THEN Refused("invalid", 1, 0)
  ELSE IF call \in Tasks /\ budget.delegations < 0 THEN Refused("delegation_budget_exhausted", 1, 0)
  ELSE Refused("none", 1, IF call \in Tasks THEN 1 ELSE 0)

Verdict(k, call) ==
  IF run[k].count >= CallsOf(k) THEN Refused("agent_budget_exhausted", 0, 0)
  ELSE IF budget.calls <= 0 THEN Refused("budget_exhausted", 0, 0)
  ELSE IF call \in Tasks /\ k # Lead THEN Refused("unknown_tool", 1, 0)
  ELSE IF call \in run[k].seen THEN Refused("duplicate_call", 1, 0)
  ELSE IF call \in Bad THEN Refused("invalid_arguments", 1, 0)
  ELSE IF call \in Tasks /\ budget.delegations <= 0 THEN Refused("delegation_budget_exhausted", 1, 0)
  ELSE Refused("none", 1, IF call \in Tasks THEN 1 ELSE 0)

PlanCall(k) ==
  /\ run[k].pc = "plan" /\ run[k].todo # <<>>
  /\ seq + 1 \in Ids
  /\ LET call == Head(run[k].todo)
         v == Verdict(k, call)
         item == [id |-> seq + 1, call |-> call, code |-> v.code,
                  state |-> IF v.code = "none" THEN "ready" ELSE "done"]
     IN  /\ run' = [run EXCEPT ![k].todo = Tail(@), ![k].items = Append(@, item),
                               ![k].count = @ + v.calls,
                               ![k].seen = IF v.code \in {"agent_budget_exhausted", "budget_exhausted", "unknown_tool"}
                                           THEN @ ELSE @ \union {call}]
         /\ budget' = [budget EXCEPT !.calls = @ - v.calls, !.delegations = @ - v.delegations]
         /\ parent' = [parent EXCEPT ![seq + 1] = k]
  /\ seq' = seq + 1
  /\ UNCHANGED <<records, view, sink, ctx, outcome>>

Planned(k) ==
  /\ run[k].pc = "plan" /\ run[k].todo = <<>>
  /\ run' = [run EXCEPT ![k].pc = "announce", ![k].next = 1]
  /\ UNCHANGED <<budget, parent, seq, records, view, sink, ctx, outcome>>

-----------------------------------------------------------------------------
(* announceCall, executeCalls                                              *)

Item(k) == run[k].items[run[k].next]
More(k) == run[k].next <= Len(run[k].items)
Seen(id, state) == view' = IF Delivers THEN [view EXCEPT ![id] = state] ELSE view

Announce(k) ==
  /\ run[k].pc = "announce"
  /\ IF ~More(k)
     THEN run' = [run EXCEPT ![k].pc = "execute"] /\ UNCHANGED view
     ELSE /\ Seen(Item(k).id, "running")
          /\ IF Delivers THEN run' = [run EXCEPT ![k].next = @ + 1] ELSE Fails(k)
  /\ UNCHANGED <<budget, parent, seq, records, sink, ctx, outcome>>

\* Mutant: a result is taken whatever its size.
FitsAlways(size) == budget.output > 0

\* takeOutput: a result that does not fit is replaced by a refusal.
Fits(size) == size <= budget.output

State(item, s) == [item EXCEPT !.state = s]
SetItem(k, i, s) == run' = [run EXCEPT ![k].items[i] = State(@, s)]

RunTool(k, i) ==
  /\ run[k].pc = "execute" /\ run[k].items[i].state = "ready"
  /\ run[k].items[i].call \notin Tasks
  /\ \E size \in Sizes :
       budget' = IF Fits(size) THEN [budget EXCEPT !.output = @ - size] ELSE budget
  /\ Seen(run[k].items[i].id, "finished")
  /\ SetItem(k, i, IF Delivers THEN "done" ELSE "error")
  /\ UNCHANGED <<parent, seq, records, sink, ctx, outcome>>

\* delegate: a specialist with a conversation of its own.
Delegate(k, i) ==
  /\ run[k].pc = "execute" /\ run[k].items[i].state = "ready"
  /\ run[k].items[i].call \in Tasks
  /\ run' = [run EXCEPT ![k].items[i] = State(@, "child"),
                        ![run[k].items[i].id] = [Idle EXCEPT !.pc = "round", !.round = 1]]
  /\ UNCHANGED <<budget, parent, seq, records, view, sink, ctx, outcome>>

\* A specialist that fails on its own is evidence too; with the connection or
\* the deadline gone the turn ends.
ChildEnds(k, i) ==
  LET id == run[k].items[i].id
      over == run[id].pc = "failed" /\ (ctx = "over" \/ ~Delivers)
  IN  /\ run[k].items[i].state = "child" /\ ~Active(id)
      /\ IF over THEN SetItem(k, i, "error") /\ UNCHANGED view
         ELSE Seen(id, "finished") /\ SetItem(k, i, IF Delivers THEN "done" ELSE "error")
      /\ UNCHANGED <<budget, parent, seq, records, sink, ctx, outcome>>

\* Mutant: a call that failed is waited for for ever.
JoinDone(k) ==
  /\ run[k].pc = "execute"
  /\ \A i \in DOMAIN run[k].items : run[k].items[i].state = "done"
  /\ run' = [run EXCEPT ![k].next = 1, ![k].pc = "collect"]
  /\ UNCHANGED <<budget, parent, seq, records, view, sink, ctx, outcome>>

\* Everything is waited for before an error ends the round.
Join(k) ==
  /\ run[k].pc = "execute"
  /\ \A i \in DOMAIN run[k].items : run[k].items[i].state \in {"done", "error"}
  /\ run' = [run EXCEPT ![k].next = 1,
               ![k].pc = IF \E i \in DOMAIN run[k].items : run[k].items[i].state = "error"
                         THEN "failed" ELSE "collect"]
  /\ UNCHANGED <<budget, parent, seq, records, view, sink, ctx, outcome>>

-----------------------------------------------------------------------------
(* The records, in the order the model asked for the calls                 *)

Delegated(item) == item.code = "none" /\ item.call \in Tasks

\* Mutant: a specialist that failed leaves no account of what it used.
UsageOfSuccess(k, item) ==
  IF Delegated(item) /\ run[item.id].pc = "answered" THEN run[item.id].usage ELSE 0

UsageOf(k, item) == IF Delegated(item) THEN run[item.id].usage ELSE 0

\* Mutant: a refused call is not shown to end.
CollectSilent(k) ==
  /\ run[k].pc = "collect" /\ More(k)
  /\ records' = Append(records, [id |-> Item(k).id, parent |-> k, run |-> Delegated(Item(k)),
                                 usage |-> UsageOf(k, Item(k))])
  /\ run' = [run EXCEPT ![k].next = @ + 1]
  /\ UNCHANGED <<budget, parent, seq, view, sink, ctx, outcome>>

Collect(k) ==
  /\ run[k].pc = "collect" /\ More(k)
  /\ IF Item(k).code # "none" /\ ~Delivers
     THEN Fails(k) /\ UNCHANGED <<records, view>>
     ELSE /\ IF Item(k).code # "none" THEN Seen(Item(k).id, "finished") ELSE UNCHANGED view
          /\ records' = Append(records, [id |-> Item(k).id, parent |-> k, run |-> Delegated(Item(k)),
                                         usage |-> UsageOf(k, Item(k))])
          /\ run' = [run EXCEPT ![k].next = @ + 1]
  /\ UNCHANGED <<budget, parent, seq, sink, ctx, outcome>>

NextRound(k) ==
  /\ run[k].pc = "collect" /\ ~More(k)
  /\ run' = [run EXCEPT ![k].pc = "round", ![k].round = @ + 1, ![k].items = <<>>]
  /\ UNCHANGED <<budget, parent, seq, records, view, sink, ctx, outcome>>

-----------------------------------------------------------------------------
(* runChat, and what may happen around it                                  *)

\* The notices, if there are any, are the last thing sent.
EndTurn ==
  /\ outcome = "none" /\ ~Active(Lead)
  /\ outcome' \in IF run[Lead].pc = "failed" THEN {"error"}
                   ELSE IF Delivers THEN {"answered"} ELSE {"answered", "error"}
  /\ UNCHANGED <<budget, run, parent, seq, records, view, sink, ctx>>

BrowserGone ==
  /\ MayFail /\ outcome = "none"
  /\ sink = "up" /\ sink' = "broken"
  /\ UNCHANGED <<budget, run, parent, seq, records, view, ctx, outcome>>

TimeIsUp ==
  /\ MayFail /\ outcome = "none"
  /\ ctx = "live" /\ ctx' = "over"
  /\ UNCHANGED <<budget, run, parent, seq, records, view, sink, outcome>>

Step(k) ==
  \/ StartRound(k) \/ ModelFails(k) \/ ModelAnswers(k) \/ ModelCalls(k)
  \/ PlanCall(k) \/ Planned(k) \/ Announce(k) \/ Join(k) \/ Collect(k) \/ NextRound(k)
  \/ \E i \in DOMAIN run[k].items : RunTool(k, i) \/ Delegate(k, i) \/ ChildEnds(k, i)

Next == EndTurn \/ BrowserGone \/ TimeIsUp \/ \E k \in Runs : Step(k)

Spec == Init /\ [][Next]_vars

\* The provider answers or its client times out, tools and goroutines go on.
FairSpec == Spec /\ WF_vars(EndTurn) /\ \A k \in Runs : WF_vars(Step(k))

-----------------------------------------------------------------------------
(* Properties                                                              *)

\* However the calls of a round and of concurrent specialists interleave, a
\* turn never spends more than its budget, nor an agent more than its own.
BudgetHolds ==
  /\ budget.calls >= 0 /\ budget.output >= 0
  /\ Cardinality({k \in Ids : run[k].pc # "none"}) <= MaxDelegations
  /\ \A k \in Runs : run[k].count <= CallsOf(k)

UsageIn(rs) ==
  LET sum[n \in 0..Len(rs)] == IF n = 0 THEN 0 ELSE sum[n - 1] + rs[n].usage IN sum[Len(rs)]

\* The usage of the answer is that of the lead agent and of each specialist in
\* the records, those that failed included.
UsageAddsUp ==
  outcome = "answered" => budget.usage = run[Lead].usage + UsageIn(records)

\* What the browser was told while it went on is what is stored: every call
\* that was shown to start was shown to end and is recorded once, below the
\* specialist that made it.
RecordsMatchView ==
  outcome = "answered" =>
    /\ {records[i].id : i \in DOMAIN records} = {id \in Ids : view[id] = "finished"}
    /\ \A i, j \in DOMAIN records : i # j => records[i].id # records[j].id
    /\ \A i \in DOMAIN records : records[i].parent # Lead =>
         \E j \in DOMAIN records : records[j].id = records[i].parent /\ records[j].run

\* A specialist's calls are shown between its start and its end, and nothing
\* goes on when the turn is over.
Nested ==
  /\ \A id \in Ids : view[id] # "none" /\ parent[id] # Lead =>
       /\ view[parent[id]] # "none"
       /\ view[parent[id]] = "finished" /\ Delivers /\ run[parent[id]].pc = "answered" => view[id] = "finished"
  /\ outcome # "none" => \A k \in Runs : ~Active(k)

\* The budget of the turn bounds all its agents, which work inside each other.
TurnIsBounded == BudgetHolds /\ Nested

\* What is stored and charged for the turn is what was done and shown.
TurnIsAccounted == UsageAddsUp /\ RecordsMatchView

\* Every turn ends.
TurnEnds == <>(outcome # "none")
=============================================================================
