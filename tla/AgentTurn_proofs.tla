---------------------------- MODULE AgentTurn_proofs ----------------------------
(* A turn keeps to its budget and its agents work inside each other, for any  *)
(* number of rounds, calls and specialists.                                   *)
EXTENDS AgentTurn, SequenceTheorems, FiniteSetTheorems, WellFoundedInduction, TLAPS

\* The budgets are numbers, and models ask for calls.
Budgeted ==
  /\ {MaxRounds, ChildRounds, ChildCalls, MaxToolCalls, MaxOutput, MaxDelegations, MaxPerRound} \subseteq Nat
  /\ Sizes \subseteq Nat
  /\ LeadReplies \union ChildReplies \subseteq Seq(Queries \union Tasks \union Bad)

AnyCall == Queries \union Tasks \union Bad

Codes == {"none", "agent_budget_exhausted", "budget_exhausted", "unknown_tool", "duplicate_call",
          "invalid_arguments", "delegation_budget_exhausted"}

AnyItem == [id : Nat \ {0}, call : AnyCall, code : Codes, state : {"ready", "child", "done", "error"}]

AnyRun == [pc : {"none", "round", "model", "plan", "announce", "execute", "collect", "answered", "failed"},
           round : Nat, final : BOOLEAN, count : Nat, todo : Seq(AnyCall), items : Seq(AnyItem),
           next : Nat \ {0}, seen : SUBSET AnyCall, usage : Nat]

\* The records are left out: they say what became of runs that have a number.
TypeOK ==
  /\ budget \in [calls : Int, output : Int, delegations : Int, usage : Nat]
  /\ run \in [Runs -> AnyRun]
  /\ parent \in [Ids -> Runs] /\ seq \in Nat
  /\ view \in [Ids -> {"none", "running", "finished"}]
  /\ sink \in {"up", "broken"} /\ ctx \in {"live", "over"} /\ outcome \in {"none", "answered", "error"}

Items(k) == run[k].items

-----------------------------------------------------------------------------
(* The inductive invariant                                                   *)

\* Delegations are paid for when they are planned.
Committed ==
  {id \in Ids : \/ run[id].pc # "none"
                \/ \E i \in DOMAIN Items(Lead) : /\ Items(Lead)[i].id = id /\ Items(Lead)[i].state = "ready"
                                                /\ Items(Lead)[i].call \in Tasks}

Spent ==
  /\ budget.calls >= 0 /\ budget.output >= 0 /\ budget.delegations >= 0
  /\ Cardinality(Committed) + budget.delegations <= MaxDelegations
  /\ \A k \in Runs : run[k].count <= CallsOf(k)

\* Calls are numbered in the order they are planned in, and belong to one run.
Owned(k, i) == Items(k)[i].id <= seq /\ (Items(k)[i].id \in Ids => parent[Items(k)[i].id] = k)

Numbered ==
  /\ \A k \in Runs : \A i \in DOMAIN Items(k) : Owned(k, i)
  /\ \A k \in Runs : \A i, j \in DOMAIN Items(k) : i # j => Items(k)[i].id # Items(k)[j].id
  /\ \A k \in Ids : run[k].pc # "none" => k <= seq
  /\ \A id \in Ids : view[id] # "none" => id <= seq

\* What a call of run k may be doing.
Proper(k, i) ==
  LET item == Items(k)[i]
  IN  /\ item.code # "none" => item.state = "done"
      /\ item.state = "ready" /\ item.call \in Tasks =>
           k = Lead /\ (item.id \in Ids => run[item.id].pc = "none")
      /\ item.state = "child" => k = Lead /\ run[k].pc = "execute"
      /\ run[k].pc \in {"plan", "announce"} /\ item.code = "none" => item.state = "ready"

Orderly == \A k \in Runs : \A i \in DOMAIN Items(k) : Proper(k, i)

\* Calls are announced before one of them is executed.
Told(k, i) ==
  LET item == Items(k)[i]
  IN  item.id \in Ids =>
        /\ run[k].pc \in {"execute", "collect"} \/ (run[k].pc = "announce" /\ i < run[k].next) => view[item.id] # "none"
        /\ run[k].pc = "execute" /\ Delivers /\ item.code = "none" /\ item.state = "done" => view[item.id] = "finished"

Announced ==
  /\ \A k \in Runs : \A i \in DOMAIN Items(k) : Told(k, i)
  /\ \A k \in Ids : run[k].pc # "none" => view[k] # "none"

\* A call that is shown to run is one its run has still to finish.
Ends(k, id) ==
  /\ run[k].pc \in {"announce", "execute", "collect", "failed"}
  /\ run[k].pc # "failed" =>
       \E i \in DOMAIN Items(k) : /\ Items(k)[i].id = id
                                  /\ run[k].pc = "collect" => Items(k)[i].code # "none" /\ i >= run[k].next

Running == Delivers => \A id \in Ids : view[id] = "running" => Ends(parent[id], id)

\* A specialist works while the lead agent waits for it.
Awaited ==
  /\ \A k \in Ids : Active(k) => \E i \in DOMAIN Items(Lead) : Items(Lead)[i].id = k /\ Items(Lead)[i].state = "child"
  /\ outcome # "none" => ~Active(Lead)

\* A call that was shown belongs below one that was shown.
Shown == \A id \in Ids : view[id] # "none" /\ parent[id] # Lead => view[parent[id]] # "none"

Inv == TypeOK /\ Spent /\ Numbered /\ Orderly /\ Announced /\ Running /\ Awaited /\ Shown

-----------------------------------------------------------------------------
(* Runs and numbers                                                          *)

LEMMA LeadIsNoId == Budgeted => Lead \notin Ids /\ Ids \subseteq Nat \ {0} /\ Lead \in Runs /\ Ids \subseteq Runs
BY DEF Lead, Ids, Runs

LEMMA RunsAreLead == \A k \in Runs : k = Lead \/ k \in Ids
BY DEF Runs

LEMMA IdsFinite == Budgeted => IsFiniteSet(Ids)
<1>1. SUFFICES ASSUME Budgeted PROVE IsFiniteSet(Ids)
  OBVIOUS
<1>2. MaxRounds * MaxPerRound * (1 + MaxDelegations * ChildRounds) \in Nat
  <2>1. \A a, b \in Nat : a * b \in Nat
    OBVIOUS
  <2>2. MaxRounds * MaxPerRound \in Nat /\ 1 + MaxDelegations * ChildRounds \in Nat
    BY <1>1, <2>1 DEF Budgeted
  <2> QED
    BY <2>1, <2>2
<1> QED
  BY <1>2, FS_Interval DEF Ids

LEMMA InitTypes == ASSUME Budgeted, Init PROVE TypeOK
<1>1. <<>> \in Seq(AnyCall) /\ <<>> \in Seq(AnyItem)
  OBVIOUS
<1>2. Idle \in AnyRun
  BY <1>1 DEF Idle, AnyRun
<1>3. [Idle EXCEPT !.pc = "round", !.round = 1] \in AnyRun
  BY <1>2 DEF AnyRun
<1>4. run \in [Runs -> AnyRun]
  BY <1>2, <1>3 DEF Init
<1>5. budget \in [calls : Int, output : Int, delegations : Int, usage : Nat]
  BY DEF Init, Budgeted
<1> QED
  BY <1>4, <1>5, LeadIsNoId DEF Init, TypeOK

\* What a step of run k that touches no other run leaves.
Moves(k) ==
  /\ run' \in [Runs -> AnyRun]
  /\ \A j \in Runs : j # k => run'[j] = run[j]

LEMMA MovesBy ==
  ASSUME TypeOK, NEW k \in Runs, NEW r \in AnyRun, run' = [run EXCEPT ![k] = r]
  PROVE  Moves(k) /\ run'[k] = r
BY DEF TypeOK, Moves

LEMMA FailsDoes ==
  ASSUME TypeOK, NEW k \in Runs, Fails(k)
  PROVE  /\ Moves(k) /\ run'[k].pc = "failed"
         /\ run'[k].items = run[k].items /\ run'[k].count = run[k].count /\ run'[k].next = run[k].next
<1> DEFINE r == [run[k] EXCEPT !.pc = "failed"]
<1>1. run[k] \in AnyRun
  BY DEF TypeOK
<1>2. r \in AnyRun /\ r.pc = "failed" /\ r.items = run[k].items /\ r.count = run[k].count /\ r.next = run[k].next
  BY <1>1 DEF AnyRun
<1>3. run' = [run EXCEPT ![k] = r]
  BY DEF Fails
<1> HIDE DEF r
<1> QED
  BY <1>2, <1>3, MovesBy

LEMMA StartRoundDoes ==
  ASSUME TypeOK, NEW k \in Runs, StartRound(k)
  PROVE  /\ Moves(k) /\ run[k].pc = "round" /\ run'[k].pc \in {"model", "failed"}
         /\ run'[k].pc = "model" => Delivers
         /\ run'[k].items = run[k].items /\ run'[k].count = run[k].count
         /\ UNCHANGED <<budget, parent, seq, view, sink, outcome>>
<1> DEFINE f == run[k].round = RoundsOf(k) \/ Exhausted \/ run[k].count >= CallsOf(k)
           r == [run[k] EXCEPT !.pc = "model", !.final = f]
<1>1. run[k] \in AnyRun /\ f \in BOOLEAN
  BY DEF TypeOK
<1>2. r \in AnyRun /\ r.pc = "model" /\ r.items = run[k].items /\ r.count = run[k].count
  <2> HIDE DEF f
  <2> QED BY <1>1 DEF AnyRun
<1>3. CASE Fails(k)
  BY <1>3, FailsDoes DEF StartRound
<1>4. CASE ~Fails(k)
  <2>1. run' = [run EXCEPT ![k] = r] /\ Delivers
    BY <1>4 DEF StartRound
  <2> HIDE DEF r
  <2> QED
    BY <1>2, <2>1, MovesBy DEF StartRound
<1> QED
  BY <1>3, <1>4

LEMMA ModelFailsDoes ==
  ASSUME TypeOK, NEW k \in Runs, ModelFails(k)
  PROVE  /\ Moves(k) /\ run[k].pc = "model" /\ run'[k].pc = "failed"
         /\ run'[k].items = run[k].items /\ run'[k].count = run[k].count
         /\ UNCHANGED <<budget, parent, seq, view, sink, outcome>>
BY FailsDoes DEF ModelFails

LEMMA CountedDoes ==
  ASSUME TypeOK, NEW k \in Runs, budget' = Counted(k)
  PROVE  /\ budget' \in [calls : Int, output : Int, delegations : Int, usage : Nat]
         /\ budget'.calls = budget.calls /\ budget'.output = budget.output /\ budget'.delegations = budget.delegations
BY DEF TypeOK, Counted

LEMMA ModelAnswersDoes ==
  ASSUME TypeOK, NEW k \in Runs, ModelAnswers(k)
  PROVE  /\ Moves(k) /\ run[k].pc = "model" /\ run'[k].pc = "answered"
         /\ run'[k].items = run[k].items /\ run'[k].count = run[k].count
         /\ UNCHANGED <<parent, seq, view, sink, outcome>>
<1> DEFINE u == run[k].usage + 1
           r == [run[k] EXCEPT !.pc = "answered", !.usage = u]
<1>1. run[k] \in AnyRun /\ u \in Nat
  BY DEF TypeOK, AnyRun
<1> HIDE DEF u
<1>2. r \in AnyRun /\ r.pc = "answered" /\ r.items = run[k].items /\ r.count = run[k].count
  BY <1>1 DEF AnyRun
<1>3. run' = [run EXCEPT ![k] = r]
  BY DEF ModelAnswers, u
<1> HIDE DEF r
<1> QED
  BY <1>2, <1>3, MovesBy DEF ModelAnswers

LEMMA ModelCallsDoes ==
  ASSUME Budgeted, TypeOK, NEW k \in Runs, ModelCalls(k)
  PROVE  /\ Moves(k) /\ run[k].pc = "model" /\ run'[k].pc \in {"plan", "failed"}
         /\ run'[k].items = <<>> /\ run'[k].count = run[k].count
         /\ UNCHANGED <<parent, seq, view, sink, outcome>>
<1>1. PICK calls \in IF k = Lead THEN LeadReplies ELSE ChildReplies :
        run' = [run EXCEPT ![k].pc = IF run[k].final \/ Len(calls) > MaxPerRound THEN "failed" ELSE "plan",
                           ![k].usage = @ + 1, ![k].todo = calls, ![k].items = <<>>]
  BY DEF ModelCalls
<1> DEFINE q == IF run[k].final \/ Len(calls) > MaxPerRound THEN "failed" ELSE "plan"
           u == run[k].usage + 1
           r == [run[k] EXCEPT !.pc = q, !.usage = u, !.todo = calls, !.items = <<>>]
<1>2. run[k] \in AnyRun /\ calls \in Seq(AnyCall) /\ <<>> \in Seq(AnyItem) /\ q \in {"failed", "plan"} /\ u \in Nat
  <2>1. run[k] \in AnyRun /\ u \in Nat
    BY DEF TypeOK, AnyRun
  <2>2. calls \in Seq(AnyCall)
    BY DEF Budgeted, AnyCall
  <2> QED
    BY <2>1, <2>2
<1>3. run' = [run EXCEPT ![k] = r]
  BY <1>1
<1> HIDE DEF q, u
<1>4. r \in AnyRun /\ r.pc \in {"plan", "failed"} /\ r.items = <<>> /\ r.count = run[k].count
  BY <1>2 DEF AnyRun
<1> HIDE DEF r
<1> QED
  BY <1>3, <1>4, MovesBy DEF ModelCalls

\* What a verdict takes from the budgets was there.
LEMMA VerdictTakes ==
  ASSUME TypeOK, NEW k \in Runs, NEW call \in AnyCall, NEW v, v = Verdict(k, call)
  PROVE  /\ v.code \in Codes /\ v.calls \in {0, 1} /\ v.delegations \in {0, 1}
         /\ v.calls = 1 => ~(run[k].count >= CallsOf(k)) /\ ~(budget.calls <= 0)
         /\ v.delegations = 1 <=> v.code = "none" /\ call \in Tasks
         /\ v.code = "none" /\ call \in Tasks => k = Lead /\ ~(budget.delegations <= 0)
<1>1. \/ v \in {Refused("agent_budget_exhausted", 0, 0), Refused("budget_exhausted", 0, 0)}
      \/ /\ ~(run[k].count >= CallsOf(k)) /\ ~(budget.calls <= 0)
         /\ \/ v \in {Refused(c, 1, 0) : c \in {"unknown_tool", "duplicate_call", "invalid_arguments",
                                             "delegation_budget_exhausted"}}
            \/ /\ ~(call \in Tasks /\ k # Lead) /\ ~(call \in Tasks /\ budget.delegations <= 0)
               /\ v = Refused("none", 1, IF call \in Tasks THEN 1 ELSE 0)
  BY Zenon DEF Verdict
<1> QED
  BY <1>1 DEF Refused, Codes

LEMMA PlanCallDoes ==
  ASSUME TypeOK, NEW k \in Runs, PlanCall(k)
  PROVE  \E item \in AnyItem :
           /\ Moves(k) /\ run[k].pc = "plan" /\ run'[k].pc = "plan"
           /\ item.id = seq + 1 /\ seq' = seq + 1 /\ parent' = [parent EXCEPT ![seq + 1] = k]
           /\ run'[k].items = Append(run[k].items, item)
           /\ item.state = IF item.code = "none" THEN "ready" ELSE "done"
           /\ item.code = "none" /\ item.call \in Tasks => k = Lead
           /\ run'[k].count = run[k].count \/ (run'[k].count = run[k].count + 1 /\ ~(run[k].count >= CallsOf(k)))
           /\ budget' \in [calls : Int, output : Int, delegations : Int, usage : Nat]
           /\ budget'.output = budget.output /\ (budget.calls >= 0 => budget'.calls >= 0)
           /\ IF item.code = "none" /\ item.call \in Tasks
              THEN budget.delegations > 0 /\ budget'.delegations = budget.delegations - 1
              ELSE budget'.delegations = budget.delegations
           /\ UNCHANGED <<view, sink, outcome>>
<1> DEFINE call == Head(run[k].todo)
           v == Verdict(k, call)
           item == [id |-> seq + 1, call |-> call, code |-> v.code,
                    state |-> IF v.code = "none" THEN "ready" ELSE "done"]
           seen == IF v.code \in {"agent_budget_exhausted", "budget_exhausted", "unknown_tool"}
                   THEN run[k].seen ELSE run[k].seen \union {call}
           rest == Tail(run[k].todo)
           more == Append(run[k].items, item)
           r == [run[k] EXCEPT !.todo = rest, !.items = more, !.count = run[k].count + v.calls, !.seen = seen]
           b == [budget EXCEPT !.calls = budget.calls - v.calls, !.delegations = budget.delegations - v.delegations]
<1>1. run[k] \in AnyRun /\ run[k].pc = "plan" /\ run[k].todo # <<>> /\ seq + 1 \in Nat \ {0}
  <2>1. run[k] \in AnyRun /\ seq + 1 \in Nat \ {0}
    BY DEF TypeOK
  <2> QED
    BY <2>1, Zenon DEF PlanCall
<1>2. run[k].todo \in Seq(AnyCall) /\ run[k].items \in Seq(AnyItem) /\ run[k].count \in Nat /\ run[k].seen \in SUBSET AnyCall
  BY <1>1 DEF AnyRun
<1>3. call \in AnyCall /\ rest \in Seq(AnyCall)
  BY <1>1, <1>2
<1>4. /\ run' = [run EXCEPT ![k] = r] /\ budget' = b
      /\ seq' = seq + 1 /\ parent' = [parent EXCEPT ![seq + 1] = k] /\ UNCHANGED <<view, sink, outcome>>
  BY DEF PlanCall
<1> HIDE DEF call, rest
<1>5. /\ v.code \in Codes /\ v.calls \in {0, 1} /\ v.delegations \in {0, 1}
      /\ v.calls = 1 => ~(run[k].count >= CallsOf(k)) /\ ~(budget.calls <= 0)
      /\ v.delegations = 1 <=> v.code = "none" /\ call \in Tasks
      /\ v.code = "none" /\ call \in Tasks => k = Lead /\ ~(budget.delegations <= 0)
  BY <1>3, VerdictTakes
<1> HIDE DEF v
<1>6. item \in AnyItem
  BY <1>1, <1>3, <1>5 DEF AnyItem
<1>7. /\ item.id = seq + 1 /\ item.call = call /\ item.code = v.code
      /\ item.state = IF v.code = "none" THEN "ready" ELSE "done"
  OBVIOUS
<1> HIDE DEF item
<1>8. more \in Seq(AnyItem)
  BY <1>2, <1>6
<1>9. seen \in SUBSET AnyCall
  BY <1>2, <1>3
<1> HIDE DEF more, seen
<1>10. r \in AnyRun /\ r.pc = "plan" /\ r.items = more /\ r.count = run[k].count + v.calls
  <2> DEFINE c == run[k].count + v.calls
  <2>1. c \in Nat
    BY <1>2, <1>5
  <2> HIDE DEF c
  <2>2. [run[k] EXCEPT !.todo = rest, !.items = more, !.count = c, !.seen = seen] \in AnyRun
    BY <1>1, <1>3, <1>8, <1>9, <2>1 DEF AnyRun
  <2> QED
    BY <1>1, <2>2 DEF AnyRun, c
<1>11. /\ b \in [calls : Int, output : Int, delegations : Int, usage : Nat] /\ b.output = budget.output
       /\ b.calls = budget.calls - v.calls /\ b.delegations = budget.delegations - v.delegations
       /\ budget.calls \in Int /\ budget.delegations \in Int
  <2> DEFINE c == budget.calls - v.calls
             d == budget.delegations - v.delegations
  <2>1. c \in Int /\ d \in Int /\ budget \in [calls : Int, output : Int, delegations : Int, usage : Nat]
    BY <1>5 DEF TypeOK
  <2> HIDE DEF c, d
  <2>2. b = [budget EXCEPT !.calls = c, !.delegations = d]
    BY DEF c, d
  <2> QED
    BY <2>1, <2>2 DEF c, d
<1> HIDE DEF r, b
<1>12. Moves(k) /\ run'[k] = r
  BY <1>4, <1>10, MovesBy
<1>13. run'[k].count = run[k].count \/ (run'[k].count = run[k].count + 1 /\ ~(run[k].count >= CallsOf(k)))
  BY <1>2, <1>5, <1>10, <1>12
<1>14. budget.calls >= 0 => budget'.calls >= 0
  BY <1>4, <1>5, <1>11
<1>15. IF item.code = "none" /\ item.call \in Tasks
       THEN budget.delegations > 0 /\ budget'.delegations = budget.delegations - 1
       ELSE budget'.delegations = budget.delegations
  BY <1>4, <1>5, <1>7, <1>11
<1>16. item.state = (IF item.code = "none" THEN "ready" ELSE "done") /\ (item.code = "none" /\ item.call \in Tasks => k = Lead)
  BY <1>5, <1>7
<1>17. run'[k].items = Append(run[k].items, item) /\ run'[k].pc = "plan"
  BY <1>10, <1>12 DEF more
<1> QED
  BY <1>1, <1>4, <1>6, <1>7, <1>11, <1>12, <1>13, <1>14, <1>15, <1>16, <1>17

LEMMA PlannedDoes ==
  ASSUME TypeOK, NEW k \in Runs, Planned(k)
  PROVE  /\ Moves(k) /\ run[k].pc = "plan" /\ run'[k].pc = "announce" /\ run'[k].next = 1
         /\ run'[k].items = run[k].items /\ run'[k].count = run[k].count
         /\ UNCHANGED <<budget, parent, seq, view, sink, outcome>>
<1> DEFINE n == 1
           r == [run[k] EXCEPT !.pc = "announce", !.next = n]
<1>1. run[k] \in AnyRun /\ n \in Nat \ {0}
  BY DEF TypeOK
<1>a. n = 1
  OBVIOUS
<1> HIDE DEF n
<1>2. r \in AnyRun /\ r.pc = "announce" /\ r.next = n /\ r.items = run[k].items /\ r.count = run[k].count
  BY <1>1 DEF AnyRun
<1>3. run' = [run EXCEPT ![k] = r]
  BY <1>a DEF Planned
<1> HIDE DEF r
<1> QED
  BY <1>a, <1>2, <1>3, MovesBy DEF Planned

LEMMA ItemTyped ==
  ASSUME TypeOK, NEW k \in Runs, More(k)
  PROVE  run[k].next \in DOMAIN run[k].items /\ Item(k) \in AnyItem /\ Item(k) = run[k].items[run[k].next]
BY DEF TypeOK, AnyRun, More, Item

LEMMA SeenDoes ==
  ASSUME TypeOK, NEW id, NEW x \in {"running", "finished"}, Seen(id, x)
  PROVE  /\ view' \in [Ids -> {"none", "running", "finished"}]
         /\ \A o \in Ids : view'[o] = view[o] \/ (o = id /\ view'[o] = x)
         /\ Delivers /\ id \in Ids => view'[id] = x
         /\ ~Delivers => view' = view
BY DEF TypeOK, Seen

LEMMA NextDoes ==
  ASSUME TypeOK, NEW k \in Runs, run' = [run EXCEPT ![k].next = @ + 1]
  PROVE  /\ Moves(k) /\ run'[k].pc = run[k].pc /\ run'[k].next = run[k].next + 1
         /\ run'[k].items = run[k].items /\ run'[k].count = run[k].count
<1> DEFINE n == run[k].next + 1
           r == [run[k] EXCEPT !.next = n]
<1>1. run[k] \in AnyRun /\ n \in Nat \ {0}
  BY DEF TypeOK, AnyRun
<1>2. run' = [run EXCEPT ![k] = r]
  OBVIOUS
<1> HIDE DEF n
<1>3. r \in AnyRun /\ r.pc = run[k].pc /\ r.next = n /\ r.items = run[k].items /\ r.count = run[k].count
  BY <1>1 DEF AnyRun
<1> HIDE DEF r
<1> QED
  BY <1>2, <1>3, MovesBy DEF n

LEMMA AnnounceDoes ==
  ASSUME TypeOK, NEW k \in Runs, Announce(k)
  PROVE  /\ Moves(k) /\ run[k].pc = "announce"
         /\ run'[k].items = run[k].items /\ run'[k].count = run[k].count
         /\ UNCHANGED <<budget, parent, seq, sink, outcome>>
         /\ \/ run'[k].pc = "execute" /\ ~More(k) /\ view' = view
            \/ run'[k].pc = "failed" /\ ~Delivers /\ view' = view
            \/ /\ Delivers /\ More(k) /\ Seen(Item(k).id, "running")
               /\ run'[k].pc = "announce" /\ run'[k].next = run[k].next + 1
<1>1. CASE ~More(k)
  <2> DEFINE r == [run[k] EXCEPT !.pc = "execute"]
  <2>1. run[k] \in AnyRun
    BY DEF TypeOK
  <2>2. r \in AnyRun /\ r.pc = "execute" /\ r.items = run[k].items /\ r.count = run[k].count
    BY <2>1 DEF AnyRun
  <2>3. run' = [run EXCEPT ![k] = r]
    BY <1>1 DEF Announce
  <2> HIDE DEF r
  <2> QED
    BY <1>1, <2>2, <2>3, MovesBy DEF Announce
<1>2. CASE More(k) /\ ~Delivers
  BY <1>2, FailsDoes DEF Announce, Seen
<1>3. CASE More(k) /\ Delivers
  <2>1. run' = [run EXCEPT ![k].next = @ + 1] /\ run[k].pc = "announce" /\ Seen(Item(k).id, "running")
    BY <1>3 DEF Announce
  <2> QED
    BY <1>3, <2>1, NextDoes DEF Announce
<1> QED
  BY <1>1, <1>2, <1>3

States == {"ready", "child", "done", "error"}

\* What is left of call i of run k when its state becomes x.
Marks(k, i, x) ==
  /\ Moves(k) /\ run'[k].pc = run[k].pc /\ run'[k].count = run[k].count /\ run'[k].next = run[k].next
  /\ DOMAIN run'[k].items = DOMAIN run[k].items
  /\ \A j \in DOMAIN run[k].items : j # i => run'[k].items[j] = run[k].items[j]
  /\ run'[k].items[i].id = run[k].items[i].id /\ run'[k].items[i].call = run[k].items[i].call
  /\ run'[k].items[i].code = run[k].items[i].code /\ run'[k].items[i].state = x

LEMMA StateTyped ==
  ASSUME NEW item \in AnyItem, NEW x \in States
  PROVE  /\ State(item, x) \in AnyItem /\ State(item, x).state = x /\ State(item, x).id = item.id
         /\ State(item, x).call = item.call /\ State(item, x).code = item.code
BY DEF State, AnyItem, States

\* The record of a run whose call i has become x.
Marked(k, i, x) == [run[k] EXCEPT !.items = [run[k].items EXCEPT ![i] = State(run[k].items[i], x)]]

LEMMA MarkedTyped ==
  ASSUME TypeOK, NEW k \in Runs, NEW i \in DOMAIN run[k].items, NEW x \in States
  PROVE  /\ Marked(k, i, x) \in AnyRun /\ Marked(k, i, x).pc = run[k].pc /\ Marked(k, i, x).count = run[k].count
         /\ Marked(k, i, x).next = run[k].next /\ DOMAIN Marked(k, i, x).items = DOMAIN run[k].items
         /\ \A j \in DOMAIN run[k].items : j # i => Marked(k, i, x).items[j] = run[k].items[j]
         /\ Marked(k, i, x).items[i] = State(run[k].items[i], x)
<1> DEFINE q == [run[k].items EXCEPT ![i] = State(run[k].items[i], x)]
<1>1. run[k] \in AnyRun /\ run[k].items \in Seq(AnyItem) /\ run[k].items[i] \in AnyItem
  BY DEF TypeOK, AnyRun
<1>2. State(run[k].items[i], x) \in AnyItem
  BY <1>1, StateTyped
<1>3. q \in Seq(AnyItem) /\ DOMAIN q = DOMAIN run[k].items /\ q[i] = State(run[k].items[i], x)
      /\ \A j \in DOMAIN run[k].items : j # i => q[j] = run[k].items[j]
  BY <1>1, <1>2
<1>4. Marked(k, i, x) = [run[k] EXCEPT !.items = q]
  BY DEF Marked
<1> HIDE DEF q
<1> QED
  BY <1>1, <1>3, <1>4 DEF AnyRun

LEMMA SetItemDoes ==
  ASSUME TypeOK, NEW k \in Runs, NEW i \in DOMAIN run[k].items, NEW x \in States, SetItem(k, i, x)
  PROVE  Marks(k, i, x)
<1>1. run' = [run EXCEPT ![k] = Marked(k, i, x)]
  BY DEF SetItem, Marked
<1>2. Moves(k) /\ run'[k] = Marked(k, i, x)
  BY <1>1, MarkedTyped, MovesBy
<1>3. run[k].items[i] \in AnyItem
  BY DEF TypeOK, AnyRun
<1> QED
  BY <1>2, <1>3, MarkedTyped, StateTyped DEF Marks

LEMMA RunToolDoes ==
  ASSUME Budgeted, TypeOK, NEW k \in Runs, NEW i \in DOMAIN run[k].items, RunTool(k, i)
  PROVE  /\ run[k].pc = "execute" /\ run[k].items[i].state = "ready"
         /\ run[k].items[i].call \notin Tasks
         /\ Marks(k, i, IF Delivers THEN "done" ELSE "error") /\ Seen(run[k].items[i].id, "finished")
         /\ budget' \in [calls : Int, output : Int, delegations : Int, usage : Nat]
         /\ budget'.calls = budget.calls /\ budget'.delegations = budget.delegations
         /\ budget.output >= 0 => budget'.output >= 0
         /\ UNCHANGED <<parent, seq, sink, outcome>>
<1>1. PICK size \in Sizes : budget' = IF Fits(size) THEN [budget EXCEPT !.output = @ - size] ELSE budget
  BY DEF RunTool
<1>2. size \in Nat /\ budget \in [calls : Int, output : Int, delegations : Int, usage : Nat]
  BY DEF Budgeted, TypeOK
<1>3. /\ budget' \in [calls : Int, output : Int, delegations : Int, usage : Nat]
      /\ budget'.calls = budget.calls /\ budget'.delegations = budget.delegations
      /\ budget.output >= 0 => budget'.output >= 0
  BY <1>1, <1>2 DEF Fits
<1>4. Marks(k, i, IF Delivers THEN "done" ELSE "error")
  BY SetItemDoes DEF RunTool, States
<1> QED
  BY <1>3, <1>4 DEF RunTool

LEMMA DelegateDoes ==
  ASSUME Budgeted, TypeOK, Orderly, NEW k \in Runs, NEW i \in DOMAIN run[k].items, Delegate(k, i)
  PROVE  LET id == run[k].items[i].id
         IN  /\ k = Lead /\ run[k].pc = "execute" /\ run[k].items[i].state = "ready" /\ run[k].items[i].call \in Tasks
             /\ run' \in [Runs -> AnyRun] /\ \A j \in Runs : j # k /\ j # id => run'[j] = run[j]
             /\ run'[k] = Marked(k, i, "child") /\ id # k
             /\ id \in Ids => run'[id].pc = "round" /\ run'[id].items = <<>> /\ run'[id].count = 0
             /\ UNCHANGED <<budget, parent, seq, view, sink, outcome>>
<1> DEFINE id == run[k].items[i].id
           new == [Idle EXCEPT !.pc = "round", !.round = 1]
           r == Marked(k, i, "child")
<1>1. run[k].pc = "execute" /\ run[k].items[i].state = "ready" /\ run[k].items[i].call \in Tasks
  BY DEF Delegate
<1>2. k = Lead /\ id \in Nat \ {0}
  <2>1. run[k].items[i] \in AnyItem
    BY DEF TypeOK, AnyRun
  <2>2. Proper(k, i)
    BY DEF Orderly, Items
  <2> QED
    BY <1>1, <2>1, <2>2 DEF Proper, Items, AnyItem
<1>3. id # k
  BY <1>2 DEF Lead
<1>4. run' = [[run EXCEPT ![k] = r] EXCEPT ![id] = new]
  BY DEF Delegate, Marked
<1>5. r \in AnyRun
  BY MarkedTyped DEF States
<1>6. new \in AnyRun /\ new.pc = "round" /\ new.items = <<>> /\ new.count = 0
  <2>1. <<>> \in Seq(AnyCall) /\ <<>> \in Seq(AnyItem)
    OBVIOUS
  <2>2. Idle \in AnyRun /\ Idle.items = <<>> /\ Idle.count = 0
    BY <2>1 DEF Idle, AnyRun
  <2> QED
    BY <2>2 DEF AnyRun
<1>7. UNCHANGED <<budget, parent, seq, view, sink, outcome>>
  BY DEF Delegate
<1> HIDE DEF id, new, r
<1>8. run' \in [Runs -> AnyRun] /\ run'[k] = r /\ (\A j \in Runs : j # k /\ j # id => run'[j] = run[j])
  BY <1>3, <1>4, <1>5, <1>6 DEF TypeOK
<1>9. id \in Ids => run'[id] = new
  BY <1>3, <1>4, <1>5, LeadIsNoId DEF TypeOK
<1> QED
  BY <1>1, <1>2, <1>3, <1>6, <1>7, <1>8, <1>9 DEF id, r

LEMMA ChildEndsDoes ==
  ASSUME Budgeted, TypeOK, Orderly, NEW k \in Runs, NEW i \in DOMAIN run[k].items, ChildEnds(k, i)
  PROVE  /\ k = Lead /\ run[k].pc = "execute" /\ run[k].items[i].state = "child" /\ ~Active(run[k].items[i].id)
         /\ \/ Marks(k, i, "error") /\ view' = view
            \/ Marks(k, i, IF Delivers THEN "done" ELSE "error") /\ Seen(run[k].items[i].id, "finished")
         /\ UNCHANGED <<budget, parent, seq, sink, outcome>>
<1>1. run[k].items[i].state = "child" /\ ~Active(run[k].items[i].id) /\ UNCHANGED <<budget, parent, seq, sink, outcome>>
  BY DEF ChildEnds
<1>2. k = Lead /\ run[k].pc = "execute"
  BY <1>1 DEF Orderly, Proper, Items
<1>3. \/ SetItem(k, i, "error") /\ view' = view
      \/ SetItem(k, i, IF Delivers THEN "done" ELSE "error") /\ Seen(run[k].items[i].id, "finished")
  BY DEF ChildEnds
<1> QED
  BY <1>1, <1>2, <1>3, SetItemDoes DEF States

LEMMA JoinDoes ==
  ASSUME TypeOK, NEW k \in Runs, Join(k)
  PROVE  /\ Moves(k) /\ run[k].pc = "execute" /\ run'[k].pc \in {"failed", "collect"} /\ run'[k].next = 1
         /\ run'[k].items = run[k].items /\ run'[k].count = run[k].count
         /\ \A i \in DOMAIN run[k].items :
              /\ run[k].items[i].state \in {"done", "error"}
              /\ run'[k].pc = "collect" => run[k].items[i].state = "done"
         /\ run'[k].pc = "failed" => \E i \in DOMAIN run[k].items : run[k].items[i].state = "error"
         /\ UNCHANGED <<budget, parent, seq, view, sink, outcome>>
<1> DEFINE n == 1
           q == IF \E i \in DOMAIN run[k].items : run[k].items[i].state = "error" THEN "failed" ELSE "collect"
           r == [run[k] EXCEPT !.next = n, !.pc = q]
<1>1. run[k] \in AnyRun /\ n \in Nat \ {0} /\ n = 1
  BY DEF TypeOK
<1>2. /\ q \in {"failed", "collect"}
      /\ IF q = "collect" THEN \A i \in DOMAIN run[k].items : run[k].items[i].state # "error"
         ELSE \E i \in DOMAIN run[k].items : run[k].items[i].state = "error"
  OBVIOUS
<1>3. run' = [run EXCEPT ![k] = r]
  BY DEF Join
<1> HIDE DEF n, q
<1>4. r \in AnyRun /\ r.pc = q /\ r.next = n /\ r.items = run[k].items /\ r.count = run[k].count
  BY <1>1, <1>2 DEF AnyRun
<1> HIDE DEF r
<1>5. run[k].pc = "execute" /\ (\A i \in DOMAIN run[k].items : run[k].items[i].state \in {"done", "error"})
      /\ UNCHANGED <<budget, parent, seq, view, sink, outcome>>
  BY DEF Join
<1> QED
  BY <1>1, <1>2, <1>3, <1>4, <1>5, MovesBy

LEMMA CollectDoes ==
  ASSUME TypeOK, NEW k \in Runs, Collect(k)
  PROVE  /\ Moves(k) /\ run[k].pc = "collect" /\ More(k)
         /\ run'[k].items = run[k].items /\ run'[k].count = run[k].count
         /\ \/ run'[k].pc = "failed" /\ ~Delivers /\ view' = view
            \/ /\ run'[k].pc = "collect" /\ run'[k].next = run[k].next + 1
               /\ IF Item(k).code # "none" THEN Seen(Item(k).id, "finished") ELSE view' = view
         /\ UNCHANGED <<budget, parent, seq, sink, outcome>>
<1>1. run[k].pc = "collect" /\ More(k) /\ UNCHANGED <<budget, parent, seq, sink, outcome>>
  BY DEF Collect
<1>2. CASE Item(k).code # "none" /\ ~Delivers
  <2>1. Fails(k) /\ view' = view
    BY <1>2 DEF Collect
  <2> QED
    BY <1>1, <1>2, <2>1, FailsDoes
<1>3. CASE ~(Item(k).code # "none" /\ ~Delivers)
  <2>1. /\ run' = [run EXCEPT ![k].next = @ + 1]
        /\ IF Item(k).code # "none" THEN Seen(Item(k).id, "finished") ELSE view' = view
    BY <1>3 DEF Collect
  <2> QED
    BY <1>1, <2>1, NextDoes
<1> QED
  BY <1>2, <1>3

LEMMA NextRoundDoes ==
  ASSUME TypeOK, NEW k \in Runs, NextRound(k)
  PROVE  /\ Moves(k) /\ run[k].pc = "collect" /\ ~More(k) /\ run'[k].pc = "round"
         /\ run'[k].items = <<>> /\ run'[k].count = run[k].count
         /\ UNCHANGED <<budget, parent, seq, view, sink, outcome>>
<1> DEFINE u == run[k].round + 1
           r == [run[k] EXCEPT !.pc = "round", !.round = u, !.items = <<>>]
<1>1. run[k] \in AnyRun /\ u \in Nat /\ <<>> \in Seq(AnyItem)
  BY DEF TypeOK, AnyRun
<1>2. run' = [run EXCEPT ![k] = r]
  BY DEF NextRound
<1> HIDE DEF u
<1>3. r \in AnyRun /\ r.pc = "round" /\ r.items = <<>> /\ r.count = run[k].count
  BY <1>1 DEF AnyRun
<1> HIDE DEF r
<1> QED
  BY <1>2, <1>3, MovesBy DEF NextRound

-----------------------------------------------------------------------------
(* What the actions of a run may do, with only what the invariant speaks of  *)

\* A run goes on, and its calls stay or are dropped.
Goes(k) ==
  /\ Moves(k) /\ run'[k].items \in {run[k].items, <<>>} /\ run'[k].count = run[k].count /\ view' = view
  /\ \/ /\ run[k].pc = "round" /\ run'[k].pc \in {"model", "failed"} /\ run'[k].items = run[k].items
        /\ run'[k].pc = "model" => Delivers
     \/ run[k].pc = "model" /\ run'[k].pc \in {"answered", "failed"} /\ run'[k].items = run[k].items
     \/ run[k].pc = "model" /\ run'[k].pc \in {"plan", "failed"} /\ run'[k].items = <<>>
     \/ run[k].pc = "plan" /\ run'[k].pc = "announce" /\ run'[k].next = 1 /\ run'[k].items = run[k].items
     \/ run[k].pc = "announce" /\ run'[k].pc = "execute" /\ ~More(k) /\ run'[k].items = run[k].items
     \/ run[k].pc \in {"announce", "collect"} /\ run'[k].pc = "failed" /\ ~Delivers /\ run'[k].items = run[k].items
     \/ /\ run[k].pc = "execute" /\ run'[k].pc \in {"failed", "collect"} /\ run'[k].next = 1
        /\ run'[k].items = run[k].items
        /\ \A i \in DOMAIN run[k].items :
             /\ run[k].items[i].state \in {"done", "error"}
             /\ run'[k].pc = "collect" => run[k].items[i].state = "done"
        /\ run'[k].pc = "failed" => \E i \in DOMAIN run[k].items : run[k].items[i].state = "error"
     \/ run[k].pc = "collect" /\ run'[k].pc = "round" /\ ~More(k) /\ run'[k].items = <<>>

\* A call is shown to start, or one that was refused is shown to end.
Tells(k) ==
  /\ Moves(k) /\ run'[k].items = run[k].items /\ run'[k].count = run[k].count /\ More(k)
  /\ run'[k].pc = run[k].pc /\ run'[k].next = run[k].next + 1
  /\ \/ run[k].pc = "announce" /\ Delivers /\ Seen(Item(k).id, "running")
     \/ run[k].pc = "collect" /\ Item(k).code # "none" /\ Seen(Item(k).id, "finished")
     \/ run[k].pc = "collect" /\ Item(k).code = "none" /\ view' = view

\* A call is over: a tool's, or a specialist's.
Finishes(k, i) ==
  /\ run[k].pc = "execute"
  /\ \/ run[k].items[i].state = "ready" /\ run[k].items[i].call \notin Tasks
     \/ run[k].items[i].state = "child" /\ ~Active(run[k].items[i].id)
  /\ \/ Marks(k, i, "error") /\ view' = view /\ k = Lead
     \/ Marks(k, i, IF Delivers THEN "done" ELSE "error") /\ Seen(run[k].items[i].id, "finished")

\* A specialist is started.
Starts(k, i) ==
  LET id == run[k].items[i].id
  IN  /\ k = Lead /\ run[k].pc = "execute" /\ run[k].items[i].state = "ready" /\ run[k].items[i].call \in Tasks
      /\ run' \in [Runs -> AnyRun] /\ \A j \in Runs : j # k /\ j # id => run'[j] = run[j]
      /\ run'[k] = Marked(k, i, "child") /\ id # k
      /\ id \in Ids => run'[id].pc = "round" /\ run'[id].items = <<>> /\ run'[id].count = 0
      /\ view' = view

\* A call is planned, and paid for.
Plans(k, item) ==
  /\ Moves(k) /\ run[k].pc = "plan" /\ run'[k].pc = "plan"
  /\ item.id = seq + 1 /\ seq' = seq + 1 /\ parent' = [parent EXCEPT ![seq + 1] = k]
  /\ run'[k].items = Append(run[k].items, item)
  /\ item.state = IF item.code = "none" THEN "ready" ELSE "done"
  /\ item.code = "none" /\ item.call \in Tasks => k = Lead
  /\ run'[k].count = run[k].count \/ (run'[k].count = run[k].count + 1 /\ ~(run[k].count >= CallsOf(k)))
  /\ budget'.output = budget.output /\ (budget.calls >= 0 => budget'.calls >= 0)
  /\ IF item.code = "none" /\ item.call \in Tasks
     THEN budget.delegations > 0 /\ budget'.delegations = budget.delegations - 1
     ELSE budget'.delegations = budget.delegations
  /\ view' = view

\* The other steps of a run spend at most output.
Spares ==
  /\ UNCHANGED <<parent, seq>>
  /\ budget'.calls = budget.calls /\ budget'.delegations = budget.delegations
  /\ budget.output >= 0 => budget'.output >= 0

\* A step of run k that plans nothing.
Works(k) == Goes(k) \/ Tells(k) \/ \E i \in DOMAIN run[k].items : Finishes(k, i) \/ Starts(k, i)

LEMMA StepDoes ==
  ASSUME Budgeted, TypeOK, Orderly, NEW k \in Runs, Step(k)
  PROVE  /\ (\E item \in AnyItem : Plans(k, item)) \/ (Spares /\ Works(k))
         /\ budget' \in [calls : Int, output : Int, delegations : Int, usage : Nat]
         /\ UNCHANGED <<sink, outcome>>
<1>0. budget \in [calls : Int, output : Int, delegations : Int, usage : Nat]
  BY DEF TypeOK
<1>1. CASE StartRound(k)
  BY <1>0, <1>1, StartRoundDoes DEF Goes, Spares, Works
<1>2. CASE ModelFails(k)
  BY <1>0, <1>2, ModelFailsDoes DEF Goes, Spares, Works
<1>3. CASE ModelAnswers(k)
  <2>1. budget' = Counted(k)
    BY <1>3 DEF ModelAnswers
  <2> QED
    BY <1>3, <2>1, CountedDoes, ModelAnswersDoes DEF Goes, Spares, Works
<1>4. CASE ModelCalls(k)
  <2>1. budget' = Counted(k)
    BY <1>4 DEF ModelCalls
  <2> QED
    BY <1>4, <2>1, CountedDoes, ModelCallsDoes DEF Goes, Spares, Works
<1>5. CASE PlanCall(k)
  BY <1>5, PlanCallDoes DEF Plans
<1>6. CASE Planned(k)
  BY <1>0, <1>6, PlannedDoes DEF Goes, Spares, Works
<1>7. CASE Announce(k)
  BY <1>0, <1>7, AnnounceDoes DEF Goes, Tells, Spares, Works
<1>8. CASE Join(k)
  BY <1>0, <1>8, JoinDoes DEF Goes, Spares, Works
<1>9. CASE Collect(k)
  BY <1>0, <1>9, CollectDoes DEF Goes, Tells, Spares, Works
<1>10. CASE NextRound(k)
  BY <1>0, <1>10, NextRoundDoes DEF Goes, Spares, Works
<1>11. ASSUME NEW i \in DOMAIN run[k].items, RunTool(k, i)
       PROVE  Finishes(k, i) /\ Spares /\ budget' \in [calls : Int, output : Int, delegations : Int, usage : Nat]
              /\ UNCHANGED <<sink, outcome>>
  BY <1>11, RunToolDoes DEF Finishes, Spares
<1>12. ASSUME NEW i \in DOMAIN run[k].items, Delegate(k, i)
       PROVE  Starts(k, i) /\ Spares /\ budget' = budget /\ UNCHANGED <<sink, outcome>>
  BY <1>12, DelegateDoes DEF Starts, Spares
<1>13. ASSUME NEW i \in DOMAIN run[k].items, ChildEnds(k, i)
       PROVE  Finishes(k, i) /\ Spares /\ budget' = budget /\ UNCHANGED <<sink, outcome>>
  BY <1>13, ChildEndsDoes DEF Finishes, Spares
<1> QED
  BY <1>0, <1>1, <1>2, <1>3, <1>4, <1>5, <1>6, <1>7, <1>8, <1>9, <1>10, <1>11, <1>12, <1>13 DEF Step, Works

LEMMA ClockKept == ASSUME NEW k \in Runs, Step(k) PROVE ctx' = ctx
BY Zenon DEF Step, StartRound, ModelFails, ModelAnswers, ModelCalls, PlanCall, Planned, Announce, Join, Collect,
             NextRound, RunTool, Delegate, ChildEnds

\* Runs that do something have begun and have not ended.
LEMMA OnlyBusyStep ==
  ASSUME TypeOK, NEW k \in Runs, Works(k) \/ \E item \in AnyItem : Plans(k, item)
  PROVE  run[k].pc \in {"round", "model", "plan", "announce", "execute", "collect"}
BY DEF Works, Goes, Tells, Finishes, Starts, Plans

LEMMA AllTyped == ASSUME TypeOK, NEW j \in Runs PROVE run[j] \in AnyRun /\ run[j].items \in Seq(AnyItem)
BY DEF TypeOK, AnyRun

\* The calls of a run stay what they are until they are dropped.
Keeps ==
  \A j \in Runs : \A i \in DOMAIN run'[j].items :
    /\ i \in DOMAIN run[j].items
    /\ run'[j].items[i].id = run[j].items[i].id /\ run'[j].items[i].call = run[j].items[i].call
    /\ run'[j].items[i].code = run[j].items[i].code

LEMMA WorkKeeps ==
  ASSUME TypeOK, NEW k \in Runs, Works(k)
  PROVE  Keeps
<1>0. \A j \in Runs : run[j].items \in Seq(AnyItem)
  BY AllTyped
<1>1. CASE Goes(k)
  BY <1>0, <1>1 DEF Keeps, Goes, Moves
<1>2. CASE Tells(k)
  BY <1>0, <1>2 DEF Keeps, Tells, Moves
<1>3. ASSUME NEW i \in DOMAIN run[k].items, Finishes(k, i) PROVE Keeps
  <2>1. \E x \in States : Marks(k, i, x)
    BY <1>3 DEF Finishes, States
  <2> QED
    BY <2>1 DEF Keeps, Marks, Moves
<1>4. ASSUME NEW i \in DOMAIN run[k].items, Starts(k, i) PROVE Keeps
  <2> DEFINE id == run[k].items[i].id
  <2>1. /\ \A j \in Runs : j # k /\ j # id => run'[j] = run[j]
        /\ run'[k] = Marked(k, i, "child") /\ id # k
        /\ id \in Ids => run'[id].items = <<>>
    BY <1>4 DEF Starts
  <2>2. run[k].items[i] \in AnyItem /\ "child" \in States
    BY <1>0 DEF States
  <2>3. /\ DOMAIN run'[k].items = DOMAIN run[k].items
        /\ \A j \in DOMAIN run[k].items : j # i => run'[k].items[j] = run[k].items[j]
        /\ run'[k].items[i] = State(run[k].items[i], "child")
    BY <2>1, <2>2, MarkedTyped
  <2>4. \A j \in DOMAIN run[k].items : run'[k].items[j].id = run[k].items[j].id
                  /\ run'[k].items[j].call = run[k].items[j].call /\ run'[k].items[j].code = run[k].items[j].code
    BY <2>2, <2>3, StateTyped
  <2>5. id \in Runs => id \in Ids
    BY <1>4, <2>1, RunsAreLead DEF Starts
  <2> HIDE DEF id
  <2> QED
    BY <2>1, <2>3, <2>4, <2>5 DEF Keeps
<1> QED
  BY <1>1, <1>2, <1>3, <1>4 DEF Works

\* A step of run k shows only calls of run k, which have their number.
Shows(k) ==
  /\ view' \in [Ids -> {"none", "running", "finished"}]
  /\ \A o \in Ids : view'[o] # view[o] =>
       /\ parent[o] = k /\ o <= seq /\ view'[o] \in {"running", "finished"} /\ run[k].pc # "plan"
       /\ view'[o] = "running" => run[k].pc = "announce" /\ o = Item(k).id /\ Tells(k)

LEMMA WorkShows ==
  ASSUME TypeOK, Numbered, NEW k \in Runs, Works(k)
  PROVE  Shows(k)
<1>1. CASE view' = view
  BY <1>1 DEF Shows, TypeOK
<1>2. CASE Tells(k) /\ view' # view
  <2>1. More(k) /\ \/ run[k].pc = "announce" /\ Seen(Item(k).id, "running")
                   \/ run[k].pc = "collect" /\ Seen(Item(k).id, "finished")
    BY <1>2 DEF Tells
  <2>2. Owned(k, run[k].next) /\ Item(k) = Items(k)[run[k].next]
    BY <2>1, ItemTyped DEF Numbered, Items
  <2>3. CASE run[k].pc = "announce" /\ Seen(Item(k).id, "running")
    BY <1>2, <2>2, <2>3, SeenDoes DEF Shows, Owned
  <2>4. CASE run[k].pc = "collect" /\ Seen(Item(k).id, "finished")
    BY <2>2, <2>4, SeenDoes DEF Shows, Owned
  <2> QED
    BY <2>1, <2>3, <2>4
<1>3. ASSUME NEW i \in DOMAIN run[k].items, Finishes(k, i), view' # view PROVE Shows(k)
  <2>1. Seen(run[k].items[i].id, "finished") /\ run[k].pc = "execute"
    BY <1>3 DEF Finishes
  <2>2. Owned(k, i)
    BY DEF Numbered, Items
  <2> QED
    BY <2>1, <2>2, SeenDoes DEF Shows, Owned, Items
<1> QED
  BY <1>1, <1>2, <1>3 DEF Works, Goes, Starts

-----------------------------------------------------------------------------
(* The parts of the invariant                                                *)

LEMMA TypesKept ==
  ASSUME Budgeted, TypeOK, Orderly, Numbered, NEW k \in Runs, Step(k)
  PROVE  TypeOK'
<1>1. /\ budget' \in [calls : Int, output : Int, delegations : Int, usage : Nat] /\ ctx' = ctx
      /\ UNCHANGED <<sink, outcome>> /\ ((\E item \in AnyItem : Plans(k, item)) \/ (Spares /\ Works(k)))
  BY StepDoes, ClockKept
<1>2. CASE \E item \in AnyItem : Plans(k, item)
  <2>1. run' \in [Runs -> AnyRun] /\ seq' = seq + 1 /\ parent' = [parent EXCEPT ![seq + 1] = k] /\ view' = view
    BY <1>2 DEF Plans, Moves
  <2>2. parent' \in [Ids -> Runs] /\ seq' \in Nat
    <3>1. parent \in [Ids -> Runs] /\ seq \in Nat
      BY DEF TypeOK
    <3>2. [parent EXCEPT ![seq + 1] = k] \in [Ids -> Runs]
      BY <3>1
    <3> QED
      BY <2>1, <3>1, <3>2
  <2>3. view' \in [Ids -> {"none", "running", "finished"}] /\ ctx' \in {"live", "over"}
    BY <1>1, <2>1 DEF TypeOK
  <2> QED
    BY <1>1, <2>1, <2>2, <2>3 DEF TypeOK
<1>3. CASE Spares /\ Works(k)
  <2>1. run' \in [Runs -> AnyRun]
    BY <1>3 DEF Works, Goes, Tells, Finishes, Marks, Starts, Moves
  <2>2. view' \in [Ids -> {"none", "running", "finished"}]
    BY <1>3, WorkShows DEF Shows
  <2> QED
    BY <1>1, <1>3, <2>1, <2>2 DEF TypeOK, Spares
<1> QED
  BY <1>1, <1>2, <1>3

\* What is committed is not more than before, or a delegation more.
LEMMA CommittedKept ==
  ASSUME Budgeted, NEW S, S \subseteq Committed
  PROVE  IsFiniteSet(S) /\ Cardinality(S) \in Nat /\ Cardinality(Committed) \in Nat /\ Cardinality(S) <= Cardinality(Committed)
<1>1. IsFiniteSet(Committed)
  BY IdsFinite, FS_Subset DEF Committed
<1> QED
  BY <1>1, FS_Subset, FS_CardinalityType

LEMMA PlanCommits ==
  ASSUME Budgeted, TypeOK, Numbered, NEW k \in Runs, NEW item \in AnyItem, Plans(k, item)
  PROVE  Committed' \subseteq Committed \union (IF item.code = "none" /\ item.call \in Tasks THEN {seq + 1} ELSE {})
<1> DEFINE new == IF item.code = "none" /\ item.call \in Tasks THEN {seq + 1} ELSE {}
<1>1. /\ \A j \in Runs : j # k => run'[j] = run[j]
      /\ run[k].pc = "plan" /\ run'[k].items = Append(run[k].items, item)
      /\ item.state = (IF item.code = "none" THEN "ready" ELSE "done") /\ item.id = seq + 1
  BY DEF Plans, Moves
<1>2. ASSUME NEW id \in Ids, run'[id].pc # "none" PROVE run[id].pc # "none"
  BY <1>1, <1>2, LeadIsNoId
<1>3. ASSUME NEW id \in Ids, NEW i \in DOMAIN run'[Lead].items, run'[Lead].items[i].id = id,
             run'[Lead].items[i].state = "ready", run'[Lead].items[i].call \in Tasks
      PROVE  id \in Committed \union new
  <2>1. CASE run'[Lead] = run[Lead]
    BY <1>3, <2>1 DEF Committed, Items
  <2>2. CASE k = Lead
    <3>1. run[Lead].items \in Seq(AnyItem)
      BY AllTyped, LeadIsNoId
    <3>2. CASE i \in DOMAIN run[Lead].items
      <4>1. run'[Lead].items[i] = run[Lead].items[i]
        BY <1>1, <2>2, <3>1, <3>2
      <4> QED
        BY <1>3, <3>2, <4>1 DEF Committed, Items
    <3>3. CASE i \notin DOMAIN run[Lead].items
      <4>1. run'[Lead].items[i] = item
        BY <1>1, <1>3, <2>2, <3>1, <3>3
      <4> QED
        BY <1>1, <1>3, <4>1
    <3> QED
      BY <3>2, <3>3
  <2> QED
    BY <1>1, <2>1, <2>2, LeadIsNoId
<1> QED
  BY <1>2, <1>3 DEF Committed, Items

LEMMA WorkCommits ==
  ASSUME Budgeted, TypeOK, Orderly, NEW k \in Runs, Works(k)
  PROVE  Committed' \subseteq Committed
<1>0. Keeps /\ run[k].pc # "none"
  BY WorkKeeps, OnlyBusyStep
<1>1. ASSUME NEW id \in Ids, run'[id].pc # "none" PROVE id \in Committed
  <2>1. CASE run'[id] = run[id] \/ id = k
    BY <1>0, <1>1, <2>1 DEF Committed
  <2>2. CASE ~(run'[id] = run[id] \/ id = k)
    <3>1. PICK i \in DOMAIN run[k].items : Starts(k, i)
      BY <2>2, LeadIsNoId DEF Works, Goes, Tells, Finishes, Marks, Moves
    <3>2. /\ k = Lead /\ run[k].items[i].state = "ready" /\ run[k].items[i].call \in Tasks
          /\ \A j \in Runs : j # k /\ j # run[k].items[i].id => run'[j] = run[j]
      BY <3>1 DEF Starts
    <3> QED
      BY <2>2, <3>2, LeadIsNoId DEF Committed, Items
  <2> QED
    BY <2>1, <2>2
<1>2. ASSUME NEW id \in Ids, NEW i \in DOMAIN run'[Lead].items, run'[Lead].items[i].id = id,
             run'[Lead].items[i].state = "ready", run'[Lead].items[i].call \in Tasks
      PROVE  id \in Committed
  <2>1. i \in DOMAIN run[Lead].items /\ run[Lead].items[i].id = id /\ run[Lead].items[i].call \in Tasks
    BY <1>0, <1>2, LeadIsNoId DEF Keeps
  <2>2. run[Lead].items[i].state = "ready"
    <3>1. CASE run'[Lead].items = run[Lead].items
      BY <1>2, <3>1
    <3>2. ASSUME NEW m \in DOMAIN run[k].items, Finishes(k, m) PROVE run[Lead].items[i].state = "ready"
      <4>1. PICK x \in {"done", "error"} : Marks(k, m, x)
        BY <3>2 DEF Finishes
      <4> QED
        BY <1>2, <2>1, <4>1, LeadIsNoId DEF Marks, Moves
    <3>3. ASSUME NEW m \in DOMAIN run[k].items, Starts(k, m) PROVE run[Lead].items[i].state = "ready"
      <4>1. k = Lead /\ run'[k] = Marked(k, m, "child") /\ run[k].items[m].state = "ready"
        BY <3>3 DEF Starts
      <4>2. \A j \in DOMAIN run[k].items : j # m => run'[k].items[j] = run[k].items[j]
        BY <4>1, MarkedTyped DEF States
      <4> QED
        BY <1>2, <2>1, <4>1, <4>2
    <3>4. CASE Goes(k) \/ Tells(k)
      <4>1. run'[Lead].items = run[Lead].items \/ run'[Lead].items = <<>>
        BY <3>4, LeadIsNoId DEF Goes, Tells, Moves
      <4> QED
        BY <1>2, <4>1
    <3> QED
      BY <3>2, <3>3, <3>4 DEF Works
  <2> QED
    BY <2>1, <2>2 DEF Committed, Items
<1> QED
  BY <1>1, <1>2 DEF Committed, Items

LEMMA CountsKept ==
  ASSUME Budgeted, TypeOK, NEW k \in Runs, Works(k), \A j \in Runs : run[j].count <= CallsOf(j)
  PROVE  \A j \in Runs : run'[j].count <= CallsOf(j)
<1>0. \A j \in Runs : CallsOf(j) \in Nat
  BY DEF CallsOf, Budgeted
<1>1. CASE Goes(k) \/ Tells(k)
  BY <1>1 DEF Goes, Tells, Moves
<1>2. ASSUME NEW i \in DOMAIN run[k].items, Finishes(k, i) PROVE \A j \in Runs : run'[j].count <= CallsOf(j)
  BY <1>2 DEF Finishes, Marks, Moves
<1>3. ASSUME NEW i \in DOMAIN run[k].items, Starts(k, i) PROVE \A j \in Runs : run'[j].count <= CallsOf(j)
  <2> DEFINE id == run[k].items[i].id
  <2>1. /\ \A j \in Runs : j # k /\ j # id => run'[j] = run[j]
        /\ run'[k].count = run[k].count /\ id # k
        /\ id \in Ids => run'[id].count = 0
    BY <1>3, MarkedTyped DEF Starts, States
  <2>2. id \in Runs => id \in Ids
    BY <1>3, <2>1, RunsAreLead DEF Starts
  <2> QED
    BY <1>0, <2>1, <2>2
<1> QED
  BY <1>1, <1>2, <1>3 DEF Works

LEMMA SpentKept ==
  ASSUME Budgeted, TypeOK, Orderly, Numbered, Spent, NEW k \in Runs, Step(k)
  PROVE  Spent'
<1>1. (\E item \in AnyItem : Plans(k, item)) \/ (Spares /\ Works(k))
  BY StepDoes
<1>2. Cardinality(Committed) \in Nat /\ budget.delegations \in Int /\ MaxDelegations \in Nat
  BY CommittedKept DEF TypeOK, Budgeted
<1>3. ASSUME NEW item \in AnyItem, Plans(k, item) PROVE Spent'
  <2> DEFINE new == IF item.code = "none" /\ item.call \in Tasks THEN {seq + 1} ELSE {}
             S == Committed'
  <2>1. \A j \in Runs : run'[j].count <= CallsOf(j)
    <3>1. \A j \in Runs : CallsOf(j) \in Nat /\ run[j].count \in Nat
      BY AllTyped DEF CallsOf, Budgeted, AnyRun
    <3> QED
      BY <1>3, <3>1 DEF Plans, Moves, Spent
  <2>2. IsFiniteSet(Committed)
    BY CommittedKept
  <2>3. IsFiniteSet(Committed \union new)
        /\ Cardinality(Committed \union new) <= Cardinality(Committed) + (IF item.code = "none" /\ item.call \in Tasks THEN 1 ELSE 0)
    <3>1. CASE ~(item.code = "none" /\ item.call \in Tasks)
      <4>1. Committed \union new = Committed
        BY <3>1
      <4> HIDE DEF new
      <4>2. Cardinality(Committed) <= Cardinality(Committed) + 0
        BY <1>2
      <4> QED
        BY <2>2, <3>1, <4>1, <4>2
    <3>2. CASE item.code = "none" /\ item.call \in Tasks
      <4>1. new = {seq + 1}
        BY <3>2
      <4>2. IsFiniteSet(Committed \union {seq + 1})
            /\ Cardinality(Committed \union {seq + 1}) <= Cardinality(Committed) + 1
        <5> DEFINE C == Committed
                   x == seq + 1
        <5>1. IsFiniteSet(C) /\ Cardinality(C) \in Nat
          BY <1>2, <2>2
        <5> HIDE DEF C, x
        <5>2. IsFiniteSet(C \union {x}) /\ Cardinality(C \union {x}) <= Cardinality(C) + 1
          BY <5>1, FS_AddElement
        <5> QED
          BY <5>2 DEF C, x
      <4> QED
        BY <3>2, <4>1, <4>2
    <3> QED
      BY <3>1, <3>2
  <2>4. S \subseteq Committed \union new
    BY <1>3, PlanCommits
  <2> HIDE DEF S, new
  <2>5. Cardinality(S) <= Cardinality(Committed \union new) /\ Cardinality(S) \in Nat /\ Cardinality(Committed \union new) \in Nat
    BY <2>3, <2>4, FS_Subset, FS_CardinalityType
  <2>6. /\ budget'.output = budget.output /\ (budget.calls >= 0 => budget'.calls >= 0)
        /\ IF item.code = "none" /\ item.call \in Tasks
           THEN budget.delegations > 0 /\ budget'.delegations = budget.delegations - 1
           ELSE budget'.delegations = budget.delegations
    BY <1>3 DEF Plans
  <2>7. Cardinality(S) + budget'.delegations <= MaxDelegations /\ budget'.delegations >= 0
    BY <1>2, <2>3, <2>5, <2>6 DEF Spent
  <2> QED
    BY <2>1, <2>6, <2>7 DEF Spent, S, CallsOf
<1>4. CASE Spares /\ Works(k)
  <2> DEFINE S == Committed'
  <2>1. S \subseteq Committed
    BY <1>4, WorkCommits
  <2>2. \A j \in Runs : run'[j].count <= CallsOf(j)
    BY <1>4, CountsKept DEF Spent
  <2> HIDE DEF S
  <2>3. Cardinality(S) <= Cardinality(Committed) /\ Cardinality(S) \in Nat
    BY <2>1, CommittedKept
  <2>4. Cardinality(S) + budget'.delegations <= MaxDelegations
    BY <1>2, <1>4, <2>3 DEF Spent, Spares
  <2> QED
    BY <1>4, <2>2, <2>4 DEF Spent, Spares, S, CallsOf
<1> QED
  BY <1>1, <1>3, <1>4

\* What is planned is new: the calls that were there stay, with their number.
LEMMA PlanAdds ==
  ASSUME TypeOK, Numbered, NEW k \in Runs, NEW item \in AnyItem, Plans(k, item)
  PROVE  /\ \A j \in Runs : \A i \in DOMAIN run'[j].items :
              IF i \in DOMAIN run[j].items THEN run'[j].items[i] = run[j].items[i] /\ run[j].items[i].id <= seq
              ELSE j = k /\ run'[j].items[i] = item
         /\ DOMAIN run'[k].items \subseteq DOMAIN run[k].items \union {Len(run[k].items) + 1}
         /\ Len(run[k].items) + 1 \notin DOMAIN run[k].items
         /\ \A j \in Runs : run'[j].pc = run[j].pc
         /\ \A id \in Ids : id # seq + 1 => parent'[id] = parent[id]
         /\ seq + 1 \in Ids => parent'[seq + 1] = k
         /\ view' = view
<1>1. run[k].items \in Seq(AnyItem) /\ parent \in [Ids -> Runs]
  BY AllTyped DEF TypeOK
<1>2. /\ \A j \in Runs : j # k => run'[j] = run[j]
      /\ run'[k].items = Append(run[k].items, item) /\ run[k].pc = "plan" /\ run'[k].pc = "plan"
      /\ parent' = [parent EXCEPT ![seq + 1] = k] /\ view' = view
  BY DEF Plans, Moves
<1>3. \A j \in Runs : \A i \in DOMAIN run[j].items : run[j].items[i].id <= seq
  BY DEF Numbered, Owned, Items
<1>4. \A i \in DOMAIN run'[k].items :
        IF i \in DOMAIN run[k].items THEN run'[k].items[i] = run[k].items[i] ELSE run'[k].items[i] = item
  BY <1>1, <1>2
<1>5. DOMAIN run'[k].items \subseteq DOMAIN run[k].items \union {Len(run[k].items) + 1}
      /\ Len(run[k].items) + 1 \notin DOMAIN run[k].items
  BY <1>1, <1>2
<1>6. \A id \in Ids : id # seq + 1 => parent'[id] = parent[id]
  BY <1>1, <1>2
<1>7. seq + 1 \in Ids => parent'[seq + 1] = k
  BY <1>1, <1>2
<1> QED
  BY <1>2, <1>3, <1>4, <1>5, <1>6, <1>7

LEMMA IdsAreNumbers ==
  ASSUME TypeOK, NEW j \in Runs, NEW i \in DOMAIN run[j].items
  PROVE  run[j].items[i] \in AnyItem /\ run[j].items[i].id \in Nat
<1>1. run[j].items[i] \in AnyItem
  BY AllTyped
<1> QED
  BY <1>1 DEF AnyItem

\* The run that a delegation starts is one of those the lead agent planned.
LEMMA WorkWakes ==
  ASSUME Budgeted, TypeOK, NEW k \in Runs, Works(k)
  PROVE  \A id \in Ids : run'[id].pc # "none" =>
           \/ run[id].pc # "none"
           \/ \E i \in DOMAIN run[Lead].items : k = Lead /\ run[Lead].items[i].id = id /\ Starts(k, i)
<1>1. SUFFICES ASSUME NEW id \in Ids, run'[id].pc # "none", run[id].pc = "none"
               PROVE  \E i \in DOMAIN run[Lead].items : k = Lead /\ run[Lead].items[i].id = id /\ Starts(k, i)
  OBVIOUS
<1>2. id # k
  BY <1>1, OnlyBusyStep
<1>3. PICK i \in DOMAIN run[k].items : Starts(k, i)
  BY <1>1, <1>2, LeadIsNoId DEF Works, Goes, Tells, Finishes, Marks, Moves
<1> QED
  BY <1>1, <1>2, <1>3, LeadIsNoId DEF Starts

LEMMA NumberedKept ==
  ASSUME Budgeted, TypeOK, Orderly, Numbered, NEW k \in Runs, Step(k)
  PROVE  Numbered'
<1>1. (\E item \in AnyItem : Plans(k, item)) \/ (Spares /\ Works(k))
  BY StepDoes
<1>2. seq \in Nat
  BY DEF TypeOK
<1>3. ASSUME NEW item \in AnyItem, Plans(k, item) PROVE Numbered'
  <2>0. item.id = seq + 1 /\ seq' = seq + 1
    BY <1>3 DEF Plans
  <2>1. ASSUME NEW j \in Runs, NEW i \in DOMAIN run'[j].items
        PROVE  run'[j].items[i].id <= seq' /\ (run'[j].items[i].id \in Ids => parent'[run'[j].items[i].id] = j)
    <3>1. CASE i \in DOMAIN run[j].items
      <4>1. run'[j].items[i] = run[j].items[i] /\ run[j].items[i].id <= seq /\ run[j].items[i].id \in Nat
        BY <1>3, <3>1, PlanAdds, IdsAreNumbers
      <4>2. run[j].items[i].id \in Ids => parent[run[j].items[i].id] = j
        BY <3>1 DEF Numbered, Owned, Items
      <4> QED
        BY <1>2, <1>3, <2>0, <4>1, <4>2, PlanAdds
    <3>2. CASE i \notin DOMAIN run[j].items
      BY <1>2, <1>3, <2>0, <3>2, PlanAdds
    <3> QED
      BY <3>1, <3>2
  <2>2. ASSUME NEW j \in Runs, NEW i \in DOMAIN run'[j].items, NEW m \in DOMAIN run'[j].items, i # m
        PROVE  run'[j].items[i].id # run'[j].items[m].id
    <3>1. CASE i \in DOMAIN run[j].items /\ m \in DOMAIN run[j].items
      BY <1>3, <2>2, <3>1, PlanAdds DEF Numbered, Items
    <3>2. CASE ~(i \in DOMAIN run[j].items /\ m \in DOMAIN run[j].items)
      <4>1. j = k
        BY <1>3, <3>2, PlanAdds
      <4>2. i \in DOMAIN run[j].items \/ m \in DOMAIN run[j].items
        BY <1>3, <2>2, <4>1, PlanAdds
      <4> QED
        BY <1>2, <1>3, <2>0, <3>2, <4>2, PlanAdds, IdsAreNumbers
    <3> QED
      BY <3>1, <3>2
  <2>3. \A id \in Ids : id \in Nat /\ (run'[id].pc # "none" => id <= seq') /\ (view'[id] # "none" => id <= seq')
    BY <1>2, <1>3, <2>0, PlanAdds, LeadIsNoId DEF Numbered
  <2> QED
    BY <2>1, <2>2, <2>3 DEF Numbered, Owned, Items
<1>4. CASE Spares /\ Works(k)
  <2>1. Keeps /\ Shows(k) /\ seq' = seq /\ parent' = parent
    BY <1>4, WorkKeeps, WorkShows DEF Spares
  <2>2. \A j \in Runs : \A i \in DOMAIN run'[j].items :
           run'[j].items[i].id <= seq' /\ (run'[j].items[i].id \in Ids => parent'[run'[j].items[i].id] = j)
    BY <2>1 DEF Keeps, Numbered, Owned, Items
  <2>3. \A j \in Runs : \A i, m \in DOMAIN run'[j].items : i # m => run'[j].items[i].id # run'[j].items[m].id
    BY <2>1 DEF Keeps, Numbered, Items
  <2>4. \A id \in Ids : run'[id].pc # "none" => id <= seq'
    BY <1>4, <2>1, WorkWakes, LeadIsNoId DEF Numbered, Owned, Items
  <2>5. \A id \in Ids : view'[id] # "none" => id <= seq'
    BY <2>1 DEF Shows, Numbered
  <2> QED
    BY <2>2, <2>3, <2>4, <2>5 DEF Numbered, Owned, Items
<1> QED
  BY <1>1, <1>3, <1>4

\* Where the state of a call comes from.
LEMMA WorkStates ==
  ASSUME TypeOK, NEW k \in Runs, Works(k), NEW j \in Runs, NEW i \in DOMAIN run'[j].items
  PROVE  /\ i \in DOMAIN run[j].items
         /\ \/ run'[j].items[i].state = run[j].items[i].state
            \/ j = k /\ Finishes(k, i) /\ run'[j].items[i].state \in {"done", "error"} /\ run'[j].pc = run[j].pc
            \/ j = k /\ Starts(k, i) /\ run'[j].items[i].state = "child" /\ run'[j].pc = run[j].pc
<1>0. i \in DOMAIN run[j].items /\ run[j].items \in Seq(AnyItem)
  BY WorkKeeps, AllTyped DEF Keeps
<1>1. CASE Goes(k) \/ Tells(k)
  BY <1>0, <1>1 DEF Goes, Tells, Moves
<1>2. ASSUME NEW m \in DOMAIN run[k].items, Finishes(k, m)
      PROVE  \/ run'[j].items[i].state = run[j].items[i].state
             \/ j = k /\ Finishes(k, i) /\ run'[j].items[i].state \in {"done", "error"} /\ run'[j].pc = run[j].pc
  <2>1. PICK x \in {"done", "error"} : Marks(k, m, x)
    BY <1>2 DEF Finishes
  <2> QED
    BY <1>0, <1>2, <2>1 DEF Marks, Moves
<1>3. ASSUME NEW m \in DOMAIN run[k].items, Starts(k, m)
      PROVE  \/ run'[j].items[i].state = run[j].items[i].state
             \/ j = k /\ Starts(k, i) /\ run'[j].items[i].state = "child" /\ run'[j].pc = run[j].pc
  <2> DEFINE id == run[k].items[m].id
  <2>1. /\ \A o \in Runs : o # k /\ o # id => run'[o] = run[o]
        /\ run'[k] = Marked(k, m, "child") /\ id # k
        /\ id \in Ids => run'[id].items = <<>>
    BY <1>3 DEF Starts
  <2>2. run[k].items[m] \in AnyItem /\ "child" \in States
    BY IdsAreNumbers DEF States
  <2>3. /\ \A o \in DOMAIN run[k].items : o # m => run'[k].items[o] = run[k].items[o]
        /\ run'[k].items[m] = State(run[k].items[m], "child") /\ run'[k].pc = run[k].pc
    BY <2>1, <2>2, MarkedTyped
  <2>4. run'[k].items[m].state = "child"
    BY <2>2, <2>3, StateTyped
  <2>5. id \in Runs => id \in Ids
    BY <1>3, <2>1, RunsAreLead DEF Starts
  <2> HIDE DEF id
  <2> QED
    BY <1>0, <1>3, <2>1, <2>3, <2>4, <2>5
<1> QED
  BY <1>0, <1>1, <1>2, <1>3 DEF Works

\* Where the program counter of a run comes from.
LEMMA WorkMoves ==
  ASSUME Budgeted, TypeOK, NEW k \in Runs, Works(k), NEW j \in Runs
  PROVE  \/ run'[j].pc = run[j].pc
         \/ j = k /\ Goes(k)
         \/ j \in Ids /\ run'[j].items = <<>> /\ run'[j].pc = "round"
            /\ \E i \in DOMAIN run[k].items : Starts(k, i) /\ run[k].items[i].id = j
<1>1. CASE Goes(k) \/ Tells(k)
  BY <1>1 DEF Goes, Tells, Moves
<1>2. ASSUME NEW m \in DOMAIN run[k].items, Finishes(k, m) PROVE run'[j].pc = run[j].pc
  BY <1>2 DEF Finishes, Marks, Moves
<1>3. ASSUME NEW m \in DOMAIN run[k].items, Starts(k, m)
      PROVE  \/ run'[j].pc = run[j].pc
             \/ j \in Ids /\ run'[j].items = <<>> /\ run'[j].pc = "round" /\ run[k].items[m].id = j
  <2> DEFINE id == run[k].items[m].id
  <2>1. /\ \A o \in Runs : o # k /\ o # id => run'[o] = run[o]
        /\ run'[k].pc = run[k].pc /\ id # k
        /\ id \in Ids => run'[id].items = <<>> /\ run'[id].pc = "round"
    BY <1>3, MarkedTyped DEF Starts, States
  <2>2. id \in Runs => id \in Ids
    BY <1>3, <2>1, RunsAreLead DEF Starts
  <2> QED
    BY <2>1, <2>2
<1> QED
  BY <1>1, <1>2, <1>3 DEF Works

\* A specialist's call names a run of its own.
LEMMA OneOwner ==
  ASSUME Numbered, NEW j \in Runs, NEW i \in DOMAIN run[j].items, NEW o \in Runs, NEW m \in DOMAIN run[o].items,
         run[j].items[i].id = run[o].items[m].id, run[j].items[i].id \in Ids
  PROVE  j = o /\ i = m
BY DEF Numbered, Owned, Items

LEMMA OrderlyKept ==
  ASSUME Budgeted, TypeOK, Orderly, Numbered, NEW k \in Runs, Step(k)
  PROVE  Orderly'
<1>1. (\E item \in AnyItem : Plans(k, item)) \/ (Spares /\ Works(k))
  BY StepDoes
<1>2. \A j \in Runs : \A i \in DOMAIN run[j].items : Proper(j, i)
  BY DEF Orderly, Items
<1>3. ASSUME NEW item \in AnyItem, Plans(k, item), NEW j \in Runs, NEW i \in DOMAIN run'[j].items
      PROVE  Proper(j, i)'
  <2>1. CASE i \in DOMAIN run[j].items
    <3>1. run'[j].items[i] = run[j].items[i] /\ \A o \in Runs : run'[o].pc = run[o].pc
      BY <1>3, <2>1, PlanAdds
    <3>2. Proper(j, i)
      BY <1>2, <2>1
    <3> QED
      BY <3>1, <3>2, LeadIsNoId DEF Proper, Items
  <2>2. CASE i \notin DOMAIN run[j].items
    <3>1. j = k /\ run'[j].items[i] = item /\ item.id = seq + 1 /\ \A o \in Runs : run'[o].pc = run[o].pc
      <4>1. item.id = seq + 1
        BY <1>3 DEF Plans
      <4> QED
        BY <1>3, <2>2, <4>1, PlanAdds
    <3>2. item.state = (IF item.code = "none" THEN "ready" ELSE "done") /\ (item.code = "none" /\ item.call \in Tasks => k = Lead)
      BY <1>3 DEF Plans
    <3>3. item.id \in Ids => run'[item.id].pc = "none"
      BY <3>1, LeadIsNoId DEF Numbered, TypeOK
    <3> QED
      BY <3>1, <3>2, <3>3 DEF Proper, Items
  <2> QED
    BY <2>1, <2>2
<1>4. ASSUME Works(k), NEW j \in Runs, NEW i \in DOMAIN run'[j].items
      PROVE  Proper(j, i)'
  <2> DEFINE old == run[j].items[i]
             new == run'[j].items[i]
  <2>1. i \in DOMAIN run[j].items /\ new.id = old.id /\ new.call = old.call /\ new.code = old.code
    BY <1>4, WorkKeeps DEF Keeps
  <2>2. Proper(j, i)
    BY <1>2, <2>1
  <2>3. \/ new.state = old.state
        \/ j = k /\ Finishes(k, i) /\ new.state \in {"done", "error"} /\ run'[j].pc = run[j].pc
        \/ j = k /\ Starts(k, i) /\ new.state = "child" /\ run'[j].pc = run[j].pc
    BY <1>4, WorkStates
  <2>4. new.code # "none" => new.state = "done"
    BY <2>1, <2>2, <2>3 DEF Proper, Items, Finishes, Starts
  <2>5. new.state = "ready" /\ new.call \in Tasks => j = Lead /\ (new.id \in Ids => run'[new.id].pc = "none")
    <3>1. SUFFICES ASSUME new.state = "ready", new.call \in Tasks
                   PROVE  j = Lead /\ (new.id \in Ids => run'[new.id].pc = "none")
      OBVIOUS
    <3>2. old.state = "ready" /\ j = Lead /\ (old.id \in Ids => run[old.id].pc = "none")
      BY <2>1, <2>2, <2>3, <3>1 DEF Proper, Items
    <3>3. ASSUME new.id \in Ids, run'[new.id].pc # "none" PROVE FALSE
      <4>1. PICK m \in DOMAIN run[Lead].items : k = Lead /\ run[Lead].items[m].id = new.id /\ Starts(k, m)
        BY <1>4, <2>1, <3>2, <3>3, WorkWakes
      <4>2. m = i
        BY <2>1, <3>2, <3>3, <4>1, OneOwner
      <4>3. "child" \in States /\ run'[k] = Marked(k, m, "child") /\ m \in DOMAIN run[k].items
        BY <4>1 DEF Starts, States
      <4>4. Marked(k, m, "child").items[m] = State(run[k].items[m], "child")
        BY <4>3, MarkedTyped
      <4>5. new.state = "child"
        BY <3>2, <4>1, <4>2, <4>3, <4>4, IdsAreNumbers, StateTyped
      <4> QED
        BY <3>1, <4>5
    <3> QED
      BY <3>2, <3>3
  <2>6. new.state = "child" => j = Lead /\ run'[j].pc = "execute"
    <3>1. CASE new.state = old.state
      <4>1. SUFFICES ASSUME new.state = "child" PROVE j = Lead /\ run'[j].pc = "execute"
        OBVIOUS
      <4>2. j = Lead /\ run[j].pc = "execute" /\ old.state = "child"
        BY <2>2, <3>1, <4>1 DEF Proper, Items
      <4>3. ~(j = k /\ Goes(k))
        BY <1>4, <2>1, <4>2 DEF Goes
      <4> QED
        BY <1>4, <4>2, <4>3, WorkMoves, LeadIsNoId
    <3>2. CASE j = k /\ Starts(k, i) /\ run'[j].pc = run[j].pc
      BY <3>2 DEF Starts
    <3> QED
      BY <2>3, <3>1, <3>2
  <2>7. run'[j].pc \in {"plan", "announce"} /\ new.code = "none" => new.state = "ready"
    <3>1. SUFFICES ASSUME run'[j].pc \in {"plan", "announce"}, new.code = "none" PROVE new.state = "ready"
      OBVIOUS
    <3>2. CASE run[j].pc \in {"plan", "announce"}
      BY <2>1, <2>2, <2>3, <3>1, <3>2 DEF Proper, Items, Finishes, Starts
    <3>3. CASE run[j].pc \notin {"plan", "announce"}
      <4>1. j = k /\ Goes(k)
        BY <1>4, <3>1, <3>3, WorkMoves
      <4>2. run'[k].items = <<>>
        BY <3>1, <3>3, <4>1 DEF Goes
      <4> QED
        BY <1>4, <4>1, <4>2
    <3> QED
      BY <3>2, <3>3
  <2> QED
    BY <2>4, <2>5, <2>6, <2>7 DEF Proper, Items
<1> QED
  BY <1>1, <1>3, <1>4 DEF Orderly, Items

\* Once it is shown, a call stays shown.
LEMMA StaysShown ==
  ASSUME TypeOK, NEW k \in Runs, Shows(k) \/ view' = view, NEW o \in Ids, view[o] # "none"
  PROVE  view'[o] # "none"
BY DEF Shows

\* A call that is over is not shown to run again.
LEMMA StaysFinished ==
  ASSUME Budgeted, TypeOK, Numbered, NEW k \in Runs, Works(k),
         NEW j \in Runs, NEW i \in DOMAIN run[j].items, run[j].items[i].id \in Ids,
         run[j].pc = "execute", view[run[j].items[i].id] = "finished"
  PROVE  view'[run[j].items[i].id] = "finished"
<1> DEFINE o == run[j].items[i].id
<1>1. Shows(k) /\ view \in [Ids -> {"none", "running", "finished"}]
  BY WorkShows DEF TypeOK
<1>2. parent[o] = j
  BY DEF Numbered, Owned, Items
<1>3. view'[o] # "running"
  BY <1>1, <1>2 DEF Shows
<1> QED
  BY <1>1, <1>3 DEF Shows

LEMMA AnnouncedKept ==
  ASSUME Budgeted, TypeOK, Orderly, Numbered, Announced, NEW k \in Runs, Step(k)
  PROVE  Announced'
<1>1. ((\E item \in AnyItem : Plans(k, item)) \/ (Spares /\ Works(k))) /\ (Delivers' <=> Delivers)
  BY StepDoes DEF Delivers
<1>2. \A j \in Runs : \A i \in DOMAIN run[j].items : Told(j, i) /\ Proper(j, i)
  BY DEF Announced, Orderly, Items
<1>3. ASSUME NEW item \in AnyItem, Plans(k, item) PROVE Announced'
  <2>1. ASSUME NEW j \in Runs, NEW i \in DOMAIN run'[j].items PROVE Told(j, i)'
    <3>1. CASE j = k
      BY <1>3, <3>1 DEF Told, Plans, Items
    <3>2. CASE j # k
      <4>1. run'[j] = run[j] /\ view' = view
        BY <1>3, <3>2 DEF Plans, Moves
      <4> QED
        BY <1>1, <1>2, <2>1, <4>1 DEF Told, Items
    <3> QED
      BY <3>1, <3>2
  <2>2. \A o \in Ids : run'[o].pc # "none" => view'[o] # "none"
    BY <1>3, PlanAdds, LeadIsNoId DEF Announced
  <2> QED
    BY <2>1, <2>2 DEF Announced, Items
<1>4. ASSUME Works(k), NEW j \in Runs, NEW i \in DOMAIN run'[j].items PROVE Told(j, i)'
  <2> DEFINE old == run[j].items[i]
             new == run'[j].items[i]
  <2>1. i \in DOMAIN run[j].items /\ new.id = old.id /\ new.call = old.call /\ new.code = old.code
    BY <1>4, WorkKeeps DEF Keeps
  <2>2. Told(j, i) /\ Proper(j, i) /\ Shows(k)
    BY <1>2, <1>4, <2>1, WorkShows
  <2>3. run[j].items \in Seq(AnyItem) /\ run[j] \in AnyRun
    BY AllTyped
  <2>4. ASSUME new.id \in Ids, run'[j].pc \in {"execute", "collect"} \/ (run'[j].pc = "announce" /\ i < run'[j].next)
        PROVE  view'[new.id] # "none"
    <3>1. CASE view[new.id] # "none"
      BY <2>2, <2>4, <3>1, StaysShown
    <3>2. CASE ~(run[j].pc \in {"execute", "collect"} \/ (run[j].pc = "announce" /\ i < run[j].next))
      <4>1. CASE j = k /\ Goes(k)
        <5>1. \/ run[k].pc = "announce" /\ run'[k].pc = "execute" /\ ~More(k)
              \/ run'[k].pc = "announce" /\ run'[k].next = 1
          BY <2>4, <3>2, <4>1 DEF Goes
        <5> QED
          BY <2>1, <2>3, <2>4, <3>2, <4>1, <5>1 DEF More, AnyRun
      <4>2. CASE j = k /\ Tells(k)
        <5>1. run[k].pc = "announce" /\ run'[k].pc = "announce" /\ run'[k].next = run[k].next + 1 /\ Delivers
              /\ Seen(Item(k).id, "running") /\ More(k)
          BY <2>4, <3>2, <4>2 DEF Tells
        <5>2. i = run[k].next /\ Item(k) = old
          <6>1. i \in Nat /\ run[k].next \in Nat
            BY <2>1, <4>2, AllTyped DEF AnyRun
          <6>2. i < run[k].next + 1 /\ ~(i < run[k].next)
            BY <2>4, <3>2, <4>2, <5>1
          <6>3. i = run[k].next
            BY <6>1, <6>2
          <6> QED
            BY <4>2, <5>1, <6>3, ItemTyped
        <5>3. new.id = Item(k).id
          BY <2>1, <5>2
        <5>4. view'[Item(k).id] = "running"
          BY <2>4, <5>1, <5>3, SeenDoes
        <5> QED
          BY <5>3, <5>4
      <4>3. CASE ~(j = k /\ (Goes(k) \/ Tells(k)))
        <5>1. run'[j].pc = run[j].pc /\ run'[j].next = run[j].next
          <6>1. CASE Goes(k) \/ Tells(k)
            BY <4>3, <6>1 DEF Goes, Tells, Moves
          <6>2. ASSUME NEW m \in DOMAIN run[k].items, Finishes(k, m)
                PROVE  run'[j].pc = run[j].pc /\ run'[j].next = run[j].next
            BY <6>2 DEF Finishes, Marks, Moves
          <6>3. ASSUME NEW m \in DOMAIN run[k].items, Starts(k, m)
                PROVE  run'[j].pc = run[j].pc /\ run'[j].next = run[j].next
            <7>1. /\ \A o \in Runs : o # k /\ o # run[k].items[m].id => run'[o] = run[o]
                  /\ run'[k].pc = run[k].pc /\ run'[k].next = run[k].next
              BY <6>3, MarkedTyped DEF Starts, States
            <7>2. j # run[k].items[m].id
              BY <1>4, <6>3, RunsAreLead DEF Starts
            <7> QED
              BY <7>1, <7>2
          <6> QED
            BY <1>4, <6>1, <6>2, <6>3 DEF Works
        <5> QED
          BY <2>4, <3>2, <5>1
      <4> QED
        BY <4>1, <4>2, <4>3
    <3> QED
      BY <2>1, <2>2, <2>4, <3>1, <3>2 DEF Told, Items
  <2>5. ASSUME new.id \in Ids, run'[j].pc = "execute", Delivers, new.code = "none", new.state = "done"
        PROVE  view'[new.id] = "finished"
    <3>1. CASE new.state = old.state
      <4>1. run[j].pc = "execute"
        <5>1. CASE run'[j].pc = run[j].pc
          BY <2>5, <5>1
        <5>2. CASE j = k /\ Goes(k)
          <6>1. run[k].pc = "announce"
            BY <2>5, <5>2 DEF Goes
          <6> QED
            BY <2>1, <2>2, <2>5, <3>1, <5>2, <6>1 DEF Proper, Items
        <5> QED
          BY <1>4, <2>5, <5>1, <5>2, WorkMoves
      <4>2. view[old.id] = "finished"
        BY <2>1, <2>2, <2>5, <3>1, <4>1 DEF Told, Items
      <4> QED
        BY <1>4, <2>1, <2>5, <4>1, <4>2, StaysFinished
    <3>2. CASE j = k /\ Finishes(k, i)
      <4>1. Marks(k, i, "error") \/ Seen(old.id, "finished")
        BY <3>2 DEF Finishes
      <4>2. Seen(old.id, "finished")
        BY <2>5, <3>2, <4>1 DEF Marks
      <4> QED
        BY <2>1, <2>5, <4>2, SeenDoes
    <3> QED
      BY <1>4, <2>5, <3>1, <3>2, WorkStates
  <2> QED
    BY <1>1, <2>4, <2>5 DEF Told, Items
<1>5. ASSUME Works(k), NEW o \in Ids, run'[o].pc # "none" PROVE view'[o] # "none"
  <2>1. view[o] # "none"
    <3>1. CASE run[o].pc # "none"
      BY <3>1 DEF Announced
    <3>2. ASSUME NEW i \in DOMAIN run[Lead].items, k = Lead, run[Lead].items[i].id = o, Starts(k, i)
          PROVE  view[o] # "none"
      BY <1>2, <3>2, LeadIsNoId DEF Told, Items, Starts
    <3> QED
      BY <1>5, <3>1, <3>2, WorkWakes
  <2> QED
    BY <1>5, <2>1, WorkShows, StaysShown
<1> QED
  BY <1>1, <1>3, <1>4, <1>5 DEF Announced, Items

LEMMA RunningKept ==
  ASSUME Budgeted, TypeOK, Orderly, Numbered, Announced, Running, NEW k \in Runs, Step(k)
  PROVE  Running'
<1>1. ((\E item \in AnyItem : Plans(k, item)) \/ (Spares /\ Works(k))) /\ (Delivers' <=> Delivers)
  BY StepDoes DEF Delivers
<1>2. SUFFICES ASSUME Delivers, NEW id \in Ids, view'[id] = "running" PROVE Ends(parent[id], id)'
  BY <1>1 DEF Running
<1> DEFINE p == parent[id]
<1>3. p \in Runs /\ id \in Nat /\ seq \in Nat
  BY LeadIsNoId DEF TypeOK
<1>4. ASSUME NEW item \in AnyItem, Plans(k, item) PROVE Ends(parent[id], id)'
  <2>1. view[id] = "running" /\ id <= seq /\ parent'[id] = p
    BY <1>2, <1>3, <1>4, PlanAdds DEF Numbered
  <2>2. Ends(p, id)
    BY <1>2, <2>1 DEF Running
  <2>3. p # k /\ run'[p] = run[p]
    BY <1>3, <1>4, <2>2 DEF Ends, Plans, Moves
  <2> QED
    BY <2>1, <2>2, <2>3 DEF Ends, Items
<1>5. CASE Spares /\ Works(k)
  <2>1. parent'[id] = p /\ Shows(k)
    BY <1>5, WorkShows DEF Spares
  <2>2. CASE view[id] # "running"
    <3>1. p = k /\ run[k].pc = "announce" /\ id = Item(k).id /\ Tells(k)
      BY <1>2, <2>1, <2>2 DEF Shows
    <3>2. run'[k].pc = "announce" /\ run'[k].items = run[k].items /\ More(k)
      BY <3>1 DEF Tells
    <3>3. run[k].next \in DOMAIN run'[k].items /\ run'[k].items[run[k].next].id = id
      BY <3>1, <3>2, ItemTyped
    <3> QED
      BY <2>1, <3>1, <3>2, <3>3 DEF Ends, Items
  <2>3. CASE view[id] = "running"
    <3>1. Ends(p, id)
      BY <1>2, <2>3 DEF Running
    <3>2. CASE Goes(k) /\ p = k
      <4>1. run[k].pc \in {"announce", "execute", "collect"} /\ run[k].items \in Seq(AnyItem) /\ run[k] \in AnyRun
        BY <3>1, <3>2, AllTyped DEF Ends, Goes
      <4>2. PICK i \in DOMAIN run[k].items :
              run[k].items[i].id = id /\ (run[k].pc = "collect" => run[k].items[i].code # "none" /\ i >= run[k].next)
        BY <3>1, <3>2, <4>1 DEF Ends, Items
      <4>3. CASE run[k].pc = "announce" /\ run'[k].pc = "execute" /\ run'[k].items = run[k].items
        BY <2>1, <3>2, <4>2, <4>3 DEF Ends, Items
      <4>4. CASE run'[k].pc = "failed"
        BY <2>1, <3>2, <4>4 DEF Ends
      <4>5. CASE run[k].pc = "execute" /\ run'[k].pc = "collect"
        <5>1. run'[k].items = run[k].items /\ run'[k].next = 1 /\ run[k].items[i].state = "done"
          BY <3>2, <4>2, <4>5 DEF Goes
        <5>2. Told(k, i)
          BY <4>2 DEF Announced, Items
        <5>3. run[k].items[i].code # "none"
          BY <1>2, <2>3, <4>2, <4>5, <5>1, <5>2 DEF Told, Items
        <5>4. i >= 1
          BY <4>1, <4>2
        <5> QED
          BY <2>1, <3>2, <4>2, <4>5, <5>1, <5>3, <5>4 DEF Ends, Items
      <4>6. CASE run[k].pc = "collect" /\ ~More(k)
        BY <4>1, <4>2, <4>6 DEF More, AnyRun
      <4> QED
        BY <3>2, <4>1, <4>3, <4>4, <4>5, <4>6 DEF Goes
    <3>3. CASE Tells(k) /\ p = k
      <4>1. run[k].pc \in {"announce", "collect"} /\ run[k].items \in Seq(AnyItem) /\ run[k] \in AnyRun
            /\ run'[k].pc = run[k].pc /\ run'[k].items = run[k].items /\ run'[k].next = run[k].next + 1
        BY <3>3, AllTyped DEF Tells
      <4>2. PICK i \in DOMAIN run[k].items :
              run[k].items[i].id = id /\ (run[k].pc = "collect" => run[k].items[i].code # "none" /\ i >= run[k].next)
        BY <3>1, <3>3, <4>1 DEF Ends, Items
      <4>3. CASE run[k].pc = "announce"
        BY <2>1, <3>3, <4>1, <4>2, <4>3 DEF Ends, Items
      <4>4. CASE run[k].pc = "collect"
        <5>1. i # run[k].next
          <6>1. SUFFICES ASSUME i = run[k].next PROVE FALSE
            OBVIOUS
          <6>2. Item(k) = run[k].items[i]
            BY <6>1 DEF Item
          <6>3. Seen(id, "finished")
            BY <3>3, <4>2, <4>4, <6>2 DEF Tells
          <6> QED
            BY <1>2, <6>3, SeenDoes
        <5>2. i >= run[k].next + 1
          BY <4>1, <4>2, <4>4, <5>1 DEF AnyRun
        <5> QED
          BY <2>1, <3>3, <4>1, <4>2, <4>4, <5>2 DEF Ends, Items
      <4> QED
        BY <4>1, <4>3, <4>4
    <3>4. ASSUME NEW m \in DOMAIN run[k].items, Finishes(k, m), p = k PROVE Ends(parent[id], id)'
      <4>1. run[k].pc = "execute" /\ run'[k].pc = "execute" /\ DOMAIN run'[k].items = DOMAIN run[k].items
            /\ \A i \in DOMAIN run[k].items : run'[k].items[i].id = run[k].items[i].id
        BY <3>4 DEF Finishes, Marks
      <4> QED
        BY <2>1, <3>1, <3>4, <4>1 DEF Ends, Items
    <3>5. ASSUME NEW m \in DOMAIN run[k].items, Starts(k, m), p = k PROVE Ends(parent[id], id)'
      <4>1. run[k].pc = "execute" /\ run'[k].pc = "execute" /\ DOMAIN run'[k].items = DOMAIN run[k].items
        BY <3>5, MarkedTyped DEF Starts, States
      <4>2. \A i \in DOMAIN run[k].items : run'[k].items[i].id = run[k].items[i].id
        BY <1>5, <4>1, WorkKeeps DEF Keeps
      <4> QED
        BY <2>1, <3>1, <3>5, <4>1, <4>2 DEF Ends, Items
    <3>6. CASE p # k
      <4>1. run'[p] = run[p]
        <5>1. CASE \A j \in Runs : j # k => run'[j] = run[j]
          BY <1>3, <3>6, <5>1
        <5>2. ASSUME NEW m \in DOMAIN run[k].items, Starts(k, m) PROVE run'[p] = run[p]
          <6>1. \A j \in Runs : j # k /\ j # run[k].items[m].id => run'[j] = run[j]
            BY <5>2 DEF Starts
          <6>2. Proper(k, m) /\ run[k].items[m].state = "ready" /\ run[k].items[m].call \in Tasks /\ k = Lead
            BY <5>2 DEF Orderly, Items, Starts
          <6>3. p # run[k].items[m].id
            BY <1>3, <3>1, <3>6, <6>2, RunsAreLead DEF Proper, Items, Ends
          <6> QED
            BY <1>3, <3>6, <6>1, <6>3
        <5> QED
          BY <1>5, <5>1, <5>2 DEF Works, Goes, Tells, Finishes, Marks, Moves
      <4> QED
        BY <2>1, <3>1, <4>1 DEF Ends, Items
    <3> QED
      BY <1>5, <3>2, <3>3, <3>4, <3>5, <3>6 DEF Works
  <2> QED
    BY <2>2, <2>3
<1> QED
  BY <1>1, <1>4, <1>5

\* While a specialist works, the lead agent executes its calls.
LEMMA LeadWaits ==
  ASSUME Budgeted, TypeOK, Orderly, Awaited, NEW j \in Ids, Active(j)
  PROVE  run[Lead].pc = "execute" /\ \E i \in DOMAIN run[Lead].items : run[Lead].items[i].id = j /\ run[Lead].items[i].state = "child"
BY LeadIsNoId DEF Awaited, Orderly, Proper, Items

LEMMA AwaitedKept ==
  ASSUME Budgeted, TypeOK, Orderly, Numbered, Awaited, NEW k \in Runs, Step(k)
  PROVE  Awaited'
<1>1. ((\E item \in AnyItem : Plans(k, item)) \/ (Spares /\ Works(k))) /\ outcome' = outcome
  BY StepDoes
<1>2. Active(k)
  BY <1>1, OnlyBusyStep DEF Active
<1>3. outcome' = "none"
  BY <1>1, <1>2, LeadWaits, RunsAreLead DEF Awaited, Active
<1>4. ASSUME NEW j \in Ids, run'[j].pc \notin {"none", "answered", "failed"}
      PROVE  \E i \in DOMAIN run'[Lead].items : run'[Lead].items[i].id = j /\ run'[Lead].items[i].state = "child"
  <2>1. CASE ~Active(j)
    <3>1. j # k
      BY <1>2, <2>1
    <3>2. PICK i \in DOMAIN run[k].items : Starts(k, i) /\ run[k].items[i].id = j
      <4>1. run'[j].pc # run[j].pc
        BY <1>4, <2>1 DEF Active
      <4>2. Works(k)
        BY <1>1, <4>1, PlanAdds, LeadIsNoId
      <4> QED
        BY <3>1, <4>1, <4>2, WorkMoves, LeadIsNoId
    <3>3. k = Lead /\ run'[k] = Marked(k, i, "child") /\ "child" \in States
      BY <3>2 DEF Starts, States
    <3>4. i \in DOMAIN run'[k].items /\ run'[k].items[i] = State(run[k].items[i], "child")
      BY <3>3, MarkedTyped
    <3>5. run'[k].items[i].id = j /\ run'[k].items[i].state = "child"
      BY <3>2, <3>3, <3>4, IdsAreNumbers, StateTyped
    <3> QED
      BY <3>3, <3>4, <3>5
  <2>2. CASE Active(j)
    <3>1. PICK i \in DOMAIN run[Lead].items : run[Lead].items[i].id = j /\ run[Lead].items[i].state = "child"
      BY <2>2, LeadWaits
    <3>2. run[Lead].pc = "execute"
      BY <2>2, LeadWaits
    <3>3. CASE run'[Lead] = run[Lead]
      BY <3>1, <3>3
    <3>4. CASE k = Lead
      <4>1. Works(k)
        BY <1>1, <3>2, <3>4 DEF Plans
      <4>2. ~Goes(k) /\ ~Tells(k)
        BY <3>1, <3>2, <3>4 DEF Goes, Tells
      <4>3. ASSUME NEW m \in DOMAIN run[k].items, Finishes(k, m)
            PROVE  i \in DOMAIN run'[k].items /\ run'[k].items[i] = run[k].items[i]
        <5>1. m # i
          BY <2>2, <3>1, <3>4, <4>3 DEF Finishes
        <5> QED
          BY <3>1, <3>4, <4>3, <5>1 DEF Finishes, Marks
      <4>4. ASSUME NEW m \in DOMAIN run[k].items, Starts(k, m)
            PROVE  i \in DOMAIN run'[k].items /\ run'[k].items[i] = run[k].items[i]
        <5>1. m # i /\ run'[k] = Marked(k, m, "child") /\ "child" \in States
          BY <3>1, <3>4, <4>4 DEF Starts, States
        <5> QED
          BY <3>1, <3>4, <5>1, MarkedTyped
      <4> QED
        BY <3>1, <3>4, <4>1, <4>2, <4>3, <4>4 DEF Works
    <3>5. CASE k # Lead /\ run'[Lead] # run[Lead]
      <4>1. \A m : ~Starts(k, m)
        BY <3>5 DEF Starts
      <4> QED
        BY <1>1, <3>5, <4>1, LeadIsNoId DEF Works, Plans, Goes, Tells, Finishes, Marks, Moves
    <3> QED
      BY <3>3, <3>4, <3>5
  <2> QED
    BY <2>1, <2>2
<1> QED
  BY <1>3, <1>4 DEF Awaited, Active, Items

LEMMA ShownKept ==
  ASSUME Budgeted, TypeOK, Orderly, Numbered, Announced, Shown, NEW k \in Runs, Step(k)
  PROVE  Shown'
<1>1. (\E item \in AnyItem : Plans(k, item)) \/ (Spares /\ Works(k))
  BY StepDoes
<1>2. parent \in [Ids -> Runs] /\ seq \in Nat
  BY DEF TypeOK
<1>3. ASSUME NEW id \in Ids, view'[id] # "none", parent'[id] # Lead PROVE view'[parent'[id]] # "none"
  <2>1. CASE \E item \in AnyItem : Plans(k, item)
    <3>1. view' = view /\ parent'[id] = parent[id]
      BY <1>2, <1>3, <2>1, PlanAdds, LeadIsNoId DEF Numbered
    <3> QED
      BY <1>3, <3>1 DEF Shown
  <2>2. CASE Spares /\ Works(k)
    <3>1. Shows(k) /\ parent' = parent /\ parent[id] \in Ids
      BY <1>2, <1>3, <2>2, WorkShows, RunsAreLead DEF Spares
    <3>2. view[parent[id]] # "none"
      <4>1. CASE view[id] # "none"
        BY <1>3, <3>1, <4>1 DEF Shown
      <4>2. CASE view[id] = "none"
        <5>1. parent[id] = k /\ run[k].pc # "none"
          BY <1>3, <2>2, <3>1, <4>2, OnlyBusyStep DEF Shows
        <5> QED
          BY <3>1, <5>1 DEF Announced
      <4> QED
        BY <4>1, <4>2
    <3> QED
      BY <3>1, <3>2, StaysShown
  <2> QED
    BY <1>1, <2>1, <2>2
<1> QED
  BY <1>3 DEF Shown

-----------------------------------------------------------------------------
(* The theorems                                                              *)

LEMMA InitHolds == ASSUME Budgeted, Init PROVE Inv
<1>1. TypeOK
  BY InitTypes
<1>2. \A k \in Runs : run[k].items = <<>> /\ run[k].count = 0
  BY DEF Init, Idle
<1>3. \A k \in Ids : run[k].pc = "none" /\ view[k] = "none"
  BY LeadIsNoId DEF Init, Idle
<1>4. run[Lead].pc = "round" /\ outcome = "none"
  BY LeadIsNoId DEF Init, Idle
<1>5. Spent
  <2>1. Committed = {}
    BY <1>2, <1>3, LeadIsNoId DEF Committed, Items
  <2>2. Cardinality(Committed) = 0
    BY <2>1, FS_EmptySet
  <2>3. budget.calls \in Nat /\ budget.output \in Nat /\ budget.delegations = MaxDelegations /\ MaxDelegations \in Nat
    BY DEF Init, Budgeted
  <2>4. \A k \in Runs : run[k].count <= CallsOf(k)
    BY <1>2 DEF CallsOf, Budgeted
  <2> QED
    BY <2>2, <2>3, <2>4 DEF Spent
<1>6. Numbered /\ Orderly /\ Announced /\ Running /\ Shown
  BY <1>2, <1>3 DEF Numbered, Orderly, Announced, Running, Shown, Items
<1>7. Awaited
  BY <1>3, <1>4 DEF Awaited, Active
<1> QED
  BY <1>1, <1>5, <1>6, <1>7 DEF Inv

\* What goes on around the runs, and steps that change nothing.
LEMMA AroundKept ==
  ASSUME Budgeted, Inv, EndTurn \/ BrowserGone \/ TimeIsUp \/ UNCHANGED vars
  PROVE  Inv'
<1>1. UNCHANGED <<budget, run, parent, seq, view>> /\ (Delivers' => Delivers)
  BY DEF EndTurn, BrowserGone, TimeIsUp, vars, Delivers
<1>2. TypeOK'
  <2>1. sink' \in {"up", "broken"} /\ ctx' \in {"live", "over"} /\ outcome' \in {"none", "answered", "error"}
    BY DEF Inv, TypeOK, EndTurn, BrowserGone, TimeIsUp, vars
  <2> QED
    BY <1>1, <2>1 DEF Inv, TypeOK
<1>3. Spent'
  <2>1. Committed' = Committed
    BY <1>1 DEF Committed, Items
  <2> QED
    BY <1>1, <2>1 DEF Inv, Spent, CallsOf
<1>4. Numbered' /\ Orderly'
  BY <1>1 DEF Inv, Numbered, Owned, Orderly, Proper, Items
<1>5. Announced'
  BY <1>1 DEF Inv, Announced, Told, Items
<1>6. Running'
  BY <1>1 DEF Inv, Running, Ends, Items
<1>7. Awaited'
  BY <1>1 DEF Inv, Awaited, Active, Items, EndTurn, BrowserGone, TimeIsUp, vars
<1>8. Shown'
  BY <1>1 DEF Inv, Shown
<1> QED
  BY <1>2, <1>3, <1>4, <1>5, <1>6, <1>7, <1>8 DEF Inv

LEMMA InvHolds == ASSUME Budgeted PROVE Spec => []Inv
<1>1. Init => Inv
  BY InitHolds
<1>2. Inv /\ [Next]_vars => Inv'
  <2>1. ASSUME Inv, NEW k \in Runs, Step(k) PROVE Inv'
    BY <2>1, TypesKept, SpentKept, NumberedKept, OrderlyKept, AnnouncedKept, RunningKept, AwaitedKept, ShownKept DEF Inv
  <2> QED
    BY <2>1, AroundKept DEF Next
<1> QED
  BY <1>1, <1>2, PTL DEF Spec

\* The variables of a turn have their types, records excepted.
THEOREM TypeCorrect == ASSUME Budgeted PROVE Spec => []TypeOK
<1>1. Inv => TypeOK
  BY DEF Inv
<1> QED
  BY <1>1, InvHolds, PTL

\* However many rounds, calls and specialists a turn has and however they
\* interleave, fail or are cut off: it spends no more than its budget, its
\* specialists work and are shown inside the calls that started them, and
\* nothing goes on when it is over.
THEOREM TurnsAreBounded == ASSUME Budgeted PROVE Spec => []TurnIsBounded
<1>1. ASSUME Inv PROVE TurnIsBounded
  <2>1. BudgetHolds
    <3> DEFINE S == {k \in Ids : run[k].pc # "none"}
    <3>1. S \subseteq Committed
      BY DEF Committed
    <3> HIDE DEF S
    <3>2. Cardinality(S) \in Nat /\ Cardinality(S) <= Cardinality(Committed) /\ Cardinality(Committed) \in Nat
      BY <3>1, CommittedKept
    <3>3. budget.delegations \in Int /\ MaxDelegations \in Nat
      BY <1>1 DEF Inv, TypeOK, Budgeted
    <3>4. Cardinality(S) <= MaxDelegations
      BY <1>1, <3>2, <3>3 DEF Inv, Spent
    <3> QED
      BY <1>1, <3>4 DEF Inv, Spent, BudgetHolds, S
  <2>2. ASSUME NEW id \in Ids, view[id] # "none", parent[id] # Lead
        PROVE  /\ view[parent[id]] # "none"
               /\ view[parent[id]] = "finished" /\ Delivers /\ run[parent[id]].pc = "answered" => view[id] = "finished"
    BY <1>1, <2>2 DEF Inv, Shown, Running, Ends, TypeOK
  <2>3. ASSUME outcome # "none", NEW k \in Runs PROVE ~Active(k)
    BY <1>1, <2>3, LeadWaits, RunsAreLead DEF Inv, Awaited, Active
  <2> QED
    BY <2>1, <2>2, <2>3 DEF TurnIsBounded, Nested
<1> QED
  BY <1>1, InvHolds, PTL

-----------------------------------------------------------------------------
(* Sums                                                                      *)

\* Induction, for a set of numbers.
LEMMA LeastNumber ==
  ASSUME NEW T, T \subseteq Nat, T # {}
  PROVE  \E s \in T : \A k \in T : s <= k
<1> DEFINE R == OpToRel(<, Nat)
<1>1. IsWellFoundedOn(R, Nat)
  BY NatLessThanWellFounded
<1>2. \A a, b \in Nat : <<a, b>> \in R \/ b <= a
  BY DEF OpToRel
<1> HIDE DEF R
<1>3. PICK s \in T : \A k \in T : ~(<<k, s>> \in R)
  BY <1>1, WFMin
<1>4. SUFFICES ASSUME NEW k \in T PROVE s <= k
  BY <1>3
<1>5. ~(<<k, s>> \in R) /\ s \in Nat /\ k \in Nat
  BY <1>3
<1> QED
  BY <1>2, <1>5

LEMMA ByInduction ==
  ASSUME NEW S, 0 \in S, \A n \in Nat : n \in S => n + 1 \in S
  PROVE  Nat \subseteq S
<1>1. SUFFICES ASSUME NEW m \in Nat, m \notin S PROVE FALSE
  OBVIOUS
<1> DEFINE T == {n \in Nat : n \notin S}
<1>2. PICK s \in T : \A k \in T : s <= k
  <2>1. T \subseteq Nat /\ T # {}
    BY <1>1
  <2> HIDE DEF T
  <2> QED
    BY <2>1, LeastNumber
<1>3. s \in Nat /\ s # 0 /\ s - 1 \in Nat /\ ~(s <= s - 1)
  BY <1>2
<1>4. s - 1 \in S
  BY <1>2, <1>3
<1> QED
  BY <1>2, <1>3, <1>4

\* f[1] + ... + f[m].
Total(f, m) == LET sum[n \in 0..m] == IF n = 0 THEN 0 ELSE sum[n - 1] + f[n] IN sum[m]

\* The sums s[0], s[1], ... up to m.
Sums(s, f, m) == s[0] = 0 /\ \A n \in 1..m : s[n] = s[n - 1] + f[n]

LEMMA SumsExist ==
  ASSUME NEW f, \A n \in Nat : f[n] \in Nat, NEW m \in Nat
  PROVE  \E s \in [Nat -> Nat] : Sums(s, f, m)
<1> DEFINE S == {n \in Nat : \E s \in [Nat -> Nat] : Sums(s, f, n)}
<1>1. 0 \in S
  <2>1. [n \in Nat |-> 0] \in [Nat -> Nat] /\ Sums([n \in Nat |-> 0], f, 0)
    BY DEF Sums
  <2> QED
    BY <2>1
<1>2. ASSUME NEW n \in Nat, n \in S PROVE n + 1 \in S
  <2>1. PICK s \in [Nat -> Nat] : Sums(s, f, n)
    BY <1>2
  <2> DEFINE x == s[n] + f[n + 1]
             t == [s EXCEPT ![n + 1] = x]
  <2>2. x \in Nat
    OBVIOUS
  <2>3. t \in [Nat -> Nat] /\ t[n + 1] = x /\ \A k \in 0..n : t[k] = s[k]
    <3> HIDE DEF x
    <3> QED
      BY <2>2
  <2> HIDE DEF t
  <2>4. Sums(t, f, n + 1)
    <3>1. ASSUME NEW k \in 1..(n + 1) PROVE t[k] = t[k - 1] + f[k]
      <4>1. CASE k = n + 1
        BY <2>3, <4>1
      <4>2. CASE k \in 1..n
        BY <2>1, <2>3, <4>2 DEF Sums
      <4> QED
        BY <4>1, <4>2
    <3> QED
      BY <2>1, <2>3, <3>1 DEF Sums
  <2> QED
    BY <2>3, <2>4
<1> HIDE DEF S
<1>3. m \in S
  BY <1>1, <1>2, ByInduction
<1> QED
  BY <1>3 DEF S

\* Whatever satisfies the recursion of a sum is the sum.
LEMMA SumsAgree ==
  ASSUME NEW f, NEW m \in Nat, NEW s, NEW g, Sums(s, f, m), Sums(g, f, m)
  PROVE  g[m] = s[m]
<1> DEFINE S == {n \in Nat : n <= m => g[n] = s[n]}
<1>1. 0 \in S
  BY DEF Sums
<1>2. ASSUME NEW n \in Nat, n \in S PROVE n + 1 \in S
  <2>1. CASE n + 1 <= m
    <3>1. n + 1 \in 1..m /\ n <= m /\ (n + 1) - 1 = n
      BY <2>1
    <3>2. g[n] = s[n]
      BY <1>2, <3>1
    <3> QED
      BY <3>1, <3>2 DEF Sums
  <2> QED
    BY <2>1
<1> HIDE DEF S
<1>3. m \in S
  BY <1>1, <1>2, ByInduction
<1> QED
  BY <1>3 DEF S

LEMMA TotalIs ==
  ASSUME NEW f, NEW m \in Nat, NEW s \in [Nat -> Nat], Sums(s, f, m)
  PROVE  Total(f, m) = s[m]
<1> DEFINE F(g) == [n \in 0..m |-> IF n = 0 THEN 0 ELSE g[n - 1] + f[n]]
           c == CHOOSE g : g = F(g)
           t == [n \in 0..m |-> s[n]]
<1>1. Total(f, m) = c[m]
  BY DEF Total
<1>2. t = F(t)
  BY DEF Sums
<1>3. c = F(c)
  <2> HIDE DEF F, t
  <2> QED
    BY <1>2
<1> HIDE DEF c
<1>4. Sums(c, f, m)
  <2>1. \A n \in 0..m : c[n] = IF n = 0 THEN 0 ELSE c[n - 1] + f[n]
    BY <1>3
  <2>2. 0 \in 0..m /\ \A n \in 1..m : n \in 0..m /\ n # 0
    OBVIOUS
  <2> QED
    BY <2>1, <2>2 DEF Sums
<1> HIDE DEF F
<1> QED
  BY <1>1, <1>4, SumsAgree

LEMMA Totals ==
  ASSUME NEW f, \A n \in Nat : f[n] \in Nat
  PROVE  /\ Total(f, 0) = 0
         /\ \A m \in Nat : Total(f, m) \in Nat /\ Total(f, m + 1) = Total(f, m) + f[m + 1]
<1>1. Total(f, 0) = 0
  BY SumsExist, TotalIs DEF Sums
<1>2. ASSUME NEW m \in Nat PROVE Total(f, m) \in Nat /\ Total(f, m + 1) = Total(f, m) + f[m + 1]
  <2>1. PICK s \in [Nat -> Nat] : Sums(s, f, m + 1)
    <3>1. m + 1 \in Nat
      OBVIOUS
    <3> HIDE DEF Sums
    <3> QED
      BY <3>1, SumsExist
  <2>2. Sums(s, f, m) /\ s[m + 1] = s[m] + f[m + 1] /\ s[m] \in Nat
    <3>1. m + 1 \in 1..(m + 1) /\ (m + 1) - 1 = m /\ \A n \in 1..m : n \in 1..(m + 1)
      OBVIOUS
    <3> QED
      BY <2>1, <3>1 DEF Sums
  <2> QED
    BY <2>1, <2>2, TotalIs
<1> QED
  BY <1>1, <1>2

LEMMA TotalSame ==
  ASSUME NEW f, NEW g, \A n \in Nat : f[n] \in Nat, \A n \in Nat : g[n] \in Nat, NEW m \in Nat, \A n \in 1..m : g[n] = f[n]
  PROVE  Total(g, m) = Total(f, m)
<1> DEFINE S == {n \in Nat : n <= m => Total(g, n) = Total(f, n)}
<1>1. 0 \in S
  BY Totals
<1>2. ASSUME NEW n \in Nat, n \in S PROVE n + 1 \in S
  BY <1>2, Totals
<1> HIDE DEF S
<1>3. m \in S
  BY <1>1, <1>2, ByInduction
<1> QED
  BY <1>3 DEF S

LEMMA AddSame ==
  ASSUME NEW a \in Nat, NEW b \in Nat, NEW x \in Nat, NEW y \in Nat, NEW z \in Nat, a + x = b + y
  PROVE  (a + z) + x = (b + z) + y
OBVIOUS

\* A sum moves by what one of its terms moves.
LEMMA TotalMoves ==
  ASSUME NEW f, NEW g, \A n \in Nat : f[n] \in Nat, \A n \in Nat : g[n] \in Nat, NEW m \in Nat, NEW c \in 1..m,
         \A n \in 1..m : n # c => g[n] = f[n]
  PROVE  Total(g, m) + f[c] = Total(f, m) + g[c]
<1> DEFINE S == {n \in Nat : IF c <= n /\ n <= m THEN Total(g, n) + f[c] = Total(f, n) + g[c]
                             ELSE n <= m => Total(g, n) = Total(f, n)}
<1>0. c \in Nat /\ c # 0 /\ f[c] \in Nat /\ g[c] \in Nat
  OBVIOUS
<1>1. 0 \in S
  BY <1>0, Totals
<1>2. ASSUME NEW n \in Nat, n \in S PROVE n + 1 \in S
  <2>1. CASE n + 1 <= m
    <3> DEFINE a == Total(g, n)
               b == Total(f, n)
               z == f[n + 1]
               x == f[c]
               y == g[c]
    <3>1. /\ Total(g, n + 1) = a + g[n + 1] /\ Total(f, n + 1) = b + z
          /\ a \in Nat /\ b \in Nat /\ z \in Nat /\ x \in Nat /\ y \in Nat /\ g[n + 1] \in Nat
      BY Totals
    <3>2. CASE n + 1 = c
      <4>1. a = b /\ z = x /\ g[n + 1] = y
        BY <1>2, <3>2
      <4>2. Total(g, n + 1) + x = Total(f, n + 1) + y
        <5> HIDE DEF a, b, x, y, z
        <5> QED
          BY <3>1, <4>1
      <4> QED
        BY <2>1, <3>2, <4>2
    <3>3. CASE c <= n
      <4>1. a + x = b + y /\ g[n + 1] = z
        BY <1>0, <1>2, <2>1, <3>3
      <4>2. Total(g, n + 1) + x = Total(f, n + 1) + y
        <5> HIDE DEF a, b, x, y, z
        <5>1. (a + z) + x = (b + z) + y
          BY <3>1, <4>1, AddSame
        <5> QED
          BY <3>1, <4>1, <5>1
      <4> QED
        BY <1>0, <2>1, <3>3, <4>2
    <3>4. CASE ~(c <= n + 1)
      <4>1. a = b /\ g[n + 1] = z
        BY <1>0, <1>2, <2>1, <3>4
      <4> QED
        BY <3>1, <3>4, <4>1
    <3> QED
      BY <1>0, <3>2, <3>3, <3>4
  <2> QED
    BY <2>1
<1> HIDE DEF S
<1>3. m \in S
  BY <1>1, <1>2, ByInduction
<1> QED
  BY <1>0, <1>3 DEF S

LEMMA TotalOfNothing ==
  ASSUME NEW f, \A n \in Nat : f[n] \in Nat, NEW m \in Nat, \A n \in 1..m : f[n] = 0
  PROVE  Total(f, m) = 0
<1> DEFINE S == {n \in Nat : n <= m => Total(f, n) = 0}
<1>1. 0 \in S
  BY Totals
<1>2. ASSUME NEW n \in Nat, n \in S PROVE n + 1 \in S
  BY <1>2, Totals
<1> HIDE DEF S
<1>3. m \in S
  BY <1>1, <1>2, ByInduction
<1> QED
  BY <1>3 DEF S

Usages(rs) == [n \in Nat |-> IF n \in DOMAIN rs THEN rs[n].usage ELSE 0]

LEMMA UsageIsTotal ==
  ASSUME NEW R, \A r \in R : r.usage \in Nat, NEW rs \in Seq(R)
  PROVE  UsageIn(rs) = Total(Usages(rs), Len(rs)) /\ \A n \in Nat : Usages(rs)[n] \in Nat
<1>1. \A n \in Nat : Usages(rs)[n] \in Nat
  BY DEF Usages
<1> DEFINE m == Len(rs)
           f == Usages(rs)
           F(g) == [n \in 0..m |-> IF n = 0 THEN 0 ELSE g[n - 1] + rs[n].usage]
           c == CHOOSE g : g = F(g)
<1>2. m \in Nat /\ DOMAIN rs = 1..m
  OBVIOUS
<1>3. \A n \in 1..m : f[n] = rs[n].usage
  BY <1>2 DEF Usages
<1>4. UsageIn(rs) = c[m]
  BY DEF UsageIn
<1> HIDE DEF f, m
<1>5. PICK s \in [Nat -> Nat] : Sums(s, f, m)
  BY <1>1, <1>2, SumsExist DEF f
<1> DEFINE t == [n \in 0..m |-> s[n]]
<1>6. t = F(t)
  BY <1>2, <1>3, <1>5 DEF Sums
<1>7. c = F(c)
  <2> HIDE DEF F, t
  <2> QED
    BY <1>6
<1> HIDE DEF c
<1>8. Sums(c, f, m)
  <2>1. \A n \in 0..m : c[n] = IF n = 0 THEN 0 ELSE c[n - 1] + rs[n].usage
    BY <1>7
  <2>2. 0 \in 0..m /\ \A n \in 1..m : n \in 0..m /\ n # 0
    BY <1>2
  <2> QED
    BY <1>3, <2>1, <2>2 DEF Sums
<1> HIDE DEF F
<1>9. c[m] = s[m] /\ Total(f, m) = s[m]
  <2>1. c[m] = s[m]
    BY <1>2, <1>5, <1>8, SumsAgree
  <2>2. Total(f, m) = s[m]
    BY <1>2, <1>5, TotalIs
  <2> QED
    BY <2>1, <2>2
<1> QED
  BY <1>1, <1>4, <1>9 DEF f, m

LEMMA UsageAppends ==
  ASSUME NEW R, \A r \in R : r.usage \in Nat, NEW rs \in Seq(R), NEW r \in R
  PROVE  UsageIn(rs) \in Nat /\ UsageIn(Append(rs, r)) = UsageIn(rs) + r.usage
<1> DEFINE q == Append(rs, r)
           m == Len(rs)
<1>1. q \in Seq(R) /\ Len(q) = m + 1 /\ m \in Nat /\ q[m + 1] = r /\ (\A n \in 1..m : q[n] = rs[n])
      /\ DOMAIN q = 1..(m + 1) /\ DOMAIN rs = 1..m
  OBVIOUS
<1> HIDE DEF q, m
<1>2. /\ UsageIn(rs) = Total(Usages(rs), m) /\ \A n \in Nat : Usages(rs)[n] \in Nat
      /\ UsageIn(q) = Total(Usages(q), m + 1) /\ \A n \in Nat : Usages(q)[n] \in Nat
  BY <1>1, UsageIsTotal DEF m
<1>3. Usages(q)[m + 1] = r.usage /\ \A n \in 1..m : Usages(q)[n] = Usages(rs)[n]
  BY <1>1 DEF Usages
<1>4. Total(Usages(q), m) = Total(Usages(rs), m)
  <2> DEFINE f == Usages(rs)
             g == Usages(q)
  <2>1. /\ m \in Nat /\ \A n \in 1..m : g[n] = f[n]
        /\ \A n \in Nat : f[n] \in Nat
        /\ \A n \in Nat : g[n] \in Nat
    BY <1>1, <1>2, <1>3
  <2> HIDE DEF f, g
  <2>2. Total(g, m) = Total(f, m)
    BY <2>1, TotalSame
  <2> QED
    BY <2>2 DEF f, g
<1>5. Total(Usages(rs), m) \in Nat /\ Total(Usages(q), m + 1) = Total(Usages(q), m) + Usages(q)[m + 1]
  BY <1>1, <1>2, Totals
<1> QED
  BY <1>2, <1>3, <1>4, <1>5 DEF q

LEMMA UsageOfNothing == UsageIn(<<>>) = 0
<1>1. UsageIn(<<>>) = Total(Usages(<<>>), Len(<<>>)) /\ \A n \in Nat : Usages(<<>>)[n] \in Nat
  <2>1. <<>> \in Seq([usage : Nat]) /\ \A r \in [usage : Nat] : r.usage \in Nat
    OBVIOUS
  <2> QED
    BY <2>1, UsageIsTotal
<1>2. Len(<<>>) = 0
  OBVIOUS
<1> QED
  BY <1>1, <1>2, Totals

-----------------------------------------------------------------------------
(* The account of a turn                                                     *)

AnyRecord == [id : Ids, parent : Runs, run : BOOLEAN, usage : Nat]

Filed == {records[i].id : i \in DOMAIN records}

\* Call i of run k is still to be recorded; it was executed.
ToFile(k, i) == run[k].pc \in {"plan", "announce", "execute"} \/ (run[k].pc = "collect" /\ i >= run[k].next)

Ran(k, i) == /\ Items(k)[i].code = "none" /\ Items(k)[i].state = "done"
             /\ run[k].pc \in {"execute", "collect"}

\* What holds in every turn.
ItemsNumbered == \A k \in Runs : \A i \in DOMAIN Items(k) : Items(k)[i].id \in Ids

RecordsTyped == records \in Seq(AnyRecord)

RecordsMade == \A i \in DOMAIN records : records[i].id <= seq /\ run[records[i].parent].pc # "none"

UnusedUntilStarted == \A k \in Ids : run[k].pc = "none" => run[k].usage = 0

ErrorsBreak == \A k \in Ids : \A i \in DOMAIN Items(k) : Items(k)[i].state = "error" => ~Delivers

AllDone == \A k \in Runs : run[k].pc = "collect" => \A i \in DOMAIN Items(k) : Items(k)[i].state = "done"

Answers == run[Lead].pc # "none" /\ (outcome = "answered" => run[Lead].pc = "answered")

Books == ItemsNumbered /\ RecordsTyped /\ RecordsMade /\ UnusedUntilStarted /\ ErrorsBreak /\ AllDone /\ Answers

\* The turn may still be answered.
Answerable == run[Lead].pc # "failed" /\ (Delivers \/ run[Lead].pc \in {"model", "answered"})

\* What holds as long as it may. Calls are dropped when they are recorded.
Cleared == \A k \in Runs : run[k].pc \notin {"plan", "announce", "execute", "collect"} => Items(k) = <<>>

RanIsShown == \A k \in Runs : \A i \in DOMAIN Items(k) : Ran(k, i) => view[Items(k)[i].id] = "finished"

NotFiledTwice ==
  /\ \A k \in Runs : \A i \in DOMAIN Items(k) : ToFile(k, i) => Items(k)[i].id \notin Filed
  /\ \A i, j \in DOMAIN records : i # j => records[i].id # records[j].id

FiledIsShown == \A id \in Filed : view[id] = "finished"

WaitsFor(p, id) == \E i \in DOMAIN Items(p) : Items(p)[i].id = id /\ Ran(p, i) /\ ToFile(p, i)

ShownIsFiled ==
  \A id \in Ids : view[id] = "finished" => id \in Filed \/ \E p \in Runs : p = parent[id] /\ WaitsFor(p, id)

\* A specialist that was started is in the records, or will be.
StartedIsFiled ==
  \A k \in Ids : run[k].pc # "none" =>
    \/ \E i \in DOMAIN records : records[i].id = k /\ records[i].run
    \/ \E i \in DOMAIN Items(Lead) : Items(Lead)[i].id = k /\ Delegated(Items(Lead)[i]) /\ ToFile(Lead, i)

\* What specialists have used that is not in the records yet.
Owes == [n \in Nat |-> IF n \in Ids /\ n \notin Filed THEN run[n].usage ELSE 0]

Last == MaxRounds * MaxPerRound * (1 + MaxDelegations * ChildRounds)

Balanced == budget.usage = run[Lead].usage + UsageIn(records) + Total(Owes, Last)

Account == /\ Cleared /\ RanIsShown /\ NotFiledTwice /\ FiledIsShown /\ ShownIsFiled /\ StartedIsFiled
           /\ Balanced

AccountInv == Inv /\ Books /\ (Answerable => Account)

-----------------------------------------------------------------------------
(* What a step does to the records and the usage                             *)

RecordOf(k) == [id |-> Item(k).id, parent |-> k, run |-> Delegated(Item(k)), usage |-> UsageOf(k, Item(k))]

Rests(k) ==
  /\ records' = records /\ budget'.usage = budget.usage
  /\ \A j \in Runs : run'[j].usage = run[j].usage \/ (j \in Ids /\ run[j].pc = "none" /\ run'[j].usage = 0)
  /\ run[k].pc = "collect" => run'[k].pc # "collect"

Charges(k) ==
  /\ records' = records /\ budget'.usage = budget.usage + 1
  /\ run[k].pc = "model" /\ run'[k].usage = run[k].usage + 1
  /\ \A j \in Runs : j # k => run'[j].usage = run[j].usage

Files(k) ==
  /\ run[k].pc = "collect" /\ run'[k].pc = "collect" /\ More(k)
  /\ Item(k).code # "none" => Delivers
  /\ records' = Append(records, RecordOf(k)) /\ budget'.usage = budget.usage
  /\ \A j \in Runs : run'[j].usage = run[j].usage

LEMMA OneMoves ==
  ASSUME TypeOK, NEW k \in Runs, NEW r, run' = [run EXCEPT ![k] = r]
  PROVE  run'[k] = r /\ \A j \in Runs : j # k => run'[j] = run[j]
BY DEF TypeOK

LEMMA RestsBy ==
  ASSUME TypeOK, NEW k \in Runs, NEW r, run' = [run EXCEPT ![k] = r], r.usage = run[k].usage,
         records' = records, budget'.usage = budget.usage, run[k].pc = "collect" => r.pc # "collect"
  PROVE  Rests(k)
BY OneMoves DEF Rests

LEMMA FailsRests ==
  ASSUME TypeOK, NEW k \in Runs, Fails(k), records' = records, budget'.usage = budget.usage
  PROVE  Rests(k)
<1> DEFINE r == [run[k] EXCEPT !.pc = "failed"]
<1>1. run[k] \in AnyRun /\ run' = [run EXCEPT ![k] = r]
  BY DEF TypeOK, Fails
<1>2. r.usage = run[k].usage /\ r.pc = "failed"
  BY <1>1 DEF AnyRun
<1> HIDE DEF r
<1> QED
  BY <1>1, <1>2, RestsBy

LEMMA StartRoundRests == ASSUME TypeOK, NEW k \in Runs, StartRound(k) PROVE Rests(k)
<1> DEFINE f == run[k].round = RoundsOf(k) \/ Exhausted \/ run[k].count >= CallsOf(k)
           r == [run[k] EXCEPT !.pc = "model", !.final = f]
<1>1. run[k] \in AnyRun /\ records' = records /\ budget' = budget
  BY DEF TypeOK, StartRound
<1>2. r.usage = run[k].usage /\ r.pc = "model"
  <2> HIDE DEF f
  <2> QED
    BY <1>1 DEF AnyRun
<1>3. Fails(k) \/ run' = [run EXCEPT ![k] = r]
  BY DEF StartRound
<1> HIDE DEF r
<1> QED
  BY <1>1, <1>2, <1>3, FailsRests, RestsBy

LEMMA ModelCharges == ASSUME TypeOK, NEW k \in Runs, ModelAnswers(k) \/ ModelCalls(k) PROVE Charges(k)
<1>1. run[k] \in AnyRun /\ budget \in [calls : Int, output : Int, delegations : Int, usage : Nat]
  BY DEF TypeOK
<1>2. budget'.usage = budget.usage + 1 /\ records' = records /\ run[k].pc = "model"
  BY <1>1 DEF ModelAnswers, ModelCalls, Counted
<1> DEFINE u == run[k].usage + 1
<1>3. CASE ModelAnswers(k)
  <2> DEFINE r == [run[k] EXCEPT !.pc = "answered", !.usage = u]
  <2>1. run' = [run EXCEPT ![k] = r]
    BY <1>3 DEF ModelAnswers
  <2> HIDE DEF u
  <2>2. r.usage = u
    BY <1>1 DEF AnyRun
  <2> HIDE DEF r
  <2> QED
    BY <1>2, <2>1, <2>2, OneMoves DEF Charges, u
<1>4. CASE ModelCalls(k)
  <2>1. PICK calls \in IF k = Lead THEN LeadReplies ELSE ChildReplies :
          run' = [run EXCEPT ![k].pc = IF run[k].final \/ Len(calls) > MaxPerRound THEN "failed" ELSE "plan",
                             ![k].usage = @ + 1, ![k].todo = calls, ![k].items = <<>>]
    BY <1>4 DEF ModelCalls
  <2> DEFINE q == IF run[k].final \/ Len(calls) > MaxPerRound THEN "failed" ELSE "plan"
             r == [run[k] EXCEPT !.pc = q, !.usage = u, !.todo = calls, !.items = <<>>]
  <2>2. run' = [run EXCEPT ![k] = r]
    BY <2>1
  <2> HIDE DEF u, q
  <2>3. r.usage = u
    BY <1>1 DEF AnyRun
  <2> HIDE DEF r
  <2> QED
    BY <1>2, <2>2, <2>3, OneMoves DEF Charges, u
<1> QED
  BY <1>3, <1>4

LEMMA PlanCallRests == ASSUME TypeOK, NEW k \in Runs, PlanCall(k) PROVE Rests(k)
<1> DEFINE call == Head(run[k].todo)
           v == Verdict(k, call)
           item == [id |-> seq + 1, call |-> call, code |-> v.code,
                    state |-> IF v.code = "none" THEN "ready" ELSE "done"]
           seen == IF v.code \in {"agent_budget_exhausted", "budget_exhausted", "unknown_tool"}
                   THEN run[k].seen ELSE run[k].seen \union {call}
           rest == Tail(run[k].todo)
           more == Append(run[k].items, item)
           count == run[k].count + v.calls
           r == [run[k] EXCEPT !.todo = rest, !.items = more, !.count = count, !.seen = seen]
           c == budget.calls - v.calls
           d == budget.delegations - v.delegations
<1>1. run' = [run EXCEPT ![k] = r] /\ budget' = [budget EXCEPT !.calls = c, !.delegations = d]
  BY DEF PlanCall
<1>2. run[k] \in AnyRun /\ budget \in [calls : Int, output : Int, delegations : Int, usage : Nat]
      /\ records' = records /\ run[k].pc = "plan"
  BY DEF TypeOK, PlanCall
<1> HIDE DEF call, v, item, seen, rest, more, count, c, d
<1>3. r.usage = run[k].usage /\ budget'.usage = budget.usage
  BY <1>1, <1>2 DEF AnyRun
<1> HIDE DEF r
<1> QED
  BY <1>1, <1>2, <1>3, RestsBy

LEMMA PlannedRests == ASSUME TypeOK, NEW k \in Runs, Planned(k) PROVE Rests(k)
<1> DEFINE r == [run[k] EXCEPT !.pc = "announce", !.next = 1]
<1>1. run[k] \in AnyRun /\ records' = records /\ budget' = budget /\ run[k].pc = "plan" /\ run' = [run EXCEPT ![k] = r]
  BY DEF TypeOK, Planned
<1>2. r.usage = run[k].usage
  BY <1>1 DEF AnyRun
<1> HIDE DEF r
<1> QED
  BY <1>1, <1>2, RestsBy

LEMMA NextMoves ==
  ASSUME TypeOK, NEW k \in Runs, run' = [run EXCEPT ![k].next = @ + 1]
  PROVE  run'[k].pc = run[k].pc /\ \A j \in Runs : run'[j].usage = run[j].usage
<1> DEFINE n == run[k].next + 1
           r == [run[k] EXCEPT !.next = n]
<1>1. run[k] \in AnyRun /\ run' = [run EXCEPT ![k] = r]
  BY DEF TypeOK
<1> HIDE DEF n
<1>2. r.usage = run[k].usage /\ r.pc = run[k].pc
  BY <1>1 DEF AnyRun
<1> HIDE DEF r
<1> QED
  BY <1>1, <1>2, OneMoves

LEMMA AnnounceRests == ASSUME TypeOK, NEW k \in Runs, Announce(k) PROVE Rests(k)
<1> DEFINE r == [run[k] EXCEPT !.pc = "execute"]
<1>1. run[k] \in AnyRun /\ records' = records /\ budget' = budget /\ run[k].pc = "announce"
      /\ (run' = [run EXCEPT ![k] = r] \/ run' = [run EXCEPT ![k].next = @ + 1] \/ Fails(k))
  BY DEF TypeOK, Announce
<1>2. r.usage = run[k].usage
  BY <1>1 DEF AnyRun
<1> HIDE DEF r
<1>3. CASE run' = [run EXCEPT ![k] = r]
  BY <1>1, <1>2, <1>3, RestsBy
<1>4. CASE run' = [run EXCEPT ![k].next = @ + 1]
  BY <1>1, <1>4, NextMoves DEF Rests
<1> QED
  BY <1>1, <1>3, <1>4, FailsRests

LEMMA JoinRests == ASSUME TypeOK, NEW k \in Runs, Join(k) PROVE Rests(k)
<1> DEFINE q == IF \E i \in DOMAIN run[k].items : run[k].items[i].state = "error" THEN "failed" ELSE "collect"
           r == [run[k] EXCEPT !.next = 1, !.pc = q]
<1>1. run[k] \in AnyRun /\ records' = records /\ budget' = budget /\ run[k].pc = "execute" /\ run' = [run EXCEPT ![k] = r]
  BY DEF TypeOK, Join
<1> HIDE DEF q
<1>2. r.usage = run[k].usage
  BY <1>1 DEF AnyRun
<1> HIDE DEF r
<1> QED
  BY <1>1, <1>2, RestsBy

LEMMA NextRoundRests == ASSUME TypeOK, NEW k \in Runs, NextRound(k) PROVE Rests(k)
<1> DEFINE u == run[k].round + 1
           r == [run[k] EXCEPT !.pc = "round", !.round = u, !.items = <<>>]
<1>1. run[k] \in AnyRun /\ records' = records /\ budget' = budget /\ run' = [run EXCEPT ![k] = r]
  BY DEF TypeOK, NextRound
<1> HIDE DEF u
<1>2. r.usage = run[k].usage /\ r.pc = "round"
  BY <1>1 DEF AnyRun
<1> HIDE DEF r
<1> QED
  BY <1>1, <1>2, RestsBy

LEMMA SetItemRests ==
  ASSUME TypeOK, NEW k \in Runs, NEW i, NEW x, SetItem(k, i, x), run[k].pc = "execute",
         records' = records, budget'.usage = budget.usage
  PROVE  Rests(k)
<1> DEFINE q == [run[k].items EXCEPT ![i] = State(run[k].items[i], x)]
           r == [run[k] EXCEPT !.items = q]
<1>1. run[k] \in AnyRun /\ run' = [run EXCEPT ![k] = r]
  BY DEF TypeOK, SetItem
<1> HIDE DEF q
<1>2. r.usage = run[k].usage
  BY <1>1 DEF AnyRun
<1> HIDE DEF r
<1> QED
  BY <1>1, <1>2, RestsBy

LEMMA DelegateRests ==
  ASSUME Budgeted, TypeOK, Orderly, ItemsNumbered, NEW k \in Runs, NEW i \in DOMAIN run[k].items, Delegate(k, i)
  PROVE  Rests(k)
<1> DEFINE id == run[k].items[i].id
           new == [Idle EXCEPT !.pc = "round", !.round = 1]
           r == Marked(k, i, "child")
<1>1. run[k].pc = "execute" /\ run[k].items[i].state = "ready" /\ run[k].items[i].call \in Tasks
      /\ records' = records /\ budget' = budget
  BY DEF Delegate
<1>2. k = Lead /\ id \in Ids /\ run[id].pc = "none" /\ id # k
  BY <1>1, LeadIsNoId DEF Orderly, Proper, Items, ItemsNumbered
<1>3. run' = [[run EXCEPT ![k] = r] EXCEPT ![id] = new]
  BY DEF Delegate, Marked
<1>4. r.usage = run[k].usage
  <2> DEFINE q == [run[k].items EXCEPT ![i] = State(run[k].items[i], "child")]
  <2>1. run[k] \in AnyRun /\ r = [run[k] EXCEPT !.items = q]
    BY DEF TypeOK, Marked
  <2> HIDE DEF q, r
  <2> QED
    BY <2>1 DEF AnyRun
<1>5. new.usage = 0
  BY DEF Idle
<1> HIDE DEF id, new, r
<1>6. /\ id \in Runs => run'[id] = new
      /\ run'[k] = r /\ \A j \in Runs : j # k /\ j # id => run'[j] = run[j]
  BY <1>2, <1>3 DEF TypeOK
<1> QED
  BY <1>1, <1>2, <1>4, <1>5, <1>6 DEF Rests

LEMMA CollectFiles ==
  ASSUME TypeOK, NEW k \in Runs, Collect(k)
  PROVE  Rests(k) \/ Files(k)
<1>1. run[k].pc = "collect" /\ More(k) /\ budget' = budget
  BY DEF Collect
<1>2. CASE Item(k).code # "none" /\ ~Delivers
  <2>1. Fails(k) /\ records' = records
    BY <1>2 DEF Collect
  <2> QED
    BY <1>1, <2>1, FailsRests
<1>3. CASE ~(Item(k).code # "none" /\ ~Delivers)
  <2>1. records' = Append(records, RecordOf(k)) /\ run' = [run EXCEPT ![k].next = @ + 1]
    BY <1>3 DEF Collect, RecordOf
  <2> QED
    BY <1>1, <1>3, <2>1, NextMoves DEF Files
<1> QED
  BY <1>2, <1>3

LEMMA StepAccounts ==
  ASSUME Budgeted, TypeOK, Orderly, ItemsNumbered, NEW k \in Runs, Step(k)
  PROVE  Rests(k) \/ Charges(k) \/ Files(k)
<1>1. CASE ModelFails(k)
  BY <1>1, FailsRests DEF ModelFails
<1>2. ASSUME NEW i \in DOMAIN run[k].items, RunTool(k, i) PROVE Rests(k)
  <2>1. /\ run[k].pc = "execute" /\ records' = records
        /\ SetItem(k, i, IF Delivers THEN "done" ELSE "error")
    BY <1>2 DEF RunTool
  <2>2. budget'.usage = budget.usage
    <3>1. budget \in [calls : Int, output : Int, delegations : Int, usage : Nat]
      BY DEF TypeOK
    <3>2. budget' = budget \/ \E o : budget' = [budget EXCEPT !.output = o]
      BY <1>2 DEF RunTool
    <3> QED
      BY <3>1, <3>2
  <2> QED
    BY <2>1, <2>2, SetItemRests
<1>3. ASSUME NEW i \in DOMAIN run[k].items, ChildEnds(k, i) PROVE Rests(k)
  <2>1. run[k].pc = "execute"
    BY <1>3, ChildEndsDoes
  <2>2. records' = records /\ budget' = budget /\ \E x : SetItem(k, i, x)
    BY <1>3 DEF ChildEnds
  <2> QED
    BY <2>1, <2>2, SetItemRests
<1> QED
  BY <1>1, <1>2, <1>3, StartRoundRests, ModelCharges, PlanCallRests, PlannedRests, AnnounceRests, JoinRests, CollectFiles,
     NextRoundRests, DelegateRests DEF Step

\* A step plans a call, or records one, or does neither.
Planning(k, item) == Plans(k, item) /\ Rests(k) /\ seq + 1 \in Ids

Plain(k) == /\ Works(k) /\ (Rests(k) \/ Charges(k)) /\ ~(Tells(k) /\ run[k].pc = "collect")
            /\ parent' = parent /\ seq' = seq

Filing(k) == Tells(k) /\ Files(k) /\ parent' = parent /\ seq' = seq

LEMMA StepKinds ==
  ASSUME Budgeted, TypeOK, Orderly, ItemsNumbered, NEW k \in Runs, Step(k)
  PROVE  /\ (\E item \in AnyItem : Planning(k, item)) \/ Plain(k) \/ Filing(k)
         /\ sink' = sink /\ outcome' = outcome
<1>1. /\ sink' = sink /\ outcome' = outcome /\ (Rests(k) \/ Charges(k) \/ Files(k))
      /\ (\E item \in AnyItem : Plans(k, item)) \/ (Spares /\ Works(k))
  BY StepDoes, StepAccounts
<1>2. CASE \E item \in AnyItem : Plans(k, item)
  <2>1. run[k].pc = "plan" /\ run'[k].pc = "plan"
    BY <1>2 DEF Plans
  <2>2. Rests(k)
    BY <1>1, <2>1 DEF Charges, Files
  <2>3. PlanCall(k)
    <3>1. ~Planned(k)
      BY <2>1, PlannedDoes
    <3>2. \A i \in DOMAIN run[k].items : ~RunTool(k, i) /\ ~Delegate(k, i) /\ ~ChildEnds(k, i)
      BY <2>1, ChildEndsDoes DEF RunTool, Delegate
    <3> QED
      BY <2>1, <3>1, <3>2 DEF Step, StartRound, ModelFails, ModelAnswers, ModelCalls, Announce, Join, Collect, NextRound
  <2>4. seq + 1 \in Ids
    BY <2>3 DEF PlanCall
  <2> QED
    BY <1>1, <1>2, <2>2, <2>4 DEF Planning
<1>3. CASE Spares /\ Works(k)
  <2>1. CASE Files(k)
    <3>1. Tells(k)
      BY <1>3, <2>1 DEF Works, Files, Goes, Finishes, Starts
    <3> QED
      BY <1>1, <1>3, <2>1, <3>1 DEF Filing, Spares
  <2>2. CASE Rests(k) \/ Charges(k)
    <3>1. ~(Tells(k) /\ run[k].pc = "collect")
      BY <2>2 DEF Rests, Charges, Tells
    <3> QED
      BY <1>1, <1>3, <2>2, <3>1 DEF Plain, Spares
  <2> QED
    BY <1>1, <2>1, <2>2
<1> QED
  BY <1>1, <1>2, <1>3

LEMMA FilingWorks == ASSUME NEW k \in Runs, Filing(k) PROVE Works(k) /\ run[k].pc = "collect" /\ run'[k].pc = "collect"
BY DEF Filing, Works, Files

-----------------------------------------------------------------------------
(* The books of every turn                                                   *)

LEMMA StaysAwake ==
  ASSUME Budgeted, TypeOK, Orderly, Numbered, NEW k \in Runs, Step(k), NEW j \in Runs, run[j].pc # "none"
  PROVE  run'[j].pc # "none"
<1>1. CASE \E item \in AnyItem : Plans(k, item)
  BY <1>1, PlanAdds
<1>2. CASE Works(k)
  <2>1. CASE j = k /\ Goes(k)
    BY <2>1 DEF Goes
  <2> QED
    BY <1>2, <2>1, WorkMoves
<1> QED
  BY <1>1, <1>2, StepDoes

LEMMA ItemsStayNumbered ==
  ASSUME Budgeted, TypeOK, Orderly, Numbered, ItemsNumbered, NEW k \in Runs, Step(k)
  PROVE  ItemsNumbered'
<1>1. ASSUME NEW item \in AnyItem, Planning(k, item), NEW j \in Runs, NEW i \in DOMAIN run'[j].items
      PROVE  run'[j].items[i].id \in Ids
  <2>1. Plans(k, item) /\ item.id \in Ids
    BY <1>1 DEF Planning, Plans
  <2>2. IF i \in DOMAIN run[j].items THEN run'[j].items[i] = run[j].items[i] ELSE run'[j].items[i] = item
    BY <1>1, <2>1, PlanAdds
  <2> QED
    BY <2>1, <2>2 DEF ItemsNumbered, Items
<1>2. ASSUME Works(k), NEW j \in Runs, NEW i \in DOMAIN run'[j].items
      PROVE  run'[j].items[i].id \in Ids
  BY <1>2, WorkKeeps DEF Keeps, ItemsNumbered, Items
<1> QED
  BY <1>1, <1>2, StepKinds, FilingWorks DEF ItemsNumbered, Items, Plain

LEMMA RecordTyped ==
  ASSUME Budgeted, TypeOK, ItemsNumbered, NEW k \in Runs, More(k)
  PROVE  RecordOf(k) \in AnyRecord /\ RecordOf(k).id = Item(k).id /\ RecordOf(k).parent = k
         /\ RecordOf(k).run = Delegated(Item(k)) /\ RecordOf(k).usage = UsageOf(k, Item(k))
<1>1. Item(k) \in AnyItem /\ Item(k).id \in Ids
  BY ItemTyped DEF ItemsNumbered, Items
<1>2. run[Item(k).id].usage \in Nat
  BY <1>1, LeadIsNoId DEF TypeOK, AnyRun
<1>3. UsageOf(k, Item(k)) \in Nat /\ Delegated(Item(k)) \in BOOLEAN
  BY <1>2 DEF UsageOf, Delegated
<1> DEFINE u == UsageOf(k, Item(k))
           d == Delegated(Item(k))
           x == Item(k).id
<1> HIDE DEF u, d, x
<1>4. RecordOf(k) = [id |-> x, parent |-> k, run |-> d, usage |-> u]
  BY DEF RecordOf, u, d, x
<1>5. u \in Nat /\ d \in BOOLEAN /\ x \in Ids
  BY <1>1, <1>3 DEF u, d, x
<1>6. RecordOf(k) \in AnyRecord /\ RecordOf(k).id = x /\ RecordOf(k).parent = k /\ RecordOf(k).run = d /\ RecordOf(k).usage = u
  BY <1>4, <1>5 DEF AnyRecord
<1> QED
  BY <1>6 DEF u, d, x

\* The records after one more.
LEMMA Appended ==
  ASSUME RecordsTyped, NEW r \in AnyRecord, records' = Append(records, r)
  PROVE  /\ RecordsTyped'
         /\ DOMAIN records \subseteq DOMAIN records' /\ DOMAIN records' = DOMAIN records \union {Len(records) + 1}
         /\ \A i \in DOMAIN records : records'[i] = records[i]
         /\ records'[Len(records) + 1] = r
         /\ Filed' = Filed \union {r.id}
<1>1. records \in Seq(AnyRecord)
  BY DEF RecordsTyped
<1>2. /\ records' \in Seq(AnyRecord)
      /\ DOMAIN records \subseteq DOMAIN records' /\ DOMAIN records' = DOMAIN records \union {Len(records) + 1}
      /\ \A i \in DOMAIN records : records'[i] = records[i]
      /\ records'[Len(records) + 1] = r
  BY <1>1
<1>3. Filed' = Filed \union {r.id}
  BY <1>2 DEF Filed
<1> QED
  BY <1>2, <1>3 DEF RecordsTyped

LEMMA FiledMore ==
  ASSUME Budgeted, TypeOK, ItemsNumbered, RecordsTyped, NEW k \in Runs, Filing(k)
  PROVE  /\ RecordsTyped' /\ Filed' = Filed \union {Item(k).id} /\ Item(k).id \in Ids /\ Item(k) = run[k].items[run[k].next]
         /\ run[k].next \in DOMAIN run[k].items /\ Item(k) \in AnyItem
         /\ DOMAIN records' = DOMAIN records \union {Len(records) + 1}
         /\ \A i \in DOMAIN records : records'[i] = records[i]
         /\ LET r == records'[Len(records) + 1]
            IN  r.id = Item(k).id /\ r.parent = k /\ r.run = Delegated(Item(k)) /\ r.usage = UsageOf(k, Item(k))
<1>1. More(k) /\ records' = Append(records, RecordOf(k))
  BY DEF Filing, Files
<1>2. Item(k).id \in Ids
  BY <1>1, ItemTyped DEF ItemsNumbered, Items
<1> QED
  BY <1>1, <1>2, ItemTyped, RecordTyped, Appended

LEMMA RecordsStayTyped ==
  ASSUME Budgeted, TypeOK, Orderly, ItemsNumbered, RecordsTyped, NEW k \in Runs, Step(k)
  PROVE  RecordsTyped'
BY StepKinds, FiledMore DEF RecordsTyped, Planning, Plain, Rests, Charges

LEMMA RecordsStayMade ==
  ASSUME Budgeted, TypeOK, Orderly, Numbered, ItemsNumbered, RecordsTyped, RecordsMade, NEW k \in Runs, Step(k)
  PROVE  RecordsMade'
<1>1. \A i \in DOMAIN records : records[i].id <= seq /\ records[i].parent \in Runs /\ records[i].id \in Nat
                               /\ run'[records[i].parent].pc # "none"
  <2>1. SUFFICES ASSUME NEW i \in DOMAIN records
                 PROVE  records[i].id <= seq /\ records[i].parent \in Runs /\ records[i].id \in Nat
                        /\ run'[records[i].parent].pc # "none"
    OBVIOUS
  <2>2. records[i] \in AnyRecord
    BY DEF RecordsTyped
  <2>3. records[i].parent \in Runs /\ records[i].id \in Nat
    BY <2>2, LeadIsNoId DEF AnyRecord
  <2>4. records[i].id <= seq /\ run[records[i].parent].pc # "none"
    BY DEF RecordsMade
  <2> QED
    BY <2>3, <2>4, StaysAwake
<1>2. seq \in Nat /\ seq' \in Nat /\ seq <= seq'
  BY StepDoes DEF TypeOK, Plans, Spares
<1>3. CASE records' = records
  BY <1>1, <1>2, <1>3 DEF RecordsMade
<1>4. CASE Filing(k)
  <2>1. Item(k).id <= seq
    BY <1>4, FiledMore DEF Numbered, Owned, Items
  <2>2. run'[k].pc # "none"
    BY <1>4, FilingWorks
  <2>3. /\ DOMAIN records' = DOMAIN records \union {Len(records) + 1}
        /\ \A i \in DOMAIN records : records'[i] = records[i]
        /\ records'[Len(records) + 1].id = Item(k).id /\ records'[Len(records) + 1].parent = k
    BY <1>4, FiledMore
  <2>4. seq' = seq
    BY <1>4 DEF Filing
  <2>5. ASSUME NEW i \in DOMAIN records' PROVE records'[i].id <= seq' /\ run'[records'[i].parent].pc # "none"
    BY <1>1, <2>1, <2>2, <2>3, <2>4, <2>5
  <2> QED
    BY <2>5 DEF RecordsMade
<1> QED
  BY <1>3, <1>4, StepKinds DEF Planning, Plain, Rests, Charges

LEMMA StaysUnused ==
  ASSUME Budgeted, TypeOK, Orderly, Numbered, ItemsNumbered, UnusedUntilStarted, NEW k \in Runs, Step(k)
  PROVE  UnusedUntilStarted'
<1>1. SUFFICES ASSUME NEW j \in Ids, run'[j].pc = "none" PROVE run'[j].usage = 0
  BY DEF UnusedUntilStarted
<1>2. run[j].pc = "none" /\ run[j].usage = 0
  BY <1>1, StaysAwake, LeadIsNoId DEF UnusedUntilStarted
<1>3. Rests(k) \/ Charges(k) \/ Files(k)
  BY StepAccounts
<1> QED
  BY <1>2, <1>3, LeadIsNoId DEF Rests, Charges, Files

LEMMA ErrorsStayBroken ==
  ASSUME Budgeted, TypeOK, Orderly, Numbered, ErrorsBreak, NEW k \in Runs, Step(k)
  PROVE  ErrorsBreak'
<1>1. SUFFICES ASSUME NEW j \in Ids, NEW i \in DOMAIN run'[j].items, run'[j].items[i].state = "error" PROVE ~Delivers
  BY StepDoes DEF ErrorsBreak, Items, Delivers
<1>2. j \in Runs /\ j # Lead
  BY LeadIsNoId
<1>3. ASSUME NEW item \in AnyItem, Plans(k, item) PROVE ~Delivers
  <2>1. IF i \in DOMAIN run[j].items THEN run'[j].items[i] = run[j].items[i] ELSE run'[j].items[i] = item
    BY <1>2, <1>3, PlanAdds
  <2>2. item.state # "error"
    BY <1>3 DEF Plans
  <2> QED
    BY <1>1, <2>1, <2>2 DEF ErrorsBreak, Items
<1>4. CASE Works(k)
  <2>1. i \in DOMAIN run[j].items
    BY <1>2, <1>4, WorkStates
  <2>2. CASE run[j].items[i].state = "error"
    BY <2>1, <2>2 DEF ErrorsBreak, Items
  <2>3. CASE j = k /\ Finishes(k, i)
    <3>1. ~Marks(k, i, "done")
      BY <1>1, <2>3 DEF Marks
    <3> QED
      BY <1>2, <2>3, <3>1 DEF Finishes
  <2> QED
    BY <1>1, <1>2, <1>4, <2>2, <2>3, WorkStates
<1> QED
  BY <1>3, <1>4, StepDoes

LEMMA AllStayDone ==
  ASSUME Budgeted, TypeOK, Orderly, Numbered, AllDone, NEW k \in Runs, Step(k)
  PROVE  AllDone'
<1>1. SUFFICES ASSUME NEW j \in Runs, run'[j].pc = "collect", NEW i \in DOMAIN run'[j].items
               PROVE  run'[j].items[i].state = "done"
  BY DEF AllDone, Items
<1>2. ASSUME NEW item \in AnyItem, Plans(k, item) PROVE run'[j].items[i].state = "done"
  <2>1. run[j].pc = "collect" /\ j # k
    BY <1>1, <1>2, PlanAdds DEF Plans
  <2>2. run'[j].items = run[j].items
    BY <1>2, <2>1 DEF Plans, Moves
  <2> QED
    BY <1>1, <2>1, <2>2 DEF AllDone, Items
<1>3. CASE Works(k)
  <2>1. i \in DOMAIN run[j].items
    BY <1>3, WorkStates
  <2>2. CASE run[j].pc = "collect"
    <3>1. run[j].items[i].state = "done"
      BY <2>1, <2>2 DEF AllDone, Items
    <3> QED
      BY <1>3, <2>2, <3>1, WorkStates DEF Finishes, Starts
  <2>3. CASE j = k /\ Goes(k) /\ run[j].pc # "collect"
    BY <1>1, <2>1, <2>3 DEF Goes
  <2> QED
    BY <1>1, <1>3, <2>2, <2>3, WorkMoves
<1> QED
  BY <1>2, <1>3, StepDoes

LEMMA StillAnswers ==
  ASSUME Budgeted, TypeOK, Orderly, Numbered, Awaited, Answers, NEW k \in Runs, Step(k)
  PROVE  Answers'
<1>1. run'[Lead].pc # "none"
  BY StaysAwake, LeadIsNoId DEF Answers
<1>2. Active(k) /\ outcome' = outcome
  BY StepDoes, OnlyBusyStep DEF Active
<1>3. outcome = "none"
  BY <1>2, LeadWaits, RunsAreLead DEF Awaited, Active
<1> QED
  BY <1>1, <1>2, <1>3 DEF Answers

LEMMA BooksKept ==
  ASSUME Budgeted, Inv, Books, NEW k \in Runs, Step(k)
  PROVE  Books'
BY ItemsStayNumbered, RecordsStayTyped, RecordsStayMade, StaysUnused, ErrorsStayBroken, AllStayDone, StillAnswers DEF Inv, Books

-----------------------------------------------------------------------------
(* The account of a turn that may still be answered                          *)

\* What has failed or lost its browser in the middle is not answered any more.
LEMMA StaysLost ==
  ASSUME Budgeted, TypeOK, Orderly, Numbered, NEW k \in Runs, Step(k), Answerable'
  PROVE  Answerable
<1>1. /\ run'[Lead].pc # "failed" /\ (Delivers \/ run'[Lead].pc \in {"model", "answered"})
      /\ (\E item \in AnyItem : Plans(k, item)) \/ Works(k)
  BY StepDoes DEF Answerable, Delivers
<1>2. CASE run'[Lead].pc = run[Lead].pc
  BY <1>1, <1>2 DEF Answerable
<1>3. CASE k = Lead /\ Goes(k)
  BY <1>1, <1>3 DEF Answerable, Goes
<1> QED
  BY <1>1, <1>2, <1>3, PlanAdds, WorkMoves, LeadIsNoId

LEMMA AtWork ==
  ASSUME Budgeted, TypeOK, Orderly, Awaited, Answerable, NEW k \in Runs,
         run[k].pc \in {"plan", "announce", "execute", "collect"}
  PROVE  Delivers
BY LeadWaits, RunsAreLead DEF Answerable, Active

LEMMA NoItems == ASSUME NEW S, NEW s \in Seq(S), \A i \in DOMAIN s : FALSE PROVE s = <<>>
<1>1. Len(s) \in Nat /\ DOMAIN s = 1..Len(s)
  OBVIOUS
<1>2. ~(1 <= Len(s))
  BY <1>1
<1>3. Len(s) = 0
  BY <1>1, <1>2
<1> QED
  BY <1>3, EmptySeq

LEMMA ClearedKept ==
  ASSUME Budgeted, Inv, Books, Answerable, Answerable', Cleared, NEW k \in Runs, Step(k)
  PROVE  Cleared'
<1> USE DEF Inv
<1>1. SUFFICES ASSUME NEW j \in Runs, run'[j].pc \notin {"plan", "announce", "execute", "collect"}
               PROVE  run'[j].items = <<>>
  BY DEF Cleared, Items
<1>2. ASSUME NEW item \in AnyItem, Plans(k, item) PROVE run'[j].items = <<>>
  <2>1. run'[j] = run[j]
    BY <1>1, <1>2 DEF Plans, Moves
  <2> QED
    BY <1>1, <2>1 DEF Cleared, Items
<1>3. ASSUME Works(k), run'[j].pc = run[j].pc PROVE run'[j].items = <<>>
  <2>1. run[j].items = <<>>
    BY <1>1, <1>3 DEF Cleared, Items
  <2>2. \A i \in DOMAIN run'[j].items : FALSE
    BY <1>3, <2>1, WorkStates
  <2>3. run' \in [Runs -> AnyRun]
    BY <1>3 DEF Works, Goes, Tells, Finishes, Marks, Starts, Moves
  <2>4. run'[j].items \in Seq(AnyItem)
    BY <2>3 DEF AnyRun
  <2> QED
    BY <2>2, <2>4, NoItems
<1>4. ASSUME j = k, Goes(k) PROVE run'[j].items = <<>>
  <2>1. CASE run[k].pc \in {"announce", "collect", "execute"} /\ run'[k].pc = "failed"
    <3>1. Delivers /\ k # Lead
      BY <2>1, AtWork DEF Answerable
    <3>2. k \in Ids /\ \E i \in DOMAIN run[k].items : run[k].items[i].state = "error"
      BY <1>4, <2>1, <3>1, RunsAreLead DEF Goes
    <3> QED
      BY <3>1, <3>2 DEF Books, ErrorsBreak, Items
  <2>2. CASE ~(run[k].pc \in {"announce", "collect", "execute"} /\ run'[k].pc = "failed")
    <3>1. run'[k].items = <<>> \/ (run[k].pc \in {"round", "model"} /\ run'[k].items = run[k].items)
      BY <1>1, <1>4, <2>2 DEF Goes
    <3> QED
      BY <1>4, <3>1 DEF Cleared, Items
  <2> QED
    BY <2>1, <2>2
<1> QED
  BY <1>2, <1>3, <1>4, StepDoes, WorkMoves

\* What is shown to have ended stays so, unless it is announced again.
LEMMA EndStaysShown ==
  ASSUME Budgeted, TypeOK, Numbered, NEW k \in Runs, Works(k), NEW o \in Ids, view[o] = "finished",
         ~(run[k].pc = "announce" /\ More(k) /\ o = Item(k).id)
  PROVE  view'[o] = "finished"
<1>1. Tells(k) => More(k)
  BY DEF Tells
<1> QED
  BY <1>1, WorkShows DEF Shows

LEMMA RanStaysShown ==
  ASSUME Budgeted, Inv, Books, Answerable, RanIsShown, NEW k \in Runs, Step(k)
  PROVE  RanIsShown'
<1> USE DEF Inv
<1>1. SUFFICES ASSUME NEW j \in Runs, NEW i \in DOMAIN run'[j].items, Ran(j, i)'
               PROVE  view'[run'[j].items[i].id] = "finished"
  BY DEF RanIsShown, Items
<1>2. run'[j].items[i].code = "none" /\ run'[j].items[i].state = "done" /\ run'[j].pc \in {"execute", "collect"}
  BY <1>1 DEF Ran, Items
<1>3. ASSUME NEW item \in AnyItem, Plans(k, item) PROVE view'[run'[j].items[i].id] = "finished"
  <2>1. run'[j] = run[j] /\ view' = view
    BY <1>2, <1>3 DEF Plans, Moves
  <2> QED
    BY <1>1, <1>2, <2>1 DEF RanIsShown, Ran, Items
<1>4. CASE Works(k)
  <2> DEFINE o == run[j].items[i].id
  <2>1. i \in DOMAIN run[j].items /\ run'[j].items[i].id = o /\ run[j].items[i].code = "none" /\ o \in Ids
    BY <1>2, <1>4, WorkKeeps DEF Keeps, Books, ItemsNumbered, Items
  <2>2. CASE Ran(j, i)
    <3>1. view[o] = "finished" /\ run[j].pc \in {"execute", "collect"}
      BY <2>1, <2>2 DEF RanIsShown, Items, Ran
    <3>2. ~(run[k].pc = "announce" /\ More(k) /\ o = Item(k).id)
      <4>1. SUFFICES ASSUME run[k].pc = "announce", More(k), o = Item(k).id PROVE FALSE
        OBVIOUS
      <4>2. j = k
        BY <2>1, <4>1, ItemTyped, OneOwner
      <4> QED
        BY <3>1, <4>1, <4>2
    <3> QED
      BY <1>4, <2>1, <3>1, <3>2, EndStaysShown
  <2>3. CASE run[j].items[i].state # "done"
    <3>1. j = k /\ Finishes(k, i)
      BY <1>2, <1>4, <2>3, WorkStates
    <3>2. Delivers
      BY <3>1, AtWork DEF Finishes
    <3>3. Seen(o, "finished")
      <4>1. ~Marks(k, i, "error")
        BY <1>2, <3>1 DEF Marks
      <4> QED
        BY <3>1, <4>1 DEF Finishes
    <3> QED
      BY <2>1, <3>2, <3>3, SeenDoes
  <2>4. CASE run[j].items[i].state = "done" /\ ~Ran(j, i)
    <3>1. run[j].pc \notin {"execute", "collect"}
      BY <2>1, <2>4 DEF Ran, Items
    <3>2. j = k /\ Goes(k)
      BY <1>2, <1>4, <3>1, WorkMoves
    <3>3. run[j].pc = "announce"
      BY <1>2, <3>1, <3>2 DEF Goes
    <3> QED
      BY <2>1, <2>4, <3>3 DEF Orderly, Proper, Items
  <2> QED
    BY <2>2, <2>3, <2>4
<1> QED
  BY <1>3, <1>4, StepDoes

\* What is to be recorded after a step was to be recorded before it, ...
LEMMA WasToFile ==
  ASSUME Budgeted, TypeOK, NEW k \in Runs, Works(k), NEW j \in Runs, NEW i \in DOMAIN run'[j].items, ToFile(j, i)'
  PROVE  i \in DOMAIN run[j].items /\ ToFile(j, i)
<1>1. i \in DOMAIN run[j].items /\ i \in Nat /\ run[j].next \in Nat
  <2>1. i \in DOMAIN run[j].items /\ run[j].items \in Seq(AnyItem) /\ run[j] \in AnyRun
    BY WorkStates, AllTyped
  <2> QED
    BY <2>1 DEF AnyRun
<1>2. run'[j].pc \in {"plan", "announce", "execute"} \/ (run'[j].pc = "collect" /\ i >= run'[j].next)
  BY DEF ToFile
<1>3. CASE run'[j] = run[j]
  BY <1>1, <1>2, <1>3 DEF ToFile
<1>4. CASE Goes(k) /\ j = k
  BY <1>1, <1>2, <1>4 DEF Goes, ToFile
<1>5. CASE Tells(k) /\ j = k
  BY <1>1, <1>2, <1>5 DEF Tells, ToFile
<1>6. ASSUME NEW m \in DOMAIN run[k].items, Finishes(k, m) \/ Starts(k, m), j = k PROVE ToFile(j, i)
  BY <1>6 DEF Finishes, Starts, ToFile
<1>7. ASSUME NEW m \in DOMAIN run[k].items, Starts(k, m), j # k, run'[j] # run[j] PROVE FALSE
  <2>1. j = run[k].items[m].id /\ j \in Ids
    BY <1>7, RunsAreLead DEF Starts
  <2> QED
    BY <1>2, <1>7, <2>1 DEF Starts
<1> QED
  BY <1>1, <1>3, <1>4, <1>5, <1>6, <1>7 DEF Works, Goes, Tells, Finishes, Marks, Moves

\* ... and what was to be recorded still is, unless this step records it.
LEMMA StillToFile ==
  ASSUME Budgeted, TypeOK, Orderly, Cleared', NEW k \in Runs, Works(k), NEW j \in Runs, NEW i \in DOMAIN run[j].items,
         ToFile(j, i), ~(Tells(k) /\ run[k].pc = "collect" /\ j = k /\ i = run[k].next)
  PROVE  /\ i \in DOMAIN run'[j].items /\ ToFile(j, i)' /\ (Ran(j, i) => Ran(j, i)')
         /\ run'[j].items[i].id = run[j].items[i].id /\ run'[j].items[i].call = run[j].items[i].call
         /\ run'[j].items[i].code = run[j].items[i].code
<1>1. run[j].items \in Seq(AnyItem) /\ run[j] \in AnyRun
  BY AllTyped
<1>2. i \in 1..Len(run[j].items) /\ Len(run[j].items) \in Nat /\ run[j].next \in Nat
  BY <1>1 DEF AnyRun
<1>3. run[j].pc \in {"plan", "announce", "execute"} \/ (run[j].pc = "collect" /\ i >= run[j].next)
  BY DEF ToFile
<1>4. CASE run'[j] = run[j]
  BY <1>4 DEF ToFile, Ran, Items
<1>5. CASE Goes(k) /\ j = k
  <2>1. run'[k].pc # "failed" /\ ~(run[k].pc = "collect" /\ ~More(k))
    <3>1. CASE run'[k].pc = "failed" /\ run'[k].items = run[k].items
      <4>1. run'[k].items = <<>>
        BY <3>1 DEF Cleared, Items
      <4> QED
        BY <1>2, <1>5, <3>1, <4>1
    <3>2. CASE run[k].pc = "collect" /\ ~More(k)
      BY <1>2, <1>3, <1>5, <3>2 DEF More
    <3> QED
      BY <1>3, <1>5, <3>1, <3>2 DEF Goes
  <2>2. /\ run'[k].items = run[k].items
        /\ \/ run[k].pc = "plan" /\ run'[k].pc = "announce"
           \/ run[k].pc = "announce" /\ run'[k].pc = "execute"
           \/ run[k].pc = "execute" /\ run'[k].pc = "collect" /\ run'[k].next = 1
    BY <1>3, <1>5, <2>1 DEF Goes
  <2> QED
    BY <1>2, <1>5, <2>2 DEF ToFile, Ran, Items
<1>6. CASE Tells(k) /\ j = k
  BY <1>2, <1>3, <1>6 DEF Tells, ToFile, Ran, Items
<1>7. ASSUME NEW m \in DOMAIN run[k].items, Finishes(k, m), j = k
      PROVE  /\ i \in DOMAIN run'[j].items /\ ToFile(j, i)' /\ (Ran(j, i) => Ran(j, i)')
             /\ run'[j].items[i].id = run[j].items[i].id /\ run'[j].items[i].call = run[j].items[i].call
             /\ run'[j].items[i].code = run[j].items[i].code
  <2>1. PICK x \in States : Marks(k, m, x)
    BY <1>7 DEF Finishes, States
  <2>2. run[k].pc = "execute" /\ run[k].items[m].state # "done"
    BY <1>7 DEF Finishes
  <2> QED
    BY <1>7, <2>1, <2>2 DEF Marks, ToFile, Ran, Items
<1>8. ASSUME NEW m \in DOMAIN run[k].items, Starts(k, m), j = k
      PROVE  /\ i \in DOMAIN run'[j].items /\ ToFile(j, i)' /\ (Ran(j, i) => Ran(j, i)')
             /\ run'[j].items[i].id = run[j].items[i].id /\ run'[j].items[i].call = run[j].items[i].call
             /\ run'[j].items[i].code = run[j].items[i].code
  <2>1. run[k].pc = "execute" /\ run[k].items[m].state = "ready" /\ run'[k] = Marked(k, m, "child") /\ "child" \in States
    BY <1>8 DEF Starts, States
  <2>2. /\ run'[k].pc = "execute" /\ DOMAIN run'[k].items = DOMAIN run[k].items
        /\ \A o \in DOMAIN run[k].items : o # m => run'[k].items[o] = run[k].items[o]
        /\ run'[k].items[m] = State(run[k].items[m], "child")
    BY <2>1, MarkedTyped
  <2>3. run'[k].items[m].id = run[k].items[m].id /\ run'[k].items[m].call = run[k].items[m].call
        /\ run'[k].items[m].code = run[k].items[m].code
    BY <2>1, <2>2, IdsAreNumbers, StateTyped
  <2> QED
    BY <1>8, <2>1, <2>2, <2>3 DEF ToFile, Ran, Items
<1>9. ASSUME NEW m \in DOMAIN run[k].items, Starts(k, m), j # k, run'[j] # run[j] PROVE FALSE
  <2>1. j = run[k].items[m].id /\ j \in Ids
    BY <1>9, RunsAreLead DEF Starts
  <2>2. run[j].pc = "none"
    BY <1>9, <2>1 DEF Orderly, Proper, Items, Starts
  <2> QED
    BY <1>3, <2>2
<1> QED
  BY <1>4, <1>5, <1>6, <1>7, <1>8, <1>9 DEF Works, Goes, Tells, Finishes, Marks, Moves

\* What is to be recorded has no record yet, and gets one.
LEMMA NotFiledStays ==
  ASSUME Budgeted, Inv, Books, NotFiledTwice, NEW k \in Runs, Step(k)
  PROVE  NotFiledTwice'
<1> USE DEF Inv
<1>1. ASSUME NEW item \in AnyItem, Planning(k, item) PROVE NotFiledTwice'
  <2>1. records' = records /\ Plans(k, item)
    BY <1>1 DEF Planning, Rests
  <2>2. ASSUME NEW j \in Runs, NEW i \in DOMAIN run'[j].items, ToFile(j, i)' PROVE run'[j].items[i].id \notin Filed
    <3>1. CASE j # k
      <4>1. run'[j] = run[j]
        BY <2>1, <3>1 DEF Plans, Moves
      <4> QED
        BY <2>2, <4>1 DEF NotFiledTwice, ToFile, Items
    <3>2. CASE j = k /\ i \in DOMAIN run[k].items
      <4>1. run'[k].items[i] = run[k].items[i] /\ run[k].pc = "plan"
        BY <2>1, <3>2, PlanAdds DEF Plans
      <4> QED
        BY <3>2, <4>1 DEF NotFiledTwice, ToFile, Items
    <3>3. CASE j = k /\ i \notin DOMAIN run[k].items
      <4>1. run'[j].items[i] = item /\ item.id = seq + 1 /\ seq \in Nat
        <5>1. item.id = seq + 1 /\ seq \in Nat
          BY <2>1 DEF Plans, TypeOK
        <5>2. run'[j].items[i] = item
          BY <2>1, <2>2, <3>3, PlanAdds
        <5> QED
          BY <5>1, <5>2
      <4>2. \A m \in DOMAIN records : records[m].id <= seq
        BY DEF Books, RecordsMade
      <4> QED
        BY <4>1, <4>2 DEF Filed
    <3> QED
      BY <3>1, <3>2, <3>3
  <2> QED
    BY <2>1, <2>2 DEF NotFiledTwice, Filed, Items
<1>2. CASE Plain(k)
  <2>1. records' = records /\ Works(k)
    BY <1>2 DEF Plain, Rests, Charges
  <2>2. ASSUME NEW j \in Runs, NEW i \in DOMAIN run'[j].items, ToFile(j, i)' PROVE run'[j].items[i].id \notin Filed
    <3>1. i \in DOMAIN run[j].items /\ ToFile(j, i) /\ run'[j].items[i].id = run[j].items[i].id
      BY <2>1, <2>2, WasToFile, WorkKeeps DEF Keeps
    <3> QED
      BY <3>1 DEF NotFiledTwice, Items
  <2> QED
    BY <2>1, <2>2 DEF NotFiledTwice, Filed, Items
<1>3. CASE Filing(k)
  <2> DEFINE x == Item(k).id
             n == Len(records) + 1
  <2>1. /\ Filed' = Filed \union {x} /\ x \in Ids /\ Item(k) = run[k].items[run[k].next]
        /\ run[k].next \in DOMAIN run[k].items
        /\ DOMAIN records' = DOMAIN records \union {n} /\ \A i \in DOMAIN records : records'[i] = records[i]
        /\ records'[n].id = x
    BY <1>3, FiledMore DEF Books
  <2>2. Works(k) /\ run[k].pc = "collect" /\ run'[k].pc = "collect" /\ Tells(k)
    BY <1>3, FilingWorks DEF Filing
  <2>3. x \notin Filed
    <3>1. ToFile(k, run[k].next)
      BY <2>2, AllTyped DEF ToFile, AnyRun
    <3> QED
      BY <2>1, <3>1 DEF NotFiledTwice, Items
  <2>4. ASSUME NEW j \in Runs, NEW i \in DOMAIN run'[j].items, ToFile(j, i)' PROVE run'[j].items[i].id \notin Filed'
    <3>1. i \in DOMAIN run[j].items /\ ToFile(j, i) /\ run'[j].items[i].id = run[j].items[i].id
      BY <2>2, <2>4, WasToFile, WorkKeeps DEF Keeps
    <3>2. run[j].items[i].id \notin Filed
      BY <3>1 DEF NotFiledTwice, Items
    <3>3. run[j].items[i].id # x
      <4>1. SUFFICES ASSUME run[j].items[i].id = x PROVE FALSE
        OBVIOUS
      <4>2. j = k /\ i = run[k].next
        BY <2>1, <3>1, <4>1, OneOwner
      <4>3. run'[k].next = run[k].next + 1 /\ run[k].next \in Nat /\ i >= run'[k].next
        BY <2>2, <2>4, <4>2, AllTyped DEF Tells, ToFile, AnyRun
      <4> QED
        BY <4>2, <4>3
    <3> QED
      BY <2>1, <3>1, <3>2, <3>3
  <2>5. ASSUME NEW i \in DOMAIN records', NEW j \in DOMAIN records', i # j PROVE records'[i].id # records'[j].id
    <3>1. \A m \in DOMAIN records : records[m].id \in Filed
      BY DEF Filed
    <3> HIDE DEF x, n
    <3> QED
      BY <2>1, <2>3, <2>5, <3>1 DEF NotFiledTwice
  <2> QED
    BY <2>4, <2>5 DEF NotFiledTwice, Items
<1> QED
  BY <1>1, <1>2, <1>3, StepKinds DEF Books

LEMMA FiledStaysShown ==
  ASSUME Budgeted, Inv, Books, Answerable, RanIsShown, NotFiledTwice, FiledIsShown, NEW k \in Runs, Step(k)
  PROVE  FiledIsShown'
<1> USE DEF Inv
<1>1. Filed \subseteq Ids
  <2>1. ASSUME NEW i \in DOMAIN records PROVE records[i].id \in Ids
    <3>1. records[i] \in AnyRecord
      BY DEF Books, RecordsTyped
    <3> QED
      BY <3>1 DEF AnyRecord
  <2> QED
    BY <2>1 DEF Filed
<1>2. ASSUME NEW id \in Filed, Works(k) PROVE view'[id] = "finished"
  <2>1. ~(run[k].pc = "announce" /\ More(k) /\ id = Item(k).id)
    BY ItemTyped DEF NotFiledTwice, ToFile, Items
  <2> QED
    BY <1>1, <1>2, <2>1, EndStaysShown DEF FiledIsShown
<1>3. ASSUME NEW item \in AnyItem, Planning(k, item) PROVE FiledIsShown'
  BY <1>3 DEF Planning, Plans, Rests, FiledIsShown, Filed
<1>4. CASE Plain(k)
  BY <1>2, <1>4 DEF Plain, Rests, Charges, FiledIsShown, Filed
<1>5. CASE Filing(k)
  <2> DEFINE x == Item(k).id
  <2>1. /\ Filed' = Filed \union {x} /\ x \in Ids /\ Item(k) = run[k].items[run[k].next]
        /\ run[k].next \in DOMAIN run[k].items
    BY <1>5, FiledMore DEF Books
  <2>2. Works(k) /\ run[k].pc = "collect" /\ Tells(k) /\ (Item(k).code # "none" => Delivers)
    BY <1>5, FilingWorks DEF Filing, Files
  <2>3. CASE Item(k).code # "none"
    <3>1. Seen(x, "finished") /\ Delivers
      BY <2>2, <2>3 DEF Tells
    <3>2. view'[x] = "finished"
      BY <2>1, <3>1, SeenDoes
    <3> QED
      BY <1>2, <2>1, <2>2, <3>2 DEF FiledIsShown
  <2>4. CASE Item(k).code = "none"
    <3>1. Item(k).state = "done"
      BY <2>1, <2>2 DEF Books, AllDone, Items
    <3>2. view[x] = "finished"
      BY <2>1, <2>2, <2>4, <3>1 DEF RanIsShown, Ran, Items
    <3>3. view'[x] = "finished"
      BY <2>1, <2>2, <3>2, EndStaysShown
    <3> QED
      BY <1>2, <2>1, <2>2, <3>3 DEF FiledIsShown
  <2> QED
    BY <2>3, <2>4
<1> QED
  BY <1>3, <1>4, <1>5, StepKinds DEF Books

LEMMA ShownIsStillFiled ==
  ASSUME Budgeted, Inv, Books, Answerable, Cleared', ShownIsFiled, NEW k \in Runs, Step(k)
  PROVE  ShownIsFiled'
<1> USE DEF Inv
<1>1. SUFFICES ASSUME NEW id \in Ids, view'[id] = "finished", id \notin Filed'
               PROVE  \E p \in Runs : p = parent'[id] /\ WaitsFor(p, id)'
  BY DEF ShownIsFiled
<1>2. Filed \subseteq Filed'
  <2>1. CASE records' = records
    BY <2>1 DEF Filed
  <2> QED
    BY <2>1, StepKinds, FiledMore DEF Books, Planning, Plain, Rests, Charges
<1>3. PICK p \in Runs : p = parent[id]
  BY DEF TypeOK
<1>4. view[id] = "finished" => \E i \in DOMAIN run[p].items : run[p].items[i].id = id /\ Ran(p, i) /\ ToFile(p, i)
  BY <1>1, <1>2, <1>3 DEF ShownIsFiled, WaitsFor, Items
<1>5. ASSUME NEW item \in AnyItem, Planning(k, item) PROVE p = parent'[id] /\ WaitsFor(p, id)'
  <2>1. Plans(k, item) /\ view' = view /\ run[k].pc = "plan"
    BY <1>5 DEF Planning, Plans
  <2>2. parent'[id] = p
    <3>1. id <= seq /\ seq \in Nat /\ id \in Nat
      BY <1>1, <2>1, LeadIsNoId DEF Numbered, TypeOK
    <3> QED
      BY <1>3, <2>1, <3>1, PlanAdds
  <2>3. PICK i \in DOMAIN run[p].items : run[p].items[i].id = id /\ Ran(p, i) /\ ToFile(p, i)
    BY <1>1, <1>4, <2>1
  <2>4. p # k
    BY <2>1, <2>3 DEF Ran
  <2>5. run'[p] = run[p]
    BY <2>1, <2>4 DEF Plans, Moves
  <2> QED
    BY <2>2, <2>3, <2>5 DEF WaitsFor, Ran, ToFile, Items
<1>6. ASSUME Plain(k) \/ Filing(k) PROVE p = parent'[id] /\ WaitsFor(p, id)'
  <2>1. Works(k) /\ p = parent'[id]
    BY <1>3, <1>6, FilingWorks DEF Plain, Filing
  <2>2. Tells(k) /\ run[k].pc = "collect" => /\ Item(k).id \in Filed'
                                             /\ run[k].next \in DOMAIN run[k].items /\ Item(k) = run[k].items[run[k].next]
    BY <1>6, FiledMore DEF Plain, Books
  <2>3. CASE view[id] = "finished"
    <3>1. PICK i \in DOMAIN run[p].items : run[p].items[i].id = id /\ Ran(p, i) /\ ToFile(p, i)
      BY <1>4, <2>3
    <3>2. ~(Tells(k) /\ run[k].pc = "collect" /\ p = k /\ i = run[k].next)
      BY <1>1, <2>2, <3>1
    <3>3. i \in DOMAIN run'[p].items /\ ToFile(p, i)' /\ Ran(p, i)' /\ run'[p].items[i].id = id
      BY <2>1, <3>1, <3>2, StillToFile
    <3> QED
      BY <2>1, <3>3 DEF WaitsFor, Items
  <2>4. CASE view[id] # "finished"
    <3>1. p = k /\ view'[id] # view[id]
      <4>1. Shows(k)
        BY <2>1, WorkShows
      <4> QED
        BY <1>1, <1>3, <2>4, <4>1 DEF Shows
    <3>2. PICK m \in DOMAIN run[k].items : Finishes(k, m)
      <4>1. ~Tells(k)
        <5>1. SUFFICES ASSUME Tells(k) PROVE FALSE
          OBVIOUS
        <5>2. CASE run[k].pc = "announce"
          BY <1>1, <2>1, <3>1, <5>1, <5>2, ItemTyped, SeenDoes DEF Tells
        <5>3. CASE run[k].pc = "collect"
          <6>1. id # Item(k).id
            BY <1>1, <2>2, <5>1, <5>3
          <6> QED
            BY <3>1, <5>1, <5>3, <6>1, SeenDoes DEF Tells
        <5> QED
          BY <5>1, <5>2, <5>3 DEF Tells
      <4> QED
        BY <2>1, <3>1, <4>1 DEF Works, Goes, Starts
    <3>3. run[k].pc = "execute" /\ Seen(run[k].items[m].id, "finished") /\ Marks(k, m, IF Delivers THEN "done" ELSE "error")
      BY <3>1, <3>2 DEF Finishes
    <3>4. id = run[k].items[m].id /\ Delivers
      BY <3>1, <3>3, SeenDoes
    <3>5. run[k].items[m].code = "none"
      BY <3>2 DEF Orderly, Proper, Items, Finishes
    <3>6. /\ m \in DOMAIN run'[k].items /\ run'[k].items[m].id = id /\ run'[k].items[m].code = "none"
          /\ run'[k].items[m].state = "done" /\ run'[k].pc = "execute"
      BY <3>3, <3>4, <3>5 DEF Marks
    <3> QED
      BY <2>1, <3>1, <3>6 DEF WaitsFor, Ran, ToFile, Items
  <2> QED
    BY <2>3, <2>4
<1> QED
  BY <1>5, <1>6, StepKinds DEF Books


\* A specialist is started from a call that is executed, and gets a record.
LEMMA StartedIsStillFiled ==
  ASSUME Budgeted, Inv, Books, Cleared', StartedIsFiled, NEW k \in Runs, Step(k)
  PROVE  StartedIsFiled'
<1> USE DEF Inv
<1>1. SUFFICES ASSUME NEW o \in Ids, run'[o].pc # "none"
               PROVE  \/ \E i \in DOMAIN records' : records'[i].id = o /\ records'[i].run
                      \/ \E i \in DOMAIN run'[Lead].items :
                           run'[Lead].items[i].id = o /\ Delegated(run'[Lead].items[i]) /\ ToFile(Lead, i)'
  BY DEF StartedIsFiled, Items
<1>2. Lead \in Runs /\ o \in Runs
  BY LeadIsNoId
<1>3. run[o].pc # "none" =>
        \/ \E i \in DOMAIN records : records[i].id = o /\ records[i].run
        \/ \E i \in DOMAIN run[Lead].items :
             run[Lead].items[i].id = o /\ Delegated(run[Lead].items[i]) /\ ToFile(Lead, i)
  BY DEF StartedIsFiled, Items
<1>4. CASE \E i \in DOMAIN records : records[i].id = o /\ records[i].run
  <2>1. PICK i \in DOMAIN records : records[i].id = o /\ records[i].run
    BY <1>4
  <2>2. i \in DOMAIN records' /\ records'[i] = records[i]
    <3>1. CASE records' = records
      BY <3>1
    <3> QED
      BY <3>1, StepKinds, FiledMore DEF Books, Planning, Plain, Rests, Charges
  <2> QED
    BY <2>1, <2>2
<1>5. ASSUME NEW i \in DOMAIN run[Lead].items, run[Lead].items[i].id = o, Delegated(run[Lead].items[i]), ToFile(Lead, i)
      PROVE  \/ \E n \in DOMAIN records' : records'[n].id = o /\ records'[n].run
             \/ \E n \in DOMAIN run'[Lead].items :
                  run'[Lead].items[n].id = o /\ Delegated(run'[Lead].items[n]) /\ ToFile(Lead, n)'
  <2>1. ASSUME NEW item \in AnyItem, Plans(k, item)
        PROVE  i \in DOMAIN run'[Lead].items /\ run'[Lead].items[i] = run[Lead].items[i] /\ ToFile(Lead, i)'
    <3>1. CASE k = Lead
      <4>1. run[Lead].items \in Seq(AnyItem)
        BY AllTyped, LeadIsNoId
      <4>2. run'[Lead].items = Append(run[Lead].items, item) /\ run'[Lead].pc = "plan"
        BY <2>1, <3>1 DEF Plans
      <4>3. i \in DOMAIN run'[Lead].items /\ run'[Lead].items[i] = run[Lead].items[i]
        BY <1>5, <4>1, <4>2
      <4> QED
        BY <4>2, <4>3 DEF ToFile
    <3>2. CASE k # Lead
      <4>1. run'[Lead] = run[Lead]
        BY <1>2, <2>1, <3>2 DEF Plans, Moves
      <4> QED
        BY <1>5, <4>1 DEF ToFile
    <3> QED
      BY <3>1, <3>2
  <2>2. ASSUME Works(k), ~(Tells(k) /\ run[k].pc = "collect" /\ Lead = k /\ i = run[k].next)
        PROVE  /\ i \in DOMAIN run'[Lead].items /\ ToFile(Lead, i)' /\ run'[Lead].items[i].id = o
               /\ Delegated(run'[Lead].items[i])
    BY <1>2, <1>5, <2>2, StillToFile DEF Delegated
  <2>3. CASE Filing(k) /\ Lead = k /\ i = run[k].next
    <3>1. LET r == records'[Len(records) + 1] IN r.id = o /\ r.run = Delegated(run[Lead].items[i])
      BY <1>5, <2>3, FiledMore DEF Books
    <3>2. Len(records) + 1 \in DOMAIN records'
      BY <2>3, FiledMore DEF Books
    <3> QED
      BY <1>5, <3>1, <3>2
  <2>4. CASE \E item \in AnyItem : Planning(k, item)
    BY <1>5, <2>1, <2>4 DEF Planning
  <2>5. CASE Plain(k)
    BY <2>2, <2>5 DEF Plain
  <2>6. CASE Filing(k) /\ ~(Lead = k /\ i = run[k].next)
    BY <2>2, <2>6, FilingWorks
  <2> QED
    BY <2>3, <2>4, <2>5, <2>6, StepKinds DEF Books
<1>6. CASE run[o].pc = "none"
  <2>1. Works(k)
    BY <1>1, <1>2, <1>6, StepDoes, PlanAdds
  <2>2. PICK i \in DOMAIN run[k].items : Starts(k, i) /\ run[k].items[i].id = o
    BY <1>1, <1>2, <1>6, <2>1, WorkMoves, OnlyBusyStep
  <2>3. k = Lead /\ run[k].pc = "execute" /\ run[k].items[i].state = "ready" /\ run[k].items[i].call \in Tasks
    BY <2>2 DEF Starts
  <2>4. Delegated(run[Lead].items[i]) /\ ToFile(Lead, i)
    BY <1>2, <2>3 DEF Orderly, Proper, Items, Delegated, ToFile
  <2> QED
    BY <1>5, <2>2, <2>3, <2>4
<1> QED
  BY <1>3, <1>4, <1>5, <1>6

LEMMA IdsAreAnInterval == Budgeted => Last \in Nat /\ Ids = 1..Last
<1>1. SUFFICES ASSUME Budgeted PROVE Last \in Nat /\ Ids = 1..Last
  OBVIOUS
<1>2. \A a, b \in Nat : a * b \in Nat
  OBVIOUS
<1>3. MaxRounds * MaxPerRound \in Nat /\ 1 + MaxDelegations * ChildRounds \in Nat
  BY <1>1, <1>2 DEF Budgeted
<1> QED
  BY <1>2, <1>3 DEF Last, Ids

LEMMA OwesTyped ==
  ASSUME Budgeted, TypeOK
  PROVE  \A n \in Nat : Owes[n] \in Nat /\ Owes[n] = IF n \in Ids /\ n \notin Filed THEN run[n].usage ELSE 0
<1>1. \A n \in Ids : run[n].usage \in Nat
  BY LeadIsNoId DEF TypeOK, AnyRun
<1> QED
  BY <1>1 DEF Owes

LEMMA RecordsUse ==
  ASSUME RecordsTyped
  PROVE  UsageIn(records) \in Nat /\ \A r \in AnyRecord : UsageIn(Append(records, r)) = UsageIn(records) + r.usage
<1>1. \A r \in AnyRecord : r.usage \in Nat
  BY DEF AnyRecord
<1>2. records \in Seq(AnyRecord)
  BY DEF RecordsTyped
<1>3. UsageIn(records) \in Nat
  <2>1. CASE records = <<>>
    BY <2>1, UsageOfNothing
  <2>2. CASE records # <<>>
    <3>1. records[1] \in AnyRecord
      BY <1>2, <2>2
    <3> QED
      BY <1>1, <1>2, <3>1, UsageAppends
  <2> QED
    BY <2>1, <2>2
<1> QED
  BY <1>1, <1>2, <1>3, UsageAppends

\* Whatever a specialist uses is charged to the turn at once, and accounted for
\* to the call that started it until the record of that call takes it over.
LEMMA StillBalanced ==
  ASSUME Budgeted, Inv, Inv', Books, NotFiledTwice, StartedIsFiled, Balanced, NEW k \in Runs, Step(k)
  PROVE  Balanced'
<1> USE DEF Inv
<1> DEFINE f == Owes
           g == Owes'
           b == budget.usage
           l == run[Lead].usage
           s == UsageIn(records)
           t == Total(f, Last)
<1>1. /\ \A n \in Nat : f[n] \in Nat /\ f[n] = IF n \in Ids /\ n \notin Filed THEN run[n].usage ELSE 0
      /\ \A n \in Nat : g[n] \in Nat /\ g[n] = IF n \in Ids /\ n \notin Filed' THEN run'[n].usage ELSE 0
  <2>1. \A n \in Nat : f[n] \in Nat /\ f[n] = IF n \in Ids /\ n \notin Filed THEN run[n].usage ELSE 0
    BY OwesTyped
  <2>2. \A n \in Ids : run'[n].usage \in Nat
    BY LeadIsNoId DEF TypeOK, AnyRun
  <2>3. \A n \in Nat : g[n] \in Nat /\ g[n] = IF n \in Ids /\ n \notin Filed' THEN run'[n].usage ELSE 0
    BY <2>2 DEF Owes
  <2> QED
    BY <2>1, <2>3
<1>2. /\ Last \in Nat /\ Ids = 1..Last /\ Lead \in Runs /\ Lead \notin Ids /\ Ids \subseteq Runs /\ Ids \subseteq Nat
      /\ \A j \in Runs : run[j].usage \in Nat
      /\ s \in Nat /\ b \in Nat /\ l \in Nat
  BY IdsAreAnInterval, LeadIsNoId, RecordsUse DEF TypeOK, AnyRun, Books
<1> HIDE DEF f, g
<1>0. (\A n \in Nat : f[n] \in Nat) /\ (\A n \in Nat : g[n] \in Nat)
  BY <1>1
<1>9. Last \in Nat
  BY <1>2
<1>3. t \in Nat
  BY <1>1, <1>2, Totals
<1>4. b = l + s + t
  BY DEF Balanced, f
<1>5. Balanced' <=> budget'.usage = run'[Lead].usage + UsageIn(records') + Total(g, Last)
  BY DEF Balanced, g, Last
<1>6. CASE Rests(k)
  <2>1. Filed' = Filed /\ records' = records /\ budget'.usage = b
    BY <1>6 DEF Rests, Filed
  <2>2. \A j \in Runs : run'[j].usage = run[j].usage
    BY <1>6 DEF Rests, Books, UnusedUntilStarted
  <2>3. \A n \in Nat : g[n] = f[n]
    BY <1>1, <1>2, <2>1, <2>2
  <2>4. Total(g, Last) = t
    BY <1>1, <1>2, <2>3, TotalSame
  <2> QED
    BY <1>2, <1>4, <1>5, <2>1, <2>2, <2>4
<1>7. CASE Charges(k)
  <2>1. /\ Filed' = Filed /\ records' = records /\ budget'.usage = b + 1 /\ run[k].pc = "model"
        /\ run'[k].usage = run[k].usage + 1 /\ \A j \in Runs : j # k => run'[j].usage = run[j].usage
    BY <1>7 DEF Charges, Filed
  <2>2. CASE k = Lead
    <3>1. \A n \in Nat : g[n] = f[n]
      BY <1>1, <1>2, <2>1, <2>2
    <3>2. Total(g, Last) = t
      BY <1>1, <1>2, <3>1, TotalSame
    <3>3. run'[Lead].usage = l + 1 /\ UsageIn(records') = s /\ budget'.usage = b + 1
      BY <2>1, <2>2
    <3> QED
      BY <1>2, <1>3, <1>4, <1>5, <3>2, <3>3
  <2>3. CASE k # Lead
    <3>1. k \in Ids /\ Active(k) /\ k \in Nat
      BY <1>2, <2>1, <2>3, RunsAreLead DEF Active
    <3>2. k \notin Filed
      <4>1. PICK i \in DOMAIN run[Lead].items : run[Lead].items[i].id = k /\ run[Lead].pc = "execute"
        BY <3>1, LeadWaits
      <4>2. ToFile(Lead, i)
        BY <4>1 DEF ToFile
      <4> QED
        BY <1>2, <4>1, <4>2 DEF NotFiledTwice, Items
    <3>3. f[k] = run[k].usage /\ g[k] = f[k] + 1
      BY <1>1, <2>1, <3>1, <3>2
    <3>4. ASSUME NEW n \in 1..Last, n # k PROVE g[n] = f[n]
      <4>1. n \in Nat /\ n \in Runs
        BY <1>2
      <4>2. run'[n].usage = run[n].usage
        BY <2>1, <3>4, <4>1
      <4> QED
        BY <1>1, <2>1, <4>1, <4>2
    <3>5. k \in 1..Last
      BY <1>2, <3>1
    <3>6. Total(g, Last) + f[k] = t + g[k]
      BY <1>0, <1>9, <3>4, <3>5, TotalMoves
    <3>7. Total(g, Last) = t + 1
      <4>1. Total(g, Last) \in Nat
        BY <1>1, <1>2, Totals
      <4>2. f[k] \in Nat
        BY <1>1, <3>1
      <4> QED
        BY <1>3, <3>3, <3>6, <4>1, <4>2
    <3>8. run'[Lead].usage = l /\ UsageIn(records') = s /\ budget'.usage = b + 1
      BY <1>2, <2>1, <2>3
    <3>9. b + 1 = l + s + (t + 1)
      <4> HIDE DEF b, l, s, t
      <4> QED
        BY <1>2, <1>3, <1>4
    <3> QED
      BY <1>5, <3>7, <3>8, <3>9
  <2> QED
    BY <2>2, <2>3
<1>8. CASE Filing(k)
  <2> DEFINE c == Item(k).id
             u == UsageOf(k, Item(k))
  <2>1. /\ Filed' = Filed \union {c} /\ c \in Ids /\ Item(k) = run[k].items[run[k].next]
        /\ run[k].next \in DOMAIN run[k].items
    BY <1>8, FiledMore DEF Books
  <2>2. /\ run[k].pc = "collect" /\ budget'.usage = b /\ \A j \in Runs : run'[j].usage = run[j].usage
    BY <1>8 DEF Filing, Files
  <2>3. records' = Append(records, RecordOf(k)) /\ RecordOf(k) \in AnyRecord /\ RecordOf(k).usage = u
    BY <1>8, RecordTyped DEF Filing, Files, Books
  <2>4. UsageIn(records') = s + u /\ u \in Nat
    <3>1. u \in Nat
      BY <2>3 DEF AnyRecord
    <3> QED
      BY <2>3, <3>1, RecordsUse DEF Books
  <2>5. c \notin Filed
    <3>1. ToFile(k, run[k].next)
      BY <2>2, AllTyped DEF ToFile, AnyRun
    <3> QED
      BY <2>1, <3>1 DEF NotFiledTwice, Items
  <2>6. u = run[c].usage
    <3>1. CASE Delegated(Item(k))
      BY <3>1 DEF UsageOf
    <3>2. CASE ~Delegated(Item(k))
      <4>1. run[c].pc = "none"
        <5>1. SUFFICES ASSUME run[c].pc # "none" PROVE FALSE
          OBVIOUS
        <5>2. \A i \in DOMAIN records : records[i].id # c
          BY <2>5 DEF Filed
        <5>3. PICK i \in DOMAIN run[Lead].items : run[Lead].items[i].id = c /\ Delegated(run[Lead].items[i])
          BY <2>1, <5>1, <5>2 DEF StartedIsFiled, Items
        <5>4. Lead = k /\ i = run[k].next
          BY <1>2, <2>1, <5>3, OneOwner
        <5> QED
          BY <2>1, <3>2, <5>3, <5>4
      <4> QED
        BY <2>1, <3>2, <4>1 DEF UsageOf, Books, UnusedUntilStarted
    <3> QED
      BY <3>1, <3>2
  <2> HIDE DEF c, u
  <2>7. f[c] = u /\ g[c] = 0 /\ c \in Nat
    BY <1>1, <1>2, <2>1, <2>5, <2>6
  <2>8. ASSUME NEW n \in 1..Last, n # c PROVE g[n] = f[n]
    <3>1. n \in Nat /\ n \in Runs
      BY <1>2
    <3>2. run'[n].usage = run[n].usage /\ (n \in Filed' <=> n \in Filed)
      BY <2>1, <2>2, <2>8, <3>1
    <3> QED
      BY <1>1, <3>1, <3>2
  <2>9. c \in 1..Last
    BY <1>2, <2>1
  <2>10. Total(g, Last) + f[c] = t + g[c]
    BY <1>0, <1>9, <2>8, <2>9, TotalMoves
  <2>11. Total(g, Last) \in Nat
    BY <1>1, <1>2, Totals
  <2>12. run'[Lead].usage = l
    BY <1>2, <2>2
  <2>13. Total(g, Last) + u = t
    BY <1>3, <2>7, <2>10
  <2>14. b = l + (s + u) + Total(g, Last)
    <3> DEFINE q == Total(g, Last)
    <3>1. q \in Nat /\ q + u = t
      BY <2>11, <2>13
    <3> HIDE DEF b, l, s, t, q
    <3>2. b = l + (s + u) + q
      BY <1>2, <1>3, <1>4, <2>4, <3>1
    <3> QED
      BY <3>2 DEF q
  <2> QED
    BY <1>5, <2>2, <2>4, <2>12, <2>14
<1> QED
  BY <1>6, <1>7, <1>8, StepKinds DEF Planning, Plain, Books

LEMMA AccountStays ==
  ASSUME Budgeted, AccountInv, NEW k \in Runs, Step(k)
  PROVE  AccountInv'
<1> USE DEF AccountInv
<1>1. Inv'
  BY TypesKept, SpentKept, NumberedKept, OrderlyKept, AnnouncedKept, RunningKept, AwaitedKept, ShownKept DEF Inv
<1>2. Books'
  BY BooksKept
<1>3. ASSUME Answerable' PROVE Account'
  <2>1. Answerable /\ Account
    BY <1>3, StaysLost DEF Inv, Books
  <2>2. Cleared'
    BY <1>3, <2>1, ClearedKept DEF Account
  <2>3. RanIsShown' /\ NotFiledTwice' /\ FiledIsShown'
    BY <2>1, RanStaysShown, NotFiledStays, FiledStaysShown DEF Account
  <2>4. ShownIsFiled' /\ StartedIsFiled'
    BY <2>1, <2>2, ShownIsStillFiled, StartedIsStillFiled DEF Account
  <2>5. Balanced'
    BY <1>1, <2>1, StillBalanced DEF Account
  <2> QED
    BY <2>2, <2>3, <2>4, <2>5 DEF Account
<1> QED
  BY <1>1, <1>2, <1>3

LEMMA AccountAround ==
  ASSUME Budgeted, AccountInv, EndTurn \/ BrowserGone \/ TimeIsUp \/ UNCHANGED vars
  PROVE  AccountInv'
<1> USE DEF AccountInv
<1>1. UNCHANGED <<budget, run, parent, seq, records, view>> /\ (Delivers' => Delivers)
  BY DEF EndTurn, BrowserGone, TimeIsUp, vars, Delivers
<1>2. Inv'
  BY AroundKept
<1>3. ItemsNumbered' /\ RecordsTyped' /\ RecordsMade' /\ UnusedUntilStarted' /\ ErrorsBreak' /\ AllDone'
  BY <1>1 DEF Books, ItemsNumbered, RecordsTyped, RecordsMade, UnusedUntilStarted, ErrorsBreak, AllDone, Items
<1>4. Answers'
  <2>1. outcome' = "answered" => run[Lead].pc = "answered"
    <3>1. CASE EndTurn
      BY <3>1 DEF EndTurn, Active, Books, Answers
    <3>2. CASE ~EndTurn
      <4>1. outcome' = outcome
        BY <3>2 DEF BrowserGone, TimeIsUp, vars
      <4> QED
        BY <4>1 DEF Books, Answers
    <3> QED
      BY <3>1, <3>2
  <2> QED
    BY <1>1, <2>1 DEF Books, Answers
<1>5. ASSUME Answerable' PROVE Account'
  <2>1. Account
    BY <1>1, <1>5 DEF Answerable
  <2>2. Cleared' /\ RanIsShown' /\ Filed' = Filed
    BY <1>1, <2>1 DEF Account, Cleared, RanIsShown, Ran, Items, Filed
  <2>3. NotFiledTwice' /\ FiledIsShown'
    BY <1>1, <2>1, <2>2 DEF Account, NotFiledTwice, FiledIsShown, ToFile, Items
  <2>4. ShownIsFiled'
    BY <1>1, <2>1, <2>2 DEF Account, ShownIsFiled, WaitsFor, Ran, ToFile, Items
  <2>5. StartedIsFiled'
    BY <1>1, <2>1 DEF Account, StartedIsFiled, ToFile, Items
  <2>6. Balanced'
    <3>1. Owes' = Owes
      BY <1>1, <2>2 DEF Owes
    <3> QED
      BY <1>1, <2>1, <3>1 DEF Account, Balanced, Last
  <2> QED
    BY <2>2, <2>3, <2>4, <2>5, <2>6 DEF Account
<1> QED
  BY <1>2, <1>3, <1>4, <1>5 DEF Books

LEMMA AccountOpens == ASSUME Budgeted, Init PROVE AccountInv
<1>1. \A k \in Runs : run[k].items = <<>> /\ run[k].usage = 0
  BY DEF Init, Idle
<1>2. run[Lead].pc = "round" /\ \A k \in Ids : run[k].pc = "none" /\ view[k] = "none"
  BY LeadIsNoId DEF Init, Idle
<1>3. records = <<>> /\ budget.usage = 0 /\ outcome = "none"
  BY DEF Init
<1>4. records \in Seq(AnyRecord) /\ DOMAIN records = {} /\ Filed = {}
  BY <1>3 DEF Filed
<1>5. Books
  BY <1>1, <1>2, <1>3, <1>4 DEF Books, ItemsNumbered, RecordsTyped, RecordsMade, UnusedUntilStarted, ErrorsBreak, AllDone,
     Answers, Items, Runs
<1>6. Cleared /\ RanIsShown /\ NotFiledTwice /\ FiledIsShown /\ ShownIsFiled /\ StartedIsFiled
  BY <1>1, <1>2, <1>4 DEF Cleared, RanIsShown, NotFiledTwice, FiledIsShown, ShownIsFiled, StartedIsFiled, Items
<1>7. Balanced
  <2> DEFINE f == Owes
  <2>1. Last \in Nat /\ Ids = 1..Last /\ Lead \in Runs /\ Ids \subseteq Runs
    BY IdsAreAnInterval, LeadIsNoId
  <2>2. \A n \in Nat : f[n] = 0
    BY <1>1, <2>1 DEF Owes
  <2>3. (\A n \in Nat : f[n] \in Nat) /\ \A n \in 1..Last : f[n] = 0
    BY <2>1, <2>2
  <2> HIDE DEF f
  <2>4. Total(f, Last) = 0
    BY <2>1, <2>3, TotalOfNothing
  <2> QED
    BY <1>1, <1>3, <2>1, <2>4, UsageOfNothing DEF Balanced, f
<1> QED
  BY <1>5, <1>6, <1>7, InitHolds DEF AccountInv, Account

\* However many specialists a turn has, however their calls interleave and
\* whatever of them fails: an answer is charged with what its agents have used,
\* failed ones included, and what is stored with it is what the browser was
\* told, each call once and below the specialist that made it.
THEOREM TurnsAddUp == ASSUME Budgeted PROVE Spec => []TurnIsAccounted
<1>1. Init => AccountInv
  BY AccountOpens
<1>2. AccountInv /\ [Next]_vars => AccountInv'
  BY AccountStays, AccountAround DEF Next
<1>3. ASSUME AccountInv PROVE TurnIsAccounted
  <2>1. SUFFICES ASSUME outcome = "answered"
                 PROVE  /\ budget.usage = run[Lead].usage + UsageIn(records)
                        /\ {records[i].id : i \in DOMAIN records} = {id \in Ids : view[id] = "finished"}
                        /\ \A i, j \in DOMAIN records : i # j => records[i].id # records[j].id
                        /\ \A i \in DOMAIN records : records[i].parent # Lead =>
                             \E j \in DOMAIN records : records[j].id = records[i].parent /\ records[j].run
    BY DEF TurnIsAccounted, UsageAddsUp, RecordsMatchView
  <2>2. run[Lead].pc = "answered" /\ Inv /\ Books
    BY <1>3, <2>1 DEF AccountInv, Books, Answers
  <2>3. Account
    BY <1>3, <2>2 DEF AccountInv, Answerable
  <2>4. \A k \in Runs : run[k].pc \in {"none", "answered", "failed"}
    <3>1. \A k \in Ids : ~Active(k)
      BY <2>2, LeadWaits DEF Inv
    <3> QED
      BY <2>2, <3>1, RunsAreLead DEF Active
  <2>5. \A k \in Runs : \A i \in DOMAIN run[k].items : ~ToFile(k, i)
    BY <2>4 DEF ToFile
  <2>6. /\ \A id \in Ids : view[id] = "finished" => id \in Filed
        /\ \A k \in Ids : run[k].pc # "none" => \E i \in DOMAIN records : records[i].id = k /\ records[i].run
    BY <2>3, <2>5, LeadIsNoId DEF Account, ShownIsFiled, WaitsFor, StartedIsFiled, Items
  <2>7. \A i \in DOMAIN records : records[i].id \in Ids /\ records[i].parent \in Runs
    <3>1. \A i \in DOMAIN records : records[i] \in AnyRecord
      BY <2>2 DEF Books, RecordsTyped
    <3> QED
      BY <3>1 DEF AnyRecord
  <2>8. Filed = {id \in Ids : view[id] = "finished"}
    BY <2>3, <2>6, <2>7 DEF Account, FiledIsShown, Filed
  <2>9. ASSUME NEW i \in DOMAIN records, records[i].parent # Lead
        PROVE  \E j \in DOMAIN records : records[j].id = records[i].parent /\ records[j].run
    <3>1. records[i].parent \in Ids /\ run[records[i].parent].pc # "none"
      BY <2>2, <2>7, <2>9, RunsAreLead DEF Books, RecordsMade
    <3> QED
      BY <2>6, <3>1
  <2>10. budget.usage = run[Lead].usage + UsageIn(records)
    <3> DEFINE f == Owes
    <3>1. Last \in Nat /\ Ids = 1..Last
      BY IdsAreAnInterval
    <3>2. (\A n \in Nat : f[n] \in Nat) /\ \A n \in 1..Last : f[n] = 0
      <4>1. \A n \in Ids : run[n].pc = "none" => run[n].usage = 0
        BY <2>2 DEF Books, UnusedUntilStarted
      <4> QED
        BY <2>2, <2>6, <3>1, <4>1, OwesTyped DEF Inv, Filed
    <3> HIDE DEF f
    <3>3. Total(f, Last) = 0
      BY <3>1, <3>2, TotalOfNothing
    <3>4. run[Lead].usage \in Nat /\ UsageIn(records) \in Nat
      BY <2>2, LeadIsNoId, RecordsUse DEF Inv, TypeOK, AnyRun, Books
    <3> QED
      BY <2>3, <3>3, <3>4 DEF Account, Balanced, f
  <2> QED
    BY <2>3, <2>8, <2>9, <2>10 DEF Account, NotFiledTwice, Filed
<1> QED
  BY <1>1, <1>2, <1>3, PTL DEF Spec

=============================================================================
