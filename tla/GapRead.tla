------------------------------- MODULE GapRead -------------------------------
(***************************************************************************)
(* The live half of a cached read (CachedSource of internal/cache/source.go*)
(* and merge.go): requests for the window after the finality cutoff share  *)
(* one fetch of the live source and, for gapMemoTTL, its result, which a   *)
(* pricing change invalidates.                                             *)
(*                                                                         *)
(* A window is [from, to).  The live source pages over the rows of the     *)
(* window it was asked for, costed with the pricing it has then.           *)
(***************************************************************************)
EXTENDS Integers, FiniteSets

CONSTANTS
  Requests,
  Nobody,     \* no fetch in flight, nobody to wait for
  Ids,        \* message ids
  Windows,    \* the windows requests ask for: records [from, to]
  MaxPrice,   \* pricing changes
  MaxFaults   \* failed fetches and abandoned requests

ASSUME NobodyAssumption == Nobody \notin Requests
ASSUME WindowsAssumption ==
  /\ Windows # {} /\ Windows \subseteq [from : Nat, to : Nat]
  /\ \A w \in Windows : w.from < w.to
ASSUME BoundsAssumption == MaxPrice \in Nat /\ MaxFaults \in Nat

VARIABLES
  raw,       \* rows of the live source
  price,     \* the pricing the live source has
  told,      \* the pricing at the last Invalidate
  memo,      \* gapRaw, gapFrom, gapAt
  inflight,  \* the request whose fetch gapInflight stands for
  pc, req,
  faults

vars == <<raw, price, told, memo, inflight, pc, req, faults>>

Times == UNION {w.from .. w.to - 1 : w \in Windows}
RawRow == [id : Ids, t : Times]
GapRow == [id : Ids, t : Times, price : 0..MaxPrice]
MemoRec == [usable : BOOLEAN,              \* filled, and younger than gapMemoTTL
            rows : SUBSET GapRow, from : Nat,
            to : Nat, known : SUBSET RawRow]  \* the end of the fetch, and what it could see
ReqRec == [win : Windows,
           told : 0..MaxPrice,             \* when the request began
           current : BOOLEAN,              \* gapGeneration has not moved since
           leader : Requests \union {Nobody},  \* whose channel is waited for
           retry : BOOLEAN, ok : BOOLEAN,
           rows : SUBSET GapRow,
           to : Nat, known : SUBSET RawRow]   \* of the fetch that served it

NoMemo == [usable |-> FALSE, rows |-> {}, from |-> 0, to |-> 0, known |-> {}]
AnyWindow == CHOOSE w \in Windows : TRUE
NoReq == [win |-> AnyWindow, told |-> 0, current |-> TRUE, leader |-> Nobody,
          retry |-> FALSE, ok |-> FALSE, rows |-> {}, to |-> 0, known |-> {}]

TypeOK ==
  /\ raw \in SUBSET RawRow
  /\ price \in 0..MaxPrice /\ told \in 0..MaxPrice
  /\ memo \in MemoRec
  /\ inflight \in Requests \union {Nobody}
  /\ pc \in [Requests -> {"idle", "check", "wait", "fetch", "store", "done", "gone"}]
  /\ req \in [Requests -> ReqRec]
  /\ faults \in 0..MaxFaults
  /\ \A r \in Requests :
       /\ req[r].leader # Nobody => pc[r] = "wait"
       /\ inflight = r => pc[r] \in {"fetch", "store"}

Init ==
  /\ raw = {} /\ price = 0 /\ told = 0
  /\ memo = NoMemo /\ inflight = Nobody
  /\ pc = [r \in Requests |-> "idle"] /\ req = [r \in Requests |-> NoReq]
  /\ faults = 0

-----------------------------------------------------------------------------
(* The live source *)

Arrive(i, t) ==
  /\ \A x \in raw : x.id # i
  /\ raw' = raw \union {[id |-> i, t |-> t]}
  /\ UNCHANGED <<price, told, memo, inflight, pc, req, faults>>

ChangePricing ==
  /\ price < MaxPrice
  /\ price' = price + 1
  /\ UNCHANGED <<raw, told, memo, inflight, pc, req, faults>>

\* Mutant: the fetch in flight is forgotten too.
InvalidateForgetsFetch ==
  /\ told < price /\ told' = price
  /\ memo' = NoMemo /\ inflight' = Nobody
  /\ req' = [r \in Requests |-> [req[r] EXCEPT !.current = r # inflight]]
  /\ UNCHANGED <<raw, price, pc, faults>>

\* Called after the live source has its new pricing.
Invalidate ==
  /\ told < price /\ told' = price
  /\ memo' = NoMemo
  /\ req' = [r \in Requests |-> [req[r] EXCEPT !.current = r # inflight]]
  /\ UNCHANGED <<raw, price, inflight, pc, faults>>

\* gapMemoTTL passes.
Expire ==
  /\ memo.usable
  /\ memo' = NoMemo
  /\ UNCHANGED <<raw, price, told, inflight, pc, req, faults>>

-----------------------------------------------------------------------------
(* gapMessages *)

Ask(r, w) ==
  /\ pc[r] = "idle"
  /\ pc' = [pc EXCEPT ![r] = "check"]
  /\ req' = [req EXCEPT ![r] = [NoReq EXCEPT !.win = w, !.told = told]]
  /\ UNCHANGED <<raw, price, told, memo, inflight, faults>>

\* filterGap
InWin(rows, w) == {x \in rows : w.from <= x.t /\ x.t < w.to}

\* Mutant: the memo is taken whatever it starts with.
MemoServesAnything(w) == memo.usable

MemoServes(w) == memo.usable /\ memo.from <= w.from

\* Under gapMu: the memo, the fetch in flight, or a fetch of one's own.
CheckMemo(r) ==
  /\ pc[r] = "check" /\ MemoServes(req[r].win)
  /\ req' = [req EXCEPT ![r].rows = InWin(memo.rows, req[r].win), ![r].ok = TRUE,
                        ![r].to = memo.to, ![r].known = memo.known]
  /\ pc' = [pc EXCEPT ![r] = "done"]
  /\ UNCHANGED <<raw, price, told, memo, inflight, faults>>

CheckWait(r) ==
  /\ pc[r] = "check" /\ ~MemoServes(req[r].win)
  /\ inflight # Nobody
  /\ req' = [req EXCEPT ![r].leader = inflight]
  /\ pc' = [pc EXCEPT ![r] = "wait"]
  /\ UNCHANGED <<raw, price, told, memo, inflight, faults>>

CheckLead(r) ==
  /\ pc[r] = "check" /\ ~MemoServes(req[r].win)
  /\ inflight = Nobody /\ inflight' = r
  /\ req' = [req EXCEPT ![r].current = TRUE]
  /\ pc' = [pc EXCEPT ![r] = "fetch"]
  /\ UNCHANGED <<raw, price, told, memo, faults>>

\* The awaited channel is closed.
Wake(r) ==
  /\ pc[r] = "wait" /\ req[r].leader = Nobody
  /\ pc' = [pc EXCEPT ![r] = "check"]
  /\ UNCHANGED <<raw, price, told, memo, inflight, req, faults>>

\* The client of a waiting request goes away.
Abandon(r) ==
  /\ pc[r] = "wait" /\ faults < MaxFaults
  /\ faults' = faults + 1
  /\ req' = [req EXCEPT ![r] = NoReq]
  /\ pc' = [pc EXCEPT ![r] = "gone"]
  /\ UNCHANGED <<raw, price, told, memo, inflight>>

Costed(rows) == {[id |-> x.id, t |-> x.t, price |-> price] : x \in rows}

\* fetchGapRaw over a stable source.
Fetch(r) ==
  /\ pc[r] = "fetch"
  /\ req' = [req EXCEPT ![r].rows = Costed(InWin(raw, req[r].win)),
                        ![r].to = req[r].win.to, ![r].known = raw,
                        ![r].ok = TRUE, ![r].retry = FALSE]
  /\ pc' = [pc EXCEPT ![r] = "store"]
  /\ UNCHANGED <<raw, price, told, memo, inflight, faults>>

\* retryLiveOnce: once more, unless the request is cancelled.
FetchFails(r) ==
  /\ pc[r] = "fetch" /\ faults < MaxFaults
  /\ faults' = faults + 1
  /\ \/ ~req[r].retry /\ req' = [req EXCEPT ![r].retry = TRUE] /\ UNCHANGED pc
     \/ pc' = [pc EXCEPT ![r] = "store"] /\ UNCHANGED req
  /\ UNCHANGED <<raw, price, told, memo, inflight>>

\* The channel of r is closed; a failed request goes on without the recent window.
Released(r) == [q \in Requests |->
  IF q = r THEN IF req[r].ok THEN [req[r] EXCEPT !.current = TRUE] ELSE NoReq
  ELSE IF req[q].leader = r THEN [req[q] EXCEPT !.leader = Nobody] ELSE req[q]]

\* Mutant: the generation is not compared.
RememberedAnyway(r) ==
  IF req[r].ok
  THEN [usable |-> TRUE, rows |-> req[r].rows, from |-> req[r].win.from,
        to |-> req[r].to, known |-> req[r].known]
  ELSE memo

Remembered(r) ==
  IF req[r].ok /\ req[r].current
  THEN [usable |-> TRUE, rows |-> req[r].rows, from |-> req[r].win.from,
        to |-> req[r].to, known |-> req[r].known]
  ELSE memo

\* Mutant: an error returns before the channel is closed.
StoreKeepsWaiters(r) ==
  /\ pc[r] = "store"
  /\ IF req[r].ok
     THEN /\ inflight' = Nobody /\ req' = Released(r)
          /\ pc' = [pc EXCEPT ![r] = "done"]
     ELSE pc' = [pc EXCEPT ![r] = "gone"] /\ UNCHANGED <<inflight, req>>
  /\ memo' = Remembered(r)
  /\ UNCHANGED <<raw, price, told, faults>>

\* Under gapMu again.
Store(r) ==
  /\ pc[r] = "store"
  /\ inflight' = Nobody
  /\ memo' = Remembered(r)
  /\ req' = Released(r)
  /\ pc' = [pc EXCEPT ![r] = IF req[r].ok THEN "done" ELSE "gone"]
  /\ UNCHANGED <<raw, price, told, faults>>

-----------------------------------------------------------------------------
Serve(r) ==
  \/ CheckMemo(r) \/ CheckWait(r) \/ CheckLead(r) \/ Wake(r)
  \/ Fetch(r) \/ Store(r)

Next ==
  \/ \E i \in Ids, t \in Times : Arrive(i, t)
  \/ ChangePricing \/ Invalidate \/ Expire
  \/ \E r \in Requests :
       \/ \E w \in Windows : Ask(r, w)
       \/ Serve(r) \/ Abandon(r) \/ FetchFails(r)

Spec == Init /\ [][Next]_vars

\* Goroutines run.
FairSpec == Spec /\ \A r \in Requests : WF_vars(Serve(r))

-----------------------------------------------------------------------------

\* A burst of requests pages the live source once at a time: two fetches of one
\* source never overlap, also across an invalidation or a failed fetch.
OneFetch ==
  \A q, r \in Requests :
    pc[q] \in {"fetch", "store"} /\ pc[r] \in {"fetch", "store"} => q = r

\* A request that begins after a pricing change was announced never shows rows
\* costed before it, whatever was memoized or in flight then.
InvalidationIsFinal ==
  \A r \in Requests : pc[r] = "done" =>
    \A x \in req[r].rows : x.price >= req[r].told

\* The promise about pricing, which every source makes.
Phase(r) ==
  CASE pc[r] \in {"idle", "gone"} -> "idle" [] pc[r] = "done" -> "answered" [] OTHER -> "open"
Shown(r) == IF pc[r] = "done" THEN {x.price : x \in req[r].rows} ELSE {}

Promise == INSTANCE AnnouncedReads WITH
  phase <- [r \in Requests |-> Phase(r)],
  low <- [r \in Requests |-> req[r].told],
  shown <- [r \in Requests |-> Shown(r)]

KeepsPromise == Promise!Spec

IdsOf(rows) == {x.id : x \in rows}

\* A request is served every row of its window that was there when the fetch behind
\* its answer ran, unless that fetch had been asked for a window that ends earlier.
WindowServed ==
  \A r \in Requests : pc[r] = "done" /\ req[r].win.to <= req[r].to =>
    IdsOf(InWin(req[r].known, req[r].win)) = IdsOf(req[r].rows)

\* The same without the exception: what a reused read may miss is only "entries
\* created within the TTL".
WindowAlwaysServed ==
  \A r \in Requests : pc[r] = "done" =>
    IdsOf(InWin(req[r].known, req[r].win)) = IdsOf(req[r].rows)

\* Whoever waits for the fetch of another request is answered, also when that
\* fetch fails or is abandoned.
EveryRequestEnds ==
  \A r \in Requests : pc[r] # "idle" ~> pc[r] \in {"done", "gone"}
=============================================================================
