------------------------- MODULE CachedSource_proofs -------------------------
(***************************************************************************)
(* Theorems about the reads of a cached source: the two splits of a window *)
(* (WindowSplit), and the shared fetch of its recent part (GapRead), for   *)
(* any windows and any number of requests, rows and pricing changes.       *)
(***************************************************************************)
EXTENDS GapRead, WindowSplit, TLAPS

-----------------------------------------------------------------------------
(* No moment of a window is read twice or lost by the two splits           *)

IsWindow(w) == \E from, to \in Nat : w = Window(from, to)

(* A read at the finality cutoff: wherever the cutoff lies, a moment is in *)
(* the requested window if and only if exactly one of the halves that are  *)
(* read covers it (splitPeriod and gapStart).                              *)
THEOREM HalvesPartition ==
  ASSUME NEW w, IsWindow(w), NEW cutoff \in Nat, NEW t \in Nat
  PROVE  LET cached == HasCache(w, cutoff) /\ Covers(CachedPart(w, cutoff), t)
             live == HasLive(w, cutoff) /\ Covers(LivePart(w, cutoff), t)
         IN  /\ Covers(w, t) <=> (cached \/ live)
             /\ ~ (cached /\ live)
<1>1. PICK from \in Nat, to \in Nat : w = Window(from, to)
  BY DEF IsWindow
<1>2. w.start = from /\ w.end = to
  BY <1>1 DEF Window
<1>3. CachedPart(w, cutoff).start = from /\ CachedPart(w, cutoff).end = EarlierOf(to, cutoff)
  BY <1>2 DEF CachedPart, Window
<1>4. LivePart(w, cutoff).start = LaterOf(from, cutoff) /\ LivePart(w, cutoff).end = to
  BY <1>2 DEF LivePart, GapStart, Window
<1> QED
  BY <1>2, <1>3, <1>4 DEF Covers, HasCache, HasLive, EarlierOf, LaterOf

LEMMA DivLemma ==
  \A t \in Nat : /\ t \div Hour \in Nat
                 /\ Hour * (t \div Hour) <= t
                 /\ t < Hour * (t \div Hour) + Hour
BY HourAssumption

LEMMA TruncBounds ==
  \A t \in Nat : TruncHour(t) \in Nat /\ TruncHour(t) <= t /\ t < TruncHour(t) + Hour
<1> SUFFICES ASSUME NEW t \in Nat
             PROVE TruncHour(t) \in Nat /\ TruncHour(t) <= t /\ t < TruncHour(t) + Hour
  OBVIOUS
<1>1. t \div Hour \in Nat /\ Hour * (t \div Hour) <= t /\ t < Hour * (t \div Hour) + Hour
  BY DivLemma
<1> QED
  BY <1>1, HourAssumption DEF TruncHour

(* The bucket of a moment lies in a range of whole hours exactly if the    *)
(* moment does: a rollup row is inside or outside as a whole.              *)
LEMMA BucketsAreWhole ==
  ASSUME NEW k \in Nat, NEW t \in Nat
  PROVE  k * Hour <= TruncHour(t) <=> k * Hour <= t
<1>1. t \div Hour \in Nat /\ Hour * (t \div Hour) <= t /\ t < Hour * (t \div Hour) + Hour
  BY DivLemma
<1> DEFINE q == t \div Hour
<1> HIDE DEF q
<1>2. q \in Nat /\ Hour * q <= t /\ t < Hour * q + Hour /\ TruncHour(t) = q * Hour
  BY <1>1 DEF q, TruncHour
<1>3. CASE k <= q
  <2>1. k * Hour <= q * Hour
    BY <1>2, <1>3, HourAssumption
  <2> QED
    BY <1>2, <2>1, HourAssumption
<1>4. CASE ~ (k <= q)
  <2>1. (q + 1) * Hour <= k * Hour
    BY <1>2, <1>4, HourAssumption
  <2>2. (q + 1) * Hour = q * Hour + Hour
    BY <1>2, HourAssumption
  <2> QED
    BY <1>2, <2>1, <2>2, HourAssumption
<1> QED
  BY <1>3, <1>4

LEMMA FullHoursAreWhole ==
  ASSUME NEW from \in Nat, NEW to \in Nat, NEW w, w = Window(from, to)
  PROVE  /\ \E k \in Nat : FirstFull(w) = k * Hour
         /\ \E k \in Nat : LastFullEnd(w) = k * Hour
         /\ from <= FirstFull(w) /\ LastFullEnd(w) <= to
<1>1. w.start = from /\ w.end = to
  BY DEF Window
<1>2. from \div Hour \in Nat /\ to \div Hour \in Nat
  BY DivLemma
<1>3. (from \div Hour + 1) * Hour = TruncHour(from) + Hour
  BY <1>2, HourAssumption DEF TruncHour
<1>4. FirstFull(w) = (from \div Hour) * Hour \/ FirstFull(w) = (from \div Hour + 1) * Hour
  BY <1>1, <1>3 DEF FirstFull, TruncHour
<1>5. LastFullEnd(w) = (to \div Hour) * Hour
  BY <1>1 DEF LastFullEnd, TruncHour
<1>6. from <= FirstFull(w) /\ LastFullEnd(w) <= to
  BY <1>1, TruncBounds, HourAssumption DEF FirstFull, LastFullEnd
<1> QED
  BY <1>2, <1>4, <1>5, <1>6

(* A cached read: a moment is in the window if and only if its hour is one *)
(* of those the rollups answer, or it is in one of the edges, and never    *)
(* both (splitOverviewMillis and the queries that use it).                 *)
THEOREM PartsPartition ==
  ASSUME NEW w, IsWindow(w), NEW t \in Nat
  PROVE  LET hour == Covers(FullHours(w), TruncHour(t))
             edge == \E e \in Edges(w) : Covers(e, t)
         IN  /\ Covers(w, t) <=> (hour \/ edge)
             /\ ~ (hour /\ edge)
<1>1. PICK from \in Nat, to \in Nat : w = Window(from, to)
  BY DEF IsWindow
<1>2. w.start = from /\ w.end = to
  BY <1>1 DEF Window
<1>3. TruncHour(t) \in Nat
  BY TruncBounds
<1>4. CASE HasFullHours(w)
  <2>1. FullHours(w).start = FirstFull(w) /\ FullHours(w).end = LastFullEnd(w)
    BY <1>4 DEF FullHours, Window
  <2>2. PICK k \in Nat : FirstFull(w) = k * Hour
    BY <1>1, FullHoursAreWhole
  <2>3. PICK m \in Nat : LastFullEnd(w) = m * Hour
    BY <1>1, FullHoursAreWhole
  <2>4. (FirstFull(w) <= TruncHour(t) <=> FirstFull(w) <= t)
        /\ (LastFullEnd(w) <= TruncHour(t) <=> LastFullEnd(w) <= t)
    BY <2>2, <2>3, BucketsAreWhole
  <2>5. FirstFull(w) \in Nat /\ LastFullEnd(w) \in Nat
    BY <2>2, <2>3, HourAssumption
  <2>6. Covers(FullHours(w), TruncHour(t)) <=> (FirstFull(w) <= t /\ t < LastFullEnd(w))
    BY <1>3, <2>1, <2>4, <2>5 DEF Covers
  <2>7. Edges(w) = {e \in {Window(from, FirstFull(w)), Window(LastFullEnd(w), to)} : e.start < e.end}
    BY <1>2, <1>4 DEF Edges
  <2>8. (\E e \in Edges(w) : Covers(e, t))
          <=> ((from <= t /\ t < FirstFull(w)) \/ (LastFullEnd(w) <= t /\ t < to))
    <3>1. ASSUME NEW e \in Edges(w), Covers(e, t)
          PROVE (from <= t /\ t < FirstFull(w)) \/ (LastFullEnd(w) <= t /\ t < to)
      BY <2>7, <3>1 DEF Covers, Window
    <3>2. ASSUME from <= t, t < FirstFull(w) PROVE \E e \in Edges(w) : Covers(e, t)
      <4>1. Window(from, FirstFull(w)).start = from /\ Window(from, FirstFull(w)).end = FirstFull(w)
        BY DEF Window
      <4>2. Window(from, FirstFull(w)) \in Edges(w)
        BY <2>5, <2>7, <3>2, <4>1
      <4> QED
        BY <3>2, <4>1, <4>2 DEF Covers
    <3>3. ASSUME LastFullEnd(w) <= t, t < to PROVE \E e \in Edges(w) : Covers(e, t)
      <4>1. Window(LastFullEnd(w), to).start = LastFullEnd(w) /\ Window(LastFullEnd(w), to).end = to
        BY DEF Window
      <4>2. Window(LastFullEnd(w), to) \in Edges(w)
        BY <2>5, <2>7, <3>3, <4>1
      <4> QED
        BY <3>3, <4>1, <4>2 DEF Covers
    <3> QED
      BY <3>1, <3>2, <3>3
  <2>9. from <= FirstFull(w) /\ FirstFull(w) < LastFullEnd(w) /\ LastFullEnd(w) <= to
    BY <1>1, <1>4, FullHoursAreWhole DEF HasFullHours
  <2> QED
    BY <1>2, <2>5, <2>6, <2>8, <2>9 DEF Covers
<1>5. CASE ~ HasFullHours(w)
  <2>1. FullHours(w).start = 0 /\ FullHours(w).end = 0
    BY <1>5 DEF FullHours, Window
  <2>2. ~ Covers(FullHours(w), TruncHour(t))
    BY <1>3, <2>1 DEF Covers
  <2>3. (\E e \in Edges(w) : Covers(e, t)) <=> Covers(w, t)
    BY <1>2, <1>5 DEF Edges, Covers
  <2> QED
    BY <2>2, <2>3
<1> QED
  BY <1>4, <1>5

-----------------------------------------------------------------------------
(* The shared fetch                                                        *)


\* A fetch is in flight exactly for the request gapInflight names.
Flight == \A r \in Requests : pc[r] \in {"fetch", "store"} <=> inflight = r

TypeInv == TypeOK /\ Flight

LEMMA AnyWindowIsOne == AnyWindow \in Windows
  BY WindowsAssumption DEF AnyWindow

LEMMA NoReqTyped == NoReq \in ReqRec /\ NoReq.leader = Nobody
  BY AnyWindowIsOne, BoundsAssumption DEF NoReq, ReqRec

LEMMA NoMemoTyped == NoMemo \in MemoRec
  BY DEF NoMemo, MemoRec

LEMMA InWinSubset == \A rows, w : InWin(rows, w) \subseteq rows
  BY DEF InWin

LEMMA CostedTyped ==
  ASSUME TypeOK, NEW rows \in SUBSET RawRow PROVE Costed(rows) \in SUBSET GapRow
  BY DEF TypeOK, RawRow, GapRow, Costed

-----------------------------------------------------------------------------
(* Types, and the single flight *)

LEMMA InitType == ASSUME Init PROVE TypeInv
<1>1. \A r \in Requests : pc[r] = "idle" /\ req[r] = NoReq /\ inflight # r
  BY NobodyAssumption DEF Init
<1>2. req \in [Requests -> ReqRec]
  BY NoReqTyped DEF Init
<1> QED
  BY <1>1, <1>2, NoReqTyped, NoMemoTyped, BoundsAssumption DEF Init, TypeInv, TypeOK, Flight

LEMMA ServeType ==
  ASSUME TypeInv, NEW r \in Requests, Serve(r) PROVE TypeInv'
<1> USE DEF TypeInv
<1>0. req[r] \in ReqRec /\ req[r].win \in Windows /\ req[r].win.to \in Nat
  BY WindowsAssumption DEF TypeOK, ReqRec
<1>1. CASE CheckMemo(r)
  <2>1. InWin(memo.rows, req[r].win) \in SUBSET GapRow
    BY InWinSubset DEF TypeOK, MemoRec
  <2>2. req' \in [Requests -> ReqRec] /\ \A q \in Requests : req'[q].leader = req[q].leader
    BY <1>0, <1>1, <2>1 DEF CheckMemo, TypeOK, ReqRec, MemoRec
  <2> QED
    BY <1>1, <2>2 DEF CheckMemo, TypeOK, Flight
<1>2. CASE CheckWait(r)
  <2>1. req' \in [Requests -> ReqRec]
    BY <1>0, <1>2 DEF CheckWait, TypeOK, ReqRec
  <2>2. \A q \in Requests \ {r} : req'[q] = req[q]
    BY <1>2 DEF CheckWait, TypeOK
  <2> QED
    BY <1>2, <2>1, <2>2 DEF CheckWait, TypeOK, Flight
<1>3. CASE CheckLead(r)
  <2>1. req' \in [Requests -> ReqRec] /\ \A q \in Requests : req'[q].leader = req[q].leader
    BY <1>0, <1>3 DEF CheckLead, TypeOK, ReqRec
  <2> QED
    BY <1>3, <2>1, NobodyAssumption DEF CheckLead, TypeOK, Flight
<1>4. CASE Wake(r)
  BY <1>4 DEF Wake, TypeOK, Flight
<1>5. CASE Fetch(r)
  <2>1. Costed(InWin(raw, req[r].win)) \in SUBSET GapRow
    BY InWinSubset, CostedTyped DEF TypeOK
  <2>2. req' \in [Requests -> ReqRec] /\ \A q \in Requests : req'[q].leader = req[q].leader
    BY <1>0, <1>5, <2>1 DEF Fetch, TypeOK, ReqRec
  <2> QED
    BY <1>5, <2>2 DEF Fetch, TypeOK, Flight
<1>6. CASE Store(r)
  <2>1. memo' \in MemoRec
    BY <1>0, <1>6, WindowsAssumption DEF Store, Remembered, TypeOK, ReqRec, MemoRec
  <2>2. ASSUME NEW q \in Requests
        PROVE  Released(r)[q] \in ReqRec /\ (Released(r)[q].leader # Nobody =>
                  q # r /\ Released(r)[q] = req[q])
    BY <1>0, <1>6, NoReqTyped DEF Store, Released, TypeOK, ReqRec
  <2>3. req' \in [Requests -> ReqRec]
    BY <1>6, <2>2 DEF Store, Released
  <2> QED
    BY <1>6, <2>1, <2>2, <2>3, NobodyAssumption DEF Store, TypeOK, Flight
<1> QED
  BY <1>1, <1>2, <1>3, <1>4, <1>5, <1>6 DEF Serve

LEMMA NextType == ASSUME TypeInv, [Next]_vars PROVE TypeInv'
<1> USE DEF TypeInv
<1>1. ASSUME NEW i \in Ids, NEW t \in Times, Arrive(i, t) PROVE TypeInv'
  <2>1. raw' \in SUBSET RawRow
    BY <1>1 DEF Arrive, TypeOK, RawRow
  <2> QED
    BY <1>1, <2>1 DEF Arrive, TypeOK, Flight
<1>2. CASE ChangePricing
  <2>1. price' \in 0..MaxPrice
    BY <1>2, BoundsAssumption DEF ChangePricing, TypeOK
  <2> QED
    BY <1>2, <2>1 DEF ChangePricing, TypeOK, Flight
<1>3. CASE Invalidate
  <2>1. ASSUME NEW q \in Requests, NEW c \in BOOLEAN
        PROVE  [req[q] EXCEPT !.current = c] \in ReqRec
               /\ [req[q] EXCEPT !.current = c].leader = req[q].leader
    BY DEF TypeOK, ReqRec
  <2>2. req' \in [Requests -> ReqRec] /\ \A q \in Requests : req'[q].leader = req[q].leader
    BY <1>3, <2>1 DEF Invalidate
  <2> QED
    BY <1>3, <2>2, NoMemoTyped DEF Invalidate, TypeOK, Flight
<1>4. CASE Expire
  BY <1>4, NoMemoTyped DEF Expire, TypeOK, Flight
<1>5. ASSUME NEW r \in Requests, NEW w \in Windows, Ask(r, w) PROVE TypeInv'
  <2>1. [NoReq EXCEPT !.win = w, !.told = told] \in ReqRec
    BY NoReqTyped DEF ReqRec, TypeOK
  <2>2. [NoReq EXCEPT !.win = w, !.told = told].leader = Nobody
    BY NoReqTyped DEF ReqRec
  <2>3. req' \in [Requests -> ReqRec]
    BY <1>5, <2>1 DEF Ask, TypeOK
  <2> QED
    BY <1>5, <2>2, <2>3 DEF Ask, TypeOK, Flight
<1>6. ASSUME NEW r \in Requests, Abandon(r) PROVE TypeInv'
  <2>1. req' \in [Requests -> ReqRec] /\ faults' \in 0..MaxFaults
    BY <1>6, NoReqTyped, BoundsAssumption DEF Abandon, TypeOK
  <2> QED
    BY <1>6, <2>1, NoReqTyped DEF Abandon, TypeOK, Flight
<1>7. ASSUME NEW r \in Requests, FetchFails(r) PROVE TypeInv'
  <2>1. faults' \in 0..MaxFaults
    BY <1>7, BoundsAssumption DEF FetchFails, TypeOK
  <2>2. req' \in [Requests -> ReqRec] /\ \A q \in Requests : req'[q].leader = req[q].leader
    <3>1. [req[r] EXCEPT !.retry = TRUE] \in ReqRec
          /\ [req[r] EXCEPT !.retry = TRUE].leader = req[r].leader
      <4>1. req[r] \in ReqRec
        BY DEF TypeOK
      <4> QED
        BY <4>1 DEF ReqRec
    <3>2. CASE req' = [req EXCEPT ![r].retry = TRUE]
      <4>1. req' = [req EXCEPT ![r] = [req[r] EXCEPT !.retry = TRUE]]
        BY <3>2
      <4> QED
        BY <3>1, <4>1 DEF TypeOK
    <3>3. CASE UNCHANGED req
      BY <3>3 DEF TypeOK
    <3> QED
      BY <1>7, <3>2, <3>3 DEF FetchFails
  <2> QED
    BY <1>7, <2>1, <2>2 DEF FetchFails, TypeOK, Flight
<1>8. CASE UNCHANGED vars
  BY <1>8 DEF vars, TypeOK, Flight
<1> QED
  BY <1>1, <1>2, <1>3, <1>4, <1>5, <1>6, <1>7, <1>8, ServeType DEF Next

\* Every reachable state of the shared gap fetch is well typed.
THEOREM TypeCorrect == Spec => []TypeOK
<1>1. Init => TypeInv
  BY InitType
<1>2. TypeInv /\ [Next]_vars => TypeInv'
  BY NextType
<1> QED
  BY <1>1, <1>2, PTL DEF Spec, TypeInv

\* Two fetches of one source never overlap, also across an invalidation or a
\* failed fetch: gapInflight names the only one.
THEOREM FetchesNeverOverlap == Spec => []OneFetch
<1>1. Init => TypeInv
  BY InitType
<1>2. TypeInv /\ [Next]_vars => TypeInv'
  BY NextType
<1>3. TypeInv => OneFetch
  BY DEF TypeInv, Flight, OneFetch
<1> QED
  BY <1>1, <1>2, <1>3, PTL DEF Spec

-----------------------------------------------------------------------------
(* No answer is older than the pricing change it begins after              *)

PricedSince(rows, p) == \A x \in rows : x.price >= p

\* The memo, and a fetch the generation still allows to become it, are costed
\* with the announced pricing; an answer with the one its request began under.
Fresh ==
  /\ told <= price
  /\ memo.usable => PricedSince(memo.rows, told)
  /\ \A r \in Requests :
       /\ req[r].told <= told
       /\ pc[r] \in {"check", "wait", "fetch"} => ~req[r].ok
       /\ pc[r] = "store" /\ req[r].ok /\ req[r].current => PricedSince(req[r].rows, told)
       /\ pc[r] = "done" \/ (pc[r] = "store" /\ req[r].ok) =>
            PricedSince(req[r].rows, req[r].told)

FreshInv == TypeInv /\ Fresh

LEMMA InitFresh == ASSUME Init PROVE Fresh
<1>1. \A r \in Requests : pc[r] = "idle" /\ req[r].told = 0
  BY DEF Init, NoReq
<1> QED
  BY <1>1 DEF Init, Fresh, NoMemo

LEMMA InWinPriced ==
  ASSUME NEW rows, NEW w, NEW p, PricedSince(rows, p) PROVE PricedSince(InWin(rows, w), p)
  BY InWinSubset DEF PricedSince

LEMMA CostedPriced ==
  ASSUME NEW rows, NEW p \in Int, price \in Int, p <= price PROVE PricedSince(Costed(rows), p)
  BY DEF PricedSince, Costed

LEMMA PricedEarlier ==
  ASSUME NEW rows \in SUBSET GapRow, NEW p \in Int, NEW q \in Int, q <= p, PricedSince(rows, p)
  PROVE  PricedSince(rows, q)
<1>1. \A x \in rows : x.price \in Int
  BY BoundsAssumption DEF GapRow
<1> QED
  BY <1>1 DEF PricedSince

LEMMA ServeFresh ==
  ASSUME FreshInv, NEW r \in Requests, Serve(r) PROVE Fresh'
<1> USE DEF FreshInv, TypeInv
<1>0. /\ req[r] \in ReqRec /\ memo.rows \in SUBSET GapRow
      /\ told \in Int /\ price \in Int /\ req[r].told \in Int
  BY BoundsAssumption DEF TypeOK, ReqRec, MemoRec
<1>1. CASE CheckMemo(r)
  <2>1. PricedSince(memo.rows, told)
    BY <1>1 DEF CheckMemo, MemoServes, Fresh
  <2>2. PricedSince(InWin(memo.rows, req[r].win), req[r].told)
    BY <1>0, <2>1, PricedEarlier, InWinPriced DEF Fresh
  <2>3. req'[r].rows = InWin(memo.rows, req[r].win) /\ req'[r].told = req[r].told
    BY <1>0, <1>1 DEF CheckMemo, TypeOK, ReqRec
  <2>4. \A q \in Requests \ {r} : req'[q] = req[q] /\ pc'[q] = pc[q]
    BY <1>1 DEF CheckMemo, TypeOK
  <2> QED
    BY <1>1, <2>2, <2>3, <2>4 DEF CheckMemo, Fresh, TypeOK
<1>2. CASE CheckWait(r)
  <2>1. req'[r].told = req[r].told /\ req'[r].ok = req[r].ok
    BY <1>0, <1>2 DEF CheckWait, TypeOK, ReqRec
  <2>2. \A q \in Requests \ {r} : req'[q] = req[q] /\ pc'[q] = pc[q]
    BY <1>2 DEF CheckWait, TypeOK
  <2> QED
    BY <1>2, <2>1, <2>2 DEF CheckWait, Fresh, TypeOK
<1>3. CASE CheckLead(r)
  <2>1. req'[r].told = req[r].told /\ req'[r].ok = req[r].ok
    BY <1>0, <1>3 DEF CheckLead, TypeOK, ReqRec
  <2>2. \A q \in Requests \ {r} : req'[q] = req[q] /\ pc'[q] = pc[q]
    BY <1>3 DEF CheckLead, TypeOK
  <2> QED
    BY <1>3, <2>1, <2>2 DEF CheckLead, Fresh, TypeOK
<1>4. CASE Wake(r)
  BY <1>4 DEF Wake, Fresh, TypeOK
<1>5. CASE Fetch(r)
  <2>1. PricedSince(Costed(InWin(raw, req[r].win)), told)
        /\ PricedSince(Costed(InWin(raw, req[r].win)), req[r].told)
    <3>1. req[r].told <= told /\ told <= price
      BY DEF Fresh
    <3>2. req[r].told <= price
      BY <1>0, <3>1
    <3> QED
      BY <1>0, <3>1, <3>2, CostedPriced
  <2>2. req'[r].rows = Costed(InWin(raw, req[r].win)) /\ req'[r].told = req[r].told
    BY <1>0, <1>5 DEF Fetch, TypeOK, ReqRec
  <2>3. \A q \in Requests \ {r} : req'[q] = req[q] /\ pc'[q] = pc[q]
    BY <1>5 DEF Fetch, TypeOK
  <2>4. pc'[r] = "store" /\ UNCHANGED <<price, told, memo>>
    BY <1>5 DEF Fetch, TypeOK
  <2> QED
    BY <2>1, <2>2, <2>3, <2>4 DEF Fresh
<1>6. CASE Store(r)
  <2>1. memo'.usable => PricedSince(memo'.rows, told)
    BY <1>6 DEF Store, Remembered, Fresh
  <2>2. ASSUME NEW q \in Requests
        PROVE  /\ req'[q].told <= told
               /\ pc'[q] \in {"check", "wait", "fetch"} => ~req'[q].ok
               /\ pc'[q] # "store"
               /\ pc'[q] = "done" => PricedSince(req'[q].rows, req'[q].told)
    <3>1. req[q] \in ReqRec
      BY DEF TypeOK
    <3>2. pc[q] = "store" => q = r
      BY <1>6 DEF Store, Flight
    <3>3. CASE q = r /\ req[r].ok
      BY <1>0, <1>6, <3>3 DEF Store, Released, Fresh, TypeOK, ReqRec
    <3>4. CASE q = r /\ ~req[r].ok
      BY <1>0, <1>6, <3>4 DEF Store, Released, Fresh, TypeOK, NoReq
    <3>5. CASE q # r
      <4>1. req'[q] = req[q] \/ req'[q] = [req[q] EXCEPT !.leader = Nobody]
        BY <1>6, <3>5 DEF Store, Released
      <4>2. pc'[q] = pc[q]
        BY <1>6, <3>5 DEF Store, TypeOK
      <4>3. req'[q].told = req[q].told /\ req'[q].ok = req[q].ok /\ req'[q].rows = req[q].rows
        BY <3>1, <4>1 DEF ReqRec
      <4> QED
        BY <3>2, <3>5, <4>2, <4>3 DEF Fresh
    <3> QED
      BY <3>3, <3>4, <3>5
  <2> QED
    BY <1>6, <2>1, <2>2 DEF Store, Fresh
<1> QED
  BY <1>1, <1>2, <1>3, <1>4, <1>5, <1>6 DEF Serve

LEMMA NextFresh == ASSUME FreshInv, [Next]_vars PROVE FreshInv'
<1> USE DEF FreshInv, TypeInv
<1> SUFFICES Fresh'
  BY NextType
<1>0. /\ told \in Int /\ price \in Int
      /\ \A q \in Requests : req[q] \in ReqRec /\ req[q].told \in Int
  BY BoundsAssumption DEF TypeOK, ReqRec
<1>1. ASSUME NEW i \in Ids, NEW t \in Times, Arrive(i, t) PROVE Fresh'
  BY <1>1 DEF Arrive, Fresh
<1>2. CASE ChangePricing
  BY <1>0, <1>2 DEF ChangePricing, Fresh
<1>3. CASE Invalidate
  <2>1. ASSUME NEW q \in Requests
        PROVE  /\ req'[q].told = req[q].told /\ req'[q].ok = req[q].ok
               /\ req'[q].rows = req[q].rows
               /\ pc'[q] = "store" => ~req'[q].current
    BY <1>0, <1>3 DEF Invalidate, Flight, ReqRec
  <2>2. told <= told' /\ told' <= price'
    BY <1>0, <1>3 DEF Invalidate
  <2>3. \A q \in Requests : req'[q].told <= told'
    BY <1>0, <1>3, <2>1, <2>2 DEF Fresh, Invalidate
  <2> QED
    BY <1>3, <2>1, <2>2, <2>3 DEF Invalidate, Fresh, NoMemo
<1>4. CASE Expire
  BY <1>4 DEF Expire, Fresh, NoMemo
<1>5. ASSUME NEW r \in Requests, NEW w \in Windows, Ask(r, w) PROVE Fresh'
  <2>1. req'[r].told = told /\ ~req'[r].ok /\ pc'[r] = "check"
    BY <1>5, NoReqTyped DEF Ask, TypeOK, ReqRec, NoReq
  <2>2. \A q \in Requests \ {r} : req'[q] = req[q] /\ pc'[q] = pc[q]
    BY <1>5 DEF Ask, TypeOK
  <2> QED
    BY <1>0, <1>5, <2>1, <2>2 DEF Ask, Fresh
<1>6. ASSUME NEW r \in Requests, Abandon(r) PROVE Fresh'
  <2>1. req'[r].told = 0 /\ pc'[r] = "gone" /\ 0 <= told
    BY <1>6, BoundsAssumption DEF Abandon, TypeOK, NoReq
  <2>2. \A q \in Requests \ {r} : req'[q] = req[q] /\ pc'[q] = pc[q]
    BY <1>6 DEF Abandon, TypeOK
  <2> QED
    BY <1>6, <2>1, <2>2 DEF Abandon, Fresh
<1>7. ASSUME NEW r \in Requests, FetchFails(r) PROVE Fresh'
  <2>1. req'[r].told = req[r].told /\ req'[r].ok = req[r].ok /\ req'[r].rows = req[r].rows
        /\ ~req[r].ok
    BY <1>0, <1>7 DEF FetchFails, Fresh, TypeOK, ReqRec
  <2>2. \A q \in Requests \ {r} : req'[q] = req[q] /\ pc'[q] = pc[q]
    BY <1>7 DEF FetchFails, TypeOK
  <2>3. pc'[r] \in {"fetch", "store"}
    BY <1>7 DEF FetchFails, TypeOK
  <2> QED
    BY <1>7, <2>1, <2>2, <2>3 DEF FetchFails, Fresh
<1>8. CASE UNCHANGED vars
  BY <1>8 DEF vars, Fresh
<1> QED
  BY <1>1, <1>2, <1>3, <1>4, <1>5, <1>6, <1>7, <1>8, ServeFresh DEF Next

\* A request that begins after a pricing change was announced never shows rows
\* costed before it, whatever was memoized or in flight then.
THEOREM PricingReachesReads == Spec => []InvalidationIsFinal
<1>1. Init => FreshInv
  BY InitType, InitFresh DEF FreshInv
<1>2. FreshInv /\ [Next]_vars => FreshInv'
  BY NextFresh
<1>3. FreshInv => InvalidationIsFinal
  BY DEF FreshInv, Fresh, PricedSince, InvalidationIsFinal
<1> QED
  BY <1>1, <1>2, <1>3, PTL DEF Spec

-----------------------------------------------------------------------------
(* What a memoized fetch answers                                           *)

\* rows are exactly the rows of known in [from, to).
Shows(rows, known, from, to) ==
  /\ \A x \in known : from <= x.t /\ x.t < to =>
       \E y \in rows : y.id = x.id /\ y.t = x.t
  /\ \A y \in rows : /\ from <= y.t /\ y.t < to
                     /\ \E x \in known : y.id = x.id /\ y.t = x.t

Answered(r) ==
  req[r].win.to <= req[r].to =>
    Shows(req[r].rows, req[r].known, req[r].win.from, req[r].win.to)

Served ==
  /\ memo.usable => Shows(memo.rows, memo.known, memo.from, memo.to)
  /\ \A r \in Requests :
       /\ pc[r] \in {"check", "wait", "fetch"} => ~req[r].ok
       /\ pc[r] = "store" /\ req[r].ok => req[r].to = req[r].win.to
       /\ pc[r] = "done" \/ (pc[r] = "store" /\ req[r].ok) => Answered(r)

ServedInv == TypeInv /\ Served

LEMMA TimesTyped == Times \subseteq Int
  BY WindowsAssumption DEF Times

LEMMA Typed ==
  ASSUME TypeOK, NEW r \in Requests
  PROVE  /\ req[r] \in ReqRec /\ req[r].win.from \in Int /\ req[r].win.to \in Int
         /\ \A x \in raw : x.t \in Int
         /\ \A x \in memo.rows : x.t \in Int
         /\ \A x \in memo.known : x.t \in Int
         /\ memo.from \in Int /\ memo.to \in Int
<1>1. req[r] \in ReqRec /\ memo \in MemoRec /\ raw \in SUBSET RawRow
  BY DEF TypeOK
<1>2. req[r].win \in Windows
  BY <1>1 DEF ReqRec
<1>3. \A x \in RawRow : x.t \in Int
  BY TimesTyped DEF RawRow
<1>4. \A x \in GapRow : x.t \in Int
  BY TimesTyped DEF GapRow
<1> QED
  BY <1>1, <1>2, <1>3, <1>4, WindowsAssumption DEF MemoRec

LEMMA MemoAnswers ==
  ASSUME TypeOK, NEW r \in Requests, Served, MemoServes(req[r].win),
         req[r].win.to <= memo.to
  PROVE  Shows(InWin(memo.rows, req[r].win), memo.known, req[r].win.from, req[r].win.to)
<1>1. Shows(memo.rows, memo.known, memo.from, memo.to) /\ memo.from <= req[r].win.from
  BY DEF Served, MemoServes
<1> QED
  BY <1>1, Typed DEF Shows, InWin

LEMMA FetchAnswers ==
  ASSUME NEW w
  PROVE  Shows(Costed(InWin(raw, w)), raw, w.from, w.to)
<1>1. ASSUME NEW x \in raw, w.from <= x.t, x.t < w.to
      PROVE  \E y \in Costed(InWin(raw, w)) : y.id = x.id /\ y.t = x.t
  <2>1. [id |-> x.id, t |-> x.t, price |-> price] \in Costed(InWin(raw, w))
    BY <1>1 DEF Costed, InWin
  <2> QED
    BY <2>1
<1>2. ASSUME NEW y \in Costed(InWin(raw, w))
      PROVE  \E x \in InWin(raw, w) : y.id = x.id /\ y.t = x.t
  BY DEF Costed
<1> QED
  BY <1>1, <1>2 DEF Shows, InWin

LEMMA ServeServed ==
  ASSUME ServedInv, NEW r \in Requests, Serve(r) PROVE Served'
<1> USE DEF ServedInv, TypeInv
<1>1. CASE CheckMemo(r)
  <2>1. /\ req'[r].rows = InWin(memo.rows, req[r].win) /\ req'[r].win = req[r].win
        /\ req'[r].to = memo.to /\ req'[r].known = memo.known
    BY <1>1, Typed DEF CheckMemo, TypeOK, ReqRec
  <2>2. Answered(r)'
    BY <1>1, <2>1, MemoAnswers DEF CheckMemo, Answered
  <2>3. \A q \in Requests \ {r} : req'[q] = req[q] /\ pc'[q] = pc[q]
    BY <1>1 DEF CheckMemo, TypeOK
  <2>4. pc'[r] = "done" /\ UNCHANGED memo
    BY <1>1 DEF CheckMemo, TypeOK
  <2> QED
    BY <2>2, <2>3, <2>4 DEF Served, Answered
<1>2. CASE CheckWait(r)
  <2>1. req'[r].ok = req[r].ok /\ pc[r] = "check" /\ pc'[r] = "wait" /\ UNCHANGED memo
    BY <1>2, Typed DEF CheckWait, TypeOK, ReqRec
  <2>2. \A q \in Requests \ {r} : req'[q] = req[q] /\ pc'[q] = pc[q]
    BY <1>2 DEF CheckWait, TypeOK
  <2> QED
    BY <2>1, <2>2 DEF Served, Answered
<1>3. CASE CheckLead(r)
  <2>1. req'[r].ok = req[r].ok /\ pc[r] = "check" /\ pc'[r] = "fetch" /\ UNCHANGED memo
    BY <1>3, Typed DEF CheckLead, TypeOK, ReqRec
  <2>2. \A q \in Requests \ {r} : req'[q] = req[q] /\ pc'[q] = pc[q]
    BY <1>3 DEF CheckLead, TypeOK
  <2> QED
    BY <2>1, <2>2 DEF Served, Answered
<1>4. CASE Wake(r)
  BY <1>4 DEF Wake, Served, Answered, TypeOK
<1>5. CASE Fetch(r)
  <2>1. /\ req'[r].rows = Costed(InWin(raw, req[r].win)) /\ req'[r].win = req[r].win
        /\ req'[r].to = req[r].win.to /\ req'[r].known = raw
    BY <1>5, Typed DEF Fetch, TypeOK, ReqRec
  <2>2. Answered(r)'
    BY <2>1, FetchAnswers DEF Answered
  <2>3. \A q \in Requests \ {r} : req'[q] = req[q] /\ pc'[q] = pc[q]
    BY <1>5 DEF Fetch, TypeOK
  <2>4. pc'[r] = "store" /\ UNCHANGED memo
    BY <1>5 DEF Fetch, TypeOK
  <2> QED
    BY <2>1, <2>2, <2>3, <2>4 DEF Served, Answered
<1>6. CASE Store(r)
  <2>1. memo'.usable => Shows(memo'.rows, memo'.known, memo'.from, memo'.to)
    <3>1. CASE req[r].ok /\ req[r].current
      <4>1. req[r].to = req[r].win.to /\ Answered(r)
        BY <1>6, <3>1 DEF Store, Served
      <4>2. Shows(req[r].rows, req[r].known, req[r].win.from, req[r].to)
        BY <4>1, Typed DEF Answered
      <4> QED
        BY <1>6, <3>1, <4>2 DEF Store, Remembered
    <3>2. CASE ~(req[r].ok /\ req[r].current)
      BY <1>6, <3>2 DEF Store, Remembered, Served
    <3> QED
      BY <3>1, <3>2
  <2>2. ASSUME NEW q \in Requests
        PROVE  /\ pc'[q] \in {"check", "wait", "fetch"} => ~req'[q].ok
               /\ pc'[q] # "store"
               /\ pc'[q] = "done" => Answered(q)'
    <3>1. req[q] \in ReqRec
      BY DEF TypeOK
    <3>2. pc[q] = "store" => q = r
      BY <1>6 DEF Store, Flight
    <3>3. CASE q = r /\ req[r].ok
      <4>1. req'[r] = [req[r] EXCEPT !.current = TRUE] /\ pc'[r] = "done" /\ Answered(r)
        BY <1>6, <3>3 DEF Store, Released, Served, TypeOK
      <4>2. /\ req'[r].rows = req[r].rows /\ req'[r].win = req[r].win
            /\ req'[r].to = req[r].to /\ req'[r].known = req[r].known
        BY <3>1, <3>3, <4>1 DEF ReqRec
      <4> QED
        BY <3>3, <4>1, <4>2 DEF Answered
    <3>4. CASE q = r /\ ~req[r].ok
      BY <1>6, <3>4 DEF Store, TypeOK
    <3>5. CASE q # r
      <4>1. req'[q] = req[q] \/ req'[q] = [req[q] EXCEPT !.leader = Nobody]
        BY <1>6, <3>5 DEF Store, Released
      <4>2. pc'[q] = pc[q]
        BY <1>6, <3>5 DEF Store, TypeOK
      <4>3. /\ req'[q].ok = req[q].ok /\ req'[q].rows = req[q].rows
            /\ req'[q].win = req[q].win /\ req'[q].to = req[q].to
            /\ req'[q].known = req[q].known
        BY <3>1, <4>1 DEF ReqRec
      <4> QED
        BY <3>2, <3>5, <4>2, <4>3 DEF Served, Answered
    <3> QED
      BY <3>3, <3>4, <3>5
  <2> QED
    BY <2>1, <2>2 DEF Served
<1> QED
  BY <1>1, <1>2, <1>3, <1>4, <1>5, <1>6 DEF Serve

LEMMA NextServed == ASSUME ServedInv, [Next]_vars PROVE ServedInv'
<1> USE DEF ServedInv, TypeInv
<1> SUFFICES Served'
  BY NextType
<1>1. ASSUME NEW i \in Ids, NEW t \in Times, Arrive(i, t) PROVE Served'
  BY <1>1 DEF Arrive, Served, Answered
<1>2. CASE ChangePricing
  BY <1>2 DEF ChangePricing, Served, Answered
<1>3. CASE Invalidate
  <2>1. ASSUME NEW q \in Requests
        PROVE  /\ req'[q].ok = req[q].ok /\ req'[q].rows = req[q].rows
               /\ req'[q].win = req[q].win /\ req'[q].to = req[q].to
               /\ req'[q].known = req[q].known /\ pc'[q] = pc[q]
    BY <1>3, Typed DEF Invalidate, ReqRec
  <2>2. ~memo'.usable
    BY <1>3 DEF Invalidate, NoMemo
  <2> QED
    BY <2>1, <2>2 DEF Served, Answered
<1>4. CASE Expire
  BY <1>4 DEF Expire, Served, Answered, NoMemo
<1>5. ASSUME NEW r \in Requests, NEW w \in Windows, Ask(r, w) PROVE Served'
  <2>1. ~req'[r].ok /\ pc'[r] = "check"
    BY <1>5, NoReqTyped DEF Ask, TypeOK, ReqRec, NoReq
  <2>2. \A q \in Requests \ {r} : req'[q] = req[q] /\ pc'[q] = pc[q]
    BY <1>5 DEF Ask, TypeOK
  <2> QED
    BY <1>5, <2>1, <2>2 DEF Ask, Served, Answered
<1>6. ASSUME NEW r \in Requests, Abandon(r) PROVE Served'
  <2>1. pc'[r] = "gone"
    BY <1>6 DEF Abandon, TypeOK
  <2>2. \A q \in Requests \ {r} : req'[q] = req[q] /\ pc'[q] = pc[q]
    BY <1>6 DEF Abandon, TypeOK
  <2> QED
    BY <1>6, <2>1, <2>2 DEF Abandon, Served, Answered
<1>7. ASSUME NEW r \in Requests, FetchFails(r) PROVE Served'
  <2>1. req'[r].ok = req[r].ok /\ ~req[r].ok
    BY <1>7, Typed DEF FetchFails, Served, TypeOK, ReqRec
  <2>2. \A q \in Requests \ {r} : req'[q] = req[q] /\ pc'[q] = pc[q]
    BY <1>7 DEF FetchFails, TypeOK
  <2>3. pc'[r] \in {"fetch", "store"}
    BY <1>7 DEF FetchFails, TypeOK
  <2> QED
    BY <1>7, <2>1, <2>2, <2>3 DEF FetchFails, Served, Answered
<1>8. CASE UNCHANGED vars
  BY <1>8 DEF vars, Served, Answered
<1> QED
  BY <1>1, <1>2, <1>3, <1>4, <1>5, <1>6, <1>7, <1>8, ServeServed DEF Next

\* A request is served exactly the rows of its window that were there when the
\* fetch behind its answer ran, unless that fetch asked for a window that ends
\* earlier: sharing a fetch loses nothing else.
THEOREM SharedReadIsComplete == Spec => []WindowServed
<1>1. Init => ServedInv
  <2>1. ASSUME Init PROVE Served
    BY <2>1 DEF Init, Served, NoMemo
  <2> QED
    BY <2>1, InitType DEF ServedInv
<1>2. ServedInv /\ [Next]_vars => ServedInv'
  BY NextServed
<1>3. ServedInv => WindowServed
  <2> SUFFICES ASSUME ServedInv, NEW r \in Requests,
                      pc[r] = "done", req[r].win.to <= req[r].to
               PROVE  IdsOf(InWin(req[r].known, req[r].win)) = IdsOf(req[r].rows)
    BY DEF WindowServed
  <2>1. Shows(req[r].rows, req[r].known, req[r].win.from, req[r].win.to)
    BY DEF ServedInv, Served, Answered
  <2> QED
    BY <2>1 DEF Shows, IdsOf, InWin
<1> QED
  BY <1>1, <1>2, <1>3, PTL DEF Spec

-----------------------------------------------------------------------------
(* The promise to readers                                                  *)

\* Nothing is costed with a pricing that is still to come.
PricedBy(rows, p) == \A x \in rows : x.price <= p

Known ==
  /\ PricedBy(memo.rows, price)
  /\ \A r \in Requests : PricedBy(req[r].rows, price)

PromiseInv == FreshInv /\ Known

LEMMA PricedLater ==
  ASSUME NEW rows \in SUBSET GapRow, NEW p \in Int, NEW q \in Int, p <= q, PricedBy(rows, p)
  PROVE  PricedBy(rows, q)
<1>1. \A x \in rows : x.price \in Int
  BY BoundsAssumption DEF GapRow
<1> QED
  BY <1>1 DEF PricedBy

\* What a request does with rows: it takes those of the memo, it fetches, or it
\* keeps what it has.
LEMMA ServeKnown ==
  ASSUME TypeInv, Known, NEW r \in Requests, Serve(r) PROVE Known'
<1> USE DEF TypeInv
<1>0. /\ req[r] \in ReqRec /\ price \in Int /\ price' = price
  BY BoundsAssumption DEF TypeOK, ReqRec, Serve, CheckMemo, CheckWait, CheckLead, Wake, Fetch, Store
<1>1. CASE CheckMemo(r)
  <2>1. req'[r].rows = InWin(memo.rows, req[r].win)
    BY <1>0, <1>1 DEF CheckMemo, TypeOK, ReqRec
  <2>2. \A q \in Requests \ {r} : req'[q] = req[q]
    BY <1>1 DEF CheckMemo, TypeOK
  <2>3. PricedBy(InWin(memo.rows, req[r].win), price)
    BY InWinSubset DEF Known, PricedBy
  <2>4. \A q \in Requests : PricedBy(req'[q].rows, price')
    BY <1>0, <2>1, <2>2, <2>3 DEF Known
  <2>5. memo' = memo
    BY <1>1 DEF CheckMemo
  <2> QED
    BY <1>0, <2>4, <2>5 DEF Known
<1>2. CASE CheckWait(r) \/ CheckLead(r) \/ Wake(r)
  <2>1. \A q \in Requests : req'[q].rows = req[q].rows
    BY <1>2 DEF CheckWait, CheckLead, Wake, TypeOK, ReqRec
  <2> QED
    BY <1>2, <2>1 DEF CheckWait, CheckLead, Wake, Known
<1>3. CASE Fetch(r)
  <2>1. req'[r].rows = Costed(InWin(raw, req[r].win))
    BY <1>0, <1>3 DEF Fetch, TypeOK, ReqRec
  <2>2. \A q \in Requests \ {r} : req'[q] = req[q]
    BY <1>3 DEF Fetch, TypeOK
  <2>3. PricedBy(Costed(InWin(raw, req[r].win)), price)
    BY <1>0 DEF PricedBy, Costed
  <2> QED
    BY <1>0, <1>3, <2>1, <2>2, <2>3 DEF Fetch, Known
<1>4. CASE Store(r)
  <2>1. PricedBy(memo'.rows, price)
    BY <1>4 DEF Store, Remembered, Known
  <2>2. ASSUME NEW q \in Requests PROVE req'[q].rows = req[q].rows \/ req'[q].rows = {}
    <3>1. req[q] \in ReqRec /\ req'[q] = Released(r)[q]
      BY <1>4 DEF TypeOK, Store
    <3> QED
      BY <3>1 DEF Released, ReqRec, NoReq
  <2> QED
    BY <1>0, <2>1, <2>2 DEF Known, PricedBy
<1> QED
  BY <1>1, <1>2, <1>3, <1>4 DEF Serve

LEMMA NextKnown == ASSUME TypeInv, Known, [Next]_vars PROVE Known'
<1> USE DEF TypeInv
<1>0. price \in Int /\ memo.rows \in SUBSET GapRow /\ \A q \in Requests : req[q] \in ReqRec
  BY BoundsAssumption DEF TypeOK, MemoRec
<1>1. CASE UNCHANGED vars \/ \E i \in Ids, t \in Times : Arrive(i, t)
  BY <1>1 DEF vars, Arrive, Known
<1>2. CASE ChangePricing
  <2>1. price' \in Int /\ price <= price'
    BY <1>0, <1>2 DEF ChangePricing
  <2>2. \A q \in Requests : req[q].rows \in SUBSET GapRow
    BY <1>0 DEF ReqRec
  <2> QED
    BY <1>0, <1>2, <2>1, <2>2, PricedLater DEF ChangePricing, Known
<1>3. CASE Invalidate
  <2>1. \A q \in Requests : req'[q].rows = req[q].rows
    BY <1>0, <1>3 DEF Invalidate, ReqRec
  <2> QED
    BY <1>3, <2>1 DEF Invalidate, Known, PricedBy, NoMemo
<1>4. CASE Expire
  BY <1>4 DEF Expire, Known, PricedBy, NoMemo
<1>5. ASSUME NEW r \in Requests, req'[r].rows = {}, \A q \in Requests \ {r} : req'[q] = req[q],
             price' = price, memo' = memo
      PROVE  Known'
  BY <1>5 DEF Known, PricedBy
<1>7. ASSUME NEW r \in Requests, NEW w \in Windows, Ask(r, w) PROVE Known'
  <2>1. [NoReq EXCEPT !.win = w, !.told = told].rows = {}
    BY DEF NoReq
  <2>2. req'[r].rows = {} /\ \A q \in Requests \ {r} : req'[q] = req[q]
    BY <1>7, <2>1 DEF Ask, TypeOK
  <2> QED
    BY <1>5, <1>7, <2>2 DEF Ask
<1>8. ASSUME NEW r \in Requests, Abandon(r) PROVE Known'
  <2>1. req'[r].rows = {} /\ \A q \in Requests \ {r} : req'[q] = req[q]
    BY <1>8 DEF Abandon, TypeOK, NoReq
  <2> QED
    BY <1>5, <1>8, <2>1 DEF Abandon
<1>6. ASSUME NEW r \in Requests, FetchFails(r) PROVE Known'
  <2>1. \A q \in Requests : req'[q].rows = req[q].rows
    BY <1>0, <1>6 DEF FetchFails, TypeOK, ReqRec
  <2> QED
    BY <1>6, <2>1 DEF FetchFails, Known
<1> QED
  BY <1>1, <1>2, <1>3, <1>4, <1>6, <1>7, <1>8, ServeKnown DEF Next

\* Nothing but request r moves, seen from the promise.
Others(r) ==
  /\ price' = price /\ told' = told
  /\ \A q \in Requests : q # r => Phase(q)' = Phase(q) /\ Shown(q)' = Shown(q) /\ req'[q].told = req[q].told

LEMMA Maps ==
  ASSUME NEW r \in Requests, Others(r)
  PROVE  /\ Phase(r) = "idle" /\ Phase(r)' = "open" /\ req'[r].told = told => Promise!Ask(r)
         /\ Phase(r) = "open" /\ Phase(r)' = "answered" /\ req'[r].told = req[r].told
            /\ Shown(r)' \in SUBSET (req[r].told..price) => Promise!Answer(r)
         /\ Phase(r)' = "idle" /\ req'[r].told = 0 => Promise!Leave(r)
         /\ Phase(r) = "open" /\ Phase(r)' = "open" /\ req'[r].told = req[r].told => UNCHANGED Promise!vars
<1> DEFINE phase == [q \in Requests |-> Phase(q)]
           low == [q \in Requests |-> req[q].told]
           shown == [q \in Requests |-> Shown(q)]
<1>1. phase' = [phase EXCEPT ![r] = Phase(r)']
  BY DEF Others
<1>2. low' = [low EXCEPT ![r] = req'[r].told]
  BY DEF Others
<1>3. shown' = [shown EXCEPT ![r] = Shown(r)']
  BY DEF Others
<1>4. (Phase(r) # "answered" => Shown(r) = {}) /\ (Phase(r)' # "answered" => Shown(r)' = {})
  BY DEF Phase, Shown
<1>5. phase[r] = Phase(r) /\ low[r] = req[r].told /\ shown[r] = Shown(r)
  OBVIOUS
<1>6. price' = price /\ told' = told
  BY DEF Others
<1>7. ASSUME Phase(r) = "idle", Phase(r)' = "open", req'[r].told = told PROVE Promise!Ask(r)
  <2> HIDE DEF phase, low, shown
  <2>1. /\ phase[r] = "idle" /\ phase' = [phase EXCEPT ![r] = "open"]
        /\ low' = [low EXCEPT ![r] = told] /\ shown' = [shown EXCEPT ![r] = {}]
    BY <1>1, <1>2, <1>3, <1>4, <1>5, <1>7
  <2> USE DEF phase, low, shown
  <2> QED
    BY <1>6, <2>1 DEF Promise!Ask
<1>8. ASSUME Phase(r) = "open", Phase(r)' = "answered", req'[r].told = req[r].told,
             Shown(r)' \in SUBSET (req[r].told..price)
      PROVE  Promise!Answer(r)
  <2> DEFINE s == Shown(r)'
  <2> HIDE DEF phase, low, shown
  <2>1. /\ phase[r] = "open" /\ phase' = [phase EXCEPT ![r] = "answered"]
        /\ shown' = [shown EXCEPT ![r] = s] /\ s \in SUBSET (low[r]..price)
    BY <1>1, <1>2, <1>3, <1>5, <1>8
  <2>2. low' = low
    BY <1>2, <1>5, <1>8 DEF low
  <2> USE DEF phase, low, shown
  <2> QED
    BY <1>6, <2>1, <2>2 DEF Promise!Answer
<1>9. ASSUME Phase(r)' = "idle", req'[r].told = 0 PROVE Promise!Leave(r)
  <2> HIDE DEF phase, low, shown
  <2>1. /\ phase' = [phase EXCEPT ![r] = "idle"]
        /\ low' = [low EXCEPT ![r] = 0] /\ shown' = [shown EXCEPT ![r] = {}]
    BY <1>1, <1>2, <1>3, <1>4, <1>9
  <2> USE DEF phase, low, shown
  <2> QED
    BY <1>6, <2>1 DEF Promise!Leave
<1>10. ASSUME Phase(r) = "open", Phase(r)' = "open", req'[r].told = req[r].told
       PROVE  UNCHANGED Promise!vars
  <2>1. phase' = phase /\ low' = low /\ shown' = shown
    BY <1>4, <1>10 DEF Others
  <2> QED
    BY <1>6, <2>1 DEF Promise!vars
<1> QED
  BY <1>7, <1>8, <1>9, <1>10

\* A step of a request shows no other request anything.
LEMMA ServeOthers ==
  ASSUME TypeInv, NEW r \in Requests, Serve(r) \/ Abandon(r) \/ FetchFails(r)
  PROVE  Others(r)
<1> USE DEF TypeInv
<1>1. SUFFICES /\ price' = price /\ told' = told
              /\ \A q \in Requests : q # r =>
                   pc'[q] = pc[q] /\ req'[q].told = req[q].told /\ req'[q].rows = req[q].rows
  BY DEF Others, Phase, Shown
<1>2. CASE CheckMemo(r) \/ CheckWait(r) \/ CheckLead(r)
  BY <1>2 DEF CheckMemo, CheckWait, CheckLead, TypeOK
<1>3. CASE Wake(r) \/ Fetch(r) \/ Abandon(r)
  BY <1>3 DEF Wake, Fetch, Abandon, TypeOK
<1>4. CASE FetchFails(r)
  BY <1>4 DEF FetchFails, TypeOK
<1>5. CASE Store(r)
  <2>1. ASSUME NEW q \in Requests, q # r
        PROVE  pc'[q] = pc[q] /\ req'[q].told = req[q].told /\ req'[q].rows = req[q].rows
    <3>1. pc'[q] = pc[q] /\ req[q] \in ReqRec
      BY <1>5, <2>1 DEF Store, TypeOK
    <3>2. req'[q] = req[q] \/ req'[q] = [req[q] EXCEPT !.leader = Nobody]
      BY <1>5, <2>1 DEF Store, Released
    <3> QED
      BY <3>1, <3>2 DEF ReqRec
  <2> QED
    BY <1>5, <2>1 DEF Store
<1> QED
  BY <1>2, <1>3, <1>4, <1>5 DEF Serve

LEMMA AskPromise ==
  ASSUME TypeInv, NEW r \in Requests, NEW w \in Windows, Ask(r, w)
  PROVE  Promise!Ask(r)
<1> USE DEF TypeInv
<1>1. [NoReq EXCEPT !.win = w, !.told = told].told = told
  BY DEF NoReq
<1>2. pc[r] = "idle" /\ pc'[r] = "check" /\ req'[r].told = told
  BY <1>1 DEF Ask, TypeOK
<1>3. \A q \in Requests : q # r => pc'[q] = pc[q] /\ req'[q] = req[q]
  BY DEF Ask, TypeOK
<1>4. Others(r)
  BY <1>3 DEF Ask, Others, Phase, Shown
<1> QED
  BY <1>2, <1>4, Maps DEF Phase

LEMMA RequestPromise ==
  ASSUME PromiseInv, PromiseInv', NEW r \in Requests, Serve(r) \/ Abandon(r) \/ FetchFails(r)
  PROVE  [Promise!Next]_(Promise!vars)
<1>0. /\ TypeOK /\ TypeOK' /\ Fresh' /\ Known'
      /\ price \in Int /\ req[r] \in ReqRec /\ req'[r] \in ReqRec
  BY BoundsAssumption DEF PromiseInv, FreshInv, TypeInv, TypeOK
<1>1. Others(r)
  BY ServeOthers DEF PromiseInv, FreshInv
<1>3. CASE Abandon(r) \/ (Store(r) /\ ~req[r].ok)
  <2>1. pc'[r] = "gone" /\ req'[r] = NoReq
    BY <1>0, <1>3 DEF Abandon, Store, Released, TypeOK
  <2>2. Promise!Leave(r)
    BY <1>1, <2>1, Maps DEF Phase, NoReq
  <2> QED
    BY <2>2 DEF Promise!Next
<1>4. CASE CheckMemo(r) \/ (Store(r) /\ req[r].ok)
  <2>1. pc[r] \in {"check", "store"} /\ pc'[r] = "done" /\ req'[r].told = req[r].told
    BY <1>0, <1>4 DEF CheckMemo, Store, Released, TypeOK, ReqRec
  <2>2. Shown(r)' \in SUBSET (req[r].told..price)
    <3>1. \A x \in req'[r].rows : x.price \in Int
      BY <1>0, BoundsAssumption DEF ReqRec, GapRow
    <3>2. PricedSince(req'[r].rows, req'[r].told) /\ PricedBy(req'[r].rows, price')
      BY <1>0, <2>1 DEF Fresh, Known
    <3>3. req[r].told \in Int /\ price' = price
      BY <1>0, <1>1, BoundsAssumption DEF Others, ReqRec
    <3> QED
      BY <1>0, <2>1, <3>1, <3>2, <3>3 DEF Shown, PricedSince, PricedBy
  <2>3. Promise!Answer(r)
    BY <1>1, <2>1, <2>2, Maps DEF Phase
  <2> QED
    BY <2>3 DEF Promise!Next
<1>5. CASE CheckWait(r) \/ CheckLead(r) \/ Wake(r) \/ Fetch(r) \/ FetchFails(r)
  <2>1. /\ {pc[r], pc'[r]} \subseteq {"check", "wait", "fetch", "store"}
        /\ req'[r].told = req[r].told
    BY <1>0, <1>5 DEF CheckWait, CheckLead, Wake, Fetch, FetchFails, TypeOK, ReqRec
  <2>2. UNCHANGED Promise!vars
    BY <1>1, <2>1, Maps DEF Phase
  <2> QED
    BY <2>2
<1> QED
  BY <1>3, <1>4, <1>5 DEF Serve

\* The shared fetch keeps the promise that every source makes: no request shows
\* costs from before the pricing change that was announced when it began.
THEOREM Promised == Spec => KeepsPromise
<1>1. Init => PromiseInv
  <2>1. Init => Known
    BY DEF Init, Known, PricedBy, NoMemo, NoReq
  <2> QED
    BY <2>1, InitType, InitFresh DEF PromiseInv, FreshInv
<1>2. PromiseInv /\ [Next]_vars => PromiseInv'
  BY NextFresh, NextKnown DEF PromiseInv, FreshInv
<1>3. Init => Promise!Init
  BY DEF Init, Promise!Init, Phase, Shown, NoReq
<1>4. PromiseInv /\ PromiseInv' /\ [Next]_vars => [Promise!Next]_(Promise!vars)
  <2> SUFFICES ASSUME PromiseInv, PromiseInv', [Next]_vars PROVE [Promise!Next]_(Promise!vars)
    OBVIOUS
  <2>1. CASE UNCHANGED vars
    BY <2>1 DEF vars, Promise!vars, Phase, Shown
  <2>2. CASE (\E i \in Ids, t \in Times : Arrive(i, t)) \/ Expire
    BY <2>2 DEF Arrive, Expire, Promise!vars, Phase, Shown
  <2>3. CASE ChangePricing
    <3>1. Promise!ChangePrice
      BY <2>3 DEF ChangePricing, Promise!ChangePrice, Phase, Shown
    <3> QED
      BY <3>1 DEF Promise!Next
  <2>4. CASE Invalidate
    <3>1. \A q \in Requests : req'[q].told = req[q].told /\ req'[q].rows = req[q].rows
      BY <2>4 DEF Invalidate, PromiseInv, FreshInv, TypeInv, TypeOK, ReqRec
    <3>2. pc' = pc /\ price' = price /\ told' = price
      BY <2>4 DEF Invalidate
    <3>3. \A q \in Requests : Phase(q)' = Phase(q) /\ Shown(q)' = Shown(q)
      BY <3>1, <3>2 DEF Phase, Shown
    <3>4. Promise!Announce
      BY <3>1, <3>2, <3>3 DEF Promise!Announce
    <3> QED
      BY <3>4 DEF Promise!Next
  <2>5. ASSUME NEW r \in Requests, NEW w \in Windows, Ask(r, w) PROVE Promise!Next
    BY <2>5, AskPromise DEF PromiseInv, FreshInv, Promise!Next
  <2> QED
    BY <2>1, <2>2, <2>3, <2>4, <2>5, RequestPromise DEF Next
<1> QED
  BY <1>1, <1>2, <1>3, <1>4, PTL DEF Spec, KeepsPromise, Promise!Spec
=============================================================================
