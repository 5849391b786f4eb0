------------------------ MODULE SnapshotCache_proofs ------------------------
(***************************************************************************)
(* SnapshotCache keeps the promise of AnnouncedReads, and an invalidation  *)
(* is final for the data, for every number of readers, files, bounds and   *)
(* every duration.                                                         *)
(*                                                                         *)
(* The inductive invariant says what the generation stands for: what a     *)
(* slot holds, and what a scan that was not overtaken has read or is still *)
(* to read, includes all that was there at the last invalidation, costed   *)
(* with the pricing that was announced by it or a later one.               *)
(***************************************************************************)
EXTENDS SnapshotCache, TLAPS

Shows(rows, known, from) == \A m \in known : m.t >= from => m \in rows
Costs(p) == told.price <= p /\ p <= price

\* What a slot holds.
SlotOK(slot) ==
  slot.held => /\ Shows(slot.rows, told.rows, slot.from + Margin)
               /\ slot.price <= price /\ (~Locked => Costs(slot.price))

Reach(r) == IF Locked THEN 0 ELSE req[r].from
Unread(r) == {m \in disk : m.file \in req[r].todo}
Current0(r) == Locked \/ req[r].gen = generation

\* What a reader has in hand.
ReaderOK(r) ==
  /\ req[r].gen <= generation
  /\ pc[r] \in Open => req[r].low <= told.price /\ req[r].known \subseteq told.rows
  /\ Locked => /\ pc[r] # "check"
               /\ pc[r] \in Running => lock = r
               /\ pc[r] \in Running \union {"lock"} =>
                    req[r].low <= req[r].price /\ req[r].price <= price
  /\ ~Locked => pc[r] \notin {"price", "lock"}
  /\ pc[r] = "scan" /\ Current0(r) =>
       /\ Shows(req[r].rows \union Unread(r), told.rows, Reach(r))
       /\ kind = "claudecode" => Costs(req[r].price)
  /\ pc[r] = "store" /\ Current0(r) =>
       /\ Shows(req[r].rows, told.rows, Reach(r))
       /\ ~Locked => Costs(req[r].price)
  /\ pc[r] = "done" =>
       /\ Shows(req[r].rows, req[r].known, req[r].from)
       /\ req[r].low <= req[r].price /\ req[r].price <= price

WorldOK ==
  /\ \A m \in disk : m.t <= m.w + Margin
  /\ told.rows \subseteq disk
  /\ full.held => full.from = 0 - Margin
  /\ ~Locked => lock = NoOne

IInv ==
  /\ TypeOK /\ WorldOK
  /\ SlotOK(full) /\ SlotOK(bounded)
  /\ \A r \in Readers : ReaderOK(r)

--------------------------------------------------------------------------
(* Types                                                                   *)

LEMMA NoReqTyped == NoReq \in Req /\ NoSlot \in Slot
BY DEF NoReq, Req, NoSlot, Slot

LEMMA InitType == Init => TypeOK
BY ReadersAssumption, NoReqTyped DEF Init, TypeOK, Types, LockHeld

LEMMA RowsTyped == ASSUME Types, NEW f PROVE RowsOf(f) \in SUBSET Row
BY DEF Types, RowsOf

LEMMA ServesTyped == ASSUME Types, NEW from PROVE Serves(from) \in Slot
BY NoReqTyped DEF Types, Serves

LEMMA SnapshotTyped ==
  ASSUME Types, NEW r \in Readers, NEW from \in Nat
  PROVE  Snapshot(r, from) \in Slot
BY TimesAssumption DEF Types, Snapshot, Slot, Req

LEMMA AnsweredTypes ==
  ASSUME Types, NEW r \in Readers, NEW rows \in SUBSET Row, NEW p \in Nat, Answered(r, rows, p)
  PROVE  /\ req' \in [Readers -> Req] /\ seen' \in SUBSET Row
         /\ pc' \in [Readers -> Open \union {"idle", "done"}]
<1>1. [req[r] EXCEPT !.rows = rows, !.price = p, !.gen = 0] \in Req
  <2>1. req[r] \in Req
    BY DEF Types
  <2> QED
    BY <2>1 DEF Req
<1>2. req' = [req EXCEPT ![r] = [req[r] EXCEPT !.rows = rows, !.price = p, !.gen = 0]]
  BY DEF Answered
<1>3. req' \in [Readers -> Req]
  BY <1>1, <1>2 DEF Types
<1>4. seen' \in SUBSET Row
  BY DEF Answered, Types
<1> QED
  BY <1>3, <1>4 DEF Answered, Types

LEMMA EnvTypes ==
  ASSUME Types, \/ Tick \/ ChangePricing \/ Invalidate
                \/ \E f \in Files, t \in 0..MaxTime + Margin : Write(f, t)
  PROVE  Types'
<1>1. CASE Tick
  <2>1. Kept(full) \in Slot /\ Kept(bounded) \in Slot
    BY NoReqTyped DEF Kept, Types
  <2> QED
    BY <1>1, <2>1 DEF Tick, Types
<1>2. CASE ChangePricing
  BY <1>2 DEF ChangePricing, Types, cache
<1>3. CASE Invalidate
  BY <1>3, NoReqTyped DEF Invalidate, Types
<1>4. ASSUME NEW f \in Files, NEW t \in 0..MaxTime + Margin, Write(f, t) PROVE Types'
  <2>1. [file |-> f, t |-> t, w |-> now] \in Row
    BY TimesAssumption DEF Row, Types
  <2> QED
    BY <1>4, <2>1 DEF Write, Types, cache
<1> QED
  BY <1>1, <1>2, <1>3, <1>4

LEMMA ReaderTypes ==
  ASSUME Types, NEW r \in Readers,
         \/ Leave(r) \/ Step(r) \/ Missing(r) \/ Fail(r) \/ ScanAgain(r)
         \/ \E from \in Froms : Ask(r, from)
  PROVE  Types'
<1> USE DEF world, cache
<1>r. req[r] \in Req
  BY DEF Types
<1>1. CASE Leave(r) \/ Fail(r)
  BY <1>1, NoReqTyped DEF Leave, Fail, Released, Types, Open
<1>2. CASE Missing(r) \/ ScanAgain(r) \/ Overtaken(r)
  BY <1>2 DEF Missing, ScanAgain, Overtaken, Types, Open, Running
<1>3. ASSUME NEW from \in Froms, Ask(r, from) PROVE Types'
  <2>1. [NoReq EXCEPT !.from = from, !.begin = now, !.low = told.price,
                      !.known = told.rows, !.base = seen] \in Req
    BY NoReqTyped, TimesAssumption DEF Types, Req
  <2> QED
    BY <1>3, <2>1 DEF Ask, Types, Open, Running
<1>4. CASE CheckServes(r)
  <2>1. Serves(req[r].from).rows \in SUBSET Row /\ Serves(req[r].from).price \in Nat
    BY ServesTyped DEF Slot
  <2> QED
    BY <1>4, <2>1, AnsweredTypes DEF CheckServes, Types
<1>5. CASE CheckScans(r)
  <2>1. [req[r] EXCEPT !.gen = generation] \in Req
    BY <1>r DEF Types, Req
  <2>2. req' = [req EXCEPT ![r] = [req[r] EXCEPT !.gen = generation]]
    BY <1>5 DEF CheckScans
  <2> QED
    BY <1>5, <2>1, <2>2 DEF CheckScans, Types, Open, Running
<1>6. CASE Discover(r)
  <2> DEFINE todo == Selected(IF Locked THEN 0 ELSE req[r].from)
             p == IF kind = "claudecode" THEN price ELSE req[r].price
  <2>1. todo \in SUBSET Files /\ p \in Nat
    BY <1>r DEF Selected, Existing, Types, Row, Req
  <2>2. [req[r] EXCEPT !.todo = todo, !.rows = {}, !.price = p] \in Req
    BY <1>r, <2>1 DEF Req
  <2>3. req' = [req EXCEPT ![r] = [req[r] EXCEPT !.todo = todo, !.rows = {}, !.price = p]]
    BY <1>6 DEF Discover
  <2>4. pc' = [pc EXCEPT ![r] = "scan"] /\ UNCHANGED <<kind, world, cache, lock, seen>>
    BY <1>6 DEF Discover
  <2> HIDE DEF todo, p
  <2> QED
    BY <2>2, <2>3, <2>4 DEF Types, Open, Running
<1>7. ASSUME NEW f \in Files, ScanFile(r, f) PROVE Types'
  <2>1. [req[r] EXCEPT !.rows = @ \union RowsOf(f), !.todo = @ \ {f}] \in Req
    BY <1>r, RowsTyped DEF Req
  <2>2. req' = [req EXCEPT ![r] = [req[r] EXCEPT !.rows = @ \union RowsOf(f), !.todo = @ \ {f}]]
    BY <1>7 DEF ScanFile
  <2> QED
    BY <1>7, <2>1, <2>2 DEF ScanFile, Types
<1>8. CASE Normalize(r)
  <2> DEFINE p == IF kind = "claudecode" \/ Locked THEN req[r].price ELSE price
  <2>1. [req[r] EXCEPT !.price = p] \in Req
    BY <1>r DEF Req, Types
  <2>2. req' = [req EXCEPT ![r] = [req[r] EXCEPT !.price = p]]
    BY <1>8 DEF Normalize
  <2> HIDE DEF p
  <2> QED
    BY <1>8, <2>1, <2>2 DEF Normalize, Types, Open, Running
<1>9. CASE StoreGivesWay(r)
  <2>1. Serves(req[r].from).rows \in SUBSET Row /\ Serves(req[r].from).price \in Nat
    BY ServesTyped DEF Slot
  <2> QED
    BY <1>9, <2>1, AnsweredTypes DEF StoreGivesWay, Types
<1>10. CASE Store(r)
  <2>1. Snapshot(r, 0) \in Slot /\ Snapshot(r, req[r].from) \in Slot
    BY <1>r, SnapshotTyped DEF Req
  <2>2. req[r].rows \in SUBSET Row /\ req[r].price \in Nat
    BY <1>r DEF Req
  <2>3. full' \in Slot /\ bounded' \in Slot
    BY <1>10, <2>1 DEF Store, Types
  <2> QED
    BY <1>10, <2>2, <2>3, AnsweredTypes DEF Store, Types
<1>11. CASE LoadPricing(r)
  <2>1. [req[r] EXCEPT !.price = price] \in Req
    BY <1>r DEF Req, Types
  <2>2. req' = [req EXCEPT ![r] = [req[r] EXCEPT !.price = price]]
    BY <1>11 DEF LoadPricing
  <2> QED
    BY <1>11, <2>1, <2>2 DEF LoadPricing, Types, Open
<1>12. CASE LockServes(r)
  <2>1. full.rows \in SUBSET Row /\ full.price \in Nat
    BY DEF Types, Slot
  <2> QED
    BY <1>12, <2>1, AnsweredTypes DEF LockServes, Types
<1>13. CASE LockScans(r)
  <2>1. [req[r] EXCEPT !.begin = now] \in Req
    BY <1>r DEF Req, Types
  <2>2. req' = [req EXCEPT ![r] = [req[r] EXCEPT !.begin = now]]
    BY <1>13 DEF LockScans
  <2> QED
    BY <1>13, <2>1, <2>2 DEF LockScans, Types, Open, Running
<1>14. CASE StoreAndUnlock(r)
  <2>1. req[r].rows \in SUBSET Row /\ req[r].price \in Nat /\ Snapshot(r, 0) \in Slot
    BY <1>r, SnapshotTyped DEF Req
  <2> QED
    BY <1>14, <2>1, AnsweredTypes DEF StoreAndUnlock, Released, Types
<1> QED
  BY <1>1, <1>2, <1>3, <1>4, <1>5, <1>6, <1>7, <1>8, <1>9, <1>10, <1>11, <1>12, <1>13, <1>14 DEF Step

--------------------------------------------------------------------------
(* The invariant                                                           *)

\* What another reader's step, a write or a pricing change may do.
Grows ==
  /\ kind' = kind /\ told' = told /\ disk \subseteq disk' /\ price <= price'

\* A reader that does not move stays in order.
LEMMA ReaderStays ==
  ASSUME Types, Types', NEW q \in Readers, ReaderOK(q), Grows,
         pc'[q] = pc[q], req'[q] = req[q], generation' = generation,
         lock = q => lock' = q
  PROVE  ReaderOK(q)'
<1>1. Unread(q) \subseteq Unread(q)'
  BY DEF Unread, Grows
<1>2. Reach(q)' = Reach(q) /\ Current0(q)' = Current0(q) /\ Locked' = Locked
  BY DEF Reach, Current0, Grows, Locked
<1>3. req[q] \in Req
  BY DEF Types
<1> QED
  BY <1>1, <1>2, <1>3 DEF ReaderOK, Shows, Costs, Grows, Types, Req

LEMMA SlotStays ==
  ASSUME Types, Types', Grows, NEW slot \in Slot, SlotOK(slot)
  PROVE  SlotOK(slot)'
BY DEF SlotOK, Shows, Costs, Grows, Locked, Types, Slot

LEMMA NoSlotOK == SlotOK(NoSlot) /\ SlotOK(NoSlot)'
BY DEF SlotOK, NoSlot

LEMMA IdleOK ==
  ASSUME Types, NEW r \in Readers, pc[r] = "idle", req[r] = NoReq PROVE ReaderOK(r)
BY DEF ReaderOK, Open, Running, NoReq, Types

LEMMA NowIdleOK ==
  ASSUME Types', NEW r \in Readers, pc'[r] = "idle", req'[r] = NoReq PROVE ReaderOK(r)'
BY DEF ReaderOK, Open, Running, NoReq, Types

LEMMA InitInv == Init => IInv
<1> SUFFICES ASSUME Init PROVE IInv
  OBVIOUS
<1>1. TypeOK
  BY InitType
<1>2. WorldOK
  BY DEF Init, WorldOK, NoSlot
<1>3. SlotOK(full) /\ SlotOK(bounded)
  BY NoSlotOK DEF Init
<1>4. \A r \in Readers : ReaderOK(r)
  BY <1>1, IdleOK DEF Init, TypeOK
<1> QED
  BY <1>1, <1>2, <1>3, <1>4 DEF IInv

LEMMA EnvInv ==
  ASSUME IInv, \/ Tick \/ ChangePricing \/ Invalidate
               \/ \E f \in Files, t \in 0..MaxTime + Margin : Write(f, t)
  PROVE  IInv'
<1>t. Types /\ Types'
  BY EnvTypes DEF IInv, TypeOK
<1> USE DEF cache
<1>1. CASE Tick
  <2>1. Grows
    BY <1>1, <1>t DEF Tick, Grows, Types
  <2>2. \A q \in Readers : ReaderOK(q)'
    BY <1>1, <1>t, <2>1, ReaderStays DEF Tick, IInv
  <2>3. (full' = full \/ full' = NoSlot) /\ (bounded' = bounded \/ bounded' = NoSlot)
    BY <1>1 DEF Tick, Kept
  <2>4. SlotOK(full)' /\ SlotOK(bounded)'
    BY <1>t, <2>1, <2>3, SlotStays, NoSlotOK DEF IInv, Types
  <2>5. WorldOK' /\ LockHeld'
    BY <1>1, <2>3 DEF Tick, WorldOK, LockHeld, NoSlot, IInv, TypeOK, Locked
  <2> QED
    BY <1>t, <2>2, <2>4, <2>5 DEF IInv, TypeOK
<1>2. CASE ChangePricing
  <2>1. Grows
    BY <1>2, <1>t DEF ChangePricing, Grows, Types
  <2>2. \A q \in Readers : ReaderOK(q)'
    BY <1>2, <1>t, <2>1, ReaderStays DEF ChangePricing, IInv
  <2>4. SlotOK(full)' /\ SlotOK(bounded)'
    BY <1>2, <1>t, <2>1, SlotStays DEF ChangePricing, IInv, Types
  <2>5. WorldOK' /\ LockHeld'
    BY <1>2 DEF ChangePricing, WorldOK, LockHeld, IInv, TypeOK, Locked
  <2> QED
    BY <1>t, <2>2, <2>4, <2>5 DEF IInv, TypeOK
<1>3. CASE Invalidate
  <2>1. SlotOK(full)' /\ SlotOK(bounded)'
    BY <1>3, NoSlotOK DEF Invalidate
  <2>2. WorldOK' /\ LockHeld'
    BY <1>3 DEF Invalidate, WorldOK, LockHeld, NoSlot, IInv, TypeOK, Locked
  <2>3. ASSUME NEW q \in Readers PROVE ReaderOK(q)'
    <3>1. ReaderOK(q) /\ req[q] \in Req
      BY <1>t DEF IInv, Types
    <3>2. told.price <= told'.price /\ told.rows \subseteq told'.rows
      BY <1>3, <1>t DEF Invalidate, Types, IInv, WorldOK
    <3>3. Locked => pc[q] \notin Running
      BY <1>3, <3>1, ReadersAssumption DEF Invalidate, ReaderOK
    <3>4. req'[q] = req[q] /\ pc'[q] = pc[q] /\ price' = price /\ lock' = lock
          /\ generation' = generation + 1 /\ (Locked' = Locked)
      BY <1>3 DEF Invalidate, Locked
    <3>5. Current0(q)' => Locked
      BY <1>t, <3>1, <3>4 DEF Current0, ReaderOK, Types, Req
    <3>6. req[q].gen <= generation + 1
      BY <1>t, <3>1 DEF ReaderOK, Types, Req
    <3> QED
      BY <1>t, <3>1, <3>2, <3>3, <3>4, <3>5, <3>6 DEF ReaderOK, Shows, Types, Req, Running, Open
  <2> QED
    BY <1>t, <2>1, <2>2, <2>3 DEF IInv, TypeOK
<1>4. ASSUME NEW f \in Files, NEW t \in 0..MaxTime + Margin, Write(f, t) PROVE IInv'
  <2>1. Grows
    BY <1>4, <1>t DEF Write, Grows, Types
  <2>2. \A q \in Readers : ReaderOK(q)'
    BY <1>4, <1>t, <2>1, ReaderStays DEF Write, IInv
  <2>3. SlotOK(full)' /\ SlotOK(bounded)'
    BY <1>4, <1>t, <2>1, SlotStays DEF Write, IInv, Types
  <2>4. WorldOK'
    BY <1>4, <1>t, TimesAssumption DEF Write, WorldOK, IInv, Types, Locked
  <2>5. LockHeld'
    BY <1>4 DEF Write, LockHeld, IInv, TypeOK
  <2> QED
    BY <1>t, <2>2, <2>3, <2>4, <2>5 DEF IInv, TypeOK
<1> QED
  BY <1>1, <1>2, <1>3, <1>4

\* A step of one reader: what is left to show.
LEMMA OneReader ==
  ASSUME IInv, Types', NEW r \in Readers, UNCHANGED <<kind, world, generation>>,
         pc' = [pc EXCEPT ![r] = pc'[r]], req' = [req EXCEPT ![r] = req'[r]],
         \A q \in Readers : q # r /\ lock = q => lock' = q,
         ReaderOK(r)', SlotOK(full)', SlotOK(bounded)', LockHeld',
         full'.held => full'.from = 0 - Margin, ~Locked => lock' = lock
  PROVE  IInv'
<1>t. Types
  BY DEF IInv, TypeOK
<1>1. Grows
  BY <1>t DEF Grows, world, Types
<1>2. ASSUME NEW q \in Readers, q # r PROVE ReaderOK(q)'
  <2>1. pc'[q] = pc[q] /\ req'[q] = req[q]
    BY <1>2, <1>t DEF Types
  <2> QED
    BY <1>1, <1>2, <1>t, <2>1, ReaderStays DEF IInv
<1>3. WorldOK'
  BY DEF WorldOK, IInv, world, Locked
<1> QED
  BY <1>2, <1>3 DEF IInv, TypeOK

\* The same when the slots and the lock stay.
LEMMA OneReaderQuiet ==
  ASSUME IInv, Types', NEW r \in Readers, UNCHANGED <<kind, world, cache, lock>>,
         pc' = [pc EXCEPT ![r] = pc'[r]], req' = [req EXCEPT ![r] = req'[r]],
         ReaderOK(r)', lock = r => pc'[r] \in Running
  PROVE  IInv'
<1>t. Types
  BY DEF IInv, TypeOK
<1>1. SlotOK(full)' /\ SlotOK(bounded)'
  BY <1>t, SlotStays DEF IInv, Grows, world, cache, Types
<1>2. LockHeld'
  BY <1>t DEF LockHeld, IInv, TypeOK, Types
<1>3. full'.held => full'.from = 0 - Margin
  BY DEF IInv, WorldOK, cache
<1> QED
  BY <1>1, <1>2, <1>3, OneReader DEF cache

\* An answer that is in order.
LEMMA AnswerOK ==
  ASSUME IInv, Types', NEW r \in Readers, NEW rows \in SUBSET Row, NEW p \in Nat,
         UNCHANGED <<kind, world, generation>>, Answered(r, rows, p),
         Shows(rows, req[r].known, req[r].from), req[r].low <= p, p <= price
  PROVE  /\ ReaderOK(r)' /\ pc'[r] = "done"
         /\ pc' = [pc EXCEPT ![r] = pc'[r]] /\ req' = [req EXCEPT ![r] = req'[r]]
<1>1. req[r] \in Req /\ pc'[r] = "done"
      /\ req'[r] = [req[r] EXCEPT !.rows = rows, !.price = p, !.gen = 0]
      /\ pc' = [pc EXCEPT ![r] = pc'[r]] /\ req' = [req EXCEPT ![r] = req'[r]]
  BY DEF Answered, IInv, TypeOK, Types
<1>2. /\ req'[r].rows = rows /\ req'[r].price = p /\ req'[r].gen = 0
      /\ req'[r].known = req[r].known /\ req'[r].low = req[r].low /\ req'[r].from = req[r].from
  BY <1>1 DEF Req
<1> QED
  BY <1>1, <1>2 DEF ReaderOK, Open, Running, Shows, world, IInv, TypeOK, Types

\* What a slot serves is in order for whoever it serves.
LEMMA ServesOK ==
  ASSUME IInv, NEW r \in Readers, pc[r] \in Open, ~Locked, Serves(req[r].from).held
  PROVE  LET slot == Serves(req[r].from) IN
         /\ slot.rows \in SUBSET Row /\ slot.price \in Nat
         /\ Shows(slot.rows, req[r].known, req[r].from)
         /\ req[r].low <= slot.price /\ slot.price <= price
<1> DEFINE slot == Serves(req[r].from)
<1>t. Types /\ req[r] \in Req
  BY DEF IInv, TypeOK, Types
<1>1. req[r].low <= told.price /\ req[r].known \subseteq told.rows
  BY DEF IInv, ReaderOK
<1>2. slot \in Slot /\ SlotOK(slot)
  BY ServesTyped, NoSlotOK, <1>t DEF Serves, IInv
<1>3. slot.from + Margin <= req[r].from
  BY <1>t, TimesAssumption DEF Serves, IInv, WorldOK, Types, Slot, Req, NoSlot, Fresh, FreshAt
<1> QED
  BY <1>t, <1>1, <1>2, <1>3, TimesAssumption DEF SlotOK, Shows, Costs, Types, Slot, Req, Row

\* Files that are left out hold nothing in the window.
LEMMA SelectedAll ==
  ASSUME IInv, NEW from \in Nat
  PROVE  Shows({m \in disk : m.file \in Selected(from)}, disk, from)
<1> SUFFICES ASSUME NEW m \in disk, m.t >= from PROVE m.file \in Selected(from)
  BY DEF Shows
<1>1. m \in Row /\ m.t <= m.w + Margin
  BY DEF IInv, WorldOK, TypeOK, Types
<1>2. m.w >= from - Margin
  BY <1>1, TimesAssumption DEF Row
<1> QED
  BY <1>1, <1>2 DEF Selected, Existing, RowsOf

LEMMA SelectedOK ==
  ASSUME IInv, NEW from \in Nat
  PROVE  Shows({m \in disk : m.file \in Selected(from)}, told.rows, from)
BY SelectedAll DEF Shows, IInv, WorldOK

\* A reader that is left alone, or begins.
LEMMA BeginInv ==
  ASSUME IInv, NEW r \in Readers,
         Leave(r) \/ Fail(r) \/ \E from \in Froms : Ask(r, from)
  PROVE  IInv'
<1>t. Types /\ Types' /\ req[r] \in Req /\ LockHeld
  BY ReaderTypes DEF IInv, TypeOK, Types
<1>1. CASE Leave(r)
  <2>1. pc'[r] = "idle" /\ req'[r] = NoReq
    BY <1>1, <1>t DEF Leave, Types
  <2>2. lock # r
    BY <1>1, <1>t, ReadersAssumption DEF Leave, LockHeld, Running
  <2> QED
    BY <1>1, <1>t, <2>1, <2>2, NowIdleOK, OneReaderQuiet DEF Leave
<1>2. CASE Fail(r)
  <2>1. pc'[r] = "idle" /\ req'[r] = NoReq
    BY <1>2, <1>t DEF Fail, Types
  <2>2. ReaderOK(r)'
    BY <1>t, <2>1, NowIdleOK
  <2>3. \A q \in Readers : q # r /\ lock = q => lock' = q
    BY <1>2 DEF Fail, Released
  <2>4. SlotOK(full)' /\ SlotOK(bounded)' /\ (full'.held => full'.from = 0 - Margin)
    BY <1>2, <1>t, SlotStays DEF Fail, IInv, WorldOK, Grows, world, cache, Types
  <2>5. LockHeld' /\ (~Locked => lock' = lock)
    BY <1>2, <1>t, ReadersAssumption DEF Fail, Released, LockHeld, IInv, WorldOK, Types
  <2>6. /\ pc' = [pc EXCEPT ![r] = pc'[r]] /\ req' = [req EXCEPT ![r] = req'[r]]
        /\ UNCHANGED <<kind, world, generation>>
    BY <1>2, <2>1 DEF Fail, cache
  <2> QED
    BY <1>t, <2>2, <2>3, <2>4, <2>5, <2>6, OneReader
<1>3. ASSUME NEW from \in Froms, Ask(r, from) PROVE IInv'
  <2> DEFINE q == [NoReq EXCEPT !.from = from, !.begin = now, !.low = told.price,
                                !.known = told.rows, !.base = seen]
  <2>1. pc'[r] = (IF Locked THEN "price" ELSE "check") /\ req'[r] = q
    BY <1>3, <1>t DEF Ask, Types
  <2>2. q.gen = 0 /\ q.low = told.price /\ q.known = told.rows
    BY DEF NoReq
  <2> HIDE DEF q
  <2>3. ReaderOK(r)'
    <3>1. /\ req'[r].gen = 0 /\ req'[r].low = told'.price /\ req'[r].known = told'.rows
          /\ Locked' <=> Locked
      BY <1>3, <2>1, <2>2 DEF Ask, world, Locked
    <3>4. generation' \in Nat
      BY <1>t DEF Types
    <3>2. req'[r].low <= told'.price
      BY <1>t, <3>1 DEF Types
    <3>3. /\ pc'[r] \notin Running \ {"check"} /\ pc'[r] \notin {"lock", "done"}
          /\ Locked => pc'[r] = "price"
          /\ ~Locked => pc'[r] = "check"
      BY <2>1 DEF Running
    <3> QED
      BY <3>1, <3>2, <3>3, <3>4 DEF ReaderOK, Running
  <2>4. lock # r
    BY <1>3, <1>t, ReadersAssumption DEF Ask, LockHeld, Running
  <2> QED
    BY <1>3, <1>t, <2>1, <2>3, <2>4, OneReaderQuiet DEF Ask
<1> QED
  BY <1>1, <1>2, <1>3

\* An answer from what is kept.
LEMMA ServedInv ==
  ASSUME IInv, NEW r \in Readers, CheckServes(r) \/ StoreGivesWay(r) \/ LockServes(r)
  PROVE  IInv'
<1>t. Types /\ Types' /\ req[r] \in Req /\ ReaderOK(r) /\ LockHeld
  BY ReaderTypes DEF IInv, TypeOK, Types, Step
<1>1. CASE CheckServes(r) \/ StoreGivesWay(r)
  <2>1. ~Locked /\ pc[r] \in Open /\ Serves(req[r].from).held
    BY <1>1, <1>t DEF CheckServes, StoreGivesWay, Prefers, ReaderOK, Open, Running, Locked
  <2>2. lock # r
    BY <2>1, ReadersAssumption DEF IInv, WorldOK
  <2>3. ReaderOK(r)' /\ pc' = [pc EXCEPT ![r] = pc'[r]] /\ req' = [req EXCEPT ![r] = req'[r]]
    BY <1>1, <1>t, <2>1, ServesOK, AnswerOK DEF CheckServes, StoreGivesWay, cache
  <2> QED
    BY <1>1, <1>t, <2>2, <2>3, OneReaderQuiet DEF CheckServes, StoreGivesWay
<1>2. CASE LockServes(r)
  <2>1. lock # r /\ pc[r] = "lock" /\ full.held /\ full.price = req[r].price
    BY <1>2, ReadersAssumption DEF LockServes, Current, Fresh, FreshAt
  <2>2. Locked
    BY <1>t, <2>1 DEF ReaderOK
  <2>3. full \in Slot /\ SlotOK(full) /\ full.from + Margin = 0
    BY <1>t, <2>1, TimesAssumption DEF IInv, Types, WorldOK
  <2>4. Shows(full.rows, told.rows, 0)
    BY <2>1, <2>3 DEF SlotOK
  <2>5. Shows(full.rows, req[r].known, req[r].from)
    BY <1>t, <2>1, <2>4 DEF Shows, ReaderOK, Open, Req, Row
  <2>6. req[r].low <= full.price /\ full.price <= price
    BY <1>t, <2>1, <2>2 DEF ReaderOK
  <2>7. full.rows \in SUBSET Row /\ full.price \in Nat
    BY <2>3 DEF Slot
  <2>8. ReaderOK(r)' /\ pc' = [pc EXCEPT ![r] = pc'[r]] /\ req' = [req EXCEPT ![r] = req'[r]]
    BY <1>2, <1>t, <2>5, <2>6, <2>7, AnswerOK DEF LockServes, cache
  <2> QED
    BY <1>2, <1>t, <2>1, <2>8, OneReaderQuiet DEF LockServes
<1> QED
  BY <1>1, <1>2

\* A step on the way to a scan, or back to the slots.
LEMMA TurnsInv ==
  ASSUME IInv, NEW r \in Readers,
         CheckScans(r) \/ Missing(r) \/ Overtaken(r) \/ ScanAgain(r) \/ LoadPricing(r) \/ LockScans(r)
  PROVE  IInv'
<1>t. Types /\ Types' /\ req[r] \in Req /\ ReaderOK(r) /\ LockHeld
  BY ReaderTypes DEF IInv, TypeOK, Types, Step
<1>1. CASE CheckScans(r)
  <2>1. pc'[r] = "discover" /\ req'[r] = [req[r] EXCEPT !.gen = generation]
    BY <1>1, <1>t DEF CheckScans, Types
  <2>2. req'[r].gen = generation /\ req'[r].low = req[r].low /\ req'[r].known = req[r].known
    BY <1>t, <2>1 DEF Req
  <2>3. ReaderOK(r)'
    BY <1>1, <1>t, <2>1, <2>2 DEF CheckScans, ReaderOK, Open, Running, Types, world, cache, Locked
  <2> QED
    BY <1>1, <1>t, <2>1, <2>3, OneReaderQuiet DEF CheckScans, Running
<1>2. CASE Missing(r)
  <2>1. pc'[r] = "gone" /\ req'[r] = req[r]
    BY <1>2, <1>t DEF Missing, Types
  <2>2. ReaderOK(r)'
    BY <1>2, <1>t, <2>1 DEF Missing, ReaderOK, Open, Running, Types, world, cache, Locked
  <2> QED
    BY <1>2, <1>t, <2>1, <2>2, OneReaderQuiet DEF Missing, Running, Types
<1>3. CASE Overtaken(r) \/ ScanAgain(r)
  <2>1. pc'[r] = "check" /\ req'[r] = req[r] /\ ~Locked
    BY <1>3, <1>t DEF Overtaken, ScanAgain, Types
  <2>2. ReaderOK(r)'
    BY <1>3, <1>t, <2>1 DEF Overtaken, ScanAgain, ReaderOK, Open, Running, Types, world, cache, Locked
  <2> QED
    BY <1>3, <1>t, <2>1, <2>2, OneReaderQuiet DEF Overtaken, ScanAgain, Running, Types
<1>4. CASE LoadPricing(r)
  <2>1. pc'[r] = "lock" /\ req'[r] = [req[r] EXCEPT !.price = price]
    BY <1>4, <1>t DEF LoadPricing, Types
  <2>2. /\ req'[r].price = price /\ req'[r].low = req[r].low /\ req'[r].known = req[r].known
        /\ req'[r].gen = req[r].gen
    BY <1>t, <2>1 DEF Req
  <2>3. ReaderOK(r)'
    BY <1>4, <1>t, <2>1, <2>2 DEF LoadPricing, ReaderOK, Open, Running, Types, world, cache, Locked, Req
  <2>4. lock # r
    BY <1>4, <1>t, ReadersAssumption DEF LoadPricing, LockHeld, Running
  <2> QED
    BY <1>4, <1>t, <2>1, <2>3, <2>4, OneReaderQuiet DEF LoadPricing, Running
<1>5. CASE LockScans(r)
  <2>1. pc'[r] = "discover" /\ req'[r] = [req[r] EXCEPT !.begin = now] /\ lock' = r /\ Locked
    BY <1>5, <1>t DEF LockScans, Types, ReaderOK
  <2>2. /\ req'[r].price = req[r].price /\ req'[r].low = req[r].low /\ req'[r].known = req[r].known
        /\ req'[r].gen = req[r].gen
    BY <1>t, <2>1 DEF Req
  <2>3. ReaderOK(r)'
    BY <1>5, <1>t, <2>1, <2>2 DEF LockScans, ReaderOK, Open, Running, Types, world, cache, Locked
  <2>4. SlotOK(full)' /\ SlotOK(bounded)' /\ (full'.held => full'.from = 0 - Margin)
    BY <1>5, <1>t, SlotStays DEF LockScans, IInv, WorldOK, Grows, world, cache, Types
  <2>5. LockHeld' /\ (\A q \in Readers : q # r /\ lock = q => lock' = q)
    BY <1>5, <2>1, ReadersAssumption DEF LockScans, LockHeld, Running
  <2>6. /\ pc' = [pc EXCEPT ![r] = pc'[r]] /\ req' = [req EXCEPT ![r] = req'[r]]
        /\ UNCHANGED <<kind, world, generation>>
    BY <1>5, <2>1 DEF LockScans, cache
  <2> QED
    BY <1>t, <2>1, <2>3, <2>4, <2>5, <2>6, OneReader
<1> QED
  BY <1>1, <1>2, <1>3, <1>4, <1>5

\* The scan.
LEMMA ScanInv ==
  ASSUME IInv, NEW r \in Readers,
         Discover(r) \/ Normalize(r) \/ \E f \in Files : ScanFile(r, f)
  PROVE  IInv'
<1>t. Types /\ Types' /\ req[r] \in Req /\ ReaderOK(r) /\ LockHeld
  BY ReaderTypes DEF IInv, TypeOK, Types, Step
<1>1. CASE Discover(r)
  <2> DEFINE todo == Selected(Reach(r))
             p == IF kind = "claudecode" THEN price ELSE req[r].price
             q == [req[r] EXCEPT !.todo = todo, !.rows = {}, !.price = p]
  <2>1. pc'[r] = "scan" /\ req'[r] = q /\ UNCHANGED <<kind, world, cache, lock, seen>>
    BY <1>1, <1>t DEF Discover, Types, Reach
  <2>2. /\ q.todo = todo /\ q.rows = {} /\ q.price = p /\ q.low = req[r].low
        /\ q.known = req[r].known /\ q.gen = req[r].gen /\ q.from = req[r].from
    BY <1>t DEF Req
  <2> HIDE DEF q
  <2>3. Reach(r) \in Nat /\ Reach(r)' = Reach(r)
    BY <1>t, <2>1, <2>2 DEF Reach, Locked, Req
  <2>4. Shows({m \in disk : m.file \in todo}, told.rows, Reach(r))
    BY <2>3, SelectedOK
  <2>5. Shows(req'[r].rows \union Unread(r)', told'.rows, Reach(r)')
    BY <2>1, <2>2, <2>3, <2>4 DEF Unread, Shows, world
  <2>6. (kind = "claudecode" => Costs(price)') /\ (Locked' <=> Locked)
    BY <1>t, <2>1 DEF Costs, Types, world, Locked
  <2>7. ReaderOK(r)'
    BY <1>1, <1>t, <2>1, <2>2, <2>5, <2>6 DEF Discover, ReaderOK, Costs, Open, Running, world, cache, Locked
  <2> QED
    BY <1>1, <1>t, <2>1, <2>7, OneReaderQuiet DEF Discover, Running
<1>2. CASE Normalize(r)
  <2> DEFINE p == IF kind = "claudecode" \/ Locked THEN req[r].price ELSE price
             q == [req[r] EXCEPT !.price = p]
  <2>1. pc'[r] = "store" /\ req'[r] = q /\ UNCHANGED <<kind, world, cache, lock, seen>>
    BY <1>2, <1>t DEF Normalize, Types
  <2>2. /\ q.rows = req[r].rows /\ q.price = p /\ q.low = req[r].low
        /\ q.known = req[r].known /\ q.gen = req[r].gen /\ q.from = req[r].from
    BY <1>t DEF Req
  <2> HIDE DEF q
  <2>3. Unread(r) = {} /\ pc[r] = "scan"
    BY <1>2 DEF Normalize, Unread
  <2>4. /\ Reach(r)' = Reach(r) /\ (Current0(r)' <=> Current0(r)) /\ (Locked' <=> Locked)
        /\ told' = told /\ price' = price /\ lock' = lock /\ generation' = generation
    BY <2>1, <2>2 DEF Reach, Locked, Current0, world, cache
  <2>5. Current0(r) => Shows(q.rows, told.rows, Reach(r)) /\ (~Locked => Costs(p))
    BY <1>t, <2>2, <2>3 DEF ReaderOK, Costs, Types, Shows, Req
  <2>6. Locked => lock = r /\ req[r].low <= p /\ p <= price
    BY <1>t, <2>3 DEF ReaderOK, Running
  <2>8. /\ q.low <= told.price /\ q.known \subseteq told.rows /\ q.gen <= generation
    BY <1>t, <2>2, <2>3 DEF ReaderOK, Running, Open
  <2> HIDE DEF p
  <2>7. ReaderOK(r)'
    BY <2>1, <2>2, <2>4, <2>5, <2>6, <2>8 DEF ReaderOK, Costs, Shows, Running, Open
  <2> QED
    BY <1>2, <1>t, <2>1, <2>7, OneReaderQuiet DEF Normalize, Running
<1>3. ASSUME NEW f \in Files, ScanFile(r, f) PROVE IInv'
  <2> DEFINE q == [req[r] EXCEPT !.rows = req[r].rows \union RowsOf(f), !.todo = req[r].todo \ {f}]
  <2>1. /\ pc' = pc /\ pc[r] = "scan" /\ req'[r] = q /\ req' = [req EXCEPT ![r] = q]
        /\ UNCHANGED <<kind, world, cache, lock, seen>>
    BY <1>3, <1>t DEF ScanFile, Types
  <2>2. /\ q.rows = req[r].rows \union RowsOf(f) /\ q.todo = req[r].todo \ {f} /\ q.low = req[r].low
        /\ q.known = req[r].known /\ q.gen = req[r].gen /\ q.from = req[r].from
        /\ q.price = req[r].price
    BY <1>t DEF Req
  <2> HIDE DEF q
  <2>3. req[r].rows \union Unread(r) \subseteq req'[r].rows \union Unread(r)'
    BY <2>1, <2>2 DEF Unread, RowsOf, world
  <2>4. /\ Reach(r)' = Reach(r) /\ (Current0(r)' <=> Current0(r)) /\ (Locked' <=> Locked)
        /\ told' = told /\ price' = price /\ lock' = lock /\ generation' = generation /\ kind' = kind
    BY <2>1, <2>2 DEF Reach, Locked, Current0, world, cache
  <2>7. ReaderOK(r)'
    BY <1>t, <2>1, <2>2, <2>3, <2>4 DEF ReaderOK, Costs, Shows, Running, Open
  <2>8. pc' = [pc EXCEPT ![r] = pc'[r]]
    BY <1>t, <2>1 DEF Types
  <2> QED
    BY <1>t, <2>1, <2>7, <2>8, OneReaderQuiet DEF Running
<1> QED
  BY <1>1, <1>2, <1>3

\* What is stored is in order for the reader itself.
LEMMA StoredOK ==
  ASSUME IInv, NEW r \in Readers, pc[r] = "store", Current0(r)
  PROVE  /\ req[r].rows \in SUBSET Row /\ req[r].price \in Nat
         /\ Shows(req[r].rows, req[r].known, req[r].from)
         /\ req[r].low <= req[r].price /\ req[r].price <= price
<1>t. Types /\ req[r] \in Req /\ ReaderOK(r)
  BY DEF IInv, TypeOK, Types
<1>1. /\ Shows(req[r].rows, told.rows, Reach(r)) /\ (~Locked => Costs(req[r].price))
      /\ req[r].low <= told.price /\ req[r].known \subseteq told.rows
      /\ Locked => req[r].low <= req[r].price /\ req[r].price <= price
  BY <1>t DEF ReaderOK, Open, Running
<1>2. Reach(r) \in Nat /\ Reach(r) <= req[r].from
  BY <1>t DEF Reach, Req
<1>3. Shows(req[r].rows, req[r].known, req[r].from)
  BY <1>t, <1>1, <1>2 DEF Shows, Types, Row, Req
<1>4. req[r].low <= req[r].price /\ req[r].price <= price
  BY <1>t, <1>1 DEF Costs, Types, Req
<1> QED
  BY <1>t, <1>3, <1>4 DEF Req

LEMMA StoreInv ==
  ASSUME IInv, NEW r \in Readers, Store(r) \/ StoreAndUnlock(r)
  PROVE  IInv'
<1>t. Types /\ Types' /\ req[r] \in Req /\ ReaderOK(r) /\ LockHeld
  BY ReaderTypes DEF IInv, TypeOK, Types, Step
<1>0. /\ pc[r] = "store" /\ Current0(r) /\ UNCHANGED <<kind, world, generation>>
      /\ Answered(r, req[r].rows, req[r].price)
  BY DEF Store, StoreAndUnlock, Current0
<1>1. /\ req[r].rows \in SUBSET Row /\ req[r].price \in Nat
      /\ Shows(req[r].rows, req[r].known, req[r].from)
      /\ req[r].low <= req[r].price /\ req[r].price <= price
  BY <1>0, StoredOK
<1>2. /\ ReaderOK(r)' /\ pc'[r] = "done"
      /\ pc' = [pc EXCEPT ![r] = pc'[r]] /\ req' = [req EXCEPT ![r] = req'[r]]
  BY <1>0, <1>1, <1>t, AnswerOK
<1>3. Shows(req[r].rows, told.rows, Reach(r)) /\ (~Locked => Costs(req[r].price))
  BY <1>0, <1>t DEF ReaderOK
<1>4. ASSUME NEW from \in Nat, from = Reach(r)
      PROVE  SlotOK(Snapshot(r, from))
  <2>1. from - Margin + Margin = Reach(r)
    BY <1>4, TimesAssumption
  <2> QED
    BY <1>1, <1>3, <2>1 DEF SlotOK, Snapshot
<1>5. ASSUME NEW from \in Nat, from = Reach(r)
      PROVE  /\ Snapshot(r, from) \in Slot
             /\ \A slot : slot = Snapshot(r, from) => SlotOK(slot)'
  <2>1. Snapshot(r, from) \in Slot
    BY <1>t, SnapshotTyped
  <2>2. Grows
    BY <1>0, <1>t DEF Grows, world, Types
  <2> QED
    BY <1>4, <1>5, <1>t, <2>1, <2>2, SlotStays
<1>6. SlotOK(full)' \/ full' # full
  BY <1>0, <1>t, SlotStays DEF IInv, Grows, world, Types
<1>7. SlotOK(bounded)' \/ bounded' # bounded
  BY <1>0, <1>t, SlotStays DEF IInv, Grows, world, Types
<1>8. Reach(r) \in Nat
  BY <1>t DEF Reach, Req
<1>9. SlotOK(full)' /\ SlotOK(bounded)' /\ (full'.held => full'.from = 0 - Margin)
      /\ LockHeld' /\ (~Locked => lock' = lock)
      /\ \A q \in Readers : q # r /\ lock = q => lock' = q
  <2>1. CASE StoreAndUnlock(r)
    <3>1. Reach(r) = 0 /\ full' = Snapshot(r, 0) /\ bounded' = bounded /\ Locked
      BY <2>1 DEF StoreAndUnlock, Reach
    <3>2. lock' = NoOne /\ lock = r
      BY <2>1, <1>t DEF StoreAndUnlock, Released, ReaderOK, Running
    <3> QED
      BY <1>5, <1>7, <3>1, <3>2, ReadersAssumption DEF Snapshot, LockHeld
  <2>2. CASE Store(r)
    <3>1. ~Locked /\ lock' = lock /\ lock = NoOne /\ Reach(r) = req[r].from
      BY <2>2 DEF Store, Reach, IInv, WorldOK
    <3>2. CASE req[r].from = 0
      <4>1. full' = Snapshot(r, 0) /\ bounded' = bounded
        BY <2>2, <3>2 DEF Store
      <4> QED
        BY <1>5, <1>7, <3>1, <3>2, <4>1 DEF Snapshot, LockHeld
    <3>3. CASE req[r].from # 0
      <4>1. bounded' = Snapshot(r, req[r].from) /\ full' = full
        BY <2>2, <3>3 DEF Store
      <4> QED
        BY <1>5, <1>6, <1>8, <3>1, <4>1 DEF LockHeld, IInv, WorldOK
    <3> QED
      BY <3>2, <3>3
  <2> QED
    BY <2>1, <2>2
<1> QED
  BY <1>0, <1>2, <1>9, <1>t, OneReader

LEMMA ReaderInv ==
  ASSUME IInv, NEW r \in Readers,
         \/ Leave(r) \/ Step(r) \/ Missing(r) \/ Fail(r) \/ ScanAgain(r)
         \/ \E from \in Froms : Ask(r, from)
  PROVE  IInv'
BY BeginInv, ServedInv, TurnsInv, ScanInv, StoreInv DEF Step

LEMMA NextInv == IInv /\ [Next]_vars => IInv'
<1> SUFFICES ASSUME IInv, [Next]_vars PROVE IInv'
  OBVIOUS
<1>1. CASE UNCHANGED vars
  BY <1>1 DEF vars, world, cache, IInv, TypeOK, Types, LockHeld, WorldOK, SlotOK, Shows, Costs,
     ReaderOK, Reach, Unread, Current0, Locked
<1>2. CASE Next
  BY <1>2, EnvInv, ReaderInv DEF Next
<1> QED
  BY <1>1, <1>2

THEOREM Invariance == Spec => []IInv
<1>1. Init => IInv
  BY InitInv
<1>2. IInv /\ [Next]_vars => IInv'
  BY NextInv
<1> QED
  BY <1>1, <1>2, PTL DEF Spec

\* Types, and that the lock of antigravity is held by a reader that reads.
THEOREM TypeCorrect == Spec => []TypeOK
<1>1. IInv => TypeOK
  BY DEF IInv
<1> QED
  BY <1>1, Invariance, PTL

\* A read that begins after an invalidation shows every record of its window
\* that was there at that time: an overtaken scan neither answers it nor
\* reaches a slot that does (Invalidate and loadSnapshot of the sources).
THEOREM InvalidationIsFinal == Spec => []InvalidationShows
<1>1. IInv => InvalidationShows
  BY DEF IInv, ReaderOK, InvalidationShows, InWindow, Shows
<1> QED
  BY <1>1, Invariance, PTL

--------------------------------------------------------------------------
(* The promise                                                             *)

LEMMA OneMoves ==
  ASSUME Types, Types', NEW r \in Readers,
         pc' = [pc EXCEPT ![r] = pc'[r]], req' = [req EXCEPT ![r] = req'[r]]
  PROVE  \A q \in Readers : q # r => pc'[q] = pc[q] /\ req'[q] = req[q]
BY DEF Types

\* A step of one reader, by what it is to the promise.
LEMMA Maps ==
  ASSUME Types, Types', NEW r \in Readers, price' = price, told' = told,
         \A q \in Readers : q # r => pc'[q] = pc[q] /\ req'[q] = req[q]
  PROVE  /\ Phase(r) = "idle" /\ Phase(r)' = "open" /\ req'[r].low = told.price
              => Promise!Ask(r)
         /\ Phase(r) = "open" /\ Phase(r)' = "answered" /\ req'[r].low = req[r].low
            /\ req'[r].price \in req[r].low..price
              => Promise!Answer(r)
         /\ Phase(r)' = "idle" /\ req'[r].low = 0 => Promise!Leave(r)
         /\ Phase(r) = "open" /\ Phase(r)' = "open" /\ req'[r].low = req[r].low
              => UNCHANGED Promise!vars
<1> DEFINE phase == [q \in Readers |-> Phase(q)]
           low == [q \in Readers |-> req[q].low]
           shown == [q \in Readers |-> Shown(q)]
<1>1. \A q \in Readers : q # r => Phase(q)' = Phase(q) /\ Shown(q)' = Shown(q)
  BY DEF Phase, Shown
<1>2. phase' = [phase EXCEPT ![r] = Phase(r)']
  BY <1>1
<1>3. low' = [low EXCEPT ![r] = req'[r].low]
  OBVIOUS
<1>4. shown' = [shown EXCEPT ![r] = Shown(r)']
  BY <1>1
<1>5. /\ Phase(r)' # "answered" => Shown(r)' = {}
      /\ Phase(r)' = "answered" => Shown(r)' = {req'[r].price}
      /\ Phase(r) # "answered" => Shown(r) = {}
  BY DEF Phase, Shown
<1>6. phase[r] = Phase(r) /\ low[r] = req[r].low /\ shown[r] = Shown(r)
  OBVIOUS
<1>7. ASSUME Phase(r) = "idle", Phase(r)' = "open", req'[r].low = told.price PROVE Promise!Ask(r)
  <2> HIDE DEF phase, low, shown
  <2>1. /\ phase[r] = "idle" /\ phase' = [phase EXCEPT ![r] = "open"]
        /\ low' = [low EXCEPT ![r] = told.price] /\ shown' = [shown EXCEPT ![r] = {}]
    BY <1>2, <1>3, <1>4, <1>5, <1>6, <1>7
  <2> USE DEF phase, low, shown
  <2> QED
    BY <2>1 DEF Promise!Ask
<1>8. ASSUME Phase(r) = "open", Phase(r)' = "answered", req'[r].low = req[r].low,
             req'[r].price \in req[r].low..price
      PROVE  Promise!Answer(r)
  <2> DEFINE s == {req'[r].price}
  <2> HIDE DEF phase, low, shown
  <2>1. /\ phase[r] = "open" /\ phase' = [phase EXCEPT ![r] = "answered"]
        /\ shown' = [shown EXCEPT ![r] = s] /\ s \in SUBSET (low[r]..price)
    BY <1>2, <1>3, <1>4, <1>5, <1>6, <1>8
  <2>2. low' = low
    BY <1>3, <1>6, <1>8 DEF low
  <2> USE DEF phase, low, shown
  <2> QED
    BY <2>1, <2>2 DEF Promise!Answer
<1>9. ASSUME Phase(r)' = "idle", req'[r].low = 0 PROVE Promise!Leave(r)
  <2> HIDE DEF phase, low, shown
  <2>1. /\ phase' = [phase EXCEPT ![r] = "idle"]
        /\ low' = [low EXCEPT ![r] = 0] /\ shown' = [shown EXCEPT ![r] = {}]
    BY <1>2, <1>3, <1>4, <1>5, <1>9
  <2> USE DEF phase, low, shown
  <2> QED
    BY <2>1 DEF Promise!Leave
<1>10. ASSUME Phase(r) = "open", Phase(r)' = "open", req'[r].low = req[r].low
       PROVE  UNCHANGED Promise!vars
  <2>1. phase' = phase /\ low' = low /\ shown' = shown
    BY <1>1, <1>5, <1>10
  <2> QED
    BY <2>1 DEF Promise!vars
<1> QED
  BY <1>7, <1>8, <1>9, <1>10

LEMMA ReaderPromise ==
  ASSUME IInv, IInv', NEW r \in Readers,
         \/ Leave(r) \/ Step(r) \/ Missing(r) \/ Fail(r) \/ ScanAgain(r)
         \/ pc[r] # "done" /\ \E from \in Froms : Ask(r, from)
  PROVE  [Promise!Next]_(Promise!vars)
<1>t. Types /\ Types' /\ req[r] \in Req /\ ReaderOK(r)'
  BY DEF IInv, TypeOK, Types
<1>s. /\ price' = price /\ told' = told
      /\ \A q \in Readers : q # r => pc'[q] = pc[q] /\ req'[q] = req[q]
  BY <1>t, ZenonT(60) DEF Leave, Step, Missing, Fail, ScanAgain, Ask, CheckServes, CheckScans, Discover, Normalize,
     ScanFile, Overtaken, StoreGivesWay, Store, LoadPricing, LockServes, LockScans, StoreAndUnlock,
     Answered, world, Types
<1>1. CASE Leave(r) \/ Fail(r)
  <2>1. pc'[r] = "idle" /\ req'[r] = NoReq
    BY <1>1, <1>t DEF Leave, Fail, Types
  <2>2. Promise!Leave(r)
    BY <1>s, <1>t, <2>1, Maps DEF Phase, NoReq
  <2> QED
    BY <2>2 DEF Promise!Next
<1>2. ASSUME NEW from \in Froms, Ask(r, from), pc[r] # "done" PROVE [Promise!Next]_(Promise!vars)
  <2>1. pc[r] = "idle" /\ pc'[r] \in {"price", "check"}
        /\ req'[r] = [NoReq EXCEPT !.from = from, !.begin = now, !.low = told.price,
                                   !.known = told.rows, !.base = seen]
    BY <1>2, <1>t DEF Ask, Types
  <2>2. req'[r].low = told.price
    BY <2>1 DEF NoReq
  <2>3. Promise!Ask(r)
    BY <1>s, <1>t, <2>1, <2>2, Maps DEF Phase
  <2> QED
    BY <2>3 DEF Promise!Next
<1>3. CASE CheckServes(r) \/ StoreGivesWay(r) \/ Store(r) \/ LockServes(r) \/ StoreAndUnlock(r)
  <2>1. PICK rows, p : Answered(r, rows, p)
    BY <1>3 DEF CheckServes, StoreGivesWay, Store, LockServes, StoreAndUnlock
  <2>2. pc[r] \in Open /\ pc'[r] = "done" /\ req'[r] = [req[r] EXCEPT !.rows = rows, !.price = p, !.gen = 0]
    BY <1>3, <1>t, <2>1 DEF CheckServes, StoreGivesWay, Store, LockServes, StoreAndUnlock, Answered,
       Types, Open, Running
  <2>3. req'[r].low = req[r].low
    BY <1>t, <2>2 DEF Req
  <2>4. req'[r].price \in req[r].low..price
    <3>1. req'[r].low <= req'[r].price /\ req'[r].price <= price
      BY <1>s, <1>t, <2>2 DEF ReaderOK
    <3>2. req'[r] \in Req /\ price \in Nat
      BY <1>t DEF Types
    <3> QED
      BY <2>3, <3>1, <3>2 DEF Req
  <2>5. Promise!Answer(r)
    BY <1>s, <1>t, <2>2, <2>3, <2>4, Maps DEF Phase, Open, Running
  <2> QED
    BY <2>5 DEF Promise!Next
<1>4. CASE CheckScans(r) \/ Discover(r) \/ Normalize(r) \/ (\E f \in Files : ScanFile(r, f)) \/ Overtaken(r)
           \/ LoadPricing(r) \/ LockScans(r) \/ Missing(r) \/ ScanAgain(r)
  <2>1. pc[r] \in Open /\ pc'[r] \in Open
    BY <1>4, <1>t DEF CheckScans, Discover, Normalize, ScanFile, Overtaken, LoadPricing, LockScans,
       Missing, ScanAgain, Types, Open, Running
  <2>2. req'[r].low = req[r].low
    <3>1. CASE Discover(r)
      <4>1. PICK todo, p : req'[r] = [req[r] EXCEPT !.todo = todo, !.rows = {}, !.price = p]
        BY <1>t, <3>1 DEF Discover, Types
      <4> QED
        BY <1>t, <4>1 DEF Req
    <3>2. ASSUME NEW f \in Files, ScanFile(r, f) PROVE req'[r].low = req[r].low
      <4>1. PICK rows, todo : req'[r] = [req[r] EXCEPT !.rows = rows, !.todo = todo]
        BY <1>t, <3>2 DEF ScanFile, Types
      <4> QED
        BY <1>t, <4>1 DEF Req
    <3>3. CASE Normalize(r) \/ LoadPricing(r)
      <4>1. PICK p : req'[r] = [req[r] EXCEPT !.price = p]
        BY <1>t, <3>3 DEF Normalize, LoadPricing, Types
      <4> QED
        BY <1>t, <4>1 DEF Req
    <3>4. CASE CheckScans(r) \/ LockScans(r)
      <4>1. req'[r] = [req[r] EXCEPT !.gen = generation] \/ req'[r] = [req[r] EXCEPT !.begin = now]
        BY <1>t, <3>4 DEF CheckScans, LockScans, Types
      <4> QED
        BY <1>t, <4>1 DEF Req
    <3>5. CASE Overtaken(r) \/ Missing(r) \/ ScanAgain(r)
      BY <1>t, <3>5 DEF Overtaken, Missing, ScanAgain, Types
    <3> QED
      BY <1>4, <3>1, <3>2, <3>3, <3>4, <3>5
  <2>3. UNCHANGED Promise!vars
    BY <1>s, <1>t, <2>1, <2>2, Maps DEF Phase, Open, Running
  <2> QED
    BY <2>3
<1> QED
  BY <1>1, <1>2, <1>3, <1>4 DEF Step

LEMMA EnvPromise ==
  ASSUME IInv, \/ Tick \/ ChangePricing \/ Invalidate
               \/ \E f \in Files, t \in 0..MaxTime + Margin : Write(f, t)
  PROVE  [Promise!Next]_(Promise!vars)
<1>1. pc' = pc /\ req' = req
  BY DEF Tick, ChangePricing, Invalidate, Write
<1>2. \A q \in Readers : Phase(q)' = Phase(q) /\ Shown(q)' = Shown(q)
  BY <1>1 DEF Phase, Shown
<1>3. CASE Tick \/ \E f \in Files, t \in 0..MaxTime + Margin : Write(f, t)
  <2>1. price' = price /\ told' = told
    BY <1>3 DEF Tick, Write
  <2> QED
    BY <1>1, <1>2, <2>1 DEF Promise!vars
<1>4. CASE ChangePricing
  <2>1. Promise!ChangePrice
    BY <1>1, <1>2, <1>4 DEF Promise!ChangePrice, ChangePricing
  <2> QED
    BY <2>1 DEF Promise!Next
<1>5. CASE Invalidate
  <2>1. Promise!Announce
    BY <1>1, <1>2, <1>5 DEF Promise!Announce, Invalidate
  <2> QED
    BY <2>1 DEF Promise!Next
<1> QED
  BY <1>3, <1>4, <1>5

\* Whatever a snapshot cache does is what AnnouncedReads allows: no read shows
\* costs from before the pricing change that was announced when it began.
THEOREM Promised == Spec => KeepsPromise
<1>1. Init => Promise!Init
  BY DEF Init, Promise!Init, Phase, Shown, NoReq
<1>2. IInv /\ IInv' /\ [Next]_vars => [Promise!Next]_(Promise!vars)
  <2> SUFFICES ASSUME IInv, IInv', [Next]_vars PROVE [Promise!Next]_(Promise!vars)
    OBVIOUS
  <2>1. CASE UNCHANGED vars
    BY <2>1 DEF vars, world, Promise!vars, Phase, Shown
  <2>2. CASE Next
    BY <2>2, EnvPromise, ReaderPromise DEF Next
  <2> QED
    BY <2>1, <2>2
<1> QED
  BY <1>1, <1>2, Invariance, PTL DEF Spec, KeepsPromise, Promise!Spec

--------------------------------------------------------------------------
(* Staleness: what a slot or a scan holds includes whatever was written before the *)
(* scan began, and a scan is over within the deadline.                             *)

ShowsBefore(rows, time, from) == \A m \in disk : m.t >= from /\ m.w < time => m \in rows

SlotTimely(slot) ==
  slot.held => slot.at <= now /\ ShowsBefore(slot.rows, slot.at - Deadline, slot.from + Margin)

ReaderTimely(r) ==
  /\ pc[r] \in Open \union {"done"} => req[r].begin <= now
  /\ pc[r] \in Running => now <= req[r].begin + Deadline
  /\ pc[r] = "scan" => ShowsBefore(req[r].rows \union Unread(r), req[r].begin, Reach(r))
  /\ pc[r] = "store" => ShowsBefore(req[r].rows, req[r].begin, Reach(r))
  /\ pc[r] = "done" => ShowsBefore(req[r].rows, req[r].begin - TTL - Deadline, req[r].from)

Timely ==
  /\ SlotTimely(full) /\ SlotTimely(bounded)
  /\ \A r \in Readers : ReaderTimely(r)

LEMMA InitTimely == Init => Timely
BY DEF Init, Timely, SlotTimely, ReaderTimely, NoSlot, Open, Running

\* A step of one reader leaves the world, and the others, alone.
LEMMA Alone ==
  ASSUME Types, NEW r \in Readers,
         \/ Leave(r) \/ Step(r) \/ Missing(r) \/ Fail(r) \/ ScanAgain(r)
         \/ \E from \in Froms : Ask(r, from)
  PROVE  /\ UNCHANGED <<kind, world, generation>>
         /\ \A q \in Readers : q # r => pc'[q] = pc[q] /\ req'[q] = req[q]
BY DEF Leave, Step, Missing, Fail, ScanAgain, Ask, CheckServes, CheckScans, Discover, Normalize,
   ScanFile, Overtaken, StoreGivesWay, Store, LoadPricing, LockServes, LockScans, StoreAndUnlock,
   Answered, world, cache, Types

LEMMA TimelyEnv ==
  ASSUME IInv, Timely, \/ Tick \/ ChangePricing \/ Invalidate
                       \/ \E f \in Files, t \in 0..MaxTime + Margin : Write(f, t)
  PROVE  Timely'
<1>t. /\ now \in Nat /\ disk \in SUBSET Row /\ full \in Slot /\ bounded \in Slot
      /\ \A q \in Readers : req[q] \in Req
  BY DEF IInv, TypeOK, Types
<1> USE DEF world, cache
<1>1. CASE Tick
  <2>1. (full' = full \/ full' = NoSlot) /\ (bounded' = bounded \/ bounded' = NoSlot)
    BY <1>1 DEF Tick, Kept
  <2>2. now' = now + 1 /\ UNCHANGED <<kind, disk, pc, req>>
    BY <1>1 DEF Tick
  <2>3. SlotTimely(full)' /\ SlotTimely(bounded)'
    BY <1>t, <2>1, <2>2 DEF Timely, SlotTimely, ShowsBefore, NoSlot, Slot
  <2>4. ASSUME NEW q \in Readers PROVE ReaderTimely(q)'
    <3>1. pc[q] \in Running => now + 1 <= req[q].begin + Deadline
      BY <1>1, <1>t, TimesAssumption DEF Tick, Req
    <3> QED
      BY <1>t, <2>2, <3>1 DEF Timely, ReaderTimely, ShowsBefore, Unread, Reach, Locked, Req
  <2> QED
    BY <2>3, <2>4 DEF Timely
<1>2. CASE ChangePricing
  BY <1>2 DEF ChangePricing, Timely, SlotTimely, ReaderTimely, ShowsBefore, Unread, Reach, Locked
<1>3. CASE Invalidate
  BY <1>3 DEF Invalidate, Timely, SlotTimely, ReaderTimely, ShowsBefore, Unread, Reach, Locked, NoSlot
<1>4. ASSUME NEW f \in Files, NEW t \in 0..MaxTime + Margin, Write(f, t) PROVE Timely'
  <2>1. /\ disk' = disk \union {[file |-> f, t |-> t, w |-> now]}
        /\ UNCHANGED <<kind, now, full, bounded, pc, req>>
    BY <1>4 DEF Write
  <2>2. \A m \in disk' : m \in disk \/ m.w = now
    BY <2>1
  <2>3. ASSUME NEW slot \in Slot, SlotTimely(slot) PROVE SlotTimely(slot)'
    <3> SUFFICES ASSUME slot.held, NEW m \in disk', m.t >= slot.from + Margin, m.w < slot.at - Deadline
                 PROVE  m \in slot.rows
      BY <2>1, <2>3 DEF SlotTimely, ShowsBefore
    <3>1. slot.at \in Nat /\ slot.at <= now
      BY <2>3 DEF SlotTimely, Slot
    <3>2. m.w # now
      BY <1>t, <3>1, TimesAssumption
    <3> QED
      BY <2>2, <2>3, <3>2 DEF SlotTimely, ShowsBefore
  <2>4. ASSUME NEW q \in Readers PROVE ReaderTimely(q)'
    <3>1. ReaderTimely(q) /\ req[q].begin \in Nat
      BY <1>t DEF Timely, Req
    <3>2. /\ req[q].rows \union Unread(q) \subseteq (req[q].rows \union Unread(q))'
          /\ Reach(q)' = Reach(q)
      BY <2>1 DEF Unread, Reach, Locked
    <3>3. ASSUME pc[q] \in Open \union {"done"}, NEW m \in disk', m.w < req[q].begin PROVE m \in disk
      <4>1. m.w # now
        BY <1>t, <3>1, <3>3 DEF ReaderTimely
      <4> QED
        BY <2>2, <4>1
    <3>4. pc[q] = "scan" => ShowsBefore(req[q].rows \union Unread(q), req[q].begin, Reach(q))'
      <4> SUFFICES ASSUME pc[q] = "scan", NEW m \in disk', m.t >= Reach(q), m.w < req[q].begin
                   PROVE  m \in req[q].rows \union Unread(q)
        BY <2>1, <3>2 DEF ShowsBefore
      <4> QED
        BY <3>1, <3>3 DEF ReaderTimely, ShowsBefore, Open, Running
    <3>5. pc[q] = "store" => ShowsBefore(req[q].rows, req[q].begin, Reach(q))'
      <4> SUFFICES ASSUME pc[q] = "store", NEW m \in disk', m.t >= Reach(q), m.w < req[q].begin
                   PROVE  m \in req[q].rows
        BY <2>1, <3>2 DEF ShowsBefore
      <4> QED
        BY <3>1, <3>3 DEF ReaderTimely, ShowsBefore, Open, Running
    <3>6. pc[q] = "done" => ShowsBefore(req[q].rows, req[q].begin - TTL - Deadline, req[q].from)'
      <4> SUFFICES ASSUME pc[q] = "done", NEW m \in disk', m.t >= req[q].from,
                          m.w < req[q].begin - TTL - Deadline
                   PROVE  m \in req[q].rows
        BY <2>1 DEF ShowsBefore
      <4>1. m \in Row
        BY <1>t, <2>1, <1>4, TimesAssumption DEF Row
      <4>2. m.w < req[q].begin
        BY <3>1, <4>1, TimesAssumption DEF Row
      <4> QED
        BY <3>1, <3>3, <4>2 DEF ReaderTimely, ShowsBefore
    <3> QED
      BY <2>1, <3>1, <3>4, <3>5, <3>6 DEF ReaderTimely
  <2> QED
    BY <1>t, <2>1, <2>3, <2>4 DEF Timely
<1> QED
  BY <1>1, <1>2, <1>3, <1>4

\* What a fresh slot serves is no older than the slot may be.
LEMMA FreshServes ==
  ASSUME IInv, NEW r \in Readers, req[r].begin <= now, NEW slot \in Slot, Fresh(slot),
         SlotTimely(slot), slot.from + Margin <= req[r].from
  PROVE  ShowsBefore(slot.rows, req[r].begin - TTL - Deadline, req[r].from)
<1>t. now \in Nat /\ disk \in SUBSET Row /\ req[r] \in Req
  BY DEF IInv, TypeOK, Types
<1>1. slot.held /\ now - slot.at <= TTL /\ slot.at \in Nat /\ slot.from \in Int
  BY <1>t, TimesAssumption DEF Fresh, FreshAt, Slot
<1>2. req[r].begin - TTL - Deadline <= slot.at - Deadline
  BY <1>t, <1>1, TimesAssumption DEF Req
<1> SUFFICES ASSUME NEW m \in disk, m.t >= req[r].from, m.w < req[r].begin - TTL - Deadline
             PROVE  m \in slot.rows
  BY DEF ShowsBefore
<1>3. m.t >= slot.from + Margin /\ m.w < slot.at - Deadline
  BY <1>t, <1>1, <1>2, TimesAssumption DEF Row, Req
<1> QED
  BY <1>1, <1>3 DEF SlotTimely, ShowsBefore

\* Which slot serves a read, and that it reaches back far enough.
LEMMA ServesReaches ==
  ASSUME IInv, NEW r \in Readers, Serves(req[r].from).held
  PROVE  LET slot == Serves(req[r].from) IN
         /\ slot \in Slot /\ Fresh(slot) /\ slot.from + Margin <= req[r].from
         /\ slot = full \/ slot = bounded
         /\ req[r].from = 0 => slot = full
<1> DEFINE slot == Serves(req[r].from)
<1>t. Types /\ req[r] \in Req
  BY DEF IInv, TypeOK, Types
<1>1. \/ slot = full /\ Fresh(full)
      \/ slot = bounded /\ Fresh(bounded) /\ bounded.from <= req[r].from - Margin /\ req[r].from # 0
  BY DEF Serves, NoSlot
<1>2. CASE slot = full /\ Fresh(full)
  BY <1>t, <1>2, TimesAssumption DEF IInv, WorldOK, Types, Slot, Req, Fresh, FreshAt
<1>3. CASE slot = bounded /\ Fresh(bounded) /\ bounded.from <= req[r].from - Margin /\ req[r].from # 0
  BY <1>t, <1>3, TimesAssumption DEF Types, Slot, Req
<1> QED
  BY <1>1, <1>2, <1>3

LEMMA TimelyReader ==
  ASSUME IInv, Types', Timely, NEW r \in Readers,
         \/ Leave(r) \/ Step(r) \/ Missing(r) \/ Fail(r) \/ ScanAgain(r)
         \/ \E from \in Froms : Ask(r, from)
  PROVE  Timely'
<1>t. /\ Types /\ now \in Nat /\ disk \in SUBSET Row /\ full \in Slot /\ bounded \in Slot
      /\ req[r] \in Req /\ ReaderTimely(r)
  BY DEF IInv, TypeOK, Types, Timely
<1>a. /\ UNCHANGED <<kind, now, disk>>
      /\ \A q \in Readers : q # r => pc'[q] = pc[q] /\ req'[q] = req[q]
  BY <1>t, Alone DEF world
<1>o. \A q \in Readers : q # r => ReaderTimely(q)'
  BY <1>a DEF Timely, ReaderTimely, ShowsBefore, Unread, Reach, Locked
<1>s. \A slot : SlotTimely(slot) => SlotTimely(slot)'
  BY <1>a DEF SlotTimely, ShowsBefore
<1>q. ASSUME cache' = cache, ReaderTimely(r)' PROVE Timely'
  BY <1>o, <1>s, <1>q DEF Timely, cache
<1>p. {"price", "lock", "check", "discover", "gone", "scan", "store"} = Open
      /\ {"check", "discover", "gone", "scan", "store"} = Running
      /\ "done" \notin Open /\ "idle" \notin Open /\ "done" \notin Running /\ "idle" \notin Running
      /\ "price" \notin Running /\ "lock" \notin Running
  BY DEF Open, Running
<1>1. CASE Leave(r) \/ Fail(r)
  <2>1. pc'[r] = "idle" /\ cache' = cache
    BY <1>1, <1>t DEF Leave, Fail, Types
  <2> QED
    BY <1>p, <1>q, <2>1 DEF ReaderTimely
<1>2. ASSUME NEW from \in Froms, Ask(r, from) PROVE Timely'
  <2>1. /\ pc'[r] \in {"price", "check"} /\ cache' = cache
        /\ req'[r] = [NoReq EXCEPT !.from = from, !.begin = now, !.low = told.price,
                                   !.known = told.rows, !.base = seen]
    BY <1>2, <1>t DEF Ask, Types
  <2>2. req'[r].begin = now
    BY <2>1 DEF NoReq
  <2> QED
    BY <1>t, <1>a, <1>p, <1>q, <2>1, <2>2, TimesAssumption DEF ReaderTimely
<1>3. CASE CheckServes(r) \/ StoreGivesWay(r) \/ LockServes(r)
  <2>1. PICK slot \in Slot :
          /\ Fresh(slot) /\ SlotTimely(slot) /\ slot.from + Margin <= req[r].from
          /\ Answered(r, slot.rows, slot.price) /\ cache' = cache
    <3>1. CASE CheckServes(r) \/ StoreGivesWay(r)
      BY <3>1, ServesReaches DEF CheckServes, StoreGivesWay, Prefers, Timely
    <3>2. CASE LockServes(r)
      <4>1. full.from + Margin = 0
        BY <3>2, <1>t, TimesAssumption DEF LockServes, Current, Fresh, FreshAt, IInv, WorldOK, Slot
      <4> QED
        BY <3>2, <4>1, <1>t DEF LockServes, Current, Timely, Req
    <3> QED
      BY <1>3, <3>1, <3>2
  <2>2. pc[r] \in Open
    BY <1>3, <1>p DEF CheckServes, StoreGivesWay, LockServes
  <2>3. /\ pc'[r] = "done" /\ req'[r].rows = slot.rows /\ req'[r].begin = req[r].begin
        /\ req'[r].from = req[r].from
    BY <1>t, <2>1 DEF Answered, Types, Req
  <2>4. ShowsBefore(slot.rows, req[r].begin - TTL - Deadline, req[r].from)
    BY <1>t, <2>1, <2>2, FreshServes DEF ReaderTimely
  <2> QED
    BY <1>t, <1>a, <1>p, <1>q, <2>1, <2>2, <2>3, <2>4 DEF ReaderTimely, ShowsBefore
<1>4. CASE Discover(r)
  <2>1. /\ pc[r] = "discover" /\ pc'[r] = "scan" /\ cache' = cache
        /\ \E p : req'[r] = [req[r] EXCEPT !.todo = Selected(Reach(r)), !.rows = {}, !.price = p]
    BY <1>4, <1>t DEF Discover, Types, Reach
  <2>2. /\ req'[r].todo = Selected(Reach(r)) /\ req'[r].begin = req[r].begin /\ req'[r].from = req[r].from
    BY <1>t, <2>1 DEF Req
  <2>3. Reach(r)' = Reach(r) /\ Reach(r) \in Nat /\ Unread(r)' = {m \in disk : m.file \in Selected(Reach(r))}
    BY <1>t, <1>a, <2>2 DEF Reach, Locked, Unread, Req
  <2>4. ShowsBefore(req[r].rows \union Unread(r), req[r].begin, Reach(r))'
    BY <1>a, <2>3, SelectedAll DEF ShowsBefore, Shows
  <2> QED
    BY <1>t, <1>a, <1>p, <1>q, <2>1, <2>2, <2>4 DEF ReaderTimely
<1>5. ASSUME NEW f \in Files, ScanFile(r, f) PROVE Timely'
  <2>1. /\ pc[r] = "scan" /\ pc'[r] = "scan" /\ cache' = cache
        /\ req'[r] = [req[r] EXCEPT !.rows = req[r].rows \union RowsOf(f), !.todo = req[r].todo \ {f}]
    BY <1>5, <1>t DEF ScanFile, Types
  <2>2. /\ req'[r].begin = req[r].begin /\ req'[r].from = req[r].from
        /\ req'[r].rows = req[r].rows \union RowsOf(f) /\ req'[r].todo = req[r].todo \ {f}
    BY <1>t, <2>1 DEF Req
  <2>3. Reach(r)' = Reach(r) /\ req[r].rows \union Unread(r) \subseteq (req[r].rows \union Unread(r))'
    BY <1>a, <2>2 DEF Reach, Locked, Unread, RowsOf
  <2> QED
    BY <1>t, <1>a, <1>p, <1>q, <2>1, <2>2, <2>3 DEF ReaderTimely, ShowsBefore
<1>6. CASE Normalize(r)
  <2>1. /\ pc[r] = "scan" /\ pc'[r] = "store" /\ cache' = cache /\ req[r].todo = {}
        /\ \E p : req'[r] = [req[r] EXCEPT !.price = p]
    BY <1>6, <1>t DEF Normalize, Types
  <2>2. /\ req'[r].begin = req[r].begin /\ req'[r].from = req[r].from /\ req'[r].rows = req[r].rows
        /\ Unread(r) = {}
    BY <1>t, <2>1 DEF Req, Unread
  <2>3. Reach(r)' = Reach(r)
    BY <1>a, <2>2 DEF Reach, Locked
  <2> QED
    BY <1>t, <1>a, <1>p, <1>q, <2>1, <2>2, <2>3 DEF ReaderTimely, ShowsBefore
<1>7. CASE CheckScans(r) \/ Overtaken(r) \/ ScanAgain(r) \/ Missing(r) \/ LoadPricing(r)
  <2>1. /\ pc[r] \in Open /\ pc'[r] \in Open \ {"scan", "store"} /\ cache' = cache
        /\ pc'[r] \in Running => pc[r] \in Running
    BY <1>7, <1>t DEF CheckScans, Overtaken, ScanAgain, Missing, LoadPricing, Types, Open, Running
  <2>2. \/ req'[r] = req[r] \/ req'[r] = [req[r] EXCEPT !.gen = generation]
        \/ req'[r] = [req[r] EXCEPT !.price = price]
    BY <1>7, <1>t DEF CheckScans, Overtaken, ScanAgain, Missing, LoadPricing, Types
  <2>3. req'[r].begin = req[r].begin
    BY <1>t, <2>2 DEF Req
  <2> QED
    BY <1>t, <1>a, <1>p, <1>q, <2>1, <2>3 DEF ReaderTimely
<1>8. CASE LockScans(r)
  <2>1. pc'[r] = "discover" /\ cache' = cache /\ req'[r] = [req[r] EXCEPT !.begin = now]
    BY <1>8, <1>t DEF LockScans, Types
  <2>2. req'[r].begin = now
    BY <1>t, <2>1 DEF Req
  <2> QED
    BY <1>t, <1>a, <1>p, <1>q, <2>1, <2>2, TimesAssumption DEF ReaderTimely
<1>9. CASE Store(r) \/ StoreAndUnlock(r)
  <2>1. pc[r] = "store" /\ Answered(r, req[r].rows, req[r].price)
    BY <1>9 DEF Store, StoreAndUnlock
  <2>2. /\ pc'[r] = "done" /\ req'[r].rows = req[r].rows /\ req'[r].begin = req[r].begin
        /\ req'[r].from = req[r].from
    BY <1>t, <2>1 DEF Answered, Types, Req
  <2>3. /\ Reach(r) \in Nat /\ Reach(r) <= req[r].from
        /\ ShowsBefore(req[r].rows, req[r].begin, Reach(r))
        /\ req[r].begin <= now /\ now <= req[r].begin + Deadline
    BY <1>t, <1>p, <2>1 DEF ReaderTimely, Reach, Req
  <2>4. ReaderTimely(r)'
    <3>1. ASSUME NEW m \in disk, m.t >= req[r].from, m.w < req[r].begin - TTL - Deadline
          PROVE  m \in req[r].rows
      <4>1. m.t >= Reach(r) /\ m.w < req[r].begin
        BY <1>t, <2>3, <3>1, TimesAssumption DEF Row, Req
      <4> QED
        BY <2>3, <4>1 DEF ShowsBefore
    <3> QED
      BY <1>a, <1>p, <2>2, <2>3, <3>1 DEF ReaderTimely, ShowsBefore
  <2>5. SlotTimely(Snapshot(r, Reach(r)))
    <3> DEFINE slot == Snapshot(r, Reach(r))
    <3>1. slot.rows = req[r].rows /\ slot.at = now /\ slot.from + Margin = Reach(r)
      BY <2>3, TimesAssumption DEF Snapshot
    <3>2. ASSUME NEW m \in disk, m.t >= Reach(r), m.w < now - Deadline
          PROVE  m \in req[r].rows
      <4>1. m.w < req[r].begin
        BY <1>t, <2>3, <3>2, TimesAssumption DEF Row, Req
      <4> QED
        BY <2>3, <3>2, <4>1 DEF ShowsBefore
    <3> HIDE DEF slot
    <3>3. now <= now
      BY <1>t
    <3> QED
      BY <3>1, <3>2, <3>3 DEF slot, SlotTimely, ShowsBefore
  <2>6. \/ full' = Snapshot(r, Reach(r)) /\ bounded' = bounded
        \/ bounded' = Snapshot(r, Reach(r)) /\ full' = full
    BY <1>9 DEF Store, StoreAndUnlock, Reach
  <2> QED
    BY <1>o, <1>s, <2>4, <2>5, <2>6 DEF Timely
<1> QED
  BY <1>1, <1>2, <1>3, <1>4, <1>5, <1>6, <1>7, <1>8, <1>9 DEF Step

LEMMA NextTimely == IInv /\ IInv' /\ Timely /\ [Next]_vars => Timely'
<1> SUFFICES ASSUME IInv, IInv', Timely, [Next]_vars PROVE Timely'
  OBVIOUS
<1>1. CASE UNCHANGED vars
  BY <1>1 DEF vars, world, cache, Timely, SlotTimely, ReaderTimely, ShowsBefore, Unread, Reach, Locked
<1>2. CASE Next
  BY <1>2, TimelyEnv, TimelyReader DEF Next, IInv, TypeOK
<1> QED
  BY <1>1, <1>2

\* What a read of any window misses was written no longer before it began than a
\* snapshot is kept and a scan may take.
THEOREM BoundedStaleness == Spec => []StalenessBounded
<1>1. Timely => StalenessBounded
  BY DEF Timely, ReaderTimely, ShowsBefore, StalenessBounded, InWindow
<1> QED
  BY <1>1, InitTimely, NextTimely, Invariance, PTL DEF Spec

--------------------------------------------------------------------------
(* Complete reads never go back: whatever such a read has shown is in the full     *)
(* snapshot, and a scan that could replace it has it, or has been overtaken by a   *)
(* snapshot that is still fresh when the scan ends.                                *)

Monotone == kind = "antigravity" \/ (kind = "kimicode" /\ Deadline <= TTL)

Holds(r) == req[r].rows \union Unread(r)

Ahead(r) == seen \subseteq Holds(r) /\ (full.held => full.rows \subseteq Holds(r))
Behind(r) == ~Locked /\ full.held /\ full.at >= req[r].begin

ReaderForward(r) ==
  /\ pc[r] \in Open => req[r].base \subseteq seen
  /\ pc[r] \in {"scan", "store"} => req[r].rows \subseteq disk
  /\ pc[r] = "store" => req[r].todo = {}
  /\ pc[r] \in {"scan", "store"} /\ Current0(r) /\ Reach(r) = 0 => Ahead(r) \/ Behind(r)
  /\ pc[r] = "done" /\ req[r].from = 0 => req[r].base \subseteq req[r].rows

Forward ==
  /\ seen \subseteq disk
  /\ full.held => seen \subseteq full.rows /\ full.rows \subseteq disk
  /\ \A r \in Readers : ReaderForward(r)

GoesForward == Monotone => Forward

LEMMA InitForward == Init => GoesForward
BY DEF Init, GoesForward, Forward, ReaderForward, NoSlot, Open, Running

LEMMA ForwardEnv ==
  ASSUME IInv, Timely, Monotone, Forward,
         \/ Tick \/ ChangePricing \/ Invalidate
         \/ \E f \in Files, t \in 0..MaxTime + Margin : Write(f, t)
  PROVE  Forward'
<1>t. /\ Types /\ now \in Nat /\ disk \in SUBSET Row /\ full \in Slot
      /\ \A q \in Readers : req[q] \in Req
  BY DEF IInv, TypeOK, Types
<1> USE DEF world, cache
<1>1. CASE Tick
  <2>1. (full' = full \/ full' = NoSlot) /\ UNCHANGED <<kind, disk, seen, generation, pc, req>>
    BY <1>1 DEF Tick, Kept
  <2>2. ASSUME NEW q \in Readers, pc[q] \in {"scan", "store"}, Behind(q) PROVE Behind(q)'
    <3>1. now + 1 <= req[q].begin + Deadline
      BY <1>1, <1>t, <2>2, TimesAssumption DEF Tick, Req, Running
    <3>2. ~Locked /\ Deadline <= TTL
      BY <2>2 DEF Behind, Monotone, Locked
    <3>3. FreshAt(full, now + 1)
      BY <1>t, <2>2, <3>1, <3>2, TimesAssumption DEF FreshAt, Behind, Slot, Req
    <3>4. full' = full
      BY <1>1, <3>3 DEF Tick, Kept
    <3> QED
      BY <2>1, <2>2, <3>4 DEF Behind, Locked
  <2>3. ASSUME NEW q \in Readers, Ahead(q) PROVE Ahead(q)'
    BY <2>1, <2>3 DEF Ahead, Holds, Unread, NoSlot
  <2>4. ASSUME NEW q \in Readers PROVE ReaderForward(q)'
    <3>1. Current0(q)' = Current0(q) /\ Reach(q)' = Reach(q)
      BY <2>1 DEF Current0, Reach, Locked
    <3> QED
      BY <2>1, <2>2, <2>3, <3>1 DEF Forward, ReaderForward
  <2> QED
    BY <2>1, <2>4 DEF Forward, NoSlot
<1>2. CASE ChangePricing
  BY <1>2 DEF ChangePricing, Forward, ReaderForward, Ahead, Behind, Holds, Unread, Current0, Reach, Locked
<1>3. CASE Invalidate
  <2>1. full' = NoSlot /\ UNCHANGED <<kind, disk, seen, pc, req>> /\ generation' = generation + 1
    BY <1>3 DEF Invalidate
  <2>2. ASSUME NEW q \in Readers PROVE ReaderForward(q)'
    <3>1. pc[q] \in {"scan", "store"} => ~Locked
      BY <1>3, ReadersAssumption DEF Invalidate, IInv, ReaderOK, Running
    <3>2. req[q].gen # generation + 1
      <4>1. req[q].gen <= generation
        BY DEF IInv, ReaderOK
      <4>2. req[q].gen \in Nat /\ generation \in Nat
        BY <1>t DEF Types, Req
      <4> QED
        BY <4>1, <4>2
    <3>3. pc[q] \in {"scan", "store"} => ~Current0(q)'
      BY <2>1, <3>1, <3>2 DEF Current0, Locked
    <3> QED
      BY <2>1, <3>3 DEF Forward, ReaderForward
  <2> QED
    BY <2>1, <2>2 DEF Forward, NoSlot
<1>4. ASSUME NEW f \in Files, NEW t \in 0..MaxTime + Margin, Write(f, t) PROVE Forward'
  <2>1. disk \subseteq disk' /\ UNCHANGED <<kind, seen, full, generation, pc, req>>
    BY <1>4 DEF Write
  <2>2. ASSUME NEW q \in Readers PROVE ReaderForward(q)'
    <3>1. Holds(q) \subseteq Holds(q)'
      BY <2>1 DEF Holds, Unread
    <3>2. (Ahead(q) => Ahead(q)') /\ (Behind(q) => Behind(q)')
      BY <2>1, <3>1 DEF Ahead, Behind, Locked
    <3>3. Current0(q)' = Current0(q) /\ Reach(q)' = Reach(q)
      BY <2>1 DEF Current0, Reach, Locked
    <3> QED
      BY <2>1, <3>2, <3>3 DEF Forward, ReaderForward
  <2> QED
    BY <2>1, <2>2 DEF Forward
<1> QED
  BY <1>1, <1>2, <1>3, <1>4

\* What the step of another reader may do to one.
LEMMA OthersForward ==
  ASSUME IInv, Timely, Forward, NEW q \in Readers, UNCHANGED <<kind, world, generation>>,
         pc'[q] = pc[q], req'[q] = req[q], seen \subseteq seen',
         \/ full' = full /\ seen' = seen
         \/ full' = full /\ full.held /\ seen' = seen \union full.rows
         \/ ~Locked /\ full'.held /\ full'.at = now
         \/ pc[q] \notin Running
  PROVE  ReaderForward(q)'
<1> USE DEF world
<1>1. Holds(q)' = Holds(q) /\ Current0(q)' = Current0(q) /\ Reach(q)' = Reach(q) /\ Locked' = Locked
  BY DEF Holds, Unread, Current0, Reach, Locked
<1>2. pc[q] \in Running => req[q].begin <= now
  BY DEF Timely, ReaderTimely, Open
<1>3. CASE pc[q] \notin Running
  BY <1>3 DEF Forward, ReaderForward, Running
<1>4. CASE full' = full /\ seen' = seen
  BY <1>1, <1>4 DEF Forward, ReaderForward, Ahead, Behind
<1>5. CASE full' = full /\ full.held /\ seen' = seen \union full.rows
  <2>1. (Ahead(q) => Ahead(q)') /\ (Behind(q) => Behind(q)')
    BY <1>1, <1>5 DEF Ahead, Behind
  <2> QED
    BY <1>1, <1>5, <2>1 DEF Forward, ReaderForward
<1>6. CASE ~Locked /\ full'.held /\ full'.at = now /\ pc[q] \in Running
  <2>1. Behind(q)'
    BY <1>1, <1>2, <1>6 DEF Behind
  <2> QED
    BY <1>1, <2>1 DEF Forward, ReaderForward
<1> QED
  BY <1>3, <1>4, <1>5, <1>6

LEMMA ForwardReader ==
  ASSUME IInv, Types', Timely, Monotone, Forward, NEW r \in Readers,
         \/ Leave(r) \/ Step(r) \/ Missing(r) \/ Fail(r) \/ ScanAgain(r)
         \/ \E from \in Froms : Ask(r, from)
  PROVE  Forward'
<1>t. /\ Types /\ now \in Nat /\ disk \in SUBSET Row /\ full \in Slot
      /\ req[r] \in Req /\ ReaderForward(r) /\ ReaderTimely(r) /\ ReaderOK(r)
  BY DEF IInv, TypeOK, Types, Timely, Forward
<1>a. /\ UNCHANGED <<kind, world, generation>> /\ UNCHANGED <<kind, now, disk>>
      /\ \A q \in Readers : q # r => pc'[q] = pc[q] /\ req'[q] = req[q]
  BY <1>t, Alone DEF world
<1>q. ASSUME full' = full, seen' = seen, ReaderForward(r)' PROVE Forward'
  <2>1. \A q \in Readers : q # r => ReaderForward(q)'
    BY <1>a, <1>q, OthersForward
  <2> QED
    BY <1>a, <1>q, <2>1 DEF Forward
<1>p. {"price", "lock", "check", "discover", "gone", "scan", "store"} = Open
      /\ "done" \notin Open /\ "idle" \notin Open
  BY DEF Open, Running
<1>l. Locked' = Locked
  BY <1>a DEF Locked
<1>1. CASE Leave(r) \/ Fail(r)
  <2>1. pc'[r] = "idle" /\ full' = full /\ seen' = seen
    BY <1>1, <1>t DEF Leave, Fail, Types, cache
  <2> QED
    BY <1>p, <1>q, <2>1 DEF ReaderForward
<1>2. ASSUME NEW from \in Froms, Ask(r, from) PROVE Forward'
  <2>1. /\ pc'[r] \in {"price", "check"} /\ full' = full /\ seen' = seen
        /\ req'[r] = [NoReq EXCEPT !.from = from, !.begin = now, !.low = told.price,
                                   !.known = told.rows, !.base = seen]
    BY <1>2, <1>t DEF Ask, Types, cache
  <2>2. req'[r].base = seen
    BY <2>1 DEF NoReq
  <2> QED
    BY <1>q, <2>1, <2>2 DEF ReaderForward
<1>3. CASE CheckServes(r) \/ StoreGivesWay(r) \/ LockServes(r)
  <2>1. PICK slot \in Slot :
          /\ slot.held /\ Answered(r, slot.rows, slot.price)
          /\ req[r].from = 0 => slot = full
          /\ full' = full
    <3>1. CASE CheckServes(r) \/ StoreGivesWay(r)
      BY <3>1, ServesReaches DEF CheckServes, StoreGivesWay, Prefers, cache
    <3>2. CASE LockServes(r)
      BY <3>2, <1>t DEF LockServes, Current, Fresh, FreshAt, cache
    <3> QED
      BY <1>3, <3>1, <3>2
  <2>2. pc[r] \in Open
    BY <1>3, <1>p DEF CheckServes, StoreGivesWay, LockServes
  <2>3. /\ pc'[r] = "done" /\ req'[r].rows = slot.rows /\ req'[r].base = req[r].base
        /\ req'[r].from = req[r].from
        /\ seen' = IF req[r].from = 0 THEN seen \union slot.rows ELSE seen
    BY <1>t, <2>1 DEF Answered, Types, Req
  <2>4. ReaderForward(r)'
    BY <1>p, <1>t, <2>1, <2>2, <2>3 DEF ReaderForward, Forward
  <2>5. CASE req[r].from # 0
    BY <1>q, <2>1, <2>3, <2>4, <2>5
  <2>6. CASE req[r].from = 0
    <3>1. full.held /\ seen' = seen \union full.rows
      BY <2>1, <2>3, <2>6
    <3>2. \A q \in Readers : q # r => ReaderForward(q)'
      BY <1>a, <2>1, <3>1, OthersForward
    <3> QED
      BY <1>a, <2>1, <2>4, <3>1, <3>2 DEF Forward
  <2> QED
    BY <2>5, <2>6
<1>4. CASE Discover(r)
  <2>1. /\ pc[r] = "discover" /\ pc'[r] = "scan" /\ full' = full /\ seen' = seen
        /\ \E p : req'[r] = [req[r] EXCEPT !.todo = Selected(Reach(r)), !.rows = {}, !.price = p]
    BY <1>4, <1>t DEF Discover, Types, Reach, cache
  <2>2. /\ req'[r].todo = Selected(Reach(r)) /\ req'[r].rows = {} /\ req'[r].from = req[r].from
        /\ req'[r].base = req[r].base
    BY <1>t, <2>1 DEF Req
  <2>3. Reach(r)' = Reach(r) /\ Holds(r)' = {m \in disk : m.file \in Selected(Reach(r))}
    BY <1>a, <2>2 DEF Reach, Locked, Unread, Holds
  <2>4. Reach(r) = 0 => Holds(r)' = disk
    <3>1. Shows({m \in disk : m.file \in Selected(0)}, disk, 0)
      BY SelectedAll
    <3>2. \A m \in disk : m.t >= 0
      BY <1>t DEF Row
    <3> QED
      BY <2>3, <3>1, <3>2 DEF Shows
  <2>5. Reach(r) = 0 => Ahead(r)'
    BY <2>1, <2>4 DEF Ahead, Forward
  <2> QED
    BY <1>p, <1>t, <1>q, <2>1, <2>2, <2>3, <2>5 DEF ReaderForward
<1>5. ASSUME NEW f \in Files, ScanFile(r, f) PROVE Forward'
  <2>1. /\ pc[r] = "scan" /\ pc'[r] = "scan" /\ full' = full /\ seen' = seen
        /\ req'[r] = [req[r] EXCEPT !.rows = req[r].rows \union RowsOf(f), !.todo = req[r].todo \ {f}]
    BY <1>5, <1>t DEF ScanFile, Types, cache
  <2>2. /\ req'[r].begin = req[r].begin /\ req'[r].from = req[r].from /\ req'[r].base = req[r].base
        /\ req'[r].rows = req[r].rows \union RowsOf(f) /\ req'[r].todo = req[r].todo \ {f}
        /\ req'[r].gen = req[r].gen
    BY <1>t, <2>1 DEF Req
  <2>3. /\ Reach(r)' = Reach(r) /\ Current0(r)' = Current0(r)
        /\ Holds(r) \subseteq Holds(r)' /\ RowsOf(f) \subseteq disk
    BY <1>a, <2>2 DEF Reach, Locked, Current0, Unread, Holds, RowsOf
  <2>4. (Ahead(r) => Ahead(r)') /\ (Behind(r) => Behind(r)')
    BY <1>l, <2>1, <2>2, <2>3 DEF Ahead, Behind
  <2> QED
    BY <1>t, <1>a, <1>p, <1>q, <2>1, <2>2, <2>3, <2>4 DEF ReaderForward
<1>6. CASE Normalize(r)
  <2>1. /\ pc[r] = "scan" /\ pc'[r] = "store" /\ full' = full /\ seen' = seen /\ req[r].todo = {}
        /\ \E p : req'[r] = [req[r] EXCEPT !.price = p]
    BY <1>6, <1>t DEF Normalize, Types, cache
  <2>2. /\ req'[r].begin = req[r].begin /\ req'[r].from = req[r].from /\ req'[r].rows = req[r].rows
        /\ req'[r].base = req[r].base /\ req'[r].gen = req[r].gen /\ req'[r].todo = {}
    BY <1>t, <2>1 DEF Req
  <2>3. Reach(r)' = Reach(r) /\ Current0(r)' = Current0(r) /\ Holds(r)' = Holds(r)
    BY <1>a, <2>1, <2>2 DEF Reach, Locked, Current0, Unread, Holds
  <2>4. (Ahead(r) => Ahead(r)') /\ (Behind(r) => Behind(r)')
    BY <1>l, <2>1, <2>2, <2>3 DEF Ahead, Behind
  <2> QED
    BY <1>t, <1>a, <1>p, <1>q, <2>1, <2>2, <2>3, <2>4 DEF ReaderForward
<1>7. CASE CheckScans(r) \/ Overtaken(r) \/ ScanAgain(r) \/ Missing(r) \/ LoadPricing(r) \/ LockScans(r)
  <2>1. pc[r] \in Open /\ pc'[r] \in Open \ {"scan", "store"} /\ full' = full /\ seen' = seen
    BY <1>7, <1>t DEF CheckScans, Overtaken, ScanAgain, Missing, LoadPricing, LockScans, Types, Open, Running, cache
  <2>2. \/ req'[r] = req[r] \/ req'[r] = [req[r] EXCEPT !.gen = generation]
        \/ req'[r] = [req[r] EXCEPT !.price = price] \/ req'[r] = [req[r] EXCEPT !.begin = now]
    BY <1>7, <1>t DEF CheckScans, Overtaken, ScanAgain, Missing, LoadPricing, LockScans, Types
  <2>3. req'[r].base = req[r].base
    BY <1>t, <2>2 DEF Req
  <2> QED
    BY <1>t, <1>p, <1>q, <2>1, <2>3 DEF ReaderForward
<1>8. CASE Store(r) \/ StoreAndUnlock(r)
  <2>1. /\ pc[r] = "store" /\ Answered(r, req[r].rows, req[r].price) /\ Current0(r)
        /\ req[r].base \subseteq seen /\ req[r].rows \subseteq disk /\ Holds(r) = req[r].rows
    BY <1>8, <1>t, <1>p DEF Store, StoreAndUnlock, Current0, ReaderForward, Holds, Unread
  <2>2. /\ pc'[r] = "done" /\ req'[r].rows = req[r].rows /\ req'[r].base = req[r].base
        /\ req'[r].from = req[r].from
        /\ seen' = IF req[r].from = 0 THEN seen \union req[r].rows ELSE seen
    BY <1>t, <2>1 DEF Answered, Types, Req
  <2>3. CASE Store(r) /\ req[r].from # 0
    <3>1. full' = full /\ seen' = seen
      BY <2>2, <2>3 DEF Store
    <3> QED
      BY <1>p, <1>q, <2>2, <2>3, <3>1 DEF ReaderForward
  <2>4. CASE Store(r) /\ req[r].from = 0
    <3>1. ~Locked /\ full' = Snapshot(r, 0) /\ Reach(r) = 0
      BY <2>4 DEF Store, Reach
    <3>2. kind = "kimicode" /\ Deadline <= TTL
      BY <3>1 DEF Monotone, Locked
    <3>3. ~Fresh(full)
      BY <2>4, <3>2 DEF Store, Prefers, Serves, Fresh, FreshAt
    <3>4. ~Behind(r)
      <4>1. now <= req[r].begin + Deadline
        BY <1>t, <2>1 DEF ReaderTimely, Running
      <4> QED
        BY <1>t, <3>1, <3>2, <3>3, <4>1, TimesAssumption DEF Behind, Fresh, FreshAt, Slot, Req
    <3>5. seen \subseteq req[r].rows
      BY <1>t, <2>1, <3>1, <3>4 DEF ReaderForward, Ahead
    <3>6. full'.held /\ full'.rows = req[r].rows /\ full'.at = now
      BY <3>1 DEF Snapshot
    <3>7. \A q \in Readers : q # r => ReaderForward(q)'
      BY <1>a, <2>2, <2>4, <3>1, <3>6, OthersForward
    <3>8. ReaderForward(r)'
      BY <1>p, <2>1, <2>2, <3>5 DEF ReaderForward
    <3> QED
      BY <1>a, <2>1, <2>2, <2>4, <3>5, <3>6, <3>7, <3>8 DEF Forward
  <2>5. CASE StoreAndUnlock(r)
    <3>1. Locked /\ full' = Snapshot(r, 0) /\ Reach(r) = 0
      BY <2>5 DEF StoreAndUnlock, Reach
    <3>2. seen \subseteq req[r].rows
      BY <1>t, <2>1, <3>1 DEF ReaderForward, Ahead, Behind
    <3>3. full'.held /\ full'.rows = req[r].rows
      BY <3>1 DEF Snapshot
    <3>4. \A q \in Readers : q # r => pc[q] \notin Running
      BY <1>t, <2>1, <3>1 DEF ReaderOK, IInv, Running
    <3>5. \A q \in Readers : q # r => ReaderForward(q)'
      BY <1>a, <2>2, <3>4, OthersForward
    <3>6. ReaderForward(r)'
      BY <1>p, <2>1, <2>2, <3>2 DEF ReaderForward
    <3> QED
      BY <1>a, <2>1, <2>2, <3>2, <3>3, <3>5, <3>6 DEF Forward
  <2> QED
    BY <1>8, <2>3, <2>4, <2>5
<1> QED
  BY <1>1, <1>2, <1>3, <1>4, <1>5, <1>6, <1>7, <1>8 DEF Step

LEMMA NextForward == IInv /\ IInv' /\ Timely /\ GoesForward /\ [Next]_vars => GoesForward'
<1> SUFFICES ASSUME IInv, IInv', Timely, GoesForward, [Next]_vars, Monotone' PROVE Forward'
  BY DEF GoesForward
<1>1. kind' = kind
  BY Alone DEF Next, Tick, ChangePricing, Invalidate, Write, vars, IInv, TypeOK
<1>2. Monotone /\ Forward
  BY <1>1 DEF Monotone, GoesForward
<1>3. CASE UNCHANGED vars
  BY <1>2, <1>3 DEF vars, world, cache, Forward, ReaderForward, Ahead, Behind, Holds, Unread, Current0,
     Reach, Locked
<1>4. CASE Next
  BY <1>2, <1>4, ForwardEnv, ForwardReader DEF Next, IInv, TypeOK
<1> QED
  BY <1>3, <1>4

\* A complete read shows at least what complete reads before it have shown, if the
\* source reads under its lock, or gives way to a snapshot stored meanwhile and no
\* scan outlasts one.
THEOREM NoReadGoesBack == Spec => []ReadsNeverGoBack
<1>1. GoesForward => ReadsNeverGoBack
  BY DEF GoesForward, Monotone, Forward, ReaderForward, ReadsNeverGoBack
<1> QED
  BY <1>1, InitTimely, NextTimely, InitForward, NextForward, Invariance, PTL DEF Spec

=============================================================================
