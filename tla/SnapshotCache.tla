---------------------------- MODULE SnapshotCache ----------------------------
(***************************************************************************)
(* How the transcript sources keep what they have read: one snapshot of    *)
(* everything and one of the recently written files, each for SnapshotTTL, *)
(* dropped by Invalidate (source.go below internal/source).                     *)
(*                                                                         *)
(* The sources share the shape of loadSnapshot and loadBoundedSnapshot but *)
(* not the details, kind says which one is modelled: claudecode takes the  *)
(* pricing before it parses, the others after; kimicode looks at the slots *)
(* once more after it has parsed; antigravity reads with its lock held and *)
(* keeps the pricing with the snapshot.  qwencode takes the steps of codex.*)
(*                                                                         *)
(* Files only grow.  A record has a timestamp t and is written at w, which *)
(* is then the modification time of its file.                              *)
(***************************************************************************)
EXTENDS Integers, FiniteSets

CONSTANTS
  Readers, NoOne,
  Kinds,         \* the sources modelled
  Files,
  Froms,         \* lower bounds of reads, 0 is none
  TTL,           \* SnapshotTTL
  Deadline,      \* how long a scan may take
  Margin,        \* boundedLoadMargin
  MaxTime,
  MaxEvents      \* records, pricing changes and invalidations

ASSUME ReadersAssumption == NoOne \notin Readers
ASSUME KindsAssumption == Kinds \subseteq {"claudecode", "codex", "kimicode", "qwencode", "antigravity"}
ASSUME TimesAssumption ==
  /\ TTL \in Nat /\ Deadline \in Nat /\ Margin \in Nat /\ MaxTime \in Nat
  /\ Froms \subseteq Nat
ASSUME BoundsAssumption == MaxEvents \in Nat

VARIABLES
  kind,
  now,
  disk,       \* records in the files
  price,      \* pricing revision
  told,       \* price and records at the last Invalidate
  generation,
  full,       \* snapshot, loadedAt
  bounded,    \* bounded, boundedFrom, boundedLoadedAt
  lock,       \* who holds mu while reading (antigravity)
  seen,       \* records that complete reads have shown
  pc, req

world == <<now, disk, price, told>>
cache == <<generation, full, bounded>>
vars == <<kind, world, cache, lock, seen, pc, req>>

Row == [file : Files, t : Nat, w : Nat]
Slot == [held : BOOLEAN, rows : SUBSET Row, price : Nat, from : Int, at : Nat]
Req == [from : Nat, begin : Nat, gen : Nat, todo : SUBSET Files, rows : SUBSET Row,
        price : Nat, low : Nat, known : SUBSET Row, base : SUBSET Row]

NoSlot == [held |-> FALSE, rows |-> {}, price |-> 0, from |-> 0, at |-> 0]
NoReq == [from |-> 0, begin |-> 0, gen |-> 0, todo |-> {}, rows |-> {},
          price |-> 0, low |-> 0, known |-> {}, base |-> {}]

Running == {"check", "discover", "gone", "scan", "store"}
Open == {"price", "lock"} \union Running

Types ==
  /\ kind \in Kinds /\ now \in Nat /\ disk \in SUBSET Row
  /\ price \in Nat /\ told \in [price : Nat, rows : SUBSET Row] /\ told.price <= price
  /\ generation \in Nat /\ full \in Slot /\ bounded \in Slot
  /\ lock \in Readers \union {NoOne}
  /\ seen \in SUBSET Row
  /\ pc \in [Readers -> Open \union {"idle", "done"}]
  /\ req \in [Readers -> Req]

\* Whoever has locked mu is reading.
LockHeld == lock # NoOne => pc[lock] \in Running

TypeOK == Types /\ LockHeld

Init ==
  /\ kind \in Kinds /\ now = 0 /\ disk = {}
  /\ price = 0 /\ told = [price |-> 0, rows |-> {}]
  /\ generation = 0 /\ full = NoSlot /\ bounded = NoSlot
  /\ lock = NoOne /\ seen = {}
  /\ pc = [r \in Readers |-> "idle"] /\ req = [r \in Readers |-> NoReq]

MayHappen == Cardinality(disk) + price + generation < MaxEvents

Locked == kind = "antigravity"

FreshAt(slot, t) ==
  /\ slot.held
  /\ IF Locked THEN t - slot.at < TTL ELSE t - slot.at <= TTL

Fresh(slot) == FreshAt(slot, now)
Kept(slot) == IF FreshAt(slot, now + 1) THEN slot ELSE NoSlot

RowsOf(f) == {m \in disk : m.file = f}
Existing == {m.file : m \in disk}

-----------------------------------------------------------------------------
(* The tools that write transcripts, the clock, the pricing store.         *)

\* The clock does not pass the deadline of a read before that has ended.  A
\* snapshot that is too old is never looked at again.
Tick ==
  /\ now < MaxTime
  /\ \A r \in Readers : pc[r] \in Running => now < req[r].begin + Deadline
  /\ now' = now + 1
  /\ full' = Kept(full) /\ bounded' = Kept(bounded)
  /\ UNCHANGED <<kind, disk, price, told, generation, lock, seen, pc, req>>

\* The timestamp of a record may be ahead of the clock of the file system.
Write(f, t) ==
  /\ MayHappen
  /\ t \in now..now + Margin
  /\ disk' = disk \union {[file |-> f, t |-> t, w |-> now]}
  /\ UNCHANGED <<kind, now, price, told, cache, lock, seen, pc, req>>

ChangePricing ==
  /\ MayHappen
  /\ price' = price + 1
  /\ UNCHANGED <<kind, now, disk, told, cache, lock, seen, pc, req>>

\* A pricing change is announced, or a refresh requested.
Invalidate ==
  /\ lock = NoOne
  /\ MayHappen
  /\ generation' = generation + 1
  /\ full' = NoSlot /\ bounded' = NoSlot
  /\ told' = [price |-> price, rows |-> disk]
  /\ UNCHANGED <<kind, now, disk, price, lock, seen, pc, req>>

-----------------------------------------------------------------------------
(* Reads                                                                   *)

\* A fresh full snapshot, or for a bounded read a fresh bounded one that
\* reaches back far enough.
Serves(from) ==
  IF Fresh(full) THEN full
  ELSE IF from # 0 /\ Fresh(bounded) /\ bounded.from <= from - Margin THEN bounded
  ELSE NoSlot

Answered(r, rows, p) ==
  /\ req' = [req EXCEPT ![r].rows = rows, ![r].price = p, ![r].gen = 0]
  /\ pc' = [pc EXCEPT ![r] = "done"]
  /\ seen' = IF req[r].from = 0 THEN seen \union rows ELSE seen

Ask(r, from) ==
  /\ pc[r] \in {"idle", "done"}
  /\ pc' = [pc EXCEPT ![r] = IF Locked THEN "price" ELSE "check"]
  /\ req' = [req EXCEPT ![r] = [NoReq EXCEPT !.from = from, !.begin = now,
                                  !.low = told.price, !.known = told.rows, !.base = seen]]
  /\ UNCHANGED <<kind, world, cache, lock, seen>>

\* Under mu, which is let go for the scan.
CheckServes(r) ==
  /\ pc[r] = "check"
  /\ Serves(req[r].from).held
  /\ Answered(r, Serves(req[r].from).rows, Serves(req[r].from).price)
  /\ UNCHANGED <<kind, world, cache, lock>>

CheckScans(r) ==
  /\ pc[r] = "check"
  /\ ~Serves(req[r].from).held
  /\ req' = [req EXCEPT ![r].gen = generation]
  /\ pc' = [pc EXCEPT ![r] = "discover"]
  /\ UNCHANGED <<kind, world, cache, lock, seen>>

\* Mutant: files are selected without the margin.
SelectedLate(from) ==
  {f \in Existing : from = 0 \/ \E m \in RowsOf(f) : m.w >= from}

\* Files that were written since from, less the margin.
Selected(from) ==
  {f \in Existing : from = 0 \/ \E m \in RowsOf(f) : m.w >= from - Margin}

Discover(r) ==
  /\ pc[r] = "discover"
  /\ req' = [req EXCEPT ![r].todo = Selected(IF Locked THEN 0 ELSE req[r].from),
                        ![r].rows = {},
                        ![r].price = IF kind = "claudecode" THEN price ELSE @]
  /\ pc' = [pc EXCEPT ![r] = "scan"]
  /\ UNCHANGED <<kind, world, cache, lock, seen>>

\* The directory is missing.
Missing(r) ==
  /\ pc[r] = "discover"
  /\ pc' = [pc EXCEPT ![r] = "gone"]
  /\ UNCHANGED <<kind, world, cache, lock, seen, req>>

\* A file is parsed whole.
ScanFile(r, f) ==
  /\ pc[r] = "scan"
  /\ f \in req[r].todo
  /\ req' = [req EXCEPT ![r].rows = @ \union RowsOf(f), ![r].todo = @ \ {f}]
  /\ UNCHANGED <<kind, world, cache, lock, seen, pc>>

Normalize(r) ==
  /\ pc[r] = "scan" /\ req[r].todo = {}
  /\ req' = [req EXCEPT ![r].price = IF kind = "claudecode" \/ Locked THEN @ ELSE price]
  /\ pc' = [pc EXCEPT ![r] = "store"]
  /\ UNCHANGED <<kind, world, cache, lock, seen>>

Snapshot(r, from) ==
  [held |-> TRUE, rows |-> req[r].rows, price |-> req[r].price,
   from |-> from - Margin, at |-> now]

\* An invalidation since the slots were looked at: once more.
Overtaken(r) ==
  /\ pc[r] \in {"store", "gone"} /\ ~Locked
  /\ req[r].gen # generation
  /\ pc' = [pc EXCEPT ![r] = "check"]
  /\ UNCHANGED <<kind, world, cache, lock, seen, req>>

\* Mutant: the generation is not compared.
StoreAnyway(r) ==
  /\ pc[r] = "store" /\ ~Locked
  /\ Answered(r, req[r].rows, req[r].price)
  /\ IF req[r].from = 0
     THEN full' = Snapshot(r, 0) /\ UNCHANGED bounded
     ELSE bounded' = Snapshot(r, req[r].from) /\ UNCHANGED full
  /\ UNCHANGED <<kind, world, generation, lock>>

\* Mutant: as the other sources.
PrefersOwn(r) == FALSE

\* kimicode prefers what another reader has stored meanwhile.
Prefers(r) == kind = "kimicode" /\ Serves(req[r].from).held

StoreGivesWay(r) ==
  /\ pc[r] = "store" /\ req[r].gen = generation
  /\ Prefers(r)
  /\ Answered(r, Serves(req[r].from).rows, Serves(req[r].from).price)
  /\ UNCHANGED <<kind, world, cache, lock>>

Store(r) ==
  /\ pc[r] = "store" /\ ~Locked /\ req[r].gen = generation
  /\ ~Prefers(r)
  /\ Answered(r, req[r].rows, req[r].price)
  /\ IF req[r].from = 0
     THEN full' = Snapshot(r, 0) /\ UNCHANGED bounded
     ELSE bounded' = Snapshot(r, req[r].from) /\ UNCHANGED full
  /\ UNCHANGED <<kind, world, generation, lock>>

\* Mutant: an error returns with the lock held.
ReleasedOnce(r) == IF lock = r /\ pc[r] = "store" THEN NoOne ELSE lock

Released(r) == IF lock = r THEN NoOne ELSE lock

\* The directory is missing, a file cannot be read, the context is over.
Fail(r) ==
  /\ \/ pc[r] \in {"check", "discover", "scan"}
     \/ pc[r] = "gone" /\ (Locked \/ req[r].gen = generation)
  /\ pc' = [pc EXCEPT ![r] = "idle"]
  /\ req' = [req EXCEPT ![r] = NoReq]
  /\ lock' = Released(r)
  /\ UNCHANGED <<kind, world, cache, seen>>

\* A file that cannot be read, after an invalidation.
ScanAgain(r) ==
  /\ pc[r] = "scan" /\ ~Locked /\ req[r].gen # generation
  /\ pc' = [pc EXCEPT ![r] = "check"]
  /\ UNCHANGED <<kind, world, cache, lock, seen, req>>

-----------------------------------------------------------------------------
(* antigravity: snapshotFor                                                *)

LoadPricing(r) ==
  /\ pc[r] = "price"
  /\ req' = [req EXCEPT ![r].price = price]
  /\ pc' = [pc EXCEPT ![r] = "lock"]
  /\ UNCHANGED <<kind, world, cache, lock, seen>>

\* Mutant: the pricing of the snapshot is not compared.
CurrentAny(r) == Fresh(full) /\ full.price <= price

Current(r) == Fresh(full) /\ full.price = req[r].price

LockServes(r) ==
  /\ pc[r] = "lock" /\ lock = NoOne
  /\ Current(r)
  /\ Answered(r, full.rows, full.price)
  /\ UNCHANGED <<kind, world, cache, lock>>

\* The time limit of the scan starts when the lock is held.
LockScans(r) ==
  /\ pc[r] = "lock" /\ lock = NoOne
  /\ ~Current(r)
  /\ lock' = r
  /\ req' = [req EXCEPT ![r].begin = now]
  /\ pc' = [pc EXCEPT ![r] = "discover"]
  /\ UNCHANGED <<kind, world, cache, seen>>

StoreAndUnlock(r) ==
  /\ pc[r] = "store" /\ Locked
  /\ full' = Snapshot(r, 0)
  /\ lock' = Released(r)
  /\ Answered(r, req[r].rows, req[r].price)
  /\ UNCHANGED <<kind, world, generation, bounded>>

-----------------------------------------------------------------------------
Step(r) ==
  \/ CheckServes(r) \/ CheckScans(r) \/ Discover(r) \/ Normalize(r)
  \/ \E f \in Files : ScanFile(r, f)
  \/ Overtaken(r) \/ StoreGivesWay(r) \/ Store(r)
  \/ LoadPricing(r) \/ LockServes(r) \/ LockScans(r) \/ StoreAndUnlock(r)

Leave(r) ==
  /\ pc[r] = "done"
  /\ pc' = [pc EXCEPT ![r] = "idle"]
  /\ req' = [req EXCEPT ![r] = NoReq]
  /\ UNCHANGED <<kind, world, cache, lock, seen>>

\* A read that is answered is over before anything else happens: its answer is
\* state only for the properties below.
Next ==
  \/ \E r \in Readers : Leave(r)
  \/ /\ \A r \in Readers : pc[r] # "done"
     /\ \/ Tick \/ ChangePricing \/ Invalidate
        \/ \E f \in Files, t \in 0..MaxTime + Margin : Write(f, t)
        \/ \E r \in Readers :
             \/ \E from \in Froms : Ask(r, from)
             \/ Step(r) \/ Missing(r) \/ Fail(r) \/ ScanAgain(r)

Spec == Init /\ [][Next]_vars

-----------------------------------------------------------------------------
(* Properties                                                              *)

\* The promise about pricing, which every source makes.
Phase(r) == CASE pc[r] = "idle" -> "idle" [] pc[r] = "done" -> "answered" [] OTHER -> "open"
Shown(r) == IF pc[r] = "done" THEN {req[r].price} ELSE {}

Promise == INSTANCE AnnouncedReads WITH
  Requests <- Readers,
  told <- told.price,
  phase <- [r \in Readers |-> Phase(r)],
  low <- [r \in Readers |-> req[r].low],
  shown <- [r \in Readers |-> Shown(r)]

KeepsPromise == Promise!Spec

InWindow(rows, r) == {m \in rows : m.t >= req[r].from}

\* An invalidation is final for the data too: a read that begins afterwards
\* shows every record that was there, whatever scan was under way.
InvalidationShows ==
  \A r \in Readers : pc[r] = "done" => InWindow(req[r].known, r) \subseteq req[r].rows

\* What a read may miss is what was written in the time a snapshot is kept and
\* the time it took to make: consolidation and live view rely on nothing else.
\* This includes reads with a lower bound, which skip files by their age.
StalenessBounded ==
  \A r \in Readers : pc[r] = "done" =>
    \A m \in InWindow(disk, r) : m.w < req[r].begin - TTL - Deadline => m \in req[r].rows

\* Where a source reads under its lock, or looks at the slots again and no scan takes
\* longer than a snapshot is kept, a complete read never shows less than one that
\* ended before it began.
ReadsNeverGoBack ==
  kind = "antigravity" \/ (kind = "kimicode" /\ Deadline <= TTL) =>
    \A r \in Readers : pc[r] = "done" /\ req[r].from = 0 => req[r].base \subseteq req[r].rows
=============================================================================
