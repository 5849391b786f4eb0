---------------------------- MODULE Figures_proofs ----------------------------
(***************************************************************************)
(* What the figures that are shown rest on.                                *)
(*                                                                         *)
(* OpenCode's history is whole, for every number of sessions and steps,    *)
(* however the statements that detect the layout fall among the steps of   *)
(* an upgrade, of the import and of OpenCode itself.                       *)
(*                                                                         *)
(* A pricing identity stands for one cost of a request, and a saved alias  *)
(* prices its model from its target, for every number of dashboards,       *)
(* handlers, releases, catalogs, edits and requests.                       *)
(*                                                                         *)
(* What is told about a quota is as fresh as it says, for every number of  *)
(* requests.                                                               *)
(***************************************************************************)
EXTENDS OpenCodeReads, PricingAliases, QuotaAnswers, FiniteSetTheorems, TLAPS

\* The fork is no other session, and every session has a name.
Named == TheFork \notin SessionIds /\ NotFork \notin SessionIds

-----------------------------------------------------------------------------
(* OpenCode: the inductive invariant                                       *)

AllSessions == SessionIds \union {TheFork}
Amounts == {0} \union {Amount(n) : n \in Nat}

AnyRow ==
  [id : Int, orig : Nat, s : AllSessions, t : Nat, type : {"user", "assistant", "note", "compaction"},
   running : BOOLEAN, usage : BOOLEAN, error : {"none", "aborted", "other"}, model : {NoModel, "m1", "m2"},
   cost : Amounts, tokens : Amounts, finished : {0, 2}, calls : SUBSET {"completed", "error"}]

AnySession == [id : AllSessions, created : Nat, fork : SessionIds \union {NotFork}]

Layouts ==
  [version : {Unknown, 1, 2}, import : {"none", "pending", "running", "completed"}, legacy : Nat, imported : Nat,
   asked : {"none", "running", "completed"}, open : BOOLEAN]

DataOK ==
  /\ rows \in SUBSET AnyRow /\ sessions \in SUBSET AnySession
  /\ oldRows \in SUBSET AnyRow /\ oldSessions \in SUBSET AnySession /\ IsFiniteSet(oldSessions)
  /\ phase \in {"none", "running", "completed"} /\ steps \in Nat

LayoutOK ==
  schema \in Layouts /\ detect \in [at : {"idle", "phase", "count"}, info : Layouts, kv : BOOLEAN]

\* A row is of a session that is there and not new, and there is one session of a name.
Dated(all, of) ==
  /\ \A m \in all : m.orig < 2 * steps /\ m.t < 2 * steps /\ m.s \in IdsIn(of)
  /\ \A x, y \in of : x.id = y.id => x = y

\* The history of 1.x: one row of every message.
OldWhole ==
  /\ Dated(oldRows, oldSessions)
  /\ \A m \in oldRows : m.type \in {"user", "assistant"} /\ ~m.running
  /\ \A m, n \in oldRows : m.orig = n.orig => m = n
  /\ \A x \in oldSessions : x.id \in SessionIds /\ x.fork = NotFork

\* It lies in tables of its own, which are not written any more once there are others.
Tables ==
  /\ oldSessions # {} => V1Tables \subseteq tables
  /\ "session_v2" \notin tables => sessions = {} /\ rows = {}
  /\ "session_v2" \in tables => V2Tables \subseteq tables
  /\ phase # "none" => {"session_v2", "session", "kv"} \subseteq tables

\* A row of the fork that was there before it.
Copied(m) == m.s = TheFork /\ \A x \in sessions : x.id = TheFork => x.fork # NotFork /\ m.t < x.created

\* What two rows have in common.
NewWhole ==
  /\ Dated(rows, sessions)
  /\ \A x \in sessions : (x.fork = NotFork <=> x.id # TheFork) /\ x.id \notin deleted
  /\ \A m, n \in rows : m.orig = n.orig /\ m.s = n.s /\ (m.type = "note" <=> n.type = "note") => m = n
  /\ \A m, n \in rows : m.orig = n.orig /\ m.s # n.s => Copied(m) \/ Copied(n)
  /\ \A m \in rows, n \in oldRows : m.orig = n.orig /\ m.s # n.s => Copied(m)

\* A session is imported with all of its history.
Imported ==
  /\ \A m \in oldRows : m.s \in IdsIn(sessions) => m \in rows
  /\ phase = "completed" => IdsIn(oldSessions) \subseteq IdsIn(sessions) \union deleted

\* A layout is trusted for 2.x only when all was there.
Detected ==
  /\ schema.version = 2 => "session_v2" \in tables /\ IdsIn(oldSessions) \subseteq IdsIn(sessions) \union deleted
  /\ schema.asked = "completed" => schema.version = 2
  /\ detect.at # "idle" => detect.info.version = 2 /\ "session_v2" \in tables
  /\ detect.at # "idle" /\ detect.info.asked = "completed" =>
       phase = "completed" /\ detect.kv /\ detect.at = "phase"
  /\ detect.at = "count" => detect.info.import \in {"pending", "running"}

Data == DataOK /\ OldWhole /\ Tables /\ NewWhole /\ Imported
Inv == Data /\ LayoutOK /\ Detected

-----------------------------------------------------------------------------
(* Operators                                                               *)

LEMMA RowTyped ==
  ASSUME NEW n \in Nat, NEW s \in AllSessions, NEW type \in {"user", "assistant", "note", "compaction"},
         steps \in Nat
  PROVE  /\ Row(n, s, type) \in AnyRow
         /\ Row(n, s, type).orig = n /\ Row(n, s, type).s = s /\ Row(n, s, type).t = 2 * steps
         /\ Row(n, s, type).type = type /\ ~Row(n, s, type).running
<1>1. Now \in Nat /\ Now = 2 * steps
  BY DEF Now
<1>2. 0 \in Amounts
  BY DEF Amounts
<1> QED
  BY <1>1, <1>2 DEF Row, AnyRow

LEMMA RowsTyped ==
  Data => \A m \in rows \union oldRows :
            m.orig \in Nat /\ m.t \in Nat /\ m.id \in Int /\ m.orig < 2 * steps /\ m.t < 2 * steps
BY DEF Data, DataOK, AnyRow, OldWhole, NewWhole, Dated

\* One session more, of a name that none has.
LEMMA InSessionAdds ==
  ASSUME NEW all \in SUBSET AnySession, NEW s \in AllSessions, NEW fork \in SessionIds \union {NotFork}, steps \in Nat
  PROVE  LET new == [id |-> s, created |-> 2 * steps, fork |-> fork]
         IN  /\ new \in AnySession /\ new.id = s /\ new.created = 2 * steps /\ new.fork = fork
             /\ InSession(all, s, fork) = IF s \in IdsIn(all) THEN all ELSE all \union {new}
             /\ InSession(all, s, fork) \in SUBSET AnySession
             /\ s \in IdsIn(InSession(all, s, fork)) /\ IdsIn(all) \subseteq IdsIn(InSession(all, s, fork))
             /\ IdsIn(InSession(all, s, fork)) \subseteq IdsIn(all) \union {s}
<1> DEFINE new == [id |-> s, created |-> 2 * steps, fork |-> fork]
<1>1. new \in AnySession /\ new.id = s /\ new.created = 2 * steps /\ new.fork = fork
  BY DEF AnySession
<1>2. InSession(all, s, fork) = IF s \in IdsIn(all) THEN all ELSE all \union {new}
  BY DEF InSession, Now
<1> HIDE DEF new
<1>3. IdsIn(all \union {new}) = IdsIn(all) \union {s}
  BY <1>1 DEF IdsIn
<1>4. InSession(all, s, fork) \in SUBSET AnySession
  BY <1>1, <1>2
<1>5. CASE s \in IdsIn(all)
  BY <1>1, <1>2, <1>4, <1>5 DEF new
<1>6. CASE s \notin IdsIn(all)
  BY <1>1, <1>2, <1>3, <1>4, <1>6 DEF new
<1> QED
  BY <1>5, <1>6

LEMMA SessionIsFound ==
  ASSUME NEW all, NEW s \in IdsIn(all)
  PROVE  SessionIn(all, s) \in all /\ SessionIn(all, s).id = s
BY DEF SessionIn, IdsIn

LEMMA IdsFinite ==
  ASSUME NEW old, IsFiniteSet(old), NEW new
  PROVE  /\ IsFiniteSet(IdsIn(old)) /\ Cardinality(IdsIn(old)) <= Cardinality(old)
         /\ IsFiniteSet(IdsIn(old) \cap IdsIn(new))
<1> DEFINE f == [x \in old |-> x.id]
<1>1. f \in Surjection(old, IdsIn(old))
  BY DEF Surjection, IdsIn
<1> HIDE DEF f
<1>2. IsFiniteSet(IdsIn(old)) /\ Cardinality(IdsIn(old)) <= Cardinality(old)
  BY <1>1, FS_Surjection
<1> QED
  BY <1>2, FS_Subset

\* Sessions that are as many as there were are all of them.
LEMMA CountTells ==
  ASSUME NEW old, IsFiniteSet(old), NEW new, ~(Cardinality(IdsIn(old) \cap IdsIn(new)) < Cardinality(old))
  PROVE  IdsIn(old) \subseteq IdsIn(new)
<1> DEFINE both == IdsIn(old) \cap IdsIn(new)
<1>1. IsFiniteSet(IdsIn(old)) /\ Cardinality(IdsIn(old)) <= Cardinality(old)
  BY IdsFinite
<1>2. both \in SUBSET IdsIn(old)
  OBVIOUS
<1>3. /\ IsFiniteSet(both) /\ Cardinality(both) <= Cardinality(IdsIn(old))
      /\ Cardinality(IdsIn(old)) = Cardinality(both) => IdsIn(old) = both
  <2> HIDE DEF both
  <2> QED BY <1>1, <1>2, FS_Subset
<1>4. Cardinality(both) \in Nat /\ Cardinality(old) \in Nat /\ Cardinality(IdsIn(old)) \in Nat
  <2> HIDE DEF both
  <2> QED BY <1>1, <1>3, FS_CardinalityType
<1>5. ~(Cardinality(both) < Cardinality(old))
  OBVIOUS
<1>6. IdsIn(old) = both
  <2> HIDE DEF both
  <2> QED BY <1>1, <1>3, <1>4, <1>5
<1> QED
  BY <1>6

-----------------------------------------------------------------------------
(* The layout is detected                                                  *)

LEMMA InitInv == Init => Inv
<1> SUFFICES ASSUME Init PROVE Inv
  OBVIOUS
<1>1. DataOK
  BY FS_EmptySet DEF Init, DataOK
<1>2. LayoutOK
  BY DEF Init, LayoutOK, Idle, Closed, Layouts, Unknown
<1>3. OldWhole /\ NewWhole /\ Imported
  BY DEF Init, OldWhole, NewWhole, Imported, Dated, IdsIn
<1>4. Tables
  BY DEF Init, Tables, V1Tables
<1>5. Detected
  BY DEF Init, Detected, Idle, Closed, Unknown
<1> QED
  BY <1>1, <1>2, <1>3, <1>4, <1>5 DEF Inv, Data

LEMMA DataStays ==
  ASSUME Data, UNCHANGED database PROVE Data'
BY DEF Data, DataOK, OldWhole, Tables, NewWhole, Imported, database, Dated, Copied

\* Without the tables of 1.x, or once the import is over, all there is is in those of 2.x.
LEMMA TwoIsWhole ==
  ASSUME Data, "session_v2" \in tables, ~(V1Tables \subseteq tables) \/ phase = "completed"
  PROVE  IdsIn(oldSessions) \subseteq IdsIn(sessions) \union deleted
BY DEF Data, Tables, Imported, IdsIn

\* What a detection that is over makes of the layout.
LEMMA FinishKeeps ==
  ASSUME Inv, UNCHANGED database, NEW info \in Layouts, Finish(info),
         info.version = 2 => "session_v2" \in tables /\ IdsIn(oldSessions) \subseteq IdsIn(sessions) \union deleted,
         info.asked = "completed" => info.version = 2
  PROVE  Inv'
<1>1. Data'
  BY DataStays DEF Inv
<1>2. detect' = Idle /\ (schema' = schema \/ schema' = info)
  BY DEF Finish
<1>3. LayoutOK'
  BY <1>2 DEF Inv, LayoutOK, Idle, Closed, Layouts, Unknown
<1>4. detect'.at = "idle"
  BY <1>2 DEF Idle
<1>5. Detected'
  BY <1>2, <1>4 DEF Inv, Detected, database
<1> QED
  BY <1>1, <1>3, <1>5 DEF Inv

LEMMA DetectTablesKeeps ==
  ASSUME Inv, DetectTables PROVE Inv'
<1> DEFINE info == classifySchema(tables)
<1>1. info \in Layouts /\ info.asked = phase
  <2>1. phase \in {"none", "running", "completed"}
    BY DEF Inv, Data, DataOK
  <2> QED
    BY <2>1 DEF classifySchema, Closed, Layouts, Unknown
<1>2. info.version = 2 <=> V2Tables \subseteq tables
  BY DEF classifySchema, Closed, Unknown
<1>3. phase = "completed" => info.version = 2 /\ "session" \in tables /\ "kv" \in tables
  BY <1>2 DEF Inv, Data, Tables
<1>4. UNCHANGED database
  BY DEF DetectTables
<1> HIDE DEF info
<1>5. CASE info.version = 2 /\ "session" \in tables
  <2>1. detect' = [at |-> "phase", info |-> info, kv |-> "kv" \in tables] /\ schema' = schema
    BY <1>5 DEF DetectTables, info
  <2>2. LayoutOK'
    BY <1>1, <2>1 DEF Inv, LayoutOK
  <2>3. detect'.at = "phase" /\ detect'.info = info /\ (detect'.kv <=> "kv" \in tables)
    BY <2>1
  <2>4. "session_v2" \in tables
    BY <1>2, <1>5 DEF V2Tables
  <2>5. Detected'
    BY <1>1, <1>3, <1>4, <1>5, <2>1, <2>3, <2>4 DEF Inv, Detected, database
  <2> QED
    BY <1>4, <2>2, <2>5, DataStays DEF Inv
<1>6. CASE ~(info.version = 2 /\ "session" \in tables)
  <2>1. Finish(info)
    BY <1>6 DEF DetectTables, info
  <2>2. info.version = 2 => "session_v2" \in tables /\ ~(V1Tables \subseteq tables)
    BY <1>2, <1>6 DEF V1Tables, V2Tables
  <2>3. info.version = 2 => IdsIn(oldSessions) \subseteq IdsIn(sessions) \union deleted
    BY <2>2, TwoIsWhole DEF Inv
  <2> QED
    BY <1>1, <1>3, <1>4, <2>1, <2>2, <2>3, FinishKeeps
<1> QED
  BY <1>5, <1>6

LEMMA DetectPhaseKeeps ==
  ASSUME Inv, DetectPhase PROVE Inv'
<1> DEFINE state == IF ~detect.kv \/ phase = "none" THEN "pending" ELSE phase
           info == [detect.info EXCEPT !.import = state]
<1>1. detect.at = "phase" /\ detect.info \in Layouts /\ UNCHANGED database
  BY DEF DetectPhase, Inv, LayoutOK
<1>2. state \in {"pending", "running", "completed"} /\ (state = "completed" => phase = "completed")
  BY DEF Inv, Data, DataOK
<1>3. info \in Layouts /\ info.version = detect.info.version /\ info.asked = detect.info.asked /\ info.import = state
  <2> HIDE DEF state
  <2> QED BY <1>1, <1>2 DEF Layouts
<1>4. info.version = 2 /\ "session_v2" \in tables
  BY <1>1, <1>3 DEF Inv, Detected
<1>5. info.asked = "completed" => state = "completed"
  BY <1>1, <1>3 DEF Inv, Detected
<1>6. CASE state = "completed"
  <2>1. Finish(info)
    BY <1>6 DEF DetectPhase
  <2>2. IdsIn(oldSessions) \subseteq IdsIn(sessions) \union deleted
    BY <1>2, <1>4, <1>6, TwoIsWhole DEF Inv
  <2> HIDE DEF info
  <2> QED
    BY <1>1, <1>3, <1>4, <2>1, <2>2, FinishKeeps
<1>7. CASE state # "completed"
  <2>1. detect' = [detect EXCEPT !.at = "count", !.info = info] /\ schema' = schema
    BY <1>7 DEF DetectPhase
  <2> HIDE DEF info
  <2>2. LayoutOK' /\ detect'.at = "count" /\ detect'.info = info
    BY <1>3, <2>1 DEF Inv, LayoutOK
  <2>3. info.import \in {"pending", "running"}
    BY <1>2, <1>3, <1>7
  <2>4. Detected'
    BY <1>1, <1>4, <1>5, <1>7, <2>1, <2>2, <2>3 DEF Inv, Detected, database
  <2> QED
    BY <1>1, <2>2, <2>4, DataStays DEF Inv
<1> QED
  BY <1>6, <1>7

LEMMA DetectCountKeeps ==
  ASSUME Inv, DetectCount PROVE Inv'
<1> DEFINE old == Cardinality(oldSessions)
           new == Cardinality(IdsIn(oldSessions) \cap IdsIn(sessions))
           info == [detect.info EXCEPT !.legacy = old, !.imported = new]
           found == IF ImportIncomplete(info) /\ V1Tables \subseteq tables THEN [info EXCEPT !.version = 1] ELSE info
<1>1. detect.at = "count" /\ detect.info \in Layouts /\ UNCHANGED database /\ Finish(found)
  BY DEF DetectCount, Inv, LayoutOK
<1>2. /\ detect.info.version = 2 /\ "session_v2" \in tables /\ detect.info.asked # "completed"
      /\ detect.info.import \in {"pending", "running"}
  BY <1>1 DEF Inv, Detected
<1>3. old \in Nat /\ new \in Nat
  <2>1. IsFiniteSet(oldSessions)
    BY DEF Inv, Data, DataOK
  <2>2. IsFiniteSet(IdsIn(oldSessions) \cap IdsIn(sessions))
    BY <2>1, IdsFinite
  <2> QED
    BY <2>1, <2>2, FS_CardinalityType
<1>4. /\ info \in Layouts /\ info.version = 2 /\ info.asked # "completed" /\ info.import \in {"pending", "running"}
      /\ info.legacy = old /\ info.imported = new
  <2> HIDE DEF old, new
  <2> QED BY <1>1, <1>2, <1>3 DEF Layouts
<1>5. ImportIncomplete(info) <=> new < old
  <2> HIDE DEF info
  <2> QED BY <1>4 DEF ImportIncomplete
<1>6. CASE ImportIncomplete(info) /\ V1Tables \subseteq tables
  <2>1. found = [info EXCEPT !.version = 1]
    BY <1>6
  <2> HIDE DEF info, found
  <2>2. found \in Layouts /\ found.version = 1 /\ found.asked # "completed"
    BY <1>4, <2>1 DEF Layouts
  <2> QED
    BY <1>1, <2>2, FinishKeeps
<1>7. CASE ~ImportIncomplete(info)
  <2>1. found = info
    BY <1>7
  <2>2. IdsIn(oldSessions) \subseteq IdsIn(sessions)
    BY <1>5, <1>7, CountTells DEF Inv, Data, DataOK
  <2> HIDE DEF info, found
  <2> QED
    BY <1>1, <1>2, <1>4, <2>1, <2>2, FinishKeeps
<1>8. CASE ~(V1Tables \subseteq tables)
  <2>1. found = info
    BY <1>8
  <2>2. IdsIn(oldSessions) \subseteq IdsIn(sessions) \union deleted
    BY <1>2, <1>8, TwoIsWhole DEF Inv
  <2> HIDE DEF info, found
  <2> QED
    BY <1>1, <1>2, <1>4, <2>1, <2>2, FinishKeeps
<1> QED
  BY <1>6, <1>7, <1>8

LEMMA DetectionKeeps ==
  ASSUME Inv, DetectTables \/ DetectPhase \/ DetectCount \/ DetectFails \/ Age \/ UNCHANGED vars
  PROVE  Inv'
<1>1. CASE DetectFails
  <2>1. detect' = Idle /\ schema' = schema /\ UNCHANGED database
    BY <1>1 DEF DetectFails
  <2>2. LayoutOK' /\ detect'.at = "idle"
    BY <2>1 DEF Inv, LayoutOK, Idle, Closed, Layouts, Unknown
  <2>3. Detected'
    BY <2>1, <2>2 DEF Inv, Detected, database
  <2> QED
    BY <2>1, <2>2, <2>3, DataStays DEF Inv
<1>2. CASE Age \/ UNCHANGED vars
  <2>1. detect' = detect /\ schema' = schema /\ UNCHANGED database
    BY <1>2 DEF Age, vars, layout
  <2>2. LayoutOK' /\ Detected'
    BY <2>1 DEF Inv, LayoutOK, Detected, database
  <2> QED
    BY <2>1, <2>2, DataStays DEF Inv
<1> QED
  BY <1>1, <1>2, DetectTablesKeeps, DetectPhaseKeeps, DetectCountKeeps

-----------------------------------------------------------------------------
(* OpenCode 1.x, and the upgrade                                           *)

\* What was trusted stays to be trusted as long as no session is lost.
LEMMA LayoutStays ==
  ASSUME Inv, UNCHANGED layout, tables \subseteq tables', phase = "completed" => phase' = "completed",
         "session_v2" \in tables =>
           oldSessions' = oldSessions /\ IdsIn(sessions) \union deleted \subseteq IdsIn(sessions') \union deleted'
  PROVE  LayoutOK' /\ Detected'
<1>1. schema' = schema /\ detect' = detect
  BY DEF layout
<1> QED
  BY <1>1 DEF Inv, LayoutOK, Detected

LEMMA OneHasNoTwo ==
  ASSUME Inv, "session_v2" \notin tables
  PROVE  sessions = {} /\ rows = {} /\ phase = "none"
BY DEF Inv, Data, DataOK, Tables

LEMMA OldTurnKeeps ==
  ASSUME Named, Inv, NEW s \in SessionIds, NEW finished \in {0, 2}, NEW calls \in SUBSET {"completed", "error"},
         OldTurn(s, finished, calls)
  PROVE  Inv'
<1> DEFINE ask == Row(Now, s, "user")
           begun == Row(Now + 1, s, "assistant")
           amount == Amount(Now + 1)
           model == ModelOf(s)
           answer == [begun EXCEPT !.usage = TRUE, !.model = model, !.cost = amount, !.tokens = amount,
                                   !.finished = finished, !.calls = calls]
<1>1. /\ V1Tables \subseteq tables /\ "session_v2" \notin tables /\ steps' = steps + 1 /\ UNCHANGED layout
      /\ oldSessions' = InSession(oldSessions, s, NotFork) /\ oldRows' = oldRows \union {ask, answer}
      /\ UNCHANGED <<tables, phase, sessions, rows, deleted>>
  BY DEF OldTurn, Step
<1>2. sessions = {} /\ rows = {} /\ phase = "none"
  BY <1>1, OneHasNoTwo
<1>3. steps \in Nat /\ Now = 2 * steps /\ Now \in Nat /\ Now + 1 \in Nat
  BY DEF Inv, Data, DataOK, Now
<1>4. ask \in AnyRow /\ ask.orig = 2 * steps /\ ask.s = s /\ ask.t = 2 * steps /\ ask.type = "user" /\ ~ask.running
  BY <1>3, RowTyped DEF AllSessions
<1>5. /\ begun \in AnyRow /\ begun.orig = 2 * steps + 1 /\ begun.s = s /\ begun.t = 2 * steps
      /\ begun.type = "assistant" /\ ~begun.running
  BY <1>3, RowTyped DEF AllSessions
<1>6. amount \in Amounts /\ model \in {NoModel, "m1", "m2"}
  BY <1>3 DEF Amounts, ModelOf
<1>7. /\ answer \in AnyRow /\ answer.orig = 2 * steps + 1 /\ answer.s = s /\ answer.t = 2 * steps
      /\ answer.type = "assistant" /\ ~answer.running
  <2> HIDE DEF begun, amount, model
  <2> QED BY <1>5, <1>6 DEF AnyRow
<1> HIDE DEF ask, answer
<1> DEFINE new == [id |-> s, created |-> 2 * steps, fork |-> NotFork]
<1>8. /\ new \in AnySession /\ new.id = s /\ new.fork = NotFork
      /\ oldSessions' = IF s \in IdsIn(oldSessions) THEN oldSessions ELSE oldSessions \union {new}
      /\ oldSessions' \in SUBSET AnySession
      /\ s \in IdsIn(oldSessions') /\ IdsIn(oldSessions) \subseteq IdsIn(oldSessions')
  BY <1>1, <1>3, InSessionAdds DEF Inv, Data, DataOK, AllSessions
<1> HIDE DEF new
<1>9. DataOK'
  <2>1. IsFiniteSet(oldSessions')
    BY <1>8, FS_AddElement DEF Inv, Data, DataOK
  <2> QED
    BY <1>1, <1>3, <1>4, <1>7, <1>8, <2>1 DEF Inv, Data, DataOK
<1>10. OldWhole'
  <2>1. Dated(oldRows, oldSessions)
    BY DEF Inv, Data, OldWhole
  <2>2. \A m \in oldRows : m.orig \in Nat /\ m.t \in Nat
    BY DEF Inv, Data, DataOK, AnyRow
  <2>3. \A m \in oldRows' : m.orig < 2 * steps' /\ m.t < 2 * steps' /\ m.s \in IdsIn(oldSessions')
    <3>1. \A m \in oldRows : m.orig < 2 * steps' /\ m.t < 2 * steps' /\ m.s \in IdsIn(oldSessions')
      <4>1. \A m \in oldRows : m.orig < 2 * steps' /\ m.t < 2 * steps'
        BY <1>1, <1>3, RowsTyped DEF Inv
      <4>2. \A m \in oldRows : m.s \in IdsIn(oldSessions')
        BY <1>8, <2>1 DEF Dated
      <4> QED
        BY <4>1, <4>2
    <3>2. \A m \in {ask, answer} : m.orig < 2 * steps' /\ m.t < 2 * steps' /\ m.s \in IdsIn(oldSessions')
      BY <1>1, <1>3, <1>4, <1>7, <1>8
    <3> QED
      BY <1>1, <3>1, <3>2
  <2>4. \A x, y \in oldSessions' : x.id = y.id => x = y
    BY <1>8, <2>1 DEF Dated, IdsIn
  <2>5. \A m, n \in oldRows' : m.orig = n.orig => m = n
    BY <1>1, <1>3, <1>4, <1>7, <2>1, <2>2 DEF Inv, Data, OldWhole, Dated
  <2>6. \A m \in oldRows' : m.type \in {"user", "assistant"} /\ ~m.running
    BY <1>1, <1>4, <1>7 DEF Inv, Data, OldWhole
  <2>7. \A x \in oldSessions' : x.id \in SessionIds /\ x.fork = NotFork
    BY <1>8 DEF Inv, Data, OldWhole
  <2> QED
    BY <2>3, <2>4, <2>5, <2>6, <2>7 DEF OldWhole, Dated
<1>11. Tables'
  BY <1>1, <1>2 DEF Tables
<1>12. NewWhole' /\ Imported'
  BY <1>1, <1>2 DEF NewWhole, Imported, Dated, IdsIn
<1>13. LayoutOK' /\ Detected'
  BY <1>1, <1>2, LayoutStays
<1> QED
  BY <1>9, <1>10, <1>11, <1>12, <1>13 DEF Inv, Data

LEMMA CreateKeeps ==
  ASSUME Inv, Create PROVE Inv'
<1>1. /\ tables = {} /\ tables' = V2Tables \union {"kv"} /\ UNCHANGED layout
      /\ UNCHANGED <<phase, oldSessions, oldRows, sessions, rows, steps, deleted>>
  BY DEF Create
<1>2. sessions = {} /\ rows = {} /\ phase = "none"
  BY <1>1, OneHasNoTwo
<1>3. oldSessions = {}
  BY <1>1 DEF Inv, Data, Tables, V1Tables
<1>4. DataOK' /\ OldWhole' /\ NewWhole' /\ Imported'
  BY <1>1 DEF Inv, Data, DataOK, OldWhole, NewWhole, Imported, Dated, Copied
<1>5. Tables'
  BY <1>1, <1>2, <1>3 DEF Tables
<1>6. LayoutOK' /\ Detected'
  BY <1>1, LayoutStays
<1> QED
  BY <1>4, <1>5, <1>6 DEF Inv, Data

LEMMA UpgradeKeeps ==
  ASSUME Inv, Upgrade PROVE Inv'
<1>1. /\ "session_v2" \notin tables /\ tables' = tables \union V2Tables /\ steps' = steps + 1 /\ UNCHANGED layout
      /\ UNCHANGED <<phase, oldSessions, oldRows, sessions, rows, deleted>>
  BY DEF Upgrade, Step
<1>2. sessions = {} /\ rows = {} /\ phase = "none"
  BY <1>1, OneHasNoTwo
<1>3. DataOK'
  BY <1>1 DEF Inv, Data, DataOK
<1>4. OldWhole'
  <2>1. \A m \in oldRows : m.orig \in Nat /\ m.t \in Nat
    BY DEF Inv, Data, DataOK, AnyRow
  <2>2. \A m \in oldRows : m.orig < 2 * steps' /\ m.t < 2 * steps'
    BY <1>1, <2>1 DEF Inv, Data, DataOK, OldWhole, Dated
  <2> QED
    BY <1>1, <2>2 DEF Inv, Data, OldWhole, Dated
<1>5. NewWhole' /\ Imported'
  BY <1>1, <1>2 DEF NewWhole, Imported, Dated, IdsIn
<1>6. Tables'
  BY <1>1, <1>2 DEF Inv, Data, Tables
<1>7. LayoutOK' /\ Detected'
  BY <1>1, LayoutStays
<1> QED
  BY <1>3, <1>4, <1>5, <1>6, <1>7 DEF Inv, Data

-----------------------------------------------------------------------------
(* The import                                                              *)

LEMMA ImportStartsKeeps ==
  ASSUME Inv, ImportStarts PROVE Inv'
<1>1. /\ "session_v2" \in tables /\ "session" \in tables /\ phase = "none"
      /\ tables' = tables \union {"kv"} /\ phase' = "running" /\ UNCHANGED layout
      /\ UNCHANGED <<oldSessions, oldRows, sessions, rows, steps, deleted>>
  BY DEF ImportStarts
<1>2. DataOK' /\ OldWhole' /\ NewWhole' /\ Imported'
  BY <1>1 DEF Inv, Data, DataOK, OldWhole, NewWhole, Imported, Dated, Copied
<1>3. Tables'
  BY <1>1 DEF Inv, Data, Tables
<1>4. LayoutOK' /\ Detected'
  BY <1>1, LayoutStays
<1> QED
  BY <1>2, <1>3, <1>4 DEF Inv, Data

LEMMA ImportCompletesKeeps ==
  ASSUME Inv, ImportCompletes PROVE Inv'
<1>1. /\ phase = "running" /\ IdsIn(oldSessions) \subseteq IdsIn(sessions) \union deleted
      /\ phase' = "completed" /\ UNCHANGED layout
      /\ UNCHANGED <<tables, oldSessions, oldRows, sessions, rows, steps, deleted>>
  BY DEF ImportCompletes
<1>2. DataOK' /\ OldWhole' /\ NewWhole' /\ Imported' /\ Tables'
  BY <1>1 DEF Inv, Data, DataOK, OldWhole, NewWhole, Imported, Dated, Copied, Tables
<1>3. LayoutOK' /\ Detected'
  BY <1>1, LayoutStays
<1> QED
  BY <1>2, <1>3 DEF Inv, Data

LEMMA ImportSessionKeeps ==
  ASSUME Named, Inv, NEW s \in SessionIds, ImportSession(s) PROVE Inv'
<1> DEFINE new == SessionIn(oldSessions, s)
           its == {m \in oldRows : m.s = s}
<1>1. /\ phase = "running" /\ s \in IdsIn(oldSessions) /\ s \notin IdsIn(sessions) /\ s \notin deleted
      /\ sessions' = sessions \union {new} /\ rows' = rows \union its /\ UNCHANGED layout
      /\ UNCHANGED <<tables, phase, oldSessions, oldRows, steps, deleted>>
  BY DEF ImportSession
<1>2. new \in oldSessions /\ new.id = s /\ new.fork = NotFork /\ s # TheFork /\ new \in AnySession
  BY <1>1, SessionIsFound DEF Inv, Data, DataOK, OldWhole, Named
<1>3. its \subseteq oldRows /\ its \subseteq AnyRow /\ \A m \in oldRows : m \in its <=> m.s = s
  BY DEF Inv, Data, DataOK
<1> HIDE DEF new, its
<1>4. IdsIn(sessions') = IdsIn(sessions) \union {s}
  BY <1>1, <1>2 DEF IdsIn
<1>5. DataOK' /\ OldWhole'
  BY <1>1, <1>2, <1>3 DEF Inv, Data, DataOK, OldWhole, Dated
<1>6. Tables'
  BY <1>1 DEF Inv, Data, Tables
<1>7. Imported'
  BY <1>1, <1>3, <1>4 DEF Inv, Data, Imported
<1>8. NewWhole'
  <2>1. Dated(rows, sessions)'
    BY <1>1, <1>2, <1>3, <1>4 DEF Inv, Data, NewWhole, OldWhole, Dated, IdsIn
  <2>2. \A x \in sessions' : (x.fork = NotFork <=> x.id # TheFork) /\ x.id \notin deleted'
    BY <1>1, <1>2 DEF Inv, Data, NewWhole
  <2>3. \A m \in rows : m.s # s
    BY <1>1 DEF Inv, Data, NewWhole, Dated
  <2>4. \A m : Copied(m) => Copied(m)'
    BY <1>1, <1>2 DEF Copied
  <2>5. ASSUME NEW m \in rows', NEW n \in rows', m.orig = n.orig, m.s = n.s, m.type = "note" <=> n.type = "note"
        PROVE  m = n
    BY <1>1, <1>3, <2>3, <2>5 DEF Inv, Data, NewWhole, OldWhole
  <2>6. ASSUME NEW m \in rows', NEW n \in rows', m.orig = n.orig, m.s # n.s PROVE Copied(m)' \/ Copied(n)'
    BY <1>1, <1>3, <2>4, <2>6 DEF Inv, Data, NewWhole, OldWhole
  <2>7. ASSUME NEW m \in rows', NEW n \in oldRows, m.orig = n.orig, m.s # n.s PROVE Copied(m)'
    BY <1>1, <1>3, <2>4, <2>7 DEF Inv, Data, NewWhole, OldWhole
  <2> QED
    BY <1>1, <2>1, <2>2, <2>5, <2>6, <2>7 DEF NewWhole
<1>9. LayoutOK' /\ Detected'
  BY <1>1, <1>4, LayoutStays
<1> QED
  BY <1>5, <1>6, <1>7, <1>8, <1>9 DEF Inv, Data

-----------------------------------------------------------------------------
(* OpenCode 2.x                                                            *)

LEMMA CopiedStays ==
  ASSUME NEW new, sessions' \subseteq sessions \union {new}, new.id # TheFork
  PROVE  \A m : Copied(m) => Copied(m)'
BY DEF Copied

\* Rows that are new have numbers of their own.
LEMMA WritesKeeps ==
  ASSUME Named, Inv, NEW s \in AllSessions, NEW new \in SUBSET AnyRow, Writes(s, new),
         s \in SessionIds \ IdsIn(oldSessions) \/ s \in IdsIn(sessions),
         \A m \in new : m.s = s /\ m.t = 2 * steps /\ m.orig \in {2 * steps, 2 * steps + 1},
         \A m, n \in new : m.orig = n.orig /\ (m.type = "note" <=> n.type = "note") => m = n
  PROVE  Inv'
<1> DEFINE one == [id |-> s, created |-> 2 * steps, fork |-> NotFork]
<1>1. /\ "session_v2" \in tables /\ s \notin deleted /\ steps' = steps + 1 /\ UNCHANGED layout
      /\ sessions' = InSession(sessions, s, NotFork) /\ rows' = rows \union new
      /\ UNCHANGED <<tables, phase, oldSessions, oldRows, deleted>>
  BY DEF Writes, Step
<1>2. steps \in Nat
  BY DEF Inv, Data, DataOK
<1>3. /\ one \in AnySession /\ one.id = s /\ one.fork = NotFork
      /\ sessions' = IF s \in IdsIn(sessions) THEN sessions ELSE sessions \union {one}
      /\ sessions' \in SUBSET AnySession
      /\ s \in IdsIn(sessions')
      /\ IdsIn(sessions) \subseteq IdsIn(sessions') /\ IdsIn(sessions') \subseteq IdsIn(sessions) \union {s}
  BY <1>1, <1>2, InSessionAdds DEF Inv, Data, DataOK
<1> HIDE DEF one
<1>4. \A m \in rows \union oldRows : m.orig \in Nat /\ m.t \in Nat /\ m.orig < 2 * steps /\ m.t < 2 * steps
  BY RowsTyped DEF Inv
<1>5. DataOK'
  BY <1>1, <1>2, <1>3 DEF Inv, Data, DataOK
<1>6. OldWhole'
  <2>1. \A m \in oldRows : m.orig < 2 * steps' /\ m.t < 2 * steps'
    BY <1>1, <1>2, <1>4
  <2> QED
    BY <1>1, <2>1 DEF Inv, Data, OldWhole, Dated
<1>7. Tables'
  BY <1>1 DEF Inv, Data, Tables
<1>8. Imported'
  <2>1. \A m \in oldRows : m.s \in IdsIn(oldSessions)
    BY DEF Inv, Data, OldWhole, Dated
  <2>2. \A m \in oldRows : m.s \in IdsIn(sessions') => m.s \in IdsIn(sessions)
    BY <1>3, <2>1
  <2> QED
    BY <1>1, <1>3, <2>2 DEF Inv, Data, Imported
<1>9. NewWhole'
  <2>1. \A m : Copied(m) => Copied(m)'
    <3>1. CASE s \in IdsIn(sessions)
      BY <1>3, <3>1 DEF Copied
    <3>2. CASE s \notin IdsIn(sessions)
      BY <1>3, <3>2, CopiedStays DEF Named
    <3> QED
      BY <3>1, <3>2
  <2>2. \A m \in rows' : m.orig < 2 * steps' /\ m.t < 2 * steps' /\ m.s \in IdsIn(sessions')
    <3>1. \A m \in rows : m.orig < 2 * steps' /\ m.t < 2 * steps' /\ m.s \in IdsIn(sessions')
      <4>1. \A m \in rows : m.orig < 2 * steps' /\ m.t < 2 * steps'
        BY <1>1, <1>2, <1>4
      <4>2. \A m \in rows : m.s \in IdsIn(sessions')
        BY <1>3 DEF Inv, Data, NewWhole, Dated
      <4> QED
        BY <4>1, <4>2
    <3>2. \A m \in new : m.orig < 2 * steps' /\ m.t < 2 * steps' /\ m.s \in IdsIn(sessions')
      BY <1>1, <1>2, <1>3
    <3> QED
      BY <1>1, <3>1, <3>2
  <2>3. \A x, y \in sessions' : x.id = y.id => x = y
    BY <1>3 DEF Inv, Data, NewWhole, Dated, IdsIn
  <2>4. \A x \in sessions' : (x.fork = NotFork <=> x.id # TheFork) /\ x.id \notin deleted'
    BY <1>1, <1>3 DEF Inv, Data, NewWhole, Named
  <2>5. \A m \in rows', n \in rows' : m.orig = n.orig => (m \in rows /\ n \in rows) \/ (m \in new /\ n \in new)
    BY <1>1, <1>2, <1>4
  <2>6. ASSUME NEW m \in rows', NEW n \in rows', m.orig = n.orig, m.s = n.s, m.type = "note" <=> n.type = "note"
        PROVE  m = n
    BY <2>5, <2>6 DEF Inv, Data, NewWhole
  <2>7. ASSUME NEW m \in rows', NEW n \in rows', m.orig = n.orig, m.s # n.s PROVE Copied(m)' \/ Copied(n)'
    BY <2>1, <2>5, <2>7 DEF Inv, Data, NewWhole
  <2>8. ASSUME NEW m \in rows', NEW n \in oldRows, m.orig = n.orig, m.s # n.s PROVE Copied(m)'
    <3>1. m \in rows
      BY <1>1, <1>2, <1>4, <2>8
    <3> QED
      BY <2>1, <2>8, <3>1 DEF Inv, Data, NewWhole
  <2> QED
    BY <1>1, <2>2, <2>3, <2>4, <2>6, <2>7, <2>8 DEF NewWhole, Dated
<1>10. LayoutOK' /\ Detected'
  BY <1>1, <1>3, LayoutStays
<1> QED
  BY <1>5, <1>6, <1>7, <1>8, <1>9, <1>10 DEF Inv, Data

LEMMA PromptKeeps ==
  ASSUME Named, Inv, NEW s \in AllSessions, Prompt(s) PROVE Inv'
<1> DEFINE user == Row(Now, s, "user")
           item == Row(Now, s, "note")
           number == Now + 100
           note == [item EXCEPT !.id = number]
           begun == Row(Now + 1, s, "assistant")
           model == ModelOf(IF s = TheFork THEN 1 ELSE s)
           answer == [begun EXCEPT !.running = TRUE, !.model = model]
<1>1. /\ s \in SessionIds \ IdsIn(oldSessions) \/ s \in IdsIn(sessions)
      /\ Writes(s, {user, note, answer})
  BY DEF Prompt
<1>2. steps \in Nat /\ Now = 2 * steps /\ Now \in Nat /\ Now + 1 \in Nat /\ number \in Int
  BY DEF Inv, Data, DataOK, Now
<1>3. user \in AnyRow /\ user.orig = 2 * steps /\ user.s = s /\ user.t = 2 * steps /\ user.type = "user"
  BY <1>2, RowTyped
<1>4. item \in AnyRow /\ item.orig = 2 * steps /\ item.s = s /\ item.t = 2 * steps /\ item.type = "note"
  BY <1>2, RowTyped
<1>5. begun \in AnyRow /\ begun.orig = 2 * steps + 1 /\ begun.s = s /\ begun.t = 2 * steps /\ begun.type = "assistant"
  BY <1>2, RowTyped
<1>6. model \in {NoModel, "m1", "m2"}
  BY DEF ModelOf
<1> HIDE DEF user, item, begun, model, number
<1>7. note \in AnyRow /\ note.orig = 2 * steps /\ note.s = s /\ note.t = 2 * steps /\ note.type = "note"
  BY <1>2, <1>4 DEF AnyRow
<1>8. /\ answer \in AnyRow /\ answer.orig = 2 * steps + 1 /\ answer.s = s /\ answer.t = 2 * steps
      /\ answer.type = "assistant"
  BY <1>5, <1>6 DEF AnyRow
<1> HIDE DEF note, answer
<1> DEFINE new == {user, note, answer}
<1>9. new \in SUBSET AnyRow
  BY <1>3, <1>7, <1>8
<1>10. \A m \in new : m.s = s /\ m.t = 2 * steps /\ m.orig \in {2 * steps, 2 * steps + 1}
  BY <1>3, <1>7, <1>8
<1>11. \A m, n \in new : m.orig = n.orig /\ (m.type = "note" <=> n.type = "note") => m = n
  BY <1>2, <1>3, <1>7, <1>8
<1>12. Writes(s, new)
  BY <1>1
<1> HIDE DEF new
<1> QED
  BY <1>1, <1>9, <1>10, <1>11, <1>12, WritesKeeps

LEMMA CompactKeeps ==
  ASSUME Named, Inv, NEW s \in AllSessions, Compact(s) PROVE Inv'
<1> DEFINE begun == Row(Now + 1, s, "compaction")
           row == [begun EXCEPT !.running = TRUE]
           new == {row}
<1>1. s \in IdsIn(sessions) /\ Writes(s, new)
  BY DEF Compact
<1>2. steps \in Nat /\ Now = 2 * steps /\ Now + 1 \in Nat
  BY DEF Inv, Data, DataOK, Now
<1>3. begun \in AnyRow /\ begun.orig = 2 * steps + 1 /\ begun.s = s /\ begun.t = 2 * steps
  BY <1>2, RowTyped
<1> HIDE DEF begun
<1>4. row \in AnyRow /\ row.orig = 2 * steps + 1 /\ row.s = s /\ row.t = 2 * steps
  BY <1>3 DEF AnyRow
<1> HIDE DEF row
<1>5. /\ new \in SUBSET AnyRow /\ \A m, n \in new : m = n
      /\ \A m \in new : m.s = s /\ m.t = 2 * steps /\ m.orig \in {2 * steps, 2 * steps + 1}
  BY <1>4
<1> HIDE DEF new
<1> QED
  BY <1>1, <1>5, WritesKeeps

LEMMA OutcomesTyped ==
  ASSUME NEW o \in Outcomes
  PROVE  o[1] \in BOOLEAN /\ o[2] \in {"none", "aborted", "other"} /\ o[3] \in SUBSET {"completed", "error"}
<1>1. CASE o = <<TRUE, "none", {"completed", "error"}>>
  BY <1>1
<1>2. CASE o = <<TRUE, "other", {}>>
  BY <1>2
<1>3. CASE o = <<FALSE, "aborted", {}>>
  BY <1>3
<1>4. CASE o = <<FALSE, "other", {}>>
  BY <1>4
<1> QED
  BY <1>1, <1>2, <1>3, <1>4, Zenon DEF Outcomes

LEMMA SettleKeeps ==
  ASSUME Inv, NEW row \in rows, NEW o \in Outcomes, Settle(row, o[1], o[2], o[3])
  PROVE  Inv'
<1> DEFINE usage == o[1]
           error == o[2]
           calls == o[3]
<1>1. usage \in BOOLEAN
  BY OutcomesTyped
<1>2. error \in {"none", "aborted", "other"} /\ calls \in SUBSET {"completed", "error"}
  BY OutcomesTyped
<1>3. Settle(row, usage, error, calls)
  BY Zenon
<1> HIDE DEF usage, error, calls
<1> DEFINE amount == IF usage THEN Amount(row.orig) ELSE 0
           done == [row EXCEPT !.running = FALSE, !.usage = usage, !.error = error, !.calls = calls,
                               !.cost = amount, !.tokens = amount]
<1>4. /\ row.running /\ steps' = steps + 1 /\ UNCHANGED layout /\ rows' = (rows \ {row}) \union {done}
      /\ UNCHANGED <<tables, phase, oldSessions, oldRows, sessions, deleted>>
  BY <1>3 DEF Settle, Step
<1>5. row \in AnyRow
  BY DEF Inv, Data, DataOK
<1>6. amount \in Amounts
  <2>1. row.orig \in Nat
    BY <1>5 DEF AnyRow
  <2> QED
    BY <2>1 DEF Amounts
<1> HIDE DEF amount
<1>7. /\ done \in AnyRow /\ done.orig = row.orig /\ done.s = row.s /\ done.t = row.t /\ done.type = row.type
  BY <1>1, <1>2, <1>5, <1>6 DEF AnyRow
<1> HIDE DEF done
<1>8. \A m \in rows \union oldRows : m.orig \in Nat /\ m.t \in Nat /\ m.orig < 2 * steps /\ m.t < 2 * steps
  BY RowsTyped DEF Inv
<1>9. steps \in Nat
  BY DEF Inv, Data, DataOK
<1>10. DataOK'
  BY <1>4, <1>7 DEF Inv, Data, DataOK
<1>11. OldWhole'
  <2>1. \A m \in oldRows : m.orig < 2 * steps' /\ m.t < 2 * steps'
    BY <1>4, <1>8, <1>9
  <2> QED
    BY <1>4, <2>1 DEF Inv, Data, OldWhole, Dated
<1>12. Tables'
  BY <1>4 DEF Inv, Data, Tables
<1>13. Imported'
  BY <1>4 DEF Inv, Data, Imported, OldWhole
<1>14. NewWhole'
  <2>1. \A m, n : m.s = n.s /\ m.t = n.t /\ Copied(m) => Copied(n)'
    BY <1>4 DEF Copied
  <2>2. \A m \in rows' : \E n \in rows : /\ m.orig = n.orig /\ m.s = n.s /\ m.t = n.t /\ m.type = n.type
                                       /\ ((m = n /\ n # row) \/ (m = done /\ n = row))
    BY <1>4, <1>7
  <2>3. \A m \in rows' : m.orig < 2 * steps' /\ m.t < 2 * steps' /\ m.s \in IdsIn(sessions')
    <3>1. \A m \in rows : m.orig < 2 * steps' /\ m.t < 2 * steps'
      BY <1>4, <1>8, <1>9
    <3>2. \A m \in rows : m.s \in IdsIn(sessions')
      BY <1>4 DEF Inv, Data, NewWhole, Dated
    <3> QED
      BY <2>2, <3>1, <3>2
  <2>4. ASSUME NEW m \in rows', NEW n \in rows', m.orig = n.orig, m.s = n.s, m.type = "note" <=> n.type = "note"
        PROVE  m = n
    <3>1. PICK x \in rows : m.orig = x.orig /\ m.s = x.s /\ m.type = x.type
                       /\ ((m = x /\ x # row) \/ (m = done /\ x = row))
      BY <2>2
    <3>2. PICK y \in rows : n.orig = y.orig /\ n.s = y.s /\ n.type = y.type
                       /\ ((n = y /\ y # row) \/ (n = done /\ y = row))
      BY <2>2
    <3>3. x = y
      BY <2>4, <3>1, <3>2 DEF Inv, Data, NewWhole
    <3> QED
      BY <3>1, <3>2, <3>3
  <2>5. ASSUME NEW m \in rows', NEW n \in rows', m.orig = n.orig, m.s # n.s PROVE Copied(m)' \/ Copied(n)'
    BY <2>1, <2>2, <2>5 DEF Inv, Data, NewWhole
  <2>6. ASSUME NEW m \in rows', NEW n \in oldRows, m.orig = n.orig, m.s # n.s PROVE Copied(m)'
    BY <2>1, <2>2, <2>6 DEF Inv, Data, NewWhole
  <2> QED
    BY <1>4, <2>3, <2>4, <2>5, <2>6 DEF Inv, Data, NewWhole, Dated
<1>15. LayoutOK' /\ Detected'
  BY <1>4, LayoutStays
<1> QED
  BY <1>10, <1>11, <1>12, <1>13, <1>14, <1>15 DEF Inv, Data

LEMMA ForkKeeps ==
  ASSUME Named, Inv, NEW s \in SessionIds, Fork(s) PROVE Inv'
<1> DEFINE one == [id |-> TheFork, created |-> 2 * steps, fork |-> s]
           Copy(m) == [m EXCEPT !.id = m.id + 200, !.s = TheFork]
           from == {m \in rows : m.s = s /\ ~m.running}
           copies == {Copy(m) : m \in from}
<1>1. /\ s \in IdsIn(sessions) /\ TheFork \notin IdsIn(sessions) /\ TheFork \notin deleted /\ steps' = steps + 1
      /\ sessions' = InSession(sessions, TheFork, s) /\ rows' = rows \union copies /\ UNCHANGED layout
      /\ UNCHANGED <<tables, phase, oldSessions, oldRows, deleted>>
  BY DEF Fork, Step
<1>2. steps \in Nat
  BY DEF Inv, Data, DataOK
<1>3. /\ one \in AnySession /\ one.id = TheFork /\ one.created = 2 * steps /\ one.fork = s
      /\ sessions' = sessions \union {one} /\ sessions' \in SUBSET AnySession
      /\ TheFork \in IdsIn(sessions')
      /\ IdsIn(sessions) \subseteq IdsIn(sessions') /\ IdsIn(sessions') \subseteq IdsIn(sessions) \union {TheFork}
  <2>1. sessions \in SUBSET AnySession /\ TheFork \in AllSessions /\ s \in SessionIds \union {NotFork}
    BY DEF Inv, Data, DataOK, AllSessions
  <2>2. /\ one \in AnySession /\ one.id = TheFork /\ one.created = 2 * steps /\ one.fork = s
        /\ InSession(sessions, TheFork, s) = IF TheFork \in IdsIn(sessions) THEN sessions ELSE sessions \union {one}
        /\ InSession(sessions, TheFork, s) \in SUBSET AnySession
        /\ TheFork \in IdsIn(InSession(sessions, TheFork, s))
        /\ IdsIn(sessions) \subseteq IdsIn(InSession(sessions, TheFork, s))
        /\ IdsIn(InSession(sessions, TheFork, s)) \subseteq IdsIn(sessions) \union {TheFork}
    BY <1>2, <2>1, InSessionAdds
  <2> HIDE DEF one
  <2> QED
    BY <1>1, <2>2
<1> HIDE DEF one
<1>4. \A m \in rows \union oldRows :
        m.orig \in Nat /\ m.t \in Nat /\ m.id \in Int /\ m.orig < 2 * steps /\ m.t < 2 * steps
  BY RowsTyped DEF Inv
<1>5. \A m \in from : /\ m \in rows /\ m.s = s
                      /\ Copy(m) \in AnyRow /\ Copy(m).orig = m.orig /\ Copy(m).t = m.t /\ Copy(m).type = m.type
                      /\ Copy(m).s = TheFork
  <2>1. ASSUME NEW m \in from
        PROVE  /\ Copy(m) \in AnyRow /\ Copy(m).orig = m.orig /\ Copy(m).t = m.t /\ Copy(m).type = m.type
               /\ Copy(m).s = TheFork
    <3> DEFINE number == m.id + 200
    <3>1. m \in AnyRow /\ number \in Int /\ TheFork \in AllSessions
      BY <1>4, <2>1 DEF Inv, Data, DataOK, AllSessions
    <3> HIDE DEF number
    <3>2. /\ [m EXCEPT !.id = number, !.s = TheFork] \in AnyRow /\ [m EXCEPT !.id = number, !.s = TheFork].orig = m.orig
          /\ [m EXCEPT !.id = number, !.s = TheFork].t = m.t /\ [m EXCEPT !.id = number, !.s = TheFork].type = m.type
          /\ [m EXCEPT !.id = number, !.s = TheFork].s = TheFork
      BY <3>1 DEF AnyRow
    <3> QED
      BY <3>2 DEF number
  <2>2. \A m \in from : m \in rows /\ m.s = s
    OBVIOUS
  <2> HIDE DEF Copy, from
  <2> QED
    BY <2>1, <2>2
<1> HIDE DEF Copy
<1>6. \A c \in copies : \E m \in rows : /\ m.s = s /\ c = Copy(m) /\ c \in AnyRow /\ c.s = TheFork
                                     /\ c.orig = m.orig /\ c.t = m.t /\ c.type = m.type
  BY <1>5
<1> HIDE DEF copies, from
<1>7. DataOK'
  <2>1. copies \subseteq AnyRow
    BY <1>6
  <2> QED
    BY <1>1, <1>2, <1>3, <2>1 DEF Inv, Data, DataOK
<1>8. OldWhole'
  <2>1. \A m \in oldRows : m.orig < 2 * steps' /\ m.t < 2 * steps'
    BY <1>1, <1>2, <1>4
  <2> QED
    BY <1>1, <2>1 DEF Inv, Data, OldWhole, Dated
<1>9. Tables'
  <2>1. "session_v2" \in tables
    BY <1>1 DEF Inv, Data, Tables, IdsIn
  <2> QED
    BY <1>1, <2>1 DEF Inv, Data, Tables
<1>10. Imported'
  <2>1. \A m \in oldRows : m.s # TheFork
    BY DEF Inv, Data, OldWhole, Dated, IdsIn, Named
  <2> QED
    BY <1>1, <1>3, <2>1 DEF Inv, Data, Imported
<1>11. NewWhole'
  <2>1. \A m \in rows : m.s # TheFork /\ ~Copied(m)
    BY <1>1 DEF Inv, Data, NewWhole, Dated, Copied
  <2>2. \A c \in copies : Copied(c)'
    <3>1. \A x \in sessions' : x.id = TheFork => x = one
      BY <1>1, <1>3 DEF IdsIn
    <3>2. \A c \in copies : c.s = TheFork /\ c.t < one.created
      BY <1>3, <1>4, <1>6
    <3>3. one.fork # NotFork
      BY <1>3 DEF Named
    <3> QED
      BY <3>1, <3>2, <3>3 DEF Copied
  <2>3. \A m \in rows' : m.orig < 2 * steps' /\ m.t < 2 * steps' /\ m.s \in IdsIn(sessions')
    <3>1. \A m \in rows : m.orig < 2 * steps' /\ m.t < 2 * steps' /\ m.s \in IdsIn(sessions')
      <4>1. \A m \in rows : m.orig < 2 * steps' /\ m.t < 2 * steps'
        BY <1>1, <1>2, <1>4
      <4>2. \A m \in rows : m.s \in IdsIn(sessions')
        BY <1>3 DEF Inv, Data, NewWhole, Dated
      <4> QED
        BY <4>1, <4>2
    <3>2. \A m \in copies : m.orig < 2 * steps' /\ m.t < 2 * steps' /\ m.s \in IdsIn(sessions')
      BY <1>1, <1>2, <1>3, <1>4, <1>6
    <3> QED
      BY <1>1, <3>1, <3>2
  <2>4. \A x, y \in sessions' : x.id = y.id => x = y
    BY <1>1, <1>3 DEF Inv, Data, NewWhole, Dated, IdsIn
  <2>5. \A x \in sessions' : (x.fork = NotFork <=> x.id # TheFork) /\ x.id \notin deleted'
    BY <1>1, <1>3 DEF Inv, Data, NewWhole, Named
  <2>6. ASSUME NEW m \in rows', NEW n \in rows', m.orig = n.orig, m.s = n.s, m.type = "note" <=> n.type = "note"
        PROVE  m = n
    <3>1. CASE m \in rows
      BY <1>1, <1>6, <2>1, <2>6, <3>1 DEF Inv, Data, NewWhole
    <3>2. CASE m \in copies
      <4>1. n \in copies
        BY <1>1, <1>6, <2>1, <2>6, <3>2
      <4>2. PICK x \in rows : m = Copy(x) /\ x.s = s /\ x.orig = m.orig /\ x.type = m.type
        BY <1>6, <3>2
      <4>3. PICK y \in rows : n = Copy(y) /\ y.s = s /\ y.orig = n.orig /\ y.type = n.type
        BY <1>6, <4>1
      <4>4. x = y
        BY <2>6, <4>2, <4>3 DEF Inv, Data, NewWhole
      <4> QED
        BY <4>2, <4>3, <4>4
    <3> QED
      BY <1>1, <3>1, <3>2
  <2>7. ASSUME NEW m \in rows', NEW n \in rows', m.orig = n.orig, m.s # n.s PROVE Copied(m)' \/ Copied(n)'
    <3>1. ~(m \in rows /\ n \in rows)
      BY <2>1, <2>7 DEF Inv, Data, NewWhole
    <3> QED
      BY <1>1, <2>2, <3>1
  <2>8. ASSUME NEW m \in rows', NEW n \in oldRows, m.orig = n.orig, m.s # n.s PROVE Copied(m)'
    <3>1. m \notin rows
      BY <2>1, <2>8 DEF Inv, Data, NewWhole
    <3> QED
      BY <1>1, <2>2, <3>1
  <2> QED
    BY <1>1, <2>3, <2>4, <2>5, <2>6, <2>7, <2>8 DEF NewWhole, Dated
<1>12. LayoutOK' /\ Detected'
  BY <1>1, <1>3, LayoutStays
<1> QED
  BY <1>7, <1>8, <1>9, <1>10, <1>11, <1>12 DEF Inv, Data

LEMMA DeleteKeeps ==
  ASSUME Inv, NEW s \in AllSessions, Delete(s) PROVE Inv'
<1>1. /\ steps' = steps + 1 /\ sessions' = {x \in sessions : x.id # s} /\ rows' = {m \in rows : m.s # s}
      /\ deleted' = deleted \union {s} /\ UNCHANGED layout /\ UNCHANGED <<tables, phase, oldSessions, oldRows>>
  BY DEF Delete, Step
<1>2. IdsIn(sessions') = IdsIn(sessions) \ {s}
  BY <1>1 DEF IdsIn
<1>3. \A m \in rows \union oldRows : m.orig \in Nat /\ m.t \in Nat /\ m.orig < 2 * steps /\ m.t < 2 * steps
  BY RowsTyped DEF Inv
<1>4. steps \in Nat
  BY DEF Inv, Data, DataOK
<1>5. DataOK'
  BY <1>1 DEF Inv, Data, DataOK
<1>6. OldWhole'
  <2>1. \A m \in oldRows : m.orig < 2 * steps' /\ m.t < 2 * steps'
    BY <1>1, <1>3, <1>4
  <2> QED
    BY <1>1, <2>1 DEF Inv, Data, OldWhole, Dated
<1>7. Tables'
  BY <1>1 DEF Inv, Data, Tables
<1>8. Imported'
  BY <1>1, <1>2 DEF Inv, Data, Imported
<1>9. NewWhole'
  <2>1. \A m : Copied(m) => Copied(m)'
    BY <1>1 DEF Copied
  <2>2. \A m \in rows' : m.orig < 2 * steps' /\ m.t < 2 * steps' /\ m.s \in IdsIn(sessions')
    BY <1>1, <1>2, <1>3, <1>4 DEF Inv, Data, NewWhole, Dated
  <2>3. \A x \in sessions' : (x.fork = NotFork <=> x.id # TheFork) /\ x.id \notin deleted'
    BY <1>1 DEF Inv, Data, NewWhole
  <2> QED
    BY <1>1, <2>1, <2>2, <2>3 DEF Inv, Data, NewWhole, Dated
<1>10. LayoutOK' /\ Detected'
  BY <1>1, <1>2, LayoutStays
<1> QED
  BY <1>5, <1>6, <1>7, <1>8, <1>9, <1>10 DEF Inv, Data

-----------------------------------------------------------------------------
(* The theorem                                                             *)

LEMMA InvHolds == Named => (Spec => []Inv)
<1> SUFFICES ASSUME Named PROVE Spec => []Inv
  OBVIOUS
<1>1. Init => Inv
  BY InitInv
<1>2. Inv /\ [Next]_vars => Inv'
  <2> SUFFICES ASSUME Inv, [Next]_vars PROVE Inv'
    OBVIOUS
  <2>1. CASE DetectTables \/ DetectPhase \/ DetectCount \/ DetectFails \/ Age \/ UNCHANGED vars
    BY <2>1, DetectionKeeps
  <2>2. CASE Create \/ Upgrade \/ ImportStarts \/ ImportCompletes
    BY <2>2, CreateKeeps, UpgradeKeeps, ImportStartsKeeps, ImportCompletesKeeps
  <2>3. ASSUME NEW s \in SessionIds, NEW turn \in OldTurns, OldTurn(s, turn[1], turn[2]) PROVE Inv'
    <3>1. turn[1] \in {0, 2} /\ turn[2] \in SUBSET {"completed", "error"}
      BY DEF OldTurns
    <3> QED
      BY <2>3, <3>1, OldTurnKeeps
  <2>4. ASSUME NEW s \in SessionIds, ImportSession(s) \/ Fork(s) PROVE Inv'
    BY <2>4, ImportSessionKeeps, ForkKeeps
  <2>5. ASSUME NEW s \in SessionIds \union {TheFork}, Prompt(s) \/ Compact(s) \/ Delete(s) PROVE Inv'
    BY <2>5, PromptKeeps, CompactKeeps, DeleteKeeps DEF AllSessions
  <2>6. ASSUME NEW m \in rows, NEW o \in Outcomes, Settle(m, o[1], o[2], o[3]) PROVE Inv'
    BY <2>6, SettleKeeps
  <2> QED
    BY <2>1, <2>2, <2>3, <2>4, <2>5, <2>6 DEF Next
<1> QED
  BY <1>1, <1>2, PTL DEF Spec

LEMMA InvShowsAll == ASSUME Named, Inv PROVE HistoryIsWhole
<1>1. ASSUME NEW m \in rows, Copied(m) PROVE ~Owned(m)
  <2>1. PICK x \in sessions : x.id = m.s
    BY DEF Inv, Data, NewWhole, Dated, IdsIn
  <2>2. x.fork # NotFork /\ m.t < x.created
    BY <1>1, <2>1 DEF Copied
  <2>3. m.t \in Nat /\ x.created \in Nat
    BY RowsTyped DEF Inv, Data, DataOK, AnySession
  <2> QED
    BY <2>1, <2>2, <2>3 DEF Owned
<1>2. ASSUME NEW m \in Relation, NEW n \in Relation, m.orig = n.orig PROVE m = n
  <2>1. CASE IsV2
    <3>1. m \in rows /\ n \in rows /\ m.type # "note" /\ n.type # "note" /\ Owned(m) /\ Owned(n)
      BY <2>1 DEF Relation, V2Messages, Message
    <3> QED
      BY <1>1, <1>2, <3>1 DEF Inv, Data, NewWhole
  <2>2. CASE ~IsV2
    BY <1>2, <2>2 DEF Relation, Inv, Data, OldWhole
  <2> QED
    BY <2>1, <2>2
<1>3. ASSUME Info.layout = 2, NEW m \in oldRows, m.s \notin deleted PROVE m \in Relation
  <2>1. schema.version = 2
    BY <1>3 DEF Info
  <2>2. m.s \in IdsIn(sessions) /\ m.s \in SessionIds
    BY <1>3, <2>1 DEF Inv, Data, Detected, OldWhole, Dated, IdsIn
  <2>3. m \in rows /\ Message(m)
    BY <2>2 DEF Inv, Data, Imported, OldWhole, Message
  <2>4. Owned(m)
    BY <2>2 DEF Inv, Data, NewWhole, Owned, Named
  <2> QED
    BY <2>1, <2>3, <2>4 DEF Relation, IsV2, V2Messages
<1>4. schema.asked = "completed" => Info.layout = 2
  BY DEF Inv, Detected, Info
<1> QED
  BY <1>2, <1>3, <1>4 DEF HistoryIsWhole

(* Nothing is shown twice, by a fork or by the import, and nothing of 1.x  *)
(* is missing once the reader shows the tables of 2.x: for any sessions,   *)
(* any number of steps, and any order of the three statements of a         *)
(* detection among them (DetectSchema, v2Owned).                           *)
THEOREM HistoryStaysWhole == ASSUME Named PROVE Spec => []HistoryIsWhole
<1>1. Inv => HistoryIsWhole
  BY InvShowsAll
<1> QED
  BY <1>1, InvHolds, PTL

-----------------------------------------------------------------------------
(* Pricing: what is assumed of the catalogs and the edits                  *)

\* A catalog that changes gets a new id.
IdsTellCatalogs ==
  \A s \in Sources : \A r1, r2 \in Releases :
    /\ Catalogs[r1][s].id # NoId
    /\ Catalogs[r1][s].id = Catalogs[r2][s].id =>
         Catalogs[r1][s].models = Catalogs[r2][s].models /\ Catalogs[r1][s].currency = Catalogs[r2][s].currency

\* A rate is a record whose prices are numbers.
Priceable(rate) ==
  /\ {"in", "cached", "out", "write", "hour", "factor", "from", "approximate", "long", "tiers", "longFast"}
       \subseteq DOMAIN rate
  /\ rate = [f \in DOMAIN rate |-> rate[f]]
  /\ rate.in \in Nat /\ rate.cached \in Nat /\ rate.out \in Nat /\ rate.factor \in Nat \ {0}

Configured ==
  /\ Served \in [Handlers -> Processes]
  /\ \A request \in Requests : request.source \in Sources
  /\ \A e \in Edits :
       /\ e.key = <<e.key[1], e.key[2], e.key[3]>> /\ e.key[1] \in Sources
       /\ e.to # NoTarget /\ e.to.source \in Sources
  /\ \A r \in Releases, s \in Sources : \A m \in DOMAIN Catalogs[r][s].models : Priceable(Catalogs[r][s].models[m])

\* No alias points at a dated rate of another source.
LoansUndated ==
  \A e \in Edits, r \in Releases :
    LET models == Catalogs[r][e.to.source].models
    IN  e.to.source # e.key[1] /\ e.to.model \in DOMAIN models =>
          \A day, other \in Nat :
            RateAt(e.to.source, models[e.to.model], day) = RateAt(e.to.source, models[e.to.model], other)

-----------------------------------------------------------------------------
(* What a cost depends on                                                  *)

Worlds == [release : Releases, since : Nat]
World(d) == [release |-> d.release, since |-> d.since]

\* Aliases of a source that were saved.
Saved(aliases, s) == \A k \in DOMAIN aliases : k[1] = s /\ \E e \in Edits : e.key = k /\ e.to = aliases[k]

LEMMA BaseIs ==
  ASSUME NEW d, NEW s
  PROVE  \/ Base(d, s) = [id |-> NoId, currency |-> "USD", retrieved |-> Catalogs[d.release][s].retrieved, models |-> Empty]
         \/ Base(d, s) = Catalogs[d.release][s]
BY DEF Base

LEMMA WorldIs ==
  ASSUME NEW d, NEW s PROVE Base(World(d), s) = Base(d, s)
<1>1. World(d).release = d.release /\ World(d).since = d.since
  BY DEF World
<1> QED
  BY <1>1 DEF Base

LEMMA BaseTells ==
  ASSUME IdsTellCatalogs, NEW v \in Worlds, NEW w \in Worlds, NEW s \in Sources, Base(v, s).id = Base(w, s).id
  PROVE  Base(v, s).models = Base(w, s).models /\ Base(v, s).currency = Base(w, s).currency
<1>1. v.release \in Releases /\ w.release \in Releases
  BY DEF Worlds
<1> DEFINE a == Catalogs[v.release][s]
           b == Catalogs[w.release][s]
<1>2. a.id # NoId /\ b.id # NoId /\ (a.id = b.id => a.models = b.models /\ a.currency = b.currency)
  BY <1>1 DEF IdsTellCatalogs
<1>3. /\ (Base(v, s).id = NoId /\ Base(v, s).models = Empty /\ Base(v, s).currency = "USD") \/ Base(v, s) = a
      /\ (Base(w, s).id = NoId /\ Base(w, s).models = Empty /\ Base(w, s).currency = "USD") \/ Base(w, s) = b
  BY BaseIs
<1> HIDE DEF a, b
<1> QED
  BY <1>2, <1>3

\* What a source offers, whatever its prices are, and the sources that lend.
Targets(s, models) == {m \in DOMAIN models : ~IsFamilyKey(s, models, m)}
Lenders(w) == {s \in Sources : Targets(s, Base(w, s).models) # {}}

LEMMA OfferedIs ==
  ASSUME NEW w, NEW s, NEW day
  PROVE  LET models == Base(w, s).models
         IN  /\ DOMAIN Offered(w, s, day) = Targets(s, models)
             /\ \A m \in Targets(s, models) : Offered(w, s, day)[m] = Summary(s, RateAt(s, models[m], day))
             /\ Offered(w, s, day) # Empty <=> Targets(s, models) # {}
<1> DEFINE models == Base(w, s).models
           f(m) == Summary(s, RateAt(s, models[m], day))
           S == Targets(s, models)
<1>1. Offered(w, s, day) = [m \in S |-> f(m)]
  BY DEF Offered, Targets
<1> HIDE DEF S, f
<1>2. [m \in S |-> f(m)] # << >> <=> S # {}
  OBVIOUS
<1>3. DOMAIN Offered(w, s, day) = S /\ \A m \in S : Offered(w, s, day)[m] = f(m)
  BY <1>1
<1>4. Offered(w, s, day) # Empty <=> S # {}
  BY <1>1, <1>2 DEF Empty
<1> QED
  BY <1>3, <1>4 DEF S, f

LEMMA IndexIs ==
  ASSUME NEW w, NEW day
  PROVE  LET index == LoadedIndex(w, day)
         IN  /\ index.known
             /\ index.meta = {<<s, Base(w, s).id, Base(w, s).currency>> : s \in Lenders(w)}
             /\ DOMAIN index.rates = Lenders(w)
             /\ \A s \in Lenders(w) : index.rates[s] = Offered(w, s, day)
<1>1. {s \in Sources : Offered(w, s, day) # Empty} = Lenders(w)
  BY OfferedIs DEF Lenders
<1> QED
  BY <1>1 DEF LoadedIndex

LEMMA MetaTells ==
  ASSUME IdsTellCatalogs, NEW v \in Worlds, NEW w \in Worlds, NEW day, NEW other,
         LoadedIndex(v, day).meta = LoadedIndex(w, other).meta
  PROVE  /\ Lenders(v) = Lenders(w)
         /\ \A s \in Lenders(v) : Base(v, s).models = Base(w, s).models /\ Base(v, s).currency = Base(w, s).currency
<1>1. {<<s, Base(v, s).id, Base(v, s).currency>> : s \in Lenders(v)}
      = {<<s, Base(w, s).id, Base(w, s).currency>> : s \in Lenders(w)}
  BY IndexIs
<1>2. ASSUME NEW s \in Lenders(v) PROVE s \in Lenders(w) /\ Base(v, s).id = Base(w, s).id
  <2>1. <<s, Base(v, s).id, Base(v, s).currency>> \in {<<t, Base(w, t).id, Base(w, t).currency>> : t \in Lenders(w)}
    BY <1>1
  <2>2. PICK t \in Lenders(w) : <<s, Base(v, s).id, Base(v, s).currency>> = <<t, Base(w, t).id, Base(w, t).currency>>
    BY <2>1
  <2> QED
    BY <2>2
<1>3. ASSUME NEW s \in Lenders(w) PROVE s \in Lenders(v)
  <2>1. <<s, Base(w, s).id, Base(w, s).currency>> \in {<<t, Base(v, t).id, Base(v, t).currency>> : t \in Lenders(v)}
    BY <1>1
  <2>2. PICK t \in Lenders(v) : <<s, Base(w, s).id, Base(w, s).currency>> = <<t, Base(v, t).id, Base(v, t).currency>>
    BY <2>1
  <2> QED
    BY <2>2
<1>4. \A s \in Lenders(v) : s \in Sources
  BY DEF Lenders
<1> QED
  BY <1>2, <1>3, <1>4, BaseTells

\* A rate that is lent is the same on every day.
LEMMA LentIs ==
  ASSUME LoansUndated, NEW w \in Worlds, NEW e \in Edits, e.to.source # e.key[1],
         NEW day \in Nat, NEW other \in Nat, e.to.model \in DOMAIN Base(w, e.to.source).models
  PROVE  RateAt(e.to.source, Base(w, e.to.source).models[e.to.model], day)
         = RateAt(e.to.source, Base(w, e.to.source).models[e.to.model], other)
<1>1. w.release \in Releases
  BY DEF Worlds
<1>2. Base(w, e.to.source).models # Empty
  BY DEF Empty
<1>3. Base(w, e.to.source).models = Catalogs[w.release][e.to.source].models
  BY <1>2, BaseIs
<1> QED
  BY <1>1, <1>3 DEF LoansUndated

LEMMA MatchTells ==
  ASSUME IdsTellCatalogs, LoansUndated, NEW v \in Worlds, NEW w \in Worlds, NEW s \in Sources,
         Base(v, s).models = Base(w, s).models, Base(v, s).currency = Base(w, s).currency,
         NEW aliases, Saved(aliases, s), NEW key \in DOMAIN aliases, NEW d1 \in Nat, NEW d2 \in Nat, NEW day,
         HasForeign(aliases) => LoadedIndex(v, d1).meta = LoadedIndex(w, d2).meta
  PROVE  AliasMatch(v, s, aliases[key], LoadedIndex(v, d1), day) = AliasMatch(w, s, aliases[key], LoadedIndex(w, d2), day)
<1> DEFINE to == aliases[key]
           i == LoadedIndex(v, d1)
           j == LoadedIndex(w, d2)
<1>1. key[1] = s /\ \E e \in Edits : e.key = key /\ e.to = to
  BY DEF Saved
<1>2. CASE to.source = s
  BY <1>2 DEF AliasMatch
<1>3. CASE to.source # s
  <2>1. HasForeign(aliases)
    BY <1>1, <1>3 DEF HasForeign
  <2>2. i.meta = j.meta /\ Lenders(v) = Lenders(w)
        /\ \A t \in Lenders(v) : Base(v, t).models = Base(w, t).models
    BY <2>1, MetaTells
  <2>3. DOMAIN i.rates = Lenders(v) /\ DOMAIN j.rates = Lenders(v)
    BY <2>2, IndexIs
  <2>4. ASSUME to.source \in Lenders(v)
        PROVE  /\ DOMAIN i.rates[to.source] = DOMAIN j.rates[to.source]
               /\ to.model \in DOMAIN i.rates[to.source] =>
                    i.rates[to.source][to.model] = j.rates[to.source][to.model]
    <3>1. i.rates[to.source] = Offered(v, to.source, d1) /\ j.rates[to.source] = Offered(w, to.source, d2)
      BY <2>2, <2>4, IndexIs
    <3>2. Base(v, to.source).models = Base(w, to.source).models
      BY <2>2, <2>4
    <3> DEFINE models == Base(v, to.source).models
               targets == Targets(to.source, models)
    <3>3. /\ DOMAIN Offered(v, to.source, d1) = targets
          /\ \A m \in targets : Offered(v, to.source, d1)[m] = Summary(to.source, RateAt(to.source, models[m], d1))
      BY OfferedIs
    <3>4. /\ DOMAIN Offered(w, to.source, d2) = targets
          /\ \A m \in targets : Offered(w, to.source, d2)[m] = Summary(to.source, RateAt(to.source, models[m], d2))
      BY <3>2, OfferedIs
    <3>5. ASSUME to.model \in targets
          PROVE  RateAt(to.source, models[to.model], d1) = RateAt(to.source, models[to.model], d2)
      BY <1>1, <1>3, <3>5, LentIs DEF Targets
    <3> HIDE DEF to, i, j, models, targets
    <3>6. DOMAIN i.rates[to.source] = targets /\ DOMAIN j.rates[to.source] = targets
      BY <3>1, <3>3, <3>4
    <3>7. ASSUME to.model \in targets
          PROVE  i.rates[to.source][to.model] = j.rates[to.source][to.model]
      BY <3>1, <3>3, <3>4, <3>5, <3>7
    <3> QED
      BY <3>6, <3>7
  <2> HIDE DEF to, i, j
  <2>5. ASSUME to.source \in Lenders(v), to.model \in DOMAIN i.rates[to.source]
        PROVE  AliasMatch(v, s, to, i, day) = AliasMatch(w, s, to, j, day)
    BY <1>3, <2>2, <2>3, <2>4, <2>5 DEF AliasMatch
  <2>6. ASSUME ~(to.source \in Lenders(v) /\ to.model \in DOMAIN i.rates[to.source])
        PROVE  AliasMatch(v, s, to, i, day) = AliasMatch(w, s, to, j, day)
    BY <1>3, <2>3, <2>4, <2>6 DEF AliasMatch
  <2> QED
    BY <2>5, <2>6 DEF to, i, j
<1> QED
  BY <1>2, <1>3

LEMMA ResolveTells ==
  ASSUME NEW v, NEW w, NEW s, NEW aliases, NEW i, NEW j, NEW provider, NEW m, NEW day,
         Base(v, s).models = Base(w, s).models,
         \A key \in DOMAIN aliases : AliasMatch(v, s, aliases[key], i, day) = AliasMatch(w, s, aliases[key], j, day)
  PROVE  Resolve(v, s, aliases, i, provider, m, day) = Resolve(w, s, aliases, j, provider, m, day)
<1> DEFINE key == <<s, provider, m>>
           a == IF key \in DOMAIN aliases THEN AliasMatch(v, s, aliases[key], i, day) ELSE Unmatched("none")
           b == IF key \in DOMAIN aliases THEN AliasMatch(w, s, aliases[key], j, day) ELSE Unmatched("none")
<1>1. a = b
  <2> HIDE DEF key
  <2> QED
    OBVIOUS
<1> HIDE DEF key, a, b
<1> QED
  BY <1>1, Zenon DEF Resolve, a, b, key

LEMMA CostTells ==
  ASSUME NEW v, NEW w, NEW request, NEW aliases, NEW i, NEW j,
         Base(v, request.source).models = Base(w, request.source).models,
         \A key \in DOMAIN aliases :
           AliasMatch(v, request.source, aliases[key], i, request.at)
           = AliasMatch(w, request.source, aliases[key], j, request.at)
  PROVE  Cost(v, aliases, i, request) = Cost(w, aliases, j, request)
<1>1. \A provider : Resolve(v, request.source, aliases, i, provider, request.model, request.at)
                    = Resolve(w, request.source, aliases, j, provider, request.model, request.at)
  BY ResolveTells
<1> DEFINE provider == IF request.source = "claude" THEN "anthropic" ELSE request.provider
           a == Resolve(v, request.source, aliases, i, provider, request.model, request.at)
           b == Resolve(w, request.source, aliases, j, provider, request.model, request.at)
           cost(match) == IF ~Usable(match.rate) THEN Missing
                          ELSE CASE request.source = "claude" -> ClaudeCost(match, request)
                                 [] request.source = "codex" -> CodexCost(match, request)
                                 [] request.source = "kimi" -> KimiCost(match, request)
                                 [] OTHER -> QwenCost(match, request)
<1>2. a = b
  BY <1>1
<1>3. Cost(v, aliases, i, request) = cost(a) /\ Cost(w, aliases, j, request) = cost(b)
  BY DEF Cost
<1> HIDE DEF a, b, cost
<1> QED
  BY <1>2, <1>3

\* With nothing borrowed the index is not looked at.
LEMMA NothingBorrowed ==
  ASSUME NEW w, NEW s, NEW aliases, NEW i, NEW j, Saved(aliases, s), ~HasForeign(aliases)
  PROVE  /\ Identity(w, s, aliases, i) = Identity(w, s, aliases, j)
         /\ \A request : request.source = s => Cost(w, aliases, i, request) = Cost(w, aliases, j, request)
<1>1. Identity(w, s, aliases, i) = Identity(w, s, aliases, j)
  BY DEF Identity, CapturedRevision
<1>2. \A key \in DOMAIN aliases : aliases[key].source = s
  BY DEF Saved, HasForeign
<1>3. ASSUME NEW request, request.source = s PROVE Cost(w, aliases, i, request) = Cost(w, aliases, j, request)
  <2>1. \A key \in DOMAIN aliases : AliasMatch(w, s, aliases[key], i, request.at)
                                    = AliasMatch(w, s, aliases[key], j, request.at)
    BY <1>2 DEF AliasMatch
  <2> QED
    BY <1>3, <2>1, CostTells
<1> QED
  BY <1>1, <1>3

LEMMA SameOnAnyDay ==
  ASSUME NEW w, NEW s, NEW aliases, NEW day, NEW other
  PROVE  Identity(w, s, aliases, LoadedIndex(w, day)) = Identity(w, s, aliases, LoadedIndex(w, other))
<1>1. LoadedIndex(w, day).meta = LoadedIndex(w, other).meta
  BY IndexIs
<1> QED
  BY <1>1 DEF Identity, CapturedRevision

LEMMA IdentityTells ==
  ASSUME NEW v, NEW w, NEW s, NEW a, NEW b, NEW i, NEW j, Identity(v, s, a, i) = Identity(w, s, b, j)
  PROVE  Base(v, s).id = Base(w, s).id /\ a = b /\ (HasForeign(a) => i.meta = j.meta)
<1>1. CASE a = Empty /\ b = Empty
  <2>1. DOMAIN a = {}
    BY <1>1 DEF Empty
  <2>2. ~HasForeign(a)
    BY <2>1 DEF HasForeign
  <2> QED
    BY <1>1, <2>2 DEF Identity
<1>2. CASE a # Empty /\ b # Empty
  <2>1. <<Base(v, s).id, CapturedRevision(a, i)>> = <<Base(w, s).id, CapturedRevision(b, j)>>
    BY <1>2 DEF Identity
  <2>2. Base(v, s).id = Base(w, s).id /\ CapturedRevision(a, i) = CapturedRevision(b, j)
    BY <2>1
  <2>3. a = b /\ (IF HasForeign(a) THEN i.meta ELSE {}) = (IF HasForeign(b) THEN j.meta ELSE {})
    BY <2>2 DEF CapturedRevision
  <2> QED
    BY <2>2, <2>3
<1>3. CASE a = Empty /\ b # Empty
  <2> DEFINE x == Base(v, s).id
             y == Base(w, s).id
             z == CapturedRevision(b, j)
  <2>1. <<x>> = <<y, z>>
    BY <1>3 DEF Identity
  <2> HIDE DEF x, y, z
  <2> QED
    BY <2>1
<1>4. CASE a # Empty /\ b = Empty
  <2> DEFINE x == Base(v, s).id
             y == Base(w, s).id
             z == CapturedRevision(a, i)
  <2>1. <<x, z>> = <<y>>
    BY <1>4 DEF Identity
  <2> HIDE DEF x, y, z
  <2> QED
    BY <2>1
<1> QED
  BY <1>1, <1>2, <1>3, <1>4

\* One identity stands for one cost, in whatever release and on whatever day.
LEMMA OneCost ==
  ASSUME IdsTellCatalogs, LoansUndated, NEW v \in Worlds, NEW w \in Worlds, NEW request, request.source \in Sources,
         NEW a, NEW b, Saved(a, request.source), Saved(b, request.source),
         NEW d1 \in Nat, NEW d2 \in Nat, NEW d3 \in Nat, NEW d4 \in Nat,
         Identity(v, request.source, a, LoadedIndex(v, d1)) = Identity(w, request.source, b, LoadedIndex(w, d2))
  PROVE  Cost(v, a, LoadedIndex(v, d3), request) = Cost(w, b, LoadedIndex(w, d4), request)
<1>1. Identity(v, request.source, a, LoadedIndex(v, d3)) = Identity(w, request.source, b, LoadedIndex(w, d4))
  BY SameOnAnyDay
<1>2. /\ Base(v, request.source).id = Base(w, request.source).id /\ a = b
      /\ HasForeign(a) => LoadedIndex(v, d3).meta = LoadedIndex(w, d4).meta
  BY <1>1, IdentityTells
<1>3. Base(v, request.source).models = Base(w, request.source).models
      /\ Base(v, request.source).currency = Base(w, request.source).currency
  BY <1>2, BaseTells
<1>4. \A key \in DOMAIN a :
        AliasMatch(v, request.source, a[key], LoadedIndex(v, d3), request.at)
        = AliasMatch(w, request.source, a[key], LoadedIndex(w, d4), request.at)
  BY <1>2, <1>3, MatchTells
<1> QED
  BY <1>2, <1>3, <1>4, CostTells

-----------------------------------------------------------------------------
(* Pricing: the inductive invariant                                        *)

Phases == {"idle", "accepted", "committed", "stored"}

DashShape(d) == /\ d = [up |-> d.up, release |-> d.release, since |-> d.since, snap |-> d.snap, index |-> d.index]
                /\ d.up \in BOOLEAN
EditShape(x) == /\ x = [pc |-> x.pc, key |-> x.key, to |-> x.to, next |-> x.next, last |-> x.last]
                /\ x.pc \in Phases /\ x.last \in BOOLEAN

Shapes ==
  /\ now \in Nat
  /\ dash = [p \in Processes |-> dash[p]] /\ \A p \in Processes : DashShape(dash[p])
  /\ edit = [h \in Handlers |-> edit[h]] /\ \A h \in Handlers : EditShape(edit[h])
  /\ answered = [p \in Processes |-> answered[p]]

\* Every alias there is was one the user may set.
FromEdits(aliases) == \A k \in DOMAIN aliases : \E e \in Edits : e.key = k /\ e.to = aliases[k]
AllFromEdits ==
  /\ FromEdits(table)
  /\ \A p \in Processes : FromEdits(dash[p].snap)
  /\ \A h \in Handlers : /\ FromEdits(edit[h].next)
                         /\ edit[h].pc # "idle" /\ edit[h].to # NoTarget =>
                              \E e \in Edits : e.key = edit[h].key /\ e.to = edit[h].to

\* A dashboard that is up has the index of its release.
Indexes ==
  \A p \in Processes : dash[p].up =>
    /\ World(dash[p]) \in Worlds
    /\ dash[p].index.known => \E day \in Nat : dash[p].index = LoadedIndex(World(dash[p]), day)

\* A normalization goes by the identity of the aliases it has captured.
PassIs(x) ==
  /\ x.dash \in Processes /\ dash[x.dash].up /\ x.source \in Sources /\ Saved(x.aliases, x.source)
  /\ \E day \in Nat :
       x.identity = Identity(World(dash[x.dash]), x.source, x.aliases, LoadedIndex(World(dash[x.dash]), day))
Passes == \A x \in pass : PassIs(x)

\* Every price was computed in some release, on some day, from the aliases of its identity.
CostIs(a) ==
  /\ a.source \in Sources /\ a.request.source = a.source
  /\ \E w \in Worlds, day \in Nat, other \in Nat : \E aliases :
       /\ Saved(aliases, a.source)
       /\ a.identity = Identity(w, a.source, aliases, LoadedIndex(w, day))
       /\ a.cost = Cost(w, aliases, LoadedIndex(w, other), a.request)
Costs == \A a \in priced : CostIs(a)

\* A process that is down does nothing and has promised nothing.
Quiet ==
  \A p \in Processes : ~dash[p].up =>
    DOMAIN answered[p] = {} /\ \A h \in Handlers : Served[h] = p => edit[h].pc = "idle"

\* A snapshot is swapped before the next change of the process is committed.
OneSwap ==
  \A g, h \in Handlers :
    Served[g] = Served[h] /\ edit[g].pc = "committed" /\ edit[h].pc = "committed" => g = h

Has(aliases, key, to) ==
  IF to = NoTarget THEN key \notin DOMAIN aliases ELSE key \in DOMAIN aliases /\ aliases[key] = to

\* The snapshot of a process, the one that it is about to take included.
Holds(p, key, to) ==
  /\ Has(dash[p].snap, key, to)
  /\ \A g \in Handlers : Served[g] = p /\ edit[g].pc = "committed" => Has(edit[g].next, key, to)

\* A target that the release of a dashboard offers for the key.
Fit(w, key, to) ==
  /\ key = <<key[1], key[2], key[3]>>
  /\ to # NoTarget =>
       /\ key[1] \in Sources /\ to.source \in Sources
       /\ key[1] = "claude" => key[2] = "anthropic"
       /\ to.model \in Targets(to.source, Base(w, to.source).models)
       /\ Usable(Base(w, to.source).models[to.model])
       /\ Base(w, key[1]).currency = Base(w, to.source).currency

\* What was answered is in the table and in every snapshot the process will have.
AnswersHold ==
  \A p \in Processes : \A key \in DOMAIN answered[p] :
    LET to == answered[p][key]
    IN  Has(table, key, to) /\ Holds(p, key, to) /\ Fit(World(dash[p]), key, to)

\* The same of a change under way, from its commit on and unless it was overtaken.
Pending ==
  \A h \in Handlers : edit[h].pc # "idle" =>
    /\ Fit(World(dash[Served[h]]), edit[h].key, edit[h].to)
    /\ edit[h].last /\ edit[h].pc \in {"committed", "stored"} => Has(table, edit[h].key, edit[h].to)
    /\ edit[h].last /\ edit[h].pc = "committed" => Has(edit[h].next, edit[h].key, edit[h].to)
    /\ edit[h].last /\ edit[h].pc = "stored" => Holds(Served[h], edit[h].key, edit[h].to)

AliasesInv == Shapes /\ AllFromEdits /\ Indexes /\ Passes /\ Costs /\ Quiet /\ OneSwap /\ AnswersHold /\ Pending

-----------------------------------------------------------------------------
(* What the steps change                                                   *)

LEMMA WorldOfWorld == ASSUME NEW d, NEW s, NEW day
  PROVE  /\ LoadedIndex(World(d), day) = LoadedIndex(d, day)
         /\ Offered(World(d), s, day) = Offered(d, s, day)
<1>1. \A t : Base(World(d), t) = Base(d, t)
  BY WorldIs
<1>2. \A t : Offered(World(d), t, day) = Offered(d, t, day)
  BY <1>1 DEF Offered
<1> DEFINE full(w) == {t \in Sources : Offered(w, t, day) # Empty}
           rates(w) == [t \in full(w) |-> Offered(w, t, day)]
           meta(w) == {<<t, Base(w, t).id, Base(w, t).currency>> : t \in full(w)}
<1>3. full(World(d)) = full(d)
  BY <1>2
<1>4. rates(World(d)) = rates(d)
  BY <1>2, <1>3
<1>5. meta(World(d)) = meta(d)
  BY <1>1, <1>3
<1>6. LoadedIndex(World(d), day) = [known |-> TRUE, rates |-> rates(World(d)), meta |-> meta(World(d))]
      /\ LoadedIndex(d, day) = [known |-> TRUE, rates |-> rates(d), meta |-> meta(d)]
  BY DEF LoadedIndex
<1> HIDE DEF rates, meta
<1> QED
  BY <1>2, <1>4, <1>5, <1>6

SetsSnap(p, snap) == dash' = [dash EXCEPT ![p].snap = snap]
OnlySnap(p, snap) ==
  /\ dash' = [q \in Processes |-> dash'[q]]
  /\ \A q \in Processes :
       /\ DashShape(dash'[q]) /\ World(dash'[q]) = World(dash[q]) /\ dash'[q].up = dash[q].up
       /\ dash'[q].index = dash[q].index /\ dash'[q].snap = IF q = p THEN snap ELSE dash[q].snap

LEMMA SnapSet ==
  ASSUME Shapes, NEW p \in Processes, NEW snap, SetsSnap(p, snap) PROVE OnlySnap(p, snap)
<1>1. dash' = [dash EXCEPT ![p] = [dash[p] EXCEPT !.snap = snap]]
  BY DEF SetsSnap
<1>2. dash = [q \in Processes |-> dash[q]] /\ \A q \in Processes : DashShape(dash[q])
  BY DEF Shapes
<1>3. dash[p] = [up |-> dash[p].up, release |-> dash[p].release, since |-> dash[p].since, snap |-> dash[p].snap,
                 index |-> dash[p].index] /\ dash[p].up \in BOOLEAN
  BY <1>2 DEF DashShape
<1>4. dash'[p] = [dash[p] EXCEPT !.snap = snap]
  BY <1>1, <1>2
<1>5. dash'[p] = [up |-> dash[p].up, release |-> dash[p].release, since |-> dash[p].since, snap |-> snap,
                  index |-> dash[p].index]
  BY <1>3, <1>4
<1>6. \A q \in Processes \ {p} : dash'[q] = dash[q]
  BY <1>1, <1>2
<1>7. dash' = [q \in Processes |-> dash'[q]]
  BY <1>1, <1>2
<1>8. /\ DashShape(dash'[p]) /\ World(dash'[p]) = World(dash[p]) /\ dash'[p].up = dash[p].up
      /\ dash'[p].index = dash[p].index /\ dash'[p].snap = snap
  BY <1>3, <1>5 DEF DashShape, World
<1> QED
  BY <1>2, <1>6, <1>7, <1>8 DEF OnlySnap

SetsIndex(p, index) == dash' = [dash EXCEPT ![p].index = index]
OnlyIndex(p, index) ==
  /\ dash' = [q \in Processes |-> dash'[q]]
  /\ \A q \in Processes :
       /\ DashShape(dash'[q]) /\ World(dash'[q]) = World(dash[q]) /\ dash'[q].up = dash[q].up
       /\ dash'[q].snap = dash[q].snap /\ dash'[q].index = IF q = p THEN index ELSE dash[q].index

LEMMA IndexSet ==
  ASSUME Shapes, NEW p \in Processes, NEW index, SetsIndex(p, index) PROVE OnlyIndex(p, index)
<1>1. dash' = [dash EXCEPT ![p] = [dash[p] EXCEPT !.index = index]]
  BY DEF SetsIndex
<1>2. dash = [q \in Processes |-> dash[q]] /\ \A q \in Processes : DashShape(dash[q])
  BY DEF Shapes
<1>3. dash[p] = [up |-> dash[p].up, release |-> dash[p].release, since |-> dash[p].since, snap |-> dash[p].snap,
                 index |-> dash[p].index] /\ dash[p].up \in BOOLEAN
  BY <1>2 DEF DashShape
<1>4. dash'[p] = [dash[p] EXCEPT !.index = index]
  BY <1>1, <1>2
<1>5. dash'[p] = [up |-> dash[p].up, release |-> dash[p].release, since |-> dash[p].since, snap |-> dash[p].snap,
                  index |-> index]
  BY <1>3, <1>4
<1>6. \A q \in Processes \ {p} : dash'[q] = dash[q]
  BY <1>1, <1>2
<1>7. dash' = [q \in Processes |-> dash'[q]]
  BY <1>1, <1>2
<1>8. /\ DashShape(dash'[p]) /\ World(dash'[p]) = World(dash[p]) /\ dash'[p].up = dash[p].up
      /\ dash'[p].snap = dash[p].snap /\ dash'[p].index = index
  BY <1>3, <1>5 DEF DashShape, World
<1> QED
  BY <1>2, <1>6, <1>7, <1>8 DEF OnlyIndex

LEMMA PcSet ==
  ASSUME Shapes, NEW h \in Handlers, NEW pc \in Phases, edit' = [edit EXCEPT ![h].pc = pc]
  PROVE  /\ edit' = [g \in Handlers |-> edit'[g]]
         /\ \A g \in Handlers :
              /\ EditShape(edit'[g]) /\ edit'[g].pc = IF g = h THEN pc ELSE edit[g].pc
              /\ edit'[g].key = edit[g].key /\ edit'[g].to = edit[g].to
              /\ edit'[g].next = edit[g].next /\ edit'[g].last = edit[g].last
<1>1. edit' = [edit EXCEPT ![h] = [edit[h] EXCEPT !.pc = pc]]
  OBVIOUS
<1>2. edit = [g \in Handlers |-> edit[g]] /\ \A g \in Handlers : EditShape(edit[g])
  BY DEF Shapes
<1>3. edit[h] = [pc |-> edit[h].pc, key |-> edit[h].key, to |-> edit[h].to, next |-> edit[h].next,
                 last |-> edit[h].last] /\ edit[h].last \in BOOLEAN
  BY <1>2 DEF EditShape
<1>4. edit'[h] = [edit[h] EXCEPT !.pc = pc]
  BY <1>1, <1>2
<1>5. edit'[h] = [pc |-> pc, key |-> edit[h].key, to |-> edit[h].to, next |-> edit[h].next, last |-> edit[h].last]
  BY <1>3, <1>4
<1>6. \A g \in Handlers \ {h} : edit'[g] = edit[g]
  BY <1>1, <1>2
<1>7. edit' = [g \in Handlers |-> edit'[g]]
  BY <1>1, <1>2
<1>8. /\ EditShape(edit'[h]) /\ edit'[h].pc = pc
      /\ edit'[h].key = edit[h].key /\ edit'[h].to = edit[h].to
      /\ edit'[h].next = edit[h].next /\ edit'[h].last = edit[h].last
  BY <1>3, <1>5 DEF EditShape
<1> QED
  BY <1>2, <1>6, <1>7, <1>8

LEMMA MatchOfWorld ==
  ASSUME NEW d, NEW s, NEW to, NEW i, NEW day
  PROVE  AliasMatch(World(d), s, to, i, day) = AliasMatch(d, s, to, i, day)
<1>1. \A t : Base(World(d), t) = Base(d, t)
  BY WorldIs
<1> DEFINE w == World(d)
<1> HIDE DEF w
<1> QED
  BY <1>1 DEF AliasMatch, w

LEMMA WorldTells ==
  ASSUME NEW d, NEW s, NEW aliases, NEW i, NEW request
  PROVE  /\ Identity(World(d), s, aliases, i) = Identity(d, s, aliases, i)
         /\ Cost(World(d), aliases, i, request) = Cost(d, aliases, i, request)
<1>1. \A t : Base(World(d), t) = Base(d, t)
  BY WorldIs
<1>2. Identity(World(d), s, aliases, i) = Identity(d, s, aliases, i)
  BY <1>1 DEF Identity
<1>3. \A key \in DOMAIN aliases : AliasMatch(World(d), request.source, aliases[key], i, request.at)
                                  = AliasMatch(d, request.source, aliases[key], i, request.at)
  BY MatchOfWorld
<1>4. Base(World(d), request.source).models = Base(d, request.source).models
  BY <1>1
<1> QED
  BY <1>2, <1>3, <1>4, CostTells

\* The index a normalization goes by.
IndexFor(p, aliases) == IF HasForeign(aliases) THEN IndexOf(p) ELSE dash[p].index
AnIndex(w, index) == \E day \in Nat : index = LoadedIndex(w, day)

LEMMA IndexOfIs ==
  ASSUME Shapes, Indexes, NEW p \in Processes, dash[p].up
  PROVE  AnIndex(World(dash[p]), IndexOf(p))
<1>1. CASE dash[p].index.known
  BY <1>1 DEF IndexOf, AnIndex, Indexes
<1>2. CASE ~dash[p].index.known
  <2>1. IndexOf(p) = LoadedIndex(World(dash[p]), now) /\ now \in Nat
    BY <1>2, WorldOfWorld DEF IndexOf, Shapes
  <2> QED
    BY <2>1 DEF AnIndex
<1> QED
  BY <1>1, <1>2

LEMMA IndexForIs ==
  ASSUME Shapes, Indexes, NEW p \in Processes, dash[p].up, NEW aliases
  PROVE  /\ HasForeign(aliases) => AnIndex(World(dash[p]), IndexFor(p, aliases))
         /\ IndexFor(p, aliases).known => AnIndex(World(dash[p]), IndexFor(p, aliases))
BY IndexOfIs DEF IndexFor, Indexes, AnIndex

LEMMA CaptureIs ==
  ASSUME Shapes, Indexes, NEW p \in Processes, dash[p].up, NEW s, NEW aliases, Saved(aliases, s)
  PROVE  \E day \in Nat : Identity(dash[p], s, aliases, IndexFor(p, aliases))
                          = Identity(World(dash[p]), s, aliases, LoadedIndex(World(dash[p]), day))
<1>1. CASE HasForeign(aliases)
  <2>1. PICK day \in Nat : IndexFor(p, aliases) = LoadedIndex(World(dash[p]), day)
    BY <1>1, IndexForIs DEF AnIndex
  <2> QED
    BY <2>1, WorldTells
<1>2. CASE ~HasForeign(aliases)
  <2>1. Identity(World(dash[p]), s, aliases, IndexFor(p, aliases))
        = Identity(World(dash[p]), s, aliases, LoadedIndex(World(dash[p]), 0))
    BY <1>2, NothingBorrowed
  <2>2. Identity(dash[p], s, aliases, IndexFor(p, aliases))
        = Identity(World(dash[p]), s, aliases, LoadedIndex(World(dash[p]), 0))
    BY <2>1, WorldTells
  <2>3. 0 \in Nat
    OBVIOUS
  <2> QED
    BY <2>2, <2>3
<1> QED
  BY <1>1, <1>2

LEMMA PriceIs ==
  ASSUME Shapes, Indexes, NEW p \in Processes, dash[p].up, NEW request, NEW aliases, Saved(aliases, request.source)
  PROVE  \E day \in Nat : Cost(dash[p], aliases, IndexFor(p, aliases), request)
                          = Cost(World(dash[p]), aliases, LoadedIndex(World(dash[p]), day), request)
<1>1. CASE HasForeign(aliases)
  <2>1. PICK day \in Nat : IndexFor(p, aliases) = LoadedIndex(World(dash[p]), day)
    BY <1>1, IndexForIs DEF AnIndex
  <2> QED
    BY <2>1, WorldTells
<1>2. CASE ~HasForeign(aliases)
  <2>1. Cost(World(dash[p]), aliases, IndexFor(p, aliases), request)
        = Cost(World(dash[p]), aliases, LoadedIndex(World(dash[p]), 0), request)
    BY <1>2, NothingBorrowed
  <2>2. Cost(dash[p], aliases, IndexFor(p, aliases), request)
        = Cost(World(dash[p]), aliases, LoadedIndex(World(dash[p]), 0), request)
    BY <2>1, WorldTells
  <2>3. 0 \in Nat
    OBVIOUS
  <2> QED
    BY <2>2, <2>3
<1> QED
  BY <1>1, <1>2

-----------------------------------------------------------------------------
(* The steps keep the invariant                                            *)

SameWorlds == \A p \in Processes : World(dash'[p]) = World(dash[p]) /\ dash'[p].up = dash[p].up

LEMMA PassStays ==
  ASSUME SameWorlds, NEW x, PassIs(x) PROVE PassIs(x)'
<1>1. x.dash \in Processes
  BY DEF PassIs
<1>2. World(dash'[x.dash]) = World(dash[x.dash]) /\ dash'[x.dash].up = dash[x.dash].up
  BY <1>1 DEF SameWorlds
<1> QED
  BY <1>2 DEF PassIs

\* An index that is loaded says nothing of the aliases.
LEMMA IndexStep ==
  ASSUME Configured, AliasesInv, NEW p \in Processes, NEW index, index.known => AnIndex(World(dash[p]), index),
         dash' = [dash EXCEPT ![p].index = index], UNCHANGED <<table, now, edit, answered>>
  PROVE  /\ Shapes' /\ AllFromEdits' /\ Indexes' /\ Quiet' /\ OneSwap' /\ AnswersHold' /\ Pending'
         /\ SameWorlds
<1>1. /\ dash' = [q \in Processes |-> dash'[q]]
      /\ \A q \in Processes :
           /\ DashShape(dash'[q]) /\ World(dash'[q]) = World(dash[q]) /\ dash'[q].up = dash[q].up
           /\ dash'[q].snap = dash[q].snap /\ dash'[q].index = IF q = p THEN index ELSE dash[q].index
  <2>1. Shapes /\ SetsIndex(p, index)
    BY DEF AliasesInv, SetsIndex
  <2>2. OnlyIndex(p, index)
    BY <2>1, IndexSet
  <2> QED
    BY <2>2 DEF OnlyIndex
<1>2. Shapes'
  BY <1>1 DEF AliasesInv, Shapes
<1>3. AllFromEdits'
  BY <1>1 DEF AliasesInv, AllFromEdits
<1>4. Indexes'
  BY <1>1 DEF AliasesInv, Indexes, AnIndex
<1>5. Quiet' /\ OneSwap' /\ SameWorlds
  BY <1>1 DEF AliasesInv, Quiet, OneSwap, SameWorlds
<1>6. AnswersHold'
  BY <1>1 DEF AliasesInv, AnswersHold, Holds
<1>7. Pending'
  <2>1. ASSUME NEW h \in Handlers, edit[h].pc # "idle"
        PROVE  World(dash'[Served[h]]) = World(dash[Served[h]]) /\ dash'[Served[h]].snap = dash[Served[h]].snap
    <3>1. Served[h] \in Processes
      BY <2>1 DEF Configured
    <3> QED
      BY <1>1, <3>1
  <2> QED
    BY <2>1 DEF AliasesInv, Pending, Holds
<1> QED
  BY <1>2, <1>3, <1>4, <1>5, <1>6, <1>7

LEMMA SavedIs ==
  ASSUME AllFromEdits, NEW p \in Processes, NEW s PROVE Saved(AliasesOf(dash[p].snap, s), s)
<1>1. FromEdits(dash[p].snap)
  BY DEF AllFromEdits
<1> QED
  BY <1>1 DEF FromEdits, Saved, AliasesOf

LEMMA CaptureStep ==
  ASSUME Configured, AliasesInv, NEW p \in Processes, NEW s \in Sources, Capture(p, s) PROVE AliasesInv'
<1> DEFINE aliases == AliasesOf(dash[p].snap, s)
           identity == Identity(dash[p], s, aliases, IndexFor(p, aliases))
<1>1. dash[p].up /\ Saved(aliases, s)
  BY SavedIs DEF Capture, AliasesInv
<1>2. /\ pass' = pass \union {[dash |-> p, source |-> s, aliases |-> aliases, identity |-> identity]}
      /\ dash' = [dash EXCEPT ![p].index = IndexFor(p, aliases)]
      /\ UNCHANGED <<table, now, edit, priced, answered>>
  BY DEF Capture, IndexFor
<1>3. \E day \in Nat : identity = Identity(World(dash[p]), s, aliases, LoadedIndex(World(dash[p]), day))
  BY <1>1, CaptureIs DEF AliasesInv
<1>4. IndexFor(p, aliases).known => AnIndex(World(dash[p]), IndexFor(p, aliases))
  BY <1>1, IndexForIs DEF AliasesInv
<1> HIDE DEF aliases, identity
<1>5. /\ Shapes' /\ AllFromEdits' /\ Indexes' /\ Quiet' /\ OneSwap' /\ AnswersHold' /\ Pending'
      /\ SameWorlds
  BY <1>2, <1>4, IndexStep
<1>6. Costs'
  BY <1>2 DEF AliasesInv, Costs, CostIs
<1>7. PassIs([dash |-> p, source |-> s, aliases |-> aliases, identity |-> identity])
  BY <1>1, <1>3 DEF PassIs
<1>8. Passes'
  <2>1. ASSUME NEW x \in pass' PROVE PassIs(x)'
    <3>1. PassIs(x)
      BY <1>2, <1>7, <2>1 DEF AliasesInv, Passes
    <3> QED
      BY <1>5, <3>1, PassStays
  <2> QED
    BY <2>1 DEF Passes
<1> QED
  BY <1>5, <1>6, <1>8 DEF AliasesInv

LEMMA PriceStep ==
  ASSUME Configured, AliasesInv, NEW x \in pass, NEW request \in Requests, Price(x, request) PROVE AliasesInv'
<1> DEFINE p == x.dash
           aliases == x.aliases
           cost == Cost(dash[p], aliases, IndexFor(p, aliases), request)
           price == [source |-> x.source, identity |-> x.identity, request |-> request, cost |-> cost]
<1>1. PassIs(x) /\ request.source = x.source
  BY DEF AliasesInv, Passes, Price
<1>2. p \in Processes /\ dash[p].up /\ x.source \in Sources /\ Saved(aliases, x.source) /\ World(dash[p]) \in Worlds
  BY <1>1 DEF PassIs, AliasesInv, Indexes
<1>3. /\ priced' = priced \union {price}
      /\ dash' = [dash EXCEPT ![p].index = IndexFor(p, aliases)]
      /\ UNCHANGED <<table, now, edit, pass, answered>>
  BY DEF Price, IndexFor
<1>4. \E other \in Nat : cost = Cost(World(dash[p]), aliases, LoadedIndex(World(dash[p]), other), request)
  BY <1>1, <1>2, PriceIs DEF AliasesInv
<1>5. \E day \in Nat : x.identity = Identity(World(dash[p]), x.source, aliases, LoadedIndex(World(dash[p]), day))
  BY <1>1 DEF PassIs
<1>6. IndexFor(p, aliases).known => AnIndex(World(dash[p]), IndexFor(p, aliases))
  BY <1>2, IndexForIs DEF AliasesInv
<1>7. CostIs(price)
  <2> HIDE DEF p, aliases, cost
  <2>1. /\ price.source = x.source /\ price.identity = x.identity
        /\ price.request = request /\ price.cost = cost
    OBVIOUS
  <2> HIDE DEF price
  <2> QED
    BY <1>1, <1>2, <1>4, <1>5, <2>1 DEF CostIs
<1> HIDE DEF p, aliases, price
<1>8. /\ Shapes' /\ AllFromEdits' /\ Indexes' /\ Quiet' /\ OneSwap' /\ AnswersHold' /\ Pending'
      /\ SameWorlds
  BY <1>2, <1>3, <1>6, IndexStep
<1>9. Costs'
  BY <1>3, <1>7 DEF AliasesInv, Costs, CostIs
<1>10. Passes'
  <2>1. ASSUME NEW y \in pass' PROVE PassIs(y)'
    BY <1>3, <1>8, <2>1, PassStays DEF AliasesInv, Passes
  <2> QED
    BY <2>1 DEF Passes
<1> QED
  BY <1>8, <1>9, <1>10 DEF AliasesInv

LEMMA TickStep == ASSUME AliasesInv, Tick PROVE AliasesInv'
<1>1. now' = now + 1 /\ UNCHANGED <<table, dash, edit, pass, priced, answered>>
  BY DEF Tick
<1>2. Shapes'
  BY <1>1 DEF AliasesInv, Shapes
<1>3. AllFromEdits' /\ Indexes' /\ Quiet' /\ OneSwap'
  BY <1>1 DEF AliasesInv, AllFromEdits, Indexes, Quiet, OneSwap
<1>4. Passes' /\ Costs'
  BY <1>1 DEF AliasesInv, Passes, PassIs, Costs, CostIs
<1>5. AnswersHold' /\ Pending'
  BY <1>1 DEF AliasesInv, AnswersHold, Pending, Holds
<1> QED
  BY <1>2, <1>3, <1>4, <1>5 DEF AliasesInv

LEMMA StutterStep == ASSUME AliasesInv, UNCHANGED aliasVars PROVE AliasesInv'
<1>1. UNCHANGED <<table, now, dash, edit, pass, priced, answered>>
  BY DEF aliasVars
<1>2. Shapes' /\ AllFromEdits' /\ Indexes' /\ Quiet' /\ OneSwap'
  BY <1>1 DEF AliasesInv, Shapes, AllFromEdits, Indexes, Quiet, OneSwap
<1>3. Passes' /\ Costs' /\ AnswersHold' /\ Pending'
  BY <1>1 DEF AliasesInv, Passes, PassIs, Costs, CostIs, AnswersHold, Pending, Holds
<1> QED
  BY <1>2, <1>3 DEF AliasesInv

LEMMA OpenStep ==
  ASSUME AliasesInv, NEW p \in Processes, NEW release \in Releases, Open(p, release) PROVE AliasesInv'
<1> DEFINE new == [up |-> TRUE, release |-> release, since |-> now, snap |-> table, index |-> NoIndex]
<1>1. ~dash[p].up /\ dash' = [dash EXCEPT ![p] = new] /\ UNCHANGED <<table, now, edit, pass, priced, answered>>
  BY DEF Open
<1>2. DashShape(new) /\ World(new) = [release |-> release, since |-> now] /\ World(new) \in Worlds
      /\ new.up /\ new.snap = table /\ ~new.index.known
  BY DEF DashShape, World, Worlds, NoIndex, AliasesInv, Shapes
<1> HIDE DEF new
<1>3. /\ dash' = [q \in Processes |-> dash'[q]] /\ dash'[p] = new
      /\ \A q \in Processes : q # p => dash'[q] = dash[q]
  BY <1>1 DEF AliasesInv, Shapes
<1>4. Shapes'
  BY <1>1, <1>2, <1>3 DEF AliasesInv, Shapes
<1>5. AllFromEdits'
  BY <1>1, <1>2, <1>3 DEF AliasesInv, AllFromEdits
<1>6. Indexes'
  BY <1>2, <1>3 DEF AliasesInv, Indexes
<1>7. Passes'
  <2>1. ASSUME NEW x \in pass' PROVE PassIs(x)'
    <3>1. PassIs(x)
      BY <1>1, <2>1 DEF AliasesInv, Passes
    <3>2. x.dash \in Processes /\ x.dash # p
      BY <1>1, <3>1 DEF PassIs
    <3>3. dash'[x.dash] = dash[x.dash]
      BY <1>3, <3>2
    <3> QED
      BY <3>1, <3>3 DEF PassIs
  <2> QED
    BY <2>1 DEF Passes
<1>8. Costs'
  BY <1>1 DEF AliasesInv, Costs, CostIs
<1>9. Quiet' /\ OneSwap'
  BY <1>1, <1>2, <1>3 DEF AliasesInv, Quiet, OneSwap
<1>10. DOMAIN answered[p] = {} /\ \A h \in Handlers : Served[h] = p => edit[h].pc = "idle"
  BY <1>1 DEF AliasesInv, Quiet
<1>11. AnswersHold'
  BY <1>1, <1>3, <1>10 DEF AliasesInv, AnswersHold, Holds
<1>12. Pending'
  <2>1. ASSUME NEW h \in Handlers, edit[h].pc # "idle" PROVE dash'[Served[h]] = dash[Served[h]]
    <3>1. Served[h] # p
      BY <1>10, <2>1
    <3> QED
      BY <1>1, <3>1 DEF AliasesInv, Shapes
  <2> QED
    BY <1>1, <2>1 DEF AliasesInv, Pending, Holds
<1> QED
  BY <1>4, <1>5, <1>6, <1>7, <1>8, <1>9, <1>11, <1>12 DEF AliasesInv

LEMMA StopStep ==
  ASSUME AliasesInv, NEW p \in Processes, Stop(p) PROVE AliasesInv'
<1>1. /\ dash' = [dash EXCEPT ![p].up = FALSE]
      /\ edit' = [h \in Handlers |-> IF Served[h] = p THEN [edit[h] EXCEPT !.pc = "idle"] ELSE edit[h]]
      /\ pass' = {x \in pass : x.dash # p}
      /\ answered' = [answered EXCEPT ![p] = Empty]
      /\ UNCHANGED <<table, now, priced>>
  BY DEF Stop
<1>2. /\ dash' = [q \in Processes |-> dash'[q]]
      /\ \A q \in Processes : q # p => dash'[q] = dash[q]
  BY <1>1 DEF AliasesInv, Shapes
<1>3. /\ DashShape(dash'[p]) /\ dash'[p].snap = dash[p].snap /\ ~dash'[p].up
  <2>1. dash[p] = [up |-> dash[p].up, release |-> dash[p].release, since |-> dash[p].since, snap |-> dash[p].snap,
                   index |-> dash[p].index] /\ dash[p].up \in BOOLEAN
    BY DEF AliasesInv, Shapes, DashShape
  <2>2. dash' = [dash EXCEPT ![p] = [dash[p] EXCEPT !.up = FALSE]]
    BY <1>1
  <2>3. dash'[p] = [dash[p] EXCEPT !.up = FALSE]
    BY <2>2 DEF AliasesInv, Shapes
  <2>4. dash'[p] = [up |-> FALSE, release |-> dash[p].release, since |-> dash[p].since, snap |-> dash[p].snap,
                    index |-> dash[p].index]
    BY <2>1, <2>3
  <2> QED
    BY <2>4 DEF DashShape
<1>4. \A h \in Handlers : Served[h] # p => edit'[h] = edit[h]
  BY <1>1
<1>5. ASSUME NEW h \in Handlers, Served[h] = p
      PROVE  /\ EditShape(edit'[h]) /\ edit'[h].pc = "idle" /\ edit'[h].next = edit[h].next
  <2>1. edit[h] = [pc |-> edit[h].pc, key |-> edit[h].key, to |-> edit[h].to, next |-> edit[h].next,
                   last |-> edit[h].last] /\ edit[h].last \in BOOLEAN
    BY DEF AliasesInv, Shapes, EditShape
  <2>2. edit'[h] = [edit[h] EXCEPT !.pc = "idle"]
    BY <1>1, <1>5
  <2>3. edit'[h] = [pc |-> "idle", key |-> edit[h].key, to |-> edit[h].to, next |-> edit[h].next,
                    last |-> edit[h].last]
    BY <2>1, <2>2
  <2> QED
    BY <2>1, <2>3 DEF EditShape, Phases
<1>6. edit' = [h \in Handlers |-> edit'[h]]
  BY <1>1
<1>7. answered' = [q \in Processes |-> answered'[q]] /\ answered'[p] = Empty
      /\ \A q \in Processes : q # p => answered'[q] = answered[q]
  BY <1>1 DEF AliasesInv, Shapes
<1>8. Shapes'
  <2>1. \A q \in Processes : DashShape(dash'[q])
    BY <1>2, <1>3 DEF AliasesInv, Shapes
  <2>2. \A h \in Handlers : EditShape(edit'[h])
    BY <1>4, <1>5 DEF AliasesInv, Shapes
  <2> QED
    BY <1>1, <1>2, <1>6, <1>7, <2>1, <2>2 DEF AliasesInv, Shapes
<1>9. AllFromEdits'
  <2>1. \A q \in Processes : FromEdits(dash'[q].snap)
    BY <1>2, <1>3 DEF AliasesInv, AllFromEdits
  <2>2. \A h \in Handlers : /\ FromEdits(edit'[h].next)
                            /\ edit'[h].pc # "idle" /\ edit'[h].to # NoTarget =>
                                 \E e \in Edits : e.key = edit'[h].key /\ e.to = edit'[h].to
    BY <1>4, <1>5 DEF AliasesInv, AllFromEdits
  <2> QED
    BY <1>1, <2>1, <2>2 DEF AliasesInv, AllFromEdits
<1>10. Indexes'
  BY <1>2, <1>3 DEF AliasesInv, Indexes
<1>11. Passes'
  <2>1. ASSUME NEW x \in pass' PROVE PassIs(x)'
    <3>1. PassIs(x) /\ x.dash # p
      BY <1>1, <2>1 DEF AliasesInv, Passes
    <3>2. dash'[x.dash] = dash[x.dash]
      BY <1>2, <3>1 DEF PassIs
    <3> QED
      BY <3>1, <3>2 DEF PassIs
  <2> QED
    BY <2>1 DEF Passes
<1>12. Costs'
  BY <1>1 DEF AliasesInv, Costs, CostIs
<1>13. DOMAIN answered'[p] = {}
  BY <1>7 DEF Empty
<1>14. Quiet'
  BY <1>2, <1>4, <1>5, <1>7, <1>13 DEF AliasesInv, Quiet
<1>15. OneSwap'
  BY <1>4, <1>5 DEF AliasesInv, OneSwap
<1>16. AnswersHold'
  <2>1. ASSUME NEW q \in Processes, q # p, NEW key, NEW to, Holds(q, key, to) PROVE Holds(q, key, to)'
    BY <1>2, <1>4, <2>1 DEF Holds
  <2> QED
    BY <1>1, <1>2, <1>7, <1>13, <2>1 DEF AliasesInv, AnswersHold
<1>17. Pending'
  <2>1. ASSUME NEW h \in Handlers, edit'[h].pc # "idle"
        PROVE  edit'[h] = edit[h] /\ dash'[Served[h]] = dash[Served[h]] /\ Served[h] # p
    <3>1. Served[h] # p
      BY <1>5, <2>1
    <3> QED
      BY <1>1, <1>4, <3>1 DEF AliasesInv, Shapes
  <2>2. ASSUME NEW h \in Handlers, edit'[h].pc # "idle", NEW key, NEW to, Holds(Served[h], key, to)
        PROVE  Holds(Served[h], key, to)'
    BY <1>4, <2>1, <2>2 DEF Holds
  <2> QED
    BY <1>1, <2>1, <2>2 DEF AliasesInv, Pending
<1> QED
  BY <1>8, <1>9, <1>10, <1>11, <1>12, <1>14, <1>15, <1>16, <1>17 DEF AliasesInv

LEMMA RateIs ==
  ASSUME NEW s, NEW rate, Priceable(rate), NEW day
  PROVE  LET r == RateAt(s, rate, day)
         IN  r.in \in Nat /\ r.cached \in Nat /\ r.out \in Nat /\ (Usable(r) <=> Usable(rate))
<1> DEFINE r == RateAt(s, rate, day)
           in == rate.in * rate.factor
           cached == rate.cached * rate.factor
           out == rate.out * rate.factor
           dated == [rate EXCEPT !.in = in, !.cached = cached, !.out = out]
<1>1. /\ rate.in \in Nat /\ rate.cached \in Nat /\ rate.out \in Nat /\ rate.factor \in Nat \ {0}
      /\ rate = [f \in DOMAIN rate |-> rate[f]] /\ "in" \in DOMAIN rate /\ "cached" \in DOMAIN rate
      /\ "out" \in DOMAIN rate
  BY DEF Priceable
<1>2. /\ in \in Nat /\ cached \in Nat /\ out \in Nat
      /\ (in > 0 <=> rate.in > 0) /\ (out > 0 <=> rate.out > 0)
  <2>1. ASSUME NEW a \in Nat, NEW b \in Nat \ {0} PROVE a * b \in Nat /\ (a * b > 0 <=> a > 0)
    OBVIOUS
  <2> QED
    BY <1>1, <2>1
<1>3. r = dated \/ r = rate
  BY DEF RateAt
<1> HIDE DEF in, cached, out
<1>4. dated.in = in /\ dated.cached = cached /\ dated.out = out
  BY <1>1
<1> HIDE DEF dated, r
<1>5. CASE r = dated
  BY <1>2, <1>4, <1>5 DEF Usable, r
<1>6. CASE r = rate
  BY <1>1, <1>6 DEF Usable, r
<1> QED
  BY <1>3, <1>5, <1>6

LEMMA BasePriceable ==
  ASSUME Configured, NEW w \in Worlds, NEW s \in Sources, NEW m \in DOMAIN Base(w, s).models
  PROVE  Priceable(Base(w, s).models[m])
<1>1. Base(w, s).models # Empty /\ w.release \in Releases
  BY DEF Empty, Worlds
<1>2. Base(w, s).models = Catalogs[w.release][s].models
  BY <1>1, BaseIs
<1> QED
  BY <1>1, <1>2 DEF Configured

\* What a handler accepts fits the release of its dashboard.
LEMMA AcceptedFits ==
  ASSUME Configured, Shapes, Indexes, NEW p \in Processes, dash[p].up, NEW e \in Edits, Accepts(p, e.key, e.to)
  PROVE  Fit(World(dash[p]), e.key, e.to)
<1> DEFINE w == World(dash[p])
           s == e.to.source
           models == Base(w, s).models
           m == e.to.model
           offered == Offered(dash[p], s, now)
<1>1. e.key[1] \in Sources /\ s \in Sources /\ w \in Worlds /\ e.key = <<e.key[1], e.key[2], e.key[3]>>
  BY DEF Configured, Indexes
<1>2. /\ e.key[1] = "claude" => e.key[2] = "anthropic"
      /\ m \in DOMAIN offered /\ Usable(offered[m])
      /\ Base(dash[p], e.key[1]).currency = Base(dash[p], s).currency
  BY DEF Accepts
<1>3. Base(w, e.key[1]) = Base(dash[p], e.key[1]) /\ Base(w, s) = Base(dash[p], s)
  BY WorldIs
<1>4. offered = Offered(w, s, now)
  BY WorldOfWorld
<1>5. m \in Targets(s, models) /\ offered[m] = Summary(s, RateAt(s, models[m], now))
  BY <1>2, <1>4, OfferedIs
<1>6. Priceable(models[m])
  BY <1>1, <1>5, BasePriceable DEF Targets
<1> DEFINE rate == models[m]
<1>7. Usable(rate)
  <2>1. Usable(RateAt(s, rate, now)) <=> Usable(rate)
    BY <1>6, RateIs
  <2>2. Usable(Summary(s, RateAt(s, rate, now)))
    BY <1>2, <1>5
  <2> HIDE DEF rate, s
  <2>3. Usable(RateAt(s, rate, now))
    BY <2>2 DEF Usable, Summary
  <2> QED
    BY <2>1, <2>3
<1> QED
  BY <1>1, <1>2, <1>3, <1>5, <1>7 DEF Fit

LEMMA BeginStep ==
  ASSUME Configured, AliasesInv, NEW h \in Handlers, NEW e \in Edits, NEW to \in {e.to, NoTarget}, Begin(h, e.key, to)
  PROVE  AliasesInv'
<1> DEFINE p == Served[h]
           key == e.key
           new == [pc |-> "accepted", key |-> key, to |-> to, next |-> Empty, last |-> TRUE]
<1>1. /\ edit[h].pc = "idle" /\ dash[p].up /\ (to # NoTarget => to = e.to /\ Accepts(p, key, to))
      /\ edit' = [edit EXCEPT ![h] = new] /\ UNCHANGED <<table, now, dash, pass, priced, answered>>
  BY DEF Begin
<1>2. Fit(World(dash[p]), key, to)
  <2>1. p \in Processes
    BY DEF Configured
  <2>2. CASE to = NoTarget
    BY <2>2 DEF Fit, Configured
  <2>3. CASE to # NoTarget
    BY <1>1, <2>1, <2>3, AcceptedFits DEF AliasesInv
  <2> QED
    BY <2>2, <2>3
<1>3. /\ EditShape(new) /\ new.pc = "accepted" /\ new.key = key /\ new.to = to /\ FromEdits(new.next)
  BY DEF EditShape, Phases, FromEdits, Empty
<1>4. to # NoTarget => \E a \in Edits : a.key = key /\ a.to = to
  BY <1>1
<1> HIDE DEF new, p, key
<1>5. /\ edit' = [g \in Handlers |-> edit'[g]] /\ edit'[h] = new
      /\ \A g \in Handlers : g # h => edit'[g] = edit[g]
  BY <1>1 DEF AliasesInv, Shapes
<1>6. Shapes'
  BY <1>1, <1>3, <1>5 DEF AliasesInv, Shapes
<1>7. AllFromEdits'
  <2>1. \A g \in Handlers : /\ FromEdits(edit'[g].next)
                            /\ edit'[g].pc # "idle" /\ edit'[g].to # NoTarget =>
                                 \E a \in Edits : a.key = edit'[g].key /\ a.to = edit'[g].to
    BY <1>3, <1>4, <1>5 DEF AliasesInv, AllFromEdits
  <2> QED
    BY <1>1, <2>1 DEF AliasesInv, AllFromEdits
<1>8. Indexes' /\ Passes' /\ Costs'
  BY <1>1 DEF AliasesInv, Indexes, Passes, PassIs, Costs, CostIs
<1>9. Quiet' /\ OneSwap'
  BY <1>1, <1>3, <1>5 DEF AliasesInv, Quiet, OneSwap, p
<1>10. ASSUME NEW q \in Processes, NEW k, NEW t, Holds(q, k, t) PROVE Holds(q, k, t)'
  BY <1>1, <1>3, <1>5, <1>10 DEF Holds
<1>11. AnswersHold'
  BY <1>1, <1>10 DEF AliasesInv, AnswersHold
<1>12. Pending'
  <2>1. ASSUME NEW g \in Handlers, g # h, edit'[g].pc # "idle"
        PROVE  /\ edit'[g] = edit[g] /\ Served[g] \in Processes
               /\ Holds(Served[g], edit[g].key, edit[g].to) => Holds(Served[g], edit[g].key, edit[g].to)'
    BY <1>5, <1>10, <2>1 DEF Configured
  <2>2. ASSUME NEW g \in Handlers, (edit[g].pc # "idle")'
        PROVE  (/\ Fit(World(dash[Served[g]]), edit[g].key, edit[g].to)
                /\ edit[g].last /\ edit[g].pc \in {"committed", "stored"} => Has(table, edit[g].key, edit[g].to)
                /\ edit[g].last /\ edit[g].pc = "committed" => Has(edit[g].next, edit[g].key, edit[g].to)
                /\ edit[g].last /\ edit[g].pc = "stored" => Holds(Served[g], edit[g].key, edit[g].to))'
    <3>1. CASE g = h
      BY <1>1, <1>2, <1>3, <1>5, <3>1 DEF p
    <3>2. CASE g # h
      BY <1>1, <2>1, <2>2, <3>2 DEF AliasesInv, Pending
    <3> QED
      BY <3>1, <3>2
  <2> QED
    BY <2>2 DEF Pending
<1> QED
  BY <1>6, <1>7, <1>8, <1>9, <1>11, <1>12 DEF AliasesInv

LEMMA FailStep ==
  ASSUME Configured, AliasesInv, NEW h \in Handlers, Fail(h) PROVE AliasesInv'
<1>1. edit[h].pc = "accepted" /\ edit' = [edit EXCEPT ![h].pc = "idle"]
      /\ UNCHANGED <<table, now, dash, pass, priced, answered>>
  BY DEF Fail
<1>2. /\ edit' = [g \in Handlers |-> edit'[g]]
      /\ \A g \in Handlers :
           /\ EditShape(edit'[g]) /\ edit'[g].pc = IF g = h THEN "idle" ELSE edit[g].pc
           /\ edit'[g].key = edit[g].key /\ edit'[g].to = edit[g].to
           /\ edit'[g].next = edit[g].next /\ edit'[g].last = edit[g].last
  <2>1. Shapes /\ "idle" \in Phases
    BY DEF AliasesInv, Phases
  <2> QED
    BY <1>1, <2>1, PcSet, Zenon
<1>3. Shapes' /\ AllFromEdits'
  <2>1. Shapes'
    BY <1>1, <1>2 DEF AliasesInv, Shapes
  <2>2. AllFromEdits'
    BY <1>1, <1>2, SMTT(30) DEF AliasesInv, AllFromEdits
  <2> QED
    BY <2>1, <2>2
<1>4. Indexes' /\ Passes' /\ Costs'
  BY <1>1 DEF AliasesInv, Indexes, Passes, PassIs, Costs, CostIs
<1>5. Quiet' /\ OneSwap'
  BY <1>1, <1>2 DEF AliasesInv, Quiet, OneSwap
<1>6. ASSUME NEW q \in Processes, NEW k, NEW t, Holds(q, k, t) PROVE Holds(q, k, t)'
  BY <1>1, <1>2, <1>6 DEF Holds
<1>7. AnswersHold'
  BY <1>1, <1>6 DEF AliasesInv, AnswersHold
<1>8. Pending'
  <2>1. ASSUME NEW g \in Handlers PROVE Served[g] \in Processes
    BY DEF Configured
  <2> QED
    BY <1>1, <1>2, <1>6, <2>1 DEF AliasesInv, Pending
<1> QED
  BY <1>3, <1>4, <1>5, <1>7, <1>8 DEF AliasesInv

LEMMA SwapStep ==
  ASSUME Configured, AliasesInv, NEW h \in Handlers, Swap(h) PROVE AliasesInv'
<1> DEFINE p == Served[h]
           snap == edit[h].next
<1>1. /\ edit[h].pc = "committed" /\ edit' = [edit EXCEPT ![h].pc = "stored"]
      /\ dash' = [dash EXCEPT ![p].snap = snap] /\ UNCHANGED <<table, now, pass, priced, answered>>
  BY DEF Swap
<1>2. p \in Processes
  BY DEF Configured
<1> HIDE DEF p, snap
<1>3. /\ edit' = [g \in Handlers |-> edit'[g]]
      /\ \A g \in Handlers :
           /\ EditShape(edit'[g]) /\ edit'[g].pc = IF g = h THEN "stored" ELSE edit[g].pc
           /\ edit'[g].key = edit[g].key /\ edit'[g].to = edit[g].to
           /\ edit'[g].next = edit[g].next /\ edit'[g].last = edit[g].last
  <2>1. Shapes /\ "stored" \in Phases
    BY DEF AliasesInv, Phases
  <2> QED
    BY <1>1, <2>1, PcSet, Zenon
<1>4. /\ dash' = [q \in Processes |-> dash'[q]]
      /\ \A q \in Processes :
           /\ DashShape(dash'[q]) /\ World(dash'[q]) = World(dash[q]) /\ dash'[q].up = dash[q].up
           /\ dash'[q].index = dash[q].index /\ dash'[q].snap = IF q = p THEN snap ELSE dash[q].snap
  <2>1. Shapes /\ SetsSnap(p, snap)
    BY <1>1 DEF AliasesInv, SetsSnap
  <2>2. OnlySnap(p, snap)
    BY <1>2, <2>1, SnapSet
  <2> QED
    BY <2>2 DEF OnlySnap
<1>5. Shapes'
  BY <1>1, <1>3, <1>4 DEF AliasesInv, Shapes
<1>6. AllFromEdits'
  <2>1. \A q \in Processes : FromEdits(dash'[q].snap)
    BY <1>4 DEF AliasesInv, AllFromEdits, snap
  <2>2. \A g \in Handlers : /\ FromEdits(edit'[g].next)
                            /\ edit'[g].pc # "idle" /\ edit'[g].to # NoTarget =>
                                 \E a \in Edits : a.key = edit'[g].key /\ a.to = edit'[g].to
    BY <1>1, <1>3 DEF AliasesInv, AllFromEdits
  <2> QED
    BY <1>1, <2>1, <2>2 DEF AliasesInv, AllFromEdits
<1>7. Indexes' /\ SameWorlds
  BY <1>4 DEF AliasesInv, Indexes, SameWorlds
<1>8. Passes'
  BY <1>1, <1>7, PassStays DEF AliasesInv, Passes
<1>9. Costs'
  BY <1>1 DEF AliasesInv, Costs, CostIs
<1>10. Quiet' /\ OneSwap'
  <2>1. dash[p].up
    BY <1>1, <1>2 DEF AliasesInv, Quiet, p
  <2> QED
    BY <1>1, <1>3, <1>4, <2>1 DEF AliasesInv, Quiet, OneSwap, p
<1>11. ASSUME NEW q \in Processes, NEW k, NEW t, Holds(q, k, t) PROVE Holds(q, k, t)'
  <2>1. q = p => Has(snap, k, t)
    BY <1>1, <1>11 DEF Holds, p, snap
  <2> QED
    BY <1>3, <1>4, <1>11, <2>1 DEF Holds
<1>12. AnswersHold'
  BY <1>1, <1>4, <1>11 DEF AliasesInv, AnswersHold
<1>13. ASSUME edit[h].last PROVE Holds(p, edit[h].key, edit[h].to)'
  <2>1. Has(snap, edit[h].key, edit[h].to)
    BY <1>1, <1>13 DEF AliasesInv, Pending, snap
  <2>2. \A g \in Handlers : Served[g] = p => edit'[g].pc # "committed"
    BY <1>1, <1>3 DEF AliasesInv, OneSwap, p
  <2> QED
    BY <1>2, <1>3, <1>4, <2>1, <2>2 DEF Holds
<1>14. Pending'
  <2>1. ASSUME NEW g \in Handlers, (edit[g].pc # "idle")'
        PROVE  (/\ Fit(World(dash[Served[g]]), edit[g].key, edit[g].to)
                /\ edit[g].last /\ edit[g].pc \in {"committed", "stored"} => Has(table, edit[g].key, edit[g].to)
                /\ edit[g].last /\ edit[g].pc = "committed" => Has(edit[g].next, edit[g].key, edit[g].to)
                /\ edit[g].last /\ edit[g].pc = "stored" => Holds(Served[g], edit[g].key, edit[g].to))'
    <3>1. Served[g] \in Processes /\ edit[g].pc # "idle"
      BY <1>1, <1>3, <2>1 DEF Configured
    <3>2. (/\ Fit(World(dash[Served[g]]), edit[g].key, edit[g].to)
           /\ edit[g].last /\ edit[g].pc \in {"committed", "stored"} => Has(table, edit[g].key, edit[g].to)
           /\ edit[g].last /\ edit[g].pc = "committed" => Has(edit[g].next, edit[g].key, edit[g].to))'
      BY <1>1, <1>3, <1>4, <3>1 DEF AliasesInv, Pending
    <3>3. (edit[g].last /\ edit[g].pc = "stored" => Holds(Served[g], edit[g].key, edit[g].to))'
      <4>1. CASE g = h
        BY <1>3, <1>13, <4>1 DEF p
      <4>2. CASE g # h
        <5>1. edit[g].last /\ edit[g].pc = "stored" => Holds(Served[g], edit[g].key, edit[g].to)
          BY <3>1 DEF AliasesInv, Pending
        <5> DEFINE q == Served[g]
                   k == edit[g].key
                   t == edit[g].to
        <5>2. edit[g].last /\ edit[g].pc = "stored" =>
                /\ Has(dash'[q].snap, k, t)
                /\ \A f \in Handlers : Served[f] = q /\ edit'[f].pc = "committed" => Has(edit'[f].next, k, t)
          BY <1>11, <3>1, <5>1 DEF Holds
        <5>3. edit'[g].key = k /\ edit'[g].to = t /\ edit'[g].last = edit[g].last /\ edit'[g].pc = edit[g].pc
          BY <1>3, <4>2
        <5> QED
          BY <5>2, <5>3 DEF Holds
      <4> QED
        BY <4>1, <4>2
    <3> QED
      BY <3>2, <3>3
  <2> QED
    BY <2>1 DEF Pending
<1> QED
  BY <1>5, <1>6, <1>7, <1>8, <1>9, <1>10, <1>12, <1>14 DEF AliasesInv

LEMMA WithIs ==
  ASSUME NEW aliases, NEW key, NEW to
  PROVE  /\ to # NoTarget => Has(With(aliases, key, to), key, to)
         /\ \A k, t : k # key => (Has(With(aliases, key, to), k, t) <=> Has(aliases, k, t))
         /\ DOMAIN With(aliases, key, to) = DOMAIN aliases \union {key}
         /\ \A k \in DOMAIN aliases \union {key} : With(aliases, key, to)[k] = IF k = key THEN to ELSE aliases[k]
BY DEF With, Has

LEMMA WrittenIs ==
  ASSUME NEW key, NEW to
  PROVE  /\ Has(Written(key, to), key, to)
         /\ \A k, t : k # key => (Has(Written(key, to), k, t) <=> Has(table, k, t))
         /\ FromEdits(table) /\ (to = NoTarget \/ \E e \in Edits : e.key = key /\ e.to = to) =>
              FromEdits(Written(key, to))
<1>1. CASE to = NoTarget
  <2>1. Written(key, to) = [k \in DOMAIN table \ {key} |-> table[k]]
    BY <1>1 DEF Written
  <2> QED
    BY <1>1, <2>1 DEF Has, FromEdits
<1>2. CASE to # NoTarget
  <2>1. Written(key, to) = With(table, key, to)
    BY <1>2 DEF Written
  <2>2. FromEdits(table) /\ (\E e \in Edits : e.key = key /\ e.to = to) => FromEdits(With(table, key, to))
    <3> SUFFICES ASSUME FromEdits(table), \E e \in Edits : e.key = key /\ e.to = to, NEW k \in DOMAIN With(table, key, to)
                 PROVE  \E e \in Edits : e.key = k /\ e.to = With(table, key, to)[k]
      BY DEF FromEdits
    <3>1. k \in DOMAIN table \union {key} /\ With(table, key, to)[k] = IF k = key THEN to ELSE table[k]
      BY DEF With
    <3> QED
      BY <3>1 DEF FromEdits
  <2>3. Has(With(table, key, to), key, to)
    BY <1>2, WithIs
  <2>4. \A k, t : k # key => (Has(With(table, key, to), k, t) <=> Has(table, k, t))
    BY WithIs
  <2> QED
    BY <1>2, <2>1, <2>2, <2>3, <2>4
<1> QED
  BY <1>1, <1>2

LEMMA CommitStep ==
  ASSUME Configured, AliasesInv, NEW h \in Handlers, Commit(h) PROVE AliasesInv'
<1> DEFINE p == Served[h]
           key == edit[h].key
           to == edit[h].to
           next == Written(key, to)
<1>1. /\ edit[h].pc = "accepted" /\ ~Locked(p)
      /\ table' = next
      /\ edit' = [g \in Handlers |->
                    IF g = h THEN [edit[h] EXCEPT !.pc = "committed", !.next = next, !.last = TRUE]
                    ELSE IF edit[g].key = key THEN [edit[g] EXCEPT !.last = FALSE] ELSE edit[g]]
      /\ answered' = [q \in Processes |-> [k \in DOMAIN answered[q] \ {key} |-> answered[q][k]]]
      /\ UNCHANGED <<now, dash, pass, priced>>
  BY DEF Commit, Overtakes
<1>2. /\ Has(next, key, to)
      /\ \A k, t : k # key => (Has(next, k, t) <=> Has(table, k, t))
      /\ FromEdits(next)
  <2>1. FromEdits(table) /\ (to = NoTarget \/ \E e \in Edits : e.key = key /\ e.to = to)
    BY <1>1 DEF AliasesInv, AllFromEdits
  <2> QED
    BY <2>1, WrittenIs
<1>3. \A g \in Handlers : edit[g] = [pc |-> edit[g].pc, key |-> edit[g].key, to |-> edit[g].to, next |-> edit[g].next,
                                     last |-> edit[g].last] /\ edit[g].pc \in Phases /\ edit[g].last \in BOOLEAN
  BY DEF AliasesInv, Shapes, EditShape
<1>4. p \in Processes
  BY DEF Configured
<1> HIDE DEF p, key, to, next
<1>5. /\ EditShape(edit'[h]) /\ edit'[h].pc = "committed" /\ edit'[h].next = next
      /\ edit'[h].key = key /\ edit'[h].to = to /\ edit'[h].last
  <2>1. edit'[h] = [edit[h] EXCEPT !.pc = "committed", !.next = next, !.last = TRUE]
    BY <1>1
  <2>2. edit'[h] = [pc |-> "committed", key |-> edit[h].key, to |-> edit[h].to, next |-> next, last |-> TRUE]
    BY <1>3, <2>1
  <2> QED
    BY <2>2 DEF EditShape, Phases, key, to
<1>6. ASSUME NEW g \in Handlers, g # h
      PROVE  /\ EditShape(edit'[g]) /\ edit'[g].pc = edit[g].pc /\ edit'[g].next = edit[g].next
             /\ edit'[g].key = edit[g].key /\ edit'[g].to = edit[g].to
             /\ edit'[g].last => edit[g].last /\ edit[g].key # key
  <2>1. CASE edit[g].key # key
    <3>1. edit'[g] = edit[g]
      BY <1>1, <1>6, <2>1
    <3> QED
      BY <2>1, <3>1 DEF AliasesInv, Shapes
  <2>2. CASE edit[g].key = key
    <3>1. edit'[g] = [edit[g] EXCEPT !.last = FALSE]
      BY <1>1, <1>6, <2>2
    <3>2. edit'[g] = [pc |-> edit[g].pc, key |-> edit[g].key, to |-> edit[g].to, next |-> edit[g].next, last |-> FALSE]
      BY <1>3, <3>1
    <3>3. /\ edit'[g].pc = edit[g].pc /\ edit'[g].next = edit[g].next
          /\ edit'[g].key = edit[g].key /\ edit'[g].to = edit[g].to /\ edit'[g].last = FALSE
      BY <3>2
    <3>4. EditShape(edit'[g])
      BY <1>3, <3>2, <3>3 DEF EditShape
    <3> QED
      BY <3>3, <3>4
  <2> QED
    BY <2>1, <2>2
<1>7. /\ edit' = [g \in Handlers |-> edit'[g]] /\ answered' = [q \in Processes |-> answered'[q]]
      /\ \A q \in Processes :
           /\ DOMAIN answered'[q] = DOMAIN answered[q] \ {key}
           /\ \A k \in DOMAIN answered[q] \ {key} : answered'[q][k] = answered[q][k]
  BY <1>1
<1>8. Shapes'
  BY <1>1, <1>5, <1>6, <1>7 DEF AliasesInv, Shapes
<1>9. AllFromEdits'
  <2>1. \A g \in Handlers : /\ FromEdits(edit'[g].next)
                            /\ edit'[g].pc # "idle" /\ edit'[g].to # NoTarget =>
                                 \E a \in Edits : a.key = edit'[g].key /\ a.to = edit'[g].to
    BY <1>1, <1>2, <1>5, <1>6 DEF AliasesInv, AllFromEdits, key, to
  <2> QED
    BY <1>1, <1>2, <2>1 DEF AliasesInv, AllFromEdits
<1>10. Indexes' /\ Passes' /\ Costs'
  BY <1>1 DEF AliasesInv, Indexes, Passes, PassIs, Costs, CostIs
<1>11. Quiet'
  BY <1>1, <1>5, <1>6, <1>7 DEF AliasesInv, Quiet, p
<1>12. OneSwap'
  BY <1>1, <1>5, <1>6 DEF AliasesInv, OneSwap, Locked, p
<1>13. ASSUME NEW q \in Processes, NEW k, NEW t, Has(table, k, t), Holds(q, k, t), k # key
       PROVE  /\ Has(table, k, t)' /\ Has(dash'[q].snap, k, t)
              /\ \A f \in Handlers : Served[f] = q /\ edit'[f].pc = "committed" => Has(edit'[f].next, k, t)
  <2>1. Has(next, k, t)
    BY <1>2, <1>13
  <2> QED
    BY <1>1, <1>5, <1>6, <1>13, <2>1 DEF Holds
<1>14. AnswersHold'
  <2>1. ASSUME NEW q \in Processes, NEW k \in DOMAIN answered'[q]
        PROVE  (/\ Has(table, k, answered[q][k]) /\ Holds(q, k, answered[q][k])
                /\ Fit(World(dash[q]), k, answered[q][k]))'
    <3>1. k \in DOMAIN answered[q] /\ k # key /\ answered'[q][k] = answered[q][k]
      BY <1>7, <2>1
    <3> DEFINE t == answered[q][k]
    <3>2. Has(table, k, t) /\ Holds(q, k, t) /\ Fit(World(dash[q]), k, t)
      BY <3>1 DEF AliasesInv, AnswersHold
    <3> HIDE DEF t
    <3>3. answered'[q][k] = t
      BY <3>1 DEF t
    <3>4. /\ Has(table', k, t) /\ Has(dash'[q].snap, k, t) /\ Fit(World(dash'[q]), k, t)
          /\ \A f \in Handlers : Served[f] = q /\ edit'[f].pc = "committed" => Has(edit'[f].next, k, t)
      BY <1>1, <1>13, <3>1, <3>2
    <3> QED
      BY <3>3, <3>4 DEF Holds
  <2> QED
    BY <2>1 DEF AnswersHold
<1>15. Pending'
  <2>1. ASSUME NEW g \in Handlers, (edit[g].pc # "idle")'
        PROVE  (/\ Fit(World(dash[Served[g]]), edit[g].key, edit[g].to)
                /\ edit[g].last /\ edit[g].pc \in {"committed", "stored"} => Has(table, edit[g].key, edit[g].to)
                /\ edit[g].last /\ edit[g].pc = "committed" => Has(edit[g].next, edit[g].key, edit[g].to)
                /\ edit[g].last /\ edit[g].pc = "stored" => Holds(Served[g], edit[g].key, edit[g].to))'
    <3>1. CASE g = h
      <4>1. Fit(World(dash[p]), key, to)
        BY <1>1 DEF AliasesInv, Pending, p, key, to
      <4> QED
        BY <1>1, <1>2, <1>5, <3>1, <4>1 DEF p
    <3>2. CASE g # h
      <4> DEFINE q == Served[g]
                 k == edit[g].key
                 t == edit[g].to
      <4>1. q \in Processes
        BY DEF Configured
      <4>2. /\ Fit(World(dash[q]), k, t)
            /\ edit[g].last /\ edit[g].pc \in {"committed", "stored"} => Has(table, k, t)
            /\ edit[g].last /\ edit[g].pc = "committed" => Has(edit[g].next, k, t)
            /\ edit[g].last /\ edit[g].pc = "stored" => Holds(q, k, t)
        BY <1>6, <2>1, <3>2 DEF AliasesInv, Pending
      <4>3. /\ edit'[g].pc = edit[g].pc /\ edit'[g].next = edit[g].next /\ edit'[g].key = k /\ edit'[g].to = t
            /\ edit'[g].last => edit[g].last /\ k # key
        BY <1>6, <3>2
      <4>4. k # key /\ Has(table, k, t) => Has(table, k, t)'
        BY <1>1, <1>2
      <4>5. Fit(World(dash[q]), k, t) => Fit(World(dash'[q]), k, t)
        BY <1>1
      <4> HIDE DEF q, k, t
      <4>6. Fit(World(dash'[q]), edit'[g].key, edit'[g].to)
        BY <4>2, <4>3, <4>5
      <4>7. edit'[g].last /\ edit'[g].pc \in {"committed", "stored"} => Has(table', edit'[g].key, edit'[g].to)
        BY <1>1, <1>2, <4>2, <4>3
      <4>8. edit'[g].last /\ edit'[g].pc = "committed" => Has(edit'[g].next, edit'[g].key, edit'[g].to)
        BY <4>2, <4>3
      <4>9. edit'[g].last /\ edit'[g].pc = "stored" =>
              /\ Has(dash'[q].snap, edit'[g].key, edit'[g].to)
              /\ \A f \in Handlers : Served[f] = q /\ edit'[f].pc = "committed" =>
                   Has(edit'[f].next, edit'[g].key, edit'[g].to)
        BY <1>13, <4>1, <4>2, <4>3
      <4> QED
        BY <4>6, <4>7, <4>8, <4>9 DEF Holds, q
    <3> QED
      BY <3>1, <3>2
  <2> QED
    BY <2>1 DEF Pending
<1> QED
  BY <1>8, <1>9, <1>10, <1>11, <1>12, <1>14, <1>15 DEF AliasesInv

LEMMA AnswerStep ==
  ASSUME Configured, AliasesInv, NEW h \in Handlers, Answer(h) PROVE AliasesInv'
<1> DEFINE p == Served[h]
           key == edit[h].key
           to == edit[h].to
<1>1. /\ edit[h].pc = "stored" /\ edit' = [edit EXCEPT ![h].pc = "idle"]
      /\ dash' = [dash EXCEPT ![p].index = NoIndex]
      /\ answered' = IF edit[h].last THEN [answered EXCEPT ![p] = With(answered[p], key, to)] ELSE answered
      /\ UNCHANGED <<table, now, pass, priced>>
  BY DEF Answer
<1>2. p \in Processes /\ dash[p].up
  <2>1. p \in Processes
    BY DEF Configured
  <2> QED
    BY <1>1, <2>1 DEF AliasesInv, Quiet
<1>3. edit[h].last => Has(table, key, to) /\ Holds(p, key, to)
  BY <1>1 DEF AliasesInv, Pending
<1>4. Fit(World(dash[p]), key, to)
  BY <1>1 DEF AliasesInv, Pending
<1> HIDE DEF p, key, to
<1>5. /\ edit' = [g \in Handlers |-> edit'[g]]
      /\ \A g \in Handlers :
           /\ EditShape(edit'[g]) /\ edit'[g].pc = IF g = h THEN "idle" ELSE edit[g].pc
           /\ edit'[g].key = edit[g].key /\ edit'[g].to = edit[g].to
           /\ edit'[g].next = edit[g].next /\ edit'[g].last = edit[g].last
  <2>1. Shapes /\ "idle" \in Phases
    BY DEF AliasesInv, Phases
  <2> QED
    BY <1>1, <2>1, PcSet, Zenon
<1>6. /\ dash' = [q \in Processes |-> dash'[q]]
      /\ \A q \in Processes :
           /\ DashShape(dash'[q]) /\ World(dash'[q]) = World(dash[q]) /\ dash'[q].up = dash[q].up
           /\ dash'[q].snap = dash[q].snap /\ dash'[q].index = IF q = p THEN NoIndex ELSE dash[q].index
  <2>1. Shapes /\ SetsIndex(p, NoIndex)
    BY <1>1 DEF AliasesInv, SetsIndex
  <2>2. OnlyIndex(p, NoIndex)
    BY <1>2, <2>1, IndexSet
  <2> QED
    BY <2>2 DEF OnlyIndex
<1>7. /\ answered' = [q \in Processes |-> answered'[q]]
      /\ \A q \in Processes : answered'[q] = IF edit[h].last /\ q = p THEN With(answered[p], key, to) ELSE answered[q]
  <2>1. answered = [q \in Processes |-> answered[q]]
    BY DEF AliasesInv, Shapes
  <2> QED
    BY <1>1, <1>2, <2>1
<1>8. Shapes'
  BY <1>1, <1>5, <1>6, <1>7 DEF AliasesInv, Shapes
<1>9. AllFromEdits'
  BY <1>1, <1>5, <1>6 DEF AliasesInv, AllFromEdits
<1>10. Indexes' /\ SameWorlds
  BY <1>6 DEF AliasesInv, Indexes, SameWorlds, NoIndex
<1>11. Passes'
  BY <1>1, <1>10, PassStays DEF AliasesInv, Passes
<1>12. Costs'
  BY <1>1 DEF AliasesInv, Costs, CostIs
<1>13. Quiet' /\ OneSwap'
  <2>1. OneSwap'
    BY <1>5 DEF AliasesInv, OneSwap
  <2>2. \A q \in Processes : ~dash'[q].up => answered'[q] = answered[q]
    BY <1>2, <1>6, <1>7
  <2> QED
    BY <1>5, <1>6, <2>1, <2>2 DEF AliasesInv, Quiet
<1>14. ASSUME NEW q \in Processes, NEW k, NEW t, Holds(q, k, t)
       PROVE  /\ Has(dash'[q].snap, k, t)
              /\ \A f \in Handlers : Served[f] = q /\ edit'[f].pc = "committed" => Has(edit'[f].next, k, t)
  BY <1>5, <1>6, <1>14 DEF Holds
<1>15. AnswersHold'
  <2>1. ASSUME NEW q \in Processes, NEW k \in DOMAIN answered'[q]
        PROVE  (/\ Has(table, k, answered[q][k]) /\ Holds(q, k, answered[q][k])
                /\ Fit(World(dash[q]), k, answered[q][k]))'
    <3>1. PICK t : answered'[q][k] = t
      OBVIOUS
    <3>2. Has(table, k, t) /\ Holds(q, k, t) /\ Fit(World(dash[q]), k, t)
      <4>1. CASE edit[h].last /\ q = p /\ k = key
        <5>1. answered'[q] = With(answered[p], key, to)
          BY <1>7, <4>1
        <5>2. answered'[q][k] = to
          BY <4>1, <5>1 DEF With
        <5> QED
          BY <1>3, <1>4, <3>1, <4>1, <5>2
      <4>2. CASE ~(edit[h].last /\ q = p /\ k = key)
        <5>1. answered'[q] = IF edit[h].last /\ q = p THEN With(answered[p], key, to) ELSE answered[q]
          BY <1>7
        <5>2. k \in DOMAIN answered[q] /\ answered'[q][k] = answered[q][k]
          BY <2>1, <4>2, <5>1 DEF With
        <5> QED
          BY <3>1, <5>2 DEF AliasesInv, AnswersHold
      <4> QED
        BY <4>1, <4>2
    <3>3. /\ Has(table', k, t) /\ Has(dash'[q].snap, k, t) /\ Fit(World(dash'[q]), k, t)
          /\ \A f \in Handlers : Served[f] = q /\ edit'[f].pc = "committed" => Has(edit'[f].next, k, t)
      BY <1>1, <1>6, <1>14, <3>2
    <3> QED
      BY <3>1, <3>3 DEF Holds
  <2> QED
    BY <2>1 DEF AnswersHold
<1>16. Pending'
  <2>1. ASSUME NEW g \in Handlers, (edit[g].pc # "idle")'
        PROVE  (/\ Fit(World(dash[Served[g]]), edit[g].key, edit[g].to)
                /\ edit[g].last /\ edit[g].pc \in {"committed", "stored"} => Has(table, edit[g].key, edit[g].to)
                /\ edit[g].last /\ edit[g].pc = "committed" => Has(edit[g].next, edit[g].key, edit[g].to)
                /\ edit[g].last /\ edit[g].pc = "stored" => Holds(Served[g], edit[g].key, edit[g].to))'
    <3> DEFINE q == Served[g]
               k == edit[g].key
               t == edit[g].to
    <3>1. /\ edit[g].pc # "idle" /\ edit'[g].pc = edit[g].pc /\ edit'[g].next = edit[g].next
          /\ edit'[g].key = k /\ edit'[g].to = t /\ edit'[g].last = edit[g].last
      BY <1>5, <2>1
    <3>2. q \in Processes
      BY DEF Configured
    <3>3. /\ Fit(World(dash[q]), k, t)
          /\ edit[g].last /\ edit[g].pc \in {"committed", "stored"} => Has(table, k, t)
          /\ edit[g].last /\ edit[g].pc = "committed" => Has(edit[g].next, k, t)
          /\ edit[g].last /\ edit[g].pc = "stored" => Holds(q, k, t)
      BY <3>1 DEF AliasesInv, Pending
    <3>4. World(dash'[q]) = World(dash[q]) /\ table' = table
      BY <1>1, <1>6, <3>2
    <3> HIDE DEF q, k, t
    <3>5. edit[g].last /\ edit[g].pc = "stored" =>
            /\ Has(dash'[q].snap, k, t)
            /\ \A f \in Handlers : Served[f] = q /\ edit'[f].pc = "committed" => Has(edit'[f].next, k, t)
      BY <1>14, <3>2, <3>3
    <3>6. /\ Fit(World(dash'[q]), edit'[g].key, edit'[g].to)
          /\ edit'[g].last /\ edit'[g].pc \in {"committed", "stored"} => Has(table', edit'[g].key, edit'[g].to)
          /\ edit'[g].last /\ edit'[g].pc = "committed" => Has(edit'[g].next, edit'[g].key, edit'[g].to)
          /\ edit'[g].last /\ edit'[g].pc = "stored" =>
               /\ Has(dash'[q].snap, edit'[g].key, edit'[g].to)
               /\ \A f \in Handlers : Served[f] = q /\ edit'[f].pc = "committed" =>
                    Has(edit'[f].next, edit'[g].key, edit'[g].to)
      BY <3>1, <3>3, <3>4, <3>5
    <3> QED
      BY <3>6 DEF Holds, q
  <2> QED
    BY <2>1 DEF Pending
<1> QED
  BY <1>8, <1>9, <1>10, <1>11, <1>12, <1>13, <1>15, <1>16 DEF AliasesInv

LEMMA Starts ==
  ASSUME Configured, AliasesInit PROVE AliasesInv
<1> DEFINE down == [up |-> FALSE, release |-> 1, since |-> 0, snap |-> Empty, index |-> NoIndex]
           idle == [pc |-> "idle", key |-> <<>>, to |-> NoTarget, next |-> Empty, last |-> TRUE]
<1>1. /\ table = Empty /\ now = 0 /\ priced = {} /\ pass = {}
      /\ dash = [p \in Processes |-> down] /\ edit = [h \in Handlers |-> idle]
      /\ answered = [p \in Processes |-> Empty]
  BY DEF AliasesInit
<1>2. DashShape(down) /\ ~down.up /\ down.snap = Empty
  BY DEF DashShape
<1>3. EditShape(idle) /\ idle.pc = "idle" /\ idle.next = Empty
  BY DEF EditShape, Phases
<1>4. DOMAIN Empty = {}
  BY DEF Empty
<1> HIDE DEF down, idle
<1>5. Shapes
  BY <1>1, <1>2, <1>3 DEF Shapes
<1>6. AllFromEdits
  BY <1>1, <1>2, <1>3, <1>4 DEF AllFromEdits, FromEdits
<1>7. Indexes /\ Passes /\ Costs
  BY <1>1, <1>2 DEF Indexes, Passes, Costs
<1>8. Quiet /\ OneSwap
  BY <1>1, <1>3, <1>4 DEF Quiet, OneSwap
<1>9. AnswersHold /\ Pending
  BY <1>1, <1>3, <1>4 DEF AnswersHold, Pending
<1> QED
  BY <1>5, <1>6, <1>7, <1>8, <1>9 DEF AliasesInv

LEMMA Inductive ==
  ASSUME Configured, AliasesInv, [AliasesNext]_aliasVars PROVE AliasesInv'
<1>1. ASSUME NEW p \in Processes, NEW release \in Releases, Open(p, release) PROVE AliasesInv'
  BY <1>1, OpenStep
<1>2. ASSUME NEW p \in Processes, Stop(p) PROVE AliasesInv'
  BY <1>2, StopStep
<1>3. ASSUME NEW p \in Processes, NEW request \in Requests, Capture(p, request.source) PROVE AliasesInv'
  <2>1. request.source \in Sources
    BY DEF Configured
  <2> QED
    BY <1>3, <2>1, CaptureStep
<1>4. ASSUME NEW h \in Handlers, NEW e \in Edits, Begin(h, e.key, e.to) \/ Begin(h, e.key, NoTarget) PROVE AliasesInv'
  BY <1>4, BeginStep
<1>5. ASSUME NEW h \in Handlers, Commit(h) \/ Fail(h) \/ Swap(h) \/ Answer(h) PROVE AliasesInv'
  BY <1>5, CommitStep, FailStep, SwapStep, AnswerStep
<1>6. ASSUME NEW x \in pass, NEW request \in Requests, Price(x, request) PROVE AliasesInv'
  BY <1>6, PriceStep
<1>7. CASE Tick
  BY <1>7, TickStep
<1>8. CASE UNCHANGED aliasVars
  BY <1>8, StutterStep
<1> QED
  BY <1>1, <1>2, <1>3, <1>4, <1>5, <1>6, <1>7, <1>8 DEF AliasesNext

\* What the pricing cache rests on: in every release that gives a changed
\* catalog a new id, and with no alias that points at a dated rate, whoever
\* priced a request under an identity got the same cost, whatever was saved,
\* restarted and updated in between.
THEOREM OneIdentityOneCost ==
  ASSUME Configured, IdsTellCatalogs, LoansUndated PROVE AliasesSpec => []IdentityTellsCosts
<1>1. ASSUME AliasesInv PROVE IdentityTellsCosts
  <2> SUFFICES ASSUME NEW a \in priced, NEW b \in priced,
                      a.source = b.source, a.identity = b.identity, a.request = b.request
               PROVE  a.cost = b.cost
    BY DEF IdentityTellsCosts
  <2>1. CostIs(a) /\ CostIs(b)
    BY <1>1 DEF AliasesInv, Costs
  <2> DEFINE s == a.source
             request == a.request
  <2>2. PICK v \in Worlds, d1 \in Nat, d3 \in Nat : \E aliases :
               /\ Saved(aliases, s)
               /\ a.identity = Identity(v, s, aliases, LoadedIndex(v, d1))
               /\ a.cost = Cost(v, aliases, LoadedIndex(v, d3), request)
    BY <2>1 DEF CostIs
  <2>3. PICK x : /\ Saved(x, s)
                 /\ a.identity = Identity(v, s, x, LoadedIndex(v, d1))
                 /\ a.cost = Cost(v, x, LoadedIndex(v, d3), request)
    BY <2>2
  <2>4. PICK w \in Worlds, d2 \in Nat, d4 \in Nat : \E aliases :
               /\ Saved(aliases, s)
               /\ b.identity = Identity(w, s, aliases, LoadedIndex(w, d2))
               /\ b.cost = Cost(w, aliases, LoadedIndex(w, d4), request)
    BY <2>1, ZenonT(30) DEF CostIs
  <2>5. PICK y : /\ Saved(y, s)
                 /\ b.identity = Identity(w, s, y, LoadedIndex(w, d2))
                 /\ b.cost = Cost(w, y, LoadedIndex(w, d4), request)
    BY <2>4
  <2>6. s \in Sources /\ request.source = s
    BY <2>1 DEF CostIs
  <2>7. Identity(v, s, x, LoadedIndex(v, d1)) = Identity(w, s, y, LoadedIndex(w, d2))
    BY <2>3, <2>5
  <2> HIDE DEF s, request
  <2>8. Cost(v, x, LoadedIndex(v, d3), request) = Cost(w, y, LoadedIndex(w, d4), request)
    BY <2>3, <2>5, <2>6, <2>7, OneCost
  <2> QED
    BY <2>3, <2>5, <2>8
<1> QED
  BY <1>1, Starts, Inductive, PTL DEF AliasesSpec

LEMMA NativeKinds ==
  ASSUME NEW s, NEW models, NEW m, NEW day
  PROVE  LET native == Native(s, models, m)
         IN  native.kind # "user_alias" /\ [native EXCEPT !.rate = RateAt(s, @, day)].kind # "user_alias"
             /\ [native EXCEPT !.kind = "unpriced"].kind # "user_alias"
<1> DEFINE native == Native(s, models, m)
<1>1. \E how \in {"exact", "unknown", "native_alias", "fallback"} : \E rate, source, model :
        native = [kind |-> how, rate |-> rate, source |-> source, model |-> model]
  BY Zenon DEF Native, Unmatched
<1> QED
  BY <1>1

\* With nothing saved for a model nothing is resolved as the user's choice.
LEMMA NothingSaved ==
  ASSUME NEW d, NEW s, NEW aliases, NEW index, NEW provider, NEW m, NEW day, <<s, provider, m>> \notin DOMAIN aliases
  PROVE  Resolve(d, s, aliases, index, provider, m, day).kind # "user_alias"
<1> DEFINE native == Native(s, Base(d, s).models, m)
           dated == [native EXCEPT !.rate = RateAt(s, @, day)]
           unpriced == [native EXCEPT !.kind = "unpriced"]
<1>1. native.kind # "user_alias" /\ dated.kind # "user_alias" /\ unpriced.kind # "user_alias"
  BY NativeKinds
<1>2. Unmatched("none").kind = "none" /\ Unmatched("unavailable").kind = "unavailable"
  BY DEF Unmatched
<1>3. Resolve(d, s, aliases, index, provider, m, day) \in {dated, Unmatched("unavailable"), unpriced, native}
  BY <1>2 DEF Resolve
<1> HIDE DEF native, dated, unpriced
<1> QED
  BY <1>1, <1>2, <1>3

\* A target that fits matches, at the price of its owner.
LEMMA FitMatches ==
  ASSUME Configured, LoansUndated, NEW w \in Worlds, NEW e \in Edits, Fit(w, e.key, e.to), NEW d \in Nat, NEW day \in Nat
  PROVE  LET match == AliasMatch(w, e.key[1], e.to, LoadedIndex(w, d), day)
             rate == RateAt(e.to.source, Base(w, e.to.source).models[e.to.model], day)
         IN  /\ match.kind = "user_alias" /\ match.source = e.to.source /\ match.model = e.to.model
             /\ match.rate.in = rate.in /\ match.rate.cached = rate.cached /\ match.rate.out = rate.out
             /\ rate.in \in Nat /\ rate.cached \in Nat /\ rate.out \in Nat /\ Usable(rate)
<1> DEFINE s == e.key[1]
           lender == e.to.source
           m == e.to.model
           models == Base(w, lender).models
           rate == RateAt(lender, models[m], day)
           index == LoadedIndex(w, d)
           match == AliasMatch(w, s, e.to, index, day)
<1>1. /\ s \in Sources /\ lender \in Sources /\ m \in Targets(lender, models) /\ Usable(models[m])
      /\ Base(w, s).currency = Base(w, lender).currency
  BY DEF Fit, Configured
<1>2. m \in DOMAIN models /\ ~IsFamilyKey(lender, models, m)
  BY <1>1 DEF Targets
<1>3. rate.in \in Nat /\ rate.cached \in Nat /\ rate.out \in Nat /\ Usable(rate)
  BY <1>1, <1>2, BasePriceable, RateIs
<1>4. CASE lender = s
  <2>1. match = [kind |-> "user_alias", rate |-> rate, source |-> lender, model |-> m]
    BY <1>1, <1>2, <1>4 DEF AliasMatch
  <2> HIDE DEF match, rate, lender, m
  <2>2. match.kind = "user_alias" /\ match.rate = rate /\ match.source = lender /\ match.model = m
    BY <2>1
  <2> QED
    BY <1>3, <2>2 DEF match, rate, lender, m
<1>5. CASE lender # s
  <2> DEFINE lent == Summary(lender, rate)
  <2>1. lender \in Lenders(w)
    BY <1>1 DEF Lenders
  <2>2. /\ lender \in DOMAIN index.rates /\ index.rates[lender] = Offered(w, lender, d)
        /\ index.meta = {<<t, Base(w, t).id, Base(w, t).currency>> : t \in Lenders(w)}
    BY <2>1, IndexIs
  <2>3. m \in DOMAIN Offered(w, lender, d) /\ Offered(w, lender, d)[m] = Summary(lender, RateAt(lender, models[m], d))
    BY <1>1, OfferedIs
  <2>4. RateAt(lender, models[m], d) = rate
    BY <1>2, <1>5, LentIs
  <2>5. m \in DOMAIN index.rates[lender] /\ index.rates[lender][m] = lent
    BY <2>2, <2>3, <2>4
  <2>6. \A x \in index.meta : x[1] = lender => x[3] = Base(w, s).currency
    BY <1>1, <2>2
  <2> HIDE DEF rate, index, lender
  <2>7. lent.in = rate.in /\ lent.cached = rate.cached /\ lent.out = rate.out /\ Usable(lent)
    BY <1>3 DEF Summary, Usable
  <2> HIDE DEF lent
  <2>8. match = [kind |-> "user_alias", rate |-> Borrowed(s, lent), source |-> lender, model |-> m]
    BY <1>5, <2>2, <2>5, <2>6, <2>7 DEF AliasMatch, lender
  <2>9. Borrowed(s, lent).in = lent.in /\ Borrowed(s, lent).cached = lent.cached /\ Borrowed(s, lent).out = lent.out
    BY DEF Borrowed
  <2> HIDE DEF match, m
  <2>10. match.kind = "user_alias" /\ match.rate = Borrowed(s, lent) /\ match.source = lender /\ match.model = m
    BY <2>8
  <2> QED
    BY <1>3, <2>7, <2>9, <2>10 DEF match, rate, lender, m, index
<1> QED
  BY <1>4, <1>5

\* An ordinary request costs what the match says, whatever the source.
LEMMA OrdinaryCosts ==
  ASSUME NEW match, NEW request, ~request.long, request.tier = "standard",
         match.rate.in \in Nat, match.rate.cached \in Nat, match.rate.out \in Nat
  PROVE  \A cost \in {ClaudeCost(match, request), CodexCost(match, request),
                      KimiCost(match, request), QwenCost(match, request)} :
           cost # Missing /\ <<cost[1], cost[2], cost[5]>> = <<match.rate.in, match.rate.cached, match.rate.out>>
<1> DEFINE in == match.rate.in
           cached == match.rate.cached
           out == match.rate.out
<1>1. 1 * in = in /\ 1 * cached = cached /\ 1 * out = out /\ 1 * 1 = 1
  OBVIOUS
<1>2. ASSUME NEW x, NEW y, NEW cost, cost = <<in, cached, x, y, out>>
      PROVE  cost # Missing /\ <<cost[1], cost[2], cost[5]>> = <<in, cached, out>>
  BY <1>2 DEF Missing
<1>3. \E x, y : ClaudeCost(match, request) = <<in, cached, x, y, out>>
  BY <1>1 DEF ClaudeCost
<1>4. \E x, y : CodexCost(match, request) = <<in, cached, x, y, out>>
  BY <1>1 DEF CodexCost
<1>5. \E x, y : KimiCost(match, request) = <<in, cached, x, y, out>>
  BY DEF KimiCost
<1>6. \E x, y : QwenCost(match, request) = <<in, cached, x, y, out>>
  BY DEF QwenCost
<1> HIDE DEF in, cached, out
<1> QED
  BY <1>2, <1>3, <1>4, <1>5, <1>6 DEF in, cached, out

\* An alias whose saving was answered prices its model from its target in that
\* dashboard, whatever any number of handlers and dashboards save meanwhile,
\* until its own key is changed or the dashboard stops.
THEOREM SavedAliasesPrice ==
  ASSUME Configured, LoansUndated PROVE AliasesSpec => []SavedMeansPriced
<1>1. ASSUME AliasesInv PROVE SavedMeansPriced
  <2> SUFFICES ASSUME NEW p \in Processes, dash[p].up, NEW key \in DOMAIN answered[p]
               PROVE  LET to == answered[p][key]
                          match == Resolution(p, key)
                          cost == Cost(dash[p], AliasesOf(dash[p].snap, key[1]), IndexOf(p),
                                       [source |-> key[1], provider |-> key[2], model |-> key[3],
                                        long |-> FALSE, tier |-> "standard", at |-> now])
                      IN  IF to = NoTarget THEN match.kind # "user_alias"
                          ELSE /\ match.kind = "user_alias" /\ match.source = to.source /\ match.model = to.model
                               /\ cost # Missing
                               /\ <<cost[1], cost[2], cost[5]>> = ListPrice(p, to)
    BY DEF SavedMeansPriced
  <2> DEFINE to == answered[p][key]
             s == key[1]
             w == World(dash[p])
             aliases == AliasesOf(dash[p].snap, s)
             index == IndexOf(p)
             request == [source |-> s, provider |-> key[2], model |-> key[3],
                         long |-> FALSE, tier |-> "standard", at |-> now]
             match == Resolution(p, key)
             cost == Cost(dash[p], aliases, index, request)
  <2>1. Has(dash[p].snap, key, to) /\ Fit(w, key, to) /\ w \in Worlds /\ now \in Nat
    BY <1>1 DEF AliasesInv, AnswersHold, Holds, Indexes, Shapes
  <2>2. key = <<s, key[2], key[3]>>
    BY <2>1 DEF Fit
  <2>3. match = Resolve(dash[p], s, aliases, index, key[2], key[3], now)
    BY DEF Resolution
  <2>4. CASE to = NoTarget
    <3>1. key \notin DOMAIN aliases
      BY <2>1, <2>4 DEF Has, AliasesOf
    <3>2. <<s, key[2], key[3]>> \notin DOMAIN aliases
      BY <2>2, <3>1
    <3>3. match.kind # "user_alias"
      BY <2>3, <3>2, NothingSaved
    <3> QED
      BY <2>4, <3>3
  <2>5. CASE to # NoTarget
    <3>1. key \in DOMAIN aliases /\ aliases[key] = to
      BY <2>1, <2>5 DEF Has, AliasesOf
    <3>2. PICK e \in Edits : e.key = key /\ e.to = to
      BY <1>1, <2>1, <2>5 DEF AliasesInv, AllFromEdits, FromEdits, Has
    <3>3. PICK day \in Nat : index = LoadedIndex(w, day)
      BY <1>1, IndexOfIs DEF AliasesInv, AnIndex
    <3> DEFINE rate == RateAt(to.source, Base(w, to.source).models[to.model], now)
               found == AliasMatch(w, s, to, index, now)
    <3>4. /\ found.kind = "user_alias" /\ found.source = to.source /\ found.model = to.model
          /\ found.rate.in = rate.in /\ found.rate.cached = rate.cached /\ found.rate.out = rate.out
          /\ rate.in \in Nat /\ rate.cached \in Nat /\ rate.out \in Nat /\ Usable(rate)
      <4>1. w \in Worlds /\ Fit(w, e.key, e.to) /\ now \in Nat
        BY <2>1, <3>2
      <4> DEFINE owner == RateAt(e.to.source, Base(w, e.to.source).models[e.to.model], now)
                 other == AliasMatch(w, e.key[1], e.to, LoadedIndex(w, day), now)
      <4>2. /\ other.kind = "user_alias" /\ other.source = e.to.source /\ other.model = e.to.model
            /\ other.rate.in = owner.in /\ other.rate.cached = owner.cached /\ other.rate.out = owner.out
            /\ owner.in \in Nat /\ owner.cached \in Nat /\ owner.out \in Nat /\ Usable(owner)
        <5> HIDE DEF w
        <5> QED
          BY <4>1, FitMatches
      <4>3. owner = rate /\ other = found
        <5> HIDE DEF w, to, index
        <5> QED
          BY <3>2, <3>3, Zenon
      <4> HIDE DEF owner, other, rate, found, w, to, index, aliases
      <4> QED
        BY <3>2, <4>2, <4>3
    <3>5. found = AliasMatch(dash[p], s, to, index, now)
      <4> HIDE DEF s, to, index
      <4> QED
        BY MatchOfWorld
    <3> HIDE DEF found, aliases, index, rate
    <3>6. Resolve(dash[p], s, aliases, index, key[2], key[3], now) = found
      BY <2>2, <3>1, <3>4, <3>5 DEF Resolve
    <3>7. Usable(found.rate)
      BY <3>4 DEF Usable
    <3>8. (IF s = "claude" THEN "anthropic" ELSE key[2]) = key[2]
      BY <2>1, <2>5 DEF Fit
    <3>9. /\ request.source = s /\ request.provider = key[2] /\ request.model = key[3]
          /\ ~request.long /\ request.tier = "standard" /\ request.at = now
      OBVIOUS
    <3> HIDE DEF request
    <3>10. cost \in {ClaudeCost(found, request), CodexCost(found, request),
                     KimiCost(found, request), QwenCost(found, request)}
      BY <3>6, <3>7, <3>8, <3>9 DEF Cost
    <3>11. cost # Missing /\ <<cost[1], cost[2], cost[5]>> = <<found.rate.in, found.rate.cached, found.rate.out>>
      BY <3>4, <3>9, <3>10, OrdinaryCosts
    <3>12. ListPrice(p, to) = <<rate.in, rate.cached, rate.out>>
      BY WorldIs DEF ListPrice, rate
    <3> HIDE DEF cost, match
    <3>13. match = found
      BY <2>3, <3>6
    <3>14. cost # Missing /\ <<cost[1], cost[2], cost[5]>> = ListPrice(p, to)
      BY <3>4, <3>11, <3>12
    <3> QED
      BY <2>5, <3>4, <3>13, <3>14 DEF cost, match, request, aliases, index
  <2> QED
    BY <2>4, <2>5
<1> QED
  BY <1>1, Starts, Inductive, PTL DEF AliasesSpec

-----------------------------------------------------------------------------
(* QUOTAS                                                                  *)

AnyAnswer == [status : {"ok", "stale", "unavailable"}, asOf : Nat, failed : BOOLEAN]
AnyAsker == [pc : {"idle", "waiting", "fetching"}, began : Nat, gone : BOOLEAN]
Past == 0..clock

QuotaTyped ==
  /\ kind \in Kinds /\ clock \in Nat /\ switchedOn \in BOOLEAN
  /\ rollouts \in [Agents -> [written : Past, limits : Past]]
  /\ snapshot \in Past /\ rendering \in [Agents -> Past]
  /\ lastAnswer \in AnyAnswer /\ fetchedAt \in Past /\ lastGood \in Past
  /\ holder \in Askers \union {NoAsker} /\ asker \in [Askers -> AnyAsker]
  /\ newest \in Nat

\* Who asks the account has the mutex, has asked for no longer than is allowed, and
\* began when what is kept was there already.
OneAsks ==
  \A r \in Askers : asker[r].pc = "fetching" =>
    /\ holder = r
    /\ fetchedAt <= asker[r].began /\ asker[r].began <= clock /\ clock - asker[r].began <= Patience

\* What is kept was good when it was asked for.
KeptFresh == lastAnswer.status = "ok" => fetchedAt - lastAnswer.asOf <= StaleAfter

\* What is kept of a service that is asked is the last good answer, or that there is
\* nothing; nobody was told anything newer.
KeptGood ==
  kind \in {"kimi", "minimax"} =>
    /\ lastAnswer = Unavailable \/ lastAnswer.asOf = lastGood
    /\ newest <= lastGood /\ lastGood <= fetchedAt

QuotaInv == QuotaTyped /\ OneAsks /\ KeptFresh /\ KeptGood

LEMMA QuotaInitInv == ASSUME QuotaInit PROVE QuotaInv
<1>1. Unavailable \in AnyAnswer /\ NotAsking \in AnyAsker /\ NotAsking.pc = "idle" /\ Unavailable.status = "unavailable"
  BY DEF Unavailable, NotAsking, AnyAnswer, AnyAsker
<1>2. 0 \in 0..1 /\ [written |-> 0, limits |-> 0] \in [written : 0..1, limits : 0..1]
  OBVIOUS
<1>3. QuotaTyped
  BY <1>1, <1>2 DEF QuotaInit, QuotaTyped, Past
<1> QED BY <1>1, <1>3 DEF QuotaInit, QuotaInv, OneAsks, KeptFresh, KeptGood

\* A step that leaves the requests and what is kept as they are.
LEMMA QuotaQuiet ==
  ASSUME QuotaInv, UNCHANGED <<kind, lastAnswer, fetchedAt, lastGood, newest, holder, asker>>,
         UNCHANGED clock, QuotaTyped'
  PROVE  QuotaInv'
BY DEF QuotaInv, OneAsks, KeptFresh, KeptGood

LEMMA AgentsInv ==
  ASSUME QuotaInv, SwitchSource \/ \E g \in Agents : CodexWrites(g) \/ Render(g) \/ WriteSnapshot(g)
  PROVE  QuotaInv'
<1>t. QuotaTyped BY DEF QuotaInv
<1>n. clock \in Past BY <1>t DEF QuotaTyped, Past
<1>1. CASE SwitchSource
  BY <1>1, <1>t, QuotaQuiet DEF SwitchSource, QuotaTyped, Past, agentVars, cacheVars, toldVars
<1>2. ASSUME NEW g \in Agents, CodexWrites(g) PROVE QuotaInv'
  <2>1. rollouts' \in [Agents -> [written : Past, limits : Past]]
    <3>1. PICK limits \in {clock, rollouts[g].limits} :
             rollouts' = [rollouts EXCEPT ![g] = [written |-> clock, limits |-> limits]]
      BY <1>2 DEF CodexWrites
    <3>2. limits \in Past BY <1>t, <1>n DEF QuotaTyped
    <3> QED BY <3>1, <3>2, <1>t, <1>n DEF QuotaTyped
  <2>2. QuotaTyped' BY <2>1, <1>t, <1>2 DEF CodexWrites, QuotaTyped, Past, cacheVars, toldVars
  <2> QED BY <2>2, <1>2, QuotaQuiet DEF CodexWrites, cacheVars, toldVars
<1>3. ASSUME NEW g \in Agents, Render(g) PROVE QuotaInv'
  <2>1. rendering' \in [Agents -> Past] BY <1>3, <1>t, <1>n DEF Render, QuotaTyped
  <2>2. QuotaTyped' BY <2>1, <1>t, <1>3 DEF Render, QuotaTyped, Past, cacheVars, toldVars
  <2> QED BY <2>2, <1>3, QuotaQuiet DEF Render, cacheVars, toldVars
<1>4. ASSUME NEW g \in Agents, WriteSnapshot(g) PROVE QuotaInv'
  <2>1. rendering' \in [Agents -> Past] /\ snapshot' \in Past
    BY <1>4, <1>t DEF WriteSnapshot, QuotaTyped, Past
  <2>2. QuotaTyped' BY <2>1, <1>t, <1>4 DEF WriteSnapshot, QuotaTyped, Past, cacheVars, toldVars
  <2> QED BY <2>2, <1>4, QuotaQuiet DEF WriteSnapshot, cacheVars, toldVars
<1> QED BY <1>1, <1>2, <1>3, <1>4

LEMMA TimePassesInv == ASSUME QuotaInv, TimePasses PROVE QuotaInv'
<1>t. QuotaTyped BY DEF QuotaInv
<1>1. /\ clock' = clock + 1 /\ clock' \in Nat /\ Past \subseteq Past'
      /\ UNCHANGED <<kind, switchedOn, rollouts, snapshot, rendering, lastAnswer, fetchedAt, lastGood, holder, asker, told, newest>>
  BY <1>t DEF TimePasses, QuotaTyped, Past, agentVars, cacheVars, toldVars
<1>2. \A r \in Askers : asker[r].pc = "fetching" => clock - asker[r].began < Patience /\ asker[r].began \in Nat
  BY <1>t DEF TimePasses, QuotaTyped, AnyAsker
<1>3. QuotaTyped'
  <2>1. [written : Past, limits : Past] \subseteq [written : Past', limits : Past']
    BY <1>1
  <2> QED BY <1>1, <1>t, <2>1 DEF QuotaTyped
<1>4. OneAsks'
  <2> SUFFICES ASSUME NEW r \in Askers, asker'[r].pc = "fetching"
               PROVE  /\ holder' = r /\ fetchedAt' <= asker'[r].began
                      /\ asker'[r].began <= clock' /\ clock' - asker'[r].began <= Patience
    BY DEF OneAsks
  <2>1. asker[r].pc = "fetching" /\ asker[r].began \in Nat /\ clock - asker[r].began < Patience
    BY <1>1, <1>2
  <2>2. holder = r /\ fetchedAt <= asker[r].began /\ asker[r].began <= clock
    BY <2>1 DEF QuotaInv, OneAsks
  <2> QED BY <2>1, <2>2, <1>1, <1>t, QuotaAssumption DEF QuotaTyped
<1>5. KeptFresh' /\ KeptGood'
  BY <1>1 DEF QuotaInv, KeptFresh, KeptGood
<1> QED BY <1>3, <1>4, <1>5 DEF QuotaInv

\* The answers there can be, by when they were observed.
LEMMA CodexTimes ==
  ASSUME QuotaInv, NEW r \in Askers, asker[r].pc = "fetching", NEW answer \in CodexAnswers(r)
  PROVE  answer \in AnyAnswer /\ (answer.status = "ok" => asker[r].began - answer.asOf <= StaleAfter)
<1>t. QuotaTyped BY DEF QuotaInv
<1>0. Unavailable \in AnyAnswer /\ Failure \in AnyAnswer /\ Unavailable.status # "ok" /\ Failure.status # "ok"
  BY DEF Unavailable, Failure, AnyAnswer
<1>1. CASE answer \in {Failure, Unavailable}
  BY <1>0, <1>1
<1>2. CASE \E at \in LatestLimits : answer = Aged(at, asker[r].began)
  <2>1. PICK at \in LatestLimits : answer = Aged(at, asker[r].began)
    BY <1>2
  <2>2. at \in Nat
    BY <2>1, <1>t DEF LatestLimits, QuotaTyped, Past
  <2>3. asker[r].began \in Nat
    BY <1>t DEF QuotaTyped, AnyAsker
  <2>4. answer \in AnyAnswer
    BY <2>1, <2>2 DEF Aged, StatusForAge, AnyAnswer
  <2>5. answer.status = "ok" => asker[r].began - answer.asOf <= StaleAfter
    BY <2>1, <2>2, <2>3, QuotaAssumption DEF Aged, StatusForAge
  <2> QED BY <2>4, <2>5
<1> QED BY <1>1, <1>2 DEF CodexAnswers

LEMMA LiveTimes ==
  ASSUME QuotaInv, NEW r \in Askers, asker[r].pc = "fetching", NEW answer \in LiveAnswers(r)
  PROVE  /\ answer \in AnyAnswer
         /\ answer.status = "ok" => answer.asOf = asker[r].began
         /\ answer = Unavailable \/ answer.asOf = IF answer.status = "ok" THEN asker[r].began ELSE lastGood
<1>t. QuotaTyped BY DEF QuotaInv
<1>0. /\ Unavailable \in AnyAnswer /\ Failure \in AnyAnswer /\ Unavailable.status # "ok"
      /\ Failure.status # "ok" /\ Failure.asOf = 0
  BY DEF Unavailable, Failure, AnyAnswer
<1>1. CASE answer = Unavailable
  BY <1>0, <1>1
<1>2. CASE answer = Remembered
  <2>1. Remembered \in AnyAnswer /\ Remembered.status # "ok" /\ Remembered.asOf = lastGood
    BY <1>0, <1>t DEF Remembered, AnyAnswer, QuotaTyped, Past
  <2> QED BY <1>2, <2>1
<1>3. CASE answer = [status |-> "ok", asOf |-> asker[r].began, failed |-> FALSE]
  <2>1. asker[r].began \in Nat BY <1>t DEF QuotaTyped, AnyAsker
  <2> QED BY <1>3, <2>1 DEF AnyAnswer
<1> QED BY <1>1, <1>2, <1>3 DEF LiveAnswers

\* A request that waits, leaves or is told something.
LEMMA RequestsInv ==
  ASSUME QuotaInv, NEW r \in Askers, Asks(r) \/ ReadClaude(r) \/ TellCached(r) \/ Leaves(r)
  PROVE  QuotaInv'
<1>t. QuotaTyped BY DEF QuotaInv
<1>1. /\ UNCHANGED <<kind, clock, switchedOn, rollouts, snapshot, rendering, lastAnswer, fetchedAt, lastGood, holder>>
      /\ asker' \in [Askers -> AnyAsker]
      /\ \A q \in Askers : asker'[q].pc = "fetching" => asker[q].pc = "fetching" /\ asker'[q].began = asker[q].began
  <2>1. CASE Asks(r)
    BY <2>1, <1>t DEF Asks, QuotaTyped, AnyAsker, agentVars, cacheVars, toldVars
  <2>2. CASE Leaves(r)
    BY <2>2, <1>t DEF Leaves, QuotaTyped, AnyAsker, agentVars, cacheVars, toldVars
  <2>3. NotAsking \in AnyAsker /\ NotAsking.pc = "idle"
    BY DEF NotAsking, AnyAsker
  <2>4. CASE ReadClaude(r)
    BY <2>4, <2>3, <1>t DEF ReadClaude, Tells, QuotaTyped, agentVars, cacheVars
  <2>5. CASE TellCached(r)
    BY <2>5, <2>3, <1>t DEF TellCached, Tells, QuotaTyped, agentVars, cacheVars
  <2> QED BY <2>1, <2>2, <2>4, <2>5
<1>2. newest' \in Nat /\ (kind \in {"kimi", "minimax"} => newest' = newest \/ newest' = lastGood)
  <2>1. CASE Asks(r) \/ Leaves(r)
    BY <2>1, <1>t DEF Asks, Leaves, QuotaTyped, toldVars
  <2>2. CASE ReadClaude(r)
    BY <2>2, <1>t DEF ReadClaude, Tells, ClaudeAnswer, Unavailable, Aged, QuotaTyped, Past
  <2>3. CASE TellCached(r)
    BY <2>3, <1>t DEF TellCached, Tells, QuotaInv, KeptGood, QuotaTyped, AnyAnswer, Unavailable, Past
  <2> QED BY <2>1, <2>2, <2>3
<1>3. QuotaTyped' BY <1>1, <1>2, <1>t DEF QuotaTyped, Past
<1>4. OneAsks' BY <1>1 DEF QuotaInv, OneAsks
<1>5. KeptFresh' /\ KeptGood' BY <1>1, <1>2, <1>t DEF QuotaInv, KeptFresh, KeptGood, QuotaTyped, Past
<1> QED BY <1>3, <1>4, <1>5 DEF QuotaInv

LEMMA FetchInv == ASSUME QuotaInv, NEW r \in Askers, Fetch(r) PROVE QuotaInv'
<1>t. QuotaTyped BY DEF QuotaInv
<1>1. /\ holder = NoAsker /\ holder' = r
      /\ UNCHANGED <<kind, clock, switchedOn, rollouts, snapshot, rendering, lastAnswer, fetchedAt, lastGood, newest>>
      /\ asker' \in [Askers -> AnyAsker] /\ asker'[r].began = clock
      /\ \A q \in Askers \ {r} : asker'[q] = asker[q]
  BY <1>t DEF Fetch, QuotaTyped, AnyAsker, agentVars, cacheVars, toldVars
<1>2. \A q \in Askers : asker[q].pc # "fetching"
  BY <1>1, QuotaAssumption DEF QuotaInv, OneAsks
<1>3. QuotaTyped' BY <1>1, <1>t DEF QuotaTyped, Past
<1>4. OneAsks' BY <1>1, <1>2, <1>t, QuotaAssumption DEF OneAsks, QuotaTyped, Past
<1>5. KeptFresh' /\ KeptGood' BY <1>1 DEF QuotaInv, KeptFresh, KeptGood
<1> QED BY <1>3, <1>4, <1>5 DEF QuotaInv

\* What a question may be answered.
LEMMA FetchedTimes ==
  ASSUME QuotaInv, NEW r \in Askers, FetchedCodex(r) \/ FetchedLive(r)
  PROVE  \E answer \in AnyAnswer :
           /\ Fetched(r, answer)
           /\ answer.status = "ok" => asker[r].began - answer.asOf <= StaleAfter
           /\ kind # "codex" => answer = Unavailable \/ answer.asOf = IF answer.status = "ok" THEN asker[r].began ELSE lastGood
<1>b. asker[r].began \in Nat
  BY DEF QuotaInv, QuotaTyped, AnyAsker
<1>1. CASE FetchedCodex(r)
  <2>1. PICK answer \in CodexAnswers(r) : Fetched(r, answer)
    BY <1>1 DEF FetchedCodex
  <2>2. kind = "codex" /\ asker[r].pc = "fetching"
    BY <1>1, <2>1 DEF FetchedCodex, Fetched
  <2> QED BY <2>1, <2>2, CodexTimes
<1>2. CASE FetchedLive(r)
  <2>1. PICK answer \in LiveAnswers(r) : Fetched(r, answer)
    BY <1>2 DEF FetchedLive
  <2>2. asker[r].pc = "fetching"
    BY <2>1 DEF Fetched
  <2> QED BY <2>1, <2>2, <1>b, LiveTimes, QuotaAssumption
<1> QED BY <1>1, <1>2

LEMMA FetchedInv ==
  ASSUME QuotaInv, NEW r \in Askers, FetchedCodex(r) \/ FetchedLive(r) PROVE QuotaInv'
<1>t. QuotaTyped BY DEF QuotaInv
<1>1. PICK answer \in AnyAnswer :
        /\ Fetched(r, answer)
        /\ answer.status = "ok" => asker[r].began - answer.asOf <= StaleAfter
        /\ kind # "codex" => answer = Unavailable \/ answer.asOf = IF answer.status = "ok" THEN asker[r].began ELSE lastGood
  BY FetchedTimes
<1>2. /\ asker[r].pc = "fetching" /\ lastAnswer' = answer /\ fetchedAt' = asker[r].began /\ holder' = NoAsker
      /\ lastGood' = IF kind # "codex" /\ answer.status = "ok" THEN answer.asOf ELSE lastGood
      /\ asker' = [asker EXCEPT ![r] = NotAsking]
      /\ newest' = IF answer.asOf > newest THEN answer.asOf ELSE newest
      /\ UNCHANGED <<kind, clock, switchedOn, rollouts, snapshot, rendering>>
  BY <1>1 DEF Fetched, Tells, agentVars
<1>3. /\ holder = r /\ asker[r].began \in Past /\ fetchedAt <= asker[r].began /\ answer.asOf \in Nat
      /\ fetchedAt \in Nat /\ lastGood \in Past /\ lastGood \in Nat /\ newest \in Nat /\ asker[r].began \in Nat
  BY <1>2, <1>t DEF QuotaInv, OneAsks, QuotaTyped, Past, AnyAnswer, AnyAsker
<1>u. Unavailable.asOf = 0 /\ Unavailable.status # "ok" BY DEF Unavailable
<1>4. lastGood' \in Past BY <1>1, <1>2, <1>3, <1>u
<1>5. NotAsking \in AnyAsker /\ NotAsking.pc = "idle" BY DEF NotAsking, AnyAsker
<1>6. asker' \in [Askers -> AnyAsker] /\ \A q \in Askers : asker'[q].pc = "fetching" => q # r /\ asker'[q] = asker[q]
  BY <1>2, <1>5, <1>t DEF QuotaTyped
<1>7. QuotaTyped'
  BY <1>2, <1>3, <1>4, <1>6, <1>t DEF QuotaTyped, Past
<1>8. OneAsks'
  BY <1>2, <1>3, <1>6 DEF QuotaInv, OneAsks
<1>9. KeptFresh'
  BY <1>1, <1>2 DEF KeptFresh
<1>10. KeptGood'
  BY <1>1, <1>2, <1>3, <1>u DEF QuotaInv, KeptGood
<1> QED BY <1>7, <1>8, <1>9, <1>10 DEF QuotaInv

LEMMA QuotaNextInv == ASSUME QuotaInv, [QuotaNext]_quotaVars PROVE QuotaInv'
<1>1. CASE UNCHANGED quotaVars
  BY <1>1 DEF quotaVars, QuotaInv, QuotaTyped, OneAsks, KeptFresh, KeptGood, Past
<1>2. CASE QuotaNext
  BY <1>2, TimePassesInv, AgentsInv, RequestsInv, FetchInv, FetchedInv DEF QuotaNext
<1> QED BY <1>1, <1>2

\* Which steps end a request, and what they tell.
LEMMA ToldInTime ==
  ASSUME QuotaInv, QuotaNext, Ended PROVE BadgeWhenOld /\ NeverOlder
<1>t. QuotaTyped BY DEF QuotaInv
<1>u. Unavailable.asOf = 0 /\ Unavailable.status # "ok" BY DEF Unavailable
<1>1. \E r \in Askers : ReadClaude(r) \/ TellCached(r) \/ FetchedCodex(r) \/ FetchedLive(r)
  <2>1. PICK q \in Askers : asker[q].pc # "idle" /\ asker'[q].pc = "idle"
    BY DEF Ended
  <2>2. asker' # asker BY <2>1
  <2>3. ~TimePasses /\ ~SwitchSource /\ \A g \in Agents : ~CodexWrites(g) /\ ~Render(g) /\ ~WriteSnapshot(g)
    BY <2>2 DEF TimePasses, SwitchSource, CodexWrites, Render, WriteSnapshot
  <2>4. \A r \in Askers : ~Asks(r) /\ ~Fetch(r) /\ ~Leaves(r)
    BY <2>1, <1>t DEF Asks, Fetch, Leaves, QuotaTyped, AnyAsker
  <2> QED BY <2>3, <2>4 DEF QuotaNext
<1>2. PICK r \in Askers : ReadClaude(r) \/ TellCached(r) \/ FetchedCodex(r) \/ FetchedLive(r)
  BY <1>1
<1>3. CASE ReadClaude(r)
  <2>1. kind = "claude" /\ told' = ClaudeAnswer
    BY <1>3 DEF ReadClaude, Tells
  <2>2. ClaudeAnswer.status = "ok" => clock - ClaudeAnswer.asOf <= StaleAfter /\ ClaudeAnswer.asOf \in Nat
    BY <1>t, <1>u, QuotaAssumption DEF ClaudeAnswer, Aged, StatusForAge, QuotaTyped, Past
  <2>3. BadgeWhenOld
    BY <2>1, <2>2, <1>t, QuotaAssumption DEF BadgeWhenOld, QuotaTyped
  <2> QED BY <2>1, <2>3 DEF NeverOlder
<1>4. CASE TellCached(r)
  <2>1. told' = lastAnswer /\ clock - fetchedAt < TTL
    BY <1>4 DEF TellCached, Tells, Recent
  <2>2. BadgeWhenOld
    BY <2>1, <1>t, QuotaAssumption DEF BadgeWhenOld, QuotaInv, KeptFresh, QuotaTyped, AnyAnswer, Past
  <2>3. NeverOlder
    BY <2>1 DEF NeverOlder, QuotaInv, KeptGood
  <2> QED BY <2>2, <2>3
<1>5. CASE FetchedCodex(r) \/ FetchedLive(r)
  <2>1. PICK answer \in AnyAnswer :
          /\ Fetched(r, answer)
          /\ answer.status = "ok" => asker[r].began - answer.asOf <= StaleAfter
          /\ kind # "codex" => answer = Unavailable \/ answer.asOf = IF answer.status = "ok" THEN asker[r].began ELSE lastGood
    BY <1>5, FetchedTimes
  <2>2. told' = answer /\ asker[r].pc = "fetching"
    BY <2>1 DEF Fetched, Tells
  <2>3. clock - asker[r].began <= Patience /\ fetchedAt <= asker[r].began /\ asker[r].began \in Nat /\ answer.asOf \in Nat
    BY <2>1, <2>2, <1>t DEF QuotaInv, OneAsks, QuotaTyped, AnyAsker, AnyAnswer
  <2>4. BadgeWhenOld
    BY <2>1, <2>2, <2>3, <1>t, QuotaAssumption DEF BadgeWhenOld, QuotaTyped
  <2>5. NeverOlder
    BY <2>1, <2>2, <2>3, <1>t DEF NeverOlder, QuotaInv, KeptGood, QuotaTyped, Past
  <2> QED BY <2>4, <2>5
<1> QED BY <1>2, <1>3, <1>4, <1>5

\* QuotasAreTrue: however many requests ask, leave, fail and wait for each other: an
\* answer without the badge is as fresh as the README says, and the figures of a
\* service that is asked never go back.
THEOREM QuotasStayTrue == QuotaSpec => QuotasAreTrue
<1>1. QuotaInit => QuotaInv
  BY QuotaInitInv
<1>2. QuotaInv /\ [QuotaNext]_quotaVars => QuotaInv'
  BY QuotaNextInv
<1>3. QuotaInv /\ [QuotaNext]_quotaVars => [Ended => BadgeWhenOld /\ NeverOlder]_quotaVars
  BY ToldInTime
<1> QED BY <1>1, <1>2, <1>3, PTL DEF QuotaSpec, QuotasAreTrue
=============================================================================
