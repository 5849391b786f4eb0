---------------------------- MODULE AssistantChats ----------------------------
(***************************************************************************)
(* The saved conversations of the assistant: the chat database, the key    *)
(* that signs answers, the requests that append a turn, and the tabs that  *)
(* restore a session and go on with it, over restarts and upgrades of the  *)
(* dashboard (chatstore/store.go, web/assistant.go, main.go).              *)
(*                                                                         *)
(* An answer is a number; signed tells with which key.  Two versions of    *)
(* the dashboard never run at the same time, two of the same may.          *)
(***************************************************************************)
EXTENDS Integers, Sequences, FiniteSets

CONSTANTS
  Processes,    \* numbers of dashboards; the first free one is taken
  Tabs, Versions,
  Sessions,     \* ids of sessions
  MaxAnswers, MaxHistoryKeys,
  MayFail       \* whether the database may be too busy to read the key or to append

Unkeyed == 0
NoSession == "new"
NoDB == [version |-> "none", key |-> Unkeyed]

VARIABLES
  db,        \* schema version and history key
  turns,     \* of each session; Unused, or Erased
  proc,      \* dashboards
  tab,
  signed,    \* the key each answer was signed with
  keys,      \* keys generated
  local      \* keys that could not be stored

chatVars == <<db, turns, proc, tab, signed, keys, local>>

Unused == <<-1>>
Erased == <<-2>>
Live(s) == s \in Sessions /\ turns[s] \notin {Unused, Erased}
Down == [pc |-> "down", version |-> "none", key |-> Unkeyed]
NewTab == [pc |-> "idle", session |-> NoSession, shown |-> <<>>]

ChatsInit ==
  /\ db = NoDB /\ turns = [s \in Sessions |-> Unused]
  /\ proc = [p \in Processes |-> Down] /\ tab = [t \in Tabs |-> NewTab]
  /\ signed = <<>> /\ keys = 0 /\ local = {}

-----------------------------------------------------------------------------
(* Starting: ensureSchema, HistoryKey                                      *)

\* A database of another version is emptied, the key included.
Start(p) ==
  /\ proc[p].pc = "down" /\ \A q \in Processes : q < p => proc[q].pc # "down"
  /\ \E v \in Versions :
       /\ \A q \in Processes : proc[q].pc # "down" => proc[q].version = v
       /\ proc' = [proc EXCEPT ![p] = [pc |-> "opened", version |-> v, key |-> Unkeyed]]
       /\ IF db.version = v THEN UNCHANGED <<db, turns>>
          ELSE /\ db' = [version |-> v, key |-> Unkeyed]
               /\ turns' = [s \in Sessions |-> IF turns[s] = Unused THEN Unused ELSE Erased]
  /\ UNCHANGED <<tab, signed, keys, local>>

ReadKey(p) ==
  /\ proc[p].pc = "opened"
  /\ IF db.key # Unkeyed
     THEN proc' = [proc EXCEPT ![p].pc = "up", ![p].key = db.key] /\ UNCHANGED keys
     ELSE /\ keys < MaxHistoryKeys /\ keys' = keys + 1
          /\ proc' = [proc EXCEPT ![p].pc = "generated", ![p].key = keys + 1]
  /\ UNCHANGED <<db, turns, tab, signed, local>>

\* Mutant: the last one wins.
InsertedOver(key) == key

\* ON CONFLICT DO NOTHING
Inserted(key) == IF db.key = Unkeyed THEN key ELSE db.key

InsertKey(p) ==
  /\ proc[p].pc = "generated"
  /\ db' = [db EXCEPT !.key = Inserted(proc[p].key)]
  /\ proc' = [proc EXCEPT ![p].pc = "inserted"]
  /\ UNCHANGED <<turns, tab, signed, keys, local>>

\* Mutant: the key that was generated is used.
OwnKey(p) == proc[p].key

\* The stored key is authoritative.
StoredKey(p) == db.key

ReloadKey(p) ==
  /\ proc[p].pc = "inserted"
  /\ proc' = [proc EXCEPT ![p].pc = "up", ![p].key = StoredKey(p)]
  /\ UNCHANGED <<db, turns, tab, signed, keys, local>>

\* Without the database, answers are signed with a key of this process.
KeyFails(p) ==
  /\ MayFail
  /\ proc[p].pc \in {"opened", "generated", "inserted"}
  /\ keys < MaxHistoryKeys /\ keys' = keys + 1
  /\ local' = local \union {keys + 1}
  /\ proc' = [proc EXCEPT ![p].pc = "up", ![p].key = keys + 1]
  /\ UNCHANGED <<db, turns, tab, signed>>

\* Requests of the process end with it.
Stop(p) ==
  /\ proc[p].pc # "down"
  /\ proc' = [proc EXCEPT ![p] = Down]
  /\ tab' = [t \in Tabs |-> IF tab[t].pc # "idle" /\ tab[t].at = p
                            THEN [pc |-> "idle", session |-> tab[t].session, shown |-> tab[t].shown]
                            ELSE tab[t]]
  /\ UNCHANGED <<db, turns, signed, keys, local>>

-----------------------------------------------------------------------------
(* Asking                                                                  *)

Up(p) == proc[p].pc = "up"
Set(t, x) == tab' = [tab EXCEPT ![t] = x]
TabAt(t, pc, p) == tab[t].pc = pc /\ tab[t].at = p /\ Up(p)
IdleTab(session, shown) == [pc |-> "idle", session |-> session, shown |-> shown]

\* The session must exist and every answer in the history must verify.
Ask(t, p) ==
  /\ tab[t].pc = "idle" /\ Up(p)
  /\ tab[t].session # NoSession => Live(tab[t].session)
  /\ \A i \in DOMAIN tab[t].shown : signed[tab[t].shown[i]] = proc[p].key
  /\ Set(t, [pc |-> "asked", at |-> p, session |-> tab[t].session, shown |-> tab[t].shown])
  /\ UNCHANGED <<db, turns, proc, signed, keys, local>>

Answer(t, p) ==
  /\ TabAt(t, "asked", p) /\ Len(signed) < MaxAnswers
  /\ signed' = Append(signed, proc[p].key)
  /\ Set(t, [tab[t] EXCEPT !.pc = "append", !.shown = Append(@, Len(signed) + 1)])
  /\ UNCHANGED <<db, turns, proc, keys, local>>

\* The turn failed; nothing is kept of it.
NoAnswer(t, p) ==
  /\ TabAt(t, "asked", p)
  /\ Set(t, IdleTab(tab[t].session, tab[t].shown))
  /\ UNCHANGED <<db, turns, proc, signed, keys, local>>

\* A new session when the tab has none; nowhere when the session is gone.
Where(s) ==
  IF s = NoSession THEN {x \in Sessions : turns[x] = Unused}
  ELSE {x \in {s} : Live(x)}

\* One transaction.  The browser may have gone meanwhile.
AppendTurn(t, p) ==
  /\ TabAt(t, "append", p)
  /\ \E s \in Where(tab[t].session) :
       /\ turns' = [turns EXCEPT ![s] = Append(IF Live(s) THEN @ ELSE <<>>, tab[t].shown[Len(tab[t].shown)])]
       /\ tab' \in {[tab EXCEPT ![t] = IdleTab(s, tab[t].shown)], [tab EXCEPT ![t] = NewTab]}
  /\ UNCHANGED <<db, proc, signed, keys, local>>

\* The answer is shown all the same.
NotPersisted(t, p) ==
  /\ TabAt(t, "append", p)
  /\ MayFail \/ Where(tab[t].session) = {}
  /\ Set(t, IdleTab(tab[t].session, tab[t].shown))
  /\ UNCHANGED <<db, turns, proc, signed, keys, local>>

-----------------------------------------------------------------------------
(* Restoring: GetSession reads the session, its messages, and their tool   *)
(* calls one after the other                                               *)

ReadSession(t, p) ==
  /\ tab[t].pc = "idle" /\ Up(p)
  /\ \E s \in Sessions :
       /\ Live(s)
       /\ Set(t, [pc |-> "messages", at |-> p, session |-> s, shown |-> <<>>, count |-> Len(turns[s])])
  /\ UNCHANGED <<db, turns, proc, signed, keys, local>>

Rows(s) == IF Live(s) THEN turns[s] ELSE <<>>

ReadMessages(t, p) ==
  /\ TabAt(t, "messages", p)
  /\ Set(t, [pc |-> "calls", at |-> p, session |-> tab[t].session, shown |-> Rows(tab[t].session),
             count |-> tab[t].count])
  /\ UNCHANGED <<db, turns, proc, signed, keys, local>>

Among(answers) == {answers[i] : i \in DOMAIN answers}

\* Mutant: the answers are taken from the tool calls.
AttachedAll(messages, rows) == Among(rows)

\* The answers with their calls: those of messages that were not read are left out.
Attached(messages, rows) == Among(messages) \intersect Among(rows)

ReadCalls(t, p) ==
  /\ TabAt(t, "calls", p)
  /\ Set(t, [pc |-> "restored", at |-> p, session |-> tab[t].session, shown |-> tab[t].shown,
             count |-> tab[t].count, calls |-> Attached(tab[t].shown, Rows(tab[t].session))])
  /\ UNCHANGED <<db, turns, proc, signed, keys, local>>

Restore(t, p) ==
  /\ TabAt(t, "restored", p)
  /\ Set(t, IdleTab(tab[t].session, tab[t].shown))
  /\ UNCHANGED <<db, turns, proc, signed, keys, local>>

DeleteSession(s) ==
  /\ Live(s) /\ \E p \in Processes : Up(p)
  /\ turns' = [turns EXCEPT ![s] = Erased]
  /\ UNCHANGED <<db, proc, tab, signed, keys, local>>

NewChat(t) ==
  /\ tab[t].pc = "idle" /\ tab[t] # NewTab
  /\ Set(t, NewTab)
  /\ UNCHANGED <<db, turns, proc, signed, keys, local>>

ChatsNext ==
  \/ \E p \in Processes :
       \/ Start(p) \/ ReadKey(p) \/ InsertKey(p) \/ ReloadKey(p) \/ KeyFails(p) \/ Stop(p)
       \/ \E t \in Tabs :
            \/ Ask(t, p) \/ Answer(t, p) \/ NoAnswer(t, p) \/ AppendTurn(t, p) \/ NotPersisted(t, p)
            \/ ReadSession(t, p) \/ ReadMessages(t, p) \/ ReadCalls(t, p) \/ Restore(t, p)
  \/ \E t \in Tabs : NewChat(t)
  \/ \E s \in Sessions : DeleteSession(s)

ChatsSpec == ChatsInit /\ [][ChatsNext]_chatVars

-----------------------------------------------------------------------------
(* Properties                                                              *)

\* Whichever dashboards were started at the same time, stopped and upgraded,
\* a stored conversation can be continued: every answer verifies with the key
\* of every dashboard that could read the stored one.  Excepted are answers of a
\* dashboard that could not, which it signed with a key that dies with it.
HistoryVerifies ==
  \A p \in Processes, s \in Sessions :
    Up(p) /\ proc[p].key \notin local /\ Live(s) =>
      \A i \in DOMAIN turns[s] : signed[turns[s][i]] \in {proc[p].key} \union local

\* A session that is restored while other tabs append to it shows every answer
\* with its tool calls, and begins with the turns its totals count.
RestoredWhole ==
  \A t \in Tabs : tab[t].pc = "restored" /\ Live(tab[t].session) =>
    /\ tab[t].calls = Among(tab[t].shown)
    /\ tab[t].count <= Len(tab[t].shown)
    /\ \A i \in DOMAIN tab[t].shown : turns[tab[t].session][i] = tab[t].shown[i]
=============================================================================
