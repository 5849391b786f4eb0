------------------------------- MODULE KimiLogin -------------------------------
(***************************************************************************)
(* The login of Kimi Code, which the quota collector and the assistant     *)
(* share with Kimi Code itself (quota/kimi_auth.go): one credential file,  *)
(* an authorization server that takes every refresh token once, and a lock *)
(* directory that is kept alive by touching it and taken over when nobody  *)
(* has touched it for a while.                                             *)
(*                                                                         *)
(* A credential, an access token with the refresh token that renews it, is *)
(* a number; credentials are numbered as they are issued.  Kimi Code keeps *)
(* to the same protocol and is a refresher like the others.                *)
(***************************************************************************)
EXTENDS Integers, FiniteSets

CONSTANTS
  Refreshers,   \* the collectors and assistants of all dashboards, and Kimi Code
  MaxIssued,    \* credentials the server issues
  MaxEvents,    \* faults, and what the user and the server do in between
  MayPause      \* whether a process may be stopped for longer than a lock lives

ASSUME LoginAssumption ==
  /\ "" \notin Refreshers
  /\ MaxIssued \in Nat \ {0} /\ MaxEvents \in Nat /\ MayPause \in BOOLEAN

Missing == 0    \* no credential file
Revoked == -1   \* the tombstone
Nobody == [by |-> "", stale |-> FALSE]
Resting == [pc |-> "idle", token |-> 0, knew |-> 0, got |-> 0]

VARIABLES
  credential,   \* the file
  lock,         \* the directory: who made it, whether it looks abandoned
  agent,        \* ensureFreshAccessToken of each refresher
  paused,
  accepted,     \* refresh tokens the server would take
  issued,
  due,          \* the newest credential that needs to be refreshed
  dropped,      \* credentials that went with a reply, a process, a failed write or a logout
  robbed,       \* whether a lock was removed under a refresher that holds it
  events

loginVars == <<credential, lock, agent, paused, accepted, issued, due, dropped, robbed, events>>

LoginInit ==
  /\ credential = 1 /\ issued = 1 /\ accepted = {1} /\ due = 0
  /\ lock = Nobody /\ agent = [a \in Refreshers |-> Resting] /\ paused = {}
  /\ dropped = {} /\ robbed = FALSE /\ events = 0

Readable == credential \notin {Missing, Revoked}
Runs(a, pc) == agent[a].pc = pc /\ a \notin paused
Turns(a, pc) == agent' = [agent EXCEPT ![a].pc = pc]
Event == events < MaxEvents /\ events' = events + 1

-----------------------------------------------------------------------------
(* acquireKimiRefreshLock, with the heartbeat and the release              *)

Working(a) == agent[a].pc \in {"reread", "ask", "rejected", "refused", "mark", "store", "release"}

\* A credential that is not due, or cannot be read, needs no lock.
BeginRefresh(a) ==
  /\ Runs(a, "idle") /\ Readable /\ credential <= due
  /\ agent' = [agent EXCEPT ![a] = [pc |-> "wait", token |-> credential, knew |-> due, got |-> 0]]
  /\ UNCHANGED <<credential, lock, paused, accepted, issued, due, dropped, robbed, events>>

\* Mutant: a directory that is there counts as made.
TakeLockAnyway(a) ==
  /\ Runs(a, "wait")
  /\ lock' = [by |-> a, stale |-> FALSE]
  /\ Turns(a, "reread")
  /\ UNCHANGED <<credential, paused, accepted, issued, due, dropped, robbed, events>>

TakeLock(a) ==
  /\ Runs(a, "wait") /\ lock = Nobody
  /\ lock' = [by |-> a, stale |-> FALSE]
  /\ Turns(a, "reread")
  /\ UNCHANGED <<credential, paused, accepted, issued, due, dropped, robbed, events>>

FindStale(a) ==
  /\ Runs(a, "wait") /\ lock # Nobody /\ lock.stale
  /\ Turns(a, "stale")
  /\ UNCHANGED <<credential, lock, paused, accepted, issued, due, dropped, robbed, events>>

\* By then the directory may be another one.
RemoveStale(a) ==
  /\ Runs(a, "stale")
  /\ lock' = Nobody /\ robbed' = (robbed \/ \E b \in Refreshers : lock.by = b /\ Working(b))
  /\ Turns(a, "wait")
  /\ UNCHANGED <<credential, paused, accepted, issued, due, dropped, events>>

\* The budget for lock and refresh is used up, or the directory cannot be removed.
GiveUpLock(a) ==
  /\ Runs(a, "wait") \/ Runs(a, "stale")
  /\ Turns(a, "idle")
  /\ UNCHANGED <<credential, lock, paused, accepted, issued, due, dropped, robbed, events>>

\* Whoever has taken the lock touches the directory, whosever it is.
Beats(a) == Working(a) /\ a \notin paused

Beat(a) ==
  /\ Beats(a) /\ lock # Nobody /\ lock.stale
  /\ lock' = [lock EXCEPT !.stale = FALSE]
  /\ UNCHANGED <<credential, agent, paused, accepted, issued, due, dropped, robbed, events>>

\* kimiRefreshLockStaleAfter without a heartbeat.
LockAges ==
  /\ lock # Nobody /\ ~lock.stale /\ \A a \in Refreshers : ~Beats(a)
  /\ lock' = [lock EXCEPT !.stale = TRUE]
  /\ UNCHANGED <<credential, agent, paused, accepted, issued, due, dropped, robbed, events>>

Release(a) ==
  /\ Runs(a, "release")
  /\ lock' = Nobody /\ robbed' = (robbed \/ \E b \in Refreshers \ {a} : lock.by = b /\ Working(b))
  /\ Turns(a, "idle")
  /\ UNCHANGED <<credential, paused, accepted, issued, due, dropped, events>>

-----------------------------------------------------------------------------
(* ensureFreshAccessToken with the lock, refreshKimiOAuthToken             *)

\* Another process may have refreshed it; what is due is told by the time the
\* refresh began.  A file that has gone leaves the credential that was read.
Reread(a) ==
  /\ Runs(a, "reread")
  /\ IF credential = Revoked \/ (Readable /\ credential > agent[a].knew)
     THEN Turns(a, "release")
     ELSE agent' = [agent EXCEPT ![a].pc = "ask", ![a].token = IF Readable THEN credential ELSE @]
  /\ UNCHANGED <<credential, lock, paused, accepted, issued, due, dropped, robbed, events>>

Issue == issued < MaxIssued /\ issued' = issued + 1

\* The server takes the refresh token and issues the next credential.
Rotate(a) ==
  /\ Runs(a, "ask") /\ agent[a].token \in accepted
  /\ Issue /\ accepted' = (accepted \ {agent[a].token}) \union {issued'}
  /\ agent' = [agent EXCEPT ![a].pc = "store", ![a].got = issued']
  /\ UNCHANGED <<credential, lock, paused, due, dropped, robbed, events>>

\* It does, but the reply is lost: tried again, or given up.
ReplyLost(a) ==
  /\ Runs(a, "ask") /\ agent[a].token \in accepted /\ Event
  /\ Issue /\ accepted' = (accepted \ {agent[a].token}) \union {issued'}
  /\ dropped' = dropped \union {issued'}
  /\ Turns(a, "ask") \/ Turns(a, "release")
  /\ UNCHANGED <<credential, lock, paused, due, robbed>>

\* invalid_grant
Rejected(a) ==
  /\ Runs(a, "ask") /\ agent[a].token \notin accepted
  /\ Turns(a, "rejected")
  /\ UNCHANGED <<credential, lock, paused, accepted, issued, due, dropped, robbed, events>>

\* Another refusal, 401 or 403.
RefusedToken(a) ==
  /\ Runs(a, "ask") /\ Event
  /\ Turns(a, "refused")
  /\ UNCHANGED <<credential, lock, paused, accepted, issued, due, dropped, robbed>>

\* No answer that counts, after the last attempt or at the deadline.
AskFails(a) ==
  /\ Runs(a, "ask")
  /\ Turns(a, "release")
  /\ UNCHANGED <<credential, lock, paused, accepted, issued, due, dropped, robbed, events>>

\* Mutant: any refusal ends the login.
RecoverHarsh(a) ==
  /\ Runs(a, "rejected") \/ Runs(a, "refused")
  /\ Turns(a, IF Readable /\ credential # agent[a].token THEN "release" ELSE "mark")
  /\ UNCHANGED <<credential, lock, paused, accepted, issued, due, dropped, robbed, events>>

\* The file is read once more after a refusal, unless the deadline is reached
\* first; a refusal that is not a confirmed revocation leaves it alone.
Recover(a) ==
  /\ Runs(a, "rejected") \/ Runs(a, "refused")
  /\ \/ Turns(a, IF Runs(a, "refused") \/ (Readable /\ credential # agent[a].token) THEN "release" ELSE "mark")
     \/ Turns(a, "release")
  /\ UNCHANGED <<credential, lock, paused, accepted, issued, due, dropped, robbed, events>>

Mark(a) ==
  /\ Runs(a, "mark")
  /\ credential' = Revoked
  /\ Turns(a, "release")
  /\ UNCHANGED <<lock, paused, accepted, issued, due, dropped, robbed, events>>

\* One rename puts the credential in place.
Store(a) ==
  /\ Runs(a, "store")
  /\ credential' = agent[a].got
  /\ Turns(a, "release")
  /\ UNCHANGED <<lock, paused, accepted, issued, due, dropped, robbed, events>>

\* writeKimiOAuthToken: what was issued is not kept anywhere else.
WriteFails(a) ==
  /\ Runs(a, "store") \/ Runs(a, "mark")
  /\ Event
  /\ dropped' = IF Runs(a, "store") THEN dropped \union {agent[a].got} ELSE dropped
  /\ Turns(a, "release")
  /\ UNCHANGED <<credential, lock, paused, accepted, issued, due, robbed>>

-----------------------------------------------------------------------------
(* What happens around them                                                *)

\* The process ends; its heartbeat with it.
Dies(a) ==
  /\ agent[a].pc # "idle" /\ Event
  /\ agent' = [agent EXCEPT ![a] = Resting] /\ paused' = paused \ {a}
  /\ dropped' = IF agent[a].pc = "store" THEN dropped \union {agent[a].got} ELSE dropped
  /\ UNCHANGED <<credential, lock, accepted, issued, due, robbed>>

Pause(a) ==
  /\ MayPause /\ agent[a].pc # "idle" /\ a \notin paused /\ Event
  /\ paused' = paused \union {a}
  /\ UNCHANGED <<credential, lock, agent, accepted, issued, due, dropped, robbed>>

Resume(a) ==
  /\ a \in paused /\ paused' = paused \ {a}
  /\ UNCHANGED <<credential, lock, agent, accepted, issued, due, dropped, robbed, events>>

ComesDue ==
  /\ Readable /\ credential > due /\ due' = credential
  /\ UNCHANGED <<credential, lock, agent, paused, accepted, issued, dropped, robbed, events>>

\* The user logs in, which takes longer than a refresh, where a login is asked for.
LogIn ==
  /\ ~Readable /\ lock = Nobody
  /\ Issue /\ credential' = issued' /\ accepted' = accepted \union {issued'}
  /\ UNCHANGED <<lock, agent, paused, due, dropped, robbed, events>>

LogOut ==
  /\ Readable /\ Event
  /\ credential' = Missing /\ dropped' = dropped \union {credential}
  /\ UNCHANGED <<lock, agent, paused, accepted, issued, due, robbed>>

\* The server gives a session up.
SessionEnds ==
  /\ Event /\ \E n \in accepted : accepted' = accepted \ {n}
  /\ UNCHANGED <<credential, lock, agent, paused, issued, due, dropped, robbed>>

Refresh_(a) ==
  \/ BeginRefresh(a) \/ TakeLock(a) \/ FindStale(a) \/ RemoveStale(a) \/ GiveUpLock(a) \/ Beat(a) \/ Release(a)
  \/ Reread(a) \/ Rotate(a) \/ ReplyLost(a) \/ Rejected(a) \/ RefusedToken(a) \/ AskFails(a)
  \/ Recover(a) \/ Mark(a) \/ Store(a) \/ WriteFails(a) \/ Dies(a) \/ Pause(a) \/ Resume(a)

LoginNext == LockAges \/ ComesDue \/ LogIn \/ LogOut \/ SessionEnds \/ \E a \in Refreshers : Refresh_(a)

LoginSpec == LoginInit /\ [][LoginNext]_loginVars

-----------------------------------------------------------------------------
(* Properties                                                              *)

\* One process at a time refreshes the login, also when the one before has died
\* with the lock.  Excepted is what follows when a lock was removed under one
\* that holds it: it was stopped for too long, or another process had found an
\* older lock abandoned and removes this one in its place (kimi_auth.go:627).
OneRefresher ==
  ~robbed => \A a, b \in Refreshers : Working(a) /\ Working(b) => a = b

\* Whether a credential is on its way to the file, or was lost on the way.
Underway(n) == n \in dropped \/ \E a \in Refreshers : agent[a].pc = "store" /\ agent[a].got = n

\* No refresh and no tombstone ever replaces a credential that the server still
\* takes, so the user does not have to log in again because two processes met.
LoginIsKept == ~robbed => \A n \in accepted : n = credential \/ Underway(n)

\* Both: the login outlives whatever happens to those who refresh it.
LoginIsSafe == OneRefresher /\ LoginIsKept

\* README.md:331 of the repository: the lock is there to avoid races between
\* refreshes, so a tombstone stands for a login that is over.
TombstoneIsDeserved == credential = Revoked => \A n \in accepted : Underway(n)
=============================================================================
