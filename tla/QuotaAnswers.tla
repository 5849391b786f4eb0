----------------------------- MODULE QuotaAnswers -----------------------------
(***************************************************************************)
(* What the dashboard tells of the quota of one account (internal/quota):  *)
(* the rate limits that Codex leaves in its rollouts, those that Claude    *)
(* Code passes to its status line, and the usage that Kimi Code and        *)
(* MiniMax answer when they are asked.  An answer is told by the time its  *)
(* figures were observed, 0 for none; the windows in it are left out, and  *)
(* so is the refresh of the Kimi login before the question (KimiLogin).    *)
(***************************************************************************)
EXTENDS Integers, FiniteSets

CONSTANTS
  Askers,      \* requests for the quotas, of any number of tabs
  Agents,      \* sessions of the agent whose account it is
  TTL,         \* codexTTL, kimiTTL, minimaxTTL
  StaleAfter,  \* staleAfter
  Patience,    \* providerTimeout, quotaTimeout
  MaxClock

NoAsker == ""

ASSUME QuotaAssumption ==
  /\ TTL \in Nat /\ StaleAfter \in Nat /\ Patience \in Nat /\ MaxClock \in Nat
  /\ Patience < TTL /\ NoAsker \notin Askers

Kinds == {"codex", "claude", "kimi", "minimax"}
Unavailable == [status |-> "unavailable", asOf |-> 0, failed |-> FALSE]
NotAsking == [pc |-> "idle", began |-> 0, gone |-> FALSE]

VARIABLES
  kind,       \* whose quota it is
  clock,
  switchedOn,    \* whether the source is switched on
  rollouts,   \* of Codex: when each was written to, and its last limits
  snapshot,   \* of Claude Code: when the file was saved, 0 without a file
  rendering,  \* status lines about to save: the time each has taken
  lastAnswer, fetchedAt, lastGood,
  holder,     \* of the mutex
  asker,
  told,       \* the answer that was told last
  newest      \* the newest time of figures that was told

quotaVars == <<kind, clock, switchedOn, rollouts, snapshot, rendering, lastAnswer, fetchedAt, lastGood, holder, asker, told, newest>>
agentVars == <<rollouts, snapshot, rendering>>
cacheVars == <<lastAnswer, fetchedAt, lastGood>>
toldVars == <<told, newest>>

QuotaInit ==
  /\ kind \in Kinds /\ clock = 1 /\ switchedOn = TRUE
  /\ rollouts = [g \in Agents |-> [written |-> 0, limits |-> 0]]
  /\ snapshot = 0 /\ rendering = [g \in Agents |-> 0]
  /\ lastAnswer = Unavailable /\ fetchedAt = 0 /\ lastGood = 0
  /\ holder = NoAsker /\ asker = [r \in Askers |-> NotAsking]
  /\ told = Unavailable /\ newest = 0

-----------------------------------------------------------------------------
(* The agents                                                              *)

\* A turn is recorded, most of them with the limits at that time.
CodexWrites(g) ==
  /\ kind = "codex"
  /\ \E limits \in {clock, rollouts[g].limits} :
       rollouts' = [rollouts EXCEPT ![g] = [written |-> clock, limits |-> limits]]
  /\ UNCHANGED <<kind, clock, switchedOn, snapshot, rendering, cacheVars, holder, asker, toldVars>>

\* A status line that is given limits takes the time ...
Render(g) ==
  /\ kind = "claude" /\ rendering[g] = 0
  /\ rendering' = [rendering EXCEPT ![g] = clock]
  /\ UNCHANGED <<kind, clock, switchedOn, rollouts, snapshot, cacheVars, holder, asker, toldVars>>

\* ... and puts its file in place, unless that fails; others may have been faster.
WriteSnapshot(g) ==
  /\ rendering[g] # 0
  /\ snapshot' \in {snapshot, rendering[g]} /\ rendering' = [rendering EXCEPT ![g] = 0]
  /\ UNCHANGED <<kind, clock, switchedOn, rollouts, cacheVars, holder, asker, toldVars>>

-----------------------------------------------------------------------------
(* What is known                                                           *)

StatusForAge(asOf, now) == IF now - asOf > StaleAfter THEN "stale" ELSE "ok"
Aged(asOf, now) == [status |-> StatusForAge(asOf, now), asOf |-> asOf, failed |-> FALSE]

\* The last limits of the rollout that was written to last, of those that have any.
LatestLimits ==
  LET telling == {g \in Agents : rollouts[g].limits # 0}
  IN  {rollouts[g].limits : g \in {x \in telling : \A y \in telling : rollouts[y].written <= rollouts[x].written}}

Failure == [Unavailable EXCEPT !.failed = TRUE]

\* Mutant: a failure hides what is known.
RememberedNothing == Failure

\* The last good answer stays through failures.
Remembered == IF lastGood = 0 THEN Failure ELSE [status |-> "stale", asOf |-> lastGood, failed |-> TRUE]

CodexAnswers(r) ==
  {Failure} \union (IF asker[r].gone THEN {}
                    ELSE IF LatestLimits = {} THEN {Unavailable}
                    ELSE {Aged(at, asker[r].began) : at \in LatestLimits})

ClaudeAnswer == IF snapshot = 0 THEN Unavailable ELSE Aged(snapshot, clock)

\* A missing key or credential and an answer without figures say that there is
\* nothing, whatever was known.  A request whose browser has left fails.
LiveAnswers(r) ==
  {Unavailable, Remembered} \union
    (IF asker[r].gone THEN {} ELSE {[status |-> "ok", asOf |-> asker[r].began, failed |-> FALSE]})

-----------------------------------------------------------------------------
(* Service.Quotas asks the collector of every source that is switched on;  *)
(* MiniMax has no source.                                                  *)

Tells(r, answer) ==
  /\ asker' = [asker EXCEPT ![r] = NotAsking]
  /\ told' = answer /\ newest' = IF answer.asOf > newest THEN answer.asOf ELSE newest

Asks(r) ==
  /\ asker[r].pc = "idle" /\ (switchedOn \/ kind = "minimax")
  /\ asker' = [asker EXCEPT ![r].pc = "waiting"]
  /\ UNCHANGED <<kind, clock, switchedOn, agentVars, cacheVars, holder, toldVars>>

\* The file is read for every request.
ReadClaude(r) ==
  /\ kind = "claude" /\ asker[r].pc = "waiting"
  /\ Tells(r, ClaudeAnswer)
  /\ UNCHANGED <<kind, clock, switchedOn, agentVars, cacheVars, holder>>

Recent == fetchedAt # 0 /\ clock - fetchedAt < TTL

\* Behind the mutex, however long that takes: what the last one was told, ...
TellCached(r) ==
  /\ kind # "claude" /\ asker[r].pc = "waiting" /\ holder = NoAsker /\ Recent
  /\ Tells(r, lastAnswer)
  /\ UNCHANGED <<kind, clock, switchedOn, agentVars, cacheVars, holder>>

\* Mutant: the mutex is not held while the account is asked.
FetchUnlocked(r) ==
  /\ kind # "claude" /\ asker[r].pc = "waiting" /\ ~Recent
  /\ asker' = [asker EXCEPT ![r].pc = "fetching", ![r].began = clock]
  /\ UNCHANGED <<kind, clock, switchedOn, agentVars, cacheVars, holder, toldVars>>

\* ... or a question of one's own.
Fetch(r) ==
  /\ kind # "claude" /\ asker[r].pc = "waiting" /\ holder = NoAsker /\ ~Recent
  /\ holder' = r
  /\ asker' = [asker EXCEPT ![r].pc = "fetching", ![r].began = clock]
  /\ UNCHANGED <<kind, clock, switchedOn, agentVars, cacheVars, toldVars>>

\* The answer is kept for the others, whatever it is.
Fetched(r, answer) ==
  /\ asker[r].pc = "fetching"
  /\ lastAnswer' = answer /\ fetchedAt' = asker[r].began /\ holder' = NoAsker
  /\ lastGood' = IF kind # "codex" /\ answer.status = "ok" THEN answer.asOf ELSE lastGood
  /\ Tells(r, answer)
  /\ UNCHANGED <<kind, clock, switchedOn, agentVars>>

FetchedCodex(r) == kind = "codex" /\ \E answer \in CodexAnswers(r) : Fetched(r, answer)
FetchedLive(r) == kind # "codex" /\ \E answer \in LiveAnswers(r) : Fetched(r, answer)

\* The browser leaves.
Leaves(r) ==
  /\ asker[r].pc # "idle" /\ ~asker[r].gone
  /\ asker' = [asker EXCEPT ![r].gone = TRUE]
  /\ UNCHANGED <<kind, clock, switchedOn, agentVars, cacheVars, holder, toldVars>>

SwitchSource == switchedOn' = ~switchedOn /\ UNCHANGED <<kind, clock, agentVars, cacheVars, holder, asker, toldVars>>

\* A fetch ends within its time.
TimePasses ==
  /\ clock < MaxClock /\ clock' = clock + 1
  /\ \A r \in Askers : asker[r].pc = "fetching" => clock - asker[r].began < Patience
  /\ UNCHANGED <<kind, switchedOn, agentVars, cacheVars, holder, asker, toldVars>>

QuotaNext ==
  \/ TimePasses \/ SwitchSource
  \/ \E g \in Agents : CodexWrites(g) \/ Render(g) \/ WriteSnapshot(g)
  \/ \E r \in Askers :
       Asks(r) \/ ReadClaude(r) \/ TellCached(r) \/ Fetch(r) \/ FetchedCodex(r) \/ FetchedLive(r) \/ Leaves(r)

QuotaSpec == QuotaInit /\ [][QuotaNext]_quotaVars

-----------------------------------------------------------------------------
(* Properties                                                              *)

Ended == \E r \in Askers : asker[r].pc # "idle" /\ asker'[r].pc = "idle"

\* README.md:356: what is told without the badge is not older than staleAfter, or
\* than that and the time an answer is kept for the next ones.
BadgeWhenOld == told'.status = "ok" => clock - told'.asOf < StaleAfter + TTL

\* The figures of Kimi Code and MiniMax are never older than those somebody was
\* told before, though answers of several requests and failures come in between;
\* a failure tells the last of them, if there is one.
NeverOlder == kind \in {"kimi", "minimax"} => told'.asOf >= newest \/ told' = Unavailable

\* Whatever a request is told about a quota.
QuotasAreTrue == [][Ended => BadgeWhenOld /\ NeverOlder]_quotaVars
=============================================================================
