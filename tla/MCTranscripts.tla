---------------------------- MODULE MCTranscripts ----------------------------
(* The readers of the records that five coding agents keep, and the tables   *)
(* that sum the rows they make, on small instances.  They share nothing, so  *)
(* a behaviour is one of one of them:                                        *)
(*   claude       the transcripts of Claude Code                             *)
(*   codex        the rollouts of Codex                                      *)
(*   kimi         the wires of Kimi Code                                     *)
(*   qwen         the chats and usage logs of Qwen Code                      *)
(*   antigravity  the databases of Antigravity                               *)
(*   rollups      what consolidation leaves in the tables; three messages,   *)
(*                two of them in one session                                 *)
EXTENDS CacheRollups, Sequences

VARIABLES part, log, made, prompts, steps, prog

readerVars == <<log, made, prompts, steps, prog>>
vars == <<part, readerVars, rollupVars>>

\* One session of Claude Code; its copy sorts before it and its subagent after.
C == INSTANCE ClaudeTranscripts WITH
  Sessions <- {1}, Copy <- [s \in {1} |-> 11], Main <- [s \in {1} |-> 12], Side <- [s \in {1} |-> 13],
  MaxRequests <- 2, MaxPrompts <- 2, MaxSteps <- 4

\* Three threads of Codex, for a fork and a resumed thread.
X == INSTANCE CodexRollouts WITH
  Threads <- {1, 2, 3}, Dated <- {1, 2, 3}, ResumeChains <- FALSE,
  MaxRequests <- 2, MaxPrompts <- 2, MaxSteps <- 5

\* A session of Kimi Code with both main wires, and a fork with the old one.
K == INSTANCE KimiWires WITH
  Sessions <- {1, 2}, Forks <- {2}, RootOnly <- {2}, Mirrored <- {1}, MidStep <- FALSE,
  MaxRequests <- 2, MaxPrompts <- 2, MaxSteps <- 4

\* A session of Qwen Code with all stores, and one that only the usage log tells.
Q == INSTANCE QwenChats WITH
  Sessions <- {1, 2}, Stores <- <<<<"event", "assistant", "log">>, <<"log">>>>,
  SideStores <- <<<<"event", "log">>, <<>>>>, Margin <- 2, Month <- 3,
  MaxRequests <- 3, MaxPrompts <- 1, MaxSteps <- 4

\* Two conversations of Antigravity, of which the first started the second.
A == INSTANCE AntigravitySteps WITH
  Conversations <- {1, 2}, Parent <- <<0, 1>>, MaxRequests <- 2, MaxPrompts <- 1, MaxSteps <- 4

MCSessionOf == [m1 |-> "s1", m2 |-> "s1", m3 |-> "s2"]

\* No rows and nothing aggregated.
Resting ==
  /\ now = 0 /\ raw = {} /\ seen = {} /\ cutoff = 0 /\ index = {}
  /\ Agreed

Init ==
  \/ /\ Resting
     /\ \/ part = "claude" /\ C!Init /\ prog = <<>>
        \/ part = "codex" /\ X!Init /\ prog = <<>>
        \/ part = "kimi" /\ K!Init
        \/ part = "qwen" /\ Q!Init
        \/ part = "antigravity" /\ A!Init /\ prog = <<>>
  \/ part = "rollups" /\ RollupsInit /\ C!Init /\ prog = <<>>

Claude == part = "claude" /\ C!Next /\ UNCHANGED <<part, prog, rollupVars>>
Codex == part = "codex" /\ X!Next /\ UNCHANGED <<part, prog, rollupVars>>
Kimi == part = "kimi" /\ K!Next /\ UNCHANGED <<part, rollupVars>>
Qwen == part = "qwen" /\ Q!Next /\ UNCHANGED <<part, rollupVars>>
Antigravity == part = "antigravity" /\ A!Next /\ UNCHANGED <<part, prog, rollupVars>>
Rollups == part = "rollups" /\ RollupsNext /\ UNCHANGED <<part, readerVars>>

Next == Claude \/ Codex \/ Kimi \/ Qwen \/ Antigravity \/ Rollups

Spec == Init /\ [][Next]_vars

\* What the files tell of a request is counted, and counted once: however many
\* records tell of it, in whatever order, and however often it was copied
\* (normalize and its like in every reader).
UsageOnce ==
  CASE part = "claude" -> C!UsageOnce
    [] part = "codex" -> X!UsageOnce
    [] part = "kimi" -> K!UsageOnce
    [] part = "qwen" -> Q!UsageOnce
    [] part = "antigravity" -> A!UsageOnce
    [] part = "rollups" -> TRUE

\* The cache keeps rows by their id and time: no two rows share an id, and a
\* row that was shown stays under its id and at its time while files grow, are
\* copied, forked and resumed.
RowsStay ==
  [][CASE part = "claude" -> C!KeepsRows
       [] part = "codex" -> X!KeepsRows
       [] part = "kimi" -> K!KeepsRows
       [] part = "qwen" -> Q!KeepsRows
       [] part = "antigravity" -> A!KeepsRows
       [] part = "rollups" -> TRUE]_vars

\* A load that reads only the files of a window, and one that reads only the
\* files of a row, show what a load of everything shows (loadBoundedSnapshot,
\* MessageByID and loadDetail).
LoadsAgree ==
  CASE part = "claude" -> C!LoadsAgree
    [] part = "codex" -> X!LoadsAgree
    [] part = "kimi" -> K!LoadsAgree
    [] part = "qwen" -> Q!LoadsAgree
    [] part = "antigravity" -> A!LoadsAgree
    [] part = "rollups" -> TRUE

=============================================================================
