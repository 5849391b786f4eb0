---------------------------- MODULE AnnouncedReads ----------------------------
(***************************************************************************)
(* What every reader of usage data promises about pricing, however it      *)
(* caches: a read that begins after a pricing change was announced shows   *)
(* nothing that was costed before that change.                             *)
(*                                                                         *)
(* Implemented by the snapshot cache of the transcript sources             *)
(* (SnapshotCache) and by the shared recent window of a cached source      *)
(* (GapRead).                                                              *)
(***************************************************************************)
EXTENDS Integers

CONSTANT Requests

VARIABLES
  price,  \* the pricing in force, counted
  told,   \* the pricing at the last announcement
  phase,  \* of a request: idle, open, answered
  low,    \* what had been announced when it began
  shown   \* the pricings it was answered with

vars == <<price, told, phase, low, shown>>

Init ==
  /\ price = 0 /\ told = 0
  /\ phase = [r \in Requests |-> "idle"]
  /\ low = [r \in Requests |-> 0]
  /\ shown = [r \in Requests |-> {}]

ChangePrice ==
  /\ price' = price + 1
  /\ UNCHANGED <<told, phase, low, shown>>

Announce ==
  /\ told' = price
  /\ UNCHANGED <<price, phase, low, shown>>

Ask(r) ==
  /\ phase[r] = "idle"
  /\ phase' = [phase EXCEPT ![r] = "open"]
  /\ low' = [low EXCEPT ![r] = told]
  /\ shown' = [shown EXCEPT ![r] = {}]
  /\ UNCHANGED <<price, told>>

Answer(r) ==
  /\ phase[r] = "open"
  /\ phase' = [phase EXCEPT ![r] = "answered"]
  /\ \E s \in SUBSET (low[r]..price) : shown' = [shown EXCEPT ![r] = s]
  /\ UNCHANGED <<price, told, low>>

\* Without an answer, or after it.
Leave(r) ==
  /\ phase' = [phase EXCEPT ![r] = "idle"]
  /\ low' = [low EXCEPT ![r] = 0]
  /\ shown' = [shown EXCEPT ![r] = {}]
  /\ UNCHANGED <<price, told>>

Next ==
  \/ ChangePrice \/ Announce
  \/ \E r \in Requests : Ask(r) \/ Answer(r) \/ Leave(r)

Spec == Init /\ [][Next]_vars
=============================================================================
