----------------------------- MODULE MCAgentTurn -----------------------------
(* AgentTurn with a few replies. *)
EXTENDS AgentTurn

LeadDef == {<<"t1", "t2">>, <<"q1", "t1">>, <<"q1", "q1">>, <<"bad">>, <<"q1", "q1", "q1">>}
ChildDef == {<<"q1">>, <<"q2", "t1">>}
=============================================================================
