---------------------------- MODULE ReasoningText ----------------------------
(***************************************************************************)
(* How the assistant cleans a reply of reasoning (analyticsagent:          *)
(* content.go).  "<" then "t>" is the tag <think>, "<" then "/t>" the tag  *)
(* </think>; "r" is reasoning, " " a space, any other symbol a piece of    *)
(* the answer.                                                             *)
(***************************************************************************)
EXTENDS Integers, SequencesExt

Space == " "
Think == <<"<", "t>">>
EndThink == <<"<", "/t>">>

HasPrefix(s, p) == IsPrefix(p, s)
After(s, n) == SubSeq(s, n + 1, Len(s))
FirstOf(s, tag) == {i \in 1..Len(s) - Len(tag) + 1 : SubSeq(s, i, i + Len(tag) - 1) = tag}
Has(s, tag) == FirstOf(s, tag) # {}
RECURSIVE TrimLeft(_), TrimRight(_), LeaveReasoning(_, _)
TrimLeft(s) == IF s # <<>> /\ Head(s) = Space THEN TrimLeft(Tail(s)) ELSE s
TrimRight(s) == IF s # <<>> /\ Last(s) = Space THEN TrimRight(Front(s)) ELSE s
Trim(s) == TrimLeft(TrimRight(s))

Failed == [ok |-> FALSE, text |-> <<>>]
Good(s) == [ok |-> TRUE, text |-> s]
NoTags(s) == ~Has(s, Think) /\ ~Has(s, EndThink)

\* Drops leading blocks of reasoning; none that is open is closed.
LeaveReasoning(s, open) ==
  LET t == TrimLeft(s)
  IN  IF ~HasPrefix(t, Think) THEN t
      ELSE IF ~Has(t, EndThink) THEN open
      ELSE LeaveReasoning(After(t, Min(FirstOf(t, EndThink)) + 1), open)

Strip(s) ==
  LET t == LeaveReasoning(Trim(s), Think)
  IN  IF NoTags(t) THEN Good(t) ELSE Failed

\* Mutant: a suffix that may become a tag is shown.
StreamableHasty(s) ==
  LET t == LeaveReasoning(s, <<>>)
  IN  IF NoTags(t) THEN Good(TrimRight(t)) ELSE Failed

\* A suffix that may become a tag is withheld, one for each tag.
Streamable(s) ==
  LET t == LeaveReasoning(s, <<>>)
      Cut(x) == IF x # <<>> /\ Last(x) = "<" THEN Front(x) ELSE x
  IN  IF NoTags(t) THEN Good(TrimRight(Cut(Cut(t)))) ELSE Failed
=============================================================================
