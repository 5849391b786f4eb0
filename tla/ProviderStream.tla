---------------------------- MODULE ProviderStream ----------------------------
(***************************************************************************)
(* One agent's rounds with a model provider as the browser sees them: the  *)
(* reply is streamed in pieces, put together again, cleaned of reasoning,  *)
(* shown while it comes in, withdrawn when the round fails or turns out to *)
(* ask for tools, tried once more, and signed (analyticsagent: run.go,     *)
(* content.go, minimax.go, openai.go).                                     *)
(*                                                                         *)
(* Text is a sequence of symbols, which ReasoningText cleans.  Some        *)
(* deployments send every time all of the text so far (cumulative), the    *)
(* others only what is new.                                                *)
(***************************************************************************)
EXTENDS Integers, Sequences

CONSTANTS
  Modes,         \* subset of {"incremental", "cumulative"}
  Texts,         \* what the model may want to say
  Calls,         \* tool calls it may want to make: [name, arguments]
  Names,         \* tools that were offered
  ValidJSON,     \* arguments that are JSON
  MaxVisible,    \* maxFinalResponseBytes
  MaxRounds,
  MaxPieces,     \* a provider sends at most so many pieces
  Strip(_),      \* the answer in a reply, as in ReasoningText
  Streamable(_)  \* what may be shown of a reply that is still coming in

MaxAttempts == 2  \* maxProviderAttempts

Notice == "n"

VARIABLES
  mode,       \* of the deployment
  stream,     \* ChatStream, not Chat
  noticed,    \* some notice will be added to the answer
  round, attempt,
  pc,
  meant,      \* the reply of the model: text, call, finish
  sent,       \* pieces of it that were sent
  acc,        \* what the client has put together
  visible,    \* the round stream
  shown,      \* in the browser
  requests,   \* usage counted
  completed,  \* requests the provider completed
  answer      \* what was signed

vars == <<mode, stream, noticed, round, attempt, pc, meant, sent, acc, visible,
          shown, requests, completed, answer>>

HasPrefix(s, p) == Len(p) <= Len(s) /\ SubSeq(s, 1, Len(p)) = p
After(s, n) == SubSeq(s, n + 1, Len(s))

Failed == [ok |-> FALSE, text |-> <<>>]
Good(s) == [ok |-> TRUE, text |-> s]

-----------------------------------------------------------------------------
(* minimax.go: putting the pieces together                                 *)

\* A piece that begins with everything so far is taken for cumulative.
Advance(current, next) == IF HasPrefix(next, current) THEN next ELSE current \o next

NoFragments == [incremental |-> <<>>, cumulative |-> <<>>, possible |-> TRUE]

Add(f, next) ==
  IF next = <<>> THEN f
  ELSE [incremental |-> f.incremental \o next,
        possible |-> f.possible /\ HasPrefix(next, f.cumulative),
        cumulative |-> IF f.possible /\ HasPrefix(next, f.cumulative) THEN next ELSE f.cumulative]

\* Mutant: fragments are joined as prose is.
ResolveAdaptive(name, args) ==
  Good([name |-> IF name.possible THEN name.cumulative ELSE name.incremental,
        arguments |-> IF args.possible THEN args.cumulative ELSE args.incremental])

\* Both readings are kept until the call is complete.
Resolve(name, args) ==
  LET inc == [name |-> name.incremental, arguments |-> args.incremental]
      cum == [name |-> name.cumulative, arguments |-> args.cumulative]
      incValid == inc.arguments \in ValidJSON
      cumValid == cum.arguments \in ValidJSON
      incKnown == inc.name \in Names
      cumKnown == cum.name \in Names
  IN  IF ~(name.possible /\ args.possible) \/ inc = cum THEN Good(inc)
      ELSE IF incValid # cumValid THEN Good(IF incValid THEN inc ELSE cum)
      ELSE IF incKnown # cumKnown THEN Good(IF incKnown THEN inc ELSE cum)
      ELSE Failed

NoCall == [name |-> <<>>, arguments |-> <<>>]
NoReply == [text |-> <<>>, call |-> NoCall, finish |-> "stop"]
NothingSent == [text |-> 0, name |-> 0, arguments |-> 0, pieces |-> 0]
NewAcc == [text |-> <<>>, name |-> NoFragments, arguments |-> NoFragments]
NewVisible == [emitted |-> <<>>, published |-> FALSE, discarded |-> FALSE]

Replies ==
  {[text |-> t, call |-> NoCall, finish |-> f] : t \in Texts, f \in {"stop", "length"}}
    \union {[text |-> t, call |-> c, finish |-> "tool_calls"] : t \in Texts, c \in Calls}

Init ==
  /\ mode \in Modes /\ stream \in BOOLEAN
  /\ noticed = FALSE /\ round = 1 /\ attempt = 1 /\ pc = "call"
  /\ meant = NoReply /\ sent = NothingSent /\ acc = NewAcc /\ visible = NewVisible
  /\ shown = <<>> /\ requests = 0 /\ completed = 0 /\ answer = <<>>

VisibleLimit == MaxVisible - (IF noticed THEN 1 ELSE 0)

-----------------------------------------------------------------------------
(* The provider and the connections                                        *)

Request ==
  /\ pc = "call"
  /\ meant' \in {m \in Replies : m.finish = "tool_calls" => round < MaxRounds}
  /\ sent' = NothingSent /\ acc' = NewAcc /\ visible' = NewVisible
  /\ pc' = "reply"
  /\ UNCHANGED <<mode, stream, noticed, round, attempt, shown, requests, completed, answer>>

\* The piece that brings the first n symbols of s, when k have been sent.
Piece(s, k, n) == SubSeq(s, (IF mode = "cumulative" THEN 0 ELSE k) + 1, n)

\* Pieces, as they are read: content goes through the round stream.
Pushed(next) ==
  LET text == Advance(acc.text, next)
      s == Streamable(text)
  IN  [ok |-> s.ok /\ Len(s.text) <= VisibleLimit /\ HasPrefix(s.text, visible.emitted),
       text |-> text, emitted |-> s.text]

MorePieces == pc = "reply" /\ stream /\ sent.pieces < MaxPieces

SendText(n) ==
  /\ MorePieces
  /\ n \in sent.text + 1..Len(meant.text)
  /\ LET p == Pushed(Piece(meant.text, sent.text, n))
         delta == After(p.emitted, Len(visible.emitted))
     IN  /\ p.ok
         /\ acc' = [acc EXCEPT !.text = p.text]
         /\ visible' = [visible EXCEPT !.emitted = p.emitted, !.published = @ \/ delta # <<>>]
         /\ shown' = shown \o delta
  /\ sent' = [sent EXCEPT !.text = n, !.pieces = @ + 1]
  /\ UNCHANGED <<mode, stream, noticed, round, attempt, pc, meant, requests, completed, answer>>

\* What it says is not fit to be shown: a failure that is not retried.
SendUnfit(n) ==
  /\ MorePieces
  /\ n \in sent.text + 1..Len(meant.text)
  /\ ~Pushed(Piece(meant.text, sent.text, n)).ok
  /\ pc' = "failed"
  /\ UNCHANGED <<mode, stream, noticed, round, attempt, meant, sent, acc, visible, shown,
                 requests, completed, answer>>

SendCall(n, a) ==
  /\ MorePieces
  /\ n \in sent.name..Len(meant.call.name) /\ a \in sent.arguments..Len(meant.call.arguments)
  /\ n > sent.name \/ a > sent.arguments
  /\ acc' = [acc EXCEPT !.name = IF n = sent.name THEN @ ELSE Add(@, Piece(meant.call.name, sent.name, n)),
                        !.arguments = IF a = sent.arguments THEN @
                                      ELSE Add(@, Piece(meant.call.arguments, sent.arguments, a))]
  /\ sent' = [sent EXCEPT !.name = n, !.arguments = a, !.pieces = @ + 1]
  /\ UNCHANGED <<mode, stream, noticed, round, attempt, pc, meant, visible, shown, requests,
                 completed, answer>>

AllSent ==
  /\ sent.text = Len(meant.text)
  /\ sent.name = Len(meant.call.name) /\ sent.arguments = Len(meant.call.arguments)

\* Rate limits, errors of the provider and of the connection are worth another
\* attempt.  Others, and a stream that ends without a finish reason, are not.
Breaks ==
  /\ pc = "reply"
  /\ pc' \in {"retryable", "failed"}
  /\ UNCHANGED <<mode, stream, noticed, round, attempt, meant, sent, acc, visible, shown,
                 requests, completed, answer>>

\* The browser has gone, or the time is up.
Cancel ==
  /\ pc \in {"call", "reply", "retryable"}
  /\ pc' = "cancelled"
  /\ UNCHANGED <<mode, stream, noticed, round, attempt, meant, sent, acc, visible, shown,
                 requests, completed, answer>>

Ambiguous == stream /\ meant.finish = "tool_calls" /\ ~Resolve(acc.name, acc.arguments).ok

\* The reply is complete; without streaming it comes in one piece.
Completes ==
  /\ pc = "reply"
  /\ IF stream THEN AllSent /\ ~Ambiguous /\ UNCHANGED acc
     ELSE acc' = [acc EXCEPT !.text = meant.text]
  /\ completed' = completed + 1
  /\ requests' = requests + 1
  /\ pc' = IF meant.finish = "tool_calls" THEN "tools" ELSE "final"
  /\ UNCHANGED <<mode, stream, noticed, round, attempt, meant, sent, visible, shown, answer>>

CompletesAmbiguously ==
  /\ pc = "reply" /\ stream
  /\ AllSent /\ Ambiguous
  /\ pc' = "failed"
  /\ UNCHANGED <<mode, stream, noticed, round, attempt, meant, sent, acc, visible, shown,
                 requests, completed, answer>>

-----------------------------------------------------------------------------
(* run.go: callModel, finishRound, finalContent                            *)

\* Mutant: a failed attempt stays on the screen.
WithdrawnNever == shown

Withdrawn == IF visible.published /\ ~visible.discarded THEN <<>> ELSE shown

Withdraw ==
  /\ shown' = Withdrawn
  /\ visible' = [visible EXCEPT !.discarded = visible.published]

Retry ==
  /\ pc = "retryable"
  /\ Withdraw
  /\ IF attempt < MaxAttempts
     THEN pc' \in {"call", "over"} /\ attempt' = IF pc' = "call" THEN attempt + 1 ELSE attempt
     ELSE pc' = "over" /\ UNCHANGED attempt
  /\ UNCHANGED <<mode, stream, noticed, round, meant, sent, acc, requests, completed, answer>>

GiveUp ==
  /\ pc = "failed"
  /\ Withdraw
  /\ pc' = "over"
  /\ UNCHANGED <<mode, stream, noticed, round, attempt, meant, sent, acc, requests, completed, answer>>

\* The rest of the reply, unless it is not what was shown.
Finish(s) ==
  LET v == Strip(s)
  IN  IF v.ok /\ HasPrefix(v.text, visible.emitted)
      THEN Good(After(v.text, Len(visible.emitted)))
      ELSE Failed

\* Prose before tool calls is withdrawn; the tools run and may raise a notice.
RunTools ==
  /\ pc = "tools"
  /\ Withdraw
  /\ IF Finish(acc.text).ok
     THEN /\ pc' = "call" /\ round' = round + 1 /\ attempt' = 1
          /\ noticed' \in {noticed, TRUE}
     ELSE pc' = "over" /\ UNCHANGED <<round, attempt, noticed>>
  /\ UNCHANGED <<mode, stream, meant, sent, acc, requests, completed, answer>>

\* Mutant: the length is checked while streaming only.
FinalUnbounded ==
  LET v == Strip(acc.text)
  IN  IF meant.finish # "stop" \/ ~v.ok \/ v.text = <<>> \/ (stream /\ ~Finish(acc.text).ok)
      THEN Failed ELSE v

Final ==
  LET v == Strip(acc.text)
  IN  IF \/ meant.finish # "stop" \/ ~v.ok \/ v.text = <<>>
         \/ Len(v.text) > VisibleLimit
         \/ stream /\ ~Finish(acc.text).ok
      THEN Failed ELSE v

Suffix == IF noticed THEN <<Notice>> ELSE <<>>

Refuse ==
  /\ pc = "final" /\ ~Final.ok
  /\ Withdraw
  /\ pc' = "over"
  /\ UNCHANGED <<mode, stream, noticed, round, attempt, meant, sent, acc, requests, completed, answer>>

\* Mutant: the tail that was withheld is never shown.
TailDropped == <<>>

\* What was withheld while streaming.
Tail_ == IF stream THEN Finish(acc.text).text ELSE <<>>

Answer ==
  /\ pc = "final" /\ Final.ok
  /\ answer' = Final.text \o Suffix
  /\ shown' = IF stream THEN shown \o Tail_ \o Suffix ELSE shown
  /\ pc' = "answered"
  /\ UNCHANGED <<mode, stream, noticed, round, attempt, meant, sent, acc, visible, requests, completed>>

Next ==
  \/ Request \/ Breaks \/ Cancel \/ Completes \/ CompletesAmbiguously
  \/ \E n \in 1..MaxVisible + 6 : SendText(n) \/ SendUnfit(n)
  \/ \E n, a \in 0..4 : SendCall(n, a)
  \/ Retry \/ GiveUp \/ RunTools \/ Refuse \/ Answer

Spec == Init /\ [][Next]_vars

-----------------------------------------------------------------------------
(* Properties                                                              *)

\* What the browser has put together from the deltas and resets is exactly the
\* text that is signed, and it is short enough to be sent back as history.
ShownIsSigned ==
  pc = "answered" => (stream => shown = answer) /\ Len(answer) <= MaxVisible

\* At no moment does the browser show reasoning or a part of a tag.
OnlyProse ==
  pc \notin {"answered", "cancelled"} =>
    \A i \in DOMAIN shown : shown[i] \notin {"r", "<", "t>", "/t>"}

\* At no moment does it show text of another attempt than the one under way.
OnlyThisAttempt ==
  pc \notin {"answered", "cancelled"} /\ shown # <<>> =>
    visible.published /\ HasPrefix(visible.emitted, shown)

\* A tool call is run only as the model meant it, in whichever way it was sent.
CallsAsMeant ==
  pc = "tools" /\ stream => Resolve(acc.name, acc.arguments).text = meant.call

\* The answer is the prose of the reply.  Does not hold: prose that is sent
\* incrementally is cut when a piece happens to repeat what came before it.
AnswerAsMeant ==
  pc = "answered" => answer = Strip(meant.text).text \o Suffix
=============================================================================
