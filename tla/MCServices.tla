------------------------------ MODULE MCServices -----------------------------
(* The services and the front end beside the statistics, on small instances. *)
(* They share no state, so a behaviour is one of one part, while the others  *)
(* rest:                                                                     *)
(*   stream     an answer as it is streamed to the browser                   *)
(*   providers  providers, models, the selection and the revision behind it  *)
(*   chats      the chat store and the tabs of the browser                   *)
(*   terminal   the views of the terminal dashboard                          *)
(*   overlays   its overlays, with more loads that compete                   *)
(*   login      the login of Kimi Code that several processes refresh        *)
(* The turn between the question and the answer is AgentTurn, on its own.    *)
EXTENDS AssistantProviders, AssistantChats, KimiLogin, TerminalViews, TLC

Symmetry == Permutations(Tabs) \union Permutations(Sessions) \union Permutations(Sources)

VARIABLES
  part,
  mode, stream, noticed, round, attempt, pc, meant, sent, acc, visible, shown, requests, completed, answer

streamVars == <<mode, stream, noticed, round, attempt, pc, meant, sent, acc, visible, shown, requests, completed, answer>>
servicesVars == <<part, streamVars, vars, chatVars, viewVars, loginVars>>

Opening == <<"<", "t>">>
Closing == <<"<", "/t>">>

T == INSTANCE ReasoningText

S == INSTANCE ProviderStream WITH
  Modes <- {"incremental", "cumulative"},
  Texts <- {<<>>, <<"a", "b", "a">>, <<"a", " ", "a">>, <<"a", "<">>, <<"a", "a", "b", "a">>,
            Opening \o <<"r">> \o Closing \o <<" ", "a", "b">>, Opening \o <<"r">>,
            <<"a">> \o Opening \o <<"r">> \o Closing},
  Calls <- {[name |-> <<"g", "g">>, arguments |-> <<"{", "}">>],
            [name |-> <<"g">>, arguments |-> <<" ", " ", "{", "}">>]},
  Names <- {<<"g">>, <<"g", "g">>},
  ValidJSON <- {<<"{", "}">>, <<" ", "{", "}">>, <<" ", " ", "{", "}">>},
  MaxVisible <- 3, MaxRounds <- 2, MaxPieces <- 3,
  Strip <- T!Strip, Streamable <- T!Streamable

MCOrigin == [a1 |-> "a", a2 |-> "a", b |-> "b", keep |-> "keep"]
MCCredentials == {[url |-> "b", key |-> 0], [url |-> "b", key |-> 9]}

MCDays == [p \in {"7d", "30d"} |-> IF p = "7d" THEN 1 ELSE 2]

\* More loads, of what has one page.
O == INSTANCE TerminalViews WITH
  Periods <- {"7d"}, Orders <- {1}, Days <- [p \in {"7d"} |-> 1], Pages <- 1, MaxLoads <- 5, MaxChanges <- 0

\* Bounds of the providers' part: a provider saved earlier has a model that is
\* listed and starts usable, and only that model is ever given the small limit.
OneSmall == \A c \in Customs : rows[c].models["n"].limit # 4096

ServicesInit ==
  /\ part \in {"stream", "providers", "chats", "terminal", "overlays", "login"}
  /\ S!Init /\ Init /\ ChatsInit /\ ViewsInit /\ LoginInit
  /\ part # "stream" => mode = "incremental" /\ stream
  /\ part # "providers" => Fresh
  /\ Fresh \/ \A c \in Customs : rows[c].models["m"] = [limit |-> 8192, discovered |-> TRUE]

Streams == part = "stream" /\ S!Next /\ UNCHANGED <<part, vars, chatVars, viewVars, loginVars>>
Provides == part = "providers" /\ Next /\ OneSmall' /\ UNCHANGED <<part, streamVars, chatVars, viewVars, loginVars>>
Chats == part = "chats" /\ ChatsNext /\ UNCHANGED <<part, streamVars, vars, viewVars, loginVars>>

Opens == part = "overlays" /\ O!ViewsNext /\ UNCHANGED <<part, streamVars, vars, chatVars, loginVars>>
Shows == part = "terminal" /\ ViewsNext /\ UNCHANGED <<part, streamVars, vars, chatVars, loginVars>>
Logs == part = "login" /\ LoginNext /\ UNCHANGED <<part, streamVars, vars, chatVars, viewVars>>

ServicesNext == Streams \/ Provides \/ Chats \/ Shows \/ Opens \/ Logs

ServicesSpec == ServicesInit /\ [][ServicesNext]_servicesVars

-----------------------------------------------------------------------------
(* A property of a part of its own                                         *)

\* What the browser shows is what is signed, and fits; it never shows reasoning
\* or text of an attempt that was given up.  A tool is called with the name and
\* arguments the model meant.
StreamIsFaithful ==
  part = "stream" => S!ShownIsSigned /\ S!OnlyProse /\ S!OnlyThisAttempt /\ S!CallsAsMeant
=============================================================================
