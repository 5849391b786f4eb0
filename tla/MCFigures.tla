------------------------------ MODULE MCFigures ------------------------------
(* Where the figures that are shown come from, on small instances.  The      *)
(* parts share no state, so a behaviour is one of one part:                  *)
(*   reads      what is read from the tables and the live half: six rows of  *)
(*              three sessions over two days, a user prompt, two models and  *)
(*              a message that calls a tool twice; a session comes back      *)
(*              after others                                                 *)
(*   aliases    pricing aliases are saved in two dashboards                  *)
(*   pricing    requests are priced while aliases and releases change        *)
(*   opencode   the live reads of OpenCode's database, while OpenCode writes *)
(*              it and imports its older tables; a fork, two projects        *)
(*   quotas     what is told of the quota of an account                      *)
EXTENDS OpenCodeReads, PricingAliases, QuotaAnswers

VARIABLES
  part,
  moment, read, consolidated, memo

readVars == <<moment, read, consolidated, memo>>
figuresVars == <<part, vars, readVars, aliasVars, quotaVars>>

-----------------------------------------------------------------------------
(* Reads                                                                   *)

W == INSTANCE WindowSplit

MCTools == {"bash"}
MCProjectOf == <<"p", "p", "q">>

MCRow(id, t, s, role, model, cost, status, bash) ==
  [id |-> id, t |-> t, s |-> s, role |-> role, model |-> model, cost |-> cost,
   status |-> status, calls |-> [x \in MCTools |-> bash]]

MCPool == {MCRow(6, 0, 1, "user", "no model", 0, "none", 0),
           MCRow(5, 1, 1, "assistant", "m1", 1, "computed", 2),
           MCRow(4, 3, 2, "assistant", "m2", 2, "reported", 0),
           MCRow(3, 4, 1, "assistant", "m1", 4, "computed", 1),
           MCRow(2, 5, 3, "assistant", "m1", 8, "computed", 0),
           MCRow(1, 6, 3, "assistant", "m2", 16, "reported", 1)}

MCPeriods == {W!RollingHours(1), W!RollingHours(2), W!CalendarDays(1), W!CalendarDays(2),
              W!Dates(0, 0), W!Dates(0, 1), W!AllTime}
MCFilters == {"any", "m1"}
C == INSTANCE CachedReads WITH
  ProjectOf <- MCProjectOf, Tools <- MCTools, Pool <- MCPool, Early <- {}, Start <- 4, End <- 7, Legacy <- {0, 2, 3},
  Periods <- MCPeriods, Filters <- MCFilters, Limits <- {1, 2},
  now <- moment, raw <- read, cutoff <- consolidated

-----------------------------------------------------------------------------
(* Pricing                                                                 *)

Rate(in, cached, write, out) ==
  [in |-> in, cached |-> cached, write |-> write, hour |-> 0, out |-> out, approximate |-> FALSE,
   long |-> 1, tiers |-> << >>, longFast |-> FALSE, from |-> 0, factor |-> 1]

Catalog(id, currency, models) == [id |-> id, currency |-> currency, retrieved |-> 0, models |-> models]

\* Two releases: the second has a new price for gpt, and qwen in another currency.
Bundled == [r \in 1..2 |->
  [claude |-> Catalog("a", "USD",
     "haiku" :> [Rate(2, 1, 3, 10) EXCEPT !.long = 5] @@
     "opus" :> [Rate(5, 1, 6, 25) EXCEPT !.approximate = TRUE, !.hour = 9] @@ "opus-5" :> Rate(4, 1, 5, 20)),
   codex |-> Catalog(IF r = 1 THEN "c1" ELSE "c2", "USD",
     "gpt" :> [Rate(IF r = 1 THEN 3 ELSE 4, 1, 4, 12) EXCEPT !.long = 2, !.tiers = [fast |-> 2]]),
   kimi |-> Catalog("k", "USD", "k3" :> Rate(1, 1, 0, 4) @@ "free" :> Rate(0, 0, 0, 0)),
   qwen |-> Catalog(IF r = 1 THEN "q1" ELSE "q2", IF r = 1 THEN "USD" ELSE "CNY", "max" :> Rate(1, 1, 2, 6)),
   antigravity |-> Catalog("g", "USD", "flash" :> [Rate(1, 1, 0, 5) EXCEPT !.from = 1, !.factor = 2])]]

Names == {"haiku", "opus", "opus-5", "opus-9", "gpt", "gpt-dated", "k3", "code/k3", "free", "max", "flash", "proxy"}

Matches ==
  [s \in {"claude", "codex", "kimi", "qwen", "antigravity"} |-> [m \in Names |->
     CASE s = "claude" /\ m \in {"opus-5", "opus-9"} -> <<"opus">>
       [] s = "codex" /\ m = "gpt-dated" -> <<"gpt">>
       [] s = "kimi" /\ m = "code/k3" -> <<"k3">>
       [] OTHER -> <<>>]]

Edit(s, provider, m, source, model) == [key |-> <<s, provider, m>>, to |-> [source |-> source, model |-> model]]

SavedEdits ==
  {Edit("claude", "anthropic", "proxy", "codex", "gpt"), Edit("claude", "other", "proxy", "codex", "gpt"),
   Edit("claude", "anthropic", "opus-9", "claude", "opus"), Edit("claude", "anthropic", "opus-9", "claude", "opus-5"),
   Edit("codex", "openai", "gpt-dated", "claude", "haiku"), Edit("codex", "openai", "gpt-dated", "codex", "gpt"),
   Edit("kimi", "k", "code/k3", "qwen", "max"), Edit("qwen", "q", "max", "kimi", "free"),
   Edit("antigravity", "g", "proxy", "kimi", "k3")}

Proxied == [source |-> "claude", provider |-> "", model |-> "proxy", long |-> TRUE, tier |-> "standard", at |-> 0]

MCRequests == {Proxied}
MCServed == <<1, 2>>
MCEdits ==
  {Edit("claude", "anthropic", "proxy", "codex", "gpt"), Edit("claude", "anthropic", "proxy", "claude", "opus-5")}

\* More aliases to save, of more models.
A == INSTANCE PricingAliases WITH
  Handlers <- {1, 2, 3}, Served <- <<1, 1, 2>>, Edits <- SavedEdits, Requests <- {},
  MaxTime <- 1, MaxEdits <- 2, MaxPasses <- 0, MaxStarts <- 2

\* The dated rates of Antigravity are borrowed by another source.
D == INSTANCE PricingAliases WITH
  Releases <- {1}, Edits <- {Edit("claude", "anthropic", "proxy", "antigravity", "flash")},
  Year <- 1, MaxTime <- 1, MaxEdits <- 1, MaxPasses <- 2, MaxStarts <- 2

-----------------------------------------------------------------------------
(* OpenCode                                                                *)

MCWindows == {<<0, 4>>, <<4, 8>>, <<0, 8>>, <<3, 6>>}
ProjectsOf == <<"p", "q">>

-----------------------------------------------------------------------------
(* The parts                                                               *)

\* Only the part that runs starts from a state of its own.
FiguresInit ==
  /\ part \in {"reads", "aliases", "pricing", "opencode", "quotas"}
  /\ IF part = "reads" THEN C!Init ELSE moment = 4 /\ read = {} /\ consolidated = 0 /\ memo = 0
  /\ IF part = "aliases" THEN A!AliasesInit ELSE AliasesInit
  /\ Init /\ (part # "opencode" => tables = {})
  /\ QuotaInit /\ (part # "quotas" => kind = "codex")

Reads == part = "reads" /\ C!Next /\ UNCHANGED <<part, vars, aliasVars, quotaVars>>
Saves == part = "aliases" /\ A!AliasesNext /\ UNCHANGED <<part, vars, readVars, quotaVars>>
Prices == part = "pricing" /\ AliasesNext /\ UNCHANGED <<part, vars, readVars, quotaVars>>
Records == part = "opencode" /\ Next /\ UNCHANGED <<part, readVars, aliasVars, quotaVars>>
AsksQuota == part = "quotas" /\ QuotaNext /\ UNCHANGED <<part, vars, readVars, aliasVars>>

FiguresNext == Reads \/ Saves \/ Prices \/ Records \/ AsksQuota

FiguresSpec == FiguresInit /\ [][FiguresNext]_figuresVars

\* Requests are priced by borrowed rates that have a date.
Borrows == part = "pricing" /\ D!AliasesNext /\ UNCHANGED <<part, vars, readVars, quotaVars>>

DatedSpec == FiguresInit /\ [][Borrows]_figuresVars

-----------------------------------------------------------------------------
(* The properties of parts of their own                                    *)

\* Every aggregate that is read equals that of all rows, and every page is that
\* of one sorted list; every page of the live reader of OpenCode's database
\* shows the figures that the cache makes of its rows; an alias that was saved
\* prices its model from its target until it is changed.
ReadsAgree ==
  /\ part = "reads" => C!AggregatesAgree /\ C!PagesExact
  /\ part = "opencode" => FiguresAgree
  /\ part = "aliases" => A!SavedMeansPriced

\* "A given transcript prices identically on every machine running the same
\* release" (README.md:260): this instance has one release, and no two
\* identities.
SameReleaseSamePrice == D!IdentityTellsCosts
=============================================================================
