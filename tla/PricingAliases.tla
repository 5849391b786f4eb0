--------------------------- MODULE PricingAliases ---------------------------
(* Pricing aliases: the user says what a model really is, and requests are   *)
(* priced by the catalog entry it was pointed at, possibly another source's. *)
(* Aliases are rows of the settings database, which several dashboards may   *)
(* have open; each keeps a snapshot of them in memory and an index of the    *)
(* bundled catalogs of its release (pricingalias/store.go, source/pricing.go,*)
(* web/pricing_aliases.go and the cost.go of the five sources).              *)
(*                                                                           *)
(* A cost is the price charged per token of each kind: costs are linear in   *)
(* the tokens.  A revision is what it hashes.  Bundled catalogs are loaded   *)
(* when a process registers its sources.                                     *)
EXTENDS Integers, Sequences, FiniteSets

CONSTANTS
  Processes,    \* dashboards
  Handlers,     \* requests of the browser, each served by one dashboard
  Served,       \* [Handlers -> Processes]
  Sources,      \* the sources with a catalog
  Releases,     \* 1 .. n: the binaries that may be installed
  Catalogs,     \* [Releases -> [Sources -> [id, currency, retrieved, models]]]
  Near,         \* Near[s][m]: the keys the name of model m also matches, best first
  Edits,        \* the aliases a user may set: [key |-> <<s, provider, m>>, to |-> target]
  Requests,     \* the recorded requests: [source, provider, model, long, tier, at]
  Year,         \* the age in days at which a catalog is no longer trusted
  MaxTime, MaxEdits, MaxPasses, MaxStarts   \* bounds

VARIABLES
  table,        \* the aliases in the database: key -> target
  now,          \* the day
  dash,      \* the dashboards: [up, release, since, snap, index]
  edit,      \* what a handler is at: [pc, key, to, next], and whether nobody wrote the key since
  pass,      \* normalizations under way: [dash, source, aliases, identity]
  priced,    \* every price ever computed: [source, identity, request, cost]
  answered,  \* per dashboard, the last change of a key it answered: key -> target
  count         \* edits, passes and starts so far

aliasVars == <<table, now, dash, edit, pass, priced, answered, count>>

NoTarget == [source |-> "none", model |-> "none"]
NoIndex == [known |-> FALSE]
Empty == << >>
NoId == ""
Missing == << >>

-----------------------------------------------------------------------------
(* Catalogs                                                                *)

Expiring == {"codex", "kimi", "qwen"}

\* The catalog of a dashboard d: one that was a year old when the process
\* started is left empty.
Base(d, s) ==
  LET c == Catalogs[d.release][s]
  IN  IF s \in Expiring /\ d.since - c.retrieved > Year
      THEN [id |-> NoId, currency |-> "USD", retrieved |-> c.retrieved, models |-> Empty] ELSE c

\* Antigravity has dated rates: from day .from on, .factor times as much.
RateAt(s, rate, day) ==
  IF s = "antigravity" /\ rate.from <= day
  THEN [rate EXCEPT !.in = @ * rate.factor, !.cached = @ * rate.factor, !.out = @ * rate.factor] ELSE rate

Usable(rate) == rate.in > 0 /\ rate.out > 0

\* Rows that only stand for a family of models are no targets.
IsFamilyKey(s, models, m) ==
  /\ s = "claude" /\ models[m].approximate
  /\ \E other \in DOMAIN models \ {m} : \E i \in DOMAIN Near[s][other] : Near[s][other][i] = m

\* What a source shows of a rate: catalogs without a price for cache writes
\* show none.
Summary(s, rate) ==
  [in |-> rate.in, cached |-> rate.cached, out |-> rate.out,
   write |-> IF s \in {"kimi", "antigravity"} THEN 0 ELSE rate.write]

\* BasePricingCatalog: the targets a source offers, as of a day.
Offered(d, s, day) ==
  LET models == Base(d, s).models
  IN  [m \in {m \in DOMAIN models : ~IsFamilyKey(s, models, m)} |-> Summary(s, RateAt(s, models[m], day))]

-----------------------------------------------------------------------------
(* The index of all catalogs, and what identifies costs                    *)

LoadedIndex(d, day) ==
  LET full == {s \in Sources : Offered(d, s, day) # Empty}
  IN  [known |-> TRUE, rates |-> [s \in full |-> Offered(d, s, day)],
       meta |-> {<<s, Base(d, s).id, Base(d, s).currency>> : s \in full}]

\* The index as the next caller finds it.
IndexOf(p) == IF dash[p].index.known THEN dash[p].index ELSE LoadedIndex(dash[p], now)

AliasesOf(snap, s) == [k \in {k \in DOMAIN snap : k[1] = s} |-> snap[k]]

HasForeign(aliases) == \E k \in DOMAIN aliases : aliases[k].source # k[1]

\* Mutant: borrowed rates are not part of the identity.
CapturedRevisionAlone(aliases, index) == <<aliases, {}>>

\* With a borrowed rate, the catalogs are part of the revision.
CapturedRevision(aliases, index) == <<aliases, IF HasForeign(aliases) THEN index.meta ELSE {}>>

\* The identity under which costs are cached.
Identity(d, s, aliases, index) ==
  IF aliases = Empty THEN <<Base(d, s).id>> ELSE <<Base(d, s).id, CapturedRevision(aliases, index)>>

-----------------------------------------------------------------------------
(* Resolution                                                              *)

Unmatched(kind) == [kind |-> kind, rate |-> [in |-> 0, out |-> 0], source |-> "none", model |-> "none"]

Matched(match) == match.model # "none"

Native(s, models, m) ==
  LET near == SelectSeq(Near[s][m], LAMBDA k : k \in DOMAIN models)
      found(k, kind) == [kind |-> kind, rate |-> models[k], source |-> s, model |-> k]
  IN  IF m \in DOMAIN models THEN found(m, "exact")
      ELSE IF near = <<>> \/ s = "antigravity" THEN Unmatched("unknown")
      ELSE found(near[1], IF s \in {"kimi", "qwen"} THEN "native_alias" ELSE "fallback")

\* What a source makes of a borrowed rate.  Tiers and long prompts do not carry
\* across; a missing price for cache writes means the price of input.
Borrowed(s, summary) ==
  LET write == IF s = "claude" /\ summary.write = 0 THEN summary.in ELSE summary.write
  IN  [in |-> summary.in, cached |-> summary.cached, out |-> summary.out, write |-> write, hour |-> write,
       approximate |-> s = "claude", long |-> 1, tiers |-> Empty, longFast |-> FALSE, from |-> 0, factor |-> 1]

\* aliasPricing: an own target is an exact, usable row, a foreign one is in the
\* index, usable and in the same currency (Antigravity does not look at that).
AliasMatch(d, s, target, index, day) ==
  LET own == Base(d, s).models
      match(rate) == [kind |-> "user_alias", rate |-> rate, source |-> target.source, model |-> target.model]
      lent == index.rates[target.source][target.model]
  IN  IF target.source = s
      THEN IF target.model \in DOMAIN own /\ Usable(own[target.model]) /\ ~IsFamilyKey(s, own, target.model)
           THEN match(RateAt(s, own[target.model], day)) ELSE Unmatched("none")
      ELSE IF /\ target.source \in DOMAIN index.rates
              /\ target.model \in DOMAIN index.rates[target.source]
              /\ Usable(lent)
              /\ s # "antigravity" => \A e \in index.meta : e[1] = target.source => e[3] = Base(d, s).currency
           THEN match(Borrowed(s, lent)) ELSE Unmatched("none")

\* Mutant: name matching outranks the user.
ResolveNativeFirst(d, s, aliases, index, provider, m, day) ==
  LET native == Native(s, Base(d, s).models, m)
      key == <<s, provider, m>>
  IN  IF Matched(native) /\ Usable(native.rate) THEN native
      ELSE IF key \in DOMAIN aliases THEN AliasMatch(d, s, aliases[key], index, day) ELSE native

\* An alias outranks even an exact row.  One whose target is gone leaves the
\* native price, in Antigravity none.
Resolve(d, s, aliases, index, provider, m, day) ==
  LET models == Base(d, s).models
      key == <<s, provider, m>>
      alias == IF key \in DOMAIN aliases THEN AliasMatch(d, s, aliases[key], index, day) ELSE Unmatched("none")
      native == Native(s, models, m)
  IN  IF alias.kind = "user_alias" THEN alias
      ELSE IF key \in DOMAIN aliases /\ s = "antigravity" THEN Unmatched("user_alias")
      ELSE IF Matched(native) /\ Usable(native.rate) THEN [native EXCEPT !.rate = RateAt(s, @, day)]
      ELSE IF models = Empty THEN Unmatched("unavailable")
      ELSE IF Matched(native) THEN [native EXCEPT !.kind = "unpriced"] ELSE native

-----------------------------------------------------------------------------
(* Costs: the price per token of input, cached input, cache writes of five  *)
(* minutes and of an hour, and output                                       *)

\* A prompt over the threshold is billed at the long row, output included.
ClaudeCost(match, request) ==
  LET rate == match.rate
      factor == IF request.long THEN rate.long ELSE 1
      hour == IF rate.hour # 0 THEN rate.hour ELSE 2 * rate.in
  IN  <<factor * rate.in, factor * rate.cached, factor * rate.write, factor * hour, factor * rate.out>>

\* Fast and flex have rates of their own or none; a borrowed rate has no tiers.
CodexCost(match, request) ==
  LET rate == match.rate
      tier == IF match.source # "codex" \/ request.tier = "standard" THEN 1
              ELSE IF request.tier \in DOMAIN rate.tiers THEN rate.tiers[request.tier] ELSE 0
      factor == tier * IF request.long THEN rate.long ELSE 1
  IN  IF tier = 0 \/ (match.source = "codex" /\ request.tier = "fast" /\ request.long /\ ~rate.longFast)
      THEN Missing
      ELSE <<factor * rate.in, factor * rate.cached, factor * rate.write, factor * rate.write, factor * rate.out>>

\* Kimi bills cache writes as input.
KimiCost(match, request) ==
  <<match.rate.in, match.rate.cached, match.rate.in, match.rate.in, match.rate.out>>

\* Cache writes without a price of their own are billed as input.
QwenCost(match, request) ==
  LET write == IF match.rate.write > 0 THEN match.rate.write ELSE match.rate.in
  IN  <<match.rate.in, match.rate.cached, write, write, match.rate.out>>

Cost(d, aliases, index, request) ==
  LET s == request.source
      provider == IF s = "claude" THEN "anthropic" ELSE request.provider
      match == Resolve(d, s, aliases, index, provider, request.model, request.at)
  IN  IF ~Usable(match.rate) THEN Missing
      ELSE CASE s = "claude" -> ClaudeCost(match, request)
             [] s = "codex" -> CodexCost(match, request)
             [] s = "kimi" -> KimiCost(match, request)
             [] OTHER -> QwenCost(match, request)

-----------------------------------------------------------------------------
(* Dashboards start, on the release that is installed, and stop             *)

AliasesInit ==
  /\ table = Empty /\ now = 0 /\ priced = {} /\ pass = {}
  /\ dash = [p \in Processes |-> [up |-> FALSE, release |-> 1, since |-> 0, snap |-> Empty, index |-> NoIndex]]
  /\ edit = [h \in Handlers |-> [pc |-> "idle", key |-> <<>>, to |-> NoTarget, next |-> Empty, last |-> TRUE]]
  /\ answered = [p \in Processes |-> Empty]
  /\ count = [edits |-> 0, passes |-> 0, starts |-> 0]

\* Open reads the aliases, then the sources are registered and bound to the index.
Open(p, release) ==
  /\ ~dash[p].up /\ count.starts < MaxStarts
  /\ dash' = [dash EXCEPT ![p] = [up |-> TRUE, release |-> release, since |-> now, snap |-> table, index |-> NoIndex]]
  /\ count' = [count EXCEPT !.starts = @ + 1]
  /\ UNCHANGED <<table, now, edit, pass, priced, answered>>

\* The process may stop at any time; what it was doing is lost, except commits.
Stop(p) ==
  /\ dash[p].up
  /\ dash' = [dash EXCEPT ![p].up = FALSE]
  /\ edit' = [h \in Handlers |-> IF Served[h] = p THEN [edit[h] EXCEPT !.pc = "idle"] ELSE edit[h]]
  /\ pass' = {x \in pass : x.dash # p}
  /\ answered' = [answered EXCEPT ![p] = Empty]
  /\ UNCHANGED <<table, now, priced, count>>

Tick == now < MaxTime /\ now' = now + 1 /\ UNCHANGED <<table, dash, edit, pass, priced, answered, count>>

-----------------------------------------------------------------------------
(* An alias is saved or removed                                            *)

Resolution(p, key) ==
  Resolve(dash[p], key[1], AliasesOf(dash[p].snap, key[1]), IndexOf(p), key[2], key[3], now)

\* Mutant: the provider a source prices under is not looked at.
AcceptsAnyProvider(p, key, to) ==
  LET offered == Offered(dash[p], to.source, now)
  IN  /\ ~(to.source = key[1] /\ to.model = key[3])
      /\ Offered(dash[p], key[1], now) # Empty
      /\ Resolution(p, key).kind # "unavailable"
      /\ to.model \in DOMAIN offered /\ Usable(offered[to.model])
      /\ Base(dash[p], key[1]).currency = Base(dash[p], to.source).currency

\* Mutant: the currencies are not compared.
AcceptsAnyCurrency(p, key, to) ==
  LET offered == Offered(dash[p], to.source, now)
  IN  /\ ~(to.source = key[1] /\ to.model = key[3])
      /\ Offered(dash[p], key[1], now) # Empty
      /\ key[1] = "claude" => key[2] = "anthropic"
      /\ Resolution(p, key).kind # "unavailable"
      /\ to.model \in DOMAIN offered /\ Usable(offered[to.model])

\* What the handler checks before it saves: the source has a catalog, prices
\* under that provider and can resolve; the target is offered, usable and in
\* the same currency.
Accepts(p, key, to) ==
  LET offered == Offered(dash[p], to.source, now)
  IN  /\ ~(to.source = key[1] /\ to.model = key[3])
      /\ Offered(dash[p], key[1], now) # Empty
      /\ key[1] = "claude" => key[2] = "anthropic"
      /\ Resolution(p, key).kind # "unavailable"
      /\ to.model \in DOMAIN offered /\ Usable(offered[to.model])
      /\ Base(dash[p], key[1]).currency = Base(dash[p], to.source).currency

Begin(h, key, to) ==
  /\ edit[h].pc = "idle" /\ dash[Served[h]].up /\ count.edits < MaxEdits
  /\ IF to = NoTarget THEN key \in DOMAIN table ELSE Accepts(Served[h], key, to)
  /\ edit' = [edit EXCEPT ![h] = [pc |-> "accepted", key |-> key, to |-> to, next |-> Empty, last |-> TRUE]]
  /\ count' = [count EXCEPT !.edits = @ + 1]
  /\ UNCHANGED <<table, now, dash, pass, priced, answered>>

With(aliases, key, to) == [k \in DOMAIN aliases \union {key} |-> IF k = key THEN to ELSE aliases[k]]

Written(key, to) ==
  IF to = NoTarget THEN [k \in DOMAIN table \ {key} |-> table[k]] ELSE With(table, key, to)

\* What others answered for the key no longer holds.
Overtakes(h, next) ==
  LET key == edit[h].key
  IN  /\ edit' = [g \in Handlers |->
                  IF g = h THEN [edit[h] EXCEPT !.pc = "committed", !.next = next, !.last = TRUE]
                  ELSE IF edit[g].key = key THEN [edit[g] EXCEPT !.last = FALSE] ELSE edit[g]]
      /\ answered' = [p \in Processes |-> [k \in DOMAIN answered[p] \ {key} |-> answered[p][k]]]

Locked(p) == \E h \in Handlers : Served[h] = p /\ edit[h].pc = "committed"

\* Mutant: no lock from the transaction to the swap of the snapshot.
CommitUnlocked(h) ==
  LET next == Written(edit[h].key, edit[h].to)
  IN  /\ edit[h].pc = "accepted"
      /\ table' = next
      /\ Overtakes(h, next)
      /\ UNCHANGED <<now, dash, pass, priced, count>>

\* The row is written and the next snapshot read in one transaction, with the
\* write lock of the process, which is kept until the snapshot is swapped.
Commit(h) ==
  LET next == Written(edit[h].key, edit[h].to)
  IN  /\ edit[h].pc = "accepted" /\ ~Locked(Served[h])
      /\ table' = next
      /\ Overtakes(h, next)
      /\ UNCHANGED <<now, dash, pass, priced, count>>

\* The transaction fails, the change is given up.
Fail(h) ==
  /\ edit[h].pc = "accepted"
  /\ edit' = [edit EXCEPT ![h].pc = "idle"]
  /\ UNCHANGED <<table, now, dash, pass, priced, answered, count>>

Swap(h) ==
  /\ edit[h].pc = "committed"
  /\ dash' = [dash EXCEPT ![Served[h]].snap = edit[h].next]
  /\ edit' = [edit EXCEPT ![h].pc = "stored"]
  /\ UNCHANGED <<table, now, pass, priced, answered, count>>

\* The index is dropped and the change is announced and answered.
Answer(h) ==
  LET p == Served[h]
  IN  /\ edit[h].pc = "stored"
      /\ dash' = [dash EXCEPT ![p].index = NoIndex]
      /\ answered' = IF edit[h].last
                     THEN [answered EXCEPT ![p] = With(@, edit[h].key, edit[h].to)] ELSE answered
      /\ edit' = [edit EXCEPT ![h].pc = "idle"]
      /\ UNCHANGED <<table, now, pass, priced, count>>

-----------------------------------------------------------------------------
(* Requests are priced                                                     *)

\* A normalization captures the aliases and the identity they make.
Capture(p, s) ==
  LET aliases == AliasesOf(dash[p].snap, s)
      index == IF HasForeign(aliases) THEN IndexOf(p) ELSE dash[p].index
  IN  /\ dash[p].up /\ count.passes < MaxPasses
      /\ pass' = pass \union {[dash |-> p, source |-> s, aliases |-> aliases,
                                 identity |-> Identity(dash[p], s, aliases, index)]}
      /\ dash' = [dash EXCEPT ![p].index = index]
      /\ count' = [count EXCEPT !.passes = @ + 1]
      /\ UNCHANGED <<table, now, edit, priced, answered>>

\* Mutant: the aliases are looked up when a request is priced.
PriceLive(x, request) ==
  LET aliases == AliasesOf(dash[x.dash].snap, x.source)
      index == IF HasForeign(aliases) THEN IndexOf(x.dash) ELSE dash[x.dash].index
  IN  /\ x \in pass /\ request.source = x.source
      /\ priced' = priced \union {[source |-> x.source, identity |-> x.identity, request |-> request,
                                   cost |-> Cost(dash[x.dash], aliases, index, request)]}
      /\ dash' = [dash EXCEPT ![x.dash].index = index]
      /\ UNCHANGED <<table, now, edit, pass, answered, count>>

\* It prices one request after the other, and looks borrowed rates up as it goes.
Price(x, request) ==
  LET index == IF HasForeign(x.aliases) THEN IndexOf(x.dash) ELSE dash[x.dash].index
  IN  /\ x \in pass /\ request.source = x.source
      /\ priced' = priced \union {[source |-> x.source, identity |-> x.identity, request |-> request,
                                   cost |-> Cost(dash[x.dash], x.aliases, index, request)]}
      /\ dash' = [dash EXCEPT ![x.dash].index = index]
      /\ UNCHANGED <<table, now, edit, pass, answered, count>>

AliasesNext ==
  \/ \E p \in Processes :
       \/ \E release \in Releases : Open(p, release)
       \/ Stop(p)
       \/ \E request \in Requests : Capture(p, request.source)
  \/ \E h \in Handlers :
       \/ \E e \in Edits : Begin(h, e.key, e.to) \/ Begin(h, e.key, NoTarget)
       \/ Commit(h) \/ Fail(h) \/ Swap(h) \/ Answer(h)
  \/ \E x \in pass, request \in Requests : Price(x, request)
  \/ Tick

AliasesSpec == AliasesInit /\ [][AliasesNext]_aliasVars

-----------------------------------------------------------------------------
(* Properties                                                              *)

\* The cache keeps costs by their pricing identity: whoever priced a request
\* under an identity, whenever and whatever aliases changed meanwhile, all got
\* the same cost.
IdentityTellsCosts ==
  \A a, b \in priced :
    a.source = b.source /\ a.identity = b.identity /\ a.request = b.request => a.cost = b.cost

\* What the owner of a catalog charges for the input, cached input and output
\* of an ordinary request.
ListPrice(p, to) ==
  LET rate == RateAt(to.source, Base(dash[p], to.source).models[to.model], now)
  IN  <<rate.in, rate.cached, rate.out>>

\* An alias whose saving was answered prices that model from its target from
\* then on, whatever else was saved at the same time, until it is changed.
SavedMeansPriced ==
  \A p \in Processes : dash[p].up =>
    \A key \in DOMAIN answered[p] :
      LET to == answered[p][key]
          match == Resolution(p, key)
          cost == Cost(dash[p], AliasesOf(dash[p].snap, key[1]), IndexOf(p),
                       [source |-> key[1], provider |-> key[2], model |-> key[3],
                        long |-> FALSE, tier |-> "standard", at |-> now])
      IN  IF to = NoTarget THEN match.kind # "user_alias"
          ELSE /\ match.kind = "user_alias" /\ match.source = to.source /\ match.model = to.model
               /\ cost # Missing
               /\ <<cost[1], cost[2], cost[5]>> = ListPrice(p, to)

=============================================================================
