-------------------------- MODULE AssistantProviders --------------------------
(***************************************************************************)
(* The providers the analytics assistant may send questions to: custom     *)
(* ones in the settings database, a built in one with a credential that is *)
(* found on the machine, their model catalogs, the selection, and what a   *)
(* turn captures of them (analyticsagent/providers.go,                     *)
(* pricingalias/provider_settings.go, web/assistant_providers.go).         *)
(*                                                                         *)
(* Requests run concurrently.  Each database statement or transaction is   *)
(* one step; what a request has read stays in its record.                  *)
(***************************************************************************)
EXTENDS Integers, FiniteSets

CONSTANTS
  Requests,     \* numbers of the requests that may be in flight
  Customs,      \* ids of custom providers
  Models,
  Urls, Origin, \* base URLs, and the scheme, host and port of each
  Credentials,  \* [url, key] that may be found for the built in provider
  Limits,       \* context limits a model list or the user may name, without 0,
                \* some of which may be too small for the assistant
  MaxKeys,
  MaxRequests   \* requests that are made

BuiltIn == "kimi"
Providers == Customs \union {BuiltIn}
NoKey == 0
Keys == 1..MaxKeys          \* the keys the user enters, in this order
Keep == "keep"
MinimumUsable == 8192       \* minimumUsableContextLimit
Absent == [limit |-> -1, discovered |-> FALSE]
NoModels == [m \in Models |-> Absent]
Gone == [exists |-> FALSE, url |-> Keep, key |-> NoKey, models |-> NoModels]
Deleted == [Gone EXCEPT !.key = -1]   \* ids are not used again
Unnamed == [m \in Models |-> 0]
NoSelection == [provider |-> "", model |-> ""]

VARIABLES
  rows,        \* assistant_providers with assistant_models
  builtin,     \* builtInProvider, with the models it lists
  selected,    \* assistant_selection
  revision,
  req,         \* requests in flight
  made,        \* how many requests have been made
  entered,     \* keys the user has entered
  saved,       \* where each key was saved for
  named,       \* the limit that was last named for each model, by the user or a list
  seen,        \* the status the tab shows
  turn         \* the last turn admitted

vars == <<rows, builtin, selected, revision, req, made, entered, saved, named, seen, turn>>

Idle == [pc |-> "idle"]
None == [provider |-> ""]

\* A provider that was saved in an earlier run of the dashboard, with a key, a
\* model that was discovered and one that the user has configured.
Earlier(limit, listed) ==
  LET url == CHOOSE u \in Urls : TRUE
  IN  [exists |-> TRUE, url |-> url, key |-> 1,
       models |-> [m \in Models |-> [limit |-> limit, discovered |-> m = listed]]]

Fresh ==
  /\ rows = [c \in Customs |-> Gone]
  /\ selected = NoSelection /\ entered = 0 /\ saved = [k \in Keys |-> Keep]
  /\ named = [c \in Customs |-> Unnamed]

Configured ==
  /\ \E limit \in Limits, listed \in Models :
       /\ rows = [c \in Customs |-> Earlier(limit, listed)]
       /\ named = [c \in Customs |-> [m \in Models |-> limit]]
  /\ entered = 1
  /\ saved = [k \in Keys |-> IF k = 1 THEN Origin[CHOOSE u \in Urls : TRUE] ELSE Keep]
  /\ selected \in [provider : Customs, model : Models]

Init ==
  /\ Fresh \/ Configured
  /\ builtin = [url |-> Keep, key |-> NoKey, available |-> FALSE, models |-> {}]
  /\ revision = 0
  /\ req = [r \in Requests |-> Idle] /\ made = 0
  /\ seen = None /\ turn = [asked |-> None, got |-> None]

Goes(r, s) == req' = [req EXCEPT ![r] = s]
Ends(r) == Goes(r, Idle)
At(r, pc) == req[r].pc = pc

\* Requests have no identity: the first free number is taken.
Free(r) == At(r, "idle") /\ \A q \in Requests : q < r => ~At(q, "idle")

\* A selection that names the provider gets a new revision.
BumpFor(p) == revision' = IF selected.provider = p THEN revision + 1 ELSE revision
Made == made < MaxRequests /\ made' = made + 1

Save(k, url) == saved' = IF k \in Keys THEN [saved EXCEPT ![k] = Origin[url]] ELSE saved
NewKeys == {NoKey} \union {k \in Keys : k = entered + 1}
Enter(k) == entered' = IF k = entered + 1 THEN k ELSE entered

-----------------------------------------------------------------------------
(* Custom providers                                                        *)

\* Created, and its models are looked for.
Create(r, c) ==
  /\ Free(r) /\ Made /\ rows[c] = Gone
  /\ \E url \in Urls, k \in NewKeys :
       /\ rows' = [rows EXCEPT ![c] = [Gone EXCEPT !.exists = TRUE, !.url = url, !.key = k]]
       /\ Save(k, url) /\ Enter(k)
  /\ Goes(r, [pc |-> "refresh", provider |-> c])
  /\ UNCHANGED <<builtin, selected, revision, named, seen, turn>>

\* A change of the URL, of the key, or of neither (the name).
Update(r, c) ==
  /\ Free(r) /\ Made /\ rows[c].exists
  /\ \E url \in Urls \union {Keep}, k \in NewKeys, clear \in BOOLEAN :
       /\ clear => k = NoKey
       /\ Goes(r, [pc |-> "update", provider |-> c, url |-> url, key |-> k, clear |-> clear,
                   refresh |-> url \notin {Keep, rows[c].url} \/ k # NoKey \/ clear])
       /\ Enter(k)
  /\ UNCHANGED <<rows, builtin, selected, revision, saved, named, seen, turn>>

\* Mutant: the key follows wherever the provider moves to.
FollowsAlways(from, to) == TRUE

\* sameProviderOrigin
Follows(from, to) == Origin[from] = Origin[to]

Endpoint(row) == [url |-> row.url, key |-> row.key]

UpdateRead(r) ==
  /\ At(r, "update")
  /\ LET q == req[r]
         row == rows[q.provider]
         url == IF q.url = Keep THEN row.url ELSE q.url
         key == IF q.clear THEN NoKey ELSE IF q.key # NoKey THEN q.key ELSE row.key
     IN  IF ~row.exists \/ (row.key # NoKey /\ q.key = NoKey /\ ~q.clear /\ ~Follows(row.url, url))
         THEN Ends(r)
         ELSE Goes(r, [pc |-> "write", provider |-> q.provider, refresh |-> q.refresh,
                       was |-> Endpoint(row), url |-> url, key |-> key])
  /\ UNCHANGED <<made, rows, builtin, selected, revision, entered, saved, named, seen, turn>>

\* Mutant: only what the request changes is written.
WrittenInPart(row, q) ==
  [row EXCEPT !.url = IF q.url = q.was.url THEN @ ELSE q.url,
              !.key = IF q.key = q.was.key THEN @ ELSE q.key]

\* Every column is written, those the request does not name as it read them.
Written(row, q) == [row EXCEPT !.url = q.url, !.key = q.key]

UpdateWrite(r) ==
  /\ At(r, "write")
  /\ LET q == req[r]
         changed == Endpoint(q) # q.was
     IN  IF ~rows[q.provider].exists
         THEN Ends(r) /\ UNCHANGED <<rows, revision, saved>>
         ELSE /\ rows' = [rows EXCEPT ![q.provider] = Written(@, q)]
              /\ IF changed THEN BumpFor(q.provider) ELSE UNCHANGED revision
              /\ IF q.key # q.was.key THEN Save(q.key, q.url) ELSE UNCHANGED saved
              /\ IF q.refresh THEN Goes(r, [pc |-> "refresh", provider |-> q.provider]) ELSE Ends(r)
  /\ UNCHANGED <<made, builtin, selected, entered, named, seen, turn>>

\* The selection goes with it.
Delete(c) ==
  /\ rows[c].exists /\ Made
  /\ rows' = [rows EXCEPT ![c] = Deleted]
  /\ BumpFor(c)
  /\ selected' = IF selected.provider = c THEN NoSelection ELSE selected
  /\ named' = [named EXCEPT ![c] = Unnamed]
  /\ UNCHANGED <<builtin, req, entered, saved, seen, turn>>

-----------------------------------------------------------------------------
(* Model catalogs                                                          *)

Catalogs == [Models -> Limits \union {-1, 0}]   \* -1: not in the list

\* The request to the provider is on its way.
Discover(r) ==
  /\ At(r, "refresh")
  /\ \E e \in IF req[r].provider = BuiltIn THEN Credentials
              ELSE {Endpoint(rows[c]) : c \in {x \in Customs : x = req[r].provider /\ rows[x].exists}} :
       Goes(r, [pc |-> "list", provider |-> req[r].provider, url |-> e.url, key |-> e.key])
  /\ UNCHANGED <<made, rows, builtin, selected, revision, entered, saved, named, seen, turn>>

RefreshGone(r) ==
  /\ At(r, "refresh") /\ req[r].provider \in Customs /\ ~rows[req[r].provider].exists
  /\ Ends(r)
  /\ UNCHANGED <<made, rows, builtin, selected, revision, entered, saved, named, seen, turn>>

Refresh(r, p) ==
  /\ Free(r) /\ Made
  /\ Goes(r, [pc |-> "refresh", provider |-> p])
  /\ UNCHANGED <<rows, builtin, selected, revision, entered, saved, named, seen, turn>>

\* Mutant: whatever was discovered earlier is dropped.
KeptDropped(m) == IF m.discovered THEN Absent ELSE m

\* A discovered model with a limit stays as a manual one, another is dropped.
Kept(m) ==
  IF ~m.discovered THEN m
  ELSE IF m.limit > 0 THEN [m EXCEPT !.discovered = FALSE] ELSE Absent

Replaced(models, catalog) ==
  [m \in Models |->
     IF catalog[m] = -1 THEN Kept(models[m])
     ELSE [limit |-> IF catalog[m] > 0 \/ Kept(models[m]) = Absent THEN catalog[m] ELSE Kept(models[m]).limit,
           discovered |-> TRUE]]

NamedBy(catalog, old) == [m \in Models |-> IF catalog[m] > 0 THEN catalog[m] ELSE old[m]]

Listed(r) ==
  /\ At(r, "list") /\ req[r].provider \in Customs
  /\ LET p == req[r].provider
     IN  IF ~rows[p].exists
         THEN UNCHANGED <<rows, revision, named>>
         ELSE \/ /\ \E catalog \in Catalogs :
                      /\ rows' = [rows EXCEPT ![p].models = Replaced(@, catalog)]
                      /\ named' = [named EXCEPT ![p] = NamedBy(catalog, @)]
                 /\ BumpFor(p)
              \/ UNCHANGED <<rows, revision, named>>  \* a failure keeps the models
  /\ Ends(r)
  /\ UNCHANGED <<made, builtin, selected, entered, saved, seen, turn>>

\* refreshBuiltIn: every model has a limit, if only the default one, and a
\* failure keeps the models.
ListedBuiltIn(r) ==
  /\ At(r, "list") /\ req[r].provider = BuiltIn
  /\ LET new == [builtin EXCEPT !.url = req[r].url, !.key = req[r].key]
     IN  \/ builtin' = [new EXCEPT !.available = FALSE]
         \/ /\ req[r].key # NoKey
            /\ \E listed \in SUBSET Models :
                 builtin' = [new EXCEPT !.available = listed # {}, !.models = listed]
  /\ Ends(r)
  /\ UNCHANGED <<made, rows, selected, revision, entered, saved, named, seen, turn>>

PutModel(c, m) ==
  /\ rows[c].exists /\ Made
  /\ \E l \in Limits :
       /\ rows' = [rows EXCEPT ![c].models[m] = [limit |-> l, discovered |-> @.discovered]]
       /\ named' = [named EXCEPT ![c][m] = l]
  /\ BumpFor(c)
  /\ UNCHANGED <<builtin, selected, req, entered, saved, seen, turn>>

-----------------------------------------------------------------------------
(* Selection, status and turns                                             *)

\* Mutant: any limit will do.
UsableAnyhow(p, m) == IF p = BuiltIn THEN m \in builtin.models ELSE rows[p].models[m].limit > 0

\* Built in models are usable with whatever limit they name.
UsableModel(p, m) ==
  IF p = BuiltIn THEN m \in builtin.models ELSE rows[p].models[m].limit >= MinimumUsable

Select(r, p, m) ==
  /\ Free(r) /\ Made /\ UsableModel(p, m)
  /\ Goes(r, [pc |-> "select", provider |-> p, model |-> m])
  /\ UNCHANGED <<rows, builtin, selected, revision, entered, saved, named, seen, turn>>

\* Mutant: choosing the same provider again keeps the revision.
NextRevisionLazy(p) == IF p = selected.provider THEN revision ELSE revision + 1

NextRevision(p) == revision + 1

SelectWrite(r) ==
  /\ At(r, "select")
  /\ selected' = [provider |-> req[r].provider, model |-> req[r].model]
  /\ revision' = NextRevision(req[r].provider)
  /\ Ends(r)
  /\ UNCHANGED <<made, rows, builtin, entered, saved, named, seen, turn>>

Deselect ==
  /\ Made
  /\ selected' = NoSelection /\ revision' = revision + 1
  /\ UNCHANGED <<rows, builtin, req, entered, saved, named, seen, turn>>

\* captureSelection, for a selection that was read before.
Capturable(s) ==
  /\ s.provider # "" /\ UsableModel(s.provider, s.model)
  /\ s.provider = BuiltIn => builtin.available /\ builtin.key # NoKey

\* Mutant: consent is given to the provider, wherever it is.
TokenOfProvider(p, url) == <<p, Keep>>

\* consentToken
Token(p, url) == <<p, Origin[url]>>

Captured(s) ==
  LET e == IF s.provider = BuiltIn THEN builtin ELSE rows[s.provider]
  IN  [provider |-> s.provider, model |-> s.model, revision |-> s.revision,
       url |-> e.url, key |-> e.key, token |-> Token(s.provider, e.url)]

Selection == [provider |-> selected.provider, model |-> selected.model, revision |-> revision]

\* The tab asks for the status, or sends a question to what it was shown.
AskStatus(r) ==
  /\ Free(r) /\ Made /\ \A x \in Requests : ~At(x, "status")
  /\ Goes(r, [pc |-> "status", selection |-> Selection])
  /\ UNCHANGED <<rows, builtin, selected, revision, entered, saved, named, seen, turn>>

ShowStatus(r) ==
  /\ At(r, "status")
  /\ seen' = IF Capturable(req[r].selection) THEN Captured(req[r].selection) ELSE None
  /\ Ends(r)
  /\ UNCHANGED <<made, rows, builtin, selected, revision, entered, saved, named, turn>>

\* Refused when the revision is not the current one.
Chat(r) ==
  /\ Free(r) /\ Made /\ seen # None /\ seen.revision = revision
  /\ Goes(r, [pc |-> "capture", selection |-> Selection, asked |-> seen])
  /\ UNCHANGED <<rows, builtin, selected, revision, entered, saved, named, seen, turn>>

\* Refused when consent was given to another destination.
Admit(r) ==
  /\ At(r, "capture")
  /\ LET s == req[r].selection
     IN  IF Capturable(s) /\ Captured(s).token = req[r].asked.token
         THEN turn' = [asked |-> req[r].asked, got |-> Captured(s)]
         ELSE UNCHANGED turn
  /\ Ends(r)
  /\ UNCHANGED <<made, rows, builtin, selected, revision, entered, saved, named, seen>>

Next ==
  \/ Deselect
  \/ \E c \in Customs : Delete(c) \/ \E m \in Models : PutModel(c, m)
  \/ \E r \in Requests :
       \/ UpdateRead(r) \/ UpdateWrite(r) \/ Discover(r) \/ RefreshGone(r) \/ Listed(r)
       \/ ListedBuiltIn(r) \/ SelectWrite(r) \/ AskStatus(r) \/ ShowStatus(r) \/ Chat(r) \/ Admit(r)
       \/ \E c \in Customs : Create(r, c) \/ Update(r, c)
       \/ \E p \in Providers : Refresh(r, p) \/ \E m \in Models : Select(r, p, m)

Spec == Init /\ [][Next]_vars

-----------------------------------------------------------------------------
(* Properties                                                              *)

AtHome(e) == e.key \in Keys => saved[e.key] = Origin[e.url]

\* Whatever requests change the settings at the same time, a key the user has
\* saved is sent to the origin it was saved for, to list models or to ask.
KeysGoHome ==
  /\ \A r \in Requests : At(r, "list") => AtHome(req[r])
  /\ turn.got # None => AtHome(turn.got)

\* A question is answered by the provider and model, and sent to the
\* destination, that the tab was showing when the user asked.
TurnsAsShown ==
  turn.got # None =>
    /\ turn.got.provider = turn.asked.provider /\ turn.got.model = turn.asked.model
    /\ Origin[turn.got.url] = Origin[turn.asked.url]

\* A custom model keeps the limit that the user or a model list has last named
\* for it, whatever later lists leave out, until its provider is deleted, and may
\* be selected and asked as long as this limit is large enough.  A list that names
\* a limit takes the place of the user's, also with one that is too small.
LimitsSurvive ==
  \A c \in Customs, m \in Models :
    /\ named[c][m] > 0 => rows[c].models[m].limit = named[c][m]
    /\ UsableModel(c, m) <=> named[c][m] >= MinimumUsable
=============================================================================
