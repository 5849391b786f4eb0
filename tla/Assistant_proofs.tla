--------------------------- MODULE Assistant_proofs ---------------------------
(***************************************************************************)
(* What the assistant's settings and its saved conversations promise.      *)
(*                                                                         *)
(* Settings, while any number of requests change them: keys stay at home,  *)
(* a model keeps the limit last named for it, a question is answered by    *)
(* what the tab showed.  Conversations, for every number of dashboards,    *)
(* tabs and sessions, whatever starts, fails, stops and is upgraded: what  *)
(* is stored verifies, and comes back whole.                               *)
(*                                                                         *)
(* The login the assistant shares with the quota collector, whatever       *)
(* processes refresh it: it is not lost while the server takes it.         *)
(***************************************************************************)
EXTENDS AssistantProviders, AssistantChats, KimiLogin, SequenceTheorems, TLAPS

-----------------------------------------------------------------------------
(* PROVIDERS                                                               *)


\* What the constants stand for: a credential that was found on the machine
\* is not one of the keys the user enters, and a limit is positive.
Meant ==
  /\ MaxKeys \in Nat \ {0} /\ MaxRequests \in Nat
  /\ Urls # {} /\ Limits \subseteq Nat \ {0}
  /\ BuiltIn \notin Customs
  /\ \A e \in Credentials : e \in [url : {e.url}, key : Nat] /\ e.key \notin Keys

---------------------------------------------------------------------------
(* Types                                                                   *)

Addresses == Urls \union {Keep} \union {e.url : e \in Credentials}
Places == {Origin[u] : u \in Addresses} \union {Keep}
Model == [limit : Int, discovered : BOOLEAN]
Row == [exists : BOOLEAN, url : Addresses, key : Int, models : [Models -> Model]]
BuiltInRow == [url : Addresses, key : Int, available : BOOLEAN, models : SUBSET Models]
Destination == [url : Addresses, key : Int]

Chosen == [provider : Providers, model : Models] \union {NoSelection}
ChosenAt == [provider : Providers \union {""}, model : Models \union {""}, revision : Nat]
Capture == [provider : Providers \union {""}, model : Models \union {""}, revision : Nat,
            url : Addresses, key : Int, token : (Providers \union {""}) \X Places]

RefreshReq == [pc : {"refresh"}, provider : Providers]
UpdateReq == [pc : {"update"}, provider : Customs, url : Addresses, key : Keys \union {NoKey},
              clear : BOOLEAN, refresh : BOOLEAN]
WriteReq == [pc : {"write"}, provider : Customs, refresh : BOOLEAN, was : Destination,
             url : Addresses, key : Int]
ListReq == [pc : {"list"}, provider : Providers, url : Addresses, key : Int]
SelectReq == [pc : {"select"}, provider : Providers, model : Models]
StatusReq == [pc : {"status"}, selection : ChosenAt]
CaptureReq == [pc : {"capture"}, selection : ChosenAt, asked : Capture]

Request == {Idle} \union RefreshReq \union UpdateReq \union WriteReq \union ListReq
             \union SelectReq \union StatusReq \union CaptureReq

TypeOK ==
  /\ rows \in [Customs -> Row] /\ builtin \in BuiltInRow
  /\ selected \in Chosen /\ revision \in Nat
  /\ req \in [Requests -> Request]
  /\ made \in Nat /\ entered \in 0..MaxKeys
  /\ saved \in [Keys -> Places] /\ named \in [Customs -> [Models -> Int]]
  /\ seen \in Capture \union {None}
  /\ turn \in [asked : Capture \union {None}, got : Capture \union {None}]

\* A request holds what its next step needs.
LEMMA AtType ==
  ASSUME TypeOK, NEW r \in Requests
  PROVE  /\ At(r, "refresh") => req[r] \in RefreshReq
         /\ At(r, "update") => req[r] \in UpdateReq
         /\ At(r, "write") => req[r] \in WriteReq
         /\ At(r, "list") => req[r] \in ListReq
         /\ At(r, "select") => req[r] \in SelectReq
         /\ At(r, "status") => req[r] \in StatusReq
         /\ At(r, "capture") => req[r] \in CaptureReq
<1>1. req[r] \in Request
  BY DEF TypeOK
<1> QED
  BY <1>1 DEF Request, At, Idle, RefreshReq, UpdateReq, WriteReq, ListReq, SelectReq, StatusReq, CaptureReq

\* Only one request changes at a time.
LEMMA GoesType ==
  ASSUME TypeOK, NEW r \in Requests, NEW s \in Request, Goes(r, s)
  PROVE  /\ req' \in [Requests -> Request] /\ req'[r] = s
         /\ \A q \in Requests : q # r => req'[q] = req[q]
BY DEF TypeOK, Goes

LEMMA EndsType ==
  ASSUME TypeOK, NEW r \in Requests, Ends(r)
  PROVE  /\ req' \in [Requests -> Request] /\ req'[r] = Idle
         /\ \A q \in Requests : q # r => req'[q] = req[q]
<1>1. Idle \in Request
  BY DEF Request
<1> QED
  BY <1>1, GoesType DEF Ends

LEMMA RowsTyped ==
  ASSUME Meant
  PROVE  NoModels \in [Models -> Model] /\ Gone \in Row /\ Deleted \in Row /\ NoKey \notin Keys /\ -1 \notin Keys
         /\ Unnamed \in [Models -> Int]
<1>1. NoModels \in [Models -> Model]
  BY DEF NoModels, Absent, Model
<1>2. NoKey \notin Keys /\ -1 \notin Keys
  BY DEF NoKey, Keys, Meant
<1>3. Gone \in Row
  BY <1>1 DEF Gone, Row, Addresses, NoKey
<1>4. Deleted \in Row
  BY <1>3 DEF Deleted, Row
<1> QED
  BY <1>1, <1>2, <1>3, <1>4 DEF Unnamed

LEMMA Picks == ASSUME Meant PROVE (CHOOSE u \in Urls : TRUE) \in Urls
BY DEF Meant

LEMMA EarlierTyped == ASSUME Meant, NEW limit \in Limits, NEW listed \in Models PROVE Earlier(limit, listed) \in Row
<1> DEFINE models == [m \in Models |-> [limit |-> limit, discovered |-> m = listed]]
<1>1. models \in [Models -> Model]
  BY DEF Model, Meant
<1>2. (CHOOSE u \in Urls : TRUE) \in Addresses
  BY Picks DEF Addresses
<1> HIDE DEF models
<1>3. [exists |-> TRUE, url |-> CHOOSE u \in Urls : TRUE, key |-> 1, models |-> models] \in Row
  BY <1>1, <1>2 DEF Row
<1> QED
  BY <1>3 DEF Earlier, models

LEMMA InitTypes == ASSUME Meant, Init PROVE TypeOK
<1>1. CASE Fresh
  <2>1. rows \in [Customs -> Row] /\ selected \in Chosen /\ entered \in 0..MaxKeys /\ named \in [Customs -> [Models -> Int]]
    BY <1>1, RowsTyped DEF Fresh, Chosen, Meant
  <2>2. saved \in [Keys -> Places]
    BY <1>1 DEF Fresh, Places
  <2> QED
    BY <2>1, <2>2, RowsTyped DEF Init, TypeOK, BuiltInRow, Addresses, Request, NoKey
<1>2. CASE Configured
  <2>1. rows \in [Customs -> Row] /\ named \in [Customs -> [Models -> Int]]
    BY <1>2, EarlierTyped DEF Configured, Meant
  <2>2. selected \in Chosen /\ entered \in 0..MaxKeys
    <3>1. selected \in Chosen
      BY <1>2 DEF Configured, Chosen, Providers
    <3> QED
      BY <1>2, <3>1 DEF Configured, Meant
  <2>3. Origin[CHOOSE u \in Urls : TRUE] \in Places /\ Keep \in Places
    BY Picks DEF Places, Addresses
  <2>4. saved \in [Keys -> Places]
    BY <1>2, <2>3 DEF Configured
  <2> QED
    BY <2>1, <2>2, <2>4, RowsTyped DEF Init, TypeOK, BuiltInRow, Addresses, Request, NoKey
<1> QED
  BY <1>1, <1>2 DEF Init

LEMMA SaveTyped ==
  ASSUME TypeOK, NEW k, NEW url \in Addresses, Save(k, url)
  PROVE  /\ saved' \in [Keys -> Places]
         /\ \A j \in Keys : saved'[j] = IF j = k THEN Origin[url] ELSE saved[j]
BY DEF TypeOK, Save, Places

LEMMA EnterTyped ==
  ASSUME Meant, TypeOK, NEW k \in NewKeys, Enter(k)
  PROVE  /\ entered' \in 0..MaxKeys /\ entered <= entered' /\ k \in Int
         /\ k \in Keys \union {NoKey}
         /\ k # NoKey => k \in Keys /\ k = entered + 1 /\ entered' = k
BY DEF TypeOK, Meant, NewKeys, Enter, Keys, NoKey

LEMMA BumpTyped == ASSUME TypeOK, NEW p, BumpFor(p) PROVE revision' \in Nat /\ revision <= revision'
BY DEF TypeOK, BumpFor

LEMMA MadeTyped == ASSUME TypeOK, Made PROVE made' \in Nat
BY DEF TypeOK, Made

\* The limit a model has, 0 for none.
LimitOf(m) == IF m.limit > 0 THEN m.limit ELSE 0

LEMMA KeptTyped ==
  ASSUME Meant, NEW m \in Model
  PROVE  Kept(m) \in Model /\ LimitOf(Kept(m)) = LimitOf(m)
<1>1. Absent \in Model
  BY DEF Absent, Model
<1>2. PICK l \in Int, d \in BOOLEAN : m = [limit |-> l, discovered |-> d]
  BY Zenon DEF Model
<1>3. /\ [m EXCEPT !.discovered = FALSE] \in Model
      /\ [m EXCEPT !.discovered = FALSE].limit = m.limit
  BY <1>2 DEF Model
<1> QED
  BY <1>1, <1>2, <1>3 DEF Kept, LimitOf, Absent

\* A model list changes the limits it names, and no other.
LEMMA ReplacedTyped ==
  ASSUME Meant, NEW models \in [Models -> Model], NEW catalog \in Catalogs
  PROVE  /\ Replaced(models, catalog) \in [Models -> Model]
         /\ \A m \in Models : LimitOf(Replaced(models, catalog)[m]) =
                             IF catalog[m] > 0 THEN catalog[m] ELSE LimitOf(models[m])
<1> SUFFICES ASSUME NEW m \in Models
    PROVE  /\ Replaced(models, catalog)[m] \in Model
           /\ LimitOf(Replaced(models, catalog)[m]) = IF catalog[m] > 0 THEN catalog[m] ELSE LimitOf(models[m])
  BY DEF Replaced
<1> DEFINE k == Kept(models[m])
<1>1. k \in Model /\ LimitOf(k) = LimitOf(models[m])
  BY KeptTyped
<1>2. catalog[m] \in Int /\ (catalog[m] # -1 => catalog[m] >= 0)
  BY DEF Catalogs, Meant
<1>3. Replaced(models, catalog)[m] =
        IF catalog[m] = -1 THEN k
        ELSE [limit |-> IF catalog[m] > 0 \/ k = Absent THEN catalog[m] ELSE k.limit, discovered |-> TRUE]
  BY DEF Replaced
<1>4. k = Absent => LimitOf(k) = 0
  BY DEF Absent, LimitOf
<1> HIDE DEF k
<1>5. CASE catalog[m] = -1
  BY <1>1, <1>3, <1>5
<1>6. CASE catalog[m] # -1
  <2>1. k.limit \in Int
    BY <1>1 DEF Model
  <2> DEFINE new == IF catalog[m] > 0 \/ k = Absent THEN catalog[m] ELSE k.limit
  <2>2. Replaced(models, catalog)[m] = [limit |-> new, discovered |-> TRUE] /\ new \in Int
    BY <1>2, <1>3, <1>6, <2>1
  <2>3. (IF new > 0 THEN new ELSE 0) = IF catalog[m] > 0 THEN catalog[m] ELSE LimitOf(k)
    BY <1>2, <1>4, <1>6, <2>1 DEF LimitOf
  <2> HIDE DEF new
  <2> QED
    BY <1>1, <2>2, <2>3 DEF Model, LimitOf
<1> QED
  BY <1>5, <1>6

LEMMA CapturedTyped ==
  ASSUME TypeOK, NEW s \in ChosenAt, Capturable(s)
  PROVE  /\ Captured(s) \in Capture
         /\ Captured(s).provider = s.provider /\ Captured(s).model = s.model
         /\ Captured(s).revision = s.revision
         /\ Captured(s).token = <<s.provider, Origin[Captured(s).url]>>
         /\ Endpoint(Captured(s)) = Endpoint(IF s.provider = BuiltIn THEN builtin ELSE rows[s.provider])
<1> DEFINE e == IF s.provider = BuiltIn THEN builtin ELSE rows[s.provider]
<1>1. s.provider \in Providers /\ s.model \in Models \union {""} /\ s.revision \in Nat
  BY DEF ChosenAt, Capturable
<1>2. e.url \in Addresses /\ e.key \in Int
  BY <1>1 DEF TypeOK, Row, BuiltInRow, Providers
<1>3. Captured(s) = [provider |-> s.provider, model |-> s.model, revision |-> s.revision,
                     url |-> e.url, key |-> e.key, token |-> <<s.provider, Origin[e.url]>>]
  BY DEF Captured, Token
<1>4. Origin[e.url] \in Places
  BY <1>2 DEF Places
<1> HIDE DEF e
<1>5. Captured(s) \in Capture
  <2> DEFINE token == <<s.provider, Origin[e.url]>>
  <2>1. token \in (Providers \union {""}) \X Places
    BY <1>1, <1>4
  <2>2. Captured(s) = [provider |-> s.provider, model |-> s.model, revision |-> s.revision,
                       url |-> e.url, key |-> e.key, token |-> token]
    BY <1>3
  <2> HIDE DEF token
  <2>3. [provider |-> s.provider, model |-> s.model, revision |-> s.revision,
         url |-> e.url, key |-> e.key, token |-> token] \in Capture
    BY <1>1, <1>2, <2>1, Zenon DEF Capture
  <2> QED
    BY <2>2, <2>3, Zenon
<1>6. Endpoint(Captured(s)) = Endpoint(e)
  BY <1>3 DEF Endpoint
<1> QED
  BY <1>3, <1>5, <1>6 DEF e

LEMMA SelectionTyped == ASSUME TypeOK PROVE Selection \in ChosenAt
<1>1. selected.provider \in Providers \union {""} /\ selected.model \in Models \union {""}
  <2>1. CASE selected = NoSelection
    BY <2>1 DEF NoSelection
  <2>2. CASE selected \in [provider : Providers, model : Models]
    BY <2>2
  <2> QED
    BY <2>1, <2>2 DEF TypeOK, Chosen
<1> QED
  BY <1>1 DEF Selection, ChosenAt, TypeOK

LEMMA RequestTypes ==
  ASSUME Meant, TypeOK, NEW r \in Requests,
         \/ UpdateRead(r) \/ Discover(r) \/ RefreshGone(r) \/ AskStatus(r) \/ Chat(r)
         \/ \E c \in Customs : Update(r, c)
         \/ \E p \in Providers : Refresh(r, p) \/ \E m \in Models : Select(r, p, m)
  PROVE  TypeOK'
<1>1. CASE UpdateRead(r)
  <2> DEFINE q == req[r]
             row == rows[q.provider]
             url == IF q.url = Keep THEN row.url ELSE q.url
             key == IF q.clear THEN NoKey ELSE IF q.key # NoKey THEN q.key ELSE row.key
             s == [pc |-> "write", provider |-> q.provider, refresh |-> q.refresh,
                   was |-> Endpoint(row), url |-> url, key |-> key]
  <2>1. q \in UpdateReq
    BY <1>1, AtType DEF UpdateRead
  <2>2. row \in Row
    BY <2>1 DEF TypeOK, UpdateReq
  <2>3. Endpoint(row) \in Destination
    BY <2>2 DEF Row, Endpoint, Destination
  <2>4. url \in Addresses /\ q.provider \in Customs /\ q.refresh \in BOOLEAN
    BY <2>1, <2>2 DEF Row, UpdateReq
  <2>5. key \in Int
    BY <2>1, <2>2 DEF Row, UpdateReq, Keys, NoKey, Meant
  <2>6. s \in WriteReq
    <3> HIDE DEF url, key, row, q
    <3> QED
      BY <2>3, <2>4, <2>5 DEF WriteReq
  <2>7. s \in Request
    BY <2>6 DEF Request
  <2>8. Ends(r) \/ Goes(r, s)
    BY <1>1 DEF UpdateRead
  <2>9. req' \in [Requests -> Request]
    <3> HIDE DEF s
    <3> QED
      BY <2>7, <2>8, GoesType, EndsType
  <2> QED
    BY <1>1, <2>9 DEF UpdateRead, TypeOK
<1>2. CASE Discover(r)
  <2>1. PICK e \in IF req[r].provider = BuiltIn THEN Credentials
                   ELSE {Endpoint(rows[c]) : c \in {x \in Customs : x = req[r].provider /\ rows[x].exists}} :
          Goes(r, [pc |-> "list", provider |-> req[r].provider, url |-> e.url, key |-> e.key])
    BY <1>2 DEF Discover
  <2>2. req[r].provider \in Providers
    BY <1>2, AtType DEF Discover, RefreshReq
  <2>3. e.url \in Addresses /\ e.key \in Int
    <3>1. CASE req[r].provider = BuiltIn
      BY <2>1, <3>1 DEF Meant, Addresses
    <3>2. CASE req[r].provider # BuiltIn
      BY <2>1, <3>2 DEF TypeOK, Endpoint, Row
    <3> QED
      BY <3>1, <3>2
  <2>4. [pc |-> "list", provider |-> req[r].provider, url |-> e.url, key |-> e.key] \in Request
    BY <2>2, <2>3 DEF ListReq, Request
  <2>5. req' \in [Requests -> Request]
    BY <2>1, <2>4, GoesType
  <2> QED
    BY <1>2, <2>5 DEF Discover, TypeOK
<1>3. CASE RefreshGone(r)
  <2>1. req' \in [Requests -> Request]
    BY <1>3, EndsType DEF RefreshGone
  <2> QED
    BY <1>3, <2>1 DEF RefreshGone, TypeOK
<1>4. CASE AskStatus(r)
  <2>1. [pc |-> "status", selection |-> Selection] \in Request
    BY SelectionTyped DEF StatusReq, Request
  <2>2. req' \in [Requests -> Request]
    BY <1>4, <2>1, GoesType DEF AskStatus
  <2> QED
    BY <1>4, <2>2, MadeTyped DEF AskStatus, TypeOK
<1>5. CASE Chat(r)
  <2>1. seen \in Capture
    BY <1>5 DEF Chat, TypeOK
  <2>2. [pc |-> "capture", selection |-> Selection, asked |-> seen] \in Request
    BY <2>1, SelectionTyped DEF CaptureReq, Request
  <2>3. req' \in [Requests -> Request]
    BY <1>5, <2>2, GoesType DEF Chat
  <2> QED
    BY <1>5, <2>3, MadeTyped DEF Chat, TypeOK
<1>6. ASSUME NEW c \in Customs, Update(r, c) PROVE TypeOK'
  <2>1. PICK url \in Urls \union {Keep}, k \in NewKeys, clear \in BOOLEAN :
          /\ Goes(r, [pc |-> "update", provider |-> c, url |-> url, key |-> k, clear |-> clear,
                      refresh |-> url \notin {Keep, rows[c].url} \/ k # NoKey \/ clear])
          /\ Enter(k)
    BY <1>6 DEF Update
  <2> DEFINE refresh == url \notin {Keep, rows[c].url} \/ k # NoKey \/ clear
  <2>2. refresh \in BOOLEAN /\ url \in Addresses /\ k \in Keys \union {NoKey} /\ entered' \in 0..MaxKeys
    BY <2>1, EnterTyped DEF Addresses
  <2>3. Goes(r, [pc |-> "update", provider |-> c, url |-> url, key |-> k, clear |-> clear, refresh |-> refresh])
    BY <2>1
  <2> HIDE DEF refresh
  <2>4. [pc |-> "update", provider |-> c, url |-> url, key |-> k, clear |-> clear, refresh |-> refresh] \in Request
    BY <2>2 DEF UpdateReq, Request
  <2>5. req' \in [Requests -> Request]
    BY <2>3, <2>4, GoesType
  <2> QED
    BY <1>6, <2>2, <2>5, MadeTyped DEF Update, TypeOK
<1>7. ASSUME NEW p \in Providers, Refresh(r, p) PROVE TypeOK'
  <2>1. [pc |-> "refresh", provider |-> p] \in Request
    BY DEF RefreshReq, Request
  <2>2. req' \in [Requests -> Request]
    BY <1>7, <2>1, GoesType DEF Refresh
  <2> QED
    BY <1>7, <2>2, MadeTyped DEF Refresh, TypeOK
<1>8. ASSUME NEW p \in Providers, NEW m \in Models, Select(r, p, m) PROVE TypeOK'
  <2>1. [pc |-> "select", provider |-> p, model |-> m] \in Request
    BY DEF SelectReq, Request
  <2>2. req' \in [Requests -> Request]
    BY <1>8, <2>1, GoesType DEF Select
  <2> QED
    BY <1>8, <2>2, MadeTyped DEF Select, TypeOK
<1> QED
  BY <1>1, <1>2, <1>3, <1>4, <1>5, <1>6, <1>7, <1>8

LEMMA RowTypes ==
  ASSUME Meant, TypeOK, NEW c \in Customs,
         \/ \E r \in Requests : Create(r, c)
         \/ Delete(c)
         \/ \E m \in Models : PutModel(c, m)
  PROVE  TypeOK'
<1>1. ASSUME NEW r \in Requests, Create(r, c) PROVE TypeOK'
  <2>1. PICK url \in Urls, k \in NewKeys :
          /\ rows' = [rows EXCEPT ![c] = [Gone EXCEPT !.exists = TRUE, !.url = url, !.key = k]]
          /\ Save(k, url) /\ Enter(k)
    BY <1>1 DEF Create
  <2>2. url \in Addresses /\ k \in Int /\ entered' \in 0..MaxKeys
    BY <2>1, EnterTyped DEF Addresses
  <2>3. saved' \in [Keys -> Places]
    BY <2>1, <2>2, SaveTyped
  <2>4. [Gone EXCEPT !.exists = TRUE, !.url = url, !.key = k] \in Row
    BY <2>2, RowsTyped DEF Gone, Row
  <2>5. rows' \in [Customs -> Row]
    BY <2>1, <2>4 DEF TypeOK
  <2>6. [pc |-> "refresh", provider |-> c] \in Request
    BY DEF RefreshReq, Request, Providers
  <2>7. req' \in [Requests -> Request]
    BY <1>1, <2>6, GoesType DEF Create
  <2> QED
    BY <1>1, <2>2, <2>3, <2>5, <2>7, MadeTyped DEF Create, TypeOK
<1>2. CASE Delete(c)
  <2>1. rows' \in [Customs -> Row]
    BY <1>2, RowsTyped DEF Delete, TypeOK
  <2>2. selected' \in Chosen /\ named' \in [Customs -> [Models -> Int]]
    BY <1>2, RowsTyped DEF Delete, TypeOK, Chosen
  <2> QED
    BY <1>2, <2>1, <2>2, MadeTyped, BumpTyped DEF Delete, TypeOK
<1>3. ASSUME NEW m \in Models, PutModel(c, m) PROVE TypeOK'
  <2>1. PICK l \in Limits :
          /\ rows' = [rows EXCEPT ![c].models[m] = [limit |-> l, discovered |-> @.discovered]]
          /\ named' = [named EXCEPT ![c][m] = l]
    BY <1>3 DEF PutModel
  <2> DEFINE models == [rows[c].models EXCEPT ![m] = [limit |-> l, discovered |-> rows[c].models[m].discovered]]
  <2>2. rows[c] \in Row /\ rows[c].models \in [Models -> Model]
    BY DEF TypeOK, Row
  <2>3. l \in Int /\ rows[c].models[m].discovered \in BOOLEAN
    BY <2>2 DEF Model, Meant
  <2>4. models \in [Models -> Model]
    BY <2>2, <2>3 DEF Model
  <2>5. rows' = [rows EXCEPT ![c] = [rows[c] EXCEPT !.models = models]]
    BY <2>1
  <2>6. [rows[c] EXCEPT !.models = models] \in Row
    <3> HIDE DEF models
    <3> QED
      BY <2>2, <2>4 DEF Row
  <2>7. rows' \in [Customs -> Row]
    BY <2>5, <2>6 DEF TypeOK
  <2>8. named' \in [Customs -> [Models -> Int]]
    <3>1. [named[c] EXCEPT ![m] = l] \in [Models -> Int]
      BY <2>3 DEF TypeOK
    <3> QED
      BY <2>1, <3>1 DEF TypeOK
  <2> QED
    BY <1>3, <2>7, <2>8, MadeTyped, BumpTyped DEF PutModel, TypeOK
<1> QED
  BY <1>1, <1>2, <1>3

LEMMA UpdateWriteTypes == ASSUME Meant, TypeOK, NEW r \in Requests, UpdateWrite(r) PROVE TypeOK'
<1> DEFINE q == req[r]
<1>1. q \in WriteReq
  BY AtType DEF UpdateWrite
<1>2. q.provider \in Customs /\ q.url \in Addresses /\ q.key \in Int
  BY <1>1 DEF WriteReq
<1>3. CASE ~rows[q.provider].exists
  <2>1. req' \in [Requests -> Request]
    BY <1>3, EndsType DEF UpdateWrite
  <2> QED
    BY <1>3, <2>1 DEF UpdateWrite, TypeOK
<1>4. CASE rows[q.provider].exists
  <2>1. rows' = [rows EXCEPT ![q.provider] = Written(rows[q.provider], q)]
    BY <1>4 DEF UpdateWrite
  <2>2. rows[q.provider] \in Row
    BY <1>2 DEF TypeOK
  <2>3. Written(rows[q.provider], q) \in Row
    <3> HIDE DEF q
    <3> QED
      BY <1>2, <2>2 DEF Row, Written
  <2>4. rows' \in [Customs -> Row]
    BY <2>1, <2>3 DEF TypeOK
  <2>5. revision' \in Nat
    BY <1>4, BumpTyped DEF UpdateWrite, TypeOK
  <2>6. saved' \in [Keys -> Places]
    BY <1>2, <1>4, SaveTyped DEF UpdateWrite, TypeOK
  <2>7. [pc |-> "refresh", provider |-> q.provider] \in Request
    BY <1>2 DEF RefreshReq, Request, Providers
  <2>8. req' \in [Requests -> Request]
    BY <1>4, <2>7, GoesType, EndsType DEF UpdateWrite
  <2> QED
    BY <2>4, <2>5, <2>6, <2>8 DEF UpdateWrite, TypeOK
<1> QED
  BY <1>3, <1>4

LEMMA ListTypes == ASSUME Meant, TypeOK, NEW r \in Requests, Listed(r) \/ ListedBuiltIn(r) PROVE TypeOK'
<1>1. req' \in [Requests -> Request]
  BY EndsType DEF Listed, ListedBuiltIn
<1>2. CASE Listed(r)
  <2> DEFINE p == req[r].provider
  <2>1. p \in Customs
    BY <1>2 DEF Listed
  <2>2. rows' \in [Customs -> Row]
    <3>1. CASE UNCHANGED rows
      BY <3>1 DEF TypeOK
    <3>2. ASSUME NEW catalog \in Catalogs, rows' = [rows EXCEPT ![p].models = Replaced(@, catalog)]
          PROVE  rows' \in [Customs -> Row]
      <4> DEFINE models == Replaced(rows[p].models, catalog)
      <4>1. rows[p] \in Row /\ rows[p].models \in [Models -> Model]
        BY <2>1 DEF TypeOK, Row
      <4>2. models \in [Models -> Model]
        BY <4>1, ReplacedTyped
      <4>3. rows' = [rows EXCEPT ![p] = [rows[p] EXCEPT !.models = models]]
        BY <3>2
      <4> HIDE DEF models, p
      <4>4. [rows[p] EXCEPT !.models = models] \in Row
        BY <4>1, <4>2 DEF Row
      <4> QED
        BY <4>3, <4>4 DEF TypeOK
    <3> QED
      BY <1>2, <3>1, <3>2 DEF Listed
  <2>3. revision' \in Nat
    BY <1>2, BumpTyped DEF Listed, TypeOK
  <2>4. named' \in [Customs -> [Models -> Int]]
    <3>1. ASSUME NEW catalog \in Catalogs, named' = [named EXCEPT ![p] = NamedBy(catalog, @)]
          PROVE  named' \in [Customs -> [Models -> Int]]
      <4>1. NamedBy(catalog, named[p]) \in [Models -> Int]
        BY <2>1 DEF NamedBy, Catalogs, Meant, TypeOK
      <4> QED
        BY <3>1, <4>1 DEF TypeOK
    <3> QED
      BY <1>2, <3>1 DEF Listed, TypeOK
  <2> QED
    BY <1>1, <1>2, <2>2, <2>3, <2>4 DEF Listed, TypeOK
<1>3. CASE ListedBuiltIn(r)
  <2> DEFINE new == [builtin EXCEPT !.url = req[r].url, !.key = req[r].key]
  <2>1. req[r].url \in Addresses /\ req[r].key \in Int
    BY <1>3, AtType DEF ListedBuiltIn, ListReq
  <2>2. new \in BuiltInRow
    BY <2>1 DEF TypeOK, BuiltInRow
  <2>3. builtin' \in BuiltInRow
    <3>1. CASE builtin' = [new EXCEPT !.available = FALSE]
      <4> HIDE DEF new
      <4> QED
        BY <2>2, <3>1 DEF BuiltInRow
    <3>2. ASSUME NEW listed \in SUBSET Models,
                 builtin' = [new EXCEPT !.available = listed # {}, !.models = listed]
          PROVE  builtin' \in BuiltInRow
      <4> HIDE DEF new
      <4> QED
        BY <2>2, <3>2 DEF BuiltInRow
    <3> QED
      BY <1>3, <3>1, <3>2 DEF ListedBuiltIn
  <2> QED
    BY <1>1, <1>3, <2>3 DEF ListedBuiltIn, TypeOK
<1> QED
  BY <1>2, <1>3

LEMMA TurnTypes ==
  ASSUME Meant, TypeOK, NEW r \in Requests, SelectWrite(r) \/ ShowStatus(r) \/ Admit(r)
  PROVE  TypeOK'
<1>1. req' \in [Requests -> Request]
  BY EndsType DEF SelectWrite, ShowStatus, Admit
<1>2. CASE SelectWrite(r)
  <2>1. selected' \in Chosen
    BY <1>2, AtType DEF SelectWrite, SelectReq, Chosen
  <2> QED
    BY <1>1, <1>2, <2>1 DEF SelectWrite, NextRevision, TypeOK
<1>3. CASE ShowStatus(r)
  <2>1. req[r].selection \in ChosenAt
    BY <1>3, AtType DEF ShowStatus, StatusReq
  <2>2. seen' \in Capture \union {None}
    BY <1>3, <2>1, CapturedTyped DEF ShowStatus
  <2> QED
    BY <1>1, <1>3, <2>2 DEF ShowStatus, TypeOK
<1>4. CASE Admit(r)
  <2>1. req[r].selection \in ChosenAt /\ req[r].asked \in Capture
    BY <1>4, AtType DEF Admit, CaptureReq
  <2>2. turn' \in [asked : Capture \union {None}, got : Capture \union {None}]
    BY <1>4, <2>1, CapturedTyped DEF Admit, TypeOK
  <2> QED
    BY <1>1, <1>4, <2>2 DEF Admit, TypeOK
<1> QED
  BY <1>2, <1>3, <1>4

LEMMA NextTypes == ASSUME Meant, TypeOK, [Next]_vars PROVE TypeOK'
<1>1. CASE Deselect
  BY <1>1, MadeTyped DEF Deselect, TypeOK, Chosen
<1>2. CASE UNCHANGED vars
  BY <1>2 DEF vars, TypeOK
<1> QED
  BY <1>1, <1>2, RequestTypes, RowTypes, UpdateWriteTypes, ListTypes, TurnTypes DEF Next

\* Every variable of the providers keeps the type the code gives it, whatever
\* requests change them (pricingalias/provider_settings.go).
THEOREM TypeCorrect == ASSUME Meant PROVE Spec => []TypeOK
<1>1. Init => TypeOK
  BY InitTypes
<1>2. TypeOK /\ [Next]_vars => TypeOK'
  BY NextTypes
<1> QED
  BY <1>1, <1>2, PTL DEF Spec

---------------------------------------------------------------------------
(* Keys                                                                    *)

\* A key that a request brings, which has not been saved anywhere yet.
Pending(r) ==
  IF At(r, "update") \/ (At(r, "write") /\ req[r].key # req[r].was.key) THEN {req[r].key} \intersect Keys ELSE {}

\* Where a key is on its way to, or would be written back to.
Carries(r, e) ==
  \/ At(r, "list") /\ e = Endpoint(req[r])
  \/ At(r, "write") /\ e = req[r].was
  \/ At(r, "write") /\ req[r].key = req[r].was.key /\ e = Endpoint(req[r])

InUse(e) ==
  \/ \E c \in Customs : e = Endpoint(rows[c])
  \/ \E r \in Requests : Carries(r, e)
  \/ turn.got # None /\ e = Endpoint(turn.got)

AllHome ==
  \A e \in Destination : InUse(e) /\ e.key \in Keys => e.key <= entered /\ saved[e.key] = Origin[e.url]

\* No endpoint and no other request has a key that is still to be saved.
NewKeysApart ==
  \A r \in Requests : \A k \in Pending(r) :
    /\ k <= entered
    /\ \A e \in Destination : InUse(e) => e.key # k
    /\ \A q \in Requests \ {r} : k \notin Pending(q)

\* The built in provider has its credential from the machine.
CredentialApart ==
  /\ builtin.key \notin Keys
  /\ \A r \in Requests : At(r, "list") /\ req[r].provider = BuiltIn => req[r].key \notin Keys

KeysInv == AllHome /\ NewKeysApart /\ CredentialApart

\* What a turn was captured from, and what the tab shows, name one selection.
SameChoice(s) ==
  /\ s.revision <= revision
  /\ s.revision = revision => s.provider = selected.provider /\ s.model = selected.model

Consent(s) == s.token = <<s.provider, Origin[s.url]>>

ShownInv ==
  /\ seen # None => SameChoice(seen) /\ Consent(seen)
  /\ \A r \in Requests : At(r, "status") => SameChoice(req[r].selection)
  /\ \A r \in Requests : At(r, "capture") =>
       /\ req[r].selection.provider = req[r].asked.provider
       /\ req[r].selection.model = req[r].asked.model
       /\ Consent(req[r].asked)

LEMMA KeysKept ==
  ASSUME Meant, TypeOK, TypeOK', KeysInv, entered <= entered',
         \A j \in Keys : saved'[j] # saved[j] => \A e \in Destination : InUse(e) => e.key # j,
         \A e \in Destination : InUse(e)' =>
           \/ InUse(e)
           \/ e.key \in Keys => /\ e.key <= entered' /\ saved'[e.key] = Origin[e.url]
                                /\ \A r \in Requests : e.key \notin Pending(r)',
         \A r \in Requests : \A k \in Pending(r)' :
           \/ k \in Pending(r)
           \/ k > entered /\ k <= entered' /\ \A q \in Requests \ {r} : k \notin Pending(q)',
         CredentialApart'
  PROVE  KeysInv'
<1>1. entered \in Int /\ entered' \in Int /\ \A e \in Destination : e.key \in Int
  BY DEF TypeOK, Destination
<1>2. \A r \in Requests : \A k \in Pending(r)' : k \in Keys /\ k \in Int
  BY DEF Pending, Keys
<1>3. AllHome'
  <2> SUFFICES ASSUME NEW e \in Destination, InUse(e)', e.key \in Keys
               PROVE  e.key <= entered' /\ saved'[e.key] = Origin[e.url]
    BY DEF AllHome
  <2>1. CASE InUse(e)
    <3>1. e.key <= entered /\ saved[e.key] = Origin[e.url] /\ saved'[e.key] = saved[e.key]
      BY <2>1 DEF KeysInv, AllHome
    <3> QED
      BY <1>1, <3>1
  <2>2. CASE ~InUse(e)
    BY <2>2
  <2> QED
    BY <2>1, <2>2
<1>4. NewKeysApart'
  <2> SUFFICES ASSUME NEW r \in Requests, NEW k \in Pending(r)'
               PROVE  /\ k <= entered'
                      /\ \A e \in Destination : InUse(e)' => e.key # k
                      /\ \A q \in Requests \ {r} : k \notin Pending(q)'
    BY DEF NewKeysApart
  <2>1. k \in Keys /\ k \in Int
    BY <1>2
  <2>2. CASE k \in Pending(r)
    <3>1. k <= entered /\ (\A e \in Destination : InUse(e) => e.key # k) /\ \A q \in Requests \ {r} : k \notin Pending(q)
      BY <2>2 DEF KeysInv, NewKeysApart
    <3>2. k <= entered' /\ ~(k > entered)
      BY <1>1, <2>1, <3>1
    <3>3. \A q \in Requests \ {r} : k \notin Pending(q)'
      BY <3>1, <3>2
    <3>4. \A e \in Destination : InUse(e)' => e.key # k
      BY <2>1, <3>1
    <3> QED
      BY <3>2, <3>3, <3>4
  <2>3. CASE k > entered /\ k <= entered' /\ \A q \in Requests \ {r} : k \notin Pending(q)'
    <3>1. \A e \in Destination : InUse(e) => e.key # k
      BY <1>1, <2>1, <2>3 DEF KeysInv, AllHome
    <3>2. \A e \in Destination : InUse(e)' => e.key # k
      BY <2>1, <3>1
    <3> QED
      BY <2>3, <3>2
  <2> QED
    BY <2>2, <2>3
<1> QED
  BY <1>3, <1>4 DEF KeysInv

\* Steps that send no key anywhere and save none.
LEMMA KeysQuiet ==
  ASSUME Meant, TypeOK, TypeOK', KeysInv,
         UNCHANGED <<saved, entered, turn>>, builtin'.key \notin Keys,
         \A c \in Customs : Endpoint(rows'[c]) = Endpoint(rows[c]) \/ Endpoint(rows'[c]).key \notin Keys,
         \A q \in Requests : req'[q] = req[q] \/ req'[q].pc \in {"idle", "refresh", "select", "status", "capture"}
  PROVE  KeysInv'
<1>1. \A q \in Requests : \A e : Carries(q, e)' => Carries(q, e)
  BY DEF Carries, At
<1>2. \A q \in Requests : \A k \in Pending(q)' : k \in Pending(q)
  BY DEF Pending, At
<1>3. \A e \in Destination : InUse(e)' => InUse(e) \/ e.key \notin Keys
  <2> SUFFICES ASSUME NEW e \in Destination, InUse(e)' PROVE InUse(e) \/ e.key \notin Keys
    OBVIOUS
  <2>1. CASE \E c \in Customs : e = Endpoint(rows'[c])
    BY <2>1 DEF InUse
  <2>2. CASE \E r \in Requests : Carries(r, e)'
    BY <1>1, <2>2 DEF InUse
  <2>3. CASE turn'.got # None /\ e = Endpoint(turn'.got)
    BY <2>3 DEF InUse
  <2> QED
    BY <2>1, <2>2, <2>3 DEF InUse
<1>4. CredentialApart'
  BY DEF CredentialApart, At, KeysInv
<1>5. entered <= entered' /\ \A j \in Keys : saved'[j] = saved[j]
  BY DEF TypeOK
<1> QED
  BY <1>2, <1>3, <1>4, <1>5, KeysKept

LEMMA KeysOfQuietSteps ==
  ASSUME Meant, TypeOK, TypeOK', KeysInv,
         \/ Deselect \/ UNCHANGED vars
         \/ \E c \in Customs : Delete(c) \/ \E m \in Models : PutModel(c, m)
         \/ \E r \in Requests :
              \/ RefreshGone(r) \/ Listed(r) \/ ListedBuiltIn(r) \/ SelectWrite(r)
              \/ AskStatus(r) \/ ShowStatus(r) \/ Chat(r)
              \/ \E p \in Providers : Refresh(r, p) \/ \E m \in Models : Select(r, p, m)
  PROVE  KeysInv'
<1>1. builtin.key \notin Keys
  BY DEF KeysInv, CredentialApart
<1>2. CASE Deselect
  BY <1>1, <1>2, KeysQuiet DEF Deselect
<1>3. CASE UNCHANGED vars
  BY <1>1, <1>3, KeysQuiet DEF vars
<1>4. ASSUME NEW c \in Customs, Delete(c) PROVE KeysInv'
  <2>1. \A x \in Customs : Endpoint(rows'[x]) = Endpoint(rows[x]) \/ Endpoint(rows'[x]).key \notin Keys
    BY <1>4, RowsTyped DEF Delete, TypeOK, Endpoint, Deleted, Gone
  <2> QED
    BY <1>1, <1>4, <2>1, KeysQuiet DEF Delete
<1>5. ASSUME NEW c \in Customs, NEW m \in Models, PutModel(c, m) PROVE KeysInv'
  <2>1. PICK l \in Limits :
          /\ rows' = [rows EXCEPT ![c].models[m] = [limit |-> l, discovered |-> @.discovered]]
          /\ named' = [named EXCEPT ![c][m] = l]
    BY <1>5 DEF PutModel
  <2>2. \A x \in Customs : Endpoint(rows'[x]) = Endpoint(rows[x])
    BY <2>1 DEF TypeOK, Endpoint, Row
  <2> QED
    BY <1>1, <1>5, <2>2, KeysQuiet DEF PutModel
<1> SUFFICES ASSUME NEW r \in Requests,
                    \/ RefreshGone(r) \/ Listed(r) \/ ListedBuiltIn(r) \/ SelectWrite(r)
                    \/ AskStatus(r) \/ ShowStatus(r) \/ Chat(r)
                    \/ \E p \in Providers : Refresh(r, p) \/ \E m \in Models : Select(r, p, m)
             PROVE  KeysInv'
  BY <1>2, <1>3, <1>4, <1>5
<1>6. CASE RefreshGone(r) \/ Listed(r) \/ ListedBuiltIn(r) \/ SelectWrite(r) \/ ShowStatus(r)
  <2>1. \A q \in Requests : req'[q] = req[q] \/ req'[q].pc = "idle"
    <3>1. Ends(r)
      BY <1>6 DEF RefreshGone, Listed, ListedBuiltIn, SelectWrite, ShowStatus
    <3> QED
      BY <3>1, EndsType DEF Idle
  <2>2. builtin'.key \notin Keys
    <3>1. CASE ListedBuiltIn(r)
      <4>1. req[r].key \notin Keys
        BY <3>1 DEF ListedBuiltIn, KeysInv, CredentialApart
      <4>2. builtin'.key = req[r].key
        <5> DEFINE new == [builtin EXCEPT !.url = req[r].url, !.key = req[r].key]
        <5>1. new.key = req[r].key /\ DOMAIN new = {"url", "key", "available", "models"}
          BY DEF TypeOK, BuiltInRow
        <5>2. \/ builtin' = [new EXCEPT !.available = FALSE]
              \/ \E a, ms : builtin' = [new EXCEPT !.available = a, !.models = ms]
          BY <3>1 DEF ListedBuiltIn
        <5> HIDE DEF new
        <5> QED
          BY <5>1, <5>2
      <4> QED
        BY <4>1, <4>2
    <3>2. CASE ~ListedBuiltIn(r)
      BY <1>1, <1>6, <3>2 DEF RefreshGone, Listed, SelectWrite, ShowStatus
    <3> QED
      BY <3>1, <3>2
  <2>3. \A c \in Customs : Endpoint(rows'[c]) = Endpoint(rows[c])
    <3>1. CASE Listed(r)
      <4>1. CASE UNCHANGED rows
        BY <4>1
      <4>2. ASSUME NEW catalog \in Catalogs,
                   rows' = [rows EXCEPT ![req[r].provider].models = Replaced(@, catalog)]
            PROVE  \A c \in Customs : Endpoint(rows'[c]) = Endpoint(rows[c])
        BY <4>2 DEF TypeOK, Endpoint, Row
      <4> QED
        BY <3>1, <4>1, <4>2 DEF Listed
    <3>2. CASE ~Listed(r)
      BY <1>6, <3>2 DEF RefreshGone, ListedBuiltIn, SelectWrite, ShowStatus
    <3> QED
      BY <3>1, <3>2
  <2>4. UNCHANGED <<saved, entered, turn>>
    BY <1>6 DEF RefreshGone, Listed, ListedBuiltIn, SelectWrite, ShowStatus
  <2> QED
    BY <2>1, <2>2, <2>3, <2>4, KeysQuiet
<1>7. CASE AskStatus(r) \/ Chat(r) \/ \E p \in Providers : Refresh(r, p) \/ \E m \in Models : Select(r, p, m)
  <2> DEFINE pcs == {"refresh", "select", "status", "capture"}
  <2>0. /\ [pc |-> "status", selection |-> Selection].pc \in pcs
        /\ [pc |-> "capture", selection |-> Selection, asked |-> seen].pc \in pcs
        /\ \A p \in Providers : [pc |-> "refresh", provider |-> p].pc \in pcs
        /\ \A p \in Providers, m \in Models : [pc |-> "select", provider |-> p, model |-> m].pc \in pcs
    OBVIOUS
  <2>1. PICK s : Goes(r, s) /\ s.pc \in pcs
    <3> HIDE DEF pcs
    <3> QED
      BY <1>7, <2>0, Zenon DEF AskStatus, Chat, Refresh, Select
  <2>2. \A q \in Requests : req'[q] = req[q] \/ req'[q].pc \in {"refresh", "select", "status", "capture"}
    BY <2>1 DEF Goes, TypeOK
  <2>3. UNCHANGED <<saved, entered, turn, rows, builtin>>
    BY <1>7 DEF AskStatus, Chat, Refresh, Select
  <2> QED
    BY <1>1, <2>2, <2>3, KeysQuiet
<1> QED
  BY <1>6, <1>7

LEMMA EndpointTyped == ASSUME TypeOK, NEW c \in Customs PROVE Endpoint(rows[c]) \in Destination
BY DEF TypeOK, Row, Endpoint, Destination

\* What the other requests carry does not change.
LEMMA OthersCarry ==
  ASSUME NEW r \in Requests, \A q \in Requests : q # r => req'[q] = req[q]
  PROVE  /\ \A q \in Requests : q # r => Pending(q)' = Pending(q) /\ \A e : Carries(q, e)' <=> Carries(q, e)
         /\ \A q \in Requests : q # r => \A pc : At(q, pc)' <=> At(q, pc)
BY DEF Carries, Pending, At

LEMMA KeysOfCreate ==
  ASSUME Meant, TypeOK, TypeOK', KeysInv, NEW r \in Requests, NEW c \in Customs, Create(r, c)
  PROVE  KeysInv'
<1>1. PICK url \in Urls, k \in NewKeys :
        /\ rows' = [rows EXCEPT ![c] = [Gone EXCEPT !.exists = TRUE, !.url = url, !.key = k]]
        /\ Save(k, url) /\ Enter(k)
  BY DEF Create
<1>2. Goes(r, [pc |-> "refresh", provider |-> c])
  BY DEF Create
<1>3. req'[r] = [pc |-> "refresh", provider |-> c] /\ \A q \in Requests : q # r => req'[q] = req[q]
  BY <1>2 DEF Goes, TypeOK
<1>4. entered <= entered' /\ (k \in Keys => k = entered + 1 /\ entered' = k) /\ entered \in Int
  BY <1>1, EnterTyped, RowsTyped DEF TypeOK
<1>5. \A j \in Keys : saved'[j] = IF j = k THEN Origin[url] ELSE saved[j]
  BY <1>1, SaveTyped DEF Addresses
<1>6. \A e \in Destination : InUse(e) => e.key # k \/ k \notin Keys
  BY <1>4 DEF KeysInv, AllHome, Destination
<1>7. \A j \in Keys : saved'[j] # saved[j] => \A e \in Destination : InUse(e) => e.key # j
  BY <1>5, <1>6
<1>8. /\ \A q \in Requests : Pending(q)' \subseteq Pending(q)
      /\ \A q \in Requests, e \in Destination : Carries(q, e)' => Carries(q, e)
  <2>1. Pending(r)' = {} /\ \A e \in Destination : ~Carries(r, e)'
    BY <1>3 DEF Pending, Carries, At
  <2> QED
    BY <1>3, <2>1, OthersCarry
<1>9. Endpoint(rows'[c]) = [url |-> url, key |-> k] /\ \A x \in Customs : x # c => rows'[x] = rows[x]
  BY <1>1 DEF TypeOK, Endpoint, Gone
<1>10. \A e \in Destination : InUse(e)' =>
         \/ InUse(e)
         \/ e.key \in Keys => /\ e.key <= entered' /\ saved'[e.key] = Origin[e.url]
                              /\ \A q \in Requests : e.key \notin Pending(q)'
  <2> SUFFICES ASSUME NEW e \in Destination, InUse(e)', ~InUse(e), e.key \in Keys
               PROVE  /\ e.key <= entered' /\ saved'[e.key] = Origin[e.url]
                      /\ \A q \in Requests : e.key \notin Pending(q)'
    OBVIOUS
  <2>1. e = Endpoint(rows'[c])
    <3>1. turn' = turn
      BY DEF Create
    <3> QED
      BY <1>8, <1>9, <3>1 DEF InUse
  <2>2. e.url = url /\ e.key = k
    BY <1>9, <2>1
  <2>3. \A q \in Requests : k \notin Pending(q)
    <3>1. \A q \in Requests : \A j \in Pending(q) : j <= entered
      BY DEF KeysInv, NewKeysApart
    <3>2. ~(k <= entered)
      BY <1>4, <2>2
    <3> QED
      BY <3>1, <3>2
  <2> QED
    BY <1>4, <1>5, <1>8, <2>2, <2>3 DEF Keys
<1>11. CredentialApart'
  <2>1. ~At(r, "list")' /\ builtin' = builtin
    BY <1>3 DEF At, Create
  <2> QED
    BY <1>3, <2>1 DEF KeysInv, CredentialApart, At
<1> QED
  BY <1>4, <1>7, <1>8, <1>10, <1>11, KeysKept

LEMMA KeysOfUpdate ==
  ASSUME Meant, TypeOK, TypeOK', KeysInv, NEW r \in Requests, NEW c \in Customs, Update(r, c)
  PROVE  KeysInv'
<1>1. PICK url \in Urls \union {Keep}, k \in NewKeys, clear \in BOOLEAN :
        /\ Goes(r, [pc |-> "update", provider |-> c, url |-> url, key |-> k, clear |-> clear,
                    refresh |-> url \notin {Keep, rows[c].url} \/ k # NoKey \/ clear])
        /\ Enter(k)
  BY DEF Update
<1>2. req'[r].pc = "update" /\ req'[r].key = k /\ \A q \in Requests : q # r => req'[q] = req[q]
  BY <1>1 DEF Goes, TypeOK
<1>3. entered <= entered' /\ (k \in Keys => k = entered + 1 /\ entered' = k) /\ entered \in Int
  BY <1>1, EnterTyped, RowsTyped DEF TypeOK
<1>4. Pending(r)' = {k} \intersect Keys /\ \A e \in Destination : ~Carries(r, e)'
  BY <1>2 DEF Pending, Carries, At
<1>5. \A e \in Destination : InUse(e)' => InUse(e)
  <2>1. UNCHANGED <<rows, turn>>
    BY DEF Update
  <2> QED
    BY <1>2, <1>4, <2>1, OthersCarry DEF InUse
<1>6. \A q \in Requests : \A j \in Pending(q)' :
        \/ j \in Pending(q)
        \/ j > entered /\ j <= entered' /\ \A x \in Requests \ {q} : j \notin Pending(x)'
  <2>1. \A q \in Requests : q # r => Pending(q)' = Pending(q)
    BY <1>2, OthersCarry
  <2>2. ASSUME NEW j \in Pending(r)'
        PROVE  j > entered /\ j <= entered' /\ \A x \in Requests \ {r} : j \notin Pending(x)'
    <3>1. j = entered + 1 /\ j = entered'
      BY <1>3, <1>4, <2>2
    <3>2. \A x \in Requests \ {r} : \A i \in Pending(x)' : i <= entered
      BY <2>1 DEF KeysInv, NewKeysApart
    <3> QED
      BY <1>3, <3>1, <3>2
  <2> QED
    BY <2>1, <2>2
<1>7. CredentialApart'
  <2>1. ~At(r, "list")' /\ builtin' = builtin
    BY <1>2 DEF At, Update
  <2> QED
    BY <1>2, <2>1 DEF KeysInv, CredentialApart, At
<1>8. \A j \in Keys : saved'[j] = saved[j]
  BY DEF Update
<1> QED
  BY <1>3, <1>5, <1>6, <1>7, <1>8, KeysKept

\* A key that is kept goes only to the origin it was saved for, and a key that
\* the request brings is not the one the row has.
LEMMA KeysOfUpdateRead ==
  ASSUME Meant, TypeOK, TypeOK', KeysInv, NEW r \in Requests, UpdateRead(r)
  PROVE  KeysInv'
<1> DEFINE q == req[r]
           row == rows[q.provider]
           url == IF q.url = Keep THEN row.url ELSE q.url
           key == IF q.clear THEN NoKey ELSE IF q.key # NoKey THEN q.key ELSE row.key
           s == [pc |-> "write", provider |-> q.provider, refresh |-> q.refresh,
                 was |-> Endpoint(row), url |-> url, key |-> key]
<1>1. UNCHANGED <<rows, builtin, saved, entered, turn>> /\ builtin.key \notin Keys
  BY DEF UpdateRead, KeysInv, CredentialApart
<1>2. CASE Ends(r)
  <2>1. \A x \in Requests : req'[x] = req[x] \/ req'[x].pc = "idle"
    BY <1>2, EndsType DEF Idle
  <2> QED
    BY <1>1, <2>1, KeysQuiet
<1>3. CASE ~Ends(r)
  <2>1. Goes(r, s) /\ ~(row.key # NoKey /\ q.key = NoKey /\ ~q.clear /\ ~Follows(row.url, url))
    BY <1>3 DEF UpdateRead
  <2>2. req'[r] = s /\ \A x \in Requests : x # r => req'[x] = req[x]
    <3> HIDE DEF s
    <3> QED
      BY <2>1 DEF Goes, TypeOK
  <2>3. q \in UpdateReq /\ At(r, "update")
    BY AtType DEF UpdateRead
  <2>4. q.provider \in Customs /\ q.key \in Keys \union {NoKey} /\ Pending(r) = {q.key} \intersect Keys
    BY <2>3 DEF UpdateReq, Pending
  <2>5. Endpoint(row) \in Destination /\ InUse(Endpoint(row))
    BY <2>4, EndpointTyped DEF InUse
  <2>6. row.key \in Keys => row.key <= entered /\ saved[row.key] = Origin[row.url] /\ row.key # q.key
    <3>1. Endpoint(row).key = row.key /\ Endpoint(row).url = row.url
      BY DEF Endpoint
    <3> QED
      BY <2>4, <2>5, <3>1 DEF KeysInv, AllHome, NewKeysApart
  <2>7. key \in Keys /\ key = row.key => Origin[url] = Origin[row.url]
    BY <2>1, <2>6, RowsTyped DEF Follows
  <2>8. Pending(r)' \subseteq Pending(r)
    <3>1. Pending(r)' = IF key # row.key THEN {key} \intersect Keys ELSE {}
      <4>1. Endpoint(row).key = row.key
        BY DEF Endpoint
      <4> HIDE DEF row, key, url, q
      <4> QED
        BY <2>2, <4>1 DEF Pending, At
    <3> QED
      BY <2>4, <3>1, RowsTyped
  <2>9. \A e : Carries(r, e)' <=> e = Endpoint(row) \/ (key = row.key /\ e = [url |-> url, key |-> key])
    <3>1. Endpoint(row).key = row.key
      BY DEF Endpoint
    <3> HIDE DEF row, key, url, q
    <3>2. req'[r].pc = "write" /\ req'[r].was = Endpoint(row) /\ req'[r].url = url /\ req'[r].key = key
      BY <2>2
    <3> QED
      BY <3>1, <3>2 DEF Carries, At, Endpoint
  <2>10. \A e \in Destination : InUse(e)' => InUse(e) \/ e = Endpoint(row) \/ (key = row.key /\ e = [url |-> url, key |-> key])
    <3> HIDE DEF row, key, url, q, s
    <3> QED
      BY <1>1, <2>2, <2>9, OthersCarry DEF InUse
  <2>11. \A e \in Destination : InUse(e)' =>
           \/ InUse(e)
           \/ e.key \in Keys => /\ e.key <= entered' /\ saved'[e.key] = Origin[e.url]
                                /\ \A x \in Requests : e.key \notin Pending(x)'
    <3> SUFFICES ASSUME NEW e \in Destination, InUse(e)', ~InUse(e), e.key \in Keys
                 PROVE  /\ e.key <= entered' /\ saved'[e.key] = Origin[e.url]
                        /\ \A x \in Requests : e.key \notin Pending(x)'
      OBVIOUS
    <3>1. key = row.key /\ e = [url |-> url, key |-> key]
      BY <2>5, <2>10
    <3>2. e.key = row.key /\ e.url = url
      BY <3>1
    <3>3. e.key <= entered' /\ saved'[e.key] = Origin[e.url]
      <4> HIDE DEF row, key, url, q
      <4> QED
        BY <1>1, <2>6, <2>7, <3>1, <3>2
    <3>4. \A x \in Requests : row.key \notin Pending(x)
      <4>1. Endpoint(row).key = row.key
        BY DEF Endpoint
      <4> QED
        BY <2>5, <4>1 DEF KeysInv, NewKeysApart
    <3> QED
      BY <2>2, <2>8, <3>2, <3>3, <3>4, OthersCarry
  <2>12. \A x \in Requests : Pending(x)' \subseteq Pending(x)
    BY <2>2, <2>8, OthersCarry
  <2>13. CredentialApart'
    <3>1. ~At(r, "list")'
      BY <2>2 DEF At
    <3> QED
      BY <1>1, <2>2, <3>1 DEF KeysInv, CredentialApart, At
  <2>14. entered <= entered' /\ \A j \in Keys : saved'[j] = saved[j]
    BY <1>1 DEF TypeOK
  <2> QED
    <3> HIDE DEF row, key, url, q, s
    <3> QED
      BY <2>11, <2>12, <2>13, <2>14, KeysKept
<1> QED
  BY <1>2, <1>3

\* A new key is saved for the origin it is written with.
LEMMA KeysOfUpdateWrite ==
  ASSUME Meant, TypeOK, TypeOK', KeysInv, NEW r \in Requests, UpdateWrite(r)
  PROVE  KeysInv'
<1> DEFINE q == req[r]
           c == q.provider
<1>1. UNCHANGED <<builtin, entered, turn>> /\ builtin.key \notin Keys
  BY DEF UpdateWrite, KeysInv, CredentialApart
<1>2. q \in WriteReq /\ At(r, "write")
  BY AtType DEF UpdateWrite
<1>3. c \in Customs /\ q.was \in Destination /\ q.url \in Addresses /\ q.key \in Int
  BY <1>2 DEF WriteReq
<1>4. /\ req'[r].pc \in {"idle", "refresh"}
      /\ \A x \in Requests : x # r => req'[x] = req[x]
  <2>1. Ends(r) \/ Goes(r, [pc |-> "refresh", provider |-> c])
    BY DEF UpdateWrite
  <2> QED
    BY <2>1 DEF Ends, Goes, Idle, TypeOK
<1>5. CASE ~rows[c].exists
  BY <1>1, <1>4, <1>5, KeysQuiet DEF UpdateWrite
<1>6. CASE rows[c].exists
  <2>1. rows' = [rows EXCEPT ![c] = Written(rows[c], q)]
    BY <1>6 DEF UpdateWrite
  <2>2. Endpoint(rows'[c]) = Endpoint(q) /\ \A x \in Customs : x # c => rows'[x] = rows[x]
    <3> HIDE DEF q, c
    <3>1. rows[c] \in Row /\ rows'[c] = Written(rows[c], q)
      BY <1>3, <2>1 DEF TypeOK
    <3>2. Written(rows[c], q).url = q.url /\ Written(rows[c], q).key = q.key
      BY <3>1 DEF Row, Written
    <3> QED
      BY <1>3, <2>1, <3>1, <3>2 DEF TypeOK, Endpoint
  <2>3. IF q.key # q.was.key THEN Save(q.key, q.url) ELSE UNCHANGED saved
    BY <1>6 DEF UpdateWrite
  <2>4. Pending(r) = IF q.key # q.was.key THEN {q.key} \intersect Keys ELSE {}
    BY <1>2 DEF Pending, At
  <2>5. \A j \in Keys : saved'[j] = IF j \in Pending(r) THEN Origin[q.url] ELSE saved[j]
    BY <1>3, <2>3, <2>4, SaveTyped
  <2>6. Pending(r)' = {} /\ \A e : ~Carries(r, e)'
    BY <1>4 DEF Pending, Carries, At
  <2>7. \A x \in Requests : Pending(x)' \subseteq Pending(x)
    BY <1>4, <2>6, OthersCarry
  <2>8. \A j \in Keys : saved'[j] # saved[j] => \A e \in Destination : InUse(e) => e.key # j
    BY <2>5 DEF KeysInv, NewKeysApart
  <2>9. \A e \in Destination : InUse(e)' => InUse(e) \/ e = Endpoint(q)
    <3> HIDE DEF q, c
    <3> QED
      BY <1>1, <1>3, <1>4, <2>2, <2>6, OthersCarry DEF InUse
  <2>10. \A e \in Destination : InUse(e)' =>
           \/ InUse(e)
           \/ e.key \in Keys => /\ e.key <= entered' /\ saved'[e.key] = Origin[e.url]
                                /\ \A x \in Requests : e.key \notin Pending(x)'
    <3> SUFFICES ASSUME NEW e \in Destination, e = Endpoint(q), ~InUse(e), e.key \in Keys
                 PROVE  /\ e.key <= entered' /\ saved'[e.key] = Origin[e.url]
                        /\ \A x \in Requests : e.key \notin Pending(x)'
      BY <2>9
    <3>1. e.key = q.key /\ e.url = q.url
      BY DEF Endpoint
    <3>2. q.key # q.was.key
      BY <1>2 DEF InUse, Carries
    <3>3. q.key \in Pending(r)
      BY <2>4, <3>1, <3>2
    <3>4. q.key <= entered /\ \A x \in Requests \ {r} : q.key \notin Pending(x)
      BY <3>3 DEF KeysInv, NewKeysApart
    <3>5. saved'[q.key] = Origin[q.url]
      BY <2>5, <3>1, <3>3
    <3> QED
      BY <1>1, <2>6, <2>7, <3>1, <3>4, <3>5
  <2>11. CredentialApart'
    <3>1. ~At(r, "list")'
      BY <1>4 DEF At
    <3> QED
      BY <1>1, <1>4, <3>1 DEF KeysInv, CredentialApart, At
  <2>12. entered <= entered'
    BY <1>1 DEF TypeOK
  <2> HIDE DEF q, c
  <2> QED
    BY <2>7, <2>8, <2>10, <2>11, <2>12, KeysKept
<1> QED
  BY <1>5, <1>6

LEMMA KeysOfDiscover ==
  ASSUME Meant, TypeOK, TypeOK', KeysInv, NEW r \in Requests, Discover(r)
  PROVE  KeysInv'
<1>1. UNCHANGED <<rows, builtin, saved, entered, turn>> /\ builtin.key \notin Keys /\ At(r, "refresh")
  BY DEF Discover, KeysInv, CredentialApart
<1>2. PICK e \in IF req[r].provider = BuiltIn THEN Credentials
                 ELSE {Endpoint(rows[c]) : c \in {x \in Customs : x = req[r].provider /\ rows[x].exists}} :
        Goes(r, [pc |-> "list", provider |-> req[r].provider, url |-> e.url, key |-> e.key])
  BY DEF Discover
<1>3. /\ req'[r] = [pc |-> "list", provider |-> req[r].provider, url |-> e.url, key |-> e.key]
      /\ \A x \in Requests : x # r => req'[x] = req[x]
  BY <1>2 DEF Goes, TypeOK
<1>4. IF req[r].provider = BuiltIn THEN e.key \notin Keys ELSE e \in Destination /\ InUse(e)
  <2>1. CASE req[r].provider = BuiltIn
    BY <1>2, <2>1 DEF Meant
  <2>2. CASE req[r].provider # BuiltIn
    <3>1. PICK c \in Customs : e = Endpoint(rows[c])
      BY <1>2, <2>2
    <3> QED
      BY <2>2, <3>1, EndpointTyped DEF InUse
  <2> QED
    BY <2>1, <2>2
<1>5. Pending(r)' = {} /\ \A x : Carries(r, x)' <=> x = [url |-> e.url, key |-> e.key]
  BY <1>3 DEF Pending, Carries, At, Endpoint
<1>6. \A x \in Requests : Pending(x)' \subseteq Pending(x)
  BY <1>3, <1>5, OthersCarry
<1>7. \A x \in Destination : InUse(x)' => InUse(x) \/ x = [url |-> e.url, key |-> e.key]
  BY <1>1, <1>3, <1>5, OthersCarry DEF InUse
<1>8. \A x \in Destination : InUse(x)' => InUse(x) \/ x.key \notin Keys
  <2> SUFFICES ASSUME NEW x \in Destination, x = [url |-> e.url, key |-> e.key] PROVE InUse(x) \/ x.key \notin Keys
    BY <1>7
  <2>1. CASE req[r].provider = BuiltIn
    BY <1>4, <2>1
  <2>2. CASE req[r].provider # BuiltIn
    <3>1. x = e
      BY <1>4, <2>2 DEF Destination
    <3> QED
      BY <1>4, <2>2, <3>1
  <2> QED
    BY <2>1, <2>2
<1>9. CredentialApart'
  <2>1. req'[r].provider = BuiltIn => req'[r].key \notin Keys
    BY <1>3, <1>4
  <2> QED
    BY <1>1, <1>3, <2>1 DEF KeysInv, CredentialApart, At
<1>10. entered <= entered' /\ \A j \in Keys : saved'[j] = saved[j]
  BY <1>1 DEF TypeOK
<1> QED
  BY <1>6, <1>8, <1>9, <1>10, KeysKept

LEMMA KeysOfAdmit ==
  ASSUME Meant, TypeOK, TypeOK', KeysInv, NEW r \in Requests, Admit(r)
  PROVE  KeysInv'
<1> DEFINE s == req[r].selection
<1>1. UNCHANGED <<rows, builtin, saved, entered>> /\ builtin.key \notin Keys /\ Ends(r)
  BY DEF Admit, KeysInv, CredentialApart
<1>2. req'[r].pc = "idle" /\ \A x \in Requests : x # r => req'[x] = req[x]
  BY <1>1, EndsType DEF Idle
<1>3. Pending(r)' = {} /\ \A x : ~Carries(r, x)'
  BY <1>2 DEF Pending, Carries, At
<1>4. \A x \in Requests : Pending(x)' \subseteq Pending(x)
  BY <1>2, <1>3, OthersCarry
<1>5. turn' = turn \/ (Capturable(s) /\ turn'.got = Captured(s))
  BY DEF Admit
<1>6. s \in ChosenAt
  BY AtType DEF Admit, CaptureReq
<1>7. \A e \in Destination : InUse(e)' => InUse(e) \/ e.key \notin Keys
  <2> SUFFICES ASSUME NEW e \in Destination, InUse(e)', ~InUse(e) PROVE e.key \notin Keys
    OBVIOUS
  <2>1. Capturable(s) /\ e = Endpoint(Captured(s))
    <3> HIDE DEF s
    <3> QED
      BY <1>1, <1>2, <1>3, <1>5, OthersCarry DEF InUse
  <2>2. e = Endpoint(IF s.provider = BuiltIn THEN builtin ELSE rows[s.provider])
    BY <1>6, <2>1, CapturedTyped
  <2>3. s.provider \in Providers
    BY <1>6, <2>1 DEF ChosenAt, Capturable
  <2>4. CASE s.provider = BuiltIn
    BY <1>1, <2>2, <2>4 DEF Endpoint
  <2>5. CASE s.provider # BuiltIn
    BY <2>2, <2>3, <2>5 DEF InUse, Providers
  <2> QED
    BY <2>4, <2>5
<1>8. CredentialApart'
  <2>1. ~At(r, "list")'
    BY <1>2 DEF At
  <2> QED
    BY <1>1, <1>2, <2>1 DEF KeysInv, CredentialApart, At
<1>9. entered <= entered' /\ \A j \in Keys : saved'[j] = saved[j]
  BY <1>1 DEF TypeOK
<1> QED
  BY <1>4, <1>7, <1>8, <1>9, KeysKept

LEMMA InitKeys == ASSUME Meant, Init PROVE KeysInv
<1> USE RowsTyped, InitTypes
<1>1. \A r \in Requests : Pending(r) = {} /\ (\A e : ~Carries(r, e)) /\ ~At(r, "list")
  BY DEF Init, Idle, Pending, Carries, At
<1>2. turn.got = None /\ builtin.key = NoKey
  BY DEF Init
<1>3. \A c \in Customs : Endpoint(rows[c]).key \in Keys =>
        /\ Endpoint(rows[c]).key <= entered
        /\ saved[Endpoint(rows[c]).key] = Origin[Endpoint(rows[c]).url]
  <2>1. CASE Fresh
    BY <2>1 DEF Fresh, Gone, Endpoint
  <2>2. CASE Configured
    <3> DEFINE u == CHOOSE x \in Urls : TRUE
    <3>1. \A c \in Customs : Endpoint(rows[c]).url = u /\ Endpoint(rows[c]).key = 1
      BY <2>2 DEF Configured, Earlier, Endpoint
    <3>2. entered = 1 /\ (1 \in Keys => saved[1] = Origin[u])
      BY <2>2 DEF Configured
    <3> HIDE DEF u
    <3> QED
      BY <3>1, <3>2
  <2> QED
    BY <2>1, <2>2 DEF Init
<1> QED
  BY <1>1, <1>2, <1>3 DEF KeysInv, AllHome, NewKeysApart, CredentialApart, InUse

LEMMA KeysSent == ASSUME TypeOK, KeysInv PROVE KeysGoHome
<1>1. ASSUME NEW r \in Requests, At(r, "list") PROVE AtHome(req[r])
  <2>1. Endpoint(req[r]) \in Destination /\ Carries(r, Endpoint(req[r]))
    BY <1>1, AtType DEF ListReq, Endpoint, Destination, Carries
  <2>2. Endpoint(req[r]).key = req[r].key /\ Endpoint(req[r]).url = req[r].url
    BY DEF Endpoint
  <2> QED
    BY <2>1, <2>2 DEF KeysInv, AllHome, InUse, AtHome
<1>2. ASSUME turn.got # None PROVE AtHome(turn.got)
  <2>1. turn.got \in Capture
    BY <1>2 DEF TypeOK
  <2>2. Endpoint(turn.got) \in Destination /\ InUse(Endpoint(turn.got))
    BY <1>2, <2>1 DEF Capture, Endpoint, Destination, InUse
  <2>3. Endpoint(turn.got).key = turn.got.key /\ Endpoint(turn.got).url = turn.got.url
    BY DEF Endpoint
  <2> QED
    BY <2>2, <2>3 DEF KeysInv, AllHome, AtHome
<1> QED
  BY <1>1, <1>2 DEF KeysGoHome

\* A key the user has saved is sent, to list models or to ask, to the origin it
\* was saved for and nowhere else, whatever requests change the settings at the
\* same time (provider_settings.go: an address that moves drops the key).
THEOREM KeysStayHome == ASSUME Meant PROVE Spec => []KeysGoHome
<1> DEFINE Inv == TypeOK /\ KeysInv
<1>1. Init => Inv
  BY InitTypes, InitKeys
<1>2. Inv /\ [Next]_vars => Inv'
  <2> SUFFICES ASSUME Inv, [Next]_vars PROVE Inv'
    OBVIOUS
  <2>1. TypeOK'
    BY NextTypes
  <2> QED
    BY <2>1, KeysOfQuietSteps, KeysOfCreate, KeysOfUpdate, KeysOfUpdateRead, KeysOfUpdateWrite,
       KeysOfDiscover, KeysOfAdmit DEF Next
<1>3. Inv => KeysGoHome
  BY KeysSent
<1> QED
  BY <1>1, <1>2, <1>3, PTL DEF Spec

---------------------------------------------------------------------------
(* Models                                                                  *)

\* The history of names is the limits themselves.
LimitsInv == \A c \in Customs, m \in Models : named[c][m] = LimitOf(rows[c].models[m])

LEMMA LimitsKept ==
  ASSUME LimitsInv,
         \A c \in Customs, m \in Models :
           \/ rows'[c].models[m] = rows[c].models[m] /\ named'[c][m] = named[c][m]
           \/ named'[c][m] = LimitOf(rows'[c].models[m])
  PROVE  LimitsInv'
BY DEF LimitsInv, LimitOf

LEMMA GoneHasNoLimit ==
  ASSUME NEW m \in Models
  PROVE  LimitOf(Gone.models[m]) = 0 /\ LimitOf(Deleted.models[m]) = 0 /\ Unnamed[m] = 0
BY DEF Gone, Deleted, NoModels, Absent, Unnamed, LimitOf

LEMMA LimitsInvariant == ASSUME Meant, TypeOK, LimitsInv, [Next]_vars PROVE LimitsInv'
<1>1. CASE UNCHANGED <<rows, named>>
  BY <1>1, LimitsKept
<1>2. ASSUME NEW r \in Requests, NEW c \in Customs, Create(r, c) PROVE LimitsInv'
  <2>1. PICK url, k : rows' = [rows EXCEPT ![c] = [Gone EXCEPT !.exists = TRUE, !.url = url, !.key = k]]
    BY <1>2 DEF Create
  <2>2. rows'[c].models = Gone.models /\ \A x \in Customs : x # c => rows'[x] = rows[x]
    BY <2>1 DEF TypeOK, Gone
  <2>3. rows[c] = Gone /\ named' = named
    BY <1>2 DEF Create
  <2> QED
    BY <2>2, <2>3, LimitsKept
<1>3. ASSUME NEW r \in Requests, UpdateWrite(r) PROVE LimitsInv'
  <2> DEFINE q == req[r]
  <2>1. q.provider \in Customs
    BY <1>3, AtType DEF UpdateWrite, WriteReq
  <2>2. rows' = rows \/ rows' = [rows EXCEPT ![q.provider] = Written(rows[q.provider], q)]
    BY <1>3 DEF UpdateWrite
  <2>3. rows[q.provider] \in Row
    BY <2>1 DEF TypeOK
  <2>4. Written(rows[q.provider], q).models = rows[q.provider].models
    <3> HIDE DEF q
    <3> QED
      BY <2>3 DEF Written, Row
  <2>5. \A c \in Customs : rows'[c].models = rows[c].models
    BY <2>1, <2>2, <2>4 DEF TypeOK
  <2>6. named' = named
    BY <1>3 DEF UpdateWrite
  <2> QED
    BY <2>5, <2>6, LimitsKept
<1>4. ASSUME NEW c \in Customs, Delete(c) PROVE LimitsInv'
  <2>1. /\ rows'[c] = Deleted /\ named'[c] = Unnamed
        /\ \A x \in Customs : x # c => rows'[x] = rows[x] /\ named'[x] = named[x]
    BY <1>4 DEF Delete, TypeOK
  <2> QED
    BY <2>1, GoneHasNoLimit, LimitsKept
<1>5. ASSUME NEW r \in Requests, Listed(r) PROVE LimitsInv'
  <2> DEFINE p == req[r].provider
  <2>1. p \in Customs
    BY <1>5 DEF Listed
  <2>2. ASSUME NEW catalog \in Catalogs, rows' = [rows EXCEPT ![p].models = Replaced(@, catalog)],
               named' = [named EXCEPT ![p] = NamedBy(catalog, @)]
        PROVE  LimitsInv'
    <3>1. rows[p] \in Row /\ rows[p].models \in [Models -> Model]
      BY <2>1 DEF TypeOK, Row
    <3>2. /\ rows'[p].models = Replaced(rows[p].models, catalog) /\ named'[p] = NamedBy(catalog, named[p])
          /\ \A x \in Customs : x # p => rows'[x] = rows[x] /\ named'[x] = named[x]
      BY <2>1, <2>2, <3>1 DEF TypeOK, Row
    <3>3. \A m \in Models : named'[p][m] = IF catalog[m] > 0 THEN catalog[m] ELSE named[p][m]
      BY <3>2 DEF NamedBy
    <3> HIDE DEF p
    <3>4. \A m \in Models : named'[p][m] = LimitOf(rows'[p].models[m])
      BY <2>1, <3>1, <3>2, <3>3, ReplacedTyped DEF LimitsInv
    <3> QED
      BY <2>1, <3>2, <3>4, LimitsKept
  <2> QED
    BY <1>1, <1>5, <2>2 DEF Listed
<1>6. ASSUME NEW c \in Customs, NEW m \in Models, PutModel(c, m) PROVE LimitsInv'
  <2>1. PICK l \in Limits :
          /\ rows' = [rows EXCEPT ![c].models[m] = [limit |-> l, discovered |-> @.discovered]]
          /\ named' = [named EXCEPT ![c][m] = l]
    BY <1>6 DEF PutModel
  <2>2. rows[c] \in Row /\ rows[c].models \in [Models -> Model] /\ l > 0
    BY DEF TypeOK, Row, Meant
  <2>3. /\ rows'[c].models[m].limit = l /\ named'[c][m] = l
        /\ \A n \in Models : n # m => rows'[c].models[n] = rows[c].models[n] /\ named'[c][n] = named[c][n]
        /\ \A x \in Customs : x # c => rows'[x] = rows[x] /\ named'[x] = named[x]
    BY <2>1, <2>2 DEF TypeOK, Row
  <2> QED
    BY <2>2, <2>3, LimitsKept DEF LimitOf
<1> QED
  BY <1>1, <1>2, <1>3, <1>4, <1>5, <1>6
     DEF Next, vars, Deselect, UpdateRead, Discover, RefreshGone, ListedBuiltIn, SelectWrite, AskStatus,
         ShowStatus, Chat, Admit, Update, Refresh, Select

LEMMA InitLimits == ASSUME Meant, Init PROVE LimitsInv
<1>1. CASE Fresh
  BY <1>1, GoneHasNoLimit DEF Fresh, LimitsInv
<1>2. CASE Configured
  <2>1. PICK limit \in Limits, listed \in Models :
          /\ rows = [c \in Customs |-> Earlier(limit, listed)]
          /\ named = [c \in Customs |-> [m \in Models |-> limit]]
    BY <1>2 DEF Configured
  <2>2. limit > 0
    BY DEF Meant
  <2> QED
    BY <2>1, <2>2 DEF Earlier, LimitsInv, LimitOf
<1> QED
  BY <1>1, <1>2 DEF Init

LEMMA LimitsHold == ASSUME Meant, TypeOK, LimitsInv PROVE LimitsSurvive
<1> SUFFICES ASSUME NEW c \in Customs, NEW m \in Models
    PROVE  /\ named[c][m] > 0 => rows[c].models[m].limit = named[c][m]
           /\ UsableModel(c, m) <=> named[c][m] >= MinimumUsable
  BY DEF LimitsSurvive
<1>1. rows[c].models[m].limit \in Int /\ named[c][m] = LimitOf(rows[c].models[m])
  BY DEF TypeOK, Row, Model, LimitsInv
<1> QED
  BY <1>1 DEF Meant, LimitOf, UsableModel, MinimumUsable

\* A custom model keeps the limit that was last named for it, by the user or by
\* a list, whatever later lists leave out, until its provider is deleted; it may
\* be selected and asked exactly while that limit is large enough
\* (provider_settings.go: a model with a limit that is not listed is kept as a
\* manual one, and a list that names no limit does not replace one).
THEOREM ModelsKeepLimits == ASSUME Meant PROVE Spec => []LimitsSurvive
<1>1. Init => TypeOK /\ LimitsInv
  BY InitTypes, InitLimits
<1>2. TypeOK /\ LimitsInv /\ [Next]_vars => (TypeOK /\ LimitsInv)'
  BY NextTypes, LimitsInvariant
<1>3. TypeOK /\ LimitsInv => LimitsSurvive
  BY LimitsHold
<1> QED
  BY <1>1, <1>2, <1>3, PTL DEF Spec

---------------------------------------------------------------------------
(* Turns                                                                   *)

\* A selection that was read stays comparable: the revision never goes back,
\* and another selection has another revision.
LEMMA ChoiceKept ==
  ASSUME TypeOK, TypeOK', revision <= revision', revision' = revision => selected' = selected,
         NEW s, s.revision \in Nat, SameChoice(s)
  PROVE  SameChoice(s)'
<1>1. revision \in Nat /\ revision' \in Nat
  BY DEF TypeOK
<1>2. s.revision <= revision /\ (s.revision = revision => s.provider = selected.provider /\ s.model = selected.model)
  BY DEF SameChoice
<1>3. s.revision <= revision'
  BY <1>1, <1>2
<1>4. ASSUME s.revision = revision' PROVE s.provider = selected'.provider /\ s.model = selected'.model
  <2>1. s.revision = revision /\ selected' = selected
    BY <1>1, <1>2, <1>4
  <2> QED
    BY <1>2, <2>1
<1> QED
  BY <1>3, <1>4 DEF SameChoice

LEMMA RevisionTells ==
  ASSUME Meant, TypeOK, [Next]_vars
  PROVE  revision <= revision' /\ (revision' = revision => selected' = selected)
<1>1. CASE UNCHANGED <<revision, selected>>
  BY <1>1 DEF TypeOK
<1>2. CASE Deselect \/ \E r \in Requests : SelectWrite(r)
  BY <1>2 DEF Deselect, SelectWrite, NextRevision, TypeOK
<1>3. CASE UNCHANGED selected /\ \E c : BumpFor(c)
  BY <1>3, BumpTyped
<1>4. ASSUME NEW c \in Customs, Delete(c) PROVE revision <= revision' /\ (revision' = revision => selected' = selected)
  BY <1>4 DEF Delete, BumpFor, TypeOK
<1> QED
  BY <1>1, <1>2, <1>3, <1>4
     DEF Next, vars, UpdateRead, Discover, RefreshGone, ListedBuiltIn, AskStatus, ShowStatus, Chat, Admit,
         Update, Refresh, Select, Create, UpdateWrite, Listed, PutModel

TurnInv == ShownInv /\ TurnsAsShown

LEMMA TurnInvariant == ASSUME Meant, TypeOK, TypeOK', TurnInv, [Next]_vars PROVE TurnInv'
<1>1. \A s : s.revision \in Nat /\ SameChoice(s) => SameChoice(s)'
  BY RevisionTells, ChoiceKept
<1>2. seen # None => seen.revision \in Nat /\ SameChoice(seen) /\ Consent(seen)
  BY DEF TypeOK, Capture, TurnInv, ShownInv
<1>3. \A r \in Requests : At(r, "status") => req[r].selection.revision \in Nat /\ SameChoice(req[r].selection)
  BY AtType DEF StatusReq, ChosenAt, TurnInv, ShownInv
<1>4. \A r \in Requests : At(r, "capture") =>
       /\ req[r].selection.provider = req[r].asked.provider
       /\ req[r].selection.model = req[r].asked.model
       /\ Consent(req[r].asked)
  BY DEF TurnInv, ShownInv
\* Steps that neither show, ask nor admit.
<1>5. CASE /\ UNCHANGED <<seen, turn>>
           /\ \A r \in Requests : req'[r] = req[r] \/ req'[r].pc \notin {"status", "capture"}
  <2>1. \A r \in Requests : At(r, "status")' => SameChoice(req[r].selection)'
    BY <1>1, <1>3, <1>5 DEF At, SameChoice
  <2>2. seen' # None => SameChoice(seen)' /\ Consent(seen)'
    BY <1>1, <1>2, <1>5 DEF SameChoice, Consent
  <2>3. \A r \in Requests : At(r, "capture")' =>
       /\ req'[r].selection.provider = req'[r].asked.provider
       /\ req'[r].selection.model = req'[r].asked.model
       /\ Consent(req[r].asked)'
    BY <1>4, <1>5 DEF At, Consent
  <2> QED
    BY <1>5, <2>1, <2>2, <2>3 DEF TurnInv, ShownInv, TurnsAsShown
<1>6. ASSUME NEW r \in Requests, NEW s, Goes(r, s), s.pc \notin {"status", "capture"}, UNCHANGED <<seen, turn>>
      PROVE  TurnInv'
  BY <1>5, <1>6 DEF Goes, TypeOK
<1>7. ASSUME UNCHANGED <<seen, turn, req>> PROVE TurnInv'
  BY <1>5, <1>7
<1>8. ASSUME NEW r \in Requests, ShowStatus(r) PROVE TurnInv'
  <2>0. PICK s : s = req[r].selection
    OBVIOUS
  <2>1. s \in ChosenAt /\ SameChoice(s) /\ s.revision \in Nat
    BY <1>3, <1>8, <2>0, AtType DEF ShowStatus, StatusReq
  <2>2. seen' # None => /\ SameChoice(seen)' /\ Consent(seen)'
    <3>1. CASE Capturable(s)
      <4>1. seen' = Captured(s)
        BY <1>8, <2>0, <3>1 DEF ShowStatus
      <4>2. /\ Captured(s).revision = s.revision /\ Captured(s).provider = s.provider
            /\ Captured(s).model = s.model /\ Consent(Captured(s))
        BY <2>1, <3>1, CapturedTyped DEF Consent
      <4>3. SameChoice(Captured(s)) /\ UNCHANGED <<selected, revision>>
        BY <1>8, <2>1, <4>2 DEF SameChoice, ShowStatus
      <4> QED
        BY <4>1, <4>2, <4>3 DEF SameChoice, Consent
    <3>2. CASE ~Capturable(s)
      BY <1>8, <2>0, <3>2 DEF ShowStatus
    <3> QED
      BY <3>1, <3>2
  <2>3. \A x \in Requests : req'[x] = req[x] \/ req'[x].pc = "idle"
    BY <1>8, EndsType DEF ShowStatus, Idle
  <2>4. \A x \in Requests : At(x, "status")' => SameChoice(req[x].selection)'
    BY <1>1, <1>3, <2>3 DEF At, SameChoice
  <2>5. \A x \in Requests : At(x, "capture")' =>
       /\ req'[x].selection.provider = req'[x].asked.provider
       /\ req'[x].selection.model = req'[x].asked.model
       /\ Consent(req[x].asked)'
    BY <1>4, <2>3 DEF At, Consent
  <2>6. turn' = turn
    BY <1>8 DEF ShowStatus
  <2> QED
    BY <2>2, <2>4, <2>5, <2>6 DEF TurnInv, ShownInv, TurnsAsShown
<1>9. ASSUME NEW r \in Requests, AskStatus(r) \/ Chat(r) PROVE TurnInv'
  <2>1. UNCHANGED <<seen, turn, selected, revision>>
    BY <1>9 DEF AskStatus, Chat
  <2>2. \/ AskStatus(r) /\ req'[r] = [pc |-> "status", selection |-> Selection]
        \/ Chat(r) /\ req'[r] = [pc |-> "capture", selection |-> Selection, asked |-> seen]
    BY <1>9 DEF AskStatus, Chat, Goes, TypeOK
  <2>3. \A x \in Requests : x # r => req'[x] = req[x]
    BY <1>9 DEF AskStatus, Chat, Goes, TypeOK
  <2>4. At(r, "status")' => SameChoice(req[r].selection)'
    <3>1. SameChoice(Selection)
      BY DEF SameChoice, Selection, TypeOK
    <3> QED
      BY <2>1, <2>2, <3>1 DEF At, SameChoice
  <2>5. At(r, "capture")' =>
       /\ req'[r].selection.provider = req'[r].asked.provider
       /\ req'[r].selection.model = req'[r].asked.model
       /\ Consent(req[r].asked)'
    <3> SUFFICES ASSUME Chat(r), req'[r] = [pc |-> "capture", selection |-> Selection, asked |-> seen]
                 PROVE  /\ req'[r].selection.provider = req'[r].asked.provider
                        /\ req'[r].selection.model = req'[r].asked.model
                        /\ Consent(req[r].asked)'
      BY <2>2 DEF At
    <3>1. seen # None /\ seen.revision = revision
      BY DEF Chat
    <3>2. Selection.provider = seen.provider /\ Selection.model = seen.model /\ Consent(seen)
      BY <1>2, <3>1 DEF SameChoice, Selection
    <3> QED
      BY <3>2 DEF Consent
  <2>6. \A x \in Requests \ {r} : At(x, "status")' => SameChoice(req[x].selection)'
    BY <1>1, <1>3, <2>3 DEF At, SameChoice
  <2>7. \A x \in Requests \ {r} : At(x, "capture")' =>
       /\ req'[x].selection.provider = req'[x].asked.provider
       /\ req'[x].selection.model = req'[x].asked.model
       /\ Consent(req[x].asked)'
    BY <1>4, <2>3 DEF At, Consent
  <2>8. seen' # None => SameChoice(seen)' /\ Consent(seen)'
    BY <1>1, <1>2, <2>1 DEF SameChoice, Consent
  <2> QED
    BY <2>1, <2>4, <2>5, <2>6, <2>7, <2>8 DEF TurnInv, ShownInv, TurnsAsShown
<1>10. ASSUME NEW r \in Requests, Admit(r) PROVE TurnInv'
  <2> DEFINE s == req[r].selection
             asked == req[r].asked
  <2>1. \A x \in Requests : req'[x] = req[x] \/ req'[x].pc = "idle"
    BY <1>10, EndsType DEF Admit, Idle
  <2>2. s \in ChosenAt /\ s.provider = asked.provider /\ s.model = asked.model /\ Consent(asked)
    BY <1>4, <1>10, AtType DEF Admit, CaptureReq
  <2>3. TurnsAsShown'
    <3>1. CASE Capturable(s) /\ Captured(s).token = asked.token
      <4>1. turn' = [asked |-> asked, got |-> Captured(s)]
        BY <1>10, <3>1 DEF Admit
      <4>2. turn'.got.provider = asked.provider /\ turn'.got.model = asked.model /\ turn'.asked = asked
            /\ turn'.got.token = <<s.provider, Origin[turn'.got.url]>>
        BY <2>2, <3>1, <4>1, CapturedTyped
      <4>3. turn'.got.token = <<asked.provider, Origin[asked.url]>>
        BY <2>2, <3>1, <4>1 DEF Consent
      <4>4. Origin[turn'.got.url] = Origin[asked.url]
        BY <4>2, <4>3
      <4> QED
        BY <4>2, <4>4 DEF TurnsAsShown
    <3>2. CASE ~(Capturable(s) /\ Captured(s).token = asked.token)
      BY <1>10, <3>2 DEF Admit, TurnInv, TurnsAsShown
    <3> QED
      BY <3>1, <3>2
  <2>4. \A x \in Requests : At(x, "status")' => SameChoice(req[x].selection)'
    BY <1>1, <1>3, <2>1 DEF At, SameChoice
  <2>5. \A x \in Requests : At(x, "capture")' =>
       /\ req'[x].selection.provider = req'[x].asked.provider
       /\ req'[x].selection.model = req'[x].asked.model
       /\ Consent(req[x].asked)'
    BY <1>4, <2>1 DEF At, Consent
  <2>6. seen' # None => SameChoice(seen)' /\ Consent(seen)'
    BY <1>1, <1>2, <1>10 DEF SameChoice, Consent, Admit
  <2> QED
    BY <2>3, <2>4, <2>5, <2>6 DEF TurnInv, ShownInv
<1>11. CASE Deselect \/ UNCHANGED vars \/ \E c \in Customs : Delete(c) \/ \E m \in Models : PutModel(c, m)
  BY <1>7, <1>11 DEF Deselect, vars, Delete, PutModel
<1>12. ASSUME NEW r \in Requests, UpdateRead(r) \/ UpdateWrite(r) \/ RefreshGone(r) \/ Listed(r) \/ ListedBuiltIn(r) \/ SelectWrite(r)
       PROVE  TurnInv'
  <2>1. UNCHANGED <<seen, turn>>
    BY <1>12 DEF UpdateRead, UpdateWrite, RefreshGone, Listed, ListedBuiltIn, SelectWrite
  <2>2. \E s : Goes(r, s) /\ s.pc \in {"idle", "write", "refresh"}
    <3>1. CASE Ends(r)
      BY <3>1 DEF Ends, Idle
    <3>2. CASE ~Ends(r) /\ UpdateRead(r)
      BY <3>2 DEF UpdateRead
    <3>3. CASE ~Ends(r) /\ UpdateWrite(r)
      BY <3>3 DEF UpdateWrite
    <3> QED
      BY <1>12, <3>1, <3>2, <3>3 DEF RefreshGone, Listed, ListedBuiltIn, SelectWrite
  <2> QED
    BY <1>6, <2>1, <2>2
<1>13. ASSUME NEW r \in Requests,
              \/ Discover(r)
              \/ \E c \in Customs : Create(r, c) \/ Update(r, c)
              \/ \E p \in Providers : Refresh(r, p) \/ \E m \in Models : Select(r, p, m)
       PROVE  TurnInv'
  <2>1. UNCHANGED <<seen, turn>>
    BY <1>13 DEF Discover, Create, Update, Refresh, Select
  <2>2. \E s : Goes(r, s) /\ s.pc \in {"list", "refresh", "update", "select"}
    <3>1. CASE Discover(r)
      BY <3>1 DEF Discover
    <3>2. ASSUME NEW c \in Customs, Create(r, c) PROVE \E s : Goes(r, s) /\ s.pc = "refresh"
      BY <3>2 DEF Create
    <3>3. ASSUME NEW c \in Customs, Update(r, c) PROVE \E s : Goes(r, s) /\ s.pc = "update"
      BY <3>3 DEF Update
    <3>4. ASSUME NEW p \in Providers, Refresh(r, p) PROVE \E s : Goes(r, s) /\ s.pc = "refresh"
      BY <3>4 DEF Refresh
    <3>5. ASSUME NEW p \in Providers, NEW m \in Models, Select(r, p, m) PROVE \E s : Goes(r, s) /\ s.pc = "select"
      BY <3>5 DEF Select
    <3> QED
      BY <1>13, <3>1, <3>2, <3>3, <3>4, <3>5
  <2> QED
    BY <1>6, <2>1, <2>2
<1> QED
  BY <1>8, <1>9, <1>10, <1>11, <1>12, <1>13 DEF Next

LEMMA InitTurns == ASSUME Meant, Init PROVE TurnInv
BY DEF Init, Idle, At, TurnInv, ShownInv, TurnsAsShown

\* A question is answered by the provider and the model, and sent to the
\* destination, that the tab was showing when the user asked, whatever was
\* selected, moved or deleted meanwhile (web/assistant_providers.go: the revision
\* and the consent token are compared before the turn is admitted).
THEOREM TurnsGoWhereShown == ASSUME Meant PROVE Spec => []TurnsAsShown
<1>1. Init => TypeOK /\ TurnInv
  BY InitTypes, InitTurns
<1>2. TypeOK /\ TurnInv /\ [Next]_vars => (TypeOK /\ TurnInv)'
  BY NextTypes, TurnInvariant
<1>3. TurnInv => TurnsAsShown
  BY DEF TurnInv
<1> QED
  BY <1>1, <1>2, <1>3, PTL DEF Spec


-----------------------------------------------------------------------------
(* CONVERSATIONS                                                           *)


SomeKeys == MaxHistoryKeys \in Nat

---------------------------------------------------------------------------
(* Types                                                                   *)

Names == Sessions \union {NoSession}
Dashboard == [pc : {"down", "opened", "generated", "inserted", "up"},
              version : Versions \union {"none"}, key : 0..MaxHistoryKeys]

IdleTabs == [pc : {"idle"}, session : Names, shown : Seq(Nat)]
AskingTabs == [pc : {"asked", "append"}, at : Processes, session : Names, shown : Seq(Nat)]
ReadingTabs == [pc : {"messages", "calls"}, at : Processes, session : Sessions, shown : Seq(Nat), count : Nat]
RestoredTabs == [pc : {"restored"}, at : Processes, session : Sessions, shown : Seq(Nat), count : Nat,
                 calls : SUBSET Nat]
AnyTab == IdleTabs \union AskingTabs \union ReadingTabs \union RestoredTabs

ChatTypeOK ==
  /\ db \in [version : Versions \union {"none"}, key : 0..MaxHistoryKeys]
  /\ turns \in [Sessions -> Seq(Int)]
  /\ \A s \in Sessions : Live(s) => turns[s] \in Seq(Nat)
  /\ proc \in [Processes -> Dashboard]
  /\ tab \in [Tabs -> AnyTab]
  /\ signed \in Seq(1..MaxHistoryKeys)
  /\ keys \in 0..MaxHistoryKeys
  /\ local \subseteq 1..keys

LEMMA TabTyped ==
  ASSUME ChatTypeOK, NEW t \in Tabs
  PROVE  /\ tab[t].pc = "idle" => tab[t] \in IdleTabs
         /\ tab[t].pc \in {"asked", "append"} => tab[t] \in AskingTabs
         /\ tab[t].pc \in {"messages", "calls"} => tab[t] \in ReadingTabs
         /\ tab[t].pc = "restored" => tab[t] \in RestoredTabs
         /\ tab[t].session \in Names /\ tab[t].shown \in Seq(Nat)
         /\ tab[t].pc # "idle" => tab[t].at \in Processes
<1>1. tab[t] \in AnyTab
  BY DEF ChatTypeOK
<1> QED
  BY <1>1 DEF AnyTab, IdleTabs, AskingTabs, ReadingTabs, RestoredTabs, Names

\* Only one tab changes at a time.
LEMMA SetTyped ==
  ASSUME ChatTypeOK, NEW t \in Tabs, NEW x \in AnyTab, Set(t, x)
  PROVE  /\ tab' \in [Tabs -> AnyTab] /\ tab'[t] = x
         /\ \A u \in Tabs : u # t => tab'[u] = tab[u]
BY DEF ChatTypeOK, Set

LEMMA IdleTyped ==
  ASSUME NEW s \in Names, NEW q \in Seq(Nat)
  PROVE  IdleTab(s, q) \in AnyTab /\ IdleTab(s, q).pc = "idle"
         /\ IdleTab(s, q).session = s /\ IdleTab(s, q).shown = q
BY DEF IdleTab, AnyTab, IdleTabs

LEMMA NewTabTyped == NewTab \in AnyTab /\ NewTab.pc = "idle"
<1>1. <<>> \in Seq(Nat)
  OBVIOUS
<1> QED
  BY <1>1 DEF NewTab, AnyTab, IdleTabs, Names

LEMMA TurnsTyped == <<>> \in Seq(Nat) /\ Unused \in Seq(Int) /\ Erased \in Seq(Int)
BY DEF Unused, Erased

\* The turns of a session that was deleted stay away.
LEMMA GoneStays == ASSUME NEW s \in Sessions PROVE ~Live(s) => turns[s] \in {Unused, Erased}
BY DEF Live

LEMMA ChatInitTypes == ASSUME SomeKeys, ChatsInit PROVE ChatTypeOK
<1>1. db \in [version : Versions \union {"none"}, key : 0..MaxHistoryKeys]
  BY DEF ChatsInit, NoDB, Unkeyed, SomeKeys
<1>2. turns \in [Sessions -> Seq(Int)] /\ \A s \in Sessions : ~Live(s)
  BY TurnsTyped DEF ChatsInit, Live
<1>3. proc \in [Processes -> Dashboard]
  BY DEF ChatsInit, Down, Dashboard, Unkeyed, SomeKeys
<1>4. tab \in [Tabs -> AnyTab]
  BY NewTabTyped DEF ChatsInit
<1> QED
  BY <1>1, <1>2, <1>3, <1>4 DEF ChatsInit, ChatTypeOK, SomeKeys

\* The process: only its own record changes.
LEMMA ProcTypes ==
  ASSUME SomeKeys, ChatTypeOK, NEW p \in Processes,
         Start(p) \/ ReadKey(p) \/ InsertKey(p) \/ ReloadKey(p) \/ KeyFails(p)
  PROVE  /\ ChatTypeOK' /\ \A q \in Processes : q # p => proc'[q] = proc[q]
<1>1. proc[p] \in Dashboard /\ db.key \in 0..MaxHistoryKeys
  BY DEF ChatTypeOK
<1>2. CASE Start(p)
  <2>1. PICK v \in Versions :
          /\ proc' = [proc EXCEPT ![p] = [pc |-> "opened", version |-> v, key |-> Unkeyed]]
          /\ IF db.version = v THEN UNCHANGED <<db, turns>>
             ELSE /\ db' = [version |-> v, key |-> Unkeyed]
                  /\ turns' = [s \in Sessions |-> IF turns[s] = Unused THEN Unused ELSE Erased]
    BY <1>2 DEF Start
  <2>2. [pc |-> "opened", version |-> v, key |-> Unkeyed] \in Dashboard
    BY DEF Dashboard, Unkeyed, SomeKeys
  <2>3. proc' \in [Processes -> Dashboard] /\ \A q \in Processes : q # p => proc'[q] = proc[q]
    BY <2>1, <2>2 DEF ChatTypeOK
  <2>4. CASE db.version = v
    BY <1>2, <2>1, <2>3, <2>4 DEF ChatTypeOK, Live, Start
  <2>5. CASE db.version # v
    <3>1. db' \in [version : Versions \union {"none"}, key : 0..MaxHistoryKeys]
      BY <2>1, <2>5 DEF Unkeyed, SomeKeys
    <3>2. turns' \in [Sessions -> Seq(Int)] /\ \A s \in Sessions : ~Live(s)'
      BY <2>1, <2>5, TurnsTyped DEF Live
    <3> QED
      BY <1>2, <2>3, <3>1, <3>2 DEF ChatTypeOK, Start
  <2> QED
    BY <2>4, <2>5
<1>3. CASE ReadKey(p)
  <2>1. keys' \in 0..MaxHistoryKeys /\ local \subseteq 1..keys'
    BY <1>3 DEF ReadKey, ChatTypeOK, SomeKeys
  <2>2. PICK pc \in {"up", "generated"}, k \in 0..MaxHistoryKeys : proc' = [proc EXCEPT ![p] = [proc[p] EXCEPT !.pc = pc, !.key = k]]
    <3>1. CASE db.key # Unkeyed
      <4>1. proc' = [proc EXCEPT ![p] = [proc[p] EXCEPT !.pc = "up", !.key = db.key]]
        BY <1>3, <3>1 DEF ReadKey
      <4> QED
        BY <1>1, <4>1
    <3>2. CASE db.key = Unkeyed
      <4>1. proc' = [proc EXCEPT ![p] = [proc[p] EXCEPT !.pc = "generated", !.key = keys + 1]]
        BY <1>3, <3>2 DEF ReadKey
      <4>2. keys + 1 \in 0..MaxHistoryKeys
        BY <1>3, <3>2 DEF ReadKey, ChatTypeOK, SomeKeys
      <4> QED
        BY <4>1, <4>2
    <3> QED
      BY <3>1, <3>2
  <2>3. proc' \in [Processes -> Dashboard] /\ \A q \in Processes : q # p => proc'[q] = proc[q]
    BY <1>1, <2>2 DEF ChatTypeOK, Dashboard
  <2> QED
    BY <1>3, <2>1, <2>3 DEF ReadKey, ChatTypeOK, Live
<1>4. CASE InsertKey(p)
  <2>1. proc' \in [Processes -> Dashboard] /\ \A q \in Processes : q # p => proc'[q] = proc[q]
    BY <1>4 DEF InsertKey, ChatTypeOK, Dashboard
  <2>2. Inserted(proc[p].key) \in 0..MaxHistoryKeys
    BY <1>1 DEF Inserted, Dashboard
  <2>3. db' \in [version : Versions \union {"none"}, key : 0..MaxHistoryKeys]
    BY <1>4, <2>2 DEF InsertKey, ChatTypeOK
  <2> QED
    BY <1>4, <2>1, <2>3 DEF InsertKey, ChatTypeOK, Live
<1>5. CASE ReloadKey(p)
  <2>1. proc' \in [Processes -> Dashboard] /\ \A q \in Processes : q # p => proc'[q] = proc[q]
    BY <1>1, <1>5 DEF ReloadKey, StoredKey, ChatTypeOK, Dashboard
  <2> QED
    BY <1>5, <2>1 DEF ReloadKey, ChatTypeOK, Live
<1>6. CASE KeyFails(p)
  <2>1. keys' \in 0..MaxHistoryKeys /\ keys' = keys + 1 /\ keys \in Nat
    BY <1>6 DEF KeyFails, ChatTypeOK, SomeKeys
  <2>2. proc' \in [Processes -> Dashboard] /\ \A q \in Processes : q # p => proc'[q] = proc[q]
    BY <1>6, <2>1, ZenonT(60) DEF KeyFails, ChatTypeOK, Dashboard
  <2>3. local' \subseteq 1..keys'
    BY <1>6, <2>1 DEF KeyFails, ChatTypeOK
  <2> QED
    BY <1>6, <2>1, <2>2, <2>3 DEF KeyFails, ChatTypeOK, Live
<1> QED
  BY <1>2, <1>3, <1>4, <1>5, <1>6

LEMMA StopTypes ==
  ASSUME SomeKeys, ChatTypeOK, NEW p \in Processes, Stop(p)
  PROVE  /\ ChatTypeOK' /\ proc'[p].pc = "down" /\ \A q \in Processes : q # p => proc'[q] = proc[q]
         /\ \A t \in Tabs : tab'[t] = tab[t] \/ tab'[t].pc = "idle"
         /\ \A t \in Tabs : tab'[t].pc # "idle" => tab[t] = tab'[t] /\ tab[t].at # p
<1>1. Down \in Dashboard /\ Down.pc = "down"
  BY DEF Down, Dashboard, Unkeyed, SomeKeys
<1>2. proc' \in [Processes -> Dashboard] /\ proc'[p].pc = "down" /\ \A q \in Processes : q # p => proc'[q] = proc[q]
  BY <1>1 DEF Stop, ChatTypeOK
<1>3. \A t \in Tabs : /\ IdleTab(tab[t].session, tab[t].shown) \in AnyTab
                      /\ IdleTab(tab[t].session, tab[t].shown).pc = "idle"
  BY TabTyped, IdleTyped
<1>4. tab' = [t \in Tabs |-> IF tab[t].pc # "idle" /\ tab[t].at = p
                             THEN IdleTab(tab[t].session, tab[t].shown) ELSE tab[t]]
  BY DEF Stop, IdleTab
<1>5. tab' \in [Tabs -> AnyTab]
  BY <1>3, <1>4 DEF ChatTypeOK
<1> QED
  BY <1>2, <1>3, <1>4, <1>5 DEF Stop, ChatTypeOK, Live

\* A tab that goes on idle.
LEMMA IdleTypes ==
  ASSUME ChatTypeOK, NEW t \in Tabs, UNCHANGED <<db, turns, proc, signed, keys, local>>,
         NEW s \in Names, NEW q \in Seq(Nat), Set(t, IdleTab(s, q))
  PROVE  ChatTypeOK' /\ tab'[t].pc = "idle" /\ \A u \in Tabs : u # t => tab'[u] = tab[u]
<1>1. IdleTab(s, q) \in AnyTab /\ IdleTab(s, q).pc = "idle"
  BY IdleTyped
<1>2. tab' \in [Tabs -> AnyTab] /\ tab'[t] = IdleTab(s, q) /\ \A u \in Tabs : u # t => tab'[u] = tab[u]
  BY <1>1, SetTyped
<1> QED
  BY <1>1, <1>2 DEF ChatTypeOK, Live

LEMMA QuietTypes ==
  ASSUME ChatTypeOK, NEW t \in Tabs, NEW p \in Processes,
         NoAnswer(t, p) \/ NotPersisted(t, p) \/ Restore(t, p) \/ NewChat(t)
  PROVE  /\ ChatTypeOK' /\ tab'[t].pc = "idle" /\ \A u \in Tabs : u # t => tab'[u] = tab[u]
         /\ UNCHANGED <<db, turns, proc, signed, keys, local>>
<1>1. UNCHANGED <<db, turns, proc, signed, keys, local>>
  BY DEF NoAnswer, NotPersisted, Restore, NewChat
<1>2. Set(t, IdleTab(tab[t].session, tab[t].shown)) \/ Set(t, NewTab)
  BY DEF NoAnswer, NotPersisted, Restore, NewChat
<1>3. NewTab = IdleTab(NoSession, <<>>) /\ NoSession \in Names /\ <<>> \in Seq(Nat)
  BY DEF NewTab, IdleTab, Names
<1> QED
  BY <1>1, <1>2, <1>3, IdleTypes, TabTyped

LEMMA AskTypes ==
  ASSUME ChatTypeOK, NEW t \in Tabs, NEW p \in Processes, Ask(t, p)
  PROVE  /\ ChatTypeOK' /\ tab'[t].pc = "asked" /\ \A u \in Tabs : u # t => tab'[u] = tab[u]
<1> DEFINE x == [pc |-> "asked", at |-> p, session |-> tab[t].session, shown |-> tab[t].shown]
<1>1. x \in AnyTab
  BY TabTyped DEF AnyTab, AskingTabs
<1>2. Set(t, x)
  BY DEF Ask
<1>3. x.pc = "asked"
  OBVIOUS
<1> HIDE DEF x
<1>4. tab' \in [Tabs -> AnyTab] /\ tab'[t] = x /\ \A u \in Tabs : u # t => tab'[u] = tab[u]
  BY <1>1, <1>2, SetTyped
<1> QED
  BY <1>3, <1>4 DEF Ask, ChatTypeOK, Live

LEMMA AnswerTypes ==
  ASSUME SomeKeys, ChatTypeOK, NEW t \in Tabs, NEW p \in Processes, Answer(t, p), proc[p].key # Unkeyed
  PROVE  /\ ChatTypeOK' /\ tab'[t].pc = "append" /\ tab'[t].at = p
         /\ tab'[t].shown = Append(tab[t].shown, Len(signed) + 1)
         /\ signed' = Append(signed, proc[p].key)
         /\ \A u \in Tabs : u # t => tab'[u] = tab[u]
<1> DEFINE q == Append(tab[t].shown, Len(signed) + 1)
           x == [tab[t] EXCEPT !.pc = "append", !.shown = q]
<1>1. tab[t] \in AskingTabs /\ tab[t].at = p
  BY TabTyped DEF Answer, TabAt
<1>2. q \in Seq(Nat)
  BY <1>1 DEF AskingTabs, ChatTypeOK
<1>3. Set(t, x)
  BY DEF Answer
<1>4. x \in AnyTab /\ x.pc = "append" /\ x.at = p /\ x.shown = q
  <2> HIDE DEF q
  <2> QED
    BY <1>1, <1>2 DEF AnyTab, AskingTabs
<1> HIDE DEF x
<1>5. tab' \in [Tabs -> AnyTab] /\ tab'[t] = x /\ \A u \in Tabs : u # t => tab'[u] = tab[u]
  BY <1>3, <1>4, SetTyped
<1>6. signed' \in Seq(1..MaxHistoryKeys)
  BY DEF Answer, ChatTypeOK, Dashboard, Unkeyed, SomeKeys
<1> QED
  BY <1>4, <1>5, <1>6 DEF Answer, ChatTypeOK, Live

LEMMA ReadTypes ==
  ASSUME ChatTypeOK, NEW t \in Tabs, NEW p \in Processes,
         ReadSession(t, p) \/ ReadMessages(t, p) \/ ReadCalls(t, p)
  PROVE  /\ ChatTypeOK' /\ \A u \in Tabs : u # t => tab'[u] = tab[u]
         /\ tab'[t].pc \in {"messages", "calls", "restored"}
<1>1. \A s \in Sessions : Rows(s) \in Seq(Nat)
  BY DEF Rows, ChatTypeOK
<1>2. CASE ReadSession(t, p)
  <2>1. PICK s \in Sessions :
          Set(t, [pc |-> "messages", at |-> p, session |-> s, shown |-> <<>>, count |-> Len(turns[s])])
    BY <1>2 DEF ReadSession
  <2>2. Len(turns[s]) \in Nat /\ <<>> \in Seq(Nat)
    BY DEF ChatTypeOK
  <2> DEFINE x == [pc |-> "messages", at |-> p, session |-> s, shown |-> <<>>, count |-> Len(turns[s])]
  <2>3. x \in AnyTab /\ x.pc = "messages"
    BY <2>2 DEF AnyTab, ReadingTabs
  <2> HIDE DEF x
  <2>4. tab' \in [Tabs -> AnyTab] /\ tab'[t] = x /\ \A u \in Tabs : u # t => tab'[u] = tab[u]
    BY <2>1, <2>3, SetTyped DEF x
  <2> QED
    BY <1>2, <2>3, <2>4 DEF ReadSession, ChatTypeOK, Live
<1>3. CASE ReadMessages(t, p)
  <2>1. tab[t] \in ReadingTabs
    BY <1>3, TabTyped DEF ReadMessages, TabAt
  <2> DEFINE x == [pc |-> "calls", at |-> p, session |-> tab[t].session, shown |-> Rows(tab[t].session),
                   count |-> tab[t].count]
  <2>2. Rows(tab[t].session) \in Seq(Nat)
    BY <1>1, <2>1 DEF ReadingTabs
  <2>3. x \in AnyTab /\ x.pc = "calls"
    BY <2>1, <2>2 DEF AnyTab, ReadingTabs
  <2>4. Set(t, x)
    BY <1>3 DEF ReadMessages
  <2> HIDE DEF x
  <2>5. tab' \in [Tabs -> AnyTab] /\ tab'[t] = x /\ \A u \in Tabs : u # t => tab'[u] = tab[u]
    BY <2>3, <2>4, SetTyped
  <2> QED
    BY <1>3, <2>3, <2>5 DEF ReadMessages, ChatTypeOK, Live
<1>4. CASE ReadCalls(t, p)
  <2>1. tab[t] \in ReadingTabs
    BY <1>4, TabTyped DEF ReadCalls, TabAt
  <2> DEFINE c == Attached(tab[t].shown, Rows(tab[t].session))
             x == [pc |-> "restored", at |-> p, session |-> tab[t].session, shown |-> tab[t].shown,
                   count |-> tab[t].count, calls |-> c]
  <2>2. c \in SUBSET Nat
    BY <2>1 DEF ReadingTabs, Attached, Among
  <2>3. Set(t, x)
    BY <1>4 DEF ReadCalls
  <2>4. x \in AnyTab /\ x.pc = "restored"
    <3> HIDE DEF c
    <3> QED
      BY <2>1, <2>2 DEF AnyTab, ReadingTabs, RestoredTabs
  <2> HIDE DEF x
  <2>5. tab' \in [Tabs -> AnyTab] /\ tab'[t] = x /\ \A u \in Tabs : u # t => tab'[u] = tab[u]
    BY <2>3, <2>4, SetTyped
  <2> QED
    BY <1>4, <2>4, <2>5 DEF ReadCalls, ChatTypeOK, Live
<1> QED
  BY <1>2, <1>3, <1>4

\* A turn goes to the end of the session, or makes one.
LEMMA AppendTypes ==
  ASSUME ChatTypeOK, NEW t \in Tabs, NEW p \in Processes, AppendTurn(t, p),
         tab[t].shown # <<>>
  PROVE  /\ ChatTypeOK' /\ tab'[t].pc = "idle" /\ \A u \in Tabs : u # t => tab'[u] = tab[u]
         /\ \E s \in Sessions :
              /\ Live(s) \/ turns[s] = Unused
              /\ turns' = [turns EXCEPT ![s] = Append(IF Live(s) THEN turns[s] ELSE <<>>,
                                                      tab[t].shown[Len(tab[t].shown)])]
<1> DEFINE a == tab[t].shown[Len(tab[t].shown)]
<1>1. PICK s \in Where(tab[t].session) :
        /\ turns' = [turns EXCEPT ![s] = Append(IF Live(s) THEN turns[s] ELSE <<>>, a)]
        /\ tab' \in {[tab EXCEPT ![t] = IdleTab(s, tab[t].shown)], [tab EXCEPT ![t] = NewTab]}
  BY DEF AppendTurn
<1>2. s \in Sessions /\ (Live(s) \/ turns[s] = Unused) /\ s \in Names
  BY <1>1 DEF Where, Live, Names
<1>3. tab[t].shown \in Seq(Nat) /\ a \in Nat
  BY TabTyped
<1>4. (IF Live(s) THEN turns[s] ELSE <<>>) \in Seq(Nat)
  BY <1>2 DEF ChatTypeOK
<1>5. Append(IF Live(s) THEN turns[s] ELSE <<>>, a) \in Seq(Nat)
  <2> HIDE DEF a
  <2> QED
    BY <1>3, <1>4
<1>6. turns' \in [Sessions -> Seq(Int)] /\ \A x \in Sessions : Live(x)' => turns'[x] \in Seq(Nat)
  <2>1. \A q \in Seq(Nat) : q \in Seq(Int)
    OBVIOUS
  <2> HIDE DEF a
  <2> QED
    BY <1>1, <1>2, <1>5, <2>1 DEF ChatTypeOK, Live
<1>7. tab' \in [Tabs -> AnyTab] /\ tab'[t].pc = "idle" /\ \A u \in Tabs : u # t => tab'[u] = tab[u]
  <2>1. PICK x \in AnyTab : x.pc = "idle" /\ tab' = [tab EXCEPT ![t] = x]
    BY <1>1, <1>2, <1>3, IdleTyped, NewTabTyped
  <2> QED
    BY <2>1 DEF ChatTypeOK
<1>8. UNCHANGED <<db, proc, signed, keys, local>>
  BY DEF AppendTurn
<1>9. ChatTypeOK'
  BY <1>6, <1>7, <1>8 DEF ChatTypeOK
<1> QED
  BY <1>1, <1>2, <1>7, <1>9

LEMMA DeleteTypes ==
  ASSUME ChatTypeOK, NEW s \in Sessions, DeleteSession(s)
  PROVE  ChatTypeOK' /\ ~Live(s)' /\ \A x \in Sessions : x # s => turns'[x] = turns[x]
<1>1. turns' = [turns EXCEPT ![s] = Erased] /\ Erased \in Seq(Int)
  BY TurnsTyped DEF DeleteSession
<1>2. turns' \in [Sessions -> Seq(Int)] /\ turns'[s] = Erased /\ \A x \in Sessions : x # s => turns'[x] = turns[x]
  BY <1>1 DEF ChatTypeOK
<1>3. ~Live(s)' /\ \A x \in Sessions : Live(x)' => turns'[x] \in Seq(Nat)
  BY <1>2 DEF ChatTypeOK, Live
<1> QED
  BY <1>2, <1>3 DEF DeleteSession, ChatTypeOK

LEMMA ChatNextTypes ==
  ASSUME SomeKeys, ChatTypeOK, [ChatsNext]_chatVars,
         \A p \in Processes : Up(p) => proc[p].key # Unkeyed,
         \A t \in Tabs : tab[t].pc = "append" => tab[t].shown # <<>>
  PROVE  ChatTypeOK'
<1>1. CASE UNCHANGED chatVars
  BY <1>1 DEF chatVars, ChatTypeOK, Live
<1>2. ASSUME NEW t \in Tabs, NewChat(t) PROVE ChatTypeOK'
  <2>1. CASE \E p \in Processes : TRUE
    BY <1>2, <2>1, QuietTypes
  <2>2. Set(t, IdleTab(NoSession, <<>>)) /\ UNCHANGED <<db, turns, proc, signed, keys, local>>
    BY <1>2 DEF NewChat, NewTab, IdleTab
  <2>3. NoSession \in Names /\ <<>> \in Seq(Nat)
    BY DEF Names
  <2> QED
    BY <2>2, <2>3, IdleTypes
<1>3. ASSUME NEW t \in Tabs, NEW p \in Processes, Answer(t, p) PROVE ChatTypeOK'
  BY <1>3, AnswerTypes DEF Answer, TabAt
<1>4. ASSUME NEW t \in Tabs, NEW p \in Processes, AppendTurn(t, p) PROVE ChatTypeOK'
  BY <1>4, AppendTypes DEF AppendTurn, TabAt
<1> QED
  BY <1>1, <1>2, <1>3, <1>4, ProcTypes, StopTypes, QuietTypes, AskTypes, ReadTypes, DeleteTypes DEF ChatsNext

---------------------------------------------------------------------------
(* Keys                                                                    *)

\* Dashboards that run have the database's version; one that is up has the
\* stored key, unless it could not read or store one.
ChatKeysInv ==
  /\ db.key <= keys /\ db.key \notin local
  /\ \A p \in Processes : proc[p].pc # "down" => proc[p].version = db.version
  /\ \A p \in Processes : proc[p].pc = "generated" => proc[p].key \in 1..keys /\ proc[p].key \notin local
  /\ \A p \in Processes : proc[p].pc = "inserted" => db.key # Unkeyed
  /\ \A p \in Processes : Up(p) => proc[p].key # Unkeyed /\ (proc[p].key \notin local => proc[p].key = db.key)

LEMMA ChatInitKeys == ASSUME SomeKeys, ChatsInit PROVE ChatKeysInv
BY DEF ChatsInit, NoDB, Unkeyed, Down, Up, ChatKeysInv

LEMMA KeysOfProcs ==
  ASSUME SomeKeys, ChatTypeOK, ChatKeysInv, NEW p \in Processes,
         Start(p) \/ ReadKey(p) \/ InsertKey(p) \/ ReloadKey(p) \/ KeyFails(p)
  PROVE  ChatKeysInv'
<1> USE DEF Unkeyed
<1>1. proc[p] \in Dashboard /\ db.key \in 0..MaxHistoryKeys /\ keys \in Nat /\ local \subseteq 1..keys
  BY DEF ChatTypeOK
<1>2. \A q \in Processes : q # p => proc'[q] = proc[q]
  BY ProcTypes
<1>3. CASE Start(p)
  <2>1. PICK v \in Versions :
          /\ \A q \in Processes : proc[q].pc # "down" => proc[q].version = v
          /\ proc' = [proc EXCEPT ![p] = [pc |-> "opened", version |-> v, key |-> Unkeyed]]
          /\ IF db.version = v THEN UNCHANGED <<db, turns>>
             ELSE /\ db' = [version |-> v, key |-> Unkeyed]
                  /\ turns' = [s \in Sessions |-> IF turns[s] = Unused THEN Unused ELSE Erased]
    BY <1>3 DEF Start
  <2>2. proc'[p] = [pc |-> "opened", version |-> v, key |-> Unkeyed]
    BY <2>1 DEF ChatTypeOK
  <2>3. UNCHANGED <<keys, local>> /\ db'.version = v
    BY <1>3, <2>1 DEF Start
  <2>4. CASE db.version = v
    BY <1>2, <2>1, <2>2, <2>3, <2>4 DEF ChatKeysInv, Up
  <2>5. CASE db.version # v
    <3>1. \A q \in Processes : proc[q].pc = "down"
      BY <2>1, <2>5 DEF ChatKeysInv
    <3>2. \A q \in Processes : proc'[q].pc \in {"down", "opened"} /\ (proc'[q].pc # "down" => proc'[q].version = v)
      BY <1>2, <2>2, <3>1
    <3>3. db'.key = 0 /\ db'.key <= keys' /\ db'.key \notin local'
      BY <1>1, <2>1, <2>3, <2>5
    <3> QED
      BY <2>3, <3>2, <3>3 DEF ChatKeysInv, Up
  <2> QED
    BY <2>4, <2>5
<1>4. CASE ReadKey(p)
  <2>1. CASE db.key # Unkeyed
    <3>1. proc' = [proc EXCEPT ![p] = [proc[p] EXCEPT !.pc = "up", !.key = db.key]]
      BY <1>4, <2>1 DEF ReadKey
    <3>2. proc'[p].pc = "up" /\ proc'[p].key = db.key /\ proc'[p].version = proc[p].version
      BY <1>1, <3>1 DEF ChatTypeOK, Dashboard
    <3>3. UNCHANGED <<db, keys, local>> /\ proc[p].pc = "opened"
      BY <1>4, <2>1 DEF ReadKey
    <3> QED
      BY <1>2, <2>1, <3>2, <3>3 DEF ChatKeysInv, Up
  <2>2. CASE db.key = Unkeyed
    <3>1. proc' = [proc EXCEPT ![p] = [proc[p] EXCEPT !.pc = "generated", !.key = keys + 1]]
      BY <1>4, <2>2 DEF ReadKey
    <3>2. proc'[p].pc = "generated" /\ proc'[p].key = keys + 1 /\ proc'[p].version = proc[p].version
      BY <1>1, <3>1 DEF ChatTypeOK, Dashboard
    <3>3. UNCHANGED <<db, local>> /\ keys' = keys + 1 /\ proc[p].pc = "opened"
      BY <1>4, <2>2 DEF ReadKey
    <3>4. keys + 1 \in 1..keys' /\ keys + 1 \notin local /\ db.key <= keys'
      BY <1>1, <3>3 DEF ChatKeysInv
    <3>5. \A q \in Processes : proc'[q].pc = "generated" => proc'[q].key \in 1..keys' /\ proc'[q].key \notin local'
      BY <1>1, <1>2, <3>2, <3>3, <3>4 DEF ChatKeysInv
    <3> QED
      BY <1>2, <3>2, <3>3, <3>4, <3>5 DEF ChatKeysInv, Up
  <2> QED
    BY <2>1, <2>2
<1>5. CASE InsertKey(p)
  <2>1. proc'[p] = [proc[p] EXCEPT !.pc = "inserted"] /\ UNCHANGED <<keys, local>> /\ proc[p].pc = "generated"
    BY <1>5 DEF InsertKey, ChatTypeOK
  <2>2. proc'[p].pc = "inserted" /\ proc'[p].version = proc[p].version
    BY <1>1, <2>1 DEF Dashboard
  <2>3. db'.version = db.version /\ db'.key = Inserted(proc[p].key)
    BY <1>5 DEF InsertKey, ChatTypeOK
  <2>4. proc[p].key \in 1..keys /\ proc[p].key \notin local
    BY <2>1 DEF ChatKeysInv
  <2>5. db'.key # Unkeyed /\ db'.key <= keys /\ db'.key \notin local /\ (db.key # Unkeyed => db'.key = db.key)
    BY <1>1, <2>3, <2>4 DEF Inserted, ChatKeysInv
  <2> QED
    BY <1>2, <2>1, <2>2, <2>3, <2>5, ZenonT(60) DEF ChatKeysInv, Up
<1>6. CASE ReloadKey(p)
  <2>1. proc' = [proc EXCEPT ![p] = [proc[p] EXCEPT !.pc = "up", !.key = db.key]]
    BY <1>6 DEF ReloadKey, StoredKey
  <2>2. proc'[p].pc = "up" /\ proc'[p].key = db.key /\ proc'[p].version = proc[p].version
    BY <1>1, <2>1 DEF ChatTypeOK, Dashboard
  <2>3. UNCHANGED <<db, keys, local>> /\ proc[p].pc = "inserted"
    BY <1>6 DEF ReloadKey
  <2> QED
    BY <1>2, <2>2, <2>3 DEF ChatKeysInv, Up
<1>7. CASE KeyFails(p)
  <2>1. proc' = [proc EXCEPT ![p] = [proc[p] EXCEPT !.pc = "up", !.key = keys + 1]]
    BY <1>7 DEF KeyFails
  <2>2. proc'[p].pc = "up" /\ proc'[p].key = keys + 1 /\ proc'[p].version = proc[p].version
    BY <1>1, <2>1 DEF ChatTypeOK, Dashboard
  <2>3. UNCHANGED db /\ keys' = keys + 1 /\ local' = local \union {keys + 1} /\ proc[p].pc # "down"
    BY <1>7 DEF KeyFails
  <2>4. db.key <= keys' /\ db.key \notin local'
    BY <1>1, <2>3 DEF ChatKeysInv
  <2>5. \A q \in Processes : proc'[q].pc = "generated" => proc'[q].key \in 1..keys' /\ proc'[q].key \notin local'
    BY <1>1, <1>2, <2>2, <2>3 DEF ChatKeysInv
  <2>6. \A q \in Processes : Up(q)' => proc'[q].key # Unkeyed /\ (proc'[q].key \notin local' => proc'[q].key = db'.key)
    BY <1>1, <1>2, <2>2, <2>3 DEF ChatKeysInv, Up
  <2> QED
    BY <1>2, <2>2, <2>3, <2>4, <2>5, <2>6 DEF ChatKeysInv
<1> QED
  BY <1>3, <1>4, <1>5, <1>6, <1>7

LEMMA KeysInvariant == ASSUME SomeKeys, ChatTypeOK, ChatKeysInv, [ChatsNext]_chatVars PROVE ChatKeysInv'
<1>1. CASE UNCHANGED <<db, proc, keys, local>>
  BY <1>1 DEF ChatKeysInv, Up
<1>2. ASSUME NEW p \in Processes, Stop(p) PROVE ChatKeysInv'
  <2>1. UNCHANGED <<db, keys, local>> /\ proc'[p].pc = "down" /\ \A q \in Processes : q # p => proc'[q] = proc[q]
    BY <1>2, StopTypes DEF Stop
  <2> QED
    BY <2>1 DEF ChatKeysInv, Up
<1> QED
  BY <1>1, <1>2, KeysOfProcs, ZenonT(60)
     DEF ChatsNext, chatVars, Ask, Answer, NoAnswer, AppendTurn, NotPersisted, ReadSession, ReadMessages, ReadCalls,
         Restore, NewChat, DeleteSession

---------------------------------------------------------------------------
(* Sessions only grow, until they are deleted for good                     *)

KeptTurns(s) ==
  turns[s] # Unused =>
    /\ turns'[s] # Unused
    /\ Live(s)' => /\ Live(s) /\ Len(turns[s]) <= Len(turns'[s])
                   /\ \A i \in 1..Len(turns[s]) : turns'[s][i] = turns[s][i]

LEMMA NaturalTurns == ASSUME NEW q \in Seq(Nat) PROVE q \notin {Unused, Erased}
<1>1. Unused[1] = -1 /\ Len(Unused) = 1 /\ Erased[1] = -2 /\ Len(Erased) = 1
  BY DEF Unused, Erased
<1>2. Len(q) = 1 => q[1] \in Nat
  <2> SUFFICES ASSUME Len(q) = 1 PROVE q[1] \in Nat
    OBVIOUS
  <2> QED
    BY 1 \in 1..Len(q), ElementOfSeq
<1>3. q # Unused
  BY <1>1, <1>2
<1>4. q # Erased
  BY <1>1, <1>2
<1> QED
  BY <1>3, <1>4

LEMMA SameKept == ASSUME NEW s \in Sessions, turns'[s] = turns[s] PROVE KeptTurns(s)
BY DEF KeptTurns, Live

LEMMA SessionsGrow ==
  ASSUME SomeKeys, ChatTypeOK, [ChatsNext]_chatVars, \A t \in Tabs : tab[t].pc = "append" => tab[t].shown # <<>>
  PROVE  \A s \in Sessions : KeptTurns(s)
<1>1. CASE UNCHANGED turns
  BY <1>1, SameKept
<1>2. ASSUME NEW p \in Processes, Start(p) PROVE \A s \in Sessions : KeptTurns(s)
  <2>1. turns' = turns \/ turns' = [s \in Sessions |-> IF turns[s] = Unused THEN Unused ELSE Erased]
    BY <1>2 DEF Start
  <2>2. Erased # Unused
    BY DEF Erased, Unused
  <2> QED
    BY <2>1, <2>2, SameKept DEF KeptTurns, Live
<1>3. ASSUME NEW s \in Sessions, DeleteSession(s) PROVE \A x \in Sessions : KeptTurns(x)
  <2>1. turns'[s] = Erased /\ Erased # Unused
    BY <1>3 DEF DeleteSession, ChatTypeOK, Erased, Unused
  <2> QED
    BY <1>3, <2>1, DeleteTypes, SameKept DEF KeptTurns
<1>4. ASSUME NEW t \in Tabs, NEW p \in Processes, AppendTurn(t, p) PROVE \A x \in Sessions : KeptTurns(x)
  <2> DEFINE a == tab[t].shown[Len(tab[t].shown)]
  <2>1. tab[t].shown # <<>>
    BY <1>4 DEF AppendTurn, TabAt
  <2>2. PICK s \in Sessions : /\ Live(s) \/ turns[s] = Unused
                              /\ turns' = [turns EXCEPT ![s] = Append(IF Live(s) THEN turns[s] ELSE <<>>, a)]
    BY <1>4, <2>1, AppendTypes
  <2>3. a \in Nat
    BY <2>1, TabTyped
  <2>4. \A x \in Sessions : x # s => turns'[x] = turns[x]
    BY <2>2 DEF ChatTypeOK
  <2>5. KeptTurns(s)
    <3>1. CASE Live(s)
      <4>1. turns[s] \in Seq(Nat) /\ turns'[s] = Append(turns[s], a)
        BY <2>2, <3>1 DEF ChatTypeOK
      <4> HIDE DEF a
      <4>2. /\ turns'[s] \in Seq(Nat) /\ Len(turns[s]) \in Nat /\ Len(turns'[s]) = Len(turns[s]) + 1
            /\ \A i \in 1..Len(turns[s]) : turns'[s][i] = turns[s][i]
        BY <2>3, <4>1, AppendProperties, LenProperties
      <4>3. turns'[s] # Unused /\ Len(turns[s]) <= Len(turns'[s])
        BY <4>2, NaturalTurns
      <4> QED
        BY <3>1, <4>2, <4>3 DEF KeptTurns
    <3>2. CASE turns[s] = Unused
      BY <3>2 DEF KeptTurns
    <3> QED
      BY <2>2, <3>1, <3>2
  <2> QED
    BY <2>4, <2>5, SameKept
<1> QED
  BY <1>1, <1>2, <1>3, <1>4, ZenonT(60)
     DEF ChatsNext, chatVars, ReadKey, InsertKey, ReloadKey, KeyFails, Stop, Ask, Answer, NoAnswer, NotPersisted,
         ReadSession, ReadMessages, ReadCalls, Restore, NewChat

---------------------------------------------------------------------------
(* Answers                                                                 *)

SignedBy(a, ks) == a \in 1..Len(signed) /\ signed[a] \in ks

\* The answer a tab is about to store.
Latest(t) == tab[t].shown[Len(tab[t].shown)]

AnswersInv ==
  /\ \A s \in Sessions : Live(s) => \A i \in 1..Len(turns[s]) : SignedBy(turns[s][i], {db.key} \union local)
  /\ \A t \in Tabs : tab[t].pc = "append" =>
       tab[t].shown # <<>> /\ Up(tab[t].at) /\ SignedBy(Latest(t), {proc[tab[t].at].key})

LEMMA InitAnswers == ASSUME ChatsInit PROVE AnswersInv
BY DEF ChatsInit, AnswersInv, Live, NewTab

\* Steps that store no turn: a key that is stored, or replaces one with the
\* sessions, is the first of its database.
LEMMA AnswersQuiet ==
  ASSUME SomeKeys, ChatTypeOK, ChatTypeOK', ChatKeysInv, AnswersInv, UNCHANGED signed,
         \A s \in Sessions : Live(s)' => turns'[s] = turns[s],
         local \subseteq local',
         (\E s \in Sessions : Live(s)') => db'.key = db.key \/ db.key = Unkeyed,
         \A t \in Tabs : tab'[t].pc = "append" =>
           tab'[t] = tab[t] /\ Up(tab[t].at)' /\ proc'[tab[t].at] = proc[tab[t].at]
  PROVE  AnswersInv'
<1>1. ASSUME NEW s \in Sessions, Live(s)', NEW i \in 1..Len(turns'[s])
      PROVE  SignedBy(turns[s][i], {db.key} \union local)'
  <2>1. turns'[s] = turns[s] /\ Live(s)
    BY <1>1 DEF Live
  <2>2. SignedBy(turns[s][i], {db.key} \union local)
    BY <1>1, <2>1 DEF AnswersInv
  <2>3. signed[turns[s][i]] \in 1..MaxHistoryKeys
    BY <2>2, ElementOfSeq DEF SignedBy, ChatTypeOK
  <2>4. signed[turns[s][i]] # Unkeyed
    BY <2>3 DEF Unkeyed, SomeKeys
  <2> QED
    BY <1>1, <2>1, <2>2, <2>4 DEF SignedBy
<1>2. ASSUME NEW t \in Tabs, tab'[t].pc = "append"
      PROVE  tab'[t].shown # <<>> /\ Up(tab[t].at)' /\ SignedBy(Latest(t), {proc[tab[t].at].key})'
  BY <1>2 DEF AnswersInv, SignedBy, Latest
<1> QED
  BY <1>1, <1>2 DEF AnswersInv

LEMMA AnswersOfProcs ==
  ASSUME SomeKeys, ChatTypeOK, ChatTypeOK', ChatKeysInv, AnswersInv, NEW p \in Processes,
         Start(p) \/ ReadKey(p) \/ InsertKey(p) \/ ReloadKey(p) \/ KeyFails(p)
  PROVE  AnswersInv'
<1>1. UNCHANGED <<tab, signed>> /\ ~Up(p) /\ local \subseteq local'
  BY DEF Start, ReadKey, InsertKey, ReloadKey, KeyFails, Up
<1>2. \A q \in Processes : q # p => proc'[q] = proc[q]
  BY ProcTypes
<1>3. \A t \in Tabs : tab'[t].pc = "append" =>
        tab'[t] = tab[t] /\ Up(tab[t].at)' /\ proc'[tab[t].at] = proc[tab[t].at]
  BY <1>1, <1>2, TabTyped DEF AnswersInv, Up
<1>4. \A s \in Sessions : Live(s)' => turns'[s] = turns[s] /\ (db'.key = db.key \/ db.key = Unkeyed)
  <2>1. CASE Start(p)
    BY <2>1 DEF Start, Live
  <2>2. CASE InsertKey(p)
    BY <2>2 DEF InsertKey, Inserted, ChatTypeOK
  <2>3. CASE ReadKey(p) \/ ReloadKey(p) \/ KeyFails(p)
    BY <2>3 DEF ReadKey, ReloadKey, KeyFails
  <2> QED
    BY <2>1, <2>2, <2>3
<1> QED
  BY <1>1, <1>3, <1>4, AnswersQuiet

LEMMA AnswersInvariant ==
  ASSUME SomeKeys, ChatTypeOK, ChatTypeOK', ChatKeysInv, AnswersInv, [ChatsNext]_chatVars
  PROVE  AnswersInv'
<1>1. CASE UNCHANGED chatVars
  BY <1>1 DEF chatVars, AnswersInv, SignedBy, Latest, Live, Up
<1>2. ASSUME NEW t \in Tabs, UNCHANGED <<db, turns, proc, signed, local>>, tab'[t].pc # "append",
             \A u \in Tabs : u # t => tab'[u] = tab[u]
      PROVE  AnswersInv'
  <2>1. \A u \in Tabs : tab'[u].pc = "append" => tab'[u] = tab[u] /\ Up(tab[u].at)'
    BY <1>2 DEF AnswersInv, Up
  <2> QED
    BY <1>2, <2>1, AnswersQuiet DEF Live
<1>3. ASSUME NEW p \in Processes, Stop(p) PROVE AnswersInv'
  <2>1. UNCHANGED <<db, turns, signed, local>>
    BY <1>3 DEF Stop
  <2>2. \A t \in Tabs : tab'[t].pc = "append" =>
          tab'[t] = tab[t] /\ Up(tab[t].at)' /\ proc'[tab[t].at] = proc[tab[t].at]
    <3> SUFFICES ASSUME NEW t \in Tabs, tab'[t].pc = "append"
                 PROVE  tab'[t] = tab[t] /\ Up(tab[t].at)' /\ proc'[tab[t].at] = proc[tab[t].at]
      OBVIOUS
    <3>1. tab'[t] = tab[t] /\ tab[t].at # p
      BY <1>3, StopTypes
    <3>2. tab[t].at \in Processes /\ Up(tab[t].at)
      BY <3>1, TabTyped DEF AnswersInv
    <3>3. proc'[tab[t].at] = proc[tab[t].at]
      BY <1>3, <3>1, <3>2, StopTypes
    <3> QED
      BY <3>1, <3>2, <3>3 DEF Up
  <2> QED
    BY <2>1, <2>2, AnswersQuiet DEF Live
<1>4. ASSUME NEW s \in Sessions, DeleteSession(s) PROVE AnswersInv'
  <2>1. UNCHANGED <<db, proc, tab, signed, local>>
    BY <1>4 DEF DeleteSession
  <2>2. \A x \in Sessions : Live(x)' => turns'[x] = turns[x]
    BY <1>4, DeleteTypes
  <2>3. \A u \in Tabs : tab'[u].pc = "append" => tab'[u] = tab[u] /\ Up(tab[u].at)'
    BY <2>1 DEF AnswersInv, Up
  <2> QED
    BY <2>1, <2>2, <2>3, AnswersQuiet
<1>5. ASSUME NEW t \in Tabs, NEW p \in Processes, Answer(t, p) PROVE AnswersInv'
  <2>1. proc[p].key # Unkeyed /\ Up(p)
    BY <1>5 DEF Answer, TabAt, ChatKeysInv
  <2>2. /\ tab'[t].at = p /\ tab'[t].shown = Append(tab[t].shown, Len(signed) + 1)
        /\ signed' = Append(signed, proc[p].key) /\ \A u \in Tabs : u # t => tab'[u] = tab[u]
    BY <1>5, <2>1, AnswerTypes
  <2>3. UNCHANGED <<db, turns, proc, local>>
    BY <1>5 DEF Answer
  <2>4. \A a \in 1..Len(signed) : a \in 1..Len(signed') /\ signed'[a] = signed[a]
    BY <2>2 DEF ChatTypeOK
  <2>5. tab'[t].shown # <<>> /\ Latest(t)' = Len(signed) + 1 /\ Len(signed) + 1 \in 1..Len(signed')
        /\ signed'[Len(signed) + 1] = proc[p].key
    <3>1. tab[t].shown \in Seq(Nat) /\ Len(signed) \in Nat /\ signed \in Seq(1..MaxHistoryKeys)
      BY TabTyped DEF ChatTypeOK
    <3>2. tab'[t].shown # <<>> /\ Latest(t)' = Len(signed) + 1
      BY <2>2, <3>1 DEF Latest
    <3>3. proc[p].key \in Nat
      BY DEF ChatTypeOK, Dashboard
    <3> QED
      BY <2>2, <3>1, <3>2, <3>3
  <2>6. \A s \in Sessions : Live(s)' => \A i \in 1..Len(turns'[s]) : SignedBy(turns[s][i], {db.key} \union local)'
    BY <2>3, <2>4 DEF AnswersInv, Live, SignedBy
  <2>7. SignedBy(Latest(t), {proc[tab[t].at].key})' /\ Up(tab[t].at)'
    BY <2>1, <2>2, <2>3, <2>5 DEF SignedBy, Up
  <2>8. \A u \in Tabs : u # t /\ tab'[u].pc = "append" =>
          tab'[u].shown # <<>> /\ Up(tab[u].at)' /\ SignedBy(Latest(u), {proc[tab[u].at].key})'
    BY <2>2, <2>3, <2>4 DEF AnswersInv, SignedBy, Latest, Up
  <2> QED
    BY <2>5, <2>6, <2>7, <2>8 DEF AnswersInv
<1>6. ASSUME NEW t \in Tabs, NEW p \in Processes, AppendTurn(t, p) PROVE AnswersInv'
  <2>1. tab[t].shown # <<>> /\ tab[t].pc = "append" /\ tab[t].at = p /\ Up(p)
    BY <1>6 DEF AppendTurn, TabAt, AnswersInv
  <2>2. PICK s \in Sessions : /\ Live(s) \/ turns[s] = Unused
                              /\ turns' = [turns EXCEPT ![s] = Append(IF Live(s) THEN turns[s] ELSE <<>>, Latest(t))]
    BY <1>6, <2>1, AppendTypes DEF Latest
  <2>3. UNCHANGED <<db, proc, signed, local>>
    BY <1>6 DEF AppendTurn
  <2>4. tab'[t].pc = "idle" /\ \A u \in Tabs : u # t => tab'[u] = tab[u]
    BY <1>6, <2>1, AppendTypes
  <2>5. SignedBy(Latest(t), {db.key} \union local)
    BY <2>1 DEF AnswersInv, ChatKeysInv, SignedBy
  <2>6. \A i \in 1..Len(turns'[s]) : SignedBy(turns'[s][i], {db.key} \union local)
    <3> DEFINE q == IF Live(s) THEN turns[s] ELSE <<>>
    <3>1. q \in Seq(Nat) /\ \A i \in 1..Len(q) : SignedBy(q[i], {db.key} \union local)
      <4>1. CASE Live(s)
        BY <4>1 DEF ChatTypeOK, AnswersInv
      <4>2. CASE ~Live(s)
        BY <4>2, EmptySeq
      <4> QED
        BY <4>1, <4>2
    <3>2. Latest(t) \in Nat
      BY <2>5 DEF SignedBy, ChatTypeOK
    <3>3. turns'[s] = Append(q, Latest(t))
      BY <2>2 DEF ChatTypeOK
    <3> HIDE DEF q
    <3>4. /\ Len(turns'[s]) = Len(q) + 1 /\ Len(q) \in Nat /\ turns'[s][Len(q) + 1] = Latest(t)
          /\ \A i \in 1..Len(q) : turns'[s][i] = q[i]
      BY <3>1, <3>2, <3>3, AppendProperties, LenProperties
    <3> SUFFICES ASSUME NEW i \in 1..Len(turns'[s]) PROVE SignedBy(turns'[s][i], {db.key} \union local)
      OBVIOUS
    <3>5. i \in 1..Len(q) \/ i = Len(q) + 1
      BY <3>4
    <3> QED
      BY <2>5, <3>1, <3>4, <3>5
  <2>7. \A x \in Sessions : Live(x)' => \A i \in 1..Len(turns'[x]) : SignedBy(turns[x][i], {db.key} \union local)'
    <3>1. \A x \in Sessions : x # s => turns'[x] = turns[x]
      BY <2>2 DEF ChatTypeOK
    <3> QED
      BY <2>3, <2>6, <3>1 DEF AnswersInv, Live, SignedBy
  <2>8. \A u \in Tabs : tab'[u].pc = "append" =>
          tab'[u].shown # <<>> /\ Up(tab[u].at)' /\ SignedBy(Latest(u), {proc[tab[u].at].key})'
    BY <2>3, <2>4 DEF AnswersInv, SignedBy, Latest, Up
  <2> QED
    BY <2>7, <2>8 DEF AnswersInv
<1>7. ASSUME NEW t \in Tabs, NEW p \in Processes,
             \/ NoAnswer(t, p) \/ NotPersisted(t, p) \/ Restore(t, p)
             \/ Ask(t, p) \/ ReadSession(t, p) \/ ReadMessages(t, p) \/ ReadCalls(t, p)
      PROVE  AnswersInv'
  <2>1. UNCHANGED <<db, turns, proc, signed, local>>
    BY <1>7 DEF NoAnswer, NotPersisted, Restore, Ask, ReadSession, ReadMessages, ReadCalls
  <2>2. tab'[t].pc # "append" /\ \A u \in Tabs : u # t => tab'[u] = tab[u]
    BY <1>7, QuietTypes, AskTypes, ReadTypes
  <2> QED
    BY <1>2, <2>1, <2>2
<1>8. ASSUME NEW t \in Tabs, NewChat(t) PROVE AnswersInv'
  <2>1. UNCHANGED <<db, turns, proc, signed, local>> /\ tab' = [tab EXCEPT ![t] = NewTab]
    BY <1>8 DEF NewChat, Set
  <2>2. tab'[t].pc # "append" /\ \A u \in Tabs : u # t => tab'[u] = tab[u]
    BY <2>1 DEF ChatTypeOK, NewTab
  <2> QED
    BY <1>2, <2>1, <2>2
<1> QED
  BY <1>1, <1>3, <1>4, <1>5, <1>6, <1>7, <1>8, AnswersOfProcs DEF ChatsNext

Inv == ChatTypeOK /\ ChatKeysInv /\ AnswersInv

LEMMA InitInv == ASSUME SomeKeys, ChatsInit PROVE Inv
BY ChatInitTypes, ChatInitKeys, InitAnswers DEF Inv

LEMMA NextInv == ASSUME SomeKeys, Inv, [ChatsNext]_chatVars PROVE Inv'
<1>1. ChatTypeOK'
  BY ChatNextTypes DEF Inv, ChatKeysInv, AnswersInv
<1> QED
  BY <1>1, KeysInvariant, AnswersInvariant DEF Inv

\* Every variable keeps the type the code gives it (chatstore/store.go).
THEOREM ChatsTyped == ASSUME SomeKeys PROVE ChatsSpec => []ChatTypeOK
<1>1. ChatsInit => Inv
  BY InitInv
<1>2. Inv /\ [ChatsNext]_chatVars => Inv'
  BY NextInv
<1>3. Inv => ChatTypeOK
  BY DEF Inv
<1> QED
  BY <1>1, <1>2, <1>3, PTL DEF ChatsSpec

\* A stored conversation can be continued in every dashboard that could read
\* the stored key, whichever were started at the same time, stopped and
\* upgraded (Store.HistoryKey: the first key that is inserted is used by all).
\* Excepted are answers of a dashboard that could not read it, which it signed
\* with a key that dies with it.
THEOREM EveryHistoryVerifies == ASSUME SomeKeys PROVE ChatsSpec => []HistoryVerifies
<1>1. ChatsInit => Inv
  BY InitInv
<1>2. Inv /\ [ChatsNext]_chatVars => Inv'
  BY NextInv
<1>3. Inv => HistoryVerifies
  <2> SUFFICES ASSUME Inv, NEW p \in Processes, NEW s \in Sessions, Up(p), proc[p].key \notin local, Live(s),
                      NEW i \in DOMAIN turns[s]
               PROVE  signed[turns[s][i]] \in {proc[p].key} \union local
    BY DEF HistoryVerifies
  <2>1. proc[p].key = db.key
    BY DEF Inv, ChatKeysInv
  <2>2. i \in 1..Len(turns[s])
    BY DEF Inv, ChatTypeOK
  <2> QED
    BY <2>1, <2>2 DEF Inv, AnswersInv, SignedBy
<1> QED
  BY <1>1, <1>2, <1>3, PTL DEF ChatsSpec

---------------------------------------------------------------------------
(* Restoring                                                               *)

Begins(q, r) == Len(q) <= Len(r) /\ \A i \in 1..Len(q) : r[i] = q[i]

ReadSoFar(t) ==
  /\ turns[tab[t].session] # Unused
  /\ Live(tab[t].session) =>
       /\ tab[t].pc = "messages" => tab[t].count <= Len(turns[tab[t].session])
       /\ tab[t].pc # "messages" => /\ tab[t].count <= Len(tab[t].shown)
                                    /\ Begins(tab[t].shown, turns[tab[t].session])
       /\ tab[t].pc = "restored" => tab[t].calls = Among(tab[t].shown)

RestoreInv == \A t \in Tabs : tab[t].pc \in {"messages", "calls", "restored"} => ReadSoFar(t)

\* What was read of a session stays the beginning of it.
LEMMA ReadersKept ==
  ASSUME SomeKeys, Inv, Inv', RestoreInv, [ChatsNext]_chatVars, NEW t \in Tabs, tab'[t] = tab[t],
         tab[t].pc \in {"messages", "calls", "restored"}
  PROVE  ReadSoFar(t)'
<1> DEFINE s == tab[t].session
<1>1. s \in Sessions /\ tab[t].count \in Nat /\ tab[t].shown \in Seq(Nat)
  BY TabTyped DEF Inv, ReadingTabs, RestoredTabs
<1>2. KeptTurns(s)
  BY <1>1, SessionsGrow DEF Inv, AnswersInv
<1>3. turns[s] # Unused
  BY DEF RestoreInv, ReadSoFar
<1>4. turns[s] \in Seq(Int) /\ turns'[s] \in Seq(Int)
  BY <1>1 DEF Inv, ChatTypeOK
<1> SUFFICES ASSUME Live(s)'
             PROVE  /\ tab[t].pc = "messages" => tab[t].count <= Len(turns'[s])
                    /\ tab[t].pc # "messages" => /\ tab[t].count <= Len(tab[t].shown)
                                                 /\ Begins(tab[t].shown, turns'[s])
                    /\ tab[t].pc = "restored" => tab[t].calls = Among(tab[t].shown)
  <2>1. turns'[s] # Unused
    BY <1>2, <1>3 DEF KeptTurns
  <2>2. Live(s)' <=> Live(tab[t].session)'
    BY DEF Live
  <2> QED
    BY <2>1, <2>2 DEF ReadSoFar, Begins, Among
<1>5. Live(s) /\ Len(turns[s]) <= Len(turns'[s]) /\ \A i \in 1..Len(turns[s]) : turns'[s][i] = turns[s][i]
  BY <1>2, <1>3 DEF KeptTurns, Live
<1>6. Len(turns[s]) \in Nat /\ Len(turns'[s]) \in Nat /\ Len(tab[t].shown) \in Nat
  BY <1>1, <1>4, LenProperties
<1>7. /\ tab[t].pc = "messages" => tab[t].count <= Len(turns[s])
      /\ tab[t].pc # "messages" => tab[t].count <= Len(tab[t].shown) /\ Begins(tab[t].shown, turns[s])
      /\ tab[t].pc = "restored" => tab[t].calls = Among(tab[t].shown)
  BY <1>5 DEF RestoreInv, ReadSoFar
<1>8. Begins(tab[t].shown, turns[s]) => Begins(tab[t].shown, turns'[s])
  BY <1>5, <1>6, SMTT(30) DEF Begins
<1> QED
  BY <1>1, <1>5, <1>6, <1>7, <1>8

LEMMA RestoreInvariant ==
  ASSUME SomeKeys, Inv, Inv', RestoreInv, [ChatsNext]_chatVars
  PROVE  RestoreInv'
<1>1. ASSUME NEW t \in Tabs, ReadSoFar(t)',
             \A u \in Tabs : u # t /\ tab'[u].pc \in {"messages", "calls", "restored"} => tab'[u] = tab[u]
      PROVE  RestoreInv'
  BY <1>1, ReadersKept DEF RestoreInv
<1>2. ASSUME \A u \in Tabs : tab'[u].pc \in {"messages", "calls", "restored"} => tab'[u] = tab[u]
      PROVE  RestoreInv'
  BY <1>2, ReadersKept DEF RestoreInv
<1>3. ASSUME NEW t \in Tabs, NEW p \in Processes, ReadSession(t, p) PROVE RestoreInv'
  <2>1. PICK s \in Sessions :
          /\ Live(s)
          /\ tab' = [tab EXCEPT ![t] = [pc |-> "messages", at |-> p, session |-> s, shown |-> <<>>, count |-> Len(turns[s])]]
    BY <1>3 DEF ReadSession, Set
  <2>2. tab'[t] = [pc |-> "messages", at |-> p, session |-> s, shown |-> <<>>, count |-> Len(turns[s])]
        /\ \A u \in Tabs : u # t => tab'[u] = tab[u]
    BY <2>1 DEF Inv, ChatTypeOK
  <2>3. turns' = turns /\ turns[s] # Unused /\ Len(turns[s]) \in Nat
    BY <1>3, <2>1, LenProperties DEF ReadSession, Live, Inv, ChatTypeOK
  <2>4. tab'[t].pc = "messages" /\ tab'[t].session = s /\ tab'[t].count = Len(turns[s])
    BY <2>2
  <2>5. ReadSoFar(t)'
    BY <2>3, <2>4 DEF ReadSoFar
  <2> QED
    BY <1>1, <2>2, <2>5
<1>4. ASSUME NEW t \in Tabs, NEW p \in Processes, ReadMessages(t, p) PROVE RestoreInv'
  <2>1. tab[t].pc = "messages" /\ tab[t] \in ReadingTabs
    BY <1>4, TabTyped DEF ReadMessages, TabAt, Inv
  <2> DEFINE s == tab[t].session
  <2>2. tab'[t] = [pc |-> "calls", at |-> p, session |-> s, shown |-> Rows(s), count |-> tab[t].count]
        /\ \A u \in Tabs : u # t => tab'[u] = tab[u]
    BY <1>4 DEF ReadMessages, Set, Inv, ChatTypeOK
  <2>3. turns' = turns /\ s \in Sessions /\ turns[s] # Unused
    BY <1>4, <2>1 DEF ReadMessages, ReadingTabs, RestoreInv, ReadSoFar
  <2>4. Live(s) => tab[t].count <= Len(Rows(s)) /\ Begins(Rows(s), turns[s])
    <3>1. Len(turns[s]) \in Nat
      BY <2>3, LenProperties DEF Inv, ChatTypeOK
    <3> QED
      BY <2>1, <3>1 DEF RestoreInv, ReadSoFar, Rows, Begins
  <2> HIDE DEF s
  <2>5. tab'[t].pc = "calls" /\ tab'[t].session = s /\ tab'[t].count = tab[t].count /\ tab'[t].shown = Rows(s)
    BY <2>2
  <2>6. Live(tab[t].session)' => Live(s)
    BY <2>3, <2>5 DEF Live
  <2>7. ReadSoFar(t)'
    BY <2>3, <2>4, <2>5, <2>6 DEF ReadSoFar, Begins
  <2> QED
    BY <1>1, <2>2, <2>7
<1>5. ASSUME NEW t \in Tabs, NEW p \in Processes, ReadCalls(t, p) PROVE RestoreInv'
  <2>1. tab[t].pc = "calls" /\ tab[t] \in ReadingTabs
    BY <1>5, TabTyped DEF ReadCalls, TabAt, Inv
  <2> DEFINE s == tab[t].session
             c == Attached(tab[t].shown, Rows(s))
  <2>2. tab'[t] = [pc |-> "restored", at |-> p, session |-> s, shown |-> tab[t].shown, count |-> tab[t].count,
                   calls |-> c]
        /\ \A u \in Tabs : u # t => tab'[u] = tab[u]
    BY <1>5 DEF ReadCalls, Set, Inv, ChatTypeOK
  <2>3. turns' = turns /\ s \in Sessions /\ turns[s] # Unused
    BY <1>5, <2>1 DEF ReadCalls, ReadingTabs, RestoreInv, ReadSoFar
  <2>4. Live(s) => tab[t].count <= Len(tab[t].shown) /\ Begins(tab[t].shown, turns[s])
    BY <2>1 DEF RestoreInv, ReadSoFar
  <2>5. Live(s) => c = Among(tab[t].shown)
    <3> SUFFICES ASSUME Live(s) PROVE Among(tab[t].shown) \subseteq Among(turns[s])
      BY DEF Attached, Rows
    <3>1. /\ tab[t].shown \in Seq(Nat) /\ turns[s] \in Seq(Int)
          /\ Len(turns[s]) \in Nat /\ Len(tab[t].shown) \in Nat
      BY <2>1, <2>3, LenProperties DEF ReadingTabs, Inv, ChatTypeOK
    <3>2. DOMAIN tab[t].shown = 1..Len(tab[t].shown) /\ DOMAIN turns[s] = 1..Len(turns[s])
      BY <3>1, LenProperties
    <3>3. \A i \in DOMAIN tab[t].shown : i \in DOMAIN turns[s] /\ turns[s][i] = tab[t].shown[i]
      <4> DEFINE q == tab[t].shown
                 r == turns[s]
      <4>1. Len(q) <= Len(r) /\ \A i \in 1..Len(q) : r[i] = q[i]
        BY <2>4, Zenon DEF Begins
      <4>2. Len(q) \in Nat /\ Len(r) \in Nat /\ DOMAIN q = 1..Len(q) /\ DOMAIN r = 1..Len(r)
        BY <3>1, <3>2
      <4> HIDE DEF q, r
      <4>3. \A i \in DOMAIN q : i \in DOMAIN r /\ r[i] = q[i]
        BY <4>1, <4>2
      <4> QED
        BY <4>3 DEF q, r
    <3> QED
      BY <3>3 DEF Among
  <2> HIDE DEF s, c
  <2>6. tab'[t].pc = "restored" /\ tab'[t].session = s /\ tab'[t].count = tab[t].count
        /\ tab'[t].shown = tab[t].shown /\ tab'[t].calls = c
    BY <2>2
  <2>7. Live(tab[t].session)' => Live(s)
    BY <2>3, <2>6 DEF Live
  <2>8. ReadSoFar(t)'
    BY <2>3, <2>4, <2>5, <2>6, <2>7 DEF ReadSoFar, Begins, Among
  <2> QED
    BY <1>1, <2>2, <2>8
<1>6. ASSUME NEW t \in Tabs, tab'[t].pc \in {"idle", "asked", "append"}, \A u \in Tabs : u # t => tab'[u] = tab[u]
      PROVE  RestoreInv'
  BY <1>2, <1>6
<1>7. ASSUME NEW t \in Tabs, NEW p \in Processes,
             \/ Ask(t, p) \/ Answer(t, p) \/ NoAnswer(t, p) \/ AppendTurn(t, p) \/ NotPersisted(t, p) \/ Restore(t, p)
      PROVE  RestoreInv'
  <2>1. Answer(t, p) => proc[p].key # Unkeyed
    BY DEF Answer, TabAt, Inv, ChatKeysInv
  <2>2. AppendTurn(t, p) => tab[t].shown # <<>>
    BY DEF AppendTurn, TabAt, Inv, AnswersInv
  <2>3. tab'[t].pc \in {"idle", "asked", "append"} /\ \A u \in Tabs : u # t => tab'[u] = tab[u]
    BY <1>7, <2>1, <2>2, AskTypes, AnswerTypes, QuietTypes, AppendTypes DEF Inv
  <2> QED
    BY <1>6, <2>3
<1>8. ASSUME NEW t \in Tabs, NewChat(t) PROVE RestoreInv'
  <2>1. tab' = [tab EXCEPT ![t] = NewTab]
    BY <1>8 DEF NewChat, Set
  <2>2. tab'[t].pc = "idle" /\ \A u \in Tabs : u # t => tab'[u] = tab[u]
    BY <2>1 DEF Inv, ChatTypeOK, NewTab
  <2> QED
    BY <1>6, <2>2
<1>9. ASSUME NEW p \in Processes, Stop(p) PROVE RestoreInv'
  BY <1>2, <1>9, StopTypes DEF Inv
<1>10. CASE UNCHANGED tab
  BY <1>2, <1>10
<1> QED
  BY <1>3, <1>4, <1>5, <1>7, <1>8, <1>9, <1>10, ZenonT(60)
     DEF ChatsNext, chatVars, Start, ReadKey, InsertKey, ReloadKey, KeyFails, DeleteSession

LEMMA InitRestore == ASSUME ChatsInit PROVE RestoreInv
BY DEF ChatsInit, NewTab, RestoreInv

\* A session that is restored while other tabs append to it, or it is deleted,
\* shows every answer it has with its tool calls, at least as many turns as its
\* totals count, and they begin the stored ones (Store.GetSession reads the
\* session, its messages and their calls one after the other).
THEOREM RestoresAreWhole == ASSUME SomeKeys PROVE ChatsSpec => []RestoredWhole
<1>1. ChatsInit => Inv /\ RestoreInv
  BY InitInv, InitRestore
<1>2. Inv /\ RestoreInv /\ [ChatsNext]_chatVars => (Inv /\ RestoreInv)'
  BY NextInv, RestoreInvariant
<1>3. Inv /\ RestoreInv => RestoredWhole
  <2> SUFFICES ASSUME Inv, RestoreInv, NEW t \in Tabs, tab[t].pc = "restored", Live(tab[t].session)
               PROVE  /\ tab[t].calls = Among(tab[t].shown) /\ tab[t].count <= Len(tab[t].shown)
                      /\ \A i \in DOMAIN tab[t].shown : turns[tab[t].session][i] = tab[t].shown[i]
    BY DEF RestoredWhole
  <2>1. DOMAIN tab[t].shown = 1..Len(tab[t].shown)
    BY TabTyped, LenProperties DEF Inv
  <2> QED
    BY <2>1 DEF RestoreInv, ReadSoFar, Begins
<1> QED
  BY <1>1, <1>2, <1>3, PTL DEF ChatsSpec

-----------------------------------------------------------------------------
(* THE LOGIN OF KIMI CODE                                                  *)

Stages == {"idle", "wait", "stale", "reread", "ask", "rejected", "refused", "mark", "store", "release"}
AnyAgent == [pc : Stages, token : Nat, knew : Int, got : Nat]

LoginTyped ==
  /\ issued \in Nat \ {0} /\ accepted \subseteq 1..issued
  /\ credential \in {Missing, Revoked} \union 1..issued
  /\ agent \in [Refreshers -> AnyAgent]
  /\ \A a \in Refreshers :
       /\ agent[a].pc # "idle" => agent[a].token \in 1..issued
       /\ agent[a].pc = "store" => agent[a].got \in 1..issued
  /\ lock \in [by : Refreshers \union {""}, stale : BOOLEAN]
  /\ lock.by = "" => lock = Nobody
  /\ paused \subseteq Refreshers /\ robbed \in BOOLEAN /\ due \in Nat

\* Who works on the refresh holds the lock ...
Held == \A a \in Refreshers : Working(a) => lock.by = a

\* ... and so nobody else has changed the file since it was read again: what is
\* in it, if it can be read, is the credential that is being refreshed.  It is
\* overwritten only when the server takes it no longer.
InStep ==
  \A a \in Refreshers :
    /\ agent[a].pc \in {"ask", "rejected", "refused"} => (Readable => credential = agent[a].token)
    /\ agent[a].pc = "rejected" => agent[a].token \notin accepted
    /\ agent[a].pc \in {"mark", "store"} => credential \notin accepted

KeptOrLost == \A n \in accepted : n = credential \/ Underway(n)

LoginInv == LoginTyped /\ (~robbed => Held /\ InStep /\ KeptOrLost)

LEMMA LoginInitInv == ASSUME LoginInit PROVE LoginInv
<1>1. issued = 1 /\ credential = 1 /\ accepted = {1} /\ 1 \in Nat \ {0} /\ {1} \subseteq 1..1 /\ 1 \in 1..1
  BY DEF LoginInit
<1>2. Resting \in AnyAgent /\ Resting.pc = "idle"
  BY DEF Resting, AnyAgent, Stages
<1>3. agent \in [Refreshers -> AnyAgent] /\ \A a \in Refreshers : agent[a].pc = "idle"
  BY <1>2 DEF LoginInit
<1>4. LoginTyped
  BY <1>1, <1>3 DEF LoginInit, LoginTyped, Nobody
<1>5. Held /\ InStep /\ KeptOrLost
  BY <1>1, <1>3 DEF Held, InStep, KeptOrLost, Working
<1> QED BY <1>4, <1>5 DEF LoginInv

LEMMA NumbersTyped ==
  ASSUME LoginTyped
  PROVE  /\ Readable => credential \in 1..issued /\ credential \in Nat
         /\ ~Readable => credential \notin accepted
         /\ issued + 1 \in Nat \ {0} /\ issued + 1 \in 1..(issued + 1) /\ 1..issued \subseteq 1..(issued + 1)
         /\ issued + 1 \notin accepted /\ credential # issued + 1 /\ Missing \notin accepted
<1>1. issued \in Nat \ {0} /\ accepted \subseteq 1..issued /\ credential \in {0, -1} \union 1..issued
  BY DEF LoginTyped, Missing, Revoked
<1>2. Readable <=> credential \notin {0, -1}
  BY DEF Readable, Missing, Revoked
<1>3. \A n \in accepted : n >= 1 /\ n <= issued /\ n \in Nat
  BY <1>1
<1> QED BY <1>1, <1>2, <1>3 DEF Missing

\* A refresher that goes on to another stage and keeps what it knows.
LEMMA StageTyped ==
  ASSUME LoginTyped, NEW a \in Refreshers, NEW pc \in Stages, Turns(a, pc)
  PROVE  /\ agent' \in [Refreshers -> AnyAgent]
         /\ agent'[a].pc = pc /\ agent'[a].token = agent[a].token
         /\ agent'[a].knew = agent[a].knew /\ agent'[a].got = agent[a].got
         /\ \A b \in Refreshers : b # a => agent'[b] = agent[b]
BY DEF LoginTyped, Turns, AnyAgent

\* How the lock is taken, looked at, taken over and given back.
LEMMA LockSteps ==
  ASSUME LoginInv, NEW a \in Refreshers,
         TakeLock(a) \/ FindStale(a) \/ RemoveStale(a) \/ GiveUpLock(a) \/ Release(a)
  PROVE  LoginInv'
<1> USE DEF Runs
<1>t. LoginTyped BY DEF LoginInv
<1>1. CASE TakeLock(a)
  <2>1. Turns(a, "reread") BY <1>1 DEF TakeLock
  <2>2. agent'[a].pc = "reread" /\ agent'[a].token = agent[a].token /\ agent[a].pc = "wait"
        /\ agent' \in [Refreshers -> AnyAgent]
        /\ \A b \in Refreshers : b # a => agent'[b] = agent[b]
    BY <1>1, <2>1, <1>t, StageTyped DEF TakeLock, Stages
  <2>3. LoginTyped'
    BY <1>1, <1>t, <2>2, LoginAssumption DEF TakeLock, LoginTyped
  <2>4. ASSUME ~robbed PROVE ~\E b \in Refreshers : Working(b)
    BY <2>4, <1>1, LoginAssumption DEF LoginInv, Held, TakeLock, Nobody
  <2>5. ASSUME ~robbed' PROVE Held' /\ InStep' /\ KeptOrLost'
    BY <2>5, <2>2, <2>4, <1>1 DEF TakeLock, LoginInv, Held, InStep, KeptOrLost, Working, Readable, Underway
  <2> QED BY <2>3, <2>5 DEF LoginInv
<1>2. CASE FindStale(a)
  <2>2. agent'[a].pc = "stale" /\ agent'[a].token = agent[a].token /\ agent[a].pc = "wait"
        /\ agent' \in [Refreshers -> AnyAgent]
        /\ \A b \in Refreshers : b # a => agent'[b] = agent[b]
    BY <1>2, <1>t, StageTyped DEF FindStale, Stages
  <2>3. LoginTyped'
    BY <1>2, <1>t, <2>2 DEF FindStale, LoginTyped
  <2>5. ASSUME ~robbed' PROVE Held' /\ InStep' /\ KeptOrLost'
    BY <2>5, <2>2, <1>2 DEF FindStale, LoginInv, Held, InStep, KeptOrLost, Working, Readable, Underway
  <2> QED BY <2>3, <2>5 DEF LoginInv
<1>3. CASE RemoveStale(a)
  <2>2. agent'[a].pc = "wait" /\ agent'[a].token = agent[a].token /\ agent[a].pc = "stale"
        /\ agent' \in [Refreshers -> AnyAgent]
        /\ \A b \in Refreshers : b # a => agent'[b] = agent[b]
    BY <1>3, <1>t, StageTyped DEF RemoveStale, Stages
  <2>3. LoginTyped'
    BY <1>3, <1>t, <2>2 DEF RemoveStale, LoginTyped, Nobody
  <2>4. ASSUME ~robbed' PROVE ~robbed /\ ~\E b \in Refreshers : Working(b)
    BY <2>4, <1>3 DEF LoginInv, Held, RemoveStale
  <2>5. ASSUME ~robbed' PROVE Held' /\ InStep' /\ KeptOrLost'
    BY <2>5, <2>2, <2>4, <1>3 DEF RemoveStale, LoginInv, Held, InStep, KeptOrLost, Working, Readable, Underway
  <2> QED BY <2>3, <2>5 DEF LoginInv
<1>4. CASE GiveUpLock(a)
  <2>2. agent'[a].pc = "idle" /\ agent'[a].token = agent[a].token /\ agent[a].pc \in {"wait", "stale"}
        /\ agent' \in [Refreshers -> AnyAgent]
        /\ \A b \in Refreshers : b # a => agent'[b] = agent[b]
    BY <1>4, <1>t, StageTyped DEF GiveUpLock, Stages
  <2>3. LoginTyped'
    BY <1>4, <1>t, <2>2 DEF GiveUpLock, LoginTyped
  <2>5. ASSUME ~robbed' PROVE Held' /\ InStep' /\ KeptOrLost'
    BY <2>5, <2>2, <1>4 DEF GiveUpLock, LoginInv, Held, InStep, KeptOrLost, Working, Readable, Underway
  <2> QED BY <2>3, <2>5 DEF LoginInv
<1>5. CASE Release(a)
  <2>2. agent'[a].pc = "idle" /\ agent'[a].token = agent[a].token /\ agent[a].pc = "release"
        /\ agent' \in [Refreshers -> AnyAgent]
        /\ \A b \in Refreshers : b # a => agent'[b] = agent[b]
    BY <1>5, <1>t, StageTyped DEF Release, Stages
  <2>3. LoginTyped'
    BY <1>5, <1>t, <2>2 DEF Release, LoginTyped, Nobody
  <2>4. ASSUME ~robbed' PROVE ~robbed /\ ~\E b \in Refreshers : b # a /\ Working(b)
    BY <2>4, <1>5 DEF LoginInv, Held, Release
  <2>5. ASSUME ~robbed' PROVE Held' /\ InStep' /\ KeptOrLost'
    BY <2>5, <2>2, <2>4, <1>5 DEF Release, LoginInv, Held, InStep, KeptOrLost, Working, Readable, Underway
  <2> QED BY <2>3, <2>5 DEF LoginInv
<1> QED BY <1>1, <1>2, <1>3, <1>4, <1>5

\* What a refresher asks, reads and writes without changing the file for the worse.
LEMMA AskSteps ==
  ASSUME LoginInv, NEW a \in Refreshers,
         Rejected(a) \/ RefusedToken(a) \/ AskFails(a) \/ Recover(a) \/ Mark(a) \/ Store(a) \/ WriteFails(a)
  PROVE  LoginInv'
<1> USE DEF Runs
<1>t. LoginTyped BY DEF LoginInv
<1>1. CASE Rejected(a)
  <2>2. /\ agent'[a].pc = "rejected" /\ agent'[a].token = agent[a].token /\ agent[a].pc = "ask"
        /\ agent'[a].got = agent[a].got
        /\ agent' \in [Refreshers -> AnyAgent]
        /\ \A b \in Refreshers : b # a => agent'[b] = agent[b]
    BY <1>1, <1>t, StageTyped DEF Rejected, Stages
  <2>3. LoginTyped'
    BY <1>1, <1>t, <2>2 DEF Rejected, LoginTyped
  <2>5. ASSUME ~robbed' PROVE Held' /\ InStep' /\ KeptOrLost'
    BY <2>5, <2>2, <1>1 DEF Rejected, LoginInv, Held, InStep, KeptOrLost, Working, Readable, Underway
  <2> QED BY <2>3, <2>5 DEF LoginInv
<1>2. CASE RefusedToken(a)
  <2>2. /\ agent'[a].pc = "refused" /\ agent'[a].token = agent[a].token /\ agent[a].pc = "ask"
        /\ agent'[a].got = agent[a].got
        /\ agent' \in [Refreshers -> AnyAgent]
        /\ \A b \in Refreshers : b # a => agent'[b] = agent[b]
    BY <1>2, <1>t, StageTyped DEF RefusedToken, Stages
  <2>3. LoginTyped'
    BY <1>2, <1>t, <2>2 DEF RefusedToken, LoginTyped
  <2>5. ASSUME ~robbed' PROVE Held' /\ InStep' /\ KeptOrLost'
    BY <2>5, <2>2, <1>2 DEF RefusedToken, LoginInv, Held, InStep, KeptOrLost, Working, Readable, Underway
  <2> QED BY <2>3, <2>5 DEF LoginInv
<1>3. CASE AskFails(a)
  <2>2. /\ agent'[a].pc = "release" /\ agent'[a].token = agent[a].token /\ agent[a].pc = "ask"
        /\ agent'[a].got = agent[a].got
        /\ agent' \in [Refreshers -> AnyAgent]
        /\ \A b \in Refreshers : b # a => agent'[b] = agent[b]
    BY <1>3, <1>t, StageTyped DEF AskFails, Stages
  <2>3. LoginTyped'
    BY <1>3, <1>t, <2>2 DEF AskFails, LoginTyped
  <2>5. ASSUME ~robbed' PROVE Held' /\ InStep' /\ KeptOrLost'
    BY <2>5, <2>2, <1>3 DEF AskFails, LoginInv, Held, InStep, KeptOrLost, Working, Readable, Underway
  <2> QED BY <2>3, <2>5 DEF LoginInv
<1>4. CASE Recover(a)
  <2>1. \/ Turns(a, "release")
        \/ Turns(a, "mark") /\ agent[a].pc = "rejected" /\ (Readable => credential = agent[a].token)
    BY <1>4 DEF Recover
  <2>2. /\ agent'[a].pc \in {"mark", "release"} /\ agent'[a].token = agent[a].token
        /\ agent'[a].got = agent[a].got
        /\ agent' \in [Refreshers -> AnyAgent]
        /\ \A b \in Refreshers : b # a => agent'[b] = agent[b]
        /\ agent'[a].pc = "mark" => agent[a].pc = "rejected"
    BY <2>1, <1>t, StageTyped DEF Stages
  <2>f. agent[a].pc \in {"rejected", "refused"}
    BY <1>4 DEF Recover
  <2>3. LoginTyped'
    BY <1>4, <1>t, <2>2, <2>f DEF Recover, LoginTyped
  <2>4. ASSUME ~robbed, agent'[a].pc = "mark" PROVE credential \notin accepted
    BY <2>4, <2>2, <1>t, NumbersTyped DEF LoginInv, InStep
  <2>5. ASSUME ~robbed' PROVE Held' /\ InStep' /\ KeptOrLost'
    BY <2>5, <2>2, <2>4, <2>f, <1>4 DEF Recover, LoginInv, Held, InStep, KeptOrLost, Working, Readable, Underway
  <2> QED BY <2>3, <2>5 DEF LoginInv
<1>5. CASE Mark(a)
  <2>2. /\ agent'[a].pc = "release" /\ agent'[a].token = agent[a].token /\ agent[a].pc = "mark"
        /\ agent'[a].got = agent[a].got
        /\ agent' \in [Refreshers -> AnyAgent]
        /\ \A b \in Refreshers : b # a => agent'[b] = agent[b]
    BY <1>5, <1>t, StageTyped DEF Mark, Stages
  <2>3. LoginTyped'
    BY <1>5, <1>t, <2>2 DEF Mark, LoginTyped
  <2>4. ASSUME ~robbed PROVE \A b \in Refreshers : Working(b) => b = a
    BY <2>4, <2>2 DEF LoginInv, Held, Working
  <2>5. ASSUME ~robbed' PROVE Held' /\ InStep'
    BY <2>5, <2>2, <2>4, <1>5 DEF Mark, LoginInv, Held, InStep, Working
  <2>6. ASSUME ~robbed' PROVE KeptOrLost'
    BY <2>6, <2>2, <2>4, <1>5 DEF Mark, LoginInv, InStep, KeptOrLost, Underway
  <2> QED BY <2>3, <2>5, <2>6 DEF LoginInv
<1>6. CASE Store(a)
  <2>2. /\ agent'[a].pc = "release" /\ agent'[a].token = agent[a].token /\ agent[a].pc = "store"
        /\ agent'[a].got = agent[a].got
        /\ agent' \in [Refreshers -> AnyAgent]
        /\ \A b \in Refreshers : b # a => agent'[b] = agent[b]
    BY <1>6, <1>t, StageTyped DEF Store, Stages
  <2>3. LoginTyped'
    BY <1>6, <1>t, <2>2 DEF Store, LoginTyped
  <2>4. ASSUME ~robbed PROVE \A b \in Refreshers : Working(b) => b = a
    BY <2>4, <2>2 DEF LoginInv, Held, Working
  <2>5. ASSUME ~robbed' PROVE Held' /\ InStep'
    BY <2>5, <2>2, <2>4, <1>6 DEF Store, LoginInv, Held, InStep, Working
  <2>6. ASSUME ~robbed' PROVE KeptOrLost'
    BY <2>6, <2>2, <2>4, <1>6 DEF Store, LoginInv, InStep, KeptOrLost, Underway
  <2> QED BY <2>3, <2>5, <2>6 DEF LoginInv
<1>7. CASE WriteFails(a)
  <2>2. /\ agent'[a].pc = "release" /\ agent'[a].token = agent[a].token /\ agent[a].pc \in {"store", "mark"}
        /\ agent'[a].got = agent[a].got
        /\ agent' \in [Refreshers -> AnyAgent]
        /\ \A b \in Refreshers : b # a => agent'[b] = agent[b]
    BY <1>7, <1>t, StageTyped DEF WriteFails, Stages
  <2>3. LoginTyped'
    BY <1>7, <1>t, <2>2 DEF WriteFails, LoginTyped
  <2>5. ASSUME ~robbed' PROVE Held' /\ InStep' /\ KeptOrLost'
    BY <2>5, <2>2, <1>7 DEF WriteFails, LoginInv, Held, InStep, KeptOrLost, Working, Readable, Underway
  <2> QED BY <2>3, <2>5 DEF LoginInv
<1> QED BY <1>1, <1>2, <1>3, <1>4, <1>5, <1>6, <1>7

\* A refresher begins, reads the file again, and asks the server.
LEMMA TokenSteps ==
  ASSUME LoginInv, NEW a \in Refreshers,
         BeginRefresh(a) \/ Reread(a) \/ Rotate(a) \/ ReplyLost(a)
  PROVE  LoginInv'
<1> USE DEF Runs
<1>t. LoginTyped BY DEF LoginInv
<1>i. agent[a] \in AnyAgent BY <1>t DEF LoginTyped
<1>1. CASE BeginRefresh(a)
  <2>1. credential \in 1..issued /\ credential \in Nat
    BY <1>1, <1>t, NumbersTyped DEF BeginRefresh
  <2>2. /\ agent'[a].pc = "wait" /\ agent'[a].token = credential /\ agent[a].pc = "idle"
        /\ agent' \in [Refreshers -> AnyAgent]
        /\ \A b \in Refreshers : b # a => agent'[b] = agent[b]
    <3>1. due \in Nat /\ agent \in [Refreshers -> AnyAgent]
      BY <1>t DEF LoginTyped
    <3>2. [pc |-> "wait", token |-> credential, knew |-> due, got |-> 0] \in AnyAgent
      BY <2>1, <3>1 DEF AnyAgent, Stages
    <3> QED BY <1>1, <3>1, <3>2 DEF BeginRefresh
  <2>3. LoginTyped'
    BY <1>1, <1>t, <2>1, <2>2 DEF BeginRefresh, LoginTyped
  <2>5. ASSUME ~robbed' PROVE Held' /\ InStep' /\ KeptOrLost'
    BY <2>5, <2>2, <1>1 DEF BeginRefresh, LoginInv, Held, InStep, KeptOrLost, Working, Readable, Underway
  <2> QED BY <2>3, <2>5 DEF LoginInv
<1>2. CASE Reread(a)
  <2>0. Readable => credential \in 1..issued /\ credential \in Nat
    BY <1>t, NumbersTyped
  <2>2. /\ agent'[a].pc \in {"release", "ask"} /\ agent'[a].token \in 1..issued /\ agent[a].pc = "reread"
        /\ agent'[a].pc = "ask" => (Readable => agent'[a].token = credential)
        /\ agent' \in [Refreshers -> AnyAgent]
        /\ \A b \in Refreshers : b # a => agent'[b] = agent[b]
    <3>1. agent[a].pc = "reread" /\ agent[a].token \in 1..issued
      BY <1>2, <1>t DEF Reread, LoginTyped
    <3>2. CASE Turns(a, "release")
      BY <3>1, <3>2, <1>t, StageTyped DEF Stages
    <3>3. CASE agent' = [agent EXCEPT ![a].pc = "ask", ![a].token = IF Readable THEN credential ELSE @]
      BY <3>1, <3>3, <2>0, <1>t DEF LoginTyped, AnyAgent, Stages
    <3> QED BY <1>2, <3>2, <3>3 DEF Reread
  <2>3. LoginTyped'
    BY <1>2, <1>t, <2>2 DEF Reread, LoginTyped
  <2>5. ASSUME ~robbed' PROVE Held' /\ InStep' /\ KeptOrLost'
    BY <2>5, <2>2, <1>2 DEF Reread, LoginInv, Held, InStep, KeptOrLost, Working, Readable, Underway
  <2> QED BY <2>3, <2>5 DEF LoginInv
<1>3. CASE Rotate(a)
  <2>1. /\ issued' = issued + 1 /\ issued' \in Nat \ {0} /\ issued' \in 1..issued' /\ 1..issued \subseteq 1..issued'
        /\ issued' \notin accepted
    BY <1>3, <1>t, NumbersTyped DEF Rotate, Issue
  <2>2. /\ agent'[a].pc = "store" /\ agent'[a].token = agent[a].token /\ agent'[a].got = issued' /\ agent[a].pc = "ask"
        /\ agent' \in [Refreshers -> AnyAgent]
        /\ \A b \in Refreshers : b # a => agent'[b] = agent[b]
    BY <1>3, <1>t, <2>1 DEF Rotate, LoginTyped, AnyAgent, Stages
  <2>3. LoginTyped'
    BY <1>3, <1>t, <2>1, <2>2 DEF Rotate, LoginTyped
  <2>4. ASSUME ~robbed PROVE \A b \in Refreshers : Working(b) => b = a
    BY <2>4, <2>2 DEF LoginInv, Held, Working
  <2>6. ASSUME ~robbed PROVE credential \notin accepted'
    <3>1. credential # issued'
      BY <1>t, <2>1, NumbersTyped
    <3>2. credential \notin accepted \/ credential = agent[a].token
      BY <2>6, <2>2, <1>t, NumbersTyped DEF LoginInv, InStep
    <3> QED BY <3>1, <3>2, <1>3 DEF Rotate
  <2>5. ASSUME ~robbed' PROVE Held' /\ InStep'
    BY <2>5, <2>2, <2>4, <2>6, <1>3 DEF Rotate, LoginInv, Held, InStep, Working, Readable
  <2>7. ASSUME ~robbed' PROVE KeptOrLost'
    BY <2>7, <2>2, <2>4, <2>5, <1>3 DEF Rotate, LoginInv, InStep, KeptOrLost, Readable, Underway, Working
  <2> QED BY <2>3, <2>5, <2>7 DEF LoginInv
<1>4. CASE ReplyLost(a)
  <2>1. /\ issued' = issued + 1 /\ issued' \in Nat \ {0} /\ issued' \in 1..issued' /\ 1..issued \subseteq 1..issued'
        /\ issued' \notin accepted
    BY <1>4, <1>t, NumbersTyped DEF ReplyLost, Issue
  <2>2. /\ agent'[a].pc \in {"ask", "release"} /\ agent'[a].token = agent[a].token /\ agent'[a].got = agent[a].got /\ agent[a].pc = "ask"
        /\ agent' \in [Refreshers -> AnyAgent]
        /\ \A b \in Refreshers : b # a => agent'[b] = agent[b]
    BY <1>4, <1>t, StageTyped DEF ReplyLost, Stages
  <2>3. LoginTyped'
    BY <1>4, <1>t, <2>1, <2>2 DEF ReplyLost, LoginTyped
  <2>4. ASSUME ~robbed PROVE \A b \in Refreshers : Working(b) => b = a
    BY <2>4, <2>2 DEF LoginInv, Held, Working
  <2>5. ASSUME ~robbed' PROVE Held' /\ InStep'
    BY <2>5, <2>2, <2>4, <1>4 DEF ReplyLost, LoginInv, Held, InStep, Working, Readable
  <2>7. ASSUME ~robbed' PROVE KeptOrLost'
    BY <2>7, <2>2, <2>4, <1>4 DEF ReplyLost, LoginInv, InStep, KeptOrLost, Underway, Working
  <2> QED BY <2>3, <2>5, <2>7 DEF LoginInv
<1> QED BY <1>1, <1>2, <1>3, <1>4

\* Faults, the clock, and what the user and the server do in between.
LEMMA OutsideSteps ==
  ASSUME LoginInv,
         \/ \E a \in Refreshers : Beat(a) \/ Dies(a) \/ Pause(a) \/ Resume(a)
         \/ LockAges \/ ComesDue \/ LogOut \/ SessionEnds
  PROVE  LoginInv'
<1>t. LoginTyped BY DEF LoginInv
<1>1. CASE LockAges \/ \E a \in Refreshers : Beat(a)
  <2>1. /\ lock' \in [by : Refreshers \union {""}, stale : BOOLEAN] /\ lock'.by = lock.by /\ lock'.by # ""
        /\ UNCHANGED <<credential, agent, paused, accepted, issued, due, dropped, robbed>>
    BY <1>1, <1>t DEF Beat, LockAges, LoginTyped
  <2>2. LoginTyped' BY <1>t, <2>1 DEF LoginTyped
  <2> QED BY <2>1, <2>2 DEF LoginInv, Held, InStep, KeptOrLost, Working, Readable, Underway
<1>2. ASSUME NEW a \in Refreshers, Dies(a) PROVE LoginInv'
  <2>1. /\ agent' = [agent EXCEPT ![a] = Resting] /\ paused' = paused \ {a}
        /\ dropped' = IF agent[a].pc = "store" THEN dropped \union {agent[a].got} ELSE dropped
        /\ UNCHANGED <<credential, lock, accepted, issued, due, robbed>>
    BY <1>2 DEF Dies
  <2>2. Resting \in AnyAgent /\ Resting.pc = "idle"
    BY DEF Resting, AnyAgent, Stages
  <2>3. /\ agent' \in [Refreshers -> AnyAgent] /\ agent'[a].pc = "idle"
        /\ \A b \in Refreshers : b # a => agent'[b] = agent[b]
    BY <2>1, <2>2, <1>t DEF LoginTyped
  <2>4. LoginTyped'
    BY <1>t, <2>1, <2>3 DEF LoginTyped
  <2>5. ASSUME ~robbed' PROVE Held' /\ InStep'
    BY <2>1, <2>3, <2>5 DEF LoginInv, Held, InStep, Working, Readable
  <2>6. ASSUME ~robbed' PROVE KeptOrLost'
    BY <2>1, <2>3, <2>6 DEF LoginInv, KeptOrLost, Underway
  <2> QED BY <2>4, <2>5, <2>6 DEF LoginInv
<1>3. CASE \E a \in Refreshers : Pause(a) \/ Resume(a)
  <2>1. /\ paused' \subseteq Refreshers /\ UNCHANGED <<credential, lock, agent, accepted, issued, due, dropped, robbed>>
    BY <1>3, <1>t DEF Pause, Resume, LoginTyped
  <2>2. LoginTyped' BY <1>t, <2>1 DEF LoginTyped
  <2> QED BY <2>1, <2>2 DEF LoginInv, Held, InStep, KeptOrLost, Working, Readable, Underway
<1>4. CASE ComesDue
  <2>1. /\ due' \in Nat /\ UNCHANGED <<credential, lock, agent, paused, accepted, issued, dropped, robbed>>
    BY <1>4, <1>t, NumbersTyped DEF ComesDue
  <2>2. LoginTyped' BY <1>t, <2>1 DEF LoginTyped
  <2> QED BY <2>1, <2>2 DEF LoginInv, Held, InStep, KeptOrLost, Working, Readable, Underway
<1>5. CASE LogOut
  <2>1. /\ credential' = Missing /\ dropped' = dropped \union {credential}
        /\ UNCHANGED <<lock, agent, paused, accepted, issued, due, robbed>>
    BY <1>5 DEF LogOut
  <2>2. LoginTyped' BY <1>t, <2>1 DEF LoginTyped
  <2>3. ~Readable' BY <2>1 DEF Readable
  <2>4. credential' \notin accepted' BY <2>1, <1>t, NumbersTyped
  <2>5. ASSUME ~robbed' PROVE Held' /\ InStep' /\ KeptOrLost'
    BY <2>1, <2>3, <2>4, <2>5 DEF LoginInv, Held, InStep, KeptOrLost, Working, Underway
  <2> QED BY <2>2, <2>5 DEF LoginInv
<1>6. CASE SessionEnds
  <2>1. /\ accepted' \subseteq accepted /\ UNCHANGED <<credential, lock, agent, paused, issued, due, dropped, robbed>>
    BY <1>6 DEF SessionEnds
  <2>2. LoginTyped' BY <1>t, <2>1 DEF LoginTyped
  <2> QED BY <2>1, <2>2 DEF LoginInv, Held, InStep, KeptOrLost, Working, Readable, Underway
<1> QED BY <1>1, <1>2, <1>3, <1>4, <1>5, <1>6

\* A login is asked for when the file tells of none.
LEMMA LogInSteps == ASSUME LoginInv, LogIn PROVE LoginInv'
<1>t. LoginTyped BY DEF LoginInv
<1>1. /\ ~Readable /\ lock = Nobody
      /\ issued' = issued + 1 /\ credential' = issued' /\ accepted' = accepted \union {issued'}
      /\ UNCHANGED <<lock, agent, paused, due, dropped, robbed, events>>
  BY DEF LogIn, Issue
<1>2. /\ issued' \in Nat \ {0} /\ issued' \in 1..issued' /\ 1..issued \subseteq 1..issued' /\ credential \notin accepted
  BY <1>1, <1>t, NumbersTyped
<1>3. LoginTyped'
  BY <1>1, <1>2, <1>t DEF LoginTyped
<1>4. ASSUME ~robbed PROVE \A a \in Refreshers : ~Working(a)
  BY <1>1, <1>4, LoginAssumption DEF LoginInv, Held, Nobody
<1>5. ASSUME ~robbed' PROVE Held' /\ InStep' /\ KeptOrLost'
  BY <1>1, <1>2, <1>4, <1>5 DEF LoginInv, Held, InStep, KeptOrLost, Working, Underway
<1> QED BY <1>3, <1>5 DEF LoginInv

LEMMA LoginNextInv == ASSUME LoginInv, [LoginNext]_loginVars PROVE LoginInv'
<1>1. CASE UNCHANGED loginVars
  BY <1>1 DEF loginVars, LoginInv, LoginTyped, Held, InStep, KeptOrLost, Working, Readable, Underway
<1>2. CASE \E a \in Refreshers : Refresh_(a)
  BY <1>2, LockSteps, AskSteps, TokenSteps, OutsideSteps DEF Refresh_
<1>3. CASE LogIn
  BY <1>3, LogInSteps
<1>4. CASE LockAges \/ ComesDue \/ LogOut \/ SessionEnds
  BY <1>4, OutsideSteps
<1> QED BY <1>1, <1>2, <1>3, <1>4 DEF LoginNext

\* LoginIsSafe: whatever processes refresh the login, and die, stop, fail, race and
\* are refused meanwhile: one at a time does, and what the server still takes is in
\* the file or on its way there, unless a lock was removed under its holder.
THEOREM LoginSurvives == LoginSpec => []LoginIsSafe
<1>1. LoginInit => LoginInv
  BY LoginInitInv
<1>2. LoginInv /\ [LoginNext]_loginVars => LoginInv'
  BY LoginNextInv
<1>3. LoginInv => LoginIsSafe
  BY DEF LoginInv, Held, KeptOrLost, LoginIsSafe, OneRefresher, LoginIsKept
<1> QED BY <1>1, <1>2, <1>3, PTL DEF LoginSpec
=============================================================================
