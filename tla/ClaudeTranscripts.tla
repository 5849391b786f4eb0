-------------------------- MODULE ClaudeTranscripts --------------------------
(***************************************************************************)
(* What internal/source/claudecode reads out of the transcripts of Claude  *)
(* Code: one main file per session, one file per subagent, copies that are *)
(* made when a session is continued elsewhere.  A request is streamed: it  *)
(* may take several records, of which early ones carry only a stub of the  *)
(* usage, and its tool calls are answered by later user records.           *)
(*                                                                         *)
(* The log holds the records of all files in the order they were written.  *)
(* Every piece of content is a number of its own, the counters of a usage  *)
(* are one number, and the text of a prompt is never empty.                *)
(***************************************************************************)
EXTENDS Integers, Sequences, FiniteSets, SequencesExt, FiniteSetsExt

CONSTANTS Sessions,    \* session ids
          Main,        \* the file of every session
          Side,        \* the file of its subagent, under the session's directory
          Copy,        \* the file of its copy in another project
          MaxRequests, \* model calls
          MaxPrompts,  \* user records with a text
          MaxSteps     \* bursts of records

VARIABLES log,     \* the lines of all files
          made,    \* requests so far
          prompts, \* user texts so far
          steps    \* bursts so far

vars == <<log, made, prompts, steps>>

None == 0

--------------------------------------------------------------------------
\* Files, named by numbers in the order of their paths, and their lines.

Files == {Main[s] : s \in Sessions} \union {Side[s] : s \in Sessions} \union {Copy[s] : s \in Sessions}
FilesOf(lines) == {lines[i].file : i \in DOMAIN lines}
OfFiles(lines, files) == SelectSeq(lines, LAMBDA r : r.file \in files)
OfFile(lines, f) == OfFiles(lines, {f})
MTime(f) == Max({r.t : r \in ToSet(OfFile(log, f))} \union {0})

\* A line as it is written.  full tells whether its usage has the counters of
\* the cache or an output; calls are the tools it calls, results the calls it
\* answers and how.
Line(f, t, role) ==
  [file |-> f, t |-> t, role |-> role, uuid |-> None, session |-> None, request |-> None,
   api |-> None, meta |-> FALSE, usage |-> 0, full |-> FALSE, reported |-> FALSE,
   text |-> 0, calls |-> {}, results |-> {}]

\* sessionIDFromParts: the session a path stands for.
PathSession(f) == CHOOSE s \in Sessions : f \in {Main[s], Side[s], Copy[s]}

\* normalizeRawRecord: ids that a line leaves out are taken from its message
\* and from the path.
Parsed(r, n) ==
  [line |-> n,
   session |-> IF r.session = None THEN PathSession(r.file) ELSE r.session,
   uuid |-> IF r.uuid = None THEN r.api ELSE r.uuid] @@ r

\* parseTranscriptFile: lines without role and content are dropped.
ParsedFile(lines, f) ==
  LET own == OfFile(lines, f)
  IN  SelectSeq([i \in DOMAIN own |-> Parsed(own[i], i)],
                LAMBDA r : r.role # "none" \/ r.text # 0 \/ r.results # {})

\* The order of the records: by time, then file, then line.
Before(a, b) ==
  \/ a.t < b.t
  \/ a.t = b.t /\ a.file < b.file
  \/ a.t = b.t /\ a.file = b.file /\ a.line < b.line

Ordered(lines) ==
  SortSeq(FoldSet(LAMBDA f, all : all \o ParsedFile(lines, f), <<>>, FilesOf(lines)), Before)

--------------------------------------------------------------------------
\* Rows.  A row is a user prompt or one request.

\* synthesizeMessageID: the line stands in for a missing id.
Id(r) == <<r.session, r.uuid, IF r.uuid = None THEN r.line ELSE 0>>

NewRow(r) == [id |-> Id(r), t |-> r.t, session |-> r.session, role |-> r.role, texts |-> {},
              tools |-> [c \in {} |-> ""], usage |-> 0, cost |-> "missing"]

NoKey == <<"none", None, None>>

\* Requests are told apart by their own id, failing that by the message's.
BillingKey(r) ==
  CASE r.request # None -> <<"request", r.session, r.request>>
    [] r.api # None -> <<"message", r.session, r.api>>
    [] OTHER -> NoKey

\* computeAssistantCost: a reported cost stands, a stub cannot be priced.
Cost(r) ==
  CASE r.reported -> "reported"
    [] r.usage # 0 /\ r.full -> "computed"
    [] OTHER -> "missing"

Contribution(r) == [usage |-> r.usage, full |-> r.full, cost |-> Cost(r)]

\* Mutant: the last record wins, whatever it knows.
MergeLast(previous, current) == current

\* mergeRepeatedBillingContribution: what is known is not given up for a stub,
\* nor a cost for none.
Merge(previous, current) ==
  CASE current.usage = 0 /\ current.cost = "missing" -> previous
    [] previous.usage # 0 /\ previous.full /\ current.usage # 0 /\ ~current.full -> previous
    [] current.cost = "missing" /\ previous.cost # "missing" ->
         IF current.usage = 0 THEN previous
         ELSE [previous EXCEPT !.usage = current.usage, !.full = current.full]
    [] OTHER -> current

\* A stub is no usage.
Applied(row, c) == [row EXCEPT !.cost = c.cost, !.usage = IF c.full THEN c.usage ELSE 0]

\* What a fold over the records carries: rows, the requests under way (the row
\* and what is known of it), the row that called a tool, the records seen.
Start == [rows |-> <<>>, open |-> <<>>, pending |-> <<>>, seen |-> {}]

AddRow(s, row) == [s EXCEPT !.rows = Append(@, row)]

AddContent(s, n, r) ==
  [s EXCEPT !.rows[n].texts = @ \union ({r.text} \ {0}),
            !.rows[n].tools = [c \in r.calls |-> "partial"] @@ @,
            !.pending = [c \in {<<r.session, x>> : x \in r.calls} |-> n] @@ @]

\* addAssistantRequest
AddRequest(s, r) ==
  LET key == BillingKey(r)
      known == key # NoKey /\ key \in DOMAIN s.open
      n == IF known THEN s.open[key].row ELSE Len(s.rows) + 1
      c == IF known THEN Merge(s.open[key].told, Contribution(r)) ELSE Contribution(r)
      u == AddContent(IF known THEN s ELSE AddRow(s, NewRow(r)), n, r)
  IN  [u EXCEPT !.rows[n] = Applied(@, c),
                !.open = IF key = NoKey THEN @ ELSE (key :> [row |-> n, told |-> c]) @@ @]

AddPrompt(s, r) == IF r.text = 0 THEN s ELSE AddRow(s, [NewRow(r) EXCEPT !.texts = {r.text}])

\* applyToolResults: the last answer to a call stands.
ApplyResults(s, r) ==
  LET answered == {x \in r.results : <<r.session, x.call>> \in DOMAIN s.pending}
      RowOf(x) == s.pending[<<r.session, x.call>>]
  IN  [s EXCEPT !.rows = [n \in DOMAIN @ |->
         [@[n] EXCEPT !.tools =
            [c \in DOMAIN @ |-> IF \E x \in answered : x.call = c /\ RowOf(x) = n
                                THEN (CHOOSE x \in answered : x.call = c).status ELSE @[c]]]]]

\* isInternalMetadataRecord
Internal(r) == r.meta \/ r.role \notin {"user", "assistant"}

\* One record: answers first, then the row it makes, if any.
ApplyRecord(s, r) ==
  CASE Internal(r) -> ApplyResults(s, r)
    [] r.role = "user" -> AddPrompt(ApplyResults(s, r), r)
    [] OTHER -> ApplyResults(AddRequest(s, r), r)

\* stableRecordDedupeKey: everything but where the record stands.
RecordKey(r) == [r EXCEPT !.file = None, !.line = 0]

Step(s, r) ==
  IF RecordKey(r) \in s.seen THEN s
  ELSE ApplyRecord([s EXCEPT !.seen = @ \union {RecordKey(r)}], r)

Rows(lines) == FoldLeft(Step, Start, Ordered(lines)).rows
RowSet(lines) == ToSet(Rows(lines))

--------------------------------------------------------------------------
\* Loads.

\* Mutant: files that began before the window are left out.
BoundedFilesBegun(from) == {f \in FilesOf(log) : Head(OfFile(log, f)).t >= from}

\* loadBoundedSnapshot reads the files written since the start of the window.
BoundedFiles(from) == {f \in FilesOf(log) : MTime(f) >= from}
BoundedRows(from) == RowSet(OfFiles(log, BoundedFiles(from)))

\* snapshotFor: a read with a start shows the rows since then.
Listed(from) == {r \in BoundedRows(from) : r.t >= from}

\* MessageByID: out of the bounded snapshot that is there, else out of all.
Detail(id, from, all) ==
  LET near == {r \in BoundedRows(from) : r.id = id}
  IN  IF near # {} THEN near ELSE {r \in all : r.id = id}

--------------------------------------------------------------------------
\* The program that writes the files.

Now == Max({r.t : r \in ToSet(log)} \union {0})
Unique == Len(log)

\* The main file and its copy name session and request, a subagent's file
\* leaves them to the path and the message.
Dressed(r, s, k) ==
  IF r.file = Side[s] THEN [r EXCEPT !.api = IF k = None THEN None ELSE 1000 + k]
  ELSE [r EXCEPT !.session = s, !.request = k, !.uuid = 100 + Unique,
                 !.api = IF k = None THEN None ELSE 1000 + k]

Write(records) ==
  log' = log \o [i \in DOMAIN records |->
                   [records[i] EXCEPT !.t = Now + i,
                                      !.uuid = IF @ = None THEN None ELSE @ + i,
                                      !.text = IF @ = 0 THEN 0 ELSE Unique + i]]

Chunk(f, s, k, usage, full) ==
  [Dressed(Line(f, 0, "assistant"), s, k) EXCEPT !.usage = usage, !.full = full, !.text = 1]

\* How the records of a request follow each other: usages grow, stubs may
\* trail, an answer may come without usage or with a cost of its own.
Courses(f, s, k) ==
  LET stub == Chunk(f, s, k, 9, FALSE)
      part == Chunk(f, s, k, 10 * k + 1, TRUE)
      whole == Chunk(f, s, k, 10 * k + 2, TRUE)
      bare == Chunk(f, s, k, 0, FALSE)
      Calls(r) == [r EXCEPT !.calls = {k}]
  IN  [begin |-> {<<stub>>, <<bare>>, <<part>>, <<stub, whole>>, <<part, Calls(whole)>>,
                  <<[stub EXCEPT !.reported = TRUE]>>},
       go_on |-> {<<bare>>, <<stub>>, <<whole, stub>>, <<Calls(part)>>}]

Of(k) == {i \in DOMAIN log : log[i].role = "assistant" /\ log[i].api = 1000 + k}
Calling(k) == \E i \in Of(k) : log[i].calls # {}
SaidWhole(k) == \E i \in Of(k) : log[i].usage = 10 * k + 2

\* The file that goes on with what request k began; none once it was copied.
Home(k, f) == Of(k) # {} /\ \A i \in Of(k) : log[i].file = f

Live(f, s) == f = Main[s] \/ OfFile(log, f) # <<>> \/ (f = Side[s] /\ OfFile(log, Main[s]) # <<>>)

Begin(f, s, course) ==
  /\ made < MaxRequests /\ Live(f, s)
  /\ made' = made + 1
  /\ Write(course)
  /\ UNCHANGED prompts

\* More records of a request that is not complete, while others run.
Resume(f, s, k, course) ==
  /\ Home(k, f) /\ ~SaidWhole(k) /\ ~Calling(k)
  /\ Write(course)
  /\ UNCHANGED <<made, prompts>>

\* A user record: a prompt, the answer to a call, or both; some are internal.
Say(f, s, texted, answers, meta) ==
  /\ Live(f, s) /\ prompts < MaxPrompts
  /\ \A x \in answers : Home(x.call, f) /\ Calling(x.call)
  /\ prompts' = prompts + 1
  /\ Write(<<[Dressed(Line(f, 0, "user"), s, None) EXCEPT
                !.text = IF texted THEN 1 ELSE 0, !.results = answers, !.meta = meta]>>)
  /\ UNCHANGED made

\* An error the program puts in the place of an answer, and a line that is
\* not part of the conversation.
Note(f, s, role) ==
  /\ OfFile(log, f) # <<>> /\ f # Side[s]
  /\ Write(<<[Dressed(Line(f, 0, role), s, None) EXCEPT !.text = 1]>>)
  /\ UNCHANGED <<made, prompts>>

\* The session is continued in another project: its main file is copied,
\* after a line of the copy's own.
Fork(s) ==
  LET main == OfFile(log, Main[s])
  IN  /\ main # <<>> /\ OfFile(log, Copy[s]) = <<>>
      /\ log' = log \o [i \in DOMAIN main |-> [main[i] EXCEPT !.file = Copy[s]]]
      /\ UNCHANGED <<made, prompts>>

Init == log = <<>> /\ made = 0 /\ prompts = 0 /\ steps = 0

Next ==
  /\ steps < MaxSteps /\ steps' = steps + 1
  /\ \E s \in Sessions :
       \/ Fork(s)
       \/ \E f \in {Main[s], Side[s], Copy[s]} :
            \/ \E course \in Courses(f, s, made + 1).begin : Begin(f, s, course)
            \/ \E k \in 1..made : \E course \in Courses(f, s, k).go_on : Resume(f, s, k, course)
            \/ Say(f, s, TRUE, {}, FALSE)
            \/ \E k \in 1..made, x \in {"completed", "error"} :
                 \E kind \in {<<FALSE, FALSE>>, <<TRUE, FALSE>>, <<TRUE, TRUE>>} :
                   Say(f, s, kind[1], {[call |-> k, status |-> x]}, kind[2])
            \/ \E role \in {"assistant", "system"} : Note(f, s, role)

Spec == Init /\ [][Next]_vars

--------------------------------------------------------------------------
\* Properties.

Told == ToSet(log)
TextsOf(k) == {r.text : r \in {x \in Told : x.role = "assistant" /\ x.api = 1000 + k}}

\* The last full usage that the records of a request tell of.
UsageOf(k) ==
  LET full == {i \in Of(k) : log[i].full}
      last == CHOOSE i \in full : \A j \in full : log[i].t >= log[j].t
  IN  IF full = {} THEN 0 ELSE log[last].usage

RequestRow(r, k) ==
  /\ r.role = "assistant" /\ r.texts = TextsOf(k) /\ r.usage = UsageOf(k)
  /\ r.cost = "missing" <=> ~ \E i \in Of(k) : log[i].reported \/ log[i].full
  /\ \A c \in DOMAIN r.tools : 
       r.tools[c] = "partial" <=> ~ \E x \in Told : \E y \in x.results : y.call = c

\* Every request and every prompt that a file tells of is one row, with the
\* last full usage and the answers to its calls, however often its records
\* were copied and in which order they came.
UsageOnce ==
  LET rows == Rows(log)
      prompted == {r.text : r \in {x \in Told : x.role = "user" /\ ~x.meta}} \ {0}
      errors == {r.text : r \in {x \in Told : x.role = "assistant" /\ x.api = None}}
  IN  /\ Len(rows) = made + Cardinality(prompted) + Cardinality(errors)
      /\ \A k \in 1..made : \E i \in DOMAIN rows : RequestRow(rows[i], k)
      /\ \A x \in prompted : \E i \in DOMAIN rows : rows[i].role = "user" /\ rows[i].texts = {x}

\* A row is cached under its id: ids are unique, and a row that was shown
\* keeps its id and its time as the files grow.
KeepsRows ==
  \A lines \in {log'} :
    LET after == RowSet(lines)
    IN  /\ Cardinality({r.id : r \in after}) = Len(Rows(lines))
        /\ \A r \in RowSet(log) : \E x \in after :
             x.id = r.id /\ x.t = r.t /\ x.role = r.role /\ r.texts \subseteq x.texts

\* A load of the files written since a moment shows the rows of that time as
\* a load of all files does, and a detail is the row of the list.
LoadsAgree ==
  LET all == RowSet(log)
  IN  \A from \in {MTime(f) : f \in FilesOf(log)} :
        /\ Listed(from) = {r \in all : r.t >= from}
        /\ \A r \in all : Detail(r.id, from, all) = {r}

=============================================================================
