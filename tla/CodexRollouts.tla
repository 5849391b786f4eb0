---------------------------- MODULE CodexRollouts ----------------------------
(***************************************************************************)
(* What internal/source/codex reads out of a set of rollout files.  Every  *)
(* file is the append-only record of one thread with a cumulative token    *)
(* counter; a thread that was forked or resumed starts with a copy of its  *)
(* parent's history, with the parent's counters and new timestamps.        *)
(*                                                                         *)
(* The log holds the records of all files in the order they were written,  *)
(* which is the order normalizeRecords sorts them into.  A token snapshot  *)
(* is one number (its five counters are treated alike), the amount of      *)
(* request k is 2^k: two counters are equal only if the same requests led  *)
(* to them.                                                                *)
(***************************************************************************)
EXTENDS Integers, Sequences, FiniteSets, SequencesExt

CONSTANTS Threads,     \* rollout files, named by the thread that writes them
          Dated,       \* threads whose file name ends its date with Z
          MaxRequests, \* model calls
          MaxPrompts,  \* user prompts
          MaxSteps,    \* bursts of records
          ResumeChains \* whether a resumed thread is resumed again

VARIABLE log

None == 0

\* A record of a rollout: meta has the thread, session and parent ids, the
\* others the turn, prompts a text, counters a total or the last usage.
Rec(f, t, kind) ==
  [file |-> f, t |-> t, kind |-> kind, id |-> None, session |-> None, parent |-> None,
   turn |-> None, text |-> 0, tokens |-> 0]

FilesOf(records) == {records[i].file : i \in DOMAIN records}
OfFiles(records, files) == SelectSeq(records, LAMBDA r : r.file \in files)
OfFile(records, f) == OfFiles(records, {f})
Metas(records) == {r \in ToSet(records) : r.kind = "meta"}

--------------------------------------------------------------------------
\* Identity of a file: its first session_meta.

Own(records, f) ==
  LET metas == SelectSeq(OfFile(records, f), LAMBDA r : r.kind = "meta")
  IN  IF metas = <<>> THEN [Rec(f, 0, "meta") EXCEPT !.id = f] ELSE Head(metas)

SessionOf(meta) == IF meta.session = None THEN meta.id ELSE meta.session

Derived(meta) ==
  meta.parent # None \/ (meta.session # None /\ meta.session # meta.id)

--------------------------------------------------------------------------
\* Rows.  A row is a user prompt or one model call.

NoRow == [t |-> -1]
Row(th, kind, seq, t) ==
  [id |-> <<th.id, th.turn, kind, seq>>, session |-> th.session, t |-> t, tokens |-> 0, text |-> 0]

Thread(meta) ==
  [id |-> meta.id, session |-> SessionOf(meta), turn |-> None, req |-> 0, usr |-> 0,
   seqs |-> [turn \in {} |-> <<0, 0>>], pending |-> NoRow, max |-> 0, replay |-> Derived(meta)]

FlushPending(s, f) ==
  IF s.th[f].pending = NoRow THEN s
  ELSE [s EXCEPT !.rows = IF s.th[f].replay THEN @ ELSE Append(@, s.th[f].pending),
                 !.th[f].pending = NoRow, !.th[f].req = @ + 1]

DiscardPending(s, f) ==
  IF s.th[f].pending = NoRow THEN s
  ELSE [s EXCEPT !.th[f].pending = NoRow, !.th[f].req = @ + 1]

\* Mutant: the counters of a turn start again.
SyncTurnForgets(s, f, turn) ==
  IF turn \in {None, s.th[f].turn} THEN s
  ELSE [FlushPending(s, f) EXCEPT !.th[f].turn = turn, !.th[f].req = 0, !.th[f].usr = 0]

\* A revisited turn goes on counting where it left off.
SyncTurn(s, f, turn) ==
  IF turn \in {None, s.th[f].turn} THEN s
  ELSE LET u == FlushPending(s, f)
           saved == (u.th[f].turn :> <<u.th[f].req, u.th[f].usr>>) @@ u.th[f].seqs
           at == IF turn \in DOMAIN saved THEN saved[turn] ELSE <<0, 0>>
       IN  [u EXCEPT !.th[f].seqs = saved, !.th[f].turn = turn,
                     !.th[f].req = at[1], !.th[f].usr = at[2]]

EnsurePending(s, f, t) ==
  IF s.th[f].pending # NoRow THEN s
  ELSE [s EXCEPT !.th[f].pending = Row(s.th[f], "r", s.th[f].req, t)]

CloseRequest(s, f, t, usage, hasUsage) ==
  IF s.th[f].pending = NoRow /\ (~hasUsage \/ usage = 0) THEN s
  ELSE LET u == EnsurePending(s, f, t)
           row == IF hasUsage THEN [u.th[f].pending EXCEPT !.tokens = usage] ELSE u.th[f].pending
       IN  [u EXCEPT !.rows = Append(@, row), !.th[f].pending = NoRow, !.th[f].req = @ + 1]

Positive(n) == IF n > 0 THEN n ELSE 0
Higher(m, n) == IF n > m THEN n ELSE m

\* Mutant: a derived thread starts from zero.
CountTotalUnseeded(s, f, t, total) ==
  LET th == s.th[f]
      own == [s EXCEPT !.th[f].max = Higher(@, total), !.th[f].replay = FALSE,
                       !.usage[th.session] = @ \union {total}]
  IN  IF th.replay /\ total \in s.usage[th.session] THEN DiscardPending(s, f)
      ELSE CloseRequest(own, f, t, Positive(total - th.max), TRUE)

\* A counter that was seen in the session belongs to the replayed history.
CountTotal(s, f, t, total) ==
  LET th == s.th[f]
      raised == [s EXCEPT !.th[f].max = Higher(@, total)]
      own == [raised EXCEPT !.th[f].replay = FALSE, !.usage[th.session] = @ \union {total}]
  IN  IF th.replay /\ total \in s.usage[th.session] THEN DiscardPending(raised, f)
      ELSE CloseRequest(own, f, t, Positive(total - th.max), TRUE)

CountLast(s, f, t, last) ==
  LET raised == [s EXCEPT !.th[f].max = @ + last]
  IN  IF s.th[f].replay THEN DiscardPending(raised, f)
      ELSE CloseRequest(raised, f, t, last, TRUE)

\* A prompt ends the replay unless its text was seen in the session.
UserMessage(s, f, t, text) ==
  LET th == s.th[f]
      u == FlushPending([s EXCEPT !.th[f].replay = FALSE], f)
      row == [Row(u.th[f], "u", u.th[f].usr, t) EXCEPT !.text = text]
  IN  IF th.replay /\ text \in s.texts[th.session] THEN DiscardPending(s, f)
      ELSE [u EXCEPT !.rows = Append(@, row), !.texts[th.session] = @ \union {text},
                     !.th[f].usr = @ + 1]

Apply(s, r) ==
  LET u == SyncTurn(s, r.file, r.turn)
  IN  CASE r.kind = "user" -> UserMessage(u, r.file, r.t, r.text)
        [] r.kind = "text" -> EnsurePending(u, r.file, r.t)
        [] r.kind = "total" -> CountTotal(u, r.file, r.t, r.tokens)
        [] r.kind = "last" -> CountLast(u, r.file, r.t, r.tokens)
        [] r.kind = "failed" -> CloseRequest(u, r.file, r.t, 0, FALSE)
        [] r.kind = "done" -> FlushPending(u, r.file)
        [] OTHER -> u

\* Records that two files of a session share to the timestamp count once.
DedupeKey(s, r) == [r EXCEPT !.file = s.th[r.file].session]

Step(s, r) ==
  LET key == DedupeKey(s, r)
  IN  IF key \in s.seen THEN s ELSE Apply([s EXCEPT !.seen = @ \union {key}], r)

Start(records) ==
  LET files == FilesOf(records)
      sessions == {SessionOf(Own(records, f)) : f \in files}
  IN  [th |-> [f \in files |-> Thread(Own(records, f))], rows |-> <<>>,
       usage |-> [x \in sessions |-> {}], texts |-> [x \in sessions |-> {}], seen |-> {}]

\* The rows of requests and prompts that are complete.
Settled(records) == FoldLeft(Step, Start(records), records)

\* normalizeRecords: content that was never counted ends as a row of its own.
Rows(records) ==
  LET s == Settled(records)
  IN  FoldLeft(FlushPending, s, SetToSeq(FilesOf(records))).rows

--------------------------------------------------------------------------
\* The files that are read.

MTime(f) == Last(OfFile(log, f)).t

NamedAs(id) == {f \in FilesOf(log) : f = id /\ f \in Dated}

Wanted(records) ==
  {m.parent : m \in {x \in Metas(records) : x.parent # None}} \union
  {m.session : m \in {x \in Metas(records) : x.session \notin {None, x.id}}}

\* loadBoundedSnapshot: recently written files and, through any number of
\* forks, the files of their parents.
WithParents ==
  LET Close[n \in Nat, files \in SUBSET Threads] ==
        LET more == files \union UNION {NamedAs(id) : id \in Wanted(OfFiles(log, files))}
        IN  IF n = 0 \/ more = files THEN files ELSE Close[n - 1, more]
  IN  [files \in SUBSET Threads |-> Close[Cardinality(Threads), files]]

\* Mutant: parents that were not written recently are left out.
BoundedFilesAlone(from) == {f \in FilesOf(log) : MTime(f) >= from}

BoundedFiles(from) == WithParents[{f \in FilesOf(log) : MTime(f) >= from}]
BoundedRows(from) == Rows(OfFiles(log, BoundedFiles(from)))

\* selectThreadFiles: the file of a thread and its ancestors.
Ancestors(f) ==
  LET m == Own(log, f)
      ids == {m.parent, m.session} \ {None, m.id}
  IN  {g \in FilesOf(log) : Own(log, g).id \in ids \/ SessionOf(Own(log, g)) \in ids}

ThreadFiles(id) ==
  LET Close[n \in Nat, files \in SUBSET Threads] ==
        IF n = 0 THEN files ELSE Close[n - 1, files \union UNION {Ancestors(f) : f \in files}]
  IN  Close[Cardinality(Threads), {f \in FilesOf(log) : Own(log, f).id = id}]

MessageByID(id) == {r \in ToSet(Rows(OfFiles(log, ThreadFiles(id[1])))) : r.id = id}

--------------------------------------------------------------------------
\* The program that writes the files.

VARIABLES made,     \* requests so far
          prompts,  \* prompts so far
          steps     \* bursts so far

vars == <<log, made, prompts, steps>>

Now == IF log = <<>> THEN 0 ELSE Last(log).t
Total(f) ==
  FoldLeft(LAMBDA n, r : IF r.kind = "total" THEN r.tokens ELSE n + r.tokens, 0, OfFile(log, f))
TurnsOf(f) == {r.turn : r \in ToSet(OfFile(log, f))} \ {None}
Next0 == Cardinality(FilesOf(log)) + 1

\* Records of one turn, written one after the other.
Written(f, turn, kinds) ==
  [i \in DOMAIN kinds |->
     [Rec(f, Now + i, kinds[i]) EXCEPT
        !.turn = turn,
        !.text = CASE kinds[i] = "user" -> prompts + 1
                   [] kinds[i] = "text" -> MaxPrompts + Len(log) + i
                   [] OTHER -> 0,
        !.tokens = CASE kinds[i] = "total" -> Total(f) + 2^made
                     [] kinds[i] = "last" -> 2^made
                     [] OTHER -> 0]]

\* How a turn can go: answered, answered but never counted, still running; and
\* how it goes on: another request, one without a running total, a failure.
Courses == {<<"text", "total">>, <<"text", "done">>, <<"text">>}
Sequels == {<<"total">>, <<"last">>, <<"failed">>}

NewThread(f) ==
  /\ f = Next0
  /\ log' = Append(log, [Rec(f, Now + 1, "meta") EXCEPT !.id = f])
  /\ UNCHANGED <<made, prompts>>

Prompt(f, course) ==
  /\ f \in FilesOf(log) /\ prompts < MaxPrompts /\ made < MaxRequests
  /\ prompts' = prompts + 1
  /\ made' = made + (IF Last(course) \in {"total", "last"} THEN 1 ELSE 0)
  /\ log' = log \o Written(f, prompts + 1, <<"turn", "user">> \o course)

\* Another request of the last turn or of an earlier one.  What a thread does
\* first after a copied history is a prompt.
GoOn(f, turn, course) ==
  /\ f \in FilesOf(log) /\ turn \in TurnsOf(f) /\ made < MaxRequests
  /\ \E r \in ToSet(OfFile(log, f)) : r.t > Head(OfFile(log, f)).t /\ r.kind = "user"
  /\ made' = made + (IF Last(course) \in {"total", "last"} THEN 1 ELSE 0)
  /\ log' = log \o Written(f, turn, course)
  /\ UNCHANGED <<prompts>>

\* A fork names its parent, a resumed thread only the session.
Derive(f, p, forked, withPrompts) ==
  LET copied == SelectSeq(OfFile(log, p), LAMBDA r : withPrompts \/ r.kind # "user")
      meta == [Rec(f, Now + 1, "meta") EXCEPT
                 !.id = f, !.session = SessionOf(Own(log, p)), !.parent = IF forked THEN p ELSE None]
  IN  /\ f = Next0 /\ p \in FilesOf(log) /\ TurnsOf(p) # {}
      /\ forked \/ ResumeChains \/ ~Derived(Own(log, p))
      /\ log' = log \o <<meta>> \o [i \in DOMAIN copied |-> [copied[i] EXCEPT !.file = f, !.t = Now + 1]]
      /\ UNCHANGED <<made, prompts>>

Init == log = <<>> /\ made = 0 /\ prompts = 0 /\ steps = 0

Next ==
  /\ steps < MaxSteps /\ steps' = steps + 1
  /\ \E f \in Threads :
       \/ NewThread(f)
       \/ \E course \in Courses : Prompt(f, course)
       \/ \E turn \in 1..MaxPrompts, course \in Sequels : GoOn(f, turn, course)
       \/ \E p \in Threads, forked, withPrompts \in BOOLEAN : Derive(f, p, forked, withPrompts)

Spec == Init /\ [][Next]_vars

--------------------------------------------------------------------------
\* Properties.

Sum(rows) == FoldLeft(LAMBDA n, r : n + r.tokens, 0, rows)
Told == {k \in 0..MaxRequests : \E r \in ToSet(log) : (r.tokens \div 2^k) % 2 = 1}

\* Every request that a file tells of is counted, and counted once, however
\* often forks and resumed threads replay it.
UsageOnce == Sum(Rows(log)) = FoldSet(LAMBDA k, n : n + 2^k, 0, Told)

\* A row is cached under its id: ids are unique, and a row that was shown
\* keeps its id and its time as the files grow.
Keeps(before, after) ==
  /\ \A i, j \in DOMAIN after : after[i].id = after[j].id => i = j
  /\ \A r \in ToSet(before) : \E x \in ToSet(after) : x.id = r.id /\ x.t = r.t

KeepsRows == \A records \in {log'} : Keeps(Rows(log), Rows(records))

\* A load of the recently written files shows the same recent rows as a load
\* of all files, and the detail of a row is the row of the list.
LoadsAgree ==
  LET all == ToSet(Rows(log))
  IN  /\ \A from \in {MTime(f) : f \in FilesOf(log)} :
           {r \in ToSet(BoundedRows(from)) : r.t >= from} = {r \in all : r.t >= from}
      /\ \A r \in all : MessageByID(r.id) = {r}

=============================================================================
