---------------------------- MODULE DecisionLog ----------------------------
(***************************************************************************)
(* The Decision log: log.jsonl and its one older generation log.jsonl.1,   *)
(* appended to by every hook process at once (internal/rule/log.go) and    *)
(* read by `handrail log` and doctor (log.go, readLog).                    *)
(*                                                                         *)
(* A file is the sequence of writes it received.  A write holds one line   *)
(* and lands whole, torn inside its JSON, or bare: all of the JSON and not *)
(* the newline.  What lands behind a write that is not whole is glued to   *)
(* it, and the two are one line that is no JSON object: an object that is  *)
(* cut is not completed by another, nor is one by what follows it.         *)
(* A bare write is thus read for as long as it is the last of its file.    *)
(* A file that is not there reads, and stats, like an empty one, so        *)
(* absence is the empty sequence.  Generations are counted by `gen`:       *)
(* log.jsonl is generation gen, log.jsonl.1 is gen - 1, and an older one   *)
(* is unlinked, reachable only by a process that still holds it open.      *)
(***************************************************************************)
EXTENDS Naturals, Sequences

CONSTANTS Writers,      \* hook processes
          Readers,      \* processes that run readLog
          Limit,        \* logRotateSize, counted in lines
          MaxBatch,     \* lines one event writes at most
          MaxEvents,    \* bound: events recorded in a behaviour
          Tear,         \* may a write stop short (a full disk)?
          Nobody        \* the lock's holder when it is free

ASSUME LimitAssumption == Limit \in Nat
ASSUME BatchAssumption == MaxBatch \in Nat \ {0}
ASSUME EventsAssumption == MaxEvents \in Nat
ASSUME TearAssumption == Tear \in BOOLEAN
ASSUME NobodyAssumption == Nobody \notin Writers

VARIABLES
  current,  \* the writes in log.jsonl
  older,    \* the writes in log.jsonl.1
  gen,      \* rotations so far
  lock,     \* who holds the flock on log.jsonl.lock
  clock,    \* the wall clock, one tick per event
  pc,       \* where each hook process is in AppendLog
  batch,    \* the lines each hook process has still to write
  fd,       \* the generation each hook process holds open
  acked,    \* the writes that succeeded, with the generation each went to
  rpc,      \* where each reader is in readLog
  seen,     \* the two files as each reader read them
  owed      \* the acknowledged lines that were there when the reader began

files == <<current, older, gen>>
writerVars == <<lock, clock, pc, batch, fd, acked>>
readerVars == <<rpc, seen, owed>>
vars == <<files, writerVars, readerVars>>

Line == [at : 1..MaxEvents, n : 1..MaxBatch, by : Writers]
Write == [line : Line, end : {"whole", "bare", "torn"}]

\* The writes of f that parse: a line that starts where a line starts, and ends
\* where one ends or where the file does.
Parses(f) ==
  {i \in DOMAIN f : /\ i = 1 \/ f[i - 1].end = "whole"
                    /\ f[i].end = "whole" \/ (f[i].end = "bare" /\ i = Len(f))}
Lines(f) == {f[i].line : i \in Parses(f)}

\* The line f ends in, where it is read though its newline is missing.
Unended(f) == {f[i].line : i \in {j \in Parses(f) : f[j].end = "bare"}}
Readable == Lines(older) \cup Lines(current)

Full(f) == Len(f) > Limit

Init ==
  /\ current = <<>> /\ older = <<>> /\ gen = 0
  /\ lock = Nobody /\ clock = 0
  /\ pc = [w \in Writers |-> "idle"]
  /\ batch = [w \in Writers |-> <<>>]
  /\ fd = [w \in Writers |-> 0]
  /\ acked = {}
  /\ rpc = [r \in Readers |-> "idle"]
  /\ seen = [r \in Readers |-> [older |-> <<>>, current |-> <<>>]]
  /\ owed = [r \in Readers |-> {}]

Goto(w, place) == pc' = [pc EXCEPT ![w] = place]

\* Mutant: A lock file made with O_EXCL instead of flock: a killed hook leaves it locked.
Leave_KeepsLock(w) ==
  /\ Goto(w, "idle")
  /\ batch' = [batch EXCEPT ![w] = <<>>]
  /\ UNCHANGED lock

\* The hook is done with the log: its descriptors close, and with them the lock.
Leave(w) ==
  /\ Goto(w, "idle")
  /\ batch' = [batch EXCEPT ![w] = <<>>]
  /\ lock' = IF lock = w THEN Nobody ELSE lock

\* Mutant: record without its return when no payload earned a line.
Record_NoLines(w) ==
  /\ pc[w] = "idle" /\ clock < MaxEvents
  /\ clock' = clock + 1
  /\ \E n \in 0..MaxBatch :
       batch' = [batch EXCEPT ![w] =
                   [i \in 1..n |-> [at |-> clock + 1, n |-> i, by |-> w]]]
  /\ Goto(w, "stat")
  /\ UNCHANGED <<files, lock, fd, acked, readerVars>>

\* record stamps its event's lines, all with one time, before any file is touched.
Record(w) ==
  /\ pc[w] = "idle" /\ clock < MaxEvents
  /\ clock' = clock + 1
  /\ \E n \in 1..MaxBatch :
       batch' = [batch EXCEPT ![w] =
                   [i \in 1..n |-> [at |-> clock + 1, n |-> i, by |-> w]]]
  /\ Goto(w, "stat")
  /\ UNCHANGED <<files, lock, fd, acked, readerVars>>

\* AppendLog's first look, taken without the lock.
StatLog(w) ==
  /\ pc[w] = "stat"
  /\ Goto(w, IF Full(current) THEN "lock" ELSE "open")
  /\ UNCHANGED <<files, lock, clock, batch, fd, acked, readerVars>>

\* flock(LOCK_EX) blocks until the lock is free.
TakeLock(w) ==
  /\ pc[w] = "lock" /\ lock = Nobody
  /\ lock' = w
  /\ Goto(w, "recheck")
  /\ UNCHANGED <<files, clock, batch, fd, acked, readerVars>>

\* Mutant: rotate without its second look, under the lock: "Another hook rotated it first".
Recheck_NoSecondLook(w) ==
  /\ pc[w] = "recheck"
  /\ Goto(w, "rename")
  /\ UNCHANGED <<files, lock, clock, batch, fd, acked, readerVars>>

\* The second look, under the lock: another hook may have rotated it first.
Recheck(w) ==
  /\ pc[w] = "recheck"
  /\ IF Full(current)
       THEN Goto(w, "rename") /\ UNCHANGED lock
       ELSE Goto(w, "open") /\ lock' = Nobody
  /\ UNCHANGED <<files, clock, batch, fd, acked, readerVars>>

\* rename(2) replaces the older generation; the deferred Close frees the lock.
Rename(w) ==
  /\ pc[w] = "rename"
  /\ older' = current /\ current' = <<>> /\ gen' = gen + 1
  /\ lock' = Nobody
  /\ Goto(w, "open")
  /\ UNCHANGED <<clock, batch, fd, acked, readerVars>>

\* Mutant: O_TRUNC for O_APPEND.
Open_Truncates(w) ==
  /\ pc[w] = "open"
  /\ fd' = [fd EXCEPT ![w] = gen]
  /\ current' = <<>>
  /\ Goto(w, "write")
  /\ UNCHANGED <<older, gen, lock, clock, batch, acked, readerVars>>

\* appendFile opens what log.jsonl names now, creating it when nothing is there.
Open(w) ==
  /\ pc[w] = "open"
  /\ fd' = [fd EXCEPT ![w] = gen]
  /\ Goto(w, "write")
  /\ UNCHANGED <<files, lock, clock, batch, acked, readerVars>>

\* Mutant: The file opened again for every chunk.
AppendTo_Reopens(w, end) ==
  LET put == [line |-> Head(batch[w]), end |-> end] IN
  /\ current' = Append(current, put)
  /\ UNCHANGED <<older, gen>>

\* Mutant: Without O_APPEND the write lands where the descriptor's offset is, the start.
AppendTo_Overwrites(w, end) ==
  LET put == [line |-> Head(batch[w]), end |-> end] IN
  /\ current' = IF fd[w] = gen THEN <<put>> \o Tail(current \o <<put>>) ELSE current
  /\ older' = IF fd[w] + 1 = gen THEN Append(older, put) ELSE older
  /\ UNCHANGED gen

\* One O_APPEND write through w's descriptor, to whichever generation it is.
AppendTo(w, end) ==
  LET put == [line |-> Head(batch[w]), end |-> end] IN
  /\ current' = IF fd[w] = gen THEN Append(current, put) ELSE current
  /\ older' = IF fd[w] + 1 = gen THEN Append(older, put) ELSE older
  /\ UNCHANGED gen

\* One chunk of appendFile's loop.  The last one closes the file and AppendLog
\* returns nil.
WriteLine(w) ==
  /\ pc[w] = "write"
  /\ AppendTo(w, "whole")
  /\ acked' = acked \cup {[line |-> Head(batch[w]), in |-> fd[w]]}
  /\ batch' = [batch EXCEPT ![w] = Tail(batch[w])]
  /\ Goto(w, IF Len(batch[w]) = 1 THEN "idle" ELSE "write")
  /\ UNCHANGED <<lock, clock, fd, readerVars>>

\* The disk fills inside a write: part of the line lands, and it may be all but
\* its newline.  Write returns the error, and the loop stops there.
ShortWrite(w) ==
  /\ Tear /\ pc[w] = "write"
  /\ \E end \in {"bare", "torn"} : AppendTo(w, end)
  /\ Leave(w)
  /\ UNCHANGED <<clock, fd, acked, readerVars>>

\* A system call of rotate or appendFile fails and AppendLog returns its error,
\* or the harness kills the hook: nothing more is written, and the lock is freed.
GiveUp(w) ==
  /\ pc[w] # "idle"
  /\ Leave(w)
  /\ UNCHANGED <<files, clock, fd, acked, readerVars>>

\* Mutant: The two paths of LogFiles mixed up: log.jsonl is read twice.
ReadOlder_WrongFile(r) ==
  /\ rpc[r] = "idle"
  /\ seen' = [seen EXCEPT ![r] = [older |-> current, current |-> <<>>]]
  /\ owed' = [owed EXCEPT ![r] = {a.line : a \in acked} \cap Readable]
  /\ rpc' = [rpc EXCEPT ![r] = "between"]
  /\ UNCHANGED <<files, writerVars>>

\* readLog reads the older generation first ...
ReadOlder(r) ==
  /\ rpc[r] = "idle"
  /\ seen' = [seen EXCEPT ![r] = [older |-> older, current |-> <<>>]]
  /\ owed' = [owed EXCEPT ![r] = {a.line : a \in acked} \cap Readable]
  /\ rpc' = [rpc EXCEPT ![r] = "between"]
  /\ UNCHANGED <<files, writerVars>>

\* ... and log.jsonl after it.
ReadCurrent(r) ==
  /\ rpc[r] = "between"
  /\ seen' = [seen EXCEPT ![r].current = current]
  /\ owed' = [owed EXCEPT ![r] = @ \cap Readable]
  /\ rpc' = [rpc EXCEPT ![r] = "done"]
  /\ UNCHANGED <<files, writerVars>>

\* The command ends; the same place in the model runs the next one.
ReadAgain(r) ==
  /\ rpc[r] = "done"
  /\ rpc' = [rpc EXCEPT ![r] = "idle"]
  /\ seen' = [seen EXCEPT ![r] = [older |-> <<>>, current |-> <<>>]]
  /\ owed' = [owed EXCEPT ![r] = {}]
  /\ UNCHANGED <<files, writerVars>>

Step(w) ==
  StatLog(w) \/ TakeLock(w) \/ Recheck(w) \/ Rename(w) \/ Open(w) \/ WriteLine(w)

Next ==
  \/ \E w \in Writers : Record(w) \/ Step(w) \/ ShortWrite(w) \/ GiveUp(w)
  \/ \E r \in Readers : ReadOlder(r) \/ ReadCurrent(r) \/ ReadAgain(r)

Spec == Init /\ [][Next]_vars

\* A running process is scheduled, and flock wakes its waiters in turn, so a lock
\* that keeps coming free is taken.  Nobody has to record, read, fail or be killed.
FairSpec ==
  Spec /\ \A w \in Writers : WF_vars(Step(w)) /\ SF_vars(TakeLock(w))

-----------------------------------------------------------------------------
TypeOK ==
  /\ current \in Seq(Write) /\ older \in Seq(Write)
  /\ gen \in Nat /\ clock \in 0..MaxEvents
  /\ lock \in Writers \cup {Nobody}
  /\ pc \in [Writers -> {"idle", "stat", "lock", "recheck", "rename", "open", "write"}]
  /\ batch \in [Writers -> Seq(Line)]
  /\ \A w \in Writers : pc[w] # "idle" => batch[w] # <<>>
  /\ fd \in [Writers -> Nat]
  /\ acked \subseteq [line : Line, in : Nat]
  /\ rpc \in [Readers -> {"idle", "between", "done"}]
  /\ seen \in [Readers -> [older : Seq(Write), current : Seq(Write)]]
  /\ owed \in [Readers -> SUBSET Line]

\* Rotation keeps a full generation: from the first rotation on, log.jsonl.1
\* holds more than Limit lines, however many hooks saw the log full at once.
\* This is what rotate's lock and its second look are for.
Retention == gen > 0 => Full(older)

\* A line that could be read stops being readable in two ways: a rotation discards
\* the generation before the one it keeps, and what it keeps is full; or the line was
\* the file's last and without its newline, and a write is glued to it.  The second
\* never befalls a line whose writer was told it is in the log.
LeavesByAge ==
  [][\A l \in Readable \ Readable' :
       \/ gen' = gen + 1 /\ l \in Lines(older) /\ Full(older')
       \/ /\ l \in Unended(older) \cup Unended(current)
          /\ l \notin {a.line : a \in acked'}]_vars

\* No line is read twice, whatever rotates between the reads of the two files:
\* the older generation is read first, so a file can only move behind the reader.
ReadOnce ==
  \A r \in Readers : rpc[r] = "done" =>
    Lines(seen[r].older) \cap Lines(seen[r].current) = {}

\* A line whose write succeeded is in the file the writer had open for as long as
\* that file is one of the two generations, and can be read unless a write that
\* stopped short is right before it: appends take no lock, and lose nothing.
AckedIsKept ==
  \A a \in acked :
    LET f == IF a.in = gen THEN current ELSE older IN
    a.in + 1 >= gen =>
      \E i \in DOMAIN f : /\ f[i] = [line |-> a.line, end |-> "whole"]
                          /\ i \in Parses(f) \/ f[i - 1].end # "whole"

\* The lines of one event are never split between the generations: appendFile
\* keeps one descriptor for them, and a rotation moves it with its file.
EventTogether ==
  \A i \in DOMAIN older, j \in DOMAIN current :
    older[i].line.at # current[j].line.at

\* Every append ends: no hook waits for the lock for ever, even where the holder
\* was killed, so the log never wedges the harness.
AppendEnds == \A w \in Writers : pc[w] # "idle" ~> pc[w] = "idle"

-----------------------------------------------------------------------------
\* readLog's comment: "every line of the Decision log, oldest first, across both
\* generations".  A line acknowledged before the command began and still in the
\* files when it read the last one is among the lines it read.
ReadComplete ==
  \A r \in Readers : rpc[r] = "done" =>
    owed[r] \subseteq Lines(seen[r].older) \cup Lines(seen[r].current)
=============================================================================
