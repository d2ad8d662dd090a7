------------------------- MODULE DecisionLogProofs -------------------------
(***************************************************************************)
(* Theorems about the Decision log, for any number of hooks and readers,   *)
(* any limit and any bound on the events.                                  *)
(*                                                                         *)
(* TypeOK is inductive.  Retention is not: a hook about to rename must     *)
(* still find the log full, which holds because it looked under the lock   *)
(* (LockHeld), appends only lengthen the file, and the lock keeps every    *)
(* other rotation out (StillFull).                                         *)
(***************************************************************************)
EXTENDS DecisionLog, SequenceTheorems, TLAPS

\* A hook between its second look and its rename holds the lock.
LockHeld == \A w \in Writers : pc[w] \in {"recheck", "rename"} => lock = w

\* What a hook is about to rename away is full.
StillFull == \A w \in Writers : pc[w] = "rename" => Full(current)

\* How a write may land.
Ends == {"whole", "bare", "torn"}

RotateInv == TypeOK /\ LockHeld /\ StillFull /\ Retention

-----------------------------------------------------------------------------
\* What AppendTo does to the two files: each stays a sequence of writes and
\* keeps its length or grows by one.
LEMMA AppendToFacts ==
  ASSUME TypeOK, NEW w \in Writers, batch[w] # <<>>, NEW b \in Ends, AppendTo(w, b)
  PROVE  /\ current' \in Seq(Write) /\ older' \in Seq(Write) /\ gen' = gen
         /\ Len(current) <= Len(current') /\ Len(older) <= Len(older')
         /\ Head(batch[w]) \in Line
<1> DEFINE put == [line |-> Head(batch[w]), end |-> b]
<1>1. batch[w] \in Seq(Line) BY DEF TypeOK
<1>2. Head(batch[w]) \in Line BY <1>1
<1>3. put \in Write BY <1>2 DEF Write, Ends
<1>4. /\ current \in Seq(Write) /\ older \in Seq(Write) BY DEF TypeOK
<1> HIDE DEF put
<1>5. /\ Append(current, put) \in Seq(Write) /\ Append(older, put) \in Seq(Write)
      /\ Len(Append(current, put)) = Len(current) + 1
      /\ Len(Append(older, put)) = Len(older) + 1
  BY <1>3, <1>4
<1>6. /\ current' = IF fd[w] = gen THEN Append(current, put) ELSE current
      /\ older' = IF fd[w] + 1 = gen THEN Append(older, put) ELSE older
      /\ gen' = gen
  BY DEF AppendTo, put
<1>7. Len(current) \in Nat /\ Len(older) \in Nat BY <1>4
<1> QED BY <1>2, <1>4, <1>5, <1>6, <1>7

\* What parses in a file is a line some hook meant to write.
LEMMA LinesAreLines ==
  ASSUME NEW f \in Seq(Write)
  PROVE  Lines(f) \subseteq Line
<1> SUFFICES ASSUME NEW i \in Parses(f) PROVE f[i].line \in Line BY DEF Lines
<1>1. f[i] \in Write BY DEF Parses
<1> QED BY <1>1 DEF Write

\* The type invariant is inductive: AppendLog's and readLog's state always makes
\* sense, and a hook inside AppendLog always has a line left to write.
LEMMA TypeInductive == TypeOK /\ [Next]_vars => TypeOK'
<1> SUFFICES ASSUME TypeOK, [Next]_vars PROVE TypeOK' OBVIOUS
<1> USE LimitAssumption, BatchAssumption, EventsAssumption, TearAssumption
<1>1. ASSUME NEW w \in Writers, Record(w) PROVE TypeOK'
  <2>1. PICK n \in 1..MaxBatch :
          batch' = [batch EXCEPT ![w] =
                      [i \in 1..n |-> [at |-> clock + 1, n |-> i, by |-> w]]]
    BY <1>1 DEF Record
  <2> DEFINE mine == [i \in 1..n |-> [at |-> clock + 1, n |-> i, by |-> w]]
  <2>2. clock \in 0..MaxEvents /\ clock < MaxEvents /\ clock' = clock + 1
    BY <1>1 DEF Record, TypeOK
  <2>3. \A i \in 1..n : [at |-> clock + 1, n |-> i, by |-> w] \in Line
    BY <2>2 DEF Line
  <2>4. mine \in Seq(Line) /\ Len(mine) = n /\ n > 0
    BY <2>3
  <2> HIDE DEF mine
  <2>5. batch' \in [Writers -> Seq(Line)] /\ batch'[w] # <<>>
    <3>1. batch' = [batch EXCEPT ![w] = mine] BY <2>1 DEF mine
    <3>2. mine # <<>> BY <2>4
    <3> QED BY <2>4, <3>1, <3>2 DEF TypeOK
  <2>6. \A x \in Writers : pc'[x] # "idle" => batch'[x] # <<>>
    <3> SUFFICES ASSUME NEW x \in Writers, pc'[x] # "idle" PROVE batch'[x] # <<>> OBVIOUS
    <3>1. CASE x = w BY <2>5, <3>1
    <3>2. CASE x # w BY <1>1, <2>1, <3>2 DEF Record, Goto, TypeOK
    <3> QED BY <3>1, <3>2
  <2>7. pc' = [pc EXCEPT ![w] = "stat"] /\ UNCHANGED <<files, lock, fd, acked, readerVars>>
    BY <1>1 DEF Record, Goto
  <2>8. clock' \in 0..MaxEvents BY <2>2
  <2> QED BY <2>5, <2>6, <2>7, <2>8 DEF TypeOK, files, readerVars
<1>2. ASSUME NEW w \in Writers, StatLog(w) PROVE TypeOK'
  BY <1>2 DEF TypeOK, StatLog, Goto, files, readerVars
<1>3. ASSUME NEW w \in Writers, TakeLock(w) PROVE TypeOK'
  BY <1>3 DEF TypeOK, TakeLock, Goto, files, readerVars
<1>4. ASSUME NEW w \in Writers, Recheck(w) PROVE TypeOK'
  BY <1>4 DEF TypeOK, Recheck, Goto, files, readerVars
<1>5. ASSUME NEW w \in Writers, Rename(w) PROVE TypeOK'
  BY <1>5 DEF TypeOK, Rename, Goto, files, readerVars
<1>6. ASSUME NEW w \in Writers, Open(w) PROVE TypeOK'
  BY <1>6 DEF TypeOK, Open, Goto, files, readerVars
<1>7. ASSUME NEW w \in Writers, WriteLine(w) PROVE TypeOK'
  <2>1. batch[w] \in Seq(Line) /\ batch[w] # <<>> BY <1>7 DEF TypeOK, WriteLine
  <2>2. /\ current' \in Seq(Write) /\ older' \in Seq(Write) /\ gen' = gen
        /\ Head(batch[w]) \in Line
    BY <1>7, <2>1, AppendToFacts DEF WriteLine, Ends
  <2>3. Tail(batch[w]) \in Seq(Line) /\ Len(Tail(batch[w])) = Len(batch[w]) - 1
    BY <2>1
  <2>4. batch' \in [Writers -> Seq(Line)] BY <1>7, <2>3 DEF WriteLine, TypeOK
  <2>5. \A x \in Writers : pc'[x] # "idle" => batch'[x] # <<>>
    <3> SUFFICES ASSUME NEW x \in Writers, pc'[x] # "idle" PROVE batch'[x] # <<>> OBVIOUS
    <3>1. CASE x = w
      <4>1. Len(batch[w]) # 1 BY <1>7, <3>1 DEF WriteLine, Goto, TypeOK
      <4>2. Len(Tail(batch[w])) # 0 BY <2>1, <2>3, <4>1
      <4>3. Tail(batch[w]) # <<>>
        <5>1. Len(<<>>) = 0 OBVIOUS
        <5> QED BY <4>2, <5>1, Zenon
      <4>4. batch'[x] = Tail(batch[w]) BY <1>7, <3>1 DEF WriteLine, TypeOK
      <4> QED BY <4>3, <4>4
    <3>2. CASE x # w BY <1>7, <3>2 DEF WriteLine, Goto, TypeOK
    <3> QED BY <3>1, <3>2
  <2>6. acked' \subseteq [line : Line, in : Nat]
    BY <1>7, <2>2 DEF WriteLine, TypeOK
  <2> QED BY <1>7, <2>2, <2>4, <2>5, <2>6 DEF TypeOK, WriteLine, Goto, readerVars
<1>8. ASSUME NEW w \in Writers, ShortWrite(w) PROVE TypeOK'
  <2>1. batch[w] # <<>> BY <1>8 DEF TypeOK, ShortWrite
  <2>2. current' \in Seq(Write) /\ older' \in Seq(Write) /\ gen' = gen
    BY <1>8, <2>1, AppendToFacts DEF ShortWrite, Ends
  <2> QED BY <1>8, <2>2 DEF TypeOK, ShortWrite, Leave, Goto, readerVars
<1>9. ASSUME NEW w \in Writers, GiveUp(w) PROVE TypeOK'
  BY <1>9 DEF TypeOK, GiveUp, Leave, Goto, files, readerVars
<1>10. Readable \subseteq Line
  <2>1. current \in Seq(Write) /\ older \in Seq(Write) BY DEF TypeOK
  <2> QED BY <2>1, LinesAreLines DEF Readable
<1>11. ASSUME NEW r \in Readers, ReadOlder(r) PROVE TypeOK'
  <2>1. <<>> \in Seq(Write) OBVIOUS
  <2> QED BY <1>10, <1>11, <2>1 DEF TypeOK, ReadOlder, files, writerVars
<1>12. ASSUME NEW r \in Readers, ReadCurrent(r) PROVE TypeOK'
  <2>1. seen[r] \in [older : Seq(Write), current : Seq(Write)] BY DEF TypeOK
  <2>2. seen' \in [Readers -> [older : Seq(Write), current : Seq(Write)]]
    BY <1>12, <2>1 DEF TypeOK, ReadCurrent
  <2> QED BY <1>10, <1>12, <2>2 DEF TypeOK, ReadCurrent, files, writerVars
<1>13. ASSUME NEW r \in Readers, ReadAgain(r) PROVE TypeOK'
  BY <1>13 DEF TypeOK, ReadAgain, files, writerVars
<1>14. ASSUME UNCHANGED vars PROVE TypeOK'
  BY <1>14 DEF TypeOK, vars, files, writerVars, readerVars
<1> QED BY <1>1, <1>2, <1>3, <1>4, <1>5, <1>6, <1>7, <1>8, <1>9, <1>11, <1>12, <1>13,
           <1>14 DEF Next, Step

\* The state AppendLog and readLog keep is always well formed.
THEOREM TypeCorrect == Spec => []TypeOK
<1>1. Init => TypeOK
  BY EventsAssumption DEF Init, TypeOK
<1> QED BY <1>1, TypeInductive, PTL DEF Spec

-----------------------------------------------------------------------------
\* One step keeps the rotation's invariant.
LEMMA RotateInductive == RotateInv /\ [Next]_vars => RotateInv'
<1> SUFFICES ASSUME RotateInv, [Next]_vars PROVE RotateInv' OBVIOUS
<1> USE NobodyAssumption, LimitAssumption
<1>t. TypeOK /\ LockHeld /\ StillFull /\ Retention BY DEF RotateInv
<1>T. TypeOK' BY <1>t, TypeInductive
<1>n. Len(current) \in Nat /\ Len(older) \in Nat BY <1>t DEF TypeOK
<1>m. Len(current') \in Nat /\ Len(older') \in Nat BY <1>T DEF TypeOK
\* A step that leaves the files as they are, takes no lock, and takes nobody to
\* the second look or past it.
<1>q. ASSUME UNCHANGED files, lock' = lock,
             \A x \in Writers : pc'[x] \in {"recheck", "rename"} => pc'[x] = pc[x]
      PROVE  RotateInv'
  BY <1>t, <1>T, <1>q DEF RotateInv, LockHeld, StillFull, Retention, Full, files
\* A step by which one hook leaves the log, its lock with it, and files only grow.
<1>l. ASSUME NEW w \in Writers, Leave(w), gen' = gen,
             Len(current) <= Len(current'), Len(older) <= Len(older')
      PROVE  RotateInv'
  <2>1. pc' = [pc EXCEPT ![w] = "idle"] BY <1>l DEF Leave, Goto
  <2>2. \A x \in Writers : pc'[x] \in {"recheck", "rename"} => x # w /\ pc'[x] = pc[x]
    BY <1>t, <2>1 DEF TypeOK
  <2>3. LockHeld' BY <1>t, <1>l, <2>2 DEF LockHeld, Leave
  <2>4. StillFull' BY <1>t, <1>l, <1>n, <1>m, <2>2 DEF StillFull, Full
  <2>5. Retention' BY <1>t, <1>l, <1>n, <1>m DEF Retention, Full
  <2> QED BY <1>T, <2>3, <2>4, <2>5 DEF RotateInv
<1>1. ASSUME NEW w \in Writers, Record(w) PROVE RotateInv'
  BY <1>1, <1>t, <1>q DEF Record, Goto, TypeOK
<1>2. ASSUME NEW w \in Writers, StatLog(w) PROVE RotateInv'
  BY <1>2, <1>t, <1>q DEF StatLog, Goto, TypeOK
<1>3. ASSUME NEW w \in Writers, TakeLock(w) PROVE RotateInv'
  <2>1. /\ lock = Nobody /\ lock' = w /\ UNCHANGED files
        /\ pc' = [pc EXCEPT ![w] = "recheck"]
    BY <1>3 DEF TakeLock, Goto
  <2>2. \A x \in Writers : pc[x] \notin {"recheck", "rename"}
    BY <1>t, <2>1 DEF LockHeld
  <2>3. LockHeld' /\ StillFull' BY <1>t, <2>1, <2>2 DEF LockHeld, StillFull, TypeOK
  <2> QED BY <1>T, <1>t, <2>1, <2>3 DEF RotateInv, Retention, Full, files
<1>4. ASSUME NEW w \in Writers, Recheck(w) PROVE RotateInv'
  <2>1. lock = w BY <1>t, <1>4 DEF LockHeld, Recheck
  <2>2. \A x \in Writers : x # w => pc[x] \notin {"recheck", "rename"}
    BY <1>t, <2>1 DEF LockHeld
  <2>3. LockHeld' /\ StillFull'
    BY <1>t, <1>4, <2>1, <2>2 DEF LockHeld, StillFull, Recheck, Goto, TypeOK, Full, files
  <2> QED BY <1>T, <1>t, <1>4, <2>3 DEF RotateInv, Retention, Full, Recheck, files
<1>5. ASSUME NEW w \in Writers, Rename(w) PROVE RotateInv'
  <2>1. lock = w /\ Full(current) BY <1>t, <1>5 DEF LockHeld, StillFull, Rename
  <2>2. \A x \in Writers : pc'[x] \notin {"recheck", "rename"}
    BY <1>t, <1>5, <2>1 DEF LockHeld, Rename, Goto, TypeOK
  <2>3. Retention' BY <1>5, <2>1 DEF Retention, Full, Rename
  <2> QED BY <1>T, <2>2, <2>3 DEF RotateInv, LockHeld, StillFull
<1>6. ASSUME NEW w \in Writers, Open(w) PROVE RotateInv'
  BY <1>6, <1>t, <1>q DEF Open, Goto, TypeOK
<1>7. ASSUME NEW w \in Writers, WriteLine(w) PROVE RotateInv'
  <2>1. batch[w] # <<>> BY <1>7, <1>t DEF TypeOK, WriteLine
  <2>2. gen' = gen /\ Len(current) <= Len(current') /\ Len(older) <= Len(older')
    BY <1>7, <1>t, <2>1, AppendToFacts DEF WriteLine, Ends
  <2>3. lock' = lock /\ \A x \in Writers :
          pc'[x] \in {"recheck", "rename"} => pc'[x] = pc[x]
    BY <1>7, <1>t DEF WriteLine, Goto, TypeOK
  <2>4. LockHeld' BY <1>t, <2>3 DEF LockHeld
  <2>5. StillFull' BY <1>t, <1>n, <1>m, <2>2, <2>3 DEF StillFull, Full
  <2>6. Retention' BY <1>t, <1>n, <1>m, <2>2 DEF Retention, Full
  <2> QED BY <1>T, <2>4, <2>5, <2>6 DEF RotateInv
<1>8. ASSUME NEW w \in Writers, ShortWrite(w) PROVE RotateInv'
  <2>1. batch[w] # <<>> BY <1>8, <1>t DEF TypeOK, ShortWrite
  <2> QED BY <1>8, <1>t, <1>l, <2>1, AppendToFacts DEF ShortWrite, Ends
<1>9. ASSUME NEW w \in Writers, GiveUp(w) PROVE RotateInv'
  BY <1>9, <1>n, <1>l DEF GiveUp, files
<1>10. ASSUME NEW r \in Readers, ReadOlder(r) \/ ReadCurrent(r) \/ ReadAgain(r)
       PROVE  RotateInv'
  BY <1>10, <1>q DEF ReadOlder, ReadCurrent, ReadAgain, writerVars
<1>11. ASSUME UNCHANGED vars PROVE RotateInv'
  BY <1>11, <1>q DEF vars, writerVars
<1> QED BY <1>1, <1>2, <1>3, <1>4, <1>5, <1>6, <1>7, <1>8, <1>9, <1>10, <1>11 DEF Next, Step

LEMMA RotateInvariant == Spec => []RotateInv
<1>1. Init => RotateInv
  BY EventsAssumption DEF Init, RotateInv, TypeOK, LockHeld, StillFull, Retention
<1> QED BY <1>1, RotateInductive, PTL DEF Spec

\* From the first rotation on, log.jsonl.1 is a full generation: no rotation ever
\* moves a fresh file over it, however many hooks raced to rotate.
THEOREM RetentionHolds == Spec => []Retention
<1>1. RotateInv => Retention BY DEF RotateInv
<1> QED BY <1>1, RotateInvariant, PTL

-----------------------------------------------------------------------------
\* The events whose lines are in a file, and those a hook has still lines of.
Events(f) == {f[i].line.at : i \in DOMAIN f}
Due(w) == {batch[w][i].at : i \in DOMAIN batch[w]}

\* No hook holds open a generation that is yet to come, and no event is stamped later
\* than the clock.
InTime ==
  /\ \A w \in Writers : fd[w] <= gen
  /\ Events(current) \cup Events(older) \subseteq 1..clock
  /\ \A w \in Writers : Due(w) \subseteq 1..clock
  /\ \A r \in Readers : Events(seen[r].older) \subseteq 1..clock

\* An event is one hook's.
OwnEvents == \A w, x \in Writers : w # x => Due(w) \cap Due(x) = {}

\* An event of which some lines are written gets the others in the same file.
OneFile ==
  /\ Events(current) \cap Events(older) = {}
  /\ \A w \in Writers : \A e \in Due(w) :
       /\ e \in Events(current) => pc[w] = "write" /\ fd[w] = gen
       /\ e \in Events(older) => pc[w] = "write" /\ fd[w] + 1 = gen

\* What a reader took from the older generation never comes to the current one.
ReadApart ==
  \A r \in Readers :
    /\ Events(seen[r].older) \cap (Events(current) \cup Events(seen[r].current)) = {}
    /\ \A w \in Writers : \A e \in Due(w) :
         e \in Events(seen[r].older) => pc[w] = "write" /\ fd[w] < gen

EventInv == TypeOK /\ InTime /\ OwnEvents /\ OneFile /\ ReadApart

\* A line whose write succeeded is in the generation it went to.
Holds(f, l) == \E i \in DOMAIN f : f[i] = [line |-> l, end |-> "whole"]
AckInv ==
  \A a \in acked :
    /\ a.in <= gen
    /\ a.in = gen => Holds(current, a.line)
    /\ a.in + 1 = gen => Holds(older, a.line)

-----------------------------------------------------------------------------
\* A file that gains a write gains its event, and no line is lost from it; a hook that
\* has written a line owes no event more than before.
LEMMA EventsAppend ==
  ASSUME NEW f \in Seq(Write), NEW put \in Write
  PROVE  Events(Append(f, put)) = Events(f) \cup {put.line.at}
<1>1. /\ Len(Append(f, put)) = Len(f) + 1
      /\ Append(f, put)[Len(f) + 1] = put
      /\ \A i \in DOMAIN f : Append(f, put)[i] = f[i]
  OBVIOUS
<1>2. DOMAIN Append(f, put) = DOMAIN f \cup {Len(f) + 1} OBVIOUS
<1> QED BY <1>1, <1>2 DEF Events

LEMMA DueTail ==
  ASSUME TypeOK, NEW w \in Writers, batch[w] # <<>>, batch'[w] = Tail(batch[w])
  PROVE  /\ Due(w)' \subseteq Due(w) /\ Head(batch[w]).at \in Due(w)
         /\ Len(batch[w]) = 1 => Due(w)' = {}
<1>1. batch[w] \in Seq(Line) BY DEF TypeOK
<1>2. /\ Len(batch[w]) \in Nat \ {0} /\ DOMAIN batch[w] = 1..Len(batch[w])
      /\ Head(batch[w]) = batch[w][1]
      /\ DOMAIN Tail(batch[w]) = 1..(Len(batch[w]) - 1)
      /\ \A i \in DOMAIN Tail(batch[w]) : Tail(batch[w])[i] = batch[w][i + 1]
  BY <1>1
<1>3. Head(batch[w]).at \in Due(w) BY <1>2 DEF Due
<1>4. Due(w)' \subseteq Due(w)
  <2> SUFFICES ASSUME NEW i \in DOMAIN Tail(batch[w])
               PROVE  Tail(batch[w])[i].at \in Due(w)
    BY DEF Due
  <2>1. i + 1 \in DOMAIN batch[w] /\ Tail(batch[w])[i] = batch[w][i + 1] BY <1>2
  <2> QED BY <2>1 DEF Due
<1>5. ASSUME Len(batch[w]) = 1 PROVE Due(w)' = {}
  <2>1. DOMAIN Tail(batch[w]) = {} BY <1>2, <1>5
  <2> QED BY <2>1 DEF Due
<1> QED BY <1>3, <1>4, <1>5

\* A chunk of an append puts its event into the file that is open.
LEMMA AppendToEvents ==
  ASSUME TypeOK, NEW w \in Writers, batch[w] # <<>>, NEW b \in Ends, AppendTo(w, b)
  PROVE  LET e == Head(batch[w]).at IN
         /\ Events(current)' = IF fd[w] = gen THEN Events(current) \cup {e} ELSE Events(current)
         /\ Events(older)' = IF fd[w] + 1 = gen THEN Events(older) \cup {e} ELSE Events(older)
         /\ gen' = gen
<1> DEFINE put == [line |-> Head(batch[w]), end |-> b]
<1>1. Head(batch[w]) \in Line BY AppendToFacts
<1>2. put \in Write /\ put.line.at = Head(batch[w]).at BY <1>1 DEF Write, Ends
<1>3. /\ current' = IF fd[w] = gen THEN Append(current, put) ELSE current
      /\ older' = IF fd[w] + 1 = gen THEN Append(older, put) ELSE older
      /\ gen' = gen
  BY DEF AppendTo
<1> HIDE DEF put
<1>4. current \in Seq(Write) /\ older \in Seq(Write) BY DEF TypeOK
<1>5. /\ Events(Append(current, put)) = Events(current) \cup {Head(batch[w]).at}
      /\ Events(Append(older, put)) = Events(older) \cup {Head(batch[w]).at}
  BY <1>2, <1>4, EventsAppend
<1>6. /\ Events(current)' = IF fd[w] = gen THEN Events(Append(current, put)) ELSE Events(current)
      /\ Events(older)' = IF fd[w] + 1 = gen THEN Events(Append(older, put)) ELSE Events(older)
  BY <1>3 DEF Events
<1> QED BY <1>3, <1>5, <1>6

\* The files, the readers and the descriptors stay, and hooks come to owe nothing more:
\* what is left to show of most steps.
LEMMA EventQuiet ==
  ASSUME EventInv, TypeOK', UNCHANGED <<files, clock, fd, seen>>,
         \A w \in Writers : Due(w)' \subseteq Due(w),
         \A w \in Writers : pc[w] = "write" => pc'[w] = "write" \/ Due(w)' = {}
  PROVE  EventInv'
<1>1. TypeOK /\ InTime /\ OwnEvents /\ OneFile /\ ReadApart BY DEF EventInv
<1>2. /\ Events(current)' = Events(current) /\ Events(older)' = Events(older)
      /\ gen' = gen /\ clock' = clock /\ fd' = fd /\ seen' = seen
      /\ \A r \in Readers : Events(seen[r].older)' = Events(seen[r].older)
                         /\ Events(seen[r].current)' = Events(seen[r].current)
  BY DEF files, Events
<1>3. InTime' BY <1>1, <1>2 DEF InTime
<1>4. OwnEvents' BY <1>1 DEF OwnEvents
<1>5. OneFile' BY <1>1, <1>2 DEF OneFile
<1>6. ReadApart' BY <1>1, <1>2 DEF ReadApart
<1> QED BY <1>3, <1>4, <1>5, <1>6 DEF EventInv

\* One hook writes a line, whole or not.
LEMMA EventWrite ==
  ASSUME EventInv, TypeOK', NEW w \in Writers, NEW b \in Ends, pc[w] = "write", AppendTo(w, b),
         UNCHANGED <<clock, fd, seen>>,
         Due(w)' \subseteq Due(w), pc'[w] = "write" \/ Due(w)' = {},
         \A x \in Writers : x # w => pc'[x] = pc[x] /\ batch'[x] = batch[x]
  PROVE  EventInv'
<1>1. TypeOK /\ InTime /\ OwnEvents /\ OneFile /\ ReadApart BY DEF EventInv
<1> DEFINE e == Head(batch[w]).at
<1>2. batch[w] # <<>> BY <1>1 DEF TypeOK
<1>3. e \in Due(w)
  <2>1. batch[w] \in Seq(Line) BY <1>1 DEF TypeOK
  <2>2. 1 \in DOMAIN batch[w] /\ Head(batch[w]) = batch[w][1] BY <1>2, <2>1
  <2> QED BY <2>2 DEF Due
<1>4. /\ Events(current)' = IF fd[w] = gen THEN Events(current) \cup {e} ELSE Events(current)
      /\ Events(older)' = IF fd[w] + 1 = gen THEN Events(older) \cup {e} ELSE Events(older)
      /\ gen' = gen
  BY <1>1, <1>2, AppendToEvents
<1>5. \A x \in Writers : x # w => Due(x)' = Due(x) BY DEF Due
<1>6. \A r \in Readers : /\ Events(seen[r].older)' = Events(seen[r].older)
                        /\ Events(seen[r].current)' = Events(seen[r].current)
  BY DEF Events
<1>7. \A x \in Writers : x # w => e \notin Due(x) BY <1>1, <1>3 DEF OwnEvents
<1>8. fd[w] \in Nat /\ gen \in Nat BY <1>1 DEF TypeOK
<1>9. ~(fd[w] = gen /\ fd[w] + 1 = gen) BY <1>8
<1> HIDE DEF e
<1>10. InTime' BY <1>1, <1>3, <1>4, <1>5, <1>6 DEF InTime
<1>11. OwnEvents' BY <1>1, <1>5 DEF OwnEvents
<1>12. OneFile'
  <2>1. (Events(current) \cap Events(older))' = {}
    BY <1>1, <1>3, <1>4, <1>8, <1>9 DEF OneFile
  <2>2. ASSUME NEW d \in Due(w)'
        PROVE  /\ d \in Events(current)' => pc'[w] = "write" /\ fd[w] = gen
               /\ d \in Events(older)' => pc'[w] = "write" /\ fd[w] + 1 = gen
    <3>1. pc'[w] = "write" /\ d \in Due(w) BY <2>2
    <3> QED BY <1>1, <1>4, <3>1 DEF OneFile
  <2>3. ASSUME NEW x \in Writers, x # w, NEW d \in Due(x)'
        PROVE  /\ d \in Events(current)' => pc'[x] = "write" /\ fd[x] = gen
               /\ d \in Events(older)' => pc'[x] = "write" /\ fd[x] + 1 = gen
    BY <1>1, <1>4, <1>5, <1>7, <2>3 DEF OneFile
  <2> QED BY <1>4, <2>1, <2>2, <2>3 DEF OneFile
<1>13. ReadApart'
  <2>1. ASSUME NEW r \in Readers
        PROVE  Events(seen[r].older) \cap (Events(current)' \cup Events(seen[r].current)) = {}
    BY <1>1, <1>3, <1>4, <1>8 DEF ReadApart
  <2>2. ASSUME NEW r \in Readers, NEW x \in Writers, NEW d \in Due(x)', d \in Events(seen[r].older)
        PROVE  pc'[x] = "write" /\ fd[x] < gen
    <3>1. d \in Due(x) BY <1>5, <2>2
    <3>2. pc[x] = "write" /\ fd[x] < gen BY <1>1, <2>2, <3>1 DEF ReadApart
    <3> QED BY <2>2, <3>2
  <2> QED BY <1>4, <1>6, <2>1, <2>2 DEF ReadApart
<1> QED BY <1>10, <1>11, <1>12, <1>13 DEF EventInv

\* One step keeps the lines of an event together.
LEMMA EventInductive == EventInv /\ [Next]_vars => EventInv'
<1> SUFFICES ASSUME EventInv, [Next]_vars PROVE EventInv' OBVIOUS
<1>t. TypeOK /\ InTime /\ OwnEvents /\ OneFile /\ ReadApart BY DEF EventInv
<1>T. TypeOK' BY <1>t, TypeInductive
<1>g. gen \in Nat /\ clock \in Nat /\ fd \in [Writers -> Nat] BY <1>t DEF TypeOK
\* A step of one hook that touches no file and no reader, and at most empties its batch.
<1>q. ASSUME NEW w \in Writers, UNCHANGED <<files, clock, fd, readerVars>>,
             batch' = batch \/ batch' = [batch EXCEPT ![w] = <<>>],
             pc[w] = "write" => batch' = [batch EXCEPT ![w] = <<>>],
             \A x \in Writers : x # w => pc'[x] = pc[x]
      PROVE  EventInv'
  <2>1. batch \in [Writers -> Seq(Line)] BY <1>t DEF TypeOK
  <2>2. \A x \in Writers : Due(x)' \subseteq Due(x) BY <1>q, <2>1 DEF Due
  <2>3. \A x \in Writers : pc[x] = "write" => pc'[x] = "write" \/ Due(x)' = {}
    <3> SUFFICES ASSUME NEW x \in Writers, pc[x] = "write"
                 PROVE  pc'[x] = "write" \/ Due(x)' = {}
      OBVIOUS
    <3>1. CASE x = w BY <1>q, <2>1, <3>1 DEF Due
    <3>2. CASE x # w BY <1>q, <3>2
    <3> QED BY <3>1, <3>2
  <2> QED BY <1>T, <1>q, <2>2, <2>3, EventQuiet DEF readerVars
<1>1. ASSUME NEW w \in Writers, Record(w) PROVE EventInv'
  <2>1. PICK n \in 1..MaxBatch :
          batch' = [batch EXCEPT ![w] =
                      [i \in 1..n |-> [at |-> clock + 1, n |-> i, by |-> w]]]
    BY <1>1 DEF Record
  <2>2. Due(w)' \subseteq {clock + 1} BY <2>1, <1>t DEF Due, TypeOK
  <2>3. \A x \in Writers : x # w => Due(x)' = Due(x) BY <2>1, <1>t DEF Due, TypeOK
  <2>4. /\ clock' = clock + 1 /\ UNCHANGED <<files, fd, readerVars>>
        /\ pc[w] = "idle" /\ pc' = [pc EXCEPT ![w] = "stat"]
    BY <1>1 DEF Record, Goto
  <2>5. /\ Events(current)' = Events(current) /\ Events(older)' = Events(older)
        /\ \A r \in Readers : /\ Events(seen[r].older)' = Events(seen[r].older)
                              /\ Events(seen[r].current)' = Events(seen[r].current)
    BY <2>4 DEF files, readerVars, Events
  \* The event is new: nothing anywhere is of it.
  <2>6. /\ clock + 1 \notin Events(current) \cup Events(older)
        /\ \A x \in Writers : clock + 1 \notin Due(x)
        /\ \A r \in Readers : clock + 1 \notin Events(seen[r].older)
    BY <1>t, <1>g DEF InTime
  <2>7. InTime'
    <3>1. 1..clock \subseteq 1..clock' /\ clock + 1 \in 1..clock' BY <1>g, <2>4
    <3>2. \A x \in Writers : Due(x)' \subseteq 1..clock'
      BY <1>t, <2>2, <2>3, <3>1 DEF InTime
    <3> QED BY <1>t, <2>4, <2>5, <3>1, <3>2 DEF InTime, files
  <2>8. OwnEvents' BY <1>t, <2>2, <2>3, <2>6 DEF OwnEvents
  <2>9. OneFile'
    <3>1. \A e \in Due(w)' : e \notin Events(current)' /\ e \notin Events(older)'
      BY <2>2, <2>5, <2>6
    <3>2. \A x \in Writers : x # w => pc'[x] = pc[x] BY <2>4, <1>t DEF TypeOK
    <3> QED BY <1>t, <2>3, <2>4, <2>5, <3>1, <3>2 DEF OneFile, files
  <2>10. ReadApart'
    <3>1. \A r \in Readers : \A e \in Due(w)' : e \notin Events(seen[r].older)'
      BY <2>2, <2>5, <2>6
    <3>2. \A x \in Writers : x # w => pc'[x] = pc[x] BY <2>4, <1>t DEF TypeOK
    <3> QED BY <1>t, <2>3, <2>4, <2>5, <3>1, <3>2 DEF ReadApart, files
  <2> QED BY <1>T, <2>7, <2>8, <2>9, <2>10 DEF EventInv
<1>2. ASSUME NEW w \in Writers, StatLog(w) \/ TakeLock(w) \/ Recheck(w) PROVE EventInv'
  <2>1. \A x \in Writers : x # w => pc'[x] = pc[x]
    BY <1>2, <1>t DEF StatLog, TakeLock, Recheck, Goto, TypeOK
  <2>2. /\ pc[w] # "write" /\ batch' = batch
        /\ UNCHANGED <<files, clock, fd, readerVars>>
    BY <1>2 DEF StatLog, TakeLock, Recheck
  <2> QED BY <1>q, <2>1, <2>2
<1>3. ASSUME NEW w \in Writers, GiveUp(w) PROVE EventInv'
  <2>1. \A x \in Writers : x # w => pc'[x] = pc[x]
    BY <1>3, <1>t DEF GiveUp, Leave, Goto, TypeOK
  <2>2. /\ batch' = [batch EXCEPT ![w] = <<>>]
        /\ UNCHANGED <<files, clock, fd, readerVars>>
    BY <1>3 DEF GiveUp, Leave
  <2> QED BY <1>q, <2>1, <2>2
\* The file moves, with whatever is in it; a hook that writes keeps its descriptor.
<1>4. ASSUME NEW w \in Writers, Rename(w) PROVE EventInv'
  <2>1. /\ older' = current /\ current' = <<>> /\ gen' = gen + 1
        /\ UNCHANGED <<clock, batch, fd, readerVars>>
        /\ pc[w] = "rename" /\ pc' = [pc EXCEPT ![w] = "open"]
    BY <1>4 DEF Rename, Goto
  <2>2. /\ Events(current)' = {} /\ Events(older)' = Events(current)
        /\ \A r \in Readers : /\ Events(seen[r].older)' = Events(seen[r].older)
                              /\ Events(seen[r].current)' = Events(seen[r].current)
    BY <2>1 DEF Events, readerVars
  <2>3. \A x \in Writers : Due(x)' = Due(x) /\ (pc[x] = "write" => pc'[x] = "write")
    BY <2>1, <1>t DEF Due, TypeOK
  <2>4. InTime' BY <1>t, <1>g, <2>1, <2>2, <2>3 DEF InTime
  <2>5. OwnEvents' BY <1>t, <2>3 DEF OwnEvents
  <2>6. OneFile' BY <1>t, <1>g, <2>1, <2>2, <2>3 DEF OneFile
  <2>7. ReadApart' BY <1>t, <1>g, <2>1, <2>2, <2>3 DEF ReadApart
  <2> QED BY <1>T, <2>4, <2>5, <2>6, <2>7 DEF EventInv
\* A hook that opens the log has written nothing of its event yet.
<1>5. ASSUME NEW w \in Writers, Open(w) PROVE EventInv'
  <2>1. /\ fd' = [fd EXCEPT ![w] = gen] /\ UNCHANGED <<files, clock, batch, readerVars>>
        /\ pc[w] = "open" /\ pc' = [pc EXCEPT ![w] = "write"]
    BY <1>5 DEF Open, Goto
  <2>2. /\ Events(current)' = Events(current) /\ Events(older)' = Events(older) /\ gen' = gen
        /\ \A r \in Readers : /\ Events(seen[r].older)' = Events(seen[r].older)
                              /\ Events(seen[r].current)' = Events(seen[r].current)
        /\ \A x \in Writers : Due(x)' = Due(x)
    BY <2>1 DEF files, readerVars, Events, Due
  <2>3. \A x \in Writers : x # w => pc'[x] = pc[x] /\ fd'[x] = fd[x]
    BY <2>1, <1>t DEF TypeOK
  <2>4. \A e \in Due(w) : /\ e \notin Events(current) /\ e \notin Events(older)
                          /\ \A r \in Readers : e \notin Events(seen[r].older)
    BY <1>t, <2>1 DEF OneFile, ReadApart
  <2>5. InTime' BY <1>t, <1>g, <2>1, <2>2 DEF InTime
  <2>6. OwnEvents' BY <1>t, <2>2 DEF OwnEvents
  <2>7. OneFile' BY <1>t, <2>2, <2>3, <2>4 DEF OneFile
  <2>8. ReadApart' BY <1>t, <2>2, <2>3, <2>4 DEF ReadApart
  <2> QED BY <1>T, <2>5, <2>6, <2>7, <2>8 DEF EventInv
<1>6. ASSUME NEW w \in Writers, WriteLine(w) PROVE EventInv'
  <2>1. /\ pc[w] = "write" /\ AppendTo(w, "whole") /\ UNCHANGED <<clock, fd, readerVars>>
        /\ batch' = [batch EXCEPT ![w] = Tail(batch[w])]
        /\ pc' = [pc EXCEPT ![w] = IF Len(batch[w]) = 1 THEN "idle" ELSE "write"]
    BY <1>6 DEF WriteLine, Goto
  <2>2. batch[w] # <<>> /\ batch'[w] = Tail(batch[w]) BY <1>t, <2>1 DEF TypeOK
  <2>3. Due(w)' \subseteq Due(w) /\ (Len(batch[w]) = 1 => Due(w)' = {})
    BY <1>t, <2>2, DueTail
  <2>4. pc'[w] = "write" \/ Due(w)' = {} BY <1>t, <2>1, <2>3 DEF TypeOK
  <2>5. \A x \in Writers : x # w => pc'[x] = pc[x] /\ batch'[x] = batch[x]
    BY <1>t, <2>1 DEF TypeOK
  <2> QED BY <1>T, <2>1, <2>3, <2>4, <2>5, EventWrite DEF readerVars, Ends
<1>7. ASSUME NEW w \in Writers, ShortWrite(w) PROVE EventInv'
  <2>1. /\ pc[w] = "write" /\ UNCHANGED <<clock, fd, readerVars>>
        /\ batch' = [batch EXCEPT ![w] = <<>>] /\ pc' = [pc EXCEPT ![w] = "idle"]
    BY <1>7 DEF ShortWrite, Leave, Goto
  <2>2. Due(w)' = {} BY <1>t, <2>1 DEF Due, TypeOK
  <2>3. \A x \in Writers : x # w => pc'[x] = pc[x] /\ batch'[x] = batch[x]
    BY <1>t, <2>1 DEF TypeOK
  <2>4. PICK b \in Ends : AppendTo(w, b) BY <1>7 DEF ShortWrite, Ends
  <2> QED BY <1>T, <2>1, <2>2, <2>3, <2>4, EventWrite DEF readerVars
\* Readers: the older generation is read first, so what was in it is in no later file.
<1>8. ASSUME NEW r \in Readers, ReadOlder(r) \/ ReadCurrent(r) \/ ReadAgain(r),
             UNCHANGED <<files, writerVars>>
      PROVE  EventInv'
  <2>1. /\ \/ seen' = [seen EXCEPT ![r] = [older |-> older, current |-> <<>>]]
           \/ seen' = [seen EXCEPT ![r].current = current]
           \/ seen' = [seen EXCEPT ![r] = [older |-> <<>>, current |-> <<>>]]
    BY <1>8 DEF ReadOlder, ReadCurrent, ReadAgain
  <2>2. seen \in [Readers -> [older : Seq(Write), current : Seq(Write)]] BY <1>t DEF TypeOK
  <2>3. /\ \/ Events(seen[r].older)' = Events(older) /\ Events(seen[r].current)' = {}
           \/ Events(seen[r].older)' = Events(seen[r].older)
              /\ Events(seen[r].current)' = Events(current)
           \/ Events(seen[r].older)' = {} /\ Events(seen[r].current)' = {}
        /\ \A s \in Readers : s # r => /\ Events(seen[s].older)' = Events(seen[s].older)
                                       /\ Events(seen[s].current)' = Events(seen[s].current)
    BY <2>1, <2>2 DEF Events
  <2>4. /\ Events(current)' = Events(current) /\ Events(older)' = Events(older) /\ gen' = gen
        /\ clock' = clock /\ fd' = fd /\ pc' = pc /\ \A x \in Writers : Due(x)' = Due(x)
    BY <1>8 DEF files, writerVars, Events, Due
  <2>5. InTime' BY <1>t, <2>3, <2>4 DEF InTime
  <2>6. OwnEvents' /\ OneFile' BY <1>t, <2>4 DEF OwnEvents, OneFile
  <2>7. ReadApart'
    <3>1. ASSUME NEW s \in Readers
          PROVE  (Events(seen[s].older) \cap (Events(current) \cup Events(seen[s].current)))' = {}
      BY <1>t, <2>3, <2>4 DEF ReadApart, OneFile
    <3>2. ASSUME NEW s \in Readers, NEW x \in Writers, NEW e \in Due(x),
                 e \in Events(seen[s].older)'
          PROVE  pc[x] = "write" /\ fd[x] < gen
      <4>1. CASE e \in Events(seen[s].older) BY <1>t, <4>1 DEF ReadApart
      <4>2. CASE e \in Events(older) BY <1>t, <1>g, <4>2 DEF OneFile
      <4> QED BY <2>3, <3>2, <4>1, <4>2
    <3> QED BY <2>4, <3>1, <3>2 DEF ReadApart
  <2> QED BY <1>T, <2>5, <2>6, <2>7 DEF EventInv
<1>9. ASSUME UNCHANGED vars PROVE EventInv'
  BY <1>9, <1>T, EventQuiet DEF vars, writerVars, readerVars, Due
<1> QED BY <1>1, <1>2, <1>3, <1>4, <1>5, <1>6, <1>7, <1>8, <1>9
    DEF Next, Step, ReadOlder, ReadCurrent, ReadAgain

LEMMA EventInvariant == Spec => []EventInv
<1>1. Init => EventInv
  BY EventsAssumption
  DEF Init, EventInv, TypeOK, InTime, OwnEvents, OneFile, ReadApart, Events, Due
<1> QED BY <1>1, EventInductive, PTL DEF Spec

\* The lines of one event are never split between the generations, whatever rotates
\* between two of them and however many hooks write at once.
THEOREM EventTogetherHolds == Spec => []EventTogether
<1>1. EventInv => EventTogether BY DEF EventInv, OneFile, EventTogether, Events
<1> QED BY <1>1, EventInvariant, PTL

\* No line is read twice, whatever rotates between the reads of the two files.
THEOREM ReadOnceHolds == Spec => []ReadOnce
<1>1. ASSUME EventInv PROVE ReadOnce
  <2>1. ASSUME NEW f PROVE \A l \in Lines(f) : l.at \in Events(f)
    BY DEF Lines, Parses, Events
  <2> QED BY <1>1, <2>1 DEF EventInv, ReadApart, ReadOnce
<1> QED BY <1>1, EventInvariant, PTL

-----------------------------------------------------------------------------
\* A file that gains a write still holds what it held, and what was read from it still
\* is, but for a last line that had no newline.
LEMMA AppendKeeps ==
  ASSUME NEW f \in Seq(Write), NEW put \in Write
  PROVE  /\ \A l \in Line : Holds(f, l) => Holds(Append(f, put), l)
         /\ put.end = "whole" => Holds(Append(f, put), put.line)
         /\ Lines(f) \subseteq Lines(Append(f, put)) \cup Unended(f)
<1>1. /\ Len(f) + 1 \in DOMAIN Append(f, put)
      /\ Append(f, put)[Len(f) + 1] = put
      /\ \A i \in DOMAIN f : i \in DOMAIN Append(f, put) /\ Append(f, put)[i] = f[i]
  OBVIOUS
<1>2. \A l \in Line : Holds(f, l) => Holds(Append(f, put), l) BY <1>1 DEF Holds
<1>3. ASSUME put.end = "whole" PROVE Holds(Append(f, put), put.line)
  <2>1. put = [line |-> put.line, end |-> "whole"] BY <1>3 DEF Write
  <2> QED BY <1>1, <2>1 DEF Holds
<1>4. Lines(f) \subseteq Lines(Append(f, put)) \cup Unended(f)
  <2>1. ASSUME NEW i \in Parses(f), f[i].end # "bare" PROVE i \in Parses(Append(f, put))
    <3>1. /\ i \in DOMAIN f /\ (i # 1 => i - 1 \in DOMAIN f)
          /\ f[i].end = "whole" /\ (i = 1 \/ f[i - 1].end = "whole")
      BY <2>1 DEF Parses
    <3> QED BY <1>1, <3>1 DEF Parses
  <2>2. Parses(f) \subseteq DOMAIN f BY DEF Parses
  <2> QED BY <1>1, <2>1, <2>2 DEF Lines, Unended
<1> QED BY <1>2, <1>3, <1>4

\* What one append does to the files, as the readers and the writers before it see it.
LEMMA AppendToKeeps ==
  ASSUME TypeOK, NEW w \in Writers, batch[w] # <<>>, NEW b \in Ends, AppendTo(w, b)
  PROVE  /\ \A l \in Line : /\ Holds(current, l) => Holds(current', l)
                            /\ Holds(older, l) => Holds(older', l)
         /\ b = "whole" /\ fd[w] = gen => Holds(current', Head(batch[w]))
         /\ b = "whole" /\ fd[w] + 1 = gen => Holds(older', Head(batch[w]))
         /\ Readable \ Readable' \subseteq Unended(older) \cup Unended(current)
<1> DEFINE put == [line |-> Head(batch[w]), end |-> b]
<1>1. Head(batch[w]) \in Line BY AppendToFacts
<1>2. put \in Write /\ put.line = Head(batch[w]) /\ put.end = b BY <1>1 DEF Write, Ends
<1>3. /\ current' = IF fd[w] = gen THEN Append(current, put) ELSE current
      /\ older' = IF fd[w] + 1 = gen THEN Append(older, put) ELSE older
  BY DEF AppendTo
<1> HIDE DEF put
<1>4. current \in Seq(Write) /\ older \in Seq(Write) BY DEF TypeOK
<1>5. /\ \A l \in Line : Holds(current, l) => Holds(Append(current, put), l)
      /\ b = "whole" => Holds(Append(current, put), Head(batch[w]))
      /\ Lines(current) \subseteq Lines(Append(current, put)) \cup Unended(current)
  BY <1>2, <1>4, AppendKeeps
<1>6. /\ \A l \in Line : Holds(older, l) => Holds(Append(older, put), l)
      /\ b = "whole" => Holds(Append(older, put), Head(batch[w]))
      /\ Lines(older) \subseteq Lines(Append(older, put)) \cup Unended(older)
  BY <1>2, <1>4, AppendKeeps
<1>7. /\ Lines(current) \subseteq Lines(current') \cup Unended(current)
      /\ Lines(older) \subseteq Lines(older') \cup Unended(older)
  BY <1>3, <1>5, <1>6
<1> QED BY <1>3, <1>5, <1>6, <1>7 DEF Readable

\* One step keeps every acknowledged line where it was written, or moves it with its file.
LEMMA AckInductive == EventInv /\ AckInv /\ [Next]_vars => AckInv'
<1> SUFFICES ASSUME EventInv, AckInv, [Next]_vars PROVE AckInv' OBVIOUS
<1>t. TypeOK /\ InTime BY DEF EventInv
<1>g. gen \in Nat /\ fd \in [Writers -> Nat] /\ \A a \in acked : a.in \in Nat /\ a.line \in Line
  BY <1>t DEF TypeOK
<1>1. ASSUME NEW w \in Writers, WriteLine(w) PROVE AckInv'
  <2>1. batch[w] # <<>> BY <1>1, <1>t DEF TypeOK, WriteLine
  <2>2. /\ \A l \in Line : /\ Holds(current, l) => Holds(current', l)
                           /\ Holds(older, l) => Holds(older', l)
        /\ fd[w] = gen => Holds(current', Head(batch[w]))
        /\ fd[w] + 1 = gen => Holds(older', Head(batch[w]))
    BY <1>1, <1>t, <2>1, AppendToKeeps DEF WriteLine, Ends
  <2>3. gen' = gen /\ acked' = acked \cup {[line |-> Head(batch[w]), in |-> fd[w]]}
    BY <1>1 DEF WriteLine, AppendTo
  <2>4. fd[w] <= gen BY <1>t DEF InTime
  <2> QED BY <1>g, <2>2, <2>3, <2>4 DEF AckInv
<1>2. ASSUME NEW w \in Writers, ShortWrite(w) PROVE AckInv'
  <2>1. batch[w] # <<>> BY <1>2, <1>t DEF TypeOK, ShortWrite
  <2>2. \A l \in Line : /\ Holds(current, l) => Holds(current', l)
                        /\ Holds(older, l) => Holds(older', l)
    BY <1>2, <1>t, <2>1, AppendToKeeps DEF ShortWrite, Ends
  <2>3. gen' = gen /\ acked' = acked BY <1>2 DEF ShortWrite, AppendTo
  <2> QED BY <1>g, <2>2, <2>3 DEF AckInv
<1>3. ASSUME NEW w \in Writers, Rename(w) PROVE AckInv'
  <2>1. older' = current /\ gen' = gen + 1 /\ acked' = acked BY <1>3 DEF Rename
  <2> QED BY <1>g, <2>1 DEF AckInv
<1>4. ASSUME UNCHANGED <<files, acked>> PROVE AckInv' BY <1>4 DEF AckInv, files
<1> QED BY <1>1, <1>2, <1>3, <1>4
    DEF Next, Step, Record, StatLog, TakeLock, Recheck, Open, GiveUp, ReadOlder, ReadCurrent,
        ReadAgain, vars, writerVars

\* A line whose write succeeded is in the file the writer had open for as long as that
\* file is one of the two generations: no append, rotation or death of a hook loses it.
THEOREM AckedIsKeptHolds == Spec => []AckedIsKept
<1>1. Init => AckInv BY DEF Init, AckInv
<1>2. EventInv /\ AckInv => AckedIsKept
  <2> SUFFICES ASSUME EventInv, AckInv, NEW a \in acked, a.in + 1 >= gen
               PROVE  LET f == IF a.in = gen THEN current ELSE older IN
                      \E i \in DOMAIN f : /\ f[i] = [line |-> a.line, end |-> "whole"]
                                          /\ i \in Parses(f) \/ f[i - 1].end # "whole"
    BY DEF AckedIsKept
  <2> DEFINE f == IF a.in = gen THEN current ELSE older
  <2>1. /\ a.in \in Nat /\ gen \in Nat /\ current \in Seq(Write) /\ older \in Seq(Write)
    BY DEF EventInv, TypeOK
  <2>2. a.in = gen \/ a.in + 1 = gen BY <2>1 DEF AckInv
  <2>3. Holds(f, a.line) BY <2>2 DEF AckInv
  <2>4. f \in Seq(Write) BY <2>1
  <2> HIDE DEF f
  <2>5. PICK i \in DOMAIN f : f[i] = [line |-> a.line, end |-> "whole"] BY <2>3 DEF Holds
  <2>6. f[i].end = "whole" BY <2>5
  <2>7. i \in Parses(f) \/ f[i - 1].end # "whole" BY <2>6 DEF Parses
  <2> QED BY <2>5, <2>7 DEF f
<1> QED BY <1>1, <1>2, AckInductive, EventInvariant, PTL DEF Spec

-----------------------------------------------------------------------------
\* The lines a hook has still to write, those that were acknowledged, and those of a file
\* whose write stopped short.
Owed(w) == {batch[w][i] : i \in DOMAIN batch[w]}
AckedLines == {a.line : a \in acked}
Short(f) == {f[i].line : i \in {j \in DOMAIN f : f[j].end # "whole"}}

\* A line is written once: one that is owed has been neither acknowledged nor cut short,
\* and one that was cut short is not acknowledged.
OnceInv ==
  /\ \A l \in AckedLines : l.at \in 1..clock
  /\ \A w \in Writers : Owed(w) \cap (AckedLines \cup Short(current) \cup Short(older)) = {}
  /\ \A w \in Writers : \A i, j \in DOMAIN batch[w] : i # j => batch[w][i] # batch[w][j]
  /\ AckedLines \cap (Short(current) \cup Short(older)) = {}

\* A file's short lines are the ones it had and, where the write stopped short, the new one.
LEMMA ShortAppend ==
  ASSUME NEW f \in Seq(Write), NEW put \in Write
  PROVE  Short(Append(f, put)) =
           IF put.end = "whole" THEN Short(f) ELSE Short(f) \cup {put.line}
<1>1. /\ DOMAIN Append(f, put) = DOMAIN f \cup {Len(f) + 1}
      /\ Append(f, put)[Len(f) + 1] = put
      /\ \A i \in DOMAIN f : Append(f, put)[i] = f[i]
  OBVIOUS
<1> QED BY <1>1 DEF Short

\* What one append does to the short lines.
LEMMA AppendToShort ==
  ASSUME TypeOK, NEW w \in Writers, batch[w] # <<>>, NEW b \in Ends, AppendTo(w, b)
  PROVE  /\ b = "whole" => Short(current') = Short(current) /\ Short(older') = Short(older)
         /\ Short(current') \cup Short(older') \subseteq
              Short(current) \cup Short(older) \cup {Head(batch[w])}
<1> DEFINE put == [line |-> Head(batch[w]), end |-> b]
<1>1. Head(batch[w]) \in Line BY AppendToFacts
<1>2. put \in Write /\ put.line = Head(batch[w]) /\ put.end = b BY <1>1 DEF Write, Ends
<1>3. /\ current' = IF fd[w] = gen THEN Append(current, put) ELSE current
      /\ older' = IF fd[w] + 1 = gen THEN Append(older, put) ELSE older
  BY DEF AppendTo
<1> HIDE DEF put
<1>4. current \in Seq(Write) /\ older \in Seq(Write) BY DEF TypeOK
<1>5. /\ Short(Append(current, put)) =
           IF b = "whole" THEN Short(current) ELSE Short(current) \cup {Head(batch[w])}
      /\ Short(Append(older, put)) =
           IF b = "whole" THEN Short(older) ELSE Short(older) \cup {Head(batch[w])}
  BY <1>2, <1>4, ShortAppend
<1> QED BY <1>3, <1>5

\* One step keeps it: events are one hook's and new, so no line comes back.
LEMMA OnceInductive == EventInv /\ OnceInv /\ [Next]_vars => OnceInv'
<1> SUFFICES ASSUME EventInv, OnceInv, [Next]_vars PROVE OnceInv' OBVIOUS
<1>t. TypeOK /\ InTime /\ OwnEvents BY DEF EventInv
<1>g. /\ clock \in Nat /\ batch \in [Writers -> Seq(Line)]
      /\ current \in Seq(Write) /\ older \in Seq(Write)
  BY <1>t DEF TypeOK
<1>s. \A l \in Short(current) \cup Short(older) : l.at \in 1..clock
  BY <1>t DEF InTime, Events, Short
<1>d. \A w \in Writers : \A l \in Owed(w) : l.at \in Due(w) BY DEF Owed, Due
<1>o. \A w, x \in Writers : w # x => Owed(w) \cap Owed(x) = {}
  BY <1>t, <1>d DEF OwnEvents
\* A step that writes nothing, and after which every hook owes what it did or nothing.
<1>q. ASSUME Short(current)' \cup Short(older)' \subseteq Short(current) \cup Short(older),
             UNCHANGED <<clock, acked>>,
             \A x \in Writers : batch'[x] \in {batch[x], <<>>}
      PROVE  OnceInv'
  <2>1. \A x \in Writers : /\ Owed(x)' \subseteq Owed(x)
                           /\ \A i, j \in DOMAIN batch'[x] : i # j => batch'[x][i] # batch'[x][j]
    BY <1>q DEF Owed, OnceInv
  <2>2. AckedLines' = AckedLines BY <1>q DEF AckedLines
  <2> QED BY <1>q, <2>1, <2>2 DEF OnceInv
<1>1. ASSUME NEW w \in Writers, Record(w) PROVE OnceInv'
  <2>1. PICK n \in 1..MaxBatch :
          batch' = [batch EXCEPT ![w] =
                      [i \in 1..n |-> [at |-> clock + 1, n |-> i, by |-> w]]]
    BY <1>1 DEF Record
  <2>2. batch'[w] = [i \in 1..n |-> [at |-> clock + 1, n |-> i, by |-> w]]
    BY <1>g, <2>1
  <2>3. \A x \in Writers : x # w => batch'[x] = batch[x] BY <1>g, <2>1
  <2>4. /\ clock' = clock + 1 /\ AckedLines' = AckedLines
        /\ Short(current)' = Short(current) /\ Short(older)' = Short(older)
    BY <1>1 DEF Record, files, AckedLines, Short
  <2>5. \A l \in Owed(w)' : l.at = clock + 1 BY <2>2 DEF Owed
  <2>6. \A x \in Writers : x # w => Owed(x)' = Owed(x) BY <2>3 DEF Owed
  <2>7. \A l \in AckedLines : l.at \in 1..clock BY DEF OnceInv
  <2>8. Owed(w)' \cap (AckedLines \cup Short(current) \cup Short(older)) = {}
    BY <1>g, <1>s, <2>5, <2>7
  <2>9. \A i, j \in DOMAIN batch'[w] : i # j => batch'[w][i] # batch'[w][j]
    <3> SUFFICES ASSUME NEW i \in 1..n, NEW j \in 1..n, i # j
                 PROVE  batch'[w][i] # batch'[w][j]
      BY <2>2
    <3>1. batch'[w][i].n = i /\ batch'[w][j].n = j BY <2>2
    <3> QED BY <3>1
  <2>10. \A l \in AckedLines' : l.at \in 1..clock' BY <1>g, <2>4, <2>7
  <2> QED BY <2>3, <2>4, <2>6, <2>8, <2>9, <2>10 DEF OnceInv
<1>2. ASSUME NEW w \in Writers, WriteLine(w) PROVE OnceInv'
  <2>1. batch[w] # <<>> BY <1>2, <1>t DEF TypeOK, WriteLine
  <2>2. /\ Short(current)' = Short(current) /\ Short(older)' = Short(older)
    BY <1>2, <1>t, <2>1, AppendToShort DEF WriteLine, Ends
  <2>3. /\ AckedLines' = AckedLines \cup {Head(batch[w])} /\ clock' = clock
        /\ batch' = [batch EXCEPT ![w] = Tail(batch[w])]
    <3>1. acked' = acked \cup {[line |-> Head(batch[w]), in |-> fd[w]]} BY <1>2 DEF WriteLine
    <3>2. [line |-> Head(batch[w]), in |-> fd[w]].line = Head(batch[w]) OBVIOUS
    <3>3. AckedLines' = AckedLines \cup {Head(batch[w])} BY <3>1, <3>2 DEF AckedLines
    <3> QED BY <1>2, <3>3 DEF WriteLine
  <2>4. /\ Len(batch[w]) \in Nat \ {0} /\ DOMAIN batch[w] = 1..Len(batch[w])
        /\ Head(batch[w]) = batch[w][1]
        /\ DOMAIN Tail(batch[w]) = 1..(Len(batch[w]) - 1)
        /\ \A i \in DOMAIN Tail(batch[w]) : Tail(batch[w])[i] = batch[w][i + 1]
    <3>1. batch[w] \in Seq(Line) BY <1>g
    <3> QED BY <2>1, <3>1
  <2>5. batch'[w] = Tail(batch[w]) /\ \A x \in Writers : x # w => batch'[x] = batch[x]
    BY <1>g, <2>3
  <2>6. \A i, j \in DOMAIN batch[w] : i # j => batch[w][i] # batch[w][j] BY DEF OnceInv
  <2>7. Head(batch[w]) \in Owed(w) BY <2>4 DEF Owed
  <2>8. Owed(w)' \subseteq Owed(w) \ {Head(batch[w])}
    <3> SUFFICES ASSUME NEW i \in DOMAIN Tail(batch[w])
                 PROVE  Tail(batch[w])[i] \in Owed(w) /\ Tail(batch[w])[i] # Head(batch[w])
      BY <2>5 DEF Owed
    <3>1. i + 1 \in DOMAIN batch[w] /\ i + 1 # 1 /\ 1 \in DOMAIN batch[w] BY <2>4
    <3> QED BY <2>4, <2>6, <3>1 DEF Owed
  <2>9. \A i, j \in DOMAIN batch'[w] : i # j => batch'[w][i] # batch'[w][j]
    <3> SUFFICES ASSUME NEW i \in DOMAIN Tail(batch[w]), NEW j \in DOMAIN Tail(batch[w]), i # j
                 PROVE  Tail(batch[w])[i] # Tail(batch[w])[j]
      BY <2>5
    <3>1. i + 1 \in DOMAIN batch[w] /\ j + 1 \in DOMAIN batch[w] /\ i + 1 # j + 1 BY <2>4
    <3> QED BY <2>4, <2>6, <3>1
  <2>10. \A x \in Writers : x # w => Owed(x)' = Owed(x) /\ Head(batch[w]) \notin Owed(x)
    BY <1>o, <2>5, <2>7 DEF Owed
  <2>11. Head(batch[w]).at \in 1..clock
    BY <1>d, <1>t, <2>7 DEF InTime
  <2>12. \A x \in Writers : Owed(x)' \cap (AckedLines' \cup Short(current)' \cup Short(older)') = {}
    BY <2>2, <2>3, <2>8, <2>10 DEF OnceInv
  <2>13. AckedLines' \cap (Short(current)' \cup Short(older)') = {}
    BY <2>2, <2>3, <2>7 DEF OnceInv
  <2>14. \A l \in AckedLines' : l.at \in 1..clock' BY <2>3, <2>11 DEF OnceInv
  <2>15. \A x \in Writers : \A i, j \in DOMAIN batch'[x] : i # j => batch'[x][i] # batch'[x][j]
    <3> SUFFICES ASSUME NEW x \in Writers
                 PROVE  \A i, j \in DOMAIN batch'[x] : i # j => batch'[x][i] # batch'[x][j]
      OBVIOUS
    <3>1. CASE x = w BY <2>9, <3>1
    <3>2. CASE x # w
      <4>1. batch'[x] = batch[x] BY <2>5, <3>2
      <4> QED BY <4>1 DEF OnceInv
    <3> QED BY <3>1, <3>2
  <2> QED BY <2>12, <2>13, <2>14, <2>15 DEF OnceInv
<1>3. ASSUME NEW w \in Writers, ShortWrite(w) PROVE OnceInv'
  <2>1. batch[w] # <<>> BY <1>3, <1>t DEF TypeOK, ShortWrite
  <2>2. PICK b \in Ends : AppendTo(w, b) BY <1>3 DEF ShortWrite, Ends
  <2>3. Short(current)' \cup Short(older)' \subseteq
          Short(current) \cup Short(older) \cup {Head(batch[w])}
    BY <1>t, <2>1, <2>2, AppendToShort
  <2>4. /\ UNCHANGED <<clock, acked>> /\ batch' = [batch EXCEPT ![w] = <<>>]
    BY <1>3 DEF ShortWrite, Leave
  <2>5. Owed(w)' = {} /\ DOMAIN batch'[w] = {} BY <1>g, <2>4 DEF Owed
  <2>6. \A x \in Writers : x # w => Owed(x)' = Owed(x) /\ batch'[x] = batch[x]
    BY <1>g, <2>4 DEF Owed
  <2>7. Head(batch[w]) \in Owed(w)
    <3>1. batch[w] \in Seq(Line) BY <1>g
    <3>2. 1 \in DOMAIN batch[w] /\ Head(batch[w]) = batch[w][1] BY <2>1, <3>1
    <3> QED BY <3>2 DEF Owed
  <2>8. AckedLines' = AckedLines BY <2>4 DEF AckedLines
  <2>9. \A x \in Writers : Owed(x)' \cap (AckedLines' \cup Short(current)' \cup Short(older)') = {}
    BY <1>o, <2>3, <2>5, <2>6, <2>7, <2>8 DEF OnceInv
  <2>10. AckedLines' \cap (Short(current)' \cup Short(older)') = {}
    BY <2>3, <2>7, <2>8 DEF OnceInv
  <2>11. \A x \in Writers : \A i, j \in DOMAIN batch'[x] : i # j => batch'[x][i] # batch'[x][j]
    BY <2>5, <2>6 DEF OnceInv
  <2> QED BY <2>4, <2>8, <2>9, <2>10, <2>11 DEF OnceInv
<1>4. ASSUME NEW w \in Writers, Rename(w) PROVE OnceInv'
  <2>1. older' = current /\ current' = <<>> /\ UNCHANGED <<clock, acked, batch>>
    BY <1>4 DEF Rename
  <2> QED BY <1>q, <2>1 DEF Short
<1>5. ASSUME NEW w \in Writers, GiveUp(w) PROVE OnceInv'
  <2>1. UNCHANGED <<files, clock, acked>> /\ batch' = [batch EXCEPT ![w] = <<>>]
    BY <1>5 DEF GiveUp, Leave
  <2> QED BY <1>g, <1>q, <2>1 DEF Short, files
<1>6. ASSUME UNCHANGED <<files, clock, acked, batch>> PROVE OnceInv'
  BY <1>q, <1>6 DEF Short, files
<1> QED BY <1>1, <1>2, <1>3, <1>4, <1>5, <1>6
    DEF Next, Step, StatLog, TakeLock, Recheck, Open, ReadOlder, ReadCurrent, ReadAgain,
        vars, writerVars

LEMMA OnceInvariant == Spec => []OnceInv
<1>1. Init => OnceInv BY DEF Init, OnceInv, Owed, AckedLines, Short
<1> QED BY <1>1, OnceInductive, EventInvariant, PTL DEF Spec

\* The ways a line leaves what can be read.
Goes ==
  \A l \in Readable \ Readable' :
    \/ gen' = gen + 1 /\ l \in Lines(older) /\ Full(older')
    \/ /\ l \in Unended(older) \cup Unended(current)
       /\ l \notin {a.line : a \in acked'}

\* A line that could be read stops being readable in two ways: a rotation discards the
\* generation before the one it keeps, and what it keeps is full; or it was the file's
\* last and without its newline, and then nobody was told that it is in the log.
THEOREM LeavesByAgeHolds == Spec => LeavesByAge
<1>1. RotateInv /\ EventInv /\ OnceInv /\ OnceInv' /\ [Next]_vars => [Goes]_vars
  <2> SUFFICES ASSUME RotateInv, EventInv, OnceInv, OnceInv', Next PROVE Goes
    OBVIOUS
  <2>t. TypeOK /\ StillFull BY DEF RotateInv
  \* The last line of a file, where it has no newline, is a short one, and stays in the file.
  <2>s. Unended(older) \cup Unended(current) \subseteq Short(current) \cup Short(older)
    BY DEF Unended, Short, Parses
  <2>1. ASSUME NEW w \in Writers, WriteLine(w) \/ ShortWrite(w) PROVE Goes
    <3>1. batch[w] # <<>> BY <2>1, <2>t DEF TypeOK, WriteLine, ShortWrite
    <3>2. Readable \ Readable' \subseteq Unended(older) \cup Unended(current)
      BY <2>1, <2>t, <3>1, AppendToKeeps DEF WriteLine, ShortWrite, Ends
    <3>3. acked' = acked \cup {[line |-> Head(batch[w]), in |-> fd[w]]} \/ acked' = acked
      BY <2>1 DEF WriteLine, ShortWrite
    <3>4. Head(batch[w]) \in Owed(w)
      <4>1. batch[w] \in Seq(Line) BY <2>t DEF TypeOK
      <4>2. 1 \in DOMAIN batch[w] /\ Head(batch[w]) = batch[w][1] BY <3>1, <4>1
      <4> QED BY <4>2 DEF Owed
    <3>5. {a.line : a \in acked'} \subseteq AckedLines \cup Owed(w)
      BY <3>3, <3>4 DEF AckedLines
    <3>6. (AckedLines \cup Owed(w)) \cap (Short(current) \cup Short(older)) = {}
      BY DEF OnceInv
    <3> QED BY <2>s, <3>2, <3>5, <3>6 DEF Goes
  <2>2. ASSUME NEW w \in Writers, Rename(w) PROVE Goes
    <3>1. gen' = gen + 1 /\ older' = current BY <2>2 DEF Rename
    <3>2. Full(older') BY <2>2, <2>t, <3>1 DEF StillFull, Rename, Full
    <3> QED BY <3>1, <3>2 DEF Readable, Goes
  <2>3. ASSUME UNCHANGED files PROVE Goes
    BY <2>3 DEF files, Readable, Goes
  <2> QED BY <2>1, <2>2, <2>3
      DEF Next, Step, Record, StatLog, TakeLock, Recheck, Open, GiveUp, ReadOlder,
          ReadCurrent, ReadAgain
<1> QED BY <1>1, RotateInvariant, EventInvariant, OnceInvariant, PTL DEF Spec, LeavesByAge, Goes
=============================================================================
