---------------------------- MODULE InstallProofs ----------------------------
(***************************************************************************)
(* Theorems about handrail sync, for any syncs, harnesses, files, users'   *)
(* edits and failures: that it answers for every target, what it does to   *)
(* the exclude file, and what it makes of the settings and modules it      *)
(* writes into.                                                            *)
(***************************************************************************)
EXTENDS Install, SequenceTheorems, WellFoundedInduction, NaturalsInduction, TLAPS

Said == {"nothing", "failed", "wrote", "current"}
Places == {"begin", "install", "read", "write", "rename", "exclude", "append",
           "done", "panicked", "killed"}
AtTarget == {"install", "read", "write", "rename"}

SyncTypeOK ==
  /\ pc \in [Syncs -> Places] /\ exit \in [Syncs -> {0, 1, 2}]
  /\ told \in [Syncs -> [Harness -> Said]]
  /\ todo \in [Syncs -> SUBSET Harness] /\ targets \in [Syncs -> SUBSET Harness]
  /\ prefix \in [Syncs -> BOOLEAN] /\ stale \in SUBSET Syncs
  /\ exclude \in [lines : Seq(ExcludeLines), open : BOOLEAN]

\* A sync at a target has one, and is done with all of them before the exclude file.
TurnsOK ==
  \A s \in Syncs :
    /\ pc[s] \in AtTarget => todo[s] # {}
    /\ pc[s] \in {"begin", "exclude", "append", "done"} => todo[s] = {}

\* What a sync has said nothing of is left to do, and what it has left it said nothing of.
Accounted ==
  \A s \in Syncs :
    /\ \A h \in targets[s] : told[s][h] = "nothing" => h \in todo[s]
    /\ exit[s] = 0 => \A h \in targets[s] : told[s][h] \in {"wrote", "current"}
    /\ pc[s] # "done" => exit[s] = 2

\* An append that nobody came before writes behind what it looked at.
LooksRight ==
  \A s \in Syncs \ stale : pc[s] = "append" => prefix[s] = exclude.open

SyncInv == SyncTypeOK /\ TurnsOK /\ Accounted /\ LooksRight

-----------------------------------------------------------------------------
\* The target whose turn it is, is one of those left.
LEMMA TurnIsLeft ==
  ASSUME NEW s \in Syncs, todo[s] \subseteq Harness, todo[s] # {}
  PROVE  Turn(s) \in todo[s]
<1> DEFINE T == {i \in DOMAIN Harnesses : Harnesses[i] \in todo[s]}
           First(i) == Harnesses[i] \in todo[s] /\ \A j \in 1..(i - 1) : Harnesses[j] \notin todo[s]
<1>1. DOMAIN Harnesses = 1..Len(Harnesses) /\ Len(Harnesses) \in Nat BY HarnessesAssumption
<1>2. T \in SUBSET Nat BY <1>1
<1>3. T # {} BY DEF Harness, Range
<1>4. IsWellFoundedOn(OpToRel(<, Nat), Nat) BY NatLessThanWellFounded
<1> HIDE DEF T
<1>5. \E x \in T : \A y \in T : <<y, x>> \notin OpToRel(<, Nat) BY <1>2, <1>3, <1>4, WFMin
<1>6. PICK x \in T : \A y \in T : ~(y < x) BY <1>2, <1>5 DEF OpToRel
<1>7. x \in DOMAIN Harnesses /\ First(x) BY <1>1, <1>6 DEF T
<1> DEFINE first == CHOOSE i \in DOMAIN Harnesses : First(i)
<1>8. first \in DOMAIN Harnesses /\ First(first) BY <1>7
<1>9. Turn(s) = Harnesses[first] BY DEF Turn
<1> QED BY <1>8, <1>9

-----------------------------------------------------------------------------
\* What others may make stale, and a sync that looks again is not.
StaleKept(s) == stale' \in SUBSET Syncs /\ stale \ {s} \subseteq stale'

\* Every branch of a target's that tells goes on to the next one, or past the last.
LEMMA TellKeeps ==
  ASSUME SyncInv, NEW s \in Syncs, pc[s] \in AtTarget, NEW what \in Said \ {"nothing"},
         Tell(s, what), UNCHANGED <<exclude, prefix, targets, exit>>, StaleKept(s)
  PROVE  SyncInv'
<1> DEFINE h == Turn(s)
           left == todo[s] \ {h}
           where == IF left = {} THEN "exclude" ELSE "install"
<1>1. h \in todo[s] /\ h \in Harness
  BY TurnIsLeft DEF SyncInv, SyncTypeOK, TurnsOK
<1>2. /\ told' = [told EXCEPT ![s][h] = what] /\ todo' = [todo EXCEPT ![s] = left]
      /\ pc' = [pc EXCEPT ![s] = where]
  BY DEF Tell, Goto
<1>3. left \subseteq Harness /\ where \in {"exclude", "install"}
      /\ (where = "exclude" => left = {}) /\ (where = "install" => left # {})
  BY DEF SyncInv, SyncTypeOK
<1>4. \A g \in todo[s] : g = h \/ g \in left OBVIOUS
<1> HIDE DEF h, left, where
<1>5. SyncTypeOK'
  <2>1. told' \in [Syncs -> [Harness -> Said]] BY <1>1, <1>2 DEF SyncInv, SyncTypeOK
  <2>2. todo' \in [Syncs -> SUBSET Harness] BY <1>2, <1>3 DEF SyncInv, SyncTypeOK
  <2>3. pc' \in [Syncs -> Places] BY <1>2, <1>3 DEF SyncInv, SyncTypeOK, Places
  <2> QED BY <2>1, <2>2, <2>3 DEF SyncInv, SyncTypeOK, StaleKept
<1>6. TurnsOK'
  BY <1>2, <1>3 DEF SyncInv, SyncTypeOK, TurnsOK, AtTarget
<1>7. Accounted'
  <2>1. exit[s] = 2 BY DEF SyncInv, Accounted, AtTarget
  <2>2. \A t \in Syncs \ {s} : told'[t] = told[t] /\ todo'[t] = todo[t] /\ pc'[t] = pc[t]
    BY <1>2 DEF SyncInv, SyncTypeOK
  <2>3. \A g \in targets[s] : told'[s][g] = "nothing" => g \in todo'[s]
    <3> TAKE g \in targets[s]
    <3>1. g \in Harness BY DEF SyncInv, SyncTypeOK
    <3>2. told'[s][g] = IF g = h THEN what ELSE told[s][g]
      BY <1>1, <1>2, <3>1 DEF SyncInv, SyncTypeOK
    <3>3. todo'[s] = left BY <1>2 DEF SyncInv, SyncTypeOK
    <3>4. told[s][g] = "nothing" => g \in todo[s] BY DEF SyncInv, Accounted
    <3> QED BY <1>4, <3>2, <3>3, <3>4
  <2> QED BY <2>1, <2>2, <2>3 DEF SyncInv, Accounted
<1>8. LooksRight'
  BY <1>2, <1>3 DEF SyncInv, SyncTypeOK, LooksRight, StaleKept
<1> QED BY <1>5, <1>6, <1>7, <1>8 DEF SyncInv

\* A step from one place at a target to another ...
LEMMA MoveKeeps ==
  ASSUME SyncInv, NEW s \in Syncs, NEW where \in AtTarget, pc[s] \in AtTarget,
         Goto(s, where), UNCHANGED <<exclude, prefix, targets, told, todo, exit>>, StaleKept(s)
  PROVE  SyncInv'
<1>1. SyncTypeOK' BY DEF SyncInv, SyncTypeOK, Goto, Places, AtTarget, StaleKept
<1>2. TurnsOK' BY DEF SyncInv, SyncTypeOK, TurnsOK, Goto, AtTarget
<1>3. Accounted' BY DEF SyncInv, SyncTypeOK, Accounted, Goto, AtTarget
<1>4. LooksRight' BY DEF SyncInv, SyncTypeOK, LooksRight, Goto, AtTarget, StaleKept
<1> QED BY <1>1, <1>2, <1>3, <1>4 DEF SyncInv

\* ... or to an end with nothing said.
LEMMA BreakKeeps ==
  ASSUME SyncInv, NEW s \in Syncs, pc[s] # "done", NEW where \in {"panicked", "killed"},
         Goto(s, where), UNCHANGED <<exclude, prefix, targets, told, todo, exit>>, StaleKept(s)
  PROVE  SyncInv'
<1>1. SyncTypeOK' BY DEF SyncInv, SyncTypeOK, Goto, Places, StaleKept
<1>2. TurnsOK' BY DEF SyncInv, SyncTypeOK, TurnsOK, Goto, AtTarget
<1>3. Accounted' BY DEF SyncInv, SyncTypeOK, Accounted, Goto
<1>4. LooksRight' BY DEF SyncInv, SyncTypeOK, LooksRight, Goto, StaleKept
<1> QED BY <1>1, <1>2, <1>3, <1>4 DEF SyncInv

\* The end of a sync: exit code 0 only if no target failed.
LEMMA ExitKeeps ==
  ASSUME SyncInv, NEW s \in Syncs, pc[s] \in {"begin", "exclude", "append"}, NEW code \in {0, 1},
         code = 0 => \A h \in targets[s] : told[s][h] \in {"wrote", "current"},
         Exit(s, code), UNCHANGED <<targets, told, todo>>,
         prefix' \in [Syncs -> BOOLEAN], exclude' \in [lines : Seq(ExcludeLines), open : BOOLEAN],
         StaleKept(s),
         \A t \in Syncs \ {s} : t \notin stale' =>
           prefix'[t] = prefix[t] /\ (pc[t] = "append" => exclude'.open = exclude.open)
  PROVE  SyncInv'
<1>1. SyncTypeOK' BY DEF SyncInv, SyncTypeOK, Exit, Goto, Places, StaleKept
<1>2. TurnsOK' BY DEF SyncInv, SyncTypeOK, TurnsOK, Exit, Goto, AtTarget
<1>3. Accounted' BY DEF SyncInv, SyncTypeOK, Accounted, Exit, Goto
<1>4. LooksRight' BY DEF SyncInv, SyncTypeOK, LooksRight, Exit, Goto, StaleKept
<1> QED BY <1>1, <1>2, <1>3, <1>4 DEF SyncInv

\* No target failed, and all were told of: exit code 0 says so.
LEMMA FinishFacts ==
  ASSUME SyncInv, NEW s \in Syncs, pc[s] \in {"exclude", "append"}, Finish(s)
  PROVE  \E code \in {0, 1} :
           /\ Exit(s, code)
           /\ code = 0 => \A h \in targets[s] : told[s][h] \in {"wrote", "current"}
<1>1. ASSUME NEW h \in targets[s], told[s][h] # "failed"
      PROVE  told[s][h] \in {"wrote", "current"}
  <2>1. told[s][h] # "nothing" BY DEF SyncInv, Accounted, TurnsOK
  <2>2. told[s][h] \in Said BY DEF SyncInv, SyncTypeOK
  <2> QED BY <1>1, <2>1, <2>2 DEF Said
<1> DEFINE failed == \E h \in targets[s] : told[s][h] = "failed"
<1>2. PICK rulesFail \in BOOLEAN : Exit(s, IF rulesFail \/ failed THEN 1 ELSE 0)
  BY DEF Finish
<1> DEFINE code == IF rulesFail \/ failed THEN 1 ELSE 0
<1>3. code \in {0, 1} /\ (code = 0 => ~failed) OBVIOUS
<1>4. Exit(s, code) BY <1>2
<1> HIDE DEF code
<1> QED BY <1>1, <1>3, <1>4

LEMMA WrittenFacts ==
  ASSUME NEW x \in [lines : Seq(ExcludeLines), open : BOOLEAN], NEW newline \in BOOLEAN,
         NEW whole \in BOOLEAN
  PROVE  Written(x, newline, whole) \in [lines : Seq(ExcludeLines), open : BOOLEAN]
<1> DEFINE line == IF whole THEN "ours" ELSE "part"
           n == Len(x.lines)
<1>1. x.lines \in Seq(ExcludeLines) /\ n \in Nat OBVIOUS
<1>2. line \in ExcludeLines /\ "glued" \in ExcludeLines /\ "blank" \in ExcludeLines
  BY DEF ExcludeLines
<1> DEFINE S == ExcludeLines
           glued == "glued"
           blank == "blank"
<1> HIDE DEF line, S, glued, blank, n
<1>3. x.lines \in Seq(S) /\ line \in S /\ glued \in S /\ blank \in S
  BY <1>1, <1>2 DEF S, glued, blank
<1>4. Front(x.lines) \in Seq(S) BY <1>3 DEF Front
<1>5. /\ Append(Front(x.lines), glued) \in Seq(S)
      /\ x.lines \o <<blank, line>> \in Seq(S) /\ Append(x.lines, line) \in Seq(S)
  BY <1>3, <1>4
<1>6. Written(x, newline, whole).lines \in Seq(S)
  BY <1>5 DEF Written, line, glued, blank
<1> QED BY <1>6 DEF Written, S

\* The steps at a target.
LEMMA CompareKeeps ==
  ASSUME SyncInv, NEW s \in Syncs, pc[s] \in AtTarget, NEW want, NEW seen,
         Compare(s, want, seen), StaleKept(s)
  PROVE  SyncInv'
<1>1. UNCHANGED <<exclude, prefix, targets, exit>> BY DEF Compare, disk
<1>2. CASE want = seen BY <1>1, <1>2, TellKeeps DEF Compare, Said
<1>3. CASE want # seen
  <2>1. Goto(s, "write") /\ UNCHANGED <<told, todo>> BY <1>3 DEF Compare
  <2> DEFINE where == "write"
  <2>2. where \in AtTarget BY DEF AtTarget
  <2>3. Goto(s, where) BY <2>1
  <2> HIDE DEF where
  <2> QED BY <1>1, <2>1, <2>2, <2>3, MoveKeeps
<1> QED BY <1>2, <1>3

LEMMA GiveUpKeeps ==
  ASSUME SyncInv, NEW s \in Syncs, pc[s] \in AtTarget, GiveUp(s), StaleKept(s)
  PROVE  SyncInv'
<1>1. UNCHANGED <<exclude, prefix, targets, exit>> BY DEF GiveUp, disk, mine
<1> QED BY <1>1, TellKeeps DEF GiveUp, Said

LEMMA ReadSettingsKeeps == ASSUME SyncInv, NEW s \in Syncs, ReadSettings(s) PROVE SyncInv'
<1>1. pc[s] \in AtTarget BY DEF ReadSettings, AtTarget
<1>2. StaleKept(s) BY DEF ReadSettings, StaleKept, SyncInv, SyncTypeOK
<1>3. \/ \E want, seen : Compare(s, want, seen)
      \/ GiveUp(s)
      \/ Goto(s, "panicked") /\ UNCHANGED <<disk, mine, todo, told, exit>>
  BY DEF ReadSettings
<1>4. CASE \E want, seen : Compare(s, want, seen) BY <1>1, <1>2, <1>4, CompareKeeps
<1>5. CASE GiveUp(s) BY <1>1, <1>2, <1>5, GiveUpKeeps
<1>6. CASE Goto(s, "panicked") /\ UNCHANGED <<disk, mine, todo, told, exit>>
  <2>1. UNCHANGED <<exclude, prefix, targets, told, todo, exit>> BY <1>6 DEF disk, mine
  <2>2. pc[s] # "done" BY <1>1 DEF AtTarget
  <2> QED BY <1>2, <1>6, <2>1, <2>2, BreakKeeps
<1> QED BY <1>3, <1>4, <1>5, <1>6

LEMMA LookModuleKeeps == ASSUME SyncInv, NEW s \in Syncs, LookModule(s) PROVE SyncInv'
<1>1. pc[s] \in AtTarget BY DEF LookModule, AtTarget
<1>2. StaleKept(s) BY DEF LookModule, StaleKept, SyncInv, SyncTypeOK
<1>3. \/ \E want, seen : Compare(s, want, seen)
      \/ GiveUp(s)
      \/ Goto(s, "read") /\ UNCHANGED <<disk, mine, todo, told, exit>>
  BY DEF LookModule
<1>4. CASE \E want, seen : Compare(s, want, seen) BY <1>1, <1>2, <1>4, CompareKeeps
<1>5. CASE GiveUp(s) BY <1>1, <1>2, <1>5, GiveUpKeeps
<1>6. CASE Goto(s, "read") /\ UNCHANGED <<disk, mine, todo, told, exit>>
  <2>1. UNCHANGED <<exclude, prefix, targets, told, todo, exit>> BY <1>6 DEF disk, mine
  <2> DEFINE where == "read"
  <2>2. where \in AtTarget BY DEF AtTarget
  <2>3. Goto(s, where) BY <1>6
  <2> HIDE DEF where
  <2> QED BY <1>1, <1>2, <2>1, <2>2, <2>3, MoveKeeps
<1> QED BY <1>3, <1>4, <1>5, <1>6

LEMMA ReadModuleKeeps == ASSUME SyncInv, NEW s \in Syncs, ReadModule(s) PROVE SyncInv'
<1>1. pc[s] \in AtTarget BY DEF ReadModule, AtTarget
<1>2. StaleKept(s) BY DEF ReadModule, StaleKept, SyncInv, SyncTypeOK
<1>3. (\E want, seen : Compare(s, want, seen)) \/ GiveUp(s) BY DEF ReadModule
<1> QED BY <1>1, <1>2, <1>3, CompareKeeps, GiveUpKeeps

LEMMA PrepareKeeps == ASSUME SyncInv, NEW s \in Syncs, Prepare(s) PROVE SyncInv'
<1>1. pc[s] \in AtTarget BY DEF Prepare, AtTarget
<1>2. StaleKept(s) BY DEF Prepare, StaleKept, SyncInv, SyncTypeOK
<1>3. \/ GiveUp(s)
      \/ Goto(s, "rename") /\ UNCHANGED <<disk, prefix, targets, todo, told, exit>>
  BY DEF Prepare
<1>4. CASE GiveUp(s) BY <1>1, <1>2, <1>4, GiveUpKeeps
<1>5. CASE Goto(s, "rename") /\ UNCHANGED <<disk, prefix, targets, todo, told, exit>>
  <2>1. UNCHANGED <<exclude, prefix, targets, told, todo, exit>> BY <1>5 DEF disk
  <2> DEFINE where == "rename"
  <2>2. where \in AtTarget BY DEF AtTarget
  <2>3. Goto(s, where) BY <1>5
  <2> HIDE DEF where
  <2> QED BY <1>1, <1>2, <2>1, <2>2, <2>3, MoveKeeps
<1> QED BY <1>3, <1>4, <1>5

LEMMA RenameKeeps == ASSUME SyncInv, NEW s \in Syncs, Rename(s) PROVE SyncInv'
<1>1. pc[s] \in AtTarget BY DEF Rename, AtTarget
<1>2. StaleKept(s) BY DEF Rename, StaleKept, LookingAt, SyncInv, SyncTypeOK
<1>3. \/ GiveUp(s)
      \/ Tell(s, "wrote") /\ UNCHANGED <<exclude, mine, exit>>
  BY DEF Rename
<1>4. CASE GiveUp(s) BY <1>1, <1>2, <1>4, GiveUpKeeps
<1>5. CASE Tell(s, "wrote") /\ UNCHANGED <<exclude, mine, exit>>
  <2>1. UNCHANGED <<exclude, prefix, targets, exit>> BY <1>5 DEF mine
  <2> QED BY <1>1, <1>2, <1>5, <2>1, TellKeeps DEF Said
<1> QED BY <1>3, <1>4, <1>5

LEMMA KillKeeps == ASSUME SyncInv, NEW s \in Syncs, Kill(s) PROVE SyncInv'
<1>1. StaleKept(s) BY DEF Kill, ghosts, StaleKept, SyncInv, SyncTypeOK
<1>2. pc[s] # "done" /\ Goto(s, "killed") BY DEF Kill
<1>3. UNCHANGED <<exclude, prefix, targets, told, todo, exit>> BY DEF Kill, disk, mine
<1> QED BY <1>1, <1>2, <1>3, BreakKeeps

\* The steps before the targets and after them.
LEMMA BeginKeeps == ASSUME SyncInv, NEW s \in Syncs, Begin(s) PROVE SyncInv'
<1>1. /\ pc[s] = "begin" /\ stale' = stale
      /\ UNCHANGED <<exclude, prefix, told>>
  BY DEF Begin, disk, ghosts
<1>2. StaleKept(s) BY <1>1 DEF StaleKept, SyncInv, SyncTypeOK
<1>3. CASE Exit(s, 1) /\ UNCHANGED <<todo, targets>>
  BY <1>1, <1>2, <1>3, ExitKeeps DEF SyncInv, SyncTypeOK
<1>4. ASSUME NEW found \in SUBSET Harness,
             todo' = [todo EXCEPT ![s] = found], targets' = [targets EXCEPT ![s] = found],
             IF found = {} THEN Exit(s, 1) ELSE Goto(s, "install") /\ UNCHANGED exit
      PROVE  SyncInv'
  <2> DEFINE where == IF found = {} THEN "done" ELSE "install"
  <2>1. pc' = [pc EXCEPT ![s] = where] BY <1>4 DEF Exit, Goto
  <2>2. exit' = IF found = {} THEN [exit EXCEPT ![s] = 1] ELSE exit BY <1>4 DEF Exit
  <2>3. SyncTypeOK' BY <1>1, <1>4, <2>1, <2>2 DEF SyncInv, SyncTypeOK, Places
  <2>4. TurnsOK' BY <1>4, <2>1 DEF SyncInv, SyncTypeOK, TurnsOK, AtTarget
  <2>5. Accounted' BY <1>1, <1>4, <2>1, <2>2 DEF SyncInv, SyncTypeOK, Accounted
  <2>6. LooksRight' BY <1>1, <2>1 DEF SyncInv, SyncTypeOK, LooksRight
  <2> QED BY <2>3, <2>4, <2>5, <2>6 DEF SyncInv
<1>5. \/ Exit(s, 1) /\ UNCHANGED <<todo, targets>>
      \/ \E found \in SUBSET Harness :
           /\ todo' = [todo EXCEPT ![s] = found] /\ targets' = [targets EXCEPT ![s] = found]
           /\ IF found = {} THEN Exit(s, 1) ELSE Goto(s, "install") /\ UNCHANGED exit
  <2>1. CASE Fails /\ Exit(s, 1) /\ UNCHANGED <<todo, targets>> BY <2>1
  <2>2. ASSUME NEW only \in {Harness} \cup {{h} : h \in Harness},
               LET found == {h \in only : Installed(h)}
               IN  /\ todo' = [todo EXCEPT ![s] = found]
                   /\ targets' = [targets EXCEPT ![s] = found]
                   /\ IF found = {} THEN Exit(s, 1) ELSE Goto(s, "install") /\ UNCHANGED exit
        PROVE  \E found \in SUBSET Harness :
           /\ todo' = [todo EXCEPT ![s] = found] /\ targets' = [targets EXCEPT ![s] = found]
           /\ IF found = {} THEN Exit(s, 1) ELSE Goto(s, "install") /\ UNCHANGED exit
    <3>1. {h \in only : Installed(h)} \in SUBSET Harness OBVIOUS
    <3> QED BY <2>2, <3>1
  <2> QED BY <2>1, <2>2 DEF Begin
<1> QED BY <1>3, <1>4, <1>5

LEMMA ReadExcludeKeeps == ASSUME SyncInv, NEW s \in Syncs, ReadExclude(s) PROVE SyncInv'
<1>1. /\ pc[s] = "exclude" /\ stale' = stale \ {s} /\ UNCHANGED <<exclude, targets, told, todo>>
  BY DEF ReadExclude, disk
<1>2. StaleKept(s) BY <1>1 DEF StaleKept, SyncInv, SyncTypeOK
<1>3. \/ Exit(s, 1) /\ UNCHANGED prefix
      \/ Finish(s) /\ UNCHANGED prefix
      \/ /\ prefix' = [prefix EXCEPT ![s] = exclude.open]
         /\ Goto(s, "append") /\ UNCHANGED exit
  BY DEF ReadExclude
<1>4. CASE Exit(s, 1) /\ UNCHANGED prefix
  BY <1>1, <1>2, <1>4, ExitKeeps DEF SyncInv, SyncTypeOK
<1>5. CASE Finish(s) /\ UNCHANGED prefix
  <2>1. PICK code \in {0, 1} :
          Exit(s, code) /\ (code = 0 => \A h \in targets[s] : told[s][h] \in {"wrote", "current"})
    BY <1>1, <1>5, FinishFacts
  <2> QED BY <1>1, <1>2, <1>5, <2>1, ExitKeeps DEF SyncInv, SyncTypeOK
<1>6. CASE /\ prefix' = [prefix EXCEPT ![s] = exclude.open]
           /\ Goto(s, "append") /\ UNCHANGED exit
  <2>1. SyncTypeOK' BY <1>1, <1>6 DEF SyncInv, SyncTypeOK, Goto, Places
  <2>2. TurnsOK' BY <1>1, <1>6 DEF SyncInv, SyncTypeOK, TurnsOK, Goto, AtTarget
  <2>3. Accounted' BY <1>1, <1>6 DEF SyncInv, SyncTypeOK, Accounted, Goto
  <2>4. LooksRight' BY <1>1, <1>6 DEF SyncInv, SyncTypeOK, LooksRight, Goto
  <2> QED BY <2>1, <2>2, <2>3, <2>4 DEF SyncInv
<1> QED BY <1>3, <1>4, <1>5, <1>6

LEMMA AppendLineKeeps == ASSUME SyncInv, NEW s \in Syncs, AppendLine(s) PROVE SyncInv'
<1> DEFINE X == [lines : Seq(ExcludeLines), open : BOOLEAN]
<1>1. /\ pc[s] = "append" /\ stale' = stale \cup {t \in Syncs \ {s} : pc[t] = "append"}
      /\ UNCHANGED <<prefix, targets, told, todo>>
  BY DEF AppendLine, mine
<1>2. StaleKept(s) BY <1>1 DEF StaleKept, SyncInv, SyncTypeOK
<1>3. prefix[s] \in BOOLEAN /\ exclude \in X BY DEF SyncInv, SyncTypeOK
<1>4. \A w \in BOOLEAN : Written(exclude, prefix[s], w) \in X BY <1>3, WrittenFacts
<1>5. \/ exclude' \in X /\ Finish(s)
      \/ exclude' \in X /\ Exit(s, 1)
  BY <1>3, <1>4 DEF AppendLine
<1>6. \A t \in Syncs \ {s} : t \notin stale' =>
         prefix'[t] = prefix[t] /\ (pc[t] = "append" => exclude'.open = exclude.open)
  BY <1>1
<1>7. prefix' \in [Syncs -> BOOLEAN] BY <1>1 DEF SyncInv, SyncTypeOK
<1>8. CASE exclude' \in X /\ Finish(s)
  <2>1. PICK code \in {0, 1} :
          Exit(s, code) /\ (code = 0 => \A h \in targets[s] : told[s][h] \in {"wrote", "current"})
    BY <1>1, <1>8, FinishFacts
  <2> QED BY <1>1, <1>2, <1>6, <1>7, <1>8, <2>1, ExitKeeps
<1>9. CASE exclude' \in X /\ Exit(s, 1) BY <1>1, <1>2, <1>6, <1>7, <1>9, ExitKeeps
<1> QED BY <1>5, <1>8, <1>9

\* Whatever the user makes of a file.
LEMMA EditKeeps == ASSUME SyncInv, Edit PROVE SyncInv'
<1>1. UNCHANGED <<pc, prefix, targets, todo, told, exit>> BY DEF Edit, mine
<1>2. stale \subseteq stale' /\ stale' \in SUBSET Syncs
  BY DEF Edit, LookingAt, SyncInv, SyncTypeOK
<1>3. exclude' \in [lines : Seq(ExcludeLines), open : BOOLEAN]
  BY ExcludeAssumption DEF Edit, SyncInv, SyncTypeOK
<1>4. UNCHANGED exclude \/ \A t \in Syncs : pc[t] = "append" => t \in stale'
  BY DEF Edit
<1>5. SyncTypeOK' BY <1>1, <1>2, <1>3 DEF SyncInv, SyncTypeOK
<1>6. TurnsOK' BY <1>1 DEF SyncInv, TurnsOK
<1>7. Accounted' BY <1>1 DEF SyncInv, Accounted
<1>8. LooksRight' BY <1>1, <1>2, <1>4 DEF SyncInv, LooksRight
<1> QED BY <1>5, <1>6, <1>7, <1>8 DEF SyncInv

THEOREM SyncsAreSound == Spec => []SyncInv
<1>1. Init => SyncInv
  <2> SUFFICES ASSUME Init PROVE SyncInv OBVIOUS
  <2>1. exclude \in [lines : Seq(ExcludeLines), open : BOOLEAN]
    <3>1. PICK start \in Starts : exclude = start.exclude BY DEF Init
    <3> QED BY <3>1, ExcludeAssumption
  <2>2. SyncTypeOK BY <2>1 DEF Init, SyncTypeOK, Places, Said
  <2>3. TurnsOK BY DEF Init, TurnsOK, AtTarget
  <2>4. Accounted BY DEF Init, Accounted
  <2>5. LooksRight BY DEF Init, LooksRight
  <2> QED BY <2>2, <2>3, <2>4, <2>5 DEF SyncInv
<1>2. SyncInv /\ [Next]_vars => SyncInv'
  <2> SUFFICES ASSUME SyncInv, [Next]_vars PROVE SyncInv' OBVIOUS
  <2>1. ASSUME NEW s \in Syncs, Step(s) PROVE SyncInv'
    BY <2>1, BeginKeeps, ReadSettingsKeeps, LookModuleKeeps, ReadModuleKeeps, PrepareKeeps,
       RenameKeeps, ReadExcludeKeeps, AppendLineKeeps, KillKeeps DEF Step
  <2>2. CASE UNCHANGED vars
    <3>1. UNCHANGED <<pc, exclude, prefix, targets, todo, told, exit, stale>>
      BY <2>2 DEF vars, disk, mine, ghosts
    <3> QED BY <3>1 DEF SyncInv, SyncTypeOK, TurnsOK, Accounted, LooksRight
  <2> QED BY <2>1, <2>2, EditKeeps DEF Next
<1> QED BY <1>1, <1>2, PTL DEF Spec

\* installHooks tries every target whatever became of the ones before, and sync's exit
\* code 0 is true of all of them: for any adapters, files and failures.
THEOREM EveryTargetTriedHolds == Spec => []EveryTargetTried
<1>1. SyncInv => EveryTargetTried
  <2> SUFFICES ASSUME SyncInv, NEW s \in Syncs, pc[s] = "done", NEW h \in targets[s]
               PROVE  told[s][h] # "nothing" /\ (exit[s] = 0 => told[s][h] \in {"wrote", "current"})
    BY DEF EveryTargetTried
  <2>1. todo[s] = {} BY DEF SyncInv, TurnsOK
  <2> QED BY <2>1 DEF SyncInv, Accounted
<1> QED BY <1>1, SyncsAreSound, PTL

-----------------------------------------------------------------------------
\* A whole write behind what was looked at is one line of its own.
LEMMA WrittenAlone ==
  ASSUME NEW x \in [lines : Seq(ExcludeLines), open : BOOLEAN]
  PROVE  LET y == Written(x, x.open, TRUE) IN
         "ours" \in Range(y.lines) /\ IsPrefix(x.lines, y.lines)
<1> DEFINE lines == x.lines
           n == Len(lines)
           ours == "ours"
           more == Append(lines, ours)
<1>1. Written(x, x.open, TRUE).lines = more BY DEF Written
<1>2. lines \in Seq(ExcludeLines) /\ ours \in ExcludeLines BY DEF ExcludeLines
<1> HIDE DEF lines, ours
<1>3. n \in Nat /\ Len(more) = n + 1 /\ more[n + 1] = ours /\ DOMAIN more = 1..n + 1
      /\ more \in Seq(ExcludeLines)
  BY <1>2
<1>4. ours \in Range(more)
  <2>1. n + 1 \in DOMAIN more BY <1>3
  <2> QED BY <1>3, <2>1 DEF Range
<1>5. SubSeq(lines, 1, n) = SubSeq(more, 1, n)
  <2> DEFINE a == SubSeq(lines, 1, n)
             b == SubSeq(more, 1, n)
  <2>1. a \in Seq(ExcludeLines) /\ b \in Seq(ExcludeLines) /\ Len(a) = n /\ Len(b) = n
    BY <1>2, <1>3
  <2>2. \A i \in 1..n : a[i] = b[i] BY <1>2, <1>3
  <2> HIDE DEF a, b
  <2>3. a = b BY <1>3, <2>1, <2>2
  <2> QED BY <2>3 DEF a, b
<1>6. IsPrefix(lines, more) BY <1>3, <1>5 DEF IsPrefix
<1> QED BY <1>1, <1>4, <1>6 DEF lines, ours

LEMMA PrefixOfItself == ASSUME NEW S, NEW l \in Seq(S) PROVE IsPrefix(l, l)
BY DEF IsPrefix

\* Only the sync that steps gets an exit code, and it is 0 in two places.
LEMMA WhoExits ==
  ASSUME SyncInv, NEW s \in Syncs, exit[s] = 2, exit'[s] = 0, Next
  PROVE  \/ /\ pc[s] = "exclude" /\ UNCHANGED exclude
            /\ tree = "none" \/ (tree = "tree" /\ "ours" \in Range(exclude.lines))
         \/ pc[s] = "append" /\ exclude' = Written(exclude, prefix[s], TRUE)
<1> USE DEF SyncInv, SyncTypeOK
<1>1. CASE Edit BY <1>1 DEF Edit
<1>2. ASSUME NEW t \in Syncs, Step(t)
      PROVE  \/ /\ pc[s] = "exclude" /\ UNCHANGED exclude
                /\ tree = "none" \/ (tree = "tree" /\ "ours" \in Range(exclude.lines))
             \/ pc[s] = "append" /\ exclude' = Written(exclude, prefix[s], TRUE)
  <2>0. /\ \A want, seen : Compare(t, want, seen) => exit' = exit
        /\ GiveUp(t) => exit' = exit
    BY DEF Compare, GiveUp
  <2>1. CASE Begin(t) BY <2>1 DEF Begin, Exit
  <2>2. CASE ReadSettings(t)
    <3>1. exit' = exit BY <2>0, <2>2 DEF ReadSettings
    <3> QED BY <3>1
  <2>3. CASE LookModule(t)
    <3>1. exit' = exit BY <2>0, <2>3 DEF LookModule
    <3> QED BY <3>1
  <2>4. CASE ReadModule(t)
    <3>1. exit' = exit BY <2>0, <2>4 DEF ReadModule
    <3> QED BY <3>1
  <2>5. CASE Prepare(t)
    <3>1. exit' = exit BY <2>0, <2>5 DEF Prepare
    <3> QED BY <3>1
  <2>6. CASE Rename(t)
    <3>1. exit' = exit BY <2>0, <2>6 DEF Rename
    <3> QED BY <3>1
  <2>7. CASE Kill(t) BY <2>7 DEF Kill
  <2>8. CASE ReadExclude(t)
    <3>1. s = t BY <2>8 DEF ReadExclude, Finish, Exit
    <3>2. exit' # [exit EXCEPT ![s] = 1] /\ exit' # exit OBVIOUS
    <3> QED BY <2>8, <3>1, <3>2 DEF ReadExclude, Exit, disk
  <2>9. CASE AppendLine(t)
    <3>0. \E code : exit' = [exit EXCEPT ![t] = code] BY <2>9 DEF AppendLine, Finish, Exit
    <3>1. s = t BY <3>0
    <3>2. exit' # [exit EXCEPT ![s] = 1] OBVIOUS
    <3> QED BY <2>9, <3>1, <3>2 DEF AppendLine, Exit
  <2> QED BY <1>2, <2>1, <2>2, <2>3, <2>4, <2>5, <2>6, <2>7, <2>8, <2>9 DEF Step
<1> QED BY <1>1, <1>2 DEF Next

\* ExcludeLocal leaves handrail's line alone on a line and the user's lines as they were,
\* behind any number of other syncs, if the file is what it looked at.
THEOREM ExcludedAloneHolds == Spec => ExcludedAlone
<1> DEFINE Alone == \A s \in Syncs \ stale :
         exit[s] = 2 /\ exit'[s] = 0 /\ tree = "tree" =>
           "ours" \in Range(exclude'.lines) /\ IsPrefix(exclude.lines, exclude'.lines)
<1>1. SyncInv /\ [Next]_vars => [Alone]_vars
  <2> SUFFICES ASSUME SyncInv, Next, NEW s \in Syncs \ stale,
                      exit[s] = 2, exit'[s] = 0, tree = "tree"
               PROVE  "ours" \in Range(exclude'.lines) /\ IsPrefix(exclude.lines, exclude'.lines)
    OBVIOUS
  <2>1. exclude \in [lines : Seq(ExcludeLines), open : BOOLEAN] BY DEF SyncInv, SyncTypeOK
  <2>2. CASE exclude' = exclude /\ "ours" \in Range(exclude.lines)
    <3>1. exclude.lines \in Seq(ExcludeLines) BY <2>1
    <3> QED BY <2>2, <3>1, PrefixOfItself
  <2>3. CASE pc[s] = "append" /\ exclude' = Written(exclude, prefix[s], TRUE)
    <3>1. prefix[s] = exclude.open BY <2>3 DEF SyncInv, LooksRight
    <3> QED BY <2>1, <2>3, <3>1, WrittenAlone
  <2>4. \/ /\ pc[s] = "exclude" /\ UNCHANGED exclude
           /\ tree = "none" \/ (tree = "tree" /\ "ours" \in Range(exclude.lines))
        \/ pc[s] = "append" /\ exclude' = Written(exclude, prefix[s], TRUE)
    BY WhoExits
  <2> QED BY <2>2, <2>3, <2>4
<1>2. Spec => [][Alone]_vars BY <1>1, SyncsAreSound, PTL DEF Spec
<1> QED BY <1>2 DEF ExcludedAlone

-----------------------------------------------------------------------------
\* Induction over the naturals, for a set of them.
LEMMA EveryNatural ==
  ASSUME NEW T, 0 \in T, \A n \in Nat : n \in T => n + 1 \in T
  PROVE  \A n \in Nat : n \in T
<1> DEFINE S == {n \in Nat : n \notin T}
<1> SUFFICES ASSUME S # {} PROVE FALSE OBVIOUS
<1>1. S \in SUBSET Nat OBVIOUS
<1> HIDE DEF S
<1>2. IsWellFoundedOn(OpToRel(<, Nat), Nat) BY NatLessThanWellFounded
<1>3. \E x \in S : \A y \in S : <<y, x>> \notin OpToRel(<, Nat) BY <1>1, <1>2, WFMin
<1>4. PICK x \in S : \A y \in S : ~(y < x) BY <1>1, <1>3 DEF OpToRel
<1>5. x \in Nat /\ x # 0 /\ x \notin T BY DEF S
<1>6. x - 1 \in Nat /\ x - 1 < x BY <1>5
<1>7. x - 1 \in T BY <1>4, <1>6 DEF S
<1>8. (x - 1) + 1 = x BY <1>5
<1> QED BY <1>5, <1>6, <1>7, <1>8

\* A sequence, with what is appended to it and joined to it.
LEMMA SequenceFacts ==
  ASSUME NEW s, IsSequence(s)
  PROVE  /\ Len(s) \in Nat /\ DOMAIN s = 1..Len(s) /\ s \in Seq(Range(s))
         /\ \A i \in DOMAIN s : s[i] \in Range(s)
BY DEF IsSequence, Range

LEMMA IsSequenceOf ==
  ASSUME NEW S, NEW s \in Seq(S)
  PROVE  IsSequence(s) /\ Range(s) \subseteq S
<1>1. s \in [1..Len(s) -> S] /\ Len(s) \in Nat OBVIOUS
<1>2. s \in [1..Len(s) -> Range(s)] BY <1>1 DEF Range
<1> QED BY <1>1, <1>2 DEF IsSequence, Range

LEMMA AppendFacts ==
  ASSUME NEW s, NEW e, IsSequence(s)
  PROVE  LET t == Append(s, e) IN
         /\ IsSequence(t) /\ Len(t) = Len(s) + 1 /\ Range(t) = Range(s) \cup {e}
         /\ t[Len(s) + 1] = e /\ \A i \in DOMAIN s : i \in DOMAIN t /\ t[i] = s[i]
<1> DEFINE S == Range(s) \cup {e}
           t == Append(s, e)
<1>1. s \in Seq(S) /\ e \in S /\ Len(s) \in Nat /\ DOMAIN s = 1..Len(s)
  BY SequenceFacts DEF IsSequence
<1>2. /\ t \in Seq(S) /\ Len(t) = Len(s) + 1 /\ t[Len(s) + 1] = e
      /\ \A i \in 1..Len(s) : t[i] = s[i]
  BY <1>1
<1>3. DOMAIN t = 1..Len(s) + 1 BY <1>1, <1>2
<1>4. Range(t) = S
  <2>1. \A i \in DOMAIN t : i \in DOMAIN s \/ i = Len(s) + 1 BY <1>1, <1>3
  <2>2. Len(s) + 1 \in DOMAIN t /\ \A i \in DOMAIN s : i \in DOMAIN t BY <1>1, <1>3
  <2> QED BY <1>1, <1>2, <2>1, <2>2 DEF Range
<1>5. IsSequence(t) BY <1>2, IsSequenceOf
<1>6. \A i \in DOMAIN s : i \in DOMAIN t BY <1>1, <1>3
<1> QED BY <1>1, <1>2, <1>4, <1>5, <1>6

LEMMA JoinFacts ==
  ASSUME NEW s, NEW t, IsSequence(s), IsSequence(t)
  PROVE  IsSequence(s \o t) /\ Range(s \o t) = Range(s) \cup Range(t)
<1> DEFINE S == Range(s) \cup Range(t)
<1>1. s \in Seq(S) /\ t \in Seq(S) /\ DOMAIN s = 1..Len(s) /\ DOMAIN t = 1..Len(t)
      /\ Len(s) \in Nat /\ Len(t) \in Nat
  BY SequenceFacts DEF IsSequence
<1>2. /\ s \o t \in Seq(S) /\ DOMAIN (s \o t) = 1..Len(s) + Len(t)
      /\ \A i \in 1..Len(s) + Len(t) :
           (s \o t)[i] = IF i <= Len(s) THEN s[i] ELSE t[i - Len(s)]
  BY <1>1
<1>3. Range(s \o t) \subseteq S BY <1>2, IsSequenceOf
<1>4. Range(s) \subseteq Range(s \o t) BY <1>1, <1>2 DEF Range
<1>5. Range(t) \subseteq Range(s \o t)
  <2>1. \A i \in DOMAIN t : Len(s) + i \in 1..Len(s) + Len(t) /\ (s \o t)[Len(s) + i] = t[i]
    BY <1>1, <1>2
  <2> QED BY <1>2, <2>1 DEF Range
<1> QED BY <1>2, <1>3, <1>4, <1>5, IsSequenceOf

\* A list is empty, or it is a shorter one with something appended.
LEMMA ListCases ==
  ASSUME NEW s, IsSequence(s), Len(s) # 0
  PROVE  \E front, x : /\ IsSequence(front) /\ Len(front) + 1 = Len(s) /\ s = Append(front, x)
                       /\ x \in Range(s) /\ Range(front) \subseteq Range(s)
<1> DEFINE S == Range(s)
           n == Len(s)
           front == SubSeq(s, 1, n - 1)
<1>1. s \in Seq(S) /\ n \in Nat /\ DOMAIN s = 1..n /\ s[n] \in S
  <2>1. n \in Nat /\ DOMAIN s = 1..n /\ s \in Seq(S) BY SequenceFacts
  <2>2. n \in DOMAIN s BY <2>1
  <2> QED BY <2>1, <2>2 DEF Range
<1> HIDE DEF S, n
<1>2. front \in Seq(S) /\ Len(front) = n - 1 /\ \A i \in 1..n - 1 : front[i] = s[i]
  BY <1>1 DEF n
<1>3. s = Append(front, s[n])
  <2> DEFINE t == Append(front, s[n])
  <2>1. n # 0 BY DEF n
  <2>2. t \in Seq(S) /\ Len(t) = n BY <1>1, <1>2, <2>1
  <2>3. \A i \in 1..n : t[i] = s[i] BY <1>1, <1>2, <2>1
  <2> HIDE DEF t
  <2>4. t = s BY <1>1, <2>2, <2>3, SeqEqual DEF n
  <2> QED BY <2>4 DEF t
<1>4. IsSequence(front) /\ Range(front) \subseteq S BY <1>2, IsSequenceOf
<1>5. Len(front) + 1 = n BY <1>1, <1>2
<1> HIDE DEF front
<1> QED BY <1>1, <1>3, <1>4, <1>5 DEF S, n

\* A recursion on the naturals up to n has a solution.
Solves(f, n, L, a, step) ==
  /\ f \in [0..n -> L]
  /\ f[0] = a /\ \A k \in 1..n : f[k] = step[k][f[k - 1]]

LEMMA RecursionSolved ==
  ASSUME NEW L, NEW n, NEW a, NEW step, n \in Nat, a \in L, step \in [1..n -> [L -> L]]
  PROVE  \E f : Solves(f, n, L, a, step)
<1> DEFINE Upto(m) == \E f \in [0..m -> L] : f[0] = a /\ \A k \in 1..m : f[k] = step[k][f[k - 1]]
           T == {m \in Nat : m <= n => Upto(m)}
<1>1. Upto(0)
  <2> DEFINE f == [k \in 0..0 |-> a]
  <2>1. f \in [0..0 -> L] /\ f[0] = a OBVIOUS
  <2>2. \A k \in 1..0 : FALSE OBVIOUS
  <2> HIDE DEF f
  <2> QED BY <2>1, <2>2
<1>2. ASSUME NEW m \in Nat, m + 1 <= n, Upto(m) PROVE Upto(m + 1)
  <2>1. PICK f \in [0..m -> L] : f[0] = a /\ \A k \in 1..m : f[k] = step[k][f[k - 1]]
    BY <1>2
  <2> DEFINE last == step[m + 1][f[m]]
             g == [k \in 0..m + 1 |-> IF k = m + 1 THEN last ELSE f[k]]
  <2>2. last \in L
    <3>1. m + 1 \in 1..n /\ f[m] \in L BY <1>2
    <3> QED BY <3>1
  <2> HIDE DEF last
  <2>3. g \in [0..m + 1 -> L] /\ g[0] = a BY <2>1, <2>2
  <2>4. \A k \in 1..m + 1 : g[k] = step[k][g[k - 1]]
    <3> TAKE k \in 1..m + 1
    <3>1. CASE k = m + 1
      <4>1. g[k] = last /\ g[k - 1] = f[m] BY <3>1
      <4> QED BY <3>1, <4>1 DEF last
    <3>2. CASE k # m + 1
      <4>1. k \in 1..m /\ k - 1 \in 0..m BY <3>2
      <4>2. g[k] = f[k] /\ g[k - 1] = f[k - 1] BY <4>1
      <4> QED BY <2>1, <4>1, <4>2
    <3> QED BY <3>1, <3>2
  <2> HIDE DEF g
  <2> QED BY <2>3, <2>4
<1> HIDE DEF Upto
<1>3. \A m \in Nat : m \in T
  <2>1. 0 \in T BY <1>1
  <2>2. \A m \in Nat : m \in T => m + 1 \in T BY <1>2
  <2> HIDE DEF T
  <2> QED BY <2>1, <2>2, EveryNatural
<1> QED BY <1>3 DEF Upto, Solves

\* Kept goes through s; the lists it has on the way.
Keeps(s, S, f) ==
  /\ f[0] = <<>>
  /\ \A n \in 1..Len(s) : f[n] = IF s[n] \in S THEN Append(f[n - 1], s[n]) ELSE f[n - 1]

LEMMA KeptIs ==
  ASSUME NEW s, NEW S, IsSequence(s)
  PROVE  \E f \in [0..Len(s) -> Seq(Range(s))] : Keeps(s, S, f) /\ Kept(s, S) = f[Len(s)]
<1> DEFINE n == Len(s)
           L == Seq(Range(s))
           body(f) == [k \in 0..n |-> IF k = 0 THEN <<>>
                                      ELSE IF s[k] \in S THEN Append(f[k - 1], s[k]) ELSE f[k - 1]]
           kept == CHOOSE f : f = body(f)
           step == [k \in 1..n |-> [l \in L |-> IF s[k] \in S THEN Append(l, s[k]) ELSE l]]
<1>1. n \in Nat /\ \A k \in 1..n : s[k] \in Range(s) BY SequenceFacts
<1>2. step \in [1..n -> [L -> L]] /\ <<>> \in L BY <1>1
<1>3. PICK f : Solves(f, n, L, <<>>, step)
  <2>1. n \in Nat /\ <<>> \in L /\ step \in [1..n -> [L -> L]] BY <1>1, <1>2
  <2> HIDE DEF step, L, n
  <2> QED BY <2>1, RecursionSolved
<1>4. \A k \in 1..n : f[k] = IF s[k] \in S THEN Append(f[k - 1], s[k]) ELSE f[k - 1]
  <2> TAKE k \in 1..n
  <2>1. f[k - 1] \in L BY <1>1, <1>3 DEF Solves
  <2>2. f[k] = step[k][f[k - 1]] BY <1>3 DEF Solves
  <2> QED BY <2>1, <2>2
<1>5. f = body(f)
  <2>1. \A k \in 0..n : k = 0 \/ k \in 1..n BY <1>1
  <2>2. \A k \in 0..n : f[k] = IF k = 0 THEN <<>>
                               ELSE IF s[k] \in S THEN Append(f[k - 1], s[k]) ELSE f[k - 1]
    BY <1>3, <1>4, <2>1 DEF Solves
  <2> QED BY <1>3, <2>2 DEF Solves
<1>6. kept = body(kept) BY <1>5
<1>7. Kept(s, S) = kept[n] BY DEF Kept
<1> HIDE DEF kept
<1>8. Keeps(s, S, kept)
  <2>1. 0 \in 0..n /\ \A k \in 1..n : k \in 0..n /\ k # 0 BY <1>1
  <2>2. \A k \in 0..n : kept[k] = IF k = 0 THEN <<>>
                               ELSE IF s[k] \in S THEN Append(kept[k - 1], s[k]) ELSE kept[k - 1]
    BY <1>6
  <2> QED BY <2>1, <2>2 DEF Keeps
<1>9. kept \in [0..n -> L]
  <2> DEFINE T == {k \in Nat : k <= n => kept[k] \in L}
  <2>1. 0 \in T BY <1>2, <1>8 DEF Keeps
  <2>2. \A k \in Nat : k \in T => k + 1 \in T
    <3> SUFFICES ASSUME NEW k \in Nat, kept[k] \in L, k + 1 <= n PROVE kept[k + 1] \in L
      BY <1>1
    <3>1. k + 1 \in 1..n /\ (k + 1) - 1 = k BY <1>1
    <3>2. kept[k + 1] = IF s[k + 1] \in S THEN Append(kept[k], s[k + 1]) ELSE kept[k]
      BY <1>8, <3>1 DEF Keeps
    <3> QED BY <1>1, <3>1, <3>2
  <2>3. \A k \in Nat : k \in T
    <3> HIDE DEF T
    <3> QED BY <2>1, <2>2, EveryNatural
  <2>4. \A k \in 0..n : kept[k] \in L BY <1>1, <2>3
  <2>5. kept = [k \in 0..n |-> kept[k]] BY <1>6
  <2> QED BY <2>4, <2>5
<1> QED BY <1>7, <1>8, <1>9

LEMMA SequenceIn ==
  ASSUME NEW s, NEW X, IsSequence(s), Range(s) \subseteq X
  PROVE  s \in Seq(X)
<1>1. s \in Seq(Range(s)) BY DEF IsSequence
<1> QED BY <1>1, SeqMonotonic

\* Induction over lists.
LEMMA EveryList ==
  ASSUME NEW X, NEW T, <<>> \in T, \A l \in Seq(X), x \in X : l \in T => Append(l, x) \in T
  PROVE  \A l \in Seq(X) : l \in T
<1> DEFINE N == {n \in Nat : \A l \in Seq(X) : Len(l) = n => l \in T}
<1>1. 0 \in N
  <2>1. \A l \in Seq(X) : Len(l) = 0 => l = <<>> BY EmptySeq
  <2> QED BY <2>1
<1>2. ASSUME NEW n \in Nat, n \in N, NEW l \in Seq(X), Len(l) = n + 1 PROVE l \in T
  <2>1. IsSequence(l) /\ Range(l) \subseteq X BY IsSequenceOf
  <2>2. PICK front, x : /\ IsSequence(front) /\ Len(front) + 1 = Len(l) /\ l = Append(front, x)
                        /\ x \in Range(l) /\ Range(front) \subseteq Range(l)
    BY <1>2, <2>1, ListCases
  <2>3. front \in Seq(X) /\ x \in X /\ Len(front) \in Nat BY <2>1, <2>2, SequenceIn, SequenceFacts
  <2>4. Len(front) = n BY <1>2, <2>2, <2>3
  <2>5. front \in T BY <1>2, <2>3, <2>4
  <2> QED BY <2>2, <2>3, <2>5
<1>3. \A n \in Nat : n \in N => n + 1 \in N BY <1>2
<1>4. \A n \in Nat : n \in N
  <2> HIDE DEF N
  <2> QED BY <1>1, <1>3, EveryNatural
<1>5. \A l \in Seq(X) : Len(l) \in Nat OBVIOUS
<1> QED BY <1>4, <1>5

LEMMA NothingIsAList == IsSequence(<<>>) /\ Range(<<>>) = {} /\ Len(<<>>) = 0
<1> DEFINE none == <<>>
           S == {}
<1>1. none \in Seq(S) /\ Len(none) = 0 BY EmptySeq
<1> HIDE DEF none, S
<1>2. IsSequence(none) /\ Range(none) \subseteq S BY <1>1, IsSequenceOf
<1>3. IsSequence(none) /\ Range(none) = {} /\ Len(none) = 0 BY <1>1, <1>2 DEF S
<1> QED BY <1>3 DEF none

\* What Kept keeps of a list with something appended, of lists joined, of all and nothing.
LEMMA KeptEmpty == \A S : Kept(<<>>, S) = <<>>
<1> TAKE S
<1>1. PICK f \in [0..Len(<<>>) -> Seq(Range(<<>>))] :
        Keeps(<<>>, S, f) /\ Kept(<<>>, S) = f[Len(<<>>)]
  BY KeptIs, NothingIsAList
<1> QED BY <1>1, NothingIsAList DEF Keeps

LEMMA KeptAppend ==
  ASSUME NEW s, NEW x, NEW S, IsSequence(s)
  PROVE  Kept(Append(s, x), S) = IF x \in S THEN Append(Kept(s, S), x) ELSE Kept(s, S)
<1> DEFINE t == Append(s, x)
           n == Len(s)
<1>1. PICK f \in [0..n -> Seq(Range(s))] : Keeps(s, S, f) /\ Kept(s, S) = f[n] BY KeptIs
<1>2. IsSequence(t) /\ Len(t) = n + 1 /\ t[n + 1] = x /\ \A i \in DOMAIN s : t[i] = s[i]
  BY AppendFacts
<1>3. PICK g \in [0..Len(t) -> Seq(Range(t))] : Keeps(t, S, g) /\ Kept(t, S) = g[Len(t)]
  BY <1>2, KeptIs
<1>4. n \in Nat /\ DOMAIN s = 1..n BY SequenceFacts
<1> HIDE DEF t
<1>5. \A k \in Nat : k <= n => g[k] = f[k]
  <2> DEFINE T == {k \in Nat : k <= n => g[k] = f[k]}
  <2>1. 0 \in T BY <1>1, <1>3 DEF Keeps
  <2>2. ASSUME NEW k \in Nat, k + 1 <= n, g[k] = f[k] PROVE g[k + 1] = f[k + 1]
    <3>1. k + 1 \in 1..n /\ k + 1 \in 1..(n + 1) /\ (k + 1) - 1 = k BY <1>4, <2>2
    <3>2. t[k + 1] = s[k + 1] BY <1>2, <1>4, <3>1
    <3>3. f[k + 1] = IF s[k + 1] \in S THEN Append(f[k], s[k + 1]) ELSE f[k]
      BY <1>1, <3>1 DEF Keeps
    <3>4. g[k + 1] = IF t[k + 1] \in S THEN Append(g[k], t[k + 1]) ELSE g[k]
      BY <1>2, <1>3, <3>1 DEF Keeps
    <3> QED BY <2>2, <3>2, <3>3, <3>4
  <2>3. \A k \in Nat : k \in T => k + 1 \in T BY <1>4, <2>2
  <2>4. \A k \in Nat : k \in T
    <3> HIDE DEF T
    <3> QED BY <2>1, <2>3, EveryNatural
  <2> QED BY <2>4
<1>6. n + 1 \in 1..(n + 1) /\ (n + 1) - 1 = n BY <1>4
<1>7. g[n + 1] = IF t[n + 1] \in S THEN Append(g[n], t[n + 1]) ELSE g[n]
  BY <1>2, <1>3, <1>6 DEF Keeps
<1>8. g[n] = f[n] BY <1>4, <1>5
<1> QED BY <1>1, <1>2, <1>3, <1>7, <1>8 DEF t

LEMMA KeptFacts ==
  ASSUME NEW s, NEW S, IsSequence(s)
  PROVE  IsSequence(Kept(s, S)) /\ Range(Kept(s, S)) = Range(s) \cap S
<1> DEFINE X == Range(s)
           T == {l \in Seq(X) : IsSequence(Kept(l, S)) /\ Range(Kept(l, S)) = Range(l) \cap S}
<1>1. <<>> \in T BY KeptEmpty, NothingIsAList, EmptySeq
<1>2. ASSUME NEW l \in Seq(X), NEW x \in X, l \in T PROVE Append(l, x) \in T
  <2>1. IsSequence(l) /\ Append(l, x) \in Seq(X) BY IsSequenceOf
  <2>2. Range(Append(l, x)) = Range(l) \cup {x} BY <2>1, AppendFacts
  <2>3. IsSequence(Kept(l, S)) /\ Range(Kept(l, S)) = Range(l) \cap S BY <1>2
  <2>4. IsSequence(Append(Kept(l, S), x)) /\ Range(Append(Kept(l, S), x)) = (Range(l) \cap S) \cup {x}
    BY <2>3, AppendFacts
  <2>5. CASE x \in S
    <3>1. Kept(Append(l, x), S) = Append(Kept(l, S), x) BY <2>1, <2>5, KeptAppend
    <3> QED BY <2>1, <2>2, <2>4, <2>5, <3>1
  <2>6. CASE x \notin S
    <3>1. Kept(Append(l, x), S) = Kept(l, S) BY <2>1, <2>6, KeptAppend
    <3> QED BY <2>1, <2>2, <2>3, <2>6, <3>1
  <2> QED BY <2>5, <2>6
<1>3. s \in Seq(X) BY DEF IsSequence
<1>4. \A l \in Seq(X) : l \in T
  <2> HIDE DEF T, X
  <2> QED BY <1>1, <1>2, EveryList
<1> QED BY <1>3, <1>4

LEMMA KeptSame ==
  ASSUME NEW s, NEW S, NEW U, IsSequence(s), \A x \in Range(s) : x \in S <=> x \in U
  PROVE  Kept(s, S) = Kept(s, U)
<1> DEFINE X == Range(s)
           T == {l \in Seq(X) : Kept(l, S) = Kept(l, U)}
<1>1. <<>> \in T BY KeptEmpty, EmptySeq
<1>2. ASSUME NEW l \in Seq(X), NEW x \in X, l \in T PROVE Append(l, x) \in T
  <2>1. IsSequence(l) /\ Append(l, x) \in Seq(X) BY IsSequenceOf
  <2>2. Kept(Append(l, x), S) = IF x \in S THEN Append(Kept(l, S), x) ELSE Kept(l, S)
    BY <2>1, KeptAppend
  <2>3. Kept(Append(l, x), U) = IF x \in U THEN Append(Kept(l, U), x) ELSE Kept(l, U)
    BY <2>1, KeptAppend
  <2> QED BY <1>2, <2>1, <2>2, <2>3
<1>3. s \in Seq(X) BY DEF IsSequence
<1>4. \A l \in Seq(X) : l \in T
  <2> HIDE DEF T, X
  <2> QED BY <1>1, <1>2, EveryList
<1> QED BY <1>3, <1>4

LEMMA KeptAll ==
  ASSUME NEW s, NEW S, IsSequence(s), Range(s) \subseteq S
  PROVE  Kept(s, S) = s
<1> DEFINE X == Range(s)
           T == {l \in Seq(X) : Kept(l, S) = l}
<1>1. <<>> \in T BY KeptEmpty, EmptySeq
<1>2. ASSUME NEW l \in Seq(X), NEW x \in X, l \in T PROVE Append(l, x) \in T
  <2>1. IsSequence(l) /\ Append(l, x) \in Seq(X) BY IsSequenceOf
  <2> QED BY <1>2, <2>1, KeptAppend
<1>3. s \in Seq(X) BY DEF IsSequence
<1>4. \A l \in Seq(X) : l \in T
  <2> HIDE DEF T, X
  <2> QED BY <1>1, <1>2, EveryList
<1> QED BY <1>3, <1>4

LEMMA OnlyEmpty ==
  ASSUME NEW s, IsSequence(s), Range(s) = {}
  PROVE  s = <<>>
<1>1. s \in Seq({}) BY DEF IsSequence
<1>2. IF s = <<>> THEN TRUE ELSE Len(s) \in Nat \ {0} BY <1>1, EmptySeq
<1>3. DOMAIN s = 1..Len(s) /\ \A i \in DOMAIN s : s[i] \in Range(s) BY SequenceFacts
<1> QED BY <1>2, <1>3

LEMMA KeptNothing ==
  ASSUME NEW s, NEW S, IsSequence(s), \A x \in Range(s) : x \notin S
  PROVE  Kept(s, S) = <<>>
<1>1. IsSequence(Kept(s, S)) /\ Range(Kept(s, S)) = {} BY KeptFacts
<1> QED BY <1>1, OnlyEmpty

\* Joining to a list, one by one.
LEMMA JoinAppend ==
  ASSUME NEW s, NEW l, NEW x, IsSequence(s), IsSequence(l)
  PROVE  s \o <<>> = s /\ s \o Append(l, x) = Append(s \o l, x)
<1> DEFINE X == (Range(s) \cup Range(l)) \cup {x}
<1>1. s \in Seq(X) /\ l \in Seq(X) /\ x \in X BY SequenceIn
<1> HIDE DEF X
<1>2. s \o <<>> = s BY <1>1, ConcatEmptySeq
<1>3. Append(l, x) = l \o <<x>> /\ Append(s \o l, x) = (s \o l) \o <<x>> /\ <<x>> \in Seq(X)
  BY <1>1
<1>4. (s \o l) \o <<x>> = s \o (l \o <<x>>) BY <1>1, <1>3, ConcatAssociative
<1> QED BY <1>2, <1>3, <1>4

LEMMA KeptJoin ==
  ASSUME NEW s, NEW t, NEW S, IsSequence(s), IsSequence(t)
  PROVE  Kept(s \o t, S) = Kept(s, S) \o Kept(t, S)
<1> DEFINE X == Range(t)
           T == {l \in Seq(X) : Kept(s \o l, S) = Kept(s, S) \o Kept(l, S)}
<1>1. IsSequence(Kept(s, S)) BY KeptFacts
<1>2. <<>> \in T
  <2>1. s \o <<>> = s /\ Kept(s, S) \o <<>> = Kept(s, S) BY <1>1, JoinAppend
  <2> QED BY <2>1, KeptEmpty, EmptySeq
<1>3. ASSUME NEW l \in Seq(X), NEW x \in X, l \in T PROVE Append(l, x) \in T
  <2>1. IsSequence(l) /\ Append(l, x) \in Seq(X) BY IsSequenceOf
  <2>2. IsSequence(s \o l) /\ IsSequence(Kept(l, S)) BY <2>1, JoinFacts, KeptFacts
  <2>3. s \o Append(l, x) = Append(s \o l, x) BY <2>1, JoinAppend
  <2>4. Kept(Append(s \o l, x), S) = IF x \in S THEN Append(Kept(s \o l, S), x) ELSE Kept(s \o l, S)
    BY <2>2, KeptAppend
  <2>5. Kept(Append(l, x), S) = IF x \in S THEN Append(Kept(l, S), x) ELSE Kept(l, S)
    BY <2>1, KeptAppend
  <2>6. Kept(s, S) \o Append(Kept(l, S), x) = Append(Kept(s, S) \o Kept(l, S), x)
    BY <1>1, <2>2, JoinAppend
  <2> QED BY <1>3, <2>1, <2>3, <2>4, <2>5, <2>6
<1>4. t \in Seq(X) BY DEF IsSequence
<1>5. \A l \in Seq(X) : l \in T
  <2> HIDE DEF T, X
  <2> QED BY <1>2, <1>3, EveryList
<1> QED BY <1>4, <1>5

\* A list with every member mapped by a function.
Mapped(l, F) == [i \in DOMAIN l |-> F[l[i]]]

LEMMA MappedFacts ==
  ASSUME NEW l, NEW F, IsSequence(l)
  PROVE  /\ IsSequence(Mapped(l, F)) /\ Len(Mapped(l, F)) = Len(l)
         /\ DOMAIN Mapped(l, F) = DOMAIN l /\ \A i \in DOMAIN l : Mapped(l, F)[i] = F[l[i]]
         /\ Range(Mapped(l, F)) = {F[x] : x \in Range(l)}
<1> DEFINE n == Len(l)
           t == Mapped(l, F)
           X == {F[x] : x \in Range(l)}
<1>1. n \in Nat /\ DOMAIN l = 1..n BY SequenceFacts
<1>2. t = [i \in 1..n |-> F[l[i]]] BY <1>1 DEF Mapped
<1>3. \A i \in 1..n : F[l[i]] \in X BY <1>1 DEF Range
<1>4. \A i \in 1..n : t[i] = F[l[i]] BY <1>2
<1>5. t \in [1..n -> X] BY <1>2, <1>3
<1>6. t \in Seq(X) /\ Len(t) = n /\ DOMAIN t = 1..n BY <1>1, <1>5
<1>7. Range(t) = X BY <1>1, <1>4, <1>6 DEF Range
<1>8. IsSequence(t) BY <1>6, IsSequenceOf
<1> QED BY <1>1, <1>4, <1>6, <1>7, <1>8

LEMMA MappedEmpty == \A F : Mapped(<<>>, F) = <<>>
<1> TAKE F
<1> DEFINE t == Mapped(<<>>, F)
<1>1. IsSequence(t) /\ Range(t) = {F[x] : x \in Range(<<>>)} BY MappedFacts, NothingIsAList
<1>2. Range(t) = {} BY <1>1, NothingIsAList
<1> HIDE DEF t
<1>3. t = <<>> BY <1>1, <1>2, OnlyEmpty
<1> QED BY <1>3 DEF t

LEMMA MappedAppend ==
  ASSUME NEW l, NEW x, NEW F, IsSequence(l)
  PROVE  Mapped(Append(l, x), F) = Append(Mapped(l, F), F[x])
<1> DEFINE n == Len(l)
           m == Mapped(l, F)
           t == Append(l, x)
           a == Append(m, F[x])
           b == Mapped(t, F)
<1>1. n \in Nat /\ DOMAIN l = 1..n BY SequenceFacts
<1>2. IsSequence(t) /\ Len(t) = n + 1 /\ t[n + 1] = x /\ \A i \in 1..n : t[i] = l[i]
  BY <1>1, AppendFacts
<1>3. IsSequence(m) /\ Len(m) = n /\ \A i \in 1..n : m[i] = F[l[i]] BY <1>1, MappedFacts
<1>4. IsSequence(b) /\ Len(b) = n + 1 /\ \A i \in 1..(n + 1) : b[i] = F[t[i]]
  <2>1. DOMAIN t = 1..(n + 1) BY <1>2, SequenceFacts
  <2> HIDE DEF t
  <2> QED BY <1>2, <2>1, MappedFacts
<1> HIDE DEF m, t, b
<1>5. DOMAIN m = 1..n BY <1>3, SequenceFacts
<1>6. IsSequence(a) /\ Len(a) = n + 1 /\ a[n + 1] = F[x] /\ \A i \in 1..n : a[i] = m[i]
  BY <1>3, <1>5, AppendFacts
<1> HIDE DEF a
<1> DEFINE S == Range(a) \cup Range(b)
<1>7. a \in Seq(S) /\ b \in Seq(S) BY <1>4, <1>6, SequenceIn
<1>8. \A i \in 1..(n + 1) : a[i] = b[i]
  <2> TAKE i \in 1..(n + 1)
  <2>1. CASE i = n + 1 BY <1>2, <1>4, <1>6, <2>1
  <2>2. CASE i # n + 1
    <3>1. i \in 1..n BY <1>1, <2>2
    <3> QED BY <1>2, <1>3, <1>4, <1>6, <3>1
  <2> QED BY <2>1, <2>2
<1> HIDE DEF S
<1>9. a = b BY <1>4, <1>6, <1>7, <1>8, SeqEqual
<1> QED BY <1>9 DEF a, b, m, t

\* FlattenSeq goes through the lists it joins; what it has joined on the way.
Joins(ss, f) ==
  f[0] = <<>> /\ \A k \in 1..Len(ss) : f[k] = f[k - 1] \o ss[k]

LEMMA FlattenIs ==
  ASSUME NEW ss, NEW X, IsSequence(ss), Range(ss) \subseteq Seq(X)
  PROVE  \E f : /\ Joins(ss, f) /\ FlattenSeq(ss) = f[Len(ss)]
                /\ \A k \in 0..Len(ss) : f[k] \in Seq(X)
<1> DEFINE n == Len(ss)
           L == Seq(X)
           body(h) == [i \in 1..n |-> IF i = 1 THEN ss[i] ELSE h[i - 1] \o ss[i]]
           flatten == CHOOSE h : h = body(h)
           step == [k \in 1..n |-> [l \in L |-> l \o ss[k]]]
           f == [k \in 0..n |-> IF k = 0 THEN <<>> ELSE flatten[k]]
<1>1. n \in Nat /\ \A k \in 1..n : ss[k] \in L BY SequenceFacts
<1>2. <<>> \in L /\ \A l \in L : <<>> \o l = l BY ConcatEmptySeq
<1>3. step \in [1..n -> [L -> L]] BY <1>1
<1>4. PICK g : Solves(g, n, L, <<>>, step)
  <2>1. n \in Nat /\ <<>> \in L /\ step \in [1..n -> [L -> L]] BY <1>1, <1>2, <1>3
  <2> HIDE DEF step, L, n
  <2> QED BY <2>1, RecursionSolved
<1>5. \A k \in 1..n : g[k - 1] \in L /\ g[k] = g[k - 1] \o ss[k]
  <2> TAKE k \in 1..n
  <2>1. g[k - 1] \in L BY <1>1, <1>4 DEF Solves
  <2>2. g[k] = step[k][g[k - 1]] BY <1>4 DEF Solves
  <2> QED BY <2>1, <2>2
<1> DEFINE h == [i \in 1..n |-> g[i]]
<1>6. h = body(h)
  <2>1. \A i \in 1..n : h[i] = IF i = 1 THEN ss[i] ELSE h[i - 1] \o ss[i]
    <3> TAKE i \in 1..n
    <3>1. h[i] = g[i - 1] \o ss[i] BY <1>5
    <3>2. CASE i = 1
      <4>1. g[i - 1] = <<>> /\ ss[i] \in L BY <1>1, <1>4, <3>2 DEF Solves
      <4> QED BY <1>2, <3>1, <3>2, <4>1
    <3>3. CASE i # 1
      <4>1. i - 1 \in 1..n BY <1>1, <3>3
      <4> QED BY <3>1, <3>3, <4>1
    <3> QED BY <3>2, <3>3
  <2> HIDE DEF h
  <2>2. h = [i \in 1..n |-> h[i]] BY DEF h
  <2> QED BY <2>1, <2>2
<1>7. flatten = body(flatten) BY <1>6
<1>8. FlattenSeq(ss) = IF n = 0 THEN ss ELSE flatten[n] BY DEF FlattenSeq
<1> HIDE DEF flatten
<1>9. \A i \in 1..n : flatten[i] = IF i = 1 THEN ss[i] ELSE flatten[i - 1] \o ss[i] BY <1>7
<1>10. Joins(ss, f)
  <2>1. f[0] = <<>> BY <1>1
  <2>2. ASSUME NEW k \in 1..n PROVE f[k] = f[k - 1] \o ss[k]
    <3>1. f[k] = flatten[k] /\ k - 1 \in 0..n BY <1>1
    <3>2. CASE k = 1
      <4>1. f[k - 1] = <<>> /\ ss[k] \in L BY <1>1, <2>1, <3>2
      <4>2. flatten[k] = ss[k] BY <1>9, <3>2
      <4> QED BY <1>2, <3>1, <4>1, <4>2
    <3>3. CASE k # 1
      <4>1. f[k - 1] = flatten[k - 1] BY <3>1, <3>3
      <4> QED BY <1>9, <3>1, <3>3, <4>1
    <3> QED BY <3>2, <3>3
  <2> HIDE DEF f
  <2> QED BY <2>1, <2>2 DEF Joins
<1>11. FlattenSeq(ss) = f[n]
  <2>1. CASE n = 0
    <3>1. ss = <<>>
      <4>1. ss \in Seq(L) BY SequenceIn
      <4>2. ss # <<>> => Len(ss) \in Nat \ {0} BY <4>1, EmptySeq
      <4> QED BY <2>1, <4>2
    <3> QED BY <1>8, <2>1, <3>1
  <2>2. CASE n # 0
    <3>1. n \in 0..n BY <1>1
    <3> QED BY <1>8, <2>2, <3>1
  <2> QED BY <2>1, <2>2
<1> HIDE DEF f
<1>12. \A k \in 0..n : f[k] \in L
  <2> DEFINE T == {k \in Nat : k <= n => f[k] \in L}
  <2>1. 0 \in T BY <1>2, <1>10 DEF Joins
  <2>2. ASSUME NEW k \in Nat, k + 1 <= n, f[k] \in L PROVE f[k + 1] \in L
    <3>1. k + 1 \in 1..n /\ (k + 1) - 1 = k BY <1>1, <2>2
    <3>2. f[k + 1] = f[k] \o ss[k + 1] /\ ss[k + 1] \in L BY <1>1, <1>10, <3>1 DEF Joins
    <3> QED BY <2>2, <3>2, ConcatProperties
  <2>3. \A k \in Nat : k \in T => k + 1 \in T BY <1>1, <2>2
  <2>4. \A k \in Nat : k \in T
    <3> HIDE DEF T
    <3> QED BY <2>1, <2>3, EveryNatural
  <2> QED BY <1>1, <2>4
<1> QED BY <1>10, <1>11, <1>12

LEMMA FlattenAppend ==
  ASSUME NEW ss, NEW s, NEW X, IsSequence(ss), Range(ss) \subseteq Seq(X), s \in Seq(X)
  PROVE  FlattenSeq(Append(ss, s)) = FlattenSeq(ss) \o s /\ FlattenSeq(ss) \in Seq(X)
<1> DEFINE t == Append(ss, s)
           n == Len(ss)
<1>1. PICK f : /\ Joins(ss, f) /\ FlattenSeq(ss) = f[n] /\ \A k \in 0..n : f[k] \in Seq(X)
  BY FlattenIs
<1>2. /\ IsSequence(t) /\ Len(t) = n + 1 /\ t[n + 1] = s /\ \A i \in DOMAIN ss : t[i] = ss[i]
      /\ Range(t) \subseteq Seq(X)
  BY AppendFacts
<1> HIDE DEF t
<1>3. PICK g : Joins(t, g) /\ FlattenSeq(t) = g[n + 1] BY <1>2, FlattenIs
<1>4. n \in Nat /\ DOMAIN ss = 1..n BY SequenceFacts
<1>5. \A k \in Nat : k <= n => g[k] = f[k]
  <2> DEFINE T == {k \in Nat : k <= n => g[k] = f[k]}
  <2>1. 0 \in T BY <1>1, <1>3 DEF Joins
  <2>2. ASSUME NEW k \in Nat, k + 1 <= n, g[k] = f[k] PROVE g[k + 1] = f[k + 1]
    <3>1. k + 1 \in 1..n /\ k + 1 \in 1..(n + 1) /\ (k + 1) - 1 = k BY <1>4, <2>2
    <3>2. t[k + 1] = ss[k + 1] BY <1>2, <1>4, <3>1
    <3>3. f[k + 1] = f[k] \o ss[k + 1] BY <1>1, <3>1 DEF Joins
    <3>4. g[k + 1] = g[k] \o t[k + 1] BY <1>2, <1>3, <3>1 DEF Joins
    <3> QED BY <2>2, <3>2, <3>3, <3>4
  <2>3. \A k \in Nat : k \in T => k + 1 \in T BY <1>4, <2>2
  <2>4. \A k \in Nat : k \in T
    <3> HIDE DEF T
    <3> QED BY <2>1, <2>3, EveryNatural
  <2> QED BY <2>4
<1>6. n + 1 \in 1..(n + 1) /\ (n + 1) - 1 = n BY <1>4
<1>7. g[n + 1] = g[n] \o t[n + 1] BY <1>2, <1>3, <1>6 DEF Joins
<1>8. g[n] = f[n] /\ f[n] \in Seq(X) BY <1>1, <1>4, <1>5
<1> QED BY <1>1, <1>2, <1>3, <1>7, <1>8 DEF t

-----------------------------------------------------------------------------
\* The groups of a settings file, and the pairs in them.
IsGroup(g) ==
  /\ g = [matcher |-> g.matcher, hooks |-> g.hooks] /\ IsSequence(g.hooks)
  /\ g.matcher = "odd" => g.hooks = <<>>

LEMMA GroupPairsFacts ==
  ASSUME NEW g, IsGroup(g)
  PROVE  /\ IsSequence(GroupPairs(g))
         /\ Range(GroupPairs(g)) = {[matcher |-> g.matcher, hook |-> h] : h \in Range(g.hooks)}
<1> DEFINE F == [h \in Range(g.hooks) |-> [matcher |-> g.matcher, hook |-> h]]
           s == g.hooks
<1>1. IsSequence(s) BY DEF IsGroup
<1>2. \A i \in DOMAIN s : s[i] \in Range(s) BY <1>1, SequenceFacts
<1>3. GroupPairs(g) = Mapped(s, F) BY <1>2 DEF GroupPairs, Mapped
<1>4. \A h \in Range(s) : F[h] = [matcher |-> g.matcher, hook |-> h] OBVIOUS
<1> HIDE DEF F
<1>5. IsSequence(Mapped(s, F)) /\ Range(Mapped(s, F)) = {F[h] : h \in Range(s)}
  BY <1>1, MappedFacts
<1>6. {F[h] : h \in Range(s)} = {[matcher |-> g.matcher, hook |-> h] : h \in Range(s)} BY <1>4
<1> QED BY <1>3, <1>5, <1>6

LEMMA NoGroups == IsGroups(<<>>) /\ Pairs(<<>>) = <<>>
<1>1. IsGroups(<<>>) BY NothingIsAList DEF IsGroups
<1> DEFINE F == [g \in {} |-> g]
<1>2. [i \in DOMAIN <<>> |-> GroupPairs(<<>>[i])] = Mapped(<<>>, F)
  <2>1. DOMAIN <<>> = {} BY NothingIsAList DEF Range
  <2> QED BY <2>1 DEF Mapped
<1>3. Pairs(<<>>) = FlattenSeq(<<>>) BY <1>2, MappedEmpty DEF Pairs
<1>4. FlattenSeq(<<>>) = <<>> BY NothingIsAList DEF FlattenSeq
<1> QED BY <1>1, <1>3, <1>4

LEMMA PairsAppend ==
  ASSUME NEW gs, NEW g, IsGroups(gs), IsGroup(g)
  PROVE  /\ IsGroups(Append(gs, g)) /\ IsSequence(Pairs(gs))
         /\ Pairs(Append(gs, g)) = Pairs(gs) \o GroupPairs(g)
<1> DEFINE G == Range(gs) \cup {g}
           F == [h \in G |-> GroupPairs(h)]
           X == UNION {Range(GroupPairs(h)) : h \in G}
           t == Append(gs, g)
<1>1. IsSequence(gs) /\ \A h \in G : IsGroup(h) BY DEF IsGroups, IsGroup
<1>2. IsSequence(t) /\ Range(t) = G BY <1>1, AppendFacts
<1>3. IsGroups(t) BY <1>1, <1>2 DEF IsGroups, IsGroup
<1>4. \A h \in G : F[h] = GroupPairs(h) /\ F[h] \in Seq(X)
  <2> TAKE h \in G
  <2>1. IsSequence(GroupPairs(h)) /\ Range(GroupPairs(h)) \subseteq X BY <1>1, GroupPairsFacts
  <2> HIDE DEF X
  <2> QED BY <2>1, SequenceIn
<1> HIDE DEF F, X
<1>5. ASSUME NEW l, IsSequence(l), Range(l) \subseteq G
      PROVE  Pairs(l) = FlattenSeq(Mapped(l, F))
  <2>1. \A i \in DOMAIN l : F[l[i]] = GroupPairs(l[i]) BY <1>4, <1>5, SequenceFacts
  <2>2. [i \in DOMAIN l |-> GroupPairs(l[i])] = Mapped(l, F) BY <2>1 DEF Mapped
  <2> QED BY <2>2 DEF Pairs
<1>6. Pairs(t) = FlattenSeq(Mapped(t, F)) /\ Pairs(gs) = FlattenSeq(Mapped(gs, F))
  <2>1. Range(gs) \subseteq G OBVIOUS
  <2> HIDE DEF t, G
  <2> QED BY <1>1, <1>2, <1>5, <2>1
<1>7. Mapped(t, F) = Append(Mapped(gs, F), F[g]) BY <1>1, MappedAppend
<1>8. IsSequence(Mapped(gs, F)) /\ Range(Mapped(gs, F)) \subseteq Seq(X)
  BY <1>1, <1>4, MappedFacts
<1>9. F[g] \in Seq(X) /\ F[g] = GroupPairs(g) BY <1>4
<1>10. /\ FlattenSeq(Append(Mapped(gs, F), F[g])) = FlattenSeq(Mapped(gs, F)) \o F[g]
       /\ FlattenSeq(Mapped(gs, F)) \in Seq(X)
  BY <1>8, <1>9, FlattenAppend
<1>11. IsSequence(Pairs(gs)) BY <1>6, <1>10, IsSequenceOf
<1> QED BY <1>3, <1>6, <1>7, <1>9, <1>10, <1>11

\* The pairs of handrail's and the pairs of others in a list of pairs.
Mine(pairs, e) == Kept(pairs, {p \in Range(pairs) : Ours(p.hook, e)})
Theirs(pairs, e) == Kept(pairs, {p \in Range(pairs) : ~Ours(p.hook, e)})

LEMMA JoinedPairs ==
  ASSUME NEW s, NEW t, NEW e, IsSequence(s), IsSequence(t)
  PROVE  /\ Mine(s \o t, e) = Mine(s, e) \o Mine(t, e)
         /\ Theirs(s \o t, e) = Theirs(s, e) \o Theirs(t, e)
<1> DEFINE X == Range(s \o t)
           M == {p \in X : Ours(p.hook, e)}
           O == {p \in X : ~Ours(p.hook, e)}
<1>1. X = Range(s) \cup Range(t) BY JoinFacts
<1> HIDE DEF X
<1>2. Kept(s, M) = Mine(s, e) /\ Kept(t, M) = Mine(t, e) BY <1>1, KeptSame DEF Mine
<1>3. Kept(s, O) = Theirs(s, e) /\ Kept(t, O) = Theirs(t, e) BY <1>1, KeptSame DEF Theirs
<1>4. Mine(s \o t, e) = Kept(s \o t, M) /\ Theirs(s \o t, e) = Kept(s \o t, O)
  BY DEF Mine, Theirs, X
<1> HIDE DEF M, O
<1>5. /\ Kept(s \o t, M) = Kept(s, M) \o Kept(t, M)
      /\ Kept(s \o t, O) = Kept(s, O) \o Kept(t, O)
  BY KeptJoin
<1> QED BY <1>2, <1>3, <1>4, <1>5

\* A group without handrail's hooks has the user's pairs, and no others.
LEMMA BareFacts ==
  ASSUME NEW g, NEW e, IsGroup(g)
  PROVE  /\ IsGroup(Bare(g, e)) /\ Bare(g, e).matcher = g.matcher
         /\ Bare(g, e).hooks = Others(g.hooks, e)
         /\ \A h \in Range(Bare(g, e).hooks) : ~Ours(h, e)
         /\ Bare(g, e) = Odd <=> g = Odd
         /\ Bare(Bare(g, e), e) = Bare(g, e)
<1> DEFINE s == g.hooks
           O == {hook \in Range(s) : ~Ours(hook, e)}
           k == Kept(s, O)
           b == Bare(g, e)
<1>1. IsSequence(s) /\ g = [matcher |-> g.matcher, hooks |-> s] BY DEF IsGroup
<1>2. IsSequence(k) /\ Range(k) = O
  <2>1. Range(s) \cap O = O OBVIOUS
  <2> HIDE DEF O
  <2> QED BY <1>1, <2>1, KeptFacts
<1>3. Others(s, e) = k BY DEF Others
<1> HIDE DEF k
<1>4. b = [matcher |-> g.matcher, hooks |-> k] BY <1>1, <1>3 DEF Bare
<1>5. g.matcher = "odd" => s = <<>> /\ k = <<>>
  BY KeptEmpty DEF IsGroup, k
<1> HIDE DEF b
<1>6. b.matcher = g.matcher /\ b.hooks = k BY <1>4
<1>7. IsGroup(b) BY <1>2, <1>4, <1>5, <1>6 DEF IsGroup
<1>8. \A h \in Range(k) : ~Ours(h, e) BY <1>2
<1>9. b = Odd <=> g = Odd
  <2>1. g = Odd => b = Odd BY <1>1, <1>4, <1>5 DEF Odd, Group
  <2>2. b = Odd => g = Odd
    <3> SUFFICES ASSUME b = Odd PROVE g = Odd OBVIOUS
    <3>1. g.matcher = "odd" BY <1>6 DEF Odd, Group
    <3> QED BY <1>1, <1>5, <3>1 DEF Odd, Group
  <2> QED BY <2>1, <2>2
<1>10. Bare(b, e) = b
  <2> DEFINE Q == {hook \in Range(k) : ~Ours(hook, e)}
  <2>1. Range(k) \subseteq Q BY <1>8
  <2> HIDE DEF Q
  <2>2. Kept(k, Q) = k BY <1>2, <2>1, KeptAll
  <2>3. Others(k, e) = k BY <2>2 DEF Others, Q
  <2> QED BY <1>4, <2>3 DEF Bare
<1> QED BY <1>3, <1>6, <1>7, <1>8, <1>9, <1>10 DEF b

LEMMA BarePairs ==
  ASSUME NEW g, NEW e, IsGroup(g)
  PROVE  /\ Theirs(GroupPairs(g), e) = GroupPairs(Bare(g, e))
         /\ Theirs(GroupPairs(Bare(g, e)), e) = GroupPairs(Bare(g, e))
         /\ Mine(GroupPairs(Bare(g, e)), e) = <<>>
<1> DEFINE X == Range(g.hooks)
           s == g.hooks
           F == [h \in X |-> [matcher |-> g.matcher, hook |-> h]]
           O == {h \in X : ~Ours(h, e)}
           P == {p \in Range(GroupPairs(g)) : ~Ours(p.hook, e)}
           T == {l \in Seq(X) : Mapped(Kept(l, O), F) = Kept(Mapped(l, F), P)}
           b == Bare(g, e)
<1>1. IsSequence(s) BY DEF IsGroup
<1>2. \A h \in X : /\ F[h] = [matcher |-> g.matcher, hook |-> h] /\ F[h].hook = h
                   /\ F[h] \in Range(GroupPairs(g))
  BY GroupPairsFacts
<1>3. \A h \in X : h \in O <=> F[h] \in P BY <1>2
<1>4. /\ IsGroup(b) /\ b.matcher = g.matcher /\ b.hooks = Kept(s, O)
      /\ \A h \in Range(b.hooks) : ~Ours(h, e)
  BY BareFacts DEF Others
<1>5. Range(b.hooks) \subseteq X
  <2>1. Range(Kept(s, O)) = X \cap O BY <1>1, KeptFacts
  <2> QED BY <1>4, <2>1
<1>6. GroupPairs(g) = Mapped(s, F) /\ GroupPairs(b) = Mapped(Kept(s, O), F)
  <2>1. \A i \in DOMAIN s : s[i] \in X BY <1>1, SequenceFacts
  <2>2. \A i \in DOMAIN b.hooks : b.hooks[i] \in X
    <3>1. IsSequence(b.hooks) BY <1>4 DEF IsGroup
    <3> QED BY <1>5, <3>1, SequenceFacts
  <2> HIDE DEF X, b
  <2>3. GroupPairs(g) = Mapped(s, F) BY <2>1 DEF GroupPairs, Mapped
  <2>4. GroupPairs(b) = Mapped(b.hooks, F) BY <1>4, <2>2 DEF GroupPairs, Mapped
  <2> QED BY <1>4, <2>3, <2>4
<1> HIDE DEF F, O, P
<1>7. <<>> \in T BY KeptEmpty, MappedEmpty, EmptySeq
<1>8. ASSUME NEW l \in Seq(X), NEW x \in X, l \in T PROVE Append(l, x) \in T
  <2>1. IsSequence(l) /\ Append(l, x) \in Seq(X) BY IsSequenceOf
  <2>2. IsSequence(Kept(l, O)) /\ IsSequence(Mapped(l, F)) BY <2>1, KeptFacts, MappedFacts
  <2>3. Kept(Append(l, x), O) = IF x \in O THEN Append(Kept(l, O), x) ELSE Kept(l, O)
    BY <2>1, KeptAppend
  <2>4. Mapped(Append(l, x), F) = Append(Mapped(l, F), F[x]) BY <2>1, MappedAppend
  <2>5. Kept(Append(Mapped(l, F), F[x]), P)
          = IF F[x] \in P THEN Append(Kept(Mapped(l, F), P), F[x]) ELSE Kept(Mapped(l, F), P)
    <3> DEFINE m == Mapped(l, F)
               y == F[x]
    <3>1. IsSequence(m) BY <2>2
    <3> HIDE DEF m, y
    <3>2. Kept(Append(m, y), P) = IF y \in P THEN Append(Kept(m, P), y) ELSE Kept(m, P)
      BY <3>1, KeptAppend
    <3> QED BY <3>2 DEF m, y
  <2>6. Mapped(Append(Kept(l, O), x), F) = Append(Mapped(Kept(l, O), F), F[x])
    BY <2>2, MappedAppend
  <2> QED BY <1>3, <1>8, <2>1, <2>3, <2>4, <2>5, <2>6
<1>9. Mapped(Kept(s, O), F) = Kept(Mapped(s, F), P)
  <2>1. s \in Seq(X) BY <1>1 DEF IsSequence
  <2>2. \A l \in Seq(X) : l \in T
    <3> HIDE DEF T, X
    <3> QED BY <1>7, <1>8, EveryList
  <2> QED BY <2>1, <2>2
<1>10. Theirs(GroupPairs(g), e) = GroupPairs(b) BY <1>6, <1>9 DEF Theirs, P
<1>11. IsSequence(GroupPairs(b)) /\ \A p \in Range(GroupPairs(b)) : ~Ours(p.hook, e)
  BY <1>4, GroupPairsFacts
<1>12. Theirs(GroupPairs(b), e) = GroupPairs(b) BY <1>11, KeptAll DEF Theirs
<1>13. Mine(GroupPairs(b), e) = <<>> BY <1>11, KeptNothing DEF Mine
<1> QED BY <1>10, <1>12, <1>13

\* A group stays if something of it is the user's.
Stays(g) == g = Odd \/ g.hooks # <<>>

LEMMA PruneEmpty == \A e : Prune(<<>>, e) = <<>>
<1> TAKE e
<1> DEFINE F == [g \in {} |-> g]
           bare == [i \in DOMAIN <<>> |-> Bare(<<>>[i], e)]
<1>1. DOMAIN <<>> = {} BY NothingIsAList DEF Range
<1>2. bare = Mapped(<<>>, F) BY <1>1 DEF Mapped
<1>3. bare = <<>> BY <1>2, MappedEmpty
<1> HIDE DEF bare
<1>4. Prune(<<>>, e) = Kept(bare, {g \in Range(bare) : g = Odd \/ g.hooks # <<>>})
  BY DEF Prune, bare
<1> QED BY <1>3, <1>4, KeptEmpty

LEMMA PruneAppend ==
  ASSUME NEW gs, NEW g, NEW e, IsSequence(gs)
  PROVE  Prune(Append(gs, g), e)
           = IF Stays(Bare(g, e)) THEN Append(Prune(gs, e), Bare(g, e)) ELSE Prune(gs, e)
<1> DEFINE G == Range(gs) \cup {g}
           F == [h \in G |-> Bare(h, e)]
           K == {h \in {Bare(x, e) : x \in G} : Stays(h)}
           t == Append(gs, g)
<1>1. \A h \in G : F[h] = Bare(h, e) /\ (F[h] \in K <=> Stays(Bare(h, e))) OBVIOUS
<1>2. IsSequence(t) /\ Range(t) = G BY AppendFacts
<1> HIDE DEF F
<1>3. ASSUME NEW l, IsSequence(l), Range(l) \subseteq G
      PROVE  Prune(l, e) = Kept(Mapped(l, F), K)
  <2> DEFINE bare == [i \in DOMAIN l |-> Bare(l[i], e)]
             S == {h \in Range(bare) : h = Odd \/ h.hooks # <<>>}
  <2>1. \A i \in DOMAIN l : F[l[i]] = Bare(l[i], e) BY <1>1, <1>3, SequenceFacts
  <2>2. bare = Mapped(l, F) BY <2>1 DEF Mapped
  <2>3. IsSequence(bare) /\ Range(bare) = {F[x] : x \in Range(l)} BY <1>3, <2>2, MappedFacts
  <2>4. Prune(l, e) = Kept(bare, S) BY DEF Prune
  <2> HIDE DEF bare
  <2>5. \A h \in Range(bare) : h \in S <=> h \in K
    <3> TAKE h \in Range(bare)
    <3>1. PICK x \in G : h = F[x] BY <1>3, <2>3
    <3> QED BY <1>1, <3>1 DEF Stays
  <2> HIDE DEF S, K
  <2>6. Kept(bare, S) = Kept(bare, K) BY <2>3, <2>5, KeptSame
  <2> QED BY <2>2, <2>4, <2>6
<1>4. Prune(t, e) = Kept(Mapped(t, F), K) /\ Prune(gs, e) = Kept(Mapped(gs, F), K)
  <2>1. Range(gs) \subseteq G OBVIOUS
  <2> HIDE DEF t, G
  <2> QED BY <1>2, <1>3, <2>1
<1>5. F[g] = Bare(g, e) /\ (F[g] \in K <=> Stays(Bare(g, e))) BY <1>1
<1> DEFINE m == Mapped(gs, F)
           y == F[g]
<1>6. Mapped(t, F) = Append(m, y) /\ IsSequence(m) BY MappedAppend, MappedFacts
<1> HIDE DEF m, y, K
<1>7. Kept(Append(m, y), K) = IF y \in K THEN Append(Kept(m, K), y) ELSE Kept(m, K)
  BY <1>6, KeptAppend
<1> QED BY <1>4, <1>5, <1>6, <1>7 DEF m, y

\* Pruning a list of groups takes handrail's pairs out of it and nothing else, and once
\* is enough.
Pruned(gs, e) ==
  LET P == Prune(gs, e) IN
  /\ IsGroups(P) /\ Prune(P, e) = P
  /\ Mine(Pairs(P), e) = <<>> /\ Theirs(Pairs(P), e) = Theirs(Pairs(gs), e)
  /\ Kept(P, {Odd}) = Kept(gs, {Odd})

LEMMA PrunedAppend ==
  ASSUME NEW gs, NEW g, NEW e, IsGroups(gs), IsGroup(g), Pruned(gs, e)
  PROVE  Pruned(Append(gs, g), e)
<1> DEFINE P == Prune(gs, e)
           b == Bare(g, e)
           t == Append(gs, g)
           Q == Append(P, b)
<1>1. /\ IsGroups(P) /\ Prune(P, e) = P
      /\ Mine(Pairs(P), e) = <<>> /\ Theirs(Pairs(P), e) = Theirs(Pairs(gs), e)
      /\ Kept(P, {Odd}) = Kept(gs, {Odd})
  BY DEF Pruned
<1>2. IsGroup(b) /\ (b = Odd <=> g = Odd) /\ Bare(b, e) = b BY BareFacts
<1>3. /\ Theirs(GroupPairs(g), e) = GroupPairs(b) /\ Theirs(GroupPairs(b), e) = GroupPairs(b)
      /\ Mine(GroupPairs(b), e) = <<>>
  BY BarePairs
<1>4. IsSequence(gs) /\ IsSequence(P) BY <1>1 DEF IsGroups
<1>5. Prune(t, e) = IF Stays(b) THEN Q ELSE P BY <1>4, PruneAppend
<1>6. IsSequence(Pairs(gs)) /\ Pairs(t) = Pairs(gs) \o GroupPairs(g) BY PairsAppend
<1>9. Kept(t, {Odd}) = IF g \in {Odd} THEN Append(Kept(gs, {Odd}), g) ELSE Kept(gs, {Odd})
  BY <1>4, KeptAppend
<1> SUFFICES Pruned(t, e) OBVIOUS
<1> HIDE DEF P, b, t
<1>7. IsSequence(GroupPairs(g)) /\ IsSequence(GroupPairs(b)) BY <1>2, GroupPairsFacts
<1>8. Theirs(Pairs(t), e) = Theirs(Pairs(gs), e) \o GroupPairs(b)
  <2>1. Theirs(Pairs(gs) \o GroupPairs(g), e) = Theirs(Pairs(gs), e) \o Theirs(GroupPairs(g), e)
    BY <1>6, <1>7, JoinedPairs
  <2> QED BY <1>3, <1>6, <2>1
<1>10. CASE Stays(b)
  <2>1. /\ IsGroups(Q) /\ IsSequence(Pairs(P)) /\ Pairs(Q) = Pairs(P) \o GroupPairs(b)
    BY <1>1, <1>2, PairsAppend
  <2>2. Prune(Q, e) = Q
    <3>1. Prune(Q, e) = IF Stays(Bare(b, e)) THEN Append(Prune(P, e), Bare(b, e)) ELSE Prune(P, e)
      BY <1>4, PruneAppend
    <3> QED BY <1>1, <1>2, <1>10, <3>1
  <2>3. /\ Mine(Pairs(Q), e) = Mine(Pairs(P), e) \o Mine(GroupPairs(b), e)
        /\ Theirs(Pairs(Q), e) = Theirs(Pairs(P), e) \o Theirs(GroupPairs(b), e)
    BY <1>7, <2>1, JoinedPairs
  <2>4. Mine(Pairs(Q), e) = <<>>
    <3>1. <<>> \o <<>> = <<>> BY NothingIsAList, JoinAppend
    <3> QED BY <1>1, <1>3, <2>3, <3>1
  <2>5. Theirs(Pairs(Q), e) = Theirs(Pairs(t), e) BY <1>1, <1>3, <1>8, <2>3
  <2>6. Kept(Q, {Odd}) = IF b \in {Odd} THEN Append(Kept(P, {Odd}), b) ELSE Kept(P, {Odd})
    BY <1>4, KeptAppend
  <2>7. Kept(Q, {Odd}) = Kept(t, {Odd}) BY <1>1, <1>2, <1>9, <2>6
  <2>8. Prune(t, e) = Q BY <1>5, <1>10
  <2> HIDE DEF Q
  <2> QED BY <2>1, <2>2, <2>4, <2>5, <2>7, <2>8 DEF Pruned
<1>11. CASE ~Stays(b)
  <2>1. b.hooks = <<>> /\ b # Odd BY <1>11 DEF Stays
  <2>2. GroupPairs(b) = <<>>
    <3>1. Range(GroupPairs(b)) = {[matcher |-> b.matcher, hook |-> h] : h \in Range(<<>>)}
      BY <1>2, <2>1, GroupPairsFacts
    <3>2. Range(GroupPairs(b)) = {} BY <3>1, NothingIsAList
    <3> QED BY <1>7, <3>2, OnlyEmpty
  <2>3. Theirs(Pairs(t), e) = Theirs(Pairs(gs), e)
    <3>1. IsSequence(Theirs(Pairs(gs), e)) BY <1>6, KeptFacts DEF Theirs
    <3>2. Theirs(Pairs(gs), e) \o <<>> = Theirs(Pairs(gs), e) BY <3>1, JoinAppend
    <3> QED BY <1>8, <2>2, <3>2
  <2>4. Kept(t, {Odd}) = Kept(gs, {Odd}) BY <1>2, <1>9, <2>1
  <2>5. Prune(t, e) = P BY <1>5, <1>11
  <2> QED BY <1>1, <2>3, <2>4, <2>5 DEF Pruned
<1> QED BY <1>10, <1>11

LEMMA PruneFacts ==
  ASSUME NEW gs, NEW e, IsGroups(gs)
  PROVE  Pruned(gs, e)
<1> DEFINE X == Range(gs)
           T == {l \in Seq(X) : Pruned(l, e)}
<1>1. \A x \in X : IsGroup(x) BY DEF IsGroups, IsGroup
<1>2. <<>> \in T
  <2>1. Prune(<<>>, e) = <<>> BY PruneEmpty
  <2>2. IsGroups(<<>>) /\ Pairs(<<>>) = <<>> BY NoGroups
  <2>3. Mine(<<>>, e) = <<>> BY KeptEmpty DEF Mine
  <2>4. Pruned(<<>>, e) BY <2>1, <2>2, <2>3 DEF Pruned
  <2> QED BY <2>4, EmptySeq
<1>3. ASSUME NEW l \in Seq(X), NEW x \in X, l \in T PROVE Append(l, x) \in T
  <2>1. IsSequence(l) /\ Range(l) \subseteq X /\ Append(l, x) \in Seq(X) BY IsSequenceOf
  <2>2. IsGroups(l) BY <1>1, <2>1 DEF IsGroups, IsGroup
  <2>3. Pruned(Append(l, x), e) BY <1>1, <1>3, <2>2, PrunedAppend
  <2> QED BY <2>1, <2>3
<1>4. gs \in Seq(X) BY DEF IsGroups, IsSequence
<1>5. \A l \in Seq(X) : l \in T
  <2> HIDE DEF T, X
  <2> QED BY <1>2, <1>3, EveryList
<1> QED BY <1>4, <1>5

\* Nothing that pruning leaves is a group with no hook in it.
LEMMA PrunedStay ==
  ASSUME NEW gs, NEW e, IsSequence(gs)
  PROVE  \A g \in Range(Prune(gs, e)) : Stays(g)
<1> DEFINE F == [g \in Range(gs) |-> Bare(g, e)]
           bare == [i \in DOMAIN gs |-> Bare(gs[i], e)]
           S == {g \in Range(bare) : g = Odd \/ g.hooks # <<>>}
<1>1. \A i \in DOMAIN gs : F[gs[i]] = Bare(gs[i], e) BY SequenceFacts
<1>2. bare = Mapped(gs, F) BY <1>1 DEF Mapped
<1> HIDE DEF F
<1>3. IsSequence(bare) BY <1>2, MappedFacts
<1>4. Prune(gs, e) = Kept(bare, S) BY DEF Prune
<1>5. \A g \in S : Stays(g) BY DEF Stays
<1> HIDE DEF bare, S
<1>6. Range(Kept(bare, S)) = Range(bare) \cap S BY <1>3, KeptFacts
<1> QED BY <1>4, <1>5, <1>6

\* The list of an event as Merged makes it: the user's pairs and values as they were, and
\* one pair of handrail's behind them.
OurPair(b, e) == [matcher |-> "none", hook |-> [bin |-> b, event |-> e, qualifier |-> "none"]]

LEMMA EntryFacts ==
  ASSUME NEW b \in Bins, NEW e
  PROVE  /\ IsGroup(Entry(b, e)) /\ Entry(b, e) # Odd /\ ~Stays(Bare(Entry(b, e), e))
         /\ Stays(Entry(b, e))
         /\ Mine(GroupPairs(Entry(b, e)), e) = <<OurPair(b, e)>>
         /\ Theirs(GroupPairs(Entry(b, e)), e) = <<>>
<1> DEFINE hook == [bin |-> b, event |-> e, qualifier |-> "none"]
           g == Entry(b, e)
           s == <<hook>>
<1>1. g = [matcher |-> "none", hooks |-> s] BY DEF Entry, Group
<1>2. g.matcher = "none" /\ g.hooks = s BY <1>1
<1>3. s \in Seq({hook}) /\ Len(s) = 1 /\ s[1] = hook /\ DOMAIN s = 1..1 OBVIOUS
<1>4. IsSequence(s) /\ Range(s) = {hook}
  <2>1. Range(s) = {hook} BY <1>3 DEF Range
  <2> QED BY <1>3, <2>1 DEF IsSequence
<1>5. hook.bin = b /\ hook.event = e OBVIOUS
<1>6. Ours(hook, e) BY <1>5 DEF Ours
<1>14. Stays(g)
  <2>1. s # <<>> BY <1>3
  <2> HIDE DEF g, s
  <2> QED BY <1>2, <2>1 DEF Stays
<1> HIDE DEF g, s, hook
<1>7. IsGroup(g) /\ g # Odd BY <1>1, <1>2, <1>4 DEF IsGroup, Odd, Group
<1>8. ~Stays(Bare(g, e))
  <2>1. Others(s, e) = <<>> BY <1>4, <1>6, KeptNothing DEF Others
  <2>2. Bare(g, e) # Odd /\ Bare(g, e).hooks = <<>> BY <1>2, <1>7, <2>1, BareFacts
  <2> QED BY <2>2 DEF Stays
<1>9. GroupPairs(g) = <<OurPair(b, e)>>
  <2>1. GroupPairs(g) = [i \in 1..1 |-> [matcher |-> "none", hook |-> s[i]]]
    BY <1>2, <1>3 DEF GroupPairs
  <2>2. GroupPairs(g) = [i \in 1..1 |-> OurPair(b, e)] BY <1>3, <2>1 DEF OurPair, hook
  <2> QED BY <2>2
<1> DEFINE p == OurPair(b, e)
           t == <<p>>
<1>10. Ours(p.hook, e) BY DEF OurPair, Ours
<1>11. IsSequence(t) /\ Range(t) = {p}
  <2>1. t \in Seq({p}) /\ DOMAIN t = 1..1 /\ t[1] = p OBVIOUS
  <2>2. Range(t) = {p} BY <2>1 DEF Range
  <2> QED BY <2>1, <2>2 DEF IsSequence
<1> HIDE DEF t, p
<1>12. Mine(t, e) = t BY <1>10, <1>11, KeptAll DEF Mine
<1>13. Theirs(t, e) = <<>> BY <1>10, <1>11, KeptNothing DEF Theirs
<1> QED BY <1>7, <1>8, <1>9, <1>12, <1>13, <1>14 DEF g, t, p

LEMMA WithEntry ==
  ASSUME NEW gs, NEW b \in Bins, NEW e, IsGroups(gs)
  PROVE  LET n == Append(Prune(gs, e), Entry(b, e)) IN
         /\ IsGroups(n) /\ Prune(n, e) = Prune(gs, e)
         /\ Mine(Pairs(n), e) = <<OurPair(b, e)>>
         /\ Theirs(Pairs(n), e) = Theirs(Pairs(gs), e)
         /\ Kept(n, {Odd}) = Kept(gs, {Odd})
         /\ {x \in Range(n) : x # Odd /\ x.hooks = <<>>} = {}
<1> DEFINE P == Prune(gs, e)
           g == Entry(b, e)
           n == Append(P, g)
<1>1. /\ IsGroups(P) /\ Prune(P, e) = P
      /\ Mine(Pairs(P), e) = <<>> /\ Theirs(Pairs(P), e) = Theirs(Pairs(gs), e)
      /\ Kept(P, {Odd}) = Kept(gs, {Odd})
  BY PruneFacts DEF Pruned
<1>2. /\ IsGroup(g) /\ g # Odd /\ ~Stays(Bare(g, e)) /\ Stays(g)
      /\ Mine(GroupPairs(g), e) = <<OurPair(b, e)>> /\ Theirs(GroupPairs(g), e) = <<>>
  BY EntryFacts
<1>12. \A x \in Range(P) : Stays(x) BY PrunedStay DEF IsGroups
<1> HIDE DEF P, g
<1>3. IsSequence(P) BY <1>1 DEF IsGroups
<1>13. {x \in Range(n) : x # Odd /\ x.hooks = <<>>} = {}
  <2>1. Range(n) = Range(P) \cup {g} BY <1>3, AppendFacts
  <2> QED BY <1>2, <1>12, <2>1 DEF Stays
<1>4. IsGroups(n) /\ IsSequence(Pairs(P)) /\ Pairs(n) = Pairs(P) \o GroupPairs(g)
  BY <1>1, <1>2, PairsAppend
<1>5. IsSequence(GroupPairs(g)) BY <1>2, GroupPairsFacts
<1>6. /\ Mine(Pairs(n), e) = Mine(Pairs(P), e) \o Mine(GroupPairs(g), e)
      /\ Theirs(Pairs(n), e) = Theirs(Pairs(P), e) \o Theirs(GroupPairs(g), e)
  BY <1>4, <1>5, JoinedPairs
<1>7. Mine(Pairs(n), e) = <<OurPair(b, e)>>
  <2>1. <<>> \o <<OurPair(b, e)>> = <<OurPair(b, e)>> BY ConcatEmptySeq
  <2> QED BY <1>1, <1>2, <1>6, <2>1
<1>8. Theirs(Pairs(n), e) = Theirs(Pairs(gs), e)
  <2>1. IsSequence(Theirs(Pairs(P), e)) BY <1>4, KeptFacts DEF Theirs
  <2>2. Theirs(Pairs(P), e) \o <<>> = Theirs(Pairs(P), e) BY <2>1, JoinAppend
  <2> QED BY <1>1, <1>2, <1>6, <2>2
<1>9. Prune(n, e) = P BY <1>1, <1>2, <1>3, PruneAppend
<1>10. Kept(n, {Odd}) = IF g \in {Odd} THEN Append(Kept(P, {Odd}), g) ELSE Kept(P, {Odd})
  BY <1>3, KeptAppend
<1>11. Kept(n, {Odd}) = Kept(gs, {Odd}) BY <1>1, <1>2, <1>10
<1> QED BY <1>4, <1>7, <1>8, <1>9, <1>11, <1>13 DEF P, g

-----------------------------------------------------------------------------
\* A settings file merged once: handrail's pair alone for every event, what belongs to
\* others as it was, and a second merge finds nothing to do.
LEMMA MergedFacts ==
  ASSUME NEW f, NEW b \in Bins, IsFile(f), f.kind = "settings"
  PROVE  LET n == Merged(f, b) IN
         /\ n.kind = "settings" /\ IsFile(n)
         /\ Merged(n, b) = n /\ Strangers(n) = Survives(Strangers(f))
<1> DEFINE H == [e \in Events |-> Append(Prune(f.hooks[e], e), Entry(b, e))]
           n == Merged(f, b)
           r == Rounded[f.rest]
<1>0. r \in DOMAIN Rounded /\ Rounded[r] = r BY RoundedAssumption DEF IsFile
<1>1. n = Settings(H, r, TRUE, f.mode) BY DEF Merged
<1>2. n.kind = "settings" /\ n.hooks = H /\ n.rest = r /\ n.tidy = TRUE /\ n.mode = f.mode
  BY <1>1 DEF Settings
<1>3. ASSUME NEW e \in Events
      PROVE  /\ IsGroups(H[e]) /\ Append(Prune(H[e], e), Entry(b, e)) = H[e]
             /\ Theirs(Pairs(H[e]), e) = Theirs(Pairs(f.hooks[e]), e)
             /\ Kept(H[e], {Odd}) = Kept(f.hooks[e], {Odd})
             /\ {x \in Range(H[e]) : x # Odd /\ x.hooks = <<>>} = {}
  <2> DEFINE gs == f.hooks[e]
             m == Append(Prune(gs, e), Entry(b, e))
  <2>1. IsGroups(gs) BY <1>3 DEF IsFile
  <2>2. H[e] = m BY <1>3
  <2> HIDE DEF gs
  <2>3. /\ IsGroups(m) /\ Prune(m, e) = Prune(gs, e)
        /\ Theirs(Pairs(m), e) = Theirs(Pairs(gs), e) /\ Kept(m, {Odd}) = Kept(gs, {Odd})
        /\ {x \in Range(m) : x # Odd /\ x.hooks = <<>>} = {}
    BY <2>1, WithEntry
  <2>4. Append(Prune(m, e), Entry(b, e)) = m BY <2>3
  <2> HIDE DEF m, H
  <2> QED BY <2>2, <2>3, <2>4 DEF gs
<1>4. DOMAIN H = Events OBVIOUS
<1> HIDE DEF H, n
<1>5. IsFile(n) BY <1>0, <1>1, <1>2, <1>3, <1>4 DEF IsFile
<1>6. Merged(n, b) = n
  <2>1. Merged(n, b) = Settings([e \in Events |-> Append(Prune(H[e], e), Entry(b, e))],
                                r, TRUE, f.mode)
    BY <1>0, <1>2 DEF Merged
  <2>2. [e \in Events |-> Append(Prune(H[e], e), Entry(b, e))] = H
    <3>1. [e \in Events |-> Append(Prune(H[e], e), Entry(b, e))] = [e \in Events |-> H[e]]
      BY <1>3
    <3>2. [e \in Events |-> H[e]] = H BY DEF H
    <3> QED BY <3>1, <3>2
  <2> QED BY <1>1, <2>1, <2>2
<1>7. Strangers(n) = Survives(Strangers(f))
  <2> DEFINE hooks == [e \in Events |-> Theirs(Pairs(f.hooks[e]), e)]
             odd == [e \in Events |-> Kept(f.hooks[e], {Odd})]
             hollow == [e \in Events |-> {x \in Range(f.hooks[e]) : x # Odd /\ x.hooks = <<>>}]
             none == [e \in Events |-> {}]
  <2>1. [e \in Events |-> Theirs(Pairs(H[e]), e)] = hooks BY <1>3
  <2>2. [e \in Events |-> Kept(H[e], {Odd})] = odd BY <1>3
  <2>3. [e \in Events |-> {x \in Range(H[e]) : x # Odd /\ x.hooks = <<>>}] = none BY <1>3
  <2>4. Strangers(f) = [rest |-> f.rest, hooks |-> hooks, odd |-> odd, hollow |-> hollow]
    BY DEF Strangers, Theirs
  <2>5. Strangers(n) = [rest |-> r, hooks |-> [e \in Events |-> Theirs(Pairs(H[e]), e)],
                        odd |-> [e \in Events |-> Kept(H[e], {Odd})],
                        hollow |-> [e \in Events |-> {x \in Range(H[e]) : x # Odd /\ x.hooks = <<>>}]]
    <3> HIDE DEF r
    <3> QED BY <1>2 DEF Strangers, Theirs
  <2>6. Strangers(n) = [rest |-> r, hooks |-> hooks, odd |-> odd, hollow |-> none]
    BY <2>1, <2>2, <2>3, <2>5
  <2> HIDE DEF hooks, odd, hollow
  <2> QED BY <2>4, <2>6 DEF Survives
<1> QED BY <1>2, <1>5, <1>6, <1>7 DEF n

\* A file as a sync with binary b leaves it: nothing in it is left for b to do.
Settled(h, b, n) ==
  IF h = "omp" THEN n = Module(b, TRUE, n.mode)
  ELSE n.kind = "settings" /\ IsFile(n) /\ Merged(n, b) = n

LEMMA SettledFacts ==
  ASSUME NEW h, NEW b \in Bins, NEW n, Settled(h, b, n)
  PROVE  /\ IsFile(n) /\ DoctorClear(h, n, b)
         /\ n.kind = IF h = "omp" THEN "module" ELSE "settings"
         /\ h # "omp" => \A e \in Events : Len(OurPairs(n, e)) = 1
<1>1. CASE h = "omp"
  <2>1. n = Module(b, TRUE, n.mode) BY <1>1 DEF Settled
  <2>2. n.kind = "module" /\ n.bin = b /\ n.intact = TRUE BY <2>1 DEF Module
  <2> QED BY <1>1, <2>1, <2>2 DEF IsFile, DoctorClear
<1>2. CASE h # "omp"
  <2>1. n.kind = "settings" /\ IsFile(n) /\ Merged(n, b) = n BY <1>2 DEF Settled
  <2> DEFINE H == [e \in Events |-> Append(Prune(n.hooks[e], e), Entry(b, e))]
  <2>2. n.hooks = H
    <3>1. n = Settings(H, Rounded[n.rest], TRUE, n.mode) BY <2>1 DEF Merged
    <3> HIDE DEF H
    <3> QED BY <3>1 DEF Settings
  <2>3. ASSUME NEW e \in Events
        PROVE  OurPairs(n, e) = <<OurPair(b, e)>>
    <3> DEFINE gs == n.hooks[e]
    <3>1. IsGroups(gs) BY <2>1, <2>3 DEF IsFile
    <3>2. gs = Append(Prune(gs, e), Entry(b, e)) BY <2>2, <2>3
    <3> HIDE DEF gs
    <3>3. Mine(Pairs(Append(Prune(gs, e), Entry(b, e))), e) = <<OurPair(b, e)>>
      BY <3>1, WithEntry
    <3>4. Mine(Pairs(gs), e) = <<OurPair(b, e)>> BY <3>2, <3>3
    <3> QED BY <3>4 DEF gs, OurPairs, Mine
  <2>4. ASSUME NEW e \in Events
        PROVE  Current(h, e, n, b) /\ Len(OurPairs(n, e)) = 1
    <3> DEFINE p == OurPair(b, e)
    <3>1. Len(<<p>>) = 1 /\ Last(<<p>>) = p /\ <<p>> # <<>> BY DEF Last
    <3>2. p.matcher = "none" /\ p.hook.qualifier = "none" /\ p.hook.bin = b BY DEF OurPair
    <3>3. OurPairs(n, e) = <<p>> BY <2>3, <2>4
    <3> HIDE DEF p
    <3>4. ~Narrowed(h, e, p) /\ ~Async(h, e, p) BY <3>2 DEF Narrowed, Async
    <3> QED BY <3>1, <3>2, <3>3, <3>4 DEF Current
  <2> QED BY <1>2, <2>1, <2>4 DEF DoctorClear
<1> QED BY <1>1, <1>2

\* The mode is nobody's entry.
LEMMA SettledMode ==
  ASSUME NEW h, NEW b \in Bins, NEW n, NEW mode, Settled(h, b, n)
  PROVE  LET m == [n EXCEPT !.mode = mode] IN
         /\ Settled(h, b, m) /\ m.mode = mode
         /\ h # "omp" => Strangers(m) = Strangers(n)
<1> DEFINE m == [n EXCEPT !.mode = mode]
<1>1. CASE h = "omp"
  <2> DEFINE yes == TRUE
  <2>1. PICK old : n = Module(b, yes, old) BY <1>1 DEF Settled
  <2> HIDE DEF yes
  <2>2. m = Module(b, yes, mode) /\ m.mode = mode BY <2>1 DEF Module
  <2> QED BY <1>1, <2>2 DEF Settled, yes
<1>2. CASE h # "omp"
  <2>1. n.kind = "settings" /\ IsFile(n) /\ Merged(n, b) = n BY <1>2 DEF Settled
  <2>2. n = Settings(n.hooks, n.rest, n.tidy, n.mode) BY <2>1 DEF IsFile
  <2>3. m = Settings(n.hooks, n.rest, n.tidy, mode)
    <3>1. PICK hooks, rest, tidy, old : n = Settings(hooks, rest, tidy, old) BY <2>2
    <3>2. n.hooks = hooks /\ n.rest = rest /\ n.tidy = tidy BY <3>1 DEF Settings
    <3>3. m = Settings(hooks, rest, tidy, mode) BY <3>1 DEF Settings
    <3> QED BY <3>2, <3>3
  <2>4. /\ m.kind = "settings" /\ m.hooks = n.hooks /\ m.rest = n.rest /\ m.tidy = n.tidy
        /\ m.mode = mode
    BY <2>3 DEF Settings
  <2> HIDE DEF m
  <2>5. IsFile(m) BY <2>1, <2>3, <2>4 DEF IsFile
  <2> DEFINE H == [e \in Events |-> Append(Prune(n.hooks[e], e), Entry(b, e))]
  <2>6. n = Settings(H, Rounded[n.rest], TRUE, n.mode) BY <2>1 DEF Merged
  <2>7. Merged(m, b) = Settings(H, Rounded[n.rest], TRUE, mode) BY <2>4 DEF Merged
  <2> HIDE DEF H
  <2>8. n.hooks = H /\ n.tidy = TRUE /\ n.rest = Rounded[n.rest]
    <3> DEFINE r == Rounded[n.rest]
    <3>1. n = Settings(H, r, TRUE, n.mode) BY <2>6
    <3> HIDE DEF r
    <3> QED BY <3>1 DEF Settings, r
  <2>9. Merged(m, b) = m BY <2>3, <2>7, <2>8
  <2>10. Strangers(m) = Strangers(n) BY <2>1, <2>4 DEF Strangers
  <2> QED BY <1>2, <2>4, <2>5, <2>9, <2>10 DEF Settled, m
<1> QED BY <1>1, <1>2
-----------------------------------------------------------------------------
\* The files, between the steps of the syncs.

Looking == {"read", "write", "rename"}

FilesOK ==
  /\ DOMAIN file = Harness /\ DOMAIN writer = Harness
  /\ bin \in [Syncs -> Bins] /\ DOMAIN next = Syncs
  /\ \A h \in Harness : IsFile(file[h])

\* What a sync wrote last is settled for the sync's binary.
WriterOK == \A h \in Harness : writer[h] # "user" => writer[h] \in Bins /\ Settled(h, writer[h], file[h])

\* What n takes the place of: nothing, or a file whose strangers are in it as a write
\* leaves them.
Replaces(h, n, f) ==
  \/ f = Missing
  \/ /\ f.kind \in {"settings", "module"}
     /\ h # "omp" => f.kind = "settings" /\ Strangers(n) = Survives(Strangers(f))

\* A sync carries a settled file to the rename; if nobody came before it, to a file that
\* needs it, that is its own to replace, and from Prepare on with the mode of that file.
CarriesOK(t) ==
  LET h == Turn(t) IN
  /\ pc[t] = "read" =>
       h = "omp" /\ (t \notin stale => file[h] \notin {Missing, Irregular})
  /\ pc[t] \in {"write", "rename"} =>
       /\ Settled(h, bin[t], next[t])
       /\ t \notin stale => writer[h] # bin[t] /\ Replaces(h, next[t], file[h])
  /\ pc[t] = "rename" /\ t \notin stale => next[t].mode = ModeOf(file[h])

FileInv == FilesOK /\ WriterOK /\ \A t \in Syncs : CarriesOK(t)

LEMMA TurnIsHere ==
  ASSUME SyncInv, NEW s \in Syncs, pc[s] \in AtTarget
  PROVE  Turn(s) \in Harness /\ Turn(s) \in todo[s]
BY TurnIsLeft DEF SyncInv, SyncTypeOK, TurnsOK

\* A step of s is nothing to the others but for the files it writes.
Alone(s) ==
  /\ UNCHANGED bin /\ DOMAIN next' = Syncs
  /\ \A t \in Syncs \ {s} :
       /\ pc'[t] = pc[t] /\ todo'[t] = todo[t] /\ next'[t] = next[t]
       /\ t \notin stale' => t \notin stale

LEMMA OthersCarry ==
  ASSUME FileInv, NEW s, Alone(s), NEW t \in Syncs \ {s},
         t \notin stale' /\ pc[t] \in Looking =>
           file'[Turn(t)] = file[Turn(t)] /\ writer'[Turn(t)] = writer[Turn(t)]
  PROVE  CarriesOK(t)'
<1>1. Turn(t)' = Turn(t) BY DEF Turn, Alone
<1>2. /\ pc'[t] = pc[t] /\ next'[t] = next[t] /\ bin'[t] = bin[t]
      /\ t \notin stale' => t \notin stale
  BY DEF Alone
<1>3. CarriesOK(t) BY DEF FileInv
<1> DEFINE h == Turn(t)
<1>4. CASE pc[t] \in Looking /\ t \notin stale'
  <2>1. file'[h] = file[h] /\ writer'[h] = writer[h] BY <1>4
  <2> HIDE DEF h
  <2> QED BY <1>1, <1>2, <1>3, <1>4, <2>1 DEF CarriesOK, h
<1>5. CASE pc[t] \notin Looking BY <1>2, <1>5 DEF CarriesOK, Looking
<1>6. CASE t \in stale' BY <1>1, <1>2, <1>3, <1>6 DEF CarriesOK
<1> QED BY <1>4, <1>5, <1>6

\* A step that writes no file.
LEMMA LookKeepsFiles ==
  ASSUME FileInv, NEW s, Alone(s), UNCHANGED <<file, writer>>, s \in Syncs => CarriesOK(s)'
  PROVE  FileInv'
<1>1. FilesOK' /\ WriterOK' BY DEF FileInv, FilesOK, WriterOK, Alone
<1>2. \A t \in Syncs \ {s} : CarriesOK(t)' BY OthersCarry
<1> QED BY <1>1, <1>2 DEF FileInv

\* A sync that looks at no file carries nothing.
LEMMA EmptyHanded ==
  ASSUME NEW s, pc'[s] \notin Looking
  PROVE  CarriesOK(s)'
BY DEF CarriesOK, Looking
\* What a target is told, or given up with, leaves the files alone.
LEMMA TellLands ==
  ASSUME SyncInv, NEW s \in Syncs, NEW what, Tell(s, what)
  PROVE  /\ pc'[s] \notin Looking
         /\ \A t \in Syncs \ {s} : pc'[t] = pc[t] /\ todo'[t] = todo[t]
BY DEF SyncInv, SyncTypeOK, Tell, Goto, Looking

LEMMA GiveUpKeepsFiles ==
  ASSUME SyncInv, FileInv, NEW s \in Syncs, GiveUp(s), StaleKept(s)
  PROVE  FileInv'
<1>1. Tell(s, "failed") /\ UNCHANGED <<file, writer, bin, next>> BY DEF GiveUp, disk, mine
<1>2. pc'[s] \notin Looking /\ Alone(s)
  BY <1>1, TellLands DEF FileInv, FilesOK, StaleKept, Alone
<1> QED BY <1>1, <1>2, EmptyHanded, LookKeepsFiles

\* Nor does a step to a place with no file in hand.
LEMMA GotoKeepsFiles ==
  ASSUME SyncInv, FileInv, NEW s \in Syncs, NEW where \in Places \ Looking,
         Goto(s, where), UNCHANGED <<file, writer, bin, next>>, StaleKept(s),
         \A t \in Syncs \ {s} : todo'[t] = todo[t]
  PROVE  FileInv'
<1>1. pc'[s] \notin Looking /\ Alone(s)
  BY DEF SyncInv, SyncTypeOK, FileInv, FilesOK, Goto, StaleKept, Alone
<1> QED BY <1>1, EmptyHanded, LookKeepsFiles

\* A comparison ends with the target or carries what is wanted to the write.
LEMMA CompareKeepsFiles ==
  ASSUME SyncInv, FileInv, NEW s \in Syncs, pc[s] \in AtTarget, NEW want, NEW seen,
         Compare(s, want, seen), StaleKept(s), Settled(Turn(s), bin[s], want),
         want = seen \/ (s \notin stale' =>
           writer[Turn(s)] # bin[s] /\ Replaces(Turn(s), want, file[Turn(s)]))
  PROVE  FileInv'
<1>1. UNCHANGED <<file, writer, bin>> /\ next' = [next EXCEPT ![s] = want]
  BY DEF Compare, disk
<1>2. next'[s] = want /\ DOMAIN next' = Syncs /\ \A t \in Syncs \ {s} : next'[t] = next[t]
  BY <1>1 DEF FileInv, FilesOK
<1>3. CASE want = seen
  <2>1. Tell(s, "current") BY <1>3 DEF Compare
  <2>2. pc'[s] \notin Looking /\ Alone(s) BY <1>1, <1>2, <2>1, TellLands DEF StaleKept, Alone
  <2> QED BY <1>1, <2>2, EmptyHanded, LookKeepsFiles
<1>4. CASE want # seen
  <2>1. Goto(s, "write") /\ UNCHANGED todo BY <1>4 DEF Compare
  <2>2. pc'[s] = "write" /\ \A t \in Syncs \ {s} : pc'[t] = pc[t]
    BY <2>1 DEF Goto, SyncInv, SyncTypeOK
  <2>3. Alone(s) BY <1>1, <1>2, <2>1, <2>2 DEF StaleKept, Alone
  <2>4. Turn(s)' = Turn(s) BY <2>1 DEF Turn
  <2> DEFINE h == Turn(s)
  <2>5. /\ Settled(h, bin[s], want)
        /\ s \notin stale' => writer[h] # bin[s] /\ Replaces(h, want, file[h])
    BY <1>4
  <2> HIDE DEF h
  <2>6. CarriesOK(s)' BY <1>1, <1>2, <2>2, <2>4, <2>5 DEF CarriesOK, Settled, Replaces, h
  <2> QED BY <1>1, <2>3, <2>6, LookKeepsFiles
<1> QED BY <1>3, <1>4

LEMMA EmptyIsFile == \A mode : IsFile(EmptySettings(mode)) /\ EmptySettings(mode).kind = "settings"
<1> TAKE mode
<1> DEFINE H == [e \in Events |-> <<>>]
<1>1. \A e \in Events : IsGroups(H[e]) BY NoGroups
<1>2. DOMAIN H = Events OBVIOUS
<1> HIDE DEF H
<1> QED BY <1>1, <1>2, RoundedAssumption DEF EmptySettings, Settings, IsFile, H

LEMMA ReadSettingsKeepsFiles ==
  ASSUME SyncInv, FileInv, NEW s \in Syncs, ReadSettings(s)
  PROVE  FileInv'
<1> DEFINE h == Turn(s)
           f == file[h]
           b == bin[s]
<1>1. pc[s] \in AtTarget BY DEF ReadSettings, AtTarget
<1>2. StaleKept(s) BY DEF ReadSettings, StaleKept, SyncInv, SyncTypeOK
<1>3. h \in Harness /\ b \in Bins /\ h # "omp" /\ IsFile(f)
  BY <1>1, TurnIsHere DEF ReadSettings, FileInv, FilesOK
<1>4. writer[h] = b => Settled(h, b, f) BY <1>3, BinsAssumption DEF FileInv, WriterOK
<1>5. \/ f = Missing /\ Compare(s, Merged(EmptySettings("private"), b), f)
      \/ f.kind = "settings" /\ Compare(s, Merged(f, b), f)
      \/ GiveUp(s)
      \/ Goto(s, "panicked") /\ UNCHANGED <<disk, mine, todo, writer>>
  BY DEF ReadSettings
<1>6. CASE f = Missing /\ Compare(s, Merged(EmptySettings("private"), b), f)
  <2> DEFINE want == Merged(EmptySettings("private"), b)
  <2>1. want.kind = "settings" /\ IsFile(want) /\ Merged(want, b) = want
    BY <1>3, EmptyIsFile, MergedFacts
  <2> HIDE DEF want
  <2>2. Settled(h, b, want) BY <1>3, <2>1 DEF Settled
  <2>3. writer[h] # b BY <1>3, <1>4, <1>6 DEF Settled, Missing
  <2>4. Replaces(h, want, f) BY <1>6 DEF Replaces
  <2>5. Compare(s, want, f) BY <1>6 DEF want
  <2> QED BY <1>1, <1>2, <2>2, <2>3, <2>4, <2>5, CompareKeepsFiles
<1>7. CASE f.kind = "settings" /\ Compare(s, Merged(f, b), f)
  <2> DEFINE want == Merged(f, b)
  <2>1. /\ want.kind = "settings" /\ IsFile(want) /\ Merged(want, b) = want
        /\ Strangers(want) = Survives(Strangers(f))
    <3> HIDE DEF f, b
    <3> QED BY <1>3, <1>7, MergedFacts
  <2>2. writer[h] = b => want = f BY <1>3, <1>4 DEF Settled
  <2> HIDE DEF want
  <2>3. Settled(h, b, want) BY <1>3, <2>1 DEF Settled
  <2>4. Replaces(h, want, f) BY <1>7, <2>1 DEF Replaces
  <2>5. Compare(s, want, f) BY <1>7 DEF want
  <2> QED BY <1>1, <1>2, <2>2, <2>3, <2>4, <2>5, CompareKeepsFiles
<1>8. CASE GiveUp(s) BY <1>2, <1>8, GiveUpKeepsFiles
<1>9. CASE Goto(s, "panicked") /\ UNCHANGED <<disk, mine, todo, writer>>
  <2> DEFINE where == "panicked"
  <2>1. where \in Places \ Looking /\ Goto(s, where) BY <1>9 DEF Places, Looking
  <2> HIDE DEF where
  <2>2. UNCHANGED <<file, writer, bin, next, todo>> BY <1>9 DEF disk, mine
  <2> QED BY <1>2, <2>1, <2>2, GotoKeepsFiles
<1> QED BY <1>5, <1>6, <1>7, <1>8, <1>9

LEMMA ModuleIsSettled == ASSUME NEW b, NEW mode PROVE Settled("omp", b, Module(b, TRUE, mode))
BY DEF Settled, Module

LEMMA LookModuleKeepsFiles ==
  ASSUME SyncInv, FileInv, NEW s \in Syncs, LookModule(s)
  PROVE  FileInv'
<1> DEFINE h == Turn(s)
           f == file["omp"]
           b == bin[s]
<1>1. pc[s] \in AtTarget BY DEF LookModule, AtTarget
<1>2. StaleKept(s) BY DEF LookModule, StaleKept, SyncInv, SyncTypeOK
<1>3. h \in Harness /\ b \in Bins /\ h = "omp"
  BY <1>1, TurnIsHere DEF LookModule, FileInv, FilesOK
<1>4. writer[h] = b => Settled(h, b, f) BY <1>3, BinsAssumption DEF FileInv, WriterOK
<1>5. \/ f = Missing /\ Compare(s, Module(b, TRUE, "private"), f)
      \/ GiveUp(s)
      \/ /\ f \notin {Missing, Irregular} /\ Goto(s, "read")
         /\ UNCHANGED <<disk, mine, todo, writer>>
  BY DEF LookModule
<1>6. CASE f = Missing /\ Compare(s, Module(b, TRUE, "private"), f)
  <2> DEFINE want == Module(b, TRUE, "private")
  <2>1. Settled(h, b, want) BY <1>3, ModuleIsSettled
  <2>2. writer[h] # b BY <1>3, <1>4, <1>6 DEF Settled, Missing, Module
  <2>3. Replaces(h, want, file[h]) BY <1>3, <1>6 DEF Replaces
  <2> HIDE DEF want
  <2>4. Compare(s, want, f) BY <1>6 DEF want
  <2> QED BY <1>1, <1>2, <2>1, <2>2, <2>3, <2>4, CompareKeepsFiles
<1>7. CASE GiveUp(s) BY <1>2, <1>7, GiveUpKeepsFiles
<1>8. CASE /\ f \notin {Missing, Irregular} /\ Goto(s, "read")
           /\ UNCHANGED <<disk, mine, todo, writer>>
  <2>1. UNCHANGED <<file, writer, bin, next, todo>> BY <1>8 DEF disk, mine
  <2>2. pc'[s] = "read" /\ \A t \in Syncs \ {s} : pc'[t] = pc[t]
    BY <1>8 DEF Goto, SyncInv, SyncTypeOK
  <2>3. Alone(s) BY <1>2, <2>1, <2>2 DEF StaleKept, Alone, FileInv, FilesOK
  <2>4. Turn(s)' = Turn(s) BY <2>1 DEF Turn
  <2>5. CarriesOK(s)' BY <1>3, <1>8, <2>1, <2>2, <2>4 DEF CarriesOK
  <2> QED BY <2>1, <2>3, <2>5, LookKeepsFiles
<1> QED BY <1>5, <1>6, <1>7, <1>8

LEMMA ReadModuleKeepsFiles ==
  ASSUME SyncInv, FileInv, NEW s \in Syncs, ReadModule(s)
  PROVE  FileInv'
<1> DEFINE h == Turn(s)
           f == file["omp"]
           b == bin[s]
<1>1. pc[s] \in AtTarget /\ pc[s] = "read" BY DEF ReadModule, AtTarget
<1>2. /\ StaleKept(s)
      /\ f = Irregular => stale' = stale
  BY DEF ReadModule, StaleKept, SyncInv, SyncTypeOK
<1>3. h \in Harness /\ b \in Bins /\ h = "omp"
      /\ (s \notin stale => f \notin {Missing, Irregular})
  BY <1>1, <1>2, TurnIsHere DEF CarriesOK, FileInv, FilesOK
<1>4. writer[h] = b => Settled(h, b, f) BY <1>3, BinsAssumption DEF FileInv, WriterOK
<1>5. \/ f.kind = "module" /\ Compare(s, Module(b, TRUE, f.mode), f)
      \/ f = Irregular /\ \E behind : Compare(s, Module(b, TRUE, "private"), behind)
      \/ GiveUp(s)
  BY DEF ReadModule
<1>6. CASE f.kind = "module" /\ Compare(s, Module(b, TRUE, f.mode), f)
  <2> DEFINE want == Module(b, TRUE, f.mode)
  <2>1. Settled(h, b, want) BY <1>3, ModuleIsSettled
  <2>2. writer[h] = b => want = f BY <1>3, <1>4 DEF Settled
  <2>3. Replaces(h, want, file[h]) BY <1>3, <1>6 DEF Replaces
  <2> HIDE DEF want
  <2>4. Compare(s, want, f) BY <1>6 DEF want
  <2> QED BY <1>1, <1>2, <2>1, <2>2, <2>3, <2>4, CompareKeepsFiles
<1>7. CASE f = Irregular /\ \E behind : Compare(s, Module(b, TRUE, "private"), behind)
  <2> DEFINE want == Module(b, TRUE, "private")
  <2>1. Settled(h, b, want) BY <1>3, ModuleIsSettled
  <2>2. s \in stale' BY <1>2, <1>3, <1>7
  <2> HIDE DEF want
  <2>3. PICK behind : Compare(s, want, behind) BY <1>7 DEF want
  <2> QED BY <1>1, <1>2, <2>1, <2>2, <2>3, CompareKeepsFiles
<1>8. CASE GiveUp(s) BY <1>2, <1>8, GiveUpKeepsFiles
<1> QED BY <1>5, <1>6, <1>7, <1>8
\* Prepare takes the mode of what is there.
LEMMA PrepareKeepsFiles ==
  ASSUME SyncInv, FileInv, NEW s \in Syncs, Prepare(s)
  PROVE  FileInv'
<1> DEFINE h == Turn(s)
           b == bin[s]
           mode == ModeOf(file[h])
<1>1. pc[s] \in AtTarget /\ pc[s] = "write" BY DEF Prepare, AtTarget
<1>2. StaleKept(s) /\ stale' = stale BY DEF Prepare, StaleKept, SyncInv, SyncTypeOK
<1>3. b \in Bins /\ CarriesOK(s) BY DEF FileInv, FilesOK
<1>4. \/ GiveUp(s)
      \/ /\ Goto(s, "rename") /\ next' = [next EXCEPT ![s].mode = mode]
         /\ UNCHANGED <<file, writer, bin, todo>>
  BY DEF Prepare, disk
<1>5. CASE GiveUp(s) BY <1>2, <1>5, GiveUpKeepsFiles
<1>6. CASE /\ Goto(s, "rename") /\ next' = [next EXCEPT ![s].mode = mode]
           /\ UNCHANGED <<file, writer, bin, todo>>
  <2> DEFINE n == next[s]
             m == [n EXCEPT !.mode = mode]
  <2>1. pc'[s] = "rename" /\ \A t \in Syncs \ {s} : pc'[t] = pc[t]
    BY <1>6 DEF Goto, SyncInv, SyncTypeOK
  <2>2. next'[s] = m /\ DOMAIN next' = Syncs /\ \A t \in Syncs \ {s} : next'[t] = next[t]
    BY <1>6 DEF FileInv, FilesOK
  <2>3. Alone(s) BY <1>2, <1>6, <2>1, <2>2 DEF StaleKept, Alone
  <2>4. Turn(s)' = Turn(s) BY <1>6 DEF Turn
  <2>5. /\ Settled(h, b, n)
        /\ s \notin stale' => writer[h] # b /\ Replaces(h, n, file[h])
    BY <1>1, <1>2, <1>3 DEF CarriesOK
  <2> HIDE DEF n, h, b, mode
  <2>6. Settled(h, b, m) /\ m.mode = mode /\ (h # "omp" => Strangers(m) = Strangers(n))
    BY <1>3, <2>5, SettledMode
  <2> HIDE DEF m
  <2>7. s \notin stale' => writer[h] # b /\ Replaces(h, m, file[h]) BY <2>5, <2>6 DEF Replaces
  <2>8. CarriesOK(s)'
    BY <1>6, <2>1, <2>2, <2>4, <2>6, <2>7 DEF CarriesOK, Settled, Replaces, h, b, mode, ModeOf
  <2> QED BY <1>6, <2>3, <2>8, LookKeepsFiles
<1> QED BY <1>4, <1>5, <1>6

\* Rename puts a settled file there, and all who looked at the one before are stale.
LEMMA RenameKeepsFiles ==
  ASSUME SyncInv, FileInv, NEW s \in Syncs, Rename(s)
  PROVE  FileInv'
<1> DEFINE h == Turn(s)
           b == bin[s]
           n == next[s]
<1>1. pc[s] \in AtTarget /\ pc[s] = "rename" BY DEF Rename, AtTarget
<1>2. StaleKept(s) BY DEF Rename, StaleKept, LookingAt, SyncInv, SyncTypeOK
<1>3. b \in Bins /\ CarriesOK(s) /\ h \in Harness BY <1>1, TurnIsHere DEF FileInv, FilesOK
<1>4. \/ GiveUp(s)
      \/ /\ file' = [file EXCEPT ![h] = n] /\ writer' = [writer EXCEPT ![h] = b]
         /\ stale' = stale \cup (LookingAt(h) \ {s})
         /\ Tell(s, "wrote") /\ UNCHANGED <<bin, next>>
  BY DEF Rename, mine
<1>5. CASE GiveUp(s) BY <1>2, <1>5, GiveUpKeepsFiles
<1>6. CASE /\ file' = [file EXCEPT ![h] = n] /\ writer' = [writer EXCEPT ![h] = b]
           /\ stale' = stale \cup (LookingAt(h) \ {s})
           /\ Tell(s, "wrote") /\ UNCHANGED <<bin, next>>
  <2>1. Settled(h, b, n) /\ IsFile(n) BY <1>1, <1>3, SettledFacts DEF CarriesOK
  <2>2. /\ DOMAIN file' = Harness /\ DOMAIN writer' = Harness
        /\ \A g \in Harness : /\ file'[g] = IF g = h THEN n ELSE file[g]
                              /\ writer'[g] = IF g = h THEN b ELSE writer[g]
    BY <1>3, <1>6 DEF FileInv, FilesOK
  <2>3. pc'[s] \notin Looking /\ \A t \in Syncs \ {s} : pc'[t] = pc[t] /\ todo'[t] = todo[t]
    BY <1>6, TellLands
  <2>4. Alone(s) BY <1>2, <1>6, <2>3 DEF StaleKept, Alone, FileInv, FilesOK
  <2>5. ASSUME NEW t \in Syncs \ {s} PROVE CarriesOK(t)'
    <3> DEFINE g == Turn(t)
    <3>1. CASE t \notin stale' /\ pc[t] \in Looking
      <4>1. g # h BY <1>6, <3>1 DEF LookingAt, Looking
      <4>2. g \in Harness BY <3>1, TurnIsHere DEF Looking, AtTarget
      <4>3. file'[g] = file[g] /\ writer'[g] = writer[g] BY <2>2, <4>1, <4>2
      <4> QED BY <2>4, <4>3, OthersCarry
    <3>2. CASE ~(t \notin stale' /\ pc[t] \in Looking) BY <2>4, <3>2, OthersCarry
    <3> QED BY <3>1, <3>2
  <2> HIDE DEF h, b, n
  <2>6. FilesOK' BY <1>6, <2>1, <2>2 DEF FilesOK, FileInv
  <2>7. WriterOK' BY <1>3, <2>1, <2>2 DEF WriterOK, FileInv
  <2> QED BY <2>3, <2>5, <2>6, <2>7, EmptyHanded DEF FileInv
<1> QED BY <1>4, <1>5, <1>6

\* The steps before and after the targets.
LEMMA OutsideKeepsFiles ==
  ASSUME SyncInv, FileInv, NEW s \in Syncs,
         Begin(s) \/ ReadExclude(s) \/ AppendLine(s) \/ Kill(s)
  PROVE  FileInv'
<1>1. UNCHANGED <<file, writer, bin, next>> /\ StaleKept(s)
  <2> USE DEF StaleKept, SyncInv, SyncTypeOK
  <2>1. CASE Begin(s) BY <2>1 DEF Begin, disk, ghosts
  <2>2. CASE ReadExclude(s) BY <2>2 DEF ReadExclude, disk
  <2>3. CASE AppendLine(s) BY <2>3 DEF AppendLine, mine
  <2>4. CASE Kill(s) BY <2>4 DEF Kill, disk, mine, ghosts
  <2> QED BY <2>1, <2>2, <2>3, <2>4
<1>2. \E where \in Places \ Looking : Goto(s, where)
  <2> DEFINE done == "done"
             install == "install"
             append == "append"
             killed == "killed"
  <2>1. {done, install, append, killed} \subseteq Places \ Looking BY DEF Places, Looking
  <2>2. Goto(s, done) \/ Goto(s, install) \/ Goto(s, append) \/ Goto(s, killed)
    <3>1. CASE Begin(s) BY <3>1 DEF Begin, Exit
    <3>2. CASE ReadExclude(s) BY <3>2 DEF ReadExclude, Finish, Exit
    <3>3. CASE AppendLine(s) BY <3>3 DEF AppendLine, Finish, Exit
    <3>4. CASE Kill(s) BY <3>4 DEF Kill
    <3> QED BY <3>1, <3>2, <3>3, <3>4
  <2> HIDE DEF done, install, append, killed
  <2> QED BY <2>1, <2>2
<1>3. \A t \in Syncs \ {s} : todo'[t] = todo[t]
  <2> USE DEF SyncInv, SyncTypeOK
  <2>1. CASE Begin(s) BY <2>1 DEF Begin
  <2>2. CASE ReadExclude(s) \/ AppendLine(s) \/ Kill(s)
    BY <2>2 DEF ReadExclude, AppendLine, Kill
  <2> QED BY <2>1, <2>2
<1> QED BY <1>1, <1>2, <1>3, GotoKeepsFiles

\* The user takes a file over.
LEMMA EditKeepsFiles == ASSUME SyncInv, FileInv, Edit PROVE FileInv'
<1>1. UNCHANGED <<pc, bin, next, todo>> /\ stale \subseteq stale' BY DEF Edit, mine
<1>2. \/ UNCHANGED <<file, writer>>
      \/ \E change \in Edits :
           /\ file' = [file EXCEPT ![change[1]] = change[2]]
           /\ writer' = [writer EXCEPT ![change[1]] = "user"]
           /\ stale' = stale \cup LookingAt(change[1])
  BY DEF Edit
<1> DEFINE none == CHOOSE x : x \notin Syncs
<1>3. none \notin Syncs BY NoSetContainsEverything
<1> HIDE DEF none
<1>4. Alone(none) BY <1>1 DEF Alone, FileInv, FilesOK
<1>5. CASE UNCHANGED <<file, writer>> BY <1>3, <1>4, <1>5, LookKeepsFiles
<1>6. ASSUME NEW change \in Edits,
             file' = [file EXCEPT ![change[1]] = change[2]],
             writer' = [writer EXCEPT ![change[1]] = "user"],
             stale' = stale \cup LookingAt(change[1])
      PROVE  FileInv'
  <2> DEFINE h == change[1]
             user == "user"
  <2>1. /\ DOMAIN file' = Harness /\ DOMAIN writer' = Harness
        /\ \A g \in Harness : /\ file'[g] = IF g = h THEN change[2] ELSE file[g]
                              /\ writer'[g] = IF g = h THEN user ELSE writer[g]
    BY <1>6 DEF FileInv, FilesOK
  <2>2. IsFile(change[2]) BY <1>6, FilesAssumption
  <2>3. ASSUME NEW t \in Syncs PROVE CarriesOK(t)'
    <3> DEFINE g == Turn(t)
    <3>1. CASE t \notin stale' /\ pc[t] \in Looking
      <4>1. g # h BY <1>6, <3>1 DEF LookingAt, Looking
      <4>2. g \in Harness BY <3>1, TurnIsHere DEF Looking, AtTarget
      <4>3. file'[g] = file[g] /\ writer'[g] = writer[g] BY <2>1, <4>1, <4>2
      <4> QED BY <1>3, <1>4, <4>3, OthersCarry
    <3>2. CASE ~(t \notin stale' /\ pc[t] \in Looking) BY <1>3, <1>4, <3>2, OthersCarry
    <3> QED BY <3>1, <3>2
  <2> HIDE DEF h
  <2>4. FilesOK' BY <1>1, <2>1, <2>2 DEF FilesOK, FileInv
  <2>5. WriterOK' BY <2>1 DEF WriterOK, FileInv
  <2> QED BY <2>3, <2>4, <2>5 DEF FileInv
<1> QED BY <1>2, <1>5, <1>6

\* A file a sync wrote last, and the file each sync carries, is settled, whatever other
\* syncs, the user and failures do meanwhile.
THEOREM FilesAreSettled == Spec => [](SyncInv /\ FileInv)
<1>1. Init => FileInv
  <2> SUFFICES ASSUME Init PROVE FileInv OBVIOUS
  <2>1. PICK start \in Starts : file = start.file BY DEF Init
  <2>2. DOMAIN file = Harness /\ \A h \in Harness : IsFile(file[h]) BY <2>1, FilesAssumption
  <2>3. FilesOK BY <2>2 DEF Init, FilesOK
  <2>4. WriterOK BY DEF Init, WriterOK
  <2>5. \A t \in Syncs : CarriesOK(t) BY DEF Init, CarriesOK
  <2> QED BY <2>3, <2>4, <2>5 DEF FileInv
<1>2. SyncInv /\ FileInv /\ [Next]_vars => FileInv'
  <2> SUFFICES ASSUME SyncInv, FileInv, [Next]_vars PROVE FileInv' OBVIOUS
  <2>1. ASSUME NEW s \in Syncs, Step(s) PROVE FileInv'
    BY <2>1, OutsideKeepsFiles, ReadSettingsKeepsFiles, LookModuleKeepsFiles,
       ReadModuleKeepsFiles, PrepareKeepsFiles, RenameKeepsFiles DEF Step
  <2>2. CASE UNCHANGED vars
    <3>1. UNCHANGED <<file, writer, bin, next, pc, todo, stale>>
      BY <2>2 DEF vars, disk, mine, ghosts
    <3>2. FilesOK' /\ WriterOK' BY <3>1 DEF FileInv, FilesOK, WriterOK
    <3>3. \A t \in Syncs : Turn(t)' = Turn(t) BY <3>1 DEF Turn
    <3>4. \A t \in Syncs : CarriesOK(t)' BY <3>1, <3>3 DEF FileInv, CarriesOK
    <3> QED BY <3>2, <3>4 DEF FileInv
  <2> QED BY <2>1, <2>2, EditKeepsFiles DEF Next
<1> QED BY <1>1, <1>2, SyncsAreSound, PTL DEF Spec
-----------------------------------------------------------------------------
\* Only the sync that steps is told something of its target: that it has what it wanted,
\* or that it wrote what it carried.
Answered(s, h) ==
  /\ h = Turn(s)
  /\ \/ /\ pc[s] = "rename" /\ file' = [file EXCEPT ![h] = next[s]]
        /\ told'[s][h] = "wrote"
     \/ Settled(h, bin[s], file[h]) /\ UNCHANGED file /\ told'[s][h] = "current"
     \/ ThroughALink(s, h) /\ told'[s][h] = "current"

LEMMA TellAnswers ==
  ASSUME SyncInv, NEW t \in Syncs, NEW what, Tell(t, what), NEW s \in Syncs, NEW h \in Harness,
         told'[s][h] # told[s][h]
  PROVE  s = t /\ h = Turn(t) /\ told'[s][h] = what
<1> DEFINE g == Turn(t)
<1>1. told' = [told EXCEPT ![t][g] = what] BY DEF Tell
<1> HIDE DEF g
<1>2. s = t BY <1>1 DEF SyncInv, SyncTypeOK
<1>3. h = g BY <1>1, <1>2 DEF SyncInv, SyncTypeOK
<1>4. told'[s][h] = what BY <1>1, <1>2, <1>3 DEF SyncInv, SyncTypeOK
<1> QED BY <1>2, <1>3, <1>4 DEF g

LEMMA WhoTells ==
  ASSUME SyncInv, FileInv, NEW s \in Syncs, NEW h \in Harness, Next,
         told[s][h] = "nothing", told'[s][h] \in {"wrote", "current"}
  PROVE  Answered(s, h)
<1> DEFINE here == file[Turn(s)]
<1>0. told' # told OBVIOUS
<1>1. CASE Edit BY <1>0, <1>1 DEF Edit
<1>2. ASSUME NEW t \in Syncs, Step(t) PROVE Answered(s, h)
  <2>1. ~GiveUp(t)
    <3> SUFFICES ASSUME GiveUp(t) PROVE FALSE OBVIOUS
    <3> DEFINE failed == "failed"
    <3>1. failed \notin {"wrote", "current"} OBVIOUS
    <3>2. Tell(t, failed) BY DEF GiveUp
    <3> HIDE DEF failed
    <3>3. told'[s][h] = failed BY <3>2, TellAnswers
    <3> QED BY <3>1, <3>3
  <2>2. ASSUME NEW want, Compare(t, want, file[Turn(t)]), Settled(Turn(t), bin[t], want)
        PROVE  Answered(s, h)
    <3> DEFINE current == "current"
    <3>1. want = file[Turn(t)] BY <1>0, <2>2 DEF Compare
    <3>2. Tell(t, current) /\ UNCHANGED file BY <2>2, <3>1 DEF Compare, disk
    <3> HIDE DEF current
    <3>3. s = t /\ h = Turn(t) /\ told'[s][h] = current BY <3>2, TellAnswers
    <3> QED BY <2>2, <3>1, <3>2, <3>3 DEF Answered, current
  <2>3. bin[t] \in Bins BY DEF FileInv, FilesOK
  <2>5. CASE ReadSettings(t)
    <3> DEFINE g == Turn(t)
               f == file[g]
               b == bin[t]
    <3>1. g \in Harness /\ g # "omp" /\ IsFile(f)
      BY <2>5, TurnIsHere DEF ReadSettings, AtTarget, FileInv, FilesOK
    <3>2. \/ Compare(t, Merged(EmptySettings("private"), b), f)
          \/ f.kind = "settings" /\ Compare(t, Merged(f, b), f)
      BY <1>0, <2>1, <2>5 DEF ReadSettings
    <3>3. Settled(g, b, Merged(EmptySettings("private"), b))
      <4> DEFINE empty == EmptySettings("private")
      <4>1. IsFile(empty) /\ empty.kind = "settings" BY EmptyIsFile
      <4> HIDE DEF empty
      <4> QED BY <2>3, <3>1, <4>1, MergedFacts DEF Settled, empty
    <3>4. f.kind = "settings" => Settled(g, b, Merged(f, b))
      <4> HIDE DEF f
      <4> QED BY <2>3, <3>1, MergedFacts DEF Settled
    <3> QED BY <2>2, <3>2, <3>3, <3>4
  <2>6. CASE LookModule(t)
    <3>1. Turn(t) = "omp" BY <2>6 DEF LookModule
    <3>2. Compare(t, Module(bin[t], TRUE, "private"), file["omp"])
      BY <1>0, <2>1, <2>6 DEF LookModule
    <3> QED BY <2>2, <3>1, <3>2, ModuleIsSettled
  <2>7. CASE ReadModule(t)
    <3>1. Turn(t) = "omp" BY <2>7 DEF ReadModule, FileInv, CarriesOK
    <3>2. \/ Compare(t, Module(bin[t], TRUE, file["omp"].mode), file["omp"])
          \/ file["omp"] = Irregular /\ \E behind : Compare(t, Module(bin[t], TRUE, "private"), behind)
      BY <2>1, <2>7 DEF ReadModule
    <3>3. CASE Compare(t, Module(bin[t], TRUE, file["omp"].mode), file["omp"])
      BY <2>2, <3>1, <3>3, ModuleIsSettled
    <3>4. CASE file["omp"] = Irregular /\ \E behind : Compare(t, Module(bin[t], TRUE, "private"), behind)
      <4> DEFINE current == "current"
      <4>1. Tell(t, current) BY <1>0, <3>4 DEF Compare
      <4> HIDE DEF current
      <4>2. s = t /\ h = Turn(t) /\ told'[s][h] = current BY <4>1, TellAnswers
      <4>3. pc[t] = "read" /\ t \in stale BY <2>7, <3>4 DEF ReadModule, FileInv, CarriesOK
      <4>4. ThroughALink(s, h) BY <3>1, <3>4, <4>2, <4>3 DEF ThroughALink
      <4> QED BY <4>2, <4>4 DEF Answered, current
    <3> QED BY <3>2, <3>3, <3>4
  <2>8. CASE Rename(t)
    <3> DEFINE wrote == "wrote"
    <3>1. pc[t] = "rename" /\ Tell(t, wrote) /\ file' = [file EXCEPT ![Turn(t)] = next[t]]
      BY <2>1, <2>8 DEF Rename
    <3> HIDE DEF wrote
    <3>2. s = t /\ h = Turn(t) /\ told'[s][h] = wrote BY <3>1, TellAnswers
    <3> QED BY <3>1, <3>2 DEF Answered, wrote
  <2>9. CASE Begin(t) \/ ReadExclude(t) \/ AppendLine(t) \/ Kill(t)
    BY <1>0, <2>9 DEF Begin, ReadExclude, AppendLine, Kill
  <2>10. CASE Prepare(t) BY <1>0, <2>1, <2>10 DEF Prepare
  <2> QED BY <1>2, <2>5, <2>6, <2>7, <2>8, <2>9, <2>10 DEF Step
<1> QED BY <1>1, <1>2 DEF Next

\* Sync reports a target synced only when exactly one entry of handrail's is left for every
\* event, it names this binary, and doctor has nothing to say of it, or when it read omp's
\* module through a link put there meanwhile: for any file, harness and other syncs.
THEOREM SyncedIsCurrentHolds == Spec => SyncedIsCurrent
<1> DEFINE Synced == \A s \in Syncs, h \in Harness :
         told[s][h] = "nothing" /\ told'[s][h] \in {"wrote", "current"} =>
           \/ told'[s][h] = "current" /\ ThroughALink(s, h)
           \/ /\ DoctorClear(h, file'[h], bin[s])
              /\ h # "omp" => \A e \in Events : Len(OurPairs(file'[h], e)) = 1
<1>1. SyncInv /\ FileInv /\ [Next]_vars => [Synced]_vars
  <2> SUFFICES ASSUME SyncInv, FileInv, Next, NEW s \in Syncs, NEW h \in Harness,
                      told[s][h] = "nothing", told'[s][h] \in {"wrote", "current"}
               PROVE  \/ told'[s][h] = "current" /\ ThroughALink(s, h)
                      \/ /\ DoctorClear(h, file'[h], bin[s])
                         /\ h # "omp" => \A e \in Events : Len(OurPairs(file'[h], e)) = 1
    OBVIOUS
  <2>1. Answered(s, h) BY WhoTells
  <2>2. bin[s] \in Bins /\ CarriesOK(s) /\ h \in DOMAIN file BY DEF FileInv, FilesOK
  <2>3. Settled(h, bin[s], file'[h]) \/ (told'[s][h] = "current" /\ ThroughALink(s, h))
    <3>1. CASE pc[s] = "rename" /\ file' = [file EXCEPT ![h] = next[s]]
      <4>1. file'[h] = next[s] BY <2>2, <3>1
      <4> QED BY <2>1, <2>2, <3>1, <4>1 DEF Answered, CarriesOK
    <3>2. CASE Settled(h, bin[s], file[h]) /\ UNCHANGED file BY <3>2
    <3> QED BY <2>1, <3>1, <3>2 DEF Answered
  <2> QED BY <2>2, <2>3, SettledFacts
<1>2. Spec => [][Synced]_vars BY <1>1, FilesAreSettled, PTL DEF Spec
<1> QED BY <1>2 DEF SyncedIsCurrent

\* A sync leaves all that Survives of what others have in a file, and its mode: for any
\* file of any harness, if nobody wrote to it between the read and the rename.
THEOREM GuestInTheFileHolds == Spec => GuestInTheFile
<1> DEFINE Guest == \A s \in Syncs \ stale, h \in Harness :
         told[s][h] = "nothing" /\ told'[s][h] = "wrote" =>
           \/ file[h] = Missing /\ file'[h].mode = "private"
           \/ /\ file[h].kind \in {"settings", "module"} /\ file'[h].mode = file[h].mode
              /\ h # "omp" => Strangers(file'[h]) = Survives(Strangers(file[h]))
<1>1. SyncInv /\ FileInv /\ [Next]_vars => [Guest]_vars
  <2> SUFFICES ASSUME SyncInv, FileInv, Next, NEW s \in Syncs \ stale, NEW h \in Harness,
                      told[s][h] = "nothing", told'[s][h] = "wrote"
               PROVE  \/ file[h] = Missing /\ file'[h].mode = "private"
                      \/ /\ file[h].kind \in {"settings", "module"}
                         /\ file'[h].mode = file[h].mode
                         /\ h # "omp" => Strangers(file'[h]) = Survives(Strangers(file[h]))
    OBVIOUS
  <2>1. h = Turn(s) /\ pc[s] = "rename" /\ file' = [file EXCEPT ![h] = next[s]]
    BY WhoTells DEF Answered
  <2>2. CarriesOK(s) /\ h \in DOMAIN file BY DEF FileInv, FilesOK
  <2>3. file'[h] = next[s] BY <2>1, <2>2
  <2>4. Replaces(h, next[s], file[h]) /\ next[s].mode = ModeOf(file[h])
    BY <2>1, <2>2 DEF CarriesOK
  <2>5. CASE file[h] = Missing
    <3>1. ModeOf(file[h]) = "private" BY <2>5 DEF ModeOf, Missing
    <3> QED BY <2>3, <2>4, <2>5, <3>1
  <2>6. CASE /\ file[h].kind \in {"settings", "module"}
             /\ h # "omp" => Strangers(next[s]) = Survives(Strangers(file[h]))
    <3>1. ModeOf(file[h]) = file[h].mode BY <2>6 DEF ModeOf
    <3> QED BY <2>3, <2>4, <2>6, <3>1
  <2> QED BY <2>4, <2>5, <2>6 DEF Replaces
<1>2. Spec => [][Guest]_vars BY <1>1, FilesAreSettled, PTL DEF Spec
<1> QED BY <1>2 DEF GuestInTheFile

\* A sync never writes a file that an earlier one of the same binary wrote last.
THEOREM SettledIsLeftAloneHolds == Spec => SettledIsLeftAlone
<1> DEFINE LeftAlone == \A s \in Syncs \ stale, h \in Harness :
         told[s][h] = "nothing" /\ told'[s][h] = "wrote" => writer[h] # bin[s]
<1>1. SyncInv /\ FileInv /\ [Next]_vars => [LeftAlone]_vars
  <2> SUFFICES ASSUME SyncInv, FileInv, Next, NEW s \in Syncs \ stale, NEW h \in Harness,
                      told[s][h] = "nothing", told'[s][h] = "wrote"
               PROVE  writer[h] # bin[s]
    OBVIOUS
  <2>1. h = Turn(s) /\ pc[s] = "rename" BY WhoTells DEF Answered
  <2>2. CarriesOK(s) BY DEF FileInv
  <2> QED BY <2>1, <2>2 DEF CarriesOK
<1>2. Spec => [][LeftAlone]_vars BY <1>1, FilesAreSettled, PTL DEF Spec
<1> QED BY <1>2 DEF SettledIsLeftAlone
=============================================================================
