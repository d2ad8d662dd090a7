------------------------------ MODULE Install ------------------------------
(***************************************************************************)
(* handrail sync (sync.go, internal/harness/sync.go, omp_install.go) and   *)
(* the exclude line (internal/rule/exclude.go): several syncs, in several  *)
(* terminals or started by several versions of the plugin, each putting    *)
(* its entries into files that belong to the user, who edits them          *)
(* meanwhile.                                                              *)
(*                                                                         *)
(* A settings file is what the JSON in it means: for every event the list  *)
(* of groups of hooks, `rest` for every other key, of the file and of what *)
(* is in it, whether its bytes are the ones MarshalIndent gives (`tidy`),  *)
(* and its mode.  A hook is known by its command line: a handrail binary   *)
(* and the event it names, or the user's own.                              *)
(***************************************************************************)
EXTENDS Lists

CONSTANTS Syncs,       \* the runs of handrail sync
          Bins,        \* the paths of handrail binaries
          Harnesses,   \* the adapters, in their order: a sequence
          Events,      \* the events of their tables
          Starts,      \* the machines there may be at first: [file, exclude, tree]
          Rounded,     \* what rest is after a round through float64s, for every rest
          Edits,       \* what the user may make of them: set of <<harness, File>>
          Excludes,    \* what the user may make of the exclude file
          MaxEdits,    \* bound: edits by the user
          MaxFailures  \* bound: calls that fail, processes that are killed

ASSUME RoundedAssumption ==
  /\ "none" \in DOMAIN Rounded
  /\ \A r \in DOMAIN Rounded : Rounded[r] \in DOMAIN Rounded /\ Rounded[Rounded[r]] = Rounded[r]
ASSUME BoundsAssumption == MaxEdits \in Nat /\ MaxFailures \in Nat

\* A line of the exclude file: the user's, handrail's, an empty one, a beginning of
\* handrail's, two run together.
ExcludeLines == {"theirs", "ours", "blank", "part", "glued"}
ASSUME HarnessesAssumption == Harnesses \in Seq(STRING)
ASSUME ExcludeAssumption ==
  \A x \in Excludes \cup {start.exclude : start \in Starts} :
    x \in [lines : Seq(ExcludeLines), open : BOOLEAN]

Harness == Range(Harnesses)

\* What path() may name; "nowhere" is a harness that never ran, with no directory.
\* "null" is a file whose JSON is null.
Nowhere == [kind |-> "nowhere"]
Missing == [kind |-> "missing"]
Broken == [kind |-> "broken"]
Null == [kind |-> "null"]
Settings(hooks, rest, tidy, mode) ==
  [kind |-> "settings", hooks |-> hooks, rest |-> rest, tidy |-> tidy, mode |-> mode]
\* A module of omp's with handrail's ownership lines, its body the embedded one or not.
Module(bin, intact, mode) == [kind |-> "module", bin |-> bin, intact |-> intact, mode |-> mode]
Foreign == [kind |-> "foreign"]
Irregular == [kind |-> "irregular"]

\* A settings file holds lists of groups, and a value that is no group has no hooks.
IsGroups(groups) ==
  /\ IsSequence(groups)
  /\ \A g \in Range(groups) :
       /\ g = [matcher |-> g.matcher, hooks |-> g.hooks] /\ IsSequence(g.hooks)
       /\ g.matcher = "odd" => g.hooks = <<>>
IsFile(f) ==
  f.kind = "settings" =>
    /\ f = Settings(f.hooks, f.rest, f.tidy, f.mode) /\ f.rest \in DOMAIN Rounded
    /\ DOMAIN f.hooks = Events /\ \A e \in Events : IsGroups(f.hooks[e])
ASSUME FilesAssumption ==
  /\ \A start \in Starts : DOMAIN start.file = Harness /\ \A h \in Harness : IsFile(start.file[h])
  /\ \A change \in Edits : IsFile(change[2])
ASSUME BinsAssumption == "user" \notin Bins

VARIABLES
  file,     \* [Harness -> File], what each harness's path names
  exclude,  \* .git/info/exclude: its lines, and whether the last one is open
  tree,     \* what gitindex.Dirs says of the root: "tree", "none" or "error"
  pc,       \* where each sync is
  bin,      \* the binary it is, and will name
  todo,     \* the targets it has left
  next,     \* the bytes it is about to put in place of the first one's
  prefix,   \* whether it will start a line of its own in the exclude file
  told,     \* [Syncs -> [Harness -> what it said of each target]]
  targets,  \* the targets it started with
  exit,     \* its exit code, or 2 while it has none
  writer,   \* who wrote each file last: a binary, or "user"
  stale,    \* the syncs whose file, or exclude file, changed since they read it
  edits, failures

disk == <<file, exclude, tree>>
mine == <<bin, next, prefix, targets>>
ghosts == <<writer, stale>>
bounds == <<edits, failures>>
vars == <<disk, pc, mine, todo, told, exit, ghosts, bounds>>

-----------------------------------------------------------------------------
\* What Install makes of a settings file.

EmptySettings(mode) == Settings([e \in Events |-> <<>>], "none", FALSE, mode)

\* entryBinary: the binary's name and the event, not its directory.
Ours(hook, e) == hook.bin \in Bins /\ hook.event = e

\* A group of hooks, or a value that is none and is kept as it is ("odd").  An event
\* whose value is no list at all stands here as a group with no hooks: Install drops both.
Group(matcher, hooks) == [matcher |-> matcher, hooks |-> hooks]
Odd == Group("odd", <<>>)
Entry(b, e) == Group("none", <<[bin |-> b, event |-> e, qualifier |-> "none"]>>)

\* The hooks of a group that are the user's, and the group without the others.
Others(hooks, e) == Kept(hooks, {hook \in Range(hooks) : ~Ours(hook, e)})
Bare(g, e) == [g EXCEPT !.hooks = Others(g.hooks, e)]

\* Mutant: only a group that is handrail's alone is pruned.
Prune_WholeGroups(groups, e) ==
  Kept(groups, {g \in Range(groups) : g = Odd \/ \E i \in DOMAIN g.hooks : ~Ours(g.hooks[i], e)})

\* Mutant: a group is pruned with its strangers.
Prune_Strangers(groups, e) ==
  Kept(groups, {g \in Range(groups) : \A i \in DOMAIN g.hooks : ~Ours(g.hooks[i], e)})

\* Mutant: a group that pruning empties stays.
Prune_KeepsEmpty(groups, e) == [i \in DOMAIN groups |-> Bare(groups[i], e)]

\* A group left without hooks goes; one shared with the user keeps its others.
Prune(groups, e) ==
  LET bare == [i \in DOMAIN groups |-> Bare(groups[i], e)] IN
  Kept(bare, {g \in Range(bare) : g = Odd \/ g.hooks # <<>>})

\* The entry of each event is appended to what prune leaves, and the whole is written from
\* a map[string]any, in which every number is a float64.
Merged(f, b) ==
  Settings([e \in Events |-> Append(Prune(f.hooks[e], e), Entry(b, e))], Rounded[f.rest], TRUE, f.mode)

\* Every hook of an event with its group's matcher, in the order they stand.
GroupPairs(g) == [i \in DOMAIN g.hooks |-> [matcher |-> g.matcher, hook |-> g.hooks[i]]]
Pairs(groups) == FlattenSeq([i \in DOMAIN groups |-> GroupPairs(groups[i])])
OurPairs(f, e) ==
  LET pairs == Pairs(f.hooks[e]) IN Kept(pairs, {p \in Range(pairs) : Ours(p.hook, e)})

\* Entries, and doctor on top of it: the last entry is the one reported.  That the binary
\* it names is a runnable file, which doctor looks up too, is left out: it is the one that
\* runs, and no step of a sync removes it.
Narrowed(h, e, p) ==
  \/ h = "claude" /\ p.hook.qualifier = "if"
  \/ e \notin {"UserPromptSubmit", "Stop", "Interrupt"} /\ p.matcher # "none"
Async(h, e, p) == h = "codex" /\ e # "SessionEnd" /\ p.hook.qualifier = "async"
Current(h, e, f, b) ==
  LET p == Last(OurPairs(f, e))
  IN  /\ OurPairs(f, e) # <<>>
      /\ ~Narrowed(h, e, p) /\ ~Async(h, e, p) /\ p.hook.bin = b
DoctorClear(h, f, b) ==
  IF h = "omp" THEN f.kind = "module" /\ f.intact /\ f.bin = b
  ELSE f.kind = "settings" /\ \A e \in Events : Current(h, e, f, b)

-----------------------------------------------------------------------------
Init ==
  /\ \E start \in Starts :
       file = start.file /\ exclude = start.exclude /\ tree = start.tree
  /\ pc = [s \in Syncs |-> "begin"] /\ bin \in [Syncs -> Bins]
  /\ todo = [s \in Syncs |-> {}] /\ targets = [s \in Syncs |-> {}]
  /\ next = [s \in Syncs |-> Missing] /\ prefix = [s \in Syncs |-> FALSE]
  /\ told = [s \in Syncs |-> [h \in Harness |-> "nothing"]]
  /\ exit = [s \in Syncs |-> 2]
  /\ writer = [h \in Harness |-> "user"] /\ stale = {}
  /\ edits = 0 /\ failures = 0

Goto(s, where) == pc' = [pc EXCEPT ![s] = where]
Exit(s, code) == Goto(s, "done") /\ exit' = [exit EXCEPT ![s] = code]
Fails == failures < MaxFailures /\ failures' = failures + 1

Installed(h) == file[h] # Nowhere

\* The load or os.Executable fails, no harness is there, or the targets are known:
\* every installed harness, or the one the flag names.
Begin(s) ==
  /\ pc[s] = "begin"
  /\ \/ Fails /\ Exit(s, 1) /\ UNCHANGED <<todo, targets>>
     \/ \E only \in {Harness} \cup {{h} : h \in Harness} :
          LET found == {h \in only : Installed(h)}
          IN  /\ todo' = [todo EXCEPT ![s] = found]
              /\ targets' = [targets EXCEPT ![s] = found]
              /\ IF found = {} THEN Exit(s, 1) ELSE Goto(s, "install") /\ UNCHANGED exit
              /\ UNCHANGED failures
  /\ UNCHANGED <<disk, bin, next, prefix, told, ghosts, edits>>

\* The target whose turn it is: the first adapter of those left.
Turn(s) ==
  Harnesses[CHOOSE i \in DOMAIN Harnesses :
              Harnesses[i] \in todo[s] /\ \A j \in 1..(i - 1) : Harnesses[j] \notin todo[s]]

\* installHooks says what became of a target and goes on to the next.
Tell(s, what) ==
  LET left == todo[s] \ {Turn(s)}
  IN  /\ told' = [told EXCEPT ![s][Turn(s)] = what]
      /\ todo' = [todo EXCEPT ![s] = left]
      /\ Goto(s, IF left = {} THEN "exclude" ELSE "install")

\* Mutant: the first failure ends the loop.
GiveUp_Stops(s) ==
  /\ told' = [told EXCEPT ![s][Turn(s)] = "failed"]
  /\ todo' = [todo EXCEPT ![s] = {}]
  /\ Goto(s, "exclude")
  /\ UNCHANGED <<disk, mine, exit, writer>>

\* A target's error is reported and the loop carries on.
GiveUp(s) ==
  /\ Tell(s, "failed")
  /\ UNCHANGED <<disk, mine, exit, writer>>

\* What is to be written is there already, or write is next.
Compare(s, want, seen) ==
  /\ next' = [next EXCEPT ![s] = want]
  /\ IF want = seen THEN Tell(s, "current") ELSE Goto(s, "write") /\ UNCHANGED <<told, todo>>
  /\ UNCHANGED <<disk, bin, prefix, targets, exit, writer, failures>>

\* A file of settings: one that is missing is an empty one, of which no byte compares.
ReadSettings(s) ==
  /\ pc[s] = "install" /\ Turn(s) # "omp"
  /\ LET f == file[Turn(s)]
     IN  \/ f = Missing /\ Compare(s, Merged(EmptySettings("private"), bin[s]), f)
         \/ f.kind = "settings" /\ Compare(s, Merged(f, bin[s]), f)
         \/ f.kind \in {"broken", "irregular"} /\ GiveUp(s) /\ UNCHANGED failures
         \/ Fails /\ GiveUp(s)
         \* json.Unmarshal sets the map to nil, and Install writes to it.
         \/ /\ f = Null /\ Goto(s, "panicked")
            /\ UNCHANGED <<disk, mine, todo, told, exit, writer, failures>>
  /\ stale' = stale \ {s} /\ UNCHANGED edits

\* ompModule: lstat first.
LookModule(s) ==
  /\ pc[s] = "install" /\ Turn(s) = "omp"
  /\ LET f == file["omp"]
     IN  \/ f = Missing /\ Compare(s, Module(bin[s], TRUE, "private"), f)
         \/ f = Irregular /\ GiveUp(s) /\ UNCHANGED failures
         \/ /\ f \notin {Missing, Irregular} /\ Goto(s, "read")
            /\ UNCHANGED <<disk, mine, todo, told, exit, writer, failures>>
         \/ Fails /\ GiveUp(s)
  /\ stale' = stale \ {s} /\ UNCHANGED edits

\* Mutant: any regular file is taken for a module of handrail's.
ReadModule_Any(s) ==
  /\ pc[s] = "read"
  /\ LET f == file["omp"]
     IN  \/ f.kind = "module" /\ Compare(s, Module(bin[s], TRUE, f.mode), f)
         \/ f = Foreign /\ Compare(s, Module(bin[s], TRUE, "private"), f)
         \/ f \in {Missing, Irregular} /\ GiveUp(s) /\ UNCHANGED failures
         \/ Fails /\ GiveUp(s)
  /\ stale' = stale \ {s} /\ UNCHANGED edits

\* Then it reads: only a module with the ownership lines is handrail's to replace.
ReadModule(s) ==
  /\ pc[s] = "read"
  /\ LET f == file["omp"]
     IN  \/ f.kind = "module" /\ Compare(s, Module(bin[s], TRUE, f.mode), f)
         \/ f.kind # "module" /\ GiveUp(s) /\ UNCHANGED failures
         \* A link put there since the lstat is followed, to a module of handrail's it may
         \* be, another one or the very bytes sync would write.
         \/ /\ f = Irregular
            /\ LET want == Module(bin[s], TRUE, "private") IN
               \E behind \in {Irregular, want} : Compare(s, want, behind)
         \/ Fails /\ GiveUp(s)
  /\ stale' = IF file["omp"] = Irregular THEN stale ELSE stale \ {s}
  /\ UNCHANGED edits

\* The mode of what is there, or that of a new file.
ModeOf(f) == IF f.kind \in {"settings", "module"} THEN f.mode ELSE "private"

\* Mutant: the temporary file keeps the mode it was created with.
Prepare_OwnMode(s) ==
  /\ pc[s] = "write"
  /\ \/ /\ Goto(s, "rename")
        /\ next' = [next EXCEPT ![s].mode = "private"]
        /\ UNCHANGED <<disk, bin, prefix, targets, todo, told, exit, writer, failures>>
     \/ Fails /\ GiveUp(s)
  /\ UNCHANGED <<stale, edits>>

\* write, up to the rename: the mode is taken from the file, and the bytes go into a
\* temporary one beside it.
Prepare(s) ==
  /\ pc[s] = "write"
  /\ \/ /\ Goto(s, "rename")
        /\ next' = [next EXCEPT ![s].mode = ModeOf(file[Turn(s)])]
        /\ UNCHANGED <<disk, bin, prefix, targets, todo, told, exit, writer, failures>>
     \/ Fails /\ GiveUp(s)
  /\ UNCHANGED <<stale, edits>>

\* A new content of h's file makes stale what others saw of it.
LookingAt(h) == {t \in Syncs : pc[t] \in {"read", "write", "rename"} /\ Turn(t) = h}

Rename(s) ==
  LET h == Turn(s)
  IN  /\ pc[s] = "rename"
      /\ \/ /\ file' = [file EXCEPT ![h] = next[s]]
            /\ writer' = [writer EXCEPT ![h] = bin[s]]
            /\ stale' = stale \cup (LookingAt(h) \ {s})
            /\ Tell(s, "wrote")
            /\ UNCHANGED <<exclude, tree, mine, exit, failures>>
         \/ Fails /\ GiveUp(s) /\ UNCHANGED stale
      /\ UNCHANGED edits

-----------------------------------------------------------------------------
\* The exclude file.

\* Mutant: the line is appended as it is.
Written_NoPrefix(x, newline, whole) ==
  LET line == IF whole THEN "ours" ELSE "part"
  IN  [lines |-> IF x.open THEN Append(Front(x.lines), "glued") ELSE Append(x.lines, line),
       open |-> ~whole]

\* One write at the end, with a newline before it or not, that may stop short.
Written(x, newline, whole) ==
  LET line == IF whole THEN "ours" ELSE "part"
  IN  [lines |-> IF x.open /\ ~newline THEN Append(Front(x.lines), "glued")
                 ELSE IF newline /\ ~x.open THEN x.lines \o <<"blank", line>>
                 ELSE Append(x.lines, line),
       open |-> ~whole]

\* Exit code 1 if a target failed, and if a rule file or an Example did.
Finish(s) ==
  \E rulesFail \in BOOLEAN :
    Exit(s, IF rulesFail \/ \E h \in targets[s] : told[s][h] = "failed" THEN 1 ELSE 0)

\* readExclude: outside a working tree there is nothing to exclude.
ReadExclude(s) ==
  /\ pc[s] = "exclude" /\ stale' = stale \ {s}
  /\ \/ /\ tree = "error" /\ Exit(s, 1) /\ UNCHANGED <<prefix, failures>>
     \/ /\ tree = "none" \/ (tree = "tree" /\ "ours" \in Range(exclude.lines))
        /\ Finish(s) /\ UNCHANGED <<prefix, failures>>
     \/ /\ tree = "tree" /\ "ours" \notin Range(exclude.lines)
        /\ prefix' = [prefix EXCEPT ![s] = exclude.open]
        /\ Goto(s, "append") /\ UNCHANGED <<exit, failures>>
     \/ Fails /\ Exit(s, 1) /\ UNCHANGED prefix
  /\ UNCHANGED <<disk, bin, next, targets, todo, told, writer, edits>>

\* ExcludeLocal's append, to whatever the file has become.
AppendLine(s) ==
  /\ pc[s] = "append"
  /\ \/ exclude' = Written(exclude, prefix[s], TRUE) /\ Finish(s) /\ UNCHANGED failures
     \/ /\ exclude' \in {exclude} \cup {Written(exclude, prefix[s], w) : w \in BOOLEAN}
        /\ Fails /\ Exit(s, 1)
  /\ stale' = stale \cup {t \in Syncs \ {s} : pc[t] = "append"}
  /\ UNCHANGED <<file, tree, mine, todo, told, writer, edits>>

-----------------------------------------------------------------------------
\* The user, or a harness, writes the whole of a file.
Edit ==
  /\ edits < MaxEdits /\ edits' = edits + 1
  /\ \/ \E change \in Edits :
          /\ file[change[1]] # change[2]
          /\ file' = [file EXCEPT ![change[1]] = change[2]]
          /\ writer' = [writer EXCEPT ![change[1]] = "user"]
          /\ stale' = stale \cup LookingAt(change[1])
          /\ UNCHANGED exclude
     \/ /\ exclude' \in Excludes \ {exclude}
        /\ stale' = stale \cup {t \in Syncs : pc[t] = "append"}
        /\ UNCHANGED <<file, writer>>
  /\ UNCHANGED <<tree, pc, mine, todo, told, exit, failures>>

\* A sync dies between two calls.
Kill(s) ==
  /\ pc[s] \notin {"begin", "done", "panicked", "killed"} /\ Fails /\ Goto(s, "killed")
  /\ UNCHANGED <<disk, mine, todo, told, exit, ghosts, edits>>

Step(s) ==
  \/ Begin(s) \/ ReadSettings(s) \/ LookModule(s) \/ ReadModule(s) \/ Prepare(s)
  \/ Rename(s) \/ ReadExclude(s) \/ AppendLine(s) \/ Kill(s)

Next == (\E s \in Syncs : Step(s)) \/ Edit

Spec == Init /\ [][Next]_vars

-----------------------------------------------------------------------------
\* What belongs to others in a file: every other key, every hook that is not an entry
\* of handrail's, under its matcher and in its order, every value that is no group, and
\* every group with no hook in it.
Strangers(f) ==
  IF f.kind # "settings" THEN f
  ELSE [rest |-> f.rest,
        hooks |-> [e \in Events |->
          LET pairs == Pairs(f.hooks[e]) IN Kept(pairs, {p \in Range(pairs) : ~Ours(p.hook, e)})],
        odd |-> [e \in Events |-> Kept(f.hooks[e], {Odd})],
        hollow |-> [e \in Events |-> {g \in Range(f.hooks[e]) : g # Odd /\ g.hooks = <<>>}]]

\* What a write leaves of it.  Two things go, though the comment over Install says that
\* every other key is left exactly as it was: a group with no hook in it, which prune takes
\* for one it emptied, and the digits of a number that a float64 does not hold.
Survives(others) ==
  [rest |-> Rounded[others.rest], hooks |-> others.hooks, odd |-> others.odd,
   hollow |-> [e \in Events |-> {}]]

\* omp's module was read through a link that took its place after the lstat.
ThroughALink(s, h) == h = "omp" /\ pc[s] = "read" /\ file[h] = Irregular /\ s \in stale

\* Sync is done with a target only when the target has exactly one entry per event,
\* it invokes this binary, and doctor finds nothing to say of it: stacked, moved and
\* narrowed entries of earlier syncs are gone, whatever the user made of the file.  One
\* case is set apart: ompModule, which says it never follows a link, follows one put there
\* after its lstat, and where that leads to the bytes sync would write the target is
\* reported current that doctor calls a conflict.
SyncedIsCurrent ==
  [][\A s \in Syncs, h \in Harness :
       told[s][h] = "nothing" /\ told'[s][h] \in {"wrote", "current"} =>
         \/ told'[s][h] = "current" /\ ThroughALink(s, h)
         \/ /\ DoctorClear(h, file'[h], bin[s])
            /\ h # "omp" => \A e \in Events : Len(OurPairs(file'[h], e)) = 1]_vars

\* handrail is a guest: with nobody else writing between its read and its rename, sync
\* keeps all that Survives of what others have in the file, and who may read it, and it
\* never replaces a module that is not its own, one put there after the lstat included.
\* Of what others write after the read it promises nothing: the rename undoes it.
GuestInTheFile ==
  [][\A s \in Syncs \ stale, h \in Harness :
       told[s][h] = "nothing" /\ told'[s][h] = "wrote" =>
         \/ file[h] = Missing /\ file'[h].mode = "private"
         \/ /\ file[h].kind \in {"settings", "module"} /\ file'[h].mode = file[h].mode
            /\ h # "omp" => Strangers(file'[h]) = Survives(Strangers(file[h]))]_vars

\* A sync leaves alone the file an earlier one of the same binary wrote, byte for byte:
\* a harness that trusts hooks by their hash asks its user once.
SettledIsLeftAlone ==
  [][\A s \in Syncs \ stale, h \in Harness :
       told[s][h] = "nothing" /\ told'[s][h] = "wrote" => writer[h] # bin[s]]_vars

\* Sync answers for every target: each is tried whatever became of the ones before, and
\* exit code 0 means that all of them are synced.
EveryTargetTried ==
  \A s \in Syncs : pc[s] = "done" =>
    \A h \in targets[s] :
      told[s][h] # "nothing" /\ (exit[s] = 0 => told[s][h] \in {"wrote", "current"})

\* installHooks: "One harness's broken config must not leave the others unsynced".
OthersStillSynced ==
  \A s \in Syncs : pc[s] \in {"done", "panicked"} =>
    \A h \in targets[s] : file[h] # Null => told[s][h] # "nothing"

\* A sync that reports success in a working tree leaves handrail's line in the exclude
\* file alone on a line, and every line of the user's as it was, if nobody wrote to the
\* file between its look and its append.
ExcludedAlone ==
  [][\A s \in Syncs \ stale :
       exit[s] = 2 /\ exit'[s] = 0 /\ tree = "tree" =>
         "ours" \in Range(exclude'.lines) /\ IsPrefix(exclude.lines, exclude'.lines)]_vars
=============================================================================
