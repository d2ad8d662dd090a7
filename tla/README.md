# A TLA+ model of handrail

handrail keeps rules for coding agents. `handrail sync` writes one hook entry per
event into the settings of each harness (Claude Code, Codex CLI, oh-my-pi); the
harness then runs `handrail hook <harness> <event>` at every tool call, prompt and
stop. That process reads the event, loads three tiers of rule files, evaluates
them, appends to a Decision log when it may, and answers in the harness's
protocol. Everything is a short-lived process; what they share is files. The hard
part is therefore not inside one process but between them: hooks of several
agents at once, commands in other terminals, git and editors moving the files,
and a harness that reads the answer its own way.

This directory holds TLA+ modules of that core, TLC configurations that check
them on small instances, and proofs checked by TLAPS.
`tlc -config X.cfg M` runs one of the runs below, `tlapm M.tla` checks a module's
proofs, `PROJECT.json` maps every definition to the lines it models.

## Inventory

| Part | State | Operations | Talks to | What is hard | What makes it correct |
|---|---|---|---|---|---|
| Decision log (`internal/rule/log.go`, `log.go`) | `log.jsonl`, `log.jsonl.1`, a lock file | append, rotate, read | every hook at once; `log`, `check --stats`, `doctor` read | rotation race, descriptors that outlive a rename, short writes, killed holders | a full older generation, no acknowledged line lost but by age, appends end |
| State registry (`internal/rule/state.go`, `trust.go`, `log.go`) | three append-only files | `mode`, `trust`, `log on/off`; `StateOf`, `isTrusted`, `Logging` | hook and load read it | writers with no lock, torn lines, newlines in paths | behaves as atomic switches; last setting per scope holds |
| Tiers and Shadowing (`internal/rule/load.go`) | none of its own: the ruleset of one process | `Load` | registry, git index, disk | the disk changes between walks, files that do not parse, who supplies `.handrail/local/` | Precedence; the repository is gated and add-only; nothing lost silently |
| Engine (`internal/rule/evaluate.go`) | a payload's fields | `SetField` and kin, `Yield`, `Evaluate` | Adapters write, hook and `test` evaluate | several Candidates per field, negation, derived fields | ADR 0024's definition of a match; allowlists vouch; nothing stale |
| Hook (`hook.go`, `log.go`) | the event in progress | `cmdHook`, `record`, `messages` | all of the above | every failure must fail open and be told; toggles mid-event; loops | what was ruled is what the harness does, and what the log says |
| Adapters, delivery (`internal/harness/harness.go`) | three constant matrices | `Delivery`, `Deliver`, `output` | the harness | six answer shapes, two audiences, unwritable stdout | decisions are heeded, audiences hear what they should |
| Adapters, normalization (`harness.go`, `omp.go`, `example.go`) | - | `Normalize`, `WithFields` | engine, shell reader | one call of many edits, tasks or hosts, values of another type, text with several readings | each thing a tool will do is in one payload, whole or declared unreadable, and no payload mixes two |
| omp bridge (`internal/harness/omp-extension.js`) | one child process per event | spawn, kill, read, answer | hook, omp, the user | timeouts, aborts, partial output, dialogs, broken channels | does what Harness takes omp to do; fails open, loudly; leaves no child |
| sync (`sync.go`, `internal/harness/sync.go`, `omp_install.go`) | the harness's settings file | read, prune, add, atomic rename | the user, the harness, other tools | lost updates, crashes, strangers' entries | one entry per event; others' keys kept; idempotent |
| Local exclude (`internal/rule/exclude.go`) | `info/exclude` | check and append | git | check-then-act | the pattern is there, alone on a line |
| Git index (`internal/gitindex`) | - | `Under`, `Paths` | demotion, survey | split index, bitmaps, v4 prefixes, git writing between two reads | the answer is what git tracked at some moment; errors have a cause |
| Shell reader (`internal/shell`) | the walk's findings | `Read`, `Patch` | engine | Wrappers' flags of uncertain arity, nested code, who feeds a shell its input | every command bash may run is a Candidate and every file it may open is named, or the line is unreadable |
| Rule parser, Hookify import, bypass, check/test/doctor, survey, scripts | - | parsing, reports | | text | |

The GLOSSARY's words are used as it defines them: Candidate, Spelling, Effective
ruleset, Outcome, Trial, Enforcement state, Demotion.

## The modules

`MCx` modules and `.cfg` files hold only values of constants.

**DecisionLog.** The two generations are sequences of writes; a write is one line
and how it landed: whole, torn inside its JSON, or bare, with all of the JSON and not
the newline. What lands behind a torn or a bare write is glued to it, and `readLog`
can parse neither; a bare one that is still the last is read like any other, though
nobody was told it was written. A hook process goes through
`Record` (the lines are stamped), `StatLog` (AppendLog's look without the lock),
`TakeLock`, `Recheck` and `Rename` (rotate), `Open` and one `WriteLine` per chunk
(appendFile). Its descriptor is the generation it opened, so a write after a
rename goes where the kernel would put it: to `log.jsonl.1`, or to a file that is
unlinked. `ShortWrite` is a full disk, `GiveUp` any other failing call or a kill.
A reader reads the two files in two steps.

**Registry**, **RegistryText**, **Switches.** Registry has the three files as sequences
of lines and one action per command; `trust` is two steps, as it reads before it
appends. RegistryText is what a line says: its text is the pieces of a word and of a
path, `Says` is how StateOf, isTrusted and Logging take it. A write that stops short
leaves a beginning of its line (`Starts`), and the next one goes on behind it: the two
are one line, which is read for what it says as one. Mostly that is nothing; in
`trusted`, where a line is a path, `/a` and `/b` are the grant of `/a/b`. Switches is the
promise: an atomic map from scopes to settings, in which a command sets what it asks for
in one step, or, behind a write that stopped short and said so, what the two say as one
line; and what such a write leaves may itself pass for a setting until the next command.
`KeepsPromise` is Switches' specification under the refinement mapping in `Promise`.

**Tiers.** `Load` in the order of the code: the Global walk, demotion, the trust
record, the shared walk, the local one, with `Edit` between any two. What a tier
holds under a name is one of six kinds of file; rules of different names never
meet, so one name stands for all. Shadowing is then computed from what was read
as `shadow` does it (`byName` with the unparsed Global files in it, DroppedBy,
ShadowedBy), and compared with `Winner`, which says Precedence once.

**Payload**, **Matching**, **Reading**, **Lists.** Payload holds the operators that write a payload's fields,
each the translation of one method. Matching makes them the actions of a call that
is being read, then asks a rule of it: `Choose` is the backtracking of `choose`.
Paths and urls are members of small sets; `Clean`, `Host` and `DomainOf` are constant
functions over them, standing for `path.Clean`, `grant` and `domainOf`. `ReadLine`
stands for `shell.Read`, a function of the lines; the run gives it Shell's `Read`. `rule` is
the one of the set that is asked; it is chosen first and stays. Reading goes on from
Matching: `CommandAlone` is a shell call with a command line and nothing else, `Normalize`
a whole call of a harness, and what bash may do with the line (`InBash`) is Bash's
`MayDo`. It uses recursive operators, Matching none, so that Matching's own `Spec` can be
proved about and `ReadSpec` is what the run checks. Lists has what both Matching and
Install keep of a list.

**Normalize**, **NormalizeOmp**, **Tools**, **MCCalls.** Normalize is what the Adapters of
Claude Code and Codex read from a harness's JSON, NormalizeOmp omp's native tools and
`Normalize` over the three. A JSON value is known by its type and, where it is text, a
list or an object, by what it holds. A text with lines is the sequence of them, and a
line of a patch, a diff or a hashline edit is known by what it begins with: a header,
a snapshot, a plus, a minus, an operation. One definition stands for one function;
`SectionStarts` and `PatchPayloads` are the loop of patchPayloads, `SectionRead`,
`Operation` and `Finished` those of a hashline section. Tools is the reference, none of
it handrail's: what each tool does when it is given an input, as a set of acts, each a
kind and what it says in every field, with `None` for what the tool's documentation
leaves to the tool. MCCalls builds the calls: every tool an Adapter knows, each key
absent, empty, of text or of another type, patches and hashlines of one and two
sections, batches, and the envelopes of prompts, stops and subagents, with a
`stop_hook_active` that is true, false, absent or no boolean. `CallTold` holds
the one against the other.

**Shell**, **Bash**, **MCLines.** Shell is `shell.Read`. A text is a sequence of
tokens, and a token that quotes, groups or substitutes holds a text of its own, so
that code inside a line is parsed again where the reader parses it again. `Patch` is
the apply_patch heredoc that Codex takes for itself. `Walk` is
`read` and `feed`, `Command` and `Level` make the Candidates, `Follow` goes through
shells, `eval`, `find -exec` and Wrappers, `From`, `LongFlag` and `Cluster` read a
Wrapper's flags with the forks of an uncertain arity, `Program` and `Readings` the
files a listed program names. The tables of Wrappers and programs are constants:
MCLines holds rows of them with every kind of flag and property a row can have.
Bash is the reference, none of it handrail's: what a line runs and opens, with each
flag of uncertain arity taken one way (an implementation) and the input of a shell
followed through pipes, groups, redirects of any descriptor, Wrappers and the code
that one shell hands to another. What only such nested code reads of the input is marked
`handed`. MCLines also builds the lines:
nine commands, each behind every prefix and inside every construct, one of them inside
two, and the file programs with the flags of their rows in every place.

**Harness**, **Hook.** Harness has the three matrices row by row, degradation, the
texts for the two audiences (a text is the sections it holds) and the answer's
channels, and, marked external, what a harness does with an answer, taken from
docs/spec.md:183-218 and the comments of `Deliver`. Hook composes it with the
event: `ReadCall` may fail to read the payload or find the directory, `Load` reads
the state, `Record` may fail to write, `Respond` may fail to reach stdout,
`FireAgain` is the harness coming back with `stop_hook_active`, `Toggle` is the
user in another terminal. A rule is its action, `trial`, `agent_only`, whether a
project tier holds it, and what it reaches; `ValidOn` is what the parser lets
through. A line of the log has a length: `Sizes` are the lengths its parts may have,
`LineMax` stands for logLineMax, and `EncodeLine` is the first of the shapes encodeLine
tries that fits. Entries of one line are of one length and in any order. Load is one step here, with Tiers for its inside; the standing notices
other than the state's are one flag, `owed`.

**OmpBridge.** One native event of an omp session through the bridge. Hook's answer is
Harness's `Deliver`, so the bridge's `response`, `passive`, `notice` and dialog are held
against what Harness says omp does with it. `Spawn` may throw before there is a child;
the child prints its JSON in two steps and exits with the code Deliver returned, with 1
if the binary cannot run, or not at all; `Timeout` is Bun's timer, `Abort` the session's
signal, `Dies` the SIGKILL arriving; `ReadBreaks` is a stream that fails, `Reap` the
wait for the child in `finally`. A text is the sections it holds, as in Harness.

**GitIndex.** One question, `Under` or `Paths`, asked a file at a time (`Locate`,
`Glob`, `ReadPlain`, `ReadIndex`, `ReadShared`) while git writes (`WriteShared`,
`WriteIndex`, `Expire`). `Locate` has the errors of Dirs and of hashLen in it: a `.git` or a
`commondir` that cannot be read or says nothing, a config that is missing or cannot be
read beside an index. A file holds what git would put there: entries as suffixes
with `WriteVarint`'s cuts in version 4, the deleted positions as an EWAH bitmap in any
of the forms git may choose. The readers `varint`, `ewah`, `HashLen` and `Under` are
recursive functions over those bytes. A byte is one of a few letters in the order of
the code's, with a dot, a slash and upper case among them.

**Install.** `cmdSync` by several processes at once: `Begin` finds the targets, of which
`Turn` is the first in the adapters' order that is left,
`ReadSettings` is Install up to the comparison (prune, append, marshal), `LookModule`
and `ReadModule` are omp's lstat and read, `Prepare` and `Rename` are `write`,
`ReadExclude` and `AppendLine` are ExcludeLocal. `GiveUp` is the error that
installHooks reports before it carries on, `Edit` the user or the harness writing a
whole file, `Kill` a sync that dies between two calls. A settings file is what its
JSON means: per event the groups of hooks, `rest` for every other key, whether the
bytes are MarshalIndent's, and the mode; an omp module is handrail's (current or
not), foreign, or not a regular file. `Rounded` is what `rest` is once its numbers have
been through a float64, and a value of an event that is no list is a group with no
hooks, which prune drops as well. `ReadModule` reads what is there by then: a module of
somebody else is an error, a link is followed. `Narrowed`, `Async`, `Current` and
`DoctorClear` are what doctor makes of the result. Two variables are not the code's:
`writer` says who wrote a file last, `stale` which syncs have seen a content that is
gone since they read it; the properties need them and no action reads them.

## The runs

| Run | Expect | What it shows | Bounds |
|---|---|---|---|
| `decision_log` | pass | Retention, LeavesByAge, ReadOnce, AckedIsKept, EventTogether, and AppendEnds under fairness | two hooks, one reader, a log full above one line, three events of up to two lines, torn writes |
| `log_read` | violation | `readLog` can miss a generation that was on disk all along | one hook, one reader |
| `registry` | pass | the files implement Switches and are read back as promised | a root, one whose path is the first's written twice, one with a newline in its path, two terminals, one of them in a session; two writes |
| `registry_ack` | violation | an acknowledged `mode` can be lost behind a torn line | one root, one terminal |
| `tiers` | pass | Precedence, one rule replaced at most, the repository gated, nothing lost silently | every content of three tiers under one name, every supply, one change during the load |
| `hook` | pass | the nine properties of an event (below) | every row of every harness, every Enforcement state, sets of up to two rules, lines that fit and lines cut in every way two entries allow, one toggle |
| `hook_agent_only` | violation | on Codex a denial shows the user the text of an `agent_only` rule | same, no toggle |
| `matching` | pass | the matcher is ADR 0024's, allowlists vouch for every command bash may run and file rules see every file it may open, each thing a harness's call does is told by a payload of its own, derived fields follow, saying more never hides | every payload of two writes over two or three values per field, six rules of one and two conditions; some 1,700 command lines alone, re-parsed two deep (`maxDepth` is 4), four readings of a program's flags (`maxReadings` is 64); some 1,850 calls of the three harnesses |
| `omp_bridge` | pass | the bridge is the omp that Harness takes for granted, fails open loudly, ends every call and leaves no child | every native event, five sessions, five sets of rules, an abort |
| `git_index` | pass | the answer is what git tracked at some moment of the question; errors have a cause | two names for shared indexes, two writes by git, words of two bits for 64, varint digits in base two for 128 |
| `install` | pass | what is synced is current, a guest's manners, a settled file left alone, every target tried, the exclude line alone | two syncs of one or two binaries, two harnesses, 43 machines with a file of every kind, one edit, one failure or kill |
| `install_null` | violation | a settings file that is `null` ends the sync for every harness | one sync |

Why the bounds are enough. Three events with two hooks give a log that fills, both hooks
seeing it full, a rotation by each, and a descriptor left two generations behind; a limit of
one line is the smallest at which a generation can be not full. Two registry writes are one
that tears and one that is joined to it, and the path written twice makes them a grant of
their own; three, in `registry_ack`, put a setting before them, and any number is the
theorem's. One edit during a load already separates every pair of walks. Two rules are
enough for one to hide another in an outcome or a text, two stops for a loop. Two writes
into a payload give each field two Candidates or an overwritten one. A call with two
sections, entries, tasks or hosts is the fewest in which one can take what is the other's,
or hide it. Two syncs are one that wrote and one that finds it, or two that read the same
file; the files hold handrail's entries alone, stacked, narrowed, among the user's hooks,
under another event, in a group with no hooks and in a value that is no list. Two re-parses
are the fewest at which code can be nested in nested code and the next one be too deep; four
readings are two flags of uncertain arity, and a third is one too many. Words of two bits
and digits of base two make every index of three paths span words, runs and continuation
bytes; two writes by git are a shared index and the index that links to it, or a replaced
link. `CHECK_DEADLOCK FALSE` stands where the system stops of itself: a load that is done,
an event answered, an exhausted bound of writes.

The properties of the hook, in the code's terms: the harness does what the rules
say and nothing else (`HarnessDoesAsRuled`); the log agrees with what the harness
was told, cut no more than it must be (`LogTellsTheEvent`), and holds only trials without a grant
(`UngrantedKeepsPrivate`); failures are told to whoever can hear and never decide
(`FailuresAreToldNotEnforced`); off is silent but for its notice
(`OffIsOffAndSaysSo`); a trial is heard by nobody (`TrialIsInaudible`); whoever is
interrupted reads why (`InterruptionIsExplained`); nothing reaches an agent at a
stop but a block (`StopsStaySilent`); and a continued agent is let go
(`ContinuesOnce`).

`PrecedenceHolds` and its kin hold of what the load read. `RepositoryGated` asks that
who supplies `.handrail/local/` stayed the same from demotion to the last walk
(`steady`); the window is real, and a checkout in it is read under the old answer. The
properties of an event whose command is typed meanwhile ask of that command alone
(`changed`): `OffIsOffAndSaysSo` of one that changes the user's own state, the two about
the log of one that gives or takes the grant; whatever else is typed or broken meanwhile,
they hold.

Every property of a passing run has a mutant: a changed form of one mapped
definition, beside it in its module and named after it, under which TLC finds the
property violated.

### Fairness

`AppendEnds` and `CallEnds` need it. For the log, weak fairness of a hook's next step says a running
process is scheduled. Strong fairness of `TakeLock` says a waiter in flock gets a
lock that keeps coming free, which the kernel's queue of waiters gives. Nothing
is assumed of recording, failing or being killed, and the lock is freed by death
because flock's lock goes with its descriptor.

For the bridge: omp runs a handler that can go on, Bun's timer fires, and a SIGKILL
takes effect. Nothing is assumed of the hook, which may never print or exit, of the
session's signal or of the user, so the property ends with a dialog that may stay open.

### Divergences found

* `log_read`: src/log.go:301-303 against the two unlocked reads at src/log.go:308.
* `registry_ack`: src/internal/rule/state.go:195-196 against appendFile's loop,
  which neither ends a torn line nor starts a fresh one.
* `hook_agent_only`: docs/spec.md:129 against the denial's reason on Codex, which
  docs/spec.md:189 says is displayed.
* `install_null`: src/sync.go:128-129 against the nil map that
  src/internal/harness/sync.go:166 gives Install for a file holding `null`.

Five properties hold with a case set apart, which is named beside the property:

* `AnswersAsTracked` leaves out `FirstSplit`. `Under` looks for `sharedindex.*` before
  it opens the index (gitindex.go:104); if git writes its first shared index and the
  index that links to it between the two, `Under` reads that index as a plain one and
  answers that nothing is tracked. The paths were tracked before and after.
* `AllowlistVouches` and `FilesVouched` leave out what `NotHandedOn` does: what a shell
  reads of input that was handed on to it. `curl x | sh -c sh` runs what the pipe brings,
  and so do the forms with `env -S`, `eval` and `watch` for the first shell, and a
  substitution in a simple command that is piped into. The reader starts a re-parse with
  nothing fed (shell.go:201-209, wrap.go:666-675) and declares none of them; docs/spec.md:118
  says without a reservation that stdin piped into a listed shell is declared.
* `SyncedIsCurrent` leaves out `ThroughALink`. ompModule's comment (omp_install.go:151-158)
  says that it never follows a target that is a symlink, for its lstat comes first; one
  put there after the lstat is followed by the read (omp_install.go:171), and where the
  bytes behind it are those sync would write, the target is reported current that doctor
  calls a conflict.
* `GuestInTheFile` asks for what `Survives`. The comment over Install (sync.go:78-81)
  says that every other key is left exactly as it was: a group that the user left with no
  hooks in it goes (sync.go:307-311), and a number loses the digits a float64 does not hold
  (sync.go:120,166). It asks nothing of a sync during which somebody else wrote the file
  (`stale`): the code takes no lock, and what they wrote is lost.
* `CallTold` asks about inputs that hold the tool's own keys. The Adapters read the
  common fields by key presence on any tool, so a key the tool ignores is told as well,
  by design (the comment in `payloads`), and Tools would call that too much. A tool input
  it cannot read at all is one payload that declares its path and its content
  (docs/spec.md:223), which Tools takes as told.

## Proofs

Eight modules hold theorems; each EXTENDS the modules it is about. HookProofs and
OmpBridgeProofs share the lemmas of HarnessProofs. They assume what the constants'
ASSUMEs say and nothing about how many processes, names, rules, roots or events there
are: limits and bounds are numbers and the lengths of a line's parts too; a rule is one
of the shapes of `Rules`; `None` is none of the values it stands beside; a root's path
begins with roots; `BeforeLocal` is a set of names; adapters are a sequence; a line of
the exclude file is one of `ExcludeLines`; the directory asked about is in lowercase, as
`.handrail/local` is; a tree's config, where it can be read, names the object format its
index was written with, as git reads that config; a number that was rounded stays as it
is. TLC evaluates every one of them.

**DecisionLogProofs**, about the log for any set of hooks and readers.

* `TypeCorrect`: `TypeOK` is inductive. `AppendToFacts` says what a chunk of an
  append does to the two generations, `LinesAreLines` that what a reader parses was
  written by a hook.
* `RetentionHolds`: once the log has rotated, `log.jsonl.1` holds a full generation.
  `Retention` is not inductive: a rename must find the log full, and the look that
  found it so was an earlier step. The strengthening adds `LockHeld` (a hook between
  its second look and its rename holds the lock) and `StillFull` (what a hook is
  about to rename is full): the lock keeps every other rename out, and appends, which
  take no lock, only lengthen the file. Without the second look under the lock
  `StillFull` fails, which is the mutant of this property.
* `EventTogetherHolds`, `ReadOnceHolds`: `EventInv`. A hook's lines are stamped before
  it opens the log and all go through the one descriptor it then has, so an event that is
  on record is in one file, and no other hook has a line of it (`OwnEvents`, `OneFile`).
  A reader that has read one generation holds lines the other does not (`ReadApart`):
  a rename moves a whole file, so a line never moves behind a reader's back alone.
* `AckedIsKeptHolds`: `AckInv` follows the generation a line was acknowledged in through
  its two places, by counting renames.
* `LeavesByAgeHolds`: an action property, from `RotateInv`: of the steps a rename takes a
  line away, and what it then keeps is full; and so does a write behind a bare line, which
  takes that line alone, of which nobody was told that it was written.

**RegistryProofs**, about the state registry for any roots, newlines, terminals, and
writes whole or short.

* `KeepsPromiseHolds`: Registry implements Switches. A command's text reads back as what
  the command asked for, whatever is in its path (`SaysWhatWasAsked`). What a record
  promises is then a function of its lines: what the ended ones set (`SetTo`), and what a
  write that stopped short left behind them (`Left`). Only the last line can be without
  its newline (`LinesOK`), so one more write is joined to that one or stands alone
  (`OneMore`), and sets what the two say together (`WriteSets`); every action is a step of
  Switches or none (`PutMaps`, `ModeMaps`, `LoggingMaps`, `TrustMaps`, `AskMaps`). The
  invariant it rests on is types (`RegTypeCorrect`). `trust`'s two steps need no more,
  since what it read decides nothing about the line it appends.
* `ReadsAsPromisedHolds`: `ReadsBack` says that what a reader makes of a file is what its
  ended lines set, under what is left behind them, so StateOf, isTrusted and Logging read
  what Switches shows.

**LoadProofs**, first about the load for any names, any contents of the tiers and any
changes to the disk while it runs.

* `LoadTypeCorrect`: `TypeOK` is inductive.
* `Precedence`: `PrecedenceHolds`. Shadowing is a function of what was read, so types
  are all it needs. `RulesNamed` finds at most one rule per tier under a name,
  `ByNameIs` says which of them byName ends up holding, and `PersonalWins`,
  `GlobalWins` and `SharedWins` are the three cases of `Winner`.
* `OneReplaced`: `ReplacesOne`, from `ShadowedIs`: a shared rule that could be
  shadowed beside a Global one was dropped first.
* `Gated`: `RepositoryGated`. It needs the order of the load as well (`Ordered`): a
  trusted root stays granted, the last walk is the local one, and with no change
  since, demotion's answer is still true then. So a personal rule of a tier the
  repository supplies cannot exist (`SuppliedIsDemoted`).
* `NothingLost`: `NothingLostSilently`, from `SharedFilesAreRules` and
  `OwnFilesAreRules`, which say for each kind of file what `gather` and `unique` make of it.

Then about the git index that demotion asks, for any directory, any sets of paths, any
split of them, words of any length, varint digits in any base, and any number of writes
by git while it is read.

* `AnswersAsTrackedHolds`, `ErrsForCauseHolds`: `IndexInv`. What is on disk is what git
  writes (`OnDisk`): shared indexes whole, and an index whose link is to one that is
  there. What a question has read so far was so at a moment since it was asked (`Linked`):
  the paths found beside a link are those tracked that are not in the shared index it names,
  and the positions it deletes are of the paths there that are not tracked. git's steps
  keep it because the name of a shared index is never given to another; the question's
  because a file tells what it was written for (`WholeRead`, `SplitFacts`, `SharedRead`).
  The length of an object's name is the one git wrote with (`HashRead`).
* That rests on each encoding being read back as written: the order of bytes is total, so
  a set of paths has one order in a file (`SortedFacts`); `VarintWritten`, `NamesRead`
  (the entries of version 4) and `BitmapRead` (runs and literals, the last word cut at
  the bitmap's length).
* And on the early stop: a path that is not of the directory and comes before one that is,
  in whatever letter case, comes before the place the scan stops at (`EarlyStop`);
  `UnderCovers` says that `under`'s two prefix tests, with the slash trimmed or added,
  are the paths at, above and below the directory.

**HarnessProofs, HookProofs**, about one event for any rules the parser
lets through, on every row of every harness.

* HarnessProofs is about the answer alone: what degradation can make of a rule
  (`DegradeFacts`, `OutcomeFacts`), which fields an answer of each shape has
  (`DeliverCases`, `OutputFields`), what the harness decides on them (`Verdicts`) and who
  hears which text (`Hearing`).
* `HookInv` says at each place in the pipeline what has been made of what: types and what
  `ValidOn` lets through, that a continuation is of a stop, how far the event is (`Placed`),
  that the state the load found is still in force while nobody sets another (`StillSo`), that the
  lines are those owed or none (`Recorded`), and that the answer is made of the matches or
  is the notice of the state off (`Worded`). The properties alone are not inductive: the
  answer is made after the load and compared with it. `HarnessDoesAsRuledHolds`,
  `FailuresAreToldNotEnforcedHolds`, `OffIsOffAndSaysSoHolds`, `TrialIsInaudibleHolds`,
  `InterruptionIsExplainedHolds`, `StopsStaySilentHolds` and `ContinuesOnceHolds` are
  then `Worded` read through `Verdicts` and `Hearing`.
* `UngrantedKeepsPrivateHolds`, `LogTellsTheEventHolds`: `Recorded`, with what encodeLine
  makes of an owed line. `CutFacts` and `EncodeFacts` are about the first of the shapes
  that fits, by the least index and by a line's length falling with each entry dropped;
  `LinesAddUp` puts the outcomes of the lines together into the event's.

**OmpBridgeProofs**, about one call through omp's handler, for any session, rules and end
of the child.

* `ChildGoneHolds`, `FailsOpenLoudlyHolds`, `TranslatesTheAnswerHolds`: `BridgeInv` says
  at each place of the handler which ends the child can have come to (`Children`), that
  until it answers nobody was told (`Untold`), why a call went through failedOpen
  (`FailedWhy`), and what was returned of one that did and of one that did not
  (`FailedLoud`, `Translated`), by `Verdicts` and `Hearing` for omp.

**MatchingProofs**, about payloads that are written a field at a time and asked a rule,
for any values, rules, paths, grants, urls and command lines, and any number of writes.

* `Invariant`: `IInv`. A payload's domains are those of its urls, and a url with no domain
  to be read is declared unless the declaration was overwritten since (`UrlsAccounted`,
  over `SetURLAccounts` and the like for each writer). `TypeOk`, `DomainsAccountedHolds`
  and `NothingStaleHolds` follow.
* `MatchIsAChoiceHolds`: `choose`'s backtracking finds a choice when and only when there
  is one (`ChooseIs`). It goes by the number of fields that are still free: `ChooseSolved`
  exhibits the recursion's solution, `ChooseStep` and `FillableStep` say the same of one
  more field on both sides.
* `MoreNeverHidesHolds`, an action property: a write that only adds leaves every choice
  there was (`GrownExtends`, `ChooseMonotone`).

The theorems are about Matching's `Spec`. The run's `ReadSpec` has `CommandAlone` and
`Normalize` in it as well, whose readers are recursive operators: of these the same
properties are model-checked.

**InstallProofs**, about sync for any adapters, files, users' edits, failures and any
number of syncs at once. They assume that an adapter's file holds what a settings file
can (`FilesAssumption`), and that the user is not a binary
(`BinsAssumption`).

* `EveryTargetTriedHolds`: `SyncInv`. A target of which nothing was said is left to do,
  and a sync leaves the targets only when none is left (`Accounted`, `TurnsOK`).
* `ExcludedAloneHolds`, an action property: a sync that nobody came before still has the
  right idea of the last line (`LooksRight`), so what it appends is a line of its own
  (`WrittenAlone`); and exit code 0 is given in two places only (`WhoExits`).
* `SyncedIsCurrentHolds`, `GuestInTheFileHolds`, `SettledIsLeftAloneHolds`: action
  properties, from `FileInv`: what a sync wrote last is settled for its binary, and
  between a read and a rename it carries something settled which, if nobody came before
  it, replaces a file that needs it and has in it what survives of that file's strangers. `Settled` says that
  nothing is left in a file for that binary to do, and `MergedFacts` is the heart: what prune,
  append and marshal make of any file is settled, has in it what `Survives` of the user's,
  and is the file itself where it was settled. `KeptFacts`, `JoinedPairs`, `BarePairs`,
  `PrunedStay` and `PruneFacts` are the lemmas about lists it rests on.

Induction over a list's length is done with sets: the least length of a counterexample
(`EveryNatural`, `EveryList`), after a solution of the recursive function has been shown
to exist (`RecursionSolved`, `KeptSolved`), since nothing is known of it before.

Only model-checked, and why:

* `AppendEnds` and `CallEnds`: liveness under fairness.
* `AllowlistVouches`, `FilesVouched`, `CallTold`: the walks of Shell, Normalize and Tools
  are RECURSIVE operators, which the prover does not accept.
* The divergences, which are counterexamples.

## Not modelled, and why

Text: YAML, globs and regular expressions, wording of notices. Of the engine: the list of
files under a message (addFiles). Of normalization: how a line is told from another
(trimming, quotes, byte order marks, CRLF, a row that begins like a diff's file header), and
a "Move to:" before any header. Of the Shell reader: the exclusion pathspecs of `git diff`,
abbreviated long flags, escapes and source offsets, declarations other than `export`, and
bash's parser, which is a library's. Of the git index: the fixed fields of an entry and
their padding, and a file cut short in the middle. Reports (`check`, `test`, `doctor`,
`survey`, `log`'s printing) change no state. Of Install: where a harness keeps its files
(variables and profiles), settings that are a symlink, which the rename replaces, and a
value under `hooks` that is no object, which the code replaces; of doctor, whether an
entry's binary can be run, and its checks of what is not sync's.

## Plan

Done, in this order: DecisionLog (the only shared mutable file with a lock), its
proofs, Registry over Switches, Tiers, its proofs, Harness and Hook, Payload and
Matching, Install; then OmpBridge over Harness, GitIndex, Shell with Bash under
Matching, Normalize and NormalizeOmp with Tools beside them, and encodeLine in Hook; then
the proofs about Hook, its log, the bridge, the registry, sync, matching and the git
index.

1. **Session**: Hook over Tiers' and Registry's state, instead of flags.
2. Pure algorithms: the layers of Bypass, the skip rules of the Hookify import, and
   addFiles.
3. Install: an atomic `sync` that it implements where nobody writes in between.
