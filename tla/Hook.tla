-------------------------------- MODULE Hook --------------------------------
(***************************************************************************)
(* One event of a session through cmdHook (hook.go), the engine's          *)
(* evaluation (internal/rule/evaluate.go), record (log.go) and Deliver,    *)
(* and back to the harness, which fires a stop again when it was made to   *)
(* continue.  Meanwhile the user runs mode and log in another terminal and *)
(* edits rule files.                                                       *)
(*                                                                         *)
(* A rule is what the pipeline asks of it: its action, trial, agentOnly,   *)
(* whether a project tier holds it, and which payloads it reaches: the     *)
(* call's own, a file's the call names, or any that is unreadable.         *)
(***************************************************************************)
EXTENDS Harness, SequencesExt

CONSTANTS Rulesets,      \* the sets of enabled rules a load may find
          MachineStates, \* the machine-wide enforcement states
          LineMax,       \* logLineMax
          Sizes,         \* the lengths a line's parts may have
          MaxToggles,    \* bound: the user's commands and edits in a behaviour
          None

States == {"enforce", "trial", "off"}
ASSUME RulesetsAssumption == \A S \in Rulesets : S \subseteq Rules
ASSUME MachineAssumption == MachineStates \subseteq States
ASSUME SizesAssumption == Sizes \subseteq [rest : Nat, payload : Nat, entry : Nat, mark : Nat]
ASSUME TogglesAssumption == MaxToggles \in Nat
ASSUME LineMaxAssumption == LineMax \in Nat

VARIABLES
  harness, event,   \* which hook it is
  rules,            \* the enabled rules for the event
  own, machine,     \* the Enforcement states on record: the project's and the machine's
  grant,            \* the project's Decision log grant
  broken,           \* a rule file that counts does not parse
  owed,             \* the load owes a standing notice of another kind than the state's
  toggles,          \* commands and edits so far
  at,               \* how far the event is
  active,           \* the harness's stop_hook_active
  about,            \* is the event about something a rule can see?
  faults,           \* what handrail could not read
  seen,             \* the Enforcement state and the broken file the load found
  lines,            \* the lines the event left in the Decision log
  unlogged,         \* lines were owed and could not be written
  wire,             \* the answer
  lost,             \* the answer's JSON did not reach stdout
  changed           \* what the user changed since the event began: "own", "grant"

turn == <<harness, event>>
env == <<rules, own, machine, grant, broken, owed, toggles>>
vars == <<turn, env, at, active, about, faults, seen, lines, unlogged, wire, lost, changed>>

Unseen == [state |-> None, broken |-> FALSE]

Init ==
  /\ harness \in Harnesses /\ event \in Rows(harness)
  /\ rules \in {S \in Rulesets : \A r \in S : ValidOn(r, event)}
  /\ own \in States \cup {None} /\ machine \in MachineStates
  /\ grant \in BOOLEAN /\ broken \in BOOLEAN
  /\ owed \in (IF event = "SessionStart" THEN BOOLEAN ELSE {FALSE})
  /\ about \in (IF event \in {"SubagentStart", "SubagentStop"} THEN BOOLEAN ELSE {TRUE})
  /\ at = "fired" /\ active = FALSE /\ toggles = 0 /\ changed = {}
  /\ faults = {} /\ seen = Unseen /\ lines = {} /\ unlogged = FALSE
  /\ wire = NoAnswer /\ lost = FALSE

-----------------------------------------------------------------------------
\* The event's payloads, as readCall, SetField and Yield leave them: a call, the file
\* it names on a tool event, or the kind-less one of a call that was not read.  Only
\* the payloads passed in are marked with handrail's own failures; all are with the
\* loss of rules, a tier with no directory being one.

NotRead == "payload" \in faults
CallKind == IF NotRead THEN "none" ELSE "call"
Marks == IF seen.broken \/ "cwd" \in faults THEN {"rules"} ELSE {}
Payloads ==
  (IF NotRead \/ about
     THEN <<[kind |-> CallKind,
             unreadable |-> Marks \cup IF faults = {} THEN {} ELSE {"payload"}]>>
     ELSE <<>>)
  \o (IF event \in ToolEvents /\ ~NotRead THEN <<[kind |-> "file", unreadable |-> Marks]>> ELSE <<>>)

\* Mutant: an unreadable stop is read as a first one.
Continued_AsFired == IF NotRead THEN FALSE ELSE active

\* unreadableCall reads a stop it could not read as a continuation.
Continued == IF NotRead THEN event \in StopEvents ELSE active

Matches(r, p) ==
  IF r.reach = "unreadable" THEN p.unreadable # {} ELSE p.kind = r.reach

\* matchAll: the payloads a rule matches.
On(r) == {i \in DOMAIN Payloads : Matches(r, Payloads[i])}

\* The rules Evaluate asks: no project's without a directory, no block on a continuation.
Tried == {r \in rules : (r.project => "cwd" \notin faults) /\ (Continued => r.action # "block")}

\* Evaluate: the rules the load found that match a payload.
Matched ==
  {[rule |-> r, on |-> On(r), trial |-> r.trial \/ seen.state = "trial"] :
     r \in {q \in Tried : On(q) # {}}}

\* loadNotices, and the failures collected before and after it.
Failures ==
  faults \cup (IF seen.broken THEN {"broken"} ELSE {})
  \cup (IF unlogged THEN {"log"} ELSE {})

-----------------------------------------------------------------------------
\* readCall and eventDir: a payload that is not there or not JSON, a directory that is
\* not there.
ReadCall ==
  /\ at = "fired" /\ at' = "read"
  /\ faults' \in SUBSET {"payload", "cwd"}
  /\ UNCHANGED <<turn, env, active, about, seen, lines, unlogged, wire, lost, changed>>

\* StateOf: with no directory the root is "", and only the machine-wide state holds.
StateOf == IF own # None /\ "cwd" \notin faults THEN own ELSE machine

\* Load, in one step here (Tiers has its own).  Off ends the event: nothing is
\* evaluated.
Load ==
  /\ at = "read" /\ at' = IF StateOf = "off" THEN "off" ELSE "loaded"
  /\ seen' = [state |-> StateOf, broken |-> broken]
  /\ UNCHANGED <<turn, env, active, about, faults, lines, unlogged, wire, lost, changed>>

\* Logging: the grant is the project's, so there is none without a directory.
Granted == grant /\ "cwd" \notin faults

\* record's line for payload i: the outcome its matches deliver, and the matches it
\* names, which without a grant are the trial ones alone.
Line(i, granted, size) ==
  LET here == {m \in Matched : i \in m.on} IN
  [of |-> i, outcome |-> Outcome(harness, event, here), payload |-> TRUE, size |-> size,
   hits |-> SetToSeq(IF granted THEN here ELSE here \ Delivering(here)), truncated |-> FALSE]

Length(l) ==
  l.size.rest + (IF l.payload THEN l.size.payload ELSE 0) + Len(l.hits) * l.size.entry
  + (IF l.truncated THEN l.size.mark ELSE 0)

\* The shapes encodeLine tries: the line as it is, without its payload, and without
\* the last of its matches, one by one.
Cuts(l) ==
  <<l>> \o [n \in 1..Len(l.hits) + 1 |->
             [l EXCEPT !.payload = FALSE, !.truncated = TRUE, !.hits = SubSeq(l.hits, 1, Len(l.hits) + 1 - n)]]

\* Mutant: a line of logLineMax bytes, with its newline one more, is let through.
EncodeLine_OffByOne(l) ==
  LET n == Len(Cuts(l))
      fits == {i \in 1..n : Length(Cuts(l)[i]) <= LineMax \/ i = n} IN
  Cuts(l)[CHOOSE i \in fits : \A j \in fits : i <= j]

\* encodeLine: the first shape that leaves room for the newline; the last one goes out
\* though it is too long.
EncodeLine(l) ==
  LET n == Len(Cuts(l))
      fits == {i \in 1..n : Length(Cuts(l)[i]) < LineMax \/ i = n} IN
  Cuts(l)[CHOOSE i \in fits : \A j \in fits : i <= j]

\* Mutant: a payload with its own fields read earns no line for the rules that were not.
Owed_NotForRules(granted, size) ==
  LET earned == {l \in {Line(i, granted, size) : i \in DOMAIN Payloads} :
                   l.hits # <<>> \/ (granted /\ "payload" \in Payloads[l.of].unreadable)} IN
  {EncodeLine(l) : l \in earned}

\* The lines the event owes the log: a payload with a match or an unreadable field,
\* and without a grant only one with a trial match.
Owed(granted, size) ==
  LET earned == {l \in {Line(i, granted, size) : i \in DOMAIN Payloads} :
                   l.hits # <<>> \/ (granted /\ Payloads[l.of].unreadable # {})} IN
  {EncodeLine(l) : l \in earned}

\* Mutant: a trial match does not stand in for the grant's absence, everything does.
Record_Always ==
  /\ at = "loaded" /\ at' = "recorded"
  /\ \E size \in Sizes : lines' = Owed(TRUE, size) /\ unlogged' = FALSE
  /\ UNCHANGED <<turn, env, active, about, faults, seen, wire, lost, changed>>

\* record: the grant is read only now, and only when there is a line to write; the
\* append may fail, which is a failure to report and nothing more.
Record ==
  /\ at = "loaded" /\ at' = "recorded"
  /\ \E size \in Sizes :
       \/ lines' = Owed(Granted, size) /\ unlogged' = FALSE
       \/ Owed(Granted, size) # {} /\ lines' = {} /\ unlogged' = TRUE
  /\ UNCHANGED <<turn, env, active, about, faults, seen, wire, lost, changed>>

\* standingNotices: the state's, and the others the load owes, at SessionStart only.
Standing == event = "SessionStart" /\ (seen.state # "enforce" \/ owed)

Answer(w) ==
  /\ at' = "answered" /\ wire' = w
  /\ UNCHANGED <<turn, env, active, about, faults, seen, lines, unlogged, changed>>

\* messages and Deliver.  Writing the JSON may fail.
Respond ==
  /\ at = "recorded"
  /\ \E encodes \in BOOLEAN :
       /\ lost' = ~encodes
       /\ Answer(Deliver(harness, event,
                         AgentText(harness, event, Standing, Matched, Failures),
                         HumanText(harness, event, Standing, Matched, Failures),
                         Outcome(harness, event, Matched), encodes))

\* Mutant: off answers nothing at all.
RespondOff_Mute ==
  at = "off" /\ lost' = FALSE /\ Answer(NoAnswer)

\* deliverOff: the state's notice at SessionStart, to both.
RespondOff ==
  /\ at = "off"
  /\ LET notice == IF event = "SessionStart" THEN [Silence EXCEPT !.standing = TRUE] ELSE Silence IN
       \E encodes \in BOOLEAN :
         /\ lost' = ~encodes
         /\ Answer(Deliver(harness, event, notice, notice, "allow", encodes))

Verdict == HostDoes(harness, event, wire)

\* The harness continues the agent, which comes to a stop again.
FireAgain ==
  /\ at = "answered" /\ event \in StopEvents /\ Verdict = "denied"
  /\ at' = "fired" /\ active' = TRUE
  /\ faults' = {} /\ seen' = Unseen /\ lines' = {} /\ unlogged' = FALSE
  /\ wire' = NoAnswer /\ lost' = FALSE /\ changed' = {}
  /\ UNCHANGED <<turn, env, about>>

\* mode, log and an editor, in another terminal.
Toggle ==
  /\ at # "answered" /\ toggles < MaxToggles /\ toggles' = toggles + 1
  /\ \/ own' \in States /\ UNCHANGED <<grant, broken>>
     \/ grant' \in BOOLEAN /\ UNCHANGED <<own, broken>>
     \/ broken' \in BOOLEAN /\ UNCHANGED <<own, grant>>
  /\ changed' = changed \cup (IF own' # own THEN {"own"} ELSE {})
                      \cup (IF grant' # grant THEN {"grant"} ELSE {})
  /\ UNCHANGED <<turn, rules, machine, owed, at, active, about, faults, seen, lines, unlogged, wire, lost>>

Next == ReadCall \/ Load \/ Record \/ Respond \/ RespondOff \/ FireAgain \/ Toggle

Spec == Init /\ [][Next]_vars

-----------------------------------------------------------------------------
Kinds == {"payload", "cwd", "broken", "log"}

Answered == at = "answered"
Evaluated == Answered /\ seen.state # "off"
Agent == AgentHears(harness, event, wire)
Human == HumanHears(harness, event, wire)
HumanReads(r) == \E t \in Human : r \in t.bodies
Named(r) == \E t \in Human : r \in t.bodies \cup t.labels

\* The harness does what the rules say and nothing else: the call is denied, or put to
\* the user, exactly when some rule that is not on trial blocks, or asks and none
\* blocks, on an event where this harness can.  Every channel output picks is one the
\* harness heeds on that event, and a block stands though its JSON could not be written.
HarnessDoesAsRuled ==
  Evaluated =>
    LET deciding(a) == {m \in Matched : ~m.trial /\ m.rule.action = a /\ Degrade(harness, event, a) = a} IN
    Verdict = CASE deciding("block") # {} -> "denied"
                [] deciding("block") = {} /\ deciding("ask") # {} /\ ~lost -> "ask"
                [] OTHER -> "proceed"

\* The log tells what happened, whatever state is set and whatever file is broken or
\* mended meanwhile: where it stays granted, the strongest outcome over an event's lines
\* is what the harness was told, every payload with a match or something unreadable, the
\* rules of a broken file among it, has a line, and it names every match, or says it
\* does not: what it leaves out it had no room for, the payload before any match, and no
\* line that could still be cut reaches past logLineMax.
LogTellsTheEvent ==
  Evaluated /\ "grant" \notin changed /\ Granted /\ ~unlogged =>
    LET here(l) == {m \in Matched : l.of \in m.on} IN
    /\ Strongest({l.outcome : l \in lines}) = Outcome(harness, event, Matched)
    /\ \A m \in Matched : \A i \in m.on : \E l \in lines : l.of = i
    /\ \A i \in DOMAIN Payloads : Payloads[i].unreadable # {} => \E l \in lines : l.of = i
    /\ \A l \in lines :
         /\ ToSet(l.hits) \subseteq here(l)
         /\ Length(l) + 1 <= LineMax \/ (l.hits = <<>> /\ ~l.payload)
         /\ ~l.truncated => l.payload /\ ToSet(l.hits) = here(l)
         /\ l.truncated =>
              /\ ~l.payload
              /\ IF ToSet(l.hits) = here(l)
                   THEN Length([l EXCEPT !.payload = TRUE, !.truncated = FALSE]) + 1 > LineMax
                   ELSE Length(l) + l.size.entry + 1 > LineMax

\* Without the grant, whatever else the user sets, breaks or mends meanwhile, nothing
\* but a trial is on record.
UngrantedKeepsPrivate ==
  Answered /\ "grant" \notin changed /\ ~grant =>
    \A l \in lines :
      /\ \E m \in Matched : m.trial /\ l.of \in m.on
      /\ \A m \in ToSet(l.hits) : m.trial

\* handrail's own failures are never silent and never decide: the user is told of each
\* one wherever a text can reach them, the agent wherever it hears passive text, and
\* without a matching rule the call proceeds.
FailuresAreToldNotEnforced ==
  Evaluated /\ ~lost =>
    /\ <<harness, event>> # <<"codex", "SessionEnd">> =>
         Failures \subseteq UNION {t.failures : t \in Human}
    /\ Injects(harness, event) /\ Verdict # "denied" =>
         Failures \subseteq UNION {t.failures : t \in Agent}
    /\ Verdict # "proceed" => \E m \in Matched : Delivering({m}) # {}

\* Off is off, and says so: where the state in force is off and nobody changes it
\* meanwhile nothing is decided, logged or told, but for the notice at SessionStart,
\* which both hear, whatever becomes of the grant and of the rule files.
OffIsOffAndSaysSo ==
  Answered /\ "own" \notin changed /\ StateOf = "off" =>
    /\ Verdict = "proceed" /\ lines = {}
    /\ LET told == IF event = "SessionStart" /\ ~lost THEN {[Silence EXCEPT !.standing = TRUE]}
                   ELSE {Silence} IN
       /\ Agent \ {Silence} = told \ {Silence}
       /\ Human \ {Silence} = told \ {Silence}

\* A rule on trial, by its own file or by the state, is heard by nobody.
TrialIsInaudible ==
  Answered => \A r \in rules : r.trial \/ seen.state = "trial" =>
    ~Named(r) /\ \A t \in Agent : r \notin t.bodies

\* Whoever is interrupted is told why: of a denial or a question, the user reads the
\* whole of every rule that decided it.
InterruptionIsExplained ==
  Evaluated /\ ~lost /\ Verdict # "proceed" =>
    \A m \in Delivering(Matched) :
      As(harness, event, m) = Outcome(harness, event, Matched) => HumanReads(m.rule)

\* Any text to the agent at a stop would continue it: it hears something there only of
\* a block, and nothing at all at the session's end.
StopsStaySilent ==
  Answered /\ event \in StopEvents \cup {"SessionEnd"} /\ Agent # {Silence} =>
    Verdict = "denied"

\* No rule can loop: an agent that was continued is let go at its next stop, though
\* the harness's word that this is a continuation could not be read.
ContinuesOnce == Answered /\ active => Verdict = "proceed"

-----------------------------------------------------------------------------
\* docs/spec.md: agent_only "withholds the human line, leaving the rule's message to
\* the agent's context alone".  The user reads nothing of such a rule.
AgentOnlyWithheld == Answered /\ ~lost => \A r \in rules : r.agentOnly => ~Named(r)
=============================================================================
