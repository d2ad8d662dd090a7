------------------------------ MODULE Harness ------------------------------
(***************************************************************************)
(* The Adapters (internal/harness/harness.go): the Capability matrix, what *)
(* it makes of the matched rules' actions, the texts for the two audiences *)
(* and the answer a hook writes; and what a harness does with that answer, *)
(* which is outside the repository and taken from how harness.go and the   *)
(* Capability matrix of docs/spec.md describe it.                          *)
(*                                                                         *)
(* A match is a rule, the payloads it matched and whether it is on trial.  *)
(* A text is the sections it holds: standing notices, failures, whole rule *)
(* bodies, and one-line labels.                                            *)
(***************************************************************************)
EXTENDS Naturals, FiniteSets

Harnesses == {"claude", "codex", "omp"}
StopEvents == {"Stop", "SubagentStop"}
ToolEvents == {"PreToolUse", "PermissionRequest", "PostToolUse"}

\* A rule, as the pipeline asks of it.
Rules == [action : {"warn", "ask", "block"}, trial : BOOLEAN, agentOnly : BOOLEAN,
          project : BOOLEAN, reach : {"call", "file", "unreadable"}]

\* What the rule parser lets through on e.
ValidOn(r, e) ==
  /\ r.action = "ask" => e = "PreToolUse"
  /\ r.action = "block" => e \notin {"PostToolUse", "SessionEnd", "SubagentStart", "Interrupt"}
  /\ r.agentOnly =>
       /\ r.action = "warn" /\ ~r.project
       /\ e \notin StopEvents \cup {"SessionEnd", "PermissionRequest", "PreCompact", "Interrupt"}
  /\ r.reach = "file" => e \in ToolEvents

\* The rows of each Adapter's matrix.
Rows(h) ==
  {"PreToolUse", "PostToolUse", "SessionStart", "SessionEnd", "Stop", "SubagentStart", "SubagentStop"}
  \cup (IF h = "omp" THEN {} ELSE {"UserPromptSubmit"})
  \cup (IF h = "codex" THEN {"PermissionRequest", "PreCompact", "Interrupt"} ELSE {})

\* Mutant: Claude Code's SessionStart row copied from Codex's.
Deny_ClaudeStarts(h, e) ==
  CASE e = "PreToolUse" -> "permissionDeny"
    [] e = "PermissionRequest" -> "requestDeny"
    [] e = "UserPromptSubmit" -> "decisionBlock"
    [] e = "PreCompact" \/ (e = "SessionStart" /\ h # "omp") -> "stopProcessing"
    [] e = "Stop" \/ (e = "SubagentStop" /\ h # "omp") -> "continueOnce"
    [] OTHER -> "noDenial"

Deny(h, e) ==
  CASE e = "PreToolUse" -> "permissionDeny"
    [] e = "PermissionRequest" -> "requestDeny"
    [] e = "UserPromptSubmit" -> "decisionBlock"
    [] e = "PreCompact" \/ (e = "SessionStart" /\ h = "codex") -> "stopProcessing"
    [] e = "Stop" \/ (e = "SubagentStop" /\ h # "omp") -> "continueOnce"
    [] OTHER -> "noDenial"

\* Mutant: every row injects but SessionEnd's.
Injects_Stop(h, e) ==
  e \in Rows(h) \ {"SessionEnd", "PermissionRequest", "PreCompact", "Interrupt"}

Injects(h, e) ==
  e \in Rows(h) \cap {"PreToolUse", "PostToolUse", "UserPromptSubmit", "SessionStart", "SubagentStart"}
CanAsk(h, e) == e = "PreToolUse" /\ h # "codex"

-----------------------------------------------------------------------------
\* What is delivered.

Strength == [allow |-> 0, warn |-> 1, ask |-> 2, block |-> 3]
Strongest(S) ==
  IF S = {} THEN "allow" ELSE CHOOSE a \in S : \A b \in S : Strength[b] <= Strength[a]

Degrade(h, e, a) ==
  IF (a = "ask" /\ ~CanAsk(h, e)) \/ (a = "block" /\ Deny(h, e) = "noDenial")
    THEN "warn" ELSE a

\* A match on trial keeps its own action.
As(h, e, m) == IF m.trial THEN m.rule.action ELSE Degrade(h, e, m.rule.action)

\* Mutant: messages without its filter.
Delivering_All(ms) == ms

Delivering(ms) == {m \in ms : ~m.trial}

Outcome(h, e, ms) == Strongest({As(h, e, m) : m \in Delivering(ms)})

Silence == [standing |-> FALSE, failures |-> {}, bodies |-> {}, labels |-> {}]

\* The agent hears the rules' bodies, and handrail's own failures where it hears
\* anything that is not a block.
AgentText(h, e, standing, ms, failures) ==
  [standing |-> standing,
   failures |-> IF Injects(h, e) THEN failures ELSE {},
   bodies |-> {m.rule : m \in {n \in Delivering(ms) : Injects(h, e) \/ As(h, e, n) = "block"}},
   labels |-> {}]

\* Mutant: an ask is told as a warning is.
Loud_BlocksOnly(h, e, m) == m.rule.action = "block"

\* An ask is named for what it became, a block for what the rule's file says.
Loud(h, e, m) == IF m.rule.action = "ask" THEN As(h, e, m) = "ask" ELSE m.rule.action = "block"

\* Mutant: the human line leaves out handrail's own failures.
HumanText_NoFailures(h, e, standing, ms, failures) ==
  LET told == {m \in Delivering(ms) : ~m.rule.agentOnly} IN
  [standing |-> standing, failures |-> {},
   bodies |-> {m.rule : m \in {n \in told : Loud(h, e, n)}},
   labels |-> {m.rule : m \in {n \in told : ~Loud(h, e, n)}}]

\* The human hears a body where the interruption is theirs, a label on a warn, and
\* nothing of a rule with agent_only.
HumanText(h, e, standing, ms, failures) ==
  LET told == {m \in Delivering(ms) : ~m.rule.agentOnly} IN
  [standing |-> standing,
   failures |-> failures,
   bodies |-> {m.rule : m \in {n \in told : Loud(h, e, n)}},
   labels |-> {m.rule : m \in {n \in told : ~Loud(h, e, n)}}]

\* The answer: the exit code, the decision in its JSON with its reason, what goes
\* beside it to the user and to the agent, and stderr.
NoAnswer == [exit |-> 0, says |-> "nothing", reason |-> Silence, system |-> Silence,
             context |-> Silence, stderr |-> Silence]

Output(h, e, agent, human, outcome) ==
  LET plain == [NoAnswer EXCEPT !.system = human,
                                !.context = IF Injects(h, e) THEN agent ELSE Silence]
      deny == Deny(h, e) IN
  CASE outcome = "ask" -> [plain EXCEPT !.says = "ask", !.reason = human, !.system = Silence]
    [] outcome \in {"allow", "warn"} -> plain
    [] outcome = "block" /\ deny = "stopProcessing" ->
         [NoAnswer EXCEPT !.says = "stop", !.reason = human]
    [] outcome = "block" /\ deny = "requestDeny" ->
         [NoAnswer EXCEPT !.says = "requestDeny", !.reason = human]
    [] outcome = "block" /\ deny = "decisionBlock" ->
         [plain EXCEPT !.says = "block", !.reason = human, !.context = Silence]
    [] outcome = "block" /\ deny = "continueOnce" ->
         [plain EXCEPT !.says = "block", !.reason = agent]
    [] OTHER ->
         [NoAnswer EXCEPT !.says = "permissionDeny", !.reason = agent,
                          !.system = IF h = "codex" THEN Silence ELSE human]

\* Deliver.  encodes: did the JSON reach stdout?  A block is repeated on stderr when
\* it did not.
Deliver(h, e, agent, human, outcome, encodes) ==
  CASE agent = Silence /\ human = Silence -> NoAnswer
    [] (agent # Silence \/ human # Silence) /\ e = "SessionEnd" ->
         IF h = "codex" THEN NoAnswer ELSE [NoAnswer EXCEPT !.exit = 2, !.stderr = human]
    [] OTHER ->
         IF encodes THEN Output(h, e, agent, human, outcome)
         ELSE IF outcome = "block" THEN [NoAnswer EXCEPT !.exit = 2, !.stderr = agent]
         ELSE NoAnswer

-----------------------------------------------------------------------------
\* What the harness makes of it.

\* A decision on an event that has none by that name is passed over.
Heeds(h, e, says) ==
  CASE says = "permissionDeny" -> e = "PreToolUse"
    [] says = "ask" -> e = "PreToolUse" /\ h # "codex"
    [] says = "requestDeny" -> h = "codex" /\ e = "PermissionRequest"
    [] says = "stop" -> h = "codex" /\ e \in {"SessionStart", "PreCompact"}
    [] says = "block" -> \/ e = "Stop"
                         \/ h # "omp" /\ e \in {"SubagentStop", "UserPromptSubmit"}
    [] OTHER -> FALSE

\* A stop that is "denied" is an agent that continues.
HostDoes(h, e, w) ==
  IF w.exit = 2 THEN (IF e = "SessionEnd" THEN "proceed" ELSE "denied")
  ELSE IF ~Heeds(h, e, w.says) THEN "proceed"
  ELSE IF w.says = "ask" THEN "ask" ELSE "denied"

\* Everything said to the agent, then to the human: sets of texts.
AgentHears(h, e, w) ==
  (IF HostDoes(h, e, w) = "denied" /\ e \in {"PreToolUse"} \cup StopEvents
     THEN {w.reason, w.stderr} ELSE {})
  \cup {w.context}

HumanHears(h, e, w) ==
  {w.system}
  \cup (IF Heeds(h, e, w.says) /\ (w.says \in {"ask", "stop", "requestDeny"} \/ e = "UserPromptSubmit")
          THEN {w.reason} ELSE {})
  \cup (IF h = "codex" /\ e = "PreToolUse" /\ HostDoes(h, e, w) = "denied" THEN {w.reason} ELSE {})
  \cup (IF h = "omp" \/ e \in {"SessionEnd", "UserPromptSubmit"} THEN {w.stderr} ELSE {})
=============================================================================
