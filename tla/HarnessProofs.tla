---------------------------- MODULE HarnessProofs ----------------------------
(***************************************************************************)
(* What a harness makes of what an Adapter delivers, for every harness and *)
(* event, every set of matches the parser lets through on the event, and   *)
(* whether or not the answer's JSON reaches stdout.                        *)
(*                                                                         *)
(* Everything rests on one fact, Verdicts: the harness's decision is the   *)
(* strongest outcome over the matches, a question that was not encoded     *)
(* aside.  The others say who hears what.                                  *)
(***************************************************************************)
EXTENDS Harness, TLAPS

\* Matches as the engine makes them on e.
MatchesOn(ms, e) ==
  \A m \in ms : m.rule \in Rules /\ ValidOn(m.rule, e) /\ m.trial \in BOOLEAN

Actions == {"warn", "ask", "block"}

-----------------------------------------------------------------------------
LEMMA DegradeFacts ==
  ASSUME NEW h \in Harnesses, NEW e \in Rows(h), NEW a \in Actions
  PROVE  /\ Degrade(h, e, a) \in Actions
         /\ Degrade(h, e, a) = "ask" => a = "ask" /\ CanAsk(h, e)
         /\ Degrade(h, e, a) = "block" => a = "block" /\ Deny(h, e) # "noDenial"
         /\ Degrade(h, e, a) # a => Degrade(h, e, a) = "warn"
BY DEF Degrade, Actions

\* The strongest of some actions is one of them, and none is stronger.
LEMMA StrongestFacts ==
  ASSUME NEW S \in SUBSET ({"allow"} \cup Actions)
  PROVE  /\ Strongest(S) = "block" <=> "block" \in S
         /\ Strongest(S) = "ask" <=> "ask" \in S /\ "block" \notin S
         /\ Strongest(S) = "warn" <=> "warn" \in S /\ "ask" \notin S /\ "block" \notin S
         /\ Strongest(S) \in {"allow"} \cup Actions
<1>1. Strength["allow"] = 0 /\ Strength["warn"] = 1 /\ Strength["ask"] = 2 /\ Strength["block"] = 3
  BY DEF Strength
<1> DEFINE Top(a) == a \in S /\ \A b \in S : Strength[b] <= Strength[a]
<1>2. CASE S = {} BY <1>2 DEF Strongest, Actions
<1>3. CASE S # {}
  <2>1. \E a \in S : Top(a)
    <3>1. CASE "block" \in S BY <1>1, <3>1 DEF Actions
    <3>2. CASE "block" \notin S /\ "ask" \in S BY <1>1, <3>2 DEF Actions
    <3>3. CASE "block" \notin S /\ "ask" \notin S /\ "warn" \in S BY <1>1, <3>3 DEF Actions
    <3>4. CASE S = {"allow"} BY <1>1, <3>4
    <3> QED BY <1>3, <3>1, <3>2, <3>3, <3>4 DEF Actions
  <2>2. Strongest(S) = CHOOSE a \in S : \A b \in S : Strength[b] <= Strength[a]
    BY <1>3 DEF Strongest
  <2>3. Top(Strongest(S)) BY <2>1, <2>2
  <2> DEFINE top == Strongest(S)
  <2>4. top \in S /\ \A b \in S : Strength[b] <= Strength[top] BY <2>3
  <2> HIDE DEF top
  <2>5. top \in {"allow", "warn", "ask", "block"} BY <2>4 DEF Actions
  <2>6. /\ "block" \in S => top = "block"
        /\ "ask" \in S /\ "block" \notin S => top = "ask"
        /\ "warn" \in S /\ "ask" \notin S /\ "block" \notin S => top = "warn"
    BY <1>1, <2>4, <2>5
  <2> QED BY <2>4, <2>5, <2>6 DEF top, Actions
<1> QED BY <1>2, <1>3

\* What the matches come to: the strongest action a delivering one keeps on this row.
LEMMA OutcomeFacts ==
  ASSUME NEW h \in Harnesses, NEW e \in Rows(h), NEW ms, MatchesOn(ms, e)
  PROVE  LET o == Outcome(h, e, ms)
             some(a) == \E m \in Delivering(ms) : m.rule.action = a /\ Degrade(h, e, a) = a IN
         /\ o \in {"allow"} \cup Actions
         /\ o = "block" <=> some("block")
         /\ o = "ask" <=> some("ask") /\ ~some("block")
         /\ o = "allow" <=> Delivering(ms) = {}
         /\ o = "block" => Deny(h, e) # "noDenial"
         /\ o = "ask" => CanAsk(h, e)
         /\ \A m \in Delivering(ms) : As(h, e, m) = Degrade(h, e, m.rule.action)
<1> DEFINE S == {As(h, e, m) : m \in Delivering(ms)}
<1>1. \A m \in Delivering(ms) : /\ m.rule.action \in Actions
                                /\ As(h, e, m) = Degrade(h, e, m.rule.action)
  BY DEF Delivering, MatchesOn, Rules, Actions, As
<1>2. \A m \in Delivering(ms) : As(h, e, m) \in Actions BY <1>1, DegradeFacts
<1>3. S \in SUBSET ({"allow"} \cup Actions) BY <1>2
<1>4. Outcome(h, e, ms) = Strongest(S) BY DEF Outcome
<1>5. \A a \in {"ask", "block"} :
        a \in S <=> \E m \in Delivering(ms) : m.rule.action = a /\ Degrade(h, e, a) = a
  BY <1>1, DegradeFacts
<1>9. /\ "allow" \notin S /\ S \subseteq Actions BY <1>2 DEF Actions
<1>a. S = {} <=> Delivering(ms) = {} OBVIOUS
<1> HIDE DEF S
<1>6. /\ Strongest(S) = "block" <=> "block" \in S
      /\ Strongest(S) = "ask" <=> "ask" \in S /\ "block" \notin S
      /\ Strongest(S) = "warn" <=> "warn" \in S /\ "ask" \notin S /\ "block" \notin S
      /\ Strongest(S) \in {"allow"} \cup Actions
  BY <1>3, StrongestFacts
<1>7. "block" \in S => Deny(h, e) # "noDenial" BY <1>5, DegradeFacts DEF Actions
<1>8. "ask" \in S => CanAsk(h, e) BY <1>5, DegradeFacts DEF Actions
<1>b. Strongest(S) = "allow" <=> S = {} BY <1>6, <1>9 DEF Actions
<1> QED BY <1>1, <1>4, <1>5, <1>6, <1>7, <1>8, <1>a, <1>b

\* A decision is never without words: the agent is told of a block, the human of a question.
LEMMA DecisionsHaveWords ==
  ASSUME NEW h \in Harnesses, NEW e \in Rows(h), NEW ms, MatchesOn(ms, e),
         NEW standing, NEW failures
  PROVE  /\ Outcome(h, e, ms) = "block" => AgentText(h, e, standing, ms, failures) # Silence
         /\ Outcome(h, e, ms) = "ask" => HumanText(h, e, standing, ms, failures) # Silence
<1>1. ASSUME Outcome(h, e, ms) = "block" PROVE AgentText(h, e, standing, ms, failures) # Silence
  <2>1. PICK m \in Delivering(ms) : m.rule.action = "block" /\ Degrade(h, e, "block") = "block"
    BY <1>1, OutcomeFacts
  <2>2. As(h, e, m) = "block" BY <2>1, OutcomeFacts
  <2>3. m.rule \in AgentText(h, e, standing, ms, failures).bodies BY <2>2 DEF AgentText
  <2> QED BY <2>3 DEF Silence
<1>2. ASSUME Outcome(h, e, ms) = "ask" PROVE HumanText(h, e, standing, ms, failures) # Silence
  <2>1. PICK m \in Delivering(ms) : m.rule.action = "ask" /\ Degrade(h, e, "ask") = "ask"
    BY <1>2, OutcomeFacts
  <2>2. As(h, e, m) = "ask" BY <2>1, OutcomeFacts
  <2>3. ~m.rule.agentOnly BY <2>1 DEF MatchesOn, Delivering, ValidOn, Rules
  <2>4. m.rule \in HumanText(h, e, standing, ms, failures).bodies
    BY <2>1, <2>2, <2>3 DEF HumanText, Loud
  <2> QED BY <2>4 DEF Silence
<1> QED BY <1>1, <1>2

-----------------------------------------------------------------------------
\* An outcome with its texts, as messages and output get them.
Deliverable(h, e, agent, human, o) ==
  /\ o \in {"allow"} \cup Actions
  /\ o = "block" => agent # Silence /\ Deny(h, e) # "noDenial"
  /\ o = "ask" => human # Silence /\ CanAsk(h, e)

\* An answer on stderr.
ExitTwo(text) == [NoAnswer EXCEPT !.exit = 2, !.stderr = text]

LEMMA PlainFields ==
  /\ NoAnswer.exit = 0 /\ NoAnswer.says = "nothing" /\ NoAnswer.reason = Silence
  /\ NoAnswer.system = Silence /\ NoAnswer.context = Silence /\ NoAnswer.stderr = Silence
  /\ \A t : /\ ExitTwo(t).exit = 2 /\ ExitTwo(t).says = "nothing" /\ ExitTwo(t).reason = Silence
            /\ ExitTwo(t).system = Silence /\ ExitTwo(t).context = Silence /\ ExitTwo(t).stderr = t
BY DEF NoAnswer, ExitTwo

\* What Deliver comes to: nothing, the texts beside a decision, or exit 2.
LEMMA DeliverCases ==
  ASSUME NEW h \in Harnesses, NEW e \in Rows(h), NEW agent, NEW human, NEW o,
         NEW encodes \in BOOLEAN, Deliverable(h, e, agent, human, o)
  PROVE  LET w == Deliver(h, e, agent, human, o, encodes)
             empty == agent = Silence /\ human = Silence IN
         /\ o \in {"block", "ask"} => ~empty /\ e # "SessionEnd"
         /\ empty => w = NoAnswer
         /\ ~empty /\ e = "SessionEnd" =>
              w = IF h = "codex" THEN NoAnswer ELSE ExitTwo(human)
         /\ ~empty /\ e # "SessionEnd" /\ encodes => w = Output(h, e, agent, human, o)
         /\ ~empty /\ e # "SessionEnd" /\ ~encodes =>
              w = IF o = "block" THEN ExitTwo(agent) ELSE NoAnswer
BY DEF Deliver, Deliverable, Deny, CanAsk, Harnesses, Rows, ExitTwo

\* The channels of an answer that was encoded, outcome by outcome.
LEMMA OutputFields ==
  ASSUME NEW h \in Harnesses, NEW e \in Rows(h), NEW agent, NEW human, NEW o,
         Deliverable(h, e, agent, human, o)
  PROVE  LET w == Output(h, e, agent, human, o)
             deny == Deny(h, e) IN
         /\ w.exit = 0 /\ w.stderr = Silence
         /\ w.says = CASE o = "ask" -> "ask"
                       [] o \in {"allow", "warn"} -> "nothing"
                       [] o = "block" /\ deny = "stopProcessing" -> "stop"
                       [] o = "block" /\ deny = "requestDeny" -> "requestDeny"
                       [] o = "block" /\ deny \in {"decisionBlock", "continueOnce"} -> "block"
                       [] OTHER -> "permissionDeny"
         /\ w.reason = CASE o \in {"allow", "warn"} -> Silence
                         [] o = "block" /\ deny \in {"continueOnce", "permissionDeny"} -> agent
                         [] OTHER -> human
         /\ w.system = IF \/ o \in {"allow", "warn"}
                          \/ o = "block" /\ deny \in {"decisionBlock", "continueOnce"}
                          \/ o = "block" /\ deny = "permissionDeny" /\ h # "codex"
                         THEN human ELSE Silence
         /\ w.context = IF /\ Injects(h, e)
                           /\ o # "block" \/ deny = "continueOnce"
                          THEN agent ELSE Silence
<1> DEFINE context == IF Injects(h, e) THEN agent ELSE Silence
           plain == [NoAnswer EXCEPT !.system = human, !.context = context]
           w == Output(h, e, agent, human, o)
           deny == Deny(h, e)
<1>2. o \in {"allow", "warn", "ask", "block"} BY DEF Deliverable, Actions
<1>3. o = "block" => deny \in {"permissionDeny", "requestDeny", "decisionBlock",
                               "stopProcessing", "continueOnce"}
  BY DEF Deliverable, Deny
<1>4. w = CASE o = "ask" -> [plain EXCEPT !.says = "ask", !.reason = human, !.system = Silence]
            [] o \in {"allow", "warn"} -> plain
            [] o = "block" /\ deny = "stopProcessing" ->
                 [NoAnswer EXCEPT !.says = "stop", !.reason = human]
            [] o = "block" /\ deny = "requestDeny" ->
                 [NoAnswer EXCEPT !.says = "requestDeny", !.reason = human]
            [] o = "block" /\ deny = "decisionBlock" ->
                 [plain EXCEPT !.says = "block", !.reason = human, !.context = Silence]
            [] o = "block" /\ deny = "continueOnce" ->
                 [plain EXCEPT !.says = "block", !.reason = agent]
            [] OTHER ->
                 [NoAnswer EXCEPT !.says = "permissionDeny", !.reason = agent,
                                  !.system = IF h = "codex" THEN Silence ELSE human]
  BY DEF Output
<1> HIDE DEF w, deny
<1>5. CASE o = "ask" BY <1>4, <1>5 DEF w, deny, NoAnswer
<1>6. CASE o \in {"allow", "warn"} BY <1>4, <1>6 DEF w, deny, NoAnswer
<1>7. CASE o = "block" /\ deny = "stopProcessing" BY <1>4, <1>7 DEF w, deny, NoAnswer
<1>8. CASE o = "block" /\ deny = "requestDeny" BY <1>4, <1>8 DEF w, deny, NoAnswer
<1>9. CASE o = "block" /\ deny = "decisionBlock" BY <1>4, <1>9 DEF w, deny, NoAnswer
<1>10. CASE o = "block" /\ deny = "continueOnce" BY <1>4, <1>10 DEF w, deny, NoAnswer
<1>11. CASE o = "block" /\ deny = "permissionDeny" BY <1>4, <1>11 DEF w, deny, NoAnswer
<1> QED BY <1>2, <1>3, <1>5, <1>6, <1>7, <1>8, <1>9, <1>10, <1>11

\* The harness does what the outcome says: it denies a block however the answer gets
\* there, asks when the question was encoded, and proceeds otherwise.
LEMMA Verdicts ==
  ASSUME NEW h \in Harnesses, NEW e \in Rows(h), NEW agent, NEW human, NEW o,
         NEW encodes \in BOOLEAN, Deliverable(h, e, agent, human, o)
  PROVE  HostDoes(h, e, Deliver(h, e, agent, human, o, encodes)) =
           CASE o = "block" -> "denied"
             [] o = "ask" /\ encodes -> "ask"
             [] OTHER -> "proceed"
<1> DEFINE w == Deliver(h, e, agent, human, o, encodes)
           empty == agent = Silence /\ human = Silence
<1>1. /\ o \in {"block", "ask"} => ~empty /\ e # "SessionEnd"
      /\ empty => w = NoAnswer
      /\ ~empty /\ e = "SessionEnd" =>
           w = IF h = "codex" THEN NoAnswer ELSE ExitTwo(human)
      /\ ~empty /\ e # "SessionEnd" /\ encodes => w = Output(h, e, agent, human, o)
      /\ ~empty /\ e # "SessionEnd" /\ ~encodes =>
           w = IF o = "block" THEN ExitTwo(agent) ELSE NoAnswer
  BY DeliverCases
<1> HIDE DEF w, empty
<1>2. o \in {"allow", "warn", "ask", "block"} BY DEF Deliverable, Actions
<1>3. w = NoAnswer => HostDoes(h, e, w) = "proceed" BY PlainFields DEF HostDoes, Heeds
<1>4. \A t : w = ExitTwo(t) => w.exit = 2 BY PlainFields
<1>5. CASE empty BY <1>1, <1>2, <1>3, <1>5 DEF w
<1>6. CASE ~empty /\ e = "SessionEnd" BY <1>1, <1>2, <1>3, <1>4, <1>6 DEF HostDoes, w
<1>7. CASE ~empty /\ e # "SessionEnd" /\ ~encodes
  BY <1>1, <1>2, <1>3, <1>4, <1>7 DEF HostDoes, w
<1>8. CASE ~empty /\ e # "SessionEnd" /\ encodes
  <2>1. w = Output(h, e, agent, human, o) BY <1>1, <1>8
  <2>2. /\ w.exit = 0
        /\ w.says = CASE o = "ask" -> "ask"
                      [] o \in {"allow", "warn"} -> "nothing"
                      [] o = "block" /\ Deny(h, e) = "stopProcessing" -> "stop"
                      [] o = "block" /\ Deny(h, e) = "requestDeny" -> "requestDeny"
                      [] o = "block" /\ Deny(h, e) \in {"decisionBlock", "continueOnce"} -> "block"
                      [] OTHER -> "permissionDeny"
    BY <2>1, OutputFields
  <2>3. o = "ask" => e = "PreToolUse" /\ h # "codex" BY DEF Deliverable, CanAsk
  <2>4. HostDoes(h, e, w) = IF ~Heeds(h, e, w.says) THEN "proceed"
                            ELSE IF w.says = "ask" THEN "ask" ELSE "denied"
    BY <2>2 DEF HostDoes
  <2>5. CASE o \in {"allow", "warn"} BY <2>2, <2>4, <2>5 DEF Heeds, w
  <2>6. CASE o = "ask" BY <1>8, <2>2, <2>3, <2>4, <2>6 DEF Heeds, w
  <2>7. CASE o = "block"
    BY <2>2, <2>4, <2>7 DEF Heeds, w, Deliverable, Deny, Harnesses, Rows
  <2> QED BY <1>2, <2>5, <2>6, <2>7
<1> QED BY <1>5, <1>6, <1>7, <1>8

\* Who hears what: the agent only what was written for it; the user what was written for
\* either; and both hear theirs wherever this row lets them, unless stdout is gone.
LEMMA Hearing ==
  ASSUME NEW h \in Harnesses, NEW e \in Rows(h), NEW agent, NEW human, NEW o,
         NEW encodes \in BOOLEAN, Deliverable(h, e, agent, human, o)
  PROVE  LET w == Deliver(h, e, agent, human, o, encodes) IN
         /\ AgentHears(h, e, w) \subseteq {Silence, agent}
         /\ HumanHears(h, e, w) \subseteq {Silence, agent, human}
         /\ encodes /\ ~(h = "codex" /\ e = "SessionEnd") =>
              \/ human \in HumanHears(h, e, w)
              \/ h = "codex" /\ e = "PreToolUse" /\ o = "block" /\ agent \in HumanHears(h, e, w)
         /\ encodes /\ Injects(h, e) /\ o # "block" => agent \in AgentHears(h, e, w)
         /\ ~Injects(h, e) /\ o # "block" => AgentHears(h, e, w) = {Silence}
<1> DEFINE w == Deliver(h, e, agent, human, o, encodes)
           empty == agent = Silence /\ human = Silence
           Goal == /\ AgentHears(h, e, w) \subseteq {Silence, agent}
                   /\ HumanHears(h, e, w) \subseteq {Silence, agent, human}
                   /\ encodes /\ ~(h = "codex" /\ e = "SessionEnd") =>
                        \/ human \in HumanHears(h, e, w)
                        \/ /\ h = "codex" /\ e = "PreToolUse" /\ o = "block"
                           /\ agent \in HumanHears(h, e, w)
                   /\ encodes /\ Injects(h, e) /\ o # "block" => agent \in AgentHears(h, e, w)
                   /\ ~Injects(h, e) /\ o # "block" => AgentHears(h, e, w) = {Silence}
<1> SUFFICES Goal OBVIOUS
<1>1. /\ o \in {"block", "ask"} => ~empty /\ e # "SessionEnd"
      /\ empty => w = NoAnswer
      /\ ~empty /\ e = "SessionEnd" =>
           w = IF h = "codex" THEN NoAnswer ELSE ExitTwo(human)
      /\ ~empty /\ e # "SessionEnd" /\ encodes => w = Output(h, e, agent, human, o)
      /\ ~empty /\ e # "SessionEnd" /\ ~encodes =>
           w = IF o = "block" THEN ExitTwo(agent) ELSE NoAnswer
  BY DeliverCases
<1>2. o \in {"allow", "warn", "ask", "block"} BY DEF Deliverable, Actions
<1>v. HostDoes(h, e, w) = CASE o = "block" -> "denied"
                            [] o = "ask" /\ encodes -> "ask"
                            [] OTHER -> "proceed"
  BY Verdicts
<1> HIDE DEF w, empty
<1>3. w = NoAnswer =>
        /\ w.says = "nothing" /\ w.reason = Silence /\ w.system = Silence
        /\ w.context = Silence /\ w.stderr = Silence
  BY PlainFields
<1>4. \A t : w = ExitTwo(t) =>
        /\ w.says = "nothing" /\ w.reason = Silence /\ w.system = Silence
        /\ w.context = Silence /\ w.stderr = t
  BY PlainFields
<1>5. Injects(h, e) => e # "SessionEnd" BY DEF Injects
<1>6. CASE empty BY <1>1, <1>3, <1>6 DEF AgentHears, HumanHears, empty
<1>7. CASE ~empty /\ e = "SessionEnd"
  BY <1>1, <1>3, <1>4, <1>5, <1>7 DEF AgentHears, HumanHears, Harnesses, StopEvents
<1>8. CASE ~empty /\ e # "SessionEnd" /\ ~encodes
  BY <1>1, <1>2, <1>3, <1>4, <1>8, <1>v DEF AgentHears, HumanHears
<1>9. CASE ~empty /\ e # "SessionEnd" /\ encodes
  <2>1. w = Output(h, e, agent, human, o) BY <1>1, <1>9
  <2> DEFINE deny == Deny(h, e)
  <2>2. /\ w.stderr = Silence
        /\ w.says = CASE o = "ask" -> "ask"
                      [] o \in {"allow", "warn"} -> "nothing"
                      [] o = "block" /\ deny = "stopProcessing" -> "stop"
                      [] o = "block" /\ deny = "requestDeny" -> "requestDeny"
                      [] o = "block" /\ deny \in {"decisionBlock", "continueOnce"} -> "block"
                      [] OTHER -> "permissionDeny"
        /\ w.reason = CASE o \in {"allow", "warn"} -> Silence
                        [] o = "block" /\ deny \in {"continueOnce", "permissionDeny"} -> agent
                        [] OTHER -> human
        /\ w.system = IF \/ o \in {"allow", "warn"}
                         \/ o = "block" /\ deny \in {"decisionBlock", "continueOnce"}
                         \/ o = "block" /\ deny = "permissionDeny" /\ h # "codex"
                        THEN human ELSE Silence
        /\ w.context = IF Injects(h, e) /\ (o # "block" \/ deny = "continueOnce")
                         THEN agent ELSE Silence
    BY <2>1, OutputFields
  <2>3. o = "block" => deny # "noDenial" BY DEF Deliverable
  <2>4. o = "ask" => e = "PreToolUse" /\ h # "codex" BY DEF Deliverable, CanAsk
  <2>5. /\ deny = "permissionDeny" <=> e = "PreToolUse"
        /\ deny = "requestDeny" => e = "PermissionRequest"
        /\ deny = "decisionBlock" <=> e = "UserPromptSubmit"
        /\ deny = "continueOnce" => e \in StopEvents
        /\ deny = "stopProcessing" => e \in {"PreCompact", "SessionStart"}
        /\ deny \in {"permissionDeny", "requestDeny", "decisionBlock", "stopProcessing",
                     "continueOnce", "noDenial"}
    BY DEF Deny, Harnesses, Rows, StopEvents
  <2>6. deny = "stopProcessing" \/ deny = "requestDeny" => Heeds(h, e, w.says) \/ o # "block"
    BY <2>2 DEF Heeds, Deny, Harnesses, Rows
  <2>7. o = "ask" => Heeds(h, e, w.says) BY <2>2, <2>4 DEF Heeds
  <2> HIDE DEF deny
  <2>8. CASE o \in {"allow", "warn"}
    BY <1>9, <1>v, <2>2, <2>8 DEF AgentHears, HumanHears, Heeds
  <2>9. CASE o = "ask"
    BY <1>9, <1>v, <2>2, <2>4, <2>7, <2>9 DEF AgentHears, HumanHears
  <2>10. CASE o = "block" /\ deny = "permissionDeny"
    BY <1>9, <1>v, <2>2, <2>5, <2>10 DEF AgentHears, HumanHears, Harnesses
  <2>11. CASE o = "block" /\ deny \in {"requestDeny", "stopProcessing"}
    BY <1>9, <1>v, <2>2, <2>5, <2>6, <2>11 DEF AgentHears, HumanHears, StopEvents
  <2>12. CASE o = "block" /\ deny = "decisionBlock"
    BY <1>9, <1>v, <2>2, <2>5, <2>12 DEF AgentHears, HumanHears, StopEvents
  <2>13. CASE o = "block" /\ deny = "continueOnce"
    BY <1>9, <1>v, <2>2, <2>5, <2>13 DEF AgentHears, HumanHears, StopEvents
  <2> QED BY <1>2, <2>3, <2>5, <2>8, <2>9, <2>10, <2>11, <2>12, <2>13
<1> QED BY <1>6, <1>7, <1>8, <1>9

-----------------------------------------------------------------------------
\* What messages makes of any matches can be delivered.
LEMMA TextsDeliverable ==
  ASSUME NEW h \in Harnesses, NEW e \in Rows(h), NEW ms, MatchesOn(ms, e),
         NEW standing, NEW failures
  PROVE  Deliverable(h, e, AgentText(h, e, standing, ms, failures),
                     HumanText(h, e, standing, ms, failures), Outcome(h, e, ms))
BY OutcomeFacts, DecisionsHaveWords DEF Deliverable

\* The rules that decided are whole in both texts.
LEMMA DecidingAreWhole ==
  ASSUME NEW h \in Harnesses, NEW e \in Rows(h), NEW ms, MatchesOn(ms, e),
         NEW standing, NEW failures, NEW m \in Delivering(ms),
         As(h, e, m) = Outcome(h, e, ms), Outcome(h, e, ms) \in {"ask", "block"}
  PROVE  /\ m.rule \in HumanText(h, e, standing, ms, failures).bodies
         /\ Outcome(h, e, ms) = "block" =>
              m.rule \in AgentText(h, e, standing, ms, failures).bodies
<1>1. m.rule.action \in Actions /\ m \in ms
  BY DEF Delivering, MatchesOn, Rules, Actions
<1>2. As(h, e, m) = Degrade(h, e, m.rule.action) BY OutcomeFacts
<1>3. m.rule.action = As(h, e, m) BY <1>1, <1>2, DegradeFacts
<1>4. ~m.rule.agentOnly BY <1>1, <1>3 DEF MatchesOn, ValidOn, Rules
<1>5. m.rule \in HumanText(h, e, standing, ms, failures).bodies
  BY <1>3, <1>4 DEF HumanText, Loud
<1>6. Outcome(h, e, ms) = "block" => m.rule \in AgentText(h, e, standing, ms, failures).bodies
  BY DEF AgentText
<1> QED BY <1>5, <1>6
=============================================================================
