--------------------------- MODULE OmpBridgeProofs ---------------------------
(***************************************************************************)
(* Theorems about the omp extension, for any sessions, any rules the       *)
(* parser lets through and any hook process, however it ends and whatever  *)
(* ends it.                                                                *)
(*                                                                         *)
(* What the handler returns is settled by the answer Deliver wrote (Wire)  *)
(* and by what is left of the hook process, so the inductive invariant,    *)
(* BridgeInv, says at each place in the handler which ends the process can *)
(* have come to, why a call went through failedOpen, and what was returned *)
(* of one that did not.                                                    *)
(***************************************************************************)
EXTENDS OmpBridge, HarnessProofs

BridgeTypeOK ==
  /\ native \in Natives /\ ctx \in Ctx /\ hook \in Hooks
  /\ \A m \in hook.matches : ValidOn(m.rule, event)
  /\ at \in {"called", "waiting", "reaping", "settled", "asking", "failed", "answered"}
  /\ child \in {"none", "running", "dying", "exited", "killed"}
  /\ printed \in {"none", "part", "whole", "lost"}
  /\ aborted \in BOOLEAN /\ failed \in BOOLEAN

\* The process: not there yet, or settled for an answer, or gone.  A stream that broke
\* ends in failedOpen.
Children ==
  /\ at = "called" => child = "none"
  /\ at \in {"settled", "asking"} => child = "exited" /\ ~aborted /\ code \in {0, 2}
  /\ at \in {"failed", "answered"} => child \in {"none", "exited", "killed"}
  /\ at = "reaping" => printed = "lost"
  /\ at \in {"called", "waiting", "settled", "asking"} => printed # "lost"
  /\ child = "exited" => code = IF hook.runs THEN Wire.exit ELSE 1

\* Until it answers or fails, the handler has told nobody anything.
Untold ==
  /\ at \in {"called", "waiting", "reaping", "settled", "asking"} =>
       ~failed /\ told = {} /\ yes = None /\ reply = NoReply
  /\ at = "failed" => failed
  /\ at # "called" /\ event = None => at = "answered"
  /\ at = "asking" => code = 0 /\ Readable /\ Wire.says = "ask"

\* Only a call whose answer was not to be had, or could not be sent, fails open.
FailedWhy == failed => ~Heard \/ (PassiveThrows(Wire.context) /\ Verdict = "proceed")

FailedLoud ==
  at = "answered" /\ event # None /\ failed =>
    Notice(BridgeText) \subseteq told /\ reply = Passive(BridgeText)

\* What a call that did not fail returned.
Refused == Verdict = "ask" /\ yes # "yes"
HeardByAgent == IF Refused THEN {Wire.reason} ELSE AgentHears("omp", event, Wire)
Shown == IF Verdict = "ask" THEN yes \in {"yes", "no"} ELSE Reachable
Translation ==
  /\ reply.does = IF Refused \/ Verdict = "denied" THEN "denied" ELSE "proceed"
  /\ {reply.reason, reply.context, reply.sent} \ {Silence} = HeardByAgent \ {Silence}
  /\ told = IF Shown THEN HumanHears("omp", event, Wire) \ {Silence} ELSE {}
Translated == at = "answered" /\ event # None /\ ~failed => Heard /\ Translation

BridgeInv == BridgeTypeOK /\ Children /\ Untold /\ FailedWhy /\ FailedLoud /\ Translated

-----------------------------------------------------------------------------
\* The events the handlers are for are rows of omp's matrix.
LEMMA EventsAreRows == native \in Natives => event = None \/ event \in Rows("omp")
BY DEF event, EventOf, Rows, Natives, SessionMoves

\* The answer, the event and what the harness would make of them are fixed from the
\* start.
LEMMA InputsStay ==
  ASSUME UNCHANGED inputs
  PROVE  /\ event' = event /\ Wire' = Wire /\ Verdict' = Verdict /\ HasJSON' = HasJSON
         /\ \A t : Notice(t)' = Notice(t) /\ Passive(t)' = Passive(t)
         /\ \A t : PassiveThrows(t)' = PassiveThrows(t)
<1> USE DEF inputs
<1>1. event' = event BY DEF event
<1>2. Wire' = Wire /\ HasJSON' = HasJSON BY <1>1 DEF Wire, HasJSON, Answer
<1>3. Verdict' = Verdict BY <1>1, <1>2 DEF Verdict
<1>4. \A t : Notice(t)' = Notice(t) BY DEF Notice
<1>5. \A t : Passive(t)' = Passive(t) BY <1>1 DEF Passive
<1>6. \A t : PassiveThrows(t)' = PassiveThrows(t) BY <1>1 DEF PassiveThrows
<1> QED BY <1>1, <1>2, <1>3, <1>4, <1>5, <1>6

\* The parts of what the handler returns.
LEMMA ReplyFields ==
  /\ NoReply.does = "proceed" /\ NoReply.reason = Silence
  /\ NoReply.context = Silence /\ NoReply.sent = Silence
  /\ \A t : /\ Denial(t).does = "denied" /\ Denial(t).reason = t
            /\ Denial(t).context = Silence /\ Denial(t).sent = Silence
  /\ \A t : /\ Passive(t).does = "proceed" /\ Passive(t).reason = Silence
            /\ Passive(t).context = IF event \in {"PreToolUse", "PostToolUse"} THEN t ELSE Silence
            /\ Passive(t).sent = IF event \in Starts /\ ctx.sends THEN t ELSE Silence
BY DEF NoReply, Denial, Passive, Starts

\* What Deliver can have written for omp.
LEMMA WireFacts ==
  ASSUME BridgeTypeOK, event # None
  PROVE  /\ Wire.exit \in {0, 2}
         /\ Wire.exit = 2 =>
              /\ event \in {"PreToolUse", "Stop", "SessionEnd"}
              /\ Wire.says = "nothing" /\ Wire.reason = Silence
              /\ Wire.system = Silence /\ Wire.context = Silence
         /\ Wire.exit = 0 =>
              /\ Wire.stderr = Silence
              /\ Wire.says \in {"nothing", "ask", "permissionDeny", "block"}
              /\ Wire.says = "block" => event = "Stop" /\ Wire.context = Silence
              /\ Wire.says = "permissionDeny" => event = "PreToolUse" /\ Wire.context = Silence
              /\ Wire.says = "ask" => event = "PreToolUse" /\ Wire.system = Silence
              /\ Wire.says \in {"block", "permissionDeny", "ask"} => Wire.reason # Silence
              /\ ~Injects("omp", event) => Wire.context = Silence
<1> DEFINE agent == AgentText("omp", event, hook.standing, hook.matches, hook.failures)
           human == HumanText("omp", event, hook.standing, hook.matches, hook.failures)
           o == Outcome("omp", event, hook.matches)
           e == event
           deny == Deny("omp", e)
           encodes == hook.encodes
           empty == agent = Silence /\ human = Silence
           w == Deliver("omp", e, agent, human, o, encodes)
<1>1. "omp" \in Harnesses /\ e \in Rows("omp")
  BY EventsAreRows DEF BridgeTypeOK, Harnesses
<1>2. MatchesOn(hook.matches, e)
  <2>1. hook.matches \in MatchSets BY DEF BridgeTypeOK, Hooks
  <2> QED BY <2>1, MatchesAssumption DEF MatchesOn, BridgeTypeOK
<1>3. Deliverable("omp", e, agent, human, o) BY <1>1, <1>2, TextsDeliverable
<1>4. encodes \in BOOLEAN BY DEF BridgeTypeOK, Hooks
<1>5. Wire = w BY DEF Wire, Answer
<1> HIDE DEF agent, human, o, e, encodes
<1>6. /\ o \in {"block", "ask"} => ~empty /\ e # "SessionEnd"
      /\ empty => w = NoAnswer
      /\ ~empty /\ e = "SessionEnd" => w = ExitTwo(human)
      /\ ~empty /\ e # "SessionEnd" /\ encodes => w = Output("omp", e, agent, human, o)
      /\ ~empty /\ e # "SessionEnd" /\ ~encodes =>
           w = IF o = "block" THEN ExitTwo(agent) ELSE NoAnswer
  BY <1>1, <1>3, <1>4, DeliverCases
<1>7. o = "block" => \/ e = "PreToolUse" /\ deny = "permissionDeny"
                     \/ e = "Stop" /\ deny = "continueOnce"
  BY <1>1, <1>3 DEF Deliverable, Deny, Rows
<1>8. o = "ask" => e = "PreToolUse" BY <1>3 DEF Deliverable, CanAsk
<1> HIDE DEF w, empty, deny
<1> DEFINE Goal(x) ==
      /\ x.exit \in {0, 2}
      /\ x.exit = 2 =>
           /\ e \in {"PreToolUse", "Stop", "SessionEnd"}
           /\ x.says = "nothing" /\ x.reason = Silence
           /\ x.system = Silence /\ x.context = Silence
      /\ x.exit = 0 =>
           /\ x.stderr = Silence
           /\ x.says \in {"nothing", "ask", "permissionDeny", "block"}
           /\ x.says = "block" => e = "Stop" /\ x.context = Silence
           /\ x.says = "permissionDeny" => e = "PreToolUse" /\ x.context = Silence
           /\ x.says = "ask" => e = "PreToolUse" /\ x.system = Silence
           /\ x.says \in {"block", "permissionDeny", "ask"} => x.reason # Silence
           /\ ~Injects("omp", e) => x.context = Silence
<1>9. w = NoAnswer => Goal(w) BY PlainFields
<1>10. ASSUME NEW t, w = ExitTwo(t), e \in {"PreToolUse", "Stop", "SessionEnd"} PROVE Goal(w)
  BY <1>10, PlainFields
<1>11. ASSUME w = Output("omp", e, agent, human, o) PROVE Goal(w)
  <2>1. /\ w.exit = 0 /\ w.stderr = Silence
        /\ w.says = CASE o = "ask" -> "ask"
                      [] o \in {"allow", "warn"} -> "nothing"
                      [] o = "block" /\ deny = "stopProcessing" -> "stop"
                      [] o = "block" /\ deny = "requestDeny" -> "requestDeny"
                      [] o = "block" /\ deny \in {"decisionBlock", "continueOnce"} -> "block"
                      [] OTHER -> "permissionDeny"
        /\ w.reason = CASE o \in {"allow", "warn"} -> Silence
                        [] o = "block" /\ deny \in {"continueOnce", "permissionDeny"} -> agent
                        [] OTHER -> human
        /\ w.system = IF \/ o \in {"allow", "warn"}
                         \/ o = "block" /\ deny \in {"decisionBlock", "continueOnce"}
                         \/ o = "block" /\ deny = "permissionDeny" /\ "omp" # "codex"
                        THEN human ELSE Silence
        /\ w.context = IF Injects("omp", e) /\ (o # "block" \/ deny = "continueOnce")
                         THEN agent ELSE Silence
    BY <1>1, <1>3, <1>11, OutputFields DEF deny
  <2>2. o \in {"allow", "warn", "ask", "block"} BY <1>3 DEF Deliverable, Actions
  <2>3. ~Injects("omp", "Stop") BY DEF Injects
  <2>4. /\ o = "block" => agent # Silence
        /\ o = "ask" => human # Silence
    BY <1>3 DEF Deliverable
  <2>5. CASE o \in {"allow", "warn"} BY <2>1, <2>5
  <2>6. CASE o = "ask" BY <1>8, <2>1, <2>4, <2>6
  <2>7. CASE o = "block" BY <1>7, <2>1, <2>3, <2>4, <2>7
  <2> QED BY <2>2, <2>5, <2>6, <2>7
<1>12. Goal(w) BY <1>4, <1>6, <1>7, <1>9, <1>10, <1>11
<1> QED BY <1>5, <1>12 DEF e

\* What omp would do with the answer, and who would hear what.
LEMMA OmpHears ==
  ASSUME BridgeTypeOK, event # None
  PROVE  /\ Wire.exit = 2 =>
              /\ Verdict = IF event = "SessionEnd" THEN "proceed" ELSE "denied"
              /\ AgentHears("omp", event, Wire) \ {Silence}
                   = IF event = "SessionEnd" THEN {} ELSE {Wire.stderr} \ {Silence}
              /\ HumanHears("omp", event, Wire) \ {Silence} = {Wire.stderr} \ {Silence}
         /\ Wire.exit = 0 =>
              /\ Verdict = CASE Wire.says = "ask" -> "ask"
                             [] Wire.says \in {"permissionDeny", "block"} -> "denied"
                             [] OTHER -> "proceed"
              /\ AgentHears("omp", event, Wire) \ {Silence}
                   = (IF Wire.says \in {"permissionDeny", "block"}
                        THEN {Wire.reason} ELSE {Wire.context}) \ {Silence}
              /\ HumanHears("omp", event, Wire) \ {Silence}
                   = (IF Wire.says = "ask" THEN {Wire.reason} ELSE {Wire.system}) \ {Silence}
<1> DEFINE w == Wire
           e == event
<1>1. /\ w.exit \in {0, 2}
      /\ w.exit = 2 =>
           /\ e \in {"PreToolUse", "Stop", "SessionEnd"}
           /\ w.says = "nothing" /\ w.reason = Silence
           /\ w.system = Silence /\ w.context = Silence
      /\ w.exit = 0 =>
           /\ w.stderr = Silence
           /\ w.says \in {"nothing", "ask", "permissionDeny", "block"}
           /\ w.says = "block" => e = "Stop" /\ w.context = Silence
           /\ w.says = "permissionDeny" => e = "PreToolUse" /\ w.context = Silence
           /\ w.says = "ask" => e = "PreToolUse" /\ w.system = Silence
  BY WireFacts
<1>2. e \in Rows("omp") BY EventsAreRows DEF BridgeTypeOK
<1>3. e # "UserPromptSubmit" BY <1>2 DEF Rows
<1>4. Verdict = HostDoes("omp", e, w) BY DEF Verdict
<1> HIDE DEF w, e
<1>5. CASE w.exit = 2
  <2>1. HostDoes("omp", e, w) = IF e = "SessionEnd" THEN "proceed" ELSE "denied"
    BY <1>5 DEF HostDoes
  <2>2. ~Heeds("omp", e, w.says) BY <1>1, <1>5 DEF Heeds
  <2>3. AgentHears("omp", e, w) \ {Silence} =
          IF e = "SessionEnd" THEN {} ELSE {w.stderr} \ {Silence}
    BY <1>1, <1>5, <2>1 DEF AgentHears, StopEvents
  <2>4. HumanHears("omp", e, w) \ {Silence} = {w.stderr} \ {Silence}
    BY <1>1, <1>5, <2>2 DEF HumanHears
  <2> QED BY <1>4, <1>5, <2>1, <2>3, <2>4 DEF w, e
<1>6. CASE w.exit = 0
  <2>1. Heeds("omp", e, w.says) <=> w.says # "nothing" BY <1>1, <1>6 DEF Heeds
  <2>2. HostDoes("omp", e, w) = CASE w.says = "ask" -> "ask"
                                  [] w.says \in {"permissionDeny", "block"} -> "denied"
                                  [] OTHER -> "proceed"
    BY <1>1, <1>6, <2>1 DEF HostDoes
  <2>3. AgentHears("omp", e, w) \ {Silence}
          = (IF w.says \in {"permissionDeny", "block"}
               THEN {w.reason} ELSE {w.context}) \ {Silence}
    <3>1. CASE w.says \in {"permissionDeny", "block"}
      BY <1>1, <1>6, <2>2, <3>1 DEF AgentHears, StopEvents
    <3>2. CASE w.says \in {"nothing", "ask"} BY <1>1, <1>6, <2>2, <3>2 DEF AgentHears
    <3> QED BY <1>1, <1>6, <3>1, <3>2
  <2>4. HumanHears("omp", e, w) \ {Silence}
          = (IF w.says = "ask" THEN {w.reason} ELSE {w.system}) \ {Silence}
    BY <1>1, <1>3, <1>6, <2>1 DEF HumanHears
  <2> QED BY <1>4, <1>6, <2>2, <2>3, <2>4 DEF w, e
<1> QED BY <1>1, <1>5, <1>6 DEF w, e

-----------------------------------------------------------------------------
LEMMA BridgeStarts == Init => BridgeInv
<1> SUFFICES ASSUME Init PROVE BridgeInv OBVIOUS
<1>1. BridgeTypeOK BY ContextsAssumption DEF Init, BridgeTypeOK
<1>2. Children /\ Untold /\ FailedWhy /\ FailedLoud /\ Translated
  BY DEF Init, Children, Untold, FailedWhy, FailedLoud, Translated
<1> QED BY <1>1, <1>2 DEF BridgeInv

\* The steps of the process, the timer and the session's signal: they leave alone what
\* the handler has told, and move only while it waits.
LEMMA ProcessSteps ==
  ASSUME BridgeInv, HookPrints \/ HookExits \/ Timeout \/ Abort \/ Dies
  PROVE  BridgeInv'
<1>i. BridgeTypeOK /\ Children /\ Untold /\ FailedWhy /\ FailedLoud /\ Translated
  BY DEF BridgeInv
<1>1. UNCHANGED <<inputs, at, failed, yes, told, reply>>
  BY DEF HookPrints, HookExits, Timeout, Abort, Dies
<1>2. /\ event' = event /\ Wire' = Wire /\ Verdict' = Verdict /\ HasJSON' = HasJSON
      /\ \A t : Notice(t)' = Notice(t) /\ Passive(t)' = Passive(t)
  BY <1>1, InputsStay
<1>3. native' = native /\ ctx' = ctx /\ hook' = hook BY <1>1 DEF inputs
<1>4. at \in {"called", "waiting", "reaping"}
  BY <1>i DEF Children, BridgeTypeOK, HookPrints, HookExits, Timeout, Abort, Dies
<1>5. ~failed BY <1>4, <1>i DEF Untold
<1>6. BridgeTypeOK'
  <2>1. /\ child' \in {"none", "running", "dying", "exited", "killed"}
        /\ printed' \in {"none", "part", "whole", "lost"} /\ aborted' \in BOOLEAN
    BY <1>i DEF BridgeTypeOK, HookPrints, HookExits, Timeout, Abort, Dies
  <2> QED BY <1>i, <1>1, <1>2, <1>3, <2>1 DEF BridgeTypeOK
<1>7. Children'
  <2>1. HookPrints => Children' BY <1>i, <1>1, <1>2, <1>3, <1>4 DEF Children, HookPrints
  <2>2. HookExits => Children' BY <1>i, <1>1, <1>2, <1>3, <1>4 DEF Children, HookExits
  <2>3. Timeout \/ Abort \/ Dies => Children'
    BY <1>i, <1>1, <1>2, <1>3, <1>4 DEF Children, Timeout, Abort, Dies
  <2> QED BY <2>1, <2>2, <2>3
<1>8. Untold' BY <1>i, <1>1, <1>2, <1>4 DEF Untold
<1>9. FailedWhy' /\ FailedLoud' /\ Translated'
  BY <1>1, <1>4, <1>5 DEF FailedWhy, FailedLoud, Translated
<1> QED BY <1>6, <1>7, <1>8, <1>9 DEF BridgeInv

\* The handler's own steps.  What it returns of an answer is the translation of it.
LEMMA ExitTwoTranslates ==
  ASSUME BridgeInv, AnswerExit2, event # None
  PROVE  /\ at' = "answered" /\ ~failed' /\ Heard' /\ Translation'
         /\ UNCHANGED <<inputs, child, printed, code, aborted>>
<1>i. BridgeTypeOK /\ Children /\ Untold BY DEF BridgeInv
<1>1. /\ at = "settled" /\ code = 2
      /\ UNCHANGED <<inputs, child, printed, code, aborted, yes>>
  BY DEF AnswerExit2
<1>2. child = "exited" /\ ~aborted /\ printed # "lost" /\ ~failed /\ told = {}
  BY <1>i, <1>1 DEF Children, Untold
<1>3. Wire.exit = 2 BY <1>i, <1>1, <1>2 DEF Children
<1>4. event \in {"PreToolUse", "Stop", "SessionEnd"} BY <1>i, <1>3, WireFacts
<1>5. /\ told' = Notice(Wire.stderr) /\ at' = "answered" /\ failed' = failed
      /\ reply' = IF event = "SessionEnd" THEN NoReply ELSE Denial(Wire.stderr)
  BY <1>2, <1>4 DEF AnswerExit2, Return
<1>6. Heard' BY <1>i, <1>1, <1>2 DEF Heard, BridgeTypeOK
<1>7. event' = event /\ Wire' = Wire /\ Verdict' = Verdict BY <1>1, InputsStay
<1>8. ctx' = ctx BY <1>1 DEF inputs
<1>9. /\ Verdict = IF event = "SessionEnd" THEN "proceed" ELSE "denied"
      /\ AgentHears("omp", event, Wire) \ {Silence}
           = IF event = "SessionEnd" THEN {} ELSE {Wire.stderr} \ {Silence}
      /\ HumanHears("omp", event, Wire) \ {Silence} = {Wire.stderr} \ {Silence}
  BY <1>i, <1>3, OmpHears
<1>10. ~Refused' /\ HeardByAgent' = AgentHears("omp", event, Wire)
  BY <1>7, <1>9 DEF Refused, HeardByAgent
<1>11. Shown' = Reachable BY <1>7, <1>8, <1>9 DEF Shown, Reachable
<1>12. /\ reply'.does = IF event = "SessionEnd" THEN "proceed" ELSE "denied"
       /\ {reply'.reason, reply'.context, reply'.sent} \ {Silence}
            = IF event = "SessionEnd" THEN {} ELSE {Wire.stderr} \ {Silence}
  BY <1>5, ReplyFields
<1>13. told' = IF Reachable THEN HumanHears("omp", event, Wire) \ {Silence} ELSE {}
  BY <1>5, <1>9 DEF Notice, Reachable
<1>14. Translation'
  BY <1>7, <1>9, <1>10, <1>11, <1>12, <1>13 DEF Translation
<1> QED BY <1>1, <1>2, <1>5, <1>6, <1>14

\* The words of a passive text, as far as this event has a way to the agent for them.
LEMMA PassiveHeard ==
  ASSUME BridgeTypeOK, event # None, Wire.exit = 0, ~PassiveThrows(Wire.context)
  PROVE  LET r == Passive(Wire.context) IN
         {r.reason, r.context, r.sent} \ {Silence} = {Wire.context} \ {Silence}
<1> DEFINE t == Wire.context
<1>1. event \in Rows("omp") BY EventsAreRows DEF BridgeTypeOK
<1>2. ~Injects("omp", event) => t = Silence BY WireFacts
<1>3. event \notin {"PreToolUse", "PostToolUse"} \cup Starts => ~Injects("omp", event)
  BY <1>1 DEF Injects, Starts, Rows
<1>4. event \in Starts => ctx.sends \/ t = Silence BY DEF PassiveThrows
<1> HIDE DEF t
<1>5. /\ Passive(t).reason = Silence
      /\ Passive(t).context = IF event \in {"PreToolUse", "PostToolUse"} THEN t ELSE Silence
      /\ Passive(t).sent = IF event \in Starts /\ ctx.sends THEN t ELSE Silence
  BY ReplyFields
<1>6. Starts \cap {"PreToolUse", "PostToolUse"} = {} BY DEF Starts
<1>7. {Passive(t).reason, Passive(t).context, Passive(t).sent} \ {Silence} = {t} \ {Silence}
  BY <1>2, <1>3, <1>4, <1>5, <1>6
<1> QED BY <1>7 DEF t

LEMMA JSONTranslates ==
  ASSUME BridgeInv, AnswerJSON, event # None
  PROVE  /\ UNCHANGED <<inputs, child, printed, code, aborted>>
         /\ \/ at' = "failed" /\ failed' /\ (~Heard' \/ (PassiveThrows(Wire.context) /\ Verdict = "proceed"))
            \/ at' = "answered" /\ ~failed' /\ Heard' /\ Translation'
<1>i. BridgeTypeOK /\ Children /\ Untold BY DEF BridgeInv
<1>1. /\ at = "settled" /\ code = 0 /\ ~(Readable /\ Wire.says = "ask")
      /\ UNCHANGED <<inputs, child, printed, code, aborted, yes>>
  BY DEF AnswerJSON
<1>2. child = "exited" /\ ~aborted /\ printed # "lost" /\ ~failed /\ told = {}
  BY <1>i, <1>1 DEF Children, Untold
<1>3. Wire.exit = 0 BY <1>i, <1>1, <1>2 DEF Children
<1>4. /\ Wire.says \in {"nothing", "ask", "permissionDeny", "block"}
      /\ Wire.says = "block" => event = "Stop"
      /\ Wire.says \in {"permissionDeny", "ask"} => event = "PreToolUse"
      /\ Wire.says \in {"block", "permissionDeny", "ask"} => Wire.reason # Silence
  BY <1>i, <1>3, WireFacts
<1>5. Readable <=> printed \in {"none", "whole"} BY <1>4 DEF Readable
<1>6. Heard' <=> printed \in {"none", "whole"} BY <1>1, <1>2 DEF Heard
<1>7. CASE ~Readable
  <2>1. at' = "failed" /\ failed' BY <1>7 DEF AnswerJSON, Throw
  <2> QED BY <1>1, <1>5, <1>6, <1>7, <2>1
<1>8. CASE Readable
  <2>0. Wire.says \in {"nothing", "permissionDeny", "block"} BY <1>1, <1>4, <1>8
  <2>1. Heard' BY <1>5, <1>6, <1>8
  <2>2. event' = event /\ Wire' = Wire /\ Verdict' = Verdict BY <1>1, InputsStay
  <2>3. ctx' = ctx BY <1>1 DEF inputs
  <2>4. /\ Verdict = IF Wire.says = "nothing" THEN "proceed" ELSE "denied"
        /\ AgentHears("omp", event, Wire) \ {Silence}
             = (IF Wire.says = "nothing" THEN {Wire.context} ELSE {Wire.reason}) \ {Silence}
        /\ HumanHears("omp", event, Wire) \ {Silence} = {Wire.system} \ {Silence}
    BY <1>i, <1>3, <2>0, OmpHears
  <2>5. told' = Notice(Wire.system) BY <1>2, <1>8 DEF AnswerJSON
  <2>6. ~Refused' /\ HeardByAgent' = AgentHears("omp", event, Wire)
    BY <2>2, <2>4 DEF Refused, HeardByAgent
  <2>7. Shown' = Reachable BY <2>2, <2>3, <2>4 DEF Shown, Reachable
  <2>8. told' = IF Reachable THEN HumanHears("omp", event, Wire) \ {Silence} ELSE {}
    BY <2>4, <2>5 DEF Notice, Reachable
  <2>9. CASE Wire.says # "nothing"
    <3>1. at' = "answered" /\ reply' = Denial(Wire.reason) /\ failed' = failed
      BY <1>8, <2>0, <2>9 DEF AnswerJSON, Return
    <3>2. /\ reply'.does = "denied"
          /\ {reply'.reason, reply'.context, reply'.sent} \ {Silence} = {Wire.reason} \ {Silence}
      BY <3>1, ReplyFields
    <3>3. Translation' BY <2>2, <2>4, <2>6, <2>7, <2>8, <2>9, <3>2 DEF Translation
    <3> QED BY <1>1, <1>2, <2>1, <3>1, <3>3
  <2>10. CASE Wire.says = "nothing" /\ PassiveThrows(Wire.context)
    <3>1. at' = "failed" /\ failed' BY <1>8, <2>10 DEF AnswerJSON, ReturnPassive, Throw
    <3> QED BY <1>1, <2>4, <2>10, <3>1
  <2>11. CASE Wire.says = "nothing" /\ ~PassiveThrows(Wire.context)
    <3>1. at' = "answered" /\ reply' = Passive(Wire.context) /\ failed' = failed
      BY <1>8, <2>11 DEF AnswerJSON, ReturnPassive, Return
    <3>2. reply'.does = "proceed" BY <3>1, ReplyFields
    <3>3. {reply'.reason, reply'.context, reply'.sent} \ {Silence} = {Wire.context} \ {Silence}
      BY <1>i, <1>3, <2>11, <3>1, PassiveHeard
    <3>4. Translation' BY <2>2, <2>4, <2>6, <2>7, <2>8, <2>11, <3>2, <3>3 DEF Translation
    <3> QED BY <1>1, <1>2, <2>1, <3>1, <3>4
  <2> QED BY <2>9, <2>10, <2>11
<1> QED BY <1>7, <1>8

\* Of a question: without a dialog, and with the user's word.
LEMMA QuestionTranslates ==
  ASSUME BridgeInv, (Ask /\ at' = "answered") \/ Confirm, event # None
  PROVE  /\ at' = "answered" /\ ~failed' /\ Heard' /\ Translation'
         /\ UNCHANGED <<inputs, child, printed, code, aborted>>
<1>i. BridgeTypeOK /\ Children /\ Untold BY DEF BridgeInv
<1>1. /\ at \in {"settled", "asking"}
      /\ UNCHANGED <<inputs, child, printed, code, aborted>>
  BY DEF Ask, Confirm
<1>2. code = 0 /\ Readable /\ Wire.says = "ask" BY <1>i DEF Ask, Confirm, Untold
<1>3. child = "exited" /\ ~aborted /\ ~failed /\ told = {} /\ yes = None
  BY <1>i, <1>1 DEF Children, Untold
<1>4. Wire.exit = 0 BY <1>i, <1>2, <1>3 DEF Children
<1>5. event = "PreToolUse" /\ Wire.reason # Silence BY <1>i, <1>2, <1>4, WireFacts
<1>6. Heard' BY <1>1, <1>2, <1>3 DEF Heard, Readable
<1>7. event' = event /\ Wire' = Wire /\ Verdict' = Verdict BY <1>1, InputsStay
<1>8. /\ Verdict = "ask"
      /\ AgentHears("omp", event, Wire) \ {Silence} = {Wire.context} \ {Silence}
      /\ HumanHears("omp", event, Wire) \ {Silence} = {Wire.reason} \ {Silence}
  BY <1>i, <1>2, <1>4, OmpHears
<1>9. CASE Ask /\ at' = "answered"
  <2>1. reply' = Denial(Wire.reason) /\ failed' = failed /\ yes' = yes /\ told' = told
    BY <1>9 DEF Ask, Return
  <2>2. yes' \notin {"yes", "no"} BY <1>3, <2>1, NoneAssumption
  <2>3. Refused' /\ HeardByAgent' = {Wire.reason} /\ Shown' = FALSE
    BY <1>7, <1>8, <2>2 DEF Refused, HeardByAgent, Shown
  <2>4. /\ reply'.does = "denied"
        /\ {reply'.reason, reply'.context, reply'.sent} \ {Silence} = {Wire.reason} \ {Silence}
    BY <2>1, ReplyFields
  <2>5. Translation' BY <1>3, <2>1, <2>3, <2>4 DEF Translation
  <2> QED BY <1>1, <1>3, <1>6, <1>9, <2>1, <2>5
<1>10. CASE Confirm
  <2>1. /\ at' = "answered" /\ failed' = failed /\ yes' \in {"yes", "no", "threw"}
        /\ told' = IF yes' = "threw" THEN {} ELSE {Wire.reason}
        /\ reply' = IF yes' = "yes" THEN Passive(Wire.context) ELSE Denial(Wire.reason)
    BY <1>3, <1>10 DEF Confirm, Return
  <2>2. /\ Refused' <=> yes' # "yes"
        /\ HeardByAgent' = IF yes' # "yes" THEN {Wire.reason} ELSE AgentHears("omp", event, Wire)
        /\ Shown' = (yes' \in {"yes", "no"})
    BY <1>7, <1>8 DEF Refused, HeardByAgent, Shown
  <2>3. told' = IF yes' \in {"yes", "no"} THEN HumanHears("omp", event, Wire) \ {Silence} ELSE {}
    BY <1>5, <1>8, <2>1
  <2>4. CASE yes' = "yes"
    <3>1. /\ reply'.does = "proceed"
          /\ {reply'.reason, reply'.context, reply'.sent} \ {Silence} = {Wire.context} \ {Silence}
      BY <1>5, <2>1, <2>4, ReplyFields DEF Starts
    <3>2. Translation' BY <1>7, <1>8, <2>2, <2>3, <2>4, <3>1 DEF Translation
    <3> QED BY <1>1, <1>3, <1>6, <2>1, <3>2
  <2>5. CASE yes' # "yes"
    <3>1. /\ reply'.does = "denied"
          /\ {reply'.reason, reply'.context, reply'.sent} \ {Silence} = {Wire.reason} \ {Silence}
      BY <2>1, <2>5, ReplyFields
    <3>2. Translation' BY <1>7, <1>8, <2>2, <2>3, <2>5, <3>1 DEF Translation
    <3> QED BY <1>1, <1>3, <1>6, <2>1, <3>2
  <2> QED BY <2>4, <2>5
<1> QED BY <1>9, <1>10

\* A step that leaves the process alone and ends at `answered`, with the answer
\* translated, or at `failed` for cause.
LEMMA SettledSteps ==
  ASSUME BridgeInv, UNCHANGED <<inputs, child, printed, code, aborted>>, event # None,
         at \in {"settled", "asking"},
         \/ at' = "answered" /\ ~failed' /\ Heard' /\ Translation'
         \/ at' = "failed" /\ failed' /\ (~Heard' \/ (PassiveThrows(Wire.context) /\ Verdict = "proceed")),
         failed' \in BOOLEAN
  PROVE  BridgeInv'
<1>i. BridgeTypeOK /\ Children BY DEF BridgeInv
<1>1. /\ event' = event /\ Wire' = Wire /\ Verdict' = Verdict
      /\ \A t : PassiveThrows(t)' = PassiveThrows(t)
  BY InputsStay
<1>2. native' = native /\ ctx' = ctx /\ hook' = hook BY DEF inputs
<1>3. BridgeTypeOK' BY <1>i, <1>1, <1>2 DEF BridgeTypeOK
<1>4. Children' BY <1>i, <1>1, <1>2 DEF Children
<1>5. Untold' BY <1>1 DEF Untold
<1>6. FailedWhy' BY <1>1 DEF FailedWhy
<1>7. FailedLoud' /\ Translated' BY DEF FailedLoud, Translated
<1> QED BY <1>3, <1>4, <1>5, <1>6, <1>7 DEF BridgeInv

LEMMA BridgeInductive == BridgeInv /\ [Next]_vars => BridgeInv'
<1> SUFFICES ASSUME BridgeInv, [Next]_vars PROVE BridgeInv' OBVIOUS
<1>i. BridgeTypeOK /\ Children /\ Untold /\ FailedWhy /\ FailedLoud /\ Translated
  BY DEF BridgeInv
<1>e. event # None \/ at \in {"called", "answered"} BY <1>i DEF Untold
<1>1. CASE HookPrints \/ HookExits \/ Timeout \/ Abort \/ Dies BY <1>1, ProcessSteps
<1>2. CASE Ignore
  <2>1. UNCHANGED <<inputs, child, printed, code, aborted, failed>> /\ at' = "answered" /\ at = "called"
    BY <1>2 DEF Ignore
  <2>2. event' = event /\ Wire' = Wire BY <2>1, InputsStay
  <2>3. event' = None /\ ~failed' BY <1>2, <1>i, <2>1, <2>2 DEF Ignore, Untold
  <2>4. BridgeTypeOK' BY <1>i, <2>1, <2>2 DEF BridgeTypeOK, inputs
  <2>5. Children' BY <1>i, <2>1, <2>2 DEF Children, inputs
  <2>6. Untold' /\ FailedWhy' /\ FailedLoud' /\ Translated'
    BY <2>1, <2>3 DEF Untold, FailedWhy, FailedLoud, Translated
  <2> QED BY <2>4, <2>5, <2>6 DEF BridgeInv
<1>3. CASE Spawn
  <2>1. /\ at = "called" /\ event # None
        /\ UNCHANGED <<inputs, printed, code, aborted, yes, told, reply>>
        /\ \/ at' = "failed" /\ failed' = TRUE /\ child' = child
           \/ at' = "waiting" /\ failed' = failed /\ child' \in {"running", "dying"}
    BY <1>3 DEF Spawn, Throw
  <2>2. event' = event /\ Wire' = Wire BY <2>1, InputsStay
  <2>3. child = "none" /\ ~failed /\ printed # "lost" BY <1>i, <2>1 DEF Children, Untold
  <2>4. BridgeTypeOK' BY <1>i, <2>1, <2>2 DEF BridgeTypeOK, inputs
  <2>5. Children' BY <1>i, <2>1, <2>2, <2>3 DEF Children, inputs
  <2>6. Untold' BY <1>i, <2>1, <2>2 DEF Untold
  <2>7. failed' => child' = "none" BY <2>1, <2>3
  <2>8. FailedWhy' BY <2>7 DEF FailedWhy, Heard
  <2>9. FailedLoud' /\ Translated' BY <2>1 DEF FailedLoud, Translated
  <2> QED BY <2>4, <2>5, <2>6, <2>8, <2>9 DEF BridgeInv
<1>4. CASE ReadBreaks
  <2>1. /\ at = "waiting" /\ at' = "reaping" /\ printed' = "lost"
        /\ child' = IF child = "running" THEN "dying" ELSE child
        /\ UNCHANGED <<inputs, code, aborted, failed, yes, told, reply>>
    BY <1>4 DEF ReadBreaks
  <2>2. event' = event /\ Wire' = Wire BY <2>1, InputsStay
  <2>3. BridgeTypeOK' BY <1>i, <2>1, <2>2 DEF BridgeTypeOK, inputs
  <2>4. Children' BY <1>i, <2>1, <2>2 DEF Children, inputs
  <2>5. Untold' BY <1>i, <2>1, <2>2 DEF Untold
  <2>6. FailedWhy' /\ FailedLoud' /\ Translated'
    BY <1>i, <2>1 DEF Untold, FailedWhy, FailedLoud, Translated
  <2> QED BY <2>3, <2>4, <2>5, <2>6 DEF BridgeInv
<1>5. CASE Reap \/ Settle
  <2>1. /\ at \in {"reaping", "waiting"} /\ Gone
        /\ UNCHANGED <<inputs, child, printed, code, aborted, yes, told, reply>>
        /\ \/ at' = "failed" /\ failed' = TRUE
           \/ at' = "settled" /\ failed' = failed
    BY <1>5 DEF Reap, Settle, Throw
  <2>2. event' = event /\ Wire' = Wire BY <2>1, InputsStay
  <2>3. event # None /\ ~failed BY <1>i, <2>1 DEF Untold
  <2>4. BridgeTypeOK' BY <1>i, <2>1, <2>2 DEF BridgeTypeOK, inputs
  <2>5. at' = "settled" => ~aborted /\ child = "exited" /\ code \in {0, 2} /\ printed # "lost"
    BY <1>5, <1>i DEF Reap, Settle, Throw, Children
  <2>6. at' = "failed" => printed = "lost" \/ ~(~aborted /\ child = "exited" /\ code \in {0, 2})
    BY <1>5, <1>i DEF Reap, Settle, Throw, Children
  <2>7. Children' BY <1>i, <2>1, <2>2, <2>5 DEF Children, Gone, inputs
  <2>8. Untold' BY <1>i, <2>1, <2>2, <2>3 DEF Untold
  <2>9. FailedWhy' BY <2>1, <2>3, <2>6 DEF FailedWhy, Heard
  <2>10. FailedLoud' /\ Translated' BY <2>1 DEF FailedLoud, Translated
  <2> QED BY <2>4, <2>7, <2>8, <2>9, <2>10 DEF BridgeInv
<1>6. CASE AnswerExit2
  <2>1. at = "settled" BY <1>6 DEF AnswerExit2
  <2>2. at' = "answered" /\ ~failed' /\ Heard' /\ Translation'
    BY <1>6, <1>e, <2>1, ExitTwoTranslates
  <2>3. failed' \in BOOLEAN BY <1>6, <1>i DEF AnswerExit2, Return, Throw, BridgeTypeOK
  <2>4. UNCHANGED <<inputs, child, printed, code, aborted>> BY <1>6 DEF AnswerExit2
  <2> QED BY <1>e, <2>1, <2>2, <2>3, <2>4, SettledSteps
<1>7. CASE AnswerJSON
  <2>1. at = "settled" BY <1>7 DEF AnswerJSON
  <2>2. \/ at' = "answered" /\ ~failed' /\ Heard' /\ Translation'
        \/ at' = "failed" /\ failed' /\ (~Heard' \/ (PassiveThrows(Wire.context) /\ Verdict = "proceed"))
    BY <1>7, <1>e, <2>1, JSONTranslates
  <2>3. failed' \in BOOLEAN
    BY <1>7, <1>i DEF AnswerJSON, Return, ReturnPassive, Throw, BridgeTypeOK
  <2>4. UNCHANGED <<inputs, child, printed, code, aborted>> BY <1>7 DEF AnswerJSON
  <2> QED BY <1>e, <2>1, <2>2, <2>3, <2>4, SettledSteps
<1>8. CASE (Ask /\ at' = "answered") \/ Confirm
  <2>1. at \in {"settled", "asking"} BY <1>8 DEF Ask, Confirm
  <2>2. at' = "answered" /\ ~failed' /\ Heard' /\ Translation'
    BY <1>8, <1>e, <2>1, QuestionTranslates
  <2>3. failed' \in BOOLEAN BY <1>8, <1>i DEF Ask, Confirm, Return, BridgeTypeOK
  <2>4. UNCHANGED <<inputs, child, printed, code, aborted>> BY <1>8 DEF Ask, Confirm
  <2> QED BY <1>e, <2>1, <2>2, <2>3, <2>4, SettledSteps
<1>9. CASE Ask /\ at' # "answered"
  <2>1. /\ at = "settled" /\ at' = "asking" /\ code = 0 /\ Readable /\ Wire.says = "ask"
        /\ UNCHANGED <<inputs, child, printed, code, aborted, failed, yes, told, reply>>
    BY <1>9 DEF Ask, Return
  <2>2. event' = event /\ Wire' = Wire BY <2>1, InputsStay
  <2>3. Readable' BY <2>1, <2>2 DEF Readable
  <2>4. BridgeTypeOK' BY <1>i, <2>1, <2>2 DEF BridgeTypeOK, inputs
  <2>5. Children' BY <1>i, <2>1, <2>2 DEF Children, inputs
  <2>6. Untold' BY <1>i, <2>1, <2>2, <2>3 DEF Untold
  <2>7. FailedWhy' /\ FailedLoud' /\ Translated'
    BY <1>i, <2>1 DEF Untold, FailedWhy, FailedLoud, Translated
  <2> QED BY <2>4, <2>5, <2>6, <2>7 DEF BridgeInv
<1>10. CASE FailedOpen
  <2>1. /\ at = "failed" /\ at' = "answered"
        /\ told' = told \cup Notice(BridgeText) /\ reply' = Passive(BridgeText)
        /\ UNCHANGED <<inputs, child, printed, code, aborted, failed, yes>>
    BY <1>10 DEF FailedOpen
  <2>2. /\ event' = event /\ Wire' = Wire /\ Verdict' = Verdict
        /\ \A t : Notice(t)' = Notice(t) /\ Passive(t)' = Passive(t)
        /\ \A t : PassiveThrows(t)' = PassiveThrows(t)
    BY <2>1, InputsStay
  <2>3. BridgeText' = BridgeText BY DEF BridgeText
  <2>4. failed BY <1>i, <2>1 DEF Untold
  <2>5. BridgeTypeOK' BY <1>i, <2>1, <2>2 DEF BridgeTypeOK, inputs
  <2>6. Children' BY <1>i, <2>1, <2>2 DEF Children, inputs
  <2>7. Untold' BY <2>1 DEF Untold
  <2>8. Heard' = Heard BY <2>1 DEF Heard
  <2>9. FailedWhy' BY <1>i, <2>1, <2>2, <2>8 DEF FailedWhy
  <2>10. FailedLoud' BY <2>1, <2>2, <2>3 DEF FailedLoud
  <2>11. Translated' BY <2>1, <2>4 DEF Translated
  <2> QED BY <2>5, <2>6, <2>7, <2>9, <2>10, <2>11 DEF BridgeInv
<1>11. CASE UNCHANGED vars
  <2>1. UNCHANGED <<native, ctx, hook, at, child, printed, code, aborted, failed, yes, told, reply>>
    BY <1>11 DEF vars, inputs
  <2>2. /\ event' = event /\ Wire' = Wire /\ Verdict' = Verdict
        /\ \A t : Notice(t)' = Notice(t) /\ Passive(t)' = Passive(t)
        /\ \A t : PassiveThrows(t)' = PassiveThrows(t)
    BY <1>11, InputsStay DEF vars
  <2>3. BridgeText' = BridgeText /\ Heard' = Heard /\ Readable' = Readable /\ Reachable' = Reachable
    BY <2>1, <2>2 DEF BridgeText, Heard, Readable, Reachable
  <2>4. BridgeTypeOK' /\ Children' BY <1>i, <2>1, <2>2 DEF BridgeTypeOK, Children
  <2>5. Untold' BY <1>i, <2>1, <2>2, <2>3 DEF Untold
  <2>6. FailedWhy' BY <1>i, <2>1, <2>2, <2>3 DEF FailedWhy
  <2>7. FailedLoud' BY <1>i, <2>1, <2>2, <2>3 DEF FailedLoud
  <2>8. Refused' = Refused BY <2>1, <2>2 DEF Refused
  <2>9. HeardByAgent' = HeardByAgent BY <2>2, <2>8 DEF HeardByAgent
  <2>10. Shown' = Shown BY <2>1, <2>2, <2>3 DEF Shown
  <2>11. Translation' = Translation BY <2>1, <2>2, <2>8, <2>9, <2>10 DEF Translation
  <2>12. Translated' BY <1>i, <2>1, <2>2, <2>3, <2>11 DEF Translated
  <2> QED BY <2>4, <2>5, <2>6, <2>7, <2>12 DEF BridgeInv
<1> QED BY <1>1, <1>2, <1>3, <1>4, <1>5, <1>6, <1>7, <1>8, <1>9, <1>10, <1>11 DEF Next, Handler

LEMMA BridgeInvariant == Spec => []BridgeInv
BY BridgeStarts, BridgeInductive, PTL DEF Spec

-----------------------------------------------------------------------------
\* No hook outlives its call: when omp goes on, or the user is asked, the child is gone.
THEOREM ChildGoneHolds == Spec => []ChildGone
<1>1. BridgeInv => ChildGone BY DEF BridgeInv, Children, ChildGone
<1> QED BY <1>1, BridgeInvariant, PTL

\* A call whose answer was not to be had goes on, and whoever can hear of it does.
THEOREM FailsOpenLoudlyHolds == Spec => []FailsOpenLoudly
<1>1. ASSUME BridgeInv PROVE FailsOpenLoudly
  <2> SUFFICES ASSUME Answered, ~Heard PROVE FailsOpenLoudly BY DEF FailsOpenLoudly
  <2>1. failed BY <1>1 DEF BridgeInv, Translated, Answered
  <2>2. Notice(BridgeText) \subseteq told /\ reply = Passive(BridgeText)
    BY <1>1, <2>1 DEF BridgeInv, FailedLoud, Answered
  <2>3. BridgeText # Silence
    <3>1. BridgeText.failures = {"bridge"} BY DEF BridgeText, Silence
    <3>2. Silence.failures = {} BY DEF Silence
    <3> QED BY <3>1, <3>2
  <2>4. Reachable => BridgeText \in told BY <2>2, <2>3 DEF Notice, Reachable
  <2>5. /\ reply.does = "proceed"
        /\ event \in {"PreToolUse", "PostToolUse"} => reply.context = BridgeText
        /\ event \in Starts /\ ctx.sends => reply.sent = BridgeText
    BY <2>2, ReplyFields
  <2> QED BY <2>4, <2>5 DEF FailsOpenLoudly
<1> QED BY <1>1, BridgeInvariant, PTL

\* What the handler returns is what Harness says omp does with the answer.
THEOREM TranslatesTheAnswerHolds == Spec => []TranslatesTheAnswer
<1>1. ASSUME BridgeInv PROVE TranslatesTheAnswer
  <2>1. CASE Answered /\ Heard /\ failed
    <3>1. PassiveThrows(Wire.context) /\ Verdict = "proceed"
      BY <1>1, <2>1 DEF BridgeInv, FailedWhy
    <3> QED BY <2>1, <3>1 DEF TranslatesTheAnswer
  <2>2. CASE Answered /\ Heard /\ ~failed
    <3>1. Translation BY <1>1, <2>2 DEF BridgeInv, Translated, Answered
    <3>2. /\ ~failed
          /\ reply.does = IF Refused \/ Verdict = "denied" THEN "denied" ELSE "proceed"
          /\ {reply.reason, reply.context, reply.sent} \ {Silence} = HeardByAgent \ {Silence}
          /\ told = IF Shown THEN HumanHears("omp", event, Wire) \ {Silence} ELSE {}
      BY <2>2, <3>1 DEF Translation
    <3> QED BY <3>2 DEF TranslatesTheAnswer, Refused, HeardByAgent, Shown
  <2> QED BY <2>1, <2>2 DEF TranslatesTheAnswer
<1> QED BY <1>1, BridgeInvariant, PTL
=============================================================================
