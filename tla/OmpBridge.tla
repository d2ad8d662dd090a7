------------------------------ MODULE OmpBridge ------------------------------
(***************************************************************************)
(* oh-my-pi's half of the Adapter (internal/harness/omp-extension.js): one *)
(* native event of a session, from the handler omp calls to what the       *)
(* handler returns.  The handler spawns `handrail hook omp <event>`, reads *)
(* its streams, kills it after a second or when the session's signal says  *)
(* so, reads the answer Deliver wrote (Harness) and translates it for omp: *)
(* a block, context, a message, a dialog, a line to the user.  The child,  *)
(* the timer, the signal and the user move on their own.                   *)
(***************************************************************************)
EXTENDS Harness

CONSTANTS Contexts,  \* what a session can do: a set of records, see Ctx
          MatchSets, \* the sets of matched rules a hook may deliver
          None

\* A session: is it a terminal's, has it dialogs, do they, its stderr and its messages
\* work?
Ctx == [tui : BOOLEAN, hasUI : BOOLEAN, notifies : BOOLEAN, stderr : BOOLEAN, sends : BOOLEAN]

ASSUME ContextsAssumption == Contexts \subseteq Ctx
ASSUME MatchesAssumption ==
  \A S \in MatchSets : \A m \in S : m.rule \in Rules /\ m.trial \in BOOLEAN
ASSUME NoneAssumption == None \notin {"yes", "no"}

VARIABLES
  native,  \* omp's event: its name, the agent's kind, isError or willContinue, and
           \* whether the fields envelope reads are there
  ctx,     \* the session
  hook,    \* what the hook would do: what it delivers, whether it can be run at all
  at,      \* how far the handler is
  child,   \* the hook process
  printed, \* how much of its JSON the child has written
  code,    \* the child's exit code
  aborted, \* the session's signal fired
  failed,  \* the handler went through failedOpen
  yes,     \* what the dialog returned
  told,    \* the texts the user got
  reply    \* what the handler returned, and what it sent as a message

inputs == <<native, ctx, hook>>
vars == <<inputs, at, child, printed, code, aborted, failed, yes, told, reply>>

SessionMoves == {"session_start", "session_switch", "session_branch", "session_tree", "session_compact"}
Natives ==
  {n \in [name : {"tool_call", "tool_result", "session_shutdown", "session_stop", "agent_end"} \cup SessionMoves,
          kind : {"main", "sub"}, flag : BOOLEAN, whole : BOOLEAN] :
     /\ n.flag => n.name \in {"tool_result", "agent_end"}
     /\ ~n.whole => n.kind = "sub"}

\* The handlers: a sub-agent starts, works and ends; the session is the main agent's.
EventOf(n) ==
  CASE n.name = "tool_call" -> "PreToolUse"
    [] n.name = "tool_result" /\ ~n.flag -> "PostToolUse"
    [] n.name \in SessionMoves /\ n.kind = "main" -> "SessionStart"
    [] n.name = "session_start" /\ n.kind = "sub" -> "SubagentStart"
    [] n.name = "session_shutdown" /\ n.kind = "main" -> "SessionEnd"
    [] n.name = "session_stop" /\ n.kind = "main" -> "Stop"
    [] n.name = "agent_end" /\ n.kind = "sub" /\ ~n.flag -> "SubagentStop"
    [] OTHER -> None

event == EventOf(native)

\* envelope reads through fields of the agent and of the event it expects to be there.
EnvelopeFails == ~native.whole /\ event \in {"SubagentStart", "SubagentStop"}

\* What Deliver leaves: the answer, the exit code and stderr.
Answer(encodes) ==
  Deliver("omp", event,
          AgentText("omp", event, hook.standing, hook.matches, hook.failures),
          HumanText("omp", event, hook.standing, hook.matches, hook.failures),
          Outcome("omp", event, hook.matches), encodes)
Wire == Answer(hook.encodes)

\* Is there JSON to write at all?
HasJSON == Answer(TRUE).exit = 0 /\ Answer(TRUE) # NoAnswer

Hooks ==
  [matches : MatchSets, standing : BOOLEAN, failures : {{}, {"broken"}},
   encodes : BOOLEAN, runs : BOOLEAN]

NoReply == [does |-> "proceed", reason |-> Silence, context |-> Silence, sent |-> Silence]

Init ==
  /\ native \in Natives /\ ctx \in Contexts
  /\ hook \in {k \in Hooks : /\ k.standing => event = "SessionStart"
                             /\ \A m \in k.matches : ValidOn(m.rule, event)}
  /\ at = "called" /\ child = "none" /\ printed = "none" /\ code = None
  /\ aborted = FALSE /\ failed = FALSE /\ yes = None /\ told = {} /\ reply = NoReply

-----------------------------------------------------------------------------
\* The hook process, and what may befall it.

\* A hook that cannot run as installed exits 1, saying so on stderr only.
HookPrints ==
  /\ child = "running" /\ hook.runs /\ HasJSON
  /\ \/ printed = "none" /\ printed' = "part"
     \/ printed = "part" /\ hook.encodes /\ printed' = "whole"
  /\ UNCHANGED <<inputs, at, child, code, aborted, failed, yes, told, reply>>

HookExits ==
  /\ child = "running" /\ child' = "exited"
  /\ hook.runs /\ HasJSON /\ hook.encodes => printed = "whole"
  /\ code' = IF hook.runs THEN Wire.exit ELSE 1
  /\ UNCHANGED <<inputs, at, printed, aborted, failed, yes, told, reply>>

\* Mutant: a timer that output stops, as an idle timer would.
Timeout_IdleOnly ==
  /\ child = "running" /\ printed = "none" /\ child' = "dying"
  /\ UNCHANGED <<inputs, at, printed, code, aborted, failed, yes, told, reply>>

\* Bun's timer, a second after the spawn.
Timeout ==
  /\ child = "running" /\ child' = "dying"
  /\ UNCHANGED <<inputs, at, printed, code, aborted, failed, yes, told, reply>>

\* The user or omp calls the event off: Bun kills the child, if there is one yet.
Abort ==
  /\ at \in {"called", "waiting"} /\ ~aborted /\ aborted' = TRUE
  /\ child' = IF child = "running" THEN "dying" ELSE child
  /\ UNCHANGED <<inputs, at, printed, code, failed, yes, told, reply>>

Dies ==
  /\ child = "dying" /\ child' = "killed"
  /\ UNCHANGED <<inputs, at, printed, code, aborted, failed, yes, told, reply>>

-----------------------------------------------------------------------------
\* The handler.

\* An event no handler is for.
Ignore ==
  /\ at = "called" /\ event = None /\ at' = "answered"
  /\ UNCHANGED <<inputs, child, printed, code, aborted, failed, yes, told, reply>>

Throw == at' = "failed" /\ failed' = TRUE

\* envelope and Bun.spawn.  Either may throw before there is a child.
Spawn ==
  /\ at = "called" /\ event # None
  /\ \/ Throw /\ UNCHANGED child
     \/ /\ ~EnvelopeFails /\ at' = "waiting" /\ UNCHANGED failed
        /\ child' = IF aborted THEN "dying" ELSE "running"
  /\ UNCHANGED <<inputs, printed, code, aborted, yes, told, reply>>

Gone == child \in {"exited", "killed"}

\* Mutant: a stream that broke ends the call, and whoever is left of the child.
ReadBreaks_NoWait ==
  /\ at = "waiting" /\ printed' = "lost" /\ Throw
  /\ child' = IF child = "running" THEN "dying" ELSE child
  /\ UNCHANGED <<inputs, code, aborted, yes, told, reply>>

\* A stream cannot be read: the child is killed, and waited for before anything else.
ReadBreaks ==
  /\ at = "waiting" /\ at' = "reaping" /\ printed' = "lost"
  /\ child' = IF child = "running" THEN "dying" ELSE child
  /\ UNCHANGED <<inputs, code, aborted, failed, yes, told, reply>>

Reap ==
  /\ at = "reaping" /\ Gone /\ Throw
  /\ UNCHANGED <<inputs, child, printed, code, aborted, yes, told, reply>>

\* Mutant: the exit code is looked at, what ended the child is not.
Settle_NoSignal ==
  /\ at = "waiting" /\ Gone
  /\ IF code \in {0, 2, None} THEN at' = "settled" /\ UNCHANGED failed ELSE Throw
  /\ UNCHANGED <<inputs, child, printed, code, aborted, yes, told, reply>>

\* Both streams are at their end and the child has gone of itself, with a code that is
\* an answer; or the call failed.
Settle ==
  /\ at = "waiting" /\ Gone
  /\ IF ~aborted /\ child = "exited" /\ code \in {0, 2}
       THEN at' = "settled" /\ UNCHANGED failed ELSE Throw
  /\ UNCHANGED <<inputs, child, printed, code, aborted, yes, told, reply>>

\* Mutant: a terminal's notice that throws is not written to stderr.
Notice_OneChannel(text) ==
  IF text # Silence /\ (IF ctx.tui THEN ctx.notifies ELSE ctx.stderr) THEN {text} ELSE {}

\* notice: the terminal's UI, then stderr, then nothing.
Notice(text) ==
  IF text # Silence /\ ((ctx.tui /\ ctx.notifies) \/ ctx.stderr) THEN {text} ELSE {}

\* passive: context where a tool handler can return it, a message where a session
\* starts.  Only sending a message can throw.  Its mutant sends none.
Starts == {"SessionStart", "SubagentStart"}
PassiveThrows(text) == event \in Starts /\ text # Silence /\ ~ctx.sends
Passive_ToolsOnly(text) ==
  IF event \in {"PreToolUse", "PostToolUse"} THEN [NoReply EXCEPT !.context = text] ELSE NoReply
Passive(text) ==
  IF event \in {"PreToolUse", "PostToolUse"} THEN [NoReply EXCEPT !.context = text]
  ELSE IF event \in Starts /\ ctx.sends THEN [NoReply EXCEPT !.sent = text]
  ELSE NoReply

Denial(reason) == [NoReply EXCEPT !.does = "denied", !.reason = reason]
Return(r) == at' = "answered" /\ reply' = r /\ UNCHANGED failed
ReturnPassive(text) ==
  IF PassiveThrows(text) THEN Throw /\ UNCHANGED reply ELSE Return(Passive(text))

\* response: is the JSON whole, and an answer this event can have?  A decision that is
\* there has a reason.
Readable ==
  \/ printed = "none"
  \/ /\ printed = "whole"
     /\ Wire.says = "block" => event = "Stop"
     /\ Wire.says \in {"permissionDeny", "ask"} => event = "PreToolUse"
     /\ Wire.says \in {"block", "permissionDeny", "ask"} => Wire.reason # Silence

\* A child that exits 2 has its answer on stderr; half an answer may be on stdout.
AnswerExit2 ==
  /\ at = "settled" /\ code = 2
  /\ IF event \in {"PreToolUse", "Stop", "SessionEnd"}
       THEN /\ told' = told \cup Notice(Wire.stderr)
            /\ Return(IF event = "SessionEnd" THEN NoReply ELSE Denial(Wire.stderr))
       ELSE Throw /\ UNCHANGED <<told, reply>>
  /\ UNCHANGED <<inputs, child, printed, code, aborted, yes>>

\* Everything but a question.
AnswerJSON ==
  /\ at = "settled" /\ code = 0 /\ ~(Readable /\ Wire.says = "ask")
  /\ IF ~Readable THEN Throw /\ UNCHANGED <<told, reply>>
     ELSE /\ told' = told \cup Notice(Wire.system)
          /\ IF Wire.says \in {"permissionDeny", "block"} THEN Return(Denial(Wire.reason))
             ELSE ReturnPassive(Wire.context)
  /\ UNCHANGED <<inputs, child, printed, code, aborted, yes>>

\* A question needs a dialog: without one it is refused.
Ask ==
  /\ at = "settled" /\ code = 0 /\ Readable /\ Wire.says = "ask"
  /\ IF ctx.hasUI THEN at' = "asking" /\ UNCHANGED <<failed, reply>>
     ELSE Return(Denial(Wire.reason))
  /\ UNCHANGED <<inputs, child, printed, code, aborted, yes, told>>

\* Mutant: a dialog that throws leaves the call to go on.
Confirm_ThrowIsYes ==
  /\ at = "asking" /\ yes' \in {"yes", "no", "threw"}
  /\ told' = told \cup IF yes' = "threw" THEN {} ELSE {Wire.reason}
  /\ Return(IF yes' # "no" THEN Passive(Wire.context) ELSE Denial(Wire.reason))
  /\ UNCHANGED <<inputs, child, printed, code, aborted>>

\* The dialog returns true, anything else, or throws.
Confirm ==
  /\ at = "asking" /\ yes' \in {"yes", "no", "threw"}
  /\ told' = told \cup IF yes' = "threw" THEN {} ELSE {Wire.reason}
  /\ Return(IF yes' = "yes" THEN Passive(Wire.context) ELSE Denial(Wire.reason))
  /\ UNCHANGED <<inputs, child, printed, code, aborted>>

BridgeText == [Silence EXCEPT !.failures = {"bridge"}]

\* failedOpen: to the user, then to the agent; a message that cannot be sent is told to
\* the user as well.
FailedOpen ==
  /\ at = "failed" /\ at' = "answered"
  /\ told' = told \cup Notice(BridgeText)
  /\ reply' = Passive(BridgeText)
  /\ UNCHANGED <<inputs, child, printed, code, aborted, failed, yes>>

Handler ==
  Ignore \/ Spawn \/ Reap \/ Settle \/ AnswerExit2 \/ AnswerJSON \/ Ask \/ FailedOpen
Next == Handler \/ HookPrints \/ HookExits \/ Timeout \/ Abort \/ Dies \/ ReadBreaks \/ Confirm

\* omp runs its handlers, Bun's timer fires and SIGKILL is not refused.  Nothing is
\* assumed of the hook, of the session's signal or of the user.
Fairness == WF_vars(Handler) /\ WF_vars(Timeout) /\ WF_vars(Dies)

Spec == Init /\ [][Next]_vars /\ Fairness

-----------------------------------------------------------------------------
Answered == at = "answered" /\ event # None

\* The hook's answer is there to be had: it ran to its own end unaborted, with an exit
\* code that is an answer, and its JSON is whole or there is none.
Heard ==
  /\ child = "exited" /\ ~aborted /\ code \in {0, 2}
  /\ printed = "none" \/ printed = "whole" \/ (printed = "part" /\ code = 2)

Verdict == HostDoes("omp", event, Wire)
Reachable == (ctx.tui /\ ctx.notifies) \/ ctx.stderr

\* The bridge is the omp that Harness takes for granted.  What the handler returns is
\* what Harness says omp does with the answer, a question being a denial until the user
\* says yes; the agent hears the reason of a denial, the context and the message, the
\* user the notice, or the question, once.  Every answer handrail writes for omp is one
\* the bridge reads, and half an answer beside exit 2 is not read as one.
TranslatesTheAnswer ==
  Answered /\ Heard =>
    LET refused == Verdict = "ask" /\ yes # "yes"
        agent == IF refused THEN {Wire.reason} ELSE AgentHears("omp", event, Wire)
        shown == IF Verdict = "ask" THEN yes \in {"yes", "no"} ELSE Reachable IN
    \/ failed /\ PassiveThrows(Wire.context) /\ Verdict = "proceed"
    \/ /\ ~failed
       /\ reply.does = IF refused \/ Verdict = "denied" THEN "denied" ELSE "proceed"
       /\ {reply.reason, reply.context, reply.sent} \ {Silence} = agent \ {Silence}
       /\ told = IF shown THEN HumanHears("omp", event, Wire) \ {Silence} ELSE {}

\* It fails open loudly: a call whose answer was not to be had goes on, the user is told
\* of it wherever a channel works, and so is the agent where it hears passive text.
FailsOpenLoudly ==
  Answered /\ ~Heard =>
    /\ reply.does = "proceed"
    /\ Reachable => BridgeText \in told
    /\ event \in {"PreToolUse", "PostToolUse"} => reply.context = BridgeText
    /\ event \in Starts /\ ctx.sends => reply.sent = BridgeText

\* No hook outlives its call: when omp goes on, or the user is asked, the child is gone.
ChildGone == at \in {"answered", "asking"} => child \in {"none", "exited", "killed"}

\* A call waits for its user and for nobody else: whatever the hook does, the handler
\* returns or has a dialog open.
CallEnds == at = "called" ~> at \in {"answered", "asking"}
=============================================================================
