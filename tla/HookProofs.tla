----------------------------- MODULE HookProofs -----------------------------
(***************************************************************************)
(* Theorems about one event through the hook, for any rules the parser     *)
(* lets through, any machine state, any limit on a line and any number of  *)
(* commands and edits meanwhile.                                           *)
(*                                                                         *)
(* What is told and decided is a matter of the answer alone, and the       *)
(* answer is made of what the pipeline had loaded by then.  So the         *)
(* inductive invariant, HookInv, says at each place in the pipeline what   *)
(* has been made of what, however the user's commands fall between; the    *)
(* theorems then follow from what a harness makes of the answer            *)
(* (HarnessProofs).                                                        *)
(***************************************************************************)
EXTENDS Hook, HarnessProofs, FiniteSetTheorems, SequenceTheorems

HookTypeOK ==
  /\ harness \in Harnesses /\ event \in Rows(harness)
  /\ rules \subseteq Rules /\ \A r \in rules : ValidOn(r, event)
  /\ own \in States \cup {None} /\ machine \in States
  /\ grant \in BOOLEAN /\ broken \in BOOLEAN /\ owed \in BOOLEAN /\ toggles \in Nat
  /\ at \in {"fired", "read", "off", "loaded", "recorded", "answered"}
  /\ active \in BOOLEAN /\ about \in BOOLEAN /\ faults \subseteq {"payload", "cwd"}
  /\ seen \in [state : States \cup {None}, broken : BOOLEAN]
  /\ unlogged \in BOOLEAN /\ lost \in BOOLEAN /\ changed \subseteq {"own", "grant"}

\* A continuation is of a stop, and only a subagent's start or end can be about nothing.
Started ==
  /\ active => event \in StopEvents
  /\ ~about => event \in {"SubagentStart", "SubagentStop"}

\* How far the event is tells what the load found, and that nothing is on record yet.
Placed ==
  /\ at = "off" => seen.state = "off"
  /\ at \in {"loaded", "recorded"} => seen.state # "off"
  /\ at \in {"fired", "read", "off", "loaded"} => lines = {} /\ ~unlogged
  /\ at = "answered" /\ seen.state = "off" => lines = {} /\ ~unlogged

\* The state the load found is still in force, as long as nobody changed it.
StillSo ==
  "own" \notin changed /\ at \notin {"fired", "read"} => seen.state = StateOf

\* The lines are those the event owed, or none.
Recorded ==
  at \in {"recorded", "answered"} /\ seen.state # "off" =>
    \E granted \in BOOLEAN, size \in Sizes :
      /\ "grant" \notin changed => granted = Granted
      /\ \/ lines = Owed(granted, size) /\ unlogged = FALSE
         \/ lines = {} /\ unlogged = TRUE

\* The answer is made of the matches, or is the notice of the state off.
OffNotice == IF event = "SessionStart" THEN [Silence EXCEPT !.standing = TRUE] ELSE Silence
AgentWords == AgentText(harness, event, Standing, Matched, Failures)
HumanWords == HumanText(harness, event, Standing, Matched, Failures)
Worded ==
  at = "answered" =>
    wire = IF seen.state = "off"
             THEN Deliver(harness, event, OffNotice, OffNotice, "allow", ~lost)
             ELSE Deliver(harness, event, AgentWords, HumanWords,
                          Outcome(harness, event, Matched), ~lost)

HookInv == HookTypeOK /\ Started /\ Placed /\ StillSo /\ Recorded /\ Worded

-----------------------------------------------------------------------------
\* What was read and loaded makes the payloads and the matches, whatever the user does
\* meanwhile.
LEMMA MatchedStays ==
  ASSUME UNCHANGED <<event, rules, active, about, faults, seen>>
  PROVE  Payloads' = Payloads /\ Matched' = Matched
<1>1. NotRead' = NotRead /\ Continued' = Continued BY DEF NotRead, Continued
<1>2. Marks' = Marks /\ CallKind' = CallKind BY <1>1 DEF Marks, CallKind
<1>3. Payloads' = Payloads BY <1>1, <1>2 DEF Payloads
<1>4. \A r : On(r)' = On(r) BY <1>3 DEF On
<1>5. Tried' = Tried BY <1>1 DEF Tried
<1>6. Matched' = Matched BY <1>4, <1>5 DEF Matched
<1> QED BY <1>3, <1>6

LEMMA OwedStays ==
  ASSUME UNCHANGED <<harness, event, rules, active, about, faults, seen>>
  PROVE  \A granted, size : Owed(granted, size)' = Owed(granted, size)
<1>1. Payloads' = Payloads /\ Matched' = Matched BY MatchedStays
<1>2. \A i, granted, size : Line(i, granted, size)' = Line(i, granted, size)
  BY <1>1 DEF Line
<1> QED BY <1>1, <1>2 DEF Owed

\* So the answer, once it is given, and the lines, once they are written, stay true.
LEMMA WordsStay ==
  ASSUME UNCHANGED <<harness, event, rules, owed, active, about, faults, seen, unlogged>>
  PROVE  /\ AgentWords' = AgentWords /\ HumanWords' = HumanWords
         /\ Outcome(harness, event, Matched)' = Outcome(harness, event, Matched)
<1>1. Matched' = Matched BY MatchedStays
<1>2. Failures' = Failures /\ Standing' = Standing BY DEF Failures, Standing
<1> QED BY <1>1, <1>2 DEF AgentWords, HumanWords

\* The matches are as the engine makes them.
LEMMA MatchesAreOnEvent == HookTypeOK => MatchesOn(Matched, event)
<1> SUFFICES ASSUME HookTypeOK, NEW m \in Matched
             PROVE  m.rule \in Rules /\ ValidOn(m.rule, event) /\ m.trial \in BOOLEAN
  BY DEF MatchesOn
<1>1. PICK r \in Tried : m = [rule |-> r, on |-> On(r), trial |-> r.trial \/ seen.state = "trial"]
  BY DEF Matched
<1>2. r \in rules BY <1>1 DEF Tried
<1>3. r \in Rules /\ ValidOn(r, event) BY <1>2 DEF HookTypeOK
<1>4. m.rule = r /\ m.trial = (r.trial \/ seen.state = "trial") BY <1>1
<1>5. (r.trial \/ seen.state = "trial") \in BOOLEAN OBVIOUS
<1> QED BY <1>3, <1>4, <1>5

-----------------------------------------------------------------------------
LEMMA HookStarts == Init => HookInv
<1> SUFFICES ASSUME Init PROVE HookInv OBVIOUS
<1> USE RulesetsAssumption, MachineAssumption
<1>1. rules \subseteq Rules /\ \A r \in rules : ValidOn(r, event) BY DEF Init
<1>2. machine \in States BY DEF Init
<1>3. HookTypeOK BY <1>1, <1>2 DEF Init, HookTypeOK, Unseen
<1>4. Started BY DEF Init, Started
<1>5. Placed /\ StillSo /\ Recorded /\ Worded BY DEF Init, Placed, StillSo, Recorded, Worded
<1> QED BY <1>3, <1>4, <1>5 DEF HookInv

LEMMA HookInductive == HookInv /\ [Next]_vars => HookInv'
<1> SUFFICES ASSUME HookInv, [Next]_vars PROVE HookInv' OBVIOUS
<1>i. HookTypeOK /\ Started /\ Placed /\ StillSo /\ Recorded /\ Worded BY DEF HookInv
<1>1. CASE ReadCall
  <2>1. HookTypeOK' BY <1>i, <1>1 DEF HookTypeOK, ReadCall, turn, env
  <2>2. Started' /\ Placed' BY <1>i, <1>1 DEF Started, Placed, ReadCall, turn, env
  <2>3. at' = "read" BY <1>1 DEF ReadCall
  <2>4. StillSo' /\ Recorded' /\ Worded' BY <2>3 DEF StillSo, Recorded, Worded
  <2> QED BY <2>1, <2>2, <2>4 DEF HookInv
<1>2. CASE Load
  <2>1. StateOf \in States BY <1>i DEF HookTypeOK, StateOf
  <2>2. HookTypeOK' BY <1>i, <1>2, <2>1 DEF HookTypeOK, Load, turn, env
  <2>3. Started' BY <1>i, <1>2 DEF Started, Load, turn, env
  <2>4. Placed' BY <1>i, <1>2 DEF Placed, Load
  <2>5. StateOf' = StateOf BY <1>2 DEF StateOf, Load, env
  <2>6. StillSo' BY <1>2, <2>5 DEF StillSo, Load, env
  <2>7. Recorded' /\ Worded' BY <1>2 DEF Recorded, Worded, Load
  <2> QED BY <2>2, <2>3, <2>4, <2>6, <2>7 DEF HookInv
<1>3. CASE Record
  <2>1. HookTypeOK' BY <1>i, <1>3 DEF HookTypeOK, Record, turn, env
  <2>2. Started' BY <1>i, <1>3 DEF Started, Record, turn, env
  <2>3. Placed' BY <1>i, <1>3 DEF Placed, Record
  <2>4. StateOf' = StateOf /\ Granted' = Granted
    BY <1>3 DEF StateOf, Granted, Record, env
  <2>5. StillSo' BY <1>i, <1>3, <2>4 DEF StillSo, Record, env
  <2>6. Recorded'
    <3>1. PICK size \in Sizes : \/ lines' = Owed(Granted, size) /\ unlogged' = FALSE
                                \/ lines' = {} /\ unlogged' = TRUE
      BY <1>3 DEF Record
    <3>2. Owed(Granted, size)' = Owed(Granted, size)
      BY <1>3, <2>4, OwedStays DEF Record, turn, env
    <3>3. Granted \in BOOLEAN BY <1>i DEF Granted, HookTypeOK
    <3>4. \A granted : Owed(granted, size)' = Owed(granted, size)
      BY <1>3, OwedStays DEF Record, turn, env
    <3> QED BY <2>4, <3>1, <3>3, <3>4 DEF Recorded
  <2>7. Worded' BY <1>3 DEF Worded, Record
  <2> QED BY <2>1, <2>2, <2>3, <2>5, <2>6, <2>7 DEF HookInv
<1>4. CASE Respond
  <2>1. HookTypeOK' BY <1>i, <1>4 DEF HookTypeOK, Respond, Answer, turn, env
  <2>2. Started' BY <1>i, <1>4 DEF Started, Respond, Answer, turn, env
  <2>3. Placed' BY <1>i, <1>4 DEF Placed, Respond, Answer
  <2>4. StateOf' = StateOf /\ Granted' = Granted
    BY <1>4 DEF StateOf, Granted, Respond, Answer, env
  <2>5. StillSo' BY <1>i, <1>4, <2>4 DEF StillSo, Respond, Answer, env
  <2>6. \A granted, size : Owed(granted, size)' = Owed(granted, size)
    BY <1>4, OwedStays DEF Respond, Answer, turn, env
  <2>7. Recorded' BY <1>i, <1>4, <2>4, <2>6 DEF Recorded, Respond, Answer
  <2>8. /\ AgentWords' = AgentWords /\ HumanWords' = HumanWords
        /\ Outcome(harness, event, Matched)' = Outcome(harness, event, Matched)
    BY <1>4, WordsStay DEF Respond, Answer, turn, env
  <2>9. PICK encodes \in BOOLEAN :
          lost' = ~encodes /\ wire' = Deliver(harness, event, AgentWords, HumanWords,
                                              Outcome(harness, event, Matched), encodes)
    BY <1>4 DEF Respond, Answer, AgentWords, HumanWords
  <2>10. (~lost)' = encodes BY <2>9
  <2>11. seen'.state # "off" /\ UNCHANGED <<harness, event>>
    BY <1>i, <1>4 DEF Placed, Respond, Answer, turn
  <2>12. Worded' BY <2>8, <2>9, <2>10, <2>11 DEF Worded
  <2> QED BY <2>1, <2>2, <2>3, <2>5, <2>7, <2>12 DEF HookInv
<1>5. CASE RespondOff
  <2>1. HookTypeOK' BY <1>i, <1>5 DEF HookTypeOK, RespondOff, Answer, turn, env
  <2>2. Started' BY <1>i, <1>5 DEF Started, RespondOff, Answer, turn, env
  <2>3. Placed' BY <1>i, <1>5 DEF Placed, RespondOff, Answer
  <2>4. StateOf' = StateOf BY <1>5 DEF StateOf, RespondOff, Answer, env
  <2>5. StillSo' BY <1>i, <1>5, <2>4 DEF StillSo, RespondOff, Answer, env
  <2>6. seen'.state = "off" /\ UNCHANGED <<harness, event>>
    BY <1>i, <1>5 DEF Placed, RespondOff, Answer, turn
  <2>7. Recorded' BY <2>6 DEF Recorded
  <2>8. PICK encodes \in BOOLEAN :
          lost' = ~encodes /\ wire' = Deliver(harness, event, OffNotice, OffNotice, "allow", encodes)
    BY <1>5 DEF RespondOff, Answer, OffNotice
  <2>9. (~lost)' = encodes /\ OffNotice' = OffNotice BY <2>6, <2>8 DEF OffNotice
  <2>10. Worded' BY <2>6, <2>8, <2>9 DEF Worded
  <2> QED BY <2>1, <2>2, <2>3, <2>5, <2>7, <2>10 DEF HookInv
<1>6. CASE FireAgain
  <2>1. HookTypeOK' BY <1>i, <1>6 DEF HookTypeOK, FireAgain, Unseen, turn, env
  <2>2. Started' /\ Placed' BY <1>i, <1>6 DEF Started, Placed, FireAgain, turn
  <2>3. at' = "fired" BY <1>6 DEF FireAgain
  <2>4. StillSo' /\ Recorded' /\ Worded' BY <2>3 DEF StillSo, Recorded, Worded
  <2> QED BY <2>1, <2>2, <2>4 DEF HookInv
\* A command of the user's changes nothing the event has read.
<1>7. CASE Toggle
  <2>0. /\ own' \in States \cup {None} /\ grant' \in BOOLEAN /\ broken' \in BOOLEAN
        /\ toggles' \in Nat
    BY <1>i, <1>7 DEF HookTypeOK, Toggle
  <2>1. HookTypeOK' BY <1>i, <1>7, <2>0 DEF HookTypeOK, Toggle, turn
  <2>2. Started' /\ Placed' BY <1>i, <1>7 DEF Started, Placed, Toggle, turn
  <2>3. /\ "own" \notin changed' => "own" \notin changed /\ StateOf' = StateOf
        /\ "grant" \notin changed' => "grant" \notin changed /\ Granted' = Granted
    BY <1>7 DEF Toggle, StateOf, Granted
  <2>4. \A granted, size : Owed(granted, size)' = Owed(granted, size)
    BY <1>7, OwedStays DEF Toggle, turn
  <2>5. Recorded' BY <1>i, <1>7, <2>3, <2>4 DEF Recorded, Toggle
  <2>6. StillSo' BY <1>i, <1>7, <2>3 DEF StillSo, Toggle
  <2>7. /\ AgentWords' = AgentWords /\ HumanWords' = HumanWords
        /\ Outcome(harness, event, Matched)' = Outcome(harness, event, Matched)
        /\ OffNotice' = OffNotice
    BY <1>7, WordsStay DEF Toggle, turn, OffNotice
  <2>8. Worded' BY <1>i, <1>7, <2>7 DEF Worded, Toggle, turn
  <2> QED BY <2>1, <2>2, <2>5, <2>6, <2>8 DEF HookInv
<1>8. CASE UNCHANGED vars
  <2> USE <1>8 DEF vars, turn, env
  <2>1. HookTypeOK' BY <1>i DEF HookTypeOK
  <2>2. Started' /\ Placed' BY <1>i DEF Started, Placed
  <2>3. StateOf' = StateOf /\ Granted' = Granted BY DEF StateOf, Granted
  <2>4. StillSo' BY <1>i, <2>3 DEF StillSo
  <2>5. \A granted, size : Owed(granted, size)' = Owed(granted, size) BY OwedStays
  <2>6. Recorded' BY <1>i, <2>3, <2>5 DEF Recorded
  <2>7. /\ AgentWords' = AgentWords /\ HumanWords' = HumanWords
        /\ Outcome(harness, event, Matched)' = Outcome(harness, event, Matched)
        /\ OffNotice' = OffNotice
    BY WordsStay DEF OffNotice
  <2>8. Worded' BY <1>i, <2>7 DEF Worded
  <2> QED BY <2>1, <2>2, <2>4, <2>6, <2>8 DEF HookInv
<1> QED BY <1>1, <1>2, <1>3, <1>4, <1>5, <1>6, <1>7, <1>8 DEF Next

LEMMA HookInvariant == Spec => []HookInv
BY HookStarts, HookInductive, PTL DEF Spec

-----------------------------------------------------------------------------
\* What the harness makes of the answer of an event that was evaluated ...
LEMMA AnswerFacts ==
  ASSUME HookInv, Evaluated
  PROVE  LET o == Outcome(harness, event, Matched) IN
         /\ Verdict = CASE o = "block" -> "denied"
                        [] o = "ask" /\ ~lost -> "ask"
                        [] OTHER -> "proceed"
         /\ Agent \subseteq {Silence, AgentWords}
         /\ Human \subseteq {Silence, AgentWords, HumanWords}
         /\ ~lost /\ ~(harness = "codex" /\ event = "SessionEnd") =>
              \/ HumanWords \in Human
              \/ harness = "codex" /\ event = "PreToolUse" /\ o = "block" /\ AgentWords \in Human
         /\ ~lost /\ Injects(harness, event) /\ o # "block" => AgentWords \in Agent
         /\ ~Injects(harness, event) /\ o # "block" => Agent = {Silence}
<1> DEFINE o == Outcome(harness, event, Matched)
<1>1. harness \in Harnesses /\ event \in Rows(harness) /\ MatchesOn(Matched, event)
  BY MatchesAreOnEvent DEF HookInv, HookTypeOK
<1>2. Deliverable(harness, event, AgentWords, HumanWords, o)
  BY <1>1, TextsDeliverable DEF AgentWords, HumanWords
<1> DEFINE encodes == ~lost
<1>3. wire = Deliver(harness, event, AgentWords, HumanWords, o, encodes)
  BY DEF HookInv, Worded, Evaluated, Answered
<1>4. encodes \in BOOLEAN /\ (encodes <=> ~lost) OBVIOUS
<1> HIDE DEF o, encodes
<1>5. Verdict = CASE o = "block" -> "denied"
                  [] o = "ask" /\ ~lost -> "ask"
                  [] OTHER -> "proceed"
  BY <1>1, <1>2, <1>3, <1>4, Verdicts DEF Verdict
<1>6. /\ Agent \subseteq {Silence, AgentWords}
      /\ Human \subseteq {Silence, AgentWords, HumanWords}
      /\ ~lost /\ ~(harness = "codex" /\ event = "SessionEnd") =>
           \/ HumanWords \in Human
           \/ harness = "codex" /\ event = "PreToolUse" /\ o = "block" /\ AgentWords \in Human
      /\ ~lost /\ Injects(harness, event) /\ o # "block" => AgentWords \in Agent
      /\ ~Injects(harness, event) /\ o # "block" => Agent = {Silence}
  BY <1>1, <1>2, <1>3, <1>4, Hearing DEF Agent, Human
<1> QED BY <1>5, <1>6 DEF o

\* ... and of one that was off.
LEMMA OffFacts ==
  ASSUME HookInv, Answered, seen.state = "off"
  PROVE  /\ Verdict = "proceed"
         /\ Agent \subseteq {Silence, OffNotice} /\ Human \subseteq {Silence, OffNotice}
         /\ ~lost /\ event = "SessionStart" => OffNotice \in Agent /\ OffNotice \in Human
         /\ lost => Agent = {Silence} /\ Human = {Silence}
         /\ event # "SessionStart" => OffNotice = Silence
         /\ lines = {}
<1>1. harness \in Harnesses /\ event \in Rows(harness) BY DEF HookInv, HookTypeOK
<1>2. Deliverable(harness, event, OffNotice, OffNotice, "allow") BY DEF Deliverable
<1> DEFINE encodes == ~lost
<1>3. wire = Deliver(harness, event, OffNotice, OffNotice, "allow", encodes)
  BY DEF HookInv, Worded, Answered
<1>4. encodes \in BOOLEAN /\ (encodes <=> ~lost) OBVIOUS
<1> HIDE DEF encodes
<1>5. event # "SessionStart" => OffNotice = Silence BY DEF OffNotice
<1>6. Verdict = "proceed" BY <1>1, <1>2, <1>3, <1>4, Verdicts DEF Verdict
<1>7. /\ Agent \subseteq {Silence, OffNotice} /\ Human \subseteq {Silence, OffNotice}
      /\ ~lost /\ event = "SessionStart" => OffNotice \in Human
      /\ ~lost /\ Injects(harness, event) => OffNotice \in Agent
  BY <1>1, <1>2, <1>3, <1>4, Hearing DEF Agent, Human
<1>8. event = "SessionStart" => Injects(harness, event) BY <1>1 DEF Injects
<1>9. ASSUME lost PROVE Agent = {Silence} /\ Human = {Silence}
  <2>1. OffNotice # Silence => event # "SessionEnd" BY <1>5
  <2>2. wire = NoAnswer BY <1>1, <1>2, <1>3, <1>4, <1>9, <2>1, DeliverCases
  <2> QED BY <2>2, PlainFields DEF Agent, Human, AgentHears, HumanHears
<1>10. lines = {} BY DEF HookInv, Placed, Answered
<1> QED BY <1>5, <1>6, <1>7, <1>8, <1>9, <1>10

\* A matched rule is one of the enabled ones, on trial where it or the state is.
LEMMA MatchedFacts ==
  ASSUME HookInv, NEW m \in Matched
  PROVE  /\ m.rule \in rules /\ m.rule \in Rules /\ ValidOn(m.rule, event)
         /\ m.trial = (m.rule.trial \/ seen.state = "trial")
         /\ Continued => m.rule.action # "block"
         /\ m.on = On(m.rule) /\ m.on # {}
<1>1. PICK r \in Tried : /\ On(r) # {}
                         /\ m = [rule |-> r, on |-> On(r), trial |-> r.trial \/ seen.state = "trial"]
  BY DEF Matched
<1>2. r \in rules /\ (Continued => r.action # "block") BY <1>1 DEF Tried
<1>3. m.rule = r /\ m.on = On(r) /\ m.trial = (r.trial \/ seen.state = "trial") BY <1>1
<1>4. r \in Rules /\ ValidOn(r, event) BY <1>2 DEF HookInv, HookTypeOK
<1> QED BY <1>1, <1>2, <1>3, <1>4

-----------------------------------------------------------------------------
\* The harness does what the rules say and nothing else, whichever rules match, on
\* whichever harness and event, and whether or not the answer's JSON gets there.
THEOREM HarnessDoesAsRuledHolds == Spec => []HarnessDoesAsRuled
<1>1. ASSUME HookInv PROVE HarnessDoesAsRuled
  <2> SUFFICES ASSUME Evaluated PROVE HarnessDoesAsRuled BY DEF HarnessDoesAsRuled
  <2> DEFINE deciding(a) == {m \in Matched : /\ ~m.trial /\ m.rule.action = a
                                             /\ Degrade(harness, event, a) = a}
             o == Outcome(harness, event, Matched)
  <2>1. harness \in Harnesses /\ event \in Rows(harness) /\ MatchesOn(Matched, event)
    BY <1>1, MatchesAreOnEvent DEF HookInv, HookTypeOK
  <2>2. /\ o = "block" <=> \E m \in Delivering(Matched) : m.rule.action = "block" /\ Degrade(harness, event, "block") = "block"
        /\ o = "ask" <=> /\ \E m \in Delivering(Matched) : m.rule.action = "ask" /\ Degrade(harness, event, "ask") = "ask"
                         /\ ~\E m \in Delivering(Matched) : m.rule.action = "block" /\ Degrade(harness, event, "block") = "block"
    BY <2>1, OutcomeFacts
  <2>3. /\ o = "block" <=> deciding("block") # {}
        /\ o = "ask" <=> deciding("ask") # {} /\ deciding("block") = {}
    BY <2>2 DEF Delivering
  <2>4. Verdict = CASE o = "block" -> "denied"
                    [] o = "ask" /\ ~lost -> "ask"
                    [] OTHER -> "proceed"
    BY <1>1, AnswerFacts
  <2> HIDE DEF o, deciding
  <2>5. Verdict = CASE deciding("block") # {} -> "denied"
                    [] deciding("block") = {} /\ deciding("ask") # {} /\ ~lost -> "ask"
                    [] OTHER -> "proceed"
    BY <2>3, <2>4
  <2> QED BY <2>5 DEF HarnessDoesAsRuled, deciding
<1> QED BY <1>1, HookInvariant, PTL

\* handrail's own failures are never silent and never decide, whatever failed together.
THEOREM FailuresAreToldNotEnforcedHolds == Spec => []FailuresAreToldNotEnforced
<1>1. ASSUME HookInv PROVE FailuresAreToldNotEnforced
  <2> DEFINE o == Outcome(harness, event, Matched)
  <2> SUFFICES ASSUME Evaluated, ~lost
               PROVE  /\ <<harness, event>> # <<"codex", "SessionEnd">> =>
                           Failures \subseteq UNION {t.failures : t \in Human}
                      /\ Injects(harness, event) /\ Verdict # "denied" =>
                           Failures \subseteq UNION {t.failures : t \in Agent}
                      /\ Verdict # "proceed" => \E m \in Matched : Delivering({m}) # {}
    BY DEF FailuresAreToldNotEnforced
  <2>1. harness \in Harnesses /\ event \in Rows(harness) /\ MatchesOn(Matched, event)
    BY <1>1, MatchesAreOnEvent DEF HookInv, HookTypeOK
  <2>2. /\ Verdict = CASE o = "block" -> "denied"
                       [] o = "ask" /\ ~lost -> "ask"
                       [] OTHER -> "proceed"
        /\ ~(harness = "codex" /\ event = "SessionEnd") =>
             \/ HumanWords \in Human
             \/ harness = "codex" /\ event = "PreToolUse" /\ o = "block" /\ AgentWords \in Human
        /\ Injects(harness, event) /\ o # "block" => AgentWords \in Agent
    BY <1>1, AnswerFacts
  <2>3. /\ HumanWords.failures = Failures
        /\ Injects(harness, event) => AgentWords.failures = Failures
    BY DEF HumanWords, AgentWords, HumanText, AgentText
  <2>4. event = "PreToolUse" => Injects(harness, event) BY <2>1 DEF Injects
  <2>5. o \in {"block", "ask"} => \E m \in Delivering(Matched) : TRUE
    BY <2>1, OutcomeFacts
  <2> HIDE DEF o
  <2>6. Verdict # "proceed" => \E m \in Matched : Delivering({m}) # {}
    BY <2>2, <2>5 DEF Delivering
  <2>7. \A t \in Human : t.failures = Failures => Failures \subseteq UNION {u.failures : u \in Human}
    OBVIOUS
  <2>8. \A t \in Agent : t.failures = Failures => Failures \subseteq UNION {u.failures : u \in Agent}
    OBVIOUS
  <2>9. <<harness, event>> # <<"codex", "SessionEnd">> =>
          Failures \subseteq UNION {t.failures : t \in Human}
    BY <2>2, <2>3, <2>4, <2>7
  <2>10. Injects(harness, event) /\ Verdict # "denied" =>
           Failures \subseteq UNION {t.failures : t \in Agent}
    BY <2>2, <2>3, <2>8
  <2> QED BY <2>6, <2>9, <2>10
<1> QED BY <1>1, HookInvariant, PTL

\* Where the state in force is off and nobody changes it meanwhile nothing is decided,
\* logged or told, but for the notice at SessionStart.
THEOREM OffIsOffAndSaysSoHolds == Spec => []OffIsOffAndSaysSo
<1>1. ASSUME HookInv PROVE OffIsOffAndSaysSo
  <2> SUFFICES ASSUME Answered, "own" \notin changed, StateOf = "off" PROVE OffIsOffAndSaysSo
    BY DEF OffIsOffAndSaysSo
  <2>1. seen.state = "off" BY <1>1 DEF HookInv, StillSo, Answered
  <2>2. /\ Verdict = "proceed"
        /\ Agent \subseteq {Silence, OffNotice} /\ Human \subseteq {Silence, OffNotice}
        /\ ~lost /\ event = "SessionStart" => OffNotice \in Agent /\ OffNotice \in Human
        /\ lost => Agent = {Silence} /\ Human = {Silence}
        /\ event # "SessionStart" => OffNotice = Silence
        /\ lines = {}
    BY <1>1, <2>1, OffFacts
  <2>3. event = "SessionStart" => OffNotice = [Silence EXCEPT !.standing = TRUE] BY DEF OffNotice
  <2> DEFINE told == IF event = "SessionStart" /\ ~lost THEN {[Silence EXCEPT !.standing = TRUE]}
                     ELSE {Silence}
  <2>4. Agent \ {Silence} = told \ {Silence} /\ Human \ {Silence} = told \ {Silence}
    <3>1. CASE event = "SessionStart" /\ ~lost
      <4>1. told = {OffNotice} BY <2>3, <3>1
      <4> QED BY <2>2, <3>1, <4>1
    <3>2. CASE ~(event = "SessionStart" /\ ~lost)
      <4>1. told = {Silence} BY <3>2
      <4>2. Agent \subseteq {Silence} /\ Human \subseteq {Silence} BY <2>2, <3>2
      <4> QED BY <4>1, <4>2
    <3> QED BY <3>1, <3>2
  <2> QED BY <2>2, <2>4 DEF OffIsOffAndSaysSo
<1> QED BY <1>1, HookInvariant, PTL

\* A rule on trial, by its own file or by the state, is heard by nobody.
THEOREM TrialIsInaudibleHolds == Spec => []TrialIsInaudible
<1>1. ASSUME HookInv PROVE TrialIsInaudible
  <2> SUFFICES ASSUME Answered, NEW r \in rules, r.trial \/ seen.state = "trial",
                      NEW t \in Agent \cup Human
               PROVE  r \notin t.bodies \cup t.labels
    BY DEF TrialIsInaudible, Named
  <2>0. r.trial \/ seen.state = "trial" OBVIOUS
  <2>1. CASE seen.state = "off"
    <3>1. t \in {Silence, OffNotice} BY <1>1, <2>1, OffFacts
    <3> QED BY <3>1 DEF OffNotice, Silence
  <2>2. CASE seen.state # "off"
    <3>1. t \in {Silence, AgentWords, HumanWords}
      BY <1>1, <2>2, AnswerFacts DEF Evaluated
    <3>2. ASSUME r \in t.bodies \cup t.labels PROVE FALSE
      <4>1. PICK m \in Matched : m.rule = r /\ ~m.trial
        BY <3>1, <3>2 DEF AgentWords, HumanWords, AgentText, HumanText, Delivering, Silence
      <4>2. m.trial = (r.trial \/ seen.state = "trial") BY <1>1, <4>1, MatchedFacts
      <4>3. (r.trial \/ seen.state = "trial") = TRUE BY <2>0, Zenon
      <4> QED BY <4>1, <4>2, <4>3
    <3> QED BY <3>2
  <2> QED BY <2>1, <2>2
<1> QED BY <1>1, HookInvariant, PTL

\* Whoever is interrupted is told why: of a denial or a question, the user reads the
\* whole of every rule that decided it.
THEOREM InterruptionIsExplainedHolds == Spec => []InterruptionIsExplained
<1>1. ASSUME HookInv PROVE InterruptionIsExplained
  <2> DEFINE o == Outcome(harness, event, Matched)
  <2> SUFFICES ASSUME Evaluated, ~lost, Verdict # "proceed", NEW m \in Delivering(Matched),
                      As(harness, event, m) = o
               PROVE  HumanReads(m.rule)
    BY DEF InterruptionIsExplained
  <2>1. harness \in Harnesses /\ event \in Rows(harness) /\ MatchesOn(Matched, event)
    BY <1>1, MatchesAreOnEvent DEF HookInv, HookTypeOK
  <2>2. /\ Verdict = CASE o = "block" -> "denied"
                       [] o = "ask" /\ ~lost -> "ask"
                       [] OTHER -> "proceed"
        /\ ~(harness = "codex" /\ event = "SessionEnd") =>
             \/ HumanWords \in Human
             \/ harness = "codex" /\ event = "PreToolUse" /\ o = "block" /\ AgentWords \in Human
    BY <1>1, AnswerFacts
  <2>3. o \in {"ask", "block"} BY <2>2
  <2>4. m.rule \in HumanWords.bodies /\ (o = "block" => m.rule \in AgentWords.bodies)
    BY <2>1, <2>3, DecidingAreWhole DEF HumanWords, AgentWords
  <2>5. event # "SessionEnd" BY <2>1, <2>3, TextsDeliverable DEF Deliverable, Deny, CanAsk
  <2> QED BY <2>2, <2>4, <2>5 DEF HumanReads
<1> QED BY <1>1, HookInvariant, PTL

\* The agent hears something at a stop only of a block, and nothing at the session's end.
THEOREM StopsStaySilentHolds == Spec => []StopsStaySilent
<1>1. ASSUME HookInv PROVE StopsStaySilent
  <2> SUFFICES ASSUME Answered, event \in StopEvents \cup {"SessionEnd"}, Verdict # "denied"
               PROVE  Agent = {Silence}
    BY DEF StopsStaySilent
  <2>1. ~Injects(harness, event) BY DEF Injects, StopEvents
  <2>2. CASE seen.state = "off"
    <3>1. Agent \subseteq {Silence} BY <1>1, <2>2, OffFacts DEF StopEvents
    <3>2. wire.context \in Agent BY DEF Agent, AgentHears
    <3> QED BY <3>1, <3>2
  <2>3. CASE seen.state # "off" BY <1>1, <2>1, <2>3, AnswerFacts DEF Evaluated
  <2> QED BY <2>2, <2>3
<1> QED BY <1>1, HookInvariant, PTL

\* No rule can loop: an agent that was continued is let go at its next stop.
THEOREM ContinuesOnceHolds == Spec => []ContinuesOnce
<1>1. ASSUME HookInv PROVE ContinuesOnce
  <2> SUFFICES ASSUME Answered, active PROVE Verdict = "proceed" BY DEF ContinuesOnce
  <2> DEFINE o == Outcome(harness, event, Matched)
  <2>1. CASE seen.state = "off" BY <1>1, <2>1, OffFacts
  <2>2. CASE seen.state # "off"
    <3>1. event \in StopEvents BY <1>1 DEF HookInv, Started
    <3>2. Continued BY <3>1 DEF Continued
    <3>3. \A m \in Matched : m.rule.action # "block" /\ m.rule.action # "ask"
      BY <1>1, <3>1, <3>2, MatchedFacts DEF ValidOn, StopEvents
    <3>4. harness \in Harnesses /\ event \in Rows(harness) /\ MatchesOn(Matched, event)
      BY <1>1, MatchesAreOnEvent DEF HookInv, HookTypeOK
    <3>5. o # "block" /\ o # "ask" BY <3>3, <3>4, OutcomeFacts DEF Delivering
    <3>6. Verdict = CASE o = "block" -> "denied"
                      [] o = "ask" /\ ~lost -> "ask"
                      [] OTHER -> "proceed"
      BY <1>1, <2>2, AnswerFacts DEF Evaluated
    <3> QED BY <3>5, <3>6
  <2> QED BY <2>1, <2>2
<1> QED BY <1>1, HookInvariant, PTL
-----------------------------------------------------------------------------
(***************************************************************************)
(* The lines an event leaves in the Decision log: what they tell, and what *)
(* they keep to themselves, for any lengths of their parts.                *)
(***************************************************************************)

\* A set of naturals has a least element.
LEMMA LeastNatural ==
  ASSUME NEW S \in SUBSET Nat, S # {}
  PROVE  \E n \in S : \A k \in S : n <= k
<1>1. IsWellFoundedOn(OpToRel(<, Nat), Nat) BY NatLessThanWellFounded
<1>2. \E x \in S : \A y \in S : <<y, x>> \notin OpToRel(<, Nat) BY <1>1, WFMin
<1>3. PICK x \in S : \A y \in S : <<y, x>> \notin OpToRel(<, Nat) BY <1>2
<1>4. \A y \in S : ~(y < x) BY <1>3 DEF OpToRel
<1> QED BY <1>4

\* A finite set in some order: each of its elements, once.
LEMMA SetToSeqFacts ==
  ASSUME NEW S, IsFiniteSet(S)
  PROVE  /\ SetToSeq(S) \in Seq(S) /\ ToSet(SetToSeq(S)) = S
         /\ IsInjective(SetToSeq(S))
         /\ SetToSeq(S) = <<>> <=> S = {}
<1> DEFINE n == Cardinality(S)
           f == SetToSeq(S)
<1>1. n \in Nat /\ ExistsBijection(1..n, S) BY FS_CardinalityType
<1>2. \E g \in [1..n -> S] : IsInjective(g)
  BY <1>1 DEF ExistsBijection, Bijection, Injection
<1>3. f \in [1..n -> S] /\ IsInjective(f) BY <1>2 DEF SetToSeq
<1> HIDE DEF f
<1>4. f \in Injection(1..n, S) BY <1>3 DEF Injection
<1>5. Cardinality(1..n) = n /\ IsFiniteSet(1..n) BY <1>1, FS_Interval
<1>6. f \in Surjection(1..n, S) BY <1>4, <1>5, FS_Injection
<1>7. f \in Seq(S) /\ Len(f) = n /\ DOMAIN f = 1..n BY <1>1, <1>3
<1>8. ToSet(f) = S BY <1>3, <1>6, <1>7 DEF Surjection, ToSet
<1>9. f = <<>> <=> S = {} BY <1>7, <1>8 DEF ToSet
<1> QED BY <1>3, <1>7, <1>8, <1>9 DEF f

\* The shapes of a rule are finitely many, so the matches are.
LEMMA RulesFinite == IsFiniteSet(Rules)
<1> DEFINE B == BOOLEAN
           A == {"warn", "ask", "block"}
           R == {"call", "file", "unreadable"}
           P == (((A \X B) \X B) \X B) \X R
           f == [x \in P |-> [action |-> x[1][1][1][1], trial |-> x[1][1][1][2],
                              agentOnly |-> x[1][1][2], project |-> x[1][2], reach |-> x[2]]]
<1>1. IsFiniteSet(B)
  <2>1. IsFiniteSet({TRUE}) BY FS_Singleton
  <2>2. IsFiniteSet({TRUE} \cup {FALSE}) BY <2>1, FS_AddElement
  <2>3. B = {TRUE} \cup {FALSE} OBVIOUS
  <2> QED BY <2>2, <2>3
<1>2. IsFiniteSet(A)
  <2>1. IsFiniteSet({"warn"}) BY FS_Singleton
  <2>2. IsFiniteSet({"warn"} \cup {"ask"}) BY <2>1, FS_AddElement
  <2>3. IsFiniteSet(({"warn"} \cup {"ask"}) \cup {"block"}) BY <2>2, FS_AddElement
  <2>4. A = ({"warn"} \cup {"ask"}) \cup {"block"} OBVIOUS
  <2> QED BY <2>3, <2>4
<1>3. IsFiniteSet(R)
  <2>1. IsFiniteSet({"call"}) BY FS_Singleton
  <2>2. IsFiniteSet({"call"} \cup {"file"}) BY <2>1, FS_AddElement
  <2>3. IsFiniteSet(({"call"} \cup {"file"}) \cup {"unreadable"}) BY <2>2, FS_AddElement
  <2>4. R = ({"call"} \cup {"file"}) \cup {"unreadable"} OBVIOUS
  <2> QED BY <2>3, <2>4
<1> HIDE DEF A, B, R
<1>4. IsFiniteSet(P) BY <1>1, <1>2, <1>3, FS_Product
<1>5. f \in [P -> Rules] BY DEF Rules, A, B, R
<1>6. ASSUME NEW r \in Rules PROVE \E x \in P : f[x] = r
  <2> DEFINE x == <<<<<<<<r.action, r.trial>>, r.agentOnly>>, r.project>>, r.reach>>
  <2>1. x \in P BY DEF Rules, A, B, R
  <2>2. f[x] = [action |-> r.action, trial |-> r.trial, agentOnly |-> r.agentOnly,
                project |-> r.project, reach |-> r.reach]
    BY <2>1
  <2>3. r = [action |-> r.action, trial |-> r.trial, agentOnly |-> r.agentOnly,
             project |-> r.project, reach |-> r.reach]
    BY DEF Rules
  <2> QED BY <2>1, <2>2, <2>3
<1> HIDE DEF f, P
<1>7. f \in Surjection(P, Rules) BY <1>5, <1>6 DEF Surjection
<1> QED BY <1>4, <1>7, FS_Surjection

LEMMA MatchedFinite == HookTypeOK => IsFiniteSet(Matched)
<1> SUFFICES ASSUME HookTypeOK PROVE IsFiniteSet(Matched) OBVIOUS
<1> DEFINE Q == {q \in Tried : On(q) # {}}
           f == [r \in Q |-> [rule |-> r, on |-> On(r), trial |-> r.trial \/ seen.state = "trial"]]
<1>1. Q \subseteq Rules BY DEF Tried, HookTypeOK
<1>2. IsFiniteSet(Q) BY <1>1, RulesFinite, FS_Subset
<1>3. f \in Surjection(Q, Matched) BY DEF Surjection, Matched
<1> QED BY <1>2, <1>3, FS_Surjection

-----------------------------------------------------------------------------
\* A line as record makes it, of matches from X.
LineOf(X) ==
  [of : Nat, outcome : {"allow"} \cup Actions, payload : BOOLEAN, size : Sizes,
   hits : Seq(X), truncated : BOOLEAN]

LEMMA LengthsAreNatural ==
  ASSUME NEW X, NEW l \in LineOf(X)
  PROVE  Length(l) \in Nat
<1> DEFINE e == l.size.entry
           n == Len(l.hits)
<1>1. l.size \in [rest : Nat, payload : Nat, entry : Nat, mark : Nat]
  BY SizesAssumption DEF LineOf
<1>2. e \in Nat /\ n \in Nat BY <1>1 DEF LineOf
<1>3. (IF l.payload THEN l.size.payload ELSE 0) \in Nat BY <1>1
<1>4. (IF l.truncated THEN l.size.mark ELSE 0) \in Nat BY <1>1
<1>5. Length(l) = l.size.rest + (IF l.payload THEN l.size.payload ELSE 0) + n * e
                  + (IF l.truncated THEN l.size.mark ELSE 0)
  BY DEF Length
<1> HIDE DEF e, n
<1>6. n * e \in Nat BY <1>2
<1> QED BY <1>1, <1>3, <1>4, <1>5, <1>6

\* The shapes encodeLine tries, one by one.
LEMMA CutFacts ==
  ASSUME NEW X, NEW l \in LineOf(X), l.payload = TRUE, l.truncated = FALSE
  PROVE  LET n == Len(l.hits) IN
         /\ n \in Nat /\ Len(Cuts(l)) = n + 2 /\ Cuts(l)[1] = l
         /\ \A k \in 2..n + 2 :
              LET c == Cuts(l)[k] IN
              /\ c \in LineOf(X)
              /\ c.of = l.of /\ c.outcome = l.outcome /\ c.size = l.size
              /\ c.payload = FALSE /\ c.truncated = TRUE
              /\ Len(c.hits) = n + 2 - k /\ \A j \in 1..n + 2 - k : c.hits[j] = l.hits[j]
<1> DEFINE n == Len(l.hits)
           cut(k) == [l EXCEPT !.payload = FALSE, !.truncated = TRUE,
                               !.hits = SubSeq(l.hits, 1, n + 1 - k)]
           t == [k \in 1..n + 1 |-> cut(k)]
<1>1. l.hits \in Seq(X) /\ n \in Nat BY DEF LineOf
<1>2. ASSUME NEW k \in 1..n + 1
      PROVE  /\ cut(k) \in LineOf(X)
             /\ cut(k).of = l.of /\ cut(k).outcome = l.outcome /\ cut(k).size = l.size
             /\ cut(k).payload = FALSE /\ cut(k).truncated = TRUE
             /\ cut(k).hits = SubSeq(l.hits, 1, n + 1 - k)
             /\ Len(cut(k).hits) = n + 1 - k
             /\ \A j \in 1..n + 1 - k : cut(k).hits[j] = l.hits[j]
  <2> DEFINE s == SubSeq(l.hits, 1, n + 1 - k)
  <2>1. /\ s \in Seq(X) /\ Len(s) = n + 1 - k
        /\ \A j \in 1..n + 1 - k : s[j] = l.hits[j]
    BY <1>1
  <2> HIDE DEF s
  <2> QED BY <1>1, <2>1 DEF LineOf, s
<1> HIDE DEF cut
<1> HIDE DEF n
<1>3. t \in Seq(LineOf(X)) /\ Len(t) = n + 1
  <2>1. t \in [1..n + 1 -> LineOf(X)] BY <1>2
  <2>2. n + 1 \in Nat BY <1>1
  <2> HIDE DEF t
  <2> QED BY <2>1, <2>2
<1>4. Cuts(l) = <<l>> \o t BY DEF Cuts, cut, n
<1>5. <<l>> \in Seq(LineOf(X)) /\ Len(<<l>>) = 1 OBVIOUS
<1>6. /\ Len(Cuts(l)) = n + 2 /\ Cuts(l)[1] = l
      /\ \A k \in 2..n + 2 : Cuts(l)[k] = t[k - 1]
  <2> HIDE DEF t
  <2>1. Len(Cuts(l)) = 1 + (n + 1) BY <1>3, <1>4, <1>5, ConcatProperties
  <2>2. \A k \in 1..1 + (n + 1) :
          Cuts(l)[k] = IF k <= 1 THEN <<l>>[k] ELSE t[k - 1]
    BY <1>1, <1>3, <1>4, <1>5, ConcatProperties
  <2> QED BY <1>1, <2>1, <2>2
<1>7. ASSUME NEW k \in 2..n + 2
      PROVE  Cuts(l)[k] = cut(k - 1) /\ k - 1 \in 1..n + 1
  BY <1>1, <1>6
<1>8. ASSUME NEW k \in 2..n + 2
      PROVE  LET c == Cuts(l)[k] IN
             /\ c \in LineOf(X)
             /\ c.of = l.of /\ c.outcome = l.outcome /\ c.size = l.size
             /\ c.payload = FALSE /\ c.truncated = TRUE
             /\ Len(c.hits) = n + 2 - k /\ \A j \in 1..n + 2 - k : c.hits[j] = l.hits[j]
  <2> DEFINE i == k - 1
  <2>1. i \in 1..n + 1 /\ n + 1 - i = n + 2 - k BY <1>1
  <2>2. Cuts(l)[k] = cut(i) BY <1>7
  <2> HIDE DEF i
  <2> QED BY <1>2, <2>1, <2>2
<1> QED BY <1>1, <1>6, <1>8 DEF n

\* What encodeLine writes of a line: the whole of it, or as much as there is room for.
LEMMA EncodeFacts ==
  ASSUME NEW X, NEW l \in LineOf(X), l.payload = TRUE, l.truncated = FALSE
  PROVE  LET n == Len(l.hits)
             c == EncodeLine(l) IN
         /\ c \in LineOf(X)
         /\ c.of = l.of /\ c.outcome = l.outcome /\ c.size = l.size
         /\ Len(c.hits) <= n /\ \A j \in 1..Len(c.hits) : c.hits[j] = l.hits[j]
         /\ Length(c) < LineMax \/ (Len(c.hits) = 0 /\ c.payload = FALSE)
         /\ c.truncated = FALSE => c = l
         /\ c.truncated = TRUE =>
              /\ c.payload = FALSE
              /\ Len(c.hits) = n => Length(l) >= LineMax
              /\ Len(c.hits) # n => Length(c) + c.size.entry >= LineMax
<1> DEFINE n == Len(l.hits)
           cut(k) == Cuts(l)[k]
           N == Len(Cuts(l))
           fits == {i \in 1..N : Length(Cuts(l)[i]) < LineMax \/ i = N}
<1>1. n \in Nat /\ N = n + 2 /\ cut(1) = l BY CutFacts
<1>2. \A k \in 2..n + 2 :
         /\ cut(k) \in LineOf(X)
         /\ cut(k).of = l.of /\ cut(k).outcome = l.outcome /\ cut(k).size = l.size
         /\ cut(k).payload = FALSE /\ cut(k).truncated = TRUE
         /\ Len(cut(k).hits) = n + 2 - k
         /\ \A j \in 1..n + 2 - k : cut(k).hits[j] = l.hits[j]
  BY CutFacts
<1>3. fits \in SUBSET Nat /\ N \in fits BY <1>1
<1>4. \E i \in fits : \A j \in fits : i <= j BY <1>3, LeastNatural
<1>5. PICK k \in fits : EncodeLine(l) = cut(k) /\ \A j \in fits : k <= j
  BY <1>4 DEF EncodeLine
<1>6. k \in 1..N /\ (Length(cut(k)) < LineMax \/ k = N) BY <1>5
<1>7. \A i \in 1..N : i < k => ~(Length(cut(i)) < LineMax)
  BY <1>1, <1>5, <1>6
<1> DEFINE c == EncodeLine(l)
           e == l.size.entry
<1>8. l.size \in [rest : Nat, payload : Nat, entry : Nat, mark : Nat]
  BY SizesAssumption DEF LineOf
<1>9. c = cut(k) BY <1>5
<1> HIDE DEF fits, cut, N, n, c
<1>10. Length(l) = l.size.rest + l.size.payload + n * e
  <2>1. n * e \in Nat
    <3>1. e \in Nat BY <1>8
    <3> HIDE DEF e
    <3> QED BY <1>1, <3>1
  <2>2. Length(l) = l.size.rest + l.size.payload + n * e + 0 BY DEF Length, n
  <2> HIDE DEF e
  <2> QED BY <1>8, <2>1, <2>2
<1>11. ASSUME NEW i \in 2..n + 2
       PROVE  Length(cut(i)) = l.size.rest + (n + 2 - i) * e + l.size.mark
  <2> DEFINE d == cut(i)
             p == Len(d.hits) * e
  <2>1. d.size = l.size /\ d.payload = FALSE /\ d.truncated = TRUE BY <1>2
  <2>2. Len(d.hits) = n + 2 - i BY <1>2
  <2> HIDE DEF d
  <2>3. Length(d) = l.size.rest + 0 + p + l.size.mark BY <2>1 DEF Length
  <2>4. p \in Nat
    <3>1. Len(d.hits) \in Nat BY <1>1, <2>2
    <3>2. e \in Nat BY <1>8
    <3> HIDE DEF e
    <3> QED BY <3>1, <3>2
  <2>5. p = (n + 2 - i) * e BY <2>2
  <2> HIDE DEF p, e
  <2>6. Length(d) = l.size.rest + p + l.size.mark BY <1>8, <2>3, <2>4
  <2> QED BY <2>5, <2>6 DEF d
<1> SUFFICES
     /\ c \in LineOf(X)
     /\ c.of = l.of /\ c.outcome = l.outcome /\ c.size = l.size
     /\ Len(c.hits) <= n /\ \A j \in 1..Len(c.hits) : c.hits[j] = l.hits[j]
     /\ Length(c) < LineMax \/ (Len(c.hits) = 0 /\ c.payload = FALSE)
     /\ c.truncated = FALSE => c = l
     /\ c.truncated = TRUE =>
          /\ c.payload = FALSE
          /\ Len(c.hits) = n => Length(l) >= LineMax
          /\ Len(c.hits) # n => Length(c) + c.size.entry >= LineMax
  BY DEF n, c
<1>12. CASE k = 1
  <2>1. c = l BY <1>1, <1>9, <1>12
  <2> QED BY <1>1, <1>6, <1>9, <1>12, <2>1 DEF n, LineOf
<1>13. CASE k # 1
  <2>1. k \in 2..n + 2 BY <1>1, <1>6, <1>13
  <2>2. /\ c \in LineOf(X)
        /\ c.of = l.of /\ c.outcome = l.outcome /\ c.size = l.size
        /\ c.payload = FALSE /\ c.truncated = TRUE
        /\ Len(c.hits) = n + 2 - k
        /\ \A j \in 1..n + 2 - k : c.hits[j] = l.hits[j]
    BY <1>2, <1>9, <2>1
  <2>3. Length(c) < LineMax \/ (Len(c.hits) = 0 /\ c.payload = FALSE)
    BY <1>1, <1>6, <1>9, <2>1, <2>2
  <2>4. ASSUME Len(c.hits) = n PROVE Length(l) >= LineMax
    <3>1. 1 \in 1..N /\ 1 < k BY <1>1, <2>1
    <3>2. ~(Length(l) < LineMax) BY <1>1, <1>7, <3>1
    <3>3. Length(l) \in Nat BY <1>1, <1>8, <1>10
    <3> QED BY <3>2, <3>3, LineMaxAssumption
  <2>5. ASSUME Len(c.hits) # n PROVE Length(c) + c.size.entry >= LineMax
    <3> DEFINE i == k - 1
    <3>1. i \in 2..n + 2 /\ i < k /\ i \in 1..N /\ n + 2 - i = (n + 2 - k) + 1
      BY <1>1, <2>1, <2>2, <2>5
    <3> HIDE DEF i
    <3>2. ~(Length(cut(i)) < LineMax) BY <1>7, <3>1
    <3>3. n + 2 - k \in Nat BY <1>1, <2>1
    <3> DEFINE left == n + 2 - k
    <3>4. Length(cut(i)) = l.size.rest + (left + 1) * e + l.size.mark BY <1>11, <3>1
    <3>5. Length(c) = l.size.rest + left * e + l.size.mark BY <1>9, <1>11, <2>1
    <3>6. left \in Nat /\ e \in Nat BY <1>8, <3>3
    <3> HIDE DEF left, e
    <3>7. (left + 1) * e = left * e + e /\ left * e \in Nat BY <3>6
    <3>8. c.size.entry = e BY <2>2 DEF e
    <3>9. l.size.rest \in Nat /\ l.size.mark \in Nat BY <1>8
    <3> QED BY <3>2, <3>4, <3>5, <3>6, <3>7, <3>8, <3>9, LineMaxAssumption
  <2> QED BY <1>1, <2>1, <2>2, <2>3, <2>4, <2>5
<1> QED BY <1>12, <1>13

-----------------------------------------------------------------------------
\* The matches of payload i, those its line may name, and whether it has a line.
Here(i) == {m \in Matched : i \in m.on}
Nameable(i, granted) == IF granted THEN Here(i) ELSE Here(i) \ Delivering(Here(i))
Earned(i, granted) == Nameable(i, granted) # {} \/ (granted /\ Payloads[i].unreadable # {})

LEMMA PayloadsAreCounted == DOMAIN Payloads \subseteq Nat
<1> DEFINE P == [kind : {"none", "call", "file"}, unreadable : SUBSET {"rules", "payload"}]
           whole == [kind |-> CallKind,
                     unreadable |-> Marks \cup IF faults = {} THEN {} ELSE {"payload"}]
           file == [kind |-> "file", unreadable |-> Marks]
<1>1. Marks \in SUBSET {"rules", "payload"} /\ CallKind \in {"none", "call"}
  BY DEF Marks, CallKind
<1>2. (Marks \cup IF faults = {} THEN {} ELSE {"payload"}) \in SUBSET {"rules", "payload"}
  BY <1>1
<1>3. whole \in P /\ file \in P BY <1>1, <1>2
<1> HIDE DEF whole, file, P
<1>4. <<whole>> \in Seq(P) /\ <<file>> \in Seq(P) /\ <<>> \in Seq(P) BY <1>3
<1> DEFINE A == IF NotRead \/ about THEN <<whole>> ELSE <<>>
           B == IF event \in ToolEvents /\ ~NotRead THEN <<file>> ELSE <<>>
<1>5. A \in Seq(P) /\ B \in Seq(P) BY <1>4
<1>6. Payloads = A \o B BY DEF Payloads, whole, file
<1> HIDE DEF A, B
<1>7. Payloads \in Seq(P) BY <1>5, <1>6
<1> QED BY <1>7

\* The line of a payload, before it is encoded.
LEMMA LineFacts ==
  ASSUME HookInv, NEW i \in DOMAIN Payloads, NEW granted \in BOOLEAN, NEW size \in Sizes
  PROVE  LET l == Line(i, granted, size) IN
         /\ l \in LineOf(Matched)
         /\ l.of = i /\ l.payload = TRUE /\ l.truncated = FALSE
         /\ l.outcome = Outcome(harness, event, Here(i))
         /\ ToSet(l.hits) = Nameable(i, granted)
         /\ IsInjective(l.hits)
         /\ l.hits = <<>> <=> Nameable(i, granted) = {}
<1> DEFINE l == Line(i, granted, size)
           S == Nameable(i, granted)
<1>1. harness \in Harnesses /\ event \in Rows(harness) /\ MatchesOn(Matched, event)
  BY MatchesAreOnEvent DEF HookInv, HookTypeOK
<1>2. Here(i) \subseteq Matched /\ MatchesOn(Here(i), event) BY <1>1 DEF Here, MatchesOn
<1>3. Outcome(harness, event, Here(i)) \in {"allow"} \cup Actions BY <1>1, <1>2, OutcomeFacts
<1>4. S \subseteq Matched BY <1>2 DEF Nameable
<1>5. IsFiniteSet(S) BY <1>4, MatchedFinite, FS_Subset DEF HookInv
<1>6. l = [of |-> i, outcome |-> Outcome(harness, event, Here(i)), payload |-> TRUE,
           size |-> size, hits |-> SetToSeq(S), truncated |-> FALSE]
  BY DEF Line, Nameable, Here
<1> HIDE DEF S, l
<1>7. /\ SetToSeq(S) \in Seq(S) /\ ToSet(SetToSeq(S)) = S
      /\ IsInjective(SetToSeq(S))
      /\ SetToSeq(S) = <<>> <=> S = {}
  BY <1>5, SetToSeqFacts
<1>8. SetToSeq(S) \in Seq(Matched) BY <1>4, <1>7
<1>9. i \in Nat BY PayloadsAreCounted
<1>10. l \in LineOf(Matched) BY <1>3, <1>6, <1>8, <1>9 DEF LineOf
<1> QED BY <1>6, <1>7, <1>10 DEF S, l

\* The lines an event leaves are those of the payloads that earned one, encoded.
LEMMA OwedFacts ==
  ASSUME HookInv, NEW granted \in BOOLEAN, NEW size \in Sizes
  PROVE  Owed(granted, size) =
           {EncodeLine(Line(i, granted, size)) : i \in {j \in DOMAIN Payloads : Earned(j, granted)}}
<1>1. \A i \in DOMAIN Payloads :
        /\ Line(i, granted, size).of = i
        /\ Line(i, granted, size).hits = <<>> <=> Nameable(i, granted) = {}
  BY LineFacts
<1> QED BY <1>1 DEF Owed, Earned

\* Every line tells which payload it is of, what became of it, and the first of the
\* matches it may name; it is whole, or cut no further than it had to be.
LEMMA LogLineFacts ==
  ASSUME HookInv, NEW granted \in BOOLEAN, NEW size \in Sizes, NEW l \in Owed(granted, size)
  PROVE  /\ l \in LineOf(Matched)
         /\ l.of \in DOMAIN Payloads /\ Earned(l.of, granted)
         /\ l.outcome = Outcome(harness, event, Here(l.of))
         /\ ToSet(l.hits) \subseteq Nameable(l.of, granted)
         /\ Length(l) < LineMax \/ (l.hits = <<>> /\ l.payload = FALSE)
         /\ l.truncated = FALSE => l.payload = TRUE /\ ToSet(l.hits) = Nameable(l.of, granted)
         /\ l.truncated = TRUE =>
              /\ l.payload = FALSE
              /\ IF ToSet(l.hits) = Nameable(l.of, granted)
                   THEN Length([l EXCEPT !.payload = TRUE, !.truncated = FALSE]) >= LineMax
                   ELSE Length(l) + l.size.entry >= LineMax
<1>1. PICK i \in DOMAIN Payloads : Earned(i, granted) /\ l = EncodeLine(Line(i, granted, size))
  BY OwedFacts
<1> DEFINE w == Line(i, granted, size)
           n == Len(w.hits)
<1>2. /\ w \in LineOf(Matched)
      /\ w.of = i /\ w.payload = TRUE /\ w.truncated = FALSE
      /\ w.outcome = Outcome(harness, event, Here(i))
      /\ ToSet(w.hits) = Nameable(i, granted)
      /\ IsInjective(w.hits)
  <2>1. w \in LineOf(Matched) BY LineFacts
  <2>2. w.of = i BY LineFacts
  <2>3. w.payload = TRUE /\ w.truncated = FALSE BY LineFacts
  <2>4. w.outcome = Outcome(harness, event, Here(i)) BY LineFacts
  <2>5. ToSet(w.hits) = Nameable(i, granted) BY LineFacts
  <2>6. IsInjective(w.hits) BY LineFacts
  <2> QED BY <2>1, <2>2, <2>3, <2>4, <2>5, <2>6
<1>3. l = EncodeLine(w) BY <1>1
<1> HIDE DEF w
<1>4. /\ l \in LineOf(Matched)
      /\ l.of = w.of /\ l.outcome = w.outcome /\ l.size = w.size
      /\ Len(l.hits) <= n /\ \A j \in 1..Len(l.hits) : l.hits[j] = w.hits[j]
      /\ Length(l) < LineMax \/ (Len(l.hits) = 0 /\ l.payload = FALSE)
      /\ l.truncated = FALSE => l = w
      /\ l.truncated = TRUE =>
           /\ l.payload = FALSE
           /\ Len(l.hits) = n => Length(w) >= LineMax
           /\ Len(l.hits) # n => Length(l) + l.size.entry >= LineMax
  BY <1>2, <1>3, EncodeFacts
<1>5. l.hits \in Seq(Matched) /\ w.hits \in Seq(Matched) /\ n \in Nat
  BY <1>2, <1>4 DEF LineOf
<1>6. ToSet(l.hits) = {l.hits[j] : j \in 1..Len(l.hits)} /\ ToSet(w.hits) = {w.hits[j] : j \in 1..n}
  BY <1>5 DEF ToSet
<1>7. ToSet(l.hits) \subseteq ToSet(w.hits) BY <1>4, <1>5, <1>6
<1>8. ToSet(l.hits) = ToSet(w.hits) <=> Len(l.hits) = n
  <2>1. CASE Len(l.hits) = n BY <1>4, <1>5, <1>6, <2>1
  <2>2. CASE Len(l.hits) # n
    <3>1. n \in 1..n /\ Len(l.hits) < n /\ Len(l.hits) \in Nat BY <1>4, <1>5, <2>2
    <3>2. \A j \in 1..Len(l.hits) : l.hits[j] # w.hits[n]
      BY <1>2, <1>4, <1>5, <3>1 DEF IsInjective
    <3>3. w.hits[n] \in ToSet(w.hits) \ ToSet(l.hits) BY <1>6, <3>1, <3>2
    <3> QED BY <2>2, <3>3
  <2> QED BY <2>1, <2>2
<1>9. ASSUME l.truncated = TRUE, Len(l.hits) = n
      PROVE  Length([l EXCEPT !.payload = TRUE, !.truncated = FALSE]) >= LineMax
  <2> DEFINE r == [l EXCEPT !.payload = TRUE, !.truncated = FALSE]
  <2>1. r.payload = TRUE /\ r.truncated = FALSE /\ r.size = l.size /\ r.hits = l.hits
    BY <1>4 DEF LineOf
  <2> HIDE DEF r
  <2>2. Length(r) = Length(w) BY <1>2, <1>4, <1>9, <2>1 DEF Length
  <2> QED BY <1>4, <1>9, <2>2 DEF r
<1>10. Len(l.hits) = 0 => l.hits = <<>> BY <1>5
<1>11. l.of = i /\ l.outcome = Outcome(harness, event, Here(i)) BY <1>2, <1>4
<1> QED BY <1>1, <1>2, <1>4, <1>7, <1>8, <1>9, <1>10, <1>11

\* Once the event is answered the log has what the event owed it, or nothing at all.
LEMMA LinesAreOwed ==
  ASSUME HookInv, Answered
  PROVE  \/ lines = {}
         \/ \E granted \in BOOLEAN, size \in Sizes :
              ("grant" \notin changed => granted = Granted) /\ lines = Owed(granted, size)
BY DEF HookInv, Answered, Placed, Recorded

-----------------------------------------------------------------------------
\* Without the grant nothing but a trial is on record, whatever the rules match and
\* whatever else the user sets, breaks or mends meanwhile.
THEOREM UngrantedKeepsPrivateHolds == Spec => []UngrantedKeepsPrivate
<1>1. ASSUME HookInv PROVE UngrantedKeepsPrivate
  <2> SUFFICES ASSUME Answered, "grant" \notin changed, ~grant, NEW l \in lines
               PROVE  /\ \E m \in Matched : m.trial /\ l.of \in m.on
                      /\ \A m \in ToSet(l.hits) : m.trial
    BY DEF UngrantedKeepsPrivate
  <2>1. PICK granted \in BOOLEAN, size \in Sizes : granted = Granted /\ lines = Owed(granted, size)
    BY <1>1, LinesAreOwed
  <2>2. granted = FALSE BY <2>1 DEF Granted
  <2>3. Earned(l.of, FALSE) /\ ToSet(l.hits) \subseteq Nameable(l.of, FALSE)
    BY <1>1, <2>1, <2>2, LogLineFacts
  <2>4. \A m \in Nameable(l.of, FALSE) : m \in Matched /\ l.of \in m.on /\ m.trial
    BY DEF Nameable, Here, Delivering
  <2>5. Nameable(l.of, FALSE) # {} BY <2>3 DEF Earned
  <2> QED BY <2>3, <2>4, <2>5
<1> QED BY <1>1, HookInvariant, PTL

-----------------------------------------------------------------------------
\* With the grant every payload with a match or something unreadable has a line, and
\* its outcome is the payload's own.
LEMMA GrantedLines ==
  ASSUME HookInv, NEW size \in Sizes
  PROVE  /\ \A l \in Owed(TRUE, size) :
              l.of \in DOMAIN Payloads /\ l.outcome = Outcome(harness, event, Here(l.of))
         /\ \A i \in DOMAIN Payloads : Here(i) # {} \/ Payloads[i].unreadable # {} =>
              \E l \in Owed(TRUE, size) : l.of = i
<1>1. ASSUME NEW i \in DOMAIN Payloads, Here(i) # {} \/ Payloads[i].unreadable # {}
      PROVE  \E l \in Owed(TRUE, size) : l.of = i
  <2> DEFINE w == Line(i, TRUE, size)
  <2>1. Nameable(i, TRUE) = Here(i) BY DEF Nameable
  <2>2. Earned(i, TRUE) BY <1>1, <2>1 DEF Earned
  <2>3. EncodeLine(w) \in Owed(TRUE, size) BY <2>2, OwedFacts
  <2>4. w \in LineOf(Matched) BY LineFacts
  <2>5. w.of = i /\ w.payload = TRUE /\ w.truncated = FALSE BY LineFacts
  <2> HIDE DEF w
  <2>6. EncodeLine(w).of = w.of BY <2>4, <2>5, EncodeFacts
  <2> QED BY <2>3, <2>5, <2>6
<1>2. ASSUME NEW l \in Owed(TRUE, size)
      PROVE  l.of \in DOMAIN Payloads /\ l.outcome = Outcome(harness, event, Here(l.of))
  BY LogLineFacts
<1> QED BY <1>1, <1>2

\* The strongest outcome over an event's lines is the event's.
LEMMA LinesAddUp ==
  ASSUME HookInv, NEW size \in Sizes
  PROVE  Strongest({l.outcome : l \in Owed(TRUE, size)}) = Outcome(harness, event, Matched)
<1> DEFINE L == Owed(TRUE, size)
           S == {l.outcome : l \in L}
           o == Outcome(harness, event, Matched)
           out(i) == Outcome(harness, event, Here(i))
           some(a, ms) == \E m \in Delivering(ms) :
                            m.rule.action = a /\ Degrade(harness, event, a) = a
<1>1. harness \in Harnesses /\ event \in Rows(harness) /\ MatchesOn(Matched, event)
  BY MatchesAreOnEvent DEF HookInv, HookTypeOK
<1>2. \A i : MatchesOn(Here(i), event) BY <1>1 DEF Here, MatchesOn
<1>3. /\ o \in {"allow"} \cup Actions
      /\ o = "block" <=> some("block", Matched)
      /\ o = "ask" <=> some("ask", Matched) /\ ~some("block", Matched)
      /\ o = "allow" <=> Delivering(Matched) = {}
  BY <1>1, OutcomeFacts
<1>4. ASSUME NEW i
      PROVE  /\ out(i) \in {"allow"} \cup Actions
             /\ out(i) = "block" <=> some("block", Here(i))
             /\ out(i) = "ask" <=> some("ask", Here(i)) /\ ~some("block", Here(i))
             /\ out(i) = "allow" <=> Delivering(Here(i)) = {}
  BY <1>1, <1>2, OutcomeFacts
<1>5. /\ \A l \in L : l.of \in DOMAIN Payloads /\ l.outcome = out(l.of)
      /\ \A i \in DOMAIN Payloads : Here(i) # {} => \E l \in L : l.of = i
  BY GrantedLines
\* A match that delivers does so on a payload that has a line, and the other way about.
<1>6. \A m \in Delivering(Matched) : \E l \in L : m \in Delivering(Here(l.of))
  <2> SUFFICES ASSUME NEW m \in Delivering(Matched) PROVE \E l \in L : m \in Delivering(Here(l.of))
    OBVIOUS
  <2>1. m \in Matched /\ ~m.trial BY DEF Delivering
  <2>2. m.on = On(m.rule) /\ m.on # {} BY <2>1, MatchedFacts
  <2>3. PICK i \in m.on : i \in DOMAIN Payloads BY <2>2 DEF On
  <2>4. m \in Delivering(Here(i)) /\ Here(i) # {} BY <2>1, <2>3 DEF Delivering, Here
  <2> QED BY <1>5, <2>3, <2>4
<1>7. \A l \in L : Delivering(Here(l.of)) \subseteq Delivering(Matched) BY DEF Delivering, Here
<1>8. S \in SUBSET ({"allow"} \cup Actions)
  <2>1. \A i : out(i) \in {"allow"} \cup Actions BY <1>4
  <2> HIDE DEF out, L
  <2>2. \A l \in L : l.outcome \in {"allow"} \cup Actions BY <1>5, <2>1
  <2> QED BY <2>2
<1>9. "block" \in S <=> o = "block"
  <2>1. ASSUME o = "block" PROVE "block" \in S
    <3>1. PICK m \in Delivering(Matched) :
            m.rule.action = "block" /\ Degrade(harness, event, "block") = "block"
      BY <1>3, <2>1
    <3>2. PICK l \in L : m \in Delivering(Here(l.of)) BY <1>6
    <3>3. out(l.of) = "block" BY <1>4, <3>1, <3>2
    <3> QED BY <1>5, <3>2, <3>3
  <2>2. ASSUME NEW l \in L, l.outcome = "block" PROVE o = "block"
    <3>1. out(l.of) = "block" BY <1>5, <2>2
    <3>2. some("block", Here(l.of)) BY <1>4, <3>1
    <3> QED BY <1>3, <1>7, <3>2
  <2> QED BY <2>1, <2>2
<1>10. ASSUME o = "ask" PROVE "ask" \in S
  <2>1. PICK m \in Delivering(Matched) :
          m.rule.action = "ask" /\ Degrade(harness, event, "ask") = "ask"
    BY <1>3, <1>10
  <2>2. PICK l \in L : m \in Delivering(Here(l.of)) BY <1>6
  <2>3. ~some("block", Matched) BY <1>3, <1>10
  <2>4. ~some("block", Here(l.of)) BY <1>7, <2>2, <2>3
  <2>5. some("ask", Here(l.of)) BY <2>1, <2>2
  <2>6. out(l.of) = "ask" BY <1>4, <2>4, <2>5
  <2> QED BY <1>5, <2>2, <2>6
<1>11. ASSUME "ask" \in S, o # "block" PROVE o = "ask"
  <2>1. PICK l \in L : l.outcome = "ask" BY <1>11
  <2>2. out(l.of) = "ask" BY <1>5, <2>1
  <2>3. some("ask", Here(l.of)) BY <1>4, <2>2
  <2>4. some("ask", Matched) BY <1>7, <2>3
  <2> QED BY <1>3, <1>11, <2>4
<1>12. (\A a \in S : a = "allow") <=> o = "allow"
  <2>1. ASSUME \A a \in S : a = "allow" PROVE o = "allow"
    <3>1. \A l \in L : out(l.of) = "allow" BY <1>5, <2>1
    <3>2. \A l \in L : Delivering(Here(l.of)) = {} BY <1>4, <3>1
    <3>3. Delivering(Matched) = {} BY <1>6, <3>2
    <3> QED BY <1>3, <3>3
  <2>2. ASSUME o = "allow", NEW l \in L PROVE l.outcome = "allow"
    <3>1. Delivering(Here(l.of)) = {} BY <1>3, <1>7, <2>2
    <3>2. out(l.of) = "allow" BY <1>4, <3>1
    <3> QED BY <1>5, <3>2
  <2> QED BY <2>1, <2>2
<1> HIDE DEF S, o
<1>13. /\ Strongest(S) = "block" <=> "block" \in S
       /\ Strongest(S) = "ask" <=> "ask" \in S /\ "block" \notin S
       /\ Strongest(S) = "warn" <=> "warn" \in S /\ "ask" \notin S /\ "block" \notin S
       /\ Strongest(S) \in {"allow"} \cup Actions
  BY <1>8, StrongestFacts
<1>14. Strongest(S) = o BY <1>3, <1>8, <1>9, <1>10, <1>11, <1>12, <1>13 DEF Actions
<1> QED BY <1>14 DEF S, o

\* Where it is granted the log tells what happened, whatever the lengths of a line's
\* parts and the limit on it.
THEOREM LogTellsTheEventHolds == Spec => []LogTellsTheEvent
<1>1. ASSUME HookInv PROVE LogTellsTheEvent
  <2> DEFINE here(l) == {m \in Matched : l.of \in m.on}
  <2> SUFFICES ASSUME Evaluated, "grant" \notin changed, Granted, ~unlogged
               PROVE  /\ Strongest({l.outcome : l \in lines}) = Outcome(harness, event, Matched)
                      /\ \A m \in Matched : \A i \in m.on : \E l \in lines : l.of = i
                      /\ \A i \in DOMAIN Payloads :
                           Payloads[i].unreadable # {} => \E l \in lines : l.of = i
                      /\ \A l \in lines :
                           /\ ToSet(l.hits) \subseteq here(l)
                           /\ Length(l) + 1 <= LineMax \/ (l.hits = <<>> /\ ~l.payload)
                           /\ ~l.truncated => l.payload /\ ToSet(l.hits) = here(l)
                           /\ l.truncated =>
                                /\ ~l.payload
                                /\ IF ToSet(l.hits) = here(l)
                                     THEN Length([l EXCEPT !.payload = TRUE, !.truncated = FALSE]) + 1 > LineMax
                                     ELSE Length(l) + l.size.entry + 1 > LineMax
    BY DEF LogTellsTheEvent
  <2>1. PICK granted \in BOOLEAN, size \in Sizes : granted = Granted /\ lines = Owed(granted, size)
    BY <1>1 DEF HookInv, Recorded, Evaluated, Answered
  <2>2. granted = TRUE BY <2>1
  <2>3. lines = Owed(TRUE, size) BY <2>1, <2>2
  <2>4. Strongest({l.outcome : l \in lines}) = Outcome(harness, event, Matched)
    BY <1>1, <2>3, LinesAddUp
  <2>5. \A i \in DOMAIN Payloads : Here(i) # {} \/ Payloads[i].unreadable # {} =>
          \E l \in lines : l.of = i
    BY <1>1, <2>3, GrantedLines
  <2>6. ASSUME NEW m \in Matched, NEW i \in m.on PROVE \E l \in lines : l.of = i
    <3>1. i \in DOMAIN Payloads BY <1>1, MatchedFacts DEF On
    <3>2. m \in Here(i) BY DEF Here
    <3> QED BY <2>5, <3>1, <3>2
  <2>8. ASSUME NEW l \in lines
        PROVE  /\ ToSet(l.hits) \subseteq here(l)
               /\ Length(l) + 1 <= LineMax \/ (l.hits = <<>> /\ ~l.payload)
               /\ ~l.truncated => l.payload /\ ToSet(l.hits) = here(l)
               /\ l.truncated =>
                    /\ ~l.payload
                    /\ IF ToSet(l.hits) = here(l)
                         THEN Length([l EXCEPT !.payload = TRUE, !.truncated = FALSE]) + 1 > LineMax
                         ELSE Length(l) + l.size.entry + 1 > LineMax
    <3> DEFINE r == [l EXCEPT !.payload = TRUE, !.truncated = FALSE]
    <3>1. here(l) = Nameable(l.of, TRUE) BY DEF Nameable, Here
    <3> HIDE DEF here
    <3>2. /\ l \in LineOf(Matched)
          /\ ToSet(l.hits) \subseteq here(l)
          /\ Length(l) < LineMax \/ (l.hits = <<>> /\ l.payload = FALSE)
          /\ l.truncated = FALSE => l.payload = TRUE /\ ToSet(l.hits) = here(l)
          /\ l.truncated = TRUE =>
               /\ l.payload = FALSE
               /\ IF ToSet(l.hits) = here(l)
                    THEN Length(r) >= LineMax
                    ELSE Length(l) + l.size.entry >= LineMax
      BY <1>1, <2>3, <3>1, LogLineFacts
    <3>3. l.payload \in BOOLEAN /\ l.truncated \in BOOLEAN BY <3>2 DEF LineOf
    <3>4. Length(l) \in Nat /\ Length(r) \in Nat /\ l.size.entry \in Nat
      <4>1. r \in LineOf(Matched) BY <3>2 DEF LineOf
      <4>2. l.size \in Sizes BY <3>2 DEF LineOf
      <4> QED BY <3>2, <4>1, <4>2, LengthsAreNatural, SizesAssumption
    <3> HIDE DEF r
    <3> QED BY <3>2, <3>3, <3>4, LineMaxAssumption DEF r
  <2> QED BY <2>4, <2>5, <2>6, <2>8
<1> QED BY <1>1, HookInvariant, PTL
=============================================================================
