------------------------------ MODULE Registry ------------------------------
(***************************************************************************)
(* The state registry (internal/rule/state.go, trust.go, log.go) and the   *)
(* commands that write it: mode, trust and log on/off, run at once in      *)
(* several terminals.                                                      *)
(*                                                                         *)
(* Each record is one file of lines, appended to and never rewritten.  A   *)
(* write is one line.  A write that stopped short has no newline, so the   *)
(* next one lands behind it on the same line; only the last line of a file *)
(* can be without its newline, and it is read like the others.             *)
(***************************************************************************)
EXTENDS RegistryText

CONSTANTS Terminals,   \* where the user runs commands
          InSession,   \* the terminals inside a harness session
          Lockable,    \* the records whose permissions may deny reading
          MaxWrites,   \* bound: writes in a behaviour
          Tear         \* may a write stop short (a full disk)?

ASSUME LockableAssumption == Lockable \subseteq Records
ASSUME TearAssumption == Tear \in BOOLEAN
ASSUME WritesAssumption == MaxWrites \in Nat

VARIABLES
  file,      \* the lines of each record
  writes,    \* the writes so far
  locked,    \* the records that cannot be read
  asking,    \* the root each terminal's trust command found untrusted
  last       \* for each scope, the state its last mode command was acknowledged for

vars == <<file, writes, locked, asking, last>>

\* registry: the lines of f, none where it cannot be read.
Seen(f) == IF f \in locked THEN {} ELSE DOMAIN file[f]

\* The value f's lines among idx have for key: the last one's, None when there is none.
LatestIn(f, idx, key) ==
  LET said == [i \in idx |-> Says(f, file[f][i].text)]
      mine == {i \in idx : said[i] # None /\ said[i].key = key} IN
  IF mine = {} THEN None ELSE said[CHOOSE i \in mine : \A j \in mine : j <= i].val

\* Mutant: the project's own state only applies where no machine-wide one is set.
StateOf_MachineFirst(root) ==
  LET own == LatestIn("enforcement", Seen("enforcement"), root)
      machine == LatestIn("enforcement", Seen("enforcement"), Machine) IN
  CASE machine # None -> machine
    [] machine = None /\ own # None -> own
    [] OTHER -> "enforce"

\* The project's own state, else the machine-wide one, else enforce.
StateOf(root) ==
  LET own == LatestIn("enforcement", Seen("enforcement"), root)
      machine == LatestIn("enforcement", Seen("enforcement"), Machine) IN
  CASE own # None -> own
    [] own = None /\ machine # None -> machine
    [] OTHER -> "enforce"

IsTrusted(root) == \E i \in Seen("trusted") : file["trusted"][i].text = Path[root]
Logging(root) == LatestIn("decision-log", Seen("decision-log"), root) = "on"

Init ==
  /\ file = [f \in Records |-> <<>>] /\ writes = 0
  /\ locked \in SUBSET Lockable
  /\ asking = [t \in Terminals |-> None]
  /\ last = [k \in Scopes |-> None]

Unended(s) == Len(s) > 0 /\ ~s[Len(s)].ended

\* The lines s with one more write behind them.
Extended(s, text, ended) ==
  IF Unended(s)
    THEN [s EXCEPT ![Len(s)] = [text |-> s[Len(s)].text \o text, ended |-> ended]]
    ELSE Append(s, [text |-> text, ended |-> ended])

Put(f, text, ended) ==
  /\ writes < MaxWrites /\ writes' = writes + 1
  /\ file' = [file EXCEPT ![f] = Extended(file[f], text, ended)]

OneLine(line) == \A i \in DOMAIN PathOf(line.key) : PathOf(line.key)[i] # Newline

\* Mutant: appendFile opens with O_TRUNC.
AppendLine_Truncates(f, line) ==
  /\ writes < MaxWrites /\ writes' = writes + 1
  /\ file' = [file EXCEPT ![f] = <<[text |-> TextOf(f, line), ended |-> TRUE]>>]

\* Mutant: appendRegistry without its check for a newline.  The path's first line reads
\* as a root of its own.
AppendLine_AnyPath(f, line) ==
  LET text == TextOf(f, line) IN
  IF OneLine(line) THEN Put(f, text, TRUE)
  ELSE \E i \in DOMAIN text : text[i] = Newline /\ Put(f, SubSeq(text, 1, i - 1), TRUE)

\* appendRegistry's one write.  Nothing is read before it, so nothing is stale, and
\* nothing is written before it, so it does not begin a line where the last has no end.
AppendLine(f, line) == OneLine(line) /\ Put(f, TextOf(f, line), TRUE)

\* The disk fills inside the write: a beginning of the line is in the file, and the
\* command reports the error.
AppendFails(f, line) ==
  /\ Tear /\ OneLine(line)
  /\ \E start \in Starts(f, TextOf(f, line)) : Put(f, start, FALSE)

\* mode <state>, which setMode refuses inside a harness session.
Mode(t, scope, state) ==
  LET line == [key |-> scope, val |-> state] IN
  /\ t \notin InSession
  /\ \/ AppendLine("enforcement", line) /\ last' = [last EXCEPT ![scope] = state]
     \/ AppendFails("enforcement", line) /\ last' = [last EXCEPT ![scope] = None]
  /\ UNCHANGED <<locked, asking>>

\* log on and log off.
SetLogging(root, on) ==
  LET line == [key |-> root, val |-> on] IN
  /\ AppendLine("decision-log", line) \/ AppendFails("decision-log", line)
  /\ UNCHANGED <<locked, asking, last>>

\* Trust reads first, and stops at a record it cannot read or a grant it finds.
TrustRead(t, root) ==
  /\ asking[t] = None
  /\ "trusted" \notin locked /\ ~IsTrusted(root)
  /\ asking' = [asking EXCEPT ![t] = root]
  /\ UNCHANGED <<file, writes, locked, last>>

\* It appends what it found missing, though another terminal may have granted it.
TrustAppend(t) ==
  /\ asking[t] # None
  /\ LET line == [key |-> asking[t], val |-> "yes"] IN
       AppendLine("trusted", line) \/ AppendFails("trusted", line)
  /\ asking' = [asking EXCEPT ![t] = None]
  /\ UNCHANGED <<locked, last>>

\* The newline check, or a failure before the write's first byte, ends it.
TrustRefused(t) ==
  /\ asking[t] # None
  /\ asking' = [asking EXCEPT ![t] = None]
  /\ UNCHANGED <<file, writes, locked, last>>

Next ==
  \/ \E t \in Terminals :
       \/ \E k \in Scopes, s \in States : Mode(t, k, s)
       \/ \E r \in Roots : TrustRead(t, r)
       \/ TrustAppend(t) \/ TrustRefused(t)
  \/ \E r \in Roots, on \in {"on", "off"} : SetLogging(r, on)

Spec == Init /\ [][Next]_vars

-----------------------------------------------------------------------------
\* The promise, read off the files: what the ended lines set, and what is behind them.
Ended(f) == {i \in DOMAIN file[f] : file[f][i].ended}

Promise == INSTANCE Switches WITH
  set <- [f \in Records |-> [k \in Scopes |-> LatestIn(f, Ended(f), k)]],
  left <- [f \in Records |->
             IF Unended(file[f]) THEN file[f][Len(file[f])].text ELSE <<>>],
  acked <- last,
  asked <- {asking[t] : t \in Terminals} \ {None}

\* Commands in any number of terminals at once, with no lock between them, set and
\* replace as if one at a time: SetState, Trust and SetLogging keep the promise.  What is
\* set or granted is what the command asked for, also where a path holds a newline, but
\* for one case: behind a write that stopped short the record takes the two for one line.
KeepsPromise == Promise!Spec

\* And what StateOf, isTrusted and Logging read back is what was promised, own state
\* before machine-wide before enforce, for every root.
ReadsAsPromised ==
  locked = {} => \A r \in Roots :
    /\ StateOf(r) = Promise!Applies(r)
    /\ IsTrusted(r) = Promise!IsTrusted(r)
    /\ Logging(r) = Promise!IsLogging(r)

-----------------------------------------------------------------------------
\* SetState's comment: it "records state for root ... replacing whatever that scope
\* held".  The state a mode command was acknowledged for is the one its scope holds
\* until the next command for that scope.
AcknowledgedHolds ==
  "enforcement" \notin locked => \A k \in Scopes :
    last[k] # None => LatestIn("enforcement", Seen("enforcement"), k) = last[k]
=============================================================================
