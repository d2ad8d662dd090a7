------------------------------ MODULE Switches ------------------------------
(***************************************************************************)
(* What the state registry promises: for each of its records, the value    *)
(* each scope is set to.  A command sets one scope of one record, in one   *)
(* step, and what it sets is what it asks for.                             *)
(*                                                                         *)
(* A command whose write stops short fails and says so, but what it left   *)
(* behind is part of the promise too.  It passes for a setting, where it   *)
(* says one, and the record's next command is joined to it: what is set is *)
(* then what the two say as one line.  That is most often nothing, so the  *)
(* command is lost though it is acknowledged, and it may be a setting that *)
(* nobody asked for.                                                       *)
(***************************************************************************)
EXTENDS Sequences

CONSTANTS Records, Roots, Scopes, None,
          Machine,       \* the machine-wide scope
          LinesOf(_),    \* what a record's commands may ask for, a key and a value
          TextOf(_, _),  \* a record's text for it
          Starts(_, _),  \* what may land of a text whose write stops short
          Says(_, _)     \* what a text sets in a record, or None

VARIABLES
  set,    \* the value each scope of each record is set to
  left,   \* what a short write left behind in each record, or nothing
  acked,  \* the state each scope's last mode command was acknowledged for
  asked   \* the roots a trust command is asking for
vars == <<asked, acked, left, set>>

\* What a reader is told: the setting, with what was left behind over it.
Shown(f, k) ==
  LET seems == Says(f, left[f]) IN
  IF seems # None /\ seems.key = k THEN seems.val ELSE set[f][k]

Applies(r) ==
  LET own == Shown("enforcement", r)
      machine == Shown("enforcement", Machine) IN
  CASE own # None -> own
    [] own = None /\ machine # None -> machine
    [] OTHER -> "enforce"

IsTrusted(r) == Shown("trusted", r) = "yes"
IsLogging(r) == Shown("decision-log", r) = "on"

Init ==
  /\ set = [f \in Records |-> [k \in Scopes |-> None]]
  /\ left = [f \in Records |-> <<>>]
  /\ acked = [k \in Scopes |-> None]
  /\ asked = {}

\* One scope of one record changes, or none where nothing is said.
Setting(f, line) ==
  IF line = None THEN set ELSE [set EXCEPT ![f][line.key] = line.val]

\* A command sets what it asks for and nothing else ...
Sets(f, line) ==
  /\ left[f] = <<>> /\ UNCHANGED left
  /\ set' = Setting(f, line)

\* ... but behind what a short write left, what the two say as one line.
Joins(f, line) ==
  /\ left[f] # <<>> /\ left' = [left EXCEPT ![f] = <<>>]
  /\ set' = Setting(f, Says(f, left[f] \o TextOf(f, line)))

\* A write that stops short sets nothing.
StopsShort(f, line) ==
  /\ \E start \in Starts(f, TextOf(f, line)) : left' = [left EXCEPT ![f] = left[f] \o start]
  /\ UNCHANGED set

Tell(f, k, s) == acked' = IF f = "enforcement" THEN [acked EXCEPT ![k] = s] ELSE acked

\* A root is granted for a command that asks for it, which is then done.
Command(f, line) ==
  /\ f = "trusted" => line.key \in asked
  /\ asked' \in IF f = "trusted" THEN {asked, asked \ {line.key}} ELSE {asked}
  /\ \/ Tell(f, line.key, line.val) /\ (Sets(f, line) \/ Joins(f, line))
     \/ Tell(f, line.key, None) /\ StopsShort(f, line)

\* A trust command begins to ask, or gives up.
Ask ==
  /\ \E r \in Roots : asked' \in {asked \cup {r}, asked \ {r}}
  /\ UNCHANGED <<left, acked, set>>

Next == Ask \/ \E f \in Records : \E line \in LinesOf(f) : Command(f, line)

Spec == Init /\ [][Next]_vars
=============================================================================
