---------------------------- MODULE RegistryText ----------------------------
(***************************************************************************)
(* What a line of the state registry says (internal/rule/state.go,         *)
(* trust.go, log.go).  A line's text is a sequence of pieces: the word of  *)
(* a state or of a grant, the space after it and the pieces of a path, cut *)
(* as finely as need be for a path to begin, or to end, with another, and  *)
(* so that a space and a newline in a path are pieces of their own.        *)
(***************************************************************************)
EXTENDS Naturals, Sequences

CONSTANTS Roots,       \* Project roots
          Machine,     \* the machine-wide scope, a line with no path
          Pieces,      \* what paths are cut into
          Path,        \* the pieces of each root's path
          None

Space == " "
Newline == "\n"
Scrap == "?"  \* a word that is not all there

Records == {"enforcement", "trusted", "decision-log"}
States == {"enforce", "trial", "off"}
Values == States \cup {"yes", "on", "off"}
Scopes == Roots \cup {Machine}

ASSUME PathAssumption ==
  /\ Path \in [Roots -> Seq(Pieces) \ {<<>>}]
  /\ \A r, q \in Roots : Path[r] = Path[q] => r = q
ASSUME MachineAssumption == Machine \notin Roots
ASSUME NoneAssumption == None \notin Scopes \cup Values \cup [key : Scopes, val : Values]

\* What the commands ask a record to hold.  trusted is paths alone: a path is a yes.
LinesOf(f) ==
  CASE f = "enforcement" -> [key : Scopes, val : States]
    [] f = "trusted" -> [key : Roots, val : {"yes"}]
    [] f = "decision-log" -> [key : Roots, val : {"on", "off"}]

PathOf(k) == IF k = Machine THEN <<>> ELSE Path[k]

\* The text SetState, Trust and SetLogging make of it.
TextOf(f, line) ==
  IF f = "trusted" THEN PathOf(line.key)
  ELSE IF line.key = Machine THEN <<line.val>>
  ELSE <<line.val, Space>> \o PathOf(line.key)

\* What may land of a text whose write stops short: any beginning of it, all of it but
\* its newline included, and of a word also a part.
Starts(f, text) ==
  {SubSeq(text, 1, n) : n \in 1..Len(text)} \cup (IF f = "trusted" THEN {} ELSE {<<Scrap>>})

\* strings.Cut at the first space.
Spaces(text) == {i \in DOMAIN text : text[i] = Space}
Cut(text) ==
  IF Spaces(text) = {} THEN [word |-> text, path |-> <<>>]
  ELSE LET at == CHOOSE i \in Spaces(text) : \A j \in Spaces(text) : i <= j IN
       [word |-> SubSeq(text, 1, at - 1), path |-> SubSeq(text, at + 1, Len(text))]

\* What isTrusted, StateOf and Logging take a text for.  To StateOf a word that is no state
\* says nothing; to Logging every word that is not "on" says off.
KeyAt == [path \in {PathOf(k) : k \in Scopes} |-> CHOOSE k \in Scopes : PathOf(k) = path]
Says(f, text) ==
  LET cut == IF f = "trusted" THEN [word |-> <<"yes">>, path |-> text] ELSE Cut(text)
      val == CASE f = "trusted" -> "yes"
               [] f = "enforcement" /\ cut.word \in {<<s>> : s \in States} -> cut.word[1]
               [] f = "decision-log" -> IF cut.word = <<"on">> THEN "on" ELSE "off"
               [] OTHER -> None
      key == IF cut.path \in DOMAIN KeyAt THEN KeyAt[cut.path] ELSE None
  IN IF val = None \/ key = None \/ (f # "enforcement" /\ key = Machine) THEN None
     ELSE [key |-> key, val |-> val]
=============================================================================
