--------------------------- MODULE RegistryProofs ---------------------------
(***************************************************************************)
(* Theorems about the state registry, for any roots, paths and terminals:  *)
(* its files keep the promise of Switches, step by step, and what is read  *)
(* off them is what was promised.                                          *)
(*                                                                         *)
(* What a record promises is a function of the one file it is kept in, so  *)
(* the lemmas are about a sequence of lines: that the text of a command    *)
(* reads back as what the command asked for, what the lines set (SetTo),   *)
(* what a write that stopped short left behind them (Left), and what one   *)
(* more write makes of both.                                               *)
(***************************************************************************)
EXTENDS Registry, SequenceTheorems, NaturalsInduction, WellFoundedInduction, TLAPS

\* What lines are made of.
Text == Seq(Pieces \cup Values \cup {Space, Scrap})
Line == [text : Text, ended : BOOLEAN]

\* Only the last line can be without its newline.
LinesOK(s) == s \in Seq(Line) /\ \A i \in 1..Len(s) : i < Len(s) => s[i].ended

LatestOf(f, s, idx, key) ==
  LET said == [i \in idx |-> Says(f, s[i].text)]
      mine == {i \in idx : said[i] # None /\ said[i].key = key} IN
  IF mine = {} THEN None ELSE said[CHOOSE i \in mine : \A j \in mine : j <= i].val

EndedOf(s) == {i \in DOMAIN s : s[i].ended}
SetTo(f, s, key) == LatestOf(f, s, EndedOf(s), key)
Left(s) == IF Unended(s) THEN s[Len(s)].text ELSE <<>>

\* A text sets the key k.
SaysOf(f, text, k) == Says(f, text) # None /\ Says(f, text).key = k

-----------------------------------------------------------------------------
\* What the readers take a text for is a line of its record, or nothing.
LEMMA KeysOfPaths ==
  /\ \A k \in Scopes : PathOf(k) \in DOMAIN KeyAt /\ KeyAt[PathOf(k)] = k
  /\ \A p \in DOMAIN KeyAt : KeyAt[p] \in Scopes /\ PathOf(KeyAt[p]) = p
<1>1. \A k, j \in Scopes : PathOf(k) = PathOf(j) => k = j
  <2>1. \A r \in Roots : Path[r] # <<>> /\ r # Machine
    BY PathAssumption, MachineAssumption
  <2> QED BY <2>1, PathAssumption DEF PathOf, Scopes
<1>2. \A k \in Scopes : PathOf(k) \in {PathOf(j) : j \in Scopes} OBVIOUS
<1>3. \A p \in {PathOf(j) : j \in Scopes} :
        LET k == CHOOSE k \in Scopes : PathOf(k) = p IN k \in Scopes /\ PathOf(k) = p
  OBVIOUS
<1>4. \A p \in {PathOf(j) : j \in Scopes} : KeyAt[p] = CHOOSE k \in Scopes : PathOf(k) = p
  BY DEF KeyAt
<1>5. DOMAIN KeyAt = {PathOf(j) : j \in Scopes} BY DEF KeyAt
<1>6. \A p \in DOMAIN KeyAt : KeyAt[p] \in Scopes /\ PathOf(KeyAt[p]) = p
  BY <1>3, <1>4, <1>5
<1> QED BY <1>1, <1>2, <1>5, <1>6

LEMMA NoneIsNoLine == \A f \in Records : None \notin LinesOf(f)
<1> TAKE f \in Records
<1>1. LinesOf(f) \subseteq [key : Scopes, val : Values]
  BY DEF LinesOf, Records, Values, Scopes
<1> QED BY <1>1, NoneAssumption DEF Scopes

\* What a path is taken for.
KeyFor(path) == IF path \in DOMAIN KeyAt THEN KeyAt[path] ELSE None

LEMMA KeyForPath ==
  /\ \A path : KeyFor(path) \in Scopes \cup {None}
  /\ \A k \in Scopes : KeyFor(PathOf(k)) = k
  /\ \A path, k : k \in Scopes /\ KeyFor(path) = k /\ k # None => path = PathOf(k)
BY KeysOfPaths DEF KeyFor

\* Says, record by record.
LEMMA SaysEnforcement ==
  ASSUME NEW text
  PROVE  Says("enforcement", text) =
           IF Cut(text).word \notin {<<s>> : s \in States} \/ KeyFor(Cut(text).path) = None
             THEN None
             ELSE [key |-> KeyFor(Cut(text).path), val |-> Cut(text).word[1]]
<1>1. \A s \in States : <<s>>[1] = s /\ s # None BY NoneAssumption DEF Values
<1> QED BY <1>1 DEF Says, KeyFor

LEMMA SaysTrusted ==
  ASSUME NEW text
  PROVE  Says("trusted", text) =
           IF KeyFor(text) \in {None, Machine} THEN None
           ELSE [key |-> KeyFor(text), val |-> "yes"]
BY NoneAssumption DEF Says, KeyFor, Values

LEMMA SaysLogging ==
  ASSUME NEW text
  PROVE  Says("decision-log", text) =
           IF KeyFor(Cut(text).path) \in {None, Machine} THEN None
           ELSE [key |-> KeyFor(Cut(text).path),
                 val |-> IF Cut(text).word = <<"on">> THEN "on" ELSE "off"]
BY NoneAssumption DEF Says, KeyFor, Values

LEMMA SaysALine ==
  ASSUME NEW f \in Records, NEW text
  PROVE  Says(f, text) \in LinesOf(f) \cup {None}
<1>1. CASE f = "enforcement"
  <2>1. \A w \in {<<s>> : s \in States} : w[1] \in States OBVIOUS
  <2> QED BY <1>1, <2>1, SaysEnforcement, KeyForPath DEF LinesOf
<1>2. CASE f = "trusted" BY <1>2, SaysTrusted, KeyForPath DEF LinesOf, Scopes
<1>3. CASE f = "decision-log"
  <2>1. (IF Cut(text).word = <<"on">> THEN "on" ELSE "off") \in {"on", "off"} OBVIOUS
  <2> QED BY <1>3, <2>1, SaysLogging, KeyForPath DEF LinesOf, Scopes
<1> QED BY <1>1, <1>2, <1>3 DEF Records

\* Nothing is said by nothing.
LEMMA NothingSaid == \A f \in Records : Says(f, <<>>) = None
<1>1. PathOf(Machine) = <<>> /\ Machine \in Scopes BY DEF PathOf, Scopes
<1>2. KeyFor(<<>>) = Machine BY <1>1, KeyForPath
<1>3. Spaces(<<>>) = {} BY DEF Spaces
<1>4. Cut(<<>>) = [word |-> <<>>, path |-> <<>>] BY <1>3 DEF Cut
<1>5. \A s : <<>> # <<s>> OBVIOUS
<1> QED BY <1>2, <1>4, <1>5, SaysEnforcement, SaysTrusted, SaysLogging DEF Records

\* A word, a space and a path are cut into the word and the path.
LEMMA CutAtSpace ==
  ASSUME NEW S, NEW v \in S, v # Space, Space \in S, NEW p \in Seq(S)
  PROVE  /\ <<v, Space>> \o p \in Seq(S)
         /\ Cut(<<v, Space>> \o p) = [word |-> <<v>>, path |-> p]
<1> DEFINE head == <<v, Space>>
           text == head \o p
<1>1. head \in Seq(S) /\ Len(head) = 2 /\ head[1] = v /\ head[2] = Space OBVIOUS
<1> HIDE DEF head
<1>2. /\ text \in Seq(S) /\ Len(text) = Len(head) + Len(p)
      /\ \A i \in 1..Len(head) + Len(p) :
           text[i] = IF i <= Len(head) THEN head[i] ELSE p[i - Len(head)]
  BY <1>1, ConcatProperties
<1>3. Len(p) \in Nat OBVIOUS
<1> HIDE DEF text
<1>4. Len(text) = Len(p) + 2 /\ text[1] = v /\ text[2] = Space BY <1>1, <1>2, <1>3
<1>5. \A i \in 1..Len(p) : text[i + 2] = p[i] BY <1>1, <1>2, <1>3
<1>6. DOMAIN text = 1..Len(p) + 2 BY <1>2, <1>4
<1>7. 2 \in Spaces(text) BY <1>3, <1>4, <1>6 DEF Spaces
<1>8. \A j \in Spaces(text) : 2 <= j /\ j \in Int
  <2>1. \A j \in 1..Len(p) + 2 : j # 1 => 2 <= j /\ j \in Int BY <1>3
  <2> QED BY <1>4, <1>6, <2>1 DEF Spaces
<1>9. (CHOOSE i \in Spaces(text) : \A j \in Spaces(text) : i <= j) = 2
  <2> DEFINE First(i) == \A j \in Spaces(text) : i <= j
             at == CHOOSE i \in Spaces(text) : First(i)
  <2>1. at \in Spaces(text) /\ First(at) BY <1>7, <1>8
  <2>2. at <= 2 /\ 2 <= at /\ at \in Int BY <1>7, <1>8, <2>1
  <2> HIDE DEF at
  <2>3. at = 2 BY <2>2
  <2> QED BY <2>3 DEF at
<1>10. SubSeq(text, 1, 2 - 1) = <<v>>
  <2> DEFINE word == SubSeq(text, 1, 1)
  <2>1. word \in Seq(S) /\ Len(word) = 1 /\ word[1] = text[1] BY <1>2, <1>3, <1>4
  <2>2. <<v>> \in Seq(S) /\ Len(<<v>>) = 1 /\ <<v>>[1] = v OBVIOUS
  <2> HIDE DEF word
  <2>3. \A i \in 1..Len(word) : word[i] = <<v>>[i] BY <1>4, <2>1, <2>2
  <2>4. word = <<v>> BY <2>1, <2>2, <2>3, SeqEqual
  <2> QED BY <2>4 DEF word
<1>11. SubSeq(text, 2 + 1, Len(text)) = p
  <2> DEFINE rest == SubSeq(text, 3, Len(text))
  <2>1. /\ rest \in Seq(S) /\ Len(rest) = Len(p)
        /\ \A i \in 1..Len(p) : rest[i] = text[i + 2]
    BY <1>2, <1>3, <1>4
  <2>2. \A i \in 1..Len(p) : rest[i] = p[i] BY <1>5, <2>1
  <2> HIDE DEF rest
  <2>3. rest = p BY <2>1, <2>2
  <2> QED BY <2>3 DEF rest
<1>12. Cut(text) = [word |-> <<v>>, path |-> p]
  BY <1>7, <1>9, <1>10, <1>11 DEF Cut
<1>13. text \in Seq(S) BY <1>2
<1> QED BY <1>12, <1>13 DEF text, head

\* What a command asked for is what its text says, a space in its path or none.
LEMMA SaysWhatWasAsked ==
  ASSUME NEW f \in Records, NEW line \in LinesOf(f)
  PROVE  Says(f, TextOf(f, line)) = line /\ TextOf(f, line) \in Text
<1> DEFINE p == PathOf(line.key)
           S == Pieces \cup Values \cup {Space, Scrap}
<1>1. \A r \in Roots : r \in Scopes /\ r # Machine /\ Path[r] \in Seq(S)
  <2>1. \A r \in Roots : r \in Scopes /\ r # Machine /\ Path[r] \in Seq(Pieces)
    BY PathAssumption, MachineAssumption DEF Scopes
  <2> QED BY <2>1, SeqMonotonic
<1>2. line.key \in Scopes /\ line = [key |-> line.key, val |-> line.val]
  BY <1>1 DEF LinesOf, Records
<1>3. p \in Seq(S)
  <2>1. CASE line.key = Machine BY <2>1 DEF PathOf
  <2>2. CASE line.key # Machine BY <1>1, <1>2, <2>2 DEF PathOf, Scopes
  <2> QED BY <2>1, <2>2
<1>4. KeyFor(p) = line.key BY <1>2, KeyForPath
<1>5. line.key # None BY NoneAssumption, <1>2
<1> HIDE DEF p, S
<1>6. CASE f = "trusted"
  <2>1. line.key \in Roots /\ line.val = "yes" BY <1>6 DEF LinesOf
  <2>2. TextOf(f, line) = p BY <1>6 DEF TextOf, p
  <2> QED BY <1>1, <1>2, <1>3, <1>4, <1>5, <1>6, <2>1, <2>2, SaysTrusted DEF Text, S
<1>7. CASE f # "trusted" /\ line.key = Machine
  <2>1. f = "enforcement" /\ line.val \in States
    BY <1>1, <1>7 DEF LinesOf, Records
  <2>2. line.val \in S BY <2>1 DEF S, Values
  <2> DEFINE text == <<line.val>>
  <2>3. TextOf(f, line) = text BY <1>7 DEF TextOf
  <2>4. text \in Seq(S) /\ Len(text) = 1 /\ text[1] = line.val BY <2>2
  <2>5. text \in {<<s>> : s \in States} BY <2>1
  <2> HIDE DEF text
  <2>6. \A i \in DOMAIN text : i = 1 BY <2>4
  <2>7. Spaces(text) = {} BY <2>1, <2>4, <2>6 DEF Spaces, States, Space
  <2>8. Cut(text) = [word |-> text, path |-> <<>>] BY <2>7 DEF Cut
  <2>9. p = <<>> BY <1>7 DEF PathOf, p
  <2>10. Says(f, text) = [key |-> line.key, val |-> line.val]
    BY <1>4, <1>5, <2>1, <2>4, <2>5, <2>8, <2>9, SaysEnforcement
  <2> QED BY <1>2, <2>3, <2>4, <2>10 DEF Text, S
<1>8. CASE f # "trusted" /\ line.key # Machine
  <2>1. line.val \in States \cup {"on", "off"} BY <1>8 DEF LinesOf, Records
  <2>2. line.val \in S /\ Space \in S BY <2>1 DEF S, Values
  <2>3. line.val # Space BY <2>1 DEF States, Space
  <2> DEFINE text == <<line.val, Space>> \o p
  <2>4. TextOf(f, line) = text BY <1>8 DEF TextOf, p
  <2>5. text \in Seq(S) /\ Cut(text) = [word |-> <<line.val>>, path |-> p]
    BY <1>3, <2>2, <2>3, CutAtSpace
  <2> HIDE DEF text
  <2>6. Cut(text).word = <<line.val>> /\ Cut(text).path = p /\ <<line.val>>[1] = line.val
    BY <2>5
  <2>7. CASE f = "enforcement"
    <3>1. <<line.val>> \in {<<s>> : s \in States} BY <2>7 DEF LinesOf
    <3>2. Says(f, text) = [key |-> line.key, val |-> line.val]
      BY <1>4, <1>5, <2>6, <2>7, <3>1, SaysEnforcement
    <3> QED BY <1>2, <2>4, <2>5, <3>2 DEF Text, S
  <2>8. CASE f = "decision-log"
    <3>1. line.val \in {"on", "off"} BY <2>8 DEF LinesOf
    <3>2. (IF <<line.val>> = <<"on">> THEN "on" ELSE "off") = line.val BY <3>1
    <3>3. Says(f, text) = [key |-> line.key, val |-> line.val]
      BY <1>4, <1>5, <1>8, <2>6, <2>8, <3>2, SaysLogging
    <3> QED BY <1>2, <2>4, <2>5, <3>3 DEF Text, S
  <2> QED BY <1>8, <2>7, <2>8 DEF Records
<1> QED BY <1>6, <1>7, <1>8

\* What lands of a text whose write stops short is text.
LEMMA StartsAreText ==
  ASSUME NEW f \in Records, NEW text \in Text, NEW start \in Starts(f, text)
  PROVE  start \in Text
<1> DEFINE S == Pieces \cup Values \cup {Space, Scrap}
<1>1. text \in Seq(S) /\ Scrap \in S BY DEF Text
<1>2. Starts(f, text) \subseteq {SubSeq(text, 1, n) : n \in 1..Len(text)} \cup {<<Scrap>>}
  BY DEF Starts
<1> HIDE DEF S
<1>3. <<Scrap>> \in Seq(S) BY <1>1
<1>4. ASSUME NEW n \in 1..Len(text) PROVE SubSeq(text, 1, n) \in Seq(S)
  BY <1>1
<1>5. start \in Seq(S) BY <1>2, <1>3, <1>4
<1> QED BY <1>5 DEF Text, S

-----------------------------------------------------------------------------
\* Some numbers up to n have a greatest.
LEMMA GreatestUpTo ==
  ASSUME NEW n \in Nat, NEW S \in SUBSET (1..n), S # {}
  PROVE  \E m \in S : \A j \in S : j <= m
<1> DEFINE T == {n - i : i \in S}
<1>1. \A i \in S : n - i \in Nat /\ i \in Nat OBVIOUS
<1>1a. T \in SUBSET Nat BY <1>1
<1>1b. T # {} OBVIOUS
<1>2. IsWellFoundedOn(OpToRel(<, Nat), Nat) BY NatLessThanWellFounded
<1> HIDE DEF T
<1>3. \E x \in T : \A y \in T : <<y, x>> \notin OpToRel(<, Nat) BY <1>1a, <1>1b, <1>2, WFMin
<1>4. PICK x \in T : \A y \in T : <<y, x>> \notin OpToRel(<, Nat) BY <1>3
<1>5. \A y \in T : ~(y < x) BY <1>1a, <1>4 DEF OpToRel
<1>6. PICK m \in S : x = n - m BY DEF T
<1>7. \A j \in S : n - j \in T BY DEF T
<1>8. \A j \in S : ~(n - j < n - m) BY <1>5, <1>6, <1>7
<1> QED BY <1>1, <1>8

\* The latest line of a key among some of them.
LEMMA LatestFacts ==
  ASSUME NEW f, NEW s, NEW n \in Nat, NEW idx \in SUBSET (1..n), NEW k
  PROVE  \/ (\A i \in idx : ~SaysOf(f, s[i].text, k)) /\ LatestOf(f, s, idx, k) = None
         \/ \E m \in idx : /\ SaysOf(f, s[m].text, k)
                           /\ LatestOf(f, s, idx, k) = Says(f, s[m].text).val
                           /\ \A j \in idx : SaysOf(f, s[j].text, k) => j <= m
<1> DEFINE said == [i \in idx |-> Says(f, s[i].text)]
           mine == {i \in idx : said[i] # None /\ said[i].key = k}
           Top(m) == \A j \in mine : j <= m
<1>1. \A i \in idx : said[i] = Says(f, s[i].text) OBVIOUS
<1>2. LatestOf(f, s, idx, k) =
        IF mine = {} THEN None ELSE said[CHOOSE i \in mine : Top(i)].val
  BY DEF LatestOf
<1> HIDE DEF said
<1>3. \A i \in idx : i \in mine <=> SaysOf(f, s[i].text, k) BY <1>1 DEF SaysOf
<1>4. CASE mine = {} BY <1>2, <1>3, <1>4
<1>5. CASE mine # {}
  <2>1. \E m \in mine : Top(m) BY <1>5, GreatestUpTo
  <2> DEFINE m == CHOOSE i \in mine : Top(i)
  <2>2. m \in mine /\ Top(m) BY <2>1
  <2>3. LatestOf(f, s, idx, k) = said[m].val BY <1>2, <1>5
  <2> HIDE DEF m
  <2>4. m \in idx /\ said[m] = Says(f, s[m].text) BY <1>1, <2>2
  <2>5. \A j \in idx : SaysOf(f, s[j].text, k) => j <= m BY <1>3, <2>2
  <2> QED BY <1>3, <2>2, <2>3, <2>4, <2>5
<1> QED BY <1>4, <1>5

\* The same texts say the same, whatever is behind them ...
LEMMA LatestSame ==
  ASSUME NEW f, NEW s, NEW t, NEW idx, \A i \in idx : t[i].text = s[i].text, NEW k
  PROVE  LatestOf(f, t, idx, k) = LatestOf(f, s, idx, k)
<1> DEFINE Saids(u) == [i \in idx |-> Says(f, u[i].text)]
           Mine(said) == {i \in idx : said[i] # None /\ said[i].key = k}
           Val(said) == IF Mine(said) = {} THEN None
                        ELSE said[CHOOSE i \in Mine(said) : \A j \in Mine(said) : j <= i].val
<1>1. Saids(t) = Saids(s) OBVIOUS
<1>2. \A u : LatestOf(f, u, idx, k) = Val(Saids(u)) BY DEF LatestOf
<1> HIDE DEF Saids, Val
<1>3. LatestOf(f, t, idx, k) = Val(Saids(t)) /\ LatestOf(f, s, idx, k) = Val(Saids(s)) BY <1>2
<1> QED BY <1>1, <1>3

\* ... and one more, behind them, goes before them all.
LEMMA LatestAdded ==
  ASSUME NEW f, NEW s, NEW n \in Nat, n > 0, NEW k
  PROVE  LatestOf(f, s, 1..n, k) =
           IF SaysOf(f, s[n].text, k) THEN Says(f, s[n].text).val
           ELSE LatestOf(f, s, 1..n - 1, k)
<1>1. n \in 1..n /\ \A j \in 1..n : j <= n /\ (j # n => j \in 1..n - 1) OBVIOUS
<1>2. n - 1 \in Nat /\ \A j \in 1..n - 1 : j \in 1..n /\ j # n OBVIOUS
<1>3. CASE SaysOf(f, s[n].text, k)
  <2>1. PICK m \in 1..n : /\ LatestOf(f, s, 1..n, k) = Says(f, s[m].text).val
                          /\ \A j \in 1..n : SaysOf(f, s[j].text, k) => j <= m
    BY <1>1, <1>3, LatestFacts
  <2>2. m = n BY <1>1, <1>3, <2>1
  <2> QED BY <1>3, <2>1, <2>2
<1>4. CASE ~SaysOf(f, s[n].text, k)
  <2>1. CASE \A i \in 1..n : ~SaysOf(f, s[i].text, k)
    <3>1. LatestOf(f, s, 1..n, k) = None BY <2>1, LatestFacts
    <3>2. LatestOf(f, s, 1..n - 1, k) = None BY <1>2, <2>1, LatestFacts
    <3> QED BY <1>4, <3>1, <3>2
  <2>2. CASE \E i \in 1..n : SaysOf(f, s[i].text, k)
    <3>1. PICK m \in 1..n : /\ LatestOf(f, s, 1..n, k) = Says(f, s[m].text).val
                            /\ SaysOf(f, s[m].text, k)
                            /\ \A j \in 1..n : SaysOf(f, s[j].text, k) => j <= m
      BY <2>2, LatestFacts
    <3>2. m \in 1..n - 1 BY <1>1, <1>4, <3>1
    <3> DEFINE h == n - 1
    <3>3a. h \in Nat /\ 1..h \in SUBSET (1..h) /\ m \in 1..h BY <1>2, <3>2
    <3> HIDE DEF h
    <3>3b. PICK l \in 1..h : /\ LatestOf(f, s, 1..h, k) = Says(f, s[l].text).val
                             /\ SaysOf(f, s[l].text, k)
                             /\ \A j \in 1..h : SaysOf(f, s[j].text, k) => j <= l
      BY <3>1, <3>3a, LatestFacts
    <3>3. /\ LatestOf(f, s, 1..n - 1, k) = Says(f, s[l].text).val
          /\ SaysOf(f, s[l].text, k) /\ l \in 1..n - 1
          /\ \A j \in 1..n - 1 : SaysOf(f, s[j].text, k) => j <= l
      BY <3>3b DEF h
    <3>4. l <= m /\ m <= l BY <1>2, <3>1, <3>2, <3>3
    <3>5. l = m BY <3>4
    <3> QED BY <1>4, <3>1, <3>3, <3>5
  <2> QED BY <2>1, <2>2
<1> QED BY <1>3, <1>4

-----------------------------------------------------------------------------
\* All the lines but one without its newline are ended.
LEMMA EndedLines ==
  ASSUME NEW s, LinesOK(s)
  PROVE  LET m == IF Unended(s) THEN Len(s) - 1 ELSE Len(s) IN
         /\ m \in Nat /\ EndedOf(s) = 1..m
         /\ DOMAIN s = 1..Len(s) /\ Len(s) \in Nat
         /\ Left(s) \in Text
<1>1. DOMAIN s = 1..Len(s) /\ Len(s) \in Nat BY DEF LinesOK
<1>2. \A i \in 1..Len(s) : s[i].text \in Text /\ s[i].ended \in BOOLEAN
  <2>1. \A i \in 1..Len(s) : s[i] \in Line BY <1>1 DEF LinesOK
  <2> QED BY <2>1 DEF Line
<1>3. CASE Unended(s)
  <2>1. Len(s) > 0 /\ ~s[Len(s)].ended BY <1>3 DEF Unended
  <2>2. \A i \in 1..Len(s) : s[i].ended <=> i \in 1..Len(s) - 1
    BY <1>1, <2>1 DEF LinesOK
  <2>3. EndedOf(s) = 1..Len(s) - 1 BY <1>1, <2>2 DEF EndedOf
  <2> QED BY <1>1, <1>2, <1>3, <2>1, <2>3 DEF Left
<1>4. CASE ~Unended(s)
  <2>1. \A i \in 1..Len(s) : s[i].ended BY <1>1, <1>4 DEF Unended, LinesOK
  <2>2. EndedOf(s) = 1..Len(s) BY <1>1, <2>1 DEF EndedOf
  <2>3. <<>> \in Text BY DEF Text
  <2> QED BY <1>1, <1>4, <2>2, <2>3 DEF Left
<1> QED BY <1>3, <1>4

\* One more write: behind what a short one left, or on a line of its own.
LEMMA OneMore ==
  ASSUME NEW s, LinesOK(s), NEW text \in Text, NEW ended \in BOOLEAN
  PROVE  LET t == Extended(s, text, ended)
             n == IF Unended(s) THEN Len(s) ELSE Len(s) + 1 IN
         /\ n \in Nat /\ n > 0 /\ EndedOf(s) = 1..n - 1
         /\ LinesOK(t) /\ Len(t) = n
         /\ t[n] = [text |-> Left(s) \o text, ended |-> ended]
         /\ \A i \in 1..n - 1 : t[i] = s[i]
<1> DEFINE t == Extended(s, text, ended)
           n == IF Unended(s) THEN Len(s) ELSE Len(s) + 1
           l == [text |-> Left(s) \o text, ended |-> ended]
<1>1. /\ DOMAIN s = 1..Len(s) /\ Len(s) \in Nat /\ Left(s) \in Text
      /\ EndedOf(s) = IF Unended(s) THEN 1..Len(s) - 1 ELSE 1..Len(s)
  BY EndedLines
<1>2. l \in Line /\ l.ended = ended BY <1>1, ConcatProperties DEF Line, Text
<1>3. s \in Seq(Line) /\ \A i \in 1..Len(s) : i < Len(s) => s[i].ended BY DEF LinesOK
<1>4. CASE Unended(s)
  <2>1. Len(s) > 0 /\ Left(s) = s[Len(s)].text BY <1>4 DEF Left, Unended
  <2>2. t = [s EXCEPT ![Len(s)] = l] BY <1>4, <2>1 DEF Extended
  <2>3. n = Len(s) BY <1>4
  <2> HIDE DEF t, l
  <2>4. t \in Seq(Line) /\ Len(t) = Len(s) /\ t[Len(s)] = l
        /\ \A i \in 1..Len(s) : i # Len(s) => t[i] = s[i]
    BY <1>1, <1>2, <1>3, <2>1, <2>2
  <2> DEFINE N == Len(s)
  <2>4a. N \in Nat /\ Len(t) = N /\ \A i \in 1..N : i # N => t[i] = s[i] BY <1>1, <2>4
  <2>4b. \A i \in 1..N : i < N => s[i].ended BY <1>3
  <2> HIDE DEF N
  <2>4c. \A i \in 1..N : i < N => i # N BY <2>4a
  <2>4d. \A i \in 1..N - 1 : i \in 1..N /\ i # N BY <2>4a
  <2>5. \A i \in 1..Len(t) : i < Len(t) => t[i].ended BY <2>4a, <2>4b, <2>4c
  <2>6. \A i \in 1..Len(s) - 1 : t[i] = s[i] BY <2>4a, <2>4d DEF N
  <2>7. LinesOK(t) BY <2>4, <2>5 DEF LinesOK
  <2>8. EndedOf(s) = 1..n - 1 BY <1>1, <1>4, <2>3
  <2> QED BY <1>1, <2>1, <2>3, <2>4, <2>6, <2>7, <2>8 DEF t, l
<1>5. CASE ~Unended(s)
  <2>1. Left(s) = <<>> /\ <<>> \o text = text BY <1>5, ConcatEmptySeq DEF Left, Text
  <2>2. t = Append(s, l) BY <1>5, <2>1 DEF Extended
  <2>3. n = Len(s) + 1 BY <1>5
  <2>4. \A i \in 1..Len(s) : s[i].ended BY <1>1, <1>3, <1>5 DEF Unended
  <2> HIDE DEF t, l, n
  <2>5. t \in Seq(Line) /\ Len(t) = n /\ t[n] = l /\ \A i \in 1..Len(s) : t[i] = s[i]
    BY <1>1, <1>2, <1>3, <2>2, <2>3
  <2>6. n - 1 = Len(s) /\ n \in Nat /\ n > 0 BY <1>1, <2>3
  <2>7. \A i \in 1..Len(t) : i < Len(t) => t[i].ended BY <1>1, <2>4, <2>5, <2>6
  <2>8. LinesOK(t) BY <2>5, <2>7 DEF LinesOK
  <2> QED BY <1>1, <1>5, <2>5, <2>6, <2>8 DEF t, l, n
<1> QED BY <1>4, <1>5

\* A whole line sets what it says together with what was left; one that stops short sets
\* nothing, and is left itself.
LEMMA WriteSets ==
  ASSUME NEW f, NEW s, LinesOK(s), NEW text \in Text, NEW ended \in BOOLEAN
  PROVE  LET t == Extended(s, text, ended)
             said == Left(s) \o text IN
         /\ LinesOK(t)
         /\ Left(t) = IF ended THEN <<>> ELSE said
         /\ \A k : SetTo(f, t, k) =
                     IF ended /\ SaysOf(f, said, k) THEN Says(f, said).val ELSE SetTo(f, s, k)
<1> DEFINE t == Extended(s, text, ended)
           said == Left(s) \o text
           n == IF Unended(s) THEN Len(s) ELSE Len(s) + 1
<1>1. /\ n \in Nat /\ n > 0 /\ EndedOf(s) = 1..n - 1
      /\ LinesOK(t) /\ Len(t) = n
      /\ t[n] = [text |-> said, ended |-> ended]
      /\ \A i \in 1..n - 1 : t[i] = s[i]
  BY OneMore
<1> HIDE DEF t, said, n
<1>2. t[n].text = said /\ t[n].ended = ended BY <1>1
<1>3. Unended(t) <=> ~ended BY <1>1, <1>2 DEF Unended
<1>4. Left(t) = IF ended THEN <<>> ELSE said BY <1>1, <1>2, <1>3 DEF Left
<1>5. EndedOf(t) = IF ended THEN 1..n ELSE 1..n - 1 BY <1>1, <1>3, EndedLines
<1>6. ASSUME NEW k
      PROVE  SetTo(f, t, k) =
               IF ended /\ SaysOf(f, said, k) THEN Says(f, said).val ELSE SetTo(f, s, k)
  <2>1. \A i \in 1..n - 1 : t[i].text = s[i].text BY <1>1
  <2>2. LatestOf(f, t, 1..n - 1, k) = SetTo(f, s, k) BY <1>1, <2>1, LatestSame DEF SetTo
  <2>3. CASE ended
    <3>1. SetTo(f, t, k) = LatestOf(f, t, 1..n, k) BY <1>5, <2>3 DEF SetTo
    <3>2a. n \in Nat /\ n > 0 BY <1>1
    <3>2b. LatestOf(f, t, 1..n, k) = IF SaysOf(f, t[n].text, k) THEN Says(f, t[n].text).val
                                     ELSE LatestOf(f, t, 1..n - 1, k)
      BY <3>2a, LatestAdded
    <3>2. LatestOf(f, t, 1..n, k) =
            IF SaysOf(f, said, k) THEN Says(f, said).val ELSE LatestOf(f, t, 1..n - 1, k)
      BY <1>2, <3>2b
    <3> QED BY <2>2, <2>3, <3>1, <3>2
  <2>4. CASE ~ended BY <1>5, <2>2, <2>4 DEF SetTo
  <2> QED BY <2>3, <2>4
<1> QED BY <1>1, <1>4, <1>6 DEF t, said

\* What is read off a file is what its ended lines set, under what is left behind them.
LEMMA ReadsBack ==
  ASSUME NEW f \in Records, NEW s, LinesOK(s), NEW k
  PROVE  LatestOf(f, s, DOMAIN s, k) =
           IF SaysOf(f, Left(s), k) THEN Says(f, Left(s)).val ELSE SetTo(f, s, k)
<1>1. /\ DOMAIN s = 1..Len(s) /\ Len(s) \in Nat
      /\ EndedOf(s) = IF Unended(s) THEN 1..Len(s) - 1 ELSE 1..Len(s)
  BY EndedLines
<1>2. CASE Unended(s)
  <2>1. Len(s) > 0 /\ Left(s) = s[Len(s)].text BY <1>2 DEF Unended, Left
  <2>2. LatestOf(f, s, 1..Len(s), k) =
          IF SaysOf(f, Left(s), k) THEN Says(f, Left(s)).val
          ELSE LatestOf(f, s, 1..Len(s) - 1, k)
    BY <1>1, <2>1, LatestAdded
  <2> QED BY <1>1, <1>2, <2>2 DEF SetTo
<1>3. CASE ~Unended(s)
  <2>1. ~SaysOf(f, Left(s), k) BY <1>3, NothingSaid DEF SaysOf, Left
  <2> QED BY <1>1, <1>3, <2>1 DEF SetTo
<1> QED BY <1>2, <1>3

-----------------------------------------------------------------------------
RegTypeOK ==
  /\ file \in [Records -> Seq(Line)] /\ \A f \in Records : LinesOK(file[f])
  /\ locked \in SUBSET Records
  /\ asking \in [Terminals -> Roots \cup {None}]
  /\ last \in [Scopes -> States \cup {None}]

\* What the files F promise.
SetOf(F) == [f \in Records |-> [k \in Scopes |-> SetTo(f, F[f], k)]]
LeftOf(F) == [f \in Records |-> Left(F[f])]
Asked(A) == {A[t] : t \in Terminals} \ {None}

\* One more write, in the promise's terms.
LEMMA PutMaps ==
  ASSUME RegTypeOK, NEW f \in Records, NEW text \in Text, NEW ended \in BOOLEAN,
         Put(f, text, ended)
  PROVE  LET left == Left(file[f])
             line == Says(f, left \o text) IN
         /\ file' \in [Records -> Seq(Line)] /\ \A g \in Records : LinesOK(file'[g])
         /\ LeftOf(file') = [LeftOf(file) EXCEPT ![f] = IF ended THEN <<>> ELSE left \o text]
         /\ SetOf(file') = IF ended /\ line # None
                             THEN [SetOf(file) EXCEPT ![f][line.key] = line.val]
                             ELSE SetOf(file)
<1> DEFINE s == file[f]
           t == Extended(s, text, ended)
           said == Left(s) \o text
           line == Says(f, said)
<1>1. LinesOK(s) /\ file \in [Records -> Seq(Line)] BY DEF RegTypeOK
<1>2. /\ LinesOK(t) /\ Left(t) = IF ended THEN <<>> ELSE said
      /\ \A k : SetTo(f, t, k) =
                  IF ended /\ SaysOf(f, said, k) THEN Says(f, said).val ELSE SetTo(f, s, k)
  BY <1>1, WriteSets
<1>3. file' = [file EXCEPT ![f] = t] BY DEF Put
<1> HIDE DEF t
<1>4. t \in Seq(Line) BY <1>2 DEF LinesOK
<1>5. /\ file' \in [Records -> Seq(Line)] /\ file'[f] = t
      /\ \A g \in Records : g # f => file'[g] = file[g]
  BY <1>1, <1>3, <1>4
<1>6. \A g \in Records : LinesOK(file'[g]) BY <1>2, <1>5 DEF RegTypeOK
<1> HIDE DEF s, said
<1>7. LeftOf(file') = [LeftOf(file) EXCEPT ![f] = IF ended THEN <<>> ELSE said]
  BY <1>2, <1>5 DEF LeftOf
<1>8. \A g \in Records : g # f => SetOf(file')[g] = SetOf(file)[g]
  BY <1>5 DEF SetOf
<1>9. SetOf(file')[f] = [k \in Scopes |-> SetTo(f, t, k)]
      /\ SetOf(file)[f] = [k \in Scopes |-> SetTo(f, s, k)]
  BY <1>5 DEF SetOf, s
<1>10. DOMAIN SetOf(file') = Records /\ DOMAIN SetOf(file) = Records BY DEF SetOf
<1>11. CASE ended /\ line # None
  <2>1. \A k \in Scopes : SetTo(f, t, k) = IF line.key = k THEN line.val ELSE SetTo(f, s, k)
    BY <1>2, <1>11 DEF SaysOf
  <2>2. SetOf(file')[f] = [SetOf(file)[f] EXCEPT ![line.key] = line.val]
    BY <1>9, <2>1
  <2> DEFINE new == [SetOf(file) EXCEPT ![f][line.key] = line.val]
  <2>3. /\ DOMAIN new = Records /\ new[f] = [SetOf(file)[f] EXCEPT ![line.key] = line.val]
        /\ \A g \in Records : g # f => new[g] = SetOf(file)[g]
    BY <1>10
  <2>4. new = [g \in Records |-> new[g]]
    BY DEF SetOf
  <2>5. SetOf(file') = [g \in Records |-> SetOf(file')[g]] BY DEF SetOf
  <2> HIDE DEF new, line
  <2>6. \A g \in Records : SetOf(file')[g] = new[g] BY <1>8, <2>2, <2>3
  <2>7. SetOf(file') = new BY <2>4, <2>5, <2>6
  <2> QED BY <1>5, <1>6, <1>7, <1>11, <2>7 DEF new, line, said, s
<1>12. CASE ~(ended /\ line # None)
  <2>1. \A k \in Scopes : SetTo(f, t, k) = SetTo(f, s, k) BY <1>2, <1>12 DEF SaysOf
  <2>2. SetOf(file')[f] = SetOf(file)[f] BY <1>9, <2>1
  <2>3. SetOf(file') = [g \in Records |-> SetOf(file')[g]]
        /\ SetOf(file) = [g \in Records |-> SetOf(file)[g]]
    BY DEF SetOf
  <2>4. \A g \in Records : SetOf(file')[g] = SetOf(file)[g] BY <1>8, <2>2
  <2>5. SetOf(file') = SetOf(file) BY <2>3, <2>4
  <2> QED BY <1>5, <1>6, <1>7, <1>12, <2>5 DEF said, s
<1> QED BY <1>11, <1>12

\* A write that succeeds, and one that does not.
LEMMA AppendPuts ==
  ASSUME NEW f \in Records, NEW line \in LinesOf(f), AppendLine(f, line)
  PROVE  Put(f, TextOf(f, line), TRUE) /\ TextOf(f, line) \in Text
BY SaysWhatWasAsked DEF AppendLine

LEMMA FailPuts ==
  ASSUME NEW f \in Records, NEW line \in LinesOf(f), AppendFails(f, line)
  PROVE  \E start \in Starts(f, TextOf(f, line)) : start \in Text /\ Put(f, start, FALSE)
BY SaysWhatWasAsked, StartsAreText DEF AppendFails

-----------------------------------------------------------------------------
\* Lines, roots asked for and states acknowledged are of their kind, and only the last
\* line of a record can be without its newline.
THEOREM RegTypeCorrect == Spec => []RegTypeOK
<1>1. Init => RegTypeOK
  <2> SUFFICES ASSUME Init PROVE RegTypeOK OBVIOUS
  <2>1. \A f \in Records : file[f] = <<>> BY DEF Init
  <2>2. LinesOK(<<>>) /\ <<>> \in Seq(Line) BY DEF LinesOK
  <2>3. file \in [Records -> Seq(Line)] BY <2>2 DEF Init
  <2> QED BY <2>1, <2>2, <2>3, LockableAssumption DEF Init, RegTypeOK
<1>2. RegTypeOK /\ [Next]_vars => RegTypeOK'
  <2> SUFFICES ASSUME RegTypeOK, [Next]_vars PROVE RegTypeOK' OBVIOUS
  <2> DEFINE FilesOK == file' \in [Records -> Seq(Line)]
                        /\ \A g \in Records : LinesOK(file'[g])
  <2>1. ASSUME NEW f \in Records, NEW line \in LinesOf(f),
               AppendLine(f, line) \/ AppendFails(f, line)
        PROVE  FilesOK
    BY <2>1, AppendPuts, FailPuts, PutMaps
  <2> HIDE DEF FilesOK
  <2>2. ASSUME NEW t \in Terminals, NEW k \in Scopes, NEW s \in States, Mode(t, k, s)
        PROVE  RegTypeOK'
    <3>1. [key |-> k, val |-> s] \in LinesOf("enforcement") BY DEF LinesOf
    <3>2. FilesOK BY <2>1, <2>2, <3>1 DEF Mode, Records
    <3>3. last' \in [Scopes -> States \cup {None}] BY <2>2 DEF Mode, RegTypeOK
    <3> QED BY <2>2, <3>2, <3>3 DEF FilesOK, Mode, RegTypeOK
  <2>3. ASSUME NEW t \in Terminals, NEW r \in Roots, TrustRead(t, r) PROVE RegTypeOK'
    BY <2>3 DEF TrustRead, RegTypeOK
  <2>4. ASSUME NEW t \in Terminals, TrustAppend(t) PROVE RegTypeOK'
    <3>1. [key |-> asking[t], val |-> "yes"] \in LinesOf("trusted")
      BY <2>4 DEF LinesOf, TrustAppend, RegTypeOK
    <3>2. FilesOK BY <2>1, <2>4, <3>1 DEF TrustAppend, Records
    <3> QED BY <2>4, <3>2 DEF FilesOK, TrustAppend, RegTypeOK
  <2>5. ASSUME NEW t \in Terminals, TrustRefused(t) PROVE RegTypeOK'
    BY <2>5 DEF TrustRefused, RegTypeOK
  <2>6. ASSUME NEW r \in Roots, NEW on \in {"on", "off"}, SetLogging(r, on) PROVE RegTypeOK'
    <3>1. [key |-> r, val |-> on] \in LinesOf("decision-log") BY DEF LinesOf
    <3>2. FilesOK BY <2>1, <2>6, <3>1 DEF SetLogging, Records
    <3> QED BY <2>6, <3>2 DEF FilesOK, SetLogging, RegTypeOK
  <2>7. CASE UNCHANGED vars BY <2>7 DEF vars, RegTypeOK
  <2> QED BY <2>2, <2>3, <2>4, <2>5, <2>6, <2>7 DEF Next
<1> QED BY <1>1, <1>2, PTL DEF Spec

-----------------------------------------------------------------------------
\* The parts of the promise, as Registry reads them off its files.
LEMMA Mapping ==
  /\ [f \in Records |-> [k \in Scopes |-> LatestIn(f, Ended(f), k)]] = SetOf(file)
  /\ [f \in Records |-> IF Unended(file[f]) THEN file[f][Len(file[f])].text ELSE <<>>]
       = LeftOf(file)
<1>1. \A f, k : LatestIn(f, Ended(f), k) = SetTo(f, file[f], k)
  BY DEF LatestIn, Ended, SetTo, LatestOf, EndedOf
<1> QED BY <1>1 DEF SetOf, LeftOf, Left

\* The same in the next state.
LEMMA MappingNext ==
  /\ [f \in Records |-> [k \in Scopes |-> LatestIn(f, Ended(f), k)]]' = SetOf(file')
  /\ [f \in Records |-> IF Unended(file[f]) THEN file[f][Len(file[f])].text ELSE <<>>]'
       = LeftOf(file')
<1>1. \A f, k : LatestIn(f, Ended(f), k)' = SetTo(f, file'[f], k)
  BY DEF LatestIn, Ended, SetTo, LatestOf, EndedOf
<1> QED BY <1>1 DEF SetOf, LeftOf, Left

\* What a command does to the promise: it sets what it asked for, or with what was left
\* what the two say as one line, or it stops short and sets nothing.
LEMMA CommandMaps ==
  ASSUME RegTypeOK, NEW f \in Records, NEW line \in LinesOf(f),
         f = "trusted" => line.key \in Asked(asking),
         Asked(asking') \in IF f = "trusted" THEN {Asked(asking), Asked(asking) \ {line.key}}
                            ELSE {Asked(asking)},
         NEW s,
         last' = IF f = "enforcement" THEN [last EXCEPT ![line.key] = s] ELSE last,
         \/ AppendLine(f, line) /\ s = line.val
         \/ AppendFails(f, line) /\ s = None
  PROVE  Promise!Next
<1> DEFINE left == Left(file[f])
           text == TextOf(f, line)
<1>1. LeftOf(file)[f] = left BY DEF LeftOf
<1>2. Promise!Tell(f, line.key, s) BY DEF Promise!Tell
<1>3. CASE AppendLine(f, line) /\ s = line.val
  <2>1. Put(f, text, TRUE) /\ text \in Text BY <1>3, AppendPuts
  <2> DEFINE said == Says(f, left \o text)
  <2>2. /\ LeftOf(file') = [LeftOf(file) EXCEPT ![f] = <<>>]
        /\ SetOf(file') = IF said # None THEN [SetOf(file) EXCEPT ![f][said.key] = said.val]
                          ELSE SetOf(file)
    BY <2>1, PutMaps
  <2>3. CASE left = <<>>
    <3>1. said = line BY <2>1, <2>3, SaysWhatWasAsked, ConcatEmptySeq DEF Text
    <3>2. LeftOf(file') = LeftOf(file)
      <4>1. LeftOf(file) = [g \in Records |-> LeftOf(file)[g]] BY DEF LeftOf
      <4> QED BY <1>1, <2>2, <2>3, <4>1
    <3> HIDE DEF said, text, left
    <3>3. SetOf(file') = IF line = None THEN SetOf(file)
                         ELSE [SetOf(file) EXCEPT ![f][line.key] = line.val]
      BY <2>2, <3>1
    <3>4. Promise!Sets(f, line)
      BY <1>1, <2>3, <3>2, <3>3, Mapping, MappingNext DEF Promise!Sets, Promise!Setting
    <3>5. Promise!Command(f, line) BY <1>2, <1>3, <3>4 DEF Promise!Command, Asked
    <3> QED BY <3>5 DEF Promise!Next
  <2>4. CASE left # <<>>
    <3> HIDE DEF left
    <3>1. LeftOf(file)[f] \o TextOf(f, line) = left \o text BY <1>1
    <3>2. SetOf(file') = IF said = None THEN SetOf(file)
                         ELSE [SetOf(file) EXCEPT ![f][said.key] = said.val]
      BY <2>2
    <3>3. Promise!Joins(f, line)
      BY <1>1, <2>2, <2>4, <3>1, <3>2, Mapping, MappingNext
         DEF Promise!Joins, Promise!Setting
    <3>4. Promise!Command(f, line) BY <1>2, <1>3, <3>3 DEF Promise!Command, Asked
    <3> QED BY <3>4 DEF Promise!Next
  <2> QED BY <2>3, <2>4
<1>4. CASE AppendFails(f, line) /\ s = None
  <2>1. PICK start \in Starts(f, text) : start \in Text /\ Put(f, start, FALSE)
    BY <1>4, FailPuts
  <2>2. /\ LeftOf(file') = [LeftOf(file) EXCEPT ![f] = left \o start]
        /\ SetOf(file') = SetOf(file)
    BY <2>1, PutMaps
  <2> HIDE DEF left
  <2>3. LeftOf(file') = [LeftOf(file) EXCEPT ![f] = LeftOf(file)[f] \o start]
    BY <1>1, <2>2
  <2>4. Promise!StopsShort(f, line)
    BY <2>2, <2>3, Mapping, MappingNext DEF Promise!StopsShort
  <2>5. Promise!Command(f, line) BY <1>2, <1>4, <2>4 DEF Promise!Command, Asked
  <2> QED BY <2>5 DEF Promise!Next
<1> QED BY <1>3, <1>4

\* A trust command is done with its root; another may still be asking for it.
LEMMA DoneAsking ==
  ASSUME RegTypeOK, NEW t \in Terminals, asking[t] # None, asking' = [asking EXCEPT ![t] = None]
  PROVE  /\ asking[t] \in Asked(asking) /\ asking[t] \in Roots
         /\ Asked(asking') \in {Asked(asking), Asked(asking) \ {asking[t]}}
<1>1. asking[t] \in Asked(asking) /\ asking[t] \in Roots BY DEF Asked, RegTypeOK
<1>2. \A u \in Terminals : asking'[u] = IF u = t THEN None ELSE asking[u] BY DEF RegTypeOK
<1>3. CASE \E u \in Terminals \ {t} : asking[u] = asking[t]
  <2>1. Asked(asking') = Asked(asking) BY <1>2, <1>3 DEF Asked
  <2> QED BY <1>1, <2>1
<1>4. CASE ~\E u \in Terminals \ {t} : asking[u] = asking[t]
  <2>1. Asked(asking') = Asked(asking) \ {asking[t]} BY <1>2, <1>4 DEF Asked
  <2> QED BY <1>1, <2>1
<1> QED BY <1>3, <1>4

LEMMA ModeMaps ==
  ASSUME RegTypeOK, NEW t \in Terminals, NEW k \in Scopes, NEW v \in States, Mode(t, k, v)
  PROVE  Promise!Next
<1> DEFINE line == [key |-> k, val |-> v]
<1>1. "enforcement" \in Records /\ line \in LinesOf("enforcement")
      /\ line.key = k /\ line.val = v
  BY DEF Records, LinesOf
<1>2. Asked(asking') = Asked(asking) BY DEF Mode
<1>3. \/ AppendLine("enforcement", line) /\ last' = [last EXCEPT ![k] = v]
      \/ AppendFails("enforcement", line) /\ last' = [last EXCEPT ![k] = None]
  BY DEF Mode
<1> HIDE DEF line
<1> QED BY <1>1, <1>2, <1>3, CommandMaps

LEMMA LoggingMaps ==
  ASSUME RegTypeOK, NEW r \in Roots, NEW on \in {"on", "off"}, SetLogging(r, on)
  PROVE  Promise!Next
<1> DEFINE line == [key |-> r, val |-> on]
<1>1. "decision-log" \in Records /\ line \in LinesOf("decision-log")
  BY DEF Records, LinesOf
<1>2. Asked(asking') = Asked(asking) /\ last' = last BY DEF SetLogging
<1>3. AppendLine("decision-log", line) \/ AppendFails("decision-log", line)
  BY DEF SetLogging
<1> HIDE DEF line
<1> QED BY <1>1, <1>2, <1>3, CommandMaps

LEMMA TrustMaps ==
  ASSUME RegTypeOK, NEW t \in Terminals, TrustAppend(t)
  PROVE  Promise!Next
<1> DEFINE r == asking[t]
           line == [key |-> r, val |-> "yes"]
<1>1. /\ r \in Asked(asking) /\ r \in Roots
      /\ Asked(asking') \in {Asked(asking), Asked(asking) \ {r}}
  BY DoneAsking DEF TrustAppend
<1>2. last' = last BY DEF TrustAppend
<1>3. AppendLine("trusted", line) \/ AppendFails("trusted", line) BY DEF TrustAppend
<1>4. "trusted" \in Records /\ line \in LinesOf("trusted") /\ line.key = r
  BY <1>1 DEF Records, LinesOf
<1> HIDE DEF line, r
<1> QED BY <1>1, <1>2, <1>3, <1>4, CommandMaps

\* A trust command that reads, or gives up, leaves the files alone.
LEMMA AskMaps ==
  ASSUME RegTypeOK, NEW t \in Terminals, UNCHANGED <<file, last>>,
         TrustRefused(t) \/ \E r \in Roots : TrustRead(t, r)
  PROVE  Promise!Next
<1>1. SetOf(file') = SetOf(file) /\ LeftOf(file') = LeftOf(file)
  BY DEF SetOf, LeftOf
<1>2. CASE TrustRefused(t)
  <2>1. /\ asking[t] \in Roots
        /\ Asked(asking') \in {Asked(asking), Asked(asking) \ {asking[t]}}
    BY <1>2, DoneAsking DEF TrustRefused
  <2>2. asking[t] \in Asked(asking) BY <1>2, DoneAsking DEF TrustRefused
  <2>3. Asked(asking) = Asked(asking) \cup {asking[t]} BY <2>2
  <2>4. Promise!Ask BY <1>1, <2>1, <2>3, Mapping, MappingNext DEF Promise!Ask, Asked
  <2> QED BY <2>4 DEF Promise!Next
<1>3. ASSUME NEW r \in Roots, TrustRead(t, r) PROVE Promise!Next
  <2>1. r # None BY NoneAssumption DEF Scopes
  <2>2. \A u \in Terminals : asking'[u] = IF u = t THEN r ELSE asking[u]
    BY <1>3 DEF TrustRead, RegTypeOK
  <2>3. asking[t] = None BY <1>3 DEF TrustRead
  <2>4. Asked(asking') = Asked(asking) \cup {r} BY <2>1, <2>2, <2>3 DEF Asked
  <2>5. Promise!Ask BY <1>1, <2>4, Mapping, MappingNext DEF Promise!Ask, Asked
  <2> QED BY <2>5 DEF Promise!Next
<1> QED BY <1>2, <1>3

LEMMA PromisedAtFirst == Init => Promise!Init
<1> SUFFICES ASSUME Init PROVE Promise!Init OBVIOUS
<1>1. \A f \in Records : file[f] = <<>> BY DEF Init
<1>2. EndedOf(<<>>) = {} /\ Left(<<>>) = <<>> BY DEF EndedOf, Left, Unended
<1>3. \A f, k : SetTo(f, <<>>, k) = None BY <1>2 DEF SetTo, LatestOf
<1>4. SetOf(file) = [f \in Records |-> [k \in Scopes |-> None]]
  BY <1>1, <1>3 DEF SetOf
<1>5. LeftOf(file) = [f \in Records |-> <<>>] BY <1>1, <1>2 DEF LeftOf
<1>6. Asked(asking) = {} BY DEF Init, Asked
<1>7. last = [k \in Scopes |-> None] BY DEF Init
<1> QED BY <1>4, <1>5, <1>6, <1>7, Mapping DEF Promise!Init, Asked

\* Registry's files, written by any number of terminals with no lock, keep Switches'
\* promise: every step of a command is a step of one at a time, or none.  A command sets
\* what it asks for, except on the line of one that stopped short.
THEOREM KeepsPromiseHolds == Spec => KeepsPromise
<1>1. RegTypeOK /\ [Next]_vars => [Promise!Next]_(Promise!vars)
  <2> SUFFICES ASSUME RegTypeOK, [Next]_vars PROVE [Promise!Next]_(Promise!vars) OBVIOUS
  <2>1. ASSUME Next PROVE Promise!Next
    <3>1. ASSUME NEW t \in Terminals, TrustRefused(t) \/ \E r \in Roots : TrustRead(t, r)
          PROVE  Promise!Next
      BY <3>1, AskMaps DEF TrustRefused, TrustRead
    <3> QED BY <2>1, <3>1, ModeMaps, LoggingMaps, TrustMaps DEF Next
  <2>2. CASE UNCHANGED vars
    <3>1. UNCHANGED <<file, asking, last>> BY <2>2 DEF vars
    <3>2. SetOf(file') = SetOf(file) /\ LeftOf(file') = LeftOf(file)
      BY <3>1 DEF SetOf, LeftOf
    <3> QED BY <3>1, <3>2, Mapping, MappingNext DEF Promise!vars
  <2> QED BY <2>1, <2>2
<1> QED BY <1>1, PromisedAtFirst, RegTypeCorrect, PTL DEF Spec, KeepsPromise, Promise!Spec

-----------------------------------------------------------------------------
\* What a reader who may read everything reads of a record: what the promise shows.
LEMMA ReadsTheRecord ==
  ASSUME RegTypeOK, locked = {}, NEW f \in Records, NEW k \in Scopes
  PROVE  LatestIn(f, Seen(f), k) = Promise!Shown(f, k)
<1>1. LatestIn(f, Seen(f), k) = LatestOf(f, file[f], DOMAIN file[f], k)
  <2>1. \A idx : LatestIn(f, idx, k) = LatestOf(f, file[f], idx, k)
    BY DEF LatestIn, LatestOf
  <2>2. Seen(f) = DOMAIN file[f] BY DEF Seen
  <2> QED BY <2>1, <2>2
<1>2. LinesOK(file[f]) BY DEF RegTypeOK
<1>3. LatestOf(f, file[f], DOMAIN file[f], k) =
        IF SaysOf(f, Left(file[f]), k) THEN Says(f, Left(file[f])).val
        ELSE SetTo(f, file[f], k)
  BY <1>2, ReadsBack
<1>4. LeftOf(file)[f] = Left(file[f]) /\ SetOf(file)[f][k] = SetTo(f, file[f], k)
  BY DEF LeftOf, SetOf
<1> QED BY <1>1, <1>3, <1>4, Mapping DEF Promise!Shown, SaysOf

\* A line of trusted is a path: isTrusted looks for the root's own.
LEMMA GrantsArePaths ==
  ASSUME NEW root \in Roots, NEW text
  PROVE  /\ SaysOf("trusted", text, root) <=> text = Path[root]
         /\ SaysOf("trusted", text, root) => Says("trusted", text).val = "yes"
<1>1. root \in Scopes /\ root # Machine /\ root # None /\ PathOf(root) = Path[root]
  BY MachineAssumption, NoneAssumption DEF Scopes, PathOf
<1>2. KeyFor(text) = root <=> text = Path[root] BY <1>1, KeyForPath
<1>3. [key |-> KeyFor(text), val |-> "yes"].key = KeyFor(text) OBVIOUS
<1>4. KeyFor(text) \notin {None, Machine} => [key |-> KeyFor(text), val |-> "yes"] # None
  BY KeyForPath, NoneAssumption DEF Values
<1> QED BY <1>1, <1>2, <1>3, <1>4, SaysTrusted DEF SaysOf

LEMMA GrantsInLines ==
  ASSUME NEW f, f = "trusted", NEW root \in Roots, NEW s, NEW n \in Nat
  PROVE  (LatestOf(f, s, 1..n, root) = "yes") <=> \E i \in 1..n : s[i].text = Path[root]
<1>1. "yes" # None BY NoneAssumption DEF Values
<1>2. 1..n \in SUBSET (1..n) OBVIOUS
<1>3. \A i : SaysOf(f, s[i].text, root) <=> s[i].text = Path[root] BY GrantsArePaths
<1>4. CASE \A i \in 1..n : ~SaysOf(f, s[i].text, root)
  <2>1. LatestOf(f, s, 1..n, root) = None BY <1>2, <1>4, LatestFacts
  <2> QED BY <1>1, <1>3, <1>4, <2>1
<1>5. CASE \E i \in 1..n : SaysOf(f, s[i].text, root)
  <2>1. PICK m \in 1..n : /\ SaysOf(f, s[m].text, root)
                          /\ LatestOf(f, s, 1..n, root) = Says(f, s[m].text).val
                          /\ \A j \in 1..n : SaysOf(f, s[j].text, root) => j <= m
    BY <1>2, <1>5, LatestFacts
  <2> QED BY <1>3, <2>1, GrantsArePaths
<1> QED BY <1>4, <1>5

LEMMA ReadsTheGrants ==
  ASSUME RegTypeOK, locked = {}, NEW root \in Roots
  PROVE  IsTrusted(root) = Promise!IsTrusted(root)
<1>1. "trusted" \in Records /\ root \in Scopes BY DEF Records, Scopes
<1>2. Len(file["trusted"]) \in Nat /\ DOMAIN file["trusted"] = 1..Len(file["trusted"])
  BY <1>1, EndedLines DEF RegTypeOK
<1>3. Seen("trusted") = 1..Len(file["trusted"]) BY <1>2 DEF Seen
<1>4. \A idx : LatestIn("trusted", idx, root) = LatestOf("trusted", file["trusted"], idx, root)
  BY DEF LatestIn, LatestOf
<1>5. IsTrusted(root) <=> \E i \in 1..Len(file["trusted"]) : file["trusted"][i].text = Path[root]
  BY <1>3 DEF IsTrusted
<1>6. Promise!IsTrusted(root) <=> LatestIn("trusted", Seen("trusted"), root) = "yes"
  BY <1>1, ReadsTheRecord DEF Promise!IsTrusted
<1>7. IsTrusted(root) <=> Promise!IsTrusted(root)
  BY <1>2, <1>3, <1>4, <1>5, <1>6, GrantsInLines
<1> QED BY <1>7, Zenon DEF IsTrusted, Promise!IsTrusted

LEMMA ReadsTheState ==
  ASSUME RegTypeOK, locked = {}, NEW root \in Roots
  PROVE  StateOf(root) = Promise!Applies(root)
<1>1. "enforcement" \in Records /\ root \in Scopes /\ Machine \in Scopes
  BY DEF Records, Scopes
<1>2. /\ LatestIn("enforcement", Seen("enforcement"), root) = Promise!Shown("enforcement", root)
      /\ LatestIn("enforcement", Seen("enforcement"), Machine)
           = Promise!Shown("enforcement", Machine)
  BY <1>1, ReadsTheRecord
<1> QED BY <1>2 DEF StateOf, Promise!Applies

LEMMA ReadsTheLogging ==
  ASSUME RegTypeOK, locked = {}, NEW root \in Roots
  PROVE  Logging(root) = Promise!IsLogging(root)
<1>1. "decision-log" \in Records /\ root \in Scopes BY DEF Records, Scopes
<1>2. LatestIn("decision-log", Seen("decision-log"), root) = Promise!Shown("decision-log", root)
  BY <1>1, ReadsTheRecord
<1> QED BY <1>2 DEF Logging, Promise!IsLogging

\* StateOf, isTrusted and Logging read back, for every root, what was promised: a grant
\* is a grant however the lines came to be there.
THEOREM ReadsAsPromisedHolds == Spec => []ReadsAsPromised
<1>1. RegTypeOK => ReadsAsPromised
  BY ReadsTheState, ReadsTheGrants, ReadsTheLogging DEF ReadsAsPromised
<1> QED BY <1>1, RegTypeCorrect, PTL
=============================================================================
