------------------------------ MODULE GitIndex ------------------------------
(***************************************************************************)
(* Reading a git index without git (internal/gitindex/gitindex.go): which  *)
(* index a working tree has, whether it tracks a directory (Under, which   *)
(* Demotion asks) and which paths it tracks (Paths, which survey asks).    *)
(* One question is asked, a file at a time, while git goes on writing:     *)
(* commits, a first and a new split index, shared indexes that expire.     *)
(*                                                                         *)
(* A path is a sequence of bytes, few of them: what is checked is an early *)
(* stop in the order of bytes, prefixes and letter case.  An index file is *)
(* what its bytes hold: version, object format, entries, and the link to a *)
(* shared index with the EWAH bitmap of the entries it deletes.            *)
(***************************************************************************)
EXTENDS Integers, Sequences, FiniteSets

CONSTANTS Dir,       \* the directory asked about, of lowercase letters
          Tracked,   \* the sets of paths git may track
          Trees,     \* the working trees: how .git and config are
          Splits,    \* the sets of entries a split index may replace
          WordBits,  \* bits in a word of a bitmap, 64
          Radix,     \* the values of a byte of a varint less its high bit, 128
          MaxWrites, \* bound: git's writes
          Failed,    \* the answer that the index could not be read
          None


-----------------------------------------------------------------------------
\* Bytes.

Dot == 1
Slash == 2
Upper == 3..9

ASSUME BytesAssumption == WordBits \in Nat \ {0} /\ Radix \in Nat \ {0, 1} /\ MaxWrites \in Nat
ASSUME DirAssumption ==
  Dir \in Seq(Nat) /\ Dir # <<>> /\ Dir[1] # Slash /\ \A i \in DOMAIN Dir : Dir[i] \notin Upper
ASSUME TrackedAssumption ==
  \A T \in Tracked : IsFiniteSet(T) /\ \A p \in T : p \in Seq(Nat) /\ p # <<>>
\* An object name has the length that git's config says, as git reads it.
ASSUME FormatAssumption == \A t \in Trees :
  LET lines == t.config[IF t.git = "pointer" /\ t.commondir = None THEN "own" ELSE "main"] IN
  lines # None =>
  /\ Len(lines) \in Nat /\ DOMAIN lines = 1..Len(lines)
  /\ t.hash = IF \E head, i \in DOMAIN lines :
                   /\ head < i /\ lines[head].section = "extensions"
                   /\ \A k \in head + 1..i : lines[k].section = None
                   /\ lines[i].key = "objectformat" /\ lines[i].value = "sha256"
                THEN "sha256" ELSE "sha1"
ASSUME AnswersAssumption == Failed \notin BOOLEAN /\ Failed # {} /\ Failed \notin Tracked
ASSUME NoneAssumption == None \notin {1, 2} /\ None \notin {"main", "own", "extensions"}

Lower(c) == IF c \in Upper THEN c + 10 ELSE c
Fold(s) == [i \in DOMAIN s |-> Lower(s[i])]
Starts(s, p) == Len(p) <= Len(s) /\ SubSeq(s, 1, Len(p)) = p

\* In the order of bytes.
Precedes(s, t) ==
  \E n \in 0..Len(s) :
    /\ n <= Len(t) /\ SubSeq(s, 1, n) = SubSeq(t, 1, n)
    /\ n = Len(s) \/ (n < Len(t) /\ s[n + 1] < t[n + 1])
Sorted(S) ==
  [i \in 1..Cardinality(S) |-> CHOOSE p \in S : Cardinality({q \in S : Precedes(q, p)}) = i]

-----------------------------------------------------------------------------
\* The offset encoding: git's writer, and varint, its reader.  A byte is its value and
\* whether another follows.

WriteVarint(value) ==
  LET bytes[v \in 0..value] ==
        IF v < Radix THEN <<[c |-> v, more |-> TRUE]>>
        ELSE Append(bytes[v \div Radix - 1], [c |-> v % Radix, more |-> TRUE])
      all == bytes[value] IN
  [all EXCEPT ![Len(all)].more = FALSE]

\* Mutant: a continuation adds nothing, as in any other radix.
varint_Plain(bytes) ==
  LET value[i \in 0..Len(bytes)] ==
        IF i = 0 THEN 0 ELSE value[i - 1] * Radix + bytes[i].c IN
  value[Len(bytes)]

varint(bytes) ==
  LET value[i \in 0..Len(bytes)] ==
        IF i = 0 THEN 0
        ELSE value[i - 1] * Radix + bytes[i].c + IF bytes[i].more THEN 1 ELSE 0 IN
  value[Len(bytes)]

\* A v4 entry cuts the end of the previous path and adds to it.
Common(s, t) ==
  CHOOSE n \in 0..Len(s) :
    /\ Starts(t, SubSeq(s, 1, n))
    /\ \A k \in n + 1..Len(s) : ~Starts(t, SubSeq(s, 1, k))
WriteEntries(paths, version) ==
  [i \in DOMAIN paths |->
     LET prev == IF i = 1 THEN <<>> ELSE paths[i - 1] IN
     IF version = 4
       THEN [cut |-> WriteVarint(Len(prev) - Common(prev, paths[i])),
             rest |-> SubSeq(paths[i], Common(prev, paths[i]) + 1, Len(paths[i]))]
       ELSE [cut |-> <<>>, rest |-> paths[i]]]

\* next and nextV4, over the entries of a file.
NamesOf(f) ==
  LET name[i \in 0..Len(f.entries)] ==
        IF i = 0 THEN <<>>
        ELSE IF f.version # 4 THEN f.entries[i].rest
        ELSE SubSeq(name[i - 1], 1, Len(name[i - 1]) - varint(f.entries[i].cut)) \o f.entries[i].rest IN
  [i \in DOMAIN f.entries |-> name[i]]

-----------------------------------------------------------------------------
\* The bitmap: markers, each a run of words all ones or all zeros, then literal words.

WordOf(D, w) == {b \in 0..WordBits - 1 : w * WordBits + b \in D}
Ones == 0..WordBits - 1

\* git's ways to write D, a set of positions below bits: every word as a literal, or a
\* run of the first words that are alike and the others after it.
Words(bits) == (bits + WordBits - 1) \div WordBits
Markers(D, words) ==
  {[ones |-> word = Ones, run |-> n, literals |-> [w \in 1..words - n |-> WordOf(D, n + w - 1)]] :
     word \in {{}, Ones}, n \in 0..words}
Bitmaps(D, bits) ==
  {[bits |-> bits, markers |-> <<m>>] :
     m \in {k \in Markers(D, Words(bits)) :
              \A w \in 0..k.run - 1 : WordOf(D, w) = IF k.ones THEN Ones ELSE {}}}

Smaller(a, b) == IF a < b THEN a ELSE b

\* Mutant: the words of a run are not stored, so they are not counted.
ewah_RunsUncounted(b) ==
  UNION {LET m == b.markers[i] IN
         {<<p, p + 1>> : p \in {q \in 0..WordBits * Len(m.literals) - 1 :
                                  q % WordBits \in m.literals[(q \div WordBits) + 1]}}
         : i \in DOMAIN b.markers}

\* The set bits as runs from a start to an end.
ewah(b) ==
  LET begins[i \in 1..Len(b.markers) + 1] ==
        IF i = 1 THEN 0
        ELSE begins[i - 1] + WordBits * (b.markers[i - 1].run + Len(b.markers[i - 1].literals))
      runs(i) ==
        LET m == b.markers[i]
            end == begins[i] + WordBits * m.run IN
        (IF m.ones /\ begins[i] < Smaller(end, b.bits) THEN {<<begins[i], Smaller(end, b.bits)>>} ELSE {})
        \cup {<<end + p, end + p + 1>> :
                p \in {q \in 0..WordBits * Len(m.literals) - 1 :
                         q % WordBits \in m.literals[(q \div WordBits) + 1]}} IN
  UNION {runs(i) : i \in DOMAIN b.markers}
Holds(deleted, pos) == \E run \in deleted : run[1] <= pos /\ pos < run[2]

-----------------------------------------------------------------------------
\* Index files, as git writes them.

Missing == [kind |-> "missing"]
Garbage == [kind |-> "garbage"]
Expired == [kind |-> "expired"]
IsIndex(f) == f.kind = "index"
File(paths, t, base, deleted) ==
  [kind |-> "index", version |-> t.version, hash |-> t.hash,
   entries |-> WriteEntries(paths, t.version), base |-> base, deleted |-> deleted]
NoBitmap == [bits |-> 0, markers |-> <<>>]
Whole(T, t) == File(Sorted(T), t, None, NoBitmap)

\* A split index over the paths B of its shared index: those it replaces, with an empty
\* path, then those it adds; and the positions it deletes.
SplitIndexes(T, B, replaced, id, t) ==
  LET order == Sorted(B)
      gone == {i - 1 : i \in {j \in DOMAIN order : order[j] \notin T}} IN
  {File([i \in 1..Cardinality(replaced \cap T \cap B) |-> <<>>] \o Sorted(T \ B), t, id, deleted) :
     deleted \in Bitmaps(gone, Len(order))}

VARIABLES
  tree,     \* how the working tree's .git is, and its config
  index,    \* the file index of its git directory
  shared,   \* the files sharedindex.* beside it
  tracked,  \* what git tracks
  writes,   \* git's writes so far
  asked,    \* Under or Paths
  at,       \* how far the question is
  located,  \* the length of an object name locate found
  globbed,  \* did Under see a shared index?
  linked,   \* the link of the split index that was read, with the paths found beside it
  moments,  \* the sets git tracked since the question was asked
  answer

repository == <<tree, index, shared, tracked, writes>>
indexVars == <<repository, asked, at, located, globbed, linked, moments, answer>>

Ids == DOMAIN shared

\* Dirs: .git is a directory; or it points to one, which may share the main checkout's
\* config; or it is not there.
Own(t) == CASE t.git = "dir" -> "main" [] t.git = "pointer" -> "own" [] OTHER -> None
CommonDir(t) == IF Own(t) = "own" /\ t.commondir = None THEN "own" ELSE "main"

\* It fails where .git is a file that cannot be read or points nowhere, or where
\* commondir is there and cannot be read.
DirsFail(t) == t.git \in {"empty", "unread"} \/ (t.git = "pointer" /\ t.commondir = "unread")

\* The config's lines; None, where it is not there or cannot be read.
Config(t) == t.config[CommonDir(t)]

\* Mutant: the key counts in any section.
HashLen_AnySection(t) ==
  LET lines == Config(t) IN
  IF \E i \in DOMAIN lines : lines[i].key = "objectformat" /\ lines[i].value = "sha256"
    THEN "sha256" ELSE "sha1"

\* hashLen, of a config that could be read: the last section before a line is the one it
\* is in.  Names here are in lowercase, as they are compared.
HashLen(t) ==
  LET lines == Config(t)
      SectionOf(i) ==
        LET heads == {j \in 1..i : lines[j].section # None} IN
        IF heads = {} THEN None ELSE lines[CHOOSE j \in heads : \A k \in heads : k <= j].section IN
  IF \E i \in DOMAIN lines :
       /\ lines[i].section = None /\ SectionOf(i) = "extensions"
       /\ lines[i].key = "objectformat" /\ lines[i].value = "sha256"
    THEN "sha256" ELSE "sha1"

Held(f) == LET names == NamesOf(f) IN {names[i] : i \in DOMAIN names}
NewIndexes(T, files, t) ==
  {Whole(T, t)}
  \cup UNION {SplitIndexes(T, Held(files[id]), r, id, t) :
                r \in Splits, id \in {i \in DOMAIN files : IsIndex(files[i])}}

NoLink == [base |-> None, deleted |-> {}, names |-> {}]

\* A tree's index, and a shared index in use, left behind, or none.
IndexInit ==
  /\ tree \in Trees /\ writes = 0
  /\ tracked \in Tracked
  /\ \E B \in Tracked : shared \in {<<Missing, Missing>>, <<Whole(B, tree), Missing>>}
  /\ index \in NewIndexes(tracked, shared, tree)
               \cup IF tracked = {} THEN {Missing, Garbage} ELSE {}
  /\ asked \in {"under", "paths"} /\ at = "asked" /\ located = None /\ globbed = FALSE
  /\ linked = NoLink /\ moments = {tracked} /\ answer = None

-----------------------------------------------------------------------------
\* git, meanwhile.

Asking == <<asked, at, located, globbed, linked, answer>>
Writes ==
  /\ at # "answered" /\ index.kind # "garbage" /\ writes < MaxWrites /\ writes' = writes + 1
  /\ UNCHANGED <<tree, Asking>>

\* A shared index is written before the index that links to it.
WriteShared ==
  /\ Writes /\ IsIndex(index)
  /\ \E id \in Ids : /\ shared[id] = Missing
                     /\ shared' = [shared EXCEPT ![id] = Whole(tracked, tree)]
  /\ UNCHANGED <<index, tracked, moments>>

\* add, rm, commit, update-index --split-index and --no-split-index: a whole new file.
WriteIndex ==
  /\ Writes
  /\ \E T \in Tracked :
       /\ tracked' = T /\ moments' = moments \cup {T}
       /\ index' \in NewIndexes(T, shared, tree)
  /\ UNCHANGED shared

\* A shared index nobody links to any more goes, after two weeks.  Its name, a digest of
\* what it holds, is never another's.
Expire ==
  /\ at # "answered" /\ IsIndex(index)
  /\ \E id \in Ids \ {index.base} :
       IsIndex(shared[id]) /\ shared' = [shared EXCEPT ![id] = Expired]
  /\ UNCHANGED <<tree, index, tracked, writes, Asking, moments>>

-----------------------------------------------------------------------------
\* The question.

Done(a) == at' = "answered" /\ answer' = a
No == IF asked = "under" THEN FALSE ELSE {}

\* A file is decoded with the length located says an object name has.
Decodes(f) == IsIndex(f) /\ f.hash = located

\* locate: no .git and no index track nothing; where Dirs or hashLen fails, so does the
\* question.  The config is read only for an index that is there.
Locate ==
  /\ at = "asked"
  /\ \/ DirsFail(tree) /\ Done(Failed) /\ UNCHANGED located
     \/ tree.git = "absent" /\ Done(No) /\ UNCHANGED located
     \/ ~DirsFail(tree) /\ Own(tree) # None /\ index = Missing /\ Done(No) /\ UNCHANGED located
     \/ /\ ~DirsFail(tree) /\ Own(tree) # None /\ index # Missing /\ Config(tree) = None
        /\ Done(Failed) /\ UNCHANGED located
     \/ /\ ~DirsFail(tree) /\ Own(tree) # None /\ index # Missing /\ Config(tree) # None
        /\ at' = IF asked = "under" THEN "located" ELSE "reading"
        /\ located' = HashLen(tree) /\ UNCHANGED answer
  /\ UNCHANGED <<repository, asked, globbed, linked, moments>>

\* Under looks for shared indexes before it chooses how to read.
Glob ==
  /\ at = "located" /\ at' = "reading"
  /\ globbed' = (\E id \in Ids : IsIndex(shared[id]))
  /\ UNCHANGED <<repository, asked, located, linked, moments, answer>>

Below == Dir \o <<Slash>>

\* Mutant: letter case counts.
Under_Case(name) ==
  \/ Starts(name, Below)
  \/ Starts(Below, IF name # <<>> /\ name[Len(name)] = Slash THEN name ELSE Append(name, Slash))

\* scan.under: below dir, dir itself, or above it, in any case.
Under(name) ==
  LET trimmed == IF name # <<>> /\ name[Len(name)] = Slash THEN name ELSE Append(name, Slash) IN
  Starts(Fold(name), Fold(Below)) \/ Starts(Fold(Below), Fold(trimmed))

\* scan.file: the entries that are not deleted, up to the first one past dir.
FileTracks(f, deleted) ==
  LET names == NamesOf(f)
      live == {i \in DOMAIN names : ~Holds(deleted, i - 1)} IN
  \E i \in live : Under(names[i]) /\ \A j \in live : j < i => Precedes(names[j], Below)

ReadPlain ==
  /\ at = "reading" /\ asked = "under" /\ ~globbed
  /\ Done(IF Decodes(index) THEN FileTracks(index, {}) ELSE Failed)
  /\ linked' = IF Decodes(index) THEN [NoLink EXCEPT !.base = index.base] ELSE NoLink
  /\ UNCHANGED <<repository, asked, located, globbed, moments>>

\* survey's patterns match no empty path, which a replaced entry has.
NamesIn(f, deleted) ==
  LET names == NamesOf(f) IN
  {names[i] : i \in {j \in DOMAIN names : ~Holds(deleted, j - 1)}} \ {<<>>}

\* scan.split and Paths: the index is read whole, and then its link.
ReadIndex ==
  /\ at = "reading"
  /\ asked = "under" => globbed
  /\ IF ~Decodes(index) THEN Done(Failed) /\ UNCHANGED linked
     ELSE IF asked = "under" /\ \E name \in NamesIn(index, {}) : Under(name)
       THEN Done(TRUE) /\ UNCHANGED linked
     ELSE IF index.base = None
       THEN Done(IF asked = "under" THEN FALSE ELSE NamesIn(index, {})) /\ UNCHANGED linked
     ELSE /\ at' = "linked" /\ UNCHANGED answer
          /\ linked' = [base |-> index.base, deleted |-> ewah(index.deleted), names |-> NamesIn(index, {})]
  /\ UNCHANGED <<repository, asked, located, globbed, moments>>

ReadShared ==
  /\ at = "linked"
  /\ Done(IF ~Decodes(shared[linked.base]) THEN Failed
          ELSE IF asked = "under" THEN FileTracks(shared[linked.base], linked.deleted)
          ELSE linked.names \cup NamesIn(shared[linked.base], linked.deleted))
  /\ UNCHANGED <<repository, asked, located, globbed, linked, moments>>

IndexNext == WriteShared \/ WriteIndex \/ Expire \/ Locate \/ Glob \/ ReadPlain \/ ReadIndex \/ ReadShared

IndexSpec == IndexInit /\ [][IndexNext]_indexVars

-----------------------------------------------------------------------------
Answered == at = "answered" /\ answer # Failed

\* A path supplies dir when one of the two is the other or lies below it, on a disk that
\* keeps no letter case.
Within(p, q) == p = q \/ Starts(p, Append(q, Slash))
Covers(p) ==
  LET path == Fold(IF p[Len(p)] = Slash THEN SubSeq(p, 1, Len(p) - 1) ELSE p) IN
  Within(path, Fold(Dir)) \/ Within(Fold(Dir), path)
Truth(T) == IF Own(tree) = None THEN No
            ELSE IF asked = "under" THEN \E p \in T : Covers(p) ELSE T

\* Under looked for a shared index before git wrote its first one, and read the index
\* that links to it as a plain one.
FirstSplit == asked = "under" /\ ~globbed /\ linked.base # None

\* The answer is the truth at a moment of the question, whatever the form of the index
\* and whatever git wrote meanwhile: early stop, deleted and replaced entries, prefixes
\* and letter case lose no path and make none up.  A first split index is the one case
\* left out.
AnswersAsTracked ==
  Answered => answer \in {Truth(T) : T \in moments} \/ (FirstSplit /\ answer = FALSE)

\* An error has a cause on disk: a .git that cannot be read or points nowhere, a
\* commondir that cannot be read, no config to read beside an index, a file that is not
\* an index, or a shared index that expired between the two reads.  Which config names
\* the object format, and what else it says, never makes a sound index unreadable; and a
\* tree that has no index is answered whatever became of its config.
ErrsForCause ==
  at = "answered" /\ answer = Failed =>
    \/ DirsFail(tree) \/ index = Garbage
    \/ Config(tree) = None /\ index # Missing
    \/ linked.base # None /\ index.base # linked.base
=============================================================================
