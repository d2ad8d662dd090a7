---------------------------- MODULE LoadProofs ----------------------------
(***************************************************************************)
(* What a load reads: the tiers of rules, and the git index that demotion  *)
(* asks whether the repository supplies a directory of them.               *)
(*                                                                         *)
(* The tiers, for any rule names, any order of them around "local/" and    *)
(* any number of changes to the disk meanwhile. Shadowing is a function of *)
(* what was read, so PrecedenceHolds and ReplacesOne need no more than the *)
(* types of `got`: the lemmas say which rule each tier holds under a name, *)
(* what byName holds once the tiers are in, and with that which rules are  *)
(* live. RepositoryGated needs the order of the steps as well (Ordered):   *)
(* the answers of demotion and trust are still true when the walks are     *)
(* over. NothingLostSilently goes over the places a file can be: each ends *)
(* in a rule, a Problem or a notice.                                       *)
(*                                                                         *)
(* The git index, for any directory, any paths and any number of writes by *)
(* git meanwhile. First, that each encoding is read as it was written: the *)
(* order of bytes is total, so a file has one order of entries             *)
(* (SortedFacts); a varint is its value (VarintWritten); an entry of       *)
(* version 4 is the path it was cut from (NamesRead); a bitmap is its set  *)
(* of positions (BitmapRead). Those definitions are recursive functions:   *)
(* RecursionSolved says that such a function exists, and EveryNatural is   *)
(* the induction. Then, that an early stop in the order of bytes passes no *)
(* path of the directory (EarlyStop), in any letter case (UnderCovers). So *)
(* a file tells what it was written for (WholeRead, SplitFacts,            *)
(* SharedRead), and what has been read of the files so far was true at a   *)
(* moment since the question was asked (IndexInv).                         *)
(***************************************************************************)
EXTENDS Tiers, GitIndex, FunctionTheorems, FiniteSetTheorems, SequenceTheorems,
        NaturalsInduction, WellFoundedInduction, TLAPS

\* What the steps leave behind for the ones after them.
Ordered ==
  /\ trusted => granted
  /\ step = "done" => got["local"] = Walk("local")
  /\ step \in {"trust", "shared", "local", "done"} /\ steady =>
       demoted = ("local" \in placed /\ IsDemoted)

LoadInv == TypeOK /\ Ordered

-----------------------------------------------------------------------------
\* The type invariant is inductive: the load's answers about the project are kept
\* only where there is a project.
LEMMA TypeInductive == TypeOK /\ [Next]_vars => TypeOK'
<1> SUFFICES ASSUME TypeOK, [Next]_vars PROVE TypeOK' OBVIOUS
<1> USE EditsAssumption DEF TypeOK
<1>1. Nothing \in [Names -> Files] BY DEF Nothing, Files
<1>2. \A d \in Dirs : Walk(d) \in [Names -> Files] BY <1>1 DEF Walk
<1>3. CASE GatherGlobal BY <1>2, <1>3 DEF GatherGlobal, env, Dirs
<1>4. CASE CheckDemotion BY <1>4 DEF CheckDemotion, env
<1>5. CASE ReadTrust BY <1>5 DEF ReadTrust, env
<1>6. CASE GatherShared BY <1>2, <1>6 DEF GatherShared, env, Dirs
<1>7. CASE GatherLocal BY <1>2, <1>7 DEF GatherLocal, env, Dirs
<1>8. CASE Edit
  <2>1. /\ edits' \in 0..MaxEdits /\ steady' \in BOOLEAN
        /\ UNCHANGED <<placed, step, got, demoted, trusted>>
    BY <1>8 DEF Edit
  <2>2. supply' \in Supplies BY <1>8 DEF Edit, Supplies
  <2>3. granted' \in BOOLEAN BY <1>8, Zenon DEF Edit
  <2>4. disk' \in [Dirs -> [Names -> Files]]
    <3>1. CASE UNCHANGED disk BY <3>1
    <3>2. ASSUME NEW d \in Dirs, NEW n \in Names, NEW f \in Files,
                 disk' = [disk EXCEPT ![d][n] = f]
          PROVE  disk' \in [Dirs -> [Names -> Files]]
      BY <3>2
    <3> QED BY <1>8, <3>1, <3>2 DEF Edit
  <2> QED BY <2>1, <2>2, <2>3, <2>4
<1>9. CASE UNCHANGED vars BY <1>9 DEF vars, env
<1> QED BY <1>3, <1>4, <1>5, <1>6, <1>7, <1>8, <1>9 DEF Next

\* No change comes after the last walk, and none between demotion and it is steady.
LEMMA OrderInductive == LoadInv /\ [Next]_vars => LoadInv'
<1> SUFFICES ASSUME LoadInv, [Next]_vars PROVE Ordered' BY TypeInductive DEF LoadInv
<1> USE DEF LoadInv, Ordered, Walk, IsDemoted
<1>1. CASE GatherGlobal BY <1>1 DEF GatherGlobal, env
<1>2. CASE CheckDemotion BY <1>2 DEF CheckDemotion, env
<1>3. CASE ReadTrust BY <1>3 DEF ReadTrust, env
<1>4. CASE GatherShared BY <1>4 DEF GatherShared, env
<1>5. CASE GatherLocal
  <2>1. got'["local"] = Walk("local") BY <1>5 DEF GatherLocal, TypeOK, Dirs
  <2> QED BY <1>5, <2>1 DEF GatherLocal, env
<1>6. CASE Edit
  <2>1. trusted' => granted'
    <3>1. trusted' = trusted BY <1>6 DEF Edit
    <3>2. granted' = granted \/ granted' = TRUE BY <1>6 DEF Edit
    <3> QED BY <3>1, <3>2, Zenon
  <2>2. step' # "done" BY <1>6 DEF Edit
  <2>3. ~(step' \in {"trust", "shared", "local", "done"} /\ steady') BY <1>6 DEF Edit
  <2> QED BY <2>1, <2>2, <2>3
<1>7. CASE UNCHANGED vars BY <1>7 DEF vars, env
<1> QED BY <1>1, <1>2, <1>3, <1>4, <1>5, <1>6, <1>7 DEF Next

\* A load starts with no answer and nothing read.
LEMMA InitOrdered == Init => LoadInv
<1> SUFFICES ASSUME Init PROVE LoadInv OBVIOUS
<1>1. Nothing \in [Names -> Files] BY DEF Nothing, Files
<1>2. placed \subseteq Dirs BY DEF Init, Dirs
<1>3. got \in [Dirs -> [Names -> Files]] BY <1>1 DEF Init
<1>4. step = "global" /\ demoted = FALSE /\ trusted = FALSE /\ edits = 0 /\ steady = TRUE
  BY DEF Init
<1>5. disk \in [Dirs -> [Names -> Files]] /\ supply \in Supplies /\ granted \in BOOLEAN
  BY DEF Init
<1>6. TypeOK
  <2>1. 0 \in 0..MaxEdits BY EditsAssumption
  <2>2. edits \in 0..MaxEdits BY <1>4, <2>1
  <2>3. demoted \in BOOLEAN /\ trusted \in BOOLEAN /\ steady \in BOOLEAN BY <1>4, Zenon
  <2>4. step \in {"global", "demotion", "trust", "shared", "local", "done"} BY <1>4
  <2>5. ~trusted /\ ~demoted BY <1>4, Zenon
  <2> QED BY <1>2, <1>3, <1>5, <2>2, <2>3, <2>4, <2>5, Zenon DEF TypeOK
<1>7. Ordered BY <1>4 DEF Ordered
<1> QED BY <1>6, <1>7 DEF LoadInv

\* The load's state makes sense whatever happens to the disk (Load, gather).
THEOREM LoadTypeCorrect == Spec => []TypeOK
<1>1. Init => TypeOK BY InitOrdered DEF LoadInv
<1> QED BY <1>1, TypeInductive, PTL DEF Spec

\* Both parts hold at every step of the load.
LEMMA LoadInvariant == Spec => []LoadInv
BY InitOrdered, OrderInductive, PTL DEF Spec

-----------------------------------------------------------------------------
\* Which rule each tier holds under a name.

HasShared(n) == KeepsShared(n) \/ (demoted /\ KeepsLocal(n))
TheGlobal(n) == Rule(n, "global", "global")
TheShared(n) ==
  IF KeepsShared(n) THEN Rule(n, "shared", "project-shared") ELSE Rule(n, "local", "project-shared")
HasPersonal(n) == ~demoted /\ Parsed(got["local"][n])
ThePersonal(n) == Rule(n, "local", "project-personal")

\* What gather records of a file; agent_only never of a shared one.
LEMMA RuleFields ==
  ASSUME NEW n, NEW d, NEW t
  PROVE  /\ Rule(n, d, t).name = n /\ Rule(n, d, t).dir = d /\ Rule(n, d, t).tier = t
         /\ Rule(n, d, t).enabled <=> got[d][n] # "off"
         /\ t = "project-shared" => ~Rule(n, d, t).agentOnly
<1>1. Rule(n, d, t).enabled = (got[d][n] # "off") BY DEF Rule
<1>2. Rule(n, d, t).enabled <=> got[d][n] # "off" BY <1>1, Zenon
<1>3. Rule(n, d, t).agentOnly = (got[d][n] = "quiet" /\ t # "project-shared") BY DEF Rule
<1>4. t = "project-shared" => ~Rule(n, d, t).agentOnly BY <1>3, Zenon
<1> QED BY <1>2, <1>4 DEF Rule

\* A walk finds at most one rule of a name in the Global tier.
LEMMA GlobalNamed ==
  ASSUME NEW n \in Names, NEW r
  PROVE  (r \in GlobalRules /\ r.name = n) <=> (Parsed(got["global"][n]) /\ r = TheGlobal(n))
BY RuleFields DEF GlobalRules, TheGlobal

\* At most one in the personal tier, and none where local/ was demoted.
LEMMA PersonalNamed ==
  ASSUME NEW n \in Names, NEW r
  PROVE  (r \in PersonalRules /\ r.name = n) <=> (HasPersonal(n) /\ r = ThePersonal(n))
BY RuleFields DEF PersonalRules, HasPersonal, ThePersonal

\* unique leaves one file of a name to a demoted tier and the shared one.
LEMMA SharedNamed ==
  ASSUME NEW n \in Names, NEW r
  PROVE  (r \in SharedRules /\ r.name = n) <=> (HasShared(n) /\ r = TheShared(n))
<1>1. ~(KeepsShared(n) /\ demoted /\ KeepsLocal(n)) BY DEF KeepsShared
<1>2. (r \in SharedRules /\ r.name = n) <=>
        \/ KeepsShared(n) /\ r = Rule(n, "shared", "project-shared")
        \/ demoted /\ KeepsLocal(n) /\ r = Rule(n, "local", "project-shared")
  BY RuleFields DEF SharedRules
<1> QED BY <1>1, <1>2 DEF HasShared, TheShared

\* So at most three rules have a name, one per tier.
LEMMA RulesNamed ==
  ASSUME NEW n \in Names, NEW r
  PROVE  (r \in Rules /\ r.name = n) <=>
           \/ Parsed(got["global"][n]) /\ r = TheGlobal(n)
           \/ trusted /\ HasShared(n) /\ r = TheShared(n)
           \/ HasPersonal(n) /\ r = ThePersonal(n)
BY GlobalNamed, SharedNamed, PersonalNamed DEF Rules

\* Every rule has one of the names.
LEMMA RuleNames == \A r \in Rules : r.name \in Names
BY RuleFields DEF Rules, GlobalRules, SharedRules, PersonalRules

\* AfterGlobal knows every name the Global tier has a file for, parsed or not.
LEMMA GlobalKnown ==
  ASSUME TypeOK, NEW n \in Names
  PROVE  /\ Parsed(got["global"][n]) => AfterGlobal(n) = TheGlobal(n)
         /\ AfterGlobal(n).tier = "global" <=> got["global"][n] # "absent"
<1>1. got["global"][n] \in Files BY DEF TypeOK, Dirs
<1>2. CASE Parsed(got["global"][n])
  <2>1. \A r : (r \in GlobalRules /\ r.name = n) <=> r = TheGlobal(n) BY <1>2, GlobalNamed
  <2>2. AfterGlobal(n) = TheGlobal(n) BY <2>1 DEF AfterGlobal, Enter
  <2>3. got["global"][n] # "absent" BY <1>2 DEF Parsed
  <2> QED BY <2>2, <2>3, RuleFields DEF TheGlobal
<1>3. CASE ~Parsed(got["global"][n])
  <2>1. ~\E r \in GlobalRules : r.name = n BY <1>3, GlobalNamed
  <2>2. AfterGlobal(n) = ByName0(n) BY <2>1 DEF AfterGlobal, Enter
  <2>3. Problem(got["global"][n]) <=> got["global"][n] # "absent"
    BY <1>1, <1>3 DEF Files, Parsed, Problem
  <2> QED BY <1>3, <2>2, <2>3 DEF ByName0, Unparsed, NoRule
<1> QED BY <1>2, <1>3

\* A shared rule takes part where the Global tier has no file of its name.
LEMMA DroppedWhen ==
  ASSUME TypeOK, NEW n \in Names
  PROVE  /\ Dropped(TheShared(n)) <=> got["global"][n] # "absent"
         /\ ~Dropped(TheGlobal(n)) /\ ~Dropped(ThePersonal(n))
<1>1. TheShared(n).name = n /\ TheShared(n).tier = "project-shared" BY RuleFields DEF TheShared
<1>2. TheGlobal(n).tier = "global" /\ ThePersonal(n).tier = "project-personal"
  BY RuleFields DEF TheGlobal, ThePersonal
<1> QED BY <1>1, <1>2, GlobalKnown DEF Dropped

Competes(n) == trusted /\ HasShared(n) /\ got["global"][n] = "absent"

\* What byName holds when every tier is in: the personal rule, else the shared one
\* where it competes, else what the Global tier holds.
LEMMA ByNameIs ==
  ASSUME TypeOK, NEW n \in Names
  PROVE  ByName(n) = IF HasPersonal(n) THEN ThePersonal(n)
                     ELSE IF Competes(n) THEN TheShared(n) ELSE AfterGlobal(n)
<1> DEFINE P == {r \in Rules : r.tier = "project-personal"}
           S == {r \in Rules : r.tier = "project-shared" /\ ~Dropped(r)}
<1>1. /\ TheGlobal(n).tier = "global" /\ TheShared(n).tier = "project-shared"
      /\ ThePersonal(n).tier = "project-personal"
  BY RuleFields DEF TheGlobal, TheShared, ThePersonal
<1>2. \A r : (r \in P /\ r.name = n) <=> (HasPersonal(n) /\ r = ThePersonal(n))
  <2> SUFFICES ASSUME NEW r
               PROVE  (r \in P /\ r.name = n) <=> (HasPersonal(n) /\ r = ThePersonal(n))
    OBVIOUS
  <2> QED BY <1>1, RulesNamed
<1>3. \A r : (r \in S /\ r.name = n) <=> (Competes(n) /\ r = TheShared(n))
  <2> SUFFICES ASSUME NEW r
               PROVE  (r \in S /\ r.name = n) <=> (Competes(n) /\ r = TheShared(n))
    OBVIOUS
  <2> QED BY <1>1, RulesNamed, DroppedWhen DEF Competes
<1> HIDE DEF P, S
<1>4. \A below : Enter(P, below, n) = IF HasPersonal(n) THEN ThePersonal(n) ELSE below
  BY <1>2 DEF Enter
<1>5. \A below : Enter(S, below, n) = IF Competes(n) THEN TheShared(n) ELSE below
  BY <1>3 DEF Enter
<1>6. ByName(n) = Enter(P, Enter(S, AfterGlobal(n), n), n) BY DEF ByName, P, S
<1> QED BY <1>4, <1>5, <1>6

-----------------------------------------------------------------------------
\* Which rules are live, and what follows.

Alive(r) == r \in Rules /\ r.enabled /\ ByName(r.name) = r /\ ~Dropped(r)

\* A rule is live when it is switched on and byName still holds it.
LEMMA EffectiveIsAlive == \A r : r \in Effective <=> Alive(r)
BY DEF Effective, Live, Shadowed, Alive

\* Where the user's project tier has a rule of the name, no other is live.
LEMMA PersonalWins ==
  ASSUME TypeOK, NEW n \in Names, HasPersonal(n)
  PROVE  \A r : (Alive(r) /\ r.name = n) <=> (r = ThePersonal(n) /\ ThePersonal(n).enabled)
<1>1. ByName(n) = ThePersonal(n) BY ByNameIs
<1>2. ThePersonal(n) \in Rules /\ ThePersonal(n).name = n BY RulesNamed
<1>3. ~Dropped(ThePersonal(n)) BY DroppedWhen
<1> QED BY <1>1, <1>2, <1>3 DEF Alive

\* Else a file of the Global tier decides, and one that did not parse leaves the
\* name without a rule.
LEMMA GlobalWins ==
  ASSUME TypeOK, NEW n \in Names, ~HasPersonal(n), got["global"][n] # "absent"
  PROVE  \A r : (Alive(r) /\ r.name = n) <=>
                  (Parsed(got["global"][n]) /\ r = TheGlobal(n) /\ TheGlobal(n).enabled)
<1>1. ByName(n) = AfterGlobal(n) BY ByNameIs DEF Competes
<1>2. Dropped(TheShared(n)) /\ ~Dropped(TheGlobal(n)) BY DroppedWhen
<1>3. CASE Parsed(got["global"][n])
  <2>1. TheGlobal(n) \in Rules /\ TheGlobal(n).name = n BY <1>3, RulesNamed
  <2>2. ByName(n) = TheGlobal(n) BY <1>1, <1>3, GlobalKnown
  <2> QED BY <1>2, <1>3, <2>1, <2>2 DEF Alive
<1>4. CASE ~Parsed(got["global"][n])
  <2>1. \A r : r \in Rules /\ r.name = n => r = TheShared(n) BY <1>4, RulesNamed
  <2> QED BY <1>2, <1>4, <2>1 DEF Alive
<1> QED BY <1>3, <1>4

\* Else the shared rule is the only one there is, if it is trusted.
LEMMA SharedWins ==
  ASSUME TypeOK, NEW n \in Names, ~HasPersonal(n), got["global"][n] = "absent"
  PROVE  \A r : (Alive(r) /\ r.name = n) <=>
                  (trusted /\ HasShared(n) /\ r = TheShared(n) /\ TheShared(n).enabled)
<1>1. ~Parsed(got["global"][n]) BY DEF Parsed
<1>2. \A r : (r \in Rules /\ r.name = n) <=> (trusted /\ HasShared(n) /\ r = TheShared(n))
  BY <1>1, RulesNamed
<1>3. ~Dropped(TheShared(n)) BY DroppedWhen
<1>4. trusted /\ HasShared(n) => ByName(n) = TheShared(n) BY ByNameIs DEF Competes
<1> QED BY <1>2, <1>3, <1>4 DEF Alive

\* The three cases are the three of Winner.
LEMMA PrecedenceFollows == TypeOK => PrecedenceHolds
<1> SUFFICES ASSUME TypeOK, NEW n \in Names
             PROVE  {r.tier : r \in {q \in Effective : q.name = n}}
                      = IF Winner(n).file \in {"on", "quiet", "twice"}
                          THEN {Winner(n).tier} ELSE {}
  BY DEF PrecedenceHolds
<1> DEFINE L == {q \in Effective : q.name = n}
           On == {"on", "quiet", "twice"}
<1>1. \A r : r \in L <=> (Alive(r) /\ r.name = n) BY EffectiveIsAlive
<1>2. \A f : Parsed(f) => (f \in On <=> f # "off") BY DEF Parsed
<1> HIDE DEF L
<1>3. CASE HasPersonal(n)
  <2>1. /\ Parsed(OwnFile(n)) /\ OwnFile(n) = got["local"][n]
    BY <1>3 DEF HasPersonal, OwnFile
  <2>2. Winner(n) = [tier |-> "project-personal", file |-> got["local"][n]]
    BY <2>1 DEF Winner
  <2>3. /\ ThePersonal(n).tier = "project-personal"
        /\ ThePersonal(n).enabled <=> got["local"][n] \in On
    BY <1>2, <2>1, RuleFields DEF ThePersonal
  <2>4. \A r : r \in L <=> (r = ThePersonal(n) /\ ThePersonal(n).enabled)
    BY <1>1, <1>3, PersonalWins
  <2> QED BY <2>2, <2>3, <2>4 DEF L
<1>4. CASE ~HasPersonal(n) /\ got["global"][n] # "absent"
  <2>1. ~Parsed(OwnFile(n)) BY <1>4 DEF HasPersonal, OwnFile, Parsed
  <2>2. Winner(n) = [tier |-> "global", file |-> got["global"][n]]
    BY <1>4, <2>1 DEF Winner
  <2>3. TheGlobal(n).tier = "global" /\ (TheGlobal(n).enabled <=> got["global"][n] # "off")
    BY RuleFields DEF TheGlobal
  <2>4. Parsed(got["global"][n]) /\ got["global"][n] # "off" <=> got["global"][n] \in On
    BY DEF Parsed
  <2>5. \A r : r \in L <=> (r = TheGlobal(n) /\ got["global"][n] \in On)
    BY <1>1, <1>4, <2>3, <2>4, GlobalWins
  <2> QED BY <2>2, <2>3, <2>5 DEF L
<1>5. CASE ~HasPersonal(n) /\ got["global"][n] = "absent"
  <2>1. ~Parsed(OwnFile(n)) BY <1>5 DEF HasPersonal, OwnFile, Parsed
  <2>2. Winner(n) = [tier |-> "project-shared",
                     file |-> IF trusted THEN SharedFile(n) ELSE "absent"]
    BY <1>5, <2>1 DEF Winner
  <2>3. /\ TheShared(n).tier = "project-shared"
        /\ HasShared(n) => Parsed(SharedFile(n))
        /\ HasShared(n) => (TheShared(n).enabled <=> SharedFile(n) # "off")
        /\ ~HasShared(n) => SharedFile(n) = "absent"
    BY RuleFields DEF TheShared, HasShared, SharedFile, KeepsShared, KeepsLocal
  <2>4. trusted /\ HasShared(n) /\ TheShared(n).enabled <=> Winner(n).file \in On
    BY <1>2, <2>2, <2>3
  <2>5. \A r : r \in L <=> (r = TheShared(n) /\ Winner(n).file \in On)
    BY <1>1, <1>5, <2>4, SharedWins
  <2> QED BY <2>2, <2>3, <2>5 DEF L
<1> QED BY <1>3, <1>4, <1>5

\* Whatever the disk did during the load, the rules that can fire are the winners of
\* Precedence that are switched on (shadow, Live).
THEOREM Precedence == Spec => []PrecedenceHolds
BY LoadTypeCorrect, PrecedenceFollows, PTL

\* A shadow replaces the Global rule where the Global tier has a file of the name,
\* and otherwise the shared one: never both, a personal rule never.
LEMMA ShadowedIs ==
  ASSUME TypeOK, NEW n \in Names
  PROVE  {r \in Rules : r.name = n /\ Shadowed(r)}
           \subseteq {IF got["global"][n] = "absent" THEN TheShared(n) ELSE TheGlobal(n)}
<1> SUFFICES ASSUME NEW r \in Rules, r.name = n, Shadowed(r)
             PROVE  r = IF got["global"][n] = "absent" THEN TheShared(n) ELSE TheGlobal(n)
  OBVIOUS
<1>1. ~Dropped(r) /\ ByName(n) # r BY DEF Shadowed
<1>2. CASE Parsed(got["global"][n]) /\ r = TheGlobal(n) BY <1>2 DEF Parsed
<1>3. CASE trusted /\ HasShared(n) /\ r = TheShared(n) BY <1>1, <1>3, DroppedWhen
<1>4. CASE HasPersonal(n) /\ r = ThePersonal(n) BY <1>1, <1>4, ByNameIs
<1> QED BY <1>2, <1>3, <1>4, RulesNamed

\* Replaces points at every rule a shadow replaced: no shadow replaces two (shadow's
\* comment on dropping shared namesakes of Global rules).
THEOREM OneReplaced == Spec => []ReplacesOne
<1>1. TypeOK => ReplacesOne
  <2> SUFFICES ASSUME TypeOK, NEW n \in Names
               PROVE  Cardinality({r \in Rules : r.name = n /\ Shadowed(r)}) <= 1
    BY DEF ReplacesOne
  <2> DEFINE x == IF got["global"][n] = "absent" THEN TheShared(n) ELSE TheGlobal(n)
             S == {r \in Rules : r.name = n /\ Shadowed(r)}
  <2>1. S \subseteq {x} BY ShadowedIs
  <2> HIDE DEF x, S
  <2>2. IsFiniteSet({x}) /\ Cardinality({x}) = 1 BY FS_Singleton
  <2>3. Cardinality(S) <= Cardinality({x}) BY <2>1, <2>2, FS_Subset
  <2> QED BY <2>2, <2>3 DEF S
<1> QED BY <1>1, LoadTypeCorrect, PTL

\* A local tier the repository supplies was demoted, if it was there to be demoted and
\* has not changed since.
LEMMA SuppliedIsDemoted ==
  ASSUME LoadInv, step = "done", steady, supply # "user", NEW n \in Names
  PROVE  ~HasPersonal(n)
<1> SUFFICES ASSUME ~demoted, Parsed(got["local"][n]) PROVE FALSE BY DEF HasPersonal
<1>1. got["local"] = Walk("local") BY DEF LoadInv, Ordered
<1>2. Walk("local")[n] # "absent" BY <1>1 DEF Parsed
<1>3. "local" \in placed /\ disk["local"] # Nothing BY <1>2 DEF Walk, Nothing
<1>4. ~IsDemoted BY <1>3 DEF LoadInv, Ordered
<1> QED BY <1>3, <1>4 DEF IsDemoted

\* No repository speaks through handrail before the user trusted it: of the rules it
\* supplies only those of a granted root can fire, to the user, under names that are
\* not the user's own (demotion, isTrusted, gather, shadow).
THEOREM Gated == Spec => []RepositoryGated
<1>1. LoadInv => RepositoryGated
  <2> SUFFICES ASSUME LoadInv, step = "done", steady, NEW r \in Effective,
                      r.dir = "shared" \/ (r.dir = "local" /\ supply # "user")
               PROVE  granted /\ ~r.agentOnly /\ got["global"][r.name] = "absent"
    BY DEF RepositoryGated
  <2>1. Alive(r) BY EffectiveIsAlive
  <2>2. PICK n \in Names : r.name = n BY <2>1, RuleNames DEF Alive
  <2>3. r # TheGlobal(n) BY RuleFields DEF TheGlobal
  <2>4. ~(HasPersonal(n) /\ r = ThePersonal(n))
    BY SuppliedIsDemoted, RuleFields DEF ThePersonal
  <2>5. trusted /\ HasShared(n) /\ r = TheShared(n)
    BY <2>1, <2>2, <2>3, <2>4, RulesNamed DEF Alive
  <2>6. granted BY <2>5 DEF LoadInv, Ordered
  <2>7. ~r.agentOnly BY <2>5, RuleFields DEF TheShared
  <2>8. got["global"][n] = "absent" BY <2>1, <2>5, DroppedWhen DEF Alive, LoadInv
  <2> QED BY <2>2, <2>6, <2>7, <2>8
<1> QED BY <1>1, LoadInvariant, PTL

-----------------------------------------------------------------------------
\* A file of a tier the repository supplies is one of its rules, if nothing of the tier
\* is a Problem.
LEMMA SharedFilesAreRules ==
  ASSUME TypeOK, SharedProblems = {}, NEW n \in Names, NEW d \in {"shared", "local"},
         d = "local" => demoted, got[d][n] # "absent"
  PROVE  /\ got[d][n] # "twice"
         /\ Rule(n, d, "project-shared") \in SharedRules
<1>1. got[d][n] \in Files BY DEF TypeOK, Dirs
<1>2. n \notin ProblemsIn(d) BY DEF SharedProblems
<1>3. ~Problem(got[d][n]) BY <1>2 DEF ProblemsIn
<1>4. Parsed(got[d][n]) /\ got[d][n] # "twice" BY <1>1, <1>3 DEF Problem, Parsed, Files
<1>5. ~(demoted /\ Parsed(got["local"][n]) /\ Parsed(got["shared"][n]))
  BY DEF SharedProblems, Repeated
<1>6. CASE d = "shared"
  <2>1. KeepsShared(n) BY <1>4, <1>5, <1>6 DEF KeepsShared, KeepsLocal
  <2> QED BY <1>4, <1>6, <2>1 DEF SharedRules
<1>7. CASE d = "local"
  <2>1. demoted /\ KeepsLocal(n) BY <1>4, <1>5, <1>7 DEF KeepsLocal
  <2> QED BY <1>4, <1>7, <2>1 DEF SharedRules
<1> QED BY <1>6, <1>7

\* A file of a tier of the user's own is a rule, if it is no Problem.
LEMMA OwnFilesAreRules ==
  ASSUME TypeOK, Problems = {}, NEW n \in Names, NEW d \in {"global", "local"},
         d = "local" => ~demoted, got[d][n] # "absent"
  PROVE  /\ got[d][n] # "twice"
         /\ \E r \in Rules : r.name = n /\ r.dir = d
<1>1. got[d][n] \in Files BY DEF TypeOK, Dirs
<1>2. n \notin ProblemsIn(d) BY DEF Problems
<1>3. Parsed(got[d][n]) /\ got[d][n] # "twice"
  BY <1>1, <1>2 DEF ProblemsIn, Problem, Parsed, Files
<1>4. CASE d = "global"
  <2>1. Rule(n, d, "global") \in Rules BY <1>3, <1>4 DEF Rules, GlobalRules
  <2> QED BY <1>3, <2>1, RuleFields
<1>5. CASE d = "local"
  <2>1. Rule(n, d, "project-personal") \in Rules BY <1>3, <1>5 DEF Rules, PersonalRules
  <2> QED BY <1>3, <2>1, RuleFields
<1> QED BY <1>4, <1>5

\* Whatever the disk did during the load, a file that was read is a rule that counts,
\* or a Problem that marks the event's payloads, or skipped with a word to the user
\* (gather, unique, Load, SkippedNotice).
THEOREM NothingLost == Spec => []NothingLostSilently
<1>1. TypeOK => NothingLostSilently
  <2> SUFFICES ASSUME TypeOK, NEW d \in Dirs, NEW n \in Names, got[d][n] # "absent",
                      ~Unreadable, ~Skipped
               PROVE  \E r \in Rules : r.name = n /\ r.dir = d /\ got[d][n] # "twice"
    BY DEF NothingLostSilently
  <2>1. Problems = {} BY DEF Unreadable
  <2>2. CASE d = "global" \/ (d = "local" /\ ~demoted) BY <2>1, <2>2, OwnFilesAreRules
  <2>3. CASE d = "shared" \/ (d = "local" /\ demoted)
    <3>1. SharedProblems = {} BY <2>1 DEF Skipped, Problems
    <3>2. got[d][n] # "twice" /\ Rule(n, d, "project-shared") \in SharedRules
      BY <2>3, <3>1, SharedFilesAreRules
    <3>3. trusted BY <3>2 DEF Skipped
    <3>4. Rule(n, d, "project-shared") \in Rules BY <3>2, <3>3 DEF Rules
    <3> QED BY <3>2, <3>4, RuleFields
  <2> QED BY <2>2, <2>3 DEF Dirs
<1> QED BY <1>1, LoadTypeCorrect, PTL


Name == Seq(Nat)

-----------------------------------------------------------------------------
\* A set of naturals has a least member.
LEMMA LeastNatural ==
  ASSUME NEW S, S \subseteq Nat, S # {}
  PROVE  \E x \in S : \A y \in S : x <= y
<1>1. IsWellFoundedOn(OpToRel(<, Nat), Nat) BY NatLessThanWellFounded
<1>2. \E x \in S : \A y \in S : <<y, x>> \notin OpToRel(<, Nat) BY <1>1, WFMin
<1>3. PICK x \in S : \A y \in S : ~(y < x) BY <1>2 DEF OpToRel
<1> QED BY <1>3

\* Induction over the naturals, for a set of them: from all that are less to the next.
LEMMA EveryNatural ==
  ASSUME NEW T, \A n \in Nat : (\A m \in Nat : m < n => m \in T) => n \in T
  PROVE  \A n \in Nat : n \in T
<1> DEFINE S == {n \in Nat : n \notin T}
<1> SUFFICES ASSUME S # {} PROVE FALSE OBVIOUS
<1>1. S \subseteq Nat OBVIOUS
<1>2. PICK x \in S : \A y \in S : x <= y
  <2> HIDE DEF S
  <2> QED BY <1>1, LeastNatural
<1>3. \A m \in Nat : m < x => m \in T BY <1>2
<1> QED BY <1>2, <1>3

\* A set of naturals up to n has a greatest member.
LEMMA GreatestNatural ==
  ASSUME NEW n \in Nat, NEW S, S \subseteq 0..n, S # {}
  PROVE  \E x \in S : \A y \in S : y <= x
<1> DEFINE D == {n - x : x \in S}
<1>0. \A x \in S : x \in 0..n /\ x \in Nat /\ n - x \in Nat OBVIOUS
<1>1. D \subseteq Nat /\ D # {} BY <1>0
<1>2. PICK d \in D : \A y \in D : d <= y
  <2> HIDE DEF D
  <2> QED BY <1>1, LeastNatural
<1>3. PICK x \in S : d = n - x BY <1>2
<1>4. \A y \in S : n - x <= n - y BY <1>2, <1>3
<1>5. \A y \in S : y <= x
  <2> TAKE y \in S
  <2>1. n - x <= n - y /\ x \in Nat /\ y \in Nat BY <1>0, <1>4
  <2> QED BY <2>1
<1> QED BY <1>5

-----------------------------------------------------------------------------
\* The order of bytes.  Two names agree up to some length, where one of them ends or
\* their bytes differ.
Agree(s, t, n) == n <= Len(s) /\ n <= Len(t) /\ \A i \in 1..n : s[i] = t[i]

LEMMA NameFacts ==
  ASSUME NEW s \in Name
  PROVE  Len(s) \in Nat /\ DOMAIN s = 1..Len(s) /\ \A i \in 1..Len(s) : s[i] \in Nat
BY DEF Name

LEMMA SameNames ==
  ASSUME NEW s \in Name, NEW t \in Name, Len(s) = Len(t), \A i \in 1..Len(s) : s[i] = t[i]
  PROVE  s = t
BY SeqEqual DEF Name

LEMMA PrefixFacts ==
  ASSUME NEW s \in Name, NEW n \in 0..Len(s)
  PROVE  /\ SubSeq(s, 1, n) \in Name /\ Len(SubSeq(s, 1, n)) = n
         /\ \A i \in 1..n : SubSeq(s, 1, n)[i] = s[i]
<1>1. \A i \in 1..n : s[i] \in Nat BY NameFacts
<1>2. 1 \in Int /\ n \in Int BY NameFacts
<1>3. /\ SubSeq(s, 1, n) \in Seq(Nat)
      /\ Len(SubSeq(s, 1, n)) = IF 1 <= n THEN n - 1 + 1 ELSE 0
      /\ \A i \in 1..n - 1 + 1 : SubSeq(s, 1, n)[i] = s[1 + i - 1]
  BY <1>1, <1>2, SubSeqProperties
<1> QED BY <1>2, <1>3, NameFacts DEF Name

LEMMA StartsIs ==
  ASSUME NEW s \in Name, NEW p \in Name
  PROVE  Starts(s, p) <=> Len(p) <= Len(s) /\ \A i \in 1..Len(p) : s[i] = p[i]
<1>1. Len(s) \in Nat /\ Len(p) \in Nat BY NameFacts
<1>2. CASE Len(p) <= Len(s)
  <2>1. Len(p) \in 0..Len(s) BY <1>1, <1>2
  <2> DEFINE q == SubSeq(s, 1, Len(p))
  <2>2. q \in Name /\ Len(q) = Len(p) /\ \A i \in 1..Len(p) : q[i] = s[i] BY <2>1, PrefixFacts
  <2> HIDE DEF q
  <2>3. q = p <=> \A i \in 1..Len(p) : q[i] = p[i] BY <2>2, SameNames
  <2>4. Starts(s, p) <=> q = p BY <1>2 DEF Starts, q
  <2> QED BY <1>2, <2>2, <2>3, <2>4
<1>3. CASE ~(Len(p) <= Len(s)) BY <1>3 DEF Starts
<1> QED BY <1>2, <1>3

LEMMA SamePrefix ==
  ASSUME NEW s \in Name, NEW t \in Name, NEW n \in 0..Len(s), n <= Len(t)
  PROVE  SubSeq(s, 1, n) = SubSeq(t, 1, n) <=> Agree(s, t, n)
<1>1. Len(s) \in Nat /\ Len(t) \in Nat BY NameFacts
<1>2. n \in 0..Len(t) BY <1>1
<1> DEFINE p == SubSeq(s, 1, n)
           q == SubSeq(t, 1, n)
<1>3. p \in Name /\ Len(p) = n /\ \A i \in 1..n : p[i] = s[i] BY PrefixFacts
<1>4. q \in Name /\ Len(q) = n /\ \A i \in 1..n : q[i] = t[i] BY <1>2, PrefixFacts
<1> HIDE DEF p, q
<1>5. p = q <=> \A i \in 1..n : s[i] = t[i] BY <1>3, <1>4, SameNames
<1> QED BY <1>1, <1>5 DEF Agree, p, q

LEMMA PrecedesIs ==
  ASSUME NEW s \in Name, NEW t \in Name
  PROVE  Precedes(s, t) <=>
           \E n \in Nat : Agree(s, t, n) /\ (n = Len(s) \/ (n < Len(s) /\ n < Len(t) /\ s[n + 1] < t[n + 1]))
<1>1. Len(s) \in Nat /\ Len(t) \in Nat BY NameFacts
<1>2. ASSUME NEW n \in 0..Len(s)
      PROVE  (n <= Len(t) /\ SubSeq(s, 1, n) = SubSeq(t, 1, n)) <=> Agree(s, t, n)
  <2>1. CASE n <= Len(t) BY <2>1, SamePrefix DEF Agree
  <2>2. CASE ~(n <= Len(t)) BY <2>2 DEF Agree
  <2> QED BY <2>1, <2>2
<1>3. \A n \in Nat : Agree(s, t, n) => n \in 0..Len(s) BY <1>1 DEF Agree
<1>4. 0..Len(s) \subseteq Nat BY <1>1
<1>5. Precedes(s, t) <=> \E n \in 0..Len(s) :
        Agree(s, t, n) /\ (n = Len(s) \/ (n < Len(t) /\ s[n + 1] < t[n + 1]))
  BY <1>2 DEF Precedes
<1>6. \A n \in 0..Len(s) : n = Len(s) \/ n < Len(s) BY <1>1
<1> QED BY <1>3, <1>4, <1>5, <1>6

LEMMA FirstDifference ==
  ASSUME NEW s \in Name, NEW t \in Name
  PROVE  \E n \in Nat : /\ Agree(s, t, n)
                        /\ \/ n = Len(s) \/ n = Len(t)
                           \/ n < Len(s) /\ n < Len(t) /\ s[n + 1] # t[n + 1]
<1>1. Len(s) \in Nat /\ Len(t) \in Nat BY NameFacts
<1> DEFINE S == {n \in 0..Len(s) : Agree(s, t, n)}
<1>2. 0 \in S BY <1>1 DEF Agree
<1>3. PICK n \in S : \A m \in S : m <= n
  <2>1. S \subseteq 0..Len(s) /\ S # {} BY <1>2
  <2> HIDE DEF S
  <2> QED BY <1>1, <2>1, GreatestNatural
<1>4. n \in Nat /\ Agree(s, t, n) /\ n <= Len(s) /\ n <= Len(t) BY <1>1, <1>3 DEF Agree
<1>5. ASSUME n < Len(s), n < Len(t), s[n + 1] = t[n + 1] PROVE FALSE
  <2>1. n + 1 \in 0..Len(s) /\ n + 1 <= Len(t) BY <1>1, <1>4, <1>5
  <2>2. \A i \in 1..n + 1 : i \in 1..n \/ i = n + 1 BY <1>4
  <2>3. Agree(s, t, n + 1) BY <1>1, <1>4, <1>5, <2>1, <2>2 DEF Agree
  <2> QED BY <1>3, <1>4, <2>1, <2>3
<1>6. n = Len(s) \/ n < Len(s) BY <1>1, <1>4
<1>7. n = Len(t) \/ n < Len(t) BY <1>1, <1>4
<1> QED BY <1>4, <1>5, <1>6, <1>7

\* s precedes t by what follows their first n bytes.
Cut(s, t, n) == Agree(s, t, n) /\ (n = Len(s) \/ (n < Len(s) /\ n < Len(t) /\ s[n + 1] < t[n + 1]))

LEMMA PrecedesCut ==
  ASSUME NEW s \in Name, NEW t \in Name
  PROVE  Precedes(s, t) <=> \E n \in Nat : Cut(s, t, n)
BY PrecedesIs DEF Cut

LEMMA AgreeSymmetric == ASSUME NEW s, NEW t, NEW n PROVE Agree(s, t, n) <=> Agree(t, s, n)
BY DEF Agree

LEMMA PrecedesTotal ==
  ASSUME NEW s \in Name, NEW t \in Name
  PROVE  Precedes(s, t) \/ Precedes(t, s)
<1>1. Len(s) \in Nat /\ Len(t) \in Nat BY NameFacts
<1>2. PICK n \in Nat : /\ Agree(s, t, n)
                       /\ \/ n = Len(s) \/ n = Len(t)
                          \/ n < Len(s) /\ n < Len(t) /\ s[n + 1] # t[n + 1]
  BY FirstDifference
<1>3. Agree(t, s, n) BY <1>2, AgreeSymmetric
<1>4. CASE n = Len(s) BY <1>2, <1>4, PrecedesCut DEF Cut
<1>5. CASE n = Len(t) BY <1>3, <1>5, PrecedesCut DEF Cut
<1>6. CASE n < Len(s) /\ n < Len(t) /\ s[n + 1] # t[n + 1]
  <2>1. n + 1 \in 1..Len(s) /\ n + 1 \in 1..Len(t) BY <1>1, <1>6
  <2>2. s[n + 1] \in Nat /\ t[n + 1] \in Nat BY <2>1, NameFacts
  <2>3. CASE s[n + 1] < t[n + 1] BY <1>2, <1>6, <2>3, PrecedesCut DEF Cut
  <2>4. CASE t[n + 1] < s[n + 1] BY <1>3, <1>6, <2>4, PrecedesCut DEF Cut
  <2> QED BY <1>6, <2>2, <2>3, <2>4
<1> QED BY <1>2, <1>4, <1>5, <1>6

LEMMA PrecedesItself == ASSUME NEW s \in Name PROVE Precedes(s, s)
BY PrecedesTotal

LEMMA PrecedesAntisymmetric ==
  ASSUME NEW s \in Name, NEW t \in Name, Precedes(s, t), Precedes(t, s)
  PROVE  s = t
<1>1. Len(s) \in Nat /\ Len(t) \in Nat BY NameFacts
<1>2. PICK n \in Nat : Cut(s, t, n) BY PrecedesCut
<1>3. PICK m \in Nat : Cut(t, s, m) BY PrecedesCut
<1>4. /\ \A i \in 1..n : s[i] = t[i] /\ s[i] \in Nat
      /\ \A i \in 1..m : s[i] = t[i] /\ s[i] \in Nat
  BY <1>1, <1>2, <1>3, NameFacts DEF Cut, Agree
<1>5. n <= Len(s) /\ n <= Len(t) /\ m <= Len(s) /\ m <= Len(t) BY <1>2, <1>3 DEF Cut, Agree
<1>6. ~(n < m)
  <2> SUFFICES ASSUME n < m PROVE FALSE OBVIOUS
  <2>1. n + 1 \in 1..m BY <1>1
  <2>2. s[n + 1] < t[n + 1] BY <1>1, <1>2, <1>5 DEF Cut
  <2> QED BY <1>4, <2>1, <2>2
<1>7. ~(m < n)
  <2> SUFFICES ASSUME m < n PROVE FALSE OBVIOUS
  <2>1. m + 1 \in 1..n BY <1>1
  <2>2. t[m + 1] < s[m + 1] BY <1>1, <1>3, <1>5 DEF Cut
  <2> QED BY <1>4, <2>1, <2>2
<1>8. n = m BY <1>6, <1>7
<1>9. n = Len(s) /\ n = Len(t)
  <2>1. CASE n = Len(s) /\ m = Len(t) BY <1>8, <2>1
  <2>2. CASE n < Len(s) /\ n < Len(t)
    <3>1. s[n + 1] < t[n + 1] /\ t[n + 1] < s[n + 1] BY <1>2, <1>3, <1>8, <2>2 DEF Cut
    <3>2. n + 1 \in 1..Len(s) /\ n + 1 \in 1..Len(t) BY <1>1, <2>2
    <3>3. s[n + 1] \in Nat /\ t[n + 1] \in Nat BY <3>2, NameFacts
    <3> QED BY <3>1, <3>3
  <2> QED BY <1>1, <1>2, <1>3, <1>5, <1>8, <2>1, <2>2 DEF Cut
<1> QED BY <1>4, <1>9, SameNames

LEMMA PrecedesTransitive ==
  ASSUME NEW s \in Name, NEW t \in Name, NEW u \in Name, Precedes(s, t), Precedes(t, u)
  PROVE  Precedes(s, u)
<1>1. Len(s) \in Nat /\ Len(t) \in Nat /\ Len(u) \in Nat BY NameFacts
<1>2. PICK n \in Nat : Cut(s, t, n) BY PrecedesCut
<1>3. PICK m \in Nat : Cut(t, u, m) BY PrecedesCut
<1>4. n <= Len(s) /\ n <= Len(t) /\ m <= Len(t) /\ m <= Len(u) BY <1>2, <1>3 DEF Cut, Agree
<1>5. (\A i \in 1..n : s[i] = t[i]) /\ (\A i \in 1..m : t[i] = u[i]) BY <1>2, <1>3 DEF Cut, Agree
<1>6. CASE n <= m
  <2>1. 1..n \subseteq 1..m BY <1>6
  <2>2. Agree(s, u, n) BY <1>1, <1>4, <1>5, <1>6, <2>1 DEF Agree
  <2>3. CASE n = Len(s) BY <2>2, <2>3, PrecedesCut DEF Cut
  <2>4. CASE n < Len(s) /\ n < Len(t) /\ s[n + 1] < t[n + 1]
    <3>1. n + 1 \in 1..Len(s) /\ n + 1 \in 1..Len(t) BY <1>1, <2>4
    <3>2. s[n + 1] \in Nat /\ t[n + 1] \in Nat BY <3>1, NameFacts
    <3>3. n < Len(u) /\ s[n + 1] < u[n + 1]
      <4>1. CASE n < m
        <5>1. n + 1 \in 1..m BY <4>1
        <5> QED BY <1>1, <1>4, <1>5, <2>4, <4>1, <5>1
      <4>2. CASE n = m
        <5>1. n < Len(u) /\ t[n + 1] < u[n + 1] BY <1>1, <1>3, <2>4, <4>2 DEF Cut
        <5>2. n + 1 \in 1..Len(u) BY <1>1, <5>1
        <5>3. u[n + 1] \in Nat BY <5>2, NameFacts
        <5> QED BY <2>4, <3>2, <5>1, <5>3
      <4> QED BY <1>6, <4>1, <4>2
    <3> QED BY <2>2, <2>4, <3>3, PrecedesCut DEF Cut
  <2> QED BY <1>2, <2>3, <2>4 DEF Cut
<1>7. CASE m < n
  <2>1. 1..m \subseteq 1..n /\ m + 1 \in 1..n BY <1>7
  <2>2. Agree(s, u, m) BY <1>1, <1>4, <1>5, <1>7, <2>1 DEF Agree
  <2>3. m < Len(u) /\ t[m + 1] < u[m + 1] BY <1>1, <1>3, <1>4, <1>7 DEF Cut
  <2>4. s[m + 1] = t[m + 1] /\ m < Len(s) BY <1>1, <1>4, <1>5, <1>7, <2>1
  <2> QED BY <2>2, <2>3, <2>4, PrecedesCut DEF Cut
<1> QED BY <1>6, <1>7

-----------------------------------------------------------------------------
\* A set in order.
Rank(S, p) == Cardinality({q \in S : Precedes(q, p)})

LEMMA RankGrows ==
  ASSUME NEW S, IsFiniteSet(S), S \subseteq Name, NEW p \in S, NEW q \in S, Precedes(p, q), p # q
  PROVE  Rank(S, p) < Rank(S, q)
<1> DEFINE P == {r \in S : Precedes(r, p)}
           Q == {r \in S : Precedes(r, q)}
<1>1. p \in Name /\ q \in Name OBVIOUS
<1>2. \A r \in S : Precedes(r, p) => Precedes(r, q) BY <1>1, PrecedesTransitive
<1>3. P \in SUBSET Q BY <1>2
<1>4. q \in Q /\ q \notin P BY <1>1, PrecedesItself, PrecedesAntisymmetric
<1>5. IsFiniteSet(Q)
  <2>1. Q \in SUBSET S OBVIOUS
  <2> HIDE DEF Q
  <2> QED BY <2>1, FS_Subset
<1> HIDE DEF P, Q
<1>6. IsFiniteSet(P) /\ Cardinality(P) <= Cardinality(Q) /\ Cardinality(P) # Cardinality(Q)
  BY <1>3, <1>4, <1>5, FS_Subset
<1>7. Cardinality(P) \in Nat /\ Cardinality(Q) \in Nat BY <1>5, <1>6, FS_CardinalityType
<1>8. Cardinality(P) < Cardinality(Q) BY <1>6, <1>7
<1> QED BY <1>8 DEF Rank, P, Q

LEMMA RankIn ==
  ASSUME NEW S, IsFiniteSet(S), S \subseteq Name, NEW p \in S
  PROVE  Rank(S, p) \in 1..Cardinality(S)
<1> DEFINE P == {r \in S : Precedes(r, p)}
<1>1. P \in SUBSET S /\ p \in P BY PrecedesItself
<1> HIDE DEF P
<1>2. IsFiniteSet(P) /\ Cardinality(P) <= Cardinality(S) BY <1>1, FS_Subset
<1>3. Cardinality(P) \in Nat /\ Cardinality(S) \in Nat BY <1>2, FS_CardinalityType
<1>4. Cardinality(P) # 0 BY <1>1, <1>2, FS_EmptySet
<1>5. Cardinality(P) \in 1..Cardinality(S) BY <1>2, <1>3, <1>4
<1> QED BY <1>5 DEF Rank, P

LEMMA SortedFacts ==
  ASSUME NEW S, IsFiniteSet(S), S \subseteq Name
  PROVE  LET s == Sorted(S) IN
         /\ s \in Seq(S) /\ s \in Seq(Name) /\ Len(s) = Cardinality(S)
         /\ \A p \in S : \E i \in 1..Len(s) : s[i] = p
         /\ \A i, j \in 1..Len(s) : i < j => Precedes(s[i], s[j]) /\ s[i] # s[j]
<1> DEFINE n == Cardinality(S)
           s == Sorted(S)
           rank == [p \in S |-> Rank(S, p)]
<1>1. n \in Nat BY FS_CardinalityType
<1>2. \A p, q \in S : p # q => Rank(S, p) # Rank(S, q)
  <2> SUFFICES ASSUME NEW p \in S, NEW q \in S, p # q PROVE Rank(S, p) # Rank(S, q) OBVIOUS
  <2>1. p \in Name /\ q \in Name OBVIOUS
  <2>2. Rank(S, p) \in Nat /\ Rank(S, q) \in Nat BY <1>1, RankIn
  <2>3. Rank(S, p) < Rank(S, q) \/ Rank(S, q) < Rank(S, p) BY <2>1, PrecedesTotal, RankGrows
  <2> QED BY <2>2, <2>3
<1>3. rank \in [S -> 1..n] BY RankIn
<1>4. rank \in Injection(S, 1..n)
  <2>1. \A p, q \in S : rank[p] = rank[q] => p = q BY <1>2
  <2> HIDE DEF rank, n
  <2> QED BY <1>3, <2>1, Fun_IsInj
<1>5. IsFiniteSet(1..n) /\ Cardinality(1..n) = n
  <2>1. 1 \in Int /\ n \in Int BY <1>1
  <2>2. IsFiniteSet(1..n) /\ Cardinality(1..n) = IF 1 > n THEN 0 ELSE n - 1 + 1
    <3> HIDE DEF n
    <3> QED BY <2>1, FS_Interval
  <2> QED BY <1>1, <2>2
<1>6. \A i \in 1..n : \E p \in S : Rank(S, p) = i
  <2>1. rank \in Surjection(S, 1..n)
    <3> HIDE DEF rank
    <3> QED BY <1>4, <1>5, FS_Injection
  <2>2. \A i \in 1..n : \E p \in S : rank[p] = i
    <3> HIDE DEF rank, n
    <3> QED BY <2>1, Fun_SurjectionProperties
  <2> QED BY <2>2
<1>7. s = [i \in 1..n |-> CHOOSE p \in S : Rank(S, p) = i] BY DEF Sorted, Rank
<1>8. \A i \in 1..n : s[i] \in S /\ Rank(S, s[i]) = i BY <1>6, <1>7
<1>9. s \in Seq(S) /\ Len(s) = n /\ s \in Seq(Name)
  <2>1. s \in [1..n -> S] BY <1>7, <1>8
  <2> HIDE DEF s, n
  <2>2. s \in Seq(S) /\ Len(s) = n BY <1>1, <2>1
  <2> QED BY <2>2, SeqMonotonic
<1>10. \A p \in S : \E i \in 1..n : s[i] = p
  <2> TAKE p \in S
  <2>1. Rank(S, p) \in 1..n BY RankIn
  <2>2. s[Rank(S, p)] \in S /\ Rank(S, s[Rank(S, p)]) = Rank(S, p) BY <1>8, <2>1
  <2>3. s[Rank(S, p)] = p BY <1>2, <2>2
  <2> QED BY <2>1, <2>3
<1>11. \A i, j \in 1..n : i < j => Precedes(s[i], s[j]) /\ s[i] # s[j]
  <2> SUFFICES ASSUME NEW i \in 1..n, NEW j \in 1..n, i < j PROVE Precedes(s[i], s[j]) /\ s[i] # s[j]
    OBVIOUS
  <2> HIDE DEF s, n
  <2>1. s[i] \in S /\ s[j] \in S /\ Rank(S, s[i]) = i /\ Rank(S, s[j]) = j BY <1>8
  <2>2. s[i] # s[j] BY <2>1
  <2>3. s[i] \in Name /\ s[j] \in Name BY <2>1
  <2>4. ~Precedes(s[j], s[i])
    <3> SUFFICES ASSUME Precedes(s[j], s[i]) PROVE FALSE OBVIOUS
    <3>1. j < i BY <2>1, <2>2, RankGrows
    <3> QED BY <3>1
  <2> QED BY <2>2, <2>3, <2>4, PrecedesTotal
<1> HIDE DEF s
<1> QED BY <1>9, <1>10, <1>11 DEF s

-----------------------------------------------------------------------------
\* A recursion on the naturals up to n, each from one that is less, has a solution.
Solves(f, n, L, a, next, prev) ==
  f \in [0..n -> L] /\ f[0] = a /\ \A k \in 1..n : f[k] = next[k][f[prev[k]]]

LEMMA RecursionSolved ==
  ASSUME NEW n \in Nat, NEW L, NEW a \in L, NEW next \in [1..n -> [L -> L]], NEW prev,
         \A k \in 1..n : prev[k] \in 0..k - 1
  PROVE  \E f : Solves(f, n, L, a, next, prev)
<1> DEFINE Upto(m) == \E f \in [0..m -> L] : f[0] = a /\ \A k \in 1..m : f[k] = next[k][f[prev[k]]]
           T == {m \in Nat : m <= n => Upto(m)}
<1>1. Upto(0)
  <2> DEFINE f == [k \in 0..0 |-> a]
  <2>1. f \in [0..0 -> L] /\ f[0] = a OBVIOUS
  <2>2. \A k \in 1..0 : FALSE OBVIOUS
  <2> HIDE DEF f
  <2> QED BY <2>1, <2>2
<1>2. ASSUME NEW m \in Nat, m + 1 <= n, Upto(m) PROVE Upto(m + 1)
  <2>1. PICK f \in [0..m -> L] : f[0] = a /\ \A k \in 1..m : f[k] = next[k][f[prev[k]]]
    BY <1>2
  <2> DEFINE last == next[m + 1][f[prev[m + 1]]]
             g == [k \in 0..m + 1 |-> IF k = m + 1 THEN last ELSE f[k]]
  <2>2. m + 1 \in 1..n /\ (m + 1) - 1 = m BY <1>2
  <2>3. prev[m + 1] \in 0..m BY <2>2
  <2>4. last \in L
    <3>1. f[prev[m + 1]] \in L BY <2>1, <2>3
    <3> QED BY <2>2, <3>1
  <2> HIDE DEF last
  <2>5. g \in [0..m + 1 -> L] /\ g[0] = a BY <2>1, <2>4
  <2>6. \A k \in 1..m + 1 : g[k] = next[k][g[prev[k]]]
    <3> TAKE k \in 1..m + 1
    <3>1. CASE k = m + 1
      <4>1. g[k] = last /\ g[prev[k]] = f[prev[k]] BY <2>3, <3>1
      <4> QED BY <3>1, <4>1 DEF last
    <3>2. CASE k # m + 1
      <4>1. k \in 1..m /\ k \in 1..n BY <1>2, <3>2
      <4>2. prev[k] \in 0..m BY <4>1
      <4>3. g[k] = f[k] /\ g[prev[k]] = f[prev[k]] BY <4>1, <4>2
      <4> QED BY <2>1, <4>1, <4>3
    <3> QED BY <3>1, <3>2
  <2> HIDE DEF g
  <2> QED BY <2>5, <2>6
<1> HIDE DEF Upto
<1>3. \A m \in Nat : m \in T
  <2>1. \A m \in Nat : (\A k \in Nat : k < m => k \in T) => m \in T
    <3> SUFFICES ASSUME NEW m \in Nat, \A k \in Nat : k < m => k \in T, m <= n PROVE Upto(m) OBVIOUS
    <3>1. CASE m = 0 BY <1>1, <3>1
    <3>2. CASE m # 0
      <4>1. m - 1 \in Nat /\ m - 1 < m /\ m - 1 <= n /\ (m - 1) + 1 = m BY <3>2
      <4>2. Upto(m - 1) BY <4>1
      <4> QED BY <1>2, <4>1, <4>2
    <3> QED BY <3>1, <3>2
  <2> HIDE DEF T
  <2> QED BY <2>1, EveryNatural
<1> QED BY <1>3 DEF Upto, Solves

-----------------------------------------------------------------------------
\* Offsets: what is read is what was written.
Byte == [c : Nat, more : BOOLEAN]
Digit(x) == x.c + IF x.more THEN 1 ELSE 0

LEMMA DigitIn == ASSUME NEW x \in Byte PROVE Digit(x) \in Nat
BY DEF Byte, Digit

Value(b, f) ==
  f[0] = 0 /\ \A k \in 1..Len(b) : f[k] = f[k - 1] * Radix + Digit(b[k])

LEMMA VarintIs ==
  ASSUME NEW b \in Seq(Byte)
  PROVE  \E f \in [0..Len(b) -> Nat] : Value(b, f) /\ varint(b) = f[Len(b)]
<1> DEFINE n == Len(b)
           body(f) == [i \in 0..n |->
                         IF i = 0 THEN 0
                         ELSE f[i - 1] * Radix + b[i].c + IF b[i].more THEN 1 ELSE 0]
           value == CHOOSE f : f = body(f)
           next == [k \in 1..n |-> [v \in Nat |-> v * Radix + Digit(b[k])]]
           prev == [k \in 1..n |-> k - 1]
<1>1. n \in Nat /\ Radix \in Nat /\ \A k \in 1..n : b[k] \in Byte /\ Digit(b[k]) \in Nat
  <2>1. n \in Nat /\ \A k \in 1..n : b[k] \in Byte OBVIOUS
  <2> QED BY <2>1, DigitIn, BytesAssumption
<1>2. next \in [1..n -> [Nat -> Nat]]
  <2>1. \A k \in 1..n : \A v \in Nat : v * Radix + Digit(b[k]) \in Nat BY <1>1
  <2> QED BY <2>1
<1>3. \A k \in 1..n : prev[k] \in 0..k - 1 BY <1>1
<1>4. PICK f : Solves(f, n, Nat, 0, next, prev)
  <2> HIDE DEF next, prev, n
  <2> QED BY <1>1, <1>2, <1>3, RecursionSolved
<1>5. \A k \in 1..n : f[k - 1] \in Nat /\ f[k] = f[k - 1] * Radix + Digit(b[k])
  <2> TAKE k \in 1..n
  <2>1. k - 1 \in 0..n BY <1>1
  <2>2. f[k - 1] \in Nat BY <1>4, <2>1 DEF Solves
  <2>3. f[k] = next[k][f[k - 1]] BY <1>4 DEF Solves
  <2> QED BY <2>2, <2>3
<1>6. \A k \in 1..n : \A v \in Nat :
        v * Radix + Digit(b[k]) = v * Radix + b[k].c + IF b[k].more THEN 1 ELSE 0
  <2> TAKE k \in 1..n
  <2> TAKE v \in Nat
  <2>1. b[k].c \in Nat BY <1>1 DEF Byte
  <2>2. v * Radix \in Nat BY <1>1
  <2> QED BY <2>1, <2>2 DEF Digit
<1>7. f = body(f)
  <2>1. \A k \in 0..n : k = 0 \/ k \in 1..n BY <1>1
  <2>2. \A k \in 0..n : f[k] = IF k = 0 THEN 0
                               ELSE f[k - 1] * Radix + b[k].c + IF b[k].more THEN 1 ELSE 0
    BY <1>4, <1>5, <1>6, <2>1 DEF Solves
  <2>3. f \in [0..n -> Nat] BY <1>4 DEF Solves
  <2> QED BY <2>2, <2>3
<1>8. value = body(value) BY <1>7
<1>9. varint(b) = value[n] BY DEF varint
<1> HIDE DEF value
<1>10. \A k \in 0..n : value[k] = IF k = 0 THEN 0
                                  ELSE value[k - 1] * Radix + b[k].c + IF b[k].more THEN 1 ELSE 0
  BY <1>8
<1>11. \A k \in Nat : k <= n => value[k] \in Nat
  <2> DEFINE T == {k \in Nat : k <= n => value[k] \in Nat}
  <2>1. \A k \in Nat : (\A m \in Nat : m < k => m \in T) => k \in T
    <3> SUFFICES ASSUME NEW k \in Nat, \A m \in Nat : m < k => m \in T, k <= n PROVE value[k] \in Nat
      OBVIOUS
    <3>1. CASE k = 0 BY <1>1, <1>10, <3>1
    <3>2. CASE k # 0
      <4>1. k \in 0..n /\ k \in 1..n /\ k - 1 \in Nat /\ k - 1 < k /\ k - 1 <= n BY <1>1, <3>2
      <4>2. value[k - 1] \in Nat BY <4>1
      <4>3. value[k] = value[k - 1] * Radix + Digit(b[k]) BY <1>6, <1>10, <3>2, <4>1, <4>2
      <4>4. value[k - 1] * Radix \in Nat BY <1>1, <4>2
      <4> QED BY <1>1, <4>1, <4>3, <4>4
    <3> QED BY <3>1, <3>2
  <2>2. \A k \in Nat : k \in T
    <3> HIDE DEF T
    <3> QED BY <2>1, EveryNatural
  <2> QED BY <2>2
<1>12. value \in [0..n -> Nat]
  <2>1. \A k \in 0..n : value[k] \in Nat BY <1>1, <1>11
  <2>2. value = [k \in 0..n |-> value[k]] BY <1>8
  <2> QED BY <2>1, <2>2
<1>13. Value(b, value)
  <2>1. 0 \in 0..n BY <1>1
  <2>2. ASSUME NEW k \in 1..n PROVE value[k] = value[k - 1] * Radix + Digit(b[k])
    <3>1. k \in 0..n /\ k # 0 /\ k - 1 \in 0..n BY <1>1
    <3>2. value[k - 1] \in Nat BY <1>12, <3>1
    <3> QED BY <1>6, <1>10, <3>1, <3>2
  <2> QED BY <1>10, <2>1, <2>2 DEF Value
<1> QED BY <1>9, <1>12, <1>13

LEMMA NoBytes == varint(<<>>) = 0
<1>1. <<>> \in Seq(Byte) /\ Len(<<>>) = 0 BY EmptySeq
<1>2. PICK f \in [0..Len(<<>>) -> Nat] : Value(<<>>, f) /\ varint(<<>>) = f[Len(<<>>)]
  BY <1>1, VarintIs
<1> QED BY <1>1, <1>2 DEF Value

LEMMA VarintAppend ==
  ASSUME NEW b \in Seq(Byte), NEW x \in Byte
  PROVE  varint(b) \in Nat /\ varint(Append(b, x)) = varint(b) * Radix + Digit(x)
<1> DEFINE n == Len(b)
           d == Append(b, x)
<1>1. n \in Nat OBVIOUS
<1>2. d \in Seq(Byte) /\ Len(d) = n + 1 /\ d[n + 1] = x /\ \A i \in 1..n : d[i] = b[i]
  BY AppendProperties
<1>3. PICK f \in [0..n -> Nat] : Value(b, f) /\ varint(b) = f[n] BY VarintIs
<1> HIDE DEF d
<1>4. PICK g \in [0..Len(d) -> Nat] : Value(d, g) /\ varint(d) = g[Len(d)] BY <1>2, VarintIs
<1>5. \A k \in Nat : k <= n => g[k] = f[k]
  <2> DEFINE T == {k \in Nat : k <= n => g[k] = f[k]}
  <2>1. \A k \in Nat : (\A m \in Nat : m < k => m \in T) => k \in T
    <3> SUFFICES ASSUME NEW k \in Nat, \A m \in Nat : m < k => m \in T, k <= n PROVE g[k] = f[k]
      OBVIOUS
    <3>1. CASE k = 0 BY <1>3, <1>4, <3>1 DEF Value
    <3>2. CASE k # 0
      <4>1. k \in 1..n /\ k \in 1..Len(d) /\ k - 1 \in Nat /\ k - 1 < k /\ k - 1 <= n
        BY <1>1, <1>2, <3>2
      <4>2. g[k - 1] = f[k - 1] BY <4>1
      <4>3. g[k] = g[k - 1] * Radix + Digit(d[k]) BY <1>4, <4>1 DEF Value
      <4>4. f[k] = f[k - 1] * Radix + Digit(b[k]) BY <1>3, <4>1 DEF Value
      <4> QED BY <1>2, <4>1, <4>2, <4>3, <4>4
    <3> QED BY <3>1, <3>2
  <2>2. \A k \in Nat : k \in T
    <3> HIDE DEF T
    <3> QED BY <2>1, EveryNatural
  <2> QED BY <2>2
<1>6. n + 1 \in 1..Len(d) /\ (n + 1) - 1 = n /\ n \in 0..n BY <1>1, <1>2
<1>7. g[n + 1] = g[n] * Radix + Digit(x)
  <2>1. g[n + 1] = g[(n + 1) - 1] * Radix + Digit(d[n + 1]) BY <1>4, <1>6 DEF Value
  <2> QED BY <1>2, <1>6, <2>1
<1>8. g[n] = f[n] /\ f[n] \in Nat BY <1>1, <1>3, <1>5, <1>6
<1> QED BY <1>2, <1>3, <1>4, <1>7, <1>8 DEF d

\* git's bytes, all with the mark that another follows.
More(d) == [c |-> d, more |-> TRUE]
Final(d) == [c |-> d, more |-> FALSE]

LEMMA BytesAre == ASSUME NEW d \in Nat PROVE More(d) \in Byte /\ Final(d) \in Byte
BY DEF More, Final, Byte

LEMMA DigitsAre == ASSUME NEW d \in Nat PROVE Digit(More(d)) = d + 1 /\ Digit(Final(d)) = d
BY DEF More, Final, Digit

LEMMA LastByte ==
  ASSUME NEW front \in Seq(Byte), NEW d \in Nat, NEW all, all = Append(front, More(d))
  PROVE  [all EXCEPT ![Len(all)].more = FALSE] = Append(front, Final(d))
<1> DEFINE n == Len(front)
           x == More(d)
           y == Final(d)
           t == Append(front, y)
<1>1. n \in Nat /\ x \in Byte /\ y \in Byte BY BytesAre
<1> DEFINE yes == TRUE
           no == FALSE
<1> HIDE DEF yes, no
<1>2. y = [x EXCEPT !.more = no]
  <2>1. \A e, u, w : [[c |-> e, more |-> u] EXCEPT !.more = w] = [c |-> e, more |-> w] OBVIOUS
  <2>2. x = [c |-> d, more |-> yes] /\ y = [c |-> d, more |-> no] BY DEF More, Final, yes, no
  <2> HIDE DEF x, y
  <2> QED BY <2>1, <2>2
<1> HIDE DEF x, y
<1>3. all \in Seq(Byte) /\ Len(all) = n + 1 /\ all[n + 1] = x /\ \A i \in 1..n : all[i] = front[i]
  BY <1>1, AppendProperties DEF x
<1>4. t \in Seq(Byte) /\ Len(t) = n + 1 /\ t[n + 1] = y /\ \A i \in 1..n : t[i] = front[i]
  BY <1>1, AppendProperties
<1> DEFINE r == [all EXCEPT ![n + 1] = y]
<1>5. [all EXCEPT ![Len(all)].more = no] = r BY <1>2, <1>3
<1>6. r \in Seq(Byte) /\ Len(r) = n + 1 /\ \A i \in 1..n + 1 : r[i] = IF i = n + 1 THEN y ELSE all[i]
  <2>1. n + 1 \in 1..Len(all) BY <1>1, <1>3
  <2> DEFINE m == n + 1
  <2>2. m \in 1..Len(all) /\ r = [all EXCEPT ![m] = y] BY <2>1
  <2> HIDE DEF n, r, m
  <2>3. all \in [1..Len(all) -> Byte] BY <1>3, LenProperties
  <2>4. r \in [1..Len(all) -> Byte] /\ \A j \in 1..Len(all) : r[j] = IF j = m THEN y ELSE all[j]
    BY <1>1, <2>2, <2>3
  <2>5. Len(all) \in Nat BY <1>3
  <2>6. r \in Seq(Byte) /\ Len(r) = Len(all) BY <2>4, <2>5
  <2> QED BY <1>3, <2>4, <2>6 DEF m
<1> HIDE DEF r, t
<1>7. \A i \in 1..n + 1 : i = n + 1 \/ i \in 1..n BY <1>1
<1>8. \A i \in 1..n + 1 : r[i] = t[i] BY <1>3, <1>4, <1>6, <1>7
<1>9. r = t BY <1>4, <1>6, <1>8, SeqEqual
<1> QED BY <1>5, <1>9 DEF t, y, no

LEMMA Divided ==
  ASSUME NEW v \in Nat, NEW r \in Nat \ {0, 1}, v >= r
  PROVE  v \div r - 1 \in 0..v - 1 /\ v % r \in Nat
         /\ ((v \div r - 1) + 1) * r + ((v % r) + 1) = v + 1
OBVIOUS

LEMMA VarintWritten == ASSUME NEW value \in Nat PROVE varint(WriteVarint(value)) = value
<1> DEFINE L == Seq(Byte)
           body(f) == [v \in 0..value |->
                         IF v < Radix THEN <<[c |-> v, more |-> TRUE]>>
                         ELSE Append(f[v \div Radix - 1], [c |-> v % Radix, more |-> TRUE])]
           bytes == CHOOSE f : f = body(f)
           all == bytes[value]
           next == [v \in 1..value |-> [l \in L |-> IF v < Radix THEN <<More(v)>>
                                                    ELSE Append(l, More(v % Radix))]]
           prev == [v \in 1..value |-> IF v < Radix THEN 0 ELSE v \div Radix - 1]
<1>1. Radix \in Nat /\ Radix \in Nat \ {0, 1} BY BytesAssumption
<1>2. \A v \in Nat : v >= Radix => /\ v \div Radix - 1 \in 0..v - 1 /\ v % Radix \in Nat
                                   /\ ((v \div Radix - 1) + 1) * Radix + ((v % Radix) + 1) = v + 1
  BY <1>1, Divided
<1>3. \A v \in Nat : v < Radix \/ v >= Radix BY <1>1
<1>4. \A v \in Nat : <<More(v)>> \in L /\ \A l \in L : Append(l, More(v)) \in L
  BY BytesAre, AppendProperties
<1>5. next \in [1..value -> [L -> L]]
  <2>1. \A v \in 1..value : \A l \in L :
          (IF v < Radix THEN <<More(v)>> ELSE Append(l, More(v % Radix))) \in L
    BY <1>2, <1>3, <1>4
  <2> HIDE DEF L
  <2> QED BY <2>1
<1>6. \A v \in 1..value : prev[v] \in 0..v - 1 BY <1>2, <1>3
<1>7. PICK f : Solves(f, value, L, <<More(0)>>, next, prev)
  <2>1. <<More(0)>> \in L BY <1>4
  <2> HIDE DEF next, prev, L
  <2> QED BY <1>5, <1>6, <2>1, RecursionSolved
<1>8. f = body(f)
  <2>1. ASSUME NEW v \in 0..value
        PROVE  f[v] = IF v < Radix THEN <<More(v)>> ELSE Append(f[v \div Radix - 1], More(v % Radix))
    <3>1. CASE v = 0
      <4>1. 0 < Radix BY <1>1
      <4> QED BY <1>7, <3>1, <4>1 DEF Solves
    <3>2. CASE v # 0
      <4>1. v \in 1..value /\ v \in Nat BY <3>2
      <4>2. prev[v] \in 0..v - 1 BY <1>6, <4>1
      <4>3. prev[v] \in 0..value BY <4>1, <4>2
      <4> HIDE DEF L
      <4>4. f[prev[v]] \in L /\ f[v] = next[v][f[prev[v]]] BY <1>7, <4>1, <4>3 DEF Solves
      <4>5. f[v] = IF v < Radix THEN <<More(v)>> ELSE Append(f[prev[v]], More(v % Radix))
        BY <4>1, <4>4
      <4>6. ~(v < Radix) => prev[v] = v \div Radix - 1 BY <4>1
      <4> HIDE DEF prev, next
      <4> QED BY <4>5, <4>6
    <3> QED BY <3>1, <3>2
  <2>2. f \in [0..value -> L] BY <1>7 DEF Solves
  <2> HIDE DEF L
  <2> QED BY <2>1, <2>2 DEF More
<1>9. bytes = body(bytes) BY <1>8
<1>10. WriteVarint(value) = [all EXCEPT ![Len(all)].more = FALSE] BY DEF WriteVarint
<1> HIDE DEF bytes
<1>11. \A v \in 0..value :
         bytes[v] = IF v < Radix THEN <<More(v)>> ELSE Append(bytes[v \div Radix - 1], More(v % Radix))
  BY <1>9 DEF More
<1> DEFINE Right(b, v) == varint(b) = v + 1 /\ \E front \in L, d \in Nat : b = Append(front, More(d))
<1>12. \A v \in Nat : v <= value => Right(bytes[v], v)
  <2> DEFINE T == {v \in Nat : v <= value => Right(bytes[v], v)}
  <2>1. ASSUME NEW v \in Nat, \A m \in Nat : m < v => m \in T, v <= value PROVE Right(bytes[v], v)
    <3>1. v \in 0..value BY <2>1
    <3>2. CASE v < Radix
      <4>1. bytes[v] = <<More(v)>> BY <1>11, <3>1, <3>2
      <4>2. <<>> \in L /\ <<More(v)>> = Append(<<>>, More(v)) OBVIOUS
      <4>3. varint(Append(<<>>, More(v))) = 0 * Radix + Digit(More(v))
        BY <4>2, VarintAppend, NoBytes, BytesAre
      <4>4. varint(bytes[v]) = v + 1 BY <1>1, <4>1, <4>2, <4>3, DigitsAre
      <4> QED BY <4>1, <4>2, <4>4
    <3>3. CASE v >= Radix
      <4> DEFINE u == v \div Radix - 1
                 d == v % Radix
      <4>1. u \in 0..v - 1 /\ d \in Nat /\ (u + 1) * Radix + (d + 1) = v + 1 BY <1>2, <3>3
      <4>2. bytes[v] = Append(bytes[u], More(d))
        <5>1. ~(v < Radix) BY <1>1, <3>3
        <5> QED BY <1>11, <3>1, <5>1
      <4> HIDE DEF u, d
      <4>3. Right(bytes[u], u)
        <5>1. u \in Nat /\ u < v /\ u <= value BY <2>1, <4>1
        <5> HIDE DEF Right
        <5> QED BY <2>1, <5>1
      <4>4. PICK front \in L, e \in Nat : bytes[u] = Append(front, More(e)) BY <4>3
      <4>5. bytes[u] \in L BY <1>4, <4>4
      <4>6. varint(bytes[v]) = varint(bytes[u]) * Radix + Digit(More(d))
        BY <4>1, <4>2, <4>5, VarintAppend, BytesAre
      <4>7. varint(bytes[v]) = (u + 1) * Radix + (d + 1) BY <4>1, <4>3, <4>6, DigitsAre
      <4> QED BY <4>1, <4>2, <4>5, <4>7
    <3> QED BY <1>3, <3>2, <3>3
  <2>2. \A v \in Nat : (\A m \in Nat : m < v => m \in T) => v \in T BY <2>1
  <2>3. \A v \in Nat : v \in T
    <3> HIDE DEF T
    <3> QED BY <2>2, EveryNatural
  <2> QED BY <2>3
<1>13. PICK front \in L, d \in Nat : all = Append(front, More(d))
  <2>1. value <= value OBVIOUS
  <2> QED BY <1>12, <2>1
<1>14. varint(all) = value + 1 BY <1>12
<1> HIDE DEF all
<1>15. WriteVarint(value) = Append(front, Final(d)) BY <1>10, <1>13, LastByte
<1>16. varint(front) \in Nat /\ varint(all) = varint(front) * Radix + (d + 1)
  BY <1>13, VarintAppend, BytesAre, DigitsAre
<1>17. varint(Append(front, Final(d))) = varint(front) * Radix + d
  BY VarintAppend, BytesAre, DigitsAre
<1>18. varint(front) * Radix \in Nat BY <1>1, <1>16
<1>19. varint(Append(front, Final(d))) = value BY <1>14, <1>16, <1>17, <1>18
<1> QED BY <1>15, <1>19

-----------------------------------------------------------------------------
\* Entries: the names that are read are those that were written.
LEMMA CommonIs ==
  ASSUME NEW s \in Name, NEW t \in Name
  PROVE  Common(s, t) \in 0..Len(s) /\ Common(s, t) <= Len(t) /\ Agree(s, t, Common(s, t))
<1> DEFINE S == {n \in 0..Len(s) : Starts(t, SubSeq(s, 1, n))}
<1>1. Len(s) \in Nat /\ Len(t) \in Nat BY NameFacts
<1>2. ASSUME NEW n \in 0..Len(s) PROVE Starts(t, SubSeq(s, 1, n)) <=> n <= Len(t) /\ Agree(s, t, n)
  <2> DEFINE p == SubSeq(s, 1, n)
  <2>1. p \in Name /\ Len(p) = n /\ \A i \in 1..n : p[i] = s[i] BY PrefixFacts
  <2> HIDE DEF p
  <2>2. Starts(t, p) <=> n <= Len(t) /\ \A i \in 1..n : t[i] = p[i] BY <2>1, StartsIs
  <2>3. n <= Len(s) BY <1>1
  <2>4. Starts(t, p) <=> n <= Len(t) /\ Agree(s, t, n) BY <2>1, <2>2, <2>3 DEF Agree
  <2> QED BY <2>4 DEF p
<1>3. 0 \in S
  <2>1. 0 \in 0..Len(s) /\ 0 <= Len(t) /\ Agree(s, t, 0) BY <1>1 DEF Agree
  <2> QED BY <1>2, <2>1
<1>4. PICK n \in S : \A m \in S : m <= n
  <2>1. S \subseteq 0..Len(s) /\ S # {} BY <1>3
  <2> HIDE DEF S
  <2> QED BY <1>1, <2>1, GreatestNatural
<1>5. \A k \in n + 1..Len(s) : ~Starts(t, SubSeq(s, 1, k))
  <2> SUFFICES ASSUME NEW k \in n + 1..Len(s), Starts(t, SubSeq(s, 1, k)) PROVE FALSE OBVIOUS
  <2>1. n \in Nat /\ k \in Nat /\ k \in 0..Len(s) /\ n < k BY <1>1, <1>4
  <2>2. k \in S BY <2>1
  <2>3. k <= n BY <1>4, <2>2
  <2> QED BY <2>1, <2>3
<1>6. Common(s, t) \in 0..Len(s) /\ Starts(t, SubSeq(s, 1, Common(s, t)))
  <2> DEFINE Longest(m) == /\ Starts(t, SubSeq(s, 1, m))
                           /\ \A k \in m + 1..Len(s) : ~Starts(t, SubSeq(s, 1, k))
  <2>1. n \in 0..Len(s) /\ Longest(n) BY <1>4, <1>5
  <2>2. Common(s, t) = CHOOSE m \in 0..Len(s) : Longest(m) BY DEF Common
  <2>3. Common(s, t) \in 0..Len(s) /\ Longest(Common(s, t)) BY <2>1, <2>2
  <2> QED BY <2>3
<1> QED BY <1>2, <1>6

LEMMA CutAndRest ==
  ASSUME NEW p \in Name, NEW q \in Name, NEW c, c = Common(p, q)
  PROVE  /\ Len(p) - c \in Nat
         /\ SubSeq(p, 1, Len(p) - (Len(p) - c)) \o SubSeq(q, c + 1, Len(q)) = q
<1>1. Len(p) \in Nat /\ Len(q) \in Nat BY NameFacts
<1>2. c \in 0..Len(p) /\ c <= Len(q) /\ Agree(p, q, c) BY CommonIs
<1>3. c \in Nat /\ Len(p) - c \in Nat /\ Len(p) - (Len(p) - c) = c BY <1>1, <1>2
<1>4. SubSeq(p, 1, c) = SubSeq(q, 1, c) BY <1>2, SamePrefix
<1>5. SubSeq(q, 1, c) \o SubSeq(q, c + 1, Len(q)) = SubSeq(q, 1, Len(q))
  <2>1. 1 \in 1..Len(q) + 1 /\ c \in 1 - 1..Len(q) /\ Len(q) \in c..Len(q) BY <1>1, <1>2
  <2>2. q \in Seq(Nat) BY DEF Name
  <2> QED BY <2>1, <2>2, ConcatAdjacentSubSeq
<1>6. SubSeq(q, 1, Len(q)) = q
  <2>1. q \in Seq(Nat) BY DEF Name
  <2> QED BY <2>1, SubSeqFull
<1> QED BY <1>3, <1>4, <1>5, <1>6

LEMMA NamesRead ==
  ASSUME NEW paths \in Seq(Name), NEW f, f.entries = WriteEntries(paths, f.version)
  PROVE  NamesOf(f) = paths
<1> DEFINE n == Len(paths)
           E == f.entries
           Prev(i) == IF i = 1 THEN <<>> ELSE paths[i - 1]
           body(g) == [i \in 0..Len(E) |->
                         IF i = 0 THEN <<>>
                         ELSE IF f.version # 4 THEN E[i].rest
                         ELSE SubSeq(g[i - 1], 1, Len(g[i - 1]) - varint(E[i].cut)) \o E[i].rest]
           name == CHOOSE g : g = body(g)
           N == [i \in 0..n |-> IF i = 0 THEN <<>> ELSE paths[i]]
<1>1. n \in Nat /\ DOMAIN paths = 1..n /\ (\A i \in 1..n : paths[i] \in Name) OBVIOUS
<1>2. \A i \in 1..n : Prev(i) \in Name
  <2> TAKE i \in 1..n
  <2>1. CASE i = 1
    <3>1. <<>> \in Name BY EmptySeq DEF Name
    <3> QED BY <2>1, <3>1
  <2>2. CASE i # 1
    <3>1. i - 1 \in 1..n BY <1>1, <2>2
    <3> QED BY <1>1, <2>2, <3>1
  <2> QED BY <2>1, <2>2
<1>3. DOMAIN E = 1..n /\ Len(E) = n
  <2>1. DOMAIN E = 1..n BY <1>1 DEF WriteEntries
  <2>2. E = [i \in 1..n |-> E[i]] BY <1>1 DEF WriteEntries
  <2> HIDE DEF E, n
  <2> QED BY <1>1, <2>1, <2>2
<1>4. \A i \in 1..n : f.version # 4 => E[i].rest = paths[i] BY <1>1 DEF WriteEntries
<1>5. ASSUME NEW i \in 1..n, f.version = 4
      PROVE  SubSeq(Prev(i), 1, Len(Prev(i)) - varint(E[i].cut)) \o E[i].rest = paths[i]
  <2> DEFINE p == Prev(i)
             q == paths[i]
             c == Common(p, q)
             cut == WriteVarint(Len(p) - c)
             rest == SubSeq(q, c + 1, Len(q))
  <2>1. E[i] = [cut |-> cut, rest |-> rest] BY <1>1, <1>5 DEF WriteEntries
  <2> HIDE DEF cut, rest
  <2>2. E[i].cut = cut /\ E[i].rest = rest BY <2>1
  <2>3. p \in Name /\ q \in Name BY <1>1, <1>2
  <2> HIDE DEF p, q, c, E
  <2>4. Len(p) - c \in Nat /\ SubSeq(p, 1, Len(p) - (Len(p) - c)) \o rest = q
    BY <2>3, CutAndRest DEF c, rest
  <2>5. varint(cut) = Len(p) - c BY <2>4, VarintWritten DEF cut
  <2>6. SubSeq(p, 1, Len(p) - varint(E[i].cut)) \o E[i].rest = q BY <2>2, <2>4, <2>5
  <2> QED BY <2>6 DEF p, q
<1> HIDE DEF E
<1>6. N = body(N)
  <2>1. ASSUME NEW i \in 0..n
        PROVE  N[i] = IF i = 0 THEN <<>>
                      ELSE IF f.version # 4 THEN E[i].rest
                      ELSE SubSeq(N[i - 1], 1, Len(N[i - 1]) - varint(E[i].cut)) \o E[i].rest
    <3>1. CASE i = 0 BY <1>1, <3>1
    <3>2. CASE i # 0
      <4>1. i \in 1..n /\ i - 1 \in 0..n BY <1>1, <3>2
      <4>2. N[i] = paths[i] BY <3>2
      <4>3. N[i - 1] = Prev(i) BY <4>1
      <4> HIDE DEF N, Prev
      <4> QED BY <1>4, <1>5, <3>2, <4>1, <4>2, <4>3
    <3> QED BY <3>1, <3>2
  <2>2. N = [i \in 0..n |-> N[i]] OBVIOUS
  <2> HIDE DEF N
  <2>3. 0..n = 0..Len(E) BY <1>3
  <2> QED BY <2>1, <2>2, <2>3
<1>7. name = body(name) BY <1>6
<1>8. NamesOf(f) = [i \in DOMAIN E |-> name[i]] BY DEF NamesOf, E
<1> HIDE DEF name, N
<1>9. \A i \in 0..n : name[i] = IF i = 0 THEN <<>>
                                ELSE IF f.version # 4 THEN E[i].rest
                                ELSE SubSeq(name[i - 1], 1, Len(name[i - 1]) - varint(E[i].cut)) \o E[i].rest
  BY <1>3, <1>7
<1>10. \A k \in Nat : k <= n => name[k] = N[k]
  <2> DEFINE T == {k \in Nat : k <= n => name[k] = N[k]}
  <2>1. \A k \in Nat : (\A m \in Nat : m < k => m \in T) => k \in T
    <3> SUFFICES ASSUME NEW k \in Nat, \A m \in Nat : m < k => m \in T, k <= n PROVE name[k] = N[k]
      OBVIOUS
    <3>1. CASE k = 0
      <4>1. 0 \in 0..n BY <1>1
      <4> QED BY <1>9, <3>1, <4>1 DEF N
    <3>2. CASE k # 0
      <4>1. k \in 1..n /\ k \in 0..n /\ k - 1 \in Nat /\ k - 1 \in 0..n /\ k - 1 < k /\ k - 1 <= n
        BY <1>1, <3>2
      <4>2. name[k - 1] = N[k - 1] BY <4>1
      <4>3. N[k] = paths[k] /\ N[k - 1] = Prev(k) BY <3>2, <4>1 DEF N
      <4>4. name[k] = IF f.version # 4 THEN E[k].rest
                      ELSE SubSeq(name[k - 1], 1, Len(name[k - 1]) - varint(E[k].cut)) \o E[k].rest
        BY <1>9, <3>2, <4>1
      <4> HIDE DEF Prev
      <4>5. CASE f.version # 4 BY <1>4, <4>1, <4>3, <4>4, <4>5
      <4>6. CASE f.version = 4
        <5>1. SubSeq(Prev(k), 1, Len(Prev(k)) - varint(E[k].cut)) \o E[k].rest = paths[k]
          BY <1>5, <4>1, <4>6
        <5>2. name[k - 1] = Prev(k) BY <4>2, <4>3
        <5> QED BY <4>3, <4>4, <4>6, <5>1, <5>2
      <4> QED BY <4>5, <4>6
    <3> QED BY <3>1, <3>2
  <2>2. \A k \in Nat : k \in T
    <3> HIDE DEF T
    <3> QED BY <2>1, EveryNatural
  <2> QED BY <2>2
<1>11. \A i \in 1..n : name[i] = paths[i] BY <1>1, <1>10 DEF N
<1>12. paths = [i \in 1..n |-> paths[i]] OBVIOUS
<1>13. NamesOf(f) = [i \in 1..n |-> paths[i]] BY <1>3, <1>8, <1>11
<1> QED BY <1>12, <1>13

-----------------------------------------------------------------------------
\* Bitmaps: the positions that are read as deleted are those that were written.
LEMMA WordFacts ==
  ASSUME NEW q \in Nat
  PROVE  /\ q \div WordBits \in Nat /\ q % WordBits \in 0..WordBits - 1
         /\ q = (q \div WordBits) * WordBits + (q % WordBits)
BY BytesAssumption

LEMMA InWord ==
  ASSUME NEW D, NEW n \in Nat, NEW q \in Nat
  PROVE  q % WordBits \in WordOf(D, n + (q \div WordBits)) <=> n * WordBits + q \in D
<1> DEFINE k == q \div WordBits
           r == q % WordBits
<1>1. WordBits \in Nat /\ k \in Nat /\ r \in 0..WordBits - 1 /\ q = k * WordBits + r
  BY WordFacts, BytesAssumption
<1> HIDE DEF k, r
<1>2. (n + k) * WordBits + r = n * WordBits + q BY <1>1
<1>3. r \in WordOf(D, n + k) <=> (n + k) * WordBits + r \in D BY <1>1 DEF WordOf
<1> QED BY <1>2, <1>3 DEF k, r

LEMMA WordsHold ==
  ASSUME NEW bits \in Nat
  PROVE  Words(bits) \in Nat /\ bits <= Words(bits) * WordBits
<1>1. \A w \in Nat \ {0} : (bits + w - 1) \div w \in Nat /\ bits <= ((bits + w - 1) \div w) * w
  OBVIOUS
<1> QED BY <1>1, BytesAssumption DEF Words

LEMMA EwahIs ==
  ASSUME NEW b, NEW m, b.markers = <<m>>
  PROVE  ewah(b) =
           (IF m.ones /\ 0 < Smaller(0 + WordBits * m.run, b.bits)
              THEN {<<0, Smaller(0 + WordBits * m.run, b.bits)>>} ELSE {})
           \cup {<<0 + WordBits * m.run + p, 0 + WordBits * m.run + p + 1>> :
                   p \in {q \in 0..WordBits * Len(m.literals) - 1 :
                            q % WordBits \in m.literals[(q \div WordBits) + 1]}}
<1> DEFINE M == b.markers
           body(g) == [i \in 1..Len(M) + 1 |->
                         IF i = 1 THEN 0 ELSE g[i - 1] + WordBits * (M[i - 1].run + Len(M[i - 1].literals))]
           begins == CHOOSE g : g = body(g)
           size == WordBits * (m.run + Len(m.literals))
           G == [i \in 1..2 |-> IF i = 1 THEN 0 ELSE 0 + size]
           runs(i) ==
             LET w == M[i]
                 end == begins[i] + WordBits * w.run IN
             (IF w.ones /\ begins[i] < Smaller(end, b.bits) THEN {<<begins[i], Smaller(end, b.bits)>>} ELSE {})
             \cup {<<end + p, end + p + 1>> :
                     p \in {q \in 0..WordBits * Len(w.literals) - 1 :
                              q % WordBits \in w.literals[(q \div WordBits) + 1]}}
<1>1. Len(M) = 1 /\ M[1] = m /\ DOMAIN M = {1}
  <2>1. M = <<m>> OBVIOUS
  <2> QED BY <2>1
<1> HIDE DEF M
<1>2. 1..Len(M) + 1 = 1..2 BY <1>1
<1>3. G = body(G)
  <2>1. ASSUME NEW i \in 1..2
        PROVE  G[i] = IF i = 1 THEN 0 ELSE G[i - 1] + WordBits * (M[i - 1].run + Len(M[i - 1].literals))
    <3>1. CASE i = 1 BY <3>1
    <3>2. CASE i # 1
      <4>1. i = 2 /\ i - 1 = 1 BY <3>2
      <4>2. G[1] = 0 /\ G[2] = 0 + size
        <5> HIDE DEF size
        <5> QED OBVIOUS
      <4> QED BY <1>1, <4>1, <4>2
    <3> QED BY <3>1, <3>2
  <2>2. G = [i \in 1..2 |-> G[i]] OBVIOUS
  <2> HIDE DEF G
  <2> QED BY <1>2, <2>1, <2>2
<1>4. begins = body(begins) BY <1>3
<1>5. ewah(b) = UNION {runs(i) : i \in DOMAIN M} BY DEF ewah, M
<1> HIDE DEF begins
<1>6. begins[1] = 0
  <2>1. 1 \in 1..2 OBVIOUS
  <2> QED BY <1>2, <1>4, <2>1
<1>7. UNION {runs(i) : i \in DOMAIN M} = runs(1)
  <2> HIDE DEF runs
  <2> QED BY <1>1
<1>8. ewah(b) = runs(1) BY <1>5, <1>7
<1> QED BY <1>1, <1>6, <1>8

\* What Markers makes of D.
LEMMA MarkerIs ==
  ASSUME NEW D, NEW words \in Nat, NEW m \in Markers(D, words)
  PROVE  /\ m.run \in 0..words /\ Len(m.literals) = words - m.run
         /\ \A w \in 1..words - m.run : m.literals[w] = WordOf(D, m.run + w - 1)
<1>1. PICK word \in {{}, Ones}, n \in 0..words :
        m = [ones |-> word = Ones, run |-> n,
             literals |-> [w \in 1..words - n |-> WordOf(D, n + w - 1)]]
  BY DEF Markers
<1> DEFINE l == [w \in 1..words - n |-> WordOf(D, n + w - 1)]
<1>2. m.run = n /\ m.literals = l BY <1>1
<1>3. words - n \in Nat OBVIOUS
<1>4. Len(l) = words - n BY <1>3
<1>5. \A w \in 1..words - n : l[w] = WordOf(D, n + w - 1) OBVIOUS
<1> HIDE DEF l
<1> QED BY <1>2, <1>4, <1>5

LEMMA BitmapRead ==
  ASSUME NEW bits \in Nat, NEW D, D \subseteq 0..bits - 1, NEW b \in Bitmaps(D, bits),
         NEW pos \in 0..bits - 1
  PROVE  Holds(ewah(b), pos) <=> pos \in D
<1> DEFINE words == Words(bits)
<1>1. words \in Nat /\ bits <= words * WordBits /\ WordBits \in Nat \ {0}
  BY WordsHold, BytesAssumption
<1>2. PICK m \in Markers(D, words) :
        /\ b = [bits |-> bits, markers |-> <<m>>]
        /\ \A w \in 0..m.run - 1 : WordOf(D, w) = IF m.ones THEN Ones ELSE {}
  BY DEF Bitmaps
<1> HIDE DEF words
<1>3. /\ m.run \in 0..words /\ Len(m.literals) = words - m.run
      /\ \A w \in 1..words - m.run : m.literals[w] = WordOf(D, m.run + w - 1)
  BY <1>1, <1>2, MarkerIs
<1>4. b.markers = <<m>> /\ b.bits = bits BY <1>2
<1> DEFINE n == m.run
           end == WordBits * n
           stop == Smaller(end, bits)
           Literal(q) == q % WordBits \in m.literals[(q \div WordBits) + 1]
           Q == {q \in 0..WordBits * (words - n) - 1 : Literal(q)}
           ones == IF m.ones /\ 0 < stop THEN {<<0, stop>>} ELSE {}
           others == {<<end + p, end + p + 1>> : p \in Q}
<1>5. n \in Nat /\ n <= words /\ words - n \in Nat /\ end \in Nat /\ 0 + WordBits * n = end
  BY <1>1, <1>3
<1>6. ewah(b) = ones \cup others
  <2>1. ewah(b) =
           (IF m.ones /\ 0 < Smaller(0 + WordBits * m.run, b.bits)
              THEN {<<0, Smaller(0 + WordBits * m.run, b.bits)>>} ELSE {})
           \cup {<<0 + WordBits * m.run + p, 0 + WordBits * m.run + p + 1>> :
                   p \in {q \in 0..WordBits * Len(m.literals) - 1 :
                            q % WordBits \in m.literals[(q \div WordBits) + 1]}}
    BY <1>4, EwahIs
  <2> QED BY <1>3, <1>4, <1>5, <2>1
<1>7. pos \in Nat /\ pos < bits /\ stop \in Nat /\ stop <= end /\ (pos < end => pos < stop)
  BY <1>5 DEF Smaller
<1>8. Holds(ewah(b), pos) <=> (m.ones /\ pos < stop) \/ \E p \in Q : pos = end + p
  <2> HIDE DEF stop, end, Q
  <2>1. (\E run \in ones : run[1] <= pos /\ pos < run[2]) <=> m.ones /\ pos < stop
    <3>1. CASE m.ones /\ 0 < stop
      <4>1. ones = {<<0, stop>>} BY <3>1
      <4> HIDE DEF ones
      <4>2. (\E run \in ones : run[1] <= pos /\ pos < run[2]) <=> 0 <= pos /\ pos < stop BY <4>1
      <4> QED BY <1>7, <3>1, <4>2
    <3>2. CASE ~(m.ones /\ 0 < stop)
      <4>1. ones = {} BY <3>2
      <4>2. ~(m.ones /\ pos < stop) BY <1>7, <3>2
      <4> HIDE DEF ones
      <4> QED BY <4>1, <4>2
    <3> QED BY <3>1, <3>2
  <2>2. (\E run \in others : run[1] <= pos /\ pos < run[2]) <=> \E p \in Q : pos = end + p
    <3>1. \A p \in Q : p \in Nat BY <1>1, <1>5 DEF Q
    <3>2. \A p \in Q : end + p <= pos /\ pos < end + p + 1 <=> pos = end + p
      BY <1>5, <1>7, <3>1
    <3>3. (\E run \in others : run[1] <= pos /\ pos < run[2])
            <=> \E p \in Q : end + p <= pos /\ pos < end + p + 1
      <4> DEFINE Run(p) == <<end + p, end + p + 1>>
      <4>1. \A p : Run(p)[1] = end + p /\ Run(p)[2] = end + p + 1 OBVIOUS
      <4>2. others = {Run(p) : p \in Q} OBVIOUS
      <4> HIDE DEF others, Run
      <4>3. (\E run \in others : run[1] <= pos /\ pos < run[2])
              <=> \E p \in Q : Run(p)[1] <= pos /\ pos < Run(p)[2]
        BY <4>2
      <4> QED BY <4>1, <4>3
    <3> QED BY <3>2, <3>3
  <2>3. Holds(ewah(b), pos) <=> \/ \E run \in ones : run[1] <= pos /\ pos < run[2]
                                \/ \E run \in others : run[1] <= pos /\ pos < run[2]
    <3> HIDE DEF ones, others
    <3> QED BY <1>6 DEF Holds
  <2> QED BY <2>1, <2>2, <2>3
<1>9. CASE pos < end
  <2> DEFINE w == pos \div WordBits
             r == pos % WordBits
  <2>1. w \in Nat /\ r \in 0..WordBits - 1 /\ pos = w * WordBits + r BY <1>7, WordFacts
  <2>2. w \in 0..n - 1
    <3> HIDE DEF w, r, n
    <3>1. w * WordBits < WordBits * n BY <1>1, <1>5, <1>7, <1>9, <2>1
    <3>2. w < n BY <1>1, <1>5, <2>1, <3>1
    <3> QED BY <1>5, <2>1, <3>2
  <2> HIDE DEF w, r
  <2>3. r \in WordOf(D, w) <=> pos \in D BY <2>1 DEF WordOf
  <2>4. WordOf(D, w) = IF m.ones THEN Ones ELSE {} BY <1>2, <2>2
  <2>5. r \in Ones BY <2>1 DEF Ones
  <2>6. m.ones <=> pos \in D BY <2>3, <2>4, <2>5
  <2>7. ~\E p \in Q : pos = end + p
    <3>1. \A p \in Q : p \in Nat BY <1>1, <1>5
    <3> HIDE DEF end, Q
    <3> QED BY <1>5, <1>7, <1>9, <3>1
  <2> HIDE DEF stop, end, Q
  <2> QED BY <1>7, <1>8, <1>9, <2>6, <2>7
<1>10. CASE end <= pos
  <2> DEFINE q == pos - end
             k == q \div WordBits
  <2>1. q \in Nat /\ pos = end + q BY <1>5, <1>7, <1>10
  <2>2. q < WordBits * (words - n)
    <3> HIDE DEF q, n
    <3>1. WordBits * n + q < words * WordBits BY <1>1, <1>5, <1>7, <2>1
    <3> QED BY <1>1, <1>5, <2>1, <3>1
  <2> HIDE DEF q
  <2>3. k \in Nat /\ k < words - n
    <3>1. k \in Nat /\ q % WordBits \in 0..WordBits - 1 /\ q = k * WordBits + (q % WordBits)
      BY <2>1, WordFacts
    <3> HIDE DEF k, n
    <3>2. k * WordBits < WordBits * (words - n) BY <1>1, <1>5, <2>1, <2>2, <3>1
    <3>3. k < words - n BY <1>1, <1>5, <3>1, <3>2
    <3> QED BY <3>1, <3>3
  <2>4. m.literals[k + 1] = WordOf(D, n + k)
    <3> HIDE DEF k
    <3>1. k + 1 \in 1..words - n /\ n + (k + 1) - 1 = n + k BY <1>5, <2>3
    <3> QED BY <1>3, <3>1
  <2>5. Literal(q) <=> n * WordBits + q \in D BY <1>5, <2>1, <2>4, InWord
  <2>6. n * WordBits + q = pos BY <1>1, <1>5, <2>1
  <2>7. q \in 0..WordBits * (words - n) - 1
    <3>1. WordBits * (words - n) \in Nat BY <1>1, <1>5
    <3> HIDE DEF n
    <3> QED BY <2>1, <2>2, <3>1
  <2>8. (\E p \in Q : pos = end + p) <=> pos \in D
    <3>1. q \in Q <=> pos \in D BY <2>5, <2>6, <2>7
    <3>2. \A p \in Q : p \in Nat BY <1>1, <1>5
    <3> HIDE DEF Q, end
    <3>3. \A p \in Q : pos = end + p => p = q BY <1>5, <2>1, <3>2
    <3> QED BY <2>1, <3>1, <3>3
  <2>9. ~(pos < stop)
    <3> HIDE DEF stop, end
    <3> QED BY <1>5, <1>7, <1>10
  <2> HIDE DEF stop, end, Q
  <2> QED BY <1>8, <2>8, <2>9
<1>11. pos < end \/ end <= pos
  <2> HIDE DEF end
  <2> QED BY <1>5, <1>7
<1> QED BY <1>9, <1>10, <1>11

-----------------------------------------------------------------------------
\* Letter case and the directory that is asked about.
LEMMA LowerFacts ==
  ASSUME NEW c \in Nat
  PROVE  Lower(c) \in Nat /\ (Lower(c) # c => c < Lower(c)) /\ (c \notin Upper => Lower(c) = c)
BY DEF Lower, Upper

LEMMA FoldFacts ==
  ASSUME NEW s \in Name
  PROVE  Fold(s) \in Name /\ Len(Fold(s)) = Len(s) /\ \A i \in 1..Len(s) : Fold(s)[i] = Lower(s[i])
<1> DEFINE n == Len(s)
           f == Fold(s)
<1>1. n \in Nat /\ DOMAIN s = 1..n /\ \A i \in 1..n : s[i] \in Nat /\ Lower(s[i]) \in Nat
  BY NameFacts, LowerFacts
<1>2. f = [i \in 1..n |-> Lower(s[i])] BY <1>1 DEF Fold
<1>3. f \in [1..n -> Nat] /\ \A i \in 1..n : f[i] = Lower(s[i]) BY <1>1, <1>2
<1> HIDE DEF f, n
<1>4. f \in Seq(Nat) /\ Len(f) = n BY <1>1, <1>3
<1> QED BY <1>3, <1>4 DEF Name, f, n

LEMMA SlashFacts == Slash \in Nat /\ Lower(Slash) = Slash /\ Slash \notin Upper
BY DEF Slash, Lower, Upper

LEMMA DirFacts ==
  /\ Dir \in Name /\ Len(Dir) \in Nat \ {0} /\ Dir[1] # Slash
  /\ \A i \in 1..Len(Dir) : Dir[i] \in Nat /\ Lower(Dir[i]) = Dir[i]
  /\ Below \in Name /\ Len(Below) = Len(Dir) + 1
  /\ \A i \in 1..Len(Dir) : Below[i] = Dir[i]
  /\ Below[Len(Dir) + 1] = Slash
  /\ \A i \in 1..Len(Below) : Below[i] \in Nat /\ Lower(Below[i]) = Below[i]
  /\ Fold(Dir) = Dir /\ Fold(Below) = Below
<1> DEFINE n == Len(Dir)
<1>1. Dir \in Seq(Nat) /\ Dir # <<>> /\ Dir[1] # Slash /\ Dir \in Name BY DirAssumption DEF Name
<1>2. n \in Nat \ {0} BY <1>1, EmptySeq
<1>3. \A i \in 1..n : Dir[i] \in Nat /\ Dir[i] \notin Upper BY <1>1, DirAssumption
<1>4. \A i \in 1..n : Lower(Dir[i]) = Dir[i] BY <1>3, LowerFacts
<1>5. <<Slash>> \in Seq(Nat) /\ Len(<<Slash>>) = 1 /\ <<Slash>>[1] = Slash BY SlashFacts
<1>6. /\ Below \in Seq(Nat) /\ Len(Below) = n + 1
      /\ \A i \in 1..n + 1 : Below[i] = IF i <= n THEN Dir[i] ELSE <<Slash>>[i - n]
  BY <1>1, <1>5, ConcatProperties DEF Below
<1>7. \A i \in 1..n : i \in 1..n + 1 /\ i <= n BY <1>2
<1>8. \A i \in 1..n : Below[i] = Dir[i] BY <1>6, <1>7
<1>9. Below[n + 1] = Slash
  <2>1. n + 1 \in 1..n + 1 /\ ~(n + 1 <= n) /\ (n + 1) - n = 1 BY <1>2
  <2> QED BY <1>5, <1>6, <2>1
<1>10. \A i \in 1..n + 1 : i \in 1..n \/ i = n + 1 BY <1>2
<1>11. \A i \in 1..n + 1 : Below[i] \in Nat /\ Lower(Below[i]) = Below[i]
  BY <1>3, <1>4, <1>8, <1>9, <1>10, SlashFacts
<1>12. Below \in Name BY <1>6 DEF Name
<1> HIDE DEF n
<1>13. Fold(Dir) = Dir
  <2>1. Fold(Dir) \in Name /\ Len(Fold(Dir)) = n /\ \A i \in 1..n : Fold(Dir)[i] = Dir[i]
    BY <1>1, <1>4, FoldFacts DEF n
  <2> QED BY <1>1, <2>1, SameNames DEF n
<1>14. Fold(Below) = Below
  <2>1. Fold(Below) \in Name /\ Len(Fold(Below)) = n + 1 /\ \A i \in 1..n + 1 : Fold(Below)[i] = Below[i]
    BY <1>6, <1>11, <1>12, FoldFacts
  <2> QED BY <1>6, <1>12, <2>1, SameNames
<1> QED BY <1>1, <1>2, <1>3, <1>4, <1>6, <1>8, <1>9, <1>11, <1>12, <1>13, <1>14 DEF n

\* The first n bytes of s are, in lowercase, those of t.
Folded(s, t, n) == n <= Len(s) /\ n <= Len(t) /\ \A i \in 1..n : Lower(s[i]) = t[i]

LEMMA FoldedIs ==
  ASSUME NEW s \in Name, NEW t \in Name
  PROVE  /\ Starts(Fold(s), t) <=> Folded(s, t, Len(t))
         /\ Starts(t, Fold(s)) <=> Folded(s, t, Len(s))
<1>1. Len(s) \in Nat /\ Len(t) \in Nat BY NameFacts
<1>2. Fold(s) \in Name /\ Len(Fold(s)) = Len(s) /\ \A i \in 1..Len(s) : Fold(s)[i] = Lower(s[i])
  BY FoldFacts
<1>3. Starts(Fold(s), t) <=> Len(t) <= Len(s) /\ \A i \in 1..Len(t) : Fold(s)[i] = t[i]
  BY <1>2, StartsIs
<1>4. Starts(t, Fold(s)) <=> Len(s) <= Len(t) /\ \A i \in 1..Len(s) : t[i] = Fold(s)[i]
  BY <1>2, StartsIs
<1>5. Len(t) <= Len(s) => \A i \in 1..Len(t) : i \in 1..Len(s) BY <1>1
<1>6. Len(t) <= Len(t) /\ Len(s) <= Len(s) BY <1>1
<1>7. Starts(Fold(s), t) <=> Folded(s, t, Len(t)) BY <1>2, <1>3, <1>5, <1>6 DEF Folded
<1>8. Starts(t, Fold(s)) <=> Folded(s, t, Len(s)) BY <1>2, <1>4, <1>6 DEF Folded
<1> QED BY <1>7, <1>8

\* scan.under's name with its slash.
Slashed(name) == IF name # <<>> /\ name[Len(name)] = Slash THEN name ELSE Append(name, Slash)

LEMMA SlashedFacts ==
  ASSUME NEW s \in Name
  PROVE  /\ Slashed(s) \in Name /\ Len(Slashed(s)) \in {Len(s), Len(s) + 1}
         /\ \A i \in 1..Len(s) : Slashed(s)[i] = s[i]
<1>1. s \in Seq(Nat) /\ Slash \in Nat BY SlashFacts DEF Name
<1>2. CASE s # <<>> /\ s[Len(s)] = Slash BY <1>2 DEF Slashed
<1>3. CASE ~(s # <<>> /\ s[Len(s)] = Slash)
  <2>1. Slashed(s) = Append(s, Slash) BY <1>3 DEF Slashed
  <2> QED BY <1>1, <2>1, AppendProperties DEF Name
<1> QED BY <1>2, <1>3

LEMMA UnderIs ==
  ASSUME NEW name \in Name
  PROVE  Under(name) <=> \/ Folded(name, Below, Len(Below))
                         \/ Folded(Slashed(name), Below, Len(Slashed(name)))
<1>1. Slashed(name) \in Name BY SlashedFacts
<1>2. Below \in Name /\ Fold(Below) = Below BY DirFacts
<1>3. Under(name) <=> Starts(Fold(name), Below) \/ Starts(Below, Fold(Slashed(name)))
  BY <1>2 DEF Under, Slashed
<1> QED BY <1>1, <1>2, <1>3, FoldedIs

\* A name that in lowercase goes on as Below does, to the end of one of the two, comes
\* before Below or begins with it.
LEMMA FoldedPrecedes ==
  ASSUME NEW t \in Name, NEW m \in Nat, Folded(t, Below, m), m = Len(t) \/ m = Len(Below)
  PROVE  Precedes(t, Below) \/ (m = Len(Below) /\ Agree(t, Below, m))
<1>1. Below \in Name /\ Len(t) \in Nat /\ Len(Below) \in Nat BY DirFacts, NameFacts
<1>2. m <= Len(t) /\ m <= Len(Below) /\ \A i \in 1..m : Lower(t[i]) = Below[i] BY DEF Folded
<1>3. PICK n \in Nat : /\ Agree(t, Below, n)
                       /\ \/ n = Len(t) \/ n = Len(Below)
                          \/ n < Len(t) /\ n < Len(Below) /\ t[n + 1] # Below[n + 1]
  BY <1>1, FirstDifference
<1>4. n <= Len(t) /\ n <= Len(Below) /\ \A i \in 1..n : t[i] = Below[i] BY <1>3 DEF Agree
<1>5. CASE n < m
  <2>1. n < Len(t) /\ n < Len(Below) /\ n + 1 \in 1..m /\ n + 1 \in 1..Len(t) BY <1>1, <1>2, <1>5
  <2>2. t[n + 1] # Below[n + 1] BY <1>1, <1>3, <2>1
  <2>3. Lower(t[n + 1]) = Below[n + 1] /\ t[n + 1] \in Nat BY <1>2, <2>1, NameFacts
  <2>4. t[n + 1] < Below[n + 1] BY <2>2, <2>3, LowerFacts
  <2>5. Cut(t, Below, n) BY <1>3, <2>1, <2>4 DEF Cut
  <2> QED BY <1>1, <2>5, PrecedesCut
<1>6. CASE m <= n
  <2>1. \A i \in 1..m : i \in 1..n BY <1>6
  <2>2. Agree(t, Below, m) BY <1>2, <1>4, <2>1 DEF Agree
  <2>3. CASE m = Len(t)
    <3>1. Cut(t, Below, m) BY <2>2, <2>3 DEF Cut
    <3> QED BY <1>1, <3>1, PrecedesCut
  <2> QED BY <2>2, <2>3
<1> QED BY <1>5, <1>6

\* Where the names are in order, a reader that has come past dir has missed nothing.
LEMMA EarlyStop ==
  ASSUME NEW s \in Name, NEW t \in Name, Under(t), ~Under(s), Precedes(s, t)
  PROVE  Precedes(s, Below)
<1>1. /\ Below \in Name /\ Len(Below) \in Nat /\ Len(s) \in Nat /\ Len(t) \in Nat
      /\ Slashed(t) \in Name /\ Len(Slashed(t)) \in Nat
  BY DirFacts, NameFacts, SlashedFacts
<1>2. CASE Precedes(t, Below) BY <1>1, <1>2, PrecedesTransitive
<1>3. CASE Agree(t, Below, Len(Below))
  <2> SUFFICES ASSUME Precedes(Below, s) PROVE FALSE BY <1>1, PrecedesTotal
  <2>1. PICK k \in Nat : Cut(Below, s, k) BY <1>1, PrecedesCut
  <2>2. CASE k = Len(Below)
    <3>1. Folded(s, Below, Len(Below)) BY <2>1, <2>2, DirFacts DEF Cut, Agree, Folded
    <3> QED BY <3>1, UnderIs
  <2>3. CASE k < Len(Below) /\ k < Len(s) /\ Below[k + 1] < s[k + 1]
    <3>1. k + 1 \in 1..Len(Below) /\ \A i \in 1..k : i \in 1..Len(Below) BY <1>1, <2>3
    <3>2. Len(Below) <= Len(t) /\ \A i \in 1..Len(Below) : t[i] = Below[i] BY <1>3 DEF Agree
    <3>3. k < Len(t) /\ k <= Len(t) /\ t[k + 1] < s[k + 1] BY <1>1, <2>3, <3>1, <3>2
    <3>4. Agree(t, s, k) BY <2>1, <3>1, <3>2, <3>3 DEF Cut, Agree
    <3>5. Cut(t, s, k) BY <2>3, <3>3, <3>4 DEF Cut
    <3>6. Precedes(t, s) BY <3>5, PrecedesCut
    <3>7. s = t BY <3>6, PrecedesAntisymmetric
    <3> QED BY <3>7
  <2> QED BY <2>1, <2>2, <2>3 DEF Cut
<1>4. CASE Folded(t, Below, Len(Below)) BY <1>1, <1>2, <1>3, <1>4, FoldedPrecedes
<1>5. CASE Folded(Slashed(t), Below, Len(Slashed(t)))
  <2>1. Len(t) <= Len(Slashed(t)) /\ \A i \in 1..Len(t) : i \in 1..Len(Slashed(t)) /\ Slashed(t)[i] = t[i]
    BY <1>1, SlashedFacts
  <2>2. Len(t) <= Len(t) /\ Len(t) <= Len(Below) BY <1>1, <1>5, <2>1 DEF Folded
  <2>3. Folded(t, Below, Len(t)) BY <1>5, <2>1, <2>2 DEF Folded
  <2> QED BY <1>1, <1>2, <1>3, <2>3, FoldedPrecedes
<1> QED BY <1>4, <1>5, UnderIs

LEMMA NotUnder == ~Under(<<>>)
<1>1. <<>> \in Name /\ Len(<<>>) = 0 BY EmptySeq DEF Name
<1>2. /\ Len(Below) \in Nat /\ 1 < Len(Below) /\ Below[1] # Slash /\ Lower(Slash) = Slash
  <2>1. 1 \in 1..Len(Dir) /\ Len(Dir) \in Nat \ {0} BY DirFacts
  <2> QED BY <2>1, DirFacts, SlashFacts
<1>3. ~Folded(<<>>, Below, Len(Below)) BY <1>1, <1>2 DEF Folded
<1>4. Slashed(<<>>) = <<Slash>> BY DEF Slashed
<1>5. Len(<<Slash>>) = 1 /\ <<Slash>>[1] = Slash OBVIOUS
<1>6. ~Folded(<<Slash>>, Below, 1) BY <1>2, <1>5 DEF Folded
<1> QED BY <1>1, <1>3, <1>4, <1>5, <1>6, UnderIs

\* A path without the slash it may end in.
Trunk(p) == IF p[Len(p)] = Slash THEN SubSeq(p, 1, Len(p) - 1) ELSE p

LEMMA TrunkFacts ==
  ASSUME NEW p \in Name, p # <<>>
  PROVE  LET u == Trunk(p) IN
         /\ u \in Name /\ Slashed(p) = Append(u, Slash)
         /\ Len(Slashed(p)) = Len(u) + 1
         /\ \A i \in 1..Len(u) : Slashed(p)[i] = u[i] /\ p[i] = u[i]
         /\ Slashed(p)[Len(u) + 1] = Slash
         /\ p = u \/ (Len(p) = Len(u) + 1 /\ p[Len(p)] = Slash)
<1> DEFINE n == Len(p)
           u == Trunk(p)
<1>1. p \in Seq(Nat) /\ n \in Nat \ {0} /\ Slash \in Nat BY EmptySeq, SlashFacts DEF Name
<1>2. CASE p[n] = Slash
  <2>1. u = SubSeq(p, 1, n - 1) /\ n - 1 \in 0..n BY <1>1, <1>2 DEF Trunk
  <2>2. u \in Name /\ Len(u) = n - 1 /\ \A i \in 1..n - 1 : u[i] = p[i] BY <2>1, PrefixFacts
  <2>3. Slashed(p) = p BY <1>2 DEF Slashed
  <2> HIDE DEF u
  <2>4. u \in Seq(Nat) BY <2>2 DEF Name
  <2> DEFINE t == Append(u, Slash)
  <2>5. /\ t \in Seq(Nat) /\ Len(t) = (n - 1) + 1
        /\ (\A i \in 1..n - 1 : t[i] = u[i]) /\ t[(n - 1) + 1] = Slash
    BY <1>1, <2>2, <2>4, AppendProperties
  <2> HIDE DEF t
  <2>6. (n - 1) + 1 = n /\ \A i \in 1..n : i = n \/ i \in 1..n - 1 BY <1>1
  <2>7. \A i \in 1..n : t[i] = p[i]
    <3> HIDE DEF n
    <3> QED BY <1>2, <2>2, <2>5, <2>6 DEF n
  <2>8. t = p BY <1>1, <2>5, <2>6, <2>7, SeqEqual
  <2>9. Slashed(p) = Append(u, Slash) BY <2>3, <2>8 DEF t
  <2> QED BY <1>2, <2>2, <2>3, <2>6, <2>9 DEF u
<1>3. CASE p[n] # Slash
  <2>1. u = p BY <1>3 DEF Trunk
  <2>2. Slashed(p) = Append(p, Slash) BY <1>3 DEF Slashed
  <2>3. /\ Len(Append(p, Slash)) = n + 1 /\ Append(p, Slash)[n + 1] = Slash
        /\ \A i \in 1..n : Append(p, Slash)[i] = p[i]
    BY <1>1, AppendProperties
  <2> QED BY <2>1, <2>2, <2>3
<1> QED BY <1>2, <1>3

\* scan.under finds the paths that supply dir, and no others.
LEMMA UnderCovers ==
  ASSUME NEW p \in Name, p # <<>>
  PROVE  Under(p) <=> Covers(p)
<1> DEFINE u == Trunk(p)
           n == Len(u)
           d == Len(Dir)
           path == Fold(u)
           Is == Folded(u, Dir, d) /\ n = d
           Inside == Folded(u, Below, d + 1)
           Above == Folded(u, Dir, n) /\ n + 1 <= d /\ Dir[n + 1] = Slash
<1>1. /\ u \in Name /\ Len(Slashed(p)) = n + 1
      /\ \A i \in 1..n : Slashed(p)[i] = u[i] /\ p[i] = u[i]
      /\ Slashed(p)[n + 1] = Slash
      /\ p = u \/ (Len(p) = n + 1 /\ p[Len(p)] = Slash)
  BY TrunkFacts
<1> HIDE DEF u
<1>2. n \in Nat /\ d \in Nat \ {0} /\ Len(Below) = d + 1 /\ Dir \in Name /\ Below \in Name
  BY <1>1, NameFacts, DirFacts
<1>3. /\ \A i \in 1..d : Below[i] = Dir[i]
      /\ Below[d + 1] = Slash /\ Lower(Slash) = Slash
  BY DirFacts, SlashFacts
<1>4. path \in Name /\ Len(path) = n /\ \A i \in 1..n : path[i] = Lower(u[i]) BY <1>1, FoldFacts
<1> HIDE DEF n, d, path
<1>5. Covers(p) <=> path = Dir \/ Starts(path, Below) \/ Starts(Dir, Append(path, Slash))
  <2>1. Append(Dir, Slash) = Below
    <3>1. Dir \in Seq(Nat) /\ Slash \in Nat BY <1>2, SlashFacts DEF Name
    <3> QED BY <3>1, AppendIsConcat DEF Below
  <2>2. Covers(p) <=> Within(path, Fold(Dir)) \/ Within(Fold(Dir), path) BY DEF Covers, path, u, Trunk
  <2> QED BY <2>1, <2>2, DirFacts DEF Within
<1>6. path = Dir <=> Is
  <2>1. Is => path = Dir
    <3>1. Is => \A i \in 1..n : path[i] = Dir[i] BY <1>2, <1>4 DEF Folded
    <3>2. Is => Len(path) = Len(Dir) BY <1>4 DEF d
    <3> QED BY <1>2, <1>4, <3>1, <3>2, SameNames
  <2>2. path = Dir => Is
    <3> SUFFICES ASSUME path = Dir PROVE Is OBVIOUS
    <3>1. n = d BY <1>4 DEF d
    <3>2. \A i \in 1..d : Lower(u[i]) = Dir[i] BY <1>4, <3>1
    <3> QED BY <1>2, <3>1, <3>2 DEF Folded, n, d
  <2> QED BY <2>1, <2>2
<1>7. Starts(path, Below) <=> Inside BY <1>1, <1>2, FoldedIs DEF path
<1>8. Starts(Dir, Append(path, Slash)) <=> Above
  <2>1. path \in Seq(Nat) /\ Slash \in Nat BY <1>4, SlashFacts DEF Name
  <2> DEFINE t == Append(path, Slash)
  <2>2. /\ t \in Name /\ Len(t) = n + 1 /\ (\A i \in 1..n : t[i] = path[i]) /\ t[n + 1] = Slash
    BY <1>4, <2>1, AppendProperties DEF Name
  <2> HIDE DEF t
  <2>3. Starts(Dir, t) <=> n + 1 <= d /\ \A i \in 1..n + 1 : Dir[i] = t[i]
    BY <1>2, <2>2, StartsIs DEF d
  <2>4. \A i \in 1..n + 1 : i \in 1..n \/ i = n + 1 BY <1>2
  <2>5. n + 1 \in 1..n + 1 /\ \A i \in 1..n : i \in 1..n + 1 BY <1>2
  <2>6. (\A i \in 1..n + 1 : Dir[i] = t[i]) <=> (\A i \in 1..n : Dir[i] = Lower(u[i])) /\ Dir[n + 1] = Slash
    BY <1>4, <2>2, <2>4, <2>5
  <2>7. n + 1 <= d => n <= Len(u) /\ n <= Len(Dir) BY <1>2 DEF n, d
  <2>8. Starts(Dir, t) <=> Above BY <2>3, <2>6, <2>7 DEF Folded
  <2> QED BY <2>8 DEF t
<1>9. Folded(Slashed(p), Below, Len(Slashed(p))) <=> Is \/ Above
  <2> DEFINE t == Slashed(p)
  <2>1. t \in Name /\ Len(t) = n + 1 /\ (\A i \in 1..n : t[i] = u[i]) /\ t[n + 1] = Slash
    BY <1>1, SlashedFacts DEF n
  <2> HIDE DEF t
  <2>2. Folded(t, Below, n + 1) <=> n <= d /\ \A i \in 1..n + 1 : Lower(t[i]) = Below[i]
    BY <1>2, <2>1 DEF Folded
  <2>3. \A i \in 1..n + 1 : i \in 1..n \/ i = n + 1 BY <1>2
  <2>4. n + 1 \in 1..n + 1 /\ \A i \in 1..n : i \in 1..n + 1 BY <1>2
  <2>5. (\A i \in 1..n + 1 : Lower(t[i]) = Below[i])
          <=> (\A i \in 1..n : Lower(u[i]) = Below[i]) /\ Below[n + 1] = Slash
    BY <1>3, <2>1, <2>3, <2>4
  <2>6. n <= d => \A i \in 1..n : Below[i] = Dir[i] BY <1>2, <1>3
  <2>7. n <= d => (n = d \/ n + 1 <= d) BY <1>2
  <2>8. n + 1 <= d => n + 1 \in 1..d /\ n <= d /\ n # d BY <1>2
  <2>9. n + 1 <= d => Below[n + 1] = Dir[n + 1] BY <1>3, <2>8
  <2>10. n <= d => n <= Len(u) /\ n <= Len(Dir) BY <1>2 DEF n, d
  <2>11. n <= d => (Folded(u, Dir, n) <=> \A i \in 1..n : Lower(u[i]) = Below[i])
    BY <2>6, <2>10 DEF Folded
  <2>12. CASE n = d
    <3>1. n <= d /\ ~Above BY <1>2, <2>12
    <3> QED BY <1>3, <2>1, <2>2, <2>5, <2>11, <2>12, <3>1 DEF t
  <2>13. CASE n + 1 <= d
    <3>1. n <= d /\ ~Is BY <2>8, <2>13
    <3> QED BY <2>1, <2>2, <2>5, <2>9, <2>11, <2>13, <3>1 DEF t
  <2>14. CASE ~(n <= d)
    <3>1. ~Is /\ ~Above BY <1>2, <2>14
    <3> QED BY <2>1, <2>2, <2>14, <3>1 DEF t
  <2> QED BY <2>7, <2>12, <2>13, <2>14
<1>10. Folded(p, Below, Len(Below)) => Is \/ Inside
  <2> SUFFICES ASSUME Folded(p, Below, d + 1) PROVE Is \/ Inside BY <1>2
  <2>1. d + 1 <= Len(p) /\ \A i \in 1..d + 1 : Lower(p[i]) = Below[i] BY DEF Folded
  <2>2. CASE p = u BY <2>2
  <2>3. CASE Len(p) = n + 1
    <3>1. d <= n BY <1>2, <2>1, <2>3
    <3>2. CASE d = n
      <4>1. \A i \in 1..d : i \in 1..d + 1 /\ i \in 1..n BY <1>2, <3>2
      <4>2. \A i \in 1..d : Lower(u[i]) = Dir[i] BY <1>1, <1>3, <2>1, <4>1 DEF n
      <4>3. d <= Len(u) /\ d <= Len(Dir) BY <1>2, <3>2 DEF n, d
      <4> QED BY <3>2, <4>2, <4>3 DEF Folded
    <3>3. CASE d # n
      <4>1. d + 1 <= n /\ \A i \in 1..d + 1 : i \in 1..n BY <1>2, <3>1, <3>3
      <4>2. \A i \in 1..d + 1 : Lower(u[i]) = Below[i] BY <1>1, <2>1, <4>1 DEF n
      <4>3. d + 1 <= Len(u) /\ d + 1 <= Len(Below) BY <1>2, <4>1 DEF n
      <4> QED BY <4>2, <4>3 DEF Folded
    <3> QED BY <3>2, <3>3
  <2> QED BY <1>1, <2>2, <2>3 DEF n
<1>11. Inside => Folded(p, Below, Len(Below))
  <2> SUFFICES ASSUME Folded(u, Below, d + 1) PROVE Folded(p, Below, d + 1) BY <1>2
  <2>1. d + 1 <= n /\ d + 1 <= Len(Below) /\ \A i \in 1..d + 1 : Lower(u[i]) = Below[i]
    BY DEF Folded, n
  <2>2. \A i \in 1..d + 1 : i \in 1..n BY <1>2, <2>1
  <2>3. \A i \in 1..d + 1 : p[i] = u[i] BY <1>1, <2>2 DEF n
  <2>4. d + 1 <= Len(p) BY <1>1, <1>2, <2>1 DEF n
  <2> QED BY <2>1, <2>3, <2>4 DEF Folded
<1>12. Under(p) <=> Folded(p, Below, Len(Below)) \/ Folded(Slashed(p), Below, Len(Slashed(p)))
  BY UnderIs
<1> HIDE DEF Is, Inside, Above
<1> QED BY <1>5, <1>6, <1>7, <1>8, <1>9, <1>10, <1>11, <1>12

-----------------------------------------------------------------------------
\* Index files: what is read of them is what git tracks.
Paths(T) == IsFiniteSet(T) /\ T \subseteq Name /\ <<>> \notin T

LEMMA TrackedArePaths == \A T \in Tracked : Paths(T)
BY TrackedAssumption DEF Paths, Name

LEMMA FilesRead ==
  ASSUME NEW paths \in Seq(Name), NEW t, NEW base, NEW deleted
  PROVE  LET f == File(paths, t, base, deleted) IN
         /\ NamesOf(f) = paths /\ IsIndex(f) /\ f.hash = t.hash /\ f.base = base
         /\ f.deleted = deleted
<1> DEFINE f == File(paths, t, base, deleted)
<1>1. /\ f.entries = WriteEntries(paths, f.version) /\ f.kind = "index"
      /\ f.hash = t.hash /\ f.base = base /\ f.deleted = deleted
  BY DEF File
<1> HIDE DEF f
<1>2. NamesOf(f) = paths BY <1>1, NamesRead
<1> QED BY <1>1, <1>2 DEF IsIndex, f

LEMMA WholeFacts ==
  ASSUME NEW T, Paths(T), NEW t
  PROVE  LET f == Whole(T, t) IN
         /\ NamesOf(f) = Sorted(T) /\ IsIndex(f) /\ f.hash = t.hash /\ f.base = None
         /\ Held(f) = T
<1> DEFINE s == Sorted(T)
           f == Whole(T, t)
<1>1. /\ s \in Seq(Name) /\ s \in Seq(T) /\ \A p \in T : \E i \in 1..Len(s) : s[i] = p
  BY SortedFacts DEF Paths
<1> HIDE DEF s
<1>2. NamesOf(f) = s /\ IsIndex(f) /\ f.hash = t.hash /\ f.base = None
  BY <1>1, FilesRead DEF Whole, s
<1>3. DOMAIN s = 1..Len(s) /\ \A i \in 1..Len(s) : s[i] \in T BY <1>1
<1> HIDE DEF f
<1>4. Held(f) = {s[i] : i \in 1..Len(s)} BY <1>2, <1>3 DEF Held
<1>5. {s[i] : i \in 1..Len(s)} = T BY <1>1, <1>3
<1> QED BY <1>2, <1>4, <1>5 DEF s, f

\* What scan.file finds in a file in order, whatever is deleted of it.
LEMMA TracksInOrder ==
  ASSUME NEW T, Paths(T), NEW t, NEW deleted
  PROVE  FileTracks(Whole(T, t), deleted) <=>
           \E i \in 1..Len(Sorted(T)) : ~Holds(deleted, i - 1) /\ Under(Sorted(T)[i])
<1> DEFINE s == Sorted(T)
           n == Len(s)
           live == {i \in 1..n : ~Holds(deleted, i - 1)}
           Found == {i \in live : Under(s[i])}
<1>1. /\ s \in Seq(Name) /\ \A i, j \in 1..n : i < j => Precedes(s[i], s[j])
  BY SortedFacts DEF Paths
<1> HIDE DEF s
<1>2. DOMAIN s = 1..n /\ n \in Nat /\ \A i \in 1..n : s[i] \in Name BY <1>1
<1>3. FileTracks(Whole(T, t), deleted) <=>
        \E i \in live : Under(s[i]) /\ \A j \in live : j < i => Precedes(s[j], Below)
  BY <1>2, WholeFacts DEF FileTracks, s
<1> HIDE DEF n
<1>4. ASSUME Found # {}
      PROVE  \E i \in live : Under(s[i]) /\ \A j \in live : j < i => Precedes(s[j], Below)
  <2>1. Found \subseteq Nat BY <1>2
  <2>2. PICK i \in Found : \A j \in Found : i <= j
    <3> HIDE DEF Found
    <3> QED BY <1>4, <2>1, LeastNatural
  <2>3. i \in live /\ i \in 1..n /\ Under(s[i]) OBVIOUS
  <2>4. ASSUME NEW j \in live, j < i PROVE Precedes(s[j], Below)
    <3>1. j \in 1..n /\ j \in Nat /\ i \in Nat BY <1>2
    <3>2. ~Under(s[j])
      <4> SUFFICES ASSUME Under(s[j]) PROVE FALSE OBVIOUS
      <4>1. j \in Found OBVIOUS
      <4>2. i <= j BY <2>2, <4>1
      <4> QED BY <2>4, <3>1, <4>2
    <3>3. Precedes(s[j], s[i]) /\ s[i] \in Name /\ s[j] \in Name BY <1>1, <1>2, <2>3, <2>4, <3>1 DEF n
    <3> QED BY <2>3, <3>2, <3>3, EarlyStop
  <2> QED BY <2>3, <2>4
<1>5. (\E i \in live : Under(s[i]) /\ \A j \in live : j < i => Precedes(s[j], Below)) <=> Found # {}
  BY <1>4
<1>6. Found # {} <=> \E i \in 1..n : ~Holds(deleted, i - 1) /\ Under(s[i]) OBVIOUS
<1> QED BY <1>3, <1>5, <1>6 DEF s, n

LEMMA NoneDeleted == \A pos : ~Holds({}, pos)
BY DEF Holds

LEMMA WholeRead ==
  ASSUME NEW T, Paths(T), NEW t
  PROVE  /\ FileTracks(Whole(T, t), {}) <=> \E p \in T : Under(p)
         /\ NamesIn(Whole(T, t), {}) = T
<1> DEFINE s == Sorted(T)
           none == {}
<1>1. /\ s \in Seq(T) /\ \A p \in T : \E i \in 1..Len(s) : s[i] = p
  BY SortedFacts DEF Paths
<1>2. DOMAIN s = 1..Len(s) /\ \A i \in 1..Len(s) : s[i] \in T
  <2> HIDE DEF s
  <2> QED BY <1>1
<1>3. \A pos : ~Holds(none, pos) BY NoneDeleted
<1> HIDE DEF none
<1>4. FileTracks(Whole(T, t), none) <=> \E i \in 1..Len(s) : ~Holds(none, i - 1) /\ Under(s[i])
  BY TracksInOrder
<1> HIDE DEF s
<1>5. FileTracks(Whole(T, t), none) <=> \E p \in T : Under(p) BY <1>1, <1>2, <1>3, <1>4
<1>6. NamesOf(Whole(T, t)) = s BY WholeFacts DEF s
<1>7. NamesIn(Whole(T, t), none) = {s[i] : i \in {j \in 1..Len(s) : ~Holds(none, j - 1)}} \ {<<>>}
  <2> DEFINE f == Whole(T, t)
  <2> HIDE DEF f
  <2> QED BY <1>2, <1>6 DEF NamesIn, f
<1>8. {s[i] : i \in {j \in 1..Len(s) : ~Holds(none, j - 1)}} = T BY <1>1, <1>2, <1>3
<1>9. T \ {<<>>} = T BY DEF Paths
<1> QED BY <1>5, <1>7, <1>8, <1>9 DEF none

\* A split index: what it adds, and what it leaves of its shared index.
LEMMA SplitFacts ==
  ASSUME NEW T, NEW B, Paths(T), Paths(B), NEW r, NEW id, NEW t, NEW f \in SplitIndexes(T, B, r, id, t)
  PROVE  /\ IsIndex(f) /\ f.hash = t.hash /\ f.base = id
         /\ NamesIn(f, {}) = T \ B
         /\ FileTracks(f, {}) => \E p \in T : Under(p)
         /\ \A i \in 1..Len(Sorted(B)) : Holds(ewah(f.deleted), i - 1) <=> Sorted(B)[i] \notin T
<1> DEFINE order == Sorted(B)
           n == Len(order)
           gone == {i - 1 : i \in {j \in DOMAIN order : order[j] \notin T}}
           k == Cardinality(r \cap T \cap B)
           blank == [i \in 1..k |-> <<>>]
           added == Sorted(T \ B)
           paths == blank \o added
<1>1. PICK deleted \in Bitmaps(gone, n) : f = File(paths, t, id, deleted) BY DEF SplitIndexes
<1>2. order \in Seq(B) BY SortedFacts DEF Paths
<1> HIDE DEF order
<1>3. n \in Nat /\ DOMAIN order = 1..n BY <1>2
<1>4. gone \subseteq 0..n - 1 BY <1>3
<1>5. \A i \in 1..n : i - 1 \in gone <=> order[i] \notin T
  <2> TAKE i \in 1..n
  <2>1. \A j \in DOMAIN order : j - 1 = i - 1 => j = i BY <1>3
  <2> QED BY <1>3, <2>1
<1>6. \A i \in 1..n : Holds(ewah(deleted), i - 1) <=> order[i] \notin T
  <2> TAKE i \in 1..n
  <2>1. i - 1 \in 0..n - 1 BY <1>3
  <2>2. i - 1 \in gone <=> order[i] \notin T BY <1>5
  <2> HIDE DEF gone, n
  <2>3. n \in Nat /\ gone \subseteq 0..n - 1 /\ deleted \in Bitmaps(gone, n) BY <1>1, <1>3, <1>4
  <2> DEFINE pos == i - 1
  <2>4. pos \in 0..n - 1 BY <2>1
  <2> HIDE DEF pos
  <2>5. Holds(ewah(deleted), pos) <=> pos \in gone BY <2>3, <2>4, BitmapRead
  <2> QED BY <2>2, <2>5 DEF pos
<1>7. k \in Nat
  <2>1. (r \cap T \cap B) \in SUBSET B /\ IsFiniteSet(B) BY DEF Paths
  <2>2. IsFiniteSet(r \cap T \cap B) BY <2>1, FS_Subset
  <2> QED BY <2>2, FS_CardinalityType
<1>8. <<>> \in Name BY EmptySeq DEF Name
<1>9. blank \in Seq(Name) /\ Len(blank) = k /\ \A i \in 1..k : blank[i] = <<>>
  <2>1. blank \in [1..k -> Name] /\ \A i \in 1..k : blank[i] = <<>> BY <1>8
  <2> HIDE DEF blank, k
  <2> QED BY <1>7, <2>1
<1>10. Paths(T \ B)
  <2>1. T \ B \in SUBSET T OBVIOUS
  <2> QED BY <2>1, FS_Subset DEF Paths
<1>11. added \in Seq(Name) /\ added \in Seq(T \ B) /\ \A p \in T \ B : \E i \in 1..Len(added) : added[i] = p
  BY <1>10, SortedFacts DEF Paths
<1> HIDE DEF blank, added, k
<1>12. Len(added) \in Nat /\ \A i \in 1..Len(added) : added[i] \in T \ B BY <1>11
<1>13. /\ paths \in Seq(Name) /\ Len(paths) = k + Len(added)
       /\ \A i \in 1..k + Len(added) : paths[i] = IF i <= k THEN blank[i] ELSE added[i - k]
  <2>1. blank \in Seq(Name) /\ added \in Seq(Name) /\ Len(blank) = k BY <1>9, <1>11
  <2>2. /\ blank \o added \in Seq(Name) /\ Len(blank \o added) = Len(blank) + Len(added)
        /\ \A i \in 1..Len(blank) + Len(added) :
             (blank \o added)[i] = IF i <= Len(blank) THEN blank[i] ELSE added[i - Len(blank)]
    BY <2>1, ConcatProperties
  <2> QED BY <2>1, <2>2
<1> HIDE DEF paths
<1>14. DOMAIN paths = 1..k + Len(added) BY <1>13
<1>15. \A i \in DOMAIN paths : paths[i] = <<>> \/ paths[i] \in T \ B
  <2> TAKE i \in DOMAIN paths
  <2>1. i \in 1..k + Len(added) BY <1>14
  <2>2. CASE i <= k
    <3>1. i \in 1..k BY <1>7, <2>1, <2>2
    <3> QED BY <1>9, <1>13, <2>1, <2>2, <3>1
  <2>3. CASE ~(i <= k)
    <3>1. i - k \in 1..Len(added) BY <1>7, <1>12, <2>1, <2>3
    <3> QED BY <1>12, <1>13, <2>1, <2>3, <3>1
  <2> QED BY <2>2, <2>3
<1>16. \A p \in T \ B : \E i \in DOMAIN paths : paths[i] = p
  <2> TAKE p \in T \ B
  <2>1. PICK i \in 1..Len(added) : added[i] = p BY <1>11
  <2>2. k + i \in 1..k + Len(added) /\ ~(k + i <= k) /\ (k + i) - k = i BY <1>7, <1>12
  <2>3. paths[k + i] = p BY <1>13, <2>1, <2>2
  <2> QED BY <1>14, <2>2, <2>3
<1>17. /\ NamesOf(f) = paths /\ IsIndex(f) /\ f.hash = t.hash /\ f.base = id /\ f.deleted = deleted
  <2> HIDE DEF gone, n
  <2> QED BY <1>1, <1>13, FilesRead
<1> DEFINE none == {}
<1>18. \A pos : ~Holds(none, pos) BY NoneDeleted
<1> HIDE DEF none, gone, n
<1>19. NamesIn(f, none) = {paths[i] : i \in {j \in DOMAIN paths : ~Holds(none, j - 1)}} \ {<<>>}
  BY <1>17 DEF NamesIn
<1>20. {paths[i] : i \in {j \in DOMAIN paths : ~Holds(none, j - 1)}} \ {<<>>} = T \ B
  <2>1. <<>> \notin T BY DEF Paths
  <2> QED BY <1>15, <1>16, <1>18, <2>1
<1>21. FileTracks(f, none) => \E p \in T : Under(p)
  <2> SUFFICES ASSUME FileTracks(f, none) PROVE \E p \in T : Under(p) OBVIOUS
  <2>1. PICK i \in DOMAIN paths : Under(paths[i]) BY <1>17 DEF FileTracks
  <2>2. paths[i] \in T \ B BY <1>15, <2>1, NotUnder
  <2> QED BY <2>1, <2>2
<1> QED BY <1>6, <1>17, <1>19, <1>20, <1>21 DEF none, n, order

\* Read with what a split index deletes of it, a shared index holds what is left.
LEMMA SharedRead ==
  ASSUME NEW T, NEW B, Paths(B), NEW t, NEW deleted,
         \A i \in 1..Len(Sorted(B)) : Holds(deleted, i - 1) <=> Sorted(B)[i] \notin T
  PROVE  /\ FileTracks(Whole(B, t), deleted) <=> \E p \in B \cap T : Under(p)
         /\ NamesIn(Whole(B, t), deleted) = B \cap T
<1> DEFINE s == Sorted(B)
<1>1. /\ s \in Seq(B) /\ \A p \in B : \E i \in 1..Len(s) : s[i] = p
  BY SortedFacts DEF Paths
<1>2. FileTracks(Whole(B, t), deleted) <=> \E i \in 1..Len(s) : ~Holds(deleted, i - 1) /\ Under(s[i])
  BY TracksInOrder
<1>3. NamesOf(Whole(B, t)) = s BY WholeFacts
<1>4. \A i \in 1..Len(s) : Holds(deleted, i - 1) <=> s[i] \notin T OBVIOUS
<1> HIDE DEF s
<1>5. DOMAIN s = 1..Len(s) /\ \A i \in 1..Len(s) : s[i] \in B BY <1>1
<1>6. FileTracks(Whole(B, t), deleted) <=> \E p \in B \cap T : Under(p) BY <1>1, <1>2, <1>4, <1>5
<1>7. NamesIn(Whole(B, t), deleted) = {s[i] : i \in {j \in 1..Len(s) : ~Holds(deleted, j - 1)}} \ {<<>>}
  <2> DEFINE f == Whole(B, t)
  <2> HIDE DEF f
  <2> QED BY <1>3, <1>5 DEF NamesIn, f
<1>8. {s[i] : i \in {j \in 1..Len(s) : ~Holds(deleted, j - 1)}} = B \cap T BY <1>1, <1>4, <1>5
<1>9. (B \cap T) \ {<<>>} = B \cap T BY DEF Paths
<1> QED BY <1>6, <1>7, <1>8, <1>9

LEMMA UnderAmong ==
  ASSUME NEW T, Paths(T)
  PROVE  (\E p \in T : Under(p)) <=> \E p \in T : Covers(p)
<1>1. \A p \in T : p \in Name /\ p # <<>> BY DEF Paths
<1>2. \A p \in T : Under(p) <=> Covers(p) BY <1>1, UnderCovers
<1> QED BY <1>2

-----------------------------------------------------------------------------
\* The config git wrote says what its index files hold.
LEMMA HashRead == \A t \in Trees : Own(t) # None /\ Config(t) # None => HashLen(t) = t.hash
<1> SUFFICES ASSUME NEW t \in Trees, Own(t) # None, Config(t) # None PROVE HashLen(t) = t.hash OBVIOUS
<1> DEFINE lines == t.config[CommonDir(t)]
           n == Len(lines)
           heads(i) == {j \in 1..i : lines[j].section # None}
           SectionOf(i) == IF heads(i) = {} THEN None
                           ELSE lines[CHOOSE j \in heads(i) : \A k \in heads(i) : k <= j].section
           Is(i) == lines[i].key = "objectformat" /\ lines[i].value = "sha256"
           theirs == t.config[IF t.git = "pointer" /\ t.commondir = None THEN "own" ELSE "main"]
<1>1. lines = theirs /\ theirs # None BY NoneAssumption DEF Own, CommonDir, Config
<1>2. /\ n \in Nat /\ DOMAIN lines = 1..n
      /\ t.hash = IF \E head, i \in 1..n :
                        /\ head < i /\ lines[head].section = "extensions"
                        /\ \A k \in head + 1..i : lines[k].section = None
                        /\ Is(i)
                     THEN "sha256" ELSE "sha1"
  <2>1. /\ Len(theirs) \in Nat /\ DOMAIN theirs = 1..Len(theirs)
        /\ t.hash = IF \E head, i \in DOMAIN theirs :
                          /\ head < i /\ theirs[head].section = "extensions"
                          /\ \A k \in head + 1..i : theirs[k].section = None
                          /\ theirs[i].key = "objectformat" /\ theirs[i].value = "sha256"
                       THEN "sha256" ELSE "sha1"
    BY <1>1, FormatAssumption
  <2> HIDE DEF lines, theirs
  <2>2. DOMAIN lines = 1..n BY <1>1, <2>1
  <2>3. t.hash = IF \E head, i \in DOMAIN lines :
                      /\ head < i /\ lines[head].section = "extensions"
                      /\ \A k \in head + 1..i : lines[k].section = None
                      /\ Is(i)
                   THEN "sha256" ELSE "sha1"
    BY <1>1, <2>1
  <2> QED BY <1>1, <2>1, <2>2, <2>3
<1>3. HashLen(t) = IF \E i \in 1..n : lines[i].section = None /\ SectionOf(i) = "extensions" /\ Is(i)
                     THEN "sha256" ELSE "sha1"
  <2>1. HashLen(t) = IF \E i \in DOMAIN lines :
                          lines[i].section = None /\ SectionOf(i) = "extensions" /\ Is(i)
                       THEN "sha256" ELSE "sha1"
    BY DEF HashLen, Config
  <2> QED BY <1>2, <2>1
<1> HIDE DEF lines, n, Is
<1>4. ASSUME NEW i \in 1..n, NEW head \in 1..n, head < i, lines[head].section = "extensions",
             \A k \in head + 1..i : lines[k].section = None
      PROVE  lines[i].section = None /\ SectionOf(i) = "extensions"
  <2>1. head \in heads(i) /\ i \in head + 1..i BY <1>2, <1>4, NoneAssumption
  <2>2. \A k \in heads(i) : k <= head
    <3> SUFFICES ASSUME NEW k \in heads(i), ~(k <= head) PROVE FALSE OBVIOUS
    <3>1. k \in 1..i /\ k \in head + 1..i BY <1>2
    <3> QED BY <1>4, <3>1
  <2>3. \A j \in heads(i) : (\A k \in heads(i) : k <= j) => j = head BY <1>2, <2>1, <2>2
  <2> DEFINE last == CHOOSE j \in heads(i) : \A k \in heads(i) : k <= j
             greatest == {j \in heads(i) : \A k \in heads(i) : k <= j}
  <2>4. last = head
    <3> HIDE DEF heads
    <3>1. last \in heads(i) /\ \A k \in heads(i) : k <= last BY <2>1, <2>2
    <3> QED BY <2>3, <3>1
  <2> QED BY <1>4, <2>1, <2>4
<1>5. ASSUME NEW i \in 1..n, lines[i].section = None, SectionOf(i) = "extensions"
      PROVE  \E head \in 1..n : /\ head < i /\ lines[head].section = "extensions"
                                /\ \A k \in head + 1..i : lines[k].section = None
  <2>1. heads(i) # {}
    <3> HIDE DEF heads
    <3> QED BY <1>5, NoneAssumption
  <2>2. i \in Nat /\ heads(i) \subseteq 0..i BY <1>2
  <2>3. PICK head \in heads(i) : \A k \in heads(i) : k <= head
    <3> HIDE DEF heads
    <3> QED BY <2>1, <2>2, GreatestNatural
  <2> DEFINE last == CHOOSE j \in heads(i) : \A k \in heads(i) : k <= j
  <2>4. last \in heads(i) /\ \A k \in heads(i) : k <= last
    <3> HIDE DEF heads
    <3> QED BY <2>3
  <2>5. lines[last].section = "extensions" BY <1>5, <2>1
  <2>6. last \in 1..i /\ last # i BY <1>5, <2>4, <2>5, NoneAssumption
  <2>7. ASSUME NEW k \in last + 1..i PROVE lines[k].section = None
    <3>1. k \in 1..i /\ ~(k <= last) BY <1>2, <2>6
    <3>2. k \notin heads(i) BY <2>4, <3>1
    <3> QED BY <3>1, <3>2
  <2> HIDE DEF last
  <2>8. last \in 1..n /\ last < i BY <1>2, <2>6
  <2> QED BY <2>5, <2>7, <2>8
<1>6. (\E i \in 1..n : lines[i].section = None /\ SectionOf(i) = "extensions" /\ Is(i)) <=>
        \E head, i \in 1..n : /\ head < i /\ lines[head].section = "extensions"
                              /\ \A k \in head + 1..i : lines[k].section = None
                              /\ Is(i)
  <2> HIDE DEF SectionOf
  <2> QED BY <1>4, <1>5
<1> QED BY <1>2, <1>3, <1>6

-----------------------------------------------------------------------------
\* What the disk holds, in any state of the question: shared indexes as they were written
\* or none, and an index that says what is tracked, or nothing tracked.
OnDisk ==
  /\ tree \in Trees /\ tracked \in Tracked
  /\ DOMAIN shared = 1..2
  /\ \A id \in 1..2 : \/ shared[id] = Missing \/ shared[id] = Expired
                      \/ \E B \in Tracked : shared[id] = Whole(B, tree)
  /\ \/ index \in NewIndexes(tracked, shared, tree)
     \/ tracked = {} /\ index \in {Missing, Garbage}

\* The question: a tree that has an index is read with the length its objects have.
InQuestion ==
  /\ asked \in {"under", "paths"}
  /\ at \in {"asked", "located", "reading", "linked", "answered"}
  /\ tracked \in moments /\ moments \subseteq Tracked
  /\ at \in {"located", "reading", "linked"} =>
       Own(tree) # None /\ index # Missing /\ located = tree.hash
  /\ at \in {"asked", "located", "reading"} => linked = NoLink

\* A link, once read, deletes from a shared index what was not tracked at that moment.
\* The index that is not there any more is linked to by nobody.
LinkRead(T, B) ==
  /\ linked.names = T \ B
  /\ shared[linked.base] \in {Whole(B, tree), Expired}
  /\ \A i \in 1..Len(Sorted(B)) : Holds(linked.deleted, i - 1) <=> Sorted(B)[i] \notin T
  /\ asked = "under" => \A p \in T \ B : ~Under(p)
Linked ==
  at = "linked" =>
    /\ IsIndex(index) /\ linked.base \in 1..2
    /\ \E T \in moments, B \in Tracked : LinkRead(T, B)

IndexInv == OnDisk /\ InQuestion /\ Linked /\ AnswersAsTracked /\ ErrsForCause

LEMMA Kinds ==
  /\ ~IsIndex(Missing) /\ ~IsIndex(Garbage) /\ ~IsIndex(Expired)
  /\ \A T, t : IsIndex(Whole(T, t))
BY DEF Missing, Garbage, Expired, IsIndex, Whole, File

LEMMA Linking ==
  ASSUME NEW T, NEW B, NEW r, NEW id, NEW t, NEW f \in SplitIndexes(T, B, r, id, t)
  PROVE  IsIndex(f) /\ f.base = id
<1>1. PICK paths, deleted : f = File(paths, t, id, deleted) BY DEF SplitIndexes
<1> QED BY <1>1 DEF File, IsIndex

\* An index git could have written is still one when the shared indexes that it does not
\* link to change.
LEMMA StillThere ==
  ASSUME NEW T, NEW t, NEW files, NEW later, DOMAIN later = DOMAIN files,
         NEW f \in NewIndexes(T, files, t),
         \A id \in DOMAIN files : f.base = id /\ IsIndex(files[id]) => later[id] = files[id]
  PROVE  f \in NewIndexes(T, later, t)
<1>1. CASE f = Whole(T, t) BY <1>1 DEF NewIndexes
<1>2. CASE f # Whole(T, t)
  <2>1. PICK r \in Splits, id \in {i \in DOMAIN files : IsIndex(files[i])} :
               f \in SplitIndexes(T, Held(files[id]), r, id, t)
    BY <1>2 DEF NewIndexes
  <2>2. f.base = id BY <2>1, Linking
  <2>3. later[id] = files[id] /\ id \in {i \in DOMAIN later : IsIndex(later[i])} BY <2>1, <2>2
  <2>4. f \in SplitIndexes(T, Held(later[id]), r, id, t) BY <2>1, <2>3
  <2> QED BY <2>3, <2>4 DEF NewIndexes
<1> QED BY <1>1, <1>2

\* The index of a state is read as what is tracked in it, whole or with its link.
LEMMA IndexRead ==
  ASSUME OnDisk, index \in NewIndexes(tracked, shared, tree)
  PROVE  /\ IsIndex(index) /\ index.hash = tree.hash /\ Paths(tracked)
         /\ \/ index = Whole(tracked, tree) /\ index.base = None
            \/ \E B \in Tracked, r \in Splits :
                 /\ index \in SplitIndexes(tracked, B, r, index.base, tree)
                 /\ index.base \in 1..2 /\ index.base # None
                 /\ shared[index.base] = Whole(B, tree) /\ Paths(B)
<1>1. Paths(tracked) BY TrackedArePaths DEF OnDisk
<1>2. CASE index = Whole(tracked, tree) BY <1>1, <1>2, WholeFacts
<1>3. CASE index # Whole(tracked, tree)
  <2>1. PICK r \in Splits, id \in {i \in DOMAIN shared : IsIndex(shared[i])} :
               index \in SplitIndexes(tracked, Held(shared[id]), r, id, tree)
    BY <1>3 DEF NewIndexes
  <2>2. id \in 1..2 /\ id # None BY <2>1, NoneAssumption DEF OnDisk
  <2>3. PICK B \in Tracked : shared[id] = Whole(B, tree) BY <2>1, <2>2, Kinds DEF OnDisk
  <2>4. Paths(B) BY TrackedArePaths
  <2>5. Held(shared[id]) = B BY <2>3, <2>4, WholeFacts
  <2>6. index \in SplitIndexes(tracked, B, r, id, tree) BY <2>1, <2>5
  <2>7. IsIndex(index) /\ index.hash = tree.hash /\ index.base = id
    BY <1>1, <2>4, <2>6, SplitFacts
  <2> QED BY <1>1, <2>2, <2>3, <2>4, <2>6, <2>7
<1> QED BY <1>2, <1>3

LEMMA InitiallyIndexed == IndexInit => IndexInv
<1> SUFFICES ASSUME IndexInit PROVE IndexInv OBVIOUS
<1> USE DEF IndexInit
<1>1. PICK B \in Tracked : shared \in {<<Missing, Missing>>, <<Whole(B, tree), Missing>>} OBVIOUS
<1>2. DOMAIN shared = 1..2 BY <1>1
<1>3. \A id \in 1..2 : shared[id] = Missing \/ \E C \in Tracked : shared[id] = Whole(C, tree)
  BY <1>1
<1>4. index \in NewIndexes(tracked, shared, tree) \/ (tracked = {} /\ index \in {Missing, Garbage})
  OBVIOUS
<1>5. OnDisk BY <1>2, <1>3, <1>4 DEF OnDisk
<1>6. InQuestion BY DEF InQuestion
<1> QED BY <1>5, <1>6 DEF IndexInv, Linked, AnswersAsTracked, ErrsForCause, Answered

-----------------------------------------------------------------------------
\* git's steps: none of them is taken back by what the question has read so far.
LEMMA SharedWritten ==
  ASSUME IndexInv, WriteShared PROVE IndexInv'
<1> USE DEF IndexInv
<1>1. PICK id \in Ids : shared[id] = Missing /\ shared' = [shared EXCEPT ![id] = Whole(tracked, tree)]
  BY DEF WriteShared
<1>2. /\ at # "answered" /\ IsIndex(index) /\ id \in 1..2
      /\ UNCHANGED <<tree, asked, at, located, globbed, linked, answer, index, tracked, moments>>
  BY <1>1 DEF WriteShared, Writes, Asking, Ids, OnDisk
<1>3. /\ DOMAIN shared' = 1..2 /\ DOMAIN shared = 1..2
      /\ shared'[id] = Whole(tracked, tree)
      /\ \A other \in 1..2 : other # id => shared'[other] = shared[other]
  BY <1>1, <1>2 DEF OnDisk
<1>4. ~IsIndex(shared[id]) BY <1>1, Kinds
<1>5. index \in NewIndexes(tracked, shared, tree) BY <1>2, Kinds DEF OnDisk
<1>6. index \in NewIndexes(tracked, shared', tree)
  <2>1. \A other \in DOMAIN shared :
          index.base = other /\ IsIndex(shared[other]) => shared'[other] = shared[other]
    BY <1>3, <1>4
  <2> DEFINE later == shared'
             f == index
  <2>2. DOMAIN later = DOMAIN shared BY <1>3
  <2>3. \A other \in DOMAIN shared : f.base = other /\ IsIndex(shared[other]) => later[other] = shared[other]
    BY <2>1
  <2>4. f \in NewIndexes(tracked, shared, tree) BY <1>5
  <2> HIDE DEF later, f
  <2>5. f \in NewIndexes(tracked, later, tree) BY <2>2, <2>3, <2>4, StillThere
  <2> QED BY <2>5 DEF later, f
<1>7. OnDisk' BY <1>2, <1>3, <1>6 DEF OnDisk
<1>8. InQuestion' BY <1>2 DEF InQuestion
<1>9. Linked'
  <2> SUFFICES ASSUME at = "linked"
               PROVE  /\ IsIndex(index) /\ linked.base \in 1..2
                      /\ (\E T \in moments, B \in Tracked : LinkRead(T, B))'
    BY <1>2 DEF Linked
  <2>1. PICK T \in moments, B \in Tracked : LinkRead(T, B) BY DEF Linked
  <2>2. linked.base \in 1..2 BY DEF Linked
  <2>3. shared[linked.base] # Missing BY <2>1, Kinds DEF LinkRead, Missing, Expired
  <2>4. shared'[linked.base] = shared[linked.base] BY <1>1, <1>3, <2>2, <2>3
  <2>5. LinkRead(T, B)' BY <1>2, <2>1, <2>4 DEF LinkRead
  <2> QED BY <1>2, <2>2, <2>5
<1>10. AnswersAsTracked' /\ ErrsForCause' BY <1>2 DEF AnswersAsTracked, ErrsForCause, Answered
<1> QED BY <1>7, <1>8, <1>9, <1>10

LEMMA IndexWritten ==
  ASSUME IndexInv, WriteIndex PROVE IndexInv'
<1> USE DEF IndexInv
<1>1. PICK T \in Tracked : /\ tracked' = T /\ moments' = moments \cup {T}
                           /\ index' \in NewIndexes(T, shared, tree)
  BY DEF WriteIndex
<1>2. /\ at # "answered"
      /\ UNCHANGED <<tree, asked, at, located, globbed, linked, answer, shared>>
  BY DEF WriteIndex, Writes, Asking
<1>3. OnDisk' BY <1>1, <1>2 DEF OnDisk
<1>4. IsIndex(index')
  <2>1. \/ index' = Whole(T, tree)
        \/ \E r, id, B : index' \in SplitIndexes(T, B, r, id, tree)
    BY <1>1 DEF NewIndexes
  <2>2. CASE index' = Whole(T, tree) BY <2>2, Kinds
  <2>3. ASSUME NEW r, NEW id, NEW B, index' \in SplitIndexes(T, B, r, id, tree) PROVE IsIndex(index')
    BY <2>3, Linking
  <2> QED BY <2>1, <2>2, <2>3
<1>5. InQuestion' BY <1>1, <1>2, <1>4, Kinds DEF InQuestion
<1>6. Linked'
  <2> SUFFICES ASSUME at = "linked"
               PROVE  /\ IsIndex(index') /\ linked.base \in 1..2
                      /\ (\E S \in moments, B \in Tracked : LinkRead(S, B))'
    BY <1>2 DEF Linked
  <2>1. PICK S \in moments, B \in Tracked : LinkRead(S, B) BY DEF Linked
  <2>2. LinkRead(S, B)' /\ S \in moments' BY <1>1, <1>2, <2>1 DEF LinkRead
  <2> QED BY <1>4, <2>2 DEF Linked
<1>7. AnswersAsTracked' /\ ErrsForCause' BY <1>2 DEF AnswersAsTracked, ErrsForCause, Answered
<1> QED BY <1>3, <1>5, <1>6, <1>7

LEMMA SharedExpired ==
  ASSUME IndexInv, Expire PROVE IndexInv'
<1> USE DEF IndexInv
<1>1. PICK id \in Ids \ {index.base} : IsIndex(shared[id]) /\ shared' = [shared EXCEPT ![id] = Expired]
  BY DEF Expire
<1>2. /\ at # "answered" /\ IsIndex(index) /\ id \in 1..2
      /\ UNCHANGED <<tree, asked, at, located, globbed, linked, answer, index, tracked, moments>>
  BY <1>1 DEF Expire, Asking, Ids, OnDisk
<1>3. /\ DOMAIN shared' = 1..2 /\ DOMAIN shared = 1..2 /\ shared'[id] = Expired
      /\ \A other \in 1..2 : other # id => shared'[other] = shared[other]
  BY <1>1, <1>2 DEF OnDisk
<1>4. index \in NewIndexes(tracked, shared, tree) BY <1>2, Kinds DEF OnDisk
<1>5. index \in NewIndexes(tracked, shared', tree)
  <2> DEFINE later == shared'
             f == index
  <2>1. DOMAIN later = DOMAIN shared BY <1>3
  <2>2. \A other \in DOMAIN shared : f.base = other /\ IsIndex(shared[other]) => later[other] = shared[other]
    BY <1>1, <1>3
  <2>3. f \in NewIndexes(tracked, shared, tree) BY <1>4
  <2> HIDE DEF later, f
  <2>4. f \in NewIndexes(tracked, later, tree) BY <2>1, <2>2, <2>3, StillThere
  <2> QED BY <2>4 DEF later, f
<1>6. OnDisk' BY <1>2, <1>3, <1>5 DEF OnDisk
<1>7. InQuestion' BY <1>2 DEF InQuestion
<1>8. Linked'
  <2> SUFFICES ASSUME at = "linked"
               PROVE  /\ IsIndex(index) /\ linked.base \in 1..2
                      /\ (\E T \in moments, B \in Tracked : LinkRead(T, B))'
    BY <1>2 DEF Linked
  <2>1. PICK T \in moments, B \in Tracked : LinkRead(T, B) BY DEF Linked
  <2>2. linked.base \in 1..2 BY DEF Linked
  <2>3. shared'[linked.base] \in {shared[linked.base], Expired} BY <1>3, <2>2
  <2>4. shared'[linked.base] \in {Whole(B, tree), Expired} BY <2>1, <2>3 DEF LinkRead
  <2>5. LinkRead(T, B)' BY <1>2, <2>1, <2>4 DEF LinkRead
  <2> QED BY <1>2, <2>2, <2>5
<1>9. AnswersAsTracked' /\ ErrsForCause' BY <1>2 DEF AnswersAsTracked, ErrsForCause, Answered
<1> QED BY <1>6, <1>7, <1>8, <1>9

-----------------------------------------------------------------------------
\* The question's steps.  An answer is of the kind that was asked for, so none is Failed.
LEMMA Answer ==
  ASSUME IndexInv, NEW T \in moments, at' = "answered", answer' = Truth(T),
         UNCHANGED <<repository, asked, globbed, moments>>
  PROVE  IndexInv'
<1> USE DEF IndexInv, repository
<1>1. UNCHANGED <<tree, index, shared, tracked, writes>> OBVIOUS
<1>2. T \in Tracked BY DEF InQuestion
<1>3. Truth(T) # Failed BY <1>2, AnswersAssumption DEF Truth, No
<1>4. OnDisk' BY <1>1 DEF OnDisk
<1>5. InQuestion' /\ Linked' BY <1>1 DEF InQuestion, Linked
<1>6. \A S \in moments : Truth(S)' = Truth(S) BY <1>1 DEF Truth, No
<1>7. AnswersAsTracked' BY <1>6 DEF AnswersAsTracked
<1>8. ErrsForCause' BY <1>3 DEF ErrsForCause
<1> QED BY <1>4, <1>5, <1>7, <1>8

\* An error, when it has its cause.
LEMMA Error ==
  ASSUME IndexInv, at' = "answered", answer' = Failed,
         UNCHANGED <<repository, asked, globbed, moments>>, ErrsForCause'
  PROVE  IndexInv'
<1> USE DEF IndexInv, repository
<1>1. UNCHANGED <<tree, index, shared, tracked, writes>> OBVIOUS
<1>2. OnDisk' BY <1>1 DEF OnDisk
<1>3. InQuestion' /\ Linked' BY <1>1 DEF InQuestion, Linked
<1>4. AnswersAsTracked' BY DEF AnswersAsTracked, Answered
<1> QED BY <1>2, <1>3, <1>4

\* What Under and Paths are asked for, of a tree that has an index.
LEMMA Truths ==
  ASSUME NEW T, Paths(T), Own(tree) # None
  PROVE  /\ asked = "under" => Truth(T) = (\E p \in T : Under(p))
         /\ asked = "paths" => Truth(T) = T
<1>1. (\E p \in T : Under(p)) <=> \E p \in T : Covers(p) BY UnderAmong
<1>2. asked = "under" => (Truth(T) <=> \E p \in T : Covers(p)) /\ Truth(T) \in BOOLEAN
  BY DEF Truth
<1>3. asked = "paths" => Truth(T) = T BY DEF Truth
<1>4. asked = "under" => Truth(T) = (\E p \in T : Under(p)) BY <1>1, <1>2
<1> QED BY <1>3, <1>4

LEMMA Located ==
  ASSUME IndexInv, Locate PROVE IndexInv'
<1> USE DEF IndexInv
<1>1. at = "asked" /\ UNCHANGED <<repository, asked, globbed, linked, moments>> BY DEF Locate
<1>2. /\ linked = NoLink /\ tree \in Trees /\ tracked \in moments
      /\ asked \in {"under", "paths"}
  BY <1>1 DEF OnDisk, InQuestion
<1>3. CASE tree.git = "absent" /\ Done(No)
  <2>1. Own(tree) = None BY <1>3 DEF Own
  <2>2. answer' = Truth(tracked) /\ at' = "answered" BY <1>3, <2>1 DEF Truth, Done
  <2> QED BY <1>1, <1>2, <2>2, Answer
<1>4. CASE DirsFail(tree) /\ Done(Failed)
  <2>1. ErrsForCause' BY <1>1, <1>4 DEF ErrsForCause, repository
  <2>2. at' = "answered" /\ answer' = Failed BY <1>4 DEF Done
  <2> QED BY <1>1, <2>1, <2>2, Error
<1>5. CASE ~DirsFail(tree) /\ Own(tree) # None /\ index = Missing /\ Done(No)
  <2>1. tracked = {}
    <3>1. index \notin NewIndexes(tracked, shared, tree)
      <4> SUFFICES ASSUME index \in NewIndexes(tracked, shared, tree) PROVE FALSE OBVIOUS
      <4>1. IsIndex(index) BY IndexRead
      <4> QED BY <1>5, <4>1, Kinds
    <3> QED BY <3>1 DEF OnDisk
  <2>2. answer' = Truth(tracked) /\ at' = "answered"
    BY <1>2, <1>5, <2>1 DEF Truth, Done, No
  <2> QED BY <1>1, <1>2, <2>2, Answer
<1>6. CASE /\ ~DirsFail(tree) /\ Own(tree) # None /\ index # Missing /\ Config(tree) # None
           /\ at' = IF asked = "under" THEN "located" ELSE "reading"
           /\ located' = HashLen(tree) /\ UNCHANGED answer
  <2>1. UNCHANGED <<tree, index, shared, tracked>> BY <1>1 DEF repository
  <2>2. located' = tree.hash BY <1>2, <1>6, HashRead
  <2>3. at' \in {"located", "reading"} BY <1>6
  <2>4. OnDisk' BY <2>1 DEF OnDisk
  <2>5. InQuestion' BY <1>1, <1>2, <1>6, <2>1, <2>2, <2>3 DEF InQuestion
  <2>6. Own(tree') # None /\ at' # "answered" /\ at' # "linked" BY <1>6, <2>1, <2>3
  <2>7. Linked' /\ AnswersAsTracked' /\ ErrsForCause'
    BY <2>6 DEF Linked, AnswersAsTracked, Answered, ErrsForCause
  <2> QED BY <2>4, <2>5, <2>7
<1>7. CASE /\ ~DirsFail(tree) /\ Own(tree) # None /\ index # Missing /\ Config(tree) = None
           /\ Done(Failed)
  <2>1. ErrsForCause' BY <1>1, <1>7 DEF ErrsForCause, repository
  <2>2. at' = "answered" /\ answer' = Failed BY <1>7 DEF Done
  <2> QED BY <1>1, <2>1, <2>2, Error
<1> QED BY <1>3, <1>4, <1>5, <1>6, <1>7 DEF Locate

LEMMA Globbed ==
  ASSUME IndexInv, Glob PROVE IndexInv'
<1> USE DEF IndexInv
<1>1. /\ at = "located" /\ at' = "reading"
      /\ UNCHANGED <<repository, asked, located, linked, moments, answer>>
  BY DEF Glob
<1>2. UNCHANGED <<tree, index, shared, tracked>> BY <1>1 DEF repository
<1>3. OnDisk' BY <1>2 DEF OnDisk
<1>4. InQuestion' BY <1>1, <1>2 DEF InQuestion
<1>5. Linked' /\ AnswersAsTracked' /\ ErrsForCause'
  BY <1>1 DEF Linked, AnswersAsTracked, Answered, ErrsForCause
<1> QED BY <1>3, <1>4, <1>5

\* A file of the tree is decoded as long as it is an index: it was written with the
\* length that was located.
LEMMA Decoded ==
  ASSUME IndexInv, at \in {"reading", "linked"}
  PROVE  /\ Own(tree) # None /\ located = tree.hash
         /\ \/ Decodes(index) /\ index \in NewIndexes(tracked, shared, tree)
            \/ ~Decodes(index) /\ index = Garbage
<1> USE DEF IndexInv
<1>1. Own(tree) # None /\ located = tree.hash /\ index # Missing BY DEF InQuestion
<1>2. CASE index \in NewIndexes(tracked, shared, tree)
  <2>1. IsIndex(index) /\ index.hash = tree.hash BY <1>2, IndexRead
  <2> QED BY <1>1, <1>2, <2>1 DEF Decodes
<1>3. CASE index \notin NewIndexes(tracked, shared, tree)
  <2>1. index = Garbage BY <1>1, <1>3 DEF OnDisk
  <2> QED BY <1>1, <2>1, Kinds DEF Decodes
<1> QED BY <1>2, <1>3

LEMMA PlainRead ==
  ASSUME IndexInv, ReadPlain PROVE IndexInv'
<1> USE DEF IndexInv
<1>1. /\ at = "reading" /\ asked = "under" /\ ~globbed /\ at' = "answered"
      /\ answer' = IF Decodes(index) THEN FileTracks(index, {}) ELSE Failed
      /\ linked' = IF Decodes(index) THEN [NoLink EXCEPT !.base = index.base] ELSE NoLink
      /\ UNCHANGED <<repository, asked, globbed, moments>>
  BY DEF ReadPlain, Done
<1>2. UNCHANGED <<tree, index, shared, tracked>> BY <1>1 DEF repository
<1>3. Own(tree) # None /\ tracked \in moments BY <1>1, Decoded DEF InQuestion
<1>4. CASE ~Decodes(index)
  <2>1. index = Garbage /\ answer' = Failed BY <1>1, <1>4, Decoded
  <2>2. ErrsForCause' BY <1>2, <2>1 DEF ErrsForCause
  <2> QED BY <1>1, <2>1, <2>2, Error
<1>5. CASE Decodes(index)
  <2>1. index \in NewIndexes(tracked, shared, tree) BY <1>1, <1>5, Decoded, Kinds DEF Decodes
  <2>2. Paths(tracked) BY <2>1, IndexRead
  <2>3. Truth(tracked) = (\E p \in tracked : Under(p)) BY <1>1, <1>3, <2>2, Truths
  <2>4. answer' = FileTracks(index, {}) /\ FileTracks(index, {}) \in BOOLEAN
    BY <1>1, <1>5 DEF FileTracks
  <2>5. CASE index = Whole(tracked, tree)
    <3>1. FileTracks(index, {}) <=> \E p \in tracked : Under(p) BY <2>2, <2>5, WholeRead
    <3>2. answer' = Truth(tracked) BY <2>3, <2>4, <3>1
    <3> QED BY <1>1, <1>3, <3>2, Answer
  <2>6. CASE index # Whole(tracked, tree)
    <3>1. PICK B \in Tracked, r \in Splits :
                 /\ index \in SplitIndexes(tracked, B, r, index.base, tree)
                 /\ index.base # None /\ Paths(B)
      BY <2>1, <2>6, IndexRead
    <3>2. FileTracks(index, {}) => \E p \in tracked : Under(p)
      BY <2>2, <3>1, SplitFacts
    <3>3. CASE FileTracks(index, {})
      <4>1. answer' = Truth(tracked) BY <2>3, <2>4, <3>2, <3>3
      <4> QED BY <1>1, <1>3, <4>1, Answer
    <3>4. CASE ~FileTracks(index, {})
      <4>1. answer' = FALSE BY <2>4, <3>4
      <4>2. linked' = [NoLink EXCEPT !.base = index.base] BY <1>1, <1>5
      <4>3. linked'.base = index.base BY <4>2 DEF NoLink
      <4>4. FirstSplit' BY <1>1, <3>1, <4>3 DEF FirstSplit
      <4>5. AnswersAsTracked' BY <4>1, <4>4 DEF AnswersAsTracked
      <4>6. ErrsForCause' BY <4>1, AnswersAssumption DEF ErrsForCause
      <4>7. OnDisk' BY <1>2 DEF OnDisk
      <4>8. InQuestion' BY <1>1, <1>2 DEF InQuestion
      <4>9. Linked' BY <1>1 DEF Linked
      <4> QED BY <4>5, <4>6, <4>7, <4>8, <4>9
    <3> QED BY <3>3, <3>4
  <2> QED BY <2>5, <2>6
<1> QED BY <1>4, <1>5

LEMMA WholeIndexRead ==
  ASSUME IndexInv, ReadIndex PROVE IndexInv'
<1> USE DEF IndexInv
<1> DEFINE seen == asked = "under" /\ \E name \in NamesIn(index, {}) : Under(name)
<1>1. /\ at = "reading" /\ UNCHANGED <<repository, asked, located, globbed, moments>>
      /\ asked \in {"under", "paths"}
  BY DEF ReadIndex, InQuestion
<1>2. UNCHANGED <<tree, index, shared, tracked>> BY <1>1 DEF repository
<1>3. Own(tree) # None /\ tracked \in moments /\ located = tree.hash
  BY <1>1, Decoded DEF InQuestion
<1>4. CASE ~Decodes(index)
  <2>1. index = Garbage /\ answer' = Failed /\ at' = "answered"
    BY <1>1, <1>4, Decoded DEF ReadIndex, Done
  <2>2. ErrsForCause' BY <1>2, <2>1 DEF ErrsForCause
  <2> QED BY <1>1, <2>1, <2>2, Error
<1>5. CASE Decodes(index)
  <2>1. index \in NewIndexes(tracked, shared, tree) BY <1>1, <1>5, Decoded, Kinds DEF Decodes
  <2>2. Paths(tracked) /\ IsIndex(index) BY <2>1, IndexRead
  <2>3. asked = "under" => Truth(tracked) = (\E p \in tracked : Under(p)) BY <1>3, <2>2, Truths
  <2>4. asked = "paths" => Truth(tracked) = tracked BY <1>3, <2>2, Truths
  <2>5. CASE index = Whole(tracked, tree)
    <3>1. NamesIn(index, {}) = tracked BY <2>2, <2>5, WholeRead
    <3>2. index.base = None BY <2>2, <2>5, WholeFacts
    <3>3. CASE asked = "under" /\ \E p \in tracked : Under(p)
      <4>1. at' = "answered" /\ answer' = TRUE BY <1>5, <3>1, <3>3 DEF ReadIndex, Done
      <4>2. answer' = Truth(tracked) BY <2>3, <3>3, <4>1
      <4> QED BY <1>1, <1>3, <4>1, <4>2, Answer
    <3>4. CASE asked = "under" /\ ~\E p \in tracked : Under(p)
      <4>1. at' = "answered" /\ answer' = FALSE BY <1>5, <3>1, <3>2, <3>4 DEF ReadIndex, Done
      <4>2. answer' = Truth(tracked) BY <2>3, <3>4, <4>1
      <4> QED BY <1>1, <1>3, <4>1, <4>2, Answer
    <3>5. CASE asked = "paths"
      <4>1. asked # "under" BY <3>5
      <4>2. at' = "answered" /\ answer' = tracked BY <1>5, <3>1, <3>2, <4>1 DEF ReadIndex, Done
      <4> QED BY <1>1, <1>3, <2>4, <3>5, <4>2, Answer
    <3> QED BY <1>1, <3>3, <3>4, <3>5
  <2>6. CASE index # Whole(tracked, tree)
    <3>1. PICK B \in Tracked, r \in Splits :
                 /\ index \in SplitIndexes(tracked, B, r, index.base, tree)
                 /\ index.base \in 1..2 /\ index.base # None
                 /\ shared[index.base] = Whole(B, tree) /\ Paths(B)
      BY <2>1, <2>6, IndexRead
    <3>2. /\ NamesIn(index, {}) = tracked \ B
          /\ \A i \in 1..Len(Sorted(B)) : Holds(ewah(index.deleted), i - 1) <=> Sorted(B)[i] \notin tracked
      BY <2>2, <3>1, SplitFacts
    <3>3. CASE asked = "under" /\ \E p \in tracked \ B : Under(p)
      <4>1. at' = "answered" /\ answer' = TRUE BY <1>5, <3>2, <3>3 DEF ReadIndex, Done
      <4>2. answer' = Truth(tracked) BY <2>3, <3>3, <4>1
      <4> QED BY <1>1, <1>3, <4>1, <4>2, Answer
    <3>4. CASE ~(asked = "under" /\ \E p \in tracked \ B : Under(p))
      <4>1. /\ at' = "linked"
            /\ linked' = [base |-> index.base, deleted |-> ewah(index.deleted), names |-> NamesIn(index, {})]
        BY <1>5, <3>1, <3>2, <3>4 DEF ReadIndex
      <4>2. /\ linked'.base = index.base /\ linked'.names = tracked \ B
            /\ linked'.deleted = ewah(index.deleted)
        BY <3>2, <4>1
      <4>3. LinkRead(tracked, B)'
        <5>1. linked'.names = tracked' \ B BY <1>2, <4>2
        <5>2. shared'[linked'.base] = Whole(B, tree') BY <1>2, <3>1, <4>2
        <5>3. \A i \in 1..Len(Sorted(B)) : Holds(linked'.deleted, i - 1) <=> Sorted(B)[i] \notin tracked'
          BY <1>2, <3>2, <4>2
        <5>4. asked' = "under" => \A p \in tracked' \ B : ~Under(p) BY <1>1, <1>2, <3>4
        <5> QED BY <5>1, <5>2, <5>3, <5>4 DEF LinkRead
      <4>4. Linked'
        <5>1. IsIndex(index') /\ linked'.base \in 1..2 /\ tracked' \in moments'
          BY <1>1, <1>2, <1>3, <2>2, <3>1, <4>2
        <5> QED BY <4>3, <5>1 DEF Linked
      <4>5. OnDisk' BY <1>2 DEF OnDisk
      <4>6. InQuestion' BY <1>1, <1>2, <4>1 DEF InQuestion
      <4>7. AnswersAsTracked' /\ ErrsForCause' BY <4>1 DEF AnswersAsTracked, Answered, ErrsForCause
      <4> QED BY <4>4, <4>5, <4>6, <4>7
    <3> QED BY <3>3, <3>4
  <2> QED BY <2>5, <2>6
<1> QED BY <1>4, <1>5

LEMMA SharedIndexRead ==
  ASSUME IndexInv, ReadShared PROVE IndexInv'
<1> USE DEF IndexInv
<1>1. /\ at = "linked" /\ at' = "answered"
      /\ answer' = IF ~Decodes(shared[linked.base]) THEN Failed
                   ELSE IF asked = "under" THEN FileTracks(shared[linked.base], linked.deleted)
                   ELSE linked.names \cup NamesIn(shared[linked.base], linked.deleted)
      /\ UNCHANGED <<repository, asked, located, globbed, linked, moments>>
      /\ asked \in {"under", "paths"}
  BY DEF ReadShared, Done, InQuestion
<1>2. UNCHANGED <<tree, index, shared, tracked>> BY <1>1 DEF repository
<1>3. Own(tree) # None /\ located = tree.hash /\ moments \subseteq Tracked
  BY <1>1, Decoded DEF InQuestion
<1>4. IsIndex(index) /\ linked.base \in 1..2 BY <1>1 DEF Linked
<1>5. PICK T \in moments, B \in Tracked : LinkRead(T, B) BY <1>1 DEF Linked
<1>6. Paths(T) /\ Paths(B) BY <1>3, TrackedArePaths
<1> DEFINE file == shared[linked.base]
<1>7. CASE file = Expired
  <2>1. ~IsIndex(file) BY <1>7, Kinds
  <2>2. answer' = Failed
    <3>1. ~Decodes(file) BY <2>1 DEF Decodes
    <3> QED BY <1>1, <3>1
  <2>3. index \in NewIndexes(tracked, shared, tree) BY <1>4, Kinds DEF OnDisk
  <2>4. linked.base # None /\ index.base # linked.base
    <3>1. linked.base # None BY <1>4, NoneAssumption
    <3>2. index.base = None \/ IsIndex(shared[index.base])
      <4>1. \A C : IsIndex(Whole(C, tree)) BY Kinds
      <4> QED BY <2>3, <4>1, IndexRead
    <3> QED BY <2>1, <3>1, <3>2
  <2>5. ErrsForCause' BY <1>1, <1>2, <2>4 DEF ErrsForCause
  <2> QED BY <1>1, <2>2, <2>5, Error
<1>8. CASE file = Whole(B, tree)
  <2>1. Decodes(file) BY <1>3, <1>6, <1>8, WholeFacts DEF Decodes
  <2> DEFINE deleted == linked.deleted
  <2>2. \A i \in 1..Len(Sorted(B)) : Holds(deleted, i - 1) <=> Sorted(B)[i] \notin T
    BY <1>5 DEF LinkRead
  <2> HIDE DEF deleted
  <2>3. /\ FileTracks(Whole(B, tree), deleted) <=> \E p \in B \cap T : Under(p)
        /\ NamesIn(Whole(B, tree), deleted) = B \cap T
    BY <1>6, <2>2, SharedRead
  <2>4. CASE asked = "under"
    <3>1. Truth(T) = (\E p \in T : Under(p)) BY <1>3, <1>6, <2>4, Truths
    <3>2. \A p \in T \ B : ~Under(p) BY <1>5, <2>4 DEF LinkRead
    <3>3. FileTracks(file, deleted) <=> \E p \in T : Under(p) BY <1>8, <2>3, <3>2
    <3>4. answer' = FileTracks(file, deleted) BY <1>1, <2>1, <2>4 DEF deleted
    <3>5. FileTracks(file, deleted) \in BOOLEAN BY DEF FileTracks
    <3>6. answer' = Truth(T)
      <4> HIDE DEF file
      <4> QED BY <3>1, <3>3, <3>4, <3>5
    <3> QED BY <1>1, <3>6, Answer
  <2>5. CASE asked = "paths"
    <3>1. Truth(T) = T BY <1>3, <1>6, <2>5, Truths
    <3>2. asked # "under" BY <2>5
    <3>3. answer' = linked.names \cup NamesIn(file, deleted) BY <1>1, <2>1, <3>2 DEF deleted
    <3>4. linked.names = T \ B BY <1>5 DEF LinkRead
    <3>5. NamesIn(file, deleted) = B \cap T BY <1>8, <2>3
    <3>6. answer' = (T \ B) \cup (B \cap T) BY <3>3, <3>4, <3>5
    <3>7. answer' = Truth(T) BY <3>1, <3>6
    <3> QED BY <1>1, <3>7, Answer
  <2> QED BY <1>1, <2>4, <2>5
<1> QED BY <1>5, <1>7, <1>8 DEF LinkRead

-----------------------------------------------------------------------------
LEMMA Stuttering == ASSUME IndexInv, UNCHANGED indexVars PROVE IndexInv'
<1>1. UNCHANGED <<tree, index, shared, tracked, asked, at, located, globbed, linked, moments, answer>>
  BY DEF indexVars, repository
<1>2. OnDisk' /\ InQuestion' BY <1>1 DEF IndexInv, OnDisk, InQuestion
<1>3. Linked' BY <1>1 DEF IndexInv, Linked, LinkRead
<1>4. AnswersAsTracked' BY <1>1 DEF IndexInv, AnswersAsTracked, Answered, FirstSplit, Truth, No
<1>5. ErrsForCause' BY <1>1 DEF IndexInv, ErrsForCause
<1> QED BY <1>2, <1>3, <1>4, <1>5 DEF IndexInv

\* The invariant of a question: git's files are as git writes them, and what has been
\* read of them so far was true at a moment since it was asked.
THEOREM IndexInvariant == IndexSpec => []IndexInv
<1>1. IndexInit => IndexInv BY InitiallyIndexed
<1>2. IndexInv /\ [IndexNext]_indexVars => IndexInv'
  <2> SUFFICES ASSUME IndexInv, [IndexNext]_indexVars PROVE IndexInv' OBVIOUS
  <2>1. CASE WriteShared BY <2>1, SharedWritten
  <2>2. CASE WriteIndex BY <2>2, IndexWritten
  <2>3. CASE Expire BY <2>3, SharedExpired
  <2>4. CASE Locate BY <2>4, Located
  <2>5. CASE Glob BY <2>5, Globbed
  <2>6. CASE ReadPlain BY <2>6, PlainRead
  <2>7. CASE ReadIndex BY <2>7, WholeIndexRead
  <2>8. CASE ReadShared BY <2>8, SharedIndexRead
  <2>9. CASE UNCHANGED indexVars BY <2>9, Stuttering
  <2> QED BY <2>1, <2>2, <2>3, <2>4, <2>5, <2>6, <2>7, <2>8, <2>9 DEF IndexNext
<1> QED BY <1>1, <1>2, PTL DEF IndexSpec

\* The answer is what git tracked at a moment of the question, for every directory, every
\* set of paths, every split and every radix: no early stop, deletion, prefix or letter
\* case loses a path or makes one up.
THEOREM AnswersAsTrackedHolds == IndexSpec => []AnswersAsTracked
<1>1. IndexInv => AnswersAsTracked BY DEF IndexInv
<1> QED BY <1>1, IndexInvariant, PTL

\* An index is unreadable only for a cause on disk, whatever a config says.
THEOREM ErrsForCauseHolds == IndexSpec => []ErrsForCause
<1>1. IndexInv => ErrsForCause BY DEF IndexInv
<1> QED BY <1>1, IndexInvariant, PTL
=============================================================================
