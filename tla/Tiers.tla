------------------------------- MODULE Tiers -------------------------------
(***************************************************************************)
(* The load (internal/rule/load.go): three tiers of rule files read one    *)
(* after the other while git and editors may be changing them, then        *)
(* Shadowing resolved on what was read.                                    *)
(*                                                                         *)
(* A rule's identity is its file's name, so one name stands for all: what  *)
(* a tier holds under a name is one of the kinds of file below.            *)
(***************************************************************************)
EXTENDS Naturals, FiniteSets

CONSTANTS Names,        \* the basenames of rule files
          BeforeLocal,  \* the names that sort before "local/"
          MaxEdits      \* bound: changes to the disk during one load

ASSUME NamesAssumption == BeforeLocal \subseteq Names
ASSUME EditsAssumption == MaxEdits \in Nat

\* What a tier can hold under a name: no file; one that does not parse; a rule that
\* is on; a stub that switches the name off; a rule with agent_only; the same name
\* twice, in two directories of the tier.
Files == {"absent", "broken", "on", "off", "quiet", "twice"}
Parsed(f) == f \in {"on", "off", "quiet", "twice"}
\* load makes a Problem of a file that does not parse, unique of a repeated name.
Problem(f) == f \in {"broken", "twice"}

\* Why .handrail/local/ is, or is not, the user's own: demotion's three reasons.
Supplies == {"user", "tracked", "symlink", "badindex"}

Dirs == {"global", "shared", "local"}
Tier == {"global", "project-shared", "project-personal"}

VARIABLES
  disk,     \* [Dirs -> [Names -> Files]]
  supply,   \* who supplies .handrail/local/
  granted,  \* the root is in the trust record
  placed,   \* the directories that are named: Global needs a home, the others a cwd
  step,     \* how far the load is
  got,      \* the files each walk read
  demoted,  \* demotion's answer
  trusted,  \* isTrusted's answer
  edits,    \* changes to the disk so far
  steady    \* no change came between demotion and the last walk

env == <<disk, supply, granted, placed>>
vars == <<env, step, got, demoted, trusted, edits, steady>>

Nothing == [n \in Names |-> "absent"]

\* demotion looks for the directory first: nothing to demote where it is absent.
IsDemoted == supply # "user" /\ disk["local"] # Nothing

Init ==
  /\ disk \in [Dirs -> [Names -> Files]]
  /\ supply \in Supplies
  /\ granted \in BOOLEAN
  /\ placed \in {Dirs, {"global"}, {"shared", "local"}}
  /\ step = "global"
  /\ got = [d \in Dirs |-> Nothing]
  /\ demoted = FALSE /\ trusted = FALSE
  /\ edits = 0 /\ steady = TRUE

Walk(d) == IF d \in placed THEN disk[d] ELSE Nothing

GatherGlobal ==
  /\ step = "global" /\ step' = "demotion"
  /\ got' = [got EXCEPT !["global"] = Walk("global")]
  /\ UNCHANGED <<env, demoted, trusted, edits, steady>>

\* Without a root there is no local directory to ask about.
CheckDemotion ==
  /\ step = "demotion" /\ step' = "trust"
  /\ demoted' = ("local" \in placed /\ IsDemoted)
  /\ UNCHANGED <<env, got, trusted, edits, steady>>

\* isTrusted.
ReadTrust ==
  /\ step = "trust" /\ step' = "shared"
  /\ trusted' = ("shared" \in placed /\ granted)
  /\ UNCHANGED <<env, got, demoted, edits, steady>>

GatherShared ==
  /\ step = "shared" /\ step' = "local"
  /\ got' = [got EXCEPT !["shared"] = Walk("shared")]
  /\ UNCHANGED <<env, demoted, trusted, edits, steady>>

\* The same walk goes on into .handrail/local/ when it is demoted, and a second tier's
\* walk reads it when it is not.
GatherLocal ==
  /\ step = "local" /\ step' = "done"
  /\ got' = [got EXCEPT !["local"] = Walk("local")]
  /\ UNCHANGED <<env, demoted, trusted, edits, steady>>

\* An editor, a checkout or `handrail trust` in the middle of it.
Edit ==
  /\ step # "done" /\ edits < MaxEdits
  /\ edits' = edits + 1
  /\ \/ \E d \in Dirs, n \in Names, f \in Files : disk' = [disk EXCEPT ![d][n] = f]
        /\ UNCHANGED <<supply, granted>>
     \/ supply' \in {"user", "tracked"} /\ UNCHANGED <<disk, granted>>
     \/ granted' = TRUE /\ UNCHANGED <<disk, supply>>
  /\ steady' = (steady /\ step \notin {"trust", "shared", "local"})
  /\ UNCHANGED <<placed, step, got, demoted, trusted>>

Next == GatherGlobal \/ CheckDemotion \/ ReadTrust \/ GatherShared \/ GatherLocal \/ Edit

Spec == Init /\ [][Next]_vars

-----------------------------------------------------------------------------
\* What the load makes of what it read.

\* A parsed file as a rule of a tier.  agent_only is taken from a shared one.
Rule(n, d, tier) ==
  [name |-> n, dir |-> d, tier |-> tier,
   enabled |-> got[d][n] # "off",
   agentOnly |-> got[d][n] = "quiet" /\ tier # "project-shared",
   lostAgentOnly |-> got[d][n] = "quiet" /\ tier = "project-shared"]

\* Demoted, the two directories are one tier: of one name in both, unique keeps the
\* path that sorts first and reports the other.
KeepsLocal(n) == Parsed(got["local"][n]) /\ (n \in BeforeLocal => ~Parsed(got["shared"][n]))
KeepsShared(n) == Parsed(got["shared"][n]) /\ (demoted => ~KeepsLocal(n))

GlobalRules == {Rule(n, "global", "global") : n \in {m \in Names : Parsed(got["global"][m])}}
SharedRules ==
  {Rule(n, "shared", "project-shared") : n \in {m \in Names : KeepsShared(m)}}
  \cup (IF demoted
          THEN {Rule(n, "local", "project-shared") : n \in {m \in Names : KeepsLocal(m)}}
          ELSE {})
PersonalRules ==
  IF demoted THEN {}
  ELSE {Rule(n, "local", "project-personal") : n \in {m \in Names : Parsed(got["local"][m])}}

\* Mutant: an untrusted tier is kept.
Rules_Ungated == GlobalRules \cup SharedRules \cup PersonalRules

\* An untrusted tier is read, then dropped.
Rules == GlobalRules \cup (IF trusted THEN SharedRules ELSE {}) \cup PersonalRules
Untrusted == IF trusted THEN {} ELSE SharedRules

\* The files that could not be used, in the tiers that count and in the one that
\* does not.
ProblemsIn(d) == {n \in Names : Problem(got[d][n])}
Repeated == {n \in Names : demoted /\ Parsed(got["local"][n]) /\ Parsed(got["shared"][n])}

\* Mutant: unique drops a repeated name without a word.
SharedProblems_NoRepeats ==
  ProblemsIn("shared") \cup (IF demoted THEN ProblemsIn("local") ELSE {})

SharedProblems ==
  ProblemsIn("shared") \cup (IF demoted THEN ProblemsIn("local") ELSE {}) \cup Repeated
Problems ==
  ProblemsIn("global") \cup (IF trusted THEN SharedProblems ELSE {})
  \cup (IF demoted THEN {} ELSE ProblemsIn("local"))

\* Ruleset.Unreadable: a tier with no directory, or a Problem in one that counts.
Unreadable == placed # Dirs \/ Problems # {}

\* The sentence trust owes the user.
Skipped == ~trusted /\ (SharedRules # {} \/ SharedProblems # {})

\* Shadowing.  byName starts with the Global files that did not parse, and each tier
\* then enters its rules over the ones below it.
NoRule == [tier |-> "none"]
Unparsed == [tier |-> "global"]
ByName0(n) == IF Problem(got["global"][n]) THEN Unparsed ELSE NoRule
Enter(rules, below, n) ==
  IF \E r \in rules : r.name = n THEN CHOOSE r \in rules : r.name = n ELSE below
AfterGlobal(n) == Enter(GlobalRules, ByName0(n), n)

\* Mutant: the shared tier may replace a Global rule, as the personal one may.
Dropped_Never(r) == FALSE

\* Mutant: only a Global file that parsed keeps a shared namesake out.
Dropped_ParsedOnly(r) ==
  r.tier = "project-shared" /\ \E g \in GlobalRules : g.name = r.name

\* A shared file naming a Global one takes no part.
Dropped(r) == r.tier = "project-shared" /\ AfterGlobal(r.name).tier = "global"

\* Mutant: tiers entered in the wrong order, the personal one below the shared.
ByName_SharedLast(n) ==
  Enter({r \in Rules : r.tier = "project-shared" /\ ~Dropped(r)},
        Enter({r \in Rules : r.tier = "project-personal"}, AfterGlobal(n), n), n)

ByName(n) ==
  Enter({r \in Rules : r.tier = "project-personal"},
        Enter({r \in Rules : r.tier = "project-shared" /\ ~Dropped(r)}, AfterGlobal(n), n), n)

Shadowed(r) == ~Dropped(r) /\ ByName(r.name) # r
Live(r) == r.enabled /\ ~Shadowed(r) /\ ~Dropped(r)
Effective == {r \in Rules : Live(r)}

-----------------------------------------------------------------------------
\* No answer about the project is kept when there is no project.
TypeOK ==
  /\ disk \in [Dirs -> [Names -> Files]] /\ got \in [Dirs -> [Names -> Files]]
  /\ supply \in Supplies /\ placed \subseteq Dirs
  /\ granted \in BOOLEAN /\ demoted \in BOOLEAN /\ trusted \in BOOLEAN /\ steady \in BOOLEAN
  /\ step \in {"global", "demotion", "trust", "shared", "local", "done"}
  /\ edits \in 0..MaxEdits
  /\ trusted => "shared" \in placed
  /\ demoted => "local" \in placed

\* The files under n that have a say, tier by tier.
OwnFile(n) == IF demoted THEN "absent" ELSE got["local"][n]
SharedFile(n) ==
  IF KeepsShared(n) THEN got["shared"][n]
  ELSE IF demoted /\ KeepsLocal(n) THEN got["local"][n] ELSE "absent"

\* Precedence, said once for a name: the user's own project file if it parses, else
\* the Global file if there is one, parsed or not, else the shared one if trusted.
Winner(n) ==
  CASE Parsed(OwnFile(n)) -> [tier |-> "project-personal", file |-> OwnFile(n)]
    [] ~Parsed(OwnFile(n)) /\ got["global"][n] # "absent" ->
         [tier |-> "global", file |-> got["global"][n]]
    [] OTHER -> [tier |-> "project-shared",
                 file |-> IF trusted THEN SharedFile(n) ELSE "absent"]

\* The rules that can fire are exactly the winners that are switched on: shadow's two
\* passes over the tiers, byName, DroppedBy and ShadowedBy agree with Precedence.
\* No name has two live rules, and a file that does not parse never silences one.
PrecedenceHolds ==
  step = "done" => \A n \in Names :
    {r.tier : r \in {q \in Effective : q.name = n}}
      = IF Winner(n).file \in {"on", "quiet", "twice"} THEN {Winner(n).tier} ELSE {}

\* shadow's comment: dropping shared namesakes of Global rules "leaves at most one rule
\* for any shadow to replace", so Replaces, a single pointer, forgets nothing.
ReplacesOne ==
  step = "done" => \A n \in Names :
    Cardinality({r \in Rules : r.name = n /\ Shadowed(r)}) <= 1

\* No rule the repository supplies can fire before the user granted the root, speaks
\* to the agent alone, or carries a name the user's Global tier holds, though the disk
\* changes under the load, as long as who supplies the local tier does not change
\* between demotion and the walk.
RepositoryGated ==
  step = "done" /\ steady => \A r \in Effective :
    (r.dir = "shared" \/ (r.dir = "local" /\ supply # "user")) =>
      /\ granted /\ ~r.agentOnly
      /\ got["global"][r.name] = "absent"

\* Nothing is lost without a word: every file read is a rule that counts, or makes
\* the event's payloads unreadable, or is in a tier whose skipping the user is told.
NothingLostSilently ==
  step = "done" => \A d \in Dirs, n \in Names :
    got[d][n] # "absent" =>
      \/ \E r \in Rules : r.name = n /\ r.dir = d /\ got[d][n] # "twice"
      \/ Unreadable
      \/ Skipped
=============================================================================
