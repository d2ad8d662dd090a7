----------------------------- MODULE MCInstall -----------------------------
(* Values for Install: a file of every kind for one harness at a time. *)
EXTENDS Install, TLC

CONSTANTS s1, s2, old, new

MCHarnesses == <<"claude", "codex", "omp">>
MCEvents == {"PreToolUse", "Stop"}

Hook(b, e, q) == [bin |-> b, event |-> e, qualifier |-> q]
UserHook == Hook("user", "PreToolUse", "none")

\* What the list of PreToolUse may hold.
Lists ==
  { <<>>,
    <<Odd>>,
    <<Entry(new, "PreToolUse")>>,
    <<Entry(old, "PreToolUse"), Entry(new, "PreToolUse")>>,
    <<Entry(new, "PreToolUse"), Group("some", <<UserHook>>)>>,
    <<Group("some", <<UserHook, Hook(old, "PreToolUse", "none")>>), Odd>>,
    <<Group("none", <<Hook(new, "PreToolUse", "if"), UserHook, Hook(new, "PreToolUse", "async")>>)>>,
    <<Group("none", <<Hook(new, "Stop", "none")>>), Group("some", <<>>)>>,
    <<Group("no list", <<>>)>> }

File(list, stop, rest, tidy, mode) ==
  Settings([e \in MCEvents |-> IF e = "Stop" THEN stop ELSE list], rest, tidy, mode)

Usual == File(<<>>, <<>>, "k1", TRUE, "shared")
MCRounded ==
  [r \in {"none", "k1", "k2", "long number", "short number"} |->
     IF r = "long number" THEN "short number" ELSE r]
Listed(list, tidy) == File(list, <<Entry(new, "Stop")>>, "k1", tidy, "shared")
Modules ==
  {Missing, Foreign, Irregular, Module(old, TRUE, "shared"), Module(new, TRUE, "shared"),
   Module(new, FALSE, "private")}

\* One of the JSON harnesses, and omp.
Two(h, f, m) ==
  [g \in Range(MCHarnesses) |-> IF g = h THEN f ELSE IF g = "omp" THEN m ELSE Nowhere]
Exclude(lines, open) == [lines |-> lines, open |-> open]
MCExcludes ==
  { Exclude(<<>>, FALSE), Exclude(<<"theirs">>, FALSE), Exclude(<<"theirs">>, TRUE),
    Exclude(<<"ours", "theirs">>, TRUE) }

\* Every file in a directory git has nothing to do with; every exclude file with
\* nothing but omp's module to write.
Files ==
  {Two("claude", Listed(l, t), Missing) : l \in Lists, t \in BOOLEAN}
  \cup {Two("claude", f, Module(old, TRUE, "shared")) : f \in {Missing, Broken, Null, Nowhere}}
  \cup {Two("codex", Listed(l, TRUE), Nowhere) : l \in Lists}
  \cup {Two("codex", Usual, m) : m \in Modules}
  \cup {Two("claude", File(<<>>, <<Entry(new, "Stop")>>, "long number", FALSE, "shared"), Nowhere)}
Start(f, x, t) == [file |-> f, exclude |-> x, tree |-> t]
MCStarts ==
  {Start(f, Exclude(<<>>, FALSE), "none") : f \in Files}
  \cup {Start(Two("claude", Nowhere, Missing), x, "tree") : x \in MCExcludes}
  \cup {Start(Two("claude", Nowhere, Missing), Exclude(<<>>, FALSE), "error")}
NullStarts == {Start(Two("claude", Null, Missing), Exclude(<<>>, FALSE), "none")}

MCEdits ==
  { <<"claude", File(<<Group("some", <<UserHook>>)>>, <<>>, "k2", FALSE, "private")>>,
    <<"claude", Missing>>, <<"omp", Foreign>>, <<"omp", Irregular>> }

Symmetry == Permutations({s1, s2})
=============================================================================
