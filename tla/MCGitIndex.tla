----------------------------- MODULE MCGitIndex ------------------------------
\* The directory a/b, asked about in trees of every kind.
EXTENDS GitIndex

a == 13  b == 14  A == 3

MCDir == <<a, Slash, b>>

\* Above it, in it in two cases, past it before and after its slash.
MCTracked ==
  { {}, {<<a>>}, {<<a, Slash>>}, {<<a, Slash, b, Slash, a>>},
    {<<A, Slash, b, Slash, a>>, <<a, Slash, b, Dot, a>>},
    {<<a, Slash, a>>, <<a, Slash, b, Dot, a>>, <<b>>},
    {<<a, Slash, a>>, <<a, Slash, b, Dot, a>>, <<a, Slash, b, Slash, a>>, <<b>>} }

MCSplits == { {}, {<<a, Slash, a>>, <<a, Slash, b, Slash, a>>} }

Head_(s) == [section |-> s, key |-> None, value |-> None]
Format(v) == [section |-> None, key |-> "objectformat", value |-> v]
Sha256 == <<Head_("core"), Head_("extensions"), Format("sha256")>>
Sha1 == <<Head_("extensions"), Head_("other"), Format("sha256")>>

Tree(git, commondir, main, own, hash, version) ==
  [git |-> git, commondir |-> commondir, config |-> [main |-> main, own |-> own],
   hash |-> hash, version |-> version]

MCTrees ==
  { Tree("dir", None, Sha1, <<>>, "sha1", 4), Tree("pointer", "main", Sha256, <<>>, "sha256", 2),
    Tree("pointer", None, Sha1, Sha256, "sha256", 4), Tree("absent", None, <<>>, <<>>, "sha1", 2),
    Tree("empty", None, <<>>, <<>>, "sha1", 2), Tree("unread", None, <<>>, <<>>, "sha1", 2),
    Tree("pointer", "unread", Sha1, Sha1, "sha1", 4), Tree("pointer", None, Sha1, None, "sha1", 2) }
=============================================================================
