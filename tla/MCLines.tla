------------------------------ MODULE MCLines ------------------------------
\* Small grammars, one flag of each arity and effect, and the lines made from them:
\* every way of wrapping a command, and pairs of ways.
EXTENDS Bash

MCShells == {"sh", "bash"}
MCWrappers ==
     <<"timeout">> :> [Grammar EXCEPT !.takes = "k" :> "one" @@ "v" :> "none" @@ "--kill" :> "one", !.operands = 1]
  @@ <<"command">> :> [Grammar EXCEPT !.takes = "p" :> "none" @@ "v" :> "none", !.stop = {"v"}]
  @@ <<"sudo">> :> [Grammar EXCEPT !.takes = "h" :> "either" @@ "e" :> "none" @@ "n" :> "none" @@ "u" :> "one",
                                   !.stop = {"e"}, !.assigns = TRUE]
  @@ <<"env">> :> [Grammar EXCEPT !.takes = "i" :> "none" @@ "S" :> "one" @@ "u" :> "one",
                                  !.script = {"S"}, !.splits = TRUE, !.assigns = TRUE]
  @@ <<"xargs">> :> [Grammar EXCEPT !.takes = "i" :> "attached" @@ "I" :> "one", !.detaches = TRUE]
  @@ <<"watch">> :> [Grammar EXCEPT !.takes = "n" :> "one", !.joined = TRUE]
  @@ <<"flock">> :> [Grammar EXCEPT !.takes = "n" :> "none", !.operands = 1, !.dashC = TRUE]
  @@ <<"su">> :> [Grammar EXCEPT !.takes = "c" :> "one" @@ "l" :> "none", !.script = {"c"}, !.permute = TRUE]
  @@ <<"mise", "exec">> :> [Grammar EXCEPT !.takes = "c" :> "one", !.script = {"c"}, !.permute = TRUE]
MCPrograms ==
     <<"rm">> :> [Grammar EXCEPT !.takes = "f" :> "none", !.writes = TRUE]
  @@ <<"cat">> :> [Grammar EXCEPT !.takes = "n" :> "none"]
  @@ <<"cp">> :> [Grammar EXCEPT !.takes = "S" :> "either" @@ "t" :> "one" @@ "r" :> "none",
                                 !.writes = TRUE, !.last = TRUE, !.target = {"t"}]
  @@ <<"sed">> :> [Grammar EXCEPT !.takes = "e" :> "one" @@ "f" :> "one" @@ "i" :> "rest" @@ "l" :> "either",
                                  !.writes = TRUE, !.first = TRUE, !.pattern = {"e"}, !.patternFile = {"f"}, !.writeMode = {"i"}]
  @@ <<"sort">> :> [Grammar EXCEPT !.takes = "o" :> "one" @@ "--output" :> "one" @@ "r" :> "none", !.output = {"o", "--output"}]
  @@ <<"jq">> :> [Grammar EXCEPT !.takes = "f" :> "none" @@ "--rawfile" :> "two" @@ "--args" :> "none",
                                 !.first = TRUE, !.patternFile = {"f"}, !.input = {"--rawfile"}, !.ends = {"--args"}]
  @@ <<"git">> :> [Grammar EXCEPT !.takes = "C" :> "one" @@ "p" :> "none" @@ "--work-tree" :> "one"]
  @@ <<"git", "grep">> :> [Grammar EXCEPT !.takes = "e" :> "one" @@ "n" :> "none", !.first = TRUE, !.pattern = {"e"}]

\* Implementations, by the flags that take an argument in them: those two programs
\* disagree on, and two that no grammar has.
MCDialects == {{}, {"h", "Z"}, {"S", "i"}, {"i", "l", "--odd"}, {"h", "S", "i", "l", "Z", "--odd"}}

-----------------------------------------------------------------------------
F(l) == Flags("-" \o l, <<l>>)
Dashes == Word("--")
RmEnv == <<Word("rm"), Word("env")>>
RmBoth == <<Word("rm"), Word("./env"), Glob("*")>>
Git == <<Word("git"), Word("status")>>

Wd(n) == Word(n)
\* Ways a command t is run by another that takes it as its own last words.
Prefixed(t) ==
  { words \o t : words \in
      { <<Wd("timeout"), F("k"), Wd("a"), Wd("a")>>, <<Wd("timeout"), Long("--kill", <<Wd("a")>>), F("v"), Wd("a")>>,
        <<Wd("timeout"), Long("--odd", <<>>), Wd("a")>>, <<Wd("timeout"), F("Z"), Wd("a")>>,
        <<Wd("command"), F("p")>>, <<Wd("command"), F("v")>>, <<Wd("sudo"), F("e")>>, <<Wd("sudo"), F("u"), Wd("a")>>,
        <<Wd("sudo"), Flags("-hn", <<"h", "n">>), Assign("A=1")>>, <<Assign("A=1")>>,
        <<Wd("env"), F("i"), Assign("A=1")>>, <<Wd("env"), Wd("-"), Dashes>>,
        <<Wd("xargs"), F("i")>>, <<Wd("xargs"), F("I"), Wd("a")>>, <<Wd("flock"), Wd("a")>>,
        <<Wd("mise"), Wd("exec"), Wd("a"), Dashes>>, <<Wd("eval"), Dashes>> } }
\* Ways that read it otherwise: in two ways, as code, in a word, in a group, as input.
\* env splits its string into words; it is no shell.
Nested(t) ==
  { <<Wd("sudo"), F("h")>> \o t, <<Wd("xargs")>> \o t, <<Wd("watch"), F("n"), Wd("a")>> \o t,
    <<Wd("flock"), F("n"), Wd("a"), F("c"), Single(t)>>,
    <<Wd("su"), F("c"), Single(t), Wd("a")>>, <<Wd("su"), Wd("a"), Tok("flags", "-c", <<"l", "c">>, t)>>,
    <<Wd("find"), Wd("src"), F("exec")>> \o t \o <<Single(<<Op(";")>>), F("exec"), Wd("cat"), Wd("{}"), Wd("+")>>,
    <<Wd("sh"), F("c"), Single(t)>>, <<Wd("/bin/sh"), Flags("-ec", <<"e", "c">>), Double(t), Wd("a")>>,
    <<Wd("sh"), F("o"), Wd("a"), F("c"), Single(t)>>,
    <<Wd("sh"), F("s"), Wd("a"), Redir("<<'", t)>>, <<Wd("bash"), Redir("<<", t)>>, <<Wd("bash"), Redir("<<<", <<Double(t)>>)>>,
    <<Wd("sh"), Wd("a"), Redir("<<", t)>>, <<Wd("eval"), Single(t)>>,
    <<Wd("cat"), Subst(t)>>, <<Wd("export"), Double(<<Subst(t)>>)>>, <<Group(t)>>,
    <<Wd("git"), Op("|"), Wd("timeout"), Wd("a")>> \o t, <<Wd("git"), Op("|"), Group(t)>>,
    <<Wd("git"), Op("|"), Wd("sh"), F("c"), Single(t)>>, <<Wd("git"), Op("|"), Wd("cat"), Subst(t)>>,
    <<Wd("git"), Op("|"), Wd("export"), Double(<<Subst(t)>>)>>, <<Group(t), RedirOn("0", "<", <<Wd("src")>>)>>,
    t \o <<RedirOn("3", "<", <<Wd("src")>>)>>, t \o <<Redir("<&", <<Wd("3")>>)>> }
  \cup (IF \E i \in DOMAIN t : ~Is({"word", "flags", "long", "single", "assign"}, t[i]) THEN {}
        ELSE {<<Wd("env"), F("S"), Single(t), Wd("a")>>, <<Wd("env"), Tok("flags", "-S", <<"S">>, t)>>,
              <<Wd("git"), Op("|"), Wd("env"), F("S"), Single(t)>>})
Wraps(t) == Prefixed(t) \cup Nested(t)

\* What is read from a pipe or a file; what an expansion, a quote or a cut line hides.
Cores ==
  { RmEnv, <<Single(<<Word("rm")>>), Double(<<Word("env")>>)>>, <<Word("rm"), Var("$X")>>, <<Var("$X"), Word("env")>>,
    <<Word("sh")>>, <<Word("sh"), Redir("<", <<Word("src")>>)>>, Git \o <<Op("|")>> \o <<Word("sh")>>,
    <<Word("rm"), Word("env"), Redir(">", <<Double(<<Word("src")>>)>>)>>, Git \o <<Op("(")>> }

\* Listed programs, with their flags in every place.
FileUses ==
  LET A == Word("a")
      B == Word("b") IN
  { <<Word("rm"), F("f"), Dashes, F("f"), Word("-")>>, <<Word("rm"), Glob("*"), Word("./env")>>, <<Word("rm"), F("Z"), A>>,
    <<Word("cp"), A, B, Word("src")>>, <<Word("cp"), F("S"), A, B, Word("src")>>, <<Word("cp"), F("t"), Word("src"), A, B>>,
    <<Word("cp"), Flags("-rt", <<"r", "t">>), Word("src"), A>>, <<Word("cp"), Long("--odd", <<>>), A, Dashes, B>>,
    <<Word("cp"), A, Word("-")>>, <<Word("sed"), A, B>>, <<Word("sed"), F("i"), A, B, Word("src")>>,
    <<Word("sed"), Tok("flags", "-i", <<"i">>, <<Word("a")>>), A, B>>, <<Word("sed"), F("i"), F("e"), A, B, Word("src")>>,
    <<Word("sed"), F("i"), A, F("l"), B, F("i"), Word("src"), Word("env")>>, <<Word("sed"), F("f"), A, B, Word("-")>>,
    <<Word("sort"), Tok("flags", "-o", <<"o">>, <<Word("a")>>), B>>, <<Word("sort"), A, Long("--output", <<B>>)>>,
    <<Word("sort"), F("o"), Glob("*"), Word("-")>>,
    <<Word("jq"), A, B, Long("--args", <<>>), Word("src")>>, <<Word("jq"), Long("--rawfile", <<>>), A, B, A, Word("src")>>,
    <<Word("jq"), F("f"), A, B>>, <<Word("cat"), Word("-"), Var("$X"), A>>,
    <<Word("find"), F("H"), A, B, F("name"), Word("src")>>, <<Word("find"), F("D"), A, B>>,
    <<Word("find"), Flags("-O3", <<"O", "3">>), Dashes, A, B, F("name"), Word("src")>>,
    <<Word("find"), Flags("-O3", <<"O", "3">>), F("f"), A, B>>, <<Word("git"), Dashes, Word("grep"), A, B>>,
    <<Word("git"), F("C"), A, Word("grep"), F("n"), A, B>>, <<Word("git"), Word("grep"), F("e"), A, B>>,
    <<Word("git"), Long("--work-tree", <<A>>), Word("status"), B>>, <<Word("git"), Long("--odd", <<>>), Word("grep"), A, B>>,
    <<Word("cat"), Redir("<", <<A>>), Redir(">", <<Var("$X")>>)>>, <<Word("cat"), Redir("<>", <<B>>)>>,
    <<Word("cat"), Redir("<&", <<Var("$X")>>), RedirOn("3", ">", <<A>>)>> }

LineSet ==
  LET once == UNION {Wraps(t) : t \in Cores}
      twice == UNION {Wraps(t) : t \in Nested(RmEnv)}
      deep == {<<Word("sh"), F("c"), Single(<<Word("sh"), F("c"), Single(<<Word("eval"), Single(RmEnv)>>)>>)>>,
               <<Word("sh"), F("c"), Single(<<Word("sh")>>), Redir("<<'", RmEnv)>>} IN
  Cores \cup FileUses \cup once \cup twice \cup deep \cup {<<>>, Git, Git \o <<Op(";")>> \o RmEnv}
\* A definition of its own, so that TLC makes the lines once.
MCLineSet == LineSet
=============================================================================
