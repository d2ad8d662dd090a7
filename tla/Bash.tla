-------------------------------- MODULE Bash --------------------------------
(***************************************************************************)
(* What bash and the programs on the lists do with a command line: the     *)
(* reference Shell.tla is held against.  Nothing here is handrail's.       *)
(*                                                                         *)
(* An implementation takes each flag one way: d is the set of flags whose  *)
(* arity is open that take an argument in it.  What a line does is the     *)
(* commands it runs, the files its programs open, and whether it runs code *)
(* that is not in the line; each of these apart where a shell reads it     *)
(* from input that was handed on to it: the pipe or file another program   *)
(* has on its standard input and leaves there to code it runs, or to a     *)
(* substitution among its words.                                           *)
(***************************************************************************)
EXTENDS Shell

Idle == [runs |-> {}, opens |-> {}, unknown |-> {}]
Also(a, b) == [do \in DOMAIN a |-> a[do] \cup b[do]]
All(does) == FoldLeft(Also, Idle, does)
Unknown == [Idle EXCEPT !.unknown = {[handed |-> FALSE]}]
Opens(ws, write) ==
  [Idle EXCEPT !.opens = {[path |-> Unquoted(w).name, write |-> write, handed |-> FALSE] : w \in ws}]

\* A command's standard input: none to speak of, code in the line, or bytes from a pipe
\* or a file; and what a shell does that reads it.
NoInput == [is |-> "none", text |-> <<>>, literal |-> TRUE, handed |-> FALSE]
Bytes == [NoInput EXCEPT !.is = "bytes"]
CodeInput(text, literal) == [NoInput EXCEPT !.is = "code", !.text = text, !.literal = literal]
HandOn(in) == [in EXCEPT !.handed = TRUE]
Reads(in, does) ==
  IF in.handed THEN [do \in DOMAIN does |-> {[x EXCEPT !.handed = TRUE] : x \in does[do]}] ELSE does

\* getopt in one implementation.  flags: each flag, its argument as a word or, attached,
\* as the words it holds, and where it stands; operands: the words that are neither.  A
\* program that does not permute ends its flags at the first operand.
Argument(g, flag, d) ==
  CASE Takes(g, flag) \in {"one", "two"} -> "next"
    [] Takes(g, flag) = "attached" -> "attached"
    [] Takes(g, flag) = "either" -> IF flag \in d THEN "next" ELSE "none"
    [] Takes(g, flag) = "rest" -> IF flag \in d THEN "next" ELSE "attached"
    [] OTHER -> "none"
Given(flag, words, at) == [flag |-> flag, words |-> words, at |-> at]

RECURSIVE Getopt(_, _, _, _, _, _), Letter(_, _, _, _, _, _, _)
Getopt(args, pos, g, d, permute, got) ==
  LET w == Unquoted(args[pos])
      skip == IF Takes(g, w.name) = "two" THEN 3 ELSE 2
      value == IF pos + skip - 1 > Len(args) THEN <<>> ELSE <<args[pos + skip - 1]>> IN
  IF pos > Len(args) THEN got
  ELSE IF w = Word("--")
    THEN [got EXCEPT !.operands = @ \o [i \in 1..Len(args) - pos |-> pos + i], !.dashes = TRUE]
  ELSE IF w.is = "flags" THEN Letter(args, pos, g, d, permute, got, 1)
  ELSE IF w.is = "long"
    THEN IF w.in # <<>> THEN Getopt(args, pos + 1, g, d, permute, [got EXCEPT !.flags = Append(@, Given(w.name, w.in, pos))])
         ELSE IF Argument(g, w.name, d) = "next"
           THEN Getopt(args, pos + skip, g, d, permute, [got EXCEPT !.flags = Append(@, Given(w.name, value, pos))])
         ELSE Getopt(args, pos + 1, g, d, permute, [got EXCEPT !.flags = Append(@, Given(w.name, <<>>, pos))])
  ELSE IF permute THEN Getopt(args, pos + 1, g, d, permute, [got EXCEPT !.operands = Append(@, pos)])
  ELSE [got EXCEPT !.operands = [i \in 1..Len(args) - pos + 1 |-> pos + i - 1]]

Letter(args, pos, g, d, permute, got, k) ==
  LET w == Unquoted(args[pos])
      rest == RestOf(w, k)
      flag == Letters(w)[k]
      has(words) == [got EXCEPT !.flags = Append(@, Given(flag, words, pos))] IN
  IF k > Len(Letters(w)) THEN Getopt(args, pos + 1, g, d, permute, got)
  ELSE CASE Argument(g, flag, d) = "none" -> Letter(args, pos, g, d, permute, has(<<>>), k + 1)
         [] Argument(g, flag, d) = "attached" /\ rest = <<>> -> Getopt(args, pos + 1, g, d, permute, has(<<>>))
         [] Argument(g, flag, d) \in {"attached", "next"} /\ rest # <<>> ->
              Getopt(args, pos + 1, g, d, permute, has(rest))
         [] OTHER -> Getopt(args, pos + 2, g, d, permute,
                            has(IF pos + 1 > Len(args) THEN <<>> ELSE <<args[pos + 1]>>))

Got(args, from, g, d, permute) ==
  Getopt(args, from, g, d, permute, [flags |-> <<>>, operands |-> <<>>, dashes |-> FALSE])

-----------------------------------------------------------------------------
RECURSIVE Does(_, _, _), Exec(_, _, _)

\* Code that one program runs in a shell, which reads the program's own input.
Runs(text, literal, in, d) ==
  IF literal /\ Parses(text) THEN Does(text, HandOn(in), d) ELSE Unknown

\* A shell runs the operand after a -c, or else, with a -s or no operand, its input.
ShellDoes(args, in, d) ==
  LET g == [Grammar EXCEPT !.takes = [f \in {"c", "s", "e", "l"} |-> "none"] @@ [f \in {"o", "O"} |-> "one"]]
      got == Got(args, 2, g, d, FALSE)
      set == {got.flags[i].flag : i \in DOMAIN got.flags} IN
  IF "c" \in set
    THEN IF got.operands = <<>> THEN Idle
         ELSE Runs(TextOf(args[got.operands[1]]), Literal(args[got.operands[1]]), in, d)
  ELSE IF "s" \notin set /\ got.operands # <<>> THEN Idle
  ELSE CASE in.is = "none" -> Idle
         [] in.is = "code" -> Reads(in, Runs(in.text, in.literal, NoInput, d))
         [] in.is = "bytes" -> Reads(in, Unknown)

\* find runs what stands between an -exec and its ; or its {} +.
RECURSIVE FindDoes(_, _, _, _)
FindDoes(args, pos, in, d) ==
  LET name(p) == Unquoted(args[p]).name
      ends == {p \in pos + 1..Len(args) : name(p) = ";" \/ (name(p) = "+" /\ name(p - 1) = "{}")}
      last == IF ends = {} THEN Len(args) + 1 ELSE CHOOSE p \in ends : \A q \in ends : p <= q IN
  IF pos > Len(args) THEN Idle
  ELSE IF name(pos) \notin {"-exec", "-execdir", "-ok", "-okdir"} THEN FindDoes(args, pos + 1, in, d)
  ELSE Also(Exec(SubSeq(args, pos + 1, last - 1), in, d), FindDoes(args, last + 1, in, d))

\* A Wrapper runs the command behind its flags and operands, or the script a flag gave.
WrapperDoes(args, from, g, in, d) ==
  LET given == IF g.detaches THEN NoInput ELSE in
      got == Got(args, from, g, d, g.permute)
      set == {got.flags[i].flag : i \in DOMAIN got.flags}
      scripts == SelectSeq(got.flags, LAMBDA f : f.flag \in g.script /\ f.words # <<>>)
      attached(f) == Unquoted(args[f.at]).in # <<>>
      textOf(f) == IF attached(f) THEN f.words ELSE TextOf(f.words[1])
      script(f) == Runs(textOf(f), attached(f) \/ Literal(f.words[1]), given, d)
      ops == IF g.permute /\ ~got.dashes THEN <<>>
             ELSE SelectSeq(got.operands, LAMBDA p : ~g.permute \/ \E q \in 1..p - 1 : args[q] = Word("--"))
      past == {i \in DOMAIN ops : i > g.operands /\
                 (g.assigns => ~(Unquoted(args[ops[i]]).is = "assign" \/ Unquoted(args[ops[i]]) = Word("-")))}
      command == IF past = {} THEN <<>>
                 ELSE LET first == CHOOSE i \in past : \A j \in past : i <= j IN
                      [i \in 1..Len(ops) - first + 1 |-> args[ops[first + i - 1]]] IN
  IF set \cap g.stop # {} THEN Idle
  ELSE IF g.splits /\ scripts # <<>>
    THEN LET all == textOf(scripts[Len(scripts)]) \o command IN
         IF AllLiteral(scripts[Len(scripts)].words) THEN Exec(all, HandOn(given), d) ELSE Unknown
  ELSE Also(All([i \in DOMAIN scripts |-> script(scripts[i])]),
            CASE command = <<>> -> Idle
              [] command # <<>> /\ g.dashC /\ Unquoted(command[1]).name \in {"-c", "--command"} ->
                   IF Len(command) < 2 THEN Idle ELSE Runs(TextOf(command[2]), Literal(command[2]), given, d)
              [] command # <<>> /\ g.joined -> Runs(Joined(command), AllLiteral(command), given, d)
              [] OTHER -> Exec(command, given, d))

\* The files a listed program opens.
ProgramOpens(args, from, g, d) ==
  LET got == Got(args, from, g, d, TRUE)
      with(effect) == SelectSeq(got.flags, LAMBDA f : f.flag \in effect)
      set(effect) == with(effect) # <<>>
      named(effect) == {f.words[1] : f \in {x \in {with(effect)[i] : i \in DOMAIN with(effect)} : x.words # <<>>}}
      ended == {got.flags[i].at : i \in {j \in DOMAIN got.flags : got.flags[j].flag \in g.ends}}
      ops == SelectSeq(IF g.first /\ ~set(g.pattern \cup g.patternFile) THEN SubSeq(got.operands, 2, Len(got.operands))
                       ELSE got.operands, LAMBDA p : \A e \in ended : p < e)
      operands == {args[ops[i]] : i \in DOMAIN ops}
      written == IF ~g.writes \/ (g.writeMode # {} /\ ~set(g.writeMode)) THEN {}
                 ELSE IF ~g.last THEN operands
                 ELSE IF set(g.target) \/ ops = <<>> THEN {} ELSE {args[ops[Len(ops)]]}
      stdin == {w \in operands : Unquoted(w) = Word("-")} IN
  All(<<Opens(written, TRUE), Opens((operands \ written) \ stdin, FALSE),
        Opens(named(g.target \cup g.output), TRUE), Opens(named(g.patternFile \cup g.input), FALSE)>>)

\* find reads its starting points; git, beside the directories it is told of, what its
\* grep and its diff name.
FindOpens(args) ==
  LET word(p) == Unquoted(args[p])
      start == {p \in 2..Len(args) :
                  word(p) # Word("--") /\ (word(p).is = "word" \/ Is({"glob", "var", "single", "double"}, args[p]))}
      stops == {p \in 2..Len(args) :
                  word(p).is = "flags" /\ ~FindOption(word(p)) /\ word(p).name \notin {"-D", "-f"}} IN
  Opens({args[p] : p \in {q \in start : (\A s \in stops : q < s) /\ Unquoted(args[q - 1]).name # "-D"}}, FALSE)
GitOpens(args, d) ==
  LET got == Got(args, 2, Programs[<<"git">>], d, FALSE)
      dirs == {got.flags[i] : i \in {j \in DOMAIN got.flags : got.flags[j].flag \in {"C", "--work-tree"}}}
      sub == IF got.operands = <<>> THEN 0 ELSE got.operands[1] IN
  Also(Opens({f.words[1] : f \in {x \in dirs : x.words # <<>>}}, FALSE),
       IF sub # 0 /\ <<"git", Unquoted(args[sub]).name>> \in DOMAIN Programs
         THEN ProgramOpens(args, sub + 1, Programs[<<"git", Unquoted(args[sub]).name>>], d) ELSE Idle)

\* A command runs, does what the program does, and opens what the program opens.
Exec(args, in, d) ==
  LET name == Base(Unquoted(args[1]).name)
      sub == IF Len(args) > 1 THEN <<name, Unquoted(args[2]).name>> ELSE <<>>
      itself == [Idle EXCEPT !.runs = {[argv |-> SpelledWords(args), handed |-> FALSE]}]
      opens == CASE name = "find" -> FindOpens(args)
                 [] name = "git" -> GitOpens(args, d)
                 [] name \notin {"find", "git"} /\ <<name>> \in DOMAIN Programs ->
                      ProgramOpens(args, 2, Programs[<<name>>], d)
                 [] OTHER -> Idle
      then == CASE name \in Shells -> ShellDoes(args, in, d)
                [] name = "eval" ->
                     LET code == IF sub # <<>> /\ sub[2] = "--" THEN SubSeq(args, 3, Len(args)) ELSE Tail(args) IN
                     Runs(Joined(code), AllLiteral(code), in, d)
                [] name = "find" -> FindDoes(args, 2, in, d)
                [] <<name>> \in DOMAIN Wrappers -> WrapperDoes(args, 2, Wrappers[<<name>>], in, d)
                [] <<name>> \notin DOMAIN Wrappers /\ sub \in DOMAIN Wrappers ->
                     WrapperDoes(args, 3, Wrappers[sub], in, d)
                [] OTHER -> Idle IN
  IF args = <<>> THEN Idle
  ELSE IF ~Literal(args[1]) THEN Unknown
  ELSE All(<<itself, opens, then>>)

\* A redirect opens its target and, on standard input, is what the command reads.
RedirectDoes(r) ==
  LET target == {w \in {r.in[1]} : Unquoted(w).name # "/dev/null"} IN
  CASE r.name = "<" -> Opens(target, FALSE)
    [] r.name = "<>" -> Also(Opens(target, FALSE), Opens(target, TRUE))
    [] r.name = ">" -> Opens(target, TRUE)
    [] OTHER -> Idle
Feeds(in, r) ==
  CASE r.letters \notin {<<>>, <<"0">>} -> in
    [] r.name \in {"<", "<>", "<&"} -> Bytes
    [] r.name = "<<" -> CodeInput(r.in, AllLiteral(r.in))
    [] r.name = "<<'" -> CodeInput(r.in, TRUE)
    [] r.name = "<<<" -> CodeInput(TextOf(r.in[1]), Literal(r.in[1]))
    [] OTHER -> in

\* A program: each statement, with the text inside its words and its groups.  What a pipe
\* feeds a command its substitutions read too: they run in the same process, and before
\* its redirects.
Does(text, in, d) ==
  LET each(st) ==
        LET redirs == RedirsOf(st.toks)
            args == ArgsOf(WordsOf(st.toks))
            piped == IF st.piped THEN Bytes ELSE in
            given == FoldLeft(Feeds, piped, redirs)
            group == st.toks[1].is = "group"
            within == IF group THEN given ELSE IF st.piped /\ ~Declaration(st.toks) THEN HandOn(piped) ELSE piped
            inner == Inner(st.toks) IN
        All(<<IF group \/ args = <<>> THEN Idle
              ELSE IF Unquoted(args[1]) = Word("export") THEN Idle ELSE Exec(args, given, d),
              All([i \in DOMAIN redirs |-> RedirectDoes(redirs[i])]),
              All([i \in DOMAIN inner |-> Does(inner[i], within, d)])>>)
      sts == Stmts(text) IN
  All([i \in DOMAIN sts |-> each(sts[i])])

\* What a line may do in one implementation or another.
MayDo(line, implementations) ==
  LET all == {Does(line, NoInput, d) : d \in implementations} IN
  IF Parses(line)
    THEN [do \in DOMAIN Idle |-> UNION {a[do] : a \in all}]
    ELSE Unknown
=============================================================================
