------------------------------- MODULE Shell -------------------------------
(***************************************************************************)
(* The reader of a command line (internal/shell): which commands it runs,  *)
(* once per Wrapper and nested shell taken off, which files it names, and  *)
(* whether it runs code the line does not hold.                            *)
(*                                                                         *)
(* A text is a sequence of tokens.  A token that quotes, groups or         *)
(* substitutes holds a text of its own, so code nested in a line is read   *)
(* again as the parser would read it.  A word is known by its name; a flag *)
(* word by its letters, or its long name, and what is attached to it.      *)
(* What a text is once its quotes are off, how a word is spelled and what  *)
(* bash calls a token are kept; offsets, escapes and layout are not.       *)
(***************************************************************************)
EXTENDS Naturals, Sequences, FiniteSets, SequencesExt

CONSTANTS Shells,       \* the listed shells
          Wrappers,     \* the grammar of each listed Wrapper, by its one or two words
          Programs,     \* the grammar of each listed file program, likewise
          MaxDepth,     \* how many re-parses deep nested code is read
          MaxReadings   \* how many readings of one file program's flags are kept

ASSUME BoundsAssumption == MaxDepth \in Nat /\ MaxReadings \in Nat \ {0}

-----------------------------------------------------------------------------
\* Tokens.
Tok(is, name, letters, in) == [is |-> is, name |-> name, letters |-> letters, in |-> in]
Word(name) == Tok("word", name, <<>>, <<>>)
Flags(name, letters) == Tok("flags", name, letters, <<>>)
Long(name, value) == Tok("long", name, <<name>>, value)   \* value: what follows its =, if any
Assign(name) == Tok("assign", name, <<>>, <<>>)
Op(name) == Tok("op", name, <<>>, <<>>)                   \* ; | && and the ( of a line cut short
Group(text) == Tok("group", "", <<>>, text)
NameOf(text) == IF Len(text) = 1 THEN text[1].name ELSE "some words"
Single(text) == Tok("single", NameOf(text), <<>>, text)
Double(text) == Tok("double", NameOf(text), <<>>, text)
Var(name) == Tok("var", name, <<>>, <<>>)
Subst(text) == Tok("subst", "$()", <<>>, text)
Glob(name) == Tok("glob", name, <<>>, <<>>)               \* a glob, a brace or a ~user
Redir(op, in) == Tok("redir", op, <<>>, in)               \* in: its target, or a heredoc's body
RedirOn(fd, op, in) == Tok("redir", op, <<fd>>, in)       \* a descriptor before it

Quotes == {"single", "double"}
Is(kinds, t) == t.is \in kinds
InputOps == {"<", "<>", "<&", "<<", "<<'", "<<<"}
\* A redirect of the standard input: one of these, on no descriptor but 0.
OnStdin(r) == r.name \in InputOps /\ r.letters \in {<<>>, <<"0">>}

\* literal: a word holds no expansion; between double quotes nothing hides one.
RECURSIVE Literal(_)
Literal(w) == ~Is({"var", "subst"}, w) /\ (w.is = "double" => \A i \in DOMAIN w.in : Literal(w.in[i]))
AllLiteral(words) == \A i \in DOMAIN words : Literal(words[i])

\* word: a word without its quotes, and text: what its words say once joined.
Unquoted(w) == IF Is(Quotes, w) /\ Len(w.in) = 1 THEN w.in[1] ELSE w
TextOf(w) == IF Is(Quotes, w) THEN w.in ELSE <<w>>
Joined(words) == FlattenSeq([i \in DOMAIN words |-> TextOf(words[i])])

\* spelledWords: quotes stay where the word would fall apart without them.
AsSpelled(w) == IF Is(Quotes \cup {"op", "group", "redir", "subst"}, Unquoted(w)) THEN w ELSE Unquoted(w)
SpelledWords(words) == [i \in DOMAIN words |-> AsSpelled(words[i])]

Between(a, b) == [i \in 1..b - a + 1 |-> a + i - 1]   \* the indices from a to b, none if b < a

\* The texts inside tokens that the same parse reads: a group's and a substitution's.
RECURSIVE Inner(_)
Inner(toks) ==
  FlattenSeq([i \in DOMAIN toks |->
    LET t == toks[i] IN
    CASE Is({"group", "subst"}, t) -> <<t.in>>
      [] t.is = "double" \/ (t.is = "redir" /\ t.name # "<<'") ->
           Inner(SelectSeq(t.in, LAMBDA u : Is({"subst", "double"}, u)))
      [] OTHER -> <<>>])

RECURSIVE Parses(_)
Parses(text) == ~Contains(text, Op("(")) /\ \A i \in DOMAIN Inner(text) : Parses(Inner(text)[i])

\* The statements of a text, and whether a pipe feeds each.
Stmts(text) ==
  LET ops == Append(SelectSeq(Between(1, Len(text)), LAMBDA i : text[i].is = "op"), Len(text) + 1)
      from(k) == IF k = 1 THEN 1 ELSE ops[k - 1] + 1
      some(st) == st.toks # <<>> IN
  SelectSeq([k \in DOMAIN ops |->
               [toks |-> SubSeq(text, from(k), ops[k] - 1),
                piped |-> k > 1 /\ text[ops[k - 1]] = Op("|")]], some)

RedirsOf(toks) == SelectSeq(toks, LAMBDA t : t.is = "redir")
WordsOf(toks) == SelectSeq(toks, LAMBDA t : t.is # "redir")
\* The words after the leading assignments.
ArgsOf(words) ==
  LET others == {i \in DOMAIN words : words[i].is # "assign"} IN
  IF others = {} THEN <<>> ELSE SubSeq(words, CHOOSE i \in others : \A j \in others : i <= j, Len(words))
\* input: a statement redirects its standard input.
Input(redirs) == \E i \in DOMAIN redirs : OnStdin(redirs[i])

\* path.Base, for the one path the lines name.
Base(name) == IF name = "/bin/sh" THEN "sh" ELSE name

-----------------------------------------------------------------------------
\* What the walk has found, and where it is in the call it follows: the words a
\* Candidate starts at, whether a Wrapper keeps the call's input from its command, the
\* words one Wrapper's scan has reached and the string that will start its command.
Nothing == [cands |-> <<>>, files |-> <<>>, gaveUp |-> FALSE,
            seen |-> {}, detached |-> FALSE, done |-> {}, split |-> <<>>, splitLiteral |-> TRUE]

GiveUp(s) == [s EXCEPT !.gaveUp = TRUE]
GiveUpIf(s, bad) == [s EXCEPT !.gaveUp = @ \/ bad]
Add(s, source, spelled) ==
  [s EXCEPT !.cands = Append(@, IF source = spelled THEN <<source>> ELSE <<source, spelled>>)]
\* file: each once, however many levels name it.
Name(s, fs) ==
  [s EXCEPT !.files = FoldLeft(LAMBDA had, f : IF Contains(had, f) THEN had ELSE Append(had, f), @, fs)]

\* named: a name only running the shell resolves keeps its text and says so.
FileOf(w, write) ==
  [path |-> Unquoted(w).name, write |-> write, unreadable |-> ~Literal(w) \/ w.is = "glob"]

RECURSIVE Walk(_, _, _, _), Level(_, _, _, _), From(_, _, _, _), Operands(_, _, _, _)


\* Mutant: code that is not in the call is read as if it were.
Code_AnyText(s, text, literal, depth) ==
  IF depth = MaxDepth \/ ~Parses(text) THEN GiveUp(s)
  ELSE LET inner == Walk(Nothing, text, FALSE, depth + 1) IN
       GiveUpIf(Name([s EXCEPT !.cands = @ \o inner.cands], inner.files), inner.gaveUp)

\* code: what a shell or a Wrapper runs is read as a program of its own.
Code(s, text, literal, depth) ==
  IF depth = MaxDepth \/ ~Parses(text) THEN GiveUp(s)
  ELSE LET inner == Walk(Nothing, text, FALSE, depth + 1) IN
       GiveUpIf(Name([s EXCEPT !.cands = @ \o inner.cands], inner.files), ~literal \/ inner.gaveUp)

-----------------------------------------------------------------------------
\* One simple command, c: its words as written and without quotes, its redirects, its
\* depth, and whether its input comes from outside the call.  from and end are words.
CodeOf(s, c, from, end) ==
  LET words == SubSeq(c.args, from, end - 1) IN Code(s, Joined(words), AllLiteral(words), c.depth)

\* stdin: what a shell with no script reads from its standard input.
Stdin(s, c) ==
  LET feed(t, r) ==
        CASE r.name \in {"<", "<>", "<&"} -> GiveUp(t)
          [] r.name = "<<" -> Code(t, r.in, AllLiteral(r.in), c.depth)
          [] r.name = "<<'" -> Code(t, r.in, TRUE, c.depth)
          [] r.name = "<<<" -> Code(t, TextOf(r.in[1]), Literal(r.in[1]), c.depth) IN
  IF s.detached THEN s ELSE FoldLeft(feed, GiveUpIf(s, c.fed), SelectSeq(c.redirs, OnStdin))

\* shellOptions: where they end, and whether a -c or a -s is among them.
RECURSIVE Options(_, _, _, _)
Options(c, pos, end, o) ==
  LET w == c.words[pos]
      taken == IF w.is = "long" THEN IF w.name \in {"--rcfile", "--init-file"} THEN 1 ELSE 0
               ELSE Len(SelectSeq(w.letters, LAMBDA l : l \in {"o", "O"}))
      letters == IF w.is = "long" THEN {} ELSE {w.letters[i] : i \in DOMAIN w.letters} IN
  IF pos >= end THEN [o EXCEPT !.pos = pos]
  ELSE IF w.name \in {"-", "--"} THEN [o EXCEPT !.pos = pos + 1]
  ELSE IF ~Is({"flags", "long"}, w) THEN [o EXCEPT !.pos = pos]
  ELSE Options(c, pos + 1 + taken, end,
               [o EXCEPT !.command = @ \/ "c" \in letters, !.stdin = @ \/ "s" \in letters])

\* Mutant: a shell with a -s and an operand runs the operand.
Shell_IgnoresDashS(s, c, start, end) ==
  LET o == Options(c, start, end, [pos |-> 0, command |-> FALSE, stdin |-> FALSE]) IN
  CASE o.command /\ o.pos < end -> CodeOf(s, c, o.pos, o.pos + 1)
    [] ~o.command /\ o.pos >= end -> Stdin(s, c)
    [] OTHER -> s

\* shell: the operand after a -c, or its standard input when it names no script.
Shell(s, c, start, end) ==
  LET o == Options(c, start, end, [pos |-> 0, command |-> FALSE, stdin |-> FALSE]) IN
  CASE o.command /\ o.pos < end -> CodeOf(s, c, o.pos, o.pos + 1)
    [] ~o.command /\ (o.stdin \/ o.pos >= end) -> Stdin(s, c)
    [] OTHER -> s

Eval(s, c, start, end) ==
  CodeOf(s, c, IF start < end /\ c.words[start] = Word("--") THEN start + 1 ELSE start, end)

\* find: the command each -exec runs, up to a ; or to a + that follows {}.
RECURSIVE Find(_, _, _, _)
Find(s, c, pos, end) ==
  LET ends == {p \in pos + 1..end - 1 :
                 c.words[p] = Op(";") \/ (c.words[p] = Word("+") /\ c.words[p - 1] = Word("{}"))}
      last == IF ends = {} THEN end ELSE CHOOSE p \in ends : \A q \in ends : p <= q IN
  IF pos >= end THEN s
  ELSE IF c.words[pos].name \notin {"-exec", "-execdir", "-ok", "-okdir"} THEN Find(s, c, pos + 1, end)
  ELSE Find(Level(s, c, pos + 1, last), c, last + 1, end)

-----------------------------------------------------------------------------
\* A grammar gives each flag its arity: none, one, either, attached (the rest of its
\* word and never the next one), two, or rest (the rest of its word, else either).  A
\* flag it lacks is read as either and declared.
Grammar ==
  [takes |-> <<>>, stop |-> {}, script |-> {}, operands |-> 0, assigns |-> FALSE, permute |-> FALSE,
   joined |-> FALSE, dashC |-> FALSE, detaches |-> FALSE, splits |-> FALSE,
   writes |-> FALSE, first |-> FALSE, last |-> FALSE,
   pattern |-> {}, patternFile |-> {}, writeMode |-> {}, target |-> {}, input |-> {}, output |-> {}, ends |-> {}]
Known(g, flag) == flag \in DOMAIN g.takes
Takes(g, flag) == IF Known(g, flag) THEN g.takes[flag] ELSE "either"

\* The letters of a cluster; what is attached behind them is one more, which no
\* grammar knows, unless a flag before it takes it.
Letters(w) == IF w.in = <<>> THEN w.letters ELSE Append(w.letters, w.in[1].name)
RestOf(w, k) ==
  IF k >= Len(w.letters) THEN IF k > Len(w.letters) THEN <<>> ELSE w.in
  ELSE [i \in 1..Len(w.letters) - k |-> Word(w.letters[k + i])] \o w.in

\* script: a flag's argument is code, or the first words of the command that follows.
Script(s, c, g, pos, end, attached) ==
  LET text == IF attached # <<>> THEN attached ELSE TextOf(c.args[pos + 1])
      literal == Literal(c.args[IF attached # <<>> THEN pos ELSE pos + 1]) IN
  CASE attached = <<>> /\ pos + 1 >= end -> s
    [] ~(attached = <<>> /\ pos + 1 >= end) /\ g.splits ->
         [s EXCEPT !.split = text, !.splitLiteral = literal]
    [] OTHER -> Code(s, text, literal, c.depth)

\* Mutant: a flag the table lacks takes nothing.
LongFlag_UnknownAlone(s, c, g, pos, end) ==
  LET w == c.words[pos]
      u == IF w.name \in g.script THEN Script(s, c, g, pos, end, w.in) ELSE s
      takes == IF Known(g, w.name) THEN Takes(g, w.name) ELSE "none"
      v == IF takes # "none" /\ w.in = <<>> THEN From(u, c, g, <<pos + 2, end>>) ELSE u IN
  IF w.name \in g.stop THEN s
  ELSE IF takes # "one" \/ w.in # <<>> THEN From(v, c, g, <<pos + 1, end>>) ELSE v

\* long: its argument is attached, or the next word, or there is none; where that is
\* not known each is read.
LongFlag(s, c, g, pos, end) ==
  LET w == c.words[pos]
      t == GiveUpIf(s, ~Known(g, w.name))
      u == IF w.name \in g.script THEN Script(t, c, g, pos, end, w.in) ELSE t
      v == IF Takes(g, w.name) # "none" /\ w.in = <<>> THEN From(u, c, g, <<pos + 2, end>>) ELSE u IN
  IF w.name \in g.stop THEN t
  ELSE IF Takes(g, w.name) # "one" \/ w.in # <<>> THEN From(v, c, g, <<pos + 1, end>>) ELSE v

\* cluster: a flag that takes an argument takes the rest of the word, or the next word.
RECURSIVE Cluster(_, _, _, _, _)

\* Mutant: a flag that may take an argument takes one.
Cluster_EitherTakes(s, c, g, at, k) ==
  LET w == c.words[at[1]]
      flag == Letters(w)[k]
      t == GiveUpIf(s, ~Known(g, flag))
      u == IF flag \in g.script THEN Script(t, c, g, at[1], at[2], RestOf(w, k)) ELSE t IN
  IF k > Len(Letters(w)) THEN From(s, c, g, <<at[1] + 1, at[2]>>)
  ELSE CASE flag \in g.stop -> t
         [] flag \notin g.stop /\ Takes(g, flag) = "none" -> Cluster(u, c, g, at, k + 1)
         [] flag \notin g.stop /\ Takes(g, flag) = "attached" -> From(u, c, g, <<at[1] + 1, at[2]>>)
         [] OTHER -> From(u, c, g, <<at[1] + (IF RestOf(w, k) = <<>> THEN 2 ELSE 1), at[2]>>)

Cluster(s, c, g, at, k) ==
  LET w == c.words[at[1]]
      flag == Letters(w)[k]
      t == GiveUpIf(s, ~Known(g, flag))
      u == IF flag \in g.script THEN Script(t, c, g, at[1], at[2], RestOf(w, k)) ELSE t
      with == From(u, c, g, <<at[1] + (IF RestOf(w, k) = <<>> THEN 2 ELSE 1), at[2]>>) IN
  IF k > Len(Letters(w)) THEN From(s, c, g, <<at[1] + 1, at[2]>>)
  ELSE CASE flag \in g.stop -> t
         [] flag \notin g.stop /\ Takes(g, flag) = "none" -> Cluster(u, c, g, at, k + 1)
         [] flag \notin g.stop /\ Takes(g, flag) = "attached" -> From(u, c, g, <<at[1] + 1, at[2]>>)
         [] flag \notin g.stop /\ Takes(g, flag) = "one" -> with
         [] OTHER -> Cluster(with, c, g, at, k + 1)

\* from: the Wrapper's arguments, read up to its command; at is the word and the end.
From(s, c, g, at) ==
  LET pos == at[1]
      w == c.words[pos]
      t == [s EXCEPT !.done = @ \cup {pos}] IN
  IF pos \in s.done THEN s
  ELSE IF pos >= at[2] THEN Operands(t, c, g, at)
  ELSE CASE w = Word("--") -> Operands(t, c, g, <<pos + 1, at[2]>>)
         [] w.is = "long" -> LongFlag(t, c, g, pos, at[2])
         [] w.is = "flags" -> Cluster(t, c, g, at, 1)
         [] w # Word("--") /\ ~Is({"long", "flags"}, w) /\ g.permute -> From(t, c, g, <<pos + 1, at[2]>>)
         [] OTHER -> Operands(t, c, g, at)

\* splitCode: the string env -S gave, with the operands quoted after it.
SplitCode(s, c, pos, end) ==
  LET rest == SubSeq(c.args, pos, end - 1)
      quoted == [i \in DOMAIN rest |-> IF Is({"word", "flags", "long", "assign"}, Unquoted(rest[i]))
                                         THEN Unquoted(rest[i]) ELSE Single(TextOf(rest[i]))] IN
  Code(s, s.split \o quoted, s.splitLiteral /\ AllLiteral(rest), c.depth)

\* operands: what comes before the command is skipped, and the command is a level.
Operands(s, c, g, at) ==
  LET end == at[2]
      past == {p \in at[1] + g.operands..end :
                 p = end \/ ~(c.words[p].is = "assign" \/ c.words[p] = Word("-"))}
      pos == IF ~g.assigns \/ past = {} THEN at[1] + g.operands
             ELSE CHOOSE p \in past : \A q \in past : p <= q
      t == IF s.split # <<>> THEN SplitCode(s, c, pos, end) ELSE s IN
  IF pos >= end THEN t
  ELSE CASE g.dashC /\ c.words[pos].name \in {"-c", "--command"} -> Script(t, c, g, pos, end, <<>>)
         [] g.joined -> CodeOf(Level(t, c, pos, end), c, pos, end)
         [] OTHER -> Level(t, c, pos, end)

-----------------------------------------------------------------------------
\* The files a listed program names.  A reading is one way of taking its arguments.
Fresh == [ops |-> <<>>, flagged |-> <<>>, supplied |-> FALSE, write |-> FALSE, targeted |-> FALSE,
          ends |-> 0, unknown |-> FALSE]

\* apply: the one effect a flag has, with the file its argument names, if it has one.
Apply(rd, g, pos, flag, file) ==
  LET flagged(w) == [i \in DOMAIN file |-> [file[i] EXCEPT !.write = w]] IN
  CASE flag \in g.input \cup g.output -> [rd EXCEPT !.flagged = @ \o flagged(flag \in g.output)]
    [] flag \in g.ends -> [rd EXCEPT !.ends = pos]
    [] flag \in g.pattern -> [rd EXCEPT !.supplied = TRUE]
    [] flag \in g.patternFile -> [rd EXCEPT !.supplied = TRUE, !.flagged = @ \o flagged(FALSE)]
    [] flag \in g.writeMode -> [rd EXCEPT !.write = TRUE]
    [] flag \in g.target -> [rd EXCEPT !.targeted = TRUE, !.flagged = @ \o flagged(TRUE)]
    [] OTHER -> rd

\* whole and part: a flag's argument is the next word, or what is attached to it.
Whole(c, pos, end) == IF pos >= end THEN <<>> ELSE <<FileOf(c.args[pos], FALSE)>>
Part(c, pos, rest) ==
  IF rest = <<>> THEN <<>> ELSE <<[FileOf(c.args[pos], FALSE) EXCEPT !.path = rest[1].name]>>

RECURSIVE Readings(_, _, _, _, _), ClusterReadings(_, _, _, _, _, _)
Readings(c, g, pos, end, rd) ==
  LET w == c.words[pos]
      more(p, r) == Readings(c, g, p, end, r)
      apply(file) == Apply(rd, g, pos, w.name, file) IN
  IF pos >= end THEN <<rd>>
  ELSE CASE w = Word("--") -> <<[rd EXCEPT !.ops = @ \o Between(pos + 1, end - 1)]>>
         [] w.is = "long" ->
              CASE ~Known(g, w.name) -> <<[rd EXCEPT !.unknown = TRUE]>>
                [] Known(g, w.name) /\ w.in # <<>> -> more(pos + 1, apply(Part(c, pos, w.in)))
                [] w.in = <<>> /\ Known(g, w.name) /\ Takes(g, w.name) = "one" ->
                     more(pos + 2, apply(Whole(c, pos + 1, end)))
                [] w.in = <<>> /\ Known(g, w.name) /\ Takes(g, w.name) = "two" ->
                     more(pos + 3, apply(Whole(c, pos + 2, end)))
                [] w.in = <<>> /\ Known(g, w.name) /\ Takes(g, w.name) = "either" ->
                     more(pos + 2, apply(Whole(c, pos + 1, end))) \o more(pos + 1, apply(<<>>))
                [] OTHER -> more(pos + 1, apply(<<>>))
         [] w.is = "flags" -> ClusterReadings(c, g, pos, end, rd, 1)
         [] OTHER -> more(pos + 1, [rd EXCEPT !.ops = Append(@, pos)])

ClusterReadings(c, g, pos, end, rd, k) ==
  LET w == c.words[pos]
      flag == Letters(w)[k]
      rest == RestOf(w, k)
      takes == Takes(g, flag)
      apply(file) == Apply(rd, g, pos, flag, file)
      attached == Readings(c, g, pos + 1, end, apply(Part(c, pos, rest)))
      next == Readings(c, g, pos + 2, end, apply(Whole(c, pos + 1, end)))
      bare == ClusterReadings(c, g, pos, end, apply(<<>>), k + 1) IN
  IF k > Len(Letters(w)) THEN Readings(c, g, pos + 1, end, rd)
  ELSE CASE ~Known(g, flag) -> <<[rd EXCEPT !.unknown = TRUE]>>
         [] Known(g, flag) /\ (takes = "attached" \/ (takes \in {"one", "rest"} /\ rest # <<>>)) -> attached
         [] Known(g, flag) /\ takes = "one" /\ rest = <<>> -> next
         [] Known(g, flag) /\ takes = "either" /\ rest # <<>> -> attached \o bare
         [] Known(g, flag) /\ takes \in {"either", "rest"} /\ rest = <<>> -> next \o bare
         [] OTHER -> bare

\* files and writesOperand: a reading's operands but the pattern, and none past an ends
\* flag; a lone - is standard input to a program that reads it.
FilesOf(c, g, rd) ==
  LET ops == SelectSeq(IF g.first /\ ~rd.supplied THEN SubSeq(rd.ops, 2, Len(rd.ops)) ELSE rd.ops,
                       LAMBDA p : rd.ends = 0 \/ p <= rd.ends)
      writes(n) == /\ g.writes /\ (g.writeMode = {} \/ rd.write)
                   /\ ~g.last \/ (~rd.targeted /\ n = Len(ops)) IN
  LET named == SelectSeq(Between(1, Len(ops)), LAMBDA n : writes(n) \/ c.words[ops[n]] # Word("-")) IN
  [i \in DOMAIN named |-> FileOf(c.args[ops[named[i]]], writes(named[i]))] \o rd.flagged

\* unread: each word that is no flag is a file handrail could not read.
Unread(c, write, start, end) ==
  LET dashed(p) == \E q \in start..p - 1 : c.words[q] = Word("--")
      flag(p) == ~dashed(p) /\ (Is({"flags", "long"}, c.words[p]) \/ c.words[p] = Word("--"))
      taken == SelectSeq(Between(start, end - 1), LAMBDA p : ~flag(p) /\ (write \/ c.words[p] # Word("-"))) IN
  [i \in DOMAIN taken |-> [FileOf(c.args[taken[i]], write) EXCEPT !.unreadable = TRUE]]

\* Mutant: one reading is as good as another.
Program_FirstReading(s, c, g, start, end) ==
  LET rs == Readings(c, g, start, end, Fresh) IN
  Name(s, IF Len(rs) > MaxReadings \/ \E i \in DOMAIN rs : rs[i].unknown THEN Unread(c, g.writes, start, end)
          ELSE FilesOf(c, g, rs[1]))

\* program: the files of every reading, or every word where a flag is unknown or the
\* readings are too many.
Program(s, c, g, start, end) ==
  LET rs == Readings(c, g, start, end, Fresh) IN
  Name(s, IF Len(rs) > MaxReadings \/ \E i \in DOMAIN rs : rs[i].unknown THEN Unread(c, g.writes, start, end)
          ELSE FlattenSeq([i \in DOMAIN rs |-> FilesOf(c, g, rs[i])]))

\* findOptions and findFiles: the starting points before find's expression are read.
FindOption(w) ==
  w.name \in {"-H", "-L", "-P", "-E", "-X", "-d", "-s", "-x"} \/ (w.is = "flags" /\ w.letters[1] = "O")
RECURSIVE FindFiles(_, _, _, _)
FindFiles(s, c, pos, end) ==
  LET w == c.words[pos]
      stops(p) == Is({"flags", "long"}, c.words[p]) \/ c.words[p].name \in {"--", "(", "!"}
      points(from) == SelectSeq(Between(from, end - 1), LAMBDA p : \A q \in from..p : ~stops(q))
      named(from) == Name(s, [i \in DOMAIN points(from) |-> FileOf(c.args[points(from)[i]], FALSE)]) IN
  IF pos >= end THEN s
  ELSE CASE w = Word("--") -> named(pos + 1)
         [] FindOption(w) -> FindFiles(s, c, pos + 1, end)
         [] w.name = "-D" -> FindFiles(s, c, pos + 2, end)
         [] w.name = "-f" -> FindFiles(Name(s, Whole(c, pos + 1, end)), c, pos + 2, end)
         [] OTHER -> named(pos)

\* gitFiles and gitOption: the directories -C and --work-tree name, then what its grep
\* and diff read; a -- and a cluster of short options are ones git's table lacks.
RECURSIVE GitFiles(_, _, _, _, _)
GitFiles(s, c, start, pos, end) ==
  LET w == c.words[pos]
      g == Programs[<<"git">>]
      flag == IF w.is = "long" THEN w.name ELSE w.letters[1]
      attached == IF w.is = "long" THEN w.in ELSE <<>>
      dir == flag \in {"C", "--work-tree"} IN
  CASE pos >= end -> s
    [] pos < end /\ w = Word("--") -> Name(s, Unread(c, FALSE, start, end))
    [] pos < end /\ w # Word("--") /\ ~Is({"flags", "long"}, w) ->
         IF <<"git", w.name>> \in DOMAIN Programs
           THEN Program(s, c, Programs[<<"git", w.name>>], pos + 1, end) ELSE s
    [] OTHER ->
         IF ~Known(g, flag) \/ (w.is = "flags" /\ Len(Letters(w)) > 1) THEN Name(s, Unread(c, FALSE, start, end))
         ELSE IF attached # <<>>
           THEN GitFiles(IF flag = "--work-tree" THEN Name(s, Part(c, pos, attached)) ELSE s, c, start, pos + 1, end)
         ELSE IF Takes(g, flag) = "one"
           THEN GitFiles(IF dir THEN Name(s, Whole(c, pos + 1, end)) ELSE s, c, start, pos + 2, end)
         ELSE GitFiles(s, c, start, pos + 1, end)

\* listed: the files of a program that is on the list.
Listed(s, c, name, start, end) ==
  CASE name = "find" -> FindFiles(s, c, start, end)
    [] name = "git" -> GitFiles(s, c, start, start, end)
    [] name \notin {"find", "git"} /\ <<name>> \in DOMAIN Programs -> Program(s, c, Programs[<<name>>], start, end)
    [] OTHER -> s

-----------------------------------------------------------------------------
\* follow: through the command at word start into what it runs.  An expansion there
\* runs code the call does not hold.
Scan(s, c, g, pos, end) ==
  LET t == From([s EXCEPT !.detached = @ \/ g.detaches, !.done = {}, !.split = <<>>], c, g, <<pos, end>>) IN
  [t EXCEPT !.done = s.done, !.split = s.split, !.splitLiteral = s.splitLiteral]

\* Mutant: what an expansion runs in command position is passed over.
Follow_Expansions(s, c, start, end) == s

Follow(s, c, start, end) ==
  LET name == Base(c.words[start].name)
      t == Listed(s, c, name, start + 1, end)
      sub == IF start + 1 < end THEN <<name, c.words[start + 1].name>> ELSE <<>> IN
  IF ~Literal(c.args[start]) THEN GiveUp(s)
  ELSE CASE name \in Shells -> Shell(t, c, start + 1, end)
         [] name = "eval" -> Eval(t, c, start + 1, end)
         [] name = "find" -> Find(t, c, start + 1, end)
         [] <<name>> \in DOMAIN Wrappers -> Scan(t, c, Wrappers[<<name>>], start + 1, end)
         [] <<name>> \notin DOMAIN Wrappers /\ sub \in DOMAIN Wrappers ->
              Scan(t, c, Wrappers[sub], start + 2, end)
         [] OTHER -> t

\* level: the command from word start up to end is a Candidate, once, and is followed.
\* Its redirects, written last, are part of its text when it runs to the end.
Level(s, c, start, end) ==
  LET words == SubSeq(c.args, start, end - 1) IN
  IF start >= end \/ start \in s.seen THEN s
  ELSE Follow(Add([s EXCEPT !.seen = @ \cup {start}],
                  words \o (IF end > Len(c.args) THEN c.redirs ELSE <<>>), SpelledWords(words)),
              c, start, end)

Declaration(toks) == WordsOf(toks) # <<>> /\ WordsOf(toks)[1] = Word("export")

\* command: a simple command with its assignments and without them, then followed.  A
\* declaration, as export makes one, is a Candidate and no more.
Command(s, toks, fed, depth) ==
  LET words == WordsOf(toks)
      args == ArgsOf(words)
      c == [args |-> args, words |-> [i \in DOMAIN args |-> Unquoted(args[i])],
            redirs |-> RedirsOf(toks), fed |-> fed, depth |-> depth]
      t == Add([s EXCEPT !.seen = {1}, !.detached = FALSE], toks, SpelledWords(words))
      u == IF args = words THEN t ELSE Add(t, args \o c.redirs, SpelledWords(args)) IN
  CASE words = <<>> -> s
    [] words # <<>> /\ (args = <<>> \/ Declaration(toks)) -> t
    [] OTHER -> Follow(u, c, 1, Len(args) + 1)

\* redirect: one whose target is a file is a Candidate and names the file; a heredoc, a
\* herestring, a device or a bare descriptor names none.
Redirect(s, r) ==
  LET target == r.in[1]
      none == \/ r.name \in {"<<", "<<'", "<<<"} \/ Unquoted(target).name = "/dev/null"
              \/ r.name = "<&" /\ target \in {Word("3"), Word("-")} IN
  IF none THEN s
  ELSE Name(Add(s, <<r>>, <<[r EXCEPT !.in = <<Unquoted(target)>>]>>),
            CASE r.name \in {"<", "<&"} -> <<FileOf(target, FALSE)>>
              [] r.name = "<>" -> <<FileOf(target, FALSE), FileOf(target, TRUE)>>
              [] OTHER -> <<FileOf(target, TRUE)>>)

\* Mutant: a command in a group that is fed reads nothing from outside the call.
Walk_GroupsUnfed(s, text, fed, depth) ==
  LET visit(t, st) ==
        LET group == st.toks[1].is = "group"
            redirs == RedirsOf(st.toks)
            u == IF group THEN t ELSE Command(t, st.toks, fed \/ st.piped, depth) IN
        FoldLeft(LAMBDA v, x : Walk(v, x, fed, depth), FoldLeft(Redirect, u, redirs), Inner(st.toks)) IN
  FoldLeft(visit, s, Stmts(text))

\* read and feed: every statement of the program, those in its groups and substitutions
\* too; a group that is fed feeds every statement it holds, and so does a declaration, but
\* a simple command feeds none of its substitutions.
Walk(s, text, fed, depth) ==
  LET visit(t, st) ==
        LET group == st.toks[1].is = "group"
            redirs == RedirsOf(st.toks)
            given == fed \/ ((group \/ Declaration(st.toks)) /\ (st.piped \/ Input(redirs)))
            u == IF group THEN t ELSE Command(t, st.toks, fed \/ st.piped, depth) IN
        FoldLeft(LAMBDA v, x : Walk(v, x, given, depth), FoldLeft(Redirect, u, redirs), Inner(st.toks)) IN
  FoldLeft(visit, s, Stmts(text))

\* Read: the Candidates, each as its Spellings, the files, and whether all was read.
Read(line) ==
  LET s == Walk(Nothing, line, FALSE, 0) IN
  IF Parses(line) THEN [read |-> s.cands, files |-> s.files, parsed |-> ~s.gaveUp]
  ELSE [read |-> <<>>, files |-> <<>>, parsed |-> FALSE]

-----------------------------------------------------------------------------
\* A patch, in whatever form: a heredoc's body is one token that holds its lines.
PatchText(lines) == Tok("patch", "", <<>>, lines)
NoPatch == [is |-> FALSE, dir |-> "", lines |-> <<>>]

\* Patch: apply_patch fed a heredoc, the line's only statement, alone or behind a cd to
\* a literal directory; dir is "" where there is no cd.
Patch(line) ==
  LET ops == SelectSeq(line, LAMBDA t : t.is = "op")
      sts == Stmts(line)
      cd == ArgsOf(WordsOf(sts[1].toks))
      last == sts[Len(sts)].toks
      redirs == RedirsOf(last)
      alone == ops = <<>> /\ Len(sts) = 1
      behindCd == /\ ops = <<Op("&&")>> /\ Len(sts) = 2
                  /\ Len(cd) = 2 /\ cd[1] = Word("cd") /\ Literal(cd[2]) IN
  IF /\ Parses(line) /\ (alone \/ behindCd)
     /\ ArgsOf(WordsOf(last)) \in {<<Word("apply_patch")>>, <<Word("applypatch")>>}
     /\ Len(redirs) = 1 /\ redirs[1].name \in {"<<", "<<'"}
    THEN [is |-> TRUE, dir |-> IF alone THEN "" ELSE Unquoted(cd[2]).name,
          lines |-> FlattenSeq([i \in DOMAIN redirs[1].in |-> redirs[1].in[i].in])]
    ELSE NoPatch
=============================================================================
