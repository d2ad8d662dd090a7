------------------------------ MODULE Payload ------------------------------
(***************************************************************************)
(* The canonical payload (internal/rule/evaluate.go): what an Adapter, and *)
(* `test --field` after it, may write into one, and what is derived where  *)
(* it is written.                                                          *)
(*                                                                         *)
(* A field is a sequence of Candidates, empty where it is absent; a        *)
(* Candidate is a sequence of Spellings.  Cleaning a path, normalizing a   *)
(* grant and reading a url's domain are functions given as constants:      *)
(* which values they join and which they refuse is what matters here.  A   *)
(* command line is read by Shell.tla.                                      *)
(***************************************************************************)
EXTENDS Lists

CONSTANTS Clean,     \* a path as it is cleaned
          Host,      \* a network_grant's host, None for one that is only a port
          DomainOf,  \* a url's domain, None where it has none to vouch for
          ReadLine,  \* what shell.Read makes of a command line
          None

ASSUME CleanAssumption == \A p \in DOMAIN Clean : Clean[p] \in DOMAIN Clean /\ Clean[Clean[p]] = Clean[p]
ASSUME HostAssumption == \A g \in DOMAIN Host : Host[g] = None \/ (Host[g] \in DOMAIN Host /\ Host[Host[g]] = Host[g])
ASSUME DomainAssumption == \A u \in DOMAIN DomainOf : DomainOf[u] = None \/ DomainOf[u] \in STRING
Fields == {"tool", "path", "command", "url", "domain", "network_grant", "model", "unreadable",
           "content", "removed_content", "writes_empty", "deletes", "unsandboxed", "server",
           "agent_type", "agent_prompt", "prompt", "response", "trigger"}

Spelled(v) == [spellings |-> <<v>>, whole |-> FALSE]
Has(p, f) == p.fields[f] # <<>>
Holds(seq, x) == \E i \in DOMAIN seq : seq[i] = x
With(p, f, cands) == [p EXCEPT !.fields[f] = cands]

\* unreadable gains an entry, once.
Unreadable(p, what) ==
  IF Holds(p.fields["unreadable"], Spelled(what)) THEN p
  ELSE With(p, "unreadable", Append(p.fields["unreadable"], Spelled(what)))

\* tool is one Candidate, whatever names it answers to.
SetTool(p, name) ==
  LET names == IF Has(p, "tool") THEN p.fields["tool"][1].spellings ELSE <<>> IN
  IF Holds(names, name) THEN p
  ELSE With(p, "tool", <<[spellings |-> Append(names, name), whole |-> FALSE]>>)

\* Mutant: a second url replaces the first.
SetURL_Replaces(p, url) ==
  IF DomainOf[url] = None THEN Unreadable(With(p, "url", <<Spelled(url)>>), "domain")
  ELSE With(With(p, "url", <<Spelled(url)>>), "domain", <<Spelled(DomainOf[url])>>)

\* Each url is a Candidate, and so is its domain, or the domain is unreadable.
SetURL(p, url) ==
  LET q == With(p, "url", Append(p.fields["url"], Spelled(url))) IN
  IF DomainOf[url] = None THEN Unreadable(q, "domain")
  ELSE With(q, "domain", Append(q.fields["domain"], Spelled(DomainOf[url])))

\* Mutant: a line that ran no command has no Candidate of its own.
SetCommand_NoEmpty(p, line) ==
  LET of == ReadLine[line]
      q == [With(p, "command",
                 <<[spellings |-> <<line>>, whole |-> TRUE]>>
                 \o [i \in DOMAIN of.read |-> [spellings |-> of.read[i], whole |-> FALSE]])
            EXCEPT !.files = of.files] IN
  IF of.parsed THEN q ELSE Unreadable(q, "command")

\* The whole line, every command read from it, and a Candidate with no Spelling where
\* there is none.
SetCommand(p, line) ==
  LET of == ReadLine[line]
      read == IF of.read = <<>> THEN <<<<>>>> ELSE of.read
      q == [With(p, "command",
                 <<[spellings |-> <<line>>, whole |-> TRUE]>>
                 \o [i \in DOMAIN read |-> [spellings |-> read[i], whole |-> FALSE]])
            EXCEPT !.files = of.files] IN
  IF of.parsed THEN q ELSE Unreadable(q, "command")

\* SetField.  An empty value, here None, is no answer and writes nothing.
SetField(p, f, v) ==
  CASE v = None -> p
    [] v # None /\ f = "tool" -> SetTool(p, v)
    [] v # None /\ f = "path" -> With(p, f, <<Spelled(Clean[v])>>)
    [] v # None /\ f = "command" -> SetCommand(p, v)
    [] v # None /\ f = "url" -> SetURL(p, v)
    [] v # None /\ f = "network_grant" ->
         IF Host[v] = None THEN p ELSE With(p, f, Append(p.fields[f], Spelled(Host[v])))
    [] v # None /\ f = "unreadable" -> Unreadable(p, v)
    [] OTHER -> With(p, f, <<Spelled(v)>>)

\* Both files of a rename, each a Candidate; one, where they are the same.
SetRename(p, from, to) ==
  LET q == SetField(p, "path", from)
      src == q.fields["path"]
      r == SetField(q, "path", to) IN
  IF to # None /\ (src = <<>> \/ src[1].spellings[1] # r.fields["path"][1].spellings[1])
    THEN With(r, "path", src \o r.fields["path"]) ELSE r

\* Mutant: the entry in unreadable outlives the field.
Unset_KeepsUnreadable(p, f) ==
  IF f = "url" THEN With(With(p, f, <<>>), "domain", <<>>) ELSE With(p, f, <<>>)

\* A field goes with its entry in unreadable, and a url with its domain.
Unset(p, f) ==
  LET gone == IF f = "url" THEN {"url", "domain"} ELSE {f}
      q == IF f = "url" THEN With(With(p, f, <<>>), "domain", <<>>) ELSE With(p, f, <<>>)
      declared == q.fields["unreadable"] IN
  With(q, "unreadable", Kept(declared, {c \in Range(declared) : c.spellings[1] \notin gone}))

\* A Candidate per model selector; one for every spelling of a path.
SetModels(p, models) ==
  LET some == Kept(models, Range(models) \ {None}) IN
  With(Unset(p, "model"), "model", [i \in DOMAIN some |-> Spelled(some[i])])

\* Its callers give one path, or two.
SetPathSpellings(p, paths) ==
  LET some == Kept(paths, Range(paths) \ {None})
      cleaned == [i \in DOMAIN some |-> Clean[some[i]]]
      once == IF Len(cleaned) = 2 /\ cleaned[1] = cleaned[2] THEN <<cleaned[1]>> ELSE cleaned IN
  With(Unset(p, "path"), "path",
       IF once = <<>> THEN <<>> ELSE <<[spellings |-> once, whole |-> FALSE]>>)

\* continued is StopHookActive: a stop hook made the agent go on already.
Empty == [kind |-> "shell", fields |-> [f \in Fields |-> <<>>], files |-> <<>>, continued |-> FALSE]

-----------------------------------------------------------------------------
\* withFiles: each file a shell call names is a payload of its own, with the call's
\* tool; one that could not be read keeps its path as written.
NamedFile(call, file) ==
  LET q == [Empty EXCEPT !.kind = IF file.write THEN "file_edit" ELSE "file_read",
                         !.fields["tool"] = call.fields["tool"]] IN
  IF file.unreadable THEN Unreadable(With(q, "path", <<Spelled(file.path)>>), "path")
  ELSE SetField(q, "path", file.path)

WithFiles(call) ==
  <<call>> \o (IF call.kind # "shell" THEN <<>>
               ELSE [i \in DOMAIN call.files |-> NamedFile(call, call.files[i])])

\* Yield: a load that lost rules marks every payload.
Yield(calls, lost) ==
  LET all == FlattenSeq([i \in DOMAIN calls |-> WithFiles(calls[i])]) IN
  [i \in DOMAIN all |-> IF lost THEN Unreadable(all[i], "rules") ELSE all[i]]
=============================================================================
