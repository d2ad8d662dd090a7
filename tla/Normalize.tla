----------------------------- MODULE Normalize -----------------------------
(***************************************************************************)
(* What each Adapter reads from a harness's JSON (internal/harness):       *)
(* Normalize turns one payload of the wire into the canonical payloads of  *)
(* Payload.tla, one per edit of a patch, task of a batch or file section.  *)
(*                                                                         *)
(* A JSON value is known by its type and, where it is text, a list or an   *)
(* object, by what it holds; None is the empty text.  A name or a path is  *)
(* one value, a text that has lines is the sequence of them.  The lines of *)
(* a patch, a diff or a hashline edit are read by what they begin with.    *)
(***************************************************************************)
EXTENDS Payload, Shell

CONSTANTS McpNames,   \* the server and the tool an mcp__<server>__<tool> name holds
          PathIn,     \* a relative file as it is named from outside a directory
          Looks       \* an omp target that is more than a path: see TargetOf

-----------------------------------------------------------------------------
\* JSON.  An absent key reads as a value of no type.
Json(is, of) == [is |-> is, of |-> of]
Text(s) == Json("text", s)
ListOf(values) == Json("list", values)
Object(keys) == Json("object", keys)
Bool(b) == Json("bool", b)
Null == Json("null", None)
Number == Json("number", None)
Absent == Json("absent", None)
At(o, key) == IF key \in DOMAIN o THEN o[key] ELSE Absent
There(o, key) == key \in DOMAIN o
IsText(v) == v.is = "text"
TextAt(o, key) == IF IsText(At(o, key)) THEN At(o, key).of ELSE None
LinesOf(v) == IF IsText(v) /\ v.of # None THEN v.of ELSE <<>>
KeysOf(v) == IF v.is = "object" THEN v.of ELSE <<>>

\* Lines joined: none, or one that is blank, are the empty text.
Said(lines) == IF lines \in {<<>>, <<"">>} THEN None ELSE lines

\* Mutant: a key of another type falls through to the next one.
Set_FallsThrough(p, f, o, keys) ==
  LET answers == SelectSeq(keys, LAMBDA k : IsText(At(o, k)) /\ At(o, k).of # None) IN
  IF answers = <<>> THEN p ELSE SetField(p, f, o[answers[1]].of)

\* set: the first key that is there and not empty; a value that is no text is the
\* answer, and declared.
Set(p, f, o, keys) ==
  LET answers == SelectSeq(keys, LAMBDA k : There(o, k) /\ ~(IsText(o[k]) /\ o[k].of = None)) IN
  IF answers = <<>> THEN p
  ELSE IF IsText(o[answers[1]]) THEN SetField(p, f, o[answers[1]].of) ELSE Unreadable(p, f)
SetEach(p, o, table) == FoldLeft(LAMBDA q, row : Set(q, row[1], o, row[2]), p, table)

SetNames(p, names) == FoldLeft(LAMBDA q, n : SetField(q, "tool", n), p, names)
Declares(p, fs) == FoldLeft(Unreadable, p, fs)
\* writesEmpty: text is named, and read as empty.
WritesEmpty(p, namesText) ==
  IF namesText /\ Has(p, "path") /\ ~Has(p, "content") THEN SetField(p, "writes_empty", "true") ELSE p

FileEdit(names) == SetNames([Empty EXCEPT !.kind = "file_edit"], names)

-----------------------------------------------------------------------------
\* Lines.  A header opens a file section of a patch, or with "Move to:" names one more
\* file in it; a snapshot opens a section of a hashline edit.
Line(is, name) == [is |-> is, name |-> name, verb |-> ""]
Plus(text) == Line("plus", text)
Minus(text) == Line("minus", text)
Header(verb, file) == [is |-> "header", name |-> file, verb |-> verb]
Snapshot(target) == Line("snapshot", target)

\* The indices of a part of the lines, and the texts of those of one kind.
Rows(lines, from, to, is) ==
  LET those == SelectSeq(Between(from, to), LAMBDA i : lines[i].is = is) IN
  [i \in DOMAIN those |-> lines[those[i]].name]

InDir(dir, file) == IF <<dir, file>> \in DOMAIN PathIn THEN PathIn[<<dir, file>>] ELSE file

\* edit: the payload one section makes.
SectionEdit(names, verb, paths, added, removed) ==
  LET p == SetRename(FileEdit(names), paths[1], paths[Len(paths)])
      q == SetField(SetField(p, "content", Said(added)), "removed_content", Said(removed))
      r == IF verb = "Delete File:" THEN SetField(q, "deletes", "true") ELSE q IN
  WritesEmpty(r, verb = "Add File:" \/ removed # <<>>)

Headers(lines) == SelectSeq(Between(1, Len(lines)), LAMBDA i : lines[i].is = "header")

\* Mutant: a rename opens a section of its own.
SectionStarts_MoveToo(lines) == Headers(lines)

\* The headers that open a section: "Move to:" names one more file in the one it sits in.
SectionStarts(lines) ==
  SelectSeq(Headers(lines), LAMBDA i : lines[i].verb # "Move to:" \/ i = Headers(lines)[1])

\* Mutant: the lines of the sections before are not dropped.
SectionPayload_KeepsLines(names, dir, lines, from, to) ==
  LET files == Rows(lines, from, to, "header") IN
  SectionEdit(names, lines[from].verb, [i \in DOMAIN files |-> InDir(dir, files[i])],
              Rows(lines, 1, to, "plus"), Rows(lines, 1, to, "minus"))

SectionPayload(names, dir, lines, from, to) ==
  LET files == Rows(lines, from, to, "header") IN
  SectionEdit(names, lines[from].verb, [i \in DOMAIN files |-> InDir(dir, files[i])],
              Rows(lines, from, to, "plus"), Rows(lines, from, to, "minus"))

\* patchPayloads: one edit per file section, each with the lines of its own body; a
\* patch with no header is still an edit, of which nothing was read.
PatchPayloads(names, dir, lines) ==
  LET starts == SectionStarts(lines)
      to(k) == IF k = Len(starts) THEN Len(lines) ELSE starts[k + 1] - 1 IN
  IF starts = <<>> THEN <<Declares(FileEdit(names), <<"path", "content", "removed_content">>)>>
  ELSE [k \in DOMAIN starts |-> SectionPayload(names, dir, lines, starts[k], to(k))]

-----------------------------------------------------------------------------
\* Claude Code and Codex.
Aliases ==
  [claude |-> <<<<"Agent", "Task">>>>,
   codex |-> <<<<"apply_patch", "Edit", "Write">>, <<"spawn_agent", "Agent">>>>,
   omp |-> <<>>]
AgentKeys == [claude |-> <<"subagent_type", "prompt">>, codex |-> <<"agent_type", "message">>]
TextKeys == <<"content", "new_string", "new_source">>

\* toolNames: every name the harness answers to for the call.
ToolNames(adapter, name) ==
  LET known == SelectSeq(Aliases[adapter], LAMBDA names : names[1] = name) IN
  CASE adapter = "omp" -> <<name>>
    [] adapter # "omp" /\ name \in DOMAIN McpNames -> <<name, McpNames[name][2]>>
    [] OTHER -> IF known # <<>> THEN known[1] ELSE <<name>>

Classify(name) ==
  CASE name = None -> ""
    [] name # None /\ name \in DOMAIN McpNames -> "mcp"
    [] name \in {"Bash", "PowerShell", "Monitor"} -> "shell"
    [] name \in {"Edit", "Write", "NotebookEdit", "apply_patch"} -> "file_edit"
    [] name = "Read" -> "file_read"
    [] name \in {"Agent", "spawn_agent", "collaborationspawn_agent"} -> "agent"
    [] name \in {"WebFetch", "WebSearch", "webrun"} -> "network"
    [] OTHER -> "other"

\* toolName: a name that is no text is declared.
Called(fields) ==
  IF There(fields, "tool_name") /\ ~IsText(fields["tool_name"]) THEN Unreadable(Empty, "tool") ELSE Empty

\* setToolURL: where Monitor and webrun nest a url; most refs of webrun name none.
SetToolURL(p, name, input) ==
  LET refs == IF At(input, "open").is = "list" THEN input["open"].of ELSE <<>>
      open(q, v) == LET ref == TextAt(KeysOf(v), "ref_id") IN
                    IF ref # None /\ ref \in DOMAIN DomainOf THEN SetField(q, "url", ref) ELSE q IN
  CASE name = "Monitor" -> Set(p, "url", KeysOf(At(input, "ws")), <<"url">>)
    [] name = "webrun" -> FoldLeft(open, p, refs)
    [] OTHER -> p

\* Mutant: one host that is no text hides behind the ones that are.
SandboxHosts_Skips(p, asked) ==
  FoldLeft(LAMBDA q, v : IF IsText(v) THEN SetField(q, "network_grant", v.of) ELSE q,
           p, IF asked.is = "list" THEN asked.of ELSE <<>>)

SandboxHosts(p, asked) ==
  LET hosts == IF asked.is = "list" THEN asked.of ELSE <<>>
      granted == FoldLeft(LAMBDA q, v : IF IsText(v) THEN SetField(q, "network_grant", v.of) ELSE q, p, hosts) IN
  IF asked.is = "absent" \/ (asked.is = "list" /\ \A i \in DOMAIN hosts : IsText(hosts[i]))
    THEN granted ELSE Unreadable(granted, "network_grant")

\* setSandbox: the hosts a shell call asks for, and whether it asks for no sandbox.
SetSandbox(p, input) ==
  LET q == SandboxHosts(p, At(input, "allowed_domains"))
      off == At(input, "dangerouslyDisableSandbox") IN
  CASE off.is = "bool" /\ off.of -> SetField(q, "unsandboxed", "true")
    [] off.is \notin {"bool", "absent"} -> Unreadable(q, "unsandboxed")
    [] OTHER -> q

\* shellEdits: the patch Codex applies itself for a shell call.
ShellEdits(adapter, names, line) ==
  IF adapter = "codex" /\ line # None /\ Patch(line).is
    THEN PatchPayloads(names, Patch(line).dir, Patch(line).lines) ELSE <<>>

StopEvents == {"Stop", "SubagentStop"}
\* What a prompt and, setStop, a stop carry in the envelope: that it was continued
\* already, which anything but true says it was not, and the response.  Codex sends null
\* for a stop with no text.
SetEnvelope(p, event, fields) ==
  LET q == Set(p, "prompt", fields, <<"prompt">>)
      r == [q EXCEPT !.continued = At(fields, "stop_hook_active") = Bool(TRUE)] IN
  CASE event \notin StopEvents -> q
    [] event \in StopEvents /\ At(fields, "last_assistant_message") = Null -> r
    [] OTHER -> Set(r, "response", fields, <<"last_assistant_message">>)

AboutSubagent == {"SubagentStart", "SubagentStop"}
\* A subagent event about no named agent is the harness's own, and no rule's.
Internal(event, fields) ==
  event \in AboutSubagent /\ At(fields, "agent_type") \in {Absent, Null, Text(None)}

\* payloads
CanonicalPayloads(adapter, event, fields, input) ==
  LET name == TextAt(fields, "tool_name")
      kind == Classify(name)
      names == ToolNames(adapter, name)
      read == SetEach(SetNames([Called(fields) EXCEPT !.kind = kind], names), input,
                << <<"agent_type", <<AgentKeys[adapter][1]>>>>, <<"agent_prompt", <<AgentKeys[adapter][2]>>>>,
                   <<"model", <<"model">>>>, <<"url", <<"url">>>> >>
                \o (IF kind = "file_edit" THEN <<>> ELSE << <<"command", <<"command">>>> >>)
                \o << <<"path", <<"file_path", "notebook_path">>>>, <<"content", TextKeys>>,
                      <<"removed_content", <<"old_string">>>> >>)
      p == SetToolURL(read, name, input)
      patch == kind = "file_edit" /\ There(input, "command") /\ ~Has(p, "path")
      q == CASE kind = "shell" -> SetSandbox(p, input)
             [] kind = "file_edit" -> WritesEmpty(p, \E i \in DOMAIN TextKeys : IsText(At(input, TextKeys[i])))
             [] kind = "mcp" -> SetField(p, "server", McpNames[name][1])
             [] OTHER -> p
      e == SetEnvelope(q, event, fields)
      r == IF event = "PreCompact" THEN Set(e, "trigger", fields, <<"trigger">>) ELSE e IN
  IF patch THEN PatchPayloads(names, "", LinesOf(input["command"]))
  ELSE IF Internal(event, fields) THEN <<>>
  ELSE <<IF event \in AboutSubagent THEN Set(r, "agent_type", fields, <<"agent_type">>) ELSE r>>
       \o (IF kind = "shell" THEN ShellEdits(adapter, names, TextAt(input, "command")) ELSE <<>>)
=============================================================================
