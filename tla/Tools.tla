------------------------------- MODULE Tools -------------------------------
(***************************************************************************)
(* What the harnesses' tools do with a call, and what else an event is     *)
(* about: the reference the Adapters' reading (NormalizeOmp.tla) is held   *)
(* against.  Nothing here is handrail's.                                   *)
(*                                                                         *)
(* An act is one thing a call does: its kind and, for each field, the      *)
(* values it has there.  None among them is a value the call does not hold *)
(* or one no reader can tell.                                              *)
(***************************************************************************)
EXTENDS NormalizeOmp

Facts == {"path", "content", "removed_content", "writes_empty", "deletes", "unsandboxed", "network_grant",
          "server", "agent_type", "agent_prompt", "model", "url", "prompt", "response", "trigger"}
Act(kind, says) ==
  [kind |-> kind, says |-> [f \in Facts \cup {"command", "payload"} |-> IF f \in DOMAIN says THEN says[f] ELSE {}]]

\* The value of a key: none where it is absent or empty, None where it is no text.
Value(o, key) ==
  CASE At(o, key) \in {Absent, Text(None)} -> {}
    [] IsText(At(o, key)) /\ At(o, key) # Text(None) -> {At(o, key).of}
    [] OTHER -> {None}
Cleaned(vs) == {IF v = None THEN None ELSE Clean[v] : v \in vs}
Content(lines) == {Said(lines)} \ {None}
EmptyIf(b) == IF b THEN {"true"} ELSE {}

\* An edit of the files paths that replaces removed by content.  It writes no text where
\* it says which text it writes, and that is empty.
EditAct(paths, content, removed, names, deletes) ==
  IF paths = {} THEN {}
  ELSE {Act("file_edit",
            [path |-> Cleaned(paths), content |-> content, removed_content |-> removed, deletes |-> EmptyIf(deletes),
             writes_empty |-> EmptyIf(names /\ content = {} /\ paths # {None})])}
KeyEdit(paths, o, new, old) ==
  EditAct(paths, Value(o, new), Value(o, old), IsText(At(o, new)), FALSE)
UnknownEdit == {Act("file_edit", [path |-> {None}, content |-> {None}, removed_content |-> {None}])}

\* A patch: a section runs from a line that adds, updates or deletes a file to the next.
Heads(lines) == {i \in DOMAIN lines : lines[i].is = "header" /\ lines[i].verb # "Move to:"}
BodyOf(lines, h) == {i \in DOMAIN lines : i >= h /\ \A k \in Heads(lines) : k <= h \/ i < k}
TextsIn(lines, body, is) ==
  LET rows == SetToSortSeq({i \in body : lines[i].is = is}, <) IN
  [k \in DOMAIN rows |-> lines[rows[k]].name]
PatchActs(dir, lines) ==
  LET file(i) == IF <<dir, lines[i].name>> \in DOMAIN PathIn THEN PathIn[<<dir, lines[i].name>>] ELSE lines[i].name
      acts(h) ==
        LET body == BodyOf(lines, h)
            removed == TextsIn(lines, body, "minus") IN
        EditAct({file(i) : i \in {j \in body : lines[j].is = "header"}},
                Content(TextsIn(lines, body, "plus")), Content(removed),
                lines[h].verb = "Add File:" \/ removed # <<>>, lines[h].verb = "Delete File:") IN
  IF Heads(lines) = {} THEN UnknownEdit ELSE UNION {acts(h) : h \in Heads(lines)}

\* Codex takes a line of this form for itself.
CodexPatch(line) ==
  LET n == Len(line) IN
  /\ n \in {2, 5} /\ line[n - 1] \in {Word("apply_patch"), Word("applypatch")}
  /\ line[n].is = "redir" /\ line[n].name \in {"<<", "<<'"}
  /\ n = 5 => line[1] = Word("cd") /\ line[2].is \in {"word", "single"} /\ line[3] = Op("&&")
CodexActs(line) ==
  IF ~CodexPatch(line) THEN {}
  ELSE PatchActs(IF Len(line) = 5 THEN line[2].name ELSE "", line[Len(line)].in[1].in)

-----------------------------------------------------------------------------
\* The tools of Claude Code and Codex.
ShellActs(input) ==
  LET asked == At(input, "allowed_domains")
      hosts == IF asked.is = "list" THEN {asked.of[i] : i \in DOMAIN asked.of} ELSE {}
      off == At(input, "dangerouslyDisableSandbox") IN
  {Act("shell",
       [command |-> Value(input, "command"),
        network_grant |-> {Host[h.of] : h \in {g \in hosts : g \in {Text(s) : s \in {t \in DOMAIN Host : Host[t] # None}}}}
                          \cup (IF asked.is \in {"absent", "list"} /\ \A g \in hosts : IsText(g) THEN {} ELSE {None}),
        unsandboxed |-> IF off.is = "bool" THEN EmptyIf(off.of) ELSE IF off = Absent THEN {} ELSE {None},
        url |-> Value(KeysOf(At(input, "ws")), "url")])}
SpawnActs(input, type, prompt) ==
  {Act("agent", [agent_type |-> Value(input, type), agent_prompt |-> Value(input, prompt),
                 model |-> Value(input, "model")])}
WebRefs(input) ==
  LET open == At(input, "open") IN
  IF open.is = "list" THEN {TextAt(KeysOf(open.of[i]), "ref_id") : i \in DOMAIN open.of} ELSE {}

ToolActs(adapter, name, input) ==
  CASE name \in {"Bash", "PowerShell", "Monitor"} ->
         ShellActs(input)
         \cup (IF adapter = "codex" /\ IsText(At(input, "command")) /\ Value(input, "command") # {}
                 THEN CodexActs(input["command"].of) ELSE {})
    [] name = "Edit" -> KeyEdit(Value(input, "file_path"), input, "new_string", "old_string")
    [] name = "Write" -> KeyEdit(Value(input, "file_path"), input, "content", "no key")
    [] name = "NotebookEdit" -> KeyEdit(Value(input, "notebook_path"), input, "new_source", "no key")
    [] name = "Read" -> {Act("file_read", [path |-> Cleaned(Value(input, "file_path"))])}
    [] name = "apply_patch" -> IF There(input, "command") THEN PatchActs("", LinesOf(input["command"])) ELSE {}
    [] name = "Agent" -> SpawnActs(input, "subagent_type", "prompt")
    [] name \in {"spawn_agent", "collaborationspawn_agent"} -> SpawnActs(input, "agent_type", "message")
    [] name = "WebFetch" -> {Act("network", [url |-> Value(input, "url")])}
    [] name = "webrun" -> {Act("network", [url |-> WebRefs(input) \cap DOMAIN DomainOf])}
    [] OTHER -> IF name \in DOMAIN McpNames THEN {Act("mcp", [server |-> {McpNames[name][1]}])}
                ELSE {Act("other", <<>>)}

-----------------------------------------------------------------------------
\* omp's tools.
EditPaths(input) ==
  LET told == IF Value(input, "path") # {} THEN Value(input, "path") ELSE Value(input, "_path") IN
  {IF v = None THEN None ELSE TargetOf(v).bare : v \in told}

\* An edit in a form of which only the files may be told.
UntoldActs(input) ==
  LET listed == IF At(input, "paths").is = "list" THEN Range(input["paths"].of) ELSE {}
      act(paths) == Act("file_edit", [path |-> {None} \cup Cleaned(paths), content |-> {None}]) IN
  IF listed = {} THEN {act(EditPaths(input))} ELSE {act({TargetOf(v.of).bare}) : v \in {w \in listed : IsText(w)}}

\* Where a target may lead: what it holds before its marks too, if they are selectors.
TargetActs(kind, input, read, says) ==
  LET t == At(input, "path")
      of == TargetOf(t.of)
      with(k, paths) == {Act(k, [path |-> Cleaned(paths), url |-> {}] @@ says)} IN
  CASE t \in {Absent, Text(None)} -> {}
    [] t.is \notin {"absent", "text"} -> with(kind, {None})
    [] IsText(t) /\ t # Text(None) /\ of.uri # "" ->
         IF read /\ of.uri = "http" THEN {Act("network", [url |-> {of.bare}])}
         ELSE {Act("other", [path |-> {None}] @@ [f \in DOMAIN says \cap {"content"} |-> says[f]])}
    [] OTHER -> with(kind, {of.bare} \cup (IF read /\ of.stripped # of.bare THEN {of.stripped, None} ELSE {})
                           \cup (IF of.marked THEN {None} ELSE {}))

\* Hashline: the rows right behind a PUT that ends in a colon are its body; one that
\* does not pastes text from elsewhere, and what is no operation may do anything.
HashActs(lines) ==
  LET stop == {i \in DOMAIN lines : lines[i].is = "end"}
      all == {i \in DOMAIN lines : \A e \in stop : i < e}
      snaps == {i \in all : lines[i].is = "snapshot"}
      body(h) == {i \in all : i > h /\ \A k \in snaps : k <= h \/ i < k}
      rows(h) == {i \in body(h) : lines[i].is = "plus" /\
                    \E j \in body(h) : j < i /\ lines[j].is = "put" /\ \A k \in j + 1..i : lines[k].is = "plus"}
      has(h, is) == \E i \in body(h) : lines[i].is = is
      odd(h) == \E i \in body(h) : lines[i].is \notin {"rem", "mv", "put", "paste", "cut", "blank", "begin"} /\ i \notin rows(h)
      text(h) == TextsIn(lines, rows(h), "plus")
      unknown(b) == IF b THEN {None} ELSE {}
      act(h) == Act("file_edit",
        [path |-> Cleaned({TargetOf(lines[h].name).bare} \cup {lines[i].name : i \in {j \in body(h) : lines[j].is = "mv"}}
                          \cup unknown(odd(h))),
         content |-> Content(text(h)) \cup unknown(odd(h) \/ has(h, "paste")),
         deletes |-> EmptyIf(has(h, "rem")),
         writes_empty |-> EmptyIf(/\ ~odd(h) /\ ~has(h, "paste") /\ text(h) # <<>>
                                  /\ \A i \in DOMAIN text(h) : text(h)[i] = "")]) IN
  {act(h) : h \in snaps}

OmpTextActs(input, text) ==
  LET lines == LinesOf(text)
      snaps == {i \in DOMAIN lines : lines[i].is = "snapshot"} IN
  IF \E i \in snaps : \A h \in Heads(lines) : i < h THEN HashActs(lines)
  ELSE IF Heads(lines) = {} THEN UntoldActs(input) ELSE PatchActs("", lines)

\* One entry of a batch, on the file the batch is about.
CreatedText(lines) ==
  IF \A i \in DOMAIN lines : lines[i].is = "plus" \/ lines[i].name = ""
    THEN [i \in DOMAIN lines |-> lines[i].name]
    ELSE [i \in DOMAIN lines |-> IF lines[i].is = "plus" THEN "+" \o lines[i].name ELSE lines[i].name]
EntryActs(input, entry) ==
  LET op == IF There(entry, "op") THEN TextAt(entry, "op") ELSE "update"
      diff == At(entry, "diff")
      lines == LinesOf(diff)
      all == DOMAIN lines
      paths == EditPaths(input) \cup Value(entry, "rename")
      bad == op \notin {"create", "update", "delete"} \/ diff.is \notin {"absent", "text"}
      content == IF bad THEN {None} ELSE Content(IF op = "create" THEN CreatedText(lines) ELSE TextsIn(lines, all, "plus"))
      removed == IF bad THEN {None} ELSE IF op = "create" THEN {} ELSE Content(TextsIn(lines, all, "minus")) IN
  CASE There(entry, "old_string") \/ There(entry, "new_string") -> KeyEdit(EditPaths(input), entry, "new_string", "old_string")
    [] ~(There(entry, "old_string") \/ There(entry, "new_string")) /\ {"op", "rename", "diff"} \cap DOMAIN entry # {} ->
         IF op = "delete" /\ ~bad THEN EditAct(paths, {}, {}, FALSE, TRUE)
         ELSE EditAct(paths, content, removed,
                      There(entry, "diff") /\ (op = "create" \/ TextsIn(lines, all, "minus") # <<>>), op = "delete")
    [] OTHER -> UntoldActs(input)

EditActs(input) ==
  LET edits == At(input, "edits") IN
  CASE There(input, "input") -> OmpTextActs(input, input["input"])
    [] There(input, "_input") /\ ~There(input, "input") -> OmpTextActs(input, input["_input"])
    [] There(input, "edits") /\ {"input", "_input"} \cap DOMAIN input = {} ->
         IF edits.is = "list" /\ edits.of # <<>> THEN UNION {EntryActs(input, KeysOf(edits.of[i])) : i \in DOMAIN edits.of}
         ELSE UntoldActs(input)
    [] OTHER -> IF {"old_string", "new_string"} \cap DOMAIN input # {}
                THEN KeyEdit(EditPaths(input), input, "new_string", "old_string") ELSE UntoldActs(input)

\* A task hands its text over, behind what the batch says to all of them; a model may be
\* a list to choose from.
TaskActs(entry, batch, batched) ==
  LET keys == KeysOf(entry)
      of == At(keys, "model")
      listed == IF of.is = "list" THEN {of.of[i] : i \in DOMAIN of.of} ELSE {}
      text == Value(keys, "task")
      context == Value(batch, "context")
      said == IF text = {} /\ There(keys, "task") THEN {<<"">>} ELSE text
      whole == IF said = {} THEN context ELSE {IF {c, t} \cap {None} # {} THEN t ELSE c \o t : c \in context, t \in said}
      prompt == CASE ~batched -> text
                  [] batched /\ context = {} -> IF text = {} THEN {None} ELSE text
                  [] OTHER -> whole \cup (IF text = {} \/ None \in context THEN {None} ELSE {}) IN
  IF entry.is # "object" THEN {Act("agent", [agent_type |-> {None}, agent_prompt |-> {None}, model |-> {None}])}
  ELSE {Act("agent",
            [agent_type |-> Value(keys, "agent"), agent_prompt |-> prompt,
             model |-> IF of.is # "list" THEN Value(keys, "model")
                       ELSE {m.of : m \in {n \in listed : IsText(n)}}
                            \cup (IF listed = {} \/ \E n \in listed : ~IsText(n) THEN {None} ELSE {})])}

OmpActs(name, given) ==
  LET input == KeysOf(given)
      tasks == At(input, "tasks") IN
  CASE name = "bash" -> {Act("shell", [command |-> Value(input, "command")])}
    [] name = "web_search" -> {Act("network", [url |-> Value(input, "url")])}
    [] name = "read" -> TargetActs("file_read", input, TRUE, <<>>)
    [] name = "write" -> TargetActs("file_edit", input, FALSE,
                           [content |-> Value(input, "content"),
                            writes_empty |-> EmptyIf(At(input, "content") = Text(None) /\ IsText(At(input, "path")))])
    [] name = "edit" -> EditActs(input)
    [] name = "task" ->
         IF ~There(input, "tasks") THEN TaskActs(given, <<>>, FALSE)
         ELSE IF tasks.is = "list" /\ tasks.of # <<>> THEN UNION {TaskActs(tasks.of[i], input, TRUE) : i \in DOMAIN tasks.of}
         ELSE TaskActs(Absent, <<>>, TRUE)
    [] OTHER -> IF name \in DOMAIN McpNames THEN {Act("mcp", [server |-> {None}])} ELSE {Act("other", <<>>)}

-----------------------------------------------------------------------------
\* An event: a call of a tool, or what its envelope says.
EnvelopeActs(adapter, event, fields) ==
  LET response == IF event \in {"Stop", "SubagentStop"} /\ At(fields, "last_assistant_message") # Null
                  THEN Value(fields, "last_assistant_message") ELSE {}
      whose == IF At(fields, "agent_type") = Null /\ adapter # "omp" THEN {} ELSE Value(fields, "agent_type")
      says == [prompt |-> Value(fields, "prompt"), response |-> response,
               trigger |-> IF event = "PreCompact" THEN Value(fields, "trigger") ELSE {},
               agent_type |-> IF event \in AboutSubagent THEN whose ELSE {}] IN
  IF event \in AboutSubagent /\ whose = {} /\ adapter # "omp" THEN {} ELSE {Act("", says)}

Acts(adapter, event, envelope) ==
  LET fields == envelope.of
      given == At(fields, "tool_input")
      name == TextAt(fields, "tool_name") IN
  IF ~Decoded(envelope) THEN {Act("", [payload |-> {None}])}
  ELSE IF name = None THEN EnvelopeActs(adapter, event, fields)
  ELSE IF adapter = "omp" THEN OmpActs(name, given) ELSE ToolActs(adapter, name, KeysOf(given))
=============================================================================
