------------------------------ MODULE MCCalls ------------------------------
\* The calls of the three harnesses: every key of a tool absent, empty, of another type
\* and, where it takes one, a text of each sort; patches of one and of two sections.
EXTENDS Tools, TLC

CONSTANTS opus, haiku  \* two models

MCMcpNames == "mcp__s__t" :> <<"s", "t">>
MCPathIn == <<"src", "a">> :> "src/a" @@ <<"src", "./env">> :> "src/env"
Special(bare, stripped, uri, marked) == [bare |-> bare, stripped |-> stripped, uri |-> uri, marked |-> marked]
MCLooks ==
     "a:5" :> Special("a:5", "a", "", TRUE) @@ "[a#1]" :> Special("a", "a", "", FALSE)
  @@ "[b#2]" :> Special("b", "b", "", FALSE) @@ "a;b" :> Special("a;b", "a;b", "", TRUE)
  @@ "u" :> Special("u", "u", "http", FALSE) @@ "xd:" :> Special("xd:", "xd:", "other", FALSE)

\* The ways an object may have a key, and two objects as one.
Key(k, values) == {<<>>} \cup {k :> v : v \in values}
Both(os, ps) == {o @@ p : o \in os, p \in ps}
Texts(values) == {Text(v) : v \in values} \cup {Text(None), Number}
Contents == Texts({<<"x">>})
Of(adapter, event, fields) == [adapter |-> adapter, event |-> event, envelope |-> Object(fields)]
Uses(adapter, name, inputs) ==
  {Of(adapter, "PreToolUse", "tool_name" :> Text(name) @@ "tool_input" :> Object(i)) : i \in inputs}

Patches ==
  LET adds == {<<>>, <<Plus("x")>>, <<Plus("")>>, <<Line("row", "y"), Minus("z"), Plus("x"), Plus("w")>>, <<Minus("z")>>}
      one == {<<Header(v, f)>> \o b : v \in {"Add File:", "Update File:"}, f \in {"a", "./env"}, b \in adds}
               \cup {<<Header("Delete File:", "b")>>}
      moved == {<<Header("Update File:", "a"), Header("Move to:", f)>> \o b : f \in {"a", "b"}, b \in adds}
      short == {<<Header("Add File:", "b"), Plus("x")>>, <<Header("Delete File:", "b")>>,
                <<Header("Update File:", "a"), Minus("z"), Plus("w")>>,
                <<Header("Update File:", "a"), Header("Move to:", "src"), Minus("x")>>} IN
  {<<>>, <<Line("row", "y"), Plus("x")>>} \cup one \cup moved
  \cup {<<Line("begin", "")>> \o s \o t \o <<Line("end", "")>> : s \in short, t \in short}

Hashes ==
  LET put == <<Line("put", ""), Plus("x"), Plus("y")>>
      bodies == {<<>>, put, <<Line("put", ""), Plus(""), Plus("")>>, <<Line("put", ""), Plus("")>>, <<Line("paste", "")>>,
                 <<Line("cut", "")>> \o put, put \o <<Line("blank", ""), Plus("z")>>, <<Line("rem", "")>>,
                 <<Line("mv", "b")>> \o put, put \o <<Line("paste", "")>>, <<Line("row", "odd"), Line("cut", "")>>,
                 <<Header("Update File:", "b")>> \o put, put \o put, <<Line("put", ""), Line("mv", "src"), Plus("x")>>} IN
  {<<Line("begin", ""), Snapshot("[a#1]")>> \o b : b \in bodies}
  \cup {<<Snapshot("[a#1]")>> \o b \o <<Snapshot("[b#2]")>> \o c \o <<Line("end", ""), Plus("w"), Snapshot("[a#1]")>> :
          b \in bodies, c \in {put, <<Line("rem", "")>>, <<Line("paste", "")>>}}

ShellLines ==
  { <<Word("git"), Word("status")>>, <<Word("apply_patch"), Redir("<<'", <<PatchText(<<Header("Add File:", "a"), Plus("x")>>)>>)>>,
    <<Word("cd"), Word("src"), Op("&&"), Word("applypatch"),
      Redir("<<", <<PatchText(<<Header("Update File:", "a"), Minus("z"), Header("Delete File:", "./env")>>)>>)>>,
    <<Word("cd"), Single(<<Word("src")>>), Op("&&"), Word("apply_patch"), Redir("<<'", <<PatchText(<<Plus("x")>>)>>)>>,
    <<Word("cd"), Var("$X"), Op("&&"), Word("apply_patch"), Redir("<<", <<PatchText(<<Header("Add File:", "a")>>)>>)>>,
    <<Word("cd"), Word("src"), Op(";"), Word("apply_patch"), Redir("<<", <<PatchText(<<Header("Add File:", "a")>>)>>)>>,
    <<Word("apply_patch"), Word("a"), Redir("<<", <<PatchText(<<Header("Add File:", "a")>>)>>)>> }

Hosts == {ListOf(l) : l \in {<<>>, <<Text("h:443")>>, <<Text("h:443"), Number>>, <<Text(":443"), Text(None)>>}}
ShellUses ==
  LET inputs == Both(Key("command", Texts(ShellLines)),
                     Both(Key("allowed_domains", Hosts \cup {Number}),
                          Key("dangerouslyDisableSandbox", {Bool(TRUE), Bool(FALSE), Null}))) IN
  Uses("claude", "Bash", inputs) \cup Uses("codex", "Bash", Key("command", Texts(ShellLines)))
  \cup Uses("omp", "bash", Key("command", Texts(ShellLines)))
  \cup Uses("claude", "Monitor", {"ws" :> v : v \in {Number, Object(<<>>), Object("url" :> Text("u")), Object("url" :> Null)}})

EditUses ==
  LET edit == Both(Key("file_path", Texts({"./env"})), Both(Key("new_string", Contents), Key("old_string", Contents))) IN
  Uses("claude", "Edit", edit)
  \cup Uses("claude", "Write", Both(Key("file_path", Texts({"./env"})), Key("content", Contents)))
  \cup Uses("claude", "NotebookEdit", Both(Key("notebook_path", Texts({"a"})), Key("new_source", Contents)))
  \cup Uses("claude", "Read", Key("file_path", Texts({"./env"})))
  \cup Uses("codex", "apply_patch", Key("command", Texts(Patches)))

OtherUses ==
  LET spawn(type, prompt) == Both(Key(type, Texts({"t"})), Both(Key(prompt, Contents), Key("model", Texts({opus}))))
      ref(v) == Object("ref_id" :> v)
      open == {ListOf(l) : l \in {<<>>, <<ref(Text("u")), ref(Text("turn"))>>, <<Number, ref(Number), ref(Text("v"))>>}} IN
  Uses("claude", "Agent", spawn("subagent_type", "prompt"))
  \cup Uses("codex", "collaborationspawn_agent", spawn("agent_type", "message"))
  \cup Uses("claude", "WebFetch", Key("url", Texts({"u", "bad"}))) \cup Uses("codex", "webrun", Key("open", open \cup {Number}))
  \cup Uses("codex", "mcp__s__t", {<<>>}) \cup Uses("omp", "mcp__s__t", {<<>>}) \cup Uses("claude", "Glob", {<<>>})

OmpUses ==
  LET targets == Key("path", Texts({"./env", "a:5", "a;b", "[a#1]", "u", "xd:"}))
      paths == Key("path", Texts({"./env"})) \cup {"path" :> Text(None) @@ "_path" :> Text("[a#1]")}
      strings == Both(Key("new_string", Contents), Key("old_string", Contents))
      row(t) == Line("row", t)
      diffs == Texts({<<Plus("x"), Plus("y")>>, <<Plus("x"), row("y")>>, <<row("y"), Minus("z")>>, <<row("y"), Plus("x"), Minus("z")>>,
                      <<Plus("")>>, <<Minus("")>>})
      patch == Both(Key("op", {Text("create"), Text("delete"), Text("odd"), Number}),
                    Both(Key("rename", {Text("b"), Number}), Key("diff", diffs)))
      batch(entries) == Both(paths, {"edits" :> ListOf(e) : e \in entries})
      files == {"paths" :> ListOf(<<Text("[a#1]"), Text("b"), Number>>), "path" :> Text("./env"), <<>>} IN
  Uses("omp", "read", targets) \cup Uses("omp", "write", Both(targets, Key("content", Contents)))
  \cup Uses("omp", "web_search", {<<>>})
  \cup Uses("omp", "edit", Both(paths, strings)) \cup Uses("omp", "edit", batch({<<Object(e)>> : e \in patch}))
  \cup Uses("omp", "edit", batch({<<Object("old_string" :> Text(<<"z">>)), Object(e)>> :
              e \in {"op" :> Text("delete"), "diff" :> Text(<<Plus("x")>>), "old_string" :> Number}}))
  \cup Uses("omp", "edit", {"edits" :> v : v \in {Number, ListOf(<<>>), ListOf(<<Number>>)}})
  \cup Uses("omp", "edit", Both(files, {"input" :> t : t \in Texts(Hashes \cup {<<row("y")>>})}))
  \cup Uses("omp", "edit", {"_input" :> Text(t) : t \in {<<row("y")>> \o p : p \in Patches}})
TaskUses ==
  LET task == Both(Key("agent", Texts({"t"})), Key("task", Contents))
      model == Key("model", Texts({opus}) \cup {ListOf(l) : l \in {<<>>, <<Text(opus), Text(haiku)>>, <<Number, Text(opus)>>}})
      context == Key("context", {Text(<<"c">>), Number})
      tasks == {<<Object(t)>> : t \in task} \cup {<<Object("task" :> Text(<<"x">>)), Object("agent" :> Text("t"))>>, <<Number>>, <<>>} IN
  Uses("omp", "task", Both(task, model)) \cup Uses("omp", "task", Both(context, {"tasks" :> ListOf(l) : l \in tasks}))
  \cup Uses("omp", "task", {"tasks" :> Number}) \cup {Of("omp", "PreToolUse", "tool_name" :> Text("task"))}

Events ==
  LET agents == Key("agent_type", {Text("t"), Text(None), Null, Number})
      of(a) == {Of(a, e, k) : e \in AboutSubagent, k \in agents} IN
  UNION {of(a) : a \in {"claude", "codex", "omp"}}
  \cup {Of(a, "Stop", k) : a \in {"codex", "omp"}, k \in Key("last_assistant_message", {Text("r"), Text(None), Null, Number})}
  \cup {Of("claude", "UserPromptSubmit", k) : k \in Key("prompt", {Text("r"), Number})}
  \cup {Of("codex", "PreCompact", k) : k \in Key("trigger", {Text("r"), Number})}
  \cup {Of(a, e, k) : a \in {"claude", "omp"}, e \in {"Stop", "PreToolUse"},
          k \in Key("stop_hook_active", {Bool(TRUE), Bool(FALSE), Null, Number})}
  \cup {Of("codex", "SubagentStop", "agent_type" :> Text("t") @@ k) :
          k \in Key("stop_hook_active", {Bool(TRUE), Number})}
  \cup {[adapter |-> a, event |-> e, envelope |-> v] : a \in {"claude", "omp"}, e \in {"PreToolUse", "Stop"},
          v \in {Null, Object("cwd" :> Number), Object("tool_name" :> Text("edit") @@ "tool_input" :> Number)}}

MCCallSet == ShellUses \cup EditUses \cup OtherUses \cup OmpUses \cup TaskUses \cup Events
MCActs == LET calls == MCCallSet IN [c \in calls |-> Acts(c.adapter, c.event, c.envelope)]
=============================================================================
