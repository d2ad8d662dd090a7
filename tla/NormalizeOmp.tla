---------------------------- MODULE NormalizeOmp ----------------------------
(***************************************************************************)
(* omp's native tool inputs (internal/harness/omp.go), and Normalize over  *)
(* the three Adapters.  Each member of a batch and each file section stays *)
(* a payload of its own.                                                   *)
(***************************************************************************)
EXTENDS Normalize

\* A target: as it is without a snapshot's brackets, and without the selectors a read
\* may take off it; a URI, of http or of another scheme; whether it holds a mark that
\* may or may not be a selector.
TargetOf(t) ==
  IF t \in DOMAIN Looks THEN Looks[t] ELSE [bare |-> t, stripped |-> t, uri |-> "", marked |-> FALSE]
Unwrapped(t) == TargetOf(t).bare

\* ompTarget.  Whether a selector is one depends on the disk, which is not looked at.
OmpTarget(p, input, read) ==
  LET t == At(input, "path")
      of == TargetOf(t.of)
      paths == IF read /\ of.stripped # of.bare THEN <<of.bare, of.stripped>> ELSE <<of.bare>>
      q == SetPathSpellings(p, paths) IN
  CASE t.is = "absent" -> p
    [] t.is \notin {"absent", "text"} -> Unreadable(p, "path")
    [] IsText(t) /\ of.uri = "http" /\ read -> SetField([p EXCEPT !.kind = "network"], "url", of.bare)
    [] IsText(t) /\ of.uri # "" /\ ~(of.uri = "http" /\ read) -> Unreadable([p EXCEPT !.kind = "other"], "path")
    [] OTHER -> IF Len(paths) > 1 \/ of.marked THEN Unreadable(q, "path") ELSE q

OmpKind(name) ==
  CASE name = None -> ""
    [] name = "bash" -> "shell"
    [] name = "read" -> "file_read"
    [] name = "write" -> "file_edit"
    [] name = "web_search" -> "network"
    [] OTHER -> IF name \in DOMAIN McpNames THEN "mcp" ELSE "other"

-----------------------------------------------------------------------------
\* Edits.
OmpEdit == FileEdit(<<"edit">>)

\* ompEditPath: the payload with its path, and that path; a text that is empty is
\* passed over.
EditPathOf(input) ==
  LET keys == SelectSeq(<<"path", "_path">>, LAMBDA k : There(input, k) /\ input[k] # Text(None)) IN
  IF keys = <<>> THEN Absent ELSE input[keys[1]]
SetEditPath(p, input) ==
  LET t == EditPathOf(input) IN
  CASE t.is = "absent" -> p
    [] IsText(t) -> SetField(p, "path", Unwrapped(t.of))
    [] OTHER -> Unreadable(p, "path")

\* Mutant: an edit handrail cannot read names the files it was told, and no more.
UnreadEdits_TakesPaths(input) ==
  LET paths == IF At(input, "paths").is = "list"
               THEN SelectSeq(input["paths"].of, LAMBDA v : IsText(v) /\ v.of # None) ELSE <<>> IN
  IF paths = <<>> THEN <<Declares(SetEditPath(OmpEdit, input), <<"path", "content">>)>>
  ELSE [i \in DOMAIN paths |-> SetField(OmpEdit, "path", Unwrapped(paths[i].of))]

\* ompUnreadEdits: the files it may be about are named, and nothing is taken as read.
UnreadEdits(input) ==
  LET paths == IF At(input, "paths").is = "list"
               THEN SelectSeq(input["paths"].of, LAMBDA v : IsText(v) /\ v.of # None) ELSE <<>> IN
  IF paths = <<>> THEN <<Declares(SetEditPath(OmpEdit, input), <<"path", "content">>)>>
  ELSE [i \in DOMAIN paths |->
          Declares(SetField(OmpEdit, "path", Unwrapped(paths[i].of)), <<"path", "content">>)]

\* ompReplace
Replacement(input, entry) ==
  LET p == Set(Set(SetEditPath(OmpEdit, input), "content", entry, <<"new_string">>),
               "removed_content", entry, <<"old_string">>) IN
  WritesEmpty(p, IsText(At(entry, "new_string")))

\* ompCreateContent: rows that all begin with a plus lose it; else they are literal.
CreateContent(lines) ==
  LET rows == {i \in DOMAIN lines : lines[i].name # "" \/ lines[i].is = "plus"}
      prefixed == rows # {} /\ \A i \in rows : lines[i].is = "plus" IN
  [i \in DOMAIN lines |->
     IF lines[i].is = "plus" /\ ~prefixed THEN "+" \o lines[i].name ELSE lines[i].name]

\* ompPatchDiff and ompPatchUpdate; the headers of a unified diff are no rows of it.
PatchDiff(p, operation, diff) ==
  LET lines == LinesOf(diff)
      added == Rows(lines, 1, Len(lines), "plus")
      removed == Rows(lines, 1, Len(lines), "minus") IN
  CASE diff.is = "absent" -> p
    [] diff.is \notin {"absent", "text"} -> Declares(p, <<"content", "removed_content">>)
    [] IsText(diff) /\ operation = "create" ->
         WritesEmpty(SetField(p, "content", Said(CreateContent(lines))), TRUE)
    [] IsText(diff) /\ operation = "update" ->
         WritesEmpty(SetField(SetField(p, "content", Said(added)), "removed_content", Said(removed)), removed # <<>>)
    [] OTHER -> p

\* ompPatchEntry: the operation, the file, the one it is renamed to, and the diff.
PatchEntry(input, entry) ==
  LET operation == IF There(entry, "op") THEN TextAt(entry, "op") ELSE "update"
      source == EditPathOf(input)
      p == SetEditPath(OmpEdit, input)
      q == IF operation \in {"create", "delete", "update"} THEN p ELSE Declares(p, <<"content", "removed_content">>)
      to == At(entry, "rename")
      r == CASE to.is = "absent" -> q
             [] IsText(to) -> SetRename(q, IF IsText(source) THEN Unwrapped(source.of) ELSE None, to.of)
             [] OTHER -> Unreadable(q, "path") IN
  PatchDiff(IF operation = "delete" THEN SetField(r, "deletes", "true") ELSE r, operation, At(entry, "diff"))

\* ompEditBatch: each entry in the form it has.
Entry(input, entry) ==
  CASE There(entry, "old_string") \/ There(entry, "new_string") -> <<Replacement(input, entry)>>
    [] ~(There(entry, "old_string") \/ There(entry, "new_string"))
         /\ \E k \in {"op", "rename", "diff"} : There(entry, k) -> <<PatchEntry(input, entry)>>
    [] OTHER -> UnreadEdits(input)

-----------------------------------------------------------------------------
\* Hashline: a snapshot line opens a file section; a PUT that ends in a colon has a body.
NewSection(file) ==
  [payload |-> SetField(OmpEdit, "path", file), source |-> file, added |-> <<>>, body |-> FALSE, unread |-> FALSE]

\* operation
Operation(sec, line) ==
  CASE line.is = "rem" -> [sec EXCEPT !.payload = SetField(@, "deletes", "true")]
    [] line.is = "mv" -> [sec EXCEPT !.payload = SetRename(@, sec.source, line.name)]
    [] line.is = "put" -> [sec EXCEPT !.body = TRUE]
    [] line.is = "paste" -> [sec EXCEPT !.unread = TRUE]
    [] line.is \in {"cut", "blank", "begin"} -> sec
    [] OTHER -> [sec EXCEPT !.unread = TRUE, !.payload = Unreadable(@, "path")]

\* read: a row of a body, or the operation that ends it.
SectionRead(sec, line) ==
  IF sec.body /\ line.is = "plus" THEN [sec EXCEPT !.added = Append(@, line.name)]
  ELSE Operation([sec EXCEPT !.body = FALSE], line)

\* finish
Finished(sec) ==
  LET p == SetField(sec.payload, "content", Said(sec.added)) IN
  IF sec.unread THEN Unreadable(p, "content")
  ELSE IF sec.added # <<>> /\ \A i \in DOMAIN sec.added : sec.added[i] = ""
    THEN SetField(p, "writes_empty", "true") ELSE p

\* Mutant: the last section is never finished.
Hashline_DropsLast(lines) ==
  LET ends == {i \in DOMAIN lines : lines[i].is = "end"}
      last == IF ends = {} THEN Len(lines) ELSE (CHOOSE i \in ends : \A j \in ends : i <= j) - 1
      starts == SelectSeq(Between(1, last), LAMBDA i : lines[i].is = "snapshot")
      to(k) == starts[k + 1] - 1 IN
  [k \in 1..Len(starts) - 1 |->
     Finished(FoldLeft(SectionRead, NewSection(Unwrapped(lines[starts[k]].name)), SubSeq(lines, starts[k] + 1, to(k))))]

\* ompHashline: a payload per section, up to the end of the patch.
Hashline(lines) ==
  LET ends == {i \in DOMAIN lines : lines[i].is = "end"}
      last == IF ends = {} THEN Len(lines) ELSE (CHOOSE i \in ends : \A j \in ends : i <= j) - 1
      starts == SelectSeq(Between(1, last), LAMBDA i : lines[i].is = "snapshot")
      to(k) == IF k = Len(starts) THEN last ELSE starts[k + 1] - 1 IN
  [k \in DOMAIN starts |->
     Finished(FoldLeft(SectionRead, NewSection(Unwrapped(lines[starts[k]].name)), SubSeq(lines, starts[k] + 1, to(k))))]

\* ompTextEdits: the first line that is a snapshot or a header says which form it is.
TextEdits(text) ==
  LET lines == LinesOf(text)
      telling == SelectSeq(lines, LAMBDA l : l.is = "snapshot" \/ (l.is = "header" /\ l.verb # "Move to:")) IN
  IF telling = <<>> THEN <<>>
  ELSE IF telling[1].is = "snapshot" THEN Hashline(lines) ELSE PatchPayloads(<<"edit">>, "", lines)

\* ompEdits
OmpEdits(input) ==
  LET texts == SelectSeq(<<"input", "_input">>, LAMBDA k : There(input, k))
      entries == At(input, "edits")
      listed == entries.is = "list" /\ entries.of # <<>> IN
  CASE texts # <<>> -> IF TextEdits(input[texts[1]]) # <<>> THEN TextEdits(input[texts[1]]) ELSE UnreadEdits(input)
    [] texts = <<>> /\ There(input, "edits") ->
         IF listed THEN FlattenSeq([i \in DOMAIN entries.of |-> Entry(input, KeysOf(entries.of[i]))])
         ELSE UnreadEdits(input)
    [] OTHER -> IF There(input, "old_string") \/ There(input, "new_string")
                THEN <<Replacement(input, input)>> ELSE UnreadEdits(input)

-----------------------------------------------------------------------------
\* Tasks.
OmpTask == SetNames([Empty EXCEPT !.kind = "agent"], <<"task">>)

\* Mutant: a task whose text cannot be read is its context.
TaskContext_Alone(p, entry, batch) ==
  LET context == At(batch, "context")
      task == TextAt(entry, "task") IN
  IF context.is # "text" THEN p
  ELSE SetField(p, "agent_prompt", IF task = None THEN context.of ELSE context.of \o task)

\* ompTaskContext: what the batch puts before every task.
TaskContext(p, entry, batch) ==
  LET task == At(entry, "task")
      context == At(batch, "context")
      q == IF IsText(task) /\ task.of # None THEN p ELSE Unreadable(p, "agent_prompt") IN
  CASE context.is = "absent" -> q
    [] context.is \notin {"absent", "text"} -> Unreadable(q, "agent_prompt")
    [] IsText(context) /\ IsText(task) ->
         SetField(q, "agent_prompt", context.of \o (IF task.of = None THEN <<"">> ELSE task.of))
    [] OTHER -> IF task.is = "absent" THEN SetField(q, "agent_prompt", context.of) ELSE q

\* ompTaskModels: one selector, or each of a list.
TaskModels(p, entry) ==
  LET of == At(entry, "model")
      texts == IF of.is = "list" THEN SelectSeq(of.of, IsText) ELSE <<>>
      q == SetModels(p, [i \in DOMAIN texts |-> texts[i].of]) IN
  IF of.is # "list" THEN Set(p, "model", entry, <<"model">>)
  ELSE IF of.of = <<>> \/ Len(texts) < Len(of.of) THEN Unreadable(q, "model") ELSE q

\* ompTask: entry is no object where nothing of the task was read.
Task(entry, batch, batched) ==
  LET keys == KeysOf(entry)
      p == SetEach(OmpTask, keys, << <<"agent_type", <<"agent">>>>, <<"agent_prompt", <<"task">>>> >>) IN
  IF entry.is # "object" THEN Declares(OmpTask, <<"agent_type", "agent_prompt", "model">>)
  ELSE TaskModels(IF batched THEN TaskContext(p, keys, batch) ELSE p, keys)

OmpTasks(given) ==
  LET input == KeysOf(given)
      tasks == At(input, "tasks") IN
  IF ~There(input, "tasks") THEN <<Task(given, <<>>, FALSE)>>
  ELSE IF tasks.is = "list" /\ tasks.of # <<>> THEN [i \in DOMAIN tasks.of |-> Task(tasks.of[i], input, TRUE)]
  ELSE <<Task(Absent, input, TRUE)>>

\* ompPayloads
OmpPayloads(event, fields, input) ==
  LET name == TextAt(fields, "tool_name")
      read == SetEach(SetNames([Called(fields) EXCEPT !.kind = OmpKind(name)], <<name>>), input,
                << <<"command", <<"command">>>>, <<"content", <<"content">>>>, <<"url", <<"url">>>>,
                   <<"model", <<"model">>>>, <<"removed_content", <<"old_string">>>> >>)
      p == SetEnvelope(read, event, fields)
      q == IF event \in AboutSubagent THEN Set(p, "agent_type", fields, <<"agent_type">>) ELSE p
      w == OmpTarget(q, input, FALSE) IN
  CASE name = "edit" -> OmpEdits(input)
    [] name = "task" -> OmpTasks(At(fields, "tool_input"))
    [] name = "read" -> <<OmpTarget(q, input, TRUE)>>
    [] name = "write" -> <<IF w.kind = "file_edit" THEN WritesEmpty(w, IsText(At(input, "content"))) ELSE w>>
    [] OTHER -> <<IF q.kind = "mcp" THEN Unreadable(q, "server") ELSE q>>

-----------------------------------------------------------------------------
\* A call as the hook reads it.  An envelope or a tool input that is no object, or a cwd
\* that is no text, leaves one payload of no kind that declares it could not be read; at a
\* stop it counts as continued, for nothing says that it was not.
UnreadCall(event) ==
  Unreadable([Empty EXCEPT !.kind = "", !.continued = event \in StopEvents], "payload")

Decoded(envelope) ==
  /\ envelope.is = "object"
  /\ At(envelope.of, "cwd").is \in {"absent", "text"}
  /\ At(envelope.of, "tool_input").is \in {"absent", "object"}

Normalized(adapter, event, envelope) ==
  LET fields == envelope.of
      input == KeysOf(At(fields, "tool_input")) IN
  CASE ~Decoded(envelope) -> <<UnreadCall(event)>>
    [] Decoded(envelope) /\ adapter = "omp" -> OmpPayloads(event, fields, input)
    [] OTHER -> CanonicalPayloads(adapter, event, fields, input)
=============================================================================
