----------------------------- MODULE MCMatching -----------------------------
\* Two values of a field where two can differ, and a third that will not be read;
\* rules of one and two conditions, in both polarities, on one field and across two.
EXTENDS Matching, MCLines

MCClean == "./env" :> "env" @@ [p \in {"env", "src", "a", "b", "src/a", "src/env", "a:5", "a;b", "-", "{}", "-f", "rm", "sh", "cat", "status"} |-> p]
MCHost == "h:443" :> "h" @@ "h" :> "h" @@ ":443" :> None
MCDomainOf == "u" :> "h" @@ "v" :> "h.x" @@ "bad" :> None

FieldValues ==
     "tool" :> {"Bash", "Shell"} @@ "path" :> {"./env", "src", None}
  @@ "command" :> {Git, Git \o <<Op(";")>> \o RmBoth, Git \o <<Op("(")>>} @@ "url" :> {"u", "v", "bad"}
  @@ "network_grant" :> {"h:443", ":443"} @@ "model" :> {"opus", None}
  @@ "unreadable" :> {"command", "domain"}
\* A definition of its own, so that TLC makes the values once.
MCValues == FieldValues

MCRead == [line \in MCValues["command"] |-> Read(line)]

Hit(f, hits) == [field |-> f, hits |-> hits, neg |-> FALSE]
Not(f, hits) == [field |-> f, hits |-> hits, neg |-> TRUE]
Asked(kind, fields, conditions) == [kind |-> kind, fields |-> fields, conditions |-> conditions]

MCRuleChoices ==
  << Asked("", <<"command">>, <<{Not("command", {Git})}>>),
    Asked("shell", <<"command">>, <<{Hit("command", {RmBoth})}, {Not("command", {Git, Git \o <<Op(";")>> \o RmBoth})}>>),
    Asked("", <<"domain", "path">>, <<{Not("domain", {"h"}), Not("path", {"env"})}>>),
    Asked("", <<"url", "unreadable", "domain">>, <<{Hit("url", {"v"})}, {Hit("unreadable", {"domain"}), Not("domain", {"h"})}>>),
    Asked("file_edit", <<"path", "unreadable">>, <<{Hit("path", {"env", "$X"}), Hit("unreadable", {"path"})}>>),
    Asked("", <<"tool", "model">>, <<{Hit("tool", {"Bash"}), Not("model", {"opus"})}, {Not("tool", {"Shell"})}>>) >>
=============================================================================
