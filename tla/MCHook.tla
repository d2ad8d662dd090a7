------------------------------- MODULE MCHook -------------------------------
\* One event on every harness, under one rule or two of these shapes.
EXTENDS Hook

Shape(action, reach) ==
  [action |-> action, trial |-> FALSE, agentOnly |-> FALSE, project |-> FALSE, reach |-> reach]

Shapes ==
  { Shape("block", "call"), Shape("ask", "call"), Shape("block", "unreadable"),
    [Shape("warn", "call") EXCEPT !.agentOnly = TRUE],
    [Shape("warn", "file") EXCEPT !.project = TRUE],
    [Shape("block", "call") EXCEPT !.trial = TRUE] }

\* Room for all of a line, for its matches alone, for one match, and for none.
MCSizes ==
  {[rest |-> 3, payload |-> r[1], entry |-> r[2], mark |-> 1] : r \in {<<2, 2>>, <<7, 2>>, <<3, 4>>, <<3, 6>>}}
MCRulesets == {S \in SUBSET Shapes : Cardinality(S) <= 2}
=============================================================================
