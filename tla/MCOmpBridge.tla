----------------------------- MODULE MCOmpBridge -----------------------------
\* One event of a session, for every way its channels can be there and every answer of
\* one rule of each action, a rule on trial, and an ask beside an agent_only warning.
EXTENDS OmpBridge

Session(tui, hasUI, notifies, stderr, sends) ==
  [tui |-> tui, hasUI |-> hasUI, notifies |-> notifies, stderr |-> stderr, sends |-> sends]

MCContexts ==
  { Session(TRUE, TRUE, TRUE, TRUE, TRUE), Session(TRUE, TRUE, FALSE, TRUE, TRUE),
    Session(FALSE, FALSE, TRUE, TRUE, TRUE), Session(FALSE, FALSE, TRUE, TRUE, FALSE),
    Session(TRUE, TRUE, FALSE, FALSE, FALSE) }

Match(action, agentOnly, trial) ==
  [trial |-> trial,
   rule |-> [action |-> action, trial |-> trial, agentOnly |-> agentOnly, project |-> FALSE, reach |-> "call"]]

MCMatchSets ==
  { {}, {Match("warn", FALSE, FALSE)}, {Match("block", FALSE, FALSE)}, {Match("block", FALSE, TRUE)},
    {Match("ask", FALSE, FALSE), Match("warn", TRUE, FALSE)} }
=============================================================================
