SPECIFICATION Spec
CONSTANTS
  Rulesets <- MCRulesets
  MachineStates = {"enforce"}
  LineMax = 10
  Sizes <- MCSizes
  MaxToggles = 0
  None = None
INVARIANTS AgentOnlyWithheld
CHECK_DEADLOCK FALSE
