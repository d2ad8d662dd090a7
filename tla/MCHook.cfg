SPECIFICATION Spec
CONSTANTS
  Rulesets <- MCRulesets
  MachineStates = {"enforce", "off"}
  LineMax = 10
  Sizes <- MCSizes
  MaxToggles = 1
  None = None
INVARIANTS HarnessDoesAsRuled LogTellsTheEvent UngrantedKeepsPrivate
  FailuresAreToldNotEnforced OffIsOffAndSaysSo TrialIsInaudible
  InterruptionIsExplained StopsStaySilent ContinuesOnce
CHECK_DEADLOCK FALSE
