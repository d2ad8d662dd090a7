SPECIFICATION ReadSpec
CONSTANTS
  Clean <- MCClean
  Host <- MCHost
  DomainOf <- MCDomainOf
  ReadLine <- MCReadAll
  InBash <- MCInBash
  Lines <- MCLineSet
  Calls <- MCCallSet
  ActsOf <- MCActs
  McpNames <- MCMcpNames
  PathIn <- MCPathIn
  Looks <- MCLooks
  RuleChoices <- MCRuleChoices
  Values <- MCValues
  MaxCalls = 2
  opus = opus
  haiku = haiku
  None = None
  Shells <- MCShells
  Wrappers <- MCWrappers
  Programs <- MCPrograms
  MaxDepth = 2
  MaxReadings = 4
INVARIANTS MatchIsAChoice AllowlistVouches FilesVouched DomainsAccounted NothingStale CallTold
PROPERTIES MoreNeverHides
CHECK_DEADLOCK FALSE
