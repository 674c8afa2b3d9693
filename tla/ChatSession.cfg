SPECIFICATION Spec
CONSTANTS
  Endpoints <- MCEndpoints
  Configured <- MCConfigured
  Addable = {"http1", "bare"}
  NsName <- MCNsName
  Label <- MCLabel
  ToolsOf <- MCToolsOf
  Allowed = {"echo"}
  BaseNames <- MCBaseNames
  NoName = "none"
  Numbered <- MCNumbered
  Fallback <- MCFallback
  CallNames <- MCCallNames
  Queries = {{}, {"ls"}}
  Prelude <- MCPrelude
  MaxRounds = 2
  MaxCalls = 2
  MaxTurns = 2
  MaxHosts = 4
INVARIANTS TypeOK NamespacesUnique OfferedToolsReachable ShownToolsReachable CallsAnswered
PROPERTIES StableRouting KeepsConversation TurnEnds
