SPECIFICATION Spec
CONSTANTS
  Endpoints <- CollidingEndpoints
  Configured <- CollidingConfigured
  Addable = {"second"}
  NsName <- CollidingNsName
  Label <- CollidingLabel
  ToolsOf <- CollidingToolsOf
  Allowed = {"echo"}
  BaseNames <- CollidingBaseNames
  NoName = "none"
  Numbered <- MCNumbered
  Fallback <- MCFallback
  CallNames <- CollidingCallNames
  Queries = {{"echo"}}
  Prelude <- MCPrelude
  MaxRounds = 1
  MaxCalls = 1
  MaxTurns = 1
  MaxHosts = 3
INVARIANTS OfferedToolsReachable
