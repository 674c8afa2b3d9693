SPECIFICATION Spec
CONSTANTS
  Urls = {"https://docs", "https://other"}
  Commands = {"stdio:server"}
  Objects = {"{h}", "{a}"}
  Texts = {"[b]"}
  Arrays = {"[m]", "[n]"}
  Names = {"files"}
  Aliases <- MCAliases
  Metas <- MCMetas
  Args <- MCArgs
  MaxArgs = 5
INVARIANTS ScopeHasEndpoint SettingsReachEndpoint 
