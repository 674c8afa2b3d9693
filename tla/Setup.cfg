SPECIFICATION SetupSpec
CONSTANTS
  Urls = {"https://a", "https://b"}
  Commands = {"stdio:server"}
  Objects = {"{h}", "{f}", "{Bearer token}"}
  Texts = {"[b]"}
  Starts <- MCStarts
  Added <- MCAdded
  Words <- MCWords
  SettingsFiles <- MCSettingsFiles
  MaxHosts = 3
INVARIANTS AddedAsTyped OwnBlockOnly
