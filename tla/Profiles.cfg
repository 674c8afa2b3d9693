SPECIFICATION Spec
CONSTANTS
  Urls = {"https://a", "https://b"}
  Commands = {"stdio:server"}
  Objects = {"{h}", "{f}"}
  Texts = {"[b]"}
  Arrays = {"[m]"}
  Metas = {"m"}
  HostLists <- MCHostLists
  Invocations <- MCInvocations
  Forms <- MCForms
INVARIANTS EntriesAreBlocks FirstOfName SettingsStayWithHost
