--------------------------- MODULE MCChatSession ---------------------------
(***************************************************************************)
(* Instances of ChatSession for TLC.  Strings stand for themselves, so the *)
(* namespaces are the ones the program would print.                        *)
(***************************************************************************)
EXTENDS ChatSession, TLC

MCNumbered(base, n) == base \o "-" \o ToString(n)
MCFallback(n) == "mcp" \o ToString(n)

Name(ns, tool) == [ns |-> ns, tool |-> tool]

\* Two servers whose address ends in /mcp, one started with -nsname files and
\* one at an address that leaves no character of a namespace.
MCEndpoints == {"http1", "http2", "stdio", "bare"}
MCNsName == [e \in MCEndpoints |-> IF e = "stdio" THEN "files" ELSE "none"]
MCLabel == [e \in MCEndpoints |-> IF e = "stdio" THEN "server"
                                  ELSE IF e = "bare" THEN "none" ELSE "mcp"]
MCBaseNames == {"mcp", "files", "server", "mcp1", "mcp2", "mcp3", "mcp4"}
MCToolsOf == [e \in MCEndpoints |-> {"echo", "ls"}]
MCConfigured == <<"http1", "stdio", "http2">>
MCCallNames == {Name("mcp", "search_tools"), Name("mcp", "search_namespaces"),
                Name("mcp-3", "ls"), Name("ghost", "echo")}
MCPrelude == <<System, User>>

\* Hosts that collide: "a-3" is asked for by name, and given to the third "a".
CollidingEndpoints == {"named", "first", "second"}
CollidingNsName ==
  [e \in CollidingEndpoints |-> IF e = "named" THEN "a-3" ELSE "none"]
CollidingLabel == [e \in CollidingEndpoints |-> IF e = "named" THEN "x" ELSE "a"]
CollidingBaseNames == {"a", "a-3", "x", "mcp1", "mcp2", "mcp3"}
CollidingToolsOf == [e \in CollidingEndpoints |-> {"echo"}]
CollidingConfigured == <<"named", "first">>
CollidingCallNames == {Name("a", "echo"), Name("a-3", "echo")}
=============================================================================
