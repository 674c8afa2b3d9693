---------------------------- MODULE MCProfiles ----------------------------
(* Files of three profiles with few keys, and of one profile with any keys. *)
EXTENDS Profiles

MCHostLists ==
  [good |-> <<[host |-> "https://b", headers |-> None, body |-> "[b]"],
              [host |-> "docs", headers |-> "{h}", body |-> None]>>,
   hostless |-> <<[host |-> None, headers |-> None, body |-> None]>>]

MCInvocations ==
  {[command |-> c, name |-> n] : c \in {"tools", "chat"}, n \in {"x", "y"}}
  \cup {[command |-> "list", name |-> None]}

L(k, v) == [key |-> k, value |-> v]

\* Few keys, so that three profiles fit in.
Blocks ==
  {L("name", "x"), L("name", "y"), L("mcp", "https://a"), L("mcp", "https://b"),
   L("mcp_headers", "{f}"), L("model", "m"), L("mcp_hosts", "good")}

\* One profile with anything in it.
Fields ==
  {L("name", "x"), L("name", Missing), L("mcp", "https://a"), L("model", "m"), L("mcp_headers", "{f}"),
   L("mcp_headers", "[b]"), L("mcp_body", "[b]"), L("mcp_timeout", "-1"),
   L("mcp_timeout", "-2"), L("mcp_hosts", "good"), L("mcp_hosts", "hostless"),
   L("model_host", "https://b"), L("model_endpoint", "https://a"),
   L("model_headers", "{h}"), L("model_body", "{h}"), L("model_timeout", "60"),
   L("messages", "[m]"), L("messages", "{h}"), L("meta", "m"), L("meta", "nowhere"),
   L("color", "red")}
MaxBlockLines == 7    \* bound: lines of a file of Blocks
MaxFieldLines == 5    \* bound: lines of a file of Fields

MCForms ==
  {[lines |-> Blocks, size |-> MaxBlockLines], [lines |-> Fields, size |-> MaxFieldLines]}
=============================================================================
