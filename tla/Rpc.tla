--------------------------------- MODULE Rpc ---------------------------------
(***************************************************************************)
(* What McpClient::request (src/src/mcp.rs) promises whoever asks: a       *)
(* request is carried out by the server at most once, and it ends with the *)
(* server's answer to this very request or with a failure.  A failure says *)
(* nothing about whether the server carried the request out, or still will.*)
(***************************************************************************)
EXTENDS Naturals, Sequences

CONSTANT Ids       \* request ids

VARIABLES
  status,     \* id -> "unasked", "asked", "answered" or "failed"
  answer,     \* id -> the request that the returned answer belongs to
  log         \* requests the server has carried out, in order

vars == <<status, answer, log>>

NoAnswer == 0

Init ==
  /\ status = [id \in Ids |-> "unasked"]
  /\ answer = [id \in Ids |-> NoAnswer]
  /\ log = << >>

Ask(id) ==
  /\ status[id] = "unasked"
  /\ status' = [status EXCEPT ![id] = "asked"]
  /\ UNCHANGED <<answer, log>>

Execute(id) ==
  /\ status[id] \in {"asked", "failed"}
  /\ \A i \in DOMAIN log : log[i] # id
  /\ log' = Append(log, id)
  /\ UNCHANGED <<status, answer>>

Answer(id) ==
  /\ status[id] = "asked"
  /\ \E i \in DOMAIN log : log[i] = id
  /\ status' = [status EXCEPT ![id] = "answered"]
  /\ answer' = [answer EXCEPT ![id] = id]
  /\ UNCHANGED log

Fail(id) ==
  /\ status[id] = "asked"
  /\ status' = [status EXCEPT ![id] = "failed"]
  /\ UNCHANGED <<answer, log>>

Next == \E id \in Ids : Ask(id) \/ Execute(id) \/ Answer(id) \/ Fail(id)

Spec == Init /\ [][Next]_vars
==============================================================================
