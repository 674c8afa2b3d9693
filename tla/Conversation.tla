---------------------------- MODULE Conversation ----------------------------
(***************************************************************************)
(* What a chat session promises its user: it takes one message at a time,  *)
(* and takes the next one only after it has printed exactly one answer to  *)
(* the last.  The only other way out of a turn is the end of the session.  *)
(***************************************************************************)
EXTENDS Naturals

VARIABLES
  state,     \* "ready" for a message, "working" on one, or "over"
  taken,     \* messages taken from the user
  answered   \* answers printed

vars == <<state, taken, answered>>

Init == state = "ready" /\ taken = 0 /\ answered = 0

Take ==
  /\ state = "ready"
  /\ state' = "working"
  /\ taken' = taken + 1
  /\ UNCHANGED answered

\* A one-shot session is over once it has answered.
Answer ==
  /\ state = "working"
  /\ state' \in {"ready", "over"}
  /\ answered' = answered + 1
  /\ UNCHANGED taken

Leave ==
  /\ state # "over"
  /\ state' = "over"
  /\ UNCHANGED <<taken, answered>>

Next == Take \/ Answer \/ Leave

Spec == Init /\ [][Next]_vars /\ WF_vars(state = "working" /\ (Answer \/ Leave))
=============================================================================
