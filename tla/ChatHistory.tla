----------------------------- MODULE ChatHistory -----------------------------
(***************************************************************************)
(* The conversation that omcp sends to the model on every request          *)
(* (src/src/ollama.rs, struct Message).  The text of a message is left     *)
(* out.  What is kept is its role and the tool names it mentions: those an *)
(* assistant message asks for, in order, or the one a tool message answers.*)
(***************************************************************************)
EXTENDS Naturals, Sequences

Roles == {"system", "user", "assistant", "tool"}

Message(Names) == [role : Roles, names : Seq(Names)]

System == [role |-> "system", names |-> << >>]
User == [role |-> "user", names |-> << >>]
Assistant(calls) == [role |-> "assistant", names |-> calls]
ToolResult(name) == [role |-> "tool", names |-> <<name>>]

\* The first n calls of the assistant message at position i of history h are
\* answered, in order, by the n messages that follow it.
AnsweredUpTo(h, i, n) ==
  \A k \in 1..n : i + k <= Len(h) /\ h[i + k] = ToolResult(h[i].names[k])

\* Every assistant message of h[first..last] has all its calls answered.
AllAnswered(h, first, last) ==
  \A i \in first..last :
    h[i].role = "assistant" => AnsweredUpTo(h, i, Len(h[i].names))

\* Every tool message of h from position first on answers a call of an
\* assistant message before it.
AllAskedFor(h, first) ==
  \A j \in first..Len(h) :
    h[j].role = "tool" =>
      \E i \in first..(j - 1) :
        /\ h[i].role = "assistant"
        /\ j - i \in 1..Len(h[i].names)
        /\ h[j] = ToolResult(h[i].names[j - i])
==============================================================================
