-------------------------- MODULE SingleHostSession --------------------------
(***************************************************************************)
(* A chat session of the library with one MCP server and no router:        *)
(* src/src/lib.rs, run_chat and run_chat_endpoints with answer_turn.       *)
(* Calls go to the only server under the name the model used, so no name   *)
(* is refused here; and running out of rounds is not an error.             *)
(***************************************************************************)
EXTENDS ChatHistory

CONSTANTS
  CallNames,   \* tool names the model may call
  Prelude,     \* system prompt, given messages or seed prompt
  MaxRounds,   \* model requests per user message (8 in the code)
  MaxCalls,    \* bound: calls in one reply
  MaxTurns     \* bound: user messages

ASSUME SingleHostAssumption ==
  /\ MaxRounds \in Nat \ {0} /\ {MaxCalls, MaxTurns} \subseteq Nat
  /\ Prelude \in Seq(Message(CallNames))

VARIABLES
  phase,     \* where run_chat_endpoints and answer_turn stand
  oneShot,   \* a message was given
  history,   \* Vec<Message>
  round,     \* the loop counter of answer_turn
  calls,     \* tool calls of the reply being served
  served,    \* how many of them have a result in the history
  turns,     \* user messages taken
  printed    \* answers printed

vars == <<phase, oneShot, history, round, calls, served, turns, printed>>

Init ==
  /\ phase = "connecting"
  /\ oneShot \in BOOLEAN
  /\ history = << >>
  /\ round = 0
  /\ calls = << >> /\ served = 0
  /\ turns = 0 /\ printed = 0

\* connect or list_tools fails, or the model client cannot be built.
SetupFails ==
  /\ phase = "connecting"
  /\ phase' = "failed"
  /\ UNCHANGED <<oneShot, history, round, calls, served, turns, printed>>

WithMessage(h) == Append(h, User)

\* Push the user's message on history h and start asking the model.
BeginTurn(h) ==
  /\ history' = WithMessage(h)
  /\ turns' = turns + 1
  /\ round' = 1
  /\ phase' = "asking"
  /\ UNCHANGED <<oneShot, calls, served, printed>>

Start ==
  /\ phase = "connecting"
  /\ \/ oneShot /\ BeginTurn(Prelude)
     \/ /\ ~oneShot
        /\ phase' = "idle" /\ history' = Prelude
        /\ UNCHANGED <<oneShot, round, calls, served, turns, printed>>

UserMessage == phase = "idle" /\ turns < MaxTurns /\ BeginTurn(history)

\* End of input leaves the loop; a readline error leaves the session.
LeavePrompt ==
  /\ phase = "idle"
  /\ phase' \in {"done", "failed"}
  /\ UNCHANGED <<oneShot, history, round, calls, served, turns, printed>>

\* answer_turn returns Ok: a one-shot session is over.
EndTurn == phase' = IF oneShot THEN "done" ELSE "idle"

ModelAnswers ==
  /\ phase = "asking"
  /\ history' = Append(history, Assistant(<< >>))
  /\ printed' = printed + 1
  /\ EndTurn
  /\ UNCHANGED <<oneShot, round, calls, served, turns>>

ModelCalls(names) ==
  /\ phase = "asking"
  /\ names # << >>
  /\ history' = Append(history, Assistant(names))
  /\ calls' = names /\ served' = 0
  /\ phase' = "calling"
  /\ UNCHANGED <<oneShot, round, turns, printed>>

ModelFails ==
  /\ phase = "asking"
  /\ phase' = "failed"
  /\ UNCHANGED <<oneShot, history, round, calls, served, turns, printed>>

\* Mutant: a call that fails is not told to the model.
ToldSuccess(name, ok) == IF ok THEN Append(history, ToolResult(name)) ELSE history

Told(name, ok) == Append(history, ToolResult(name))

\* The result, or the text of the error, answers the call.
CallTool(ok) ==
  /\ phase = "calling" /\ served < Len(calls)
  /\ history' = Told(calls[served + 1], ok)
  /\ served' = served + 1
  /\ UNCHANGED <<phase, oneShot, round, calls, turns, printed>>

RoundsLeft == round < MaxRounds

\* Mutant: at the limit the loop is neither left nor gone through again.
OutOfRoundsSpins == UNCHANGED phase

OutOfRounds == EndTurn

\* The loop goes round, or falls through after MaxRounds without a word.
EndRound ==
  /\ phase = "calling" /\ served = Len(calls)
  /\ IF RoundsLeft
       THEN phase' = "asking" /\ round' = round + 1
       ELSE OutOfRounds /\ UNCHANGED round
  /\ UNCHANGED <<oneShot, history, calls, served, turns, printed>>

Replies == UNION {[1..n -> CallNames] : n \in 1..MaxCalls}
ModelReplies == ModelAnswers \/ ModelFails \/ \E names \in Replies : ModelCalls(names)
ServeCall == \E ok \in BOOLEAN : CallTool(ok)

\* The process has exited.
Terminated == phase \in {"done", "failed"} /\ UNCHANGED vars

Next ==
  \/ SetupFails \/ Start \/ UserMessage \/ LeavePrompt
  \/ ModelReplies \/ ServeCall \/ EndRound
  \/ Terminated

\* As in ChatSession: the user need not type anything.
Fairness == WF_vars(ModelReplies) /\ WF_vars(ServeCall) /\ WF_vars(EndRound)

Spec == Init /\ [][Next]_vars /\ Fairness
-----------------------------------------------------------------------------
(* Properties *)

TypeOK ==
  /\ phase \in {"connecting", "idle", "asking", "calling", "done", "failed"}
  /\ oneShot \in BOOLEAN
  /\ history \in Seq(Message(CallNames))
  /\ round \in 0..MaxRounds
  /\ calls \in Seq(CallNames) /\ served \in 0..Len(calls)
  /\ turns \in Nat /\ printed \in 0..turns

\* The reply whose calls are being served.
Asking == Len(history) - served

\* Outside of a round every call ever made has its result, in order, also after
\* a turn that ran out of rounds, and the results of this round are in place.
CallsAnswered ==
  /\ phase \in {"idle", "asking", "done"} =>
       AllAnswered(history, Len(Prelude) + 1, Len(history))
  /\ phase = "calling" =>
       /\ AllAnswered(history, Len(Prelude) + 1, Asking - 1)
       /\ history[Asking] = Assistant(calls)
       /\ AnsweredUpTo(history, Asking, served)

\* Every turn ends, whatever the model asks for.
TurnEnds == phase \in {"asking", "calling"} ~> phase \in {"idle", "done", "failed"}
=============================================================================
