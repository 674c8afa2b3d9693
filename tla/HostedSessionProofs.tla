------------------------- MODULE HostedSessionProofs -------------------------
(***************************************************************************)
(* Theorems about SingleHostSession, for every reply of the model, every   *)
(* prelude and every number of rounds and turns; and about HostedSession:  *)
(* the session with its transport keeps the promises of both, for every    *)
(* number of requests and restarts, and what the model is told of a call   *)
(* is true.                                                                *)
(***************************************************************************)
EXTENDS HostedSession, ChatHistoryProofs
-----------------------------------------------------------------------------
(* The session *)


\* A reply of the model is a sequence of the names it may call.
LEMMA RepliesAreSequences == Replies \subseteq Seq(CallNames)
  <1> SUFFICES ASSUME NEW n \in 1..MaxCalls, NEW r \in [1..n -> CallNames]
               PROVE  r \in Seq(CallNames)
    BY DEF Replies
  <1>1. n \in Nat
    BY SingleHostAssumption
  <1> QED BY <1>1, SeqDef

\* The messages the session puts into the history.
LEMMA MessagesAre ==
  /\ User \in Message(CallNames) /\ Assistant(<< >>) \in Message(CallNames)
  /\ \A names \in Seq(CallNames) : Assistant(names) \in Message(CallNames)
  /\ \A name \in CallNames : ToolResult(name) \in Message(CallNames)
  <1>1. << >> \in Seq(CallNames) /\ \A name \in CallNames : <<name>> \in Seq(CallNames)
    BY EmptySeq
  <1> QED BY <1>1 DEF User, Assistant, ToolResult, Message, Roles

\* The state variables keep their types, and no more answers are printed than
\* messages taken.
TypeInv == TypeOK /\ (phase \in {"asking", "calling"} => printed < turns)

LEMMA TypeInit == Init => TypeInv
  BY EmptySeq, SingleHostAssumption DEF Init, TypeInv, TypeOK

LEMMA TypeStep == TypeInv /\ [Next]_vars => TypeInv'
  <1> SUFFICES ASSUME TypeInv, [Next]_vars
               PROVE  TypeInv'
    OBVIOUS
  <1> USE DEF TypeInv
  <1>h. history \in Seq(Message(CallNames)) /\ calls \in Seq(CallNames) /\ Len(calls) \in Nat
    BY LenProperties DEF TypeOK
  <1>1. CASE SetupFails \/ LeavePrompt \/ ModelFails
    BY <1>1 DEF SetupFails, LeavePrompt, ModelFails, TypeOK
  <1>2. CASE Start \/ UserMessage
    <2>1. /\ Append(Prelude, User) \in Seq(Message(CallNames))
          /\ Append(history, User) \in Seq(Message(CallNames))
      BY <1>h, MessagesAre, SingleHostAssumption, AppendFacts
    <2>2. history' \in Seq(Message(CallNames))
      BY <1>2, <2>1, SingleHostAssumption DEF Start, UserMessage, BeginTurn, WithMessage
    <2> QED BY <1>2, <2>2, SingleHostAssumption DEF Start, UserMessage, BeginTurn, TypeOK
  <1>3. CASE ModelAnswers
    <2>1. history' \in Seq(Message(CallNames))
      BY <1>3, <1>h, MessagesAre, AppendFacts DEF ModelAnswers
    <2> QED BY <1>3, <2>1 DEF ModelAnswers, EndTurn, TypeOK
  <1>4. ASSUME NEW names \in Replies, ModelCalls(names)
        PROVE  TypeInv'
    <2>1. names \in Seq(CallNames)
      BY RepliesAreSequences
    <2>2. history' \in Seq(Message(CallNames))
      BY <1>4, <1>h, <2>1, MessagesAre, AppendFacts DEF ModelCalls
    <2> QED BY <1>4, <2>1, <2>2 DEF ModelCalls, TypeOK
  <1>5. ASSUME NEW ok \in BOOLEAN, CallTool(ok)
        PROVE  TypeInv'
    <2>1. calls[served + 1] \in CallNames /\ served' \in 0..Len(calls)
      BY <1>5, <1>h, ElementOfSeq DEF CallTool, TypeOK
    <2>2. history' \in Seq(Message(CallNames))
      BY <1>5, <1>h, <2>1, MessagesAre, AppendFacts DEF CallTool, Told
    <2> QED BY <1>5, <2>1, <2>2 DEF CallTool, TypeOK
  <1>6. CASE EndRound
    BY <1>6, SingleHostAssumption DEF EndRound, RoundsLeft, OutOfRounds, EndTurn, TypeOK
  <1>7. CASE UNCHANGED vars
    BY <1>7 DEF vars, TypeOK
  <1> QED BY <1>1, <1>2, <1>3, <1>4, <1>5, <1>6, <1>7
          DEF Next, ModelReplies, ServeCall, Terminated

\* The state variables keep their types, the bound on the rounds of a turn
\* included, whatever the model asks for.
THEOREM SingleHostTypeCorrect == Spec => []TypeOK
  <1>1. TypeInv => TypeOK
    BY DEF TypeInv
  <1> QED BY <1>1, TypeInit, TypeStep, PTL DEF Spec
-----------------------------------------------------------------------------
(* The history *)

\* The first message the prelude does not hold.
First == Len(Prelude) + 1

\* While calls are served, the reply that asked for them is in the history,
\* behind the prelude, with the results so far behind it.
HistoryInv ==
  /\ TypeInv
  /\ CallsAnswered
  /\ phase \in {"idle", "asking"} => Len(history) >= Len(Prelude)
  /\ phase = "calling" => Asking \in First..Len(history)

LEMMA HistoryFacts ==
  TypeInv => /\ Len(Prelude) \in Nat /\ First \in Nat \ {0}
             /\ history \in Seq(Message(CallNames)) /\ Len(history) \in Nat
             /\ calls \in Seq(CallNames) /\ Len(calls) \in Nat
             /\ served \in 0..Len(calls)
  BY SingleHostAssumption, LenProperties DEF TypeInv, TypeOK, First

\* A history with nothing behind the prelude has nothing to answer.
LEMMA PreludeAnswered ==
  ASSUME NEW h \in Seq(Message(CallNames)), Len(h) <= Len(Prelude)
  PROVE  AllAnswered(h, First, Len(h))
  <1>1. Len(Prelude) \in Nat /\ Len(h) \in Nat
    BY SingleHostAssumption, LenProperties
  <1>2. \A i : i \notin First..Len(h)
    BY <1>1 DEF First
  <1> QED BY <1>2 DEF AllAnswered

LEMMA HistoryInit == Init => HistoryInv
  BY TypeInit DEF Init, HistoryInv, CallsAnswered

\* The user's message and an answer without calls leave nothing to answer.
LEMMA MessageJoins ==
  ASSUME NEW h \in Seq(Message(CallNames)), Len(h) >= Len(Prelude),
         AllAnswered(h, First, Len(h)), NEW m \in {User, Assistant(<< >>)}
  PROVE  /\ AllAnswered(Append(h, m), First, Len(Append(h, m)))
         /\ Len(Append(h, m)) >= Len(Prelude)
  <1>1. m \in Message(CallNames) /\ (m.role # "assistant" \/ m.names = << >>)
    BY MessagesAre DEF User, Assistant
  <1>2. First \in Nat \ {0} /\ Len(h) \in Nat /\ Len(Prelude) \in Nat
    BY SingleHostAssumption, LenProperties DEF First
  <1>3. Len(Append(h, m)) = Len(h) + 1
    BY <1>1, AppendFacts
  <1>4. AllAnswered(Append(h, m), First, Len(h) + 1)
    BY <1>1, <1>2, AllAnsweredAppend
  <1> QED BY <1>2, <1>3, <1>4

\* A reply with calls leaves its calls to answer.
LEMMA ReplyJoins ==
  ASSUME HistoryInv, TypeInv', NEW names \in Replies, ModelCalls(names)
  PROVE  HistoryInv'
  <1>f. /\ Len(Prelude) \in Nat /\ First \in Nat \ {0}
        /\ history \in Seq(Message(CallNames)) /\ Len(history) \in Nat
    BY HistoryFacts DEF HistoryInv
  <1>1. /\ phase = "asking" /\ phase' = "calling" /\ calls' = names /\ served' = 0
        /\ history' = Append(history, Assistant(names))
    BY DEF ModelCalls
  <1>2. Assistant(names) \in Message(CallNames)
    BY RepliesAreSequences, MessagesAre
  <1>3. /\ Len(history') = Len(history) + 1
        /\ history'[Len(history) + 1] = Assistant(names)
    BY <1>f, <1>1, <1>2, AppendFacts
  <1>4. Asking' = Len(history) + 1 /\ Len(history) >= Len(Prelude)
    BY <1>f, <1>1, <1>3 DEF Asking, HistoryInv
  <1>5. AllAnswered(history', First, Len(history))
    BY <1>f, <1>1, <1>2, AllStayAnswered DEF HistoryInv, CallsAnswered, First
  <1>6. AnsweredUpTo(history', Asking', served')
    BY <1>1 DEF AnsweredUpTo
  <1>7. Asking' - 1 = Len(history) /\ Asking' \in First..Len(history')
    BY <1>f, <1>3, <1>4 DEF First
  <1> QED BY <1>1, <1>3, <1>4, <1>5, <1>6, <1>7 DEF HistoryInv, CallsAnswered, First

\* The result of the next call stands where the next call's result belongs.
LEMMA ResultJoins ==
  ASSUME HistoryInv, TypeInv', NEW ok \in BOOLEAN, CallTool(ok)
  PROVE  HistoryInv'
  <1> DEFINE call == calls[served + 1]
             m == ToolResult(call)
  <1>f. /\ Len(Prelude) \in Nat /\ First \in Nat \ {0}
        /\ history \in Seq(Message(CallNames)) /\ Len(history) \in Nat
        /\ calls \in Seq(CallNames) /\ Len(calls) \in Nat
        /\ served \in 0..Len(calls)
    BY HistoryFacts DEF HistoryInv
  <1>1. /\ phase = "calling" /\ phase' = "calling" /\ served < Len(calls)
        /\ history' = Append(history, m)
        /\ served' = served + 1 /\ calls' = calls
    BY DEF CallTool, Told
  <1>2. served + 1 \in 1..Len(calls) /\ call \in CallNames
    BY <1>f, <1>1, ElementOfSeq
  <1>3. m \in Message(CallNames)
    BY <1>2, MessagesAre
  <1>4. /\ AllAnswered(history, First, Asking - 1)
        /\ history[Asking] = Assistant(calls)
        /\ AnsweredUpTo(history, Asking, served)
        /\ Asking \in First..Len(history) /\ Asking + served = Len(history)
    BY <1>f, <1>1 DEF HistoryInv, CallsAnswered, First, Asking
  <1>5. Len(history') = Len(history) + 1 /\ Asking' = Asking
        /\ history'[Len(history) + 1] = m /\ history'[Asking] = Assistant(calls)
    <2> HIDE DEF m
    <2>1. /\ Len(history') = Len(history) + 1
          /\ \A i \in 1..Len(history) : history'[i] = history[i]
          /\ history'[Len(history) + 1] = m
      BY <1>f, <1>1, <1>3, AppendFacts
    <2>2. Asking' = Asking
      BY <1>f, <1>1, <2>1 DEF Asking
    <2>3. Asking \in 1..Len(history)
      BY <1>f, <1>4
    <2> QED BY <1>4, <2>1, <2>2, <2>3
  <1>6. AllAnswered(history', First, Asking - 1)
    <2>1. Asking - 1 \in Nat /\ Asking - 1 <= Len(history)
      BY <1>f, <1>4
    <2> QED BY <1>f, <1>1, <1>3, <1>4, <2>1, AllStayAnswered
  <1>7. AnsweredUpTo(history', Asking, served + 1)
    <2>1. Asking \in 1..Len(history) /\ served \in Nat
      BY <1>f, <1>4
    <2>2. AnsweredUpTo(history', Asking, served)
      BY <1>f, <1>1, <1>3, <1>4, <2>1, StaysAnswered
    <2>3. history'[Asking].names[served + 1] = call
      BY <1>5 DEF Assistant
    <2>4. Asking + (served + 1) = Len(history) + 1
      BY <1>f, <1>4, <2>1
    <2>5. /\ Asking + (served + 1) <= Len(history')
          /\ history'[Asking + (served + 1)] = ToolResult(history'[Asking].names[served + 1])
      BY <1>5, <1>f, <2>3, <2>4
    <2>6. \A k \in 1..(served + 1) : k \in 1..served \/ k = served + 1
      BY <2>1
    <2> QED BY <2>2, <2>5, <2>6 DEF AnsweredUpTo
  <1>8. Asking' \in First..Len(history')
    BY <1>f, <1>4, <1>5
  <1> QED BY <1>1, <1>5, <1>6, <1>7, <1>8 DEF HistoryInv, CallsAnswered, First

\* When the round ends, its reply is answered like every one before it.
LEMMA RoundAnswered ==
  ASSUME HistoryInv, phase = "calling", served = Len(calls)
  PROVE  AllAnswered(history, First, Len(history)) /\ Len(history) >= Len(Prelude)
  <1>f. /\ Len(Prelude) \in Nat /\ First \in Nat \ {0}
        /\ history \in Seq(Message(CallNames)) /\ Len(history) \in Nat
        /\ calls \in Seq(CallNames) /\ Len(calls) \in Nat
    BY HistoryFacts DEF HistoryInv
  <1>1. /\ AllAnswered(history, First, Asking - 1)
        /\ history[Asking] = Assistant(calls)
        /\ AnsweredUpTo(history, Asking, Len(calls))
        /\ Asking \in First..Len(history) /\ Asking + Len(calls) = Len(history)
    BY <1>f DEF HistoryInv, CallsAnswered, First, Asking
  <1>2. ASSUME NEW i \in First..Len(history), history[i].role = "assistant"
        PROVE  AnsweredUpTo(history, i, Len(history[i].names))
    <2>1. CASE i \in First..(Asking - 1)
      BY <1>1, <1>2, <2>1 DEF AllAnswered
    <2>2. CASE i = Asking
      BY <1>1, <2>2 DEF Assistant
    <2>3. CASE i - Asking \in 1..Len(calls)
      <3>1. history[Asking + (i - Asking)] = ToolResult(history[Asking].names[i - Asking])
        BY <1>1, <2>3 DEF AnsweredUpTo
      <3>2. Asking + (i - Asking) = i
        BY <1>f, <1>1
      <3> QED BY <1>2, <3>1, <3>2 DEF ToolResult
    <2> QED BY <1>f, <1>1, <2>1, <2>2, <2>3
  <1> QED BY <1>f, <1>1, <1>2 DEF AllAnswered, First

LEMMA HistoryStep == HistoryInv /\ [Next]_vars => HistoryInv'
  <1> SUFFICES ASSUME HistoryInv, [Next]_vars
               PROVE  HistoryInv'
    OBVIOUS
  <1>t. TypeInv /\ TypeInv'
    BY TypeStep DEF HistoryInv
  <1>1. CASE SetupFails \/ LeavePrompt \/ ModelFails \/ UNCHANGED vars
    BY <1>t, <1>1 DEF SetupFails, LeavePrompt, ModelFails, vars,
                      HistoryInv, CallsAnswered, Asking
  <1>2. CASE Start
    <2>1. Prelude \in Seq(Message(CallNames)) /\ Len(Prelude) \in Nat
          /\ AllAnswered(Prelude, First, Len(Prelude))
      BY SingleHostAssumption, LenProperties, PreludeAnswered
    <2>2. CASE phase' = "asking" /\ history' = Append(Prelude, User)
      BY <1>t, <2>1, <2>2, MessageJoins DEF HistoryInv, CallsAnswered, First
    <2>3. CASE phase' = "idle" /\ history' = Prelude
      BY <1>t, <2>1, <2>3 DEF HistoryInv, CallsAnswered, First
    <2> QED BY <1>2, <2>2, <2>3 DEF Start, BeginTurn, WithMessage
  <1>3. CASE UserMessage \/ ModelAnswers
    <2>1. /\ AllAnswered(history, First, Len(history)) /\ Len(history) >= Len(Prelude)
          /\ history \in Seq(Message(CallNames))
      BY <1>3, <1>t, HistoryFacts DEF UserMessage, ModelAnswers, HistoryInv, CallsAnswered, First
    <2>2. /\ phase' \in {"asking", "idle", "done"}
          /\ \E m \in {User, Assistant(<< >>)} : history' = Append(history, m)
      BY <1>3 DEF UserMessage, ModelAnswers, BeginTurn, WithMessage, EndTurn
    <2> QED BY <1>t, <2>1, <2>2, MessageJoins DEF HistoryInv, CallsAnswered, First
  <1>4. ASSUME NEW names \in Replies, ModelCalls(names)
        PROVE  HistoryInv'
    BY <1>t, <1>4, ReplyJoins
  <1>5. ASSUME NEW ok \in BOOLEAN, CallTool(ok)
        PROVE  HistoryInv'
    BY <1>t, <1>5, ResultJoins
  <1>6. CASE EndRound
    <2>1. phase' \in {"asking", "idle", "done"} /\ UNCHANGED history
      BY <1>6 DEF EndRound, OutOfRounds, EndTurn
    <2>2. AllAnswered(history, First, Len(history)) /\ Len(history) >= Len(Prelude)
      BY <1>6, RoundAnswered DEF EndRound
    <2> QED BY <1>t, <2>1, <2>2 DEF HistoryInv, CallsAnswered, First
  <1> QED BY <1>1, <1>2, <1>3, <1>4, <1>5, <1>6 DEF Next, ModelReplies, ServeCall, Terminated

\* Whatever the model asks for, in however many rounds, and however its calls
\* fail, each has its result, in order, behind the reply that asked for it; also
\* after a turn that ran out of rounds.
THEOREM SingleHostCallsAnswered == Spec => []CallsAnswered
  <1>1. HistoryInv => CallsAnswered
    BY DEF HistoryInv
  <1> QED BY <1>1, HistoryInit, HistoryStep, PTL DEF Spec

-----------------------------------------------------------------------------
(* The session with its transport *)

\* What is proved of the transport on its own.
H == INSTANCE HttpTransportProofs

LEMMA TransportAssumption == H!HttpAssumption
  BY HostedAssumption DEF H!HttpAssumption

\* T, the transport of the session, and H are the same system.
LEMMA SameSystem ==
  /\ T!Init <=> H!Init
  /\ [T!Next]_(T!vars) <=> [H!Next]_(H!vars)
  /\ (T!Receive <=> H!Receive) /\ (T!GiveUp <=> H!GiveUp)
  BY DEF T!client, H!client, T!outcome, H!outcome, T!server, H!server, T!vars, H!vars,
         T!Ids, H!Ids, T!NoSession, H!NoSession, T!SessionIds, H!SessionIds,
         T!Notified, H!Notified, T!Methods, H!Methods, T!Messages, H!Messages,
         T!Nothing, H!Nothing, T!Kinds, H!Kinds, T!NoResponse, H!NoResponse,
         T!MethodIn, H!MethodIn, T!Post, H!Post, T!Free, H!Free, T!NotificationId,
         H!NotificationId, T!Fail, H!Fail, T!Succeed, H!Succeed, T!Remember,
         H!Remember, T!Broken, H!Broken, T!Abandonable, H!Abandonable, T!Respond,
         H!Respond, T!KnowsSession, H!KnowsSession, T!Init, H!Init, T!Request,
         H!Request, T!Notify, H!Notify, T!Receive, H!Receive, T!GiveUp, H!GiveUp,
         T!Close, H!Close, T!Refuse, H!Refuse, T!Restart, H!Restart, T!Terminated,
         H!Terminated, T!Take, H!Take, T!Serve, H!Serve, T!Next, H!Next, T!ServerStep,
         H!ServerStep

-----------------------------------------------------------------------------
(* The parts keep to themselves *)

\* Every step of the whole is a step of the session, or leaves it alone.
LEMMA SessionSteps == [HostedNext]_hosted => [Next]_vars
  <1> SUFFICES ASSUME [HostedNext]_hosted
               PROVE  [Next]_vars
    OBVIOUS
  <1>1. CASE Connected
    BY <1>1 DEF Connected, Next
  <1>2. CASE ToolReturns
    <2>1. Returned \in BOOLEAN
      BY DEF Returned
    <2> QED BY <1>2, <2>1 DEF ToolReturns, Next, ServeCall
  <1>3. CASE Converse
    BY <1>3 DEF Converse, ModelRepliesInBounds, Next
  <1>4. CASE UNCHANGED vars
    BY <1>4
  <1> QED BY <1>1, <1>2, <1>3, <1>4
          DEF HostedNext, Handshake, AskTool, Leave, ServerRuns, Gone, Terminated, hosted

\* Every step of the whole is a step of the transport, or leaves it alone.
LEMMA TransportSteps == [HostedNext]_hosted => [H!Next]_(H!vars)
  <1> SUFFICES ASSUME [HostedNext]_hosted
               PROVE  [T!Next]_(T!vars)
    BY SameSystem
  <1>1. CASE Handshake \/ AskTool \/ ToolReturns \/ Leave \/ ServerRuns
    BY <1>1 DEF Handshake, AskTool, ToolReturns, Leave, ServerRuns, T!Next
  <1>2. CASE UNCHANGED transport
    BY <1>2 DEF transport, T!vars, T!client, T!outcome, T!server
  <1>3. Connected \/ Converse => UNCHANGED transport
    BY DEF Connected, Converse
  <1>4. Gone \/ UNCHANGED hosted => UNCHANGED T!vars
    BY DEF Gone, T!Terminated, hosted, transport, T!vars, T!client, T!outcome, T!server
  <1> QED BY <1>1, <1>2, <1>3, <1>4 DEF HostedNext

\* The whole implements a session of one server, however late or dead the server
\* is (KeepsSession without its fairness).
THEOREM HostedRefinesSession == HostedSpec => Init /\ [][Next]_vars
  <1>1. HostedInit => Init
    BY DEF HostedInit
  <1> QED BY <1>1, SessionSteps, PTL DEF HostedSpec

\* The history of a session with a late or dying server is as it should be.
THEOREM HostedCallsAnswered == HostedSpec => []CallsAnswered
  <1>1. HistoryInv => CallsAnswered
    BY DEF HistoryInv
  <1> QED BY <1>1, HistoryInit, HistoryStep, HostedRefinesSession, PTL
-----------------------------------------------------------------------------
(* What the model is told *)

Outcome == [request : H!Ids, ok : BOOLEAN]

\* Calls are made with the handshake behind; what the model was told to have
\* worked is answered.
ToldInv ==
  /\ H!HttpInv /\ H!AnsweredInv
  /\ phase \in {"idle", "asking", "calling"} => stage = "open"
  /\ results \in Seq(Outcome)
  /\ \A i \in DOMAIN results :
       results[i].ok => status[results[i].request] = "answered"

LEMMA ToldInit == HostedInit => ToldInv
  <1> SUFFICES ASSUME HostedInit
               PROVE  ToldInv
    OBVIOUS
  <1>1. H!Init
    BY SameSystem DEF HostedInit
  <1>2. H!HttpInv /\ H!AnsweredInv
    BY <1>1, TransportAssumption, H!HttpInit, H!AnsweredInit
  <1> QED BY <1>2, EmptySeq DEF HostedInit, Init, ToldInv

\* A call returns when the client is open, with the outcome of its own request.
LEMMA ReturnTold ==
  ASSUME ToldInv, ToolReturns
  PROVE  /\ results' = Append(results, [request |-> waiting.id, ok |-> Returned])
         /\ waiting.id \in H!Ids
         /\ stage' = "open" /\ phase' = "calling"
  <1>1. /\ phase = "calling" /\ phase' = "calling" /\ stage = "open"
        /\ H!Receive \/ H!GiveUp
    BY SameSystem DEF ToolReturns, CallTool, ToldInv
  <1>2. waiting # H!Nothing /\ waiting \in H!Messages
    BY <1>1, TransportAssumption, H!FlightFacts
       DEF H!Receive, H!GiveUp, ToldInv, H!HttpInv, H!WaitingInv
  <1>3. waiting.method = "tools/call"
    BY <1>1, <1>2 DEF ToldInv, H!HttpInv, H!WaitingInv, H!MethodIn
  <1>4. waiting.id \in H!Ids
    BY <1>2, <1>3 DEF H!Messages
  <1>5. stage' = "open"
    BY <1>1, TransportAssumption, H!ReturnFacts DEF ToldInv, H!HttpInv, H!Fail, H!Succeed
  <1> QED BY <1>1, <1>4, <1>5 DEF ToolReturns

LEMMA ToldStep == ToldInv /\ [HostedNext]_hosted => ToldInv'
  <1> SUFFICES ASSUME ToldInv, [HostedNext]_hosted
               PROVE  ToldInv'
    OBVIOUS
  <1>1. H!HttpInv /\ H!AnsweredInv /\ H!HttpInv' /\ H!AnsweredInv'
    BY TransportSteps, TransportAssumption, H!HttpStep, H!AnsweredStep DEF ToldInv
  <1>2. \A id \in H!Ids : status[id] = "answered" => status'[id] = "answered"
    BY <1>1, TransportSteps, TransportAssumption, H!RpcStep, H!RpcFacts DEF H!HttpInv
  <1>3. \A i \in DOMAIN results : results[i] \in Outcome /\ results[i].request \in H!Ids
    <2>1. \A i \in DOMAIN results : results[i] \in Outcome
      BY ElementOfSeq, LenProperties DEF ToldInv
    <2> QED BY <2>1 DEF Outcome
  <1>4. CASE ToolReturns
    <2> DEFINE told == [request |-> waiting.id, ok |-> Returned]
    <2>1. told \in Outcome
      BY <1>4, ReturnTold DEF Outcome, Returned
    <2>2. /\ results' \in Seq(Outcome) /\ Len(results) \in Nat
          /\ DOMAIN results = 1..Len(results) /\ DOMAIN results' = 1..(Len(results) + 1)
          /\ \A i \in 1..Len(results) : results'[i] = results[i]
          /\ results'[Len(results) + 1] = told
      <3> HIDE DEF told
      <3>1. results' = Append(results, told) /\ results \in Seq(Outcome)
        BY <1>4, ReturnTold DEF told, ToldInv
      <3> QED BY <2>1, <3>1, H!LogFacts
    <2>3. ASSUME NEW i \in DOMAIN results', results'[i].ok
          PROVE  status'[results'[i].request] = "answered"
      <3>1. CASE i \in 1..Len(results)
        BY <1>2, <1>3, <2>2, <2>3, <3>1 DEF ToldInv
      <3>2. CASE i = Len(results) + 1
        <4>1. told.ok = Returned /\ told.request = waiting.id
          OBVIOUS
        <4> HIDE DEF told
        <4>2. told.ok
          BY <2>2, <2>3, <3>2, Zenon
        <4>3. status'[told.request] = "answered"
          BY <4>1, <4>2, Zenon DEF Returned
        <4> QED BY <2>2, <3>2, <4>3
      <3> QED BY <2>2, <3>1, <3>2
    <2> QED BY <1>1, <1>4, <2>2, <2>3, ReturnTold DEF ToldInv
  <1>5. ASSUME UNCHANGED results, phase' \in {"idle", "asking", "calling"} => stage' = "open"
        PROVE  ToldInv'
    BY <1>1, <1>2, <1>3, <1>5 DEF ToldInv
  <1>6. CASE Handshake \/ Connected
    BY <1>5, <1>6 DEF Handshake, Connected, vars, transport, SetupFails
  <1>7. CASE AskTool \/ ServerRuns
    <2>1. stage' = stage /\ phase' = phase /\ results' = results
      BY <1>7 DEF AskTool, ServerRuns, T!Request, T!ServerStep, T!Take, T!Serve, T!Refuse,
                  T!Respond, T!Restart, T!client, vars
    <2> QED BY <1>5, <2>1 DEF ToldInv
  <1>8. CASE Converse
    <2>1. phase \in {"idle", "asking", "calling"}
      BY <1>8 DEF Converse, ModelRepliesInBounds, ModelReplies, ModelAnswers, ModelFails,
                  ModelCalls, EndRound, UserMessage, LeavePrompt
    <2> QED BY <1>5, <1>8, <2>1 DEF Converse, transport, ToldInv
  <1>9. CASE Leave \/ Gone \/ UNCHANGED hosted
    BY <1>5, <1>9 DEF Leave, Gone, Terminated, T!Terminated, T!vars, T!client, vars, hosted,
                      transport, ToldInv
  <1> QED BY <1>4, <1>6, <1>7, <1>8, <1>9 DEF HostedNext

\* What the model is told to have worked has been carried out once, in the order
\* the model asked for it, whatever became of the other calls.
THEOREM ToldCallsAreDone == HostedSpec => []ToldDone
  <1>1. ToldInv => ToldDone
    <2> SUFFICES ASSUME ToldInv, NEW i \in DOMAIN results, results[i].ok
                 PROVE  \E n \in DOMAIN log :
                          /\ log[n] = results[i].request
                          /\ \A m \in DOMAIN log : m < n => log[m] < log[n]
                          /\ \A m \in DOMAIN log : m > n => log[m] # log[n]
      BY DEF ToldDone
    <2>1. results[i] \in Outcome /\ status[results[i].request] = "answered"
      BY ElementOfSeq, LenProperties DEF ToldInv
    <2>2. results[i].request \in H!Ids
      BY <2>1 DEF Outcome
    <2> QED BY <2>1, <2>2, TransportAssumption, H!AnsweredInOrder DEF ToldInv
  <1> QED BY <1>1, ToldInit, ToldStep, PTL DEF HostedSpec
==============================================================================
