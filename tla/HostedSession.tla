--------------------------- MODULE HostedSession ---------------------------
(***************************************************************************)
(* A single-server session together with its McpClient and the server:     *)
(* SingleHostSession, with each call of a tool carried out as requests and *)
(* responses of HttpTransport.  Time passes between asking and being told, *)
(* and a call the model is told has failed may still be carried out, while *)
(* the session is in a later round or turn or is over.                     *)
(***************************************************************************)
EXTENDS SingleHostSession

CONSTANTS
  MaxRequests,   \* bound: requests sent, the two of the handshake included
  MaxRestarts,   \* bound: restarts of the server
  Sessions,      \* the server hands out session ids
  Streams        \* the server may stream a notification before the response

ASSUME HostedAssumption ==
  /\ MaxRequests \in Nat /\ MaxRestarts \in Nat
  /\ {Sessions, Streams} \subseteq BOOLEAN

VARIABLES
  results,       \* what the model was told of each call: its request and Ok or Err
  deadline, stage, nextId, session, waiting, wire, serving, response, opened, restarts,
  log, status, answer, heard     \* as in HttpTransport

T == INSTANCE HttpTransport

transport == <<deadline, stage, nextId, session, waiting, wire, serving, response, opened,
               restarts, log, status, answer, heard>>
hosted == <<vars, results, transport>>

\* There is a deadline, as there is unless -timeout is -1.
HostedInit == Init /\ results = << >> /\ T!Init /\ deadline

\* connect_endpoint and list_tools, which end with the stage "open" or "closed".
Handshake ==
  /\ phase = "connecting" /\ stage # "open"
  /\ T!Request \/ T!Notify \/ T!Receive \/ T!GiveUp
  /\ UNCHANGED <<vars, results>>

\* A failed handshake ends the session; so does a model client that fails.
Connected ==
  /\ \/ stage = "open" /\ Start
     \/ stage \in {"open", "closed"} /\ SetupFails
  /\ UNCHANGED <<results, transport>>

\* call_tool is called and sends its request.
AskTool ==
  /\ phase = "calling" /\ served < Len(calls)
  /\ T!Request
  /\ UNCHANGED <<vars, results>>

\* Mutant: only an error object of the server counts as an error.
ReturnedUnlessError == heard'[waiting.id] # "error"

\* call_tool returned Ok.
Returned == status'[waiting.id] = "answered"

\* call_tool returns, and its result or error is put into the history.
ToolReturns ==
  /\ phase = "calling" /\ served < Len(calls)
  /\ T!Receive \/ T!GiveUp
  /\ CallTool(Returned)
  /\ results' = Append(results, [request |-> waiting.id, ok |-> Returned])

\* As many calls as the bound on requests leaves room for.
ModelRepliesInBounds ==
  ModelReplies /\ (phase' = "calling" => nextId + Len(calls') <= MaxRequests + 1)

\* Steps without the server.
Converse ==
  /\ ModelRepliesInBounds \/ EndRound \/ UserMessage \/ LeavePrompt
  /\ UNCHANGED <<results, transport>>

\* The client is dropped when the session returns.
Leave ==
  /\ phase \in {"done", "failed"}
  /\ T!Close
  /\ UNCHANGED <<vars, results>>

ServerRuns == (T!ServerStep \/ T!Restart) /\ UNCHANGED <<vars, results>>

Gone == Terminated /\ T!Terminated /\ UNCHANGED results

HostedNext ==
  Handshake \/ Connected \/ AskTool \/ ToolReturns \/ Converse \/ Leave \/ ServerRuns \/ Gone

\* The session's task runs on, and its deadline passes; of the server nothing
\* is assumed, and the user need not type anything.
HostedFairness ==
  /\ WF_hosted(AskTool) /\ WF_hosted(ToolReturns)
  /\ WF_hosted((ModelRepliesInBounds \/ EndRound) /\ UNCHANGED <<results, transport>>)

HostedSpec == HostedInit /\ [][HostedNext]_hosted /\ HostedFairness
-----------------------------------------------------------------------------
(* Properties *)

\* A call the model was told the result of has been carried out once, and before
\* every call that was asked for later, those told as failed included.
ToldDone ==
  \A i \in DOMAIN results : results[i].ok =>
    \E n \in DOMAIN log :
      /\ log[n] = results[i].request
      /\ \A m \in DOMAIN log : m < n => log[m] < log[n]
      /\ \A m \in DOMAIN log : m > n => log[m] # log[n]

\* Every call takes part of the history, in the order of the model, exactly once,
\* however late the server is: the session with its transport is a
\* SingleHostSession, and its turns end although the server may stay silent.
KeepsSession == Spec
=============================================================================
