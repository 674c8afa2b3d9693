--------------------------- MODULE HttpTransport ---------------------------
(***************************************************************************)
(* McpClient over HTTP: src/src/mcp.rs, one POST for each JSON-RPC message *)
(* with the handshake, the session id and the deadline.  The caller is the *)
(* sequential session of omcp and mcp.  The server takes one request at a  *)
(* time, as the repository's fixture does                                  *)
(* (src/src/bin/mock-mcp-server.rs), and may fail, or be started anew;     *)
(* that it hands out session ids is taken from what the client makes of    *)
(* them.                                                                   *)
(***************************************************************************)
EXTENDS Naturals, Sequences

CONSTANTS
  MaxRequests,   \* bound: requests sent
  MaxRestarts,   \* bound: restarts of the server
  Sessions,      \* the server hands out session ids and insists on them
  Streams        \* the server may stream a notification before the response

ASSUME HttpAssumption ==
  /\ MaxRequests \in Nat /\ MaxRestarts \in Nat
  /\ {Sessions, Streams} \subseteq BOOLEAN

VARIABLES
  deadline,   \* whether there is one: the timeout is not -1
  stage,      \* how far the handshake of initialize and list_tools has come
  nextId,     \* next_id
  session,    \* session_id
  waiting,    \* the message the client awaits the response of, or Nothing
  wire,       \* messages sent and not yet taken by the server
  serving,    \* message the server works on, or Nothing
  response,   \* response under way to the client, or Nothing
  opened,     \* session the server knows, or NoSession
  restarts,   \* how often the server was started anew
  log,        \* requests carried out, in order, as in Rpc
  status, answer,   \* outcome of each request, as in Rpc
  heard             \* id -> kind of the response that arrived, or "none"

client == <<stage, nextId, session, waiting>>
outcome == <<status, answer, heard>>
server == <<serving, opened, restarts, log>>
vars == <<deadline, client, outcome, wire, response, server>>

Ids == 1..MaxRequests
NoSession == 0
SessionIds == 0..(MaxRestarts + 1)
Notified == 0     \* stands for the id of a notification, which has none

Methods == {"initialize", "notifications/initialized", "tools/list", "tools/call"}
Messages ==
  {m \in [id : Ids \cup {Notified}, method : Methods, session : SessionIds] :
     m.id = Notified <=> m.method = "notifications/initialized"}
Nothing == [id |-> 0, method |-> "none", session |-> NoSession]

\* "notice": an event stream that starts with a notification; "other": a body
\* that is no JSON-RPC response, or a list of tools that is none; "refused" and
\* "nosession": a status that is no success.
Kinds == {"result", "error", "notice", "other", "accepted", "refused", "nosession"}
Responses == [of : Ids \cup {Notified}, kind : Kinds, session : SessionIds]
NoResponse == [of |-> 0, kind |-> "none", session |-> NoSession]

\* The message that comes next in each stage of the client's life.
MethodIn == [initialize |-> "initialize", notify |-> "notifications/initialized",
             list |-> "tools/list", open |-> "tools/call"]

Init ==
  /\ deadline \in BOOLEAN
  /\ stage = "initialize"
  /\ nextId = 1
  /\ session = NoSession
  /\ waiting = Nothing
  /\ wire = {} /\ serving = Nothing /\ response = NoResponse
  /\ opened = NoSession /\ restarts = 0
  /\ log = << >>
  /\ status = [id \in Ids |-> "unasked"]
  /\ answer = [id \in Ids |-> 0]
  /\ heard = [id \in Ids |-> "none"]
-----------------------------------------------------------------------------
(* The client *)

\* Mutant: the notification goes without the session id.
PostBare(id) ==
  LET message == [id |-> id, method |-> MethodIn[stage],
                  session |-> IF id = Notified THEN NoSession ELSE session]
  IN  wire' = wire \cup {message} /\ waiting' = message

\* Post a message with the session id learned so far.
Post(id) ==
  LET message == [id |-> id, method |-> MethodIn[stage], session |-> session]
  IN  wire' = wire \cup {message} /\ waiting' = message

\* Mutant: the next request does not wait for the response.
FreeAtOnce == TRUE

Free == waiting = Nothing

Request ==
  /\ stage \in DOMAIN MethodIn \ {"notify"}
  /\ Free
  /\ nextId <= MaxRequests
  /\ Post(nextId)
  /\ nextId' = nextId + 1
  /\ status' = [status EXCEPT ![nextId] = "asked"]
  /\ UNCHANGED <<deadline, stage, session, answer, heard, response, server>>

\* Mutant: the notification is sent as a request.
NotificationIdFirst == 1

NotificationId == Notified

Notify ==
  /\ stage = "notify"
  /\ Free
  /\ Post(NotificationId)
  /\ UNCHANGED <<deadline, stage, nextId, session, outcome, response, server>>

\* A failure before list_tools has returned drops the client.
Fail ==
  /\ stage' = IF stage = "open" THEN "open" ELSE "closed"
  /\ status' = [id \in Ids |-> IF id = waiting.id THEN "failed" ELSE status[id]]
  /\ waiting' = Nothing
  /\ UNCHANGED <<deadline, nextId, answer>>

Succeed(of) ==
  /\ stage' = CASE stage = "initialize" -> "notify"
                [] stage = "notify" -> "list"
                [] OTHER -> "open"
  /\ status' = [id \in Ids |-> IF id = waiting.id THEN "answered" ELSE status[id]]
  /\ answer' = [id \in Ids |-> IF id = waiting.id THEN of ELSE answer[id]]
  /\ waiting' = Nothing
  /\ UNCHANGED <<deadline, nextId>>

\* The session id is taken from the head of the response to a request, before
\* the status and the body are looked at.
Remember ==
  session' = IF waiting.id # Notified /\ response.session # NoSession
             THEN response.session ELSE session

\* The whole response is there in time.
Receive ==
  /\ response # NoResponse
  /\ Remember
  /\ IF response.kind = (IF stage = "notify" THEN "accepted" ELSE "result")
       THEN Succeed(response.of) ELSE Fail
  /\ heard' = [id \in Ids |-> IF id = waiting.id THEN response.kind ELSE heard[id]]
  /\ response' = NoResponse
  /\ UNCHANGED <<wire, server>>

\* Nobody is left who could respond.
Broken == waiting \notin wire \cup {serving} /\ response = NoResponse

\* Mutant: no deadline is set.
AbandonableBroken == Broken

Abandonable == deadline \/ Broken

\* Mutant: a request is sent again instead of failing.
GiveUpAndResend ==
  /\ waiting # Nothing
  /\ Abandonable
  /\ wire' = wire \cup {waiting}
  /\ response' = NoResponse
  /\ UNCHANGED <<deadline, client, outcome, server>>

\* The deadline passes or the connection breaks, before the response or in the
\* middle of it.  The server does not notice.
GiveUp ==
  /\ waiting # Nothing
  /\ Abandonable
  /\ \/ UNCHANGED session
     \/ response # NoResponse /\ Remember
  /\ Fail
  /\ response' = NoResponse
  /\ UNCHANGED <<heard, wire, server>>

\* The session ends between two requests.
Close ==
  /\ stage = "open" /\ waiting = Nothing
  /\ stage' = "closed"
  /\ UNCHANGED <<deadline, nextId, session, waiting, outcome, wire, response, server>>
-----------------------------------------------------------------------------
(* The server *)

\* Requests of connections that were given up may be taken in any order.
Take(message) ==
  /\ serving = Nothing
  /\ message \in wire
  /\ wire' = wire \ {message}
  /\ serving' = message
  /\ UNCHANGED <<deadline, client, outcome, response, opened, restarts, log>>

\* Send a response, which gets lost when the client has given up.
Respond(kind, given) ==
  /\ response' = IF serving = waiting
                 THEN [of |-> serving.id, kind |-> kind, session |-> given]
                 ELSE response
  /\ serving' = Nothing
  /\ UNCHANGED <<deadline, client, outcome, wire, restarts>>

KnowsSession ==
  Sessions /\ serving.method # "initialize" => serving.session = opened

\* Carry the message out and respond to it.
Serve(kind) ==
  /\ serving # Nothing
  /\ KnowsSession
  /\ IF serving.id = Notified THEN kind = "accepted" /\ UNCHANGED log
     ELSE /\ kind \in {"result", "error", "other"} \cup (IF Streams THEN {"notice"} ELSE {})
          /\ log' = Append(log, serving.id)
  /\ IF Sessions /\ serving.method = "initialize"
       THEN opened' = restarts + 1 /\ Respond(kind, opened')
       ELSE UNCHANGED opened /\ Respond(kind, NoSession)

\* A session the server does not know, or any other reason.
Refuse ==
  /\ serving # Nothing
  /\ Respond(IF KnowsSession THEN "refused" ELSE "nosession", NoSession)
  /\ UNCHANGED <<opened, log>>

\* The server stops with all it knows, and is started anew.
Restart ==
  /\ restarts < MaxRestarts
  /\ restarts' = restarts + 1
  /\ serving' = Nothing /\ wire' = {} /\ opened' = NoSession
  /\ response' \in {response, NoResponse}
  /\ UNCHANGED <<deadline, client, outcome, log>>
-----------------------------------------------------------------------------
ServerStep ==
  (\E message \in wire : Take(message)) \/ (\E kind \in Kinds : Serve(kind)) \/ Refuse

\* The server has nothing left to do for a client that is gone.
Terminated == stage = "closed" /\ wire = {} /\ serving = Nothing /\ UNCHANGED vars

Next ==
  \/ Request \/ Notify \/ Receive \/ GiveUp \/ Close
  \/ ServerStep \/ Restart
  \/ Terminated

\* The client sees what arrives and lets its deadline pass.  Of the server nothing
\* is assumed, but that it gets to every request in the end if nobody sets it a
\* deadline.
Fairness ==
  WF_vars(Receive) /\ WF_vars(GiveUp) /\ WF_vars(~deadline /\ ServerStep)

Spec == Init /\ [][Next]_vars /\ Fairness
-----------------------------------------------------------------------------
(* Properties *)

TypeOK ==
  /\ deadline \in BOOLEAN
  /\ stage \in {"initialize", "notify", "list", "open", "closed"}
  /\ nextId \in 1..(MaxRequests + 1)
  /\ session \in SessionIds /\ opened \in SessionIds
  /\ waiting \in Messages \cup {Nothing} /\ serving \in Messages \cup {Nothing}
  /\ wire \subseteq Messages
  /\ response \in Responses \cup {NoResponse}
  /\ restarts \in 0..MaxRestarts
  /\ log \in Seq(Ids)
  /\ status \in [Ids -> {"unasked", "asked", "answered", "failed"}]
  /\ answer \in [Ids -> 0..MaxRequests]
  /\ heard \in [Ids -> Kinds \cup {"none"}]

\* A request is carried out after a later one only when the client has given
\* it up (send_request waits for each response; the deadline of http()).
OnlyAbandonedLate ==
  \A i, j \in DOMAIN log : i < j /\ log[i] > log[j] => status[log[j]] = "failed"

\* A server that has not been started anew never misses its session id: it is
\* learned from initialize and sent with every message (send_request and
\* send_notification), whatever else fails in between.
NeverRefused == restarts = 0 => response.kind # "nosession"

\* Every request returns, whatever the server does, when there is a deadline;
\* without one it takes a server that gets to the request or breaks off.
CallsReturn == waiting # Nothing ~> waiting = Nothing

R == INSTANCE Rpc

\* Every request keeps the promise of Rpc.
KeepsRpc == R!Spec
=============================================================================
