--------------------------- MODULE StdioTransport ---------------------------
(***************************************************************************)
(* McpClient over a stdio server: src/src/mcp.rs, the JSON-lines transport *)
(* with the handshake, and the server's loop as the repository's fixture   *)
(* writes it (src/src/bin/stdio-mock-mcp-server.rs).  Client and server    *)
(* are processes of their own, joined by two pipes; the server may die at  *)
(* any point, and may write lines that answer nothing.                     *)
(***************************************************************************)
EXTENDS Naturals, Sequences

CONSTANTS
  Callers,       \* tasks that share the client (one in omcp and mcp)
  MaxRequests,   \* bound: requests sent
  PipeSize,      \* lines a pipe holds before its writer blocks
  Strays,        \* lines the server may write unasked: a subset of StrayLines
  MaxStrays,     \* bound: how many
  MayCrash       \* whether the server may die

StrayLines == {"blank", "text", "notification"}

ASSUME StdioAssumption ==
  /\ MaxRequests \in Nat /\ PipeSize \in Nat \ {0} /\ MaxStrays \in Nat
  /\ Strays \subseteq StrayLines
  /\ MayCrash \in BOOLEAN

VARIABLES
  stage,       \* how far the handshake of initialize and list_tools has come
  nextId,      \* next_id
  pc, req,     \* caller -> where its request stands, and the request
  stdout,      \* the caller that holds the stdout lock, or nobody
  toServer,    \* lines in the server's stdin pipe
  toClient,    \* lines in the server's stdout pipe
  serving,     \* request the server works on, or NoRequest
  ready,       \* the server has seen notifications/initialized
  alive,       \* the server runs
  strays,      \* stray lines written
  log,         \* requests carried out, in order, as in Rpc
  status, answer   \* outcome of each request, as in Rpc

client == <<stage, nextId, pc, req, stdout>>
outcome == <<status, answer>>
server == <<serving, ready, alive, log>>
vars == <<client, outcome, toServer, toClient, server, strays>>

Ids == 1..MaxRequests
Nobody == "nobody"
Methods == {"initialize", "tools/list", "tools/call"}
Requests == [method : Methods, id : Ids]
NoRequest == [method |-> "none", id |-> 0]
Initialized == [method |-> "notifications/initialized", id |-> 0]
Line(kind, request) == [kind |-> kind, of |-> request]
Lines == {Line(kind, NoRequest) : kind \in StrayLines \cup {"partial"}}
           \cup {Line(kind, request) : kind \in {"result", "error"}, request \in Requests}

\* The request that comes next in each stage of the client's life.
MethodIn ==
  [initialize |-> "initialize", list |-> "tools/list", open |-> "tools/call"]

Init ==
  /\ stage = "initialize"
  /\ nextId = 1
  /\ pc = [c \in Callers |-> "idle"]
  /\ req = [c \in Callers |-> NoRequest]
  /\ stdout = Nobody
  /\ toServer = << >> /\ toClient = << >>
  /\ serving = NoRequest
  /\ ready = FALSE /\ alive = TRUE
  /\ strays = 0
  /\ status = [id \in Ids |-> "unasked"]
  /\ answer = [id \in Ids |-> 0]
  /\ log = << >>
-----------------------------------------------------------------------------
(* The client *)

AllIdle == \A c \in Callers : pc[c] = "idle"

\* Mutant: next_id is read, not advanced.
BeginSameId(c) ==
  /\ stage \in DOMAIN MethodIn
  /\ pc[c] = "idle"
  /\ stage # "open" => AllIdle
  /\ nextId <= MaxRequests
  /\ req' = [req EXCEPT ![c] = [method |-> MethodIn[stage], id |-> nextId]]
  /\ pc' = [pc EXCEPT ![c] = "writing"]
  /\ status' = [status EXCEPT ![nextId] = "asked"]
  /\ UNCHANGED <<stage, nextId, stdout, answer, toServer, toClient, server, strays>>

\* Take an id.  Until the client is handed out, requests come one by one.
Begin(c) ==
  /\ stage \in DOMAIN MethodIn
  /\ pc[c] = "idle"
  /\ stage # "open" => AllIdle
  /\ nextId <= MaxRequests
  /\ nextId' = nextId + 1
  /\ req' = [req EXCEPT ![c] = [method |-> MethodIn[stage], id |-> nextId]]
  /\ pc' = [pc EXCEPT ![c] = "writing"]
  /\ status' = [status EXCEPT ![nextId] = "asked"]
  /\ UNCHANGED <<stage, stdout, answer, toServer, toClient, server, strays>>

\* A failed handshake drops the client, which closes the server's stdin.
Fail(c) ==
  /\ status' = [status EXCEPT ![req[c].id] = "failed"]
  /\ pc' = [pc EXCEPT ![c] = "idle"]
  /\ stage' = IF stage = "open" THEN stage ELSE "closed"
  /\ UNCHANGED <<nextId, req, answer>>

Succeed(c, of) ==
  /\ status' = [status EXCEPT ![req[c].id] = "answered"]
  /\ answer' = [answer EXCEPT ![req[c].id] = of.id]
  /\ pc' = [pc EXCEPT ![c] = "idle"]
  /\ stage' = CASE stage = "initialize" -> "notify"
                [] stage = "list" -> "open"
                [] OTHER -> stage
  /\ UNCHANGED <<nextId, req>>

\* The stdin lock is held for the whole line, so lines do not mix.
Write(c) ==
  /\ pc[c] = "writing"
  /\ \/ /\ alive /\ Len(toServer) < PipeSize
        /\ toServer' = Append(toServer, req[c])
        /\ pc' = [pc EXCEPT ![c] = "written"]
        /\ UNCHANGED <<stage, nextId, req, outcome>>
     \/ ~alive /\ Fail(c) /\ UNCHANGED toServer
  /\ UNCHANGED <<stdout, toClient, server, strays>>

LockStdout(c) ==
  /\ pc[c] = "written"
  /\ stdout = Nobody
  /\ stdout' = c
  /\ pc' = [pc EXCEPT ![c] = "reading"]
  /\ UNCHANGED <<stage, nextId, req, outcome, toServer, toClient, server, strays>>

\* What request and list_tools make of the line that was read.
Interpret(c, line) ==
  IF line.kind = "result" /\ (stage = "list" => line.of.method = "tools/list")
    THEN Succeed(c, line.of) ELSE Fail(c)

\* Mutant: takes a blank line for the reply.
ReadAnyLine(c) ==
  /\ pc[c] = "reading"
  /\ \/ /\ toClient # << >>
        /\ toClient' = Tail(toClient)
        /\ Interpret(c, Head(toClient)) /\ stdout' = Nobody
     \/ /\ toClient = << >> /\ ~alive
        /\ Fail(c) /\ stdout' = Nobody
        /\ UNCHANGED toClient
  /\ UNCHANGED <<toServer, server, strays>>

\* Mutant: waits until the server has nothing left to do before it reads.
ReadWhenServed(c) ==
  /\ pc[c] = "reading"
  /\ toServer = << >> /\ serving = NoRequest
  /\ \/ /\ toClient # << >>
        /\ toClient' = Tail(toClient)
        /\ IF Head(toClient).kind = "blank"
             THEN UNCHANGED <<client, outcome>>
             ELSE Interpret(c, Head(toClient)) /\ stdout' = Nobody
     \/ /\ toClient = << >> /\ ~alive
        /\ Fail(c) /\ stdout' = Nobody
        /\ UNCHANGED toClient
  /\ UNCHANGED <<toServer, server, strays>>

\* Read on over blank lines; any other line, or end of file, is the reply.
Read(c) ==
  /\ pc[c] = "reading"
  /\ \/ /\ toClient # << >>
        /\ toClient' = Tail(toClient)
        /\ IF Head(toClient).kind = "blank"
             THEN UNCHANGED <<client, outcome>>
             ELSE Interpret(c, Head(toClient)) /\ stdout' = Nobody
     \/ /\ toClient = << >> /\ ~alive
        /\ Fail(c) /\ stdout' = Nobody
        /\ UNCHANGED toClient
  /\ UNCHANGED <<toServer, server, strays>>

\* Mutant: initialize returns without its follow-up.
NotifyNothing ==
  /\ stage = "notify"
  /\ stage' = "list"
  /\ UNCHANGED <<nextId, pc, req, stdout, outcome, toServer, toClient, server, strays>>

\* Mutant: the notification carries an id, so the server answers it.
NotifyWithId ==
  /\ stage = "notify"
  /\ \/ /\ alive /\ Len(toServer) < PipeSize
        /\ toServer' = Append(toServer, [Initialized EXCEPT !.id = 1])
        /\ stage' = "list"
     \/ /\ ~alive
        /\ stage' = "closed"
        /\ UNCHANGED toServer
  /\ UNCHANGED <<nextId, pc, req, stdout, outcome, toClient, server, strays>>

\* The notification that ends initialize: written, and nothing read.
Notify ==
  /\ stage = "notify"
  /\ \/ /\ alive /\ Len(toServer) < PipeSize
        /\ toServer' = Append(toServer, Initialized)
        /\ stage' = "list"
     \/ /\ ~alive
        /\ stage' = "closed"
        /\ UNCHANGED toServer
  /\ UNCHANGED <<nextId, pc, req, stdout, outcome, toClient, server, strays>>

\* The session ends between two requests; the child is not killed.
Close ==
  /\ stage = "open" /\ AllIdle
  /\ stage' = "closed"
  /\ UNCHANGED <<nextId, pc, req, stdout, outcome, toServer, toClient, server, strays>>
-----------------------------------------------------------------------------
(* The server *)

\* A line without an id is no request.
TakeLine ==
  /\ alive /\ serving = NoRequest /\ toServer # << >>
  /\ toServer' = Tail(toServer)
  /\ IF Head(toServer) = Initialized
       THEN ready' = TRUE /\ UNCHANGED <<serving, log>>
       ELSE /\ serving' = Head(toServer)
            /\ log' = Append(log, Head(toServer).id)
            /\ UNCHANGED ready
  /\ UNCHANGED <<client, outcome, toClient, alive, strays>>

\* Writing to a pipe that nobody will read fails at once.
Emit(line) ==
  IF stage = "closed" THEN UNCHANGED toClient
  ELSE Len(toClient) < PipeSize /\ toClient' = Append(toClient, line)

WriteAnswer(kind) ==
  /\ alive /\ serving # NoRequest
  /\ Emit(Line(kind, serving))
  /\ serving' = NoRequest
  /\ UNCHANGED <<client, outcome, toServer, ready, alive, log, strays>>

\* Such a line is written beside the loop, which goes on while it waits for room.
WriteStray(kind) ==
  /\ alive /\ strays < MaxStrays
  /\ Emit(Line(kind, NoRequest))
  /\ strays' = strays + 1
  /\ UNCHANGED <<client, outcome, toServer, server>>

\* Mutant: the server looks for the end of its input after the handshake only.
ExitAfterHandshake ==
  /\ alive /\ stage = "closed" /\ toServer = << >> /\ serving = NoRequest
  /\ ready
  /\ alive' = FALSE
  /\ UNCHANGED <<client, outcome, toServer, toClient, serving, ready, log, strays>>

\* End of its input ends the loop.
Exit ==
  /\ alive /\ stage = "closed" /\ toServer = << >> /\ serving = NoRequest
  /\ alive' = FALSE
  /\ UNCHANGED <<client, outcome, toServer, toClient, serving, ready, log, strays>>

\* The server dies, perhaps in the middle of a line.
Crash ==
  /\ MayCrash /\ alive
  /\ alive' = FALSE
  /\ \/ UNCHANGED toClient
     \/ Emit(Line("partial", NoRequest))
  /\ serving' = NoRequest
  /\ toServer' = << >>
  /\ UNCHANGED <<client, outcome, ready, log, strays>>
-----------------------------------------------------------------------------
ClientStep(c) == Write(c) \/ LockStdout(c) \/ Read(c)

ServerStep == TakeLine \/ (\E kind \in {"result", "error"} : WriteAnswer(kind)) \/ Exit

Terminated == stage = "closed" /\ ~alive /\ UNCHANGED vars

Next ==
  \/ \E c \in Callers : Begin(c) \/ ClientStep(c)
  \/ Notify \/ Close
  \/ ServerStep
  \/ \E kind \in Strays : WriteStray(kind)
  \/ Crash
  \/ Terminated

\* A server that answers every request and stops at the end of its input, and
\* a client that runs.  Nobody need ask for anything, or close.
Fairness ==
  /\ \A c \in Callers : WF_vars(ClientStep(c))
  /\ WF_vars(Notify)
  /\ WF_vars(ServerStep)

Spec == Init /\ [][Next]_vars /\ Fairness
-----------------------------------------------------------------------------
(* Properties *)

TypeOK ==
  /\ stage \in {"initialize", "notify", "list", "open", "closed"}
  /\ nextId \in 1..(MaxRequests + 1)
  /\ pc \in [Callers -> {"idle", "writing", "written", "reading"}]
  /\ req \in [Callers -> Requests \cup {NoRequest}]
  /\ stdout \in Callers \cup {Nobody}
  /\ toServer \in Seq(Requests \cup {Initialized})
  /\ toClient \in Seq(Lines)
  /\ serving \in Requests \cup {NoRequest}
  /\ ready \in BOOLEAN /\ alive \in BOOLEAN
  /\ strays \in 0..MaxStrays
  /\ status \in [Ids -> {"unasked", "asked", "answered", "failed"}]
  /\ answer \in [Ids -> 0..MaxRequests]
  /\ log \in Seq(Ids)

\* A caller gets the answer to its own request, although no response id is
\* ever compared (request, read_stdio).
OwnAnswer ==
  \A id \in Ids : status[id] = "answered" => answer[id] = id

\* Between two requests nothing is on its way that a later request could take
\* for its answer.
NoLeftovers ==
  AllIdle =>
    /\ serving = NoRequest
    /\ \A i \in DOMAIN toServer : toServer[i] = Initialized
    /\ \A i \in DOMAIN toClient : toClient[i].kind \notin {"result", "error"}

\* The server hears of no tool before the handshake is over, and of no
\* request at all before initialize.
HandshakeFirst ==
  \A i \in DOMAIN log : (log[i] > 1 => ready) /\ log[1] = 1

\* Client and server never wait for each other, whatever the pipes hold: a request
\* that meets a full pipe, or whose answer does, ends all the same, and so does one
\* whose server dies (write_stdio, read_stdio).
CallsReturn == \A c \in Callers : pc[c] # "idle" ~> pc[c] = "idle"

\* The server does not outlive the session by more than it takes to notice.
ServerStops == stage = "closed" ~> ~alive

R == INSTANCE Rpc

\* Every request keeps the promise of Rpc.
KeepsRpc == R!Spec
=============================================================================
