------------------------ MODULE StdioTransportProofs ------------------------
(***************************************************************************)
(* Theorems about StdioTransport for every number of requests, every size  *)
(* of the pipes and every moment at which the server dies.                 *)
(***************************************************************************)
EXTENDS StdioTransport, SequenceTheorems, TLAPS

\* A queue after something was put behind it.
LEMMA PutFacts ==
  ASSUME NEW S, NEW s \in Seq(S), NEW e \in S
  PROVE  /\ Append(s, e) \in Seq(S)
         /\ Len(s) \in Nat
         /\ DOMAIN Append(s, e) = 1..(Len(s) + 1)
         /\ Len(Append(s, e)) = Len(s) + 1
         /\ \A i \in 1..Len(s) : Append(s, e)[i] = s[i]
         /\ Append(s, e)[Len(s) + 1] = e
  OBVIOUS

\* A queue after its first element was taken.
LEMMA TakeFacts ==
  ASSUME NEW S, NEW s \in Seq(S), s # << >>
  PROVE  /\ Head(s) \in S /\ Tail(s) \in Seq(S)
         /\ Head(s) = s[1] /\ 1 \in DOMAIN s
         /\ Len(s) \in Nat \ {0} /\ DOMAIN s = 1..Len(s)
         /\ DOMAIN Tail(s) = 1..(Len(s) - 1) /\ Len(Tail(s)) = Len(s) - 1
         /\ \A i \in DOMAIN Tail(s) : Tail(s)[i] = s[i + 1]
  BY HeadTailProperties, EmptySeq
-----------------------------------------------------------------------------
(* Types *)

TypeInv ==
  /\ TypeOK
  /\ \A c \in Callers : pc[c] # "idle" => req[c] \in Requests

LEMMA TypeInit == Init => TypeInv
  <1> SUFFICES ASSUME Init
               PROVE  TypeInv
    OBVIOUS
  <1>1. /\ toServer \in Seq(Requests \cup {Initialized}) /\ toClient \in Seq(Lines)
        /\ log \in Seq(Ids)
    BY DEF Init
  <1>2. /\ nextId \in 1..(MaxRequests + 1) /\ strays \in 0..MaxStrays
        /\ answer \in [Ids -> 0..MaxRequests]
    BY StdioAssumption DEF Init
  <1>3. /\ pc \in [Callers -> {"idle", "writing", "written", "reading"}]
        /\ req \in [Callers -> Requests \cup {NoRequest}]
        /\ status \in [Ids -> {"unasked", "asked", "answered", "failed"}]
    BY DEF Init
  <1>4. \A c \in Callers : pc[c] = "idle"
    BY DEF Init
  <1> QED BY <1>1, <1>2, <1>3, <1>4 DEF Init, TypeInv, TypeOK

\* The two ways a request ends.
LEMMA EndTypes ==
  ASSUME TypeInv, NEW c \in Callers, pc[c] # "idle",
         NEW of \in Requests, Fail(c) \/ Succeed(c, of)
  PROVE  /\ stage' \in {"initialize", "notify", "list", "open", "closed"}
         /\ nextId' = nextId /\ req' = req
         /\ pc' = [pc EXCEPT ![c] = "idle"]
         /\ status' \in [Ids -> {"unasked", "asked", "answered", "failed"}]
         /\ answer' \in [Ids -> 0..MaxRequests]
  <1>1. req[c].id \in Ids /\ of.id \in 0..MaxRequests
    BY StdioAssumption DEF TypeInv, Requests, Ids
  <1>2. CASE Fail(c)
    BY <1>1, <1>2 DEF Fail, TypeInv, TypeOK
  <1>3. CASE Succeed(c, of)
    BY <1>1, <1>3 DEF Succeed, TypeInv, TypeOK
  <1> QED BY <1>2, <1>3

\* A line that counts as an answer belongs to a request.
LEMMA LineTypes ==
  ASSUME NEW line \in Lines
  PROVE  /\ line.kind \in StrayLines \cup {"partial", "result", "error"}
         /\ line.kind \in {"result", "error"} => line.of \in Requests
  BY DEF Lines, Line, StrayLines

\* What may be written to the client.
LEMMA LinesAre ==
  /\ \A kind \in StrayLines \cup {"partial"} : Line(kind, NoRequest) \in Lines
  /\ \A kind \in {"result", "error"}, r \in Requests : Line(kind, r) \in Lines
  BY DEF Lines

LEMMA EmitTypes ==
  ASSUME TypeInv, NEW line \in Lines, Emit(line)
  PROVE  toClient' \in Seq(Lines)
  <1>1. toClient \in Seq(Lines)
    BY DEF TypeInv, TypeOK
  <1> QED BY <1>1, PutFacts DEF Emit

LEMMA TypeStep == TypeInv /\ [Next]_vars => TypeInv'
  <1> SUFFICES ASSUME TypeInv, [Next]_vars
               PROVE  TypeInv'
    OBVIOUS
  <1> USE DEF TypeInv
  <1>0. toServer \in Seq(Requests \cup {Initialized}) /\ toClient \in Seq(Lines)
    BY DEF TypeOK
  <1>1. ASSUME NEW c \in Callers, Begin(c)
        PROVE  TypeInv'
    <2> DEFINE r == [method |-> MethodIn[stage], id |-> nextId]
    <2>1. nextId \in Ids /\ nextId' \in 1..(MaxRequests + 1) /\ MethodIn[stage] \in Methods
      BY <1>1, StdioAssumption DEF Begin, TypeOK, Ids, MethodIn, Methods
    <2>2. r \in Requests
      BY <2>1 DEF Requests
    <2>3. /\ req' = [req EXCEPT ![c] = r]
          /\ pc' = [pc EXCEPT ![c] = "writing"]
          /\ status' = [status EXCEPT ![nextId] = "asked"]
          /\ UNCHANGED <<stage, stdout, answer, toServer, toClient, server, strays>>
      BY <1>1 DEF Begin
    <2> HIDE DEF r
    <2> QED BY <2>1, <2>2, <2>3 DEF TypeOK, server
  <1>2. ASSUME NEW c \in Callers, Write(c)
        PROVE  TypeInv'
    <2>0. pc[c] # "idle" /\ req[c] \in Requests
      BY <1>2 DEF Write
    <2>1. CASE ~alive
      <3>1. Fail(c) /\ UNCHANGED <<toServer, stdout, toClient, server, strays>>
        BY <1>2, <2>1 DEF Write
      <3> QED BY <2>0, <3>1, EndTypes DEF TypeOK, server
    <2>2. CASE alive
      <3>1. toServer' = Append(toServer, req[c])
        BY <1>2, <2>2 DEF Write
      <3>2. toServer' \in Seq(Requests \cup {Initialized})
        BY <2>0, <3>1, PutFacts DEF TypeOK
      <3>3. /\ pc' = [pc EXCEPT ![c] = "written"]
            /\ UNCHANGED <<stage, nextId, req, outcome, stdout, toClient, server, strays>>
        BY <1>2, <2>2 DEF Write
      <3> QED BY <2>0, <3>2, <3>3 DEF TypeOK, server, outcome
    <2> QED BY <2>1, <2>2
  <1>3. ASSUME NEW c \in Callers, LockStdout(c)
        PROVE  TypeInv'
    BY <1>3 DEF LockStdout, TypeOK, server, outcome
  <1>4. ASSUME NEW c \in Callers, Read(c)
        PROVE  TypeInv'
    <2>1. toClient' \in Seq(Lines)
      BY <1>0, <1>4, TakeFacts DEF Read
    <2>2. CASE UNCHANGED <<client, outcome>>
      BY <1>4, <2>1, <2>2 DEF Read, client, outcome, server, TypeOK
    <2>3. ASSUME ~UNCHANGED <<client, outcome>>
          PROVE  /\ stdout' = Nobody
                 /\ \E of \in Requests : Fail(c) \/ Succeed(c, of)
      <3>0. req[c] \in Requests
        BY <1>4 DEF Read
      <3>1. CASE toClient # << >>
        <4>1. Head(toClient) \in Lines
          BY <3>1, TakeFacts DEF TypeOK
        <4>2. Interpret(c, Head(toClient)) /\ stdout' = Nobody
          BY <1>4, <2>3, <3>1 DEF Read
        <4> QED BY <3>0, <4>1, <4>2, LineTypes DEF Interpret
      <3>2. CASE toClient = << >>
        BY <1>4, <3>0, <3>2 DEF Read
      <3> QED BY <3>1, <3>2
    <2>4. CASE ~UNCHANGED <<client, outcome>>
      <3>1. PICK of \in Requests : Fail(c) \/ Succeed(c, of)
        BY <2>3, <2>4
      <3>2. pc[c] # "idle" /\ UNCHANGED <<toServer, server, strays>>
        BY <1>4 DEF Read
      <3> QED BY <2>1, <2>3, <2>4, <3>1, <3>2, EndTypes DEF TypeOK, server
    <2> QED BY <2>2, <2>4
  <1>5. CASE Notify
    <2>1. toServer' \in Seq(Requests \cup {Initialized})
      <3>1. Append(toServer, Initialized) \in Seq(Requests \cup {Initialized})
        BY <1>0, PutFacts
      <3> QED BY <1>0, <1>5, <3>1 DEF Notify
    <2> QED BY <1>5, <2>1 DEF Notify, TypeOK, server, outcome
  <1>6. CASE Close
    BY <1>6 DEF Close, TypeOK, server, outcome
  <1>7. CASE TakeLine
    <2>1. /\ Head(toServer) \in Requests \cup {Initialized}
          /\ toServer' \in Seq(Requests \cup {Initialized})
      BY <1>7, TakeFacts DEF TakeLine, TypeOK
    <2>2. CASE Head(toServer) = Initialized
      BY <1>7, <2>1, <2>2 DEF TakeLine, TypeOK, client, outcome
    <2>3. CASE Head(toServer) # Initialized
      <3>1. Head(toServer) \in Requests /\ Head(toServer).id \in Ids
        BY <2>1, <2>3 DEF Requests
      <3>2. log' = Append(log, Head(toServer).id) /\ serving' = Head(toServer)
        BY <1>7, <2>3 DEF TakeLine
      <3>3. log' \in Seq(Ids)
        BY <3>1, <3>2, PutFacts DEF TypeOK
      <3> QED BY <1>7, <2>1, <3>1, <3>2, <3>3 DEF TakeLine, TypeOK, client, outcome
    <2> QED BY <2>2, <2>3
  <1>8. ASSUME NEW kind \in {"result", "error"}, WriteAnswer(kind)
        PROVE  TypeInv'
    <2>1. toClient' \in Seq(Lines)
      BY <1>8, LinesAre, EmitTypes DEF WriteAnswer, TypeOK
    <2> QED BY <1>8, <2>1 DEF WriteAnswer, TypeOK, client, outcome
  <1>9. ASSUME NEW kind \in Strays, WriteStray(kind)
        PROVE  TypeInv'
    <2>1. toClient' \in Seq(Lines)
      BY <1>9, LinesAre, EmitTypes, StdioAssumption DEF WriteStray
    <2> QED BY <1>9, <2>1, StdioAssumption DEF WriteStray, TypeOK, client, outcome, server
  <1>10. CASE Exit
    BY <1>10 DEF Exit, TypeOK, client, outcome
  <1>11. CASE Crash
    <2>1. toClient' \in Seq(Lines)
      BY <1>11, LinesAre, EmitTypes DEF Crash, TypeOK
    <2>2. toServer' \in Seq(Requests \cup {Initialized})
      BY <1>11 DEF Crash
    <2> QED BY <1>11, <2>1, <2>2 DEF Crash, TypeOK, client, outcome
  <1>12. CASE UNCHANGED vars
    BY <1>12 DEF vars, client, outcome, server, TypeOK
  <1> QED BY <1>1, <1>2, <1>3, <1>4, <1>5, <1>6, <1>7, <1>8, <1>9, <1>10, <1>11, <1>12
          DEF Next, ClientStep, ServerStep, Terminated

\* The state variables keep their types, however many tasks share the client.
THEOREM StdioTypeCorrect == Spec => []TypeOK
  <1>1. TypeInv => TypeOK
    BY DEF TypeInv
  <1> QED BY <1>1, TypeInit, TypeStep, PTL DEF Spec
-----------------------------------------------------------------------------
(* Own answers *)

Reply(line) == line.kind \in {"result", "error"}

\* The request of caller c is with the server, or its answer on the way back.
InFlight(c) == pc[c] \in {"written", "reading"}

\* All that is on its way belongs to the one request in flight, and is in one
\* place only: in the server's stdin, in the server, or in its stdout.  Half a
\* line is the last thing a server writes, and a dead one has nothing in hand.
OneAtATime(c) ==
  /\ \A i \in DOMAIN toServer : toServer[i] # Initialized =>
       /\ InFlight(c) /\ toServer[i] = req[c] /\ serving = NoRequest
       /\ \A j \in DOMAIN toServer : toServer[j] # Initialized => j = i
  /\ serving # NoRequest => InFlight(c) /\ serving = req[c]
  /\ \A i \in DOMAIN toClient : Reply(toClient[i]) =>
       /\ InFlight(c) /\ toClient[i].of = req[c] /\ serving = NoRequest
       /\ \A j \in DOMAIN toServer : toServer[j] = Initialized
       /\ \A j \in DOMAIN toClient : Reply(toClient[j]) => j = i
  /\ \A i \in DOMAIN toClient :
       /\ toClient[i].kind \in {"blank", "partial", "result", "error"}
       /\ toClient[i].kind = "partial" => ~alive /\ i = Len(toClient)
  /\ ~alive => serving = NoRequest /\ toServer = << >>

AnswerInv(c) == TypeInv /\ OwnAnswer /\ OneAtATime(c)

LEMMA AnswerInit ==
  ASSUME NEW c, Callers = {c}, Init
  PROVE  AnswerInv(c)
  BY TypeInit DEF Init, AnswerInv, OwnAnswer, OneAtATime

\* Putting a line that is no reply in the client's pipe disturbs nothing.
LEMMA QuietEmit ==
  ASSUME NEW c \in Callers, AnswerInv(c), NEW kind \in {"blank", "partial"},
         alive, Emit(Line(kind, NoRequest)),
         UNCHANGED <<pc, req, stage>>,
         \/ kind = "blank" /\ UNCHANGED <<toServer, serving, alive>>
         \/ serving' = NoRequest /\ toServer' = << >> /\ ~alive'
  PROVE  OneAtATime(c)'
  <1> DEFINE line == Line(kind, NoRequest)
  <1>1. line \in Lines /\ line.kind = kind /\ ~Reply(line)
    BY LinesAre DEF Line, Reply, StrayLines
  <1>2. toClient \in Seq(Lines)
    BY DEF AnswerInv, TypeInv, TypeOK
  <1>0. \A i \in DOMAIN toServer' : i \in DOMAIN toServer /\ toServer'[i] = toServer[i]
    <2>1. CASE UNCHANGED toServer
      BY <2>1
    <2>2. CASE toServer' = << >>
      BY <2>2
    <2> QED BY <2>1, <2>2
  <1>a. /\ serving' # NoRequest => serving' = serving
        /\ ~alive' => serving' = NoRequest /\ toServer' = << >>
    OBVIOUS
  <1>3. CASE toClient' = toClient
    BY <1>0, <1>a, <1>3 DEF AnswerInv, OneAtATime, InFlight
  <1>4. CASE toClient' = Append(toClient, line)
    <2> HIDE DEF line
    <2>1. /\ DOMAIN toClient = 1..Len(toClient) /\ Len(toClient) \in Nat
          /\ DOMAIN toClient' = 1..(Len(toClient) + 1)
          /\ Len(toClient') = Len(toClient) + 1
          /\ \A i \in 1..Len(toClient) : toClient'[i] = toClient[i]
          /\ toClient'[Len(toClient) + 1] = line
      BY <1>1, <1>2, <1>4, PutFacts
    <2>2. \A i \in DOMAIN toClient' : i \in DOMAIN toClient \/ i = Len(toClient')
      BY <2>1
    <2>3. \A i \in DOMAIN toClient' : Reply(toClient'[i]) =>
             i \in DOMAIN toClient /\ toClient'[i] = toClient[i]
      BY <1>1, <2>1, <2>2
    <2>4. \A i \in DOMAIN toClient' :
             /\ toClient'[i].kind \in {"blank", "partial", "result", "error"}
             /\ toClient'[i].kind = "partial" => ~alive' /\ i = Len(toClient')
      BY <1>1, <2>1, <2>2 DEF AnswerInv, OneAtATime
    <2> QED BY <1>0, <1>a, <2>3, <2>4 DEF AnswerInv, OneAtATime, InFlight
  <1> QED BY <1>3, <1>4 DEF Emit

LEMMA AnswerStep ==
  ASSUME NEW c, Callers = {c}, Strays \subseteq {"blank"}, AnswerInv(c), [Next]_vars
  PROVE  AnswerInv(c)'
  <1>t. TypeInv /\ TypeInv' /\ c \in Callers
    BY TypeStep DEF AnswerInv
  <1>s. toServer \in Seq(Requests \cup {Initialized}) /\ toClient \in Seq(Lines)
    BY <1>t DEF TypeInv, TypeOK
  <1>q. UNCHANGED outcome => OwnAnswer'
    BY DEF AnswerInv, OwnAnswer, outcome
  <1>n. \A r \in Requests : r # Initialized /\ r # NoRequest
    BY DEF Requests, Methods, Initialized, NoRequest
  <1>1. CASE Begin(c)
    <2>1. ~InFlight(c) /\ ~InFlight(c)'
      BY <1>1, <1>t DEF Begin, InFlight, TypeInv, TypeOK
    <2>2. UNCHANGED <<toServer, toClient, serving, alive, answer>>
      BY <1>1 DEF Begin, server
    <2>3. OneAtATime(c)'
      BY <2>1, <2>2 DEF AnswerInv, OneAtATime
    <2>4. status' = [status EXCEPT ![nextId] = "asked"]
      BY <1>1 DEF Begin
    <2>5. OwnAnswer'
      BY <1>t, <2>2, <2>4 DEF AnswerInv, OwnAnswer, TypeInv, TypeOK
    <2> QED BY <1>t, <2>3, <2>5 DEF AnswerInv
  <1>2. CASE Write(c)
    <2>0. /\ ~InFlight(c) /\ req[c] \in Requests
          /\ UNCHANGED <<toClient, serving, alive>>
      BY <1>2, <1>t DEF Write, InFlight, server, TypeInv, TypeOK
    <2>n. /\ serving = NoRequest /\ \A i \in DOMAIN toServer : toServer[i] = Initialized
          /\ \A i \in DOMAIN toClient : ~Reply(toClient[i])
      BY <2>0 DEF AnswerInv, OneAtATime
    <2>1. CASE alive
      <3>1. /\ toServer' = Append(toServer, req[c])
            /\ pc' = [pc EXCEPT ![c] = "written"]
            /\ UNCHANGED <<req, outcome>>
        BY <1>2, <2>1 DEF Write
      <3>2. /\ DOMAIN toServer = 1..Len(toServer) /\ Len(toServer) \in Nat
            /\ DOMAIN toServer' = 1..(Len(toServer) + 1)
            /\ \A i \in 1..Len(toServer) : toServer'[i] = Initialized
            /\ toServer'[Len(toServer) + 1] = req[c]
        BY <1>s, <2>0, <2>n, <3>1, PutFacts
      <3>3. \A i \in DOMAIN toServer' :
               toServer'[i] # Initialized => i = Len(toServer) + 1 /\ toServer'[i] = req[c]
        BY <3>2
      <3>4. InFlight(c)'
        BY <1>t, <3>1 DEF InFlight, TypeInv, TypeOK
      <3>5. OneAtATime(c)'
        BY <2>0, <2>1, <2>n, <3>1, <3>3, <3>4 DEF AnswerInv, OneAtATime
      <3> QED BY <1>t, <1>q, <3>1, <3>5 DEF AnswerInv
    <2>2. CASE ~alive
      <3>1. Fail(c) /\ UNCHANGED toServer
        BY <1>2, <2>2 DEF Write
      <3>2. OneAtATime(c)'
        BY <2>0, <2>n, <3>1 DEF AnswerInv, OneAtATime
      <3>3. OwnAnswer'
        BY <1>t, <3>1 DEF Fail, AnswerInv, OwnAnswer, TypeInv, TypeOK
      <3> QED BY <1>t, <3>2, <3>3 DEF AnswerInv
    <2> QED BY <2>1, <2>2
  <1>3. CASE LockStdout(c)
    <2>1. /\ pc[c] = "written" /\ pc' = [pc EXCEPT ![c] = "reading"]
          /\ UNCHANGED <<req, outcome, toServer, toClient, serving, alive>>
      BY <1>3 DEF LockStdout, server
    <2>2. InFlight(c)'
      BY <1>t, <2>1 DEF InFlight, TypeInv, TypeOK
    <2>3. OneAtATime(c)'
      BY <2>1, <2>2 DEF AnswerInv, OneAtATime
    <2> QED BY <1>t, <1>q, <2>1, <2>3 DEF AnswerInv
  <1>4. CASE Read(c)
    <2>0. /\ pc[c] = "reading" /\ req[c] \in Requests
          /\ UNCHANGED <<toServer, serving, alive>>
      BY <1>4, <1>t DEF Read, server, TypeInv
    <2>1. CASE toClient = << >>
      <3>1. Fail(c) /\ ~alive /\ UNCHANGED toClient
        BY <1>4, <2>1 DEF Read
      <3>2. OneAtATime(c)'
        BY <2>0, <2>1, <3>1 DEF AnswerInv, OneAtATime
      <3>3. OwnAnswer'
        BY <1>t, <3>1 DEF Fail, AnswerInv, OwnAnswer, TypeInv, TypeOK
      <3> QED BY <1>t, <3>2, <3>3 DEF AnswerInv
    <2>2. CASE toClient # << >>
      <3>1. /\ toClient' = Tail(toClient)
            /\ Len(toClient) \in Nat \ {0} /\ DOMAIN toClient = 1..Len(toClient)
            /\ Len(toClient') = Len(toClient) - 1
            /\ DOMAIN toClient' = 1..(Len(toClient) - 1)
            /\ \A i \in DOMAIN toClient' : toClient'[i] = toClient[i + 1]
            /\ Head(toClient) = toClient[1] /\ toClient[1] \in Lines /\ 1 \in DOMAIN toClient
        <4>1. toClient' = Tail(toClient)
          BY <1>4, <2>2 DEF Read
        <4> QED BY <1>s, <2>2, <4>1, TakeFacts
      <3>2. \A i \in DOMAIN toClient' : i + 1 \in DOMAIN toClient /\ i + 1 # 1
        BY <3>1
      <3>k. \A i \in DOMAIN toClient' :
               /\ toClient'[i].kind \in {"blank", "partial", "result", "error"}
               /\ toClient'[i].kind = "partial" => ~alive' /\ i = Len(toClient')
        BY <2>0, <3>1, <3>2 DEF AnswerInv, OneAtATime
      <3>3. CASE toClient[1].kind = "blank"
        <4>1. UNCHANGED <<pc, req, outcome>>
          BY <1>4, <2>2, <3>1, <3>3 DEF Read, client
        <4>2. \A i, j \in DOMAIN toClient' :
                 Reply(toClient'[i]) /\ Reply(toClient'[j]) => i = j
          BY <3>1, <3>2 DEF AnswerInv, OneAtATime
        <4>3. OneAtATime(c)'
          BY <2>0, <3>1, <3>2, <3>k, <4>1, <4>2 DEF AnswerInv, OneAtATime, InFlight
        <4> QED BY <1>t, <1>q, <4>1, <4>3 DEF AnswerInv
      <3>4. CASE toClient[1].kind # "blank"
        <4>1. Interpret(c, toClient[1])
          BY <1>4, <2>2, <3>1, <3>4 DEF Read
        <4>2. \A i \in DOMAIN toClient' : ~Reply(toClient'[i])
          <5>1. CASE Reply(toClient[1])
            BY <3>1, <3>2, <5>1 DEF AnswerInv, OneAtATime
          <5>2. CASE ~Reply(toClient[1])
            <6>1. toClient[1].kind = "partial"
              BY <3>1, <3>4, <5>2 DEF AnswerInv, OneAtATime, Reply
            <6>2. Len(toClient) = 1
              BY <3>1, <6>1 DEF AnswerInv, OneAtATime
            <6> QED BY <3>1, <6>2
          <5> QED BY <5>1, <5>2
        <4>3. serving = NoRequest /\ \A i \in DOMAIN toServer : toServer[i] = Initialized
          <5>1. CASE Reply(toClient[1])
            BY <3>1, <5>1 DEF AnswerInv, OneAtATime
          <5>2. CASE ~Reply(toClient[1])
            <6>1. toClient[1].kind = "partial"
              BY <3>1, <3>4, <5>2 DEF AnswerInv, OneAtATime, Reply
            <6> QED BY <3>1, <6>1 DEF AnswerInv, OneAtATime
          <5> QED BY <5>1, <5>2
        <4>4. OneAtATime(c)'
          BY <2>0, <3>k, <4>2, <4>3 DEF AnswerInv, OneAtATime
        <4>5. OwnAnswer'
          <5>1. CASE Fail(c)
            BY <1>t, <5>1 DEF Fail, AnswerInv, OwnAnswer, TypeInv, TypeOK
          <5>2. CASE Succeed(c, toClient[1].of) /\ toClient[1].kind = "result"
            <6>1. toClient[1].of = req[c]
              BY <3>1, <5>2 DEF AnswerInv, OneAtATime, Reply
            <6>2. /\ status' = [status EXCEPT ![req[c].id] = "answered"]
                  /\ answer' = [answer EXCEPT ![req[c].id] = req[c].id]
              BY <5>2, <6>1 DEF Succeed
            <6> QED BY <1>t, <6>2 DEF AnswerInv, OwnAnswer, TypeInv, TypeOK
          <5> QED BY <4>1, <5>1, <5>2 DEF Interpret
        <4> QED BY <1>t, <4>4, <4>5 DEF AnswerInv
      <3> QED BY <3>3, <3>4
    <2> QED BY <2>1, <2>2
  <1>5. CASE Notify
    <2>0. UNCHANGED <<pc, req, outcome, toClient, serving, alive>>
      BY <1>5 DEF Notify, server
    <2>1. CASE UNCHANGED toServer
      BY <1>t, <1>q, <2>0, <2>1 DEF AnswerInv, OneAtATime, InFlight
    <2>2. CASE toServer' = Append(toServer, Initialized) /\ alive
      <3>1. /\ DOMAIN toServer = 1..Len(toServer) /\ Len(toServer) \in Nat
            /\ DOMAIN toServer' = 1..(Len(toServer) + 1)
            /\ \A i \in 1..Len(toServer) : toServer'[i] = toServer[i]
            /\ toServer'[Len(toServer) + 1] = Initialized
        BY <1>s, <2>2, PutFacts
      <3>2. \A i \in DOMAIN toServer' :
               toServer'[i] # Initialized => i \in DOMAIN toServer /\ toServer'[i] = toServer[i]
        BY <3>1
      <3>3. OneAtATime(c)'
        BY <2>0, <2>2, <3>2 DEF AnswerInv, OneAtATime, InFlight
      <3> QED BY <1>t, <1>q, <2>0, <3>3 DEF AnswerInv
    <2> QED BY <1>5, <2>1, <2>2 DEF Notify
  <1>6. CASE Close \/ UNCHANGED vars
    BY <1>t, <1>q, <1>6 DEF Close, vars, client, server, AnswerInv, OneAtATime, InFlight, outcome
  <1>7. CASE TakeLine
    <2>0. /\ UNCHANGED <<pc, req, outcome, toClient, alive>>
          /\ alive /\ serving = NoRequest
      BY <1>7 DEF TakeLine, client
    <2>1. /\ Len(toServer) \in Nat \ {0} /\ DOMAIN toServer = 1..Len(toServer)
          /\ DOMAIN toServer' = 1..(Len(toServer) - 1)
          /\ \A i \in DOMAIN toServer' : toServer'[i] = toServer[i + 1]
          /\ Head(toServer) = toServer[1] /\ 1 \in DOMAIN toServer
      BY <1>7, <1>s, TakeFacts DEF TakeLine
    <2>2. \A i \in DOMAIN toServer' : i + 1 \in DOMAIN toServer /\ i + 1 # 1
      BY <2>1
    <2>3. CASE toServer[1] = Initialized
      <3>1. UNCHANGED serving
        BY <1>7, <2>1, <2>3 DEF TakeLine
      <3>2. \A i, j \in DOMAIN toServer' :
               toServer'[i] # Initialized /\ toServer'[j] # Initialized => i = j
        BY <2>1, <2>2 DEF AnswerInv, OneAtATime
      <3>3. OneAtATime(c)'
        BY <2>0, <2>1, <2>2, <3>1, <3>2 DEF AnswerInv, OneAtATime, InFlight
      <3> QED BY <1>t, <1>q, <2>0, <3>3 DEF AnswerInv
    <2>4. CASE toServer[1] # Initialized
      <3>1. serving' = toServer[1] /\ toServer[1] = req[c] /\ InFlight(c)
        BY <1>7, <2>1, <2>4 DEF TakeLine, AnswerInv, OneAtATime
      <3>2. \A i \in DOMAIN toServer' : toServer'[i] = Initialized
        BY <2>1, <2>2, <2>4 DEF AnswerInv, OneAtATime
      <3>3. \A i \in DOMAIN toClient : ~Reply(toClient[i])
        BY <2>1, <2>4 DEF AnswerInv, OneAtATime
      <3>4. OneAtATime(c)'
        BY <2>0, <3>1, <3>2, <3>3 DEF AnswerInv, OneAtATime, InFlight
      <3> QED BY <1>t, <1>q, <2>0, <3>4 DEF AnswerInv
    <2> QED BY <2>3, <2>4
  <1>8. ASSUME NEW kind \in {"result", "error"}, WriteAnswer(kind)
        PROVE  AnswerInv(c)'
    <2> DEFINE line == Line(kind, serving)
    <2>0. /\ UNCHANGED <<pc, req, outcome, toServer, alive>>
          /\ alive /\ serving # NoRequest /\ serving' = NoRequest
      BY <1>8 DEF WriteAnswer, client
    <2>1. /\ serving = req[c] /\ InFlight(c)
          /\ \A i \in DOMAIN toServer : toServer[i] = Initialized
          /\ \A i \in DOMAIN toClient : ~Reply(toClient[i])
      BY <2>0 DEF AnswerInv, OneAtATime
    <2>2. CASE UNCHANGED toClient
      <3>1. OneAtATime(c)'
        BY <2>0, <2>1, <2>2 DEF AnswerInv, OneAtATime
      <3> QED BY <1>t, <1>q, <2>0, <3>1 DEF AnswerInv
    <2>3. CASE toClient' = Append(toClient, line)
      <3>1. line \in Lines /\ line.kind = kind /\ line.of = req[c] /\ kind # "partial"
        BY <1>t, <2>0, <2>1, LinesAre DEF Line, TypeInv, TypeOK
      <3>2. /\ DOMAIN toClient = 1..Len(toClient) /\ Len(toClient) \in Nat
            /\ DOMAIN toClient' = 1..(Len(toClient) + 1)
            /\ \A i \in 1..Len(toClient) : toClient'[i] = toClient[i]
            /\ toClient'[Len(toClient) + 1] = line
        <4> HIDE DEF line
        <4> QED BY <1>s, <2>3, <3>1, PutFacts
      <3>3. \A i \in DOMAIN toClient' :
              /\ (i \in DOMAIN toClient /\ toClient'[i] = toClient[i]) \/ i = Len(toClient) + 1
              /\ Reply(toClient'[i]) => i = Len(toClient) + 1 /\ toClient'[i].of = req[c]
        BY <2>1, <3>1, <3>2
      <3>4. \A i \in DOMAIN toClient' :
              /\ toClient'[i].kind \in {"blank", "partial", "result", "error"}
              /\ toClient'[i].kind # "partial"
        BY <2>0, <3>1, <3>2, <3>3 DEF AnswerInv, OneAtATime
      <3>5. OneAtATime(c)'
        BY <2>0, <2>1, <3>3, <3>4 DEF AnswerInv, OneAtATime, InFlight
      <3> QED BY <1>t, <1>q, <2>0, <3>5 DEF AnswerInv
    <2> QED BY <1>8, <2>2, <2>3 DEF WriteAnswer, Emit
  <1>9. ASSUME NEW kind \in Strays, WriteStray(kind)
        PROVE  AnswerInv(c)'
    <2>1. OneAtATime(c)'
      BY <1>9, <1>t, QuietEmit DEF WriteStray, client, server
    <2> QED BY <1>9, <1>t, <1>q, <2>1 DEF WriteStray, AnswerInv
  <1>10. CASE Exit
    <2>1. OneAtATime(c)'
      BY <1>10 DEF Exit, client, AnswerInv, OneAtATime, InFlight
    <2> QED BY <1>10, <1>t, <1>q, <2>1 DEF Exit, AnswerInv
  <1>11. CASE Crash
    <2>0. /\ UNCHANGED <<pc, req, stage, outcome>>
          /\ alive /\ ~alive' /\ serving' = NoRequest /\ toServer' = << >>
      BY <1>11 DEF Crash, client
    <2>1. CASE UNCHANGED toClient
      BY <1>t, <1>q, <2>0, <2>1 DEF AnswerInv, OneAtATime, InFlight
    <2>2. CASE Emit(Line("partial", NoRequest))
      BY <1>t, <1>q, <2>0, <2>2, QuietEmit DEF AnswerInv
    <2> QED BY <1>11, <2>1, <2>2 DEF Crash
  <1> QED BY <1>1, <1>2, <1>3, <1>4, <1>5, <1>6, <1>7, <1>8, <1>9, <1>10, <1>11
          DEF Next, ClientStep, ServerStep, Terminated

\* A single caller of a server that writes nothing unasked but blank lines gets
\* the answer to its own request every time, wherever the server dies.
THEOREM SingleCallerOwnAnswer ==
  ASSUME NEW c, Callers = {c}, Strays \subseteq {"blank"}
  PROVE  Spec => []OwnAnswer
  <1>1. Init => AnswerInv(c)
    BY AnswerInit
  <1>2. AnswerInv(c) /\ [Next]_vars => AnswerInv(c)'
    BY AnswerStep
  <1>3. AnswerInv(c) => OwnAnswer
    BY DEF AnswerInv
  <1> QED BY <1>1, <1>2, <1>3, PTL DEF Spec

\* And between two of its requests no answer is on its way.
THEOREM SingleCallerNoLeftovers ==
  ASSUME NEW c, Callers = {c}, Strays \subseteq {"blank"}
  PROVE  Spec => []NoLeftovers
  <1>1. Init => AnswerInv(c)
    BY AnswerInit
  <1>2. AnswerInv(c) /\ [Next]_vars => AnswerInv(c)'
    BY AnswerStep
  <1>3. AnswerInv(c) => NoLeftovers
    BY DEF AnswerInv, OneAtATime, NoLeftovers, AllIdle, InFlight, Reply
  <1> QED BY <1>1, <1>2, <1>3, PTL DEF Spec
-----------------------------------------------------------------------------
(* The handshake *)

\* initialize has the first id, and is under way as long as its stage lasts.
StageInv ==
  /\ \A c \in Callers : pc[c] # "idle" => req[c].id < nextId
  /\ stage = "initialize" => nextId = 1 \/ (nextId = 2 /\ ~AllIdle)
  /\ stage = "notify" => nextId <= 2

\* Until the server has carried out a request, there is no other than initialize,
\* and no answer.
FirstInv ==
  /\ log = << >> =>
       /\ stage \in {"initialize", "closed"} /\ nextId <= 2 /\ serving = NoRequest
       /\ \A i \in DOMAIN toServer : toServer[i].id = 1
       /\ \A i \in DOMAIN toClient : ~Reply(toClient[i])
  /\ log # << >> => log[1] = 1

\* The notification is written before any later request, and so taken before it.
NotifiedInv ==
  /\ alive /\ (stage \in {"list", "open"} \/ nextId > 2) =>
       ready \/ \E j \in DOMAIN toServer : toServer[j] = Initialized
  /\ \A i \in DOMAIN toServer : toServer[i].id > 1 =>
       ready \/ \E j \in 1..(i - 1) : toServer[j] = Initialized
  /\ \A i \in DOMAIN log : log[i] > 1 => ready

HandshakeInv == TypeInv /\ StageInv /\ FirstInv /\ NotifiedInv

LEMMA HandshakeInit == Init => HandshakeInv
  BY TypeInit DEF Init, HandshakeInv, StageInv, FirstInv, NotifiedInv, AllIdle

\* The end of a request: only a reply takes initialize to its next stage.
LEMMA EndKeepsHandshake ==
  ASSUME HandshakeInv, NEW c \in Callers, pc[c] # "idle", NEW of,
         Fail(c) \/ (Succeed(c, of) /\ log # << >>),
         UNCHANGED <<toServer, server>>,
         \A i \in DOMAIN toClient' : Reply(toClient'[i]) =>
            \E j \in DOMAIN toClient : Reply(toClient[j])
  PROVE  StageInv' /\ FirstInv' /\ NotifiedInv'
  <1>1. /\ pc' = [pc EXCEPT ![c] = "idle"] /\ UNCHANGED <<nextId, req>>
        /\ stage' \in {stage, "closed", "notify", "open"}
        /\ stage' # "initialize" /\ (stage' = "notify" => stage \in {"initialize", "notify"})
        /\ stage' = "open" => stage \in {"list", "open"}
        /\ stage' = "list" => stage = "list"
        /\ log = << >> => stage' \in {"initialize", "closed"}
    BY DEF Fail, Succeed, HandshakeInv, FirstInv, TypeInv, TypeOK
  <1>2. StageInv'
    BY <1>1 DEF StageInv, HandshakeInv, TypeInv, TypeOK
  <1>3. FirstInv'
    BY <1>1 DEF FirstInv, HandshakeInv, server
  <1>4. NotifiedInv'
    BY <1>1 DEF NotifiedInv, HandshakeInv, server
  <1> QED BY <1>2, <1>3, <1>4

\* What the server writes disturbs nothing, if it is no reply before a request.
LEMMA EmitKeepsHandshake ==
  ASSUME HandshakeInv, NEW line \in Lines, Emit(line) \/ UNCHANGED toClient,
         log # << >> \/ ~Reply(line), serving' \in {serving, NoRequest},
         UNCHANGED <<client, log, ready>>,
         \/ UNCHANGED <<toServer, alive>>
         \/ toServer' = << >> /\ ~alive'
  PROVE  StageInv' /\ FirstInv' /\ NotifiedInv'
  <1>1. toClient \in Seq(Lines)
    BY DEF HandshakeInv, TypeInv, TypeOK
  <1>2. \A i \in DOMAIN toClient' : (i \in DOMAIN toClient /\ toClient'[i] = toClient[i])
                                    \/ toClient'[i] = line
    <2>1. CASE toClient' = Append(toClient, line)
      <3>1. DOMAIN toClient = 1..Len(toClient) /\ Len(toClient) \in Nat
        BY <1>1
      <3>2. /\ DOMAIN toClient' = 1..(Len(toClient) + 1)
            /\ \A i \in 1..Len(toClient) : toClient'[i] = toClient[i]
            /\ toClient'[Len(toClient) + 1] = line
        BY <1>1, <2>1, PutFacts
      <3> QED BY <3>1, <3>2
    <2> QED BY <2>1 DEF Emit
  <1>3. StageInv'
    BY DEF StageInv, HandshakeInv, client, AllIdle
  <1>4. FirstInv'
    BY <1>2 DEF FirstInv, HandshakeInv, client
  <1>5. NotifiedInv'
    BY DEF NotifiedInv, HandshakeInv, client
  <1> QED BY <1>3, <1>4, <1>5

LEMMA HandshakeStep == HandshakeInv /\ [Next]_vars => HandshakeInv'
  <1> SUFFICES ASSUME HandshakeInv, [Next]_vars
               PROVE  StageInv' /\ FirstInv' /\ NotifiedInv'
    BY TypeStep DEF HandshakeInv
  <1>t. TypeInv
    BY DEF HandshakeInv
  <1>s. /\ toServer \in Seq(Requests \cup {Initialized}) /\ toClient \in Seq(Lines)
        /\ log \in Seq(Ids)
    BY <1>t DEF TypeInv, TypeOK
  <1>d. /\ DOMAIN toServer = 1..Len(toServer) /\ Len(toServer) \in Nat
        /\ DOMAIN log = 1..Len(log) /\ Len(log) \in Nat
    BY <1>s
  <1>i. Initialized.id = 0
    BY DEF Initialized
  <1>1. ASSUME NEW c \in Callers, Begin(c)
        PROVE  StageInv' /\ FirstInv' /\ NotifiedInv'
    <2>1. /\ req' = [req EXCEPT ![c] = [method |-> MethodIn[stage], id |-> nextId]]
          /\ pc' = [pc EXCEPT ![c] = "writing"] /\ nextId' = nextId + 1
          /\ UNCHANGED <<stage, toServer, toClient, server>>
          /\ stage \in {"initialize", "list", "open"}
          /\ stage = "initialize" => nextId = 1
      BY <1>1 DEF Begin, MethodIn, HandshakeInv, StageInv
    <2>2. nextId \in Nat
      BY <1>t, StdioAssumption DEF TypeInv, TypeOK
    <2>3. \A d \in Callers : pc'[d] # "idle" => req'[d].id < nextId'
      <3>1. req'[c].id < nextId'
        BY <1>t, <2>1, <2>2 DEF TypeInv, TypeOK
      <3>2. ASSUME NEW d \in Callers, d # c, pc'[d] # "idle"
            PROVE  req'[d].id < nextId'
        <4>1. pc[d] # "idle" /\ req'[d] = req[d] /\ req[d] \in Requests
          BY <1>t, <2>1, <3>2 DEF TypeInv, TypeOK
        <4>2. req[d].id \in Nat /\ req[d].id < nextId
          BY <4>1 DEF HandshakeInv, StageInv, Requests, Ids
        <4> QED BY <2>1, <2>2, <4>1, <4>2
      <3> QED BY <3>1, <3>2
    <2>4. ~AllIdle'
      BY <1>t, <2>1 DEF AllIdle, TypeInv, TypeOK
    <2>5. StageInv'
      BY <2>1, <2>2, <2>3, <2>4 DEF StageInv
    <2>6. FirstInv'
      BY <2>1, <2>2 DEF FirstInv, HandshakeInv, server
    <2>7. NotifiedInv'
      BY <2>1, <2>2 DEF NotifiedInv, HandshakeInv, server
    <2> QED BY <2>5, <2>6, <2>7
  <1>2. ASSUME NEW c \in Callers, Write(c)
        PROVE  StageInv' /\ FirstInv' /\ NotifiedInv'
    <2>0. pc[c] = "writing" /\ UNCHANGED <<stdout, toClient, server>>
      BY <1>2 DEF Write
    <2>1. CASE ~alive
      <3>1. Fail(c) /\ UNCHANGED toServer
        BY <1>2, <2>1 DEF Write
      <3> QED BY <2>0, <3>1, EndKeepsHandshake
    <2>2. CASE alive
      <3>1. /\ toServer' = Append(toServer, req[c]) /\ pc' = [pc EXCEPT ![c] = "written"]
            /\ UNCHANGED <<stage, nextId, req>>
        BY <1>2, <2>2 DEF Write
      <3>2. /\ req[c] \in Requests /\ req[c].id \in Nat \ {0} /\ req[c].id < nextId
            /\ nextId \in Nat
        BY <1>t, <2>0, StdioAssumption DEF TypeInv, TypeOK, HandshakeInv, StageInv, Requests, Ids
      <3>3. /\ DOMAIN toServer' = 1..(Len(toServer) + 1)
            /\ \A i \in 1..Len(toServer) : toServer'[i] = toServer[i]
            /\ toServer'[Len(toServer) + 1] = req[c]
        BY <1>s, <3>1, <3>2, PutFacts
      <3>4. StageInv'
        BY <1>t, <2>0, <3>1 DEF HandshakeInv, StageInv, AllIdle, TypeInv, TypeOK
      <3>5. FirstInv'
        BY <1>d, <2>0, <3>1, <3>2, <3>3 DEF HandshakeInv, FirstInv, server
      <3>6. NotifiedInv'
        <4>1. ASSUME alive' /\ (stage' \in {"list", "open"} \/ nextId' > 2)
              PROVE  ready' \/ \E j \in DOMAIN toServer' : toServer'[j] = Initialized
          BY <1>d, <2>0, <3>1, <3>3, <4>1 DEF HandshakeInv, NotifiedInv, server
        <4>2. ASSUME NEW i \in DOMAIN toServer', toServer'[i].id > 1
              PROVE  ready' \/ \E j \in 1..(i - 1) : toServer'[j] = Initialized
          <5>1. CASE i \in DOMAIN toServer
            BY <1>d, <2>0, <3>3, <4>2, <5>1 DEF HandshakeInv, NotifiedInv, server
          <5>2. CASE i = Len(toServer) + 1
            <6>1. nextId > 2
              BY <3>2, <3>3, <4>2, <5>2
            <6>2. ready \/ \E j \in DOMAIN toServer : toServer[j] = Initialized
              BY <2>2, <6>1 DEF HandshakeInv, NotifiedInv
            <6>3. \A j \in DOMAIN toServer : j \in 1..(i - 1) /\ toServer'[j] = toServer[j]
              BY <1>d, <3>3, <5>2
            <6> QED BY <2>0, <6>2, <6>3 DEF server
          <5> QED BY <1>d, <3>3, <5>1, <5>2
        <4> QED BY <2>0, <4>1, <4>2 DEF HandshakeInv, NotifiedInv, server
      <3> QED BY <3>4, <3>5, <3>6
    <2> QED BY <2>1, <2>2
  <1>3. ASSUME NEW c \in Callers, LockStdout(c)
        PROVE  StageInv' /\ FirstInv' /\ NotifiedInv'
    <2>1. /\ pc[c] = "written" /\ pc' = [pc EXCEPT ![c] = "reading"]
          /\ UNCHANGED <<stage, nextId, req, toServer, toClient, server>>
      BY <1>3 DEF LockStdout
    <2> QED BY <1>t, <2>1 DEF HandshakeInv, StageInv, FirstInv, NotifiedInv, AllIdle, server,
                              TypeInv, TypeOK
  <1>4. ASSUME NEW c \in Callers, Read(c)
        PROVE  StageInv' /\ FirstInv' /\ NotifiedInv'
    <2>0. pc[c] # "idle" /\ UNCHANGED <<toServer, server>>
      BY <1>4 DEF Read
    <2>1. CASE toClient = << >>
      BY <1>4, <2>0, <2>1, EndKeepsHandshake DEF Read
    <2>2. CASE toClient # << >>
      <3>1. toClient' = Tail(toClient)
        BY <1>4, <2>2 DEF Read
      <3>2. /\ Head(toClient) = toClient[1] /\ 1 \in DOMAIN toClient
            /\ \A i \in DOMAIN toClient' :
                 i + 1 \in DOMAIN toClient /\ toClient'[i] = toClient[i + 1]
        BY <1>s, <2>2, <3>1, TakeFacts
      <3>3. CASE UNCHANGED client
        BY <2>0, <3>2, <3>3 DEF HandshakeInv, StageInv, FirstInv, NotifiedInv, AllIdle,
                                server, client
      <3>4. CASE Interpret(c, toClient[1])
        <4>1. Fail(c) \/ (Succeed(c, toClient[1].of) /\ log # << >>)
          BY <3>2, <3>4 DEF Interpret, HandshakeInv, FirstInv, Reply
        <4> QED BY <2>0, <3>2, <4>1, EndKeepsHandshake
      <3> QED BY <1>4, <2>2, <3>2, <3>3, <3>4 DEF Read
    <2> QED BY <2>1, <2>2
  <1>5. CASE Notify
    <2>0. stage = "notify" /\ UNCHANGED <<nextId, pc, req, toClient, server>>
      BY <1>5 DEF Notify
    <2>1. CASE stage' = "closed" /\ UNCHANGED toServer
      BY <1>t, <2>0, <2>1 DEF HandshakeInv, StageInv, FirstInv, NotifiedInv, server,
                              TypeInv, TypeOK
    <2>2. CASE stage' = "list" /\ toServer' = Append(toServer, Initialized)
      <3>3. /\ DOMAIN toServer' = 1..(Len(toServer) + 1)
            /\ \A i \in 1..Len(toServer) : toServer'[i] = toServer[i]
            /\ toServer'[Len(toServer) + 1] = Initialized
        BY <1>s, <2>2, PutFacts
      <3>4. StageInv' /\ FirstInv'
        BY <2>0, <2>2 DEF HandshakeInv, StageInv, FirstInv, server
      <3>5. NotifiedInv'
        <4>1. \E j \in DOMAIN toServer' : toServer'[j] = Initialized
          BY <1>d, <3>3
        <4>2. ASSUME NEW i \in DOMAIN toServer', toServer'[i].id > 1
              PROVE  ready' \/ \E j \in 1..(i - 1) : toServer'[j] = Initialized
          <5>1. i \in 1..Len(toServer) /\ toServer[i].id > 1
            BY <1>d, <1>i, <3>3, <4>2
          <5>2. ready \/ \E j \in 1..(i - 1) : toServer[j] = Initialized
            BY <1>d, <5>1 DEF HandshakeInv, NotifiedInv
          <5>3. \A j \in 1..(i - 1) : toServer'[j] = toServer[j]
            BY <1>d, <3>3, <5>1
          <5> QED BY <2>0, <5>2, <5>3 DEF server
        <4> QED BY <2>0, <4>1, <4>2 DEF HandshakeInv, NotifiedInv, server
      <3> QED BY <3>4, <3>5
    <2> QED BY <1>5, <2>1, <2>2 DEF Notify
  <1>6. CASE Close
    BY <1>6 DEF Close, HandshakeInv, StageInv, FirstInv, NotifiedInv, server
  <1>7. CASE TakeLine
    <2>0. /\ alive /\ UNCHANGED <<client, toClient, alive>>
          /\ toServer # << >> /\ toServer' = Tail(toServer)
      BY <1>7 DEF TakeLine
    <2>1. /\ Head(toServer) = toServer[1] /\ 1 \in DOMAIN toServer
          /\ DOMAIN toServer' = 1..(Len(toServer) - 1)
          /\ \A i \in DOMAIN toServer' : toServer'[i] = toServer[i + 1]
          /\ toServer[1] \in Requests \cup {Initialized}
      BY <1>s, <2>0, TakeFacts
    <2>2. \A i \in DOMAIN toServer' : i + 1 \in DOMAIN toServer
      BY <1>d, <2>1
    <2>3. CASE toServer[1] = Initialized
      <3>1. ready' = TRUE /\ UNCHANGED <<serving, log>>
        BY <1>7, <2>1, <2>3 DEF TakeLine
      <3>2. log # << >>
        BY <1>i, <2>1, <2>3 DEF HandshakeInv, FirstInv
      <3> QED BY <2>0, <3>1, <3>2 DEF HandshakeInv, StageInv, FirstInv, NotifiedInv, client,
                                      AllIdle
    <2>4. CASE toServer[1] # Initialized
      <3> DEFINE first == toServer[1].id
      <3>1. log' = Append(log, first) /\ UNCHANGED ready
        BY <1>7, <2>1, <2>4 DEF TakeLine
      <3>2. first \in Ids
        BY <2>1, <2>4 DEF Requests
      <3>3. first > 1 => ready
        <4>1. 1..(1 - 1) = {}
          OBVIOUS
        <4> QED BY <2>1, <4>1 DEF HandshakeInv, NotifiedInv
      <3>4. log = << >> => first = 1
        BY <2>1 DEF HandshakeInv, FirstInv
      <3>5. /\ DOMAIN log' = 1..(Len(log) + 1)
            /\ \A i \in 1..Len(log) : log'[i] = log[i]
            /\ log'[Len(log) + 1] = first
        <4> HIDE DEF first
        <4> QED BY <1>s, <3>1, <3>2, PutFacts
      <3>6. log' # << >> /\ log'[1] = 1
        <4>1. log' # << >>
          BY <1>d, <3>5
        <4>2. CASE log = << >>
          <5>1. Len(log) = 0
            BY <4>2
          <5> QED BY <3>4, <3>5, <4>1, <4>2, <5>1
        <4>3. CASE log # << >>
          <5>1. 1 \in 1..Len(log)
            BY <1>s, <1>d, <4>3, EmptySeq
          <5> QED BY <3>5, <4>1, <4>3, <5>1 DEF HandshakeInv, FirstInv
        <4> QED BY <4>2, <4>3
      <3>7. ASSUME NEW i \in DOMAIN toServer', toServer'[i].id > 1
            PROVE  ready' \/ \E j \in 1..(i - 1) : toServer'[j] = Initialized
        <4>1. ready \/ \E j \in 1..i : toServer[j] = Initialized
          <5>1. i + 1 \in DOMAIN toServer /\ toServer[i + 1].id > 1 /\ (i + 1) - 1 = i
            BY <1>d, <2>1, <2>2, <3>7
          <5> QED BY <5>1 DEF HandshakeInv, NotifiedInv
        <4>2. ASSUME NEW j \in 1..i, toServer[j] = Initialized
              PROVE  j - 1 \in 1..(i - 1) /\ toServer'[j - 1] = Initialized
          <5>1. j # 1 /\ i \in 1..(Len(toServer) - 1)
            BY <2>1, <2>4, <4>2
          <5>2. j - 1 \in 1..(i - 1) /\ j - 1 \in DOMAIN toServer' /\ (j - 1) + 1 = j
            BY <1>d, <2>1, <5>1
          <5> QED BY <2>1, <4>2, <5>2
        <4> QED BY <3>1, <4>1, <4>2
      <3>8. ASSUME alive' /\ (stage' \in {"list", "open"} \/ nextId' > 2)
            PROVE  ready' \/ \E j \in DOMAIN toServer' : toServer'[j] = Initialized
        <4>1. ready \/ \E j \in DOMAIN toServer : toServer[j] = Initialized
          BY <2>0, <3>8 DEF HandshakeInv, NotifiedInv, client
        <4>2. ASSUME NEW j \in DOMAIN toServer, toServer[j] = Initialized
              PROVE  j - 1 \in DOMAIN toServer' /\ toServer'[j - 1] = Initialized
          <5>1. j # 1
            BY <2>4, <4>2
          <5>2. j - 1 \in DOMAIN toServer' /\ (j - 1) + 1 = j
            BY <1>d, <2>1, <5>1
          <5> QED BY <2>1, <4>2, <5>2
        <4> QED BY <3>1, <4>1, <4>2
      <3>9. \A i \in DOMAIN log' : log'[i] > 1 => ready'
        BY <1>d, <3>1, <3>3, <3>5 DEF HandshakeInv, NotifiedInv
      <3>10. StageInv'
        BY <2>0 DEF HandshakeInv, StageInv, client, AllIdle
      <3> QED BY <3>6, <3>7, <3>8, <3>9, <3>10 DEF FirstInv, NotifiedInv
    <2> QED BY <2>3, <2>4
  <1>8. ASSUME NEW kind \in {"result", "error"}, WriteAnswer(kind)
        PROVE  StageInv' /\ FirstInv' /\ NotifiedInv'
    <2>1. serving # NoRequest /\ log # << >> /\ Line(kind, serving) \in Lines
      BY <1>8, <1>t, LinesAre DEF WriteAnswer, HandshakeInv, FirstInv, TypeInv, TypeOK
    <2> QED BY <1>8, <2>1, EmitKeepsHandshake DEF WriteAnswer
  <1>9. ASSUME NEW kind \in Strays, WriteStray(kind)
        PROVE  StageInv' /\ FirstInv' /\ NotifiedInv'
    <2>1. Line(kind, NoRequest) \in Lines /\ ~Reply(Line(kind, NoRequest))
      BY LinesAre, StdioAssumption DEF Reply, Line, StrayLines
    <2> QED BY <1>9, <2>1, EmitKeepsHandshake DEF WriteStray, server
  <1>10. CASE Exit
    BY <1>10 DEF Exit, client, HandshakeInv, StageInv, FirstInv, NotifiedInv, AllIdle
  <1>11. CASE Crash
    <2>1. Line("partial", NoRequest) \in Lines /\ ~Reply(Line("partial", NoRequest))
      BY LinesAre DEF Reply, Line
    <2> QED BY <1>11, <2>1, EmitKeepsHandshake DEF Crash
  <1>12. CASE UNCHANGED vars
    BY <1>12 DEF vars, client, server, HandshakeInv, StageInv, FirstInv, NotifiedInv, AllIdle
  <1> QED BY <1>1, <1>2, <1>3, <1>4, <1>5, <1>6, <1>7, <1>8, <1>9, <1>10, <1>11, <1>12
          DEF Next, ClientStep, ServerStep, Terminated

\* Whoever shares the client, and whatever the server writes in between, it hears
\* initialize first, and of a later request only after the notification that ends
\* the handshake.
THEOREM StdioHandshakeFirst == Spec => []HandshakeFirst
  <1>1. HandshakeInv => HandshakeFirst
    BY DEF HandshakeInv, FirstInv, NotifiedInv, HandshakeFirst
  <1> QED BY <1>1, HandshakeInit, HandshakeStep, PTL DEF Spec

-----------------------------------------------------------------------------
(* Refinement *)

\* The request with this id has been carried out, as log l has it.
Done(l, id) == \E n \in DOMAIN l : l[n] = id

LEMMA DoneOneMore ==
  ASSUME NEW l \in Seq(Ids), NEW e \in Ids, NEW id
  PROVE  Done(Append(l, e), id) <=> Done(l, id) \/ id = e
  <1>1. /\ DOMAIN l = 1..Len(l) /\ Len(l) \in Nat
        /\ DOMAIN Append(l, e) = 1..(Len(l) + 1)
        /\ \A i \in 1..Len(l) : Append(l, e)[i] = l[i]
        /\ Append(l, e)[Len(l) + 1] = e
    BY PutFacts
  <1> QED BY <1>1 DEF Done

\* The request under way is asked for and has an id of its own; it is carried out
\* when the server takes it, and not before.
RequestInv(c) ==
  /\ \A id \in Ids : id >= nextId => status[id] = "unasked" /\ ~Done(log, id)
  /\ pc[c] # "idle" => req[c].id < nextId /\ status[req[c].id] = "asked"
  /\ pc[c] = "writing" \/ (\E i \in DOMAIN toServer : toServer[i] # Initialized) =>
       ~Done(log, req[c].id)
  /\ serving # NoRequest \/ (\E i \in DOMAIN toClient : Reply(toClient[i])) =>
       Done(log, req[c].id)

RpcInv(c) == AnswerInv(c) /\ RequestInv(c)

LEMMA RpcInit ==
  ASSUME NEW c, Callers = {c}, Init
  PROVE  RpcInv(c)
  <1>1. AnswerInv(c) /\ pc[c] = "idle" /\ serving = NoRequest
        /\ toServer = << >> /\ toClient = << >>
    BY AnswerInit DEF Init
  <1>2. \A id \in Ids : status[id] = "unasked" /\ ~Done(log, id)
    BY DEF Init, Done
  <1> QED BY <1>1, <1>2 DEF RpcInv, RequestInv

\* A request that ends is one that was asked for, and an answered one is done.
LEMMA EndIsRpc ==
  ASSUME NEW c, Callers = {c}, RpcInv(c), pc[c] # "idle",
         Fail(c) \/ (Succeed(c, req[c]) /\ Done(log, req[c].id)), UNCHANGED log
  PROVE  R!Next
  <1> DEFINE id == req[c].id
  <1>1. id \in Ids /\ status[id] = "asked"
    BY DEF RpcInv, RequestInv, AnswerInv, TypeInv, Requests
  <1>2. CASE Fail(c)
    <2>1. R!Fail(id)
      BY <1>1, <1>2 DEF Fail, R!Fail
    <2> QED BY <1>1, <2>1 DEF R!Next
  <1>3. CASE Succeed(c, req[c]) /\ Done(log, req[c].id)
    <2>1. R!Answer(id)
      BY <1>1, <1>3 DEF Succeed, R!Answer, Done
    <2> QED BY <1>1, <2>1 DEF R!Next
  <1> QED BY <1>2, <1>3

\* And it leaves nothing behind that a later one could be taken for.
LEMMA EndKeepsRequest ==
  ASSUME NEW c, Callers = {c}, RpcInv(c), pc[c] # "idle", NEW of,
         Fail(c) \/ Succeed(c, of), UNCHANGED <<serving, log, toServer>>,
         \A i \in DOMAIN toClient' : Reply(toClient'[i]) =>
            \E j \in DOMAIN toClient : Reply(toClient[j])
  PROVE  RequestInv(c)'
  <1>1. /\ pc' = [pc EXCEPT ![c] = "idle"] /\ UNCHANGED <<nextId, req>>
        /\ \E s : status' = [status EXCEPT ![req[c].id] = s]
    BY DEF Fail, Succeed
  <1>2. pc'[c] = "idle"
    BY <1>1 DEF RpcInv, AnswerInv, TypeInv, TypeOK
  <1>3. req[c].id \in Ids /\ nextId \in Nat /\ req[c].id \in Nat /\ req[c].id < nextId
    BY StdioAssumption DEF RpcInv, AnswerInv, TypeInv, TypeOK, RequestInv, Requests, Ids
  <1>4. \A id \in Ids : id >= nextId => status'[id] = status[id]
    BY <1>1, <1>3 DEF RpcInv, AnswerInv, TypeInv, TypeOK, Ids
  <1>5. \A id \in Ids : id >= nextId' => status'[id] = "unasked" /\ ~Done(log', id)
    BY <1>1, <1>4 DEF RpcInv, RequestInv
  <1>6. \/ serving' # NoRequest \/ (\E i \in DOMAIN toClient' : Reply(toClient'[i]))
        => serving # NoRequest \/ (\E i \in DOMAIN toClient : Reply(toClient[i]))
    OBVIOUS
  <1> QED BY <1>1, <1>2, <1>5, <1>6 DEF RpcInv, RequestInv

\* A line that is no reply adds none.
LEMMA NoNewReply ==
  ASSUME TypeInv, NEW line \in Lines, ~Reply(line), Emit(line)
  PROVE  \A i \in DOMAIN toClient' : Reply(toClient'[i]) =>
            \E j \in DOMAIN toClient : Reply(toClient[j])
  <1>1. toClient \in Seq(Lines) /\ Len(toClient) \in Nat /\ DOMAIN toClient = 1..Len(toClient)
    BY DEF TypeInv, TypeOK
  <1>2. CASE toClient' = Append(toClient, line)
    <2>1. /\ DOMAIN toClient' = 1..(Len(toClient) + 1)
          /\ \A i \in 1..Len(toClient) : toClient'[i] = toClient[i]
          /\ toClient'[Len(toClient) + 1] = line
      BY <1>1, <1>2, PutFacts
    <2> QED BY <1>1, <2>1
  <1> QED BY <1>2 DEF Emit

LEMMA RpcStep ==
  ASSUME NEW c, Callers = {c}, Strays \subseteq {"blank"}, RpcInv(c), [Next]_vars
  PROVE  RequestInv(c)' /\ [R!Next]_(R!vars)
  <1>t. TypeInv /\ AnswerInv(c) /\ OneAtATime(c) /\ RequestInv(c) /\ c \in Callers
    BY DEF RpcInv, AnswerInv
  <1>s. /\ toServer \in Seq(Requests \cup {Initialized}) /\ toClient \in Seq(Lines)
        /\ log \in Seq(Ids) /\ nextId \in Nat
        /\ pc \in [Callers -> {"idle", "writing", "written", "reading"}]
        /\ status \in [Ids -> {"unasked", "asked", "answered", "failed"}]
        /\ req \in [Callers -> Requests \cup {NoRequest}]
    BY <1>t, StdioAssumption DEF TypeInv, TypeOK
  <1>r. pc[c] # "idle" => req[c] \in Requests /\ req[c].id \in Ids
    BY <1>t DEF TypeInv, Requests
  <1>q. UNCHANGED <<outcome, log>> => UNCHANGED R!vars
    BY DEF outcome, R!vars
  <1>1. CASE Begin(c)
    <2>1. /\ pc[c] = "idle" /\ nextId \in Ids /\ nextId' = nextId + 1
          /\ req' = [req EXCEPT ![c] = [method |-> MethodIn[stage], id |-> nextId]]
          /\ pc' = [pc EXCEPT ![c] = "writing"]
          /\ status' = [status EXCEPT ![nextId] = "asked"]
          /\ UNCHANGED <<answer, toServer, toClient, serving, log>>
      BY <1>1, <1>t, StdioAssumption DEF Begin, server, TypeInv, TypeOK, Ids
    <2>2. status[nextId] = "unasked" /\ ~Done(log, nextId)
      BY <1>t, <1>s, <2>1 DEF RequestInv
    <2>3. R!Next
      <3>1. R!Ask(nextId)
        BY <2>1, <2>2 DEF R!Ask
      <3> QED BY <2>1, <3>1 DEF R!Next
    <2>4. req'[c].id = nextId /\ pc'[c] = "writing" /\ status'[nextId] = "asked"
      BY <1>t, <1>s, <2>1
    <2>5. \A id \in Ids : id >= nextId' => status'[id] = "unasked" /\ ~Done(log', id)
      <3> SUFFICES ASSUME NEW id \in Ids, id >= nextId + 1
                   PROVE  status'[id] = "unasked" /\ ~Done(log', id)
        BY <2>1
      <3>1. id >= nextId /\ id # nextId
        BY <1>s, StdioAssumption DEF Ids
      <3> QED BY <1>t, <1>s, <2>1, <3>1 DEF RequestInv
    <2>6. serving = NoRequest /\ \A i \in DOMAIN toClient : ~Reply(toClient[i])
      BY <1>t, <2>1 DEF OneAtATime, InFlight
    <2>7. nextId < nextId'
      BY <1>s, <2>1
    <2> QED BY <2>1, <2>2, <2>3, <2>4, <2>5, <2>6, <2>7 DEF RequestInv
  <1>2. CASE Write(c)
    <2>0. pc[c] = "writing" /\ UNCHANGED <<stdout, toClient, serving, log>>
      BY <1>2 DEF Write, server
    <2>1. CASE ~alive
      <3>1. Fail(c) /\ UNCHANGED toServer
        BY <1>2, <2>1 DEF Write
      <3> QED BY <2>0, <3>1, EndIsRpc, EndKeepsRequest
    <2>2. CASE alive
      <3>1. /\ pc' = [pc EXCEPT ![c] = "written"] /\ UNCHANGED <<nextId, req, outcome>>
        BY <1>2, <2>2 DEF Write
      <3>2. ~Done(log, req[c].id) /\ pc'[c] = "written"
        BY <1>t, <1>s, <2>0, <3>1 DEF RequestInv
      <3> QED BY <1>t, <1>q, <2>0, <3>1, <3>2 DEF RequestInv, outcome
    <2> QED BY <2>1, <2>2
  <1>3. CASE LockStdout(c)
    <2>1. /\ pc[c] = "written" /\ pc' = [pc EXCEPT ![c] = "reading"]
          /\ UNCHANGED <<nextId, req, outcome, toServer, toClient, serving, log>>
      BY <1>3 DEF LockStdout, server
    <2>2. pc'[c] = "reading"
      BY <1>t, <1>s, <2>1
    <2> QED BY <1>t, <1>q, <2>1, <2>2 DEF RequestInv, outcome
  <1>4. CASE Read(c)
    <2>0. pc[c] = "reading" /\ UNCHANGED <<toServer, serving, log>>
      BY <1>4 DEF Read, server
    <2>1. CASE toClient = << >>
      <3>1. Fail(c) /\ UNCHANGED toClient
        BY <1>4, <2>1 DEF Read
      <3> QED BY <2>0, <3>1, EndIsRpc, EndKeepsRequest
    <2>2. CASE toClient # << >>
      <3>1. toClient' = Tail(toClient)
        BY <1>4, <2>2 DEF Read
      <3>2. /\ Head(toClient) = toClient[1] /\ 1 \in DOMAIN toClient
            /\ \A i \in DOMAIN toClient' :
                 i + 1 \in DOMAIN toClient /\ toClient'[i] = toClient[i + 1]
        BY <1>s, <2>2, <3>1, TakeFacts
      <3>3. \A i \in DOMAIN toClient' : Reply(toClient'[i]) =>
              \E j \in DOMAIN toClient : Reply(toClient[j])
        BY <3>2
      <3>4. CASE UNCHANGED <<client, outcome>>
        BY <1>t, <1>q, <2>0, <3>3, <3>4 DEF RequestInv, client, outcome
      <3>5. CASE Fail(c)
        BY <2>0, <3>3, <3>5, EndIsRpc, EndKeepsRequest
      <3>6. CASE Succeed(c, toClient[1].of) /\ toClient[1].kind = "result"
        <4>1. Reply(toClient[1])
          BY <3>6 DEF Reply
        <4>2. toClient[1].of = req[c] /\ Done(log, req[c].id)
          BY <1>t, <3>2, <4>1 DEF OneAtATime, RequestInv
        <4>3. Succeed(c, req[c])
          BY <3>6, <4>2
        <4> QED BY <2>0, <3>3, <4>2, <4>3, EndIsRpc, EndKeepsRequest
      <3> QED BY <1>4, <2>2, <3>2, <3>4, <3>5, <3>6 DEF Read, Interpret
    <2> QED BY <2>1, <2>2
  <1>5. CASE Notify
    <2>0. UNCHANGED <<nextId, pc, req, outcome, toClient, serving, log>>
      BY <1>5 DEF Notify, server
    <2>1. \A i \in DOMAIN toServer' : toServer'[i] # Initialized =>
             \E j \in DOMAIN toServer : toServer[j] # Initialized
      <3>1. CASE toServer' = Append(toServer, Initialized)
        <4>1. /\ DOMAIN toServer' = 1..(Len(toServer) + 1)
              /\ \A i \in 1..Len(toServer) : toServer'[i] = toServer[i]
              /\ toServer'[Len(toServer) + 1] = Initialized
              /\ DOMAIN toServer = 1..Len(toServer) /\ Len(toServer) \in Nat
          BY <1>s, <3>1, PutFacts
        <4> QED BY <4>1
      <3> QED BY <1>5, <3>1 DEF Notify
    <2> QED BY <1>t, <1>q, <2>0, <2>1 DEF RequestInv, outcome
  <1>6. CASE Close \/ Exit \/ UNCHANGED vars
    <2>1. UNCHANGED <<nextId, pc, req, outcome, toServer, toClient, serving, log>>
      BY <1>6 DEF Close, Exit, vars, client, server
    <2> QED BY <1>t, <1>q, <2>1 DEF RequestInv, outcome
  <1>7. CASE TakeLine
    <2>0. /\ UNCHANGED <<nextId, pc, req, outcome, toClient>>
          /\ serving = NoRequest /\ toServer # << >> /\ toServer' = Tail(toServer)
      BY <1>7 DEF TakeLine, client
    <2>1. /\ Head(toServer) = toServer[1] /\ 1 \in DOMAIN toServer
          /\ \A i \in DOMAIN toServer' :
               i + 1 \in DOMAIN toServer /\ i + 1 # 1 /\ toServer'[i] = toServer[i + 1]
      BY <1>s, <2>0, TakeFacts
    <2>2. CASE toServer[1] = Initialized
      <3>1. UNCHANGED <<serving, log>>
        BY <1>7, <2>1, <2>2 DEF TakeLine
      <3> QED BY <1>t, <1>q, <2>0, <2>1, <3>1 DEF RequestInv, outcome
    <2>3. CASE toServer[1] # Initialized
      <3>1. /\ toServer[1] = req[c] /\ InFlight(c)
            /\ \A i \in DOMAIN toServer' : toServer'[i] = Initialized
        BY <1>t, <2>1, <2>3 DEF OneAtATime
      <3>2. log' = Append(log, req[c].id)
        BY <1>7, <2>1, <2>3, <3>1 DEF TakeLine
      <3>3. /\ pc[c] \notin {"idle", "writing"} /\ req[c].id \in Ids
            /\ status[req[c].id] = "asked" /\ ~Done(log, req[c].id)
            /\ req[c].id < nextId
        BY <1>t, <1>r, <2>1, <2>3, <3>1 DEF InFlight, RequestInv
      <3>4. R!Next
        <4>1. R!Execute(req[c].id)
          BY <2>0, <3>2, <3>3 DEF R!Execute, Done, outcome
        <4> QED BY <3>3, <4>1 DEF R!Next
      <3>5. \A id : Done(log', id) <=> Done(log, id) \/ id = req[c].id
        <4> DEFINE e == req[c].id
        <4>1. e \in Ids /\ log' = Append(log, e)
          BY <3>2, <3>3
        <4> HIDE DEF e
        <4>2. \A id : Done(log', id) <=> Done(log, id) \/ id = e
          BY <1>s, <4>1, DoneOneMore
        <4> QED BY <4>2 DEF e
      <3>6. \A id \in Ids : id >= nextId => id # req[c].id
        BY <1>s, <3>3, StdioAssumption DEF Ids
      <3>7. \A id \in Ids : id >= nextId' => status'[id] = "unasked" /\ ~Done(log', id)
        BY <1>t, <2>0, <3>5, <3>6 DEF RequestInv, outcome
      <3> QED BY <2>0, <3>1, <3>3, <3>4, <3>5, <3>7 DEF RequestInv, outcome
    <2> QED BY <2>2, <2>3
  <1>8. ASSUME NEW kind \in {"result", "error"}, WriteAnswer(kind)
        PROVE  RequestInv(c)' /\ UNCHANGED R!vars
    <2>1. /\ serving # NoRequest /\ serving' = NoRequest
          /\ UNCHANGED <<nextId, pc, req, outcome, toServer, log>>
      BY <1>8 DEF WriteAnswer, client
    <2>2. Done(log, req[c].id)
      BY <1>t, <2>1 DEF RequestInv
    <2> QED BY <1>t, <1>q, <2>1, <2>2 DEF RequestInv, outcome
  <1>9. ASSUME NEW kind \in Strays, WriteStray(kind)
        PROVE  RequestInv(c)' /\ UNCHANGED R!vars
    <2>1. Line(kind, NoRequest) \in Lines /\ ~Reply(Line(kind, NoRequest))
      BY LinesAre, StdioAssumption DEF Reply, Line, StrayLines
    <2>2. UNCHANGED <<nextId, pc, req, outcome, toServer, serving, log>>
      BY <1>9 DEF WriteStray, client, server
    <2>3. \A i \in DOMAIN toClient' : Reply(toClient'[i]) =>
            \E j \in DOMAIN toClient : Reply(toClient[j])
      BY <1>9, <1>t, <2>1, NoNewReply DEF WriteStray
    <2> QED BY <1>t, <1>q, <2>2, <2>3 DEF RequestInv, outcome
  <1>10. CASE Crash
    <2>1. Line("partial", NoRequest) \in Lines /\ ~Reply(Line("partial", NoRequest))
      BY LinesAre DEF Reply, Line
    <2>2. /\ UNCHANGED <<nextId, pc, req, outcome, log>>
          /\ serving' = NoRequest /\ toServer' = << >>
      BY <1>10 DEF Crash, client
    <2>3. \A i \in DOMAIN toClient' : Reply(toClient'[i]) =>
            \E j \in DOMAIN toClient : Reply(toClient[j])
      BY <1>10, <1>t, <2>1, NoNewReply DEF Crash
    <2> QED BY <1>t, <1>q, <2>2, <2>3 DEF RequestInv, outcome
  <1> QED BY <1>1, <1>2, <1>3, <1>4, <1>5, <1>6, <1>7, <1>8, <1>9, <1>10
          DEF Next, ClientStep, ServerStep, Terminated

\* For a single caller of a server that writes nothing unasked but blank lines the
\* transport is Rpc: each request is carried out at most once, and ends with its own
\* answer or with a failure, although only its place in the pipe tells whose answer
\* a line is.
THEOREM StdioImplementsRpc ==
  ASSUME NEW c, Callers = {c}, Strays \subseteq {"blank"}
  PROVE  Spec => KeepsRpc
  <1>1. Init => RpcInv(c) /\ R!Init
    BY RpcInit DEF Init, R!Init, R!NoAnswer
  <1>2. RpcInv(c) /\ [Next]_vars => RpcInv(c)' /\ [R!Next]_(R!vars)
    BY AnswerStep, RpcStep DEF RpcInv
  <1> QED BY <1>1, <1>2, PTL DEF Spec, R!Spec, KeepsRpc
==============================================================================
