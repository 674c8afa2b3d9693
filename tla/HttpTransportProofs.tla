------------------------- MODULE HttpTransportProofs -------------------------
(***************************************************************************)
(* Theorems about HttpTransport for every number of requests and restarts, *)
(* with and without session ids and event streams, with and without a      *)
(* deadline.                                                               *)
(***************************************************************************)
EXTENDS HttpTransport, SequenceTheorems, TLAPS

\* What the log looks like after a request was carried out.
LEMMA LogFacts ==
  ASSUME NEW S, NEW s \in Seq(S), NEW e \in S
  PROVE  /\ Append(s, e) \in Seq(S)
         /\ Len(s) \in Nat /\ DOMAIN s = 1..Len(s)
         /\ DOMAIN Append(s, e) = 1..(Len(s) + 1)
         /\ \A i \in 1..Len(s) : Append(s, e)[i] = s[i] /\ s[i] \in S
         /\ Append(s, e)[Len(s) + 1] = e
  OBVIOUS
-----------------------------------------------------------------------------
(* Types *)

LEMMA TypeInit == Init => TypeOK
  BY HttpAssumption, EmptySeq
     DEF Init, TypeOK, Ids, SessionIds, NoSession, Kinds

LEMMA NothingIsNoMessage ==
  Nothing \notin Messages /\ NoResponse \notin Responses /\ Nothing.id = Notified
  BY DEF Nothing, Messages, Methods, NoResponse, Responses, Kinds, Notified

\* What is posted is a message, and the client waits for its response.
LEMMA PostFacts ==
  ASSUME TypeOK, stage \in DOMAIN MethodIn, NEW id \in Ids \cup {Notified},
         id = Notified <=> stage = "notify", Post(id)
  PROVE  /\ waiting' = [id |-> id, method |-> MethodIn[stage], session |-> session]
         /\ waiting' \in Messages /\ waiting' # Nothing
         /\ wire' = wire \cup {waiting'} /\ wire' \subseteq Messages
  <1> DEFINE m == [id |-> id, method |-> MethodIn[stage], session |-> session]
  <1>1. MethodIn[stage] \in Methods
        /\ (MethodIn[stage] = "notifications/initialized" <=> stage = "notify")
    BY DEF MethodIn, Methods
  <1>2. m \in Messages
    BY <1>1 DEF TypeOK, Messages
  <1>3. waiting' = m /\ wire' = wire \cup {m}
    BY DEF Post
  <1> HIDE DEF m
  <1>4. waiting' \in Messages /\ wire' = wire \cup {waiting'} /\ wire' \subseteq Messages
    BY <1>2, <1>3 DEF TypeOK
  <1> QED BY <1>3, <1>4, NothingIsNoMessage DEF m

\* The two ways a call returns: its request, if it was one, is answered or fails.
LEMMA EndFacts ==
  ASSUME TypeOK, NEW of, Fail \/ Succeed(of)
  PROVE  /\ waiting' = Nothing /\ UNCHANGED <<deadline, nextId>>
         /\ status' \in [Ids -> {"unasked", "asked", "answered", "failed"}]
         /\ \A id \in Ids : id # waiting.id => status'[id] = status[id]
         /\ waiting.id \in Ids => status'[waiting.id] \in {"answered", "failed"}
         /\ stage' \in {"notify", "list", "open", "closed"}
         /\ of \in Ids \cup {0} => answer' \in [Ids -> 0..MaxRequests]
  <1>1. CASE Fail
    BY <1>1, HttpAssumption DEF Fail, TypeOK, Ids
  <1>2. CASE Succeed(of)
    <2>1. of \in Ids \cup {0} => of \in 0..MaxRequests
      BY HttpAssumption DEF Ids
    <2> QED BY <1>2, <2>1, HttpAssumption DEF Succeed, TypeOK, Ids
  <1> QED BY <1>1, <1>2

\* What arrives is taken note of, in whole or, when the client gives up, in part.
LEMMA ReturnFacts ==
  ASSUME TypeOK, Receive \/ GiveUp
  PROVE  /\ response' = NoResponse
         /\ UNCHANGED <<wire, server>>
         /\ \/ session' = session
            \/ /\ waiting.id # Notified /\ response # NoResponse
               /\ session' = response.session /\ response.session # NoSession
         /\ \/ Fail
            \/ /\ Receive /\ Succeed(response.of)
               /\ response.kind = IF stage = "notify" THEN "accepted" ELSE "result"
         /\ heard' \in [Ids -> Kinds \cup {"none"}]
  <1>1. CASE Receive
    <2>1. response \in Responses /\ Remember /\ response # NoResponse
      BY <1>1 DEF Receive, TypeOK
    <2>2. response.kind \in Kinds
      BY <2>1 DEF Responses
    <2>3. heard' \in [Ids -> Kinds \cup {"none"}]
      BY <1>1, <2>2 DEF Receive, TypeOK
    <2>4. \/ session' = session
          \/ /\ waiting.id # Notified /\ response # NoResponse
             /\ session' = response.session /\ response.session # NoSession
      BY <2>1 DEF Remember
    <2> QED BY <1>1, <2>3, <2>4 DEF Receive
  <1>2. CASE GiveUp
    <2>1. \/ session' = session
          \/ /\ waiting.id # Notified /\ response # NoResponse
             /\ session' = response.session /\ response.session # NoSession
      BY <1>2 DEF GiveUp, Remember
    <2> QED BY <1>2, <2>1 DEF GiveUp, TypeOK
  <1> QED BY <1>1, <1>2

\* The server is done with a message: it has carried it out or refused it.
LEMMA RespondFacts ==
  ASSUME TypeOK, (\E kind \in Kinds : Serve(kind)) \/ Refuse
  PROVE  /\ serving \in Messages /\ serving # Nothing /\ serving' = Nothing
         /\ UNCHANGED <<deadline, client, outcome, wire, restarts>>
         /\ response' \in Responses \cup {NoResponse}
         /\ response' # response =>
              serving = waiting /\ response' \in Responses /\ response'.of = serving.id
         /\ opened' \in SessionIds
         /\ \/ log' = log
            \/ serving.id # Notified /\ serving.id \in Ids /\ log' = Append(log, serving.id)
         /\ log' \in Seq(Ids)
  <1>0. /\ restarts + 1 \in SessionIds /\ NoSession \in SessionIds
        /\ log \in Seq(Ids) /\ opened \in SessionIds
        /\ response \in Responses \cup {NoResponse}
    BY HttpAssumption DEF TypeOK, SessionIds, NoSession
  <1>1. ASSUME NEW kind \in Kinds, NEW given \in SessionIds, Respond(kind, given),
               serving \in Messages
        PROVE  /\ serving' = Nothing
               /\ UNCHANGED <<deadline, client, outcome, wire, restarts>>
               /\ response' \in Responses \cup {NoResponse}
               /\ response' # response =>
                    serving = waiting /\ response' \in Responses /\ response'.of = serving.id
    <2>1. serving.id \in Ids \cup {Notified}
      BY <1>1 DEF Messages
    <2> DEFINE r == [of |-> serving.id, kind |-> kind, session |-> given]
    <2>2. r \in Responses /\ r.of = serving.id
      BY <2>1 DEF Responses
    <2>3. response' = IF serving = waiting THEN r ELSE response
      BY <1>1 DEF Respond
    <2> HIDE DEF r
    <2>4. response' \in Responses \cup {NoResponse}
      BY <1>0, <2>2, <2>3
    <2> QED BY <1>1, <2>2, <2>3, <2>4 DEF Respond
  <1>2. ASSUME NEW kind \in Kinds, Serve(kind)
        PROVE  /\ serving \in Messages /\ serving # Nothing
               /\ \E given \in SessionIds : Respond(kind, given)
               /\ opened' \in SessionIds
               /\ \/ log' = log
                  \/ serving.id # Notified /\ serving.id \in Ids
                     /\ log' = Append(log, serving.id)
               /\ log' \in Seq(Ids)
    <2>1. serving \in Messages /\ serving # Nothing
      BY <1>2 DEF Serve, TypeOK
    <2>2. serving.id \in Ids \cup {Notified}
      BY <2>1 DEF Messages
    <2>3. \/ log' = log
          \/ serving.id # Notified /\ serving.id \in Ids /\ log' = Append(log, serving.id)
      BY <1>2, <2>2 DEF Serve
    <2>4. log' \in Seq(Ids)
      BY <1>0, <2>3, LogFacts
    <2>5. opened' \in SessionIds /\ \E given \in SessionIds : Respond(kind, given)
      BY <1>0, <1>2 DEF Serve
    <2> QED BY <2>1, <2>3, <2>4, <2>5
  <1>3. ASSUME Refuse
        PROVE  /\ serving \in Messages /\ serving # Nothing
               /\ \E kind \in {"refused", "nosession"} : Respond(kind, NoSession)
               /\ UNCHANGED <<opened, log>>
    BY <1>3 DEF Refuse, TypeOK
  <1>4. {"refused", "nosession"} \subseteq Kinds
    BY DEF Kinds
  <1>5. CASE \E kind \in Kinds : Serve(kind)
    BY <1>1, <1>2, <1>5
  <1>6. CASE Refuse
    BY <1>0, <1>1, <1>3, <1>4, <1>6
  <1> QED BY <1>5, <1>6

LEMMA TypeStep == TypeOK /\ [Next]_vars => TypeOK'
  <1> SUFFICES ASSUME TypeOK, [Next]_vars
               PROVE  TypeOK'
    OBVIOUS
  <1>1. CASE Request
    <2>1. nextId \in Ids /\ nextId' \in 1..(MaxRequests + 1) /\ nextId # Notified
      BY <1>1, HttpAssumption DEF Request, TypeOK, Ids, Notified
    <2>2. stage \in DOMAIN MethodIn /\ stage # "notify" /\ Post(nextId)
      BY <1>1 DEF Request
    <2>3. waiting' \in Messages /\ wire' \subseteq Messages
      BY <2>1, <2>2, PostFacts
    <2> QED BY <1>1, <2>1, <2>3 DEF Request, TypeOK, server
  <1>2. CASE Notify
    <2>1. stage \in DOMAIN MethodIn /\ stage = "notify" /\ Post(Notified)
      BY <1>2 DEF Notify, NotificationId, MethodIn
    <2>2. waiting' \in Messages /\ wire' \subseteq Messages
      BY <2>1, PostFacts
    <2> QED BY <1>2, <2>2 DEF Notify, TypeOK, server, outcome
  <1>3. CASE Receive \/ GiveUp
    <2>0. NoSession \in SessionIds
      BY HttpAssumption DEF NoSession, SessionIds
    <2>1. response.session \in SessionIds /\ response.of \in Ids \cup {0}
      BY <2>0 DEF TypeOK, Responses, NoResponse, Notified
    <2>2. session' \in SessionIds
      BY <1>3, <2>1, ReturnFacts DEF TypeOK
    <2>3. Fail \/ Succeed(response.of)
      BY <1>3, ReturnFacts
    <2> QED BY <1>3, <2>1, <2>2, <2>3, ReturnFacts, EndFacts DEF TypeOK, server
  <1>4. CASE Close
    BY <1>4 DEF Close, TypeOK, server, outcome
  <1>5. ASSUME NEW message \in wire, Take(message)
        PROVE  TypeOK'
    BY <1>5 DEF Take, TypeOK, client, outcome
  <1>6. CASE (\E kind \in Kinds : Serve(kind)) \/ Refuse
    <2> QED BY <1>6, RespondFacts DEF TypeOK, client, outcome
  <1>7. CASE Restart
    BY <1>7, HttpAssumption DEF Restart, TypeOK, client, outcome, NoSession, SessionIds
  <1>8. CASE UNCHANGED vars
    BY <1>8 DEF vars, client, outcome, server, TypeOK
  <1> QED BY <1>1, <1>2, <1>3, <1>4, <1>5, <1>6, <1>7, <1>8 DEF Next, ServerStep, Terminated

\* The state variables keep their types: ids stay below next_id, every message
\* and every response is one the other side knows.
THEOREM HttpTypeCorrect == Spec => []TypeOK
  BY TypeInit, TypeStep, PTL DEF Spec
-----------------------------------------------------------------------------
(* The inductive invariant *)

\* Messages the server has yet to respond to.
InFlight == (wire \cup {serving}) \ {Nothing}

Carried(id) == \E n \in DOMAIN log : log[n] = id

\* The client waits for the response to what it posted last, and a response
\* under way is the response to that.
WaitingInv ==
  /\ waiting # Nothing =>
       /\ stage \in DOMAIN MethodIn /\ waiting.method = MethodIn[stage]
       /\ waiting.id # Notified =>
            waiting.id = nextId - 1 /\ status[waiting.id] = "asked"
  /\ response # NoResponse => waiting # Nothing /\ response.of = waiting.id

\* Ids are given out in order; a message under way belongs to a request that was
\* given up or is waited for, and is not carried out yet.
FlightInv ==
  /\ \A id \in Ids : status[id] = "unasked" <=> id >= nextId
  /\ serving.id # Notified => serving \notin wire
  /\ response # NoResponse /\ waiting.id # Notified => waiting \notin InFlight
  /\ \A m \in InFlight : m.id # Notified =>
       /\ m = waiting \/ status[m.id] = "failed"
       /\ ~Carried(m.id)
       /\ \A n \in InFlight : n.id = m.id => n = m

\* No request is carried out twice, or before it was sent, or late unless it was
\* given up.
LogInv ==
  /\ \A i, j \in DOMAIN log : log[i] = log[j] => i = j
  /\ \A i \in DOMAIN log : log[i] < nextId
  /\ OnlyAbandonedLate

\* What the client hears of a request that it was carried out is true.
HeardInv ==
  response # NoResponse /\ response.kind \notin {"refused", "nosession"} =>
    IF response.of = Notified THEN response.kind = "accepted"
    ELSE response.kind # "accepted" /\ Carried(response.of)

HttpInv == TypeOK /\ WaitingInv /\ FlightInv /\ LogInv /\ HeardInv

\* A server that was not started anew opened session 1 if any, and every message
\* behind initialize carries it.
OneSession ==
  /\ stage \in {"notify", "list", "open"} => session = 1 /\ opened = 1
  /\ \A m \in InFlight : m.method # "initialize" => m.session = 1 /\ opened = 1
  /\ response.session \in {NoSession, 1}
  /\ stage = "initialize" /\ response.kind = "result" =>
       response.session = 1 /\ opened = 1

SessionInv == NeverRefused /\ (Sessions /\ restarts = 0 => OneSession)

LEMMA HttpInit == Init => HttpInv
  <1> SUFFICES ASSUME Init
               PROVE  HttpInv
    OBVIOUS
  <1>1. TypeOK /\ InFlight = {} /\ DOMAIN log = {} /\ serving = Nothing
    BY TypeInit, EmptySeq DEF Init, InFlight
  <1>2. WaitingInv /\ HeardInv
    BY DEF Init, WaitingInv, HeardInv
  <1>3. FlightInv
    BY <1>1 DEF Init, FlightInv, Nothing, Notified, Ids
  <1>4. LogInv
    BY <1>1 DEF LogInv, OnlyAbandonedLate
  <1> QED BY <1>1, <1>2, <1>3, <1>4 DEF HttpInv

\* Nothing that is under way has an id that is yet to be given out.
LEMMA FlightFacts ==
  ASSUME HttpInv
  PROVE  /\ InFlight \subseteq Messages
         /\ \A m \in InFlight : m.id # Notified =>
              m.id \in Ids /\ m.id < nextId /\ status[m.id] \in {"asked", "failed"}
         /\ \A i \in DOMAIN log : log[i] \in Ids
         /\ waiting # Nothing => waiting \in Messages
         /\ nextId \in Nat /\ Ids \subseteq Nat \ {0}
  <1>1. InFlight \subseteq Messages
    BY DEF InFlight, HttpInv, TypeOK
  <1>2. nextId \in Nat /\ Ids \subseteq Nat \ {0}
    BY HttpAssumption DEF HttpInv, TypeOK, Ids
  <1>3. ASSUME NEW m \in InFlight, m.id # Notified
        PROVE  m.id \in Ids /\ m.id < nextId /\ status[m.id] \in {"asked", "failed"}
    <2>1. m \in Messages /\ m # Nothing
      BY <1>1 DEF InFlight
    <2>2. m.id \in Ids
      BY <1>3, <2>1 DEF Messages
    <2>3. status[m.id] \in {"asked", "failed"}
      BY <1>3, <2>1 DEF HttpInv, FlightInv, WaitingInv
    <2>4. ~(m.id >= nextId) /\ m.id \in Nat
      BY <1>2, <2>2, <2>3 DEF HttpInv, FlightInv
    <2> QED BY <1>2, <2>2, <2>3, <2>4
  <1>4. \A i \in DOMAIN log : log[i] \in Ids
    BY ElementOfSeq, LenProperties DEF HttpInv, TypeOK
  <1> QED BY <1>1, <1>2, <1>3, <1>4 DEF HttpInv, TypeOK

\* A request is sent under a new id.
LEMMA RequestKeeps == HttpInv /\ Request => WaitingInv' /\ FlightInv' /\ LogInv' /\ HeardInv'
  <1> SUFFICES ASSUME HttpInv, Request
               PROVE  WaitingInv' /\ FlightInv' /\ LogInv' /\ HeardInv'
    OBVIOUS
  <1> DEFINE m == waiting'
  <1>1. /\ nextId \in Ids /\ nextId # Notified /\ nextId' = nextId + 1
        /\ stage \in DOMAIN MethodIn /\ stage # "notify" /\ Post(nextId)
        /\ waiting = Nothing
        /\ status' = [status EXCEPT ![nextId] = "asked"]
        /\ UNCHANGED <<stage, response, serving, log>> /\ response = NoResponse
    BY HttpAssumption DEF Request, HttpInv, TypeOK, Ids, Notified, Free, server, WaitingInv
  <1>2. /\ m = [id |-> nextId, method |-> MethodIn[stage], session |-> session]
        /\ m \in Messages /\ m # Nothing /\ wire' = wire \cup {m}
    BY <1>1, PostFacts DEF HttpInv
  <1>3. m.id = nextId /\ m.method = MethodIn[stage]
    BY <1>2
  <1> HIDE DEF m
  <1>4. InFlight' = InFlight \cup {m}
    BY <1>1, <1>2 DEF InFlight
  <1>5. \A id \in Ids : id # nextId => status'[id] = status[id]
    BY <1>1 DEF HttpInv, TypeOK
  <1>6. status'[nextId] = "asked" /\ status[nextId] = "unasked" /\ nextId \in Nat
    BY <1>1, FlightFacts DEF HttpInv, TypeOK, FlightInv
  <1>7. WaitingInv' /\ HeardInv'
    BY <1>1, <1>3, <1>6 DEF m, HttpInv, WaitingInv, HeardInv
  <1>8. \A k \in InFlight : k.id # Notified =>
          k.id \in Ids /\ k.id < nextId /\ k # waiting /\ status[k.id] = "failed"
    BY <1>1, FlightFacts DEF HttpInv, FlightInv, InFlight
  <1>9. FlightInv'
    <2>1. \A id \in Ids : status'[id] = "unasked" <=> id >= nextId'
      <3> SUFFICES ASSUME NEW id \in Ids
                   PROVE  status'[id] = "unasked" <=> id >= nextId'
        OBVIOUS
      <3>1. id \in Nat /\ nextId \in Nat /\ (status[id] = "unasked" <=> id >= nextId)
        BY FlightFacts DEF HttpInv, FlightInv
      <3> QED BY <1>1, <1>5, <1>6, <3>1
    <2>2. (serving.id # Notified => serving \notin wire)'
      <3> SUFFICES ASSUME serving.id # Notified
                   PROVE  serving \notin wire'
        BY <1>1
      <3>1. serving \in InFlight /\ serving \notin wire
        BY NothingIsNoMessage DEF InFlight, HttpInv, FlightInv
      <3>2. serving # m
        BY <1>3, <1>6, <1>8, <3>1
      <3> QED BY <1>2, <3>1, <3>2
    <2>3. ASSUME NEW k \in InFlight', k.id # Notified
          PROVE  /\ k = m \/ status'[k.id] = "failed"
                 /\ ~Carried(k.id)
                 /\ \A n \in InFlight' : n.id = k.id => n = k
      <3>1. ~Carried(nextId)
        BY <1>6 DEF Carried, HttpInv, LogInv
      <3>2. CASE k = m
        BY <1>3, <1>4, <1>6, <1>8, <3>1, <3>2, <2>3
      <3>3. CASE k \in InFlight
        BY <1>3, <1>4, <1>5, <1>6, <1>8, <3>3, <2>3 DEF HttpInv, FlightInv
      <3> QED BY <1>4, <3>2, <3>3
    <2> QED BY <1>1, <2>1, <2>2, <2>3 DEF FlightInv, m, Carried
  <1>10. LogInv'
    <2>1. \A i \in DOMAIN log : log[i] \in Ids /\ log[i] < nextId
      BY FlightFacts DEF HttpInv, LogInv
    <2>2. ASSUME NEW i \in DOMAIN log
          PROVE  log[i] < nextId'
      <3>1. log[i] \in Nat /\ log[i] < nextId
        BY <2>1, FlightFacts
      <3> QED BY <1>1, <1>6, <3>1
    <2>3. \A i \in DOMAIN log : status'[log[i]] = status[log[i]]
      BY <1>5, <1>6, <2>1, FlightFacts
    <2> QED BY <1>1, <2>2, <2>3 DEF HttpInv, LogInv, OnlyAbandonedLate
  <1> QED BY <1>7, <1>9, <1>10

\* The notification is under way besides requests that were given up.
LEMMA NotifyKeeps == HttpInv /\ Notify => WaitingInv' /\ FlightInv' /\ LogInv' /\ HeardInv'
  <1> SUFFICES ASSUME HttpInv, Notify
               PROVE  WaitingInv' /\ FlightInv' /\ LogInv' /\ HeardInv'
    OBVIOUS
  <1> DEFINE m == waiting'
  <1>1. /\ stage \in DOMAIN MethodIn /\ stage = "notify" /\ Post(Notified)
        /\ waiting = Nothing
        /\ UNCHANGED <<nextId, status, stage, response, serving, log>>
        /\ response = NoResponse
    BY DEF Notify, NotificationId, MethodIn, Free, server, outcome, HttpInv, WaitingInv
  <1>2. /\ m = [id |-> Notified, method |-> MethodIn[stage], session |-> session]
        /\ m \in Messages /\ m # Nothing /\ wire' = wire \cup {m}
    BY <1>1, PostFacts DEF HttpInv
  <1>3. m.id = Notified /\ m.method = MethodIn[stage]
    BY <1>2
  <1> HIDE DEF m
  <1>4. InFlight' = InFlight \cup {m}
    BY <1>1, <1>2 DEF InFlight
  <1>5. WaitingInv' /\ HeardInv'
    BY <1>1, <1>3 DEF m, HttpInv, WaitingInv, HeardInv
  <1>6. \A k \in InFlight : k # waiting
    BY <1>1 DEF InFlight
  <1>7. (serving.id # Notified => serving \notin wire)'
    BY <1>1, <1>2, <1>3 DEF HttpInv, FlightInv
  <1>8. ASSUME NEW k \in InFlight', k.id # Notified
        PROVE  /\ k = m \/ status'[k.id] = "failed"
               /\ ~Carried(k.id)
               /\ \A n \in InFlight' : n.id = k.id => n = k
    BY <1>1, <1>3, <1>4, <1>6, <1>8 DEF HttpInv, FlightInv
  <1>9. FlightInv'
    BY <1>1, <1>7, <1>8 DEF HttpInv, FlightInv, m, Carried
  <1>10. LogInv'
    BY <1>1 DEF HttpInv, LogInv, OnlyAbandonedLate
  <1> QED BY <1>5, <1>9, <1>10

\* What is given up may still be carried out; what was given up before stays so.
LEMMA ReturnKeeps ==
  HttpInv /\ (Receive \/ GiveUp) => WaitingInv' /\ FlightInv' /\ LogInv' /\ HeardInv'
  <1> SUFFICES ASSUME HttpInv, Receive \/ GiveUp
               PROVE  WaitingInv' /\ FlightInv' /\ LogInv' /\ HeardInv'
    OBVIOUS
  <1>0. /\ waiting # Nothing
        /\ waiting.id # Notified => status[waiting.id] = "asked"
    BY DEF Receive, GiveUp, HttpInv, WaitingInv
  <1>1. /\ response' = NoResponse /\ waiting' = Nothing
        /\ UNCHANGED <<nextId, wire, serving, log>>
        /\ \A id \in Ids : id # waiting.id => status'[id] = status[id]
        /\ waiting.id \in Ids => status'[waiting.id] \in {"answered", "failed"}
    BY ReturnFacts, EndFacts DEF HttpInv, server
  <1>2. WaitingInv' /\ HeardInv'
    BY <1>1 DEF WaitingInv, HeardInv
  <1>3. waiting.id \notin Ids => waiting.id = Notified
    BY <1>0 DEF HttpInv, TypeOK, Messages
  <1>4. \A id \in Ids : /\ status[id] = "failed" => status'[id] = "failed"
                        /\ status'[id] = "unasked" <=> status[id] = "unasked"
    BY <1>0, <1>1, FlightFacts DEF Notified
  <1>5. waiting.id \in Ids /\ waiting \in InFlight => status'[waiting.id] = "failed"
    <2>1. CASE response = NoResponse
      BY <2>1 DEF Receive, GiveUp, Fail
    <2>2. CASE response # NoResponse
      BY <2>2, FlightFacts DEF HttpInv, FlightInv, Notified
    <2> QED BY <2>1, <2>2
  <1>6. InFlight' = InFlight
    BY <1>1 DEF InFlight
  <1>7. ASSUME NEW k \in InFlight, k.id # Notified
        PROVE  status'[k.id] = "failed"
    BY <1>4, <1>5, <1>7, FlightFacts DEF HttpInv, FlightInv
  <1>8. FlightInv'
    BY <1>1, <1>4, <1>6, <1>7 DEF HttpInv, FlightInv, Carried
  <1>9. \A i \in DOMAIN log : status[log[i]] = "failed" => status'[log[i]] = "failed"
    BY <1>4, FlightFacts
  <1>10. LogInv'
    BY <1>1, <1>9 DEF HttpInv, LogInv, OnlyAbandonedLate
  <1> QED BY <1>2, <1>8, <1>10

\* The message that the server takes stays under way.
LEMMA TakeKeeps ==
  ASSUME HttpInv, NEW message \in wire, Take(message)
  PROVE  WaitingInv' /\ FlightInv' /\ LogInv' /\ HeardInv'
  <1>1. /\ serving = Nothing /\ serving' = message /\ wire' = wire \ {message}
        /\ UNCHANGED <<stage, nextId, waiting, status, response, log>>
    BY DEF Take, client, outcome
  <1>2. message \in Messages /\ message # Nothing /\ Nothing \notin wire
    BY NothingIsNoMessage DEF HttpInv, TypeOK
  <1>3. InFlight' = InFlight
    BY <1>1, <1>2 DEF InFlight
  <1>4. WaitingInv' /\ HeardInv' /\ LogInv'
    BY <1>1 DEF HttpInv, WaitingInv, HeardInv, LogInv, OnlyAbandonedLate, Carried
  <1>5. FlightInv'
    BY <1>1, <1>3 DEF HttpInv, FlightInv, Carried
  <1> QED BY <1>4, <1>5

\* A request that is carried out was not before, and is the last one sent or was
\* given up.
LEMMA RespondKeeps ==
  HttpInv /\ ((\E kind \in Kinds : Serve(kind)) \/ Refuse)
    => WaitingInv' /\ FlightInv' /\ LogInv' /\ HeardInv'
  <1> SUFFICES ASSUME HttpInv, (\E kind \in Kinds : Serve(kind)) \/ Refuse
               PROVE  WaitingInv' /\ FlightInv' /\ LogInv' /\ HeardInv'
    OBVIOUS
  <1>1. /\ serving \in Messages /\ serving # Nothing /\ serving' = Nothing
        /\ UNCHANGED <<stage, nextId, waiting, wire, status>>
        /\ response' # response =>
             serving = waiting /\ response' \in Responses /\ response'.of = serving.id
        /\ \/ log' = log
           \/ serving.id # Notified /\ serving.id \in Ids /\ log' = Append(log, serving.id)
    BY RespondFacts DEF HttpInv, client, outcome
  <1>2. serving \in InFlight /\ log \in Seq(Ids)
    BY <1>1 DEF InFlight, HttpInv, TypeOK
  <1>3. /\ Len(log) \in Nat /\ DOMAIN log = 1..Len(log)
        /\ log' # log => /\ DOMAIN log' = 1..(Len(log) + 1)
                         /\ \A i \in 1..Len(log) : log'[i] = log[i]
                         /\ log'[Len(log) + 1] = serving.id
                         /\ serving.id # Notified /\ serving.id \in Ids
    BY <1>1, <1>2, LogFacts
  <1>4. \A id : Carried(id) => Carried(id)'
    BY <1>3 DEF Carried
  <1>5. ASSUME NEW id, Carried(id)', ~Carried(id)
        PROVE  id = serving.id /\ id # Notified
    <2>1. PICK n \in DOMAIN log' : log'[n] = id
      BY <1>5 DEF Carried
    <2>2. log' # log /\ n \notin 1..Len(log)
      BY <1>3, <1>5, <2>1 DEF Carried
    <2>3. n = Len(log) + 1
      BY <1>3, <2>1, <2>2
    <2> QED BY <1>3, <2>1, <2>2, <2>3
  <1>6. WaitingInv'
    BY <1>1 DEF HttpInv, WaitingInv
  <1>7. InFlight' \subseteq InFlight /\ Nothing \notin wire /\ InFlight' = wire
    BY <1>1, NothingIsNoMessage DEF InFlight, HttpInv, TypeOK
  <1>8. ASSUME NEW k \in InFlight', k.id # Notified
        PROVE  k.id # serving.id
    BY <1>2, <1>7, <1>8 DEF HttpInv, FlightInv
  <1>9. FlightInv'
    <2>1. (response # NoResponse /\ waiting.id # Notified => waiting \notin InFlight)'
      BY <1>1, <1>7 DEF HttpInv, FlightInv
    <2>2. ASSUME NEW k \in InFlight', k.id # Notified
          PROVE  /\ k = waiting \/ status[k.id] = "failed"
                 /\ ~Carried(k.id)'
                 /\ \A n \in InFlight' : n.id = k.id => n = k
      BY <1>5, <1>7, <1>8, <2>2 DEF HttpInv, FlightInv
    <2> QED BY <1>1, <2>1, <2>2, NothingIsNoMessage DEF HttpInv, FlightInv, Carried
  <1>10. LogInv'
    <2>1. CASE log' = log
      BY <1>1, <2>1 DEF HttpInv, LogInv, OnlyAbandonedLate
    <2>2. CASE log' # log
      <3> DEFINE n == Len(log) + 1
                 s == serving.id
      <3>1. s \in Ids /\ s # Notified /\ s < nextId /\ ~Carried(s) /\ s \in Nat /\ nextId \in Nat
        BY <1>2, <1>3, <2>2, FlightFacts DEF HttpInv, FlightInv
      <3>2. \A i \in 1..Len(log) : log[i] # s /\ log[i] \in Nat /\ log[i] < nextId
        BY <1>3, <3>1, FlightFacts DEF Carried, HttpInv, LogInv
      <3>3. status[s] = "failed" \/ s = nextId - 1
        BY <1>1, <1>2, <3>1 DEF HttpInv, FlightInv, WaitingInv
      <3>4. \A i \in 1..Len(log) : log'[i] = log[i]
        BY <1>3, <2>2
      <3>5. DOMAIN log' = 1..n /\ log'[n] = s /\ n \in Nat /\ DOMAIN log = 1..(n - 1)
        BY <1>3, <2>2
      <3> HIDE DEF n, s
      <3>6. \A i \in 1..n : i = n \/ i \in 1..(n - 1)
        BY <3>5
      <3>7. 1..Len(log) = 1..(n - 1) /\ \A i \in 1..(n - 1) : i # n /\ ~(n < i)
        BY <1>3, <3>5
      <3>8. \A i, j \in DOMAIN log' : log'[i] = log'[j] => i = j
        BY <3>2, <3>4, <3>5, <3>6, <3>7 DEF HttpInv, LogInv
      <3>9. \A i \in DOMAIN log' : log'[i] < nextId'
        BY <1>1, <3>1, <3>2, <3>4, <3>5, <3>6, <3>7
      <3>10. ASSUME NEW i \in DOMAIN log', NEW j \in DOMAIN log', i < j, log'[i] > log'[j]
             PROVE  status'[log'[j]] = "failed"
        <4>1. CASE j = n
          <5>1. i \in 1..(n - 1)
            BY <3>5, <3>10, <4>1
          <5>2. log[i] > s /\ log[i] < nextId /\ log[i] \in Nat
            BY <3>2, <3>4, <3>5, <3>7, <3>10, <4>1, <5>1
          <5> QED BY <1>1, <3>1, <3>3, <3>5, <4>1, <5>2
        <4>2. CASE j \in 1..(n - 1)
          <5>1. i \in 1..(n - 1)
            BY <3>5, <3>6, <3>7, <3>10, <4>2
          <5> QED BY <1>1, <3>4, <3>5, <3>7, <3>10, <4>2, <5>1 DEF HttpInv, LogInv, OnlyAbandonedLate
        <4> QED BY <3>5, <3>6, <4>1, <4>2
      <3> QED BY <3>8, <3>9, <3>10 DEF LogInv, OnlyAbandonedLate
    <2> QED BY <2>1, <2>2
  <1>11. HeardInv'
    <2>1. CASE response' = response
      BY <1>4, <2>1 DEF HttpInv, HeardInv
    <2>2. CASE response' # response
      <3> SUFFICES ASSUME response'.kind \notin {"refused", "nosession"}
                   PROVE  IF response'.of = Notified THEN response'.kind = "accepted"
                          ELSE /\ response'.kind # "accepted"
                               /\ \E n \in DOMAIN log' : log'[n] = response'.of
        BY DEF HeardInv, Carried
      <3>1. PICK kind \in Kinds : Serve(kind)
        BY <2>2 DEF Refuse, Respond
      <3>2. response'.kind = kind
        BY <2>2, <3>1 DEF Serve, Respond
      <3>3. CASE serving.id = Notified
        BY <1>1, <2>2, <3>1, <3>2, <3>3 DEF Serve
      <3>4. CASE serving.id # Notified
        <4>1. kind # "accepted" /\ log' = Append(log, serving.id) /\ serving.id \in Ids
          BY <1>1, <3>1, <3>4 DEF Serve, Messages
        <4>2. /\ DOMAIN log' = 1..(Len(log) + 1)
              /\ log'[Len(log) + 1] = serving.id
          BY <1>2, <4>1, LogFacts
        <4>3. Len(log) + 1 \in DOMAIN log'
          BY <1>3, <4>2
        <4> QED BY <1>1, <2>2, <3>2, <3>4, <4>1, <4>2, <4>3
      <3> QED BY <3>3, <3>4
    <2> QED BY <2>1, <2>2
  <1> QED BY <1>6, <1>9, <1>10, <1>11

LEMMA HttpStep == HttpInv /\ [Next]_vars => HttpInv'
  <1> SUFFICES ASSUME HttpInv, [Next]_vars
               PROVE  HttpInv'
    OBVIOUS
  <1>t. TypeOK'
    BY TypeStep DEF HttpInv
  <1>1. CASE Request \/ Notify
    BY <1>t, <1>1, RequestKeeps, NotifyKeeps DEF HttpInv
  <1>2. CASE Receive \/ GiveUp
    BY <1>t, <1>2, ReturnKeeps DEF HttpInv
  <1>3. CASE Close \/ UNCHANGED vars
    <2>1. /\ UNCHANGED <<nextId, waiting, status, wire, serving, response, log>>
          /\ waiting = Nothing \/ UNCHANGED stage
      BY <1>3 DEF Close, vars, client, server, outcome
    <2>2. WaitingInv' /\ HeardInv' /\ LogInv'
      BY <2>1 DEF HttpInv, WaitingInv, HeardInv, LogInv, OnlyAbandonedLate, Carried
    <2>3. FlightInv'
      BY <2>1 DEF HttpInv, FlightInv, Carried, InFlight
    <2> QED BY <1>t, <2>2, <2>3 DEF HttpInv
  <1>4. ASSUME NEW message \in wire, Take(message)
        PROVE  HttpInv'
    BY <1>t, <1>4, TakeKeeps DEF HttpInv
  <1>5. CASE (\E kind \in Kinds : Serve(kind)) \/ Refuse
    BY <1>t, <1>5, RespondKeeps DEF HttpInv
  <1>6. CASE Restart
    <2>1. /\ UNCHANGED <<stage, nextId, waiting, status, log>>
          /\ serving' = Nothing /\ wire' = {} /\ response' \in {response, NoResponse}
      BY <1>6 DEF Restart, client, outcome
    <2>2. InFlight' = {}
      BY <2>1 DEF InFlight
    <2>3. WaitingInv' /\ HeardInv' /\ LogInv'
      BY <2>1 DEF HttpInv, WaitingInv, HeardInv, LogInv, OnlyAbandonedLate, Carried
    <2>4. FlightInv'
      BY <2>1, <2>2 DEF HttpInv, FlightInv
    <2> QED BY <1>t, <2>3, <2>4 DEF HttpInv
  <1> QED BY <1>1, <1>2, <1>3, <1>4, <1>5, <1>6 DEF Next, ServerStep, Terminated

\* Requests are carried out in the order they were sent, whatever the server and
\* the deadline do, but for those that the client has given up.
THEOREM LateOnlyIfAbandoned == Spec => []OnlyAbandonedLate
  <1>1. HttpInv => OnlyAbandonedLate
    BY DEF HttpInv, LogInv
  <1> QED BY <1>1, HttpInit, HttpStep, PTL DEF Spec

-----------------------------------------------------------------------------
(* The session id *)

LEMMA SessionInit == Init => SessionInv
  <1> SUFFICES ASSUME Init
               PROVE  SessionInv
    OBVIOUS
  <1>1. InFlight = {}
    BY DEF Init, InFlight
  <1> QED BY <1>1 DEF Init, SessionInv, OneSession, NeverRefused, NoResponse, NoSession

\* What is posted behind initialize carries the session id that was learned.
LEMMA PostKeepsSession ==
  ASSUME HttpInv, SessionInv, Request \/ Notify
  PROVE  SessionInv'
  <1>1. PICK id \in Ids \cup {Notified} :
          /\ stage \in DOMAIN MethodIn /\ (id = Notified <=> stage = "notify") /\ Post(id)
          /\ UNCHANGED <<stage, session, response, serving, opened, restarts>>
    <2>1. CASE Request
      <3>1. nextId \in Ids /\ nextId # Notified
        BY <2>1, HttpAssumption DEF Request, HttpInv, TypeOK, Ids, Notified
      <3> QED BY <2>1, <3>1 DEF Request, server
    <2>2. CASE Notify
      BY <2>2 DEF Notify, NotificationId, MethodIn, server
    <2> QED BY <2>1, <2>2
  <1>2. /\ waiting' = [id |-> id, method |-> MethodIn[stage], session |-> session]
        /\ wire' = wire \cup {waiting'}
    BY <1>1, PostFacts DEF HttpInv
  <1>3. waiting'.method = MethodIn[stage] /\ waiting'.session = session
    BY <1>2
  <1>4. InFlight' \subseteq InFlight \cup {waiting'}
    BY <1>1, <1>2 DEF InFlight
  <1>5. waiting'.method # "initialize" => stage \in {"notify", "list", "open"}
    BY <1>1, <1>3 DEF MethodIn
  <1> QED BY <1>1, <1>3, <1>4, <1>5 DEF SessionInv, OneSession, NeverRefused

\* The id comes with the response that takes the client past initialize, and no
\* later response brings another one.
LEMMA ReturnKeepsSession ==
  ASSUME HttpInv, SessionInv, Receive \/ GiveUp
  PROVE  SessionInv'
  <1> SUFFICES ASSUME Sessions, restarts = 0
               PROVE  OneSession'
    BY ReturnFacts DEF SessionInv, server, HttpInv, NeverRefused, NoResponse
  <1>1. /\ response' = NoResponse
        /\ UNCHANGED <<wire, serving, opened, restarts>>
        /\ session' \in {session, response.session}
        /\ session' # session => response.session # NoSession
    BY ReturnFacts DEF HttpInv, server
  <1>2. InFlight' = InFlight
    BY <1>1 DEF InFlight
  <1>3. \/ stage = "open" \/ stage' = "closed"
        \/ /\ Receive /\ Succeed(response.of)
           /\ response.kind = IF stage = "notify" THEN "accepted" ELSE "result"
    BY ReturnFacts DEF HttpInv, Fail
  <1>4. ASSUME stage' \in {"notify", "list", "open"}
        PROVE  session' = 1 /\ opened' = 1
    <2>1. CASE stage = "initialize"
      <3>1. Receive /\ response.kind = "result"
        BY <1>3, <1>4, <2>1
      <3>2. response.session = 1 /\ opened = 1
        BY <2>1, <3>1 DEF SessionInv, OneSession
      <3>3. waiting.id # Notified
        <4>1. waiting # Nothing /\ waiting.method = "initialize" /\ waiting \in Messages
          BY <2>1, <3>1 DEF Receive, HttpInv, TypeOK, WaitingInv, MethodIn
        <4> QED BY <4>1 DEF Messages
      <3> QED BY <1>1, <3>1, <3>2, <3>3 DEF Receive, Remember, NoSession
    <2>2. CASE stage # "initialize"
      <3>1. stage \in {"notify", "list", "open"}
        <4>1. waiting # Nothing
          BY DEF Receive, GiveUp, HttpInv, WaitingInv
        <4> QED BY <2>2, <4>1 DEF HttpInv, WaitingInv, MethodIn
      <3> QED BY <1>1, <3>1 DEF SessionInv, OneSession, NoSession
    <2> QED BY <2>1, <2>2
  <1> QED BY <1>1, <1>2, <1>4 DEF SessionInv, OneSession, NoResponse, NoSession

\* Whatever the server carries out, it knows at most the one session, and it
\* finds it in every message that needs one.
LEMMA RespondKeepsSession ==
  ASSUME HttpInv, SessionInv, (\E kind \in Kinds : Serve(kind)) \/ Refuse
  PROVE  SessionInv'
  <1>0. UNCHANGED <<stage, session, waiting, wire, restarts>>
    BY RespondFacts DEF HttpInv, client
  <1> SUFFICES ASSUME restarts = 0
               PROVE  /\ response'.kind # "nosession"
                      /\ Sessions => OneSession'
    BY <1>0 DEF SessionInv, NeverRefused
  <1>1. /\ serving \in Messages /\ serving # Nothing /\ serving' = Nothing
        /\ response' # response => serving = waiting
    BY RespondFacts DEF HttpInv
  <1>2. InFlight' \subseteq InFlight /\ serving \in InFlight
    BY <1>0, <1>1 DEF InFlight
  <1>3. KnowsSession
    BY <1>2 DEF SessionInv, OneSession, KnowsSession
  <1>4. serving = waiting /\ stage = "initialize" => serving.method = "initialize"
    BY <1>1 DEF HttpInv, WaitingInv, MethodIn
  <1>5. CASE Refuse
    BY <1>0, <1>1, <1>2, <1>3, <1>5
       DEF Refuse, Respond, SessionInv, NeverRefused, OneSession, NoSession
  <1>6. ASSUME NEW kind \in Kinds, Serve(kind)
        PROVE  /\ response'.kind # "nosession"
               /\ Sessions => OneSession'
    <2>1. kind # "nosession"
      BY <1>6 DEF Serve
    <2>2. CASE Sessions /\ serving.method = "initialize"
      <3>1. opened' = 1
            /\ response' = IF serving = waiting
                           THEN [of |-> serving.id, kind |-> kind, session |-> 1]
                           ELSE response
        BY <1>6, <2>2 DEF Serve, Respond
      <3> QED BY <1>0, <1>2, <2>1, <3>1 DEF SessionInv, NeverRefused, OneSession
    <2>3. CASE ~(Sessions /\ serving.method = "initialize")
      <3>1. opened' = opened
            /\ response' = IF serving = waiting
                           THEN [of |-> serving.id, kind |-> kind, session |-> NoSession]
                           ELSE response
        BY <1>6, <2>3 DEF Serve, Respond
      <3> QED BY <1>0, <1>2, <1>4, <2>1, <2>3, <3>1
              DEF SessionInv, NeverRefused, OneSession
    <2> QED BY <2>2, <2>3
  <1> QED BY <1>5, <1>6

LEMMA SessionStep == HttpInv /\ SessionInv /\ [Next]_vars => SessionInv'
  <1> SUFFICES ASSUME HttpInv, SessionInv, [Next]_vars
               PROVE  SessionInv'
    OBVIOUS
  <1>1. CASE Close \/ UNCHANGED vars
    <2>1. /\ UNCHANGED <<session, wire, serving, response, opened, restarts>>
          /\ stage' = "closed" \/ UNCHANGED stage
      BY <1>1 DEF Close, vars, client, server
    <2>2. InFlight' = InFlight
      BY <2>1 DEF InFlight
    <2> QED BY <2>1, <2>2 DEF SessionInv, OneSession, NeverRefused
  <1>2. ASSUME NEW message \in wire, Take(message)
        PROVE  SessionInv'
    <2>1. /\ serving' = message /\ wire' \subseteq wire
          /\ UNCHANGED <<stage, session, response, opened, restarts>>
      BY <1>2 DEF Take, client
    <2>2. InFlight' \subseteq InFlight
      BY <2>1 DEF InFlight
    <2> QED BY <2>1, <2>2 DEF SessionInv, OneSession, NeverRefused
  <1>3. CASE Restart
    <2>1. restarts' # 0
      BY <1>3 DEF Restart, HttpInv, TypeOK
    <2> QED BY <2>1 DEF SessionInv, OneSession, NeverRefused
  <1> QED BY <1>1, <1>2, <1>3, PostKeepsSession, ReturnKeepsSession, RespondKeepsSession
          DEF Next, ServerStep, Terminated

\* A server that insists on session ids and was not started anew never has to
\* turn the client away for want of one, whatever else fails in between.
THEOREM SessionNeverRefused == Spec => []NeverRefused
  <1>1. SessionInv => NeverRefused
    BY DEF SessionInv
  <1> QED BY <1>1, HttpInit, HttpStep, SessionInit, SessionStep, PTL DEF Spec

-----------------------------------------------------------------------------
(* The transport keeps the promise of Rpc *)

\* A call that returns: the request it made is answered or fails in Rpc; the
\* notification is nothing Rpc knows of.
LEMMA ReturnRefines ==
  ASSUME HttpInv, Receive \/ GiveUp
  PROVE  [R!Next]_R!vars
  <1>1. waiting # Nothing /\ waiting \in Messages
    BY FlightFacts DEF Receive, GiveUp, HttpInv, WaitingInv
  <1>2. log' = log
    BY ReturnFacts DEF HttpInv, server
  <1>3. CASE waiting.id = Notified
    <2>1. \A id \in Ids : id # waiting.id
      BY <1>3, FlightFacts DEF Notified
    <2>2. status' = status /\ answer' = answer
      <3>1. CASE Fail
        BY <2>1, <3>1 DEF Fail, HttpInv, TypeOK
      <3>2. ASSUME NEW of, Succeed(of)
            PROVE  status' = status /\ answer' = answer
        BY <2>1, <3>2 DEF Succeed, HttpInv, TypeOK
      <3> QED BY <3>1, <3>2, ReturnFacts DEF HttpInv
    <2> QED BY <1>2, <2>2 DEF R!vars
  <1>4. CASE waiting.id # Notified
    <2> DEFINE id == waiting.id
    <2>1. id \in Ids /\ status[id] = "asked"
      BY <1>1, <1>4 DEF Messages, HttpInv, WaitingInv
    <2>2. CASE Fail
      <3>1. status' = [status EXCEPT ![id] = "failed"] /\ answer' = answer
        BY <2>1, <2>2 DEF Fail, HttpInv, TypeOK
      <3> QED BY <1>2, <2>1, <3>1 DEF R!Next, R!Fail
    <2>3. CASE Receive /\ Succeed(response.of) /\ response.kind \in {"accepted", "result"}
      <3>1. response.of = id /\ Carried(id)
        BY <1>4, <2>3 DEF Receive, HttpInv, WaitingInv, HeardInv
      <3>2. /\ status' = [status EXCEPT ![id] = "answered"]
            /\ answer' = [answer EXCEPT ![id] = id]
        BY <2>1, <2>3, <3>1 DEF Succeed, HttpInv, TypeOK
      <3> QED BY <1>2, <2>1, <3>1, <3>2 DEF R!Next, R!Answer, Carried
    <2> QED BY <2>2, <2>3, ReturnFacts DEF HttpInv
  <1> QED BY <1>3, <1>4

\* What the server carries out is a request that was sent, and not yet another
\* time.
LEMMA RespondRefines ==
  ASSUME HttpInv, (\E kind \in Kinds : Serve(kind)) \/ Refuse
  PROVE  [R!Next]_R!vars
  <1>1. /\ serving \in Messages /\ serving # Nothing
        /\ UNCHANGED <<status, answer>>
        /\ \/ log' = log
           \/ serving.id # Notified /\ serving.id \in Ids /\ log' = Append(log, serving.id)
    BY RespondFacts DEF HttpInv, outcome
  <1>2. CASE log' = log
    BY <1>1, <1>2 DEF R!vars
  <1>3. CASE serving.id # Notified /\ serving.id \in Ids /\ log' = Append(log, serving.id)
    <2>1. serving \in InFlight
      BY <1>1 DEF InFlight
    <2>2. status[serving.id] \in {"asked", "failed"} /\ ~Carried(serving.id)
      BY <1>3, <2>1, FlightFacts DEF HttpInv, FlightInv
    <2> QED BY <1>1, <1>3, <2>2 DEF R!Next, R!Execute, Carried
  <1> QED BY <1>1, <1>2, <1>3

LEMMA RpcStep == HttpInv /\ [Next]_vars => [R!Next]_R!vars
  <1> SUFFICES ASSUME HttpInv, [Next]_vars
               PROVE  [R!Next]_R!vars
    OBVIOUS
  <1>1. CASE Request
    <2>1. /\ nextId \in Ids /\ status[nextId] = "unasked"
          /\ status' = [status EXCEPT ![nextId] = "asked"]
          /\ UNCHANGED <<answer, log>>
      BY <1>1, HttpAssumption DEF Request, HttpInv, TypeOK, FlightInv, Ids, server
    <2> QED BY <2>1 DEF R!Next, R!Ask
  <1>2. CASE Receive \/ GiveUp
    BY <1>2, ReturnRefines
  <1>3. CASE (\E kind \in Kinds : Serve(kind)) \/ Refuse
    BY <1>3, RespondRefines
  <1>4. CASE UNCHANGED <<status, answer, log>>
    BY <1>4 DEF R!vars
  <1>5. Notify \/ Close \/ Restart \/ Terminated \/ (\E message \in wire : Take(message))
          => UNCHANGED <<status, answer, log>>
    BY DEF Notify, Close, Restart, Terminated, Take, outcome, server, vars
  <1>6. UNCHANGED vars => UNCHANGED <<status, answer, log>>
    BY DEF vars, outcome, server
  <1> QED BY <1>1, <1>2, <1>3, <1>4, <1>5, <1>6 DEF Next, ServerStep

\* Over HTTP, with lost, late and refused requests, streams and restarts of the
\* server, every request is carried out at most once, and ends with the answer to
\* this very request or with a failure.
THEOREM HttpImplementsRpc == Spec => KeepsRpc
  <1>1. Init => R!Init
    BY DEF Init, R!Init, R!NoAnswer
  <1> QED BY <1>1, HttpInit, HttpStep, RpcStep, PTL DEF Spec, KeepsRpc, R!Spec

-----------------------------------------------------------------------------
(* Answers last *)

\* What Rpc has answered or carried out stays so, and is answered only when it
\* was carried out.
LEMMA RpcFacts ==
  ASSUME TypeOK, [R!Next]_R!vars, NEW id \in Ids
  PROVE  /\ status[id] = "answered" => status'[id] = "answered"
         /\ Carried(id) => Carried(id)'
         /\ status'[id] = "answered" => status[id] = "answered" \/ Carried(id)
  <1>1. log \in Seq(Ids) /\ status \in [Ids -> {"unasked", "asked", "answered", "failed"}]
    BY DEF TypeOK
  <1>2. CASE UNCHANGED R!vars
    BY <1>2 DEF R!vars, Carried
  <1>3. ASSUME NEW of \in Ids, R!Execute(of)
        PROVE  UNCHANGED status /\ (Carried(id) => Carried(id)')
    <2>1. log' = Append(log, of)
      BY <1>3 DEF R!Execute
    <2>2. /\ DOMAIN log = 1..Len(log) /\ DOMAIN log' = 1..(Len(log) + 1) /\ Len(log) \in Nat
          /\ \A i \in 1..Len(log) : log'[i] = log[i]
      BY <1>1, <2>1, LogFacts
    <2> QED BY <1>3, <2>2 DEF R!Execute, Carried
  <1>4. ASSUME NEW of \in Ids, R!Ask(of) \/ R!Fail(of) \/ R!Answer(of)
        PROVE  /\ status[id] = "answered" => status'[id] = "answered"
               /\ UNCHANGED log
               /\ status'[id] = "answered" => status[id] = "answered" \/ Carried(id)
    BY <1>1, <1>4 DEF R!Ask, R!Fail, R!Answer, Carried
  <1> QED BY <1>2, <1>3, <1>4 DEF R!Next, Carried

AnsweredInv == \A id \in Ids : status[id] = "answered" => Carried(id)

LEMMA AnsweredInit == Init => AnsweredInv
  BY DEF Init, AnsweredInv

LEMMA AnsweredStep == HttpInv /\ AnsweredInv /\ [Next]_vars => AnsweredInv'
  <1> SUFFICES ASSUME HttpInv, AnsweredInv, [Next]_vars, NEW id \in Ids,
                      status'[id] = "answered"
               PROVE  Carried(id)'
    BY DEF AnsweredInv, Ids
  <1> QED BY RpcStep, RpcFacts DEF HttpInv, AnsweredInv

\* A request that is answered has been carried out once, and before every request
\* that was sent later.
LEMMA AnsweredInOrder ==
  ASSUME HttpInv, AnsweredInv, NEW id \in Ids, status[id] = "answered"
  PROVE  \E n \in DOMAIN log :
           /\ log[n] = id
           /\ \A m \in DOMAIN log : m < n => log[m] < log[n]
           /\ \A m \in DOMAIN log : m > n => log[m] # log[n]
  <1>1. PICK n \in DOMAIN log : log[n] = id
    BY DEF AnsweredInv, Carried
  <1>2. log \in Seq(Ids) /\ DOMAIN log = 1..Len(log) /\ Len(log) \in Nat
    BY LenProperties DEF HttpInv, TypeOK
  <1>3. ASSUME NEW m \in DOMAIN log, m # n
        PROVE  log[m] \in Nat /\ log[n] \in Nat /\ log[m] # log[n]
    BY <1>3, FlightFacts DEF HttpInv, LogInv
  <1>4. ASSUME NEW m \in DOMAIN log, m < n
        PROVE  log[m] < log[n]
    <2>1. ~(log[m] > log[n])
      BY <1>1, <1>4 DEF HttpInv, LogInv, OnlyAbandonedLate
    <2>2. m # n
      BY <1>2, <1>4
    <2> QED BY <1>3, <2>1, <2>2
  <1>5. ASSUME NEW m \in DOMAIN log, m > n
        PROVE  log[m] # log[n]
    BY <1>2, <1>3, <1>5
  <1> QED BY <1>1, <1>4, <1>5
==============================================================================
