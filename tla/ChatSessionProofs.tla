------------------------- MODULE ChatSessionProofs -------------------------
(***************************************************************************)
(* Theorems about ChatSession for every set of endpoints, every reply of   *)
(* the model and every number of rounds, turns and hosts.                  *)
(***************************************************************************)
EXTENDS ChatSession, ChatHistoryProofs

\* A reply of the model is a sequence of the names it may call.
LEMMA RepliesAreSequences == Replies \subseteq Seq(CallNames)
  <1> SUFFICES ASSUME NEW n \in 1..MaxCalls, NEW r \in [1..n -> CallNames]
               PROVE  r \in Seq(CallNames)
    BY DEF Replies
  <1>1. n \in Nat
    BY BoundsAssumption
  <1> QED BY <1>1, SeqDef

Host == [namespace : BaseNames \cup
                       {Numbered(b, n) : b \in BaseNames, n \in 1..MaxHosts},
         endpoint : Endpoints]

\* Every host is asked for, and given, a namespace of a known form.
LEMMA AttachType ==
  ASSUME TypeOK, NEW e \in Endpoints, NEW base \in BaseNames,
         Len(hosts) < MaxHosts, Attach(e, base)
  PROVE  hosts' \in Seq(Host) /\ Len(hosts') <= MaxHosts
  <1> DEFINE n == Len(hosts) + 1
             h == [namespace |-> Disambiguated(base, n), endpoint |-> e]
  <1>1. hosts \in Seq(Host) /\ n \in 1..MaxHosts
    BY BoundsAssumption DEF TypeOK, Host
  <1>2. h \in Host
    BY <1>1 DEF Disambiguated, Host
  <1> QED BY <1>1, <1>2, AppendFacts, BoundsAssumption DEF Attach

\* The namespace an endpoint asks for is one of the BaseNames.
LEMMA BaseType ==
  ASSUME NEW e \in Endpoints, NEW n \in 1..MaxHosts
  PROVE  NamespaceFor(e, n) \in BaseNames /\ BaseNamespace(e, n) \in BaseNames
  BY EndpointAssumption DEF NamespaceFor, BaseNamespace

\* The state variables keep their types, the bounds on the number of hosts and
\* of rounds included, and no more answers are printed than messages taken:
\* an answer is printed only in a turn, and a turn begins with a message.
TypeInv == TypeOK /\ (phase \in {"asking", "calling"} => printed < turns)

LEMMA TypeInit == Init => TypeInv
  BY EmptySeq, BoundsAssumption DEF Init, TypeInv, TypeOK, Phases

LEMMA TypeStep == TypeInv /\ [Next]_vars => TypeInv'
  <1> SUFFICES ASSUME TypeInv, [Next]_vars
               PROVE  TypeInv'
    OBVIOUS
  <1> USE DEF TypeInv, Phases
  <1>h. hosts \in Seq(Host) /\ Len(hosts) \in Nat /\ history \in Seq(Message(CallNames))
    BY DEF TypeOK, Host
  <1>1. CASE ConnectHost
    <2> DEFINE e == Configured[Len(hosts) + 1]
               n == Len(hosts) + 1
    <2>1. n \in 1..Len(Configured) /\ n \in 1..MaxHosts /\ e \in Endpoints
      BY <1>1, <1>h, EndpointAssumption, BoundsAssumption, ElementOfSeq, LenProperties DEF ConnectHost
    <2>2. hosts' \in Seq(Host) /\ Len(hosts') <= MaxHosts
      BY <1>1, <1>h, <2>1, BaseType, AttachType, BoundsAssumption DEF ConnectHost
    <2> QED BY <1>1, <2>2 DEF ConnectHost, TypeOK, Host, turnVars
  <1>2. ASSUME NEW e \in Addable, AddHost(e)
        PROVE  TypeInv'
    <2>1. e \in Endpoints /\ Len(hosts) + 1 \in 1..MaxHosts
      BY <1>2, <1>h, EndpointAssumption, BoundsAssumption DEF AddHost
    <2>2. hosts' \in Seq(Host) /\ Len(hosts') <= MaxHosts
      BY <1>2, <2>1, <1>h, BaseType, AttachType, BoundsAssumption DEF AddHost
    <2> QED BY <1>2, <2>2 DEF AddHost, TypeOK, Host, turnVars
  <1>3. CASE SetupFails \/ PromptFails \/ EndOfInput \/ ModelFails \/ BadName
    BY <1>3 DEF SetupFails, PromptFails, EndOfInput, ModelFails, BadName, TypeOK, turnVars
  <1>4. CASE StartOneShot \/ UserMessage
    <2>0. User \in Message(CallNames)
      BY EmptySeq DEF User, Message, Roles
    <2>1. /\ Append(Prelude, User) \in Seq(Message(CallNames))
          /\ Append(history, User) \in Seq(Message(CallNames))
      BY <1>h, <2>0, PreludeAssumption, AppendFacts
    <2>2. history' \in Seq(Message(CallNames))
      BY <1>4, <2>1 DEF StartOneShot, UserMessage, BeginTurn
    <2>3. /\ turns' = turns + 1 /\ round' = 1 /\ phase' = "asking"
          /\ UNCHANGED <<oneShot, hosts, calls, served, printed>>
      BY <1>4 DEF StartOneShot, UserMessage, BeginTurn
    <2>4. /\ turns' \in Nat /\ printed' \in 0..turns' /\ printed' < turns'
          /\ round' \in 0..MaxRounds
      BY <2>3, BoundsAssumption DEF TypeOK
    <2> QED BY <2>2, <2>3, <2>4 DEF TypeOK
  <1>5. CASE StartRepl
    BY <1>5, PreludeAssumption DEF StartRepl, TypeOK
  <1>6. CASE ModelAnswers
    <2>0. Assistant(<< >>) \in Message(CallNames)
      BY DEF Assistant, Message, Roles
    <2>1. history' \in Seq(Message(CallNames))
      BY <1>6, <1>h, <2>0, AppendFacts DEF ModelAnswers
    <2> QED BY <1>6, <2>1 DEF ModelAnswers, TypeOK
  <1>7. ASSUME NEW names \in Replies, ModelCalls(names)
        PROVE  TypeInv'
    <2>0. names \in Seq(CallNames)
      BY RepliesAreSequences
    <2>1. Assistant(names) \in Message(CallNames)
      BY <2>0 DEF Assistant, Message, Roles
    <2>2. history' \in Seq(Message(CallNames))
      BY <1>7, <1>h, <2>1, AppendFacts DEF ModelCalls
    <2> QED BY <1>7, <2>0, <2>2 DEF ModelCalls, TypeOK
  <1>8. CASE SearchCall \/ \E k \in DOMAIN hosts, ok \in BOOLEAN : HostCall(k, ok)
    <2>1. /\ phase = "calling" /\ served < Len(calls)
          /\ history' = Append(history, ToolResult(NextCall))
          /\ served' = served + 1
          /\ UNCHANGED <<phase, oneShot, hosts, round, calls, turns, printed>>
      BY <1>8 DEF SearchCall, HostCall, TellResult
    <2>2. NextCall \in CallNames /\ served' \in 0..Len(calls)
      BY <2>1, ElementOfSeq, LenProperties DEF TypeOK, NextCall
    <2>3. ToolResult(NextCall) \in Message(CallNames)
      BY <2>2 DEF ToolResult, Message, Roles
    <2>4. history' \in Seq(Message(CallNames))
      BY <2>1, <1>h, <2>3, AppendFacts
    <2> QED BY <2>1, <2>2, <2>4 DEF TypeOK
  <1>9. CASE EndRound
    BY <1>9, BoundsAssumption DEF EndRound, TypeOK
  <1>10. CASE UNCHANGED vars
    BY <1>10 DEF vars, turnVars, TypeOK
  <1> QED BY <1>1, <1>2, <1>3, <1>4, <1>5, <1>6, <1>7, <1>8, <1>9, <1>10
          DEF Next, ModelReplies, ServeCall, Terminated

\* The state variables keep their types, whatever the model asks for.
THEOREM TypeCorrect == Spec => []TypeOK
  <1>1. TypeInv => TypeOK
    BY DEF TypeInv
  <1> QED BY <1>1, TypeInit, TypeStep, PTL DEF Spec
-----------------------------------------------------------------------------
(* The history *)

\* While calls are served, the reply that asked for them is in the history,
\* behind the prelude, with the results so far behind it.
HistoryInv ==
  /\ TypeInv
  /\ CallsAnswered
  /\ phase \in {"idle", "asking"} => Len(history) >= Len(Prelude)
  /\ phase = "calling" => Asking \in (Len(Prelude) + 1)..Len(history)

\* The first message the prelude does not hold.
First == Len(Prelude) + 1

LEMMA HistoryFacts ==
  TypeInv => /\ Len(Prelude) \in Nat /\ First \in Nat \ {0}
             /\ history \in Seq(Message(CallNames)) /\ Len(history) \in Nat
             /\ calls \in Seq(CallNames) /\ Len(calls) \in Nat
             /\ served \in 0..Len(calls)
  BY PreludeAssumption, LenProperties DEF TypeInv, TypeOK, First

\* A history with nothing behind the prelude keeps every promise.
LEMMA PreludeAnswered ==
  ASSUME NEW h \in Seq(Message(CallNames)), Len(h) <= Len(Prelude)
  PROVE  AllAnswered(h, First, Len(h)) /\ AllAskedFor(h, First)
  <1>1. Len(Prelude) \in Nat /\ Len(h) \in Nat
    BY PreludeAssumption, LenProperties
  <1>2. \A i : i \notin First..Len(h)
    BY <1>1 DEF First
  <1> QED BY <1>2 DEF AllAnswered, AllAskedFor

LEMMA HistoryInit == Init => HistoryInv
  <1> SUFFICES ASSUME Init
               PROVE  HistoryInv
    OBVIOUS
  <1>1. TypeInv /\ phase = "connecting" /\ history = << >>
    BY TypeInit DEF Init
  <1>2. Len(history) = 0 /\ Len(Prelude) >= 0 /\ history \in Seq(Message(CallNames))
    BY <1>1, HistoryFacts, EmptySeq
  <1>3. AllAskedFor(history, First)
    BY <1>2, PreludeAnswered
  <1> QED BY <1>1, <1>3 DEF HistoryInv, CallsAnswered, First

\* The user's message joins a history in which nothing is left to answer.
LEMMA UserJoins ==
  ASSUME NEW h \in Seq(Message(CallNames)), Len(h) >= Len(Prelude),
         AllAnswered(h, First, Len(h)), AllAskedFor(h, First),
         NEW m \in {User, Assistant(<< >>)}
  PROVE  /\ AllAnswered(Append(h, m), First, Len(Append(h, m)))
         /\ AllAskedFor(Append(h, m), First)
         /\ Len(Append(h, m)) >= Len(Prelude)
  <1>1. /\ m \in Message(CallNames)
        /\ m.role # "tool" /\ (m.role # "assistant" \/ m.names = << >>)
    <2>1. << >> \in Seq(CallNames)
      BY EmptySeq
    <2>2. CASE m = User
      BY <2>1, <2>2 DEF User, Message, Roles
    <2>3. CASE m = Assistant(<< >>)
      BY <2>1, <2>3 DEF Assistant, Message, Roles
    <2> QED BY <2>2, <2>3
  <1>2. First \in Nat \ {0} /\ Len(h) \in Nat /\ Len(Prelude) \in Nat
    BY PreludeAssumption, LenProperties DEF First
  <1>3. Len(Append(h, m)) = Len(h) + 1
    BY <1>1, AppendFacts
  <1>4. AllAnswered(Append(h, m), First, Len(h) + 1)
    BY <1>1, <1>2, AllAnsweredAppend
  <1>5. AllAskedFor(Append(h, m), First)
    BY <1>1, <1>2, AllAskedForAppend
  <1> QED BY <1>2, <1>3, <1>4, <1>5

LEMMA HistoryStep == HistoryInv /\ [Next]_vars => HistoryInv'
  <1> SUFFICES ASSUME HistoryInv, [Next]_vars
               PROVE  HistoryInv'
    OBVIOUS
  <1>t. TypeInv /\ TypeInv'
    BY TypeStep DEF HistoryInv
  <1>f. /\ Len(Prelude) \in Nat /\ First \in Nat \ {0}
        /\ history \in Seq(Message(CallNames)) /\ Len(history) \in Nat
        /\ calls \in Seq(CallNames) /\ Len(calls) \in Nat
        /\ served \in 0..Len(calls)
    BY <1>t, HistoryFacts
  <1>a. AllAskedFor(history, First)
    BY DEF HistoryInv, CallsAnswered, First
  <1>1. CASE UNCHANGED <<history, calls, served>>
             /\ phase' \in {phase, "failed"}
    BY <1>1, <1>t DEF HistoryInv, CallsAnswered, Asking
  <1>2. CASE StartOneShot \/ UserMessage
    <2>1. PICK h \in {Prelude, history} :
            /\ Len(h) >= Len(Prelude)
            /\ AllAnswered(h, First, Len(h)) /\ AllAskedFor(h, First)
            /\ history' = Append(h, User)
      <3>1. CASE StartOneShot
        BY <3>1, <1>f, PreludeAnswered, PreludeAssumption DEF StartOneShot, BeginTurn
      <3>2. CASE UserMessage
        BY <3>2 DEF UserMessage, BeginTurn, HistoryInv, CallsAnswered, First
      <3> QED BY <1>2, <3>1, <3>2
    <2>2. /\ AllAnswered(history', First, Len(history'))
          /\ AllAskedFor(history', First)
          /\ Len(history') >= Len(Prelude)
      BY <1>f, <2>1, PreludeAssumption, UserJoins
    <2>3. phase' = "asking"
      BY <1>2 DEF StartOneShot, UserMessage, BeginTurn
    <2> QED BY <1>t, <2>2, <2>3 DEF HistoryInv, CallsAnswered, First
  <1>3. CASE StartRepl
    <2>1. phase' = "idle" /\ history' = Prelude
      BY <1>3 DEF StartRepl
    <2>2. AllAnswered(Prelude, First, Len(Prelude)) /\ AllAskedFor(Prelude, First)
      BY <1>f, PreludeAnswered, PreludeAssumption
    <2> QED BY <1>f, <1>t, <2>1, <2>2 DEF HistoryInv, CallsAnswered, First
  <1>4. CASE EndOfInput
    BY <1>4, <1>t DEF EndOfInput, turnVars, HistoryInv, CallsAnswered
  <1>5. CASE ModelAnswers
    <2>1. /\ phase = "asking" /\ phase' \in {"idle", "done"}
          /\ history' = Append(history, Assistant(<< >>))
      BY <1>5 DEF ModelAnswers
    <2>2. /\ AllAnswered(history', First, Len(history'))
          /\ AllAskedFor(history', First)
          /\ Len(history') >= Len(Prelude)
      BY <1>f, <2>1, UserJoins DEF HistoryInv, CallsAnswered, First
    <2> QED BY <1>t, <2>1, <2>2 DEF HistoryInv, CallsAnswered, First
  <1>6. ASSUME NEW names \in Replies, ModelCalls(names)
        PROVE  HistoryInv'
    <2>1. /\ phase = "asking" /\ phase' = "calling"
          /\ history' = Append(history, Assistant(names))
          /\ calls' = names /\ served' = 0
      BY <1>6 DEF ModelCalls
    <2>2. Assistant(names) \in Message(CallNames) /\ Assistant(names).role # "tool"
      BY RepliesAreSequences DEF Assistant, Message, Roles
    <2>3. Len(history') = Len(history) + 1 /\ history'[Len(history) + 1] = Assistant(names)
      BY <1>f, <2>1, <2>2, AppendFacts
    <2>4. Asking' = Len(history) + 1 /\ Len(history) >= Len(Prelude)
      BY <1>f, <2>1, <2>3 DEF Asking, HistoryInv
    <2>5. AllAnswered(history', First, Len(history))
      BY <1>f, <2>1, <2>2, AllStayAnswered DEF HistoryInv, CallsAnswered, First
    <2>6. AllAskedFor(history', First)
      BY <1>a, <1>f, <2>1, <2>2, AllAskedForAppend
    <2>7. AnsweredUpTo(history', Asking', served')
      BY <2>1 DEF AnsweredUpTo
    <2>8. Asking' - 1 = Len(history) /\ Asking' \in First..Len(history')
      BY <1>f, <2>3, <2>4 DEF First
    <2> QED BY <1>t, <2>1, <2>3, <2>4, <2>5, <2>6, <2>7, <2>8
            DEF HistoryInv, CallsAnswered, First
  <1>7. CASE SearchCall \/ \E k \in DOMAIN hosts, ok \in BOOLEAN : HostCall(k, ok)
    <2> DEFINE m == ToolResult(NextCall)
    <2>1. /\ phase = "calling" /\ phase' = "calling" /\ served < Len(calls)
          /\ history' = Append(history, m)
          /\ served' = served + 1 /\ calls' = calls
      BY <1>7 DEF SearchCall, HostCall, TellResult
    <2>2. served + 1 \in 1..Len(calls) /\ NextCall \in CallNames
      BY <1>f, <2>1, ElementOfSeq DEF NextCall
    <2>3. m \in Message(CallNames) /\ m.role = "tool"
      BY <2>2 DEF ToolResult, Message, Roles
    <2>4. /\ AllAnswered(history, First, Asking - 1)
          /\ history[Asking] = Assistant(calls)
          /\ AnsweredUpTo(history, Asking, served)
          /\ Asking \in First..Len(history) /\ Asking + served = Len(history)
      BY <1>f, <2>1 DEF HistoryInv, CallsAnswered, First, Asking
    <2>5. Len(history') = Len(history) + 1 /\ Asking' = Asking
          /\ history'[Len(history) + 1] = m /\ history'[Asking] = Assistant(calls)
      <3> HIDE DEF m
      <3>1. /\ Len(history') = Len(history) + 1
            /\ \A i \in 1..Len(history) : history'[i] = history[i]
            /\ history'[Len(history) + 1] = m
        BY <1>f, <2>1, <2>3, AppendFacts
      <3>2. Asking' = Asking
        BY <1>f, <2>1, <3>1 DEF Asking
      <3>3. Asking \in 1..Len(history)
        BY <1>f, <2>4
      <3> QED BY <2>4, <3>1, <3>2, <3>3
    <2>6. AllAnswered(history', First, Asking - 1)
      <3>1. Asking - 1 \in Nat /\ Asking - 1 <= Len(history)
        BY <1>f, <2>4
      <3> QED BY <1>f, <2>1, <2>3, <2>4, <3>1, AllStayAnswered
    <2>7. AnsweredUpTo(history', Asking, served + 1)
      <3>1. Asking \in 1..Len(history) /\ served \in Nat
        BY <1>f, <2>4
      <3>2. AnsweredUpTo(history', Asking, served)
        BY <1>f, <2>1, <2>3, <2>4, <3>1, StaysAnswered
      <3>3. history'[Asking].names[served + 1] = NextCall
        BY <2>5 DEF Assistant, NextCall
      <3>4. /\ Asking + (served + 1) <= Len(history')
            /\ history'[Asking + (served + 1)] = ToolResult(history'[Asking].names[served + 1])
        <4>1. Asking + (served + 1) = Len(history) + 1
          BY <1>f, <2>4, <3>1
        <4> QED BY <1>f, <2>5, <3>3, <4>1
      <3>5. \A k \in 1..(served + 1) : k \in 1..served \/ k = served + 1
        BY <3>1
      <3> QED BY <3>2, <3>4, <3>5 DEF AnsweredUpTo
    <2>8. AllAskedFor(history', First)
      <3>1. history[Asking].role = "assistant" /\ history[Asking].names = calls
        BY <2>4 DEF Assistant
      <3>2. Len(history) + 1 - Asking = served + 1
        BY <1>f, <2>4
      <3>3. \E i \in First..Len(history) :
              /\ history[i].role = "assistant"
              /\ Len(history) + 1 - i \in 1..Len(history[i].names)
              /\ m = ToolResult(history[i].names[Len(history) + 1 - i])
        BY <2>2, <2>4, <3>1, <3>2 DEF NextCall
      <3> HIDE DEF m
      <3> QED BY <1>a, <1>f, <2>1, <2>3, <3>3, AllAskedForAppend
    <2>9. Asking' \in First..Len(history')
      BY <1>f, <2>4, <2>5
    <2> QED BY <1>t, <2>1, <2>5, <2>6, <2>7, <2>8, <2>9
            DEF HistoryInv, CallsAnswered, First
  <1>8. CASE EndRound
    <2>1. /\ phase = "calling" /\ phase' \in {"asking", "failed"} /\ served = Len(calls)
          /\ UNCHANGED <<history, calls, served>>
      BY <1>8 DEF EndRound
    <2>2. /\ AllAnswered(history, First, Asking - 1)
          /\ history[Asking] = Assistant(calls)
          /\ AnsweredUpTo(history, Asking, Len(calls))
          /\ Asking \in First..Len(history) /\ Asking + Len(calls) = Len(history)
      BY <1>f, <2>1 DEF HistoryInv, CallsAnswered, First, Asking
    <2>3. ASSUME NEW i \in First..Len(history), history[i].role = "assistant"
          PROVE  AnsweredUpTo(history, i, Len(history[i].names))
      <3>1. CASE i \in First..(Asking - 1)
        BY <2>2, <2>3, <3>1 DEF AllAnswered
      <3>2. CASE i = Asking
        BY <2>2, <3>2 DEF Assistant
      <3>3. CASE i - Asking \in 1..Len(calls)
        <4>1. history[Asking + (i - Asking)] = ToolResult(history[Asking].names[i - Asking])
          BY <2>2, <3>3 DEF AnsweredUpTo
        <4>2. Asking + (i - Asking) = i
          BY <1>f, <2>2
        <4> QED BY <2>3, <4>1, <4>2 DEF ToolResult
      <3> QED BY <1>f, <2>2, <3>1, <3>2, <3>3
    <2>4. AllAnswered(history, First, Len(history)) /\ Len(history) >= Len(Prelude)
      BY <1>f, <2>2, <2>3 DEF AllAnswered, First
    <2> QED BY <1>a, <1>t, <2>1, <2>4 DEF HistoryInv, CallsAnswered, First
  <1>9. CASE \/ ConnectHost \/ SetupFails \/ PromptFails \/ ModelFails \/ BadName
             \/ \E e \in Addable : AddHost(e)
             \/ UNCHANGED vars
    BY <1>1, <1>9 DEF ConnectHost, SetupFails, PromptFails, ModelFails, BadName,
                      AddHost, vars, turnVars
  <1> QED BY <1>2, <1>3, <1>4, <1>5, <1>6, <1>7, <1>8, <1>9
          DEF Next, ModelReplies, ServeCall, Terminated

\* Whatever the model asks for and however its calls fail, each has its result,
\* in order, behind the reply that asked for it.
THEOREM EveryCallAnswered == Spec => []CallsAnswered
  <1>1. HistoryInv => CallsAnswered
    BY DEF HistoryInv
  <1> QED BY <1>1, HistoryInit, HistoryStep, PTL DEF Spec
-----------------------------------------------------------------------------
(* Namespaces *)

\* No host asks for a namespace that ends like a numbered one.
CleanBases == \A b, c \in BaseNames, n \in 1..MaxHosts : b # Numbered(c, n)

\* Every namespace is one asked for, or carries the host's own number.
NamespaceInv ==
  /\ TypeInv
  /\ NamespacesUnique
  /\ \A k \in DOMAIN hosts :
       \E b \in BaseNames : hosts[k].namespace \in {b, Numbered(b, k)}

\* The renaming is enough when the bases are clean.
LEMMA AttachKeepsUnique ==
  ASSUME CleanBases, NamespaceInv, NEW e \in Endpoints, NEW base \in BaseNames,
         Len(hosts) < MaxHosts, Attach(e, base), TypeInv'
  PROVE  NamespaceInv'
  <1> DEFINE n == Len(hosts) + 1
             new == [namespace |-> Disambiguated(base, n), endpoint |-> e]
  <1>1. hosts \in Seq(Host) /\ Len(hosts) \in Nat /\ n \in 1..MaxHosts
    <2>1. hosts \in Seq(Host)
      BY DEF NamespaceInv, TypeInv, TypeOK, Host
    <2>2. Len(hosts) \in Nat
      BY <2>1, LenProperties
    <2> QED BY <2>1, <2>2, BoundsAssumption
  <1>2. new \in Host /\ new.namespace \in {base, Numbered(base, n)}
    BY <1>1 DEF Disambiguated, Host
  <1>3. /\ DOMAIN hosts' = 1..n /\ DOMAIN hosts = 1..Len(hosts)
        /\ \A k \in DOMAIN hosts : hosts'[k] = hosts[k]
        /\ hosts'[n] = new
    <2> HIDE DEF new
    <2>1. hosts' = Append(hosts, new)
      BY DEF Attach, new
    <2> QED BY <1>1, <1>2, <2>1, AppendFacts
  <1>4. ASSUME NEW k \in DOMAIN hosts
        PROVE  hosts'[k].namespace # hosts'[n].namespace
    <2>1. PICK b \in BaseNames : hosts[k].namespace \in {b, Numbered(b, k)}
      BY DEF NamespaceInv
    <2>2. k \in 1..MaxHosts /\ k # n
      BY <1>1, <1>3, BoundsAssumption
    <2>3. CASE \E j \in DOMAIN hosts : hosts[j].namespace = base
      <3>1. hosts'[n].namespace = Numbered(base, n)
        BY <1>3, <2>3 DEF Disambiguated
      <3>2. b # Numbered(base, n)
        BY <1>1 DEF CleanBases
      <3>3. Numbered(b, k) # Numbered(base, n)
        BY <1>1, <2>2, NumberedAssumption
      <3> QED BY <1>3, <2>1, <3>1, <3>2, <3>3
    <2>4. CASE ~ \E j \in DOMAIN hosts : hosts[j].namespace = base
      BY <1>3, <2>4 DEF Disambiguated
    <2> QED BY <2>3, <2>4
  <1>5. NamespacesUnique'
    <2> SUFFICES ASSUME NEW j \in 1..n, NEW k \in 1..n,
                        hosts'[j].namespace = hosts'[k].namespace
                 PROVE  j = k
      BY <1>3 DEF NamespacesUnique
    <2>1. \A i \in 1..n : i \in DOMAIN hosts \/ i = n
      BY <1>1, <1>3
    <2>2. CASE j \in DOMAIN hosts /\ k \in DOMAIN hosts
      BY <1>3, <2>2 DEF NamespaceInv, NamespacesUnique
    <2> QED BY <1>4, <2>1, <2>2
  <1>6. \A k \in DOMAIN hosts' :
          \E b \in BaseNames : hosts'[k].namespace \in {b, Numbered(b, k)}
    <2> SUFFICES ASSUME NEW k \in 1..n
                 PROVE  \E b \in BaseNames : hosts'[k].namespace \in {b, Numbered(b, k)}
      BY <1>3
    <2>1. CASE k = n
      BY <1>2, <1>3, <2>1
    <2>2. CASE k \in DOMAIN hosts
      BY <1>3, <2>2 DEF NamespaceInv
    <2> QED BY <1>1, <1>3, <2>1, <2>2
  <1> QED BY <1>5, <1>6 DEF NamespaceInv

\* A step attaches one host, under a namespace it may ask for, or none.
LEMMA HostsGrow ==
  ASSUME TypeInv, [Next]_vars
  PROVE  \/ UNCHANGED hosts
         \/ \E e \in Endpoints, base \in BaseNames :
              Len(hosts) < MaxHosts /\ Attach(e, base)
  <1>h. Len(hosts) \in Nat
    BY LenProperties DEF TypeInv, TypeOK
  <1>1. CASE ConnectHost
    <2> DEFINE n == Len(hosts) + 1
               e == Configured[n]
    <2>1. n \in 1..Len(Configured) /\ n \in 1..MaxHosts /\ e \in Endpoints
      BY <1>1, <1>h, EndpointAssumption, BoundsAssumption, ElementOfSeq, LenProperties DEF ConnectHost
    <2>2. BaseNamespace(e, n) \in BaseNames /\ Attach(e, BaseNamespace(e, n))
      BY <1>1, <2>1, BaseType DEF ConnectHost
    <2> QED BY <1>h, <2>1, <2>2, BoundsAssumption
  <1>2. ASSUME NEW e \in Addable, AddHost(e)
        PROVE  \E base \in BaseNames : Len(hosts) < MaxHosts /\ Attach(e, base)
    <2>1. e \in Endpoints /\ Len(hosts) + 1 \in 1..MaxHosts
      BY <1>2, <1>h, EndpointAssumption, BoundsAssumption DEF AddHost
    <2> QED BY <1>2, <2>1, BaseType DEF AddHost
  <1>3. ASSUME Next, ~ConnectHost, ~ \E e \in Addable : AddHost(e)
        PROVE  UNCHANGED hosts
    BY <1>3 DEF Next, SetupFails, StartOneShot, StartRepl, UserMessage, PromptFails,
                EndOfInput, ModelReplies, ModelAnswers, ModelFails, ModelCalls,
                ServeCall, SearchCall, HostCall, BadName, EndRound, Terminated, vars
  <1> QED BY <1>1, <1>2, <1>3, EndpointAssumption DEF vars

LEMMA NamespaceStep ==
  ASSUME CleanBases, NamespaceInv, [Next]_vars
  PROVE  NamespaceInv'
  <1>1. TypeInv /\ TypeInv'
    BY TypeStep DEF NamespaceInv
  <1>2. CASE UNCHANGED hosts
    BY <1>1, <1>2 DEF NamespaceInv, NamespacesUnique
  <1>3. ASSUME NEW e \in Endpoints, NEW base \in BaseNames,
               Len(hosts) < MaxHosts, Attach(e, base)
        PROVE  NamespaceInv'
    BY <1>1, <1>3, AttachKeepsUnique
  <1> QED BY <1>1, <1>2, <1>3, HostsGrow

\* With clean bases, no two hosts ever share a namespace, whatever is attached
\* in whatever order.
THEOREM NamespacesStayUnique ==
  ASSUME CleanBases
  PROVE  Spec => []NamespacesUnique
  <1>1. Init => NamespaceInv
    BY TypeInit, EmptySeq DEF Init, NamespaceInv, NamespacesUnique
  <1>2. NamespaceInv /\ [Next]_vars => NamespaceInv'
    BY NamespaceStep
  <1>3. NamespaceInv => NamespacesUnique
    BY DEF NamespaceInv
  <1> QED BY <1>1, <1>2, <1>3, PTL DEF Spec

\* Then every tool offered for a host is called on that host, if no server
\* lists a tool with a name of the router's.
THEOREM OfferedToolsStayReachable ==
  ASSUME CleanBases,
         \A e \in Endpoints : ToolsOf[e] \cap {"search_namespaces", "search_tools"} = {}
  PROVE  Spec => []OfferedToolsReachable
  <1>1. TypeOK /\ NamespacesUnique => OfferedToolsReachable
    <2> SUFFICES ASSUME TypeOK, NamespacesUnique, NEW k \in DOMAIN hosts,
                        NEW name \in OfferedBy(k)
                 PROVE  name \notin RouterTools /\ RoutesTo(k, name.ns)
      BY DEF OfferedToolsReachable
    <2>1. hosts \in Seq(Host) /\ Len(hosts) \in Nat /\ k \in 1..Len(hosts)
      BY DEF TypeOK, Host
    <2>2. hosts[k].endpoint \in Endpoints
      <3>1. hosts[k] \in Host
        BY <2>1, ElementOfSeq
      <3> QED BY <3>1 DEF Host
    <2>3. name.ns = hosts[k].namespace /\ name.tool \in ToolsOf[hosts[k].endpoint]
      BY DEF OfferedBy
    <2>4. name \notin RouterTools
      BY <2>2, <2>3 DEF RouterTools
    <2>5. \A j \in 1..(k - 1) : j \in DOMAIN hosts /\ j # k
      BY <2>1
    <2> QED BY <2>3, <2>4, <2>5 DEF RoutesTo, NamespacesUnique
  <1> QED BY <1>1, TypeCorrect, NamespacesStayUnique, PTL
\* What the model has been told of is a tool that some host listed, under the
\* namespace that this host has.
ShownByHosts ==
  \A name \in shown \ RouterTools :
    \E k \in DOMAIN hosts :
      hosts[k].namespace = name.ns /\ name.tool \in ToolsOf[hosts[k].endpoint]

\* A host that is attached keeps its place, its namespace and its endpoint.
LEMMA HostsStay ==
  ASSUME TypeInv, [Next]_vars, NEW k \in DOMAIN hosts
  PROVE  k \in DOMAIN hosts' /\ hosts'[k] = hosts[k]
  <1>h. hosts \in Seq(Host) /\ Len(hosts) \in Nat /\ DOMAIN hosts = 1..Len(hosts)
    BY DEF TypeInv, TypeOK, Host
  <1>1. ASSUME NEW e \in Endpoints, NEW base \in BaseNames,
               Len(hosts) < MaxHosts, Attach(e, base)
        PROVE  k \in DOMAIN hosts' /\ hosts'[k] = hosts[k]
    <2> DEFINE n == Len(hosts) + 1
               h == [namespace |-> Disambiguated(base, n), endpoint |-> e]
    <2>1. h \in Host
      BY <1>h, <1>1, BoundsAssumption DEF Disambiguated, Host
    <2>2. hosts' = Append(hosts, h)
      BY <1>1 DEF Attach
    <2> HIDE DEF h
    <2> QED BY <1>h, <2>1, <2>2, AppendFacts
  <1> QED BY <1>1, HostsGrow

\* Three actions tell the model of tools: those of the request, and those found.
LEMMA ShownStep ==
  ASSUME TypeInv, ShownByHosts, [Next]_vars
  PROVE  ShownByHosts'
  <1>1. UNCHANGED shown => ShownByHosts'
    BY HostsStay DEF ShownByHosts
  <1>2. CASE ModelAnswers \/ ModelFails \/ \E names \in Replies : ModelCalls(names)
    <2>1. shown' = shown \cup Offered /\ hosts' = hosts
      BY <1>2 DEF ModelAnswers, ModelFails, ModelCalls
    <2>2. \A name \in Offered \ RouterTools :
            \E k \in DOMAIN hosts :
              hosts[k].namespace = name.ns /\ name.tool \in ToolsOf[hosts[k].endpoint]
      BY DEF Offered, OfferedBy
    <2> QED BY <2>1, <2>2 DEF ShownByHosts
  <1>3. CASE SearchCall
    <2>1. ASSUME NEW query, NEW ns, shown' = shown \cup SearchTools(query, ns)
          PROVE  ShownByHosts'
      <3>1. \A name \in SearchTools(query, ns) :
              \E k \in DOMAIN hosts :
                hosts[k].namespace = name.ns /\ name.tool \in ToolsOf[hosts[k].endpoint]
        BY DEF SearchTools
      <3>2. hosts' = hosts
        BY <1>3 DEF SearchCall
      <3> QED BY <2>1, <3>1, <3>2 DEF ShownByHosts
    <2> QED BY <1>1, <1>3, <2>1 DEF SearchCall
  <1>4. ASSUME ~ModelReplies, ~SearchCall
        PROVE  UNCHANGED shown
    BY <1>4 DEF Next, ConnectHost, SetupFails, StartOneShot, StartRepl, UserMessage,
                PromptFails, EndOfInput, AddHost, ModelReplies, ServeCall, HostCall,
                BadName, EndRound, Terminated, vars, turnVars
  <1> QED BY <1>1, <1>2, <1>3, <1>4 DEF ModelReplies

\* With clean bases, every tool that the model has ever been told of, by a request
\* or by mcp.search_tools, still leads to a host that has it, whatever hosts are
\* attached since.
THEOREM ShownToolsStayReachable ==
  ASSUME CleanBases
  PROVE  Spec => []ShownToolsReachable
  <1>1. Init => ShownByHosts
    BY DEF Init, ShownByHosts
  <1>2. TypeInv /\ ShownByHosts /\ [Next]_vars => ShownByHosts'
    BY ShownStep
  <1>3. TypeOK /\ NamespacesUnique /\ ShownByHosts => ShownToolsReachable
    <2> SUFFICES ASSUME TypeOK, NamespacesUnique, NEW name, NEW k \in DOMAIN hosts,
                        hosts[k].namespace = name.ns
                 PROVE  RoutesTo(k, name.ns)
      BY DEF ShownByHosts, ShownToolsReachable
    <2>1. Len(hosts) \in Nat /\ DOMAIN hosts = 1..Len(hosts)
      BY DEF TypeOK, Host
    <2>2. \A j \in 1..(k - 1) : j \in DOMAIN hosts /\ j # k
      BY <2>1
    <2> QED BY <2>2 DEF RoutesTo, NamespacesUnique
  <1> QED BY <1>1, <1>2, <1>3, TypeInit, TypeStep, TypeCorrect, NamespacesStayUnique, PTL
          DEF Spec
-----------------------------------------------------------------------------
(* Routing *)

\* Attaching a host never takes a namespace away from another, unique or not.
THEOREM RoutingStable == Spec => StableRouting
  <1>1. ASSUME TypeInv, [Next]_vars, NEW k \in DOMAIN hosts,
               RoutesTo(k, hosts[k].namespace)
        PROVE  hosts'[k] = hosts[k] /\ RoutesTo(k, hosts[k].namespace)'
    <2>h. hosts \in Seq(Host) /\ Len(hosts) \in Nat /\ DOMAIN hosts = 1..Len(hosts)
      BY <1>1 DEF TypeInv, TypeOK, Host
    <2>1. \/ UNCHANGED hosts
          \/ \E h \in Host : hosts' = Append(hosts, h)
      <3>1. ASSUME NEW e \in Endpoints, NEW base \in BaseNames,
                   Len(hosts) < MaxHosts, Attach(e, base)
            PROVE  \E h \in Host : hosts' = Append(hosts, h)
        <4> DEFINE n == Len(hosts) + 1
                   h == [namespace |-> Disambiguated(base, n), endpoint |-> e]
        <4>1. h \in Host
          BY <2>h, <3>1, BoundsAssumption DEF Disambiguated, Host
        <4> QED BY <3>1, <4>1 DEF Attach
      <3> QED BY <1>1, <3>1, HostsGrow
    <2>2. CASE UNCHANGED hosts
      BY <1>1, <2>2 DEF RoutesTo
    <2>3. ASSUME NEW h \in Host, hosts' = Append(hosts, h)
          PROVE  hosts'[k] = hosts[k] /\ RoutesTo(k, hosts[k].namespace)'
      <3>1. /\ DOMAIN hosts' = 1..(Len(hosts) + 1)
            /\ \A j \in 1..Len(hosts) : hosts'[j] = hosts[j]
        BY <2>h, <2>3, AppendFacts
      <3>2. k \in 1..Len(hosts) /\ k \in DOMAIN hosts'
            /\ \A j \in 1..(k - 1) : j \in 1..Len(hosts)
        BY <2>h, <3>1
      <3> QED BY <1>1, <3>1, <3>2 DEF RoutesTo
    <2> QED BY <2>1, <2>2, <2>3
  <1>2. TypeInv /\ [Next]_vars => [\A k \in DOMAIN hosts : StaysRouted(k)]_vars
    BY <1>1 DEF StaysRouted
  <1> QED BY <1>2, TypeInit, TypeStep, PTL DEF Spec, StableRouting
-----------------------------------------------------------------------------
(* Refinement *)

\* The session implements Conversation: every step of it is a step of the
\* conversation or leaves the conversation where it is.
THEOREM SessionRefinesConversation == Spec => KeepsConversation
  <1>1. Init => Conv!Init
    BY DEF Init, Conv!Init
  <1>2. [Next]_vars => [Conv!Next]_(Conv!vars)
    <2> SUFFICES ASSUME [Next]_vars
                 PROVE  Conv!Next \/ UNCHANGED Conv!vars
      BY DEF Conv!vars
    <2>1. CASE StartOneShot \/ UserMessage
      BY <2>1 DEF StartOneShot, UserMessage, BeginTurn, Conv!Next, Conv!Take
    <2>2. CASE ModelAnswers
      BY <2>2 DEF ModelAnswers, Conv!Next, Conv!Answer
    <2>3. CASE SetupFails \/ PromptFails \/ EndOfInput \/ ModelFails \/ BadName
      BY <2>3 DEF SetupFails, PromptFails, EndOfInput, ModelFails, BadName, turnVars,
                  Conv!Next, Conv!Leave
    <2>4. CASE ConnectHost \/ (\E e \in Addable : AddHost(e)) \/ StartRepl \/ UNCHANGED vars
      BY <2>4 DEF ConnectHost, AddHost, StartRepl, vars, turnVars, Conv!vars
    <2>5. CASE \/ \E names \in Replies : ModelCalls(names)
               \/ SearchCall
               \/ \E k \in DOMAIN hosts, ok \in BOOLEAN : HostCall(k, ok)
      BY <2>5 DEF ModelCalls, SearchCall, HostCall, Conv!vars
    <2>6. CASE EndRound
      BY <2>6 DEF EndRound, Conv!Next, Conv!Leave, Conv!vars
    <2> QED BY <2>1, <2>2, <2>3, <2>4, <2>5, <2>6 DEF Next, ModelReplies, ServeCall, Terminated
  <1> QED BY <1>1, <1>2, PTL DEF Spec, KeepsConversation
=============================================================================
