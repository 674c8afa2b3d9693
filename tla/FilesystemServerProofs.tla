----------------------- MODULE FilesystemServerProofs -----------------------
(***************************************************************************)
(* Theorems about FilesystemServer for every tree, start directory and set *)
(* of calls, every number of requests and restarts, whatever the user types*)
(* and whatever other processes do meanwhile.                              *)
(***************************************************************************)
EXTENDS FilesystemServer, SequenceTheorems, TLAPS

\* What is proved of the transport on its own.
H == INSTANCE HttpTransportProofs WITH Sessions <- FALSE, Streams <- FALSE

LEMMA TransportAssumption == H!HttpAssumption
  BY FilesystemAssumption DEF H!HttpAssumption

\* T, the transport the server is behind, and H are the same system.
LEMMA SameSystem ==
  /\ T!Init <=> H!Init
  /\ [T!Next]_(T!vars) <=> [H!Next]_(H!vars)
  /\ T!TypeOK <=> H!TypeOK
  BY DEF T!client, H!client, T!outcome, H!outcome, T!server, H!server, T!vars, H!vars,
         T!Ids, H!Ids, T!NoSession, H!NoSession, T!SessionIds, H!SessionIds,
         T!Notified, H!Notified, T!Methods, H!Methods, T!Messages, H!Messages,
         T!Nothing, H!Nothing, T!Kinds, H!Kinds, T!NoResponse, H!NoResponse,
         T!MethodIn, H!MethodIn, T!Post, H!Post, T!Free, H!Free, T!NotificationId,
         H!NotificationId, T!Fail, H!Fail, T!Succeed, H!Succeed, T!Remember,
         H!Remember, T!Broken, H!Broken, T!Abandonable, H!Abandonable, T!Respond,
         H!Respond, T!KnowsSession, H!KnowsSession, T!Init, H!Init, T!TypeOK,
         H!TypeOK, T!Responses, H!Responses, T!Request, H!Request, T!Notify, H!Notify,
         T!Receive, H!Receive, T!GiveUp, H!GiveUp, T!Close, H!Close, T!Refuse,
         H!Refuse, T!Restart, H!Restart, T!Terminated, H!Terminated, T!Take, H!Take,
         T!Serve, H!Serve, T!Next, H!Next, T!ServerStep, H!ServerStep
-----------------------------------------------------------------------------
(* Paths *)

Paths == Seq(STRING)

LEMMA PrefixMeans ==
  ASSUME NEW s \in Paths, NEW t \in Paths
  PROVE  IsPrefix(s, t) <=> Len(s) <= Len(t) /\ \A i \in 1..Len(s) : s[i] = t[i]
  <1>1. Len(s) \in Nat /\ Len(t) \in Nat
    BY LenProperties DEF Paths
  <1> SUFFICES ASSUME Len(s) <= Len(t)
               PROVE  SubSeq(s, 1, Len(s)) = SubSeq(t, 1, Len(s))
                        <=> \A i \in 1..Len(s) : s[i] = t[i]
    BY DEF IsPrefix
  <1> DEFINE a == SubSeq(s, 1, Len(s))
             b == SubSeq(t, 1, Len(s))
  <1>2. \A i \in 1..Len(s) : s[i] \in STRING /\ t[i] \in STRING
    BY <1>1, ElementOfSeq DEF Paths
  <1>3. /\ a \in Paths /\ b \in Paths /\ Len(a) = Len(s) /\ Len(b) = Len(s)
        /\ \A i \in 1..Len(s) : a[i] = s[i] /\ b[i] = t[i]
    BY <1>1, <1>2, SubSeqProperties DEF Paths
  <1> HIDE DEF a, b
  <1>4. (\A i \in 1..Len(s) : s[i] = t[i]) => a = b
    BY <1>3, SeqEqual DEF Paths
  <1> QED BY <1>3, <1>4 DEF a, b

LEMMA PrefixTransitive ==
  ASSUME NEW s \in Paths, NEW t \in Paths, NEW u \in Paths, IsPrefix(s, t), IsPrefix(t, u)
  PROVE  IsPrefix(s, u)
  <1>1. Len(s) \in Nat /\ Len(t) \in Nat /\ Len(u) \in Nat
    BY LenProperties DEF Paths
  <1> QED BY <1>1, PrefixMeans

\* A path lies under the directory it is in.
LEMMA FrontFacts ==
  ASSUME NEW p \in Paths
  PROVE  Front(p) \in Paths /\ IsPrefix(Front(p), p) /\ Front(<< >>) = << >>
  <1>1. Len(p) \in Nat /\ \A i \in 1..Len(p) : p[i] \in STRING
    BY LenProperties, ElementOfSeq DEF Paths
  <1>2. Front(<< >>) = << >>
    BY SubSeqEmpty, EmptySeq DEF Front
  <1>3. CASE Len(p) = 0
    <2>1. p = << >>
      BY <1>3, EmptySeq DEF Paths
    <2> QED BY <1>2, <2>1, PrefixMeans
  <1>4. CASE Len(p) # 0
    <2> DEFINE n == Len(p) - 1
               f == SubSeq(p, 1, n)
    <2>1. n \in Nat /\ n <= Len(p) /\ \A i \in 1..n : p[i] \in STRING
      BY <1>1, <1>4
    <2> HIDE DEF n
    <2>2. /\ f \in Paths /\ Len(f) = IF 1 <= n THEN n - 1 + 1 ELSE 0
          /\ \A i \in 1..(n - 1 + 1) : f[i] = p[1 + i - 1]
      BY <2>1, SubSeqProperties DEF Paths
    <2> HIDE DEF f
    <2>3. Len(f) = n /\ \A i \in 1..n : f[i] = p[i]
      BY <2>1, <2>2
    <2>4. IsPrefix(f, p)
      BY <2>1, <2>2, <2>3, PrefixMeans
    <2> QED BY <1>2, <2>2, <2>4 DEF Front, f, n
  <1> QED BY <1>3, <1>4

-----------------------------------------------------------------------------
(* The transport *)

\* A reply carries the message out; a step of the server answers one message.
LEMMA ServeIsStep ==
  ASSUME NEW kind \in T!Kinds, T!Serve(kind)
  PROVE  T!Next
  BY DEF T!Next, T!ServerStep

LEMMA KindsAre == "result" \in T!Kinds /\ "accepted" \in T!Kinds
  BY DEF T!Kinds

LEMMA TransportSteps == [Next]_vars => [H!Next]_(H!vars)
  <1> SUFFICES ASSUME [Next]_vars
               PROVE  [T!Next]_(T!vars)
    BY SameSystem
  <1>1. CASE UNCHANGED transport
    BY <1>1 DEF transport, T!vars, T!client, T!outcome, T!server
  <1>2. CASE ClientStep
    BY <1>2 DEF ClientStep, T!Next
  <1>3. ASSUME NEW message \in wire,
               TakeOther(message) \/ \E c \in Calls : TakeCall(message, c)
        PROVE  [T!Next]_(T!vars)
    BY <1>3 DEF TakeOther, TakeCall, T!Next, T!ServerStep
  <1>4. CASE Reply
    BY <1>4, KindsAre, ServeIsStep DEF Reply
  <1>5. CASE ReplyOther
    BY <1>5, KindsAre, ServeIsStep DEF ReplyOther
  <1>6. CASE Restart
    BY <1>6 DEF Restart, T!Next
  <1>7. ReplyAtOnce \/ Deny \/ TakeSuggestion => Reply
    BY DEF ReplyAtOnce, Deny, TakeSuggestion
  <1>8. Agree => UNCHANGED transport \/ Reply
    BY DEF Agree, AskNext, Perform, Show, ChangeDir, WriteFile, RemovePath, OperationFails
  <1>9. AskAgain \/ CloseInput \/ OtherProcess \/ (\E line \in Lines : Type(line))
          => UNCHANGED transport
    BY DEF AskAgain, CloseInput, OtherProcess, Type
  <1>10. Terminated \/ UNCHANGED vars => UNCHANGED transport
    BY DEF Terminated, vars
  <1> QED BY <1>1, <1>2, <1>3, <1>4, <1>5, <1>6, <1>7, <1>8, <1>9, <1>10
          DEF Next, ServerStep, Dialogue

\* The server behaves towards its client as HttpTransport says, questions,
\* refusals and changes of the files notwithstanding (KeepsTransport without its
\* fairness).
THEOREM FilesystemRefinesTransport == Spec => T!Init /\ [][T!Next]_(T!vars)
  <1>1. Init => T!Init
    BY DEF Init
  <1>2. [Next]_vars => [T!Next]_(T!vars)
    BY TransportSteps, SameSystem
  <1> QED BY <1>1, <1>2, PTL DEF Spec

LEMMA TransportInit == Init => H!HttpInv
  BY SameSystem, TransportAssumption, H!HttpInit DEF Init

LEMMA TransportStep == H!HttpInv /\ [Next]_vars => H!HttpInv'
  BY TransportSteps, TransportAssumption, H!HttpStep

-----------------------------------------------------------------------------
(* The dialogue with the user *)

Questions == {"none", "confirm", "suggest", "allow", "outside", "remove"}
TypedLine == [line : Lines, seen : Nat]

\* A question is about the tool call that is being served.
DialogueInv ==
  /\ call \in Calls \cup {NoCall} /\ question \in Questions
  /\ typed \in Seq(TypedLine) /\ closed \in BOOLEAN
  /\ question # "none" => serving # T!Nothing /\ serving.method = "tools/call"
  /\ question = "confirm" => call.tool = "confirm"
  /\ path \in Paths /\ workingDir \in InitialDirs

LEMMA DialogueInit == Init => DialogueInv
  <1>1. StartDir \in InitialDirs /\ << >> \in Paths
    BY FilesystemAssumption DEF Paths
  <1>2. << >> \in Seq(TypedLine)
    BY EmptySeq
  <1> QED BY <1>1, <1>2 DEF Init, DialogueInv, Questions

\* The request that is being served has an id if it is a tool call.
LEMMA ServedHasId ==
  ASSUME H!HttpInv, serving # T!Nothing, serving.method = "tools/call"
  PROVE  serving.id \in T!Ids /\ serving.id # T!Notified
  <1>1. serving \in T!Messages
    BY SameSystem DEF H!HttpInv, T!TypeOK
  <1> QED BY <1>1 DEF T!Messages, T!Ids, T!Notified

\* The reply to a tool call carries its request out, and ends the dialogue.
LEMMA ReplyFacts ==
  ASSUME H!HttpInv, serving.method = "tools/call", Reply
  PROVE  /\ serving.id \in T!Ids /\ ~H!Carried(serving.id)
         /\ \E n \in DOMAIN log' : log'[n] = serving.id
         /\ question' = "none" /\ UNCHANGED <<call, path>>
  <1>1. serving # T!Nothing /\ T!Serve("result")
    BY DEF Reply, T!Serve
  <1>2. serving.id \in T!Ids /\ serving.id # T!Notified
    BY <1>1, ServedHasId
  <1>3. ~H!Carried(serving.id)
    BY <1>1, <1>2 DEF H!HttpInv, H!FlightInv, H!InFlight, H!Nothing, T!Nothing, H!Notified,
                      T!Notified, H!NoSession, T!NoSession
  <1>4. log' = Append(log, serving.id) /\ log \in Seq(T!Ids)
    BY <1>1, <1>2, SameSystem DEF T!Serve, H!HttpInv, T!TypeOK
  <1>5. /\ Len(log) \in Nat /\ DOMAIN log' = 1..(Len(log) + 1)
        /\ log'[Len(log) + 1] = serving.id
    BY <1>2, <1>4, H!LogFacts
  <1>6. Len(log) + 1 \in DOMAIN log'
    BY <1>5
  <1> QED BY <1>2, <1>3, <1>5, <1>6 DEF Reply

LEMMA ReadFacts ==
  ASSUME DialogueInv, NEW line \in Lines, Read(line)
  PROVE  typed' \in Seq(TypedLine) /\ closed' = closed
  BY HeadTailProperties DEF DialogueInv, Read

\* The path of a call is a path.
LEMMA JoinedIsPath ==
  ASSUME DialogueInv, NEW c \in Calls
  PROVE  Joined(c) \in Paths
  <1>1. workingDir \in Paths /\ c.path \in Paths
    BY FilesystemAssumption DEF DialogueInv, Paths
  <1>2. Front(workingDir) \in Paths
    BY <1>1, FrontFacts
  <1>3. Front(workingDir) \o c.path \in Paths /\ workingDir \o c.path \in Paths
    BY <1>1, <1>2, ConcatProperties DEF Paths
  <1> QED BY <1>1, <1>3 DEF Joined

LEMMA DialogueStep ==
  H!HttpInv /\ DialogueInv /\ dirs \subseteq InitialDirs /\ [Next]_vars => DialogueInv'
  <1> SUFFICES ASSUME H!HttpInv, DialogueInv, dirs \subseteq InitialDirs, [Next]_vars
               PROVE  DialogueInv'
    OBVIOUS
  <1>1. CASE UNCHANGED <<fs, serving>>
    BY <1>1 DEF fs, dialogue, terminal, DialogueInv
  <1>2. ClientStep \/ Terminated \/ UNCHANGED vars => UNCHANGED <<fs, serving>>
    BY DEF ClientStep, Terminated, vars, transport, T!Request, T!Notify, T!Receive, T!GiveUp,
           T!Close, T!server
  <1>3. ASSUME NEW message \in wire, TakeOther(message)
        PROVE  DialogueInv'
    <2>1. question = "none" /\ UNCHANGED fs
      BY <1>3 DEF TakeOther, T!Take, DialogueInv
    <2> QED BY <2>1 DEF fs, dialogue, terminal, DialogueInv
  <1>4. ASSUME NEW message \in wire, NEW c \in Calls, TakeCall(message, c)
        PROVE  DialogueInv'
    <2>1. serving' = message /\ message # T!Nothing /\ message.method = "tools/call"
      BY <1>4 DEF TakeCall, T!Take, T!Nothing
    <2>2. FirstQuestion(c) \in Questions /\ (FirstQuestion(c) = "confirm" => c.tool = "confirm")
      BY DEF FirstQuestion, Questions
    <2>3. path' \in Paths
      BY <1>4, JoinedIsPath, EmptySeq DEF TakeCall, Paths
    <2> QED BY <1>4, <2>1, <2>2, <2>3 DEF TakeCall, terminal, DialogueInv
  <1>5. ASSUME Reply, serving.method = "tools/call",
               workingDir' \in InitialDirs, typed' \in Seq(TypedLine), closed' = closed
        PROVE  DialogueInv'
    BY <1>5, ReplyFacts DEF DialogueInv, Questions
  <1>6. CASE ReplyAtOnce
    BY <1>5, <1>6 DEF ReplyAtOnce, terminal, DialogueInv
  <1>7. CASE ReplyOther
    <2>1. question = "none" /\ UNCHANGED fs
      BY <1>7 DEF ReplyOther, DialogueInv
    <2> QED BY <2>1 DEF fs, dialogue, terminal, DialogueInv
  <1>8. CASE Agree
    <2>1. typed' \in Seq(TypedLine) /\ closed' = closed /\ question # "none"
          /\ serving.method = "tools/call"
      BY <1>8, ReadFacts DEF Agree, Lines, Read, DialogueInv
    <2>2. CASE AskNext
      <3>1. NextQuestion \in Questions \ {"confirm"}
        BY DEF NextQuestion, Questions
      <3> QED BY <2>1, <2>2, <3>1 DEF AskNext, transport, DialogueInv
    <2>3. CASE Perform
      <3>1. Reply /\ workingDir' \in InitialDirs
        BY <2>3 DEF Perform, Show, ChangeDir, WriteFile, RemovePath, OperationFails, DialogueInv
      <3> QED BY <1>5, <2>1, <3>1
    <2> QED BY <1>8, <2>2, <2>3 DEF Agree
  <1>9. CASE Deny \/ TakeSuggestion
    <2>1. /\ Reply /\ workingDir' = workingDir /\ question # "none"
          /\ \E line \in Lines : Read(line)
      BY <1>9 DEF Deny, TakeSuggestion, Lines, Read
    <2> QED BY <1>5, <2>1, ReadFacts DEF DialogueInv
  <1>10. CASE AskAgain
    <2>1. Read("junk") /\ UNCHANGED <<transport, dialogue, workingDir>>
      BY <1>10 DEF AskAgain
    <2> QED BY <2>1, ReadFacts DEF Lines, transport, dialogue, DialogueInv
  <1>11. ASSUME NEW line \in Lines, Type(line)
         PROVE  DialogueInv'
    <2> DEFINE new == [line |-> line, seen |-> Removing]
    <2>1. question = "remove" => serving.id \in T!Ids
      BY ServedHasId DEF DialogueInv
    <2>2. Removing \in Nat
      BY <2>1, FilesystemAssumption DEF Removing, T!Ids, T!Notified
    <2>3. new \in TypedLine
      BY <2>2 DEF TypedLine
    <2>4. typed' = Append(typed, new)
      BY <1>11 DEF Type
    <2> HIDE DEF new
    <2>5. typed' \in Seq(TypedLine)
      BY <2>3, <2>4, AppendProperties DEF DialogueInv
    <2> QED BY <1>11, <2>5 DEF Type, transport, dialogue, DialogueInv
  <1>12. CASE CloseInput \/ OtherProcess
    BY <1>12 DEF CloseInput, OtherProcess, transport, dialogue, terminal, DialogueInv
  <1>13. CASE Restart
    BY <1>13, FilesystemAssumption, EmptySeq DEF Restart, DialogueInv, Questions, Paths
  <1> QED BY <1>1, <1>2, <1>3, <1>4, <1>6, <1>7, <1>8, <1>9, <1>10, <1>11, <1>12, <1>13
          DEF Next, ServerStep, Dialogue

-----------------------------------------------------------------------------
(* The tree *)

\* The files form a tree, and only directories that were there from the start are
\* still there.
TreeInv ==
  /\ << >> \in dirs /\ dirs \cap files = {}
  /\ dirs \subseteq InitialDirs /\ files \subseteq Paths
  /\ \A p \in Existing : Front(p) \in dirs

LEMMA TreeInit == Init => TreeInv
  <1> SUFFICES ASSUME Init
               PROVE  TreeInv
    OBVIOUS
  <1>1. Front(<< >>) = << >>
    BY FrontFacts, EmptySeq DEF Paths
  <1> QED BY <1>1, FilesystemAssumption DEF Init, TreeInv, Existing, Paths

\* The steps that change something.
Operation == ChangeDir \/ WriteFile \/ RemovePath

LEMMA TreeStep == DialogueInv /\ TreeInv /\ [Next]_vars => TreeInv'
  <1> SUFFICES ASSUME DialogueInv, TreeInv, [Next]_vars
               PROVE  TreeInv'
    OBVIOUS
  <1>1. CASE UNCHANGED tree
    BY <1>1 DEF tree, TreeInv, Existing
  <1>2. CASE WriteFile
    BY <1>2 DEF WriteFile, TreeInv, Existing, DialogueInv
  <1>3. CASE RemovePath
    <2>1. PICK gone \in SUBSET Under(path) :
            /\ << >> \notin gone /\ \A p \in gone : Under(p) \subseteq gone
            /\ dirs' = dirs \ gone /\ files' = files \ gone
      BY <1>3 DEF RemovePath
    <2>2. ASSUME NEW p \in Existing, p \notin gone
          PROVE  Front(p) \notin gone
      <3>1. p \in Paths
        BY FilesystemAssumption DEF TreeInv, Existing, Paths
      <3>2. p \in Under(Front(p))
        BY <3>1, FrontFacts DEF Under
      <3> QED BY <2>1, <2>2, <3>2
    <2> QED BY <2>1, <2>2 DEF TreeInv, Existing
  <1>4. CASE OtherProcess
    <2>1. PICK p \in Volatile :
            /\ Front(p) \in dirs /\ UNCHANGED dirs
            /\ files' = IF p \in files THEN files \ {p} ELSE files \cup {p}
      BY <1>4 DEF OtherProcess
    <2>2. p \notin InitialDirs /\ p \in Paths
      BY FilesystemAssumption DEF Paths
    <2> QED BY <2>1, <2>2 DEF TreeInv, Existing
  <1>5. Agree => UNCHANGED tree \/ WriteFile \/ RemovePath
    BY DEF Agree, AskNext, Perform, Show, ChangeDir, OperationFails, tree
  <1>6. ClientStep \/ ReplyAtOnce \/ ReplyOther \/ Deny \/ AskAgain \/ TakeSuggestion
          \/ CloseInput \/ Restart \/ Terminated \/ UNCHANGED vars => UNCHANGED tree
    BY DEF ClientStep, ReplyAtOnce, ReplyOther, Deny, AskAgain, TakeSuggestion, CloseInput,
           Restart, Terminated, vars, fs, tree
  <1>7. (\E line \in Lines : Type(line)) => UNCHANGED tree
    BY DEF Type, tree
  <1>8. (\E message \in wire : TakeOther(message) \/ \E c \in Calls : TakeCall(message, c))
          => UNCHANGED tree
    BY DEF TakeOther, TakeCall, fs, tree
  <1> QED BY <1>1, <1>2, <1>3, <1>4, <1>5, <1>6, <1>7, <1>8 DEF Next, ServerStep, Dialogue
-----------------------------------------------------------------------------
(* The inductive invariant without the consents *)

FsInv == H!HttpInv /\ DialogueInv /\ TreeInv

LEMMA FsInit == Init => FsInv
  BY TransportInit, DialogueInit, TreeInit DEF FsInv

LEMMA FsStep == FsInv /\ [Next]_vars => FsInv'
  BY TransportStep, DialogueStep, TreeStep DEF FsInv, TreeInv

\* The state keeps its types: what is read is a line, what is asked a question,
\* and the files stay a tree, whatever is removed half way.
THEOREM FilesystemTypeCorrect == Spec => []TypeOK
  <1>1. FsInv => TypeOK
    <2> SUFFICES ASSUME FsInv
                 PROVE  TypeOK
      OBVIOUS
    <2>1. \A i \in DOMAIN typed : typed[i] \in TypedLine
      BY ElementOfSeq, LenProperties DEF FsInv, DialogueInv
    <2>2. \A i \in DOMAIN typed : typed[i].line \in Lines
      BY <2>1 DEF TypedLine
    <2> QED BY <2>2, SameSystem
            DEF FsInv, TypeOK, DialogueInv, TreeInv, Questions, H!HttpInv
  <1> QED BY <1>1, FsInit, FsStep, PTL DEF Spec
-----------------------------------------------------------------------------
(* The consents *)

Consent == [to : Questions, fresh : BOOLEAN]
Effect == [what : {"entered", "written", "removed"}, path : Paths]

\* The questions the user said yes to within request id.
Agreed(id) == {c.to : c \in consents[id]}

\* What an operation of the kind what on path p needs the user's consent to.
Needed(what, p) ==
  {"allow"} \cup (IF IsPrefix(StartDir, p) THEN {} ELSE {"outside"})
            \cup (IF what = "removed" THEN {"remove"} ELSE {})

\* A question is asked when those before it have been agreed to; what has an
\* effect has been carried out; and only a removal makes a directory go.
ConsentInv ==
  /\ consents \in [T!Ids -> SUBSET Consent]
  /\ effects \in [T!Ids -> SUBSET Effect]
  /\ question \in {"outside", "remove"} => "allow" \in Agreed(serving.id)
  /\ question = "remove" => Inside(path) \/ "outside" \in Agreed(serving.id)
  /\ \A id \in T!Ids : effects[id] # {} => H!Carried(id)
  /\ AgreedBefore
  /\ \A p \in InitialDirs \ dirs :
       \E id \in T!Ids : [what |-> "removed", path |-> p] \in effects[id]

LEMMA ConsentInit == Init => ConsentInv
  BY DEF Init, ConsentInv, AgreedBefore

LEMMA AgreedMeans ==
  AgreedBefore <=> \A id \in T!Ids : \A e \in effects[id] :
                     Needed(e.what, e.path) \subseteq Agreed(id)
  BY DEF AgreedBefore, Needed, Agreed

\* What was carried out stays carried out.
LEMMA CarriedStays ==
  ASSUME FsInv, [Next]_vars, NEW id \in T!Ids, H!Carried(id)
  PROVE  H!Carried(id)'
  BY TransportSteps, TransportAssumption, H!RpcStep, H!RpcFacts
     DEF FsInv, H!HttpInv, T!Ids, H!Ids

\* Steps that neither read a yes nor change anything.
LEMMA QuietKeepsConsents ==
  ASSUME FsInv, ConsentInv, [Next]_vars, UNCHANGED <<consents, effects, dirs>>,
         question' \notin {"outside", "remove"} \/ UNCHANGED <<question, serving, path>>
  PROVE  ConsentInv'
  <1>1. \A id \in T!Ids : effects'[id] # {} => H!Carried(id)'
    BY CarriedStays DEF ConsentInv
  <1>2. AgreedBefore'
    BY DEF ConsentInv, AgreedBefore
  <1>3. /\ question' \in {"outside", "remove"} => "allow" \in Agreed(serving.id)'
        /\ question' = "remove" => Inside(path)' \/ "outside" \in Agreed(serving.id)'
    BY DEF ConsentInv, Agreed, Inside
  <1> QED BY <1>1, <1>2, <1>3 DEF ConsentInv

\* A yes is a consent of the request that is being served, and of no other.
LEMMA AgreeFacts ==
  ASSUME FsInv, ConsentInv, Agree
  PROVE  /\ serving.id \in T!Ids /\ question \in Questions \ {"none", "suggest"}
         /\ consents' \in [T!Ids -> SUBSET Consent]
         /\ Agreed(serving.id) \cup {question} \subseteq {c.to : c \in consents'[serving.id]}
         /\ \A id \in T!Ids : Agreed(id) \subseteq {c.to : c \in consents'[id]}
  <1> DEFINE new == [to |-> question, fresh |-> Head(typed).seen = serving.id]
  <1>1. question \in Questions \ {"none", "suggest"} /\ serving.id \in T!Ids
    BY ServedHasId DEF Agree, Read, FsInv, DialogueInv
  <1>2. new \in Consent /\ new.to = question
    BY <1>1 DEF Consent
  <1>3. consents' = [consents EXCEPT ![serving.id] = @ \cup {new}]
    BY DEF Agree
  <1> HIDE DEF new
  <1>4. \A id \in T!Ids : consents[id] \subseteq consents'[id]
    BY <1>1, <1>3 DEF ConsentInv
  <1>5. new \in consents'[serving.id]
    BY <1>1, <1>3 DEF ConsentInv
  <1>6. consents' \in [T!Ids -> SUBSET Consent]
    BY <1>1, <1>2, <1>3 DEF ConsentInv
  <1> QED BY <1>1, <1>2, <1>4, <1>5, <1>6 DEF Agreed

\* When the last question is answered, all that the operation needs is agreed to.
LEMMA OperationAgreed ==
  ASSUME FsInv, ConsentInv, Agree, NextQuestion = "none", Operation
  PROVE  /\ "allow" \in Agreed(serving.id) \cup {question}
         /\ Inside(path) \/ "outside" \in Agreed(serving.id) \cup {question}
         /\ call.tool = "ask-rm" => question = "remove"
  <1>1. question \in {"allow", "outside", "remove"}
    BY AgreeFacts DEF Operation, ChangeDir, WriteFile, RemovePath, FsInv, DialogueInv, Questions
  <1> QED BY <1>1 DEF ConsentInv, NextQuestion

\* The effects of an operation are those it has the consent to, and they replace
\* none: the request was not carried out before.
LEMMA OperationKeepsConsents ==
  ASSUME FsInv, ConsentInv, [Next]_vars, Agree, NextQuestion = "none", Operation
  PROVE  ConsentInv'
  <1>0. PICK id \in T!Ids : id = serving.id
    BY AgreeFacts
  <1>1. PICK what \in {"entered", "written", "removed"}, paths \in SUBSET Paths :
          /\ Did(what, paths)
          /\ \A p \in paths : IsPrefix(path, p)
          /\ what = "removed" <=> call.tool = "ask-rm"
          /\ what # "removed" => dirs' = dirs
          /\ what = "removed" => dirs' = dirs \ paths
    <2>0. path \in Paths /\ IsPrefix(path, path)
      BY PrefixMeans DEF FsInv, DialogueInv
    <2>1. CASE ChangeDir
      <3>1. Did("entered", {path}) /\ dirs' = dirs /\ call.tool = "cd"
        BY <2>1 DEF ChangeDir, tree
      <3> QED BY <2>0, <3>1
    <2>2. CASE WriteFile
      <3>1. Did("written", {path}) /\ dirs' = dirs /\ call.tool # "ask-rm"
        BY <2>2 DEF WriteFile
      <3> QED BY <2>0, <3>1
    <2>3. CASE RemovePath
      <3>1. PICK gone \in SUBSET Under(path) : Did("removed", gone) /\ dirs' = dirs \ gone
        BY <2>3 DEF RemovePath
      <3>2. gone \subseteq Paths /\ \A p \in gone : IsPrefix(path, p)
        BY FilesystemAssumption DEF Under, Existing, FsInv, TreeInv, Paths
      <3>3. call.tool = "ask-rm"
        BY <2>3 DEF RemovePath
      <3> QED BY <3>1, <3>2, <3>3
    <2> QED BY <2>1, <2>2, <2>3 DEF Operation
  <1> DEFINE did == {[what |-> what, path |-> p] : p \in paths}
  <1>2. ~H!Carried(id) /\ H!Carried(id)' /\ question' = "none"
    <2>1. Reply
      BY DEF Operation, ChangeDir, WriteFile, RemovePath
    <2>2. serving.method = "tools/call"
      BY AgreeFacts DEF FsInv, DialogueInv
    <2> QED BY <1>0, <2>1, <2>2, ReplyFacts DEF FsInv, H!Carried
  <1>3. effects[id] = {} /\ effects' = [effects EXCEPT ![id] = did]
    BY <1>0, <1>1, <1>2 DEF ConsentInv, Did
  <1>4. did \subseteq Effect
    BY DEF Effect
  <1> HIDE DEF did
  <1>5. effects' \in [T!Ids -> SUBSET Effect]
    BY <1>2, <1>3, <1>4 DEF ConsentInv
  <1>6. \A i \in T!Ids : effects'[i] # {} => H!Carried(i)'
    BY <1>2, <1>3, CarriedStays DEF ConsentInv
  <1>7. \A p \in InitialDirs \ dirs' :
          \E i \in T!Ids : [what |-> "removed", path |-> p] \in effects'[i]
    <2> SUFFICES ASSUME NEW p \in InitialDirs \ dirs'
                 PROVE  \E i \in T!Ids : [what |-> "removed", path |-> p] \in effects'[i]
      OBVIOUS
    <2>1. CASE p \in dirs
      <3>1. what = "removed" /\ p \in paths
        BY <1>1, <2>1
      <3> QED BY <1>2, <1>3, <3>1 DEF ConsentInv, did
    <2>2. CASE p \notin dirs
      <3>1. PICK i \in T!Ids : [what |-> "removed", path |-> p] \in effects[i]
        BY <2>2 DEF ConsentInv
      <3>2. i # id
        BY <1>3, <3>1
      <3> QED BY <1>3, <3>1, <3>2 DEF ConsentInv
    <2> QED BY <2>1, <2>2
  <1>8. ASSUME NEW i \in T!Ids, NEW e \in effects'[i]
        PROVE  Needed(e.what, e.path) \subseteq {c.to : c \in consents'[i]}
    <2>1. CASE i # id
      <3>1. e \in effects[i]
        BY <1>3, <1>8, <2>1 DEF ConsentInv
      <3> QED BY <3>1, AgreedMeans, AgreeFacts DEF ConsentInv
    <2>2. CASE i = id
      <3>1. e \in did
        BY <1>2, <1>3, <1>8, <2>2 DEF ConsentInv
      <3>2. PICK p \in paths : e = [what |-> what, path |-> p]
        BY <3>1 DEF did
      <3>3. e.what = what /\ e.path = p
        BY <3>2
      <3>4. Inside(path) => IsPrefix(StartDir, p)
        BY <1>1, PrefixTransitive, FilesystemAssumption
           DEF Inside, FsInv, DialogueInv, Paths
      <3>5. Needed(what, p) \subseteq Agreed(id) \cup {question}
        BY <1>0, <1>1, <3>4, OperationAgreed DEF Needed
      <3> QED BY <1>0, <2>2, <3>3, <3>5, AgreeFacts
    <2> QED BY <2>1, <2>2
  <1>9. AgreedBefore'
    BY <1>8 DEF AgreedBefore, Needed
  <1> QED BY <1>2, <1>5, <1>6, <1>7, <1>9, AgreeFacts DEF ConsentInv

\* After a yes that another question follows, or an operation that fails.
LEMMA AgreeKeepsConsents ==
  ASSUME FsInv, ConsentInv, [Next]_vars, Agree
  PROVE  ConsentInv'
  <1>0. PICK id \in T!Ids : id = serving.id
    BY AgreeFacts
  <1>1. CASE Operation /\ NextQuestion = "none"
    BY <1>1, OperationKeepsConsents
  <1>2. CASE UNCHANGED <<effects, dirs>>
    <2>1. \A i \in T!Ids : effects'[i] # {} => H!Carried(i)'
      BY <1>2, CarriedStays DEF ConsentInv
    <2>2. \A i \in T!Ids : \A e \in effects[i] :
            Needed(e.what, e.path) \subseteq {c.to : c \in consents'[i]}
      BY AgreeFacts, AgreedMeans DEF ConsentInv
    <2>3. AgreedBefore'
      BY <1>2, <2>2 DEF AgreedBefore, Needed
    <2>4. \A p \in InitialDirs \ dirs' :
            \E i \in T!Ids : [what |-> "removed", path |-> p] \in effects'[i]
      BY <1>2 DEF ConsentInv
    <2>5. CASE AskNext
      <3>1. serving' = serving /\ path' = path /\ question' = NextQuestion
        BY <2>5 DEF AskNext, transport
      <3> DEFINE agreed == {c.to : c \in consents'[id]}
      <3>2. Agreed(id) \cup {question} \subseteq agreed
        BY <1>0, AgreeFacts
      <3> HIDE DEF agreed
      <3>3. question' \in {"outside", "remove"} => "allow" \in agreed
        BY <1>0, <3>1, <3>2 DEF NextQuestion, ConsentInv
      <3>4. question' = "remove" => Inside(path) \/ "outside" \in agreed
        <4>1. NextQuestion = "remove" => \/ question = "allow" /\ Inside(path)
                                        \/ question = "outside"
          BY DEF NextQuestion
        <4> QED BY <3>1, <3>2, <4>1
      <3>5. /\ question' \in {"outside", "remove"} => "allow" \in Agreed(serving.id)'
            /\ question' = "remove" => Inside(path)' \/ "outside" \in Agreed(serving.id)'
        BY <1>0, <3>1, <3>3, <3>4 DEF Agreed, Inside, agreed
      <3>6. effects' \in [T!Ids -> SUBSET Effect]
        BY <1>2 DEF ConsentInv
      <3> HIDE DEF AgreedBefore
      <3> QED BY <2>1, <2>3, <2>4, <3>5, <3>6, AgreeFacts DEF ConsentInv
    <2>6. CASE Reply
      BY <1>2, <2>1, <2>3, <2>4, <2>6, AgreeFacts DEF Reply, ConsentInv
    <2> QED BY <2>5, <2>6
            DEF Agree, Perform, Show, ChangeDir, WriteFile, RemovePath, OperationFails
  <1> QED BY <1>1, <1>2
          DEF Agree, AskNext, Perform, Operation, Show, OperationFails, tree

LEMMA ConsentStep == FsInv /\ ConsentInv /\ [Next]_vars => ConsentInv'
  <1> SUFFICES ASSUME FsInv, ConsentInv, [Next]_vars
               PROVE  ConsentInv'
    OBVIOUS
  <1>1. CASE Agree
    BY <1>1, AgreeKeepsConsents
  <1>2. CASE UNCHANGED <<consents, effects, dirs, question, serving, path>>
    BY <1>2, QuietKeepsConsents
  <1>3. CASE UNCHANGED <<consents, effects, dirs>> /\ question' \notin {"outside", "remove"}
    BY <1>3, QuietKeepsConsents
  <1>4. ASSUME NEW message \in wire,
               TakeOther(message) \/ \E c \in Calls : TakeCall(message, c)
        PROVE  UNCHANGED <<consents, effects, dirs>> /\ question' \notin {"outside", "remove"}
    <2>1. question \notin {"outside", "remove"} \/ serving # T!Nothing
      BY DEF FsInv, DialogueInv
    <2>2. serving = T!Nothing
      BY <1>4 DEF TakeOther, TakeCall, T!Take
    <2> QED BY <1>4, <2>1, <2>2
            DEF TakeOther, TakeCall, FirstQuestion, fs, dialogue, tree, record
  <1>5. ReplyAtOnce \/ Deny \/ TakeSuggestion \/ Restart
          => UNCHANGED <<consents, effects, dirs>> /\ question' \notin {"outside", "remove"}
    BY DEF ReplyAtOnce, Deny, TakeSuggestion, Restart, Reply, tree, record
  <1>6. ReplyOther
          => UNCHANGED <<consents, effects, dirs>> /\ question' \notin {"outside", "remove"}
    BY DEF ReplyOther, FsInv, DialogueInv, fs, dialogue, tree, record
  <1>7. ClientStep \/ AskAgain \/ CloseInput \/ OtherProcess \/ Terminated \/ UNCHANGED vars
          => UNCHANGED <<consents, effects, dirs, question, serving, path>>
    BY DEF ClientStep, AskAgain, CloseInput, OtherProcess, Terminated, vars, transport, fs,
           dialogue, tree, record, T!Request, T!Notify, T!Receive, T!GiveUp, T!Close, T!server
  <1>8. (\E line \in Lines : Type(line))
          => UNCHANGED <<consents, effects, dirs, question, serving, path>>
    BY DEF Type, transport, dialogue, tree, record
  <1> QED BY <1>1, <1>2, <1>3, <1>4, <1>5, <1>6, <1>7, <1>8 DEF Next, ServerStep, Dialogue

\* Nothing is changed that the user did not agree to within the same call: neither
\* an operation, nor a path outside of the start directory, nor a removal; and this
\* however answers are typed ahead, connections given up and servers restarted.
THEOREM FilesystemAsksFirst == Spec => []AgreedBefore
  <1>1. ConsentInv => AgreedBefore
    BY DEF ConsentInv
  <1> QED BY <1>1, FsInit, FsStep, ConsentInit, ConsentStep, PTL DEF Spec

\* The server works in a directory, unless a call removed that one.
THEOREM FilesystemWorksSomewhere == Spec => []WorkingDirRemoved
  <1>1. FsInv /\ ConsentInv => WorkingDirRemoved
    BY DEF FsInv, DialogueInv, ConsentInv, WorkingDirRemoved
  <1> QED BY <1>1, FsInit, FsStep, ConsentInit, ConsentStep, PTL DEF Spec
==============================================================================
