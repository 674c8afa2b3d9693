---------------------------- MODULE ChatSession ----------------------------
(***************************************************************************)
(* A chat session of omcp or mcp: src/src/lib.rs, run_chat_hosts with      *)
(* connect_hosts and answer_routed_turn.  The process is one sequential    *)
(* task, so it is a single state machine; what interleaves with it are the *)
(* user at the prompt (messages, /add-host, end of input), the model       *)
(* (which may name any tool it likes) and the MCP servers (which may fail).*)
(***************************************************************************)
EXTENDS ChatHistory, FiniteSets

CONSTANTS
  Endpoints,        \* MCP endpoints, configured or typed after /add-host
  Configured,       \* sequence of endpoints the session starts with
  Addable,          \* endpoints the user may attach with /add-host
  NsName,           \* endpoint -> its -nsname, or NoName
  Label,            \* endpoint -> what namespace_for keeps of its address,
                    \*   or NoName when every character is filtered out
  ToolsOf,          \* endpoint -> names in its tools/list answer
  Allowed,          \* tools of the allow-list (every tool when there is none)
  BaseNames,        \* all namespaces a host can ask for
  NoName,
  Numbered(_, _),   \* format!("{base}-{n}")
  Fallback(_),      \* format!("mcp{n}")
  CallNames,        \* tool names the model may call, split at the first '.';
                    \*   a name without one has an ns that no host has
  Queries,          \* sets of tools that a search query can match
  Prelude,          \* system prompt, configured messages and -prompt
  MaxRounds,        \* model requests per user message (8 in the code)
  MaxCalls,         \* bound: calls in one reply
  MaxTurns,         \* bound: user messages
  MaxHosts          \* bound: attached hosts

ASSUME BoundsAssumption ==
  /\ MaxRounds \in Nat \ {0}
  /\ {MaxCalls, MaxTurns, MaxHosts} \subseteq Nat

ASSUME EndpointAssumption ==
  /\ Configured \in Seq(Endpoints) /\ Configured # << >>
  /\ Addable \subseteq Endpoints
  /\ NsName \in [Endpoints -> BaseNames \cup {NoName}]
  /\ Label \in [Endpoints -> BaseNames \cup {NoName}]
  /\ NoName \notin BaseNames
  /\ \A n \in 1..MaxHosts : Fallback(n) \in BaseNames
  /\ Len(Configured) <= MaxHosts

\* The text after the last '-' is the number, so two numbered namespaces are
\* equal only when both parts are.
ASSUME NumberedAssumption ==
  \A b, c \in BaseNames, i, j \in 1..MaxHosts :
    Numbered(b, i) = Numbered(c, j) => b = c /\ i = j

ASSUME PreludeAssumption == Prelude \in Seq(Message(CallNames))

VARIABLES
  phase,     \* where run_chat_hosts and answer_routed_turn stand
  oneShot,   \* a -message was given
  hosts,     \* Vec<RoutedHost>
  history,   \* Vec<Message>
  round,     \* the loop counter of answer_routed_turn
  calls,     \* tool calls of the reply being served
  served,    \* how many of them have a result in the history
  turns,     \* user messages taken
  printed,   \* answers printed
  shown      \* tool names the model has been told of

turnVars == <<history, round, calls, served, turns, printed, shown>>
vars == <<phase, oneShot, hosts, turnVars>>

Phases == {"connecting", "idle", "asking", "calling", "done", "failed"}
-----------------------------------------------------------------------------
(* Namespaces and routing *)

NamespaceFor(e, n) == IF Label[e] = NoName THEN Fallback(n) ELSE Label[e]

BaseNamespace(e, n) == IF NsName[e] = NoName THEN NamespaceFor(e, n)
                                             ELSE NsName[e]

\* Mutant: compares with the host attached last only.
DisambiguatedFromLast(base, n) ==
  IF hosts # << >> /\ hosts[Len(hosts)].namespace = base THEN Numbered(base, n)
                                                         ELSE base

\* The host attached as number n is renamed when its namespace is taken.
Disambiguated(base, n) ==
  IF \E k \in DOMAIN hosts : hosts[k].namespace = base THEN Numbered(base, n)
                                                       ELSE base

\* Mutant: the newest host stands first.
AttachFirst(e, base) ==
  hosts' = <<[namespace |-> Disambiguated(base, Len(hosts) + 1), endpoint |-> e]>> \o hosts

Attach(e, base) ==
  hosts' = Append(hosts, [namespace |-> Disambiguated(base, Len(hosts) + 1),
                          endpoint |-> e])

RouterTools == [ns : {"mcp"}, tool : {"search_namespaces", "search_tools"}]

\* The host that a call with namespace ns goes to: the first of that name.
RoutesTo(k, ns) ==
  /\ k \in DOMAIN hosts
  /\ hosts[k].namespace = ns
  /\ \A j \in 1..(k - 1) : hosts[j].namespace # ns

Routable(ns) == \E k \in DOMAIN hosts : RoutesTo(k, ns)

\* Mutant: offers the tools under the namespace the host asked for.
OfferedByBase(k) == {[ns |-> BaseNamespace(hosts[k].endpoint, k), tool |-> t] :
                       t \in ToolsOf[hosts[k].endpoint] \cap Allowed}

\* The real tools put in the request to the model, and the router's own.
OfferedBy(k) == {[ns |-> hosts[k].namespace, tool |-> t] :
                   t \in ToolsOf[hosts[k].endpoint] \cap Allowed}

Offered == RouterTools \cup UNION {OfferedBy(k) : k \in DOMAIN hosts}

\* Mutant: names the tools by the address of their host.
SearchToolsByAddress(query, ns) ==
  UNION {{[ns |-> NamespaceFor(hosts[k].endpoint, k), tool |-> t] :
            t \in ToolsOf[hosts[k].endpoint] \cap query} :
         k \in {j \in DOMAIN hosts : ns \in {NoName, hosts[j].namespace}}}

\* mcp.search_tools looks through everything the servers listed.
SearchTools(query, ns) ==
  UNION {{[ns |-> hosts[k].namespace, tool |-> t] :
            t \in ToolsOf[hosts[k].endpoint] \cap query} :
         k \in {j \in DOMAIN hosts : ns \in {NoName, hosts[j].namespace}}}
-----------------------------------------------------------------------------
(* Connecting *)

Init ==
  /\ phase = "connecting"
  /\ oneShot \in BOOLEAN
  /\ hosts = << >>
  /\ history = << >>
  /\ round = 0
  /\ calls = << >> /\ served = 0
  /\ turns = 0 /\ printed = 0
  /\ shown = {}

ConnectHost ==
  /\ phase = "connecting"
  /\ Len(hosts) < Len(Configured)
  /\ LET e == Configured[Len(hosts) + 1]
     IN  Attach(e, BaseNamespace(e, Len(hosts) + 1))
  /\ UNCHANGED <<phase, oneShot, turnVars>>

\* The handshake or tools/list of a host fails, or a client cannot be built.
SetupFails ==
  /\ phase = "connecting"
  /\ phase' = "failed"
  /\ UNCHANGED <<oneShot, hosts, turnVars>>

\* Push the user's message on history h and start asking the model.
BeginTurn(h) ==
  /\ history' = Append(h, User)
  /\ turns' = turns + 1
  /\ round' = 1
  /\ phase' = "asking"

StartOneShot ==
  /\ phase = "connecting" /\ Len(hosts) = Len(Configured)
  /\ oneShot
  /\ BeginTurn(Prelude)
  /\ UNCHANGED <<oneShot, hosts, calls, served, printed, shown>>

StartRepl ==
  /\ phase = "connecting" /\ Len(hosts) = Len(Configured)
  /\ ~oneShot
  /\ phase' = "idle"
  /\ history' = Prelude
  /\ UNCHANGED <<oneShot, hosts, round, calls, served, turns, printed, shown>>
-----------------------------------------------------------------------------
(* The prompt *)

UserMessage ==
  /\ phase = "idle"
  /\ turns < MaxTurns
  /\ BeginTurn(history)
  /\ UNCHANGED <<oneShot, hosts, calls, served, printed, shown>>

\* /add-host takes its namespace from the address alone.
AddHost(e) ==
  /\ phase = "idle"
  /\ Len(hosts) < MaxHosts
  /\ Attach(e, NamespaceFor(e, Len(hosts) + 1))
  /\ UNCHANGED <<phase, oneShot, turnVars>>

\* A bad /add-host line, an unreachable host or a readline error.
PromptFails ==
  /\ phase = "idle"
  /\ phase' = "failed"
  /\ UNCHANGED <<oneShot, hosts, turnVars>>

EndOfInput ==
  /\ phase = "idle"
  /\ phase' = "done"
  /\ UNCHANGED <<oneShot, hosts, turnVars>>
-----------------------------------------------------------------------------
(* A turn *)

\* The model answers in plain text: print it and go back to the prompt.
ModelAnswers ==
  /\ phase = "asking"
  /\ shown' = shown \cup Offered
  /\ history' = Append(history, Assistant(<< >>))
  /\ printed' = printed + 1
  /\ phase' = IF oneShot THEN "done" ELSE "idle"
  /\ UNCHANGED <<oneShot, hosts, round, calls, served, turns>>

ModelCalls(names) ==
  /\ phase = "asking"
  /\ names # << >>
  /\ shown' = shown \cup Offered
  /\ history' = Append(history, Assistant(names))
  /\ calls' = names /\ served' = 0
  /\ phase' = "calling"
  /\ UNCHANGED <<oneShot, hosts, round, turns, printed>>

ModelFails ==
  /\ phase = "asking"
  /\ shown' = shown \cup Offered
  /\ phase' = "failed"
  /\ UNCHANGED <<oneShot, hosts, history, round, calls, served, turns, printed>>

NextCall == calls[served + 1]

\* Mutant: a failed call leaves no message behind.
TellSuccess(name, ok) ==
  /\ history' = IF ok THEN Append(history, ToolResult(name)) ELSE history
  /\ served' = served + 1

\* Push the result, or the text of the error, as the answer to the call.
TellResult(name, ok) ==
  /\ history' = Append(history, ToolResult(name))
  /\ served' = served + 1

SearchCall ==
  /\ phase = "calling" /\ served < Len(calls)
  /\ NextCall \in RouterTools
  /\ IF NextCall.tool = "search_tools"
       THEN \E query \in Queries,
               ns \in {NoName} \cup {hosts[k].namespace : k \in DOMAIN hosts} :
              shown' = shown \cup SearchTools(query, ns)
       ELSE UNCHANGED shown
  /\ TellResult(NextCall, TRUE)
  /\ UNCHANGED <<phase, oneShot, hosts, round, calls, turns, printed>>

\* The server answers, or the request fails and the model is told why.
HostCall(k, ok) ==
  /\ phase = "calling" /\ served < Len(calls)
  /\ NextCall \notin RouterTools
  /\ RoutesTo(k, NextCall.ns)
  /\ TellResult(NextCall, ok)
  /\ UNCHANGED <<phase, oneShot, hosts, round, calls, turns, printed, shown>>

\* Mutant: looks at the same name again.
RetryBadName ==
  /\ phase = "calling" /\ served < Len(calls)
  /\ NextCall \notin RouterTools
  /\ ~Routable(NextCall.ns)
  /\ UNCHANGED vars

\* A name without a namespace, or with one no host has, ends the session.
BadName ==
  /\ phase = "calling" /\ served < Len(calls)
  /\ NextCall \notin RouterTools
  /\ ~Routable(NextCall.ns)
  /\ phase' = "failed"
  /\ UNCHANGED <<oneShot, hosts, turnVars>>

\* Mutant: one round too many.
EndRoundLate ==
  /\ phase = "calling" /\ served = Len(calls)
  /\ IF round <= MaxRounds
       THEN phase' = "asking" /\ round' = round + 1
       ELSE phase' = "failed" /\ UNCHANGED round
  /\ UNCHANGED <<oneShot, hosts, history, calls, served, turns, printed, shown>>

\* Mutant: running out of rounds ends the turn, not the session.
EndRoundQuietly ==
  /\ phase = "calling" /\ served = Len(calls)
  /\ IF round < MaxRounds
       THEN phase' = "asking" /\ round' = round + 1
       ELSE phase' = (IF oneShot THEN "done" ELSE "idle") /\ UNCHANGED round
  /\ UNCHANGED <<oneShot, hosts, history, calls, served, turns, printed, shown>>

\* The loop of answer_routed_turn goes round, or gives up after MaxRounds.
EndRound ==
  /\ phase = "calling" /\ served = Len(calls)
  /\ IF round < MaxRounds
       THEN phase' = "asking" /\ round' = round + 1
       ELSE phase' = "failed" /\ UNCHANGED round
  /\ UNCHANGED <<oneShot, hosts, history, calls, served, turns, printed, shown>>
-----------------------------------------------------------------------------
Replies == UNION {[1..n -> CallNames] : n \in 1..MaxCalls}

ModelReplies == ModelAnswers \/ ModelFails \/ \E names \in Replies : ModelCalls(names)

ServeCall ==
  \/ SearchCall
  \/ \E k \in DOMAIN hosts, ok \in BOOLEAN : HostCall(k, ok)
  \/ BadName

\* The process has exited.
Terminated == phase \in {"done", "failed"} /\ UNCHANGED vars

Next ==
  \/ ConnectHost \/ SetupFails \/ StartOneShot \/ StartRepl
  \/ UserMessage \/ PromptFails \/ EndOfInput
  \/ \E e \in Addable : AddHost(e)
  \/ ModelReplies \/ ServeCall \/ EndRound
  \/ Terminated

\* The user need not type anything; the model and the servers reply or fail
\* within their deadlines, and the process itself does not stop.
Fairness == WF_vars(ModelReplies) /\ WF_vars(ServeCall) /\ WF_vars(EndRound)

Spec == Init /\ [][Next]_vars /\ Fairness
-----------------------------------------------------------------------------
(* Properties *)

TypeOK ==
  /\ phase \in Phases
  /\ oneShot \in BOOLEAN
  /\ hosts \in Seq([namespace : BaseNames \cup
                       {Numbered(b, n) : b \in BaseNames, n \in 1..MaxHosts},
                     endpoint : Endpoints])
  /\ Len(hosts) <= MaxHosts
  /\ history \in Seq(Message(CallNames))
  /\ round \in 0..MaxRounds
  /\ calls \in Seq(CallNames)
  /\ served \in 0..Len(calls)
  /\ turns \in Nat /\ printed \in 0..turns

\* No two attached hosts share a namespace, in whatever order they came and whichever
\* of them asked for the same name, as long as none asks for a name that renaming may
\* make (the renaming in connect_hosts and in /add-host; see CleanBases).
NamespacesUnique ==
  \A j, k \in DOMAIN hosts : hosts[j].namespace = hosts[k].namespace => j = k

\* A tool offered to the model on behalf of a host is called on that host: it
\* is not routed to another one, nor taken for a tool of the router.
OfferedToolsReachable ==
  \A k \in DOMAIN hosts : \A name \in OfferedBy(k) :
    name \notin RouterTools /\ RoutesTo(k, name.ns)

\* Attaching a host never moves a namespace the model knows to another host,
\* even when namespaces collide.
StaysRouted(k) ==
  RoutesTo(k, hosts[k].namespace) => hosts'[k] = hosts[k] /\ RoutesTo(k, hosts[k].namespace)'
StableRouting == [][\A k \in DOMAIN hosts : StaysRouted(k)]_vars

\* The reply whose calls are being served.
Asking == Len(history) - served

\* Each call of each reply has its result, in order, right behind the reply
\* before the model or the user is heard again; in the middle of a reply the
\* first served of them have.  No result is there that nobody asked for.
CallsAnswered ==
  /\ phase \in {"idle", "asking", "done"} =>
       AllAnswered(history, Len(Prelude) + 1, Len(history))
  /\ phase = "calling" =>
       /\ AllAnswered(history, Len(Prelude) + 1, Asking - 1)
       /\ history[Asking] = Assistant(calls)
       /\ AnsweredUpTo(history, Asking, served)
  /\ AllAskedFor(history, Len(Prelude) + 1)

\* Whatever name the model has ever been told, with the tools of a request or by
\* mcp.search_tools, still leads to a host that has the tool.
ShownToolsReachable ==
  \A name \in shown \ RouterTools :
    \E k \in DOMAIN hosts : RoutesTo(k, name.ns) /\ name.tool \in ToolsOf[hosts[k].endpoint]

\* Every message of the user is answered in the end, or the session is over.
TurnEnds == phase \in {"asking", "calling"} ~> phase \in {"idle", "done", "failed"}

Conv == INSTANCE Conversation WITH
  state <- IF phase \in {"connecting", "idle"} THEN "ready"
           ELSE IF phase \in {"asking", "calling"} THEN "working" ELSE "over",
  taken <- turns,
  answered <- printed

\* The session keeps the promise of Conversation: one answer for each message.
KeepsConversation == Conv!Init /\ [][Conv!Next]_(Conv!vars)
=============================================================================
