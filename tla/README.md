# A TLA+ development for open-mcp

open-mcp (`omcp`, `mcp`) connects one language model to any number of MCP
servers: it offers the servers' tools to the model, sends the calls the model
makes to the right server, and tells the model what came back. This directory
holds TLA+ modules that model that program, TLC configurations that check them
on small instances, and theorems about them that TLAPS proves for every
instance. `PROJECT.json` is the machine-readable index: components, runs, the
mutant behind each property, the source lines behind each definition, findings,
hazards and theorems.

## The system

All of the program's own code is in `src/src/*.rs` and `src/src/bin/*.rs`
(2201 lines); everything under `src/vendor` is third-party.

| Component | State | Operations | Interacts with |
| --- | --- | --- | --- |
| Routed session, `lib.rs` `run_chat_hosts` | attached hosts (namespace, client, tools as listed once), history, round counter | connect the hosts, take a message, `/add-host`, ask the model, search, route a call, tell the result | prompt, model client, MCP clients |
| Single-server session, `lib.rs` `run_chat`, `run_chat_endpoints` | history, round counter | the same without namespaces | prompt, model client, one MCP client |
| MCP client over stdio, `mcp.rs` | next id, stdin and stdout with a lock each, child process | `initialize`, `tools/list`, `tools/call`, notification | server process, over two bounded pipes |
| MCP client over HTTP, `mcp.rs` | next id, session id, deadline | the same | server, over one POST for each message |
| Model client, `ollama.rs` | endpoint, deadline | `chat` | model server |
| Configuration, `config.rs`, `hosts.rs`, `endpoint.rs`, `settings.rs`, `meta.rs` | files under `~/.mcp`; `settings` and `hosts` are read again for hosts added later | parse, merge, find the endpoint, its headers, body and timeout | session set-up |
| Command lines, `main.rs`, `bin/mcp.rs` | scope of the next argument | parse arguments, start a session | configuration, session |
| Filesystem server, `bin/filesystem-mcp-server.rs` | start and working directory | file operations behind questions to the user | HTTP client, user at its terminal |
| Test servers, `bin/mock-mcp-server.rs`, `bin/stdio-mock-mcp-server.rs` | none | fixed answers | MCP clients |

The client program is one sequential task: it awaits each request before it
goes on. What runs beside it are the servers, each a process of its own, the
model, and the user. So the hard behaviours are not data races. They are:

- **Names.** Hosts come one after the other, at the start and later with
  `/add-host`; each must get a namespace of its own, and a name the model
  learned must go on meaning the same host.
- **Failure in the middle.** One of several calls of a reply fails, a name
  routes nowhere, the rounds run out, the prompt fails: what is in the history,
  and is the session still alive?
- **Order over stdio.** Response ids are never compared. A response belongs to
  the request before it because nothing else is on the pipe: one line too many
  shifts every later answer. Pipes are bounded, and servers die in mid-line.
- **Time over HTTP.** A request that timed out is still carried out, later,
  perhaps after the next one. The session id is learned from one response and
  must be on every message after it. Servers are restarted and forget it.
- **A user in the loop.** The file server asks its user inside of a request,
  with its only thread. Meanwhile the client gives up, the user has typed ahead
  or closed the terminal, and the files are changed by others.
- **Scopes and merges.** Flags belong to the selector before them, lines of a
  file to the block they stand in, and what was given in several places for one
  endpoint is merged or replaced, depending on the path it took.

### What makes each component correct

- *Sessions:* every call of every reply has its result, in order, right behind
  it, and no result is there that nobody asked for; an offered tool is called
  on the host it was offered for; each message of the user gets exactly one
  answer, or the session ends; every turn ends; a failed call is told to the
  model and does not end the session.
- *MCP clients:* a request is carried out at most once, and returns its own
  answer or a failure; it returns; the handshake comes first; the session id is
  never missed; the child process does not outlive the session.
- *Configuration and arguments:* a setting reaches the endpoint it was written
  for, and no other; nothing that was given is lost; what the command line says
  comes before the meta file, and the endpoint's headers before the meta file's; a
  message's own fields are not changed by defaults.
- *Filesystem server:* nothing is done that the user did not agree to, for this
  very request; each request is carried out once and answered when the user
  answers; the thread gets free again.

## The modules

| Module | What it is |
| --- | --- |
| `ChatHistory` | Messages and what "answered" means. Shared by both sessions. |
| `Conversation` | Abstract: what a session promises its user. |
| `ChatSession` | The routed session. Implements `Conversation`. |
| `SingleHostSession` | The single-server session. |
| `Rpc` | Abstract: what `McpClient::request` promises. |
| `StdioTransport` | Client, pipes and server over stdio. Implements `Rpc`. |
| `HttpTransport` | Client, connections and server over HTTP. Implements `Rpc`. |
| `HostedSession` | A `SingleHostSession` whose calls go through `HttpTransport`. Implements `SingleHostSession`. |
| `FilesystemServer` | The file server with its user, behind the client of `HttpTransport`. Implements `HttpTransport`. |
| `Endpoint` | What an endpoint is, and which settings it accepts. Shared by the next four. |
| `ArgScopes` | The command line of `mcp`. |
| `Profiles` | The file `~/.mcp/config`, and the commands of `omcp` that read it. |
| `HostsFile` | `load` of `~/.mcp/hosts`, as operators. |
| `Setup` | From an endpoint to a client: the hosts file, deadlines, `/add-host`. |
| `Request` | What is sent: merged bodies, merged headers. |
| `MC...` | Instances for TLC. |
| `ChatHistoryProofs` | Lemmas on histories, for the proofs of both sessions. |
| `ChatSessionProofs`, `StdioTransportProofs`, `HttpTransportProofs`, `FilesystemServerProofs`, `ArgScopesProofs` | Theorems about the module of that name, and their proofs. |
| `ConfigurationProofs` | The same for `Profiles`, `Setup` with `HostsFile`, and `Request`. |
| `HostedSessionProofs` | Theorems about `SingleHostSession`, and about `HostedSession` on top of them and of those of `HttpTransportProofs`. |

A definition whose comment starts with "Mutant:" is no part of the model: it is
a plausible bug in the definition it stands before, and shows that the property
named in `PROJECT.json` notices it.

### `ChatSession`

`phase` is the place in the code: *connecting* is `connect_hosts`, *idle* the
`readline` of the prompt, *asking* the `ollama.chat` await, *calling* the loop
over the calls of a reply; *done* and *failed* are the process's exit with `Ok`
and with an error. `hosts`, `history` and `round` are the program's own
variables, `calls` and `served` the state of the `for` over the reply's calls.
`turns`, `printed` and `shown` are history variables: messages taken, answers
printed, tool names the model has been told of.

Each arm of the code is an action. `ConnectHost` and `AddHost` compute the
namespace (`BaseNamespace`, `NamespaceFor`, `Disambiguated`) and attach the
host; they differ, as the code does, in that `/add-host` knows no `-nsname`.
`ModelAnswers`, `ModelCalls` and `ModelFails` are the three outcomes of `chat`;
`SearchCall`, `HostCall` and `BadName` the three arms of `answer_routed_turn`;
`EndRound` is the end of the `for` over rounds, and `PromptFails` is every `?`
of the prompt's loop, the ones of `/add-host` included.

Texts are left out. A message is its role and the tool names in it; a tool name
is a namespace and a tool, split at the first dot, so that a name without a dot
is one whose namespace no host has. A namespace is whatever the constants
`Label`, `NsName`, `Fallback` and `Numbered` say; the TLC instances use the
strings that the program prints. A server's answer to a call is *ok* or not. A
search query is the set of tools it matches.

### `SingleHostSession`

The same turn without names. It differs where the code does: any name goes to
the only server, nothing ends the session but the model client, and the round
limit ends the turn without an error and without an answer.

### `StdioTransport`

`stage` is how far `connect_endpoint` and `list_tools` have come; `pc` and
`req` stand for each caller's place in `send_request`: *writing* (the statement
that holds the stdin lock), *written* (between the two statements), *reading*
(holding `stdout`). The pipes `toServer` and `toClient` hold `PipeSize` lines;
a write blocks when a pipe is full, and fails when the server is gone. `Read`
is one turn of the loop of `read_stdio`. The server is the loop of the fixture
`stdio-mock-mcp-server.rs`; `Crash` and `WriteStray` add what a server may do
besides: die (`partial` is half a line), and write blank lines, text or
notifications. Such a line is written beside the loop, which goes on while the
line waits for room. (A server whose own loop writes, unasked, more than a pipe
holds before it reads could wait for a client that waits for it. None in the
repository does, and it is not modelled.) A request is carried out when it is
taken from the pipe.

The bodies of requests are left out; `Request` has them. `-body` cannot replace
`id`, `method` or `params` of a request, but it can give an `id` to a
notification, and what follows from that here is what the mutant `NotifyWithId`
shows.

### `HttpTransport`

`waiting` is the message whose response is awaited; `wire` holds the messages
sent and not yet taken by the server, the ones included that the client has
given up, so that the server may take them in any order. `Receive` is what
`send_request` or `send_notification` makes of a response that came in whole;
`GiveUp` is the deadline or a broken connection, before the response, in the
middle of its body (then the session id has been stored) or after it. The
server is the loop of `mock-mcp-server.rs`, one request at a time; session ids,
refusals, event streams and restarts are external, as the client's code
expects them. `deadline` says whether the client has one: it is chosen at the
start, and `GiveUp` is then only a broken connection when there is none
(`-timeout -1`). `heard` is a history variable.

### `HostedSession`

The composition of `SingleHostSession` with `HttpTransport`. What the session
does in one step, `CallTool`, is here two steps of its own, `AskTool` (the
request is sent) and `ToolReturns` (the response or the deadline), with the
server's steps and restarts between them; connecting is the handshake. So a call
can be told as failed and be carried out in a later round. `results` is a
history variable, what the model was told of each call. `Leave` is the client
being dropped; the server goes on with what it has. `ModelRepliesInBounds` keeps
the calls of a reply within the bound on requests.

### `FilesystemServer`

`INSTANCE HttpTransport` provides the client, the connections and the loop over
requests. The thread's place inside of a request is `question`: the question
that is on the screen and awaits a line, *allow*, *outside* and *remove* in the
order of the code, or *confirm* and *suggest*. `TakeCall` resolves the path (as
the code does before any question) into `path`; `Agree`, `Deny`, `AskAgain` and
`TakeSuggestion` are what a line read makes of the question, and the last *yes*
performs the operation, against the files as they are by then. `typed` holds
the lines typed and not yet read, each with what was on the screen when it was
typed; `CloseInput` ends the input, after which every question is answered no.
`dirs`, `files` and `workingDir` are the file system; `OtherProcess` changes it.
A path is the sequence of its names. `RemovePath` may stop in the middle.
A restart leaves the files as they are, and may lose what was typed.
`consents` and `effects` are history variables. Left out: symbolic
links, contents of files, texts of questions, and invalid arguments beyond a
path that does not resolve.

### `ArgScopes`, `Profiles`

Each reads its input one flag or one line at a time, so that a state is a prefix
of an input and an action one arm of the code's `match`; the variable `line` or
`file` keeps what was read, for the properties to say what it means without the
code's scope, current name or map of fields. Values are members of small sets:
texts that are JSON objects, other JSON, arrays of messages, timeouts, missing.
An endpoint keeps the list of texts merged into it. `Forms` says of which lines a
file of profiles may be made, and how long it may be.

### `HostsFile`, `Setup`

In `HostsFile`, `Reading` is the loop of `load`: what the first n lines come to,
for each n. In `Setup`, hosts are connected one after the other, at the start and
with `/add-host`; `phase` is where the session is, and `typed` keeps what was
typed, for the properties. `Resolved` is the look-up of an alias in
`connect_hosts`, where its entry takes the place of the endpoint; `AddHost` looks
the alias up first and adds to it. What is typed is cut at its blanks (`Tokens`),
a text that has blanks into the words that the constant `Words` says. It is then
put together two words at a time (`Equip`). `~/.mcp/settings` is read for each
connection, and so is any of the contents it may have by then. The handshake
itself is in the transports.

### `Request`

A JSON value is the function from its places, the paths of keys that lead to
them, to what stands there: an object, or an atom with all it may hold. `Merge` is
`merge_json`: `Called` says for which places it calls itself, which is where two
objects meet, and `Replaced` where the overlay is taken instead. `Complete` is
`rpc_payload`, the same lines in `send_request` and `send_notification`, and
`chat`: the message laid over the bodies, then its own fields put in again
(a notification has no `id` to put in). A header's name is a word and its case;
`HeaderMap` walks the endpoint's map in the order of its keys (serde_json sorts
them), and `MetaMaps` is every order of the meta file's hash map.

## The runs

| Run | Expected | What it asks |
| --- | --- | --- |
| `session` | pass | three configured hosts (two of the same name, one with `-nsname`), `/add-host`, search, bad names, failing calls, 2 rounds |
| `session_shadowed` | violation | names that collide after renaming: offered tools are unreachable |
| `stdio` | pass | pipes of one line, blank lines, a server that may die at any point |
| `stdio_notification` | violation | a server that sends one notification |
| `http` | pass | with a deadline and without, sessions, refusals, one restart, event streams |
| `hosted` | pass | session, client and server together, a late, silent or restarted server |
| `fs` | pass | file operations inside and outside of the start directory, tools that show, ask or fail, deadlines, type-ahead, other processes, a restart, a user who answers in the end |
| `fs_typeahead` | violation | a line typed before its question |
| `args` | pass | five flags in any order: repeated selectors, good, bad and missing values, messages, tools, two meta files |
| `profiles` | pass | several profiles, the same name twice, every field, all commands |
| `setup` | pass | endpoints, aliases, hosts files of five lines, `/add-host`, a settings file that is edited |
| `request` | pass | three bodies or headers against the meta file and each kind of message |

What the passing runs show, property by property:

- `CallsAnswered`: the history is one the model can follow, at every step, after
  errors, bad names and the round limit; in `hosted`, of the single-server
  session with the transport below it.
- `NamespacesUnique`, `OfferedToolsReachable`: with names that do not collide
  by malice (below), routing is right for every order of attaching.
  `StableRouting`: no namespace ever moves (the proof covers colliding ones).
  `ShownToolsReachable`: the same for every name the model has ever been told,
  with a request or as the result of a search, in this turn or an earlier one.
- `KeepsConversation`: `phase`, `turns` and `printed` refine `Conversation`.
- `OwnAnswer`, `NoLeftovers`, `HandshakeFirst`: order is enough over stdio, for
  one caller and a server that writes no lines but blank ones.
- `OnlyAbandonedLate`: of two requests over HTTP, the later is carried out
  first only if the client has given up the earlier.
- `NeverRefused`: a server that was not restarted never sees a message without
  the session id it gave.
- `KeepsRpc`, for both transports: at most once, its own answer or a failure.
- `ToldDone`: what the model was told has been done was done once, and before
  all it asked for later; `KeepsSession`: with the time that passes inside of a
  call the session is still the one of `SingleHostSession`, fairness included,
  so that `TurnEnds` there assumes nothing of the server.
- `AgreedBefore`: per path and per call, in every interleaving of deadlines,
  type-ahead and moves of the working directory; that the *yes* was meant for
  its question is what `fs_typeahead` refutes. `WorkingDirRemoved`: `cd` never
  enters what is no directory, although it was resolved before the questions.
  `KeepsTransport`: asking the user changes nothing of what a server promises.
- `ScopeHasEndpoint`: the `unwrap`s of `parse_args` are safe.
  `SettingsReachEndpoint`: compared with the whole line. `SessionFollowsLine`:
  so are the tools, the version, the messages and the prompt of the session, with
  the meta file where the line has nothing.
- `OwnBlockOnly`, `EntriesAreBlocks`, `FirstOfName`: blocks do not leak into each
  other. `SettingsStayWithHost`: what a command contacts has the headers, the body
  and the timeout written for it in one block of the file, and no others.
- `AddedAsTyped`, `BodiesMerge`, `OwnFieldsWin`,
  `EndpointOverMeta`: what is given in several places is
  combined as the documentation says, where the violations do not show otherwise.
- `CallsReturn`: requests over stdio return, also when one of them, its answer or a
  blank line meets a full pipe; over HTTP, also from a silent server if there is a
  deadline.
- `TurnEnds`, `ServerStops`, `ServerGetsFree`, `CallsReturn`: liveness, see below.

The three violations are listed under `findings`, each with the sentence of the
repository that the code does not keep:

- `session_shadowed`: `/add-host` gives the name `<base>-<n>` without a look at
  whether that is taken, so that two hosts share it and the second is
  unreachable. README.md:268 says that its tools "become available to the model
  on its next request".
- `stdio_notification`: the first line that is not blank is taken for the
  response, also when it is a notification, which src/src/mcp.rs:76 allows.
- `fs_typeahead`: a *yes* typed before the question confirms a removal whose
  description says (src/src/bin/filesystem-mcp-server.rs:103) "Always requires
  manual confirmation."

### Divergences read off the code

Modelling turned up more places where the code does not do what a text of the
repository says. They follow from a few lines each and have no run of their own;
the models do what the code does.

- `src/src/lib.rs:289`: `mcp.search_tools` searches all tools a server listed,
  not only the allowed ones. README.md:92: `-tools` "Restricts real MCP tools
  exposed to the model."
- `src/src/lib.rs:312`: a single-server turn that reaches the round limit prints
  nothing. src/src/lib.rs:303: "printing the model's final reply".
- `src/src/mcp.rs:258`: of an event stream the first message counts, also a
  notification (kind *notice* in `HttpTransport`). src/src/mcp.rs:154: the
  request "returns the `result` field, or an error if the server responded with
  a JSON-RPC error object".
- `src/src/bin/filesystem-mcp-server.rs:51`: the server talks to a socket only and
  writes its address to stdout. README.md:123 starts it with `stdio:`.
- `src/src/bin/mcp.rs:118`: a second `-model` keeps the messages of the first.
  src/src/bin/mcp.rs:19: "-messages belongs to the most recent model selector."
- `src/src/hosts.rs:36`: settings before the host line of a block are dropped
  without a word. README.md:213: "JSON HTTP headers for that named host."
- `src/src/main.rs:67`: `omcp tools` connects to the fallback `mcp` also when
  there are `mcp_hosts`. README.md:148: "Used when mcp_hosts is not supplied."
- `src/src/lib.rs:65`: an item of `mcp_hosts` that names an alias loses its own
  headers and body. README.md:182: "endpoint objects with `host`, optional
  `headers`, and optional `body`." The timeout is lost likewise that is given for an
  alias of an alias, or with an alias as the `mcp` of a profile. README.md:231:
  "Timeout precedence is endpoint `-timeout`, profile `mcp_timeout`".
- `src/src/lib.rs:216`: `/add-host` cuts JSON at its blanks. README.md:265 has
  such JSON as its example.
- `src/src/mcp.rs:219`, `src/src/mcp.rs:272`: a body with an `id` makes the
  notification a request. src/src/mcp.rs:176: "no `id`, no response expected".
- `src/src/lib.rs:242`: routed sessions do not look at `model_params`.
  src/src/meta.rs:36: "forwarded to the model backend as-is".
- `src/src/endpoint.rs:34`: of two spellings of a header the one in lower case is
  sent, whichever came later. README.md:73: "later values override matching keys".
- `src/src/endpoint.rs:39`: `env:NAME` is resolved in meta files only.
  src/src/hosts.rs:6, README.md:150 and README.md:200 use it in headers.

### Bounds

Rounds: 2, one round that goes on and one that is the last. Calls in a reply:
2, so that one can fail before another. Turns: 2, so that a turn follows one
that used a search or a failed call. Hosts: up to 4, because two clashes of the
same name need three hosts of that name, and `/add-host` must come after a
renamed host. Requests: 4 or 5, so that two or three tool calls follow the
handshake and the list. Pipes: one line in `stdio`, so that any line waits that is
written before the last one was read, and four blank lines to be in the way. Restarts: 1,
which may fall into the handshake, a call, or between calls; what a second one
does is what the first did. Bounds stand in guards
(`MaxTurns`, `MaxHosts`, `MaxRequests`, `MaxStrays`, `MaxRestarts`, `MaxTyped`,
`MaxArgs`, `MaxGiven`) and in `Replies` (`MaxCalls`); only `MaxRounds` is the
program's own.

`hosted`: `MaxRequests` counts the handshake, so that two calls remain, in one
reply, in two rounds, or in two turns; a call given up in the first can be
carried out during the second. `fs`: four requests, the handshake, the list and
two calls, since the hazards are of one call with a change in between, or of a
call after a change of the working directory or after one that was given up; one
line typed ahead, two where that is the question. Command lines: five flags,
enough for two selectors of either kind with a setting before, between and behind
them. Hosts files: five lines, for one block between two others. Profiles: seven
lines of five keys, for a name, an endpoint and a model twice and one line more, its
headers or a list of hosts, or five lines of every field. Bodies and headers: three, the bodies nested twice,
so that something is replaced and put back; a message with tools and one without.

### Fairness

- Sessions: weak fairness of the model's reply, of serving a call and of the end
  of a round. The model client has a deadline of 420 seconds unless it is
  switched off, every call ends (`CallsReturn`), and the rest is local. Nothing
  is assumed of the user.
- `StdioTransport`: weak fairness of the client's steps and of the server's. The
  transport has no deadline: a stdio server that is alive and silent hangs the
  session, which is why fairness of the server is needed and stated.
- `HttpTransport`: of the client's steps and its deadline. Where there is no
  deadline (`-timeout -1`), and only there, of the server too.
- `HostedSession`: of the session's own steps, of what arrives and of the
  deadline; nothing of the server.
- `FilesystemServer`: `Spec` as `HttpTransport` with a deadline. `AttendedSpec`
  adds that the server runs and that the user answers: strong fairness of a yes or a no to a
  question on the screen, because other lines and closing the terminal may come
  in between. Nothing in the code makes the user answer; without them
  `ServerGetsFree` does not hold, which is the hazard at its line 54.
- The configuration modules state no liveness.

## What is proved

TLAPS proves these for every value of the constants that the assumptions in the
modules allow: any hosts, names, histories, rounds, requests and pipe sizes.

**Sessions** (`ChatSessionProofs`, with lemmas on histories in
`ChatHistoryProofs`). `TypeCorrect`, from `TypeInv`: `TypeOK` and "fewer answers
than messages while a turn is on". `EveryCallAnswered`, from `HistoryInv`, which
says of every phase what part of the history is complete: `CallsAnswered` alone
does not say, in the phases it leaves open, what the next step starts from. The
lemmas say that a complete history stays complete when a message is put behind
it. `RoutingStable` needs no more than that hosts are only appended.
`SessionRefinesConversation` maps each action to a step of `Conversation` or to
none.

`NamespacesStayUnique` and `OfferedToolsStayReachable` need assumptions, and
they are the point: `CleanBases`, no host asks for a name of the form that
renaming makes (`<name>-<number>` for a number up to `MaxHosts`), and, for the
second, that no server lists a tool named like one of the router's own.
Without the first, `session_shadowed` is the counterexample. The invariant adds
to uniqueness where each name came from: a renamed one carries the number of its
host, which no other host has. `ShownToolsStayReachable` says the same of the
names in `shown`, those of old requests and search results included; it needs
`CleanBases` only, since a name is kept with the host that listed the tool.

**The single-server session and its transport** (`HostedSessionProofs`).
`SingleHostCallsAnswered` has an invariant of the same kind as the routed
session's. What is new is that it carries over: `SessionSteps` and
`TransportSteps` say that every step of `HostedSession` is a step of the session
or leaves it alone, and likewise a step of the transport. From the first follow
`HostedRefinesSession` and `HostedCallsAnswered`, from the second every theorem
of `HttpTransportProofs`, taken with an instance. `ToldCallsAreDone` needs both:
its invariant says that a result told as *ok* is of a request that is
*answered*, and `AnsweredInOrder`, a lemma on the transport, says what that is
worth.

**stdio** (`StdioTransportProofs`). `StdioTypeCorrect` for any number of
callers; `SingleCallerOwnAnswer` and `SingleCallerNoLeftovers` for one caller
and a server that writes no stray lines but blank ones. The invariant,
`OneAtATime`, says that while the caller waits its request is in exactly one of
three places, the server's input, the server, or its output, and otherwise in
none; from it follows that the line that is read is its answer. Without the two
assumptions it is false: two callers may write in one order and read in the
other, and `stdio_notification` is the other case.

`StdioImplementsRpc`, under the same two assumptions, adds to that what has
been carried out (`RequestInv`): a request in the input has not, one in the
server or with its answer in the output has. `StdioHandshakeFirst` needs neither
of them. Its invariant follows initialize and the notification along the pipe: as
long as nothing was carried out there is no answer, so that nobody gets past the
first stage (`FirstInv`); and whoever is past the second has put the notification
in front of all he puts into the pipe (`NotifiedInv`).

**HTTP** (`HttpTransportProofs`). There is no pipe to keep the order, so that the
invariant `HttpInv` speaks of every message under way: it is the one waited for,
or its request was given up; it has not been carried out; and no other has its id
(`FlightInv`). A response under way is the one to the message waited for
(`WaitingInv`) and tells the truth about it (`HeardInv`). From these follow
`LateOnlyIfAbandoned` and `HttpImplementsRpc`, with restarts, refusals and
streams, deadline or none. `SessionNeverRefused` rests on `OneSession`: as long
as the server has not been started anew, session 1 is the only one, and every
message behind initialize carries it, those given up included.

**Filesystem server** (`FilesystemServerProofs`). `FilesystemRefinesTransport`:
every step is a step of `HttpTransport` or leaves it alone, so that `HttpInv`
holds here too. `FilesystemTypeCorrect` includes that the files stay a tree,
whatever is removed half way. `FilesystemAsksFirst` is `AgreedBefore`; the
invariant `ConsentInv` says which answers have been given by the time a
question is on the screen, and that only a call that was carried out has
effects: the ids of its consents are its own, since no id is carried out twice.
`FilesystemWorksSomewhere` has the other half, that a directory goes only by a
removal. `FirstQuestion` and `NextQuestion` test their conditions one after the
other, as the code does: the conditions overlap, and only their order says which
question is asked.

**Command line and profiles** (`ArgScopesProofs`, `ConfigurationProofs`), for lines
and files of any length. `ScopeIsThere` needs that hosts and model only come.
`SettingsReachTheirs` compares the code's one-pass walk with a property that
looks at the whole line; the invariant says so of every prefix: how many of the
selectors were hosts (`CountInv`), which selector the scope belongs to
(`LastInv`), and that each endpoint is as the flags up to the next selector say
(`ReachInv`). `ProfilesAreBlocks` does the same for the file: `ReadInv` says
that the profile being read is the last block of what has been read so far, and
those before it are the other blocks. The lemmas `BlockGrows` and `BlockStarts`
say what another line does to the blocks. `FirstProfileServes` adds that a block
is called what its first line says. `SettingsAreNotShared` starts from what is
contacted: that belongs to the profile that serves (`ContactInv`), the profile to a
block of the file (`BlocksInv`), and what is built of a block has each setting where
it was written for, and only there (`EntryWrittenIn`). `SessionFromLine` has, until
the session starts, that the messages are those of the line in their order and that
each flag of the session has the last value given (`FieldsInv`).

**From files to a client** (`ConfigurationProofs`). `HostsFile` and the cutting
of a typed line are recursive functions of the number of lines or settings. The
induction they need is `RangeInduction`, which speaks of sets: one that has 0,
and with each number below N the next, has 0..N; the set is that of the
prefixes that are as they should be. `ChainExists` says that such functions
exist. `ReadSoFar` says what they should be: before the block of the name,
nothing has been found; inside of it, the endpoint is the block's so far, the
last host with the settings below it, or there was a mistake in it; behind it,
nothing changes. `LoadFacts` is what that comes to at the end of the file.
`TokensTell` and `ReadsAsTyped` say of a typed line that, if every flag has a
text that is accepted, no text was cut (`Torn`: of a text that was, some first
words are no JSON), and the settings are those that were typed. `EquipFollowed`
says that adding them keeps their order. `SetupInv` has, of every host that is
connected, how it came (`Original`, `AddedBy`); `EndpointsFromOwnBlock` and
`SettingsAsTyped` are its parts, for hosts files and typed lines of any length.

**What is sent** (`ConfigurationProofs`). `MergedPlaces` is the lemma on
`merge_json`: the places of the result are those of the overlay and those of the
base that outlive it, where a place outlives it if on its path the overlay has
nothing but objects, and it is one itself if the overlay has it.
`NestedObjectsMerge` follows for any number of bodies of any depth
(`StandingGrows` says what one more body does). `CompletedPlaces` says of
a message which fields come from where, and `MessagesStayWhole` that the message
last sent is one that was completed so. `EndpointHeadersWin` has three invariants:
the map of headers has of each name the last that was given (`HeadersOf`), the
client's headers are that map over one of the maps the meta file may give
(`WireInv`), and no meta file counts before there is a connection. Which of two
spellings is sent depends on their case only, and the property says what is left
of "later values win" then.

**Assumptions.** The bounds of an instance are natural numbers, sets of options
consist of Booleans, and the constants have the shapes that the code gives them
(a line has a key and a value; every base name has a numbered form; a file has a
directory above it; an endpoint is a URL or a command, not both; JSON cut at a
blank is no JSON; bodies are JSON). They are the `ASSUME`s of the modules, which TLC
evaluates for every instance. The two further assumptions, `CleanBases` and the
single caller of a quiet server, stand in the theorems that need them.

**Only model-checked:**

- Liveness (`TurnEnds`, `CallsReturn`, `ServerStops`, `ServerGetsFree`) and the
  fairness in `KeepsSession` and `KeepsTransport`, which the prover cannot do.

Every other property of the passing runs is a theorem.

## What is not modelled

The texts of messages, questions and errors, JSON and HTTP syntax, cutting lines
into words, and line editing: they are conversions without state. clap's
parsing of the command line of `omcp`. Reading the meta file, and base64.
Addresses of the model and the conversion of tool schemas (`model_url`,
`mcp_tool_to_ollama`). Header values that HTTP does not allow, which fail like
an unset reference. Symbolic links and file contents in the file server: with
links, a path may have changed its meaning between question and answer. Two
tasks that share a client: the programs never do that.

What is next: the routed session over several transports, as `HostedSession` is
for one.
