------------------------------- MODULE Setup -------------------------------
(***************************************************************************)
(* From an endpoint as it was asked for to the client that is connected:   *)
(* connect_hosts, parse_added_host and connect_endpoint (src/src/lib.rs)   *)
(* with the hosts file (src/src/hosts.rs) and the settings file            *)
(* (src/src/settings.rs).  The settings are read anew for each connection  *)
(* that asks for them, and may have been edited in between.                *)
(***************************************************************************)
EXTENDS HostsFile

CONSTANTS
  Starts,         \* [given, hosts]: endpoints that a session may be started with,
                  \*   and the lines of ~/.mcp/hosts
  Added,          \* what is typed behind /add-host: [host, settings], the settings
                  \*   a sequence of [flag, text]
  Words,          \* JSON text with blanks between its parts -> its words
  SettingsFiles,  \* contents of ~/.mcp/settings, sequences of [key, value]
  MaxHosts        \* bound: hosts

Numbers == Timeouts \cup {"-2"}

FileLines == Seq([key : STRING, value : STRING])

\* A value is either of the endpoints or a name.  No JSON text is, up to one of its
\* blanks, JSON.
ASSUME SetupAssumption ==
  /\ MaxHosts \in Nat /\ Urls \cap Commands = {}
  /\ SettingsFiles \subseteq FileLines
  /\ \A start \in Starts :
       /\ start.hosts \in FileLines
       /\ \A i \in DOMAIN start.hosts : start.hosts[i].value # None
       /\ start.given \in Seq(EndpointConfig)
       /\ \A i \in DOMAIN start.given : start.given[i].value # None
  /\ \A spec \in Added :
       /\ spec.host \in STRING /\ spec.host # None
       /\ spec.settings \in Seq([flag : STRING, text : STRING])
  /\ \A text \in DOMAIN Words :
       Words[text] \in Seq(STRING) \ {<< >>} /\ Words[text][1] \notin Objects \cup Texts

VARIABLES
  hosts,       \* the hosts file
  pending,     \* endpoints still to be connected
  connected,   \* [given, used, deadline]: the endpoint asked for, the one used, and
               \*   its deadline
  typed,       \* the /add-host lines taken so far
  phase        \* "connecting", "idle" or "failed"

setupVars == <<hosts, pending, connected, typed, phase>>

SetupInit ==
  /\ \E start \in Starts : hosts = start.hosts /\ pending = start.given
  /\ connected = << >> /\ typed = << >>
  /\ phase = "connecting"
-----------------------------------------------------------------------------
Direct(value) == value \in Urls \cup Commands

Loads(value) == ~Load(hosts, value).failed
Loaded(value) ==
  LET entry == Load(hosts, value).endpoint
  IN  IF entry = Nothing THEN New(value) ELSE entry

\* A value that is no endpoint is looked up, and its entry takes the place of all
\* that was asked for.
Resolves(e) == Direct(e.value) \/ Loads(e.value)
Resolved(e) ==
  IF Direct(e.value) \/ Load(hosts, e.value).endpoint = Nothing THEN e
  ELSE Load(hosts, e.value).endpoint

\* settings::timeout: each line must be a timeout, the last one counts.  No lines
\* stand for no file, too.
SettingsHold(file) ==
  /\ \A i \in DOMAIN file : file[i].key = "timeout" /\ file[i].value \in Numbers
  /\ file # << >> => file[Len(file)].value \in Timeouts
SettingsTimeout(file) == IF file = << >> THEN "420" ELSE file[Len(file)].value

TimeoutFor(e, file) == IF e.timeout # None THEN e.timeout ELSE SettingsTimeout(file)

\* connect_endpoint, up to the handshake.  A stdio server has no deadline.
Connects(e, file) ==
  \/ e.value \in Commands
  \/ e.value \in Urls /\ (e.timeout # None \/ SettingsHold(file))
Client(asked, e, file) ==
  [given |-> asked, used |-> e,
   deadline |-> IF e.value \in Commands \/ TimeoutFor(e, file) = "-1" THEN None
                ELSE TimeoutFor(e, file)]

Fail ==
  /\ phase' = "failed"
  /\ UNCHANGED <<hosts, pending, connected, typed>>

\* Any failure ends the session; a server may fail for reasons of its own.
ConnectHost ==
  /\ phase = "connecting" /\ pending # << >>
  /\ \/ Fail
     \/ /\ Resolves(Head(pending))
        /\ \E file \in SettingsFiles :
             /\ Connects(Resolved(Head(pending)), file)
             /\ connected' = Append(connected, Client(Head(pending), Resolved(Head(pending)), file))
        /\ pending' = Tail(pending)
        /\ UNCHANGED <<hosts, typed, phase>>

AllConnected ==
  /\ phase = "connecting" /\ pending = << >>
  /\ phase' = "idle"
  /\ UNCHANGED <<hosts, pending, connected, typed>>

\* The line is cut at every blank.  The first n settings, for each n:
TokensOf(settings) ==
  LET ws[n \in 0..Len(settings)] ==
        IF n = 0 THEN << >>
        ELSE ws[n - 1] \o <<settings[n].flag>>
               \o (IF settings[n].text \in DOMAIN Words THEN Words[settings[n].text]
                   ELSE <<settings[n].text>>)
  IN  ws
Tokens(spec) == TokensOf(spec.settings)[Len(spec.settings)]

SettingOf == [f \in {"-headers", "-body"} |-> IF f = "-headers" THEN "headers" ELSE "body"]
Pairs(tokens) == [i \in 1..(Len(tokens) \div 2) |-> [flag |-> tokens[2*i - 1], text |-> tokens[2*i]]]
Reads(tokens) ==
  /\ Len(tokens) % 2 = 0
  /\ \A i \in DOMAIN Pairs(tokens) :
       /\ Pairs(tokens)[i].flag \in DOMAIN SettingOf
       /\ Fits(SettingOf[Pairs(tokens)[i].flag], Pairs(tokens)[i].text)
\* The endpoint with the first n settings, for each n.
Equipping(e, pairs) ==
  LET x[n \in 0..Len(pairs)] ==
        IF n = 0 THEN e ELSE With(x[n - 1], SettingOf[pairs[n].flag], pairs[n].text)
  IN  x
Equip(e, pairs) == Equipping(e, pairs)[Len(pairs)]

AddHost(spec) ==
  LET e == Equip(Loaded(spec.host), Pairs(Tokens(spec)))
  IN  /\ phase = "idle" /\ Len(connected) < MaxHosts
      /\ typed' = Append(typed, spec)
      /\ \E file \in SettingsFiles :
           IF Loads(spec.host) /\ Reads(Tokens(spec)) /\ Connects(e, file)
             THEN connected' = Append(connected, Client(e, e, file)) /\ UNCHANGED phase
             ELSE phase' = "failed" /\ UNCHANGED connected
      /\ UNCHANGED <<hosts, pending>>

AddHostFails == phase = "idle" /\ Fail

\* The process has exited.
Exited == phase = "failed" /\ UNCHANGED setupVars

SetupNext ==
  \/ ConnectHost \/ AllConnected
  \/ \E spec \in Added : AddHost(spec)
  \/ AddHostFails \/ Exited

SetupSpec == SetupInit /\ [][SetupNext]_setupVars
-----------------------------------------------------------------------------
(* Properties *)

\* The texts are those before and then what is said at these places, in order.
Followed(texts, before, places, said) ==
  LET added == (Len(before) + 1)..Len(texts)
  IN  /\ \A i \in DOMAIN before : i \in DOMAIN texts /\ texts[i] = before[i]
      /\ \E at \in [added -> places] :
           /\ \A i, j \in added : i < j => at[i] < at[j]
           /\ \A n \in places : \E i \in added : at[i] = n
           /\ \A i \in added : texts[i] = said[at[i]]

TypedWith(flag, settings) == {n \in DOMAIN settings : settings[n].flag = flag}
TypedTexts(settings) == [n \in DOMAIN settings |-> settings[n].text]

\* A host added in a session has every setting that was typed, in order, behind
\* those of its alias (parse_added_host).
AddedAsTyped ==
  \A i \in DOMAIN typed : phase = "idle" =>
    LET host == connected[Len(connected) - Len(typed) + i].used
        alias == Loaded(typed[i].host)
        settings == typed[i].settings
    IN  /\ Followed(host.headers, alias.headers, TypedWith("-headers", settings), TypedTexts(settings))
        /\ Followed(host.body, alias.body, TypedWith("-body", settings), TypedTexts(settings))

\* The block of a name: the lines from the first name line that has it to the next.
NameLines(f) == {k \in DOMAIN f : f[k].key = "name"}
Begins(f, name, k) ==
  /\ k \in NameLines(f) /\ f[k].value = name
  /\ \A i \in NameLines(f) : f[i].value = name => k <= i
Block(f, name) ==
  {n \in DOMAIN f : \E k \in NameLines(f) :
     Begins(f, name, k) /\ k < n /\ \A i \in NameLines(f) : i > k => n < i}

LinesWith(f, block, keys) == {n \in block : f[n].key \in keys}

\* The endpoint is the last host of the block with what is behind it.
GivenBy(e, f, block) ==
  \E n \in LinesWith(f, block, {"host", "mcp"}) :
    LET behind == {m \in block : m > n}
        said == [m \in DOMAIN f |-> f[m].value]
    IN  /\ e.value = f[n].value /\ e.timeout = None
        /\ LinesWith(f, behind, {"host", "mcp"}) = {}
        /\ Followed(e.headers, << >>, LinesWith(f, behind, {"headers"}), said)
        /\ Followed(e.body, << >>, LinesWith(f, behind, {"body"}), said)

\* A host given by a name of the hosts file has the endpoint of that name's own
\* block, whatever stands before and behind it: the last host with the headers and
\* bodies below it, and nothing of another block.  Nor does a mistake in another
\* block keep a name from being loaded (hosts::load).
OwnBlockOnly ==
  /\ \A i \in DOMAIN connected : LET c == connected[i] IN
       i <= Len(connected) - Len(typed) /\ ~Direct(c.given.value) =>
         GivenBy(c.used, hosts, Block(hosts, c.given.value))
  /\ \A i \in DOMAIN pending : LET name == pending[i].value IN
       ~Direct(name) /\ ~Loads(name) =>
         \E n \in LinesWith(hosts, Block(hosts, name), {"headers", "body"}) :
           ~Fits(hosts[n].key, hosts[n].value)
=============================================================================
