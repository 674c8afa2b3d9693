----------------------------- MODULE ArgScopes -----------------------------
(***************************************************************************)
(* The command line of mcp: parse_args and main of src/src/bin/mcp.rs.     *)
(* Each step takes a flag with its value.                                  *)
(***************************************************************************)
EXTENDS Endpoint, Naturals, FiniteSets

CONSTANTS
  Args,       \* flags with values, [flag, value]; a value may be missing
  MaxArgs,    \* bound: flags on the line
  Aliases,    \* alias -> what hosts::load makes of it, or None when it fails
  Names,      \* namespaces that -nsname accepts
  Arrays,     \* texts of JSON arrays of messages
  Metas       \* path -> [tools, version] of a meta file that loads

Missing == "missing"
SessionFlags == {"-tools", "-message", "-meta", "-prompt", "-prompt-type", "-protocol-version"}
SettingOf == [f \in {"-headers", "-body", "-timeout"} |->
                CASE f = "-headers" -> "headers" [] f = "-body" -> "body" [] OTHER -> "timeout"]

ASSUME ArgsAssumption ==
  /\ MaxArgs \in Nat
  /\ Args \subseteq [flag : STRING, value : STRING]
  /\ \A a \in Args : a.value # None
  /\ \A name \in DOMAIN Aliases : Aliases[name] \in EndpointConfig
  /\ Missing \notin Urls \cup Objects \cup Texts \cup Arrays \cup Names
  /\ None \notin Urls

VARIABLES
  line,         \* the flags taken so far
  hosts, model, modelName, messages,
  fields,       \* the session flags: last value of each, or None
  scope, namespaceIsNext,
  outcome,      \* "parsing", "parsed", "started", "help" or "failed"
  session       \* [tools, version, history] that run_chat_hosts gets

endpoints == <<hosts, model, modelName>>
parsed == <<endpoints, messages, fields>>
vars == <<line, parsed, scope, namespaceIsNext, outcome, session>>

NoSession == [tools |-> None, version |-> None, history |-> << >>]

Init ==
  /\ line = << >>
  /\ hosts = << >> /\ model = New(None) /\ modelName = None
  /\ messages = << >>
  /\ fields = [f \in SessionFlags |-> IF f = "-prompt-type" THEN "system" ELSE None]
  /\ scope = "none" /\ namespaceIsNext = FALSE
  /\ outcome = "parsing" /\ session = NoSession
-----------------------------------------------------------------------------
Fail(because) ==
  /\ because
  /\ outcome' = "failed"
  /\ UNCHANGED <<parsed, scope, namespaceIsNext>>

Loads(value) == value \in DOMAIN Aliases => Aliases[value] # New(None)

Host(value) ==
  \/ Fail(value = Missing \/ ~Loads(value))
  \/ /\ value # Missing /\ Loads(value)
     /\ hosts' = Append(hosts, IF value \in DOMAIN Aliases THEN Aliases[value] ELSE New(value))
     /\ scope' = "host" /\ namespaceIsNext' = TRUE
     /\ UNCHANGED <<model, modelName, messages, fields, outcome>>

Model(value) ==
  \/ Fail(value = Missing)
  \/ /\ value # Missing
     /\ modelName' = IF value \in Urls THEN "" ELSE value
     /\ model' = New(IF value \in Urls THEN value ELSE "ollama")
     /\ scope' = "model" /\ namespaceIsNext' = FALSE
     /\ UNCHANGED <<hosts, messages, fields, outcome>>

\* Mutant: any time before the next selector will do.
NsNameLater(value) ==
  /\ scope = "host" /\ value \in Names
  /\ hosts' = [hosts EXCEPT ![Len(hosts)].namespace = value]
  /\ UNCHANGED <<model, modelName, messages, fields, scope, namespaceIsNext, outcome>>

NsName(value) ==
  LET allowed == scope = "host" /\ namespaceIsNext /\ value \in Names
  IN  \/ Fail(~allowed)
      \/ /\ allowed
         /\ hosts' = [hosts EXCEPT ![Len(hosts)].namespace = value]
         /\ namespaceIsNext' = FALSE
         /\ UNCHANGED <<model, modelName, messages, fields, scope, outcome>>

\* -headers, -body and -timeout, for the endpoint of the scope.
Setting(setting, value) ==
  \/ Fail(scope = "none" \/ ~Fits(setting, value))
  \/ /\ Fits(setting, value)
     /\ \/ /\ scope = "host"
           /\ hosts' = [hosts EXCEPT ![Len(hosts)] = With(@, setting, value)]
           /\ UNCHANGED model
        \/ /\ scope = "model"
           /\ model' = With(model, setting, value)
           /\ UNCHANGED hosts
     /\ namespaceIsNext' = FALSE
     /\ UNCHANGED <<modelName, messages, fields, scope, outcome>>

\* Mutant: -messages opens the scope of the model.
MessagesAnywhere(value) ==
  /\ value \in Arrays /\ messages' = Append(messages, value)
  /\ scope' = "model" /\ namespaceIsNext' = FALSE
  /\ UNCHANGED <<endpoints, fields, outcome>>

Messages(value) ==
  LET allowed == scope = "model" /\ value \in Arrays
  IN  \/ Fail(~allowed)
      \/ /\ allowed
         /\ messages' = Append(messages, value)
         /\ namespaceIsNext' = FALSE
         /\ UNCHANGED <<endpoints, fields, scope, outcome>>

SessionField(flag, value) ==
  \/ Fail(value = Missing)
  \/ /\ value # Missing
     /\ fields' = [fields EXCEPT ![flag] = value]
     /\ namespaceIsNext' = FALSE
     /\ UNCHANGED <<endpoints, messages, scope, outcome>>

Help ==
  /\ outcome' = "help"
  /\ UNCHANGED <<parsed, scope, namespaceIsNext>>

Take(a) ==
  /\ outcome = "parsing" /\ Len(line) < MaxArgs
  /\ line' = Append(line, a)
  /\ CASE a.flag = "-host" -> Host(a.value)
       [] a.flag = "-model" -> Model(a.value)
       [] a.flag = "-nsname" -> NsName(a.value)
       [] a.flag \in DOMAIN SettingOf -> Setting(SettingOf[a.flag], a.value)
       [] a.flag = "-messages" -> Messages(a.value)
       [] a.flag \in SessionFlags -> SessionField(a.flag, a.value)
       [] a.flag = "-help" -> Help
       [] OTHER -> Fail(TRUE)
  /\ UNCHANGED session

EndOfLine ==
  /\ outcome = "parsing"
  /\ outcome' = IF fields["-prompt-type"] \in {"system", "user", "assistant"} /\ hosts # << >>
                THEN "parsed" ELSE "failed"
  /\ UNCHANGED <<line, parsed, scope, namespaceIsNext, session>>

\* Mutant: the meta file comes first.
OrMeta(given, other) == IF other = None THEN given ELSE other

Or(given, other) == IF given = None THEN other ELSE given

\* main, up to run_chat_hosts.
Start ==
  LET meta == IF fields["-meta"] = None THEN [tools |-> None, version |-> None]
              ELSE Metas[fields["-meta"]]
  IN  /\ outcome = "parsed"
      /\ \/ Fail(\/ model.value = None
                 \/ fields["-meta"] \notin DOMAIN Metas \cup {None}) /\ UNCHANGED session
         \/ /\ model.value # None /\ fields["-meta"] \in DOMAIN Metas \cup {None}
            /\ session' = [tools |-> Or(fields["-tools"], meta.tools),
                           version |-> Or(fields["-protocol-version"], meta.version),
                           history |-> IF fields["-prompt"] = None THEN messages
                                       ELSE Append(messages, fields["-prompt"])]
            /\ outcome' = "started"
            /\ UNCHANGED <<parsed, scope, namespaceIsNext>>
      /\ UNCHANGED line

Done == outcome \in {"started", "help", "failed"} /\ UNCHANGED vars

Next == (\E a \in Args : Take(a)) \/ EndOfLine \/ Start \/ Done

Spec == Init /\ [][Next]_vars
-----------------------------------------------------------------------------
(* Properties *)

\* The scope never names an endpoint that is not there: the unwraps of
\* parse_args cannot panic.
ScopeHasEndpoint ==
  /\ scope = "host" => hosts # << >>
  /\ scope = "model" => model.value # None
  /\ namespaceIsNext => scope = "host"

\* What the line says, read without a scope: where the flags behind a selector
\* are, up to the next one.
Selectors == {k \in DOMAIN line : line[k].flag \in {"-host", "-model"}}
Behind(k) == {n \in DOMAIN line : n > k /\ \A j \in Selectors : j > k => n < j}
At(k, flag) == {n \in Behind(k) : line[n].flag = flag}

\* The texts are those before and then the values at these places, in order.
Followed(texts, before, places) ==
  LET added == (Len(before) + 1)..Len(texts)
  IN  /\ \A i \in DOMAIN before : i \in DOMAIN texts /\ texts[i] = before[i]
      /\ \E at \in [added -> places] :
           /\ \A i, j \in added : i < j => at[i] < at[j]
           /\ \A n \in places : \E i \in added : at[i] = n
           /\ \A i \in added : texts[i] = line[at[i]].value

\* Endpoint e is the one to start from with what stands behind selector k.
IsMeant(e, k, start) ==
  /\ e.value = start.value
  /\ Followed(e.headers, start.headers, At(k, "-headers"))
  /\ Followed(e.body, start.body, At(k, "-body"))
  /\ IF At(k, "-timeout") = {} THEN e.timeout = start.timeout
     ELSE \E n \in At(k, "-timeout") :
            e.timeout = line[n].value /\ \A m \in At(k, "-timeout") : m <= n
  /\ IF At(k, "-nsname") = {} THEN e.namespace = start.namespace
     ELSE At(k, "-nsname") = {k + 1} /\ e.namespace = line[k + 1].value

HostsUpTo(k) == Cardinality({j \in Selectors : j <= k /\ line[j].flag = "-host"})

\* Every setting ends up at the endpoint that the usage text of mcp says, behind
\* whatever the alias brought along, and a namespace stands right behind its
\* -host; the model is the last one given.
SettingsReachEndpoint ==
  outcome \notin {"failed", "help"} =>
    \A k \in Selectors :
      LET v == line[k].value
      IN  IF line[k].flag = "-host"
            THEN IsMeant(hosts[HostsUpTo(k)], k,
                         IF v \in DOMAIN Aliases THEN Aliases[v] ELSE New(v))
            ELSE (\A j \in Selectors : j > k => line[j].flag = "-host")
                   => IsMeant(model, k, New(IF v \in Urls THEN v ELSE "ollama"))

\* The value of this flag that the session goes by: the last on the line, wherever it
\* stands, else another.
Given(flag) == {n \in DOMAIN line : line[n].flag = flag}
IsLast(value, flag, other) ==
  IF Given(flag) = {} THEN value = other
  ELSE \E n \in Given(flag) : value = line[n].value /\ \A m \in Given(flag) : m <= n

\* A session has the tools and the version of the line, and those of the meta file
\* named last only where the line has none, also if -meta comes behind; it begins
\* with the messages of all models in the order of the line and then the prompt,
\* also if that comes before them (parse_args, main).
SessionFollowsLine ==
  outcome = "started" =>
    LET length == Len(session.history)
        prompted == Given("-prompt") # {}
    IN  /\ \E path \in DOMAIN Metas \cup {None} :
             /\ IsLast(path, "-meta", None)
             /\ IsLast(session.tools, "-tools", IF path = None THEN None ELSE Metas[path].tools)
             /\ IsLast(session.version, "-protocol-version",
                       IF path = None THEN None ELSE Metas[path].version)
        /\ prompted => length > 0 /\ IsLast(session.history[length], "-prompt", None)
        /\ Followed(SubSeq(session.history, 1, IF prompted THEN length - 1 ELSE length),
                    << >>, Given("-messages"))
=============================================================================
