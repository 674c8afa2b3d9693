------------------------------ MODULE Profiles ------------------------------
(***************************************************************************)
(* The profiles of ~/.mcp/config (src/src/config.rs) and the commands of   *)
(* omcp on them (src/src/main.rs).  Each step reads a line; the command    *)
(* runs when all are read.                                                 *)
(***************************************************************************)
EXTENDS Endpoint, Naturals

CONSTANTS
  Forms,       \* what a file may be made of: [lines, size], lines [key, value] and
               \* the bound on their number; comments and blanks are skipped
  HostLists,   \* text of mcp_hosts -> its items, [host, headers, body]
  Arrays,      \* texts of JSON arrays of messages
  Invocations, \* commands of omcp, [command, name]
  Metas        \* meta files that load

ASSUME ProfilesAssumption ==
  /\ \A form \in Forms :
       /\ form.size \in Nat
       /\ \A l \in form.lines : DOMAIN l = {"key", "value"} /\ l.value # None
  /\ \A c \in Invocations : c.command \in {"list", "tools", "chat"}

Missing == "missing"
Keys == {"name", "mcp", "mcp_headers", "mcp_body", "mcp_timeout", "mcp_hosts",
         "model", "model_host", "model_endpoint", "model_headers", "model_body",
         "model_timeout", "messages", "meta"}

VARIABLES
  file,        \* the lines read so far
  current,     \* fields of the profile being read, or NoFields
  entries,     \* profiles
  outcome,     \* "reading", "loaded", "done" or "failed"
  contacted    \* endpoints that the command hands over to connect to

vars == <<file, current, entries, outcome, contacted>>

NoFields == [k \in Keys |-> None]

Init ==
  /\ file = << >> /\ current = NoFields /\ entries = << >>
  /\ outcome = "reading" /\ contacted = << >>
-----------------------------------------------------------------------------
(* Profiles *)

Or(value, other) == IF value = None THEN other ELSE value

\* An endpoint with the settings that are there; each is named by its text.
Equipped(value, headers, body, timeout) ==
  LET h == IF headers = None THEN New(value) ELSE With(New(value), "headers", headers)
      b == IF body = None THEN h ELSE With(h, "body", body)
  IN  IF timeout = None THEN b ELSE With(b, "timeout", timeout)

Fit(headers, body, timeout) ==
  /\ headers # None => Fits("headers", headers)
  /\ body # None => Fits("body", body)
  /\ timeout # None => Fits("timeout", timeout)

\* parse_mcp_hosts: an item without a string for its host is refused.
Listed(items) ==
  [i \in DOMAIN items |-> Equipped(items[i].host, items[i].headers, items[i].body, None)]
ListFits(items) ==
  \A i \in DOMAIN items : items[i].host # None /\ Fit(items[i].headers, items[i].body, None)

Fallback(f) == Equipped(f["mcp"], f["mcp_headers"], f["mcp_body"], f["mcp_timeout"])

\* Mutant: the hosts have the headers of the fallback, too.
EndpointsEquipped(f) ==
  IF f["mcp_hosts"] = None THEN <<Fallback(f)>>
  ELSE [i \in DOMAIN HostLists[f["mcp_hosts"]] |->
          Equipped(HostLists[f["mcp_hosts"]][i].host, f["mcp_headers"], None, None)]

Endpoints(f) ==
  IF f["mcp_hosts"] = None THEN <<Fallback(f)>> ELSE Listed(HostLists[f["mcp_hosts"]])

Builds(f) ==
  /\ f["name"] # None /\ f["mcp"] # None /\ f["model"] # None
  /\ Fit(f["mcp_headers"], f["mcp_body"], f["mcp_timeout"])
  /\ Fit(f["model_headers"], f["model_body"], f["model_timeout"])
  /\ f["messages"] \in Arrays \cup {None}
  /\ f["mcp_hosts"] # None =>
       f["mcp_hosts"] \in DOMAIN HostLists /\ ListFits(HostLists[f["mcp_hosts"]])

Entry(f) ==
  [name |-> f["name"], endpoint |-> Fallback(f), endpoints |-> Endpoints(f),
   model |-> f["model"],
   modelEndpoint |-> Equipped(Or(f["model_endpoint"], Or(f["model_host"], "ollama")),
                              f["model_headers"], f["model_body"], f["model_timeout"]),
   messages |-> f["messages"], meta |-> f["meta"]]

\* The profile being read is complete.
Finish(then) ==
  IF current # NoFields /\ ~Builds(current)
    THEN outcome' = "failed" /\ UNCHANGED entries
    ELSE /\ entries' = IF current = NoFields THEN entries ELSE Append(entries, Entry(current))
         /\ outcome' = then

\* Mutant: the fields of the profile before are kept as defaults.
NameLineKeeps(value) ==
  Finish("reading") /\ current' = [current EXCEPT !["name"] = value]

NameLine(value) ==
  Finish("reading") /\ current' = [NoFields EXCEPT !["name"] = value]

\* A key that is not known is kept, and never looked at.
FieldLine(key, value) ==
  /\ current # NoFields
  /\ current' = IF key \in Keys THEN [current EXCEPT ![key] = value] ELSE current
  /\ UNCHANGED <<entries, outcome>>

BadLine(l) ==
  /\ l.value = Missing \/ (l.key # "name" /\ current = NoFields)
  /\ outcome' = "failed" /\ UNCHANGED <<current, entries>>

Lines == UNION {form.lines : form \in Forms}

\* The lines that may follow those read.
NextLines ==
  UNION {form.lines : form \in {f \in Forms :
           Len(file) < f.size /\ \A i \in DOMAIN file : file[i] \in f.lines}}

Read(l) ==
  /\ outcome = "reading"
  /\ file' = Append(file, l)
  /\ \/ BadLine(l)
     \/ l.value # Missing /\ l.key = "name" /\ NameLine(l.value)
     \/ l.value # Missing /\ l.key # "name" /\ FieldLine(l.key, l.value)
  /\ UNCHANGED contacted

EndOfFile ==
  /\ outcome = "reading"
  /\ Finish("loaded")
  /\ UNCHANGED <<file, current, contacted>>
-----------------------------------------------------------------------------
(* Commands *)

\* Mutant: the last profile of a name counts.
NamedLast(i, name) ==
  entries[i].name = name /\ \A j \in i + 1 .. Len(entries) : entries[j].name # name

Named(i, name) ==
  entries[i].name = name /\ \A j \in 1 .. i - 1 : entries[j].name # name

\* What a command connects to: nothing, the fallback endpoint, or the hosts.
Contacts(command, entry) ==
  CASE command = "tools" -> <<entry.endpoint>>
    [] command = "chat" -> entry.endpoints

Run(command, name) ==
  /\ outcome = "loaded"
  /\ \/ command = "list" /\ outcome' = "done" /\ UNCHANGED contacted
     \/ /\ command # "list"
        /\ \E i \in DOMAIN entries :
             /\ Named(i, name) /\ entries[i].meta \in Metas \cup {None}
             /\ contacted' = Contacts(command, entries[i])
        /\ outcome' = "done"
     \/ /\ command # "list"
        /\ \A i \in DOMAIN entries : Named(i, name) => entries[i].meta \notin Metas \cup {None}
        /\ outcome' = "failed" /\ UNCHANGED contacted
  /\ UNCHANGED <<file, current, entries>>

Done == outcome \in {"done", "failed"} /\ UNCHANGED vars

Next ==
  \/ \E l \in NextLines : Read(l)
  \/ EndOfFile
  \/ \E c \in Invocations : Run(c.command, c.name)
  \/ Done

Spec == Init /\ [][Next]_vars
-----------------------------------------------------------------------------
(* Properties *)

Names(f) == {k \in DOMAIN f : f[k].key = "name"}

\* The last value of each key between a name line of file f and the next.
BlockOf(f, k) ==
  LET of(j) == j >= k /\ \A i \in k + 1 .. j : i \notin Names(f)
      last(key) == {j \in DOMAIN f : of(j) /\ f[j].key = key
                      /\ \A i \in j + 1 .. Len(f) : of(i) => f[i].key # key}
  IN  [key \in Keys |-> IF last(key) = {} THEN None ELSE f[CHOOSE j \in last(key) : TRUE].value]

\* The profiles are the blocks of the file, in order, each with its own fields and
\* no others'; a profile that cannot be built is never skipped (parse).
EntriesAreBlocks ==
  outcome = "loaded" =>
    \E place \in [DOMAIN entries -> Names(file)] :
      /\ \A i, j \in DOMAIN entries : i < j => place[i] < place[j]
      /\ \A k \in Names(file) : \E i \in DOMAIN entries : place[i] = k
      /\ \A i \in DOMAIN entries :
           Builds(BlockOf(file, place[i])) /\ entries[i] = Entry(BlockOf(file, place[i]))

\* Endpoint e has what is given, and nothing else.
Carries(e, value, header, text, seconds) ==
  /\ e.value = value /\ e.timeout = seconds
  /\ e.headers = IF header = None THEN << >> ELSE <<header>>
  /\ e.body = IF text = None THEN << >> ELSE <<text>>

\* Headers, which may be credentials, a body and a timeout go where they were written
\* for and nowhere else, whatever was read in between and whichever profile serves:
\* what is contacted is the fallback of one block of the file with the settings of
\* that fallback, or the items of that block's list, each with its own (build_entry,
\* parse_mcp_hosts, load).
SettingsStayWithHost ==
  contacted # << >> =>
    \E k \in Names(file) : LET block == BlockOf(file, k) IN
      \/ /\ DOMAIN contacted = {1}
         /\ Carries(contacted[1], block["mcp"], block["mcp_headers"], block["mcp_body"],
                    block["mcp_timeout"])
      \/ \E items \in {HostLists[list] : list \in {block["mcp_hosts"]} \ {None}} :
           /\ DOMAIN contacted = DOMAIN items
           /\ \A i \in DOMAIN items :
                Carries(contacted[i], items[i].host, items[i].headers, items[i].body, None)

\* A command on a name that two profiles have is about the first of them in the
\* file, and needs nothing of the other but that it can be built (load).
FirstOfName ==
  outcome = "done" /\ contacted # << >> =>
    \E k \in Names(file) :
      /\ contacted \in {<<Entry(BlockOf(file, k)).endpoint>>, Entry(BlockOf(file, k)).endpoints}
      /\ \A j \in Names(file) : file[j].value = file[k].value => k <= j
=============================================================================
