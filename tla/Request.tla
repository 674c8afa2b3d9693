------------------------------ MODULE Request ------------------------------
(***************************************************************************)
(* What is sent to an endpoint with the headers and the bodies that were   *)
(* given for it: EndpointConfig (src/src/endpoint.rs), the headers of the  *)
(* meta file (build_headers of src/src/meta.rs), connect_endpoint          *)
(* (src/src/lib.rs), and the messages of McpClient (src/src/mcp.rs) and of *)
(* OllamaClient (src/src/ollama.rs).                                       *)
(*                                                                         *)
(* Header names that differ in case only are two keys in JSON and one      *)
(* header on the wire.  A JSON value is the function from its places, the  *)
(* paths of keys that lead to them, to what stands there: an object or,    *)
(* with all it may hold, an atom.                                          *)
(***************************************************************************)
EXTENDS Naturals, Sequences

CONSTANTS
  JsonKeys,     \* keys of objects
  Bodies,       \* JSON values that may be given
  HeaderWords,  \* header names, apart from their case
  Values,       \* header values that are no references
  References,   \* header values env:NAME, each a variable of the environment
  Environment,  \* reference -> value of its variable, for those that are set
  MetaFiles,    \* meta files: [auth, headers], auth a header or NoAuth, and
                \*   headers a function from names to values
  ModelNames,   \* model names; "" when -model is a URL
  MaxGiven      \* bound: headers and bodies given

\* Upper case sorts before lower case.
HeaderNames == [word : HeaderWords, case : {"upper", "lower"}]
NoAuth == [word |-> "none", value |-> "none"]
NoHeaders == [n \in {} |-> "none"]

Atom(value) == [p \in {<< >>} |-> value]
Object(fields) ==
  [p \in {<< >>} \cup UNION {{<<k>> \o q : q \in DOMAIN fields[k]} : k \in DOMAIN fields} |->
     IF p = << >> THEN "object" ELSE fields[Head(p)][Tail(p)]]
Empty == Object([k \in {} |-> Atom("none")])

IsObject(j) == j[<< >>] = "object"
KeysOf(j) == {p[1] : p \in DOMAIN j \ {<< >>}}
Upto(p, n) == SubSeq(p, 1, n)

\* A place is in objects, all the way down.
IsJson(j) ==
  /\ j = [p \in DOMAIN j |-> j[p]] /\ << >> \in DOMAIN j
  /\ \A p \in DOMAIN j :
       /\ p \in Seq(JsonKeys)
       /\ \A n \in 0..Len(p) : Upto(p, n) \in DOMAIN j /\ (n < Len(p) => j[Upto(p, n)] = "object")

RpcFields == {"jsonrpc", "id", "method", "params"}
ModelFields == {"model", "messages", "stream", "tools"}

ASSUME RequestAssumption ==
  /\ RpcFields \cup ModelFields \cup {"name"} \subseteq JsonKeys
  /\ \A j \in Bodies : IsJson(j)

VARIABLES
  bodies,      \* bodies given, in order
  body,        \* EndpointConfig.body
  given,       \* headers given, in order, as [name, value]
  headers,     \* EndpointConfig.headers: name -> value
  meta,        \* the meta file, once the endpoint is connected to
  wire,        \* headers of the client's requests: word -> value
  sent,        \* [kind, own, payload]: message sent last, its own fields and all of
               \*   them; or NoMessage
  stage        \* "idle", "connected", "sent" or "failed"

endpoint == <<bodies, body, given, headers>>
requestVars == <<endpoint, meta, wire, sent, stage>>

NoMeta == [auth |-> NoAuth, headers |-> NoHeaders]
NoMessage == [kind |-> "none", own |-> Empty, payload |-> Empty]

RequestInit ==
  /\ bodies = << >> /\ body = Empty
  /\ given = << >> /\ headers = NoHeaders
  /\ meta = NoMeta /\ wire = NoHeaders
  /\ sent = NoMessage /\ stage = "idle"
-----------------------------------------------------------------------------
(* The endpoint *)

\* Whether merge_json is called for the first n keys of a path: where two objects
\* meet it goes on with each key that both have.
Meet(base, overlay, p) == base[p] = "object" /\ overlay[p] = "object"
Called(base, overlay, p) ==
  LET c[n \in 0..Len(p)] ==
        IF n = 0 THEN TRUE
        ELSE /\ c[n - 1] /\ Meet(base, overlay, Upto(p, n - 1))
             /\ Upto(p, n) \in DOMAIN base \cap DOMAIN overlay
  IN  c

\* A call with anything else than two objects gives the overlay.
Replaced(base, overlay, p) ==
  \E n \in 0..Len(p) : Called(base, overlay, p)[n] /\ ~Meet(base, overlay, Upto(p, n))

\* Mutant: an object replaces the one that is there.
MergeFlat(base, overlay) ==
  LET kept == {p \in DOMAIN base : Meet(base, overlay, << >>) /\ (p # << >> => p[1] \notin KeysOf(overlay))}
  IN  [p \in kept \cup DOMAIN overlay |-> IF p \in DOMAIN overlay THEN overlay[p] ELSE base[p]]

Merge(base, overlay) ==
  LET kept == {p \in DOMAIN base : ~Replaced(base, overlay, p)}
  IN  [p \in kept \cup DOMAIN overlay |-> IF p \in DOMAIN overlay THEN overlay[p] ELSE base[p]]

Giving == stage = "idle" /\ Len(bodies) + Len(given) < MaxGiven

\* Headers and bodies do not meet: the bodies come first here.
GiveBody(j) ==
  /\ Giving /\ given = << >>
  /\ bodies' = Append(bodies, j)
  /\ body' = Merge(body, j)
  /\ UNCHANGED <<given, headers, meta, wire, sent, stage>>

Insert(f, key, value) ==
  [k \in DOMAIN f \cup {key} |-> IF k = key THEN value ELSE f[k]]

GiveHeader(name, value) ==
  /\ Giving
  /\ given' = Append(given, [name |-> name, value |-> value])
  /\ headers' = Insert(headers, name, value)
  /\ UNCHANGED <<bodies, body, meta, wire, sent, stage>>

\* header_map goes by the order of the keys, and keeps the last of a word.
WordsOf(names) == {n.word : n \in names}
HeaderMap ==
  [w \in WordsOf(DOMAIN headers) |->
     LET lower == [word |-> w, case |-> "lower"]
     IN  headers[IF lower \in DOMAIN headers THEN lower ELSE [word |-> w, case |-> "upper"]]]
-----------------------------------------------------------------------------
(* The client of a host *)

SecretResolves(value) == value \in References => value \in DOMAIN Environment
Secret(value) == IF value \in References THEN Environment[value] ELSE value

MetaResolves(m) ==
  /\ m.auth # NoAuth => SecretResolves(m.auth.value)
  /\ \A n \in DOMAIN m.headers : SecretResolves(m.headers[n])

\* build_headers goes by the order of a hash map, which is any.
MetaMaps(m) ==
  LET auth == IF m.auth = NoAuth THEN {} ELSE {m.auth.word}
      own == WordsOf(DOMAIN m.headers)
      last == {f \in [own -> DOMAIN m.headers] : \A w \in own : f[w].word = w}
  IN  {[w \in own \cup auth |-> Secret(IF w \in own THEN m.headers[f[w]] ELSE m.auth.value)]
         : f \in last}

\* Mutant: the meta file comes last.
OverEndpoint(low, high) == [w \in DOMAIN low \cup DOMAIN high |->
                              IF w \in DOMAIN low THEN low[w] ELSE high[w]]

Over(low, high) == [w \in DOMAIN low \cup DOMAIN high |->
                      IF w \in DOMAIN high THEN high[w] ELSE low[w]]

Connect(m) ==
  /\ stage = "idle"
  /\ meta' = m
  /\ IF MetaResolves(m)
       THEN (\E map \in MetaMaps(m) : wire' = Over(map, HeaderMap)) /\ stage' = "connected"
       ELSE stage' = "failed" /\ UNCHANGED wire
  /\ UNCHANGED <<endpoint, sent>>
-----------------------------------------------------------------------------
(* Messages *)

\* Mutant: the defaults are laid over the message.
CompleteOver(own) == Merge(own, body)

\* The message laid over the defaults; then its own fields are put in whole.
Complete(own) ==
  LET merged == Merge(body, own)
      rest == {p \in DOMAIN merged : p # << >> => p[1] \notin KeysOf(own)}
  IN  [p \in DOMAIN own \cup rest |-> IF p \in DOMAIN own THEN own[p] ELSE merged[p]]

Send(kind, own) ==
  /\ sent' = [kind |-> kind, own |-> own, payload |-> Complete(own)]
  /\ stage' = "sent"
  /\ UNCHANGED <<endpoint, meta>>

Message(fields) ==
  Object([k \in fields |-> IF k = "params" THEN Object([f \in {"name"} |-> Atom("own")])
                           ELSE Atom("own")])

SendRequest ==
  /\ stage = "connected"
  /\ Send("request", Message(RpcFields))
  /\ UNCHANGED wire

SendNotification ==
  /\ stage = "connected"
  /\ Send("notification", Message(RpcFields \ {"id"}))
  /\ UNCHANGED wire

\* The endpoint of a model needs no connection and no meta file.  There may be no tools.
AskModel(name) ==
  /\ stage = "idle"
  /\ \E without \in SUBSET {"model", "tools"} :
       /\ "model" \in without <=> name = ""
       /\ Send("model", Message(ModelFields \ without))
  /\ wire' = HeaderMap

Finished == stage \in {"sent", "failed"} /\ UNCHANGED requestVars

RequestNext ==
  \/ \E j \in Bodies : GiveBody(j)
  \/ \E name \in HeaderNames, value \in Values \cup References : GiveHeader(name, value)
  \/ \E m \in MetaFiles : Connect(m)
  \/ SendRequest \/ SendNotification \/ \E name \in ModelNames : AskModel(name)
  \/ Finished

RequestSpec == RequestInit /\ [][RequestNext]_requestVars
-----------------------------------------------------------------------------
(* Properties *)

\* What stands where in a value.
Places(j) == {[path |-> p, is |-> j[p]] : p \in DOMAIN j}

\* A place outlives what is merged over it if only objects meet it on its path.
Outlives(place, overlay) ==
  \A n \in 0..Len(place.path) :
    LET p == Upto(place.path, n)
    IN  p \in DOMAIN overlay =>
          overlay[p] = "object" /\ (n = Len(place.path) => place.is = "object")

\* "Repeatable; nested objects merge" (README.md): a place is there exactly if it
\* was given and nothing given later replaces it or what it stands in.
BodiesMerge ==
  LET all == <<Empty>> \o bodies
  IN  Places(body) = UNION {{p \in Places(all[i]) : \A k \in i + 1 .. Len(all) : Outlives(p, all[k])}
                              : i \in DOMAIN all}

\* The places of a field.
InField(j, k) == {p \in Places(j) : p.path # << >> /\ p.path[1] = k}

\* No body that was given changes what a message itself says, at any depth, and
\* each field of it that the message does not say is sent with it.
OwnFieldsWin ==
  LET own == sent.own
      payload == sent.payload
  IN  sent # NoMessage =>
        /\ IsObject(payload)
        /\ KeysOf(payload) = KeysOf(own) \cup KeysOf(body)
        /\ \A k \in KeysOf(own) : InField(payload, k) = InField(own, k)
        /\ \A k \in KeysOf(payload) \ KeysOf(own) : InField(payload, k) = InField(body, k)

GivenFor(w) == {i \in DOMAIN given : given[i].name.word = w}

\* What a meta file has for a word: its headers come after its auth.
MetaValues(m, w) ==
  IF w \in WordsOf(DOMAIN m.headers)
    THEN {m.headers[n] : n \in {n \in DOMAIN m.headers : n.word = w}}
    ELSE {a.value : a \in {a \in {m.auth} : a # NoAuth /\ a.word = w}}

\* A header stands for its value, or for that of the variable it refers to.
StandsFor(value, text) ==
  IF value \in References THEN value \in DOMAIN Environment /\ text = Environment[value] ELSE text = value

\* A header of the endpoint wins over the meta file's, its auth included, and the
\* last one given wins ("Repeatable; later values override matching keys",
\* README.md) when all are written alike; where the endpoint has none, the meta
\* file's is sent, each reference as its variable, and no other header.
EndpointOverMeta ==
  stage \in {"connected", "sent"} =>
    \A w \in HeaderWords :
      LET alike == \A i, j \in GivenFor(w) : given[i].name = given[j].name
      IN  /\ w \in DOMAIN wire <=> GivenFor(w) # {} \/ MetaValues(meta, w) # {}
          /\ GivenFor(w) # {} =>
               \E i \in GivenFor(w) :
                 given[i].value = wire[w] /\ (alike => \A j \in GivenFor(w) : j <= i)
          /\ GivenFor(w) = {} /\ w \in DOMAIN wire =>
               \E value \in MetaValues(meta, w) : StandsFor(value, wire[w])
=============================================================================
