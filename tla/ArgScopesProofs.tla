--------------------------- MODULE ArgScopesProofs ---------------------------
(***************************************************************************)
(* Theorems about ArgScopes for every command line, of every length, and   *)
(* every set of aliases.                                                   *)
(***************************************************************************)
EXTENDS ArgScopes, SequenceTheorems, FiniteSetTheorems, TLAPS

\* The strings; the provers do not know that these two are.
Words == STRING \cup {None, "ollama"}

Configs ==
  [value : Words, namespace : Words, timeout : Words, headers : Seq(Words), body : Seq(Words)]

LEMMA NewFacts ==
  ASSUME NEW v \in Words
  PROVE  New(v) \in Configs /\ New(v).value = v
  <1>1. << >> \in Seq(Words) /\ None \in Words
    BY EmptySeq DEF Words
  <1> QED BY <1>1 DEF New, Configs

LEMMA AliasFacts ==
  ASSUME NEW name \in DOMAIN Aliases
  PROVE  Aliases[name] \in Configs
  <1>1. STRING \subseteq Words
    BY DEF Words
  <1>2. Seq(STRING) \subseteq Seq(Words)
    BY <1>1, SeqMonotonic
  <1> QED BY <1>1, <1>2, ArgsAssumption DEF EndpointConfig, Configs

\* A setting changes its own field of an endpoint.
LEMMA WithFacts ==
  ASSUME NEW e \in Configs, NEW text \in Words
  PROVE  /\ With(e, "headers", text) = [e EXCEPT !.headers = Append(@, text)]
         /\ With(e, "body", text) = [e EXCEPT !.body = Append(@, text)]
         /\ With(e, "timeout", text) = [e EXCEPT !.timeout = text]
         /\ \A setting \in {"headers", "body", "timeout"} : With(e, setting, text) \in Configs
  <1>1. Append(e.headers, text) \in Seq(Words) /\ Append(e.body, text) \in Seq(Words)
    BY AppendProperties DEF Configs
  <1>2. /\ With(e, "headers", text) = [e EXCEPT !.headers = Append(@, text)]
        /\ With(e, "body", text) = [e EXCEPT !.body = Append(@, text)]
        /\ With(e, "timeout", text) = [e EXCEPT !.timeout = text]
    BY DEF With
  <1>3. /\ With(e, "headers", text) \in Configs
        /\ With(e, "body", text) \in Configs
        /\ With(e, "timeout", text) \in Configs
    BY <1>1, <1>2 DEF Configs
  <1> QED BY <1>2, <1>3

LEMMA SettingFacts ==
  /\ DOMAIN SettingOf = {"-headers", "-body", "-timeout"}
  /\ SettingOf["-headers"] = "headers" /\ SettingOf["-body"] = "body"
  /\ SettingOf["-timeout"] = "timeout"
  BY DEF SettingOf
-----------------------------------------------------------------------------
(* The scope has its endpoint *)

TypeInv ==
  /\ line \in Seq(Args) /\ hosts \in Seq(Configs) /\ model \in Configs
  /\ scope \in {"none", "host", "model"} /\ namespaceIsNext \in BOOLEAN

ScopeInv == TypeInv /\ ScopeHasEndpoint

LEMMA ScopeInit == Init => ScopeInv
  <1>1. None \in Words
    BY DEF Words
  <1> QED BY <1>1, NewFacts, EmptySeq DEF Init, ScopeInv, TypeInv, ScopeHasEndpoint

\* The endpoint that comes with a -host.
Named(v) == IF v \in DOMAIN Aliases THEN Aliases[v] ELSE New(v)
Modelled(v) == New(IF v \in Urls THEN v ELSE "ollama")

LEMMA NamedFacts ==
  ASSUME NEW v \in Words
  PROVE  /\ Named(v) \in Configs
         /\ Modelled(v) \in Configs /\ Modelled(v).value # None
  <1>1. "ollama" \in Words /\ "ollama" # None
    BY DEF Words, None
  <1> QED BY <1>1, AliasFacts, NewFacts, ArgsAssumption DEF Named, Modelled

\* What a flag does to the endpoints and the scope, unless it ends the parsing.
Selects(a) ==
  \/ /\ a.flag = "-host" /\ hosts' = Append(hosts, Named(a.value)) /\ UNCHANGED model
     /\ scope' = "host" /\ namespaceIsNext' = TRUE
  \/ /\ a.flag = "-model" /\ model' = Modelled(a.value) /\ UNCHANGED hosts
     /\ scope' = "model" /\ namespaceIsNext' = FALSE

NamesIt(a) ==
  /\ a.flag = "-nsname" /\ scope = "host" /\ namespaceIsNext
  /\ hosts' = [hosts EXCEPT ![Len(hosts)].namespace = a.value]
  /\ UNCHANGED <<model, scope>> /\ namespaceIsNext' = FALSE

Sets(a) ==
  /\ a.flag \in DOMAIN SettingOf
  /\ \/ /\ scope = "host" /\ UNCHANGED model
        /\ hosts' = [hosts EXCEPT ![Len(hosts)] = With(@, SettingOf[a.flag], a.value)]
     \/ /\ scope = "model" /\ UNCHANGED hosts
        /\ model' = With(model, SettingOf[a.flag], a.value)
  /\ UNCHANGED scope /\ namespaceIsNext' = FALSE

Ignores(a) ==
  /\ a.flag \notin {"-host", "-model", "-nsname"} \cup DOMAIN SettingOf
  /\ UNCHANGED <<hosts, model, scope>> /\ namespaceIsNext' = FALSE

LEMMA TakeCases ==
  ASSUME NEW a \in Args, Take(a)
  PROVE  \/ outcome' \in {"failed", "help"} /\ UNCHANGED <<hosts, model, scope, namespaceIsNext>>
         \/ Selects(a) \/ NamesIt(a) \/ Sets(a) \/ Ignores(a)
  <1>1. CASE a.flag = "-host"
    <2>1. Host(a.value)
      BY <1>1, SettingFacts DEF Take, SessionFlags
    <2> QED BY <1>1, <2>1 DEF Host, Fail, parsed, endpoints, Selects, Named
  <1>2. CASE a.flag = "-model"
    <2>1. Model(a.value)
      BY <1>2, SettingFacts DEF Take, SessionFlags
    <2> QED BY <1>2, <2>1 DEF Model, Fail, parsed, endpoints, Selects, Modelled
  <1>3. CASE a.flag = "-nsname"
    <2>1. NsName(a.value)
      BY <1>3, SettingFacts DEF Take, SessionFlags
    <2> QED BY <1>3, <2>1 DEF NsName, Fail, parsed, endpoints, NamesIt
  <1>4. CASE a.flag \in DOMAIN SettingOf
    <2>1. Setting(SettingOf[a.flag], a.value)
      BY <1>4, SettingFacts DEF Take, SessionFlags
    <2> QED BY <1>4, <2>1 DEF Setting, Fail, parsed, endpoints, Sets
  <1>5. CASE a.flag \notin {"-host", "-model", "-nsname"} \cup DOMAIN SettingOf
    <2>1. Messages(a.value) \/ SessionField(a.flag, a.value) \/ Help \/ Fail(TRUE)
      BY <1>5, SettingFacts DEF Take, SessionFlags
    <2> QED BY <1>5, <2>1 DEF Messages, SessionField, Help, Fail, parsed, endpoints, Ignores
  <1> QED BY <1>1, <1>2, <1>3, <1>4, <1>5

\* Steps that take no flag, or fail, leave the endpoints alone.
LEMMA StepCases ==
  ASSUME [Next]_vars
  PROVE  \/ /\ UNCHANGED <<hosts, model, scope, namespaceIsNext>>
            /\ \/ line' = line /\ (outcome' \notin {"failed", "help"} => outcome \notin {"failed", "help"})
               \/ \E a \in Args : line' = Append(line, a) /\ outcome' \in {"failed", "help"}
         \/ \E a \in Args : /\ line' = Append(line, a) /\ outcome = "parsing"
                            /\ Selects(a) \/ NamesIt(a) \/ Sets(a) \/ Ignores(a)
  <1>1. ASSUME NEW a \in Args, Take(a)
        PROVE  /\ line' = Append(line, a) /\ outcome = "parsing"
               /\ \/ /\ outcome' \in {"failed", "help"}
                     /\ UNCHANGED <<hosts, model, scope, namespaceIsNext>>
                  \/ Selects(a) \/ NamesIt(a) \/ Sets(a) \/ Ignores(a)
    BY <1>1, TakeCases DEF Take
  <1>2. EndOfLine \/ Start \/ Done \/ UNCHANGED vars
          => /\ UNCHANGED <<hosts, model, scope, namespaceIsNext, line>>
             /\ outcome' \notin {"failed", "help"} => outcome \notin {"failed", "help"}
    BY DEF EndOfLine, Start, Done, Fail, vars, parsed, endpoints
  <1> QED BY <1>1, <1>2 DEF Next

\* The endpoint of the scope is the one that a setting changes.
LEMMA ChangeFacts ==
  ASSUME ScopeInv
  PROVE  /\ \A a \in Args : a.value \in Words
         /\ scope = "host" => Len(hosts) \in Nat \ {0} /\ hosts[Len(hosts)] \in Configs
         /\ \A flag \in DOMAIN SettingOf : SettingOf[flag] \in {"headers", "body", "timeout"}
  <1>1. \A a \in Args : a.value \in Words
    BY ArgsAssumption DEF Words
  <1>2. scope = "host" => Len(hosts) \in Nat \ {0} /\ hosts[Len(hosts)] \in Configs
    BY LenProperties, EmptySeq, ElementOfSeq DEF ScopeInv, TypeInv, ScopeHasEndpoint
  <1> QED BY <1>1, <1>2, SettingFacts

LEMMA ScopeStep == ScopeInv /\ [Next]_vars => ScopeInv'
  <1> SUFFICES ASSUME ScopeInv, [Next]_vars
               PROVE  ScopeInv'
    OBVIOUS
  <1>1. line' \in Seq(Args)
    <2>1. \A a \in Args : Append(line, a) \in Seq(Args)
      BY AppendProperties DEF ScopeInv, TypeInv
    <2>2. line' = line \/ \E a \in Args : line' = Append(line, a)
      BY StepCases
    <2> QED BY <2>1, <2>2 DEF ScopeInv, TypeInv
  <1>2. CASE UNCHANGED <<hosts, model, scope, namespaceIsNext>>
    BY <1>1, <1>2 DEF ScopeInv, TypeInv, ScopeHasEndpoint
  <1>3. ASSUME NEW a \in Args, Selects(a)
        PROVE  ScopeInv'
    <2>1. Append(hosts, Named(a.value)) \in Seq(Configs) /\ Append(hosts, Named(a.value)) # << >>
      BY ChangeFacts, NamedFacts, AppendProperties DEF ScopeInv, TypeInv
    <2> QED BY <1>1, <1>3, <2>1, ChangeFacts, NamedFacts
            DEF Selects, ScopeInv, TypeInv, ScopeHasEndpoint
  <1>4. ASSUME NEW e \in Configs, scope = "host", hosts' = [hosts EXCEPT ![Len(hosts)] = e]
        PROVE  hosts' \in Seq(Configs) /\ hosts' # << >>
    <2>1. hosts' \in Seq(Configs) /\ Len(hosts') = Len(hosts)
      <3>1. hosts \in Seq(Configs) /\ Len(hosts) \in 1..Len(hosts)
        BY <1>4, ChangeFacts DEF ScopeInv, TypeInv
      <3> QED BY <1>4, <3>1, ExceptSeq
    <2> QED BY <1>4, <2>1, ChangeFacts, EmptySeq, LenProperties DEF ScopeInv, ScopeHasEndpoint
  <1>5. ASSUME NEW a \in Args, NamesIt(a)
        PROVE  ScopeInv'
    <2>1. [hosts[Len(hosts)] EXCEPT !.namespace = a.value] \in Configs
      BY <1>5, ChangeFacts DEF NamesIt, Configs
    <2>2. hosts' = [hosts EXCEPT ![Len(hosts)] =
                      [hosts[Len(hosts)] EXCEPT !.namespace = a.value]]
      BY <1>5 DEF NamesIt
    <2> QED BY <1>1, <1>4, <1>5, <2>1, <2>2 DEF NamesIt, ScopeInv, TypeInv, ScopeHasEndpoint
  <1>6. ASSUME NEW a \in Args, Sets(a)
        PROVE  ScopeInv'
    <2>1. \A e \in Configs :
            With(e, SettingOf[a.flag], a.value) \in Configs
              /\ With(e, SettingOf[a.flag], a.value).value = e.value
      BY <1>6, ChangeFacts, WithFacts, SettingFacts DEF Sets, Configs
    <2>2. CASE scope = "host"
      <3>1. hosts' = [hosts EXCEPT ![Len(hosts)] =
                        With(hosts[Len(hosts)], SettingOf[a.flag], a.value)]
        BY <1>6, <2>2 DEF Sets
      <3>2. hosts' \in Seq(Configs) /\ hosts' # << >>
        BY <1>4, <2>1, <2>2, <3>1, ChangeFacts
      <3> QED BY <1>1, <1>6, <2>2, <3>2 DEF Sets, ScopeInv, TypeInv, ScopeHasEndpoint
    <2>3. CASE scope # "host"
      BY <1>1, <1>6, <2>1, <2>3 DEF Sets, ScopeInv, TypeInv, ScopeHasEndpoint
    <2> QED BY <2>2, <2>3
  <1>7. ASSUME NEW a \in Args, Ignores(a)
        PROVE  ScopeInv'
    BY <1>1, <1>7 DEF Ignores, ScopeInv, TypeInv, ScopeHasEndpoint
  <1> QED BY <1>2, <1>3, <1>5, <1>6, <1>7, StepCases

\* Whatever stands on the command line, the scope names an endpoint that is there.
THEOREM ScopeIsThere == Spec => []ScopeHasEndpoint
  <1>1. ScopeInv => ScopeHasEndpoint
    BY DEF ScopeInv
  <1> QED BY <1>1, ScopeInit, ScopeStep, PTL DEF Spec

-----------------------------------------------------------------------------
(* What the line says, when it grows by a flag *)

L == Len(line)

IsSelector(a) == a.flag \in {"-host", "-model"}

LEMMA LineFacts ==
  ASSUME ScopeInv, NEW a \in Args, line' = Append(line, a)
  PROVE  /\ L \in Nat /\ DOMAIN line = 1..L /\ DOMAIN line' = 1..(L + 1)
         /\ \A n \in 1..L : line'[n] = line[n]
         /\ line'[L + 1] = a
         /\ Selectors \subseteq 1..L
         /\ Selectors' = Selectors \cup (IF IsSelector(a) THEN {L + 1} ELSE {})
  <1>1. L \in Nat /\ DOMAIN line = 1..L
    BY LenProperties DEF ScopeInv, TypeInv, L
  <1>2. /\ line' \in Seq(Args) /\ Len(line') = L + 1
        /\ \A n \in 1..L : line'[n] = line[n]
        /\ line'[L + 1] = a
    BY AppendProperties DEF ScopeInv, TypeInv, L
  <1>3. DOMAIN line' = 1..(L + 1)
    BY <1>2, LenProperties
  <1> HIDE DEF L
  <1> QED BY <1>1, <1>2, <1>3 DEF Selectors, IsSelector

\* A flag stands behind the last selector; a selector ends what the last one has.
LEMMA BehindFacts ==
  ASSUME ScopeInv, NEW a \in Args, line' = Append(line, a)
  PROVE  /\ \A k \in Selectors :
              /\ Behind(k) \subseteq 1..L
              /\ (IsSelector(a) \/ \E j \in Selectors : j > k) => Behind(k)' = Behind(k)
              /\ ~IsSelector(a) /\ (\A j \in Selectors : j <= k)
                   => Behind(k)' = Behind(k) \cup {L + 1}
         /\ \A k : k = L + 1 => Behind(k)' = {}
  <1>1. ASSUME NEW k \in Selectors
        PROVE  /\ Behind(k) \subseteq 1..L
               /\ (IsSelector(a) \/ \E j \in Selectors : j > k) => Behind(k)' = Behind(k)
               /\ ~IsSelector(a) /\ (\A j \in Selectors : j <= k)
                    => Behind(k)' = Behind(k) \cup {L + 1}
    <2> DEFINE ends(n) == \A j \in Selectors : j > k => n < j
               ends2(n) == \A j \in Selectors' : j > k => n < j
    <2>1. Behind(k) = {n \in 1..L : n > k /\ ends(n)}
      BY LineFacts DEF Behind
    <2>2. Behind(k)' = {n \in 1..(L + 1) : n > k /\ ends2(n)}
      BY LineFacts DEF Behind
    <2>3. L \in Nat /\ k \in 1..L /\ Selectors \subseteq 1..L
      BY LineFacts
    <2>4. CASE IsSelector(a)
      <3>1. Selectors' = Selectors \cup {L + 1}
        BY <2>4, LineFacts
      <3>2. \A n \in 1..L : ends2(n) <=> ends(n)
        BY <2>3, <3>1
      <3>3. ~ends2(L + 1)
        BY <2>3, <3>1
      <3> QED BY <2>1, <2>2, <2>3, <2>4, <3>2, <3>3
    <2>5. CASE ~IsSelector(a)
      <3>1. Selectors' = Selectors
        BY <2>5, LineFacts
      <3>2. \A n : ends2(n) <=> ends(n)
        BY <3>1
      <3>3. (\E j \in Selectors : j > k) => ~ends(L + 1)
        BY <2>3
      <3>4. (\A j \in Selectors : j <= k) => ends(L + 1)
        BY <2>3
      <3> HIDE DEF ends, ends2
      <3>5. Behind(k)' = Behind(k) \cup (IF ends(L + 1) THEN {L + 1} ELSE {})
        BY <2>1, <2>2, <2>3, <3>2
      <3> QED BY <2>1, <2>5, <3>3, <3>4, <3>5
    <2> QED BY <2>4, <2>5
  <1>2. ASSUME NEW k, k = L + 1
        PROVE  Behind(k)' = {}
    BY <1>2, LineFacts DEF Behind
  <1> QED BY <1>1, <1>2

LEMMA AtFacts ==
  ASSUME ScopeInv, NEW a \in Args, line' = Append(line, a), NEW k, Behind(k) \subseteq 1..L
  PROVE  \A flag :
           /\ At(k, flag) \subseteq 1..L
           /\ Behind(k)' = Behind(k) => At(k, flag)' = At(k, flag)
           /\ Behind(k)' = Behind(k) \cup {L + 1}
                => At(k, flag)' = IF a.flag = flag THEN At(k, flag) \cup {L + 1}
                                  ELSE At(k, flag)
  <1> SUFFICES ASSUME NEW flag
               PROVE  /\ At(k, flag) \subseteq 1..L
                      /\ Behind(k)' = Behind(k) => At(k, flag)' = At(k, flag)
                      /\ Behind(k)' = Behind(k) \cup {L + 1}
                           => At(k, flag)' = IF a.flag = flag THEN At(k, flag) \cup {L + 1}
                                             ELSE At(k, flag)
    OBVIOUS
  <1>1. L \in Nat /\ (\A n \in 1..L : line'[n] = line[n]) /\ line'[L + 1] = a
    BY LineFacts
  <1>2. At(k, flag) = {n \in Behind(k) : line[n].flag = flag}
    BY DEF At
  <1>3. At(k, flag)' = {n \in Behind(k)' : line'[n].flag = flag}
    BY DEF At
  <1> HIDE DEF L
  <1> QED BY <1>1, <1>2, <1>3

\* The places stay where they are.
LEMMA FollowedSame ==
  ASSUME ScopeInv, NEW a \in Args, line' = Append(line, a),
         NEW texts, NEW before, NEW places \in SUBSET (1..L), Followed(texts, before, places)
  PROVE  Followed(texts, before, places)'
  <1> DEFINE added == (Len(before) + 1)..Len(texts)
  <1>1. PICK at \in [added -> places] :
          /\ \A i, j \in added : i < j => at[i] < at[j]
          /\ \A n \in places : \E i \in added : at[i] = n
          /\ \A i \in added : texts[i] = line[at[i]].value
    BY DEF Followed
  <1>2. \A i \in added : texts[i] = line'[at[i]].value
    BY <1>1, LineFacts
  <1>3. \A i \in DOMAIN before : i \in DOMAIN texts /\ texts[i] = before[i]
    BY DEF Followed
  <1> QED BY <1>1, <1>2, <1>3, Zenon DEF Followed

LEMMA FollowedAt ==
  ASSUME NEW texts, NEW before, NEW places, NEW k, NEW flag, At(k, flag)' = places,
         Followed(texts, before, places)'
  PROVE  Followed(texts, before, At(k, flag))'
  <1> DEFINE added == (Len(before) + 1)..Len(texts)
  <1>1. PICK at \in [added -> places] :
          /\ \A i, j \in added : i < j => at[i] < at[j]
          /\ \A n \in places : \E i \in added : at[i] = n
          /\ \A i \in added : texts[i] = line'[at[i]].value
    BY DEF Followed
  <1>2. \A i \in DOMAIN before : i \in DOMAIN texts /\ texts[i] = before[i]
    BY DEF Followed
  <1>3. /\ at \in [added -> At(k, flag)']
        /\ \A n \in At(k, flag)' : \E i \in added : at[i] = n
    BY <1>1
  <1> QED BY <1>1, <1>2, <1>3, Zenon DEF Followed

LEMMA FollowedNone ==
  ASSUME NEW texts \in Seq(Words)
  PROVE  Followed(texts, texts, {})'
  <1>1. (Len(texts) + 1)..Len(texts) = {}
    BY LenProperties
  <1> DEFINE at == [i \in {} |-> i]
  <1>2. at \in [{} -> {}]
    OBVIOUS
  <1> HIDE DEF at
  <1>3. Followed(texts, texts, {})' <=>
          \E f \in [{} -> {}] :
            /\ \A i, j \in {} : i < j => f[i] < f[j]
            /\ \A n \in {} : \E i \in {} : f[i] = n
            /\ \A i \in {} : texts[i] = line'[f[i]].value
    BY <1>1, Zenon DEF Followed
  <1> QED BY <1>2, <1>3

\* The flag is the last of its kind so far.
LEMMA FollowedMore ==
  ASSUME ScopeInv, NEW a \in Args, line' = Append(line, a), NEW texts \in Seq(Words),
         NEW before \in Seq(Words), NEW places \in SUBSET (1..L),
         Followed(texts, before, places), NEW last, last = L + 1
  PROVE  Followed(Append(texts, a.value), before, places \cup {last})'
  <1> DEFINE m == Len(before)
             n == Len(texts)
  <1>1. PICK at \in [(m + 1)..n -> places] :
          /\ \A i, j \in (m + 1)..n : i < j => at[i] < at[j]
          /\ \A p \in places : \E i \in (m + 1)..n : at[i] = p
          /\ \A i \in (m + 1)..n : texts[i] = line[at[i]].value
    BY DEF Followed
  <1>2. /\ m \in Nat /\ n \in Nat /\ DOMAIN before = 1..m /\ DOMAIN texts = 1..n
        /\ \A i \in 1..m : i \in 1..n /\ texts[i] = before[i]
    BY LenProperties DEF Followed
  <1>3. m <= n
    <2>1. CASE m = 0
      BY <1>2, <2>1
    <2>2. CASE m # 0
      BY <1>2, <2>2
    <2> QED BY <2>1, <2>2
  <1> DEFINE more == Append(texts, a.value)
             new == [i \in (m + 1)..(n + 1) |-> IF i = n + 1 THEN last ELSE at[i]]
  <1>4. /\ more \in Seq(Words) /\ Len(more) = n + 1
        /\ \A i \in 1..n : more[i] = texts[i]
        /\ more[n + 1] = a.value
    BY ChangeFacts, AppendProperties
  <1>5. DOMAIN more = 1..(n + 1)
    BY <1>4, LenProperties
  <1>6. /\ L \in Nat /\ line'[last] = a
        /\ \A p \in places : p \in 1..L /\ p < last /\ line'[p] = line[p]
    BY LineFacts
  <1> HIDE DEF m, n, more, L
  <1>7. /\ new \in [(m + 1)..(n + 1) -> places \cup {last}]
        /\ new[n + 1] = last
        /\ \A i \in (m + 1)..n : i \in (m + 1)..(n + 1) /\ new[i] = at[i] /\ at[i] \in places
        /\ n + 1 \in (m + 1)..(n + 1)
        /\ \A i \in (m + 1)..(n + 1) : i \in (m + 1)..n \/ i = n + 1
    BY <1>1, <1>2, <1>3
  <1> HIDE DEF new
  <1>8. ASSUME NEW i \in (m + 1)..(n + 1), NEW j \in (m + 1)..(n + 1), i < j
        PROVE  new[i] < new[j]
    <2>1. i \in (m + 1)..n
      BY <1>2, <1>8
    <2>2. CASE j = n + 1
      BY <1>6, <1>7, <2>1, <2>2
    <2>3. CASE j \in (m + 1)..n
      BY <1>1, <1>7, <1>8, <2>1, <2>3
    <2> QED BY <1>7, <2>2, <2>3
  <1>9. ASSUME NEW p \in places \cup {last}
        PROVE  \E i \in (m + 1)..(n + 1) : new[i] = p
    <2>1. CASE p \in places
      <3>1. PICK i \in (m + 1)..n : at[i] = p
        BY <1>1, <2>1
      <3> QED BY <1>7, <3>1
    <2> QED BY <1>7, <2>1
  <1>10. ASSUME NEW i \in (m + 1)..(n + 1)
         PROVE  more[i] = line'[new[i]].value
    <2>1. CASE i = n + 1
      BY <1>4, <1>6, <1>7, <2>1
    <2>2. CASE i \in (m + 1)..n
      <3>1. i \in 1..n /\ new[i] = at[i] /\ at[i] \in places
        BY <1>2, <1>7, <2>2
      <3>2. more[i] = texts[i] /\ texts[i] = line[at[i]].value
        BY <1>1, <1>4, <2>2, <3>1
      <3> QED BY <1>6, <3>1, <3>2
    <2> QED BY <1>7, <2>1, <2>2
  <1>11. \A i \in DOMAIN before : i \in DOMAIN more /\ more[i] = before[i]
    BY <1>2, <1>3, <1>4, <1>5
  <1>12. /\ \A i, j \in (m + 1)..Len(more) : i < j => new[i] < new[j]
         /\ \A p \in places \cup {last} : \E i \in (m + 1)..Len(more) : new[i] = p
         /\ \A i \in (m + 1)..Len(more) : more[i] = line'[new[i]].value
         /\ new \in [(m + 1)..Len(more) -> places \cup {last}]
    BY <1>4, <1>7, <1>8, <1>9, <1>10
  <1>13. Followed(more, before, places \cup {last})'
    BY <1>11, <1>12, Zenon DEF Followed, m
  <1> QED BY <1>13 DEF more

-----------------------------------------------------------------------------
(* What each flag makes of an endpoint that is as meant so far *)

SettingFlags == {"-headers", "-body", "-timeout", "-nsname"}

\* A flag that is no setting of the endpoint.
LEMMA MeantSame ==
  ASSUME ScopeInv, NEW a \in Args, line' = Append(line, a), NEW e, NEW k, NEW start,
         Behind(k) \subseteq 1..L, IsMeant(e, k, start),
         \A flag \in SettingFlags : At(k, flag)' = At(k, flag)
  PROVE  IsMeant(e, k, start)'
  <1>1. \A flag : At(k, flag) \subseteq 1..L
    BY AtFacts
  <1>2. \A n \in 1..L : line'[n] = line[n]
    BY LineFacts
  <1>3. /\ At(k, "-headers")' = At(k, "-headers") /\ At(k, "-body")' = At(k, "-body")
        /\ At(k, "-timeout")' = At(k, "-timeout") /\ At(k, "-nsname")' = At(k, "-nsname")
    BY DEF SettingFlags
  <1>4. /\ Followed(e.headers, start.headers, At(k, "-headers"))'
        /\ Followed(e.body, start.body, At(k, "-body"))'
    <2>1. PICK h, b : h = At(k, "-headers") /\ b = At(k, "-body")
      OBVIOUS
    <2>2. Followed(e.headers, start.headers, h)' /\ Followed(e.body, start.body, b)'
      BY <1>1, <2>1, FollowedSame DEF IsMeant
    <2> QED BY <1>3, <2>1, <2>2, FollowedAt
  <1>5. IF At(k, "-timeout")' = {} THEN e.timeout = start.timeout
        ELSE \E n \in At(k, "-timeout")' :
               e.timeout = line'[n].value /\ \A m \in At(k, "-timeout")' : m <= n
    BY <1>1, <1>2, <1>3 DEF IsMeant
  <1>6. IF At(k, "-nsname")' = {} THEN e.namespace = start.namespace
        ELSE At(k, "-nsname")' = {k + 1} /\ e.namespace = line'[k + 1].value
    BY <1>1, <1>2, <1>3 DEF IsMeant
  <1> QED BY <1>4, <1>5, <1>6 DEF IsMeant

\* A selector, behind which there is nothing yet.
LEMMA MeantFresh ==
  ASSUME ScopeInv, NEW a \in Args, line' = Append(line, a), NEW e \in Configs,
         NEW k, k = L + 1
  PROVE  IsMeant(e, k, e)'
  <1>1. \A flag : At(k, flag)' = {}
    BY BehindFacts DEF At
  <1>2. Followed(e.headers, e.headers, {})' /\ Followed(e.body, e.body, {})'
    BY FollowedNone DEF Configs
  <1>3. /\ Followed(e.headers, e.headers, At(k, "-headers"))'
        /\ Followed(e.body, e.body, At(k, "-body"))'
    BY <1>1, <1>2 DEF Followed
  <1> QED BY <1>1, <1>3 DEF IsMeant

\* A header, a body or a deadline.
LEMMA MeantSet ==
  ASSUME ScopeInv, NEW a \in Args, line' = Append(line, a), NEW e \in Configs, NEW k,
         NEW start \in Configs, Behind(k) \subseteq 1..L, IsMeant(e, k, start),
         Behind(k)' = Behind(k) \cup {L + 1}, a.flag \in DOMAIN SettingOf,
         NEW new, new = With(e, SettingOf[a.flag], a.value)
  PROVE  IsMeant(new, k, start)'
  <1>1. \A flag : /\ At(k, flag) \subseteq 1..L
                  /\ At(k, flag)' = IF a.flag = flag THEN At(k, flag) \cup {L + 1}
                                    ELSE At(k, flag)
    BY AtFacts
  <1>2. L \in Nat /\ (\A n \in 1..L : line'[n] = line[n]) /\ line'[L + 1] = a
    BY LineFacts
  <1>3. a.value \in Words
    BY ChangeFacts
  <1>4. PICK last : last = L + 1
    OBVIOUS
  <1>5. PICK h, b : h = At(k, "-headers") /\ b = At(k, "-body")
    OBVIOUS
  <1>6. new.value = start.value
    BY <1>3, SettingFacts, WithFacts DEF IsMeant, Configs
  <1>7. Followed(new.headers, start.headers, At(k, "-headers"))'
    <2>1. CASE a.flag = "-headers"
      <3>1. new.headers = Append(e.headers, a.value)
        BY <1>3, <2>1, SettingFacts, WithFacts DEF Configs
      <3>2. Followed(Append(e.headers, a.value), start.headers, h \cup {last})'
        BY <1>1, <1>4, <1>5, FollowedMore DEF IsMeant, Configs
      <3> QED BY <1>1, <1>4, <1>5, <2>1, <3>1, <3>2, FollowedAt
    <2>2. CASE a.flag # "-headers"
      <3>1. new.headers = e.headers
        BY <1>3, <2>2, SettingFacts, WithFacts DEF Configs
      <3>2. Followed(e.headers, start.headers, h)'
        BY <1>1, <1>5, FollowedSame DEF IsMeant
      <3> QED BY <1>1, <1>5, <2>2, <3>1, <3>2, FollowedAt
    <2> QED BY <2>1, <2>2
  <1>8. Followed(new.body, start.body, At(k, "-body"))'
    <2>1. CASE a.flag = "-body"
      <3>1. new.body = Append(e.body, a.value)
        BY <1>3, <2>1, SettingFacts, WithFacts DEF Configs
      <3>2. Followed(Append(e.body, a.value), start.body, b \cup {last})'
        BY <1>1, <1>4, <1>5, FollowedMore DEF IsMeant, Configs
      <3> QED BY <1>1, <1>4, <1>5, <2>1, <3>1, <3>2, FollowedAt
    <2>2. CASE a.flag # "-body"
      <3>1. new.body = e.body
        BY <1>3, <2>2, SettingFacts, WithFacts DEF Configs
      <3>2. Followed(e.body, start.body, b)'
        BY <1>1, <1>5, FollowedSame DEF IsMeant
      <3> QED BY <1>1, <1>5, <2>2, <3>1, <3>2, FollowedAt
    <2> QED BY <2>1, <2>2
  <1>9. IF At(k, "-timeout")' = {} THEN new.timeout = start.timeout
        ELSE \E n \in At(k, "-timeout")' :
               new.timeout = line'[n].value /\ \A m \in At(k, "-timeout")' : m <= n
    <2>1. CASE a.flag = "-timeout"
      <3>1. new.timeout = a.value
        BY <1>3, <2>1, SettingFacts, WithFacts DEF Configs
      <3>2. At(k, "-timeout")' = At(k, "-timeout") \cup {L + 1}
        BY <1>1, <2>1
      <3>3. \A m \in At(k, "-timeout") \cup {L + 1} : m <= L + 1
        BY <1>1, <1>2
      <3> QED BY <1>2, <3>1, <3>2, <3>3
    <2>2. CASE a.flag # "-timeout"
      <3>1. new.timeout = e.timeout
        BY <1>3, <2>2, SettingFacts, WithFacts DEF Configs
      <3> QED BY <1>1, <1>2, <2>2, <3>1 DEF IsMeant
    <2> QED BY <2>1, <2>2
  <1>10. IF At(k, "-nsname")' = {} THEN new.namespace = start.namespace
         ELSE At(k, "-nsname")' = {k + 1} /\ new.namespace = line'[k + 1].value
    <2>1. new.namespace = e.namespace
      BY <1>3, SettingFacts, WithFacts DEF Configs
    <2>2. At(k, "-nsname")' = At(k, "-nsname")
      BY <1>1, SettingFacts
    <2> QED BY <1>1, <1>2, <2>1, <2>2 DEF IsMeant
  <1> QED BY <1>6, <1>7, <1>8, <1>9, <1>10 DEF IsMeant

\* A namespace right behind the selector.
LEMMA MeantNamed ==
  ASSUME ScopeInv, NEW a \in Args, line' = Append(line, a), NEW e \in Configs, NEW k,
         NEW start \in Configs, Behind(k) \subseteq 1..L, IsMeant(e, k, start),
         Behind(k)' = Behind(k) \cup {L + 1}, a.flag = "-nsname", k = L,
         NEW new, new = [e EXCEPT !.namespace = a.value]
  PROVE  IsMeant(new, k, start)'
  <1>1. Behind(k) = {} /\ k \in Nat
    BY LineFacts DEF Behind
  <1>2. \A flag : At(k, flag) = {}
    BY <1>1 DEF At
  <1>3. \A flag : At(k, flag)' = IF a.flag = flag THEN {k + 1} ELSE {}
    BY <1>2, AtFacts
  <1>4. line'[k + 1] = a
    BY LineFacts
  <1>5. /\ new.value = e.value /\ new.headers = e.headers /\ new.body = e.body
        /\ new.timeout = e.timeout /\ new.namespace = a.value
    BY DEF Configs
  <1>6. Followed(e.headers, start.headers, {})' /\ Followed(e.body, start.body, {})'
    BY <1>2, FollowedSame DEF IsMeant
  <1>7. /\ Followed(new.headers, start.headers, At(k, "-headers"))'
        /\ Followed(new.body, start.body, At(k, "-body"))'
    BY <1>3, <1>5, <1>6 DEF Followed
  <1>8. At(k, "-timeout")' = {} /\ At(k, "-nsname")' = {k + 1}
    BY <1>3
  <1> QED BY <1>2, <1>4, <1>5, <1>7, <1>8 DEF IsMeant

-----------------------------------------------------------------------------
(* The endpoints are those of the selectors *)

Going == outcome \notin {"failed", "help"}

\* The scope is that of the last selector, right behind which a namespace may come.
LastInv ==
  /\ scope = "none" => Selectors = {}
  /\ scope # "none" =>
       \E k \in Selectors :
         /\ \A j \in Selectors : j <= k
         /\ line[k].flag = IF scope = "host" THEN "-host" ELSE "-model"
         /\ namespaceIsNext = TRUE => k = L

HostsTo(k) == {j \in Selectors : j <= k /\ line[j].flag = "-host"}

\* There is a host for each -host.
CountInv == Cardinality(HostsTo(L)) = Len(hosts)

\* Each host, and the model, is as its selector and the flags behind it say.
ReachInv ==
  \A k \in Selectors, v \in Words, e \in Configs : v = line[k].value =>
    /\ line[k].flag = "-host" /\ e = hosts[HostsUpTo(k)] => IsMeant(e, k, Named(v))
    /\ line[k].flag # "-host" /\ (\A j \in Selectors : j > k => line[j].flag = "-host")
         /\ e = model => IsMeant(e, k, Modelled(v))

ArgsInv == ScopeInv /\ (Going => LastInv /\ CountInv /\ ReachInv)

LEMMA ArgsInit == Init => ArgsInv
  <1> SUFFICES ASSUME Init
               PROVE  LastInv /\ CountInv /\ ReachInv
    BY ScopeInit DEF ArgsInv
  <1>1. Selectors = {} /\ HostsTo(L) = {}
    BY DEF Init, Selectors, HostsTo
  <1>2. Cardinality({}) = 0 /\ Len(hosts) = 0
    BY FS_EmptySet, EmptySeq DEF Init
  <1> QED BY <1>1, <1>2 DEF Init, LastInv, CountInv, ReachInv

\* The first so many selectors of a host are that many hosts.
LEMMA CountFacts ==
  ASSUME ScopeInv, CountInv, NEW k \in Selectors, line[k].flag = "-host"
  PROVE  /\ HostsUpTo(k) \in 1..Len(hosts)
         /\ (\E j \in Selectors : j > k /\ line[j].flag = "-host") => HostsUpTo(k) < Len(hosts)
         /\ (\A j \in Selectors : j <= k) => HostsUpTo(k) = Len(hosts)
  <1>1. L \in Nat /\ Selectors \subseteq 1..L
    BY LenProperties DEF ScopeInv, TypeInv, L, Selectors
  <1>2. /\ HostsTo(k) \subseteq HostsTo(L) /\ k \in HostsTo(k)
        /\ HostsTo(L) \subseteq 1..L
    <2>1. \A j \in Selectors : j \in 1..L /\ j <= L
      BY <1>1
    <2>2. k \in 1..L /\ k <= k
      BY <1>1
    <2> HIDE DEF L
    <2> QED BY <2>1, <2>2 DEF HostsTo
  <1>3. IsFiniteSet(HostsTo(L)) /\ IsFiniteSet(HostsTo(k))
    <2>1. IsFiniteSet(1..L)
      BY <1>1, FS_Interval
    <2>2. IsFiniteSet(HostsTo(L))
      BY <1>2, <2>1, FS_Subset
    <2> QED BY <1>2, <2>2, FS_Subset
  <1>4. HostsUpTo(k) = Cardinality(HostsTo(k))
    BY DEF HostsUpTo, HostsTo
  <1>5. Len(hosts) \in Nat
    BY LenProperties DEF ScopeInv, TypeInv
  <1>6. HostsUpTo(k) \in Nat /\ HostsUpTo(k) # 0
    BY <1>2, <1>3, <1>4, FS_CardinalityType, FS_EmptySet
  <1>7. HostsUpTo(k) <= Len(hosts)
    BY <1>2, <1>3, <1>4, FS_Subset DEF CountInv
  <1>8. ASSUME NEW j \in Selectors, j > k, line[j].flag = "-host"
        PROVE  HostsUpTo(k) < Len(hosts)
    <2>1. j \in HostsTo(L) /\ j \notin HostsTo(k)
      BY <1>1, <1>8 DEF HostsTo
    <2>2. HostsTo(k) # HostsTo(L)
      BY <2>1
    <2>3. Cardinality(HostsTo(k)) # Cardinality(HostsTo(L))
      BY <1>2, <1>3, <2>2, FS_Subset
    <2> QED BY <1>4, <1>5, <1>6, <1>7, <2>3 DEF CountInv
  <1>9. ASSUME \A j \in Selectors : j <= k
        PROVE  HostsUpTo(k) = Len(hosts)
    <2>1. HostsTo(k) = HostsTo(L)
      BY <1>1, <1>9 DEF HostsTo
    <2> QED BY <1>4, <2>1 DEF CountInv
  <1> QED BY <1>5, <1>6, <1>7, <1>8, <1>9

LEMMA HostsToFacts ==
  ASSUME ScopeInv, NEW a \in Args, line' = Append(line, a)
  PROVE  /\ L' = L + 1
         /\ \A k \in Selectors : HostsUpTo(k)' = HostsUpTo(k) /\ line'[k] = line[k]
         /\ \A k : k = L + 1 => HostsUpTo(k)' = Cardinality(HostsTo(L)')
         /\ HostsTo(L)' = HostsTo(L) \cup (IF a.flag = "-host" THEN {L + 1} ELSE {})
  <1>1. L' = L + 1
    BY AppendProperties DEF ScopeInv, TypeInv, L
  <1>2. /\ L \in Nat /\ Selectors \subseteq 1..L /\ line'[L + 1] = a
        /\ \A n \in 1..L : line'[n] = line[n]
        /\ Selectors' = Selectors \cup (IF IsSelector(a) THEN {L + 1} ELSE {})
    BY LineFacts
  <1>3. ASSUME NEW k \in Selectors
        PROVE  HostsUpTo(k)' = HostsUpTo(k) /\ line'[k] = line[k]
    <2>1. k \in 1..L /\ line'[k] = line[k]
      BY <1>2
    <2>2. {j \in Selectors' : j <= k /\ line'[j].flag = "-host"}
            = {j \in Selectors : j <= k /\ line[j].flag = "-host"}
      <3>1. \A j \in Selectors : line'[j] = line[j]
        BY <1>2
      <3>2. ~(L + 1 <= k)
        BY <1>2, <2>1
      <3> QED BY <1>2, <3>1, <3>2
    <2> QED BY <2>1, <2>2 DEF HostsUpTo
  <1>4. HostsTo(L)' = {j \in Selectors' : j <= L + 1 /\ line'[j].flag = "-host"}
    BY <1>1 DEF HostsTo
  <1>5. \A k : k = L + 1 => HostsUpTo(k)' = Cardinality(HostsTo(L)')
    BY <1>4 DEF HostsUpTo
  <1>6. HostsTo(L)' = HostsTo(L) \cup (IF a.flag = "-host" THEN {L + 1} ELSE {})
    <2>1. HostsTo(L) = {j \in Selectors : j <= L /\ line[j].flag = "-host"}
      BY DEF HostsTo
    <2>2. ASSUME NEW j \in Selectors
          PROVE  j <= L /\ j <= L + 1 /\ line'[j] = line[j]
      <3>1. j \in 1..L /\ L \in Nat
        BY <1>2
      <3>2. line'[j] = line[j]
        BY <1>2, <3>1
      <3> QED BY <3>1, <3>2
    <2>3. L + 1 <= L + 1 /\ line'[L + 1].flag = a.flag
      BY <1>2
    <2>4. a.flag = "-host" => IsSelector(a)
      BY DEF IsSelector
    <2> HIDE DEF L
    <2> QED BY <1>2, <1>4, <2>1, <2>2, <2>3, <2>4
  <1> QED BY <1>1, <1>3, <1>5, <1>6

LEMMA CountStep ==
  ASSUME ScopeInv, CountInv, NEW a \in Args, line' = Append(line, a),
         Selects(a) \/ NamesIt(a) \/ Sets(a) \/ Ignores(a)
  PROVE  CountInv'
  <1>1. L \in Nat /\ HostsTo(L) \subseteq 1..L /\ IsFiniteSet(1..L)
    BY LineFacts, FS_Interval DEF HostsTo
  <1>2. IsFiniteSet(HostsTo(L)) /\ L + 1 \notin HostsTo(L)
    BY <1>1, FS_Subset
  <1>3. /\ a.flag = "-host" => Cardinality(HostsTo(L)') = Cardinality(HostsTo(L)) + 1
        /\ a.flag # "-host" => Cardinality(HostsTo(L)') = Cardinality(HostsTo(L))
    BY <1>2, HostsToFacts, FS_AddElement
  <1>4. hosts \in Seq(Configs) /\ Len(hosts) \in Nat
    BY LenProperties DEF ScopeInv, TypeInv
  <1>5. CASE a.flag = "-host"
    <2>1. hosts' = Append(hosts, Named(a.value))
      BY <1>5, SettingFacts DEF Selects, NamesIt, Sets, Ignores
    <2>2. Len(hosts') = Len(hosts) + 1
      BY <1>4, <2>1, NamedFacts, ChangeFacts, AppendProperties
    <2> QED BY <1>3, <1>5, <2>2 DEF CountInv
  <1>6. CASE a.flag # "-host"
    <2>1. Len(hosts') = Len(hosts)
      <3>1. \A i, e : Len([hosts EXCEPT ![i] = e]) = Len(hosts)
        BY <1>4, LenProperties
      <3>2. \/ hosts' = hosts
            \/ \E e : hosts' = [hosts EXCEPT ![Len(hosts)] = e]
        BY <1>6 DEF Selects, NamesIt, Sets, Ignores
      <3> QED BY <3>1, <3>2
    <2> QED BY <1>3, <1>6, <2>1 DEF CountInv
  <1> QED BY <1>5, <1>6

LEMMA LastStep ==
  ASSUME ScopeInv, LastInv, NEW a \in Args, line' = Append(line, a),
         Selects(a) \/ NamesIt(a) \/ Sets(a) \/ Ignores(a)
  PROVE  LastInv'
  <1>1. /\ L \in Nat /\ L' = L + 1 /\ line'[L + 1] = a
        /\ Selectors \subseteq 1..L
        /\ \A k \in Selectors : line'[k] = line[k]
    BY LineFacts, HostsToFacts
  <1>2. CASE Selects(a)
    <2>1. Selectors' = Selectors \cup {L + 1}
      BY <1>2, LineFacts DEF Selects, IsSelector
    <2>2. ASSUME NEW j \in Selectors'
          PROVE  j <= L + 1
      <3>1. j \in 1..L \/ j = L + 1
        BY <1>1, <2>1
      <3> QED BY <1>1, <3>1
    <2>3. scope' # "none" /\ line'[L + 1].flag = IF scope' = "host" THEN "-host" ELSE "-model"
      BY <1>1, <1>2 DEF Selects
    <2>4. \E k \in Selectors' :
            /\ \A j \in Selectors' : j <= k
            /\ line'[k].flag = IF scope' = "host" THEN "-host" ELSE "-model"
            /\ namespaceIsNext' = TRUE => k = L'
      BY <1>1, <2>1, <2>2, <2>3
    <2> QED BY <2>3, <2>4 DEF LastInv
  <1>3. CASE ~Selects(a)
    <2>1. scope' = scope /\ namespaceIsNext' = FALSE
      BY <1>3 DEF NamesIt, Sets, Ignores
    <2>2. Selectors' = Selectors
      BY <1>3, LineFacts, SettingFacts DEF NamesIt, Sets, Ignores, IsSelector
    <2> QED BY <1>1, <2>1, <2>2 DEF LastInv
  <1> QED BY <1>2, <1>3

\* What a selector has, it keeps while the flags at it are not of its endpoint.
LEMMA ReachKeeps ==
  ASSUME ScopeInv, ReachInv, NEW a \in Args, line' = Append(line, a),
         NEW k \in Selectors, NEW v \in Words, NEW e \in Configs, v = line[k].value,
         \A flag \in SettingFlags : At(k, flag)' = At(k, flag)
  PROVE  /\ line[k].flag = "-host" /\ e = hosts[HostsUpTo(k)] => IsMeant(e, k, Named(v))'
         /\ line[k].flag # "-host" /\ (\A j \in Selectors : j > k => line[j].flag = "-host")
              /\ e = model => IsMeant(e, k, Modelled(v))'
  <1>1. Behind(k) \subseteq 1..L
    BY BehindFacts
  <1>2. PICK n, m : n = Named(v) /\ m = Modelled(v)
    OBVIOUS
  <1>3. /\ IsMeant(e, k, n) => IsMeant(e, k, n)'
        /\ IsMeant(e, k, m) => IsMeant(e, k, m)'
    BY <1>1, MeantSame
  <1> QED BY <1>2, <1>3 DEF ReachInv

\* A selector's places are those of before, when another one follows it, and when
\* the flag is none of an endpoint's.
LEMMA AtSame ==
  ASSUME ScopeInv, NEW a \in Args, line' = Append(line, a), NEW k \in Selectors,
         \/ IsSelector(a) \/ a.flag \notin SettingFlags
         \/ \E j \in Selectors : j > k
  PROVE  \A flag \in SettingFlags : At(k, flag)' = At(k, flag)
  <1>1. Behind(k) \subseteq 1..L /\ k \in 1..L /\ Selectors \subseteq 1..L
    BY BehindFacts, LineFacts
  <1>2. Behind(k)' = Behind(k) \/ Behind(k)' = Behind(k) \cup {L + 1}
    <2>1. \A j \in Selectors : j > k \/ j <= k
      BY <1>1
    <2> QED BY <2>1, BehindFacts
  <1>3. CASE IsSelector(a) \/ \E j \in Selectors : j > k
    BY <1>1, <1>3, BehindFacts, AtFacts
  <1>4. CASE a.flag \notin SettingFlags
    BY <1>1, <1>2, <1>4, AtFacts
  <1> QED BY <1>3, <1>4

LEMMA ReachSelects ==
  ASSUME ScopeInv, CountInv, CountInv', ReachInv, NEW a \in Args, line' = Append(line, a),
         Selects(a)
  PROVE  ReachInv'
  <1>1. IsSelector(a) /\ Selectors' = Selectors \cup {L + 1} /\ L \in Nat /\ line'[L + 1] = a
    BY LineFacts DEF Selects, IsSelector
  <1>2. hosts \in Seq(Configs) /\ Len(hosts) \in Nat /\ Selectors \subseteq 1..L
    BY LenProperties, LineFacts DEF ScopeInv, TypeInv
  <1>3. a.flag = "-host" => /\ \A i \in 1..Len(hosts) : hosts'[i] = hosts[i]
                            /\ Len(hosts') = Len(hosts) + 1
                            /\ hosts'[Len(hosts) + 1] = Named(a.value)
    BY <1>2, NamedFacts, ChangeFacts, AppendProperties DEF Selects
  <1> SUFFICES ASSUME NEW k \in Selectors', NEW v \in Words, NEW e \in Configs,
                      v = line'[k].value
               PROVE  /\ line'[k].flag = "-host" /\ e = hosts'[HostsUpTo(k)']
                           => IsMeant(e, k, Named(v))'
                      /\ line'[k].flag # "-host"
                           /\ (\A j \in Selectors' : j > k => line'[j].flag = "-host")
                           /\ e = model' => IsMeant(e, k, Modelled(v))'
    BY DEF ReachInv
  <1>4. CASE k = L + 1
    <2>1. v = a.value
      BY <1>1, <1>4
    <2>2. IsMeant(e, k, e)'
      BY <1>4, MeantFresh
    <2>3. a.flag = "-host" /\ e = hosts'[HostsUpTo(k)'] => e = Named(v)
      BY <1>3, <1>4, <2>1, HostsToFacts DEF CountInv
    <2>4. a.flag # "-host" /\ e = model' => e = Modelled(v)
      BY <2>1 DEF Selects
    <2> QED BY <1>1, <1>4, <2>2, <2>3, <2>4
  <1>5. CASE k # L + 1
    <2>1. /\ k \in Selectors /\ line'[k] = line[k] /\ HostsUpTo(k)' = HostsUpTo(k)
          /\ k \in 1..L
      BY <1>1, <1>2, <1>5, HostsToFacts
    <2>2. \A flag \in SettingFlags : At(k, flag)' = At(k, flag)
      BY <1>1, <2>1, AtSame
    <2>3. line[k].flag = "-host" => hosts'[HostsUpTo(k)'] = hosts[HostsUpTo(k)]
      BY <1>3, <2>1, CountFacts DEF Selects
    <2>4. ASSUME \A j \in Selectors' : j > k => line'[j].flag = "-host"
          PROVE  /\ \A j \in Selectors : j > k => line[j].flag = "-host"
                 /\ model' = model
      <3>1. L + 1 \in Selectors' /\ L + 1 > k
        BY <1>1, <2>1
      <3>2. a.flag = "-host"
        BY <1>1, <2>4, <3>1
      <3> QED BY <1>1, <2>4, <3>2, HostsToFacts DEF Selects
    <2> QED BY <2>1, <2>2, <2>3, <2>4, ReachKeeps
  <1> QED BY <1>4, <1>5

\* When the selectors stay, what each of them is to mean is said of those of before.
LEMMA ReachStays ==
  ASSUME Selectors' = Selectors,
         \A k \in Selectors : line'[k] = line[k] /\ HostsUpTo(k)' = HostsUpTo(k),
         \A k \in Selectors, v \in Words, e \in Configs : v = line[k].value =>
           /\ line[k].flag = "-host" /\ e = hosts'[HostsUpTo(k)] => IsMeant(e, k, Named(v))'
           /\ line[k].flag # "-host"
                /\ (\A j \in Selectors : j > k => line[j].flag = "-host")
                /\ e = model' => IsMeant(e, k, Modelled(v))'
  PROVE  ReachInv'
  <1> SUFFICES ASSUME NEW k \in Selectors', NEW v \in Words, NEW e \in Configs,
                      v = line'[k].value
               PROVE  /\ line'[k].flag = "-host" /\ e = hosts'[HostsUpTo(k)']
                           => IsMeant(e, k, Named(v))'
                      /\ line'[k].flag # "-host"
                           /\ (\A j \in Selectors' : j > k => line'[j].flag = "-host")
                           /\ e = model' => IsMeant(e, k, Modelled(v))'
    BY Zenon DEF ReachInv
  <1>1. k \in Selectors /\ line'[k] = line[k] /\ HostsUpTo(k)' = HostsUpTo(k)
    OBVIOUS
  <1>2. (\A j \in Selectors' : j > k => line'[j].flag = "-host")
          => \A j \in Selectors : j > k => line[j].flag = "-host"
    OBVIOUS
  <1>3. /\ line[k].flag = "-host" /\ e = hosts'[HostsUpTo(k)] => IsMeant(e, k, Named(v))'
        /\ line[k].flag # "-host"
             /\ (\A j \in Selectors : j > k => line[j].flag = "-host")
             /\ e = model' => IsMeant(e, k, Modelled(v))'
    BY <1>1
  <1> QED BY <1>1, <1>2, <1>3

\* The flags that change the endpoint of the last selector.
LEMMA ReachChanges ==
  ASSUME ScopeInv, LastInv, CountInv, ReachInv, NEW a \in Args, line' = Append(line, a),
         NamesIt(a) \/ Sets(a)
  PROVE  ReachInv'
  <1>0. ~IsSelector(a)
    BY SettingFacts DEF NamesIt, Sets, IsSelector
  <1>1. /\ ~IsSelector(a) /\ Selectors' = Selectors /\ L \in Nat
        /\ \A j \in Selectors : line'[j] = line[j] /\ HostsUpTo(j)' = HostsUpTo(j)
    BY <1>0, LineFacts, HostsToFacts
  <1>2. hosts \in Seq(Configs) /\ Len(hosts) \in Nat /\ Selectors \subseteq 1..L
        /\ DOMAIN hosts = 1..Len(hosts)
    BY LenProperties, LineFacts DEF ScopeInv, TypeInv
  <1>3. scope \in {"host", "model"}
    BY DEF NamesIt, Sets
  <1>4. PICK last \in Selectors :
          /\ \A j \in Selectors : j <= last
          /\ line[last].flag = IF scope = "host" THEN "-host" ELSE "-model"
          /\ namespaceIsNext = TRUE => last = L
    BY <1>3 DEF LastInv
  <1> SUFFICES ASSUME NEW k \in Selectors, NEW v \in Words, NEW e \in Configs,
                      v = line[k].value
               PROVE  /\ line[k].flag = "-host" /\ e = hosts'[HostsUpTo(k)]
                           => IsMeant(e, k, Named(v))'
                      /\ line[k].flag # "-host"
                           /\ (\A j \in Selectors : j > k => line[j].flag = "-host")
                           /\ e = model' => IsMeant(e, k, Modelled(v))'
    BY <1>1, ReachStays, Zenon
  <1>5. CASE k # last
    <2>1. last > k
      BY <1>2, <1>4, <1>5
    <2>2. \A flag \in SettingFlags : At(k, flag)' = At(k, flag)
      BY <1>4, <2>1, AtSame
    <2>3. line[k].flag = "-host" => hosts'[HostsUpTo(k)] = hosts[HostsUpTo(k)]
      <3> SUFFICES ASSUME line[k].flag = "-host"
                   PROVE  hosts'[HostsUpTo(k)] = hosts[HostsUpTo(k)]
        OBVIOUS
      <3>1. CASE scope = "host"
        <4>1. HostsUpTo(k) \in 1..Len(hosts) /\ HostsUpTo(k) < Len(hosts)
          BY <1>4, <2>1, <3>1, CountFacts
        <4>2. \E h : hosts' = [hosts EXCEPT ![Len(hosts)] = h]
          BY <3>1 DEF NamesIt, Sets
        <4> QED BY <1>2, <4>1, <4>2
      <3>2. CASE scope = "model"
        BY <3>2 DEF NamesIt, Sets
      <3> QED BY <1>3, <3>1, <3>2
    <2>4. (\A j \in Selectors : j > k => line[j].flag = "-host") => model' = model
      BY <1>3, <1>4, <2>1 DEF NamesIt, Sets
    <2> QED BY <2>2, <2>3, <2>4, ReachKeeps
  <1>6. CASE k = last
    <2>1. Behind(k) \subseteq 1..L /\ Behind(k)' = Behind(k) \cup {L + 1}
      BY <1>1, <1>4, <1>6, BehindFacts
    <2>2. CASE scope = "host"
      <3>1. PICK old \in Configs, n \in Configs : old = hosts[Len(hosts)] /\ n = Named(v)
        BY <2>2, ChangeFacts, NamedFacts
      <3>2. HostsUpTo(k) = Len(hosts) /\ Len(hosts) \in DOMAIN hosts
        BY <1>2, <1>4, <1>6, <2>2, CountFacts
      <3>3. line[k].flag = "-host" /\ IsMeant(old, k, n)
        BY <1>4, <1>6, <2>2, <3>1, <3>2 DEF ReachInv
      <3>4. ASSUME NamesIt(a), e = hosts'[HostsUpTo(k)]
            PROVE  IsMeant(e, k, n)'
        <4>1. e = [old EXCEPT !.namespace = a.value]
          BY <3>1, <3>2, <3>4 DEF NamesIt
        <4>2. k = L /\ a.flag = "-nsname"
          BY <1>4, <1>6, <3>4 DEF NamesIt
        <4> QED BY <2>1, <3>3, <4>1, <4>2, MeantNamed
      <3>5. ASSUME Sets(a), e = hosts'[HostsUpTo(k)]
            PROVE  IsMeant(e, k, n)'
        <4>1. e = With(old, SettingOf[a.flag], a.value) /\ a.flag \in DOMAIN SettingOf
          BY <2>2, <3>1, <3>2, <3>5 DEF Sets
        <4> QED BY <2>1, <3>3, <4>1, MeantSet
      <3> QED BY <3>1, <3>3, <3>4, <3>5
    <2>3. CASE scope = "model"
      <3>1. PICK old \in Configs, m \in Configs : old = model /\ m = Modelled(v)
        BY NamedFacts DEF ScopeInv, TypeInv
      <3>2. line[k].flag = "-model" /\ \A j \in Selectors : ~(j > k)
        BY <1>2, <1>4, <1>6, <2>3
      <3>3. IsMeant(old, k, m)
        BY <3>1, <3>2 DEF ReachInv
      <3>4. ASSUME e = model'
            PROVE  IsMeant(e, k, m)'
        <4>1. e = With(old, SettingOf[a.flag], a.value) /\ a.flag \in DOMAIN SettingOf
          BY <2>3, <3>1, <3>4 DEF NamesIt, Sets
        <4> QED BY <2>1, <3>3, <4>1, MeantSet
      <3> QED BY <3>1, <3>2, <3>4
    <2> QED BY <1>3, <2>2, <2>3
  <1> QED BY <1>5, <1>6

LEMMA ReachIgnores ==
  ASSUME ScopeInv, ReachInv, NEW a \in Args, line' = Append(line, a), Ignores(a)
  PROVE  ReachInv'
  <1>0. ~IsSelector(a) /\ a.flag \notin SettingFlags
    BY SettingFacts DEF Ignores, IsSelector, SettingFlags
  <1>1. /\ Selectors' = Selectors
        /\ \A j \in Selectors : line'[j] = line[j] /\ HostsUpTo(j)' = HostsUpTo(j)
    BY <1>0, LineFacts, HostsToFacts
  <1>2. \A k \in Selectors : \A flag \in SettingFlags : At(k, flag)' = At(k, flag)
    BY <1>0, AtSame
  <1>3. hosts' = hosts /\ model' = model
    BY DEF Ignores
  <1>4. ASSUME NEW k \in Selectors, NEW v \in Words, NEW e \in Configs, v = line[k].value
        PROVE  /\ line[k].flag = "-host" /\ e = hosts[HostsUpTo(k)] => IsMeant(e, k, Named(v))'
               /\ line[k].flag # "-host"
                    /\ (\A j \in Selectors : j > k => line[j].flag = "-host")
                    /\ e = model => IsMeant(e, k, Modelled(v))'
    BY <1>2, <1>4, ReachKeeps
  <1>5. \A k \in Selectors, v \in Words, e \in Configs : v = line[k].value =>
           /\ line[k].flag = "-host" /\ e = hosts'[HostsUpTo(k)] => IsMeant(e, k, Named(v))'
           /\ line[k].flag # "-host"
                /\ (\A j \in Selectors : j > k => line[j].flag = "-host")
                /\ e = model' => IsMeant(e, k, Modelled(v))'
    BY <1>3, <1>4
  <1> QED BY <1>1, <1>5, ReachStays, Zenon

LEMMA ArgsStep == ArgsInv /\ [Next]_vars => ArgsInv'
  <1> SUFFICES ASSUME ArgsInv, [Next]_vars, Going'
               PROVE  LastInv' /\ CountInv' /\ ReachInv'
    BY ScopeStep DEF ArgsInv
  <1>1. CASE Going /\ UNCHANGED <<hosts, model, scope, namespaceIsNext, line>>
    <2>1. LastInv /\ CountInv /\ ReachInv
      BY <1>1 DEF ArgsInv
    <2>2. LastInv'
      BY <1>1, <2>1 DEF LastInv, Selectors, L
    <2>3. CountInv'
      BY <1>1, <2>1 DEF CountInv, HostsTo, Selectors, L
    <2>4. ReachInv'
      <3>1. \A k, flag : At(k, flag)' = At(k, flag)
        BY <1>1 DEF At, Behind, Selectors
      <3>2. ASSUME NEW e, NEW k, NEW start, IsMeant(e, k, start)
            PROVE  IsMeant(e, k, start)'
        <4>1. PICK h, b : h = At(k, "-headers") /\ b = At(k, "-body")
          OBVIOUS
        <4>2. Followed(e.headers, start.headers, h) /\ Followed(e.body, start.body, b)
          BY <3>2, <4>1 DEF IsMeant
        <4>3. Followed(e.headers, start.headers, h)' /\ Followed(e.body, start.body, b)'
          BY <1>1, <4>2 DEF Followed
        <4>4. /\ Followed(e.headers, start.headers, At(k, "-headers"))'
              /\ Followed(e.body, start.body, At(k, "-body"))'
          BY <3>1, <4>1, <4>3, FollowedAt
        <4> QED BY <1>1, <3>1, <3>2, <4>4 DEF IsMeant
      <3>3. Selectors' = Selectors /\ \A k : HostsUpTo(k)' = HostsUpTo(k)
        BY <1>1 DEF HostsUpTo, Selectors
      <3> QED BY <1>1, <2>1, <3>2, <3>3 DEF ReachInv
    <2> QED BY <2>2, <2>3, <2>4
  <1>2. ASSUME NEW a \in Args, line' = Append(line, a), outcome = "parsing",
               Selects(a) \/ NamesIt(a) \/ Sets(a) \/ Ignores(a)
        PROVE  LastInv' /\ CountInv' /\ ReachInv'
    <2>1. ScopeInv /\ LastInv /\ CountInv /\ ReachInv
      BY <1>2 DEF ArgsInv, Going
    <2>2. LastInv' /\ CountInv'
      BY <1>2, <2>1, LastStep, CountStep
    <2>3. ReachInv'
      BY <1>2, <2>1, <2>2, ReachSelects, ReachChanges, ReachIgnores
    <2> QED BY <2>2, <2>3
  <1> QED BY <1>1, <1>2, StepCases DEF Going

\* Every setting reaches the endpoint that its place on the line says, however many
\* there are, of whatever aliases, and in whatever order.
THEOREM SettingsReachTheirs == Spec => []SettingsReachEndpoint
  <1>1. ArgsInv => SettingsReachEndpoint
    <2> SUFFICES ASSUME ArgsInv, Going, NEW k \in Selectors
                 PROVE  IF line[k].flag = "-host"
                          THEN IsMeant(hosts[HostsUpTo(k)], k, Named(line[k].value))
                          ELSE (\A j \in Selectors : j > k => line[j].flag = "-host")
                                 => IsMeant(model, k, Modelled(line[k].value))
      BY DEF SettingsReachEndpoint, Going, Named, Modelled
    <2>1. ScopeInv /\ CountInv /\ ReachInv
      BY DEF ArgsInv
    <2>2. line[k] \in Args
      BY <2>1, ElementOfSeq, LenProperties DEF ScopeInv, TypeInv, Selectors
    <2>3. line[k].value \in Words
      BY <2>1, <2>2, ChangeFacts
    <2>4. line[k].flag = "-host" => hosts[HostsUpTo(k)] \in Configs
      BY <2>1, CountFacts, ElementOfSeq DEF ScopeInv, TypeInv
    <2>5. model \in Configs
      BY <2>1 DEF ScopeInv, TypeInv
    <2> QED BY <2>1, <2>3, <2>4, <2>5 DEF ReachInv
  <1> QED BY <1>1, ArgsInit, ArgsStep, PTL DEF Spec

-----------------------------------------------------------------------------
(* What the session has of the line *)

Fields == {"-tools", "-meta", "-prompt", "-protocol-version"}

FieldsInv ==
  /\ messages \in Seq(Words) /\ DOMAIN fields = SessionFlags
  /\ \A places : places = Given("-messages") => Followed(messages, << >>, places)
  /\ \A f \in Fields : \A v : v = fields[f] => IsLast(v, f, None)

SessionInv ==
  /\ ScopeInv
  /\ outcome \in {"parsing", "parsed"} => FieldsInv
  /\ SessionFollowsLine

LEMMA SessionInit == Init => SessionInv
  <1> SUFFICES ASSUME Init
               PROVE  FieldsInv /\ SessionFollowsLine
    BY ScopeInit DEF SessionInv
  <1>1. \A f : Given(f) = {}
    BY DEF Init, Given
  <1>2. messages \in Seq(Words) /\ DOMAIN fields = SessionFlags
    BY EmptySeq DEF Init
  <1>3. \A f \in Fields : f \in SessionFlags /\ fields[f] = None
    BY DEF Init, Fields, SessionFlags
  <1>4. \A f \in Fields : \A v : v = fields[f] => IsLast(v, f, None)
    BY <1>1, <1>3 DEF IsLast
  <1>5. Followed(<< >>, << >>, {})
    <2>1. Len(<< >>) = 0 /\ DOMAIN << >> = {} /\ (0 + 1)..0 = {}
      BY EmptySeq, LenProperties
    <2> DEFINE at == [i \in {} |-> i]
    <2>2. at \in [{} -> {}]
      OBVIOUS
    <2> HIDE DEF at
    <2>3. (Len(<< >>) + 1)..Len(<< >>) = {}
      BY <2>1
    <2> QED BY <2>1, <2>2, <2>3, Zenon DEF Followed
  <1>6. \A places : places = Given("-messages") => Followed(messages, << >>, places)
    BY <1>1, <1>5 DEF Init
  <1>7. SessionFollowsLine
    BY DEF Init, SessionFollowsLine
  <1> QED BY <1>2, <1>4, <1>6, <1>7 DEF FieldsInv

\* What a flag does to the messages and the fields, unless it ends the parsing.
LEMMA TakeFields ==
  ASSUME NEW a \in Args, Take(a)
  PROVE  \/ outcome' \in {"failed", "help"}
         \/ /\ outcome' = "parsing" /\ a.flag \notin SessionFlags \cup {"-messages"}
            /\ UNCHANGED <<messages, fields>>
         \/ /\ outcome' = "parsing" /\ a.flag = "-messages"
            /\ messages' = Append(messages, a.value) /\ UNCHANGED fields
         \/ /\ outcome' = "parsing" /\ a.flag \in SessionFlags
            /\ fields' = [fields EXCEPT ![a.flag] = a.value] /\ UNCHANGED messages
  <1>0. outcome = "parsing"
    BY DEF Take
  <1>1. CASE a.flag = "-host"
    <2>1. Host(a.value)
      BY <1>1, SettingFacts DEF Take, SessionFlags
    <2> QED BY <1>0, <1>1, <2>1 DEF Host, Fail, SessionFlags
  <1>2. CASE a.flag = "-model"
    <2>1. Model(a.value)
      BY <1>2, SettingFacts DEF Take, SessionFlags
    <2> QED BY <1>0, <1>2, <2>1 DEF Model, Fail, SessionFlags
  <1>3. CASE a.flag = "-nsname"
    <2>1. NsName(a.value)
      BY <1>3, SettingFacts DEF Take, SessionFlags
    <2> QED BY <1>0, <1>3, <2>1 DEF NsName, Fail, SessionFlags
  <1>4. CASE a.flag \in DOMAIN SettingOf
    <2>1. Setting(SettingOf[a.flag], a.value)
      BY <1>4, SettingFacts DEF Take, SessionFlags
    <2>2. a.flag \notin SessionFlags \cup {"-messages"}
      BY <1>4, SettingFacts DEF SessionFlags
    <2> QED BY <1>0, <2>1, <2>2 DEF Setting, Fail
  <1>5. CASE a.flag = "-messages"
    <2>1. Messages(a.value)
      BY <1>5, SettingFacts DEF Take, SessionFlags
    <2> QED BY <1>0, <1>5, <2>1 DEF Messages, Fail
  <1>6. CASE a.flag \in SessionFlags
    <2>1. SessionField(a.flag, a.value)
      BY <1>6, SettingFacts DEF Take, SessionFlags
    <2> QED BY <1>0, <1>6, <2>1 DEF SessionField, Fail
  <1>7. CASE a.flag \notin {"-host", "-model", "-nsname", "-messages"}
                             \cup DOMAIN SettingOf \cup SessionFlags
    <2>1. Help \/ Fail(TRUE)
      BY <1>7, SettingFacts DEF Take, SessionFlags
    <2> QED BY <2>1 DEF Help, Fail
  <1> QED BY <1>1, <1>2, <1>3, <1>4, <1>5, <1>6, <1>7

\* Where a flag stands on a line that grows.
LEMMA GivenFacts ==
  ASSUME ScopeInv, NEW a \in Args, line' = Append(line, a)
  PROVE  \A f : /\ Given(f) \in SUBSET (1..L)
                /\ Given(f)' = Given(f) \cup (IF a.flag = f THEN {L + 1} ELSE {})
  <1>1. /\ L \in Nat /\ DOMAIN line = 1..L /\ DOMAIN line' = 1..(L + 1)
        /\ \A n \in 1..L : line'[n] = line[n]
        /\ line'[L + 1] = a
    BY LineFacts
  <1> HIDE DEF L
  <1> QED BY <1>1 DEF Given

LEMMA LastFacts ==
  ASSUME ScopeInv, NEW a \in Args, line' = Append(line, a), NEW f, NEW v
  PROVE  /\ a.flag # f /\ IsLast(v, f, None) => IsLast(v, f, None)'
         /\ a.flag = f /\ v = a.value => IsLast(v, f, None)'
  <1>1. /\ Given(f) \in SUBSET (1..L)
        /\ Given(f)' = Given(f) \cup (IF a.flag = f THEN {L + 1} ELSE {})
    BY GivenFacts
  <1>2. L \in Nat /\ (\A n \in 1..L : line'[n] = line[n]) /\ line'[L + 1] = a
    BY LineFacts
  <1> HIDE DEF L
  <1>3. CASE a.flag # f
    <2>1. Given(f)' = Given(f) /\ \A n \in Given(f) : line'[n] = line[n]
      BY <1>1, <1>2, <1>3
    <2> QED BY <1>3, <2>1 DEF IsLast
  <1>4. CASE a.flag = f /\ v = a.value
    <2>1. L + 1 \in Given(f)' /\ v = line'[L + 1].value
      BY <1>1, <1>2, <1>4
    <2>2. \A m \in Given(f)' : m <= L + 1
      BY <1>1, <1>2
    <2> QED BY <1>4, <2>1, <2>2 DEF IsLast
  <1> QED BY <1>3, <1>4

LEMMA FieldsTake ==
  ASSUME ScopeInv, FieldsInv, NEW a \in Args, Take(a), outcome' \notin {"failed", "help"}
  PROVE  FieldsInv'
  <1>1. line' = Append(line, a) /\ a.value \in Words
    BY ChangeFacts DEF Take
  <1>0. PICK texts \in Seq(Words) : texts = messages
    BY DEF FieldsInv
  <1>2. PICK places : texts = messages /\ places = Given("-messages")
    BY <1>0
  <1>3. Followed(texts, << >>, places) /\ places \in SUBSET (1..L)
    BY <1>1, <1>2, GivenFacts DEF FieldsInv
  <1>4. CASE a.flag = "-messages"
    <2>1. messages' = Append(texts, a.value) /\ fields' = fields
      BY <1>2, <1>4, TakeFields DEF SessionFlags
    <2>2. Append(texts, a.value) \in Seq(Words) /\ << >> \in Seq(Words)
      BY <1>1, AppendProperties, EmptySeq
    <2>3. PICK last : last = L + 1
      OBVIOUS
    <2>4. Followed(Append(texts, a.value), << >>, places \cup {last})'
      BY <1>1, <1>3, <2>2, <2>3, FollowedMore
    <2>5. Given("-messages")' = places \cup {last}
      BY <1>1, <1>2, <1>4, <2>3, GivenFacts
    <2>6. \A p : p = Given("-messages")' => Followed(messages, << >>, p)'
      BY <2>1, <2>4, <2>5 DEF Followed
    <2>7. ASSUME NEW f \in Fields, NEW v, v = fields'[f]
          PROVE  IsLast(v, f, None)'
      <3>1. IsLast(v, f, None) /\ a.flag # f
        BY <1>4, <2>1, <2>7 DEF FieldsInv, Fields
      <3> QED BY <1>1, <3>1, LastFacts
    <2> QED BY <2>1, <2>2, <2>6, <2>7 DEF FieldsInv
  <1>5. CASE a.flag # "-messages"
    <2>1. messages' = texts /\ Given("-messages")' = places
      <3>1. messages' = messages
        BY <1>5, TakeFields
      <3>2. Given("-messages")' = Given("-messages")
        BY <1>1, <1>5, GivenFacts
      <3> QED BY <1>2, <3>1, <3>2
    <2>2. Followed(texts, << >>, places)'
      BY <1>1, <1>3, FollowedSame
    <2>3. \A p : p = Given("-messages")' => Followed(messages, << >>, p)'
      BY <2>1, <2>2 DEF Followed
    <2>4. /\ DOMAIN fields' = SessionFlags
          /\ \A f \in Fields : IF a.flag = f THEN fields'[f] = a.value ELSE fields'[f] = fields[f]
      <3>1. Fields \subseteq SessionFlags
        BY DEF Fields, SessionFlags
      <3> QED BY <1>5, <3>1, TakeFields DEF FieldsInv
    <2>5. ASSUME NEW f \in Fields, NEW v, v = fields'[f]
          PROVE  IsLast(v, f, None)'
      <3>1. a.flag # f => IsLast(v, f, None)
        BY <2>4, <2>5 DEF FieldsInv
      <3>2. a.flag = f => v = a.value
        BY <2>4, <2>5
      <3> QED BY <1>1, <3>1, <3>2, LastFacts
    <2> QED BY <2>1, <2>3, <2>4, <2>5 DEF FieldsInv
  <1> QED BY <1>4, <1>5

\* What the line gives counts; what it does not give is taken from elsewhere.
LEMMA OrFacts ==
  ASSUME ScopeInv, NEW f, NEW v, NEW other, IsLast(v, f, None)
  PROVE  IsLast(Or(v, other), f, other) /\ (v = None <=> Given(f) = {})
  <1>1. \A n \in Given(f) : line[n].value # None
    BY ElementOfSeq, LenProperties, ArgsAssumption DEF ScopeInv, TypeInv, Given
  <1>2. v = None <=> Given(f) = {}
    BY <1>1 DEF IsLast
  <1> QED BY <1>2 DEF IsLast, Or

\* The messages that come before the prompt.
Before ==
  SubSeq(session.history, 1,
         IF Given("-prompt") # {} THEN Len(session.history) - 1 ELSE Len(session.history))

LEMMA FollowedBefore ==
  ASSUME NEW texts, NEW places, Followed(texts, << >>, places), line' = line,
         Before' = texts, Given("-messages")' = places
  PROVE  Followed(Before, << >>, Given("-messages"))'
  <1> DEFINE added == (Len(<< >>) + 1)..Len(texts)
  <1>1. PICK at \in [added -> places] :
          /\ \A i, j \in added : i < j => at[i] < at[j]
          /\ \A n \in places : \E i \in added : at[i] = n
          /\ \A i \in added : texts[i] = line'[at[i]].value
    BY DEF Followed
  <1>2. \A i \in DOMAIN << >> : i \in DOMAIN texts /\ texts[i] = << >>[i]
    BY DEF Followed
  <1> DEFINE between == (Len(<< >>) + 1)..Len(Before')
  <1>3. /\ at \in [between -> Given("-messages")']
        /\ \A i, j \in between : i < j => at[i] < at[j]
        /\ \A n \in Given("-messages")' : \E i \in between : at[i] = n
        /\ \A i \in between : Before'[i] = line'[at[i]].value
        /\ \A i \in DOMAIN << >> : i \in DOMAIN Before' /\ Before'[i] = << >>[i]
    BY <1>1, <1>2
  <1> QED BY <1>3, Zenon DEF Followed

LEMMA HistoryFacts ==
  ASSUME NEW m \in Seq(Words), NEW p
  PROVE  /\ SubSeq(m, 1, Len(m)) = m
         /\ Len(Append(m, p)) = Len(m) + 1 /\ Len(m) \in Nat
         /\ Append(m, p)[Len(m) + 1] = p
         /\ SubSeq(Append(m, p), 1, (Len(m) + 1) - 1) = m
  OBVIOUS

\* What main makes of the line.
LEMMA SessionStarts ==
  ASSUME ScopeInv, FieldsInv, Start, outcome' = "started"
  PROVE  SessionFollowsLine'
  <1>0. PICK m \in Seq(Words) : m = messages
    BY DEF FieldsInv
  <1>1. PICK p, tools, version, path :
          /\ m = messages /\ p = fields["-prompt"] /\ path = fields["-meta"]
          /\ tools = fields["-tools"] /\ version = fields["-protocol-version"]
    BY <1>0
  <1>2. /\ IsLast(p, "-prompt", None) /\ IsLast(path, "-meta", None)
        /\ IsLast(tools, "-tools", None) /\ IsLast(version, "-protocol-version", None)
    BY <1>1 DEF FieldsInv, Fields
  <1> DEFINE known == IF path = None THEN [tools |-> None, version |-> None] ELSE Metas[path]
  <1>3. /\ path \in DOMAIN Metas \cup {None} /\ line' = line
        /\ session' = [tools |-> Or(tools, known.tools), version |-> Or(version, known.version),
                       history |-> IF p = None THEN m ELSE Append(m, p)]
    BY <1>1 DEF Start, Fail
  <1>4. \A f : Given(f)' = Given(f)
    BY <1>3 DEF Given
  <1>5. \A v, f, other : IsLast(v, f, other) => IsLast(v, f, other)'
    BY <1>3, <1>4 DEF IsLast
  <1>6. PICK t, u : t = known.tools /\ u = known.version
    OBVIOUS
  <1>7. /\ IsLast(Or(tools, t), "-tools", t) /\ IsLast(Or(version, u), "-protocol-version", u)
        /\ p = None <=> Given("-prompt") = {}
    BY <1>2, OrFacts
  <1>8. /\ t = IF path = None THEN None ELSE Metas[path].tools
        /\ u = IF path = None THEN None ELSE Metas[path].version
    BY <1>6
  <1>9. session'.tools = Or(tools, t) /\ session'.version = Or(version, u)
    BY <1>3, <1>6
  <1>10. \E w \in DOMAIN Metas \cup {None} :
           /\ IsLast(w, "-meta", None)'
           /\ IsLast(session.tools, "-tools", IF w = None THEN None ELSE Metas[w].tools)'
           /\ IsLast(session.version, "-protocol-version",
                     IF w = None THEN None ELSE Metas[w].version)'
    <2>1. /\ IsLast(path, "-meta", None)'
          /\ IsLast(Or(tools, t), "-tools", t)'
          /\ IsLast(Or(version, u), "-protocol-version", u)'
      BY <1>2, <1>5, <1>7
    <2> QED BY <1>3, <1>8, <1>9, <2>1 DEF IsLast
  <1>11. session'.history = IF p = None THEN m ELSE Append(m, p)
    BY <1>3
  <1>12. Given("-prompt")' # {} => /\ Len(session'.history) > 0
                                   /\ session'.history[Len(session'.history)] = p
    BY <1>4, <1>7, <1>11, HistoryFacts
  <1>13. Before' = m
    BY <1>4, <1>7, <1>11, HistoryFacts DEF Before
  <1>14. Followed(Before, << >>, Given("-messages"))'
    <2>1. PICK places : places = Given("-messages")
      OBVIOUS
    <2>2. Followed(m, << >>, places)
      BY <1>1, <2>1 DEF FieldsInv
    <2> QED BY <1>3, <1>4, <1>13, <2>1, <2>2, FollowedBefore
  <1>15. Given("-prompt")' # {} =>
           Len(session'.history) > 0
             /\ IsLast(session.history[Len(session.history)], "-prompt", None)'
    <2>1. IsLast(p, "-prompt", None)'
      BY <1>2, <1>5
    <2> QED BY <1>12, <2>1 DEF IsLast
  <1> QED BY <1>10, <1>14, <1>15 DEF SessionFollowsLine, Before

\* A session that has begun stays as it is.
LEMMA SessionStays ==
  ASSUME SessionFollowsLine, UNCHANGED <<line, outcome, session>>
  PROVE  SessionFollowsLine'
  <1> SUFFICES ASSUME outcome = "started"
               PROVE  SessionFollowsLine'
    BY DEF SessionFollowsLine
  <1>1. \A f : Given(f)' = Given(f)
    BY DEF Given
  <1>2. \A v, f, other : IsLast(v, f, other) => IsLast(v, f, other)'
    BY <1>1 DEF IsLast
  <1>3. PICK path, tools, version, t, u :
          /\ path \in DOMAIN Metas \cup {None}
          /\ tools = session.tools /\ version = session.version
          /\ t = IF path = None THEN None ELSE Metas[path].tools
          /\ u = IF path = None THEN None ELSE Metas[path].version
          /\ IsLast(path, "-meta", None) /\ IsLast(tools, "-tools", t)
          /\ IsLast(version, "-protocol-version", u)
    BY DEF SessionFollowsLine
  <1>4. \E w \in DOMAIN Metas \cup {None} :
          /\ IsLast(w, "-meta", None)'
          /\ IsLast(session.tools, "-tools", IF w = None THEN None ELSE Metas[w].tools)'
          /\ IsLast(session.version, "-protocol-version",
                    IF w = None THEN None ELSE Metas[w].version)'
    <2>1. /\ IsLast(path, "-meta", None)' /\ IsLast(tools, "-tools", t)'
          /\ IsLast(version, "-protocol-version", u)'
      BY <1>2, <1>3
    <2> QED BY <1>3, <2>1 DEF IsLast
  <1>5. PICK texts, places : texts = Before /\ places = Given("-messages")
    OBVIOUS
  <1>6. Followed(texts, << >>, places)
    BY <1>5 DEF SessionFollowsLine, Before
  <1>7. Before' = texts /\ Given("-messages")' = places
    BY <1>1, <1>5 DEF Before
  <1>8. Followed(Before, << >>, Given("-messages"))'
    BY <1>6, <1>7, FollowedBefore
  <1>9. Given("-prompt")' # {} =>
          Len(session'.history) > 0
            /\ IsLast(session.history[Len(session.history)], "-prompt", None)'
    <2>1. PICK p : p = session.history[Len(session.history)]
      OBVIOUS
    <2>2. Given("-prompt") # {} => Len(session.history) > 0 /\ IsLast(p, "-prompt", None)
      BY <2>1 DEF SessionFollowsLine
    <2>3. IsLast(p, "-prompt", None) => IsLast(p, "-prompt", None)'
      BY <1>2
    <2> QED BY <1>1, <2>1, <2>2, <2>3 DEF IsLast
  <1> QED BY <1>4, <1>8, <1>9 DEF SessionFollowsLine, Before

LEMMA SessionStep == SessionInv /\ [Next]_vars => SessionInv'
  <1> SUFFICES ASSUME SessionInv, [Next]_vars
               PROVE  SessionInv'
    OBVIOUS
  <1>1. ScopeInv /\ ScopeInv'
    BY ScopeStep DEF SessionInv
  <1>2. ASSUME NEW a \in Args, Take(a)
        PROVE  SessionInv'
    <2>1. outcome = "parsing" /\ outcome' \in {"failed", "help", "parsing"}
      BY <1>2, TakeFields DEF Take
    <2>2. outcome' = "parsing" => FieldsInv'
      BY <1>1, <1>2, <2>1, FieldsTake DEF SessionInv
    <2>3. SessionFollowsLine'
      BY <2>1 DEF SessionFollowsLine
    <2> QED BY <1>1, <2>1, <2>2, <2>3 DEF SessionInv
  <1>3. ASSUME UNCHANGED <<line, messages, fields>>, FieldsInv
        PROVE  FieldsInv'
    <2>1. \A f : Given(f)' = Given(f)
      BY <1>3 DEF Given
    <2>2. \A v, f : IsLast(v, f, None) => IsLast(v, f, None)'
      BY <1>3, <2>1 DEF IsLast
    <2>3. \A texts, places : Followed(texts, << >>, places) => Followed(texts, << >>, places)'
      BY <1>3 DEF Followed
    <2>4. PICK texts, places : texts = messages /\ places = Given("-messages")
      OBVIOUS
    <2>5. Followed(texts, << >>, places)'
      BY <1>3, <2>3, <2>4 DEF FieldsInv
    <2>6. \A p : p = Given("-messages")' => Followed(messages, << >>, p)'
      BY <1>3, <2>1, <2>4, <2>5 DEF Followed
    <2>7. \A f \in Fields : \A v : v = fields'[f] => IsLast(v, f, None)'
      BY <1>3, <2>2 DEF FieldsInv
    <2> QED BY <1>3, <2>6, <2>7 DEF FieldsInv
  <1>4. CASE EndOfLine
    <2>1. UNCHANGED <<line, messages, fields>> /\ outcome = "parsing" /\ outcome' # "started"
      BY <1>4 DEF EndOfLine, parsed
    <2>2. SessionFollowsLine'
      BY <2>1 DEF SessionFollowsLine
    <2> QED BY <1>1, <1>3, <2>1, <2>2 DEF SessionInv
  <1>5. CASE Start
    <2>1. outcome = "parsed" /\ outcome' \in {"failed", "started"}
      BY <1>5 DEF Start, Fail
    <2>2. outcome' = "failed" => SessionFollowsLine'
      BY DEF SessionFollowsLine
    <2>3. SessionFollowsLine'
      BY <1>1, <1>5, <2>1, <2>2, SessionStarts DEF SessionInv
    <2> QED BY <1>1, <2>1, <2>3 DEF SessionInv
  <1>6. CASE Done \/ UNCHANGED vars
    <2>1. UNCHANGED <<line, messages, fields, outcome, session>>
      BY <1>6 DEF Done, vars, parsed
    <2>2. SessionFollowsLine'
      BY <2>1, SessionStays DEF SessionInv
    <2> QED BY <1>1, <1>3, <2>1, <2>2 DEF SessionInv
  <1> QED BY <1>2, <1>4, <1>5, <1>6 DEF Next

\* Whatever stands on the line and in the meta file, the session has the tools and the
\* version of the line before those of the file, and begins with the messages of the
\* line in their order, the prompt behind them.
THEOREM SessionFromLine == Spec => []SessionFollowsLine
  <1>1. SessionInv => SessionFollowsLine
    BY DEF SessionInv
  <1> QED BY <1>1, SessionInit, SessionStep, PTL DEF Spec
==============================================================================
