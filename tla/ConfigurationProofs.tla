------------------------- MODULE ConfigurationProofs -------------------------
(***************************************************************************)
(* Theorems about endpoints: the files they come from (Profiles, for files *)
(* of any length and commands of any name, and Setup, for any hosts files, *)
(* settings files, endpoints and lines typed), and what is sent to them    *)
(* (Request, for any headers, bodies and meta files).                      *)
(***************************************************************************)
EXTENDS Profiles, Setup, Request, SequenceTheorems, WellFoundedInduction, TLAPS

\* A sequence after something was put behind it.
LEMMA BehindFacts ==
  ASSUME NEW S, NEW s \in Seq(S), NEW e \in S
  PROVE  /\ Append(s, e) \in Seq(S)
         /\ Len(s) \in Nat /\ DOMAIN s = 1..Len(s)
         /\ DOMAIN Append(s, e) = 1..(Len(s) + 1)
         /\ Len(Append(s, e)) = Len(s) + 1
         /\ \A i \in 1..Len(s) : Append(s, e)[i] = s[i]
         /\ Append(s, e)[Len(s) + 1] = e
  OBVIOUS

LEMMA LinesHold ==
  /\ \A l \in Lines : l.value # None
  /\ NextLines \subseteq Lines
  BY ProfilesAssumption DEF Lines, NextLines
-----------------------------------------------------------------------------
(* Blocks *)

\* In file f, line j belongs to the block that begins at line k, and is the last
\* of it to say its key.
Within(f, k, j) == j >= k /\ \A i \in k + 1 .. j : i \notin Names(f)
Says(f, k, key, j) ==
  /\ j \in DOMAIN f /\ Within(f, k, j) /\ f[j].key = key
  /\ \A i \in j + 1 .. Len(f) : Within(f, k, i) => f[i].key # key

\* A key is said last in one line only.
LEMMA SaysOnce ==
  ASSUME NEW f \in Seq(Lines), NEW k \in Nat, NEW key,
         NEW i, NEW j, Says(f, k, key, i), Says(f, k, key, j)
  PROVE  i = j
  <1>1. Len(f) \in Nat /\ i \in 1..Len(f) /\ j \in 1..Len(f)
    BY DEF Says
  <1>2. ~(i < j)
    BY <1>1 DEF Says
  <1>3. ~(j < i)
    BY <1>1 DEF Says
  <1> QED BY <1>1, <1>2, <1>3

\* What a block has of a key.
LEMMA BlockValue ==
  ASSUME NEW f \in Seq(Lines), NEW k \in Nat, NEW key \in Keys
  PROVE  /\ (\A j : ~Says(f, k, key, j)) => BlockOf(f, k)[key] = None
         /\ \A j : Says(f, k, key, j) => BlockOf(f, k)[key] = f[j].value
  <1> DEFINE of(j) == j >= k /\ \A i \in k + 1 .. j : i \notin Names(f)
             last == {j \in DOMAIN f : of(j) /\ f[j].key = key
                        /\ \A i \in j + 1 .. Len(f) : of(i) => f[i].key # key}
             chosen == CHOOSE j \in last : TRUE
  <1>1. BlockOf(f, k)[key] = IF last = {} THEN None ELSE f[chosen].value
    BY DEF BlockOf
  <1>2. \A j : j \in last <=> Says(f, k, key, j)
    BY DEF Says, Within
  <1>3. last # {} => chosen \in last
    OBVIOUS
  <1> HIDE DEF last, chosen
  <1>4. ASSUME NEW j, Says(f, k, key, j)
        PROVE  BlockOf(f, k)[key] = f[j].value
    <2>1. chosen \in last
      BY <1>2, <1>3, <1>4
    <2>2. chosen = j
      BY <1>2, <1>4, <2>1, SaysOnce
    <2> QED BY <1>1, <2>1, <2>2
  <1>5. (\A j : ~Says(f, k, key, j)) => last = {}
    BY <1>2
  <1> QED BY <1>1, <1>4, <1>5

\* The block that another line goes to: the last one, unless it begins a new one.
Joins(f, k, l) == l.key # "name" /\ \A i \in k + 1 .. Len(f) : i \notin Names(f)

LEMMA WithinGrows ==
  ASSUME NEW f \in Seq(Lines), NEW l \in Lines, NEW g, g = Append(f, l), NEW k \in Names(f)
  PROVE  /\ k \in 1..Len(f) /\ k \in Names(g)
         /\ Names(g) = Names(f) \cup (IF l.key = "name" THEN {Len(f) + 1} ELSE {})
         /\ \A j \in DOMAIN f : Within(g, k, j) <=> Within(f, k, j)
         /\ Within(g, k, Len(f) + 1) <=> Joins(f, k, l)
  <1>1. /\ Len(f) \in Nat /\ DOMAIN f = 1..Len(f) /\ DOMAIN g = 1..(Len(f) + 1)
        /\ \A i \in 1..Len(f) : g[i] = f[i]
        /\ g[Len(f) + 1] = l
    BY BehindFacts
  <1>2. \A i : i \in Names(g) <=> i \in Names(f) \/ (i = Len(f) + 1 /\ l.key = "name")
    BY <1>1 DEF Names
  <1>3. Names(g) = Names(f) \cup (IF l.key = "name" THEN {Len(f) + 1} ELSE {})
    BY <1>2
  <1>4. k \in 1..Len(f) /\ \A i \in Names(f) : i \in 1..Len(f)
    BY <1>1 DEF Names
  <1>5. ASSUME NEW j \in DOMAIN f
        PROVE  Within(g, k, j) <=> Within(f, k, j)
    <2>1. \A i \in k + 1 .. j : i # Len(f) + 1
      BY <1>1, <1>4, <1>5
    <2> QED BY <1>2, <2>1 DEF Within
  <1>6. Within(g, k, Len(f) + 1) <=> Joins(f, k, l)
    <2>1. \A i \in k + 1 .. Len(f) : i # Len(f) + 1 /\ i \in k + 1 .. Len(f) + 1
      BY <1>1, <1>4
    <2>2. Len(f) + 1 >= k /\ Len(f) + 1 \in k + 1 .. Len(f) + 1
      BY <1>1, <1>4
    <2>3. \A i \in k + 1 .. Len(f) + 1 : i \in k + 1 .. Len(f) \/ i = Len(f) + 1
      BY <1>1, <1>4
    <2> QED BY <1>2, <1>4, <1>1, <2>1, <2>2, <2>3 DEF Within, Joins
  <1> QED BY <1>2, <1>3, <1>4, <1>5, <1>6

LEMMA BlockIsFunction ==
  ASSUME NEW f, NEW k
  PROVE  BlockOf(f, k) = [key \in Keys |-> BlockOf(f, k)[key]]
  BY DEF BlockOf

\* A field line sets its key in the last block, and changes no other.
LEMMA BlockGrows ==
  ASSUME NEW f \in Seq(Lines), NEW l \in Lines, NEW g, g = Append(f, l), NEW k \in Names(f)
  PROVE  BlockOf(g, k) = IF Joins(f, k, l) /\ l.key \in Keys
                           THEN [BlockOf(f, k) EXCEPT ![l.key] = l.value]
                           ELSE BlockOf(f, k)
  <1> DEFINE N == Len(f) + 1
             grown == IF Joins(f, k, l) /\ l.key \in Keys
                        THEN [BlockOf(f, k) EXCEPT ![l.key] = l.value] ELSE BlockOf(f, k)
  <1>1. /\ g \in Seq(Lines) /\ Len(f) \in Nat /\ DOMAIN f = 1..Len(f) /\ DOMAIN g = 1..N
        /\ Len(g) = N /\ \A i \in 1..Len(f) : g[i] = f[i]
        /\ g[N] = l
    BY BehindFacts
  <1>2. /\ k \in Nat
        /\ \A j \in DOMAIN f : Within(g, k, j) <=> Within(f, k, j)
        /\ Within(g, k, N) <=> Joins(f, k, l)
    <2>1. /\ k \in 1..Len(f)
          /\ \A j \in DOMAIN f : Within(g, k, j) <=> Within(f, k, j)
          /\ Within(g, k, Len(f) + 1) <=> Joins(f, k, l)
      BY WithinGrows, Zenon
    <2> QED BY <1>1, <2>1
  <1>3. ASSUME NEW key \in Keys, Joins(f, k, l), l.key = key
        PROVE  BlockOf(g, k)[key] = l.value
    <2>1. Says(g, k, key, N)
      BY <1>1, <1>2, <1>3 DEF Says
    <2>2. g \in Seq(Lines) /\ k \in Nat
      BY <1>1, <1>2
    <2>3. BlockOf(g, k)[key] = g[N].value
      BY <2>1, <2>2, BlockValue, Zenon
    <2> QED BY <1>1, <2>3
  <1>4. ASSUME NEW key \in Keys, ~(Joins(f, k, l) /\ l.key = key)
        PROVE  BlockOf(g, k)[key] = BlockOf(f, k)[key]
    <2>1. ASSUME NEW j, Says(g, k, key, j)
          PROVE  Says(f, k, key, j)
      <3>1. j \in 1..N /\ j # N
        BY <1>1, <1>2, <1>4, <2>1 DEF Says
      <3>2. \A i \in j + 1 .. Len(f) : i \in j + 1 .. N /\ i \in DOMAIN f
        BY <1>1, <3>1
      <3> QED BY <1>1, <1>2, <2>1, <3>1, <3>2 DEF Says
    <2>2. ASSUME NEW j, Says(f, k, key, j)
          PROVE  Says(g, k, key, j)
      <3>1. j \in 1..Len(f) /\ j \in 1..N
        BY <1>1, <2>2 DEF Says
      <3>2. \A i \in j + 1 .. N : i = N \/ (i \in j + 1 .. Len(f) /\ i \in DOMAIN f)
        BY <1>1, <3>1
      <3>3. Within(g, k, N) => g[N].key # key
        BY <1>1, <1>2, <1>4
      <3> QED BY <1>1, <1>2, <2>2, <3>1, <3>2, <3>3 DEF Says
    <2>3. CASE \E j : Says(f, k, key, j)
      <3>1. PICK j : Says(f, k, key, j)
        BY <2>3
      <3>2. g \in Seq(Lines) /\ k \in Nat /\ Says(g, k, key, j)
        BY <1>1, <1>2, <2>2, <3>1
      <3>3. BlockOf(f, k)[key] = f[j].value
        BY <3>1, <3>2, BlockValue, Zenon
      <3>4. BlockOf(g, k)[key] = g[j].value
        BY <3>2, BlockValue, Zenon
      <3> QED BY <1>1, <3>1, <3>3, <3>4 DEF Says
    <2>4. CASE \A j : ~Says(f, k, key, j)
      BY <1>1, <1>2, <2>1, <2>4, BlockValue
    <2> QED BY <2>3, <2>4
  <1>5. \A key \in Keys : BlockOf(g, k)[key] = grown[key]
    BY <1>3, <1>4, BlockIsFunction
  <1>6. grown = [key \in Keys |-> grown[key]]
    BY BlockIsFunction
  <1> HIDE DEF grown
  <1>7. BlockOf(g, k) = grown
    BY <1>5, <1>6, BlockIsFunction
  <1> QED BY <1>7 DEF grown

\* A name line begins a block that has nothing but the name.
LEMMA BlockStarts ==
  ASSUME NEW f \in Seq(Lines), NEW l \in Lines, NEW g, g = Append(f, l), l.key = "name"
  PROVE  BlockOf(g, Len(f) + 1) = [NoFields EXCEPT !["name"] = l.value]
  <1> DEFINE N == Len(f) + 1
             new == [NoFields EXCEPT !["name"] = l.value]
  <1>1. /\ g \in Seq(Lines) /\ N \in Nat /\ DOMAIN g = 1..N /\ Len(g) = N /\ g[N] = l
    BY BehindFacts
  <1>2. ASSUME NEW j \in DOMAIN g
        PROVE  Within(g, N, j) <=> j = N
    BY <1>1 DEF Within
  <1>3. ASSUME NEW key \in Keys
        PROVE  BlockOf(g, N)[key] = new[key]
    <2>1. CASE key = "name"
      <3>1. Says(g, N, key, N)
        BY <1>1, <1>2, <2>1 DEF Says
      <3>2. BlockOf(g, N)[key] = g[N].value
        BY <1>1, <3>1, BlockValue, Zenon
      <3> QED BY <1>1, <2>1, <3>2 DEF NoFields
    <2>2. CASE key # "name"
      <3>1. \A j : ~Says(g, N, key, j)
        BY <1>1, <1>2, <2>2 DEF Says
      <3> QED BY <1>1, <2>2, <3>1, BlockValue DEF NoFields
    <2> QED BY <2>1, <2>2
  <1>4. new = [key \in Keys |-> new[key]]
    BY DEF NoFields
  <1> HIDE DEF new, N
  <1>5. BlockOf(g, N) = new
    BY <1>3, <1>4, BlockIsFunction
  <1> QED BY <1>5 DEF new, N

-----------------------------------------------------------------------------
(* Reading *)

Profile == {Entry(BlockOf(f, k)) : f \in Seq(Lines), k \in Nat}

\* The name lines of file f are the m places, in order.
Placed(f, place, m) ==
  /\ m \in Nat /\ place \in [1..m -> Names(f)]
  /\ \A i, j \in 1..m : i < j => place[i] < place[j]
  /\ \A k \in Names(f) : \E i \in 1..m : place[i] = k

CalledByName(f) == \A k \in Names(f) : BlockOf(f, k)["name"] = f[k].value

\* Each profile that is read is the block at its place, and the last block is read.
EntriesFor(f, place) ==
  /\ entries \in Seq(Profile)
  /\ \A i \in DOMAIN entries :
       Builds(BlockOf(f, place[i])) /\ entries[i] = Entry(BlockOf(f, place[i]))

CurrentFor(f, place, m) ==
  IF m = 0 THEN current = NoFields /\ entries = << >>
  ELSE current = BlockOf(f, place[m]) /\ Len(entries) = m - 1

ReadInv(f, place, m) ==
  /\ f \in Seq(Lines) /\ CalledByName(f) /\ Placed(f, place, m)
  /\ EntriesFor(f, place)
  /\ outcome = "reading" => CurrentFor(f, place, m)
  /\ outcome \in {"loaded", "done"} => Len(entries) = m
  /\ outcome \in {"reading", "loaded", "done"}

BlocksInv == outcome # "failed" => \E f, place, m : f = file /\ ReadInv(f, place, m)

\* What a block is called is on its first line.
LEMMA NamesStay ==
  ASSUME NEW f \in Seq(Lines), CalledByName(f), NEW l \in Lines, NEW g, g = Append(f, l)
  PROVE  CalledByName(g)
  <1>1. /\ Len(f) \in Nat /\ DOMAIN f = 1..Len(f) /\ DOMAIN g = 1..(Len(f) + 1)
        /\ \A i \in 1..Len(f) : g[i] = f[i]
        /\ g[Len(f) + 1] = l
    BY BehindFacts
  <1>2. ASSUME NEW k \in Names(f)
        PROVE  BlockOf(g, k)["name"] = g[k].value
    <2>1. k \in 1..Len(f)
      BY <1>1 DEF Names
    <2>2. BlockOf(f, k)["name"] = f[k].value
      BY DEF CalledByName
    <2>3. BlockOf(g, k) = IF Joins(f, k, l) /\ l.key \in Keys
                            THEN [BlockOf(f, k) EXCEPT ![l.key] = l.value]
                            ELSE BlockOf(f, k)
      BY BlockGrows
    <2>4. BlockOf(g, k)["name"] = BlockOf(f, k)["name"]
      BY <2>3, BlockIsFunction DEF Joins, Keys
    <2> QED BY <1>1, <2>1, <2>2, <2>4
  <1>3. ASSUME l.key = "name"
        PROVE  BlockOf(g, Len(f) + 1)["name"] = g[Len(f) + 1].value
    <2>1. BlockOf(g, Len(f) + 1) = [NoFields EXCEPT !["name"] = l.value]
      BY <1>3, BlockStarts
    <2>2. [NoFields EXCEPT !["name"] = l.value]["name"] = l.value
      BY DEF NoFields, Keys
    <2> QED BY <1>1, <2>1, <2>2
  <1>4. \A k \in Names(g) : k \in Names(f) \/ (k = Len(f) + 1 /\ l.key = "name")
    BY <1>1 DEF Names
  <1> QED BY <1>2, <1>3, <1>4 DEF CalledByName

\* The file that is read up to its end, or to the next name line.
LEMMA FinishKeeps ==
  ASSUME NEW f, NEW place, NEW m, ReadInv(f, place, m), outcome = "reading",
         NEW then, Finish(then), outcome' # "failed", then # "failed"
  PROVE  EntriesFor(f, place)' /\ Len(entries') = m /\ outcome' = then
  <1>1. /\ m \in Nat /\ place \in [1..m -> Names(f)] /\ f \in Seq(Lines) /\ CalledByName(f)
        /\ entries \in Seq(Profile) /\ CurrentFor(f, place, m)
    BY DEF ReadInv, Placed, EntriesFor
  <1>2. CASE m = 0
    <2>1. current = NoFields /\ entries' = entries /\ outcome' = then /\ entries = << >>
      BY <1>1, <1>2 DEF Finish, CurrentFor
    <2> QED BY <1>2, <2>1 DEF ReadInv, EntriesFor
  <1>3. CASE m # 0
    <2> DEFINE b == BlockOf(f, place[m])
               e == Entry(b)
    <2>1. current = b /\ Len(entries) = m - 1 /\ place[m] \in Names(f)
      BY <1>1, <1>3 DEF CurrentFor
    <2>2. place[m] \in DOMAIN f /\ place[m] \in Nat /\ f[place[m]] \in Lines
      BY <1>1, <2>1 DEF Names
    <2>3. current # NoFields
      <3>1. b["name"] # None
        BY <1>1, <2>1, <2>2, LinesHold DEF CalledByName
      <3>2. NoFields["name"] = None
        BY DEF NoFields, Keys
      <3> QED BY <2>1, <3>1, <3>2
    <2>4. Builds(b) /\ outcome' = then /\ entries' = Append(entries, e)
      BY <2>1, <2>3 DEF Finish
    <2>5. e \in Profile
      BY <1>1, <2>2 DEF Profile
    <2> HIDE DEF b, e
    <2>6. /\ entries' \in Seq(Profile) /\ Len(entries') = m /\ DOMAIN entries' = 1..m
          /\ DOMAIN entries = 1..(m - 1)
          /\ \A i \in 1..(m - 1) : entries'[i] = entries[i]
          /\ entries'[m] = e
      BY <1>1, <2>1, <2>4, <2>5, BehindFacts
    <2>7. ASSUME NEW i \in DOMAIN entries'
          PROVE  Builds(BlockOf(f, place[i])) /\ entries'[i] = Entry(BlockOf(f, place[i]))
      <3>1. CASE i = m
        BY <2>4, <2>6, <3>1 DEF b, e
      <3>2. CASE i # m
        <4>1. i \in DOMAIN entries /\ entries'[i] = entries[i]
          BY <1>1, <2>6, <3>2
        <4> QED BY <4>1 DEF ReadInv, EntriesFor
      <3> QED BY <3>1, <3>2
    <2> QED BY <2>4, <2>6, <2>7 DEF EntriesFor
  <1> QED BY <1>2, <1>3

\* A name line is one more place.
LEMMA NameLineKeeps1 ==
  ASSUME NEW f, NEW place, NEW m, ReadInv(f, place, m), outcome = "reading",
         NEW l \in Lines, l.key = "name", NEW g, g = Append(f, l),
         NameLine(l.value), outcome' # "failed"
  PROVE  \E q, n : ReadInv(g, q, n)'
  <1> DEFINE N == Len(f) + 1
             n == m + 1
             q == [i \in 1..n |-> IF i = n THEN N ELSE place[i]]
  <1>1. /\ m \in Nat /\ place \in [1..m -> Names(f)] /\ f \in Seq(Lines) /\ CalledByName(f)
        /\ \A i, j \in 1..m : i < j => place[i] < place[j]
        /\ \A k \in Names(f) : \E i \in 1..m : place[i] = k
    BY DEF ReadInv, Placed
  <1>2. /\ g \in Seq(Lines) /\ Len(f) \in Nat /\ DOMAIN f = 1..Len(f) /\ DOMAIN g = 1..N
        /\ \A i \in 1..Len(f) : g[i] = f[i]
        /\ g[N] = l
    BY <1>1, BehindFacts
  <1>3. EntriesFor(f, place)' /\ Len(entries') = m /\ outcome' = "reading"
    <2>1. Finish("reading")
      BY DEF NameLine
    <2> QED BY <2>1, FinishKeeps
  <1>4. Names(g) = Names(f) \cup {N} /\ \A k \in Names(f) : k \in 1..Len(f)
    BY <1>2 DEF Names
  <1>5. /\ n \in Nat /\ 1..n = 1..m \cup {n} /\ n \notin 1..m /\ n # 0
        /\ q[n] = N /\ \A i \in 1..m : q[i] = place[i]
    BY <1>1
  <1>6. Placed(g, q, n)
    <2>1. q \in [1..n -> Names(g)]
      BY <1>1, <1>4, <1>5
    <2>2. ASSUME NEW i \in 1..n, NEW j \in 1..n, i < j
          PROVE  q[i] < q[j]
      <3>1. i \in 1..m
        BY <1>1, <2>2
      <3>2. CASE j = n
        BY <1>1, <1>2, <1>4, <1>5, <3>1, <3>2
      <3>3. CASE j \in 1..m
        BY <1>1, <1>5, <2>2, <3>1, <3>3
      <3> QED BY <1>5, <3>2, <3>3
    <2>3. \A k \in Names(g) : \E i \in 1..n : q[i] = k
      BY <1>1, <1>4, <1>5
    <2> QED BY <1>5, <2>1, <2>2, <2>3 DEF Placed
  <1> HIDE DEF q, n, N
  <1>7. \A k \in Names(f) : BlockOf(g, k) = BlockOf(f, k)
    BY <1>1, BlockGrows DEF Joins
  <1>8. EntriesFor(g, q)'
    <2>1. ASSUME NEW i \in DOMAIN entries'
          PROVE  BlockOf(g, q[i]) = BlockOf(f, place[i])
      <3>1. i \in 1..m
        BY <1>1, <1>3, <2>1 DEF EntriesFor
      <3> QED BY <1>1, <1>5, <1>7, <3>1
    <2> QED BY <1>3, <2>1 DEF EntriesFor
  <1>9. current' = BlockOf(g, q[n])
    <2>1. BlockOf(g, Len(f) + 1) = [NoFields EXCEPT !["name"] = l.value]
      BY <1>1, BlockStarts, Zenon
    <2>2. current' = [NoFields EXCEPT !["name"] = l.value]
      BY DEF NameLine
    <2> QED BY <1>5, <2>1, <2>2 DEF N
  <1>10. CalledByName(g)
    BY <1>1, NamesStay
  <1>11. CurrentFor(g, q, n)'
    <2>1. Len(entries') = n - 1
      BY <1>1, <1>3 DEF n
    <2> QED BY <1>5, <1>9, <2>1 DEF CurrentFor
  <1>12. ReadInv(g, q, n)'
    BY <1>2, <1>3, <1>6, <1>8, <1>10, <1>11 DEF ReadInv
  <1> QED BY <1>12

\* A field line goes to the block at the last place.
LEMMA FieldLineKeeps ==
  ASSUME NEW f, NEW place, NEW m, ReadInv(f, place, m), outcome = "reading",
         NEW l \in Lines, l.key # "name", NEW g, g = Append(f, l),
         FieldLine(l.key, l.value)
  PROVE  ReadInv(g, place, m)'
  <1>1. /\ m \in Nat /\ place \in [1..m -> Names(f)] /\ f \in Seq(Lines) /\ CalledByName(f)
        /\ \A i, j \in 1..m : i < j => place[i] < place[j]
        /\ \A k \in Names(f) : \E i \in 1..m : place[i] = k
        /\ CurrentFor(f, place, m) /\ EntriesFor(f, place)
    BY DEF ReadInv, Placed
  <1>2. /\ g \in Seq(Lines) /\ Len(f) \in Nat /\ DOMAIN f = 1..Len(f)
        /\ DOMAIN g = 1..(Len(f) + 1)
        /\ \A i \in 1..Len(f) : g[i] = f[i]
        /\ g[Len(f) + 1] = l
    BY <1>1, BehindFacts
  <1>3. /\ m # 0 /\ current = BlockOf(f, place[m]) /\ Len(entries) = m - 1
        /\ UNCHANGED <<entries, outcome>>
        /\ current' = IF l.key \in Keys THEN [current EXCEPT ![l.key] = l.value] ELSE current
    BY <1>1 DEF FieldLine, CurrentFor
  <1>4. Names(g) = Names(f) /\ \A k \in Names(f) : k \in 1..Len(f)
    BY <1>2 DEF Names
  <1>5. Joins(f, place[m], l)
    <2>1. \A k \in Names(f) : k <= place[m]
      <3> SUFFICES ASSUME NEW i \in 1..m
                   PROVE  place[i] <= place[m]
        BY <1>1
      <3>1. i = m \/ i < m
        BY <1>1
      <3>2. place[i] \in Nat /\ place[m] \in Nat /\ m \in 1..m
        BY <1>1, <1>3, <1>4
      <3> QED BY <1>1, <3>1, <3>2
    <2>2. place[m] \in Nat
      BY <1>1, <1>3, <1>4
    <2> QED BY <1>2, <1>4, <2>1, <2>2 DEF Joins
  <1>6. \A k \in Names(f) :
           BlockOf(g, k) = IF Joins(f, k, l) /\ l.key \in Keys
                             THEN [BlockOf(f, k) EXCEPT ![l.key] = l.value] ELSE BlockOf(f, k)
    <2>1. f \in Seq(Lines)
      BY <1>1
    <2> QED BY <2>1, BlockGrows, Zenon
  <1>7. ASSUME NEW i \in 1..m, i < m
        PROVE  BlockOf(g, place[i]) = BlockOf(f, place[i])
    <2>1. place[i] \in Names(f) /\ place[m] \in Names(f) /\ place[i] < place[m] /\ m \in 1..m
      BY <1>1, <1>3, <1>7
    <2>2. place[m] \in place[i] + 1 .. Len(f)
      BY <1>2, <1>4, <2>1
    <2>3. ~Joins(f, place[i], l)
      BY <2>1, <2>2 DEF Joins
    <2> QED BY <1>6, <2>1, <2>3
  <1>8. current' = BlockOf(g, place[m])
    <2>1. place[m] \in Names(f)
      BY <1>1, <1>3
    <2> QED BY <1>3, <1>5, <1>6, <2>1
  <1>9. EntriesFor(g, place)'
    <2>1. ASSUME NEW i \in DOMAIN entries
          PROVE  BlockOf(g, place[i]) = BlockOf(f, place[i])
      <3>1. i \in 1..m /\ i < m
        BY <1>1, <1>3, <2>1 DEF EntriesFor
      <3> QED BY <1>7, <3>1
    <2> QED BY <1>1, <1>3, <2>1 DEF EntriesFor
  <1>10. CalledByName(g) /\ Placed(g, place, m)
    BY <1>1, <1>4, NamesStay DEF Placed
  <1>11. CurrentFor(g, place, m)'
    BY <1>3, <1>8 DEF CurrentFor
  <1> QED BY <1>2, <1>3, <1>9, <1>10, <1>11 DEF ReadInv

LEMMA BlocksInit == Init => BlocksInv
  <1> SUFFICES ASSUME Init
               PROVE  \E f, place, m : f = file /\ ReadInv(f, place, m)
    BY DEF BlocksInv
  <1> DEFINE f == << >>
             place == [i \in 1..0 |-> 1]
  <1>1. f \in Seq(Lines) /\ Names(f) = {}
    BY DEF Names
  <1>2. Placed(f, place, 0)
    BY <1>1 DEF Placed
  <1>3. entries = << >> /\ outcome = "reading" /\ current = NoFields /\ file = f
    BY DEF Init
  <1>4. EntriesFor(f, place)
    BY <1>3 DEF EntriesFor
  <1>5. ReadInv(f, place, 0)
    BY <1>1, <1>2, <1>3, <1>4 DEF ReadInv, CurrentFor, CalledByName
  <1> QED BY <1>3, <1>5

LEMMA BlocksStep == BlocksInv /\ [Next]_vars => BlocksInv'
  <1> SUFFICES ASSUME BlocksInv, [Next]_vars, outcome' # "failed"
               PROVE  \E g, q, n : g = file' /\ ReadInv(g, q, n)'
    BY DEF BlocksInv
  <1>1. outcome # "failed"
    BY DEF Next, Read, EndOfFile, Run, Done, vars
  <1>2. PICK f, place, m : f = file /\ ReadInv(f, place, m)
    BY <1>1 DEF BlocksInv
  <1>3. ASSUME NEW l \in NextLines, Read(l)
        PROVE  \E g, q, n : g = file' /\ ReadInv(g, q, n)'
    <2>1. PICK g : g = Append(f, l)
      OBVIOUS
    <2>2. l \in Lines /\ outcome = "reading" /\ file' = g
      BY <1>2, <1>3, <2>1, LinesHold DEF Read
    <2>3. CASE l.key = "name"
      <3>1. NameLine(l.value)
        BY <1>3, <2>3 DEF Read, BadLine
      <3> QED BY <1>2, <2>1, <2>2, <2>3, <3>1, NameLineKeeps1
    <2>4. CASE l.key # "name"
      <3>1. FieldLine(l.key, l.value)
        BY <1>3, <2>4 DEF Read, BadLine
      <3>2. ReadInv(g, place, m)'
        BY <1>2, <2>1, <2>2, <2>4, <3>1, FieldLineKeeps
      <3> QED BY <2>2, <3>2
    <2> QED BY <2>3, <2>4
  <1>4. CASE EndOfFile
    <2>1. EntriesFor(f, place)' /\ Len(entries') = m /\ outcome' = "loaded" /\ file' = file
      BY <1>2, <1>4, FinishKeeps DEF EndOfFile
    <2>2. ReadInv(f, place, m)'
      BY <1>2, <2>1 DEF ReadInv
    <2> QED BY <1>2, <2>1, <2>2
  <1>5. ASSUME NEW c \in Invocations, Run(c.command, c.name)
        PROVE  \E g, q, n : g = file' /\ ReadInv(g, q, n)'
    <2>1. UNCHANGED <<file, current, entries>> /\ outcome = "loaded" /\ outcome' = "done"
      BY <1>5 DEF Run
    <2>2. ReadInv(f, place, m)'
      BY <1>2, <2>1 DEF ReadInv, EntriesFor
    <2> QED BY <1>2, <2>1, <2>2
  <1>6. CASE UNCHANGED vars
    <2>1. ReadInv(f, place, m)'
      BY <1>2, <1>6 DEF ReadInv, EntriesFor, CurrentFor, vars
    <2> QED BY <1>2, <1>6, <2>1 DEF vars
  <1> QED BY <1>3, <1>4, <1>5, <1>6 DEF Next, Done

\* The profiles are the blocks of the file, however long it is and whatever keys are
\* in it: none is left out, and no field is taken from another block.
THEOREM ProfilesAreBlocks == Spec => []EntriesAreBlocks
  <1>1. BlocksInv => EntriesAreBlocks
    <2> SUFFICES ASSUME BlocksInv, outcome = "loaded"
                 PROVE  EntriesAreBlocks
      BY DEF EntriesAreBlocks
    <2>1. PICK f, place, m : f = file /\ ReadInv(f, place, m)
      BY DEF BlocksInv
    <2>2. DOMAIN entries = 1..m /\ m \in Nat
      BY <2>1 DEF ReadInv, EntriesFor, Placed
    <2>3. /\ place \in [DOMAIN entries -> Names(file)]
          /\ \A i, j \in DOMAIN entries : i < j => place[i] < place[j]
          /\ \A k \in Names(file) : \E i \in DOMAIN entries : place[i] = k
          /\ \A i \in DOMAIN entries :
               Builds(BlockOf(file, place[i])) /\ entries[i] = Entry(BlockOf(file, place[i]))
      BY <2>1, <2>2 DEF ReadInv, EntriesFor, Placed
    <2> QED BY <2>3, Zenon DEF EntriesAreBlocks
  <1> QED BY <1>1, BlocksInit, BlocksStep, PTL DEF Spec

-----------------------------------------------------------------------------
(* Commands *)

\* What was handed over is of the first profile of a name.
ContactInv ==
  contacted # << >> =>
    /\ outcome = "done"
    /\ \E name : \E i \in DOMAIN entries :
         Named(i, name) /\ contacted \in {<<entries[i].endpoint>>, entries[i].endpoints}

LEMMA ContactStep == ContactInv /\ [Next]_vars => ContactInv'
  <1> SUFFICES ASSUME ContactInv, [Next]_vars, contacted' # << >>
               PROVE  /\ outcome' = "done"
                      /\ \E name : \E i \in DOMAIN entries' :
                           Named(i, name)'
                             /\ contacted' \in {<<entries'[i].endpoint>>, entries'[i].endpoints}
    BY DEF ContactInv
  <1>1. ASSUME NEW c \in Invocations, Run(c.command, c.name)
        PROVE  /\ outcome' = "done"
               /\ \E name : \E i \in DOMAIN entries' :
                    Named(i, name)'
                      /\ contacted' \in {<<entries'[i].endpoint>>, entries'[i].endpoints}
    <2>1. contacted = << >> /\ entries' = entries
      BY <1>1 DEF Run, ContactInv
    <2>2. PICK i \in DOMAIN entries :
            Named(i, c.name) /\ contacted' = Contacts(c.command, entries[i])
      BY <1>1, <2>1 DEF Run
    <2>3. outcome' = "done" /\ c.command # "list"
      BY <1>1, <2>1 DEF Run
    <2>4. c.command \in {"tools", "chat"}
      BY <2>3, ProfilesAssumption
    <2>5. contacted' \in {<<entries[i].endpoint>>, entries[i].endpoints}
      BY <2>2, <2>4 DEF Contacts
    <2>6. Named(i, c.name)'
      BY <2>1, <2>2 DEF Named
    <2> QED BY <2>1, <2>2, <2>3, <2>5, <2>6
  <1>2. ASSUME \/ \E l \in NextLines : Read(l)
               \/ EndOfFile
        PROVE  FALSE
    BY <1>2 DEF Read, EndOfFile, ContactInv
  <1>3. CASE UNCHANGED vars
    BY <1>3 DEF vars, ContactInv, Named
  <1> QED BY <1>1, <1>2, <1>3 DEF Next, Done

\* A command is about the first profile of the file that has the name.
THEOREM FirstProfileServes == Spec => []FirstOfName
  <1>1. BlocksInv /\ ContactInv => FirstOfName
    <2> SUFFICES ASSUME BlocksInv, ContactInv, outcome = "done", contacted # << >>
                 PROVE  \E k \in Names(file) :
                          /\ contacted \in {<<Entry(BlockOf(file, k)).endpoint>>,
                                            Entry(BlockOf(file, k)).endpoints}
                          /\ \A j \in Names(file) : file[j].value = file[k].value => k <= j
      BY DEF FirstOfName
    <2>1. PICK f, place, m : f = file /\ ReadInv(f, place, m)
      BY DEF BlocksInv
    <2>2. /\ m \in Nat /\ DOMAIN entries = 1..m /\ Len(entries) = m
          /\ f \in Seq(Lines) /\ CalledByName(f)
          /\ place \in [1..m -> Names(f)]
          /\ \A i, j \in 1..m : i < j => place[i] < place[j]
          /\ \A k \in Names(f) : \E i \in 1..m : place[i] = k
          /\ \A i \in 1..m : entries[i] = Entry(BlockOf(f, place[i]))
      <3>1. m \in Nat /\ entries \in Seq(Profile) /\ Len(entries) = m
        BY <2>1 DEF ReadInv, EntriesFor, Placed
      <3>2. DOMAIN entries = 1..m
        BY <3>1
      <3> QED BY <2>1, <3>1, <3>2 DEF ReadInv, EntriesFor, Placed
    <2>3. PICK name : \E i \in 1..m :
            Named(i, name) /\ contacted \in {<<entries[i].endpoint>>, entries[i].endpoints}
      BY <2>2 DEF ContactInv
    <2>4. PICK i \in 1..m :
            Named(i, name) /\ contacted \in {<<entries[i].endpoint>>, entries[i].endpoints}
      BY <2>3
    <2>5. ASSUME NEW n \in 1..m
          PROVE  entries[n].name = f[place[n]].value
      <3>1. entries[n] = Entry(BlockOf(f, place[n])) /\ place[n] \in Names(f)
        BY <2>2
      <3>2. entries[n].name = BlockOf(f, place[n])["name"]
        BY <3>1 DEF Entry
      <3> QED BY <2>2, <3>1, <3>2 DEF CalledByName
    <2>6. ASSUME NEW j \in Names(f), f[j].value = f[place[i]].value
          PROVE  place[i] <= j
      <3>1. PICK n \in 1..m : place[n] = j
        BY <2>2
      <3>2. entries[n].name = name
        BY <2>4, <2>5, <2>6, <3>1 DEF Named
      <3>3. ~(n < i)
        BY <2>2, <2>4, <3>2 DEF Named
      <3>4. n = i \/ i < n
        BY <2>2, <3>3
      <3>5. Names(f) \subseteq Nat
        BY <2>2 DEF Names
      <3> QED BY <2>2, <3>1, <3>4, <3>5
    <2> QED BY <2>1, <2>2, <2>4, <2>6
  <1>2. Init => ContactInv
    BY DEF Init, ContactInv
  <1> QED BY <1>1, <1>2, BlocksInit, BlocksStep, ContactStep, PTL DEF Spec

\* What an endpoint is equipped with is all that it has.
LEMMA EquippedCarries ==
  ASSUME NEW value, NEW header, NEW text, NEW seconds,
         NEW e, e = Equipped(value, header, text, seconds)
  PROVE  Carries(e, value, header, text, seconds)
  <1>1. \A t : Append(<< >>, t) = <<t>>
    OBVIOUS
  <1> DEFINE hs == IF header = None THEN << >> ELSE <<header>>
             bs == IF text = None THEN << >> ELSE <<text>>
             h == IF header = None THEN New(value) ELSE With(New(value), "headers", header)
             b == IF text = None THEN h ELSE With(h, "body", text)
  <1>2. h = [value |-> value, namespace |-> None, timeout |-> None, headers |-> hs, body |-> << >>]
    BY <1>1 DEF New, With
  <1> HIDE DEF h, hs
  <1>3. b = [value |-> value, namespace |-> None, timeout |-> None, headers |-> hs, body |-> bs]
    BY <1>1, <1>2 DEF With
  <1>4. e = IF seconds = None THEN b ELSE With(b, "timeout", seconds)
    BY DEF Equipped, h
  <1> HIDE DEF b, bs
  <1>5. e.value = value /\ e.timeout = seconds /\ e.headers = hs /\ e.body = bs
    BY <1>3, <1>4 DEF With
  <1> QED BY <1>5 DEF Carries, hs, bs

\* What a profile has was written in its block.
LEMMA FallbackCarries ==
  ASSUME NEW block, NEW e, e = Entry(block).endpoint
  PROVE  Carries(e, block["mcp"], block["mcp_headers"], block["mcp_body"], block["mcp_timeout"])
  <1>1. e = Equipped(block["mcp"], block["mcp_headers"], block["mcp_body"], block["mcp_timeout"])
    BY DEF Entry, Fallback
  <1> QED BY <1>1, EquippedCarries

LEMMA ItemsCarry ==
  ASSUME NEW items, NEW es, es = Listed(items)
  PROVE  /\ DOMAIN es = DOMAIN items
         /\ \A i \in DOMAIN items :
              Carries(es[i], items[i].host, items[i].headers, items[i].body, None)
  <1>1. DOMAIN es = DOMAIN items
    BY DEF Listed
  <1>2. ASSUME NEW i \in DOMAIN items
        PROVE  Carries(es[i], items[i].host, items[i].headers, items[i].body, None)
    <2>1. PICK item, e : item = items[i] /\ e = es[i]
      OBVIOUS
    <2>2. e = Equipped(item.host, item.headers, item.body, None)
      BY <2>1 DEF Listed
    <2>3. Carries(e, item.host, item.headers, item.body, None)
      BY <2>2, EquippedCarries
    <2> QED BY <2>1, <2>3
  <1> QED BY <1>1, <1>2

\* What is contacted is what one block of the file says, its fallback or its list.
WrittenIn(block, es) ==
  \/ /\ DOMAIN es = {1}
     /\ Carries(es[1], block["mcp"], block["mcp_headers"], block["mcp_body"],
                block["mcp_timeout"])
  \/ \E items \in {HostLists[list] : list \in {block["mcp_hosts"]} \ {None}} :
       /\ DOMAIN es = DOMAIN items
       /\ \A i \in DOMAIN items :
            Carries(es[i], items[i].host, items[i].headers, items[i].body, None)

LEMMA EntryWrittenIn ==
  ASSUME NEW block, NEW es, es \in {<<Entry(block).endpoint>>, Entry(block).endpoints}
  PROVE  WrittenIn(block, es)
  <1>1. ASSUME NEW e, e = Entry(block).endpoint, es = <<e>>
        PROVE  WrittenIn(block, es)
    <2>1. DOMAIN es = {1} /\ es[1] = e
      BY <1>1
    <2> QED BY <1>1, <2>1, FallbackCarries DEF WrittenIn
  <1>2. CASE es = Entry(block).endpoints
    <2>1. CASE block["mcp_hosts"] = None
      <3>1. es = <<Entry(block).endpoint>>
        BY <1>2, <2>1 DEF Entry, Endpoints
      <3> QED BY <1>1, <3>1
    <2>2. CASE block["mcp_hosts"] # None
      <3>1. PICK items : items = HostLists[block["mcp_hosts"]]
        OBVIOUS
      <3>2. es = Listed(items)
        BY <1>2, <2>2, <3>1 DEF Entry, Endpoints
      <3>3. items \in {HostLists[list] : list \in {block["mcp_hosts"]} \ {None}}
        BY <2>2, <3>1
      <3> QED BY <3>2, <3>3, ItemsCarry DEF WrittenIn
    <2> QED BY <2>1, <2>2
  <1> QED BY <1>1, <1>2

\* Whatever a command contacts has the settings that were written for it in one and
\* the same block of the file, and no others.
THEOREM SettingsAreNotShared == Spec => []SettingsStayWithHost
  <1>1. BlocksInv /\ ContactInv => SettingsStayWithHost
    <2> SUFFICES ASSUME BlocksInv, ContactInv, contacted # << >>
                 PROVE  \E k \in Names(file) : WrittenIn(BlockOf(file, k), contacted)
      BY DEF SettingsStayWithHost, WrittenIn
    <2>1. outcome = "done" /\ \E i \in DOMAIN entries :
            contacted \in {<<entries[i].endpoint>>, entries[i].endpoints}
      BY DEF ContactInv
    <2>2. PICK f, place, m : f = file /\ ReadInv(f, place, m)
      BY <2>1 DEF BlocksInv
    <2>3. PICK i \in DOMAIN entries :
            contacted \in {<<entries[i].endpoint>>, entries[i].endpoints}
      BY <2>1
    <2>4. /\ m \in Nat /\ entries \in Seq(Profile) /\ Len(entries) = m
          /\ place \in [1..m -> Names(f)]
      BY <2>1, <2>2 DEF ReadInv, EntriesFor, Placed
    <2>5. place[i] \in Names(f) /\ entries[i] = Entry(BlockOf(f, place[i]))
      <3>1. i \in 1..m
        BY <2>4
      <3> QED BY <2>2, <2>4, <3>1 DEF ReadInv, EntriesFor
    <2>6. PICK block : block = BlockOf(f, place[i])
      OBVIOUS
    <2>7. contacted \in {<<Entry(block).endpoint>>, Entry(block).endpoints}
      BY <2>3, <2>5, <2>6
    <2>8. WrittenIn(block, contacted)
      BY <2>7, EntryWrittenIn
    <2> QED BY <2>2, <2>5, <2>6, <2>8
  <1>2. Init => ContactInv
    BY DEF Init, ContactInv
  <1> QED BY <1>1, <1>2, BlocksInit, BlocksStep, ContactStep, PTL DEF Spec

-----------------------------------------------------------------------------
(* Recursion along a sequence *)

LEMMA NatOrder == IsWellFoundedOn({p \in Nat \X Nat : p[1] < p[2]}, Nat)
  BY NatLessThanWellFounded, Zenon DEF OpToRel

\* What begins a range and goes from each of its numbers to the next is all of it.
LEMMA RangeInduction ==
  ASSUME NEW N \in Nat, NEW T, 0 \in T, \A n \in 1..N : n - 1 \in T => n \in T
  PROVE  0..N \subseteq T
  <1> DEFINE Left == {n \in 0..N : n \notin T}
  <1>1. SUFFICES ASSUME Left # {} PROVE FALSE
    OBVIOUS
  <1>2. PICK m \in Left : \A k \in Left : ~(<<k, m>> \in {p \in Nat \X Nat : p[1] < p[2]})
    <2>1. Left \subseteq Nat
      OBVIOUS
    <2> HIDE DEF Left
    <2> QED BY <1>1, <2>1, WFMin, NatOrder
  <1>3. ASSUME NEW k \in Left, k < m PROVE FALSE
    <2>1. <<k, m>> \in Nat \X Nat /\ <<k, m>>[1] < <<k, m>>[2]
      BY <1>3
    <2> QED BY <1>2, <2>1
  <1>4. m \in 1..N /\ m \notin T
    OBVIOUS
  <1>5. m - 1 \in T
    <2>1. m - 1 \in 0..N /\ m - 1 < m
      BY <1>4
    <2> QED BY <1>3, <2>1
  <1> QED BY <1>4, <1>5

IsChain(f, N, x, step) == f[0] = x /\ \A n \in 1..N : f[n] = step[n][f[n - 1]]

\* Steps in a set, one for each number of a range, can be taken one after another.
LEMMA ChainExists ==
  ASSUME NEW N \in Nat, NEW X, NEW x \in X, NEW step \in [1..N -> [X -> X]]
  PROVE  \E f \in [0..N -> X] : IsChain(f, N, x, step)
  <1> DEFINE Reached == {m \in 0..N : \E f \in [0..m -> X] :
                           f[0] = x /\ \A n \in 1..m : f[n] = step[n][f[n - 1]]}
  <1>1. 0 \in Reached
    <2> DEFINE g == [i \in 0..0 |-> x]
    <2>1. g \in [0..0 -> X] /\ g[0] = x /\ \A n \in 1..0 : g[n] = step[n][g[n - 1]]
      OBVIOUS
    <2> HIDE DEF g
    <2> QED BY <2>1
  <1>2. ASSUME NEW m \in 1..N, m - 1 \in Reached
        PROVE  m \in Reached
    <2>1. PICK f \in [0..(m - 1) -> X] :
            f[0] = x /\ \A n \in 1..(m - 1) : f[n] = step[n][f[n - 1]]
      BY <1>2
    <2>2. f[m - 1] \in X /\ step[m] \in [X -> X]
      OBVIOUS
    <2> DEFINE g == [n \in 0..m |-> IF n = m THEN step[m][f[m - 1]] ELSE f[n]]
    <2>3. g \in [0..m -> X]
      BY <2>2
    <2>4. g[0] = x /\ \A n \in 1..m : g[n] = step[n][g[n - 1]]
      BY <2>1
    <2> HIDE DEF g
    <2>5. \E h \in [0..m -> X] : h[0] = x /\ \A n \in 1..m : h[n] = step[n][h[n - 1]]
      BY <2>3, <2>4
    <2>6. m \in 0..N
      OBVIOUS
    <2> QED BY <2>5, <2>6, Zenon
  <1>3. 0..N \subseteq Reached
    <2> HIDE DEF Reached
    <2> QED BY <1>1, <1>2, RangeInduction
  <1> QED BY <1>3 DEF IsChain

-----------------------------------------------------------------------------
(* Reading a block of the hosts file *)

\* The strings; the provers do not know that None is one.
Said == STRING \cup {None}

Configs ==
  [value : Said, namespace : Said, timeout : Said, headers : Seq(Said), body : Seq(Said)]

LEMMA NewConfig ==
  ASSUME NEW v \in Said
  PROVE  New(v) \in Configs
  <1>1. << >> \in Seq(Said) /\ None \in Said
    BY EmptySeq DEF Said
  <1> QED BY <1>1 DEF New, Configs

\* A setting changes its own field of an endpoint.
LEMMA WithConfig ==
  ASSUME NEW e \in Configs, NEW text \in Said
  PROVE  /\ With(e, "headers", text) = [e EXCEPT !.headers = Append(@, text)]
         /\ With(e, "body", text) = [e EXCEPT !.body = Append(@, text)]
         /\ \A setting \in {"headers", "body"} :
              With(e, setting, text) \in Configs /\ With(e, setting, text).value = e.value
  <1>1. Append(e.headers, text) \in Seq(Said) /\ Append(e.body, text) \in Seq(Said)
    BY AppendProperties DEF Configs
  <1>2. /\ With(e, "headers", text) = [e EXCEPT !.headers = Append(@, text)]
        /\ With(e, "body", text) = [e EXCEPT !.body = Append(@, text)]
    BY DEF With
  <1>3. ASSUME NEW texts \in Seq(Said)
        PROVE  /\ [e EXCEPT !.headers = texts] \in Configs /\ [e EXCEPT !.headers = texts].value = e.value
               /\ [e EXCEPT !.body = texts] \in Configs /\ [e EXCEPT !.body = texts].value = e.value
    BY DEF Configs
  <1>4. With(e, "headers", text) \in Configs /\ With(e, "headers", text).value = e.value
    <2>1. PICK texts \in Seq(Said) : texts = Append(e.headers, text)
      BY <1>1
    <2>2. [e EXCEPT !.headers = texts] \in Configs /\ [e EXCEPT !.headers = texts].value = e.value
      BY <1>3
    <2>3. With(e, "headers", text) = [e EXCEPT !.headers = texts]
      BY <1>2, <2>1
    <2> QED BY <2>2, <2>3
  <1>5. With(e, "body", text) \in Configs /\ With(e, "body", text).value = e.value
    <2>1. PICK texts \in Seq(Said) : texts = Append(e.body, text)
      BY <1>1
    <2>2. [e EXCEPT !.body = texts] \in Configs /\ [e EXCEPT !.body = texts].value = e.value
      BY <1>3
    <2>3. With(e, "body", text) = [e EXCEPT !.body = texts]
      BY <1>2, <2>1
    <2> QED BY <2>2, <2>3
  <1> QED BY <1>2, <1>4, <1>5

HostLine == [key : STRING, value : STRING]
Progress == [current : Said, endpoint : Configs, outcome : {"reading", "done", "failed"}]

\* What a line makes of the progress, case by case.
LEMMA LineSkipped ==
  ASSUME NEW s \in Progress, NEW wanted, NEW l \in HostLine,
         \/ s.outcome # "reading"
         \/ l.key # "name" /\ s.current # wanted
         \/ l.key \notin {"name", "host", "mcp", "headers", "body"}
  PROVE  ReadLine(s, wanted, l) = s
  BY DEF ReadLine

LEMMA LineEnds ==
  ASSUME NEW s \in Progress, NEW l \in HostLine, s.outcome = "reading", l.key = "name"
  PROVE  ReadLine(s, s.current, l) = [s EXCEPT !.outcome = "done"]
  BY DEF ReadLine, BlockLine

LEMMA LineBegins ==
  ASSUME NEW s \in Progress, NEW wanted, NEW l \in HostLine,
         s.outcome = "reading", l.key = "name", s.current # wanted
  PROVE  ReadLine(s, wanted, l)
           = [current |-> l.value, endpoint |-> Nothing, outcome |-> "reading"]
  BY DEF ReadLine, BlockLine, Progress

LEMMA LineHosts ==
  ASSUME NEW s \in Progress, NEW l \in HostLine,
         s.outcome = "reading", l.key \in {"host", "mcp"}
  PROVE  ReadLine(s, s.current, l) = [s EXCEPT !.endpoint = New(l.value)]
  BY DEF ReadLine

LEMMA LineSets ==
  ASSUME NEW s \in Progress, NEW l \in HostLine,
         s.outcome = "reading", l.key \in {"headers", "body"}
  PROVE  /\ s.endpoint = Nothing => ReadLine(s, s.current, l) = s
         /\ s.endpoint # Nothing /\ Fits(l.key, l.value) =>
              ReadLine(s, s.current, l)
                = [s EXCEPT !.endpoint = With(s.endpoint, l.key, l.value)]
         /\ s.endpoint # Nothing /\ ~Fits(l.key, l.value) =>
              ReadLine(s, s.current, l) = [s EXCEPT !.outcome = "failed"]
  <1>1. ReadLine(s, s.current, l) = SettingLine(s, l.key, l.value)
    BY DEF ReadLine
  <1> QED BY <1>1 DEF SettingLine, Progress

LEMMA ReadLineType ==
  ASSUME NEW s \in Progress, NEW wanted, NEW l \in HostLine
  PROVE  ReadLine(s, wanted, l) \in Progress
  <1>1. l.value \in Said /\ None \in Said
    BY DEF HostLine, Said
  <1>2. New(l.value) \in Configs /\ Nothing \in Configs
    BY <1>1, NewConfig DEF Nothing
  <1>3. l.key \in {"headers", "body"} => With(s.endpoint, l.key, l.value) \in Configs
    BY <1>1, WithConfig DEF Progress
  <1>4. CASE ReadLine(s, wanted, l) = s
    BY <1>4
  <1>5. CASE s.outcome = "reading" /\ l.key = "name" /\ s.current = wanted
    <2>1. ReadLine(s, wanted, l) = [s EXCEPT !.outcome = "done"]
      BY <1>5, LineEnds
    <2> QED BY <2>1 DEF Progress
  <1>6. CASE s.outcome = "reading" /\ l.key = "name" /\ s.current # wanted
    <2>1. ReadLine(s, wanted, l)
            = [current |-> l.value, endpoint |-> Nothing, outcome |-> "reading"]
      BY <1>6, LineBegins
    <2> QED BY <1>1, <1>2, <2>1 DEF Progress
  <1>7. CASE s.outcome = "reading" /\ l.key \in {"host", "mcp"} /\ s.current = wanted
    <2>1. ReadLine(s, wanted, l) = [s EXCEPT !.endpoint = New(l.value)]
      BY <1>7, LineHosts
    <2> QED BY <1>2, <2>1 DEF Progress
  <1>8. CASE s.outcome = "reading" /\ l.key \in {"headers", "body"} /\ s.current = wanted
    <2>1. \/ ReadLine(s, s.current, l) = s
          \/ ReadLine(s, s.current, l) = [s EXCEPT !.endpoint = With(s.endpoint, l.key, l.value)]
          \/ ReadLine(s, s.current, l) = [s EXCEPT !.outcome = "failed"]
      BY <1>8, LineSets, Zenon
    <2> QED BY <1>3, <1>8, <2>1 DEF Progress
  <1> QED BY <1>4, <1>5, <1>6, <1>7, <1>8, LineSkipped

\* Reading is defined, line by line.
LEMMA ReadingSteps ==
  ASSUME NEW lines \in Seq(HostLine), NEW wanted
  PROVE  /\ Reading(lines, wanted)[0] = Start
         /\ \A n \in 1..Len(lines) :
              Reading(lines, wanted)[n] = ReadLine(Reading(lines, wanted)[n - 1], wanted, lines[n])
         /\ \A n \in 0..Len(lines) : Reading(lines, wanted)[n] \in Progress
  <1> DEFINE N == Len(lines)
             step == [n \in 1..N |-> [s \in Progress |-> ReadLine(s, wanted, lines[n])]]
             IsReading(s) == s = [n \in 0..N |-> IF n = 0 THEN Start
                                                 ELSE ReadLine(s[n - 1], wanted, lines[n])]
             r == Reading(lines, wanted)
             Typed == {n \in 0..N : r[n] \in Progress}
  <1>1. N \in Nat /\ \A n \in 1..N : lines[n] \in HostLine
    OBVIOUS
  <1>2. Start \in Progress
    <2>1. None \in Said
      BY DEF Said
    <2> QED BY <2>1, NewConfig DEF Start, Progress, Nothing
  <1>3. step \in [1..N -> [Progress -> Progress]]
    BY <1>1, ReadLineType
  <1>4. PICK f \in [0..N -> Progress] : IsChain(f, N, Start, step)
    <2> HIDE DEF N, step
    <2> QED BY <1>1, <1>2, <1>3, ChainExists
  <1>5. IsReading(f)
    <2>1. \A n \in 1..N : f[n] = ReadLine(f[n - 1], wanted, lines[n])
      <3>1. \A n \in 1..N : n - 1 \in 0..N
        BY <1>1
      <3>2. \A n \in 1..N : \A x \in Progress : step[n][x] = ReadLine(x, wanted, lines[n])
        OBVIOUS
      <3> HIDE DEF N, step
      <3> QED BY <1>4, <3>1, <3>2 DEF IsChain
    <2> HIDE DEF N
    <2>2. \A n \in 0..N : n = 0 \/ n \in 1..N
      BY <1>1
    <2> QED BY <1>4, <2>1, <2>2 DEF IsChain
  <1>6. IsReading(r)
    <2>1. r = CHOOSE s : IsReading(s)
      BY DEF Reading
    <2> HIDE DEF IsReading, r
    <2> QED BY <1>5, <2>1
  <1>7. r[0] = Start /\ \A n \in 1..N : r[n] = ReadLine(r[n - 1], wanted, lines[n])
    BY <1>1, <1>6
  <1>8. 0..N \subseteq Typed
    <2> HIDE DEF N, r
    <2>1. 0 \in Typed
      BY <1>1, <1>2, <1>7
    <2>2. ASSUME NEW n \in 1..N, n - 1 \in Typed
          PROVE  n \in Typed
      <3>1. r[n] = ReadLine(r[n - 1], wanted, lines[n]) /\ r[n - 1] \in Progress
        BY <1>7, <2>2
      <3>2. r[n] \in Progress
        BY <1>1, <3>1, ReadLineType
      <3> QED BY <1>1, <3>2
    <2> HIDE DEF Typed, N
    <2> QED BY <1>1, <2>1, <2>2, RangeInduction
  <1> QED BY <1>7, <1>8

-----------------------------------------------------------------------------
(* Texts that follow one another *)

LEMMA FollowedNone ==
  ASSUME NEW texts \in Seq(Said), NEW said
  PROVE  Followed(texts, texts, {}, said)
  <1>1. (Len(texts) + 1)..Len(texts) = {}
    BY LenProperties
  <1> DEFINE at == [i \in {} |-> i]
  <1>2. at \in [{} -> {}]
    OBVIOUS
  <1> HIDE DEF at
  <1>3. Followed(texts, texts, {}, said) <=>
          \E f \in [{} -> {}] :
            /\ \A i, j \in {} : i < j => f[i] < f[j]
            /\ \A n \in {} : \E i \in {} : f[i] = n
            /\ \A i \in {} : texts[i] = said[f[i]]
    BY <1>1, Zenon DEF Followed
  <1> QED BY <1>2, <1>3

\* The place that is added is behind the others.
LEMMA FollowedGrows ==
  ASSUME NEW texts \in Seq(Said), NEW before \in Seq(Said), NEW said,
         NEW places \in SUBSET Nat, Followed(texts, before, places, said),
         NEW last \in Nat, \A p \in places : p < last, NEW text \in Said, text = said[last]
  PROVE  Followed(Append(texts, text), before, places \cup {last}, said)
  <1> DEFINE m == Len(before)
             n == Len(texts)
  <1>1. PICK at \in [(m + 1)..n -> places] :
          /\ \A i, j \in (m + 1)..n : i < j => at[i] < at[j]
          /\ \A p \in places : \E i \in (m + 1)..n : at[i] = p
          /\ \A i \in (m + 1)..n : texts[i] = said[at[i]]
    BY DEF Followed
  <1>2. /\ m \in Nat /\ n \in Nat /\ DOMAIN before = 1..m /\ DOMAIN texts = 1..n
        /\ \A i \in 1..m : i \in 1..n /\ texts[i] = before[i]
    BY LenProperties DEF Followed
  <1>3. m <= n
    <2>1. CASE m = 0
      BY <1>2, <2>1
    <2>2. CASE m # 0
      BY <1>2, <2>2
    <2> QED BY <2>1, <2>2
  <1> DEFINE more == Append(texts, text)
             new == [i \in (m + 1)..(n + 1) |-> IF i = n + 1 THEN last ELSE at[i]]
  <1>4. /\ more \in Seq(Said) /\ Len(more) = n + 1
        /\ \A i \in 1..n : more[i] = texts[i]
        /\ more[n + 1] = text
    BY AppendProperties
  <1>5. DOMAIN more = 1..(n + 1)
    BY <1>4, LenProperties
  <1> HIDE DEF m, n, more
  <1>6. /\ new \in [(m + 1)..(n + 1) -> places \cup {last}]
        /\ new[n + 1] = last
        /\ \A i \in (m + 1)..n : i \in (m + 1)..(n + 1) /\ new[i] = at[i] /\ at[i] \in places
        /\ n + 1 \in (m + 1)..(n + 1)
        /\ \A i \in (m + 1)..(n + 1) : i \in (m + 1)..n \/ i = n + 1
    BY <1>1, <1>2, <1>3
  <1> HIDE DEF new
  <1>7. ASSUME NEW i \in (m + 1)..(n + 1), NEW j \in (m + 1)..(n + 1), i < j
        PROVE  new[i] < new[j]
    <2>1. i \in (m + 1)..n
      BY <1>2, <1>7
    <2>2. CASE j = n + 1
      BY <1>6, <2>1, <2>2
    <2>3. CASE j \in (m + 1)..n
      BY <1>1, <1>6, <1>7, <2>1, <2>3
    <2> QED BY <1>6, <2>2, <2>3
  <1>8. ASSUME NEW p \in places \cup {last}
        PROVE  \E i \in (m + 1)..(n + 1) : new[i] = p
    <2>1. CASE p \in places
      <3>1. PICK i \in (m + 1)..n : at[i] = p
        BY <1>1, <2>1
      <3> QED BY <1>6, <3>1
    <2> QED BY <1>6, <2>1
  <1>9. ASSUME NEW i \in (m + 1)..(n + 1)
        PROVE  more[i] = said[new[i]]
    <2>1. CASE i = n + 1
      BY <1>4, <1>6, <2>1
    <2>2. CASE i \in (m + 1)..n
      BY <1>1, <1>2, <1>4, <1>6, <2>2
    <2> QED BY <1>6, <2>1, <2>2
  <1>10. \A i \in DOMAIN before : i \in DOMAIN more /\ more[i] = before[i]
    BY <1>2, <1>3, <1>4, <1>5
  <1>11. /\ \A i, j \in (m + 1)..Len(more) : i < j => new[i] < new[j]
         /\ \A p \in places \cup {last} : \E i \in (m + 1)..Len(more) : new[i] = p
         /\ \A i \in (m + 1)..Len(more) : more[i] = said[new[i]]
         /\ new \in [(m + 1)..Len(more) -> places \cup {last}]
    BY <1>4, <1>6, <1>7, <1>8, <1>9
  <1>12. Followed(more, before, places \cup {last}, said)
    BY <1>10, <1>11, Zenon DEF Followed, m
  <1> QED BY <1>12 DEF more

-----------------------------------------------------------------------------
(* What a block of the hosts file comes to *)

TextOf(f) == [m \in DOMAIN f |-> f[m].value]

LEMMA LinesWithout ==
  ASSUME NEW f, NEW block, NEW n, NEW keys, f[n].key \notin keys
  PROVE  LinesWith(f, block \cup {n}, keys) = LinesWith(f, block, keys)
  BY DEF LinesWith

LEMMA SettingLines ==
  ASSUME NEW f, NEW block, NEW n, f[n].key \notin {"host", "mcp"}
  PROVE  /\ LinesWith(f, block \cup {n}, {"host", "mcp"}) = LinesWith(f, block, {"host", "mcp"})
         /\ LinesWith(f, block \cup {n}, {"headers"})
              = IF f[n].key = "headers" THEN LinesWith(f, block, {"headers"}) \cup {n}
                ELSE LinesWith(f, block, {"headers"})
         /\ LinesWith(f, block \cup {n}, {"body"})
              = IF f[n].key = "body" THEN LinesWith(f, block, {"body"}) \cup {n}
                ELSE LinesWith(f, block, {"body"})
  <1>1. ASSUME NEW key
        PROVE  LinesWith(f, block \cup {n}, {key})
                 = IF f[n].key = key THEN LinesWith(f, block, {key}) \cup {n}
                   ELSE LinesWith(f, block, {key})
    BY DEF LinesWith
  <1>2. LinesWith(f, block \cup {n}, {"host", "mcp"}) = LinesWith(f, block, {"host", "mcp"})
    BY LinesWithout
  <1> QED BY <1>1, <1>2

\* GivenBy, with the line of its host.
GivenAt(e, f, block, h) ==
  /\ h \in block /\ f[h].key \in {"host", "mcp"}
  /\ e.value = f[h].value /\ e.timeout = None
  /\ LinesWith(f, {m \in block : m > h}, {"host", "mcp"}) = {}
  /\ Followed(e.headers, << >>, LinesWith(f, {m \in block : m > h}, {"headers"}), TextOf(f))
  /\ Followed(e.body, << >>, LinesWith(f, {m \in block : m > h}, {"body"}), TextOf(f))

LEMMA GivenByAt ==
  ASSUME NEW e, NEW f, NEW block
  PROVE  GivenBy(e, f, block) <=> \E h \in block : GivenAt(e, f, block, h)
  <1>1. \A h : h \in LinesWith(f, block, {"host", "mcp"}) <=>
                 h \in block /\ f[h].key \in {"host", "mcp"}
    BY DEF LinesWith
  <1> QED BY <1>1, Zenon DEF GivenBy, GivenAt, TextOf

\* Line n comes behind the block.
LEMMA BehindBlock ==
  ASSUME NEW f \in Seq(HostLine), NEW n \in 1..Len(f), NEW block \in SUBSET (1..(n - 1))
  PROVE  /\ n \in Nat /\ f[n] \in HostLine /\ n \in DOMAIN f
         /\ \A m \in block : m \in Nat /\ m < n
  <1>1. Len(f) \in Nat /\ DOMAIN f = 1..Len(f)
    BY LenProperties
  <1> QED BY <1>1

LEMMA HostGiven ==
  ASSUME NEW f \in Seq(HostLine), NEW n \in 1..Len(f), NEW block \in SUBSET (1..(n - 1)),
         f[n].key \in {"host", "mcp"}
  PROVE  GivenBy(New(f[n].value), f, block \cup {n})
  <1>1. {m \in block \cup {n} : m > n} = {}
    <2>1. n \in Nat /\ \A m \in block : m \in Nat /\ m < n
      BY BehindBlock
    <2>2. \A m \in block \cup {n} : ~(m > n)
      BY <2>1
    <2> QED BY <2>2, Zenon
  <1>2. \A keys : LinesWith(f, {}, keys) = {}
    BY DEF LinesWith
  <1>3. << >> \in Seq(Said)
    BY EmptySeq
  <1>4. Followed(<< >>, << >>, {}, TextOf(f))
    BY <1>3, FollowedNone
  <1>5. /\ New(f[n].value).value = f[n].value /\ New(f[n].value).timeout = None
        /\ New(f[n].value).headers = << >> /\ New(f[n].value).body = << >>
    BY DEF New
  <1>6. GivenAt(New(f[n].value), f, block \cup {n}, n)
    BY <1>1, <1>2, <1>4, <1>5 DEF GivenAt
  <1> QED BY <1>6, GivenByAt

LEMMA OtherGiven ==
  ASSUME NEW f \in Seq(HostLine), NEW n \in 1..Len(f), NEW block \in SUBSET (1..(n - 1)),
         NEW e \in Configs, GivenBy(e, f, block),
         f[n].key \notin {"host", "mcp", "headers", "body"}
  PROVE  GivenBy(e, f, block \cup {n})
  <1>1. PICK h \in block : GivenAt(e, f, block, h)
    BY GivenByAt
  <1> DEFINE behind == {m \in block : m > h}
  <1>2. {m \in block \cup {n} : m > h} = behind \cup {n}
    BY BehindBlock
  <1>3. /\ LinesWith(f, behind \cup {n}, {"host", "mcp"}) = LinesWith(f, behind, {"host", "mcp"})
        /\ LinesWith(f, behind \cup {n}, {"headers"}) = LinesWith(f, behind, {"headers"})
        /\ LinesWith(f, behind \cup {n}, {"body"}) = LinesWith(f, behind, {"body"})
    <2> HIDE DEF behind
    <2>1. f[n].key \notin {"host", "mcp"} /\ f[n].key \notin {"headers"} /\ f[n].key \notin {"body"}
      OBVIOUS
    <2> QED BY <2>1, LinesWithout, Zenon
  <1>4. GivenAt(e, f, block \cup {n}, h)
    BY <1>1, <1>2, <1>3 DEF GivenAt
  <1> QED BY <1>4, GivenByAt

LEMMA SettingGiven ==
  ASSUME NEW f \in Seq(HostLine), NEW n \in 1..Len(f), NEW block \in SUBSET (1..(n - 1)),
         NEW e \in Configs, GivenBy(e, f, block), f[n].key \in {"headers", "body"}
  PROVE  GivenBy(With(e, f[n].key, f[n].value), f, block \cup {n})
  <1>1. PICK h \in block : GivenAt(e, f, block, h)
    BY GivenByAt
  <1> DEFINE behind == {m \in block : m > h}
             w == With(e, f[n].key, f[n].value)
             text == f[n].value
             said == TextOf(f)
  <1>2. {m \in block \cup {n} : m > h} = behind \cup {n}
    BY BehindBlock
  <1>3. /\ LinesWith(f, behind \cup {n}, {"host", "mcp"}) = LinesWith(f, behind, {"host", "mcp"})
        /\ LinesWith(f, behind \cup {n}, {"headers"})
             = IF f[n].key = "headers" THEN LinesWith(f, behind, {"headers"}) \cup {n}
               ELSE LinesWith(f, behind, {"headers"})
        /\ LinesWith(f, behind \cup {n}, {"body"})
             = IF f[n].key = "body" THEN LinesWith(f, behind, {"body"}) \cup {n}
               ELSE LinesWith(f, behind, {"body"})
    <2> HIDE DEF behind
    <2>1. f[n].key \notin {"host", "mcp"}
      OBVIOUS
    <2> QED BY <2>1, SettingLines
  <1>4. text \in Said /\ n \in Nat /\ text = said[n]
    BY BehindBlock DEF HostLine, Said, TextOf
  <1>5. \A keys : LinesWith(f, behind, keys) \in SUBSET Nat
                  /\ \A p \in LinesWith(f, behind, keys) : p < n
    BY BehindBlock DEF LinesWith
  <1>6. << >> \in Seq(Said) /\ e.headers \in Seq(Said) /\ e.body \in Seq(Said)
    BY EmptySeq DEF Configs
  <1>7. /\ f[n].key = "headers" => w = [e EXCEPT !.headers = Append(@, text)]
        /\ f[n].key = "body" => w = [e EXCEPT !.body = Append(@, text)]
    <2> HIDE DEF text
    <2>1. /\ With(e, "headers", text) = [e EXCEPT !.headers = Append(@, text)]
          /\ With(e, "body", text) = [e EXCEPT !.body = Append(@, text)]
      BY <1>4, WithConfig, Zenon
    <2>2. w = With(e, f[n].key, text)
      BY DEF text
    <2> HIDE DEF w
    <2> QED BY <2>1, <2>2
  <1>8. /\ w.value = e.value /\ w.timeout = e.timeout
        /\ w.headers = IF f[n].key = "headers" THEN Append(e.headers, text) ELSE e.headers
        /\ w.body = IF f[n].key = "body" THEN Append(e.body, text) ELSE e.body
    BY <1>7 DEF Configs
  <1> HIDE DEF behind, w, text, said
  <1>9. Followed(w.headers, << >>, LinesWith(f, behind \cup {n}, {"headers"}), said)
    <2>1. Followed(e.headers, << >>, LinesWith(f, behind, {"headers"}), said)
      BY <1>1 DEF GivenAt, behind, said
    <2>2. Followed(Append(e.headers, text), << >>, LinesWith(f, behind, {"headers"}) \cup {n}, said)
      BY <1>4, <1>5, <1>6, <2>1, FollowedGrows
    <2> QED BY <1>3, <1>8, <2>1, <2>2
  <1>10. Followed(w.body, << >>, LinesWith(f, behind \cup {n}, {"body"}), said)
    <2>1. Followed(e.body, << >>, LinesWith(f, behind, {"body"}), said)
      BY <1>1 DEF GivenAt, behind, said
    <2>2. Followed(Append(e.body, text), << >>, LinesWith(f, behind, {"body"}) \cup {n}, said)
      BY <1>4, <1>5, <1>6, <2>1, FollowedGrows
    <2> QED BY <1>3, <1>8, <2>1, <2>2
  <1>11. GivenAt(w, f, block \cup {n}, h)
    BY <1>1, <1>2, <1>3, <1>8, <1>9, <1>10 DEF GivenAt, behind, said
  <1> QED BY <1>11, GivenByAt DEF w

\* Line n belongs to the block of a name or begins it.
Inside(f, name, n) ==
  \E k \in NameLines(f) : Begins(f, name, k) /\ k <= n /\ \A i \in NameLines(f) : i > k => n < i

LEMMA BeginsOnce ==
  ASSUME NEW f \in Seq(HostLine), NEW name, NEW j, NEW k, Begins(f, name, j), Begins(f, name, k)
  PROVE  j = k /\ k \in Nat /\ k \in 1..Len(f)
  <1>1. j \in 1..Len(f) /\ k \in 1..Len(f) /\ j <= k /\ k <= j
    BY LenProperties DEF Begins, NameLines
  <1> QED BY <1>1

\* A name line ends the block for good.
LEMMA InsideEnds ==
  ASSUME NEW f \in Seq(HostLine), NEW name, NEW n \in 1..Len(f), f[n].key = "name",
         Inside(f, name, n - 1), NEW m \in n..Len(f)
  PROVE  ~Inside(f, name, m)
  <1>1. PICK k \in NameLines(f) : Begins(f, name, k) /\ k <= n - 1
    BY DEF Inside
  <1>2. n \in NameLines(f) /\ n \in Nat /\ m \in Nat /\ n <= m
    BY LenProperties DEF NameLines
  <1>3. ASSUME NEW j \in NameLines(f), Begins(f, name, j), \A i \in NameLines(f) : i > j => m < i
        PROVE  FALSE
    <2>1. j = k /\ k \in Nat
      BY <1>1, <1>3, BeginsOnce
    <2> QED BY <1>1, <1>2, <1>3, <2>1
  <1> QED BY <1>3 DEF Inside

\* A name line is inside only if it begins the block.
LEMMA InsideBegins ==
  ASSUME NEW f \in Seq(HostLine), NEW name, NEW n \in 1..Len(f), f[n].key = "name"
  PROVE  /\ Inside(f, name, n) => f[n].value = name
         /\ n \notin Block(f, name)
         /\ f[n].value = name /\ (\A k \in 1..(n - 1) : ~(f[k].key = "name" /\ f[k].value = name))
              => Inside(f, name, n)
  <1>1. n \in NameLines(f) /\ n \in Nat /\ NameLines(f) \subseteq 1..Len(f) /\ Len(f) \in Nat
    BY LenProperties DEF NameLines
  <1>2. Inside(f, name, n) => f[n].value = name
    <2>1. ASSUME NEW k \in NameLines(f), Begins(f, name, k), k <= n,
                 \A i \in NameLines(f) : i > k => n < i
          PROVE  f[n].value = name
      <3>1. k = n
        BY <1>1, <2>1
      <3> QED BY <2>1, <3>1 DEF Begins
    <2> QED BY <2>1 DEF Inside
  <1>3. n \notin Block(f, name)
    BY <1>1 DEF Block
  <1>4. ASSUME f[n].value = name, \A k \in 1..(n - 1) : ~(f[k].key = "name" /\ f[k].value = name)
        PROVE  Inside(f, name, n)
    <2>1. Begins(f, name, n)
      <3>1. ASSUME NEW i \in NameLines(f), f[i].value = name PROVE n <= i
        BY <1>1, <1>4, <3>1 DEF NameLines
      <3> QED BY <1>1, <1>4, <3>1 DEF Begins
    <2> QED BY <1>1, <2>1 DEF Inside
  <1> QED BY <1>2, <1>3, <1>4

\* Any other line is where the line before is.
LEMMA InsideStays ==
  ASSUME NEW f \in Seq(HostLine), NEW name, NEW n \in 1..Len(f), f[n].key # "name"
  PROVE  /\ Inside(f, name, n) <=> Inside(f, name, n - 1)
         /\ n \in Block(f, name) <=> Inside(f, name, n - 1)
  <1>1. /\ n \notin NameLines(f) /\ n \in Nat /\ n \in DOMAIN f
        /\ NameLines(f) \subseteq 1..Len(f) /\ Len(f) \in Nat
    BY LenProperties DEF NameLines
  <1>2. \A k \in NameLines(f) : (k <= n <=> k <= n - 1) /\ (k < n <=> k <= n)
    BY <1>1
  <1>3. \A i \in NameLines(f) : n < i <=> n - 1 < i
    BY <1>1
  <1> QED BY <1>1, <1>2, <1>3 DEF Inside, Block

BlockUpTo(f, name, n) == {m \in Block(f, name) : m <= n}

LEMMA BlockUpToGrows ==
  ASSUME NEW f \in Seq(HostLine), NEW name, NEW n \in 1..Len(f)
  PROVE  /\ n \in Block(f, name) => BlockUpTo(f, name, n) = BlockUpTo(f, name, n - 1) \cup {n}
         /\ n \notin Block(f, name) => BlockUpTo(f, name, n) = BlockUpTo(f, name, n - 1)
         /\ BlockUpTo(f, name, n - 1) \in SUBSET (1..(n - 1))
  <1>1. n \in Nat /\ Block(f, name) \subseteq 1..Len(f) /\ Len(f) \in Nat
    BY LenProperties DEF Block
  <1>2. \A m \in Block(f, name) : m \in Nat /\ m >= 1 /\ (m <= n <=> m <= n - 1 \/ m = n)
    BY <1>1
  <1> QED BY <1>1, <1>2 DEF BlockUpTo

\* Before its first name line a name has no block.
LEMMA NoBlockYet ==
  ASSUME NEW f \in Seq(HostLine), NEW name, NEW n \in 0..Len(f),
         \A k \in 1..n : ~(f[k].key = "name" /\ f[k].value = name)
  PROVE  BlockUpTo(f, name, n) = {} /\ ~Inside(f, name, n)
  <1>1. Len(f) \in Nat /\ DOMAIN f = 1..Len(f) /\ n \in Nat
    BY LenProperties
  <1>2. ASSUME NEW k \in NameLines(f), Begins(f, name, k), k <= n
        PROVE  FALSE
    BY <1>1, <1>2 DEF NameLines, Begins
  <1>3. ~Inside(f, name, n)
    BY <1>2 DEF Inside
  <1>4. ASSUME NEW m \in BlockUpTo(f, name, n)
        PROVE  FALSE
    <2>1. PICK k \in NameLines(f) : Begins(f, name, k) /\ k < m
      BY DEF BlockUpTo, Block
    <2>2. k <= n
      BY <1>1, <2>1 DEF BlockUpTo, Block, NameLines
    <2> QED BY <1>2, <2>1, <2>2
  <1> QED BY <1>3, <1>4

\* A line of these cannot be loaded.
Wrong(f, block) ==
  \E n \in LinesWith(f, block, {"headers", "body"}) : ~Fits(f[n].key, f[n].value)

\* What progress s, once line n is read, says of the block of a name.
ReadSoFar(f, name, n, s) ==
  LET block == BlockUpTo(f, name, n)
  IN  /\ s.outcome = "reading" =>
           \/ Inside(f, name, n)
           \/ s.current # name /\ \A k \in 1..n : ~(f[k].key = "name" /\ f[k].value = name)
      /\ Inside(f, name, n) /\ s.outcome # "failed" => s.outcome = "reading" /\ s.current = name
      /\ s.outcome = "done" => \A m \in n..Len(f) : ~Inside(f, name, m)
      /\ s.outcome = "failed" => Wrong(f, block)
      /\ s.outcome # "failed" /\ s.endpoint = Nothing => LinesWith(f, block, {"host", "mcp"}) = {}
      /\ s.outcome # "failed" /\ s.endpoint # Nothing => GivenBy(s.endpoint, f, block)

\* What is known of a line and the progress before it.
LEMMA LineFacts ==
  ASSUME NEW f \in Seq(HostLine), NEW name, NEW n \in 1..Len(f), NEW s \in Progress
  PROVE  /\ Len(f) \in Nat /\ n \in Nat /\ n - 1 \in 0..Len(f) /\ n \in 0..Len(f)
         /\ f[n] \in HostLine /\ f[n].value \in Said
         /\ s.endpoint \in Configs /\ s.outcome \in {"reading", "done", "failed"}
         /\ \A k \in 1..n : k \in 1..(n - 1) \/ k = n
         /\ \A m \in n..Len(f) : m \in (n - 1)..Len(f)
  <1>1. Len(f) \in Nat /\ DOMAIN f = 1..Len(f)
    BY LenProperties
  <1>2. f[n] \in HostLine
    BY <1>1
  <1>3. f[n].value \in Said
    BY <1>2 DEF HostLine, Said
  <1>4. s.endpoint \in Configs /\ s.outcome \in {"reading", "done", "failed"}
    BY DEF Progress
  <1> QED BY <1>1, <1>2, <1>3, <1>4

\* Once it is clear what the name has, nothing changes.
LEMMA ReadOver ==
  ASSUME NEW f \in Seq(HostLine), NEW name, NEW n \in 1..Len(f), NEW s \in Progress,
         s.outcome # "reading", ReadSoFar(f, name, n - 1, s)
  PROVE  ReadSoFar(f, name, n, s)
  <1>1. CASE s.outcome = "done"
    <2>1. \A m \in (n - 1)..Len(f) : ~Inside(f, name, m)
      BY <1>1 DEF ReadSoFar
    <2>2. n \notin Block(f, name)
      <3>1. ~Inside(f, name, n - 1)
        BY <2>1, LineFacts
      <3>2. CASE f[n].key = "name"
        BY <3>2, InsideBegins
      <3>3. CASE f[n].key # "name"
        BY <3>1, <3>3, InsideStays
      <3> QED BY <3>2, <3>3
    <2>3. BlockUpTo(f, name, n) = BlockUpTo(f, name, n - 1)
      BY <2>2, BlockUpToGrows
    <2>4. \A m \in n..Len(f) : ~Inside(f, name, m)
      BY <2>1, LineFacts
    <2>5. ~Inside(f, name, n)
      BY <2>4, LineFacts
    <2> QED BY <1>1, <2>3, <2>4, <2>5 DEF ReadSoFar
  <1>2. CASE s.outcome = "failed"
    <2>1. Wrong(f, BlockUpTo(f, name, n - 1))
      BY <1>2 DEF ReadSoFar
    <2>2. BlockUpTo(f, name, n - 1) \subseteq BlockUpTo(f, name, n)
      BY BlockUpToGrows
    <2>3. Wrong(f, BlockUpTo(f, name, n))
      BY <2>1, <2>2 DEF Wrong, LinesWith
    <2> QED BY <1>2, <2>3 DEF ReadSoFar
  <1> QED BY <1>1, <1>2 DEF Progress

LEMMA ReadName ==
  ASSUME NEW f \in Seq(HostLine), NEW name, NEW n \in 1..Len(f), NEW s \in Progress,
         s.outcome = "reading", ReadSoFar(f, name, n - 1, s), f[n].key = "name"
  PROVE  ReadSoFar(f, name, n, ReadLine(s, name, f[n]))
  <1> DEFINE t == ReadLine(s, name, f[n])
  <1>1. BlockUpTo(f, name, n) = BlockUpTo(f, name, n - 1)
    <2>1. n \notin Block(f, name)
      BY InsideBegins
    <2> QED BY <2>1, BlockUpToGrows
  <1>2. f[n] \in HostLine
    BY LineFacts
  <1>3. CASE s.current = name
    <2>1. t = [s EXCEPT !.outcome = "done"]
      BY <1>2, <1>3, LineEnds
    <2>2. t.outcome = "done" /\ t.endpoint = s.endpoint
      BY <2>1 DEF Progress
    <2> HIDE DEF t
    <2>3. Inside(f, name, n - 1)
      BY <1>3 DEF ReadSoFar
    <2>4. \A m \in n..Len(f) : ~Inside(f, name, m)
      BY <2>3, InsideEnds
    <2>5. ~Inside(f, name, n)
      BY <2>4, LineFacts
    <2>6. ReadSoFar(f, name, n, t)
      BY <1>1, <2>2, <2>4, <2>5 DEF ReadSoFar
    <2> QED BY <2>6 DEF t
  <1>4. CASE s.current # name
    <2>1. t = [current |-> f[n].value, endpoint |-> Nothing, outcome |-> "reading"]
      BY <1>2, <1>4, LineBegins
    <2>2. t.current = f[n].value /\ t.endpoint = Nothing /\ t.outcome = "reading"
      BY <2>1
    <2> HIDE DEF t
    <2>3. \A k \in 1..(n - 1) : ~(f[k].key = "name" /\ f[k].value = name)
      BY <1>4 DEF ReadSoFar
    <2>4. BlockUpTo(f, name, n - 1) = {}
      BY <2>3, LineFacts, NoBlockYet
    <2>5. LinesWith(f, {}, {"host", "mcp"}) = {}
      BY DEF LinesWith
    <2>6. CASE f[n].value = name
      <3>1. Inside(f, name, n)
        BY <2>3, <2>6, InsideBegins
      <3>2. ReadSoFar(f, name, n, t)
        BY <1>1, <2>2, <2>4, <2>5, <2>6, <3>1 DEF ReadSoFar
      <3> QED BY <3>2 DEF t
    <2>7. CASE f[n].value # name
      <3>1. \A k \in 1..n : ~(f[k].key = "name" /\ f[k].value = name)
        BY <2>3, <2>7, LineFacts
      <3>2. ~Inside(f, name, n)
        BY <2>7, InsideBegins
      <3>3. ReadSoFar(f, name, n, t)
        BY <1>1, <2>2, <2>4, <2>5, <2>7, <3>1, <3>2 DEF ReadSoFar
      <3> QED BY <3>3 DEF t
    <2> QED BY <2>6, <2>7
  <1> QED BY <1>3, <1>4

LEMMA ReadElsewhere ==
  ASSUME NEW f \in Seq(HostLine), NEW name, NEW n \in 1..Len(f), NEW s \in Progress,
         s.outcome = "reading", ReadSoFar(f, name, n - 1, s), f[n].key # "name", s.current # name
  PROVE  ReadSoFar(f, name, n, ReadLine(s, name, f[n]))
  <1>1. ReadLine(s, name, f[n]) = s
    BY LineFacts, LineSkipped
  <1>2. \A k \in 1..(n - 1) : ~(f[k].key = "name" /\ f[k].value = name)
    BY DEF ReadSoFar
  <1>3. \A k \in 1..n : ~(f[k].key = "name" /\ f[k].value = name)
    BY <1>2, LineFacts
  <1>4. /\ BlockUpTo(f, name, n) = {} /\ ~Inside(f, name, n)
        /\ BlockUpTo(f, name, n - 1) = {}
    BY <1>2, <1>3, LineFacts, NoBlockYet
  <1>5. ReadSoFar(f, name, n, s)
    BY <1>3, <1>4 DEF ReadSoFar
  <1> QED BY <1>1, <1>5

LEMMA ReadInside ==
  ASSUME NEW f \in Seq(HostLine), NEW name, NEW n \in 1..Len(f), NEW s \in Progress,
         \A k \in 1..Len(f) : f[k].value # None,
         s.outcome = "reading", ReadSoFar(f, name, n - 1, s), f[n].key # "name", s.current = name
  PROVE  ReadSoFar(f, name, n, ReadLine(s, name, f[n]))
  <1> DEFINE t == ReadLine(s, name, f[n])
             block == BlockUpTo(f, name, n - 1)
             more == BlockUpTo(f, name, n)
  <1>1. Inside(f, name, n - 1)
    BY DEF ReadSoFar
  <1>2. n \in Block(f, name) /\ Inside(f, name, n)
    BY <1>1, InsideStays
  <1>3. more = block \cup {n} /\ block \in SUBSET (1..(n - 1))
    BY <1>2, BlockUpToGrows
  <1>4. /\ s.endpoint = Nothing => LinesWith(f, block, {"host", "mcp"}) = {}
        /\ s.endpoint # Nothing => GivenBy(s.endpoint, f, block)
    BY DEF ReadSoFar
  <1>5. f[n] \in HostLine /\ s.endpoint \in Configs /\ f[n].value \in Said
    BY LineFacts
  <1> HIDE DEF block, more
  <1>6. CASE f[n].key \in {"host", "mcp"}
    <2>1. t = [s EXCEPT !.endpoint = New(f[n].value)]
      BY <1>5, <1>6, LineHosts
    <2>2. t.current = name /\ t.outcome = "reading" /\ t.endpoint = New(f[n].value)
      BY <2>1 DEF Progress
    <2>3. New(f[n].value) # Nothing
      BY LineFacts DEF New, Nothing
    <2>4. GivenBy(New(f[n].value), f, more)
      BY <1>3, <1>6, HostGiven
    <2> HIDE DEF t
    <2>5. ReadSoFar(f, name, n, t)
      BY <1>2, <2>2, <2>3, <2>4 DEF ReadSoFar, more
    <2> QED BY <2>5 DEF t
  <1>7. CASE f[n].key \in {"headers", "body"}
    <2>1. CASE s.endpoint = Nothing
      <3>1. t = s
        BY <1>5, <1>7, <2>1, LineSets
      <3>2. f[n].key \notin {"host", "mcp"}
        BY <1>7
      <3>3. LinesWith(f, block \cup {n}, {"host", "mcp"}) = LinesWith(f, block, {"host", "mcp"})
        BY <3>2, LinesWithout, Zenon
      <3>4. ReadSoFar(f, name, n, s)
        BY <1>2, <1>3, <1>4, <2>1, <3>3 DEF ReadSoFar, more
      <3> QED BY <3>1, <3>4
    <2>2. CASE s.endpoint # Nothing /\ Fits(f[n].key, f[n].value)
      <3>1. t = [s EXCEPT !.endpoint = With(s.endpoint, f[n].key, f[n].value)]
        BY <1>5, <1>7, <2>2, LineSets
      <3> DEFINE w == With(s.endpoint, f[n].key, f[n].value)
      <3>2. t.current = name /\ t.outcome = "reading" /\ t.endpoint = w
        BY <3>1 DEF Progress
      <3>3. GivenBy(w, f, more)
        BY <1>3, <1>4, <1>5, <1>7, <2>2, SettingGiven
      <3>4. w # Nothing
        <4>1. w.value = s.endpoint.value
          BY <1>5, <1>7, WithConfig
        <4>2. PICK h \in block : GivenAt(s.endpoint, f, block, h)
          BY <1>4, <2>2, GivenByAt
        <4>3. s.endpoint.value = f[h].value /\ h \in 1..(n - 1)
          BY <1>3, <4>2 DEF GivenAt
        <4>4. f[h].value # None
          BY <4>3, LineFacts
        <4> QED BY <4>1, <4>3, <4>4 DEF Nothing, New
      <3> HIDE DEF t, w
      <3>5. ReadSoFar(f, name, n, t)
        BY <1>2, <3>2, <3>3, <3>4 DEF ReadSoFar, more
      <3> QED BY <3>5 DEF t
    <2>3. CASE s.endpoint # Nothing /\ ~Fits(f[n].key, f[n].value)
      <3>1. t = [s EXCEPT !.outcome = "failed"]
        BY <1>5, <1>7, <2>3, LineSets
      <3>2. t.current = name /\ t.outcome = "failed"
        BY <3>1 DEF Progress
      <3>3. Wrong(f, more)
        BY <1>3, <1>7, <2>3 DEF Wrong, LinesWith
      <3> HIDE DEF t
      <3>4. ReadSoFar(f, name, n, t)
        BY <1>2, <3>2, <3>3 DEF ReadSoFar, more
      <3> QED BY <3>4 DEF t
    <2> QED BY <2>1, <2>2, <2>3
  <1>8. CASE f[n].key \notin {"name", "host", "mcp", "headers", "body"}
    <2>1. t = s
      BY <1>5, <1>8, LineSkipped
    <2>2. s.endpoint = Nothing => LinesWith(f, more, {"host", "mcp"}) = {}
      <3>1. f[n].key \notin {"host", "mcp"}
        BY <1>8
      <3>2. LinesWith(f, block \cup {n}, {"host", "mcp"}) = LinesWith(f, block, {"host", "mcp"})
        BY <3>1, LinesWithout, Zenon
      <3> QED BY <1>3, <1>4, <3>2
    <2>3. s.endpoint # Nothing => GivenBy(s.endpoint, f, more)
      BY <1>3, <1>4, <1>5, <1>8, OtherGiven
    <2>4. ReadSoFar(f, name, n, s)
      BY <1>2, <2>2, <2>3 DEF ReadSoFar, more
    <2> QED BY <2>1, <2>4
  <1> QED BY <1>6, <1>7, <1>8

LEMMA ReadingTells ==
  ASSUME NEW f \in Seq(HostLine), \A k \in 1..Len(f) : f[k].value # None,
         NEW name, name # None
  PROVE  \A n \in 0..Len(f) : ReadSoFar(f, name, n, Reading(f, name)[n])
  <1> DEFINE r == Reading(f, name)
             Told == {n \in 0..Len(f) : ReadSoFar(f, name, n, r[n])}
  <1>1. /\ r[0] = Start /\ \A n \in 1..Len(f) : r[n] = ReadLine(r[n - 1], name, f[n])
        /\ \A n \in 0..Len(f) : r[n] \in Progress
    BY ReadingSteps
  <1>2. Len(f) \in Nat
    BY LenProperties
  <1> HIDE DEF r
  <1>3. 0 \in Told
    <2>0. \A k \in 1..0 : ~(f[k].key = "name" /\ f[k].value = name)
      OBVIOUS
    <2>1. BlockUpTo(f, name, 0) = {} /\ ~Inside(f, name, 0)
      BY <1>2, <2>0, NoBlockYet
    <2>2. LinesWith(f, {}, {"host", "mcp"}) = {}
      BY DEF LinesWith
    <2>3. /\ Start.outcome = "reading" /\ Start.current # name /\ Start.endpoint = Nothing
      BY DEF Start
    <2>4. ReadSoFar(f, name, 0, Start)
      BY <2>0, <2>1, <2>2, <2>3 DEF ReadSoFar
    <2> QED BY <1>1, <1>2, <2>4
  <1>4. ASSUME NEW n \in 1..Len(f), n - 1 \in Told
        PROVE  n \in Told
    <2>1. PICK s \in Progress : s = r[n - 1] /\ ReadSoFar(f, name, n - 1, s)
      <3>1. n - 1 \in 0..Len(f) /\ ReadSoFar(f, name, n - 1, r[n - 1])
        BY <1>4
      <3> QED BY <1>1, <3>1
    <2>2. f[n] \in HostLine
      BY <2>1, LineFacts
    <2>3. ReadSoFar(f, name, n, ReadLine(s, name, f[n]))
      <3>1. CASE s.outcome # "reading"
        <4>1. ReadLine(s, name, f[n]) = s
          BY <2>2, <3>1, LineSkipped
        <4>2. ReadSoFar(f, name, n, s)
          BY <2>1, <3>1, ReadOver
        <4> QED BY <4>1, <4>2
      <3>2. CASE s.outcome = "reading" /\ f[n].key = "name"
        BY <2>1, <3>2, ReadName
      <3>3. CASE s.outcome = "reading" /\ f[n].key # "name" /\ s.current # name
        BY <2>1, <3>3, ReadElsewhere
      <3>4. CASE s.outcome = "reading" /\ f[n].key # "name" /\ s.current = name
        BY <2>1, <3>4, ReadInside
      <3> QED BY <3>1, <3>2, <3>3, <3>4
    <2>4. r[n] = ReadLine(s, name, f[n])
      BY <1>1, <2>1
    <2> QED BY <1>2, <2>3, <2>4
  <1> HIDE DEF Told
  <1>5. 0..Len(f) \subseteq Told
    BY <1>2, <1>3, <1>4, RangeInduction
  <1> QED BY <1>5 DEF Told, r

\* Loading a name finds what its block says, and fails only over a line of it.
LEMMA LoadFacts ==
  ASSUME NEW f \in Seq(HostLine), \A k \in 1..Len(f) : f[k].value # None,
         NEW name, name # None
  PROVE  /\ Load(f, name).endpoint \in Configs
         /\ ~Load(f, name).failed /\ Load(f, name).endpoint # Nothing
              => GivenBy(Load(f, name).endpoint, f, Block(f, name))
         /\ Load(f, name).failed => Wrong(f, Block(f, name))
  <1> DEFINE n == Len(f)
             s == Reading(f, name)[n]
  <1>1. n \in Nat /\ n \in 0..n /\ DOMAIN f = 1..n
    BY LenProperties
  <1>2. s \in Progress
    BY <1>1, ReadingSteps
  <1>3. ReadSoFar(f, name, n, s)
    BY <1>1, ReadingTells
  <1>4. BlockUpTo(f, name, n) = Block(f, name)
    BY <1>1 DEF BlockUpTo, Block
  <1>5. /\ Load(f, name).endpoint = IF s.current = name THEN s.endpoint ELSE Nothing
        /\ Load(f, name).failed <=> s.outcome = "failed"
    BY DEF Load
  <1>6. s.endpoint \in Configs /\ Nothing \in Configs
    <2>1. None \in Said
      BY DEF Said
    <2> QED BY <1>2, <2>1, NewConfig DEF Progress, Nothing
  <1> HIDE DEF s, n
  <1>7. CASE s.outcome = "failed"
    BY <1>3, <1>4, <1>5, <1>6, <1>7 DEF ReadSoFar
  <1>8. CASE s.outcome # "failed"
    BY <1>3, <1>4, <1>5, <1>6, <1>8 DEF ReadSoFar
  <1> QED BY <1>7, <1>8

-----------------------------------------------------------------------------
(* What is typed behind /add-host *)

Setting == [flag : {"-headers", "-body"}, text : Said]

LEMMA EquippingSteps ==
  ASSUME NEW e \in Configs, NEW pairs \in Seq(Setting)
  PROVE  /\ Equipping(e, pairs)[0] = e
         /\ \A n \in 1..Len(pairs) :
              Equipping(e, pairs)[n]
                = With(Equipping(e, pairs)[n - 1], SettingOf[pairs[n].flag], pairs[n].text)
         /\ \A n \in 0..Len(pairs) : Equipping(e, pairs)[n] \in Configs
  <1> DEFINE N == Len(pairs)
             Next1(x, n) == With(x, SettingOf[pairs[n].flag], pairs[n].text)
             step == [n \in 1..N |-> [x \in Configs |-> Next1(x, n)]]
             IsEquipping(x) == x = [n \in 0..N |-> IF n = 0 THEN e ELSE Next1(x[n - 1], n)]
             r == Equipping(e, pairs)
             Typed == {n \in 0..N : r[n] \in Configs}
  <1>1. N \in Nat /\ \A n \in 1..N : pairs[n] \in Setting
    BY LenProperties
  <1>2. ASSUME NEW n \in 1..N, NEW x \in Configs
        PROVE  Next1(x, n) \in Configs
    <2>1. SettingOf[pairs[n].flag] \in {"headers", "body"} /\ pairs[n].text \in Said
      BY <1>1 DEF Setting, SettingOf
    <2> QED BY <2>1, WithConfig
  <1> HIDE DEF Next1, N
  <1>3. step \in [1..N -> [Configs -> Configs]]
    BY <1>2
  <1>4. PICK f \in [0..N -> Configs] : IsChain(f, N, e, step)
    <2> HIDE DEF step
    <2> QED BY <1>1, <1>3, ChainExists
  <1>5. IsEquipping(f)
    <2>1. \A n \in 1..N : f[n] = Next1(f[n - 1], n)
      <3>1. \A n \in 1..N : n - 1 \in 0..N
        BY <1>1
      <3>2. \A n \in 1..N : \A x \in Configs : step[n][x] = Next1(x, n)
        OBVIOUS
      <3> HIDE DEF step
      <3> QED BY <1>4, <3>1, <3>2 DEF IsChain
    <2>2. \A n \in 0..N : n = 0 \/ n \in 1..N
      BY <1>1
    <2> QED BY <1>4, <2>1, <2>2 DEF IsChain
  <1>6. IsEquipping(r)
    <2>1. r = CHOOSE x : IsEquipping(x)
      BY DEF Equipping, Next1, N
    <2> HIDE DEF IsEquipping, r
    <2> QED BY <1>5, <2>1
  <1>7. r[0] = e /\ \A n \in 1..N : r[n] = Next1(r[n - 1], n)
    BY <1>1, <1>6
  <1>8. 0..N \subseteq Typed
    <2> HIDE DEF r
    <2>1. 0 \in Typed
      BY <1>1, <1>7
    <2>2. ASSUME NEW n \in 1..N, n - 1 \in Typed
          PROVE  n \in Typed
      BY <1>1, <1>2, <1>7, <2>2
    <2> HIDE DEF Typed
    <2> QED BY <1>1, <2>1, <2>2, RangeInduction
  <1> QED BY <1>7, <1>8 DEF Next1, N

UpTo(places, n) == {k \in places : k <= n}

LEMMA UpToEnds ==
  ASSUME NEW N \in Nat, NEW P \in SUBSET (1..N)
  PROVE  UpTo(P, 0) = {} /\ UpTo(P, N) = P
  <1>1. \A k \in P : k \in 1..N
    OBVIOUS
  <1>2. \A k \in 1..N : ~(k <= 0) /\ k <= N
    OBVIOUS
  <1>3. \A k \in P : ~(k <= 0)
    BY <1>1, <1>2
  <1>4. \A k \in P : k <= N
    BY <1>1, <1>2
  <1>5. UpTo(P, 0) = {}
    BY <1>3, Zenon DEF UpTo
  <1>6. UpTo(P, N) = P
    BY <1>4, Zenon DEF UpTo
  <1> QED BY <1>5, <1>6

LEMMA UpToGrows ==
  ASSUME NEW N \in Nat, NEW P \in SUBSET (1..N), NEW n \in 1..N
  PROVE  /\ n \in P => UpTo(P, n) = UpTo(P, n - 1) \cup {n}
         /\ n \notin P => UpTo(P, n) = UpTo(P, n - 1)
         /\ UpTo(P, n - 1) \in SUBSET Nat
         /\ \A k \in UpTo(P, n - 1) : k < n
  <1>1. \A k \in P : k \in 1..N
    OBVIOUS
  <1>2. \A k \in 1..N : k \in Nat /\ (k <= n <=> k <= n - 1 \/ k = n) /\ (k <= n - 1 => k < n)
    OBVIOUS
  <1>3. \A k \in P : k \in Nat /\ (k <= n <=> k <= n - 1 \/ k = n) /\ (k <= n - 1 => k < n)
    BY <1>1, <1>2
  <1>4. ASSUME n \in P
        PROVE  UpTo(P, n) = UpTo(P, n - 1) \cup {n}
    BY <1>3, <1>4, Zenon DEF UpTo
  <1>5. ASSUME n \notin P
        PROVE  UpTo(P, n) = UpTo(P, n - 1)
    <2>1. \A k \in P : k # n
      BY <1>5
    <2>2. \A k \in P : k <= n <=> k <= n - 1
      BY <1>3, <2>1
    <2> QED BY <2>2, Zenon DEF UpTo
  <1>6. UpTo(P, n - 1) \in SUBSET Nat
    BY <1>3, Zenon DEF UpTo
  <1>7. \A k \in UpTo(P, n - 1) : k < n
    BY <1>3, Zenon DEF UpTo
  <1> QED BY <1>4, <1>5, <1>6, <1>7

\* Each kind of setting goes to its own field, behind what is there.
LEMMA EquipFollowed ==
  ASSUME NEW e \in Configs, NEW pairs \in Seq(Setting)
  PROVE  /\ Equip(e, pairs) \in Configs
         /\ Followed(Equip(e, pairs).headers, e.headers, TypedWith("-headers", pairs), TypedTexts(pairs))
         /\ Followed(Equip(e, pairs).body, e.body, TypedWith("-body", pairs), TypedTexts(pairs))
  <1> DEFINE N == Len(pairs)
             r == Equipping(e, pairs)
             H == TypedWith("-headers", pairs)
             B == TypedWith("-body", pairs)
             said == TypedTexts(pairs)
             Good == {n \in 0..N : /\ Followed(r[n].headers, e.headers, UpTo(H, n), said)
                                   /\ Followed(r[n].body, e.body, UpTo(B, n), said)}
  <1>1. /\ N \in Nat /\ DOMAIN pairs = 1..N
        /\ \A n \in 1..N : pairs[n] \in Setting /\ pairs[n].text \in Said
                           /\ pairs[n].flag \in {"-headers", "-body"}
    <2>1. N \in Nat /\ DOMAIN pairs = 1..N /\ \A n \in 1..N : pairs[n] \in Setting
      BY LenProperties
    <2> HIDE DEF N
    <2> QED BY <2>1 DEF Setting
  <1>2. /\ r[0] = e
        /\ \A n \in 1..N : r[n] = With(r[n - 1], SettingOf[pairs[n].flag], pairs[n].text)
        /\ \A n \in 0..N : r[n] \in Configs
    BY EquippingSteps
  <1>3. H \subseteq 1..N /\ B \subseteq 1..N
    BY <1>1 DEF TypedWith
  <1>4. \A n \in 1..N : /\ n \in H <=> pairs[n].flag = "-headers"
                        /\ n \in B <=> pairs[n].flag = "-body"
                        /\ said[n] = pairs[n].text
    BY <1>1 DEF TypedWith, TypedTexts
  <1> HIDE DEF r, H, B, said, N
  <1>5. 0 \in Good
    <2>1. UpTo(H, 0) = {} /\ UpTo(B, 0) = {}
      BY <1>1, <1>3, UpToEnds
    <2>2. e.headers \in Seq(Said) /\ e.body \in Seq(Said)
      BY DEF Configs
    <2>3. /\ Followed(e.headers, e.headers, UpTo(H, 0), said)
          /\ Followed(e.body, e.body, UpTo(B, 0), said)
      BY <2>1, <2>2, FollowedNone
    <2> QED BY <1>1, <1>2, <2>3
  <1>6. ASSUME NEW n \in 1..N, n - 1 \in Good
        PROVE  n \in Good
    <2>1. PICK x \in Configs : x = r[n - 1]
      BY <1>1, <1>2
    <2>2. /\ Followed(x.headers, e.headers, UpTo(H, n - 1), said)
          /\ Followed(x.body, e.body, UpTo(B, n - 1), said)
      BY <1>6, <2>1
    <2>3. PICK text \in Said : text = pairs[n].text /\ text = said[n]
      BY <1>1, <1>4
    <2>4. /\ n \in Nat /\ x.headers \in Seq(Said) /\ x.body \in Seq(Said)
          /\ e.headers \in Seq(Said) /\ e.body \in Seq(Said)
      BY <1>1 DEF Configs
    <2>5. /\ n \in H => UpTo(H, n) = UpTo(H, n - 1) \cup {n}
          /\ n \notin H => UpTo(H, n) = UpTo(H, n - 1)
          /\ UpTo(H, n - 1) \in SUBSET Nat
          /\ \A k \in UpTo(H, n - 1) : k < n
      BY <1>1, <1>3, UpToGrows
    <2>6. /\ n \in B => UpTo(B, n) = UpTo(B, n - 1) \cup {n}
          /\ n \notin B => UpTo(B, n) = UpTo(B, n - 1)
          /\ UpTo(B, n - 1) \in SUBSET Nat
          /\ \A k \in UpTo(B, n - 1) : k < n
      BY <1>1, <1>3, UpToGrows
    <2>7. CASE pairs[n].flag = "-headers"
      <3>1. r[n] = [x EXCEPT !.headers = Append(@, text)]
        <4>1. r[n] = With(x, "headers", text)
          BY <1>2, <2>1, <2>3, <2>7 DEF SettingOf
        <4> QED BY <4>1, WithConfig
      <3>2. r[n].headers = Append(x.headers, text) /\ r[n].body = x.body
        BY <3>1 DEF Configs
      <3>3. UpTo(H, n) = UpTo(H, n - 1) \cup {n} /\ UpTo(B, n) = UpTo(B, n - 1)
        <4>1. n \in H /\ n \notin B
          BY <1>4, <2>7
        <4> QED BY <2>5, <2>6, <4>1
      <3>4. Followed(Append(x.headers, text), e.headers, UpTo(H, n - 1) \cup {n}, said)
        BY <2>2, <2>3, <2>4, <2>5, <2>6, FollowedGrows
      <3>5. /\ Followed(r[n].headers, e.headers, UpTo(H, n), said)
            /\ Followed(r[n].body, e.body, UpTo(B, n), said)
        BY <2>2, <3>2, <3>3, <3>4
      <3> QED BY <1>1, <3>5
    <2>8. CASE pairs[n].flag = "-body"
      <3>1. r[n] = [x EXCEPT !.body = Append(@, text)]
        <4>1. r[n] = With(x, "body", text)
          BY <1>2, <2>1, <2>3, <2>8 DEF SettingOf
        <4> QED BY <4>1, WithConfig
      <3>2. r[n].body = Append(x.body, text) /\ r[n].headers = x.headers
        BY <3>1 DEF Configs
      <3>3. UpTo(B, n) = UpTo(B, n - 1) \cup {n} /\ UpTo(H, n) = UpTo(H, n - 1)
        <4>1. n \in B /\ n \notin H
          BY <1>4, <2>8
        <4> QED BY <2>5, <2>6, <4>1
      <3>4. Followed(Append(x.body, text), e.body, UpTo(B, n - 1) \cup {n}, said)
        BY <2>2, <2>3, <2>4, <2>5, <2>6, FollowedGrows
      <3>5. /\ Followed(r[n].headers, e.headers, UpTo(H, n), said)
            /\ Followed(r[n].body, e.body, UpTo(B, n), said)
        BY <2>2, <3>2, <3>3, <3>4
      <3> QED BY <1>1, <3>5
    <2> QED BY <1>1, <2>7, <2>8
  <1>7. N \in Good
    <2> HIDE DEF Good
    <2>1. 0..N \subseteq Good
      BY <1>1, <1>5, <1>6, RangeInduction
    <2> QED BY <1>1, <2>1
  <1>8. UpTo(H, N) = H /\ UpTo(B, N) = B
    BY <1>1, <1>3, UpToEnds
  <1>9. Equip(e, pairs) = r[N]
    BY DEF Equip, r, N
  <1>10. r[N] \in Configs
    BY <1>1, <1>2
  <1> QED BY <1>7, <1>8, <1>9, <1>10 DEF H, B, said

\* A sequence of one item.
LEMMA OneItem ==
  ASSUME NEW S, NEW a \in S
  PROVE  <<a>> \in Seq(S) /\ Len(<<a>>) = 1 /\ DOMAIN <<a>> = {1} /\ <<a>>[1] = a /\ <<a>> # << >>
  OBVIOUS

\* w is a sequence with one item and more behind it.
Longer(w, words, flag, more) ==
  /\ Len(words) \in Nat /\ Len(more) \in Nat /\ Len(w) = Len(words) + 1 + Len(more)
  /\ \A i \in 1..Len(words) : w[i] = words[i]
  /\ w[Len(words) + 1] = flag
  /\ \A i \in 1..Len(more) : w[Len(words) + 1 + i] = more[i]

LEMMA LongerWith ==
  ASSUME NEW S, NEW s \in Seq(S), NEW a \in S, NEW t \in Seq(S)
  PROVE  s \o <<a>> \o t \in Seq(S) /\ Longer(s \o <<a>> \o t, s, a, t)
  <1>1. PICK one \in Seq(S) : one = <<a>> /\ Len(one) = 1 /\ one[1] = a
    BY OneItem
  <1>2. PICK u \in Seq(S) : u = s \o one /\ Len(u) = Len(s) + 1
    <2>1. s \o one \in Seq(S) /\ Len(s \o one) = Len(s) + 1
      BY <1>1
    <2> QED BY <2>1
  <1>3. /\ \A i \in 1..Len(s) : u[i] = s[i]
        /\ u[Len(s) + 1] = a
    BY <1>1, <1>2
  <1>4. PICK w \in Seq(S) : w = u \o t /\ Len(w) = Len(u) + Len(t)
    <2>1. u \o t \in Seq(S) /\ Len(u \o t) = Len(u) + Len(t)
      OBVIOUS
    <2> QED BY <2>1
  <1>5. Len(s) \in Nat /\ Len(t) \in Nat /\ Len(w) = Len(s) + 1 + Len(t)
    BY <1>2, <1>4
  <1>6. \A i \in 1..Len(u) : w[i] = u[i]
    BY <1>4
  <1>7. (\A i \in 1..Len(s) : i \in 1..Len(u)) /\ Len(s) + 1 \in 1..Len(u)
    BY <1>2
  <1>8. \A i \in 1..Len(t) : w[Len(s) + 1 + i] = t[i]
    BY <1>2, <1>4
  <1>9. Longer(w, s, a, t)
    BY <1>3, <1>5, <1>6, <1>7, <1>8 DEF Longer
  <1> QED BY <1>1, <1>2, <1>4, <1>9

Typed == [flag : STRING, text : STRING]
Cut(text) == IF text \in DOMAIN Words THEN Words[text] ELSE <<text>>

LEMMA WordsAreStrings ==
  ASSUME NEW text \in STRING
  PROVE  Cut(text) \in Seq(STRING) /\ Cut(text) # << >>
  <1>1. CASE text \in DOMAIN Words
    BY <1>1, SetupAssumption DEF Cut
  <1>2. CASE text \notin DOMAIN Words
    BY <1>2, OneItem DEF Cut
  <1> QED BY <1>1, <1>2

LEMMA TokensSteps ==
  ASSUME NEW settings \in Seq(Typed)
  PROVE  /\ TokensOf(settings)[0] = << >>
         /\ \A n \in 1..Len(settings) :
              TokensOf(settings)[n]
                = TokensOf(settings)[n - 1] \o <<settings[n].flag>> \o Cut(settings[n].text)
         /\ \A n \in 0..Len(settings) : TokensOf(settings)[n] \in Seq(STRING)
  <1> DEFINE N == Len(settings)
             X == Seq(STRING)
             Next1(x, n) == x \o <<settings[n].flag>> \o Cut(settings[n].text)
             step == [n \in 1..N |-> [x \in X |-> Next1(x, n)]]
             IsTokens(x) == x = [n \in 0..N |-> IF n = 0 THEN << >> ELSE Next1(x[n - 1], n)]
             r == TokensOf(settings)
             Good == {n \in 0..N : r[n] \in X}
  <1>1. N \in Nat /\ (\A n \in 1..N : settings[n] \in Typed) /\ << >> \in X
    BY LenProperties
  <1>2. ASSUME NEW n \in 1..N, NEW x \in X
        PROVE  Next1(x, n) \in X
    <2>1. settings[n].flag \in STRING /\ settings[n].text \in STRING
      BY <1>1 DEF Typed
    <2>2. Cut(settings[n].text) \in X
      BY <2>1, WordsAreStrings
    <2> QED BY <2>1, <2>2, LongerWith
  <1> HIDE DEF Next1, N, X
  <1>3. step \in [1..N -> [X -> X]]
    BY <1>2
  <1>4. PICK f \in [0..N -> X] : IsChain(f, N, << >>, step)
    <2> HIDE DEF step
    <2> QED BY <1>1, <1>3, ChainExists
  <1>5. IsTokens(f)
    <2>1. \A n \in 1..N : f[n] = Next1(f[n - 1], n)
      <3>1. \A n \in 1..N : n - 1 \in 0..N
        BY <1>1
      <3>2. \A n \in 1..N : \A x \in X : step[n][x] = Next1(x, n)
        OBVIOUS
      <3> HIDE DEF step
      <3> QED BY <1>4, <3>1, <3>2 DEF IsChain
    <2>2. \A n \in 0..N : n = 0 \/ n \in 1..N
      BY <1>1
    <2> QED BY <1>4, <2>1, <2>2 DEF IsChain
  <1>6. IsTokens(r)
    <2>1. r = CHOOSE x : IsTokens(x)
      BY DEF TokensOf, Next1, N, Cut
    <2> HIDE DEF IsTokens, r
    <2> QED BY <1>5, <2>1
  <1>7. r[0] = << >> /\ \A n \in 1..N : r[n] = Next1(r[n - 1], n)
    BY <1>1, <1>6
  <1>8. 0..N \subseteq Good
    <2> HIDE DEF r
    <2>1. 0 \in Good
      BY <1>1, <1>7
    <2>2. ASSUME NEW n \in 1..N, n - 1 \in Good
          PROVE  n \in Good
      BY <1>1, <1>2, <1>7, <2>2
    <2> HIDE DEF Good
    <2> QED BY <1>1, <2>1, <2>2, RangeInduction
  <1> QED BY <1>7, <1>8 DEF Next1, N, X

\* The words are flag and text of each setting in turn, or one that stands in the
\* place of a text is not JSON.
AsTyped(words, settings, n) ==
  /\ Len(words) = 2 * n
  /\ \A i \in 1..n : words[2 * i - 1] = settings[i].flag /\ words[2 * i] = settings[i].text
Torn(words) == \E k \in Nat : 1 <= k /\ 2 * k <= Len(words) /\ words[2 * k] \notin Objects \cup Texts

LEMMA TornStays ==
  ASSUME NEW words, NEW longer, Len(words) \in Nat, Len(longer) \in Nat,
         Len(words) <= Len(longer), \A i \in 1..Len(words) : longer[i] = words[i], Torn(words)
  PROVE  Torn(longer)
  <1>1. PICK k \in Nat : 1 <= k /\ 2 * k <= Len(words) /\ words[2 * k] \notin Objects \cup Texts
    BY DEF Torn
  <1>2. 2 * k \in 1..Len(words)
    BY <1>1
  <1>3. 2 * k <= Len(longer) /\ longer[2 * k] \notin Objects \cup Texts
    BY <1>1, <1>2
  <1> QED BY <1>1, <1>3 DEF Torn

\* With one more setting the words are as typed or torn.
LEMMA TokensGrow ==
  ASSUME NEW w, NEW words, NEW flag, NEW more, Longer(w, words, flag, more),
         NEW n \in Nat, n >= 1, NEW settings, settings[n].flag = flag,
         \/ Len(more) >= 1 /\ more[1] \notin Objects \cup Texts
         \/ Len(more) = 1 /\ more[1] = settings[n].text,
         AsTyped(words, settings, n - 1) \/ Torn(words)
  PROVE  AsTyped(w, settings, n) \/ Torn(w)
  <1>1. /\ Len(words) \in Nat /\ Len(more) \in Nat /\ Len(w) = Len(words) + 1 + Len(more)
        /\ \A i \in 1..Len(words) : w[i] = words[i]
        /\ w[Len(words) + 1] = flag
        /\ \A i \in 1..Len(more) : w[Len(words) + 1 + i] = more[i]
    BY DEF Longer
  <1>2. CASE Torn(words)
    <2>1. Len(w) \in Nat /\ Len(words) <= Len(w)
      BY <1>1
    <2>2. Torn(w)
      BY <1>1, <1>2, <2>1, TornStays
    <2> QED BY <2>2
  <1>3. ASSUME AsTyped(words, settings, n - 1), Len(more) >= 1, more[1] \notin Objects \cup Texts
        PROVE  Torn(w)
    <2>1. Len(words) = 2 * (n - 1)
      BY <1>3 DEF AsTyped
    <2>2. w[Len(words) + 1 + 1] = more[1]
      BY <1>1, <2>1
    <2>3. 2 * n <= Len(w) /\ 2 * n = Len(words) + 1 + 1
      BY <1>1, <2>1
    <2>4. w[2 * n] \notin Objects \cup Texts
      BY <1>3, <2>2, <2>3
    <2> QED BY <2>3, <2>4 DEF Torn
  <1>4. ASSUME AsTyped(words, settings, n - 1), Len(more) = 1, more[1] = settings[n].text
        PROVE  AsTyped(w, settings, n)
    <2>1. Len(words) = 2 * (n - 1)
      BY <1>4 DEF AsTyped
    <2>2. w[Len(words) + 1 + 1] = more[1]
      BY <1>1, <1>4
    <2>3. Len(w) = 2 * n /\ 2 * n = Len(words) + 1 + 1 /\ 2 * n - 1 = Len(words) + 1
      BY <1>1, <1>4, <2>1
    <2>4. w[2 * n] = settings[n].text /\ w[2 * n - 1] = settings[n].flag
      BY <1>1, <1>4, <2>2, <2>3
    <2>5. ASSUME NEW i \in 1..n
          PROVE  w[2 * i - 1] = settings[i].flag /\ w[2 * i] = settings[i].text
      <3>1. CASE i = n
        BY <2>4, <3>1
      <3>2. CASE i # n
        <4>1. i \in 1..(n - 1) /\ 2 * i - 1 \in 1..Len(words) /\ 2 * i \in 1..Len(words)
          BY <2>1, <3>2
        <4>2. words[2 * i - 1] = settings[i].flag /\ words[2 * i] = settings[i].text
          BY <1>4, <4>1 DEF AsTyped
        <4> QED BY <1>1, <4>1, <4>2
      <3> QED BY <3>1, <3>2
    <2> QED BY <2>3, <2>5 DEF AsTyped
  <1> QED BY <1>2, <1>3, <1>4

\* The words of what was typed.
LEMMA TokensTell ==
  ASSUME NEW settings \in Seq(Typed)
  PROVE  LET w == TokensOf(settings)[Len(settings)]
         IN  w \in Seq(STRING) /\ (AsTyped(w, settings, Len(settings)) \/ Torn(w))
  <1> DEFINE N == Len(settings)
             r == TokensOf(settings)
             Good == {n \in 0..N : AsTyped(r[n], settings, n) \/ Torn(r[n])}
  <1>1. N \in Nat /\ \A n \in 1..N : settings[n] \in Typed
    BY LenProperties
  <1>2. /\ r[0] = << >>
        /\ \A n \in 1..N : r[n] = r[n - 1] \o <<settings[n].flag>> \o Cut(settings[n].text)
        /\ \A n \in 0..N : r[n] \in Seq(STRING)
    BY TokensSteps
  <1> HIDE DEF r, N
  <1>3. 0 \in Good
    <2>1. Len(<< >>) = 2 * 0 /\ \A i \in 1..0 : FALSE
      OBVIOUS
    <2>2. AsTyped(<< >>, settings, 0)
      BY <2>1 DEF AsTyped
    <2> QED BY <1>1, <1>2, <2>2
  <1>4. ASSUME NEW n \in 1..N, n - 1 \in Good
        PROVE  n \in Good
    <2>1. PICK words \in Seq(STRING) : words = r[n - 1]
      BY <1>1, <1>2
    <2>2. n \in Nat /\ n >= 1 /\ settings[n].flag \in STRING /\ settings[n].text \in STRING
      BY <1>1 DEF Typed
    <2>3. PICK flag \in STRING, more \in Seq(STRING) :
            flag = settings[n].flag /\ more = Cut(settings[n].text)
      BY <2>2, WordsAreStrings
    <2>4. \/ Len(more) >= 1 /\ more[1] \notin Objects \cup Texts
          \/ Len(more) = 1 /\ more[1] = settings[n].text
      <3>1. CASE settings[n].text \in DOMAIN Words
        BY <2>3, <3>1, SetupAssumption DEF Cut
      <3>2. CASE settings[n].text \notin DOMAIN Words
        BY <2>2, <2>3, <3>2, OneItem DEF Cut
      <3> QED BY <3>1, <3>2
    <2>5. AsTyped(words, settings, n - 1) \/ Torn(words)
      BY <1>4, <2>1
    <2> DEFINE w == words \o <<flag>> \o more
    <2>6. Longer(w, words, flag, more)
      BY LongerWith
    <2>7. r[n] = w
      BY <1>2, <2>1, <2>3
    <2> HIDE DEF w
    <2>8. AsTyped(w, settings, n) \/ Torn(w)
      BY <2>2, <2>3, <2>4, <2>5, <2>6, TokensGrow
    <2>9. n \in 0..N
      BY <1>1
    <2> QED BY <2>7, <2>8, <2>9
  <1>5. N \in Good
    <2> HIDE DEF Good
    <2>1. 0..N \subseteq Good
      BY <1>1, <1>3, <1>4, RangeInduction
    <2> QED BY <1>1, <2>1
  <1>6. r[N] \in Seq(STRING)
    BY <1>1, <1>2
  <1> QED BY <1>5, <1>6 DEF r, N

\* A line that is taken is read as it was typed.
LEMMA ReadsAsTyped ==
  ASSUME NEW spec \in Added, Reads(Tokens(spec))
  PROVE  Pairs(Tokens(spec)) = spec.settings /\ spec.settings \in Seq(Setting)
  <1>1. PICK settings \in Seq(Typed) : settings = spec.settings
    BY SetupAssumption DEF Typed
  <1> DEFINE N == Len(settings)
  <1>2. /\ N \in Nat /\ DOMAIN settings = 1..N /\ settings = [i \in 1..N |-> settings[i]]
        /\ \A i \in 1..N : settings[i] \in Typed
    BY LenProperties
  <1>3. PICK w \in Seq(STRING) : w = Tokens(spec) /\ (AsTyped(w, settings, N) \/ Torn(w))
    BY <1>1, TokensTell DEF Tokens
  <1> HIDE DEF N
  <1> DEFINE pairs == Pairs(w)
             M == Len(w) \div 2
  <1>4. Len(w) \in Nat /\ M \in Nat /\ Len(w) % 2 = 0
    BY <1>3 DEF Reads
  <1>5. /\ pairs = [i \in 1..M |-> [flag |-> w[2*i - 1], text |-> w[2*i]]]
        /\ \A i \in 1..M : /\ pairs[i].flag = w[2*i - 1] /\ pairs[i].text = w[2*i]
                           /\ pairs[i].flag \in DOMAIN SettingOf
                           /\ Fits(SettingOf[pairs[i].flag], pairs[i].text)
    BY <1>3 DEF Pairs, Reads
  <1> HIDE DEF pairs
  <1>6. ASSUME NEW i \in 1..M
        PROVE  w[2 * i] \in Objects \cup Texts /\ w[2 * i - 1] \in {"-headers", "-body"}
    BY <1>5 DEF Fits, SettingOf
  <1>7. ~Torn(w)
    <2> SUFFICES ASSUME NEW k \in Nat, 1 <= k, 2 * k <= Len(w)
                 PROVE  w[2 * k] \in Objects \cup Texts
      BY DEF Torn
    <2>1. k \in 1..M
      BY <1>4
    <2> QED BY <1>6, <2>1
  <1>8. /\ Len(w) = 2 * N
        /\ \A i \in 1..N : w[2 * i - 1] = settings[i].flag /\ w[2 * i] = settings[i].text
    BY <1>3, <1>7 DEF AsTyped
  <1>9. M = N
    BY <1>2, <1>4, <1>8
  <1> HIDE DEF M
  <1>10. ASSUME NEW i \in 1..N
         PROVE  /\ settings[i] = [flag |-> w[2 * i - 1], text |-> w[2 * i]]
                /\ settings[i] \in Setting
    <2>1. settings[i] \in Typed
      BY <1>2
    <2>2. settings[i] = [flag |-> settings[i].flag, text |-> settings[i].text]
      BY <2>1 DEF Typed
    <2>3. settings[i].flag \in {"-headers", "-body"}
      BY <1>6, <1>8, <1>9
    <2>4. settings[i].text \in Said
      BY <2>1 DEF Typed, Said
    <2>5. settings[i] \in Setting
      BY <2>2, <2>3, <2>4 DEF Setting
    <2> QED BY <1>8, <2>2, <2>5
  <1>11. pairs = settings
    BY <1>2, <1>5, <1>9, <1>10
  <1>12. settings \in Seq(Setting)
    <2>1. \A i \in 1..N : settings[i] \in Setting
      BY <1>10
    <2>2. [i \in 1..N |-> settings[i]] \in Seq(Setting)
      BY <1>2, <2>1
    <2> QED BY <1>2, <2>2
  <1> QED BY <1>1, <1>3, <1>11, <1>12 DEF pairs

-----------------------------------------------------------------------------
(* Sessions *)

LoadedIn(h, value) ==
  IF Load(h, value).endpoint = Nothing THEN New(value) ELSE Load(h, value).endpoint
ResolvesIn(h, e) == Direct(e.value) \/ ~Load(h, e.value).failed
ResolvedIn(h, e) ==
  IF Direct(e.value) \/ Load(h, e.value).endpoint = Nothing THEN e ELSE Load(h, e.value).endpoint

Asked == {e \in Configs : e.value # None}
Clients == [given : Configs, used : Configs, deadline : Said \cup {"420"}]

\* One of the hosts that the session was started with.
Original(h, x) ==
  /\ x.given \in Asked /\ ResolvesIn(h, x.given)
  /\ x.used = ResolvedIn(h, x.given) /\ Direct(x.used.value)

\* A host that was added with this line.
AddedBy(h, x, spec) ==
  Reads(Tokens(spec)) /\ x.used = Equip(LoadedIn(h, spec.host), Pairs(Tokens(spec)))

IsHostsFile(h) == h \in Seq(HostLine) /\ \A k \in 1..Len(h) : h[k].value # None

SessionInv(h, p, c, t, ph) ==
  /\ IsHostsFile(h) /\ p \in Seq(Asked) /\ c \in Seq(Clients) /\ t \in Seq(Added)
  /\ ph = "connecting" => t = << >>
  /\ ph # "failed" => Len(t) <= Len(c)
  /\ \A i \in 1..(Len(c) - Len(t)) : Original(h, c[i])
  /\ ph # "failed" => \A i \in 1..Len(t) : AddedBy(h, c[Len(c) - Len(t) + i], t[i])

SetupInv ==
  \E h, p, c, t, ph :
    /\ h = hosts /\ p = pending /\ c = connected /\ t = typed /\ ph = phase
    /\ SessionInv(h, p, c, t, ph)

LEMMA LoadedConfig ==
  ASSUME NEW h, IsHostsFile(h), NEW value \in Said, value # None
  PROVE  LoadedIn(h, value) \in Configs
  <1>1. Load(h, value).endpoint \in Configs
    BY LoadFacts DEF IsHostsFile
  <1>2. New(value) \in Configs
    BY NewConfig
  <1> QED BY <1>1, <1>2 DEF LoadedIn

LEMMA ResolvedConfig ==
  ASSUME NEW h, IsHostsFile(h), NEW e \in Asked
  PROVE  ResolvedIn(h, e) \in Configs
  <1>1. e \in Configs /\ e.value \in Said /\ e.value # None
    BY DEF Asked, Configs
  <1>2. Load(h, e.value).endpoint \in Configs
    BY <1>1, LoadFacts DEF IsHostsFile
  <1> QED BY <1>1, <1>2 DEF ResolvedIn

LEMMA ClientType ==
  ASSUME NEW asked \in Configs, NEW e \in Configs, NEW read \in FileLines
  PROVE  Client(asked, e, read) \in Clients
  <1>1. e.timeout \in Said /\ None \in Said
    BY DEF Configs, Said
  <1>2. SettingsTimeout(read) \in Said \cup {"420"}
    <2>1. CASE read = << >>
      BY <2>1 DEF SettingsTimeout
    <2>2. CASE read # << >>
      <3>1. Len(read) \in 1..Len(read)
        BY <2>2 DEF FileLines
      <3>2. read \in Seq(HostLine)
        BY DEF FileLines, HostLine
      <3>3. read[Len(read)] \in HostLine
        BY <3>1, <3>2
      <3>4. read[Len(read)].value \in Said
        BY <3>3 DEF HostLine, Said
      <3>5. SettingsTimeout(read) = read[Len(read)].value
        BY <2>2 DEF SettingsTimeout
      <3> QED BY <3>4, <3>5
    <2> QED BY <2>1, <2>2
  <1>3. TimeoutFor(e, read) \in Said \cup {"420"}
    BY <1>1, <1>2 DEF TimeoutFor
  <1> QED BY <1>1, <1>3 DEF Client, Clients

\* What a session starts with.
LEMMA StartFacts ==
  ASSUME NEW start \in Starts
  PROVE  IsHostsFile(start.hosts) /\ start.given \in Seq(Asked)
  <1>1. /\ start.hosts \in FileLines /\ start.given \in Seq(EndpointConfig)
        /\ \A i \in DOMAIN start.hosts : start.hosts[i].value # None
        /\ \A i \in DOMAIN start.given : start.given[i].value # None
    BY SetupAssumption
  <1>2. PICK h \in Seq(HostLine) : h = start.hosts /\ \A i \in DOMAIN h : h[i].value # None
    BY <1>1 DEF FileLines, HostLine
  <1>3. PICK g \in Seq(EndpointConfig) : g = start.given /\ \A i \in DOMAIN g : g[i].value # None
    BY <1>1
  <1>4. IsHostsFile(h)
    BY <1>2, LenProperties DEF IsHostsFile
  <1>5. ASSUME NEW s \in Seq(STRING)
        PROVE  s \in Seq(Said)
    BY SeqMonotonic DEF Said
  <1>6. ASSUME NEW e \in EndpointConfig
        PROVE  e \in Configs
    <2>1. e.headers \in Seq(Said) /\ e.body \in Seq(Said)
      BY <1>5 DEF EndpointConfig
    <2>2. e.value \in Said /\ e.namespace \in Said /\ e.timeout \in Said
      BY DEF EndpointConfig, Said
    <2> QED BY <2>1, <2>2 DEF EndpointConfig, Configs
  <1>7. \A i \in 1..Len(g) : g[i] \in Asked
    <2> SUFFICES ASSUME NEW i \in 1..Len(g)
                 PROVE  g[i] \in Asked
      OBVIOUS
    <2>1. g[i] \in EndpointConfig /\ i \in DOMAIN g
      OBVIOUS
    <2> QED BY <1>3, <1>6, <2>1 DEF Asked
  <1>8. g \in Seq(Asked)
    <2>1. Len(g) \in Nat /\ g = [i \in 1..Len(g) |-> g[i]]
      BY LenProperties
    <2> QED BY <1>7, <2>1
  <1> QED BY <1>2, <1>3, <1>4, <1>8

\* A host connected at the start.
LEMMA ConnectKeeps ==
  ASSUME NEW h, NEW p, NEW c, NEW t, SessionInv(h, p, c, t, "connecting"), p # << >>,
         ResolvesIn(h, Head(p)), NEW read \in SettingsFiles,
         Connects(ResolvedIn(h, Head(p)), read)
  PROVE  SessionInv(h, Tail(p), Append(c, Client(Head(p), ResolvedIn(h, Head(p)), read)), t,
                    "connecting")
  <1>1. /\ IsHostsFile(h) /\ p \in Seq(Asked) /\ c \in Seq(Clients) /\ t \in Seq(Added)
        /\ t = << >>
        /\ \A i \in 1..(Len(c) - Len(t)) : Original(h, c[i])
    BY DEF SessionInv
  <1>2. Head(p) \in Asked /\ Tail(p) \in Seq(Asked)
    BY <1>1, HeadTailProperties
  <1>3. PICK e \in Asked : e = Head(p)
    BY <1>2
  <1>4. PICK used \in Configs : used = ResolvedIn(h, e)
    BY <1>1, ResolvedConfig
  <1>5. e \in Configs /\ read \in FileLines
    BY SetupAssumption DEF Asked
  <1>6. PICK x \in Clients : x = Client(e, used, read)
    BY <1>5, ClientType
  <1>7. x.given = e /\ x.used = used
    BY <1>6 DEF Client
  <1>8. Direct(used.value)
    BY <1>3, <1>4 DEF Connects, Direct
  <1>9. Original(h, x)
    BY <1>3, <1>4, <1>7, <1>8 DEF Original
  <1>10. /\ Append(c, x) \in Seq(Clients)
         /\ Len(c) \in Nat /\ Len(Append(c, x)) = Len(c) + 1
         /\ \A i \in 1..Len(c) : Append(c, x)[i] = c[i]
         /\ Append(c, x)[Len(c) + 1] = x
    BY <1>1, BehindFacts
  <1>11. Len(t) = 0
    BY <1>1
  <1>12. PICK d \in Seq(Clients) : d = Append(c, x)
    BY <1>10
  <1>13. \A i \in 1..Len(d) : Original(h, d[i])
    <2> SUFFICES ASSUME NEW i \in 1..Len(d)
                 PROVE  Original(h, d[i])
      OBVIOUS
    <2>1. CASE i = Len(c) + 1
      BY <1>9, <1>10, <1>12, <2>1
    <2>2. CASE i # Len(c) + 1
      <3>1. i \in 1..Len(c) /\ i \in 1..(Len(c) - Len(t))
        BY <1>10, <1>11, <1>12, <2>2
      <3>2. d[i] = c[i]
        BY <1>10, <1>12, <3>1
      <3> QED BY <1>1, <3>1, <3>2
    <2> QED BY <2>1, <2>2
  <1>14. /\ Len(d) \in Nat /\ Len(t) <= Len(d)
         /\ \A i \in 1..(Len(d) - Len(t)) : i \in 1..Len(d)
         /\ \A i \in 1..Len(t) : FALSE
    BY <1>10, <1>11, <1>12
  <1>15. SessionInv(h, Tail(p), d, t, "connecting")
    BY <1>1, <1>2, <1>13, <1>14 DEF SessionInv
  <1> QED BY <1>3, <1>4, <1>6, <1>12, <1>15

\* A host added with a line that was typed.
LEMMA AddKeeps ==
  ASSUME NEW h, NEW p, NEW c, NEW t, SessionInv(h, p, c, t, "idle"), NEW spec \in Added,
         NEW e, e = Equip(LoadedIn(h, spec.host), Pairs(Tokens(spec))),
         Reads(Tokens(spec)), NEW read \in SettingsFiles, Connects(e, read)
  PROVE  SessionInv(h, p, Append(c, Client(e, e, read)), Append(t, spec), "idle")
  <1>1. /\ IsHostsFile(h) /\ p \in Seq(Asked) /\ c \in Seq(Clients) /\ t \in Seq(Added)
        /\ Len(t) <= Len(c)
        /\ \A i \in 1..(Len(c) - Len(t)) : Original(h, c[i])
        /\ \A i \in 1..Len(t) : AddedBy(h, c[Len(c) - Len(t) + i], t[i])
    BY DEF SessionInv
  <1>2. e \in Configs
    <2>1. spec.host \in Said /\ spec.host # None
      BY SetupAssumption DEF Said
    <2>2. LoadedIn(h, spec.host) \in Configs
      BY <1>1, <2>1, LoadedConfig
    <2>3. Pairs(Tokens(spec)) \in Seq(Setting)
      BY ReadsAsTyped
    <2> QED BY <2>2, <2>3, EquipFollowed
  <1>3. PICK x \in Clients : x = Client(e, e, read)
    BY <1>2, ClientType, SetupAssumption
  <1>4. x.used = e
    BY <1>3 DEF Client
  <1>5. AddedBy(h, x, spec)
    BY <1>4 DEF AddedBy
  <1>6. /\ Append(c, x) \in Seq(Clients)
        /\ Len(c) \in Nat /\ Len(Append(c, x)) = Len(c) + 1
        /\ \A i \in 1..Len(c) : Append(c, x)[i] = c[i]
        /\ Append(c, x)[Len(c) + 1] = x
    BY <1>1, BehindFacts
  <1>7. /\ Append(t, spec) \in Seq(Added)
        /\ Len(t) \in Nat /\ Len(Append(t, spec)) = Len(t) + 1
        /\ \A i \in 1..Len(t) : Append(t, spec)[i] = t[i]
        /\ Append(t, spec)[Len(t) + 1] = spec
    BY <1>1, BehindFacts
  <1>8. PICK d \in Seq(Clients) : d = Append(c, x)
    BY <1>6
  <1>9. PICK u \in Seq(Added) : u = Append(t, spec)
    BY <1>7
  <1>10. /\ Len(d) = Len(c) + 1 /\ Len(u) = Len(t) + 1 /\ Len(u) <= Len(d)
         /\ Len(d) - Len(u) = Len(c) - Len(t)
    BY <1>1, <1>6, <1>7, <1>8, <1>9
  <1>11. \A i \in 1..Len(c) : d[i] = c[i]
    BY <1>6, <1>8
  <1>12. \A i \in 1..(Len(d) - Len(u)) : Original(h, d[i])
    <2> SUFFICES ASSUME NEW i \in 1..(Len(d) - Len(u))
                 PROVE  Original(h, d[i])
      OBVIOUS
    <2>1. i \in 1..(Len(c) - Len(t)) /\ i \in 1..Len(c)
      BY <1>6, <1>7, <1>10
    <2> QED BY <1>1, <1>11, <2>1
  <1>13. \A i \in 1..Len(u) : AddedBy(h, d[Len(d) - Len(u) + i], u[i])
    <2> SUFFICES ASSUME NEW i \in 1..Len(u)
                 PROVE  AddedBy(h, d[Len(d) - Len(u) + i], u[i])
      OBVIOUS
    <2>1. CASE i = Len(t) + 1
      <3>1. Len(d) - Len(u) + i = Len(c) + 1
        BY <1>6, <1>7, <1>10, <2>1
      <3> QED BY <1>5, <1>6, <1>7, <1>8, <1>9, <2>1, <3>1
    <2>2. CASE i # Len(t) + 1
      <3>1. i \in 1..Len(t) /\ Len(c) - Len(t) + i \in 1..Len(c)
        BY <1>1, <1>6, <1>7, <1>10, <2>2
      <3>2. d[Len(d) - Len(u) + i] = c[Len(c) - Len(t) + i] /\ u[i] = t[i]
        BY <1>7, <1>9, <1>10, <1>11, <3>1
      <3> QED BY <1>1, <3>1, <3>2
    <2> QED BY <2>1, <2>2
  <1>14. SessionInv(h, p, d, u, "idle")
    BY <1>1, <1>10, <1>12, <1>13 DEF SessionInv
  <1> QED BY <1>3, <1>8, <1>9, <1>14

\* A failure leaves the hosts there are.
LEMMA FailKeeps ==
  ASSUME NEW h, NEW p, NEW c, NEW t, NEW ph, SessionInv(h, p, c, t, ph)
  PROVE  /\ SessionInv(h, p, c, t, "failed")
         /\ ph # "failed" => \A spec \in Added : SessionInv(h, p, c, Append(t, spec), "failed")
  <1>1. /\ IsHostsFile(h) /\ p \in Seq(Asked) /\ c \in Seq(Clients) /\ t \in Seq(Added)
        /\ \A i \in 1..(Len(c) - Len(t)) : Original(h, c[i])
    BY DEF SessionInv
  <1>2. SessionInv(h, p, c, t, "failed")
    BY <1>1 DEF SessionInv
  <1>3. ASSUME NEW spec \in Added
        PROVE  SessionInv(h, p, c, Append(t, spec), "failed")
    <2>1. /\ Append(t, spec) \in Seq(Added) /\ Len(t) \in Nat /\ Len(c) \in Nat
          /\ Len(Append(t, spec)) = Len(t) + 1
      BY <1>1, BehindFacts
    <2>2. PICK u \in Seq(Added) : u = Append(t, spec) /\ Len(u) = Len(t) + 1
      BY <2>1
    <2>3. \A i \in 1..(Len(c) - Len(u)) : i \in 1..(Len(c) - Len(t))
      BY <2>1, <2>2
    <2>4. SessionInv(h, p, c, u, "failed")
      BY <1>1, <2>3 DEF SessionInv
    <2> QED BY <2>2, <2>4
  <1> QED BY <1>2, <1>3

LEMMA SetupStarts == SetupInit => SetupInv
  <1> SUFFICES ASSUME SetupInit
               PROVE  SetupInv
    OBVIOUS
  <1>1. PICK start \in Starts : hosts = start.hosts /\ pending = start.given
    BY DEF SetupInit
  <1>2. connected = << >> /\ typed = << >> /\ phase = "connecting"
    BY DEF SetupInit
  <1>3. PICK h, p : h = start.hosts /\ p = start.given
    OBVIOUS
  <1>4. IsHostsFile(h) /\ p \in Seq(Asked)
    BY <1>3, StartFacts
  <1>5. /\ << >> \in Seq(Clients) /\ << >> \in Seq(Added) /\ Len(<< >>) <= Len(<< >>)
        /\ (\A i \in 1..Len(<< >>) : FALSE) /\ (\A i \in 1..(Len(<< >>) - Len(<< >>)) : FALSE)
    OBVIOUS
  <1>6. SessionInv(h, p, << >>, << >>, "connecting")
    BY <1>4, <1>5 DEF SessionInv
  <1> QED BY <1>1, <1>2, <1>3, <1>6 DEF SetupInv

LEMMA SetupSteps == SetupInv /\ [SetupNext]_setupVars => SetupInv'
  <1> SUFFICES ASSUME SetupInv, [SetupNext]_setupVars
               PROVE  SetupInv'
    OBVIOUS
  <1>1. PICK h, p, c, t, ph :
          /\ h = hosts /\ p = pending /\ c = connected /\ t = typed /\ ph = phase
          /\ SessionInv(h, p, c, t, ph)
    BY DEF SetupInv
  <1>2. ASSUME Fail
        PROVE  SetupInv'
    <2>1. SessionInv(h, p, c, t, "failed")
      BY <1>1, FailKeeps
    <2> QED BY <1>1, <1>2, <2>1 DEF SetupInv, Fail
  <1>3. CASE ConnectHost
    <2>1. CASE Fail
      BY <1>2, <2>1
    <2>2. CASE ~Fail
      <3>1. /\ phase = "connecting" /\ pending # << >> /\ Resolves(Head(pending))
            /\ pending' = Tail(pending) /\ UNCHANGED <<hosts, typed, phase>>
        BY <1>3, <2>2 DEF ConnectHost
      <3>2. PICK read \in SettingsFiles :
              /\ Connects(Resolved(Head(pending)), read)
              /\ connected' = Append(connected, Client(Head(pending), Resolved(Head(pending)), read))
        BY <1>3, <2>2 DEF ConnectHost
      <3>3. Resolved(Head(pending)) = ResolvedIn(h, Head(p)) /\ ResolvesIn(h, Head(p))
        BY <1>1, <3>1 DEF Resolved, ResolvedIn, Resolves, ResolvesIn, Loads
      <3>4. PICK d : d = Append(c, Client(Head(p), ResolvedIn(h, Head(p)), read))
        OBVIOUS
      <3>5. connected' = d
        BY <1>1, <3>2, <3>3, <3>4
      <3>6. ph = "connecting" /\ p # << >> /\ Connects(ResolvedIn(h, Head(p)), read)
        BY <1>1, <3>1, <3>2, <3>3
      <3>7. SessionInv(h, Tail(p), d, t, "connecting")
        BY <1>1, <3>3, <3>4, <3>6, ConnectKeeps
      <3> QED BY <1>1, <3>1, <3>5, <3>7 DEF SetupInv
    <2> QED BY <2>1, <2>2
  <1>4. CASE AllConnected
    <2>1. phase' = "idle" /\ UNCHANGED <<hosts, pending, connected, typed>> /\ ph = "connecting"
      BY <1>1, <1>4 DEF AllConnected
    <2>2. t = << >> /\ Len(t) = 0 /\ \A i \in 1..0 : FALSE
      BY <1>1, <2>1 DEF SessionInv
    <2>3. SessionInv(h, p, c, t, "idle")
      BY <1>1, <2>1, <2>2 DEF SessionInv
    <2> QED BY <1>1, <2>1, <2>3 DEF SetupInv
  <1>5. ASSUME NEW spec \in Added, AddHost(spec)
        PROVE  SetupInv'
    <2>1. PICK e : e = Equip(LoadedIn(h, spec.host), Pairs(Tokens(spec)))
      OBVIOUS
    <2>2. Loaded(spec.host) = LoadedIn(h, spec.host)
      BY <1>1 DEF Loaded, LoadedIn
    <2>3. /\ phase = "idle" /\ typed' = Append(typed, spec) /\ UNCHANGED <<hosts, pending>>
      BY <1>5 DEF AddHost
    <2>4. PICK read \in SettingsFiles :
            IF Loads(spec.host) /\ Reads(Tokens(spec)) /\ Connects(e, read)
              THEN connected' = Append(connected, Client(e, e, read)) /\ UNCHANGED phase
              ELSE phase' = "failed" /\ UNCHANGED connected
      BY <1>5, <2>1, <2>2 DEF AddHost
    <2>5. PICK u : u = Append(t, spec)
      OBVIOUS
    <2>6. typed' = u /\ ph = "idle"
      BY <1>1, <2>3, <2>5
    <2>7. CASE Loads(spec.host) /\ Reads(Tokens(spec)) /\ Connects(e, read)
      <3>1. PICK d : d = Append(c, Client(e, e, read))
        OBVIOUS
      <3>2. connected' = d /\ phase' = "idle"
        BY <1>1, <2>3, <2>4, <2>7, <3>1
      <3>3. SessionInv(h, p, d, u, "idle")
        BY <1>1, <2>1, <2>5, <2>6, <2>7, <3>1, AddKeeps
      <3> QED BY <1>1, <2>3, <2>6, <3>2, <3>3 DEF SetupInv
    <2>8. CASE ~(Loads(spec.host) /\ Reads(Tokens(spec)) /\ Connects(e, read))
      <3>1. phase' = "failed" /\ UNCHANGED connected
        BY <2>4, <2>8
      <3>2. SessionInv(h, p, c, u, "failed")
        BY <1>1, <2>5, <2>6, FailKeeps
      <3> QED BY <1>1, <2>3, <2>6, <3>1, <3>2 DEF SetupInv
    <2> QED BY <2>7, <2>8
  <1>6. CASE AddHostFails
    BY <1>2, <1>6 DEF AddHostFails
  <1>7. CASE Exited \/ UNCHANGED setupVars
    BY <1>1, <1>7 DEF Exited, setupVars, SetupInv
  <1> QED BY <1>3, <1>4, <1>5, <1>6, <1>7 DEF SetupNext

\* The invariant of every session.
LEMMA SetupAlways == SetupSpec => []SetupInv
  BY SetupStarts, SetupSteps, PTL DEF SetupSpec

\* A host given by a name of the hosts file has the endpoint that the block of that
\* name gives, and only a line of that block keeps it from being loaded
\* (hosts::load, connect_hosts).
THEOREM EndpointsFromOwnBlock == SetupSpec => []OwnBlockOnly
  <1>1. SetupInv => OwnBlockOnly
    <2> SUFFICES ASSUME SetupInv
                 PROVE  OwnBlockOnly
      OBVIOUS
    <2>1. PICK h, p, c, t, ph :
            /\ h = hosts /\ p = pending /\ c = connected /\ t = typed
            /\ SessionInv(h, p, c, t, ph)
      BY DEF SetupInv
    <2>2. /\ IsHostsFile(h) /\ p \in Seq(Asked) /\ c \in Seq(Clients) /\ t \in Seq(Added)
          /\ \A i \in 1..(Len(c) - Len(t)) : Original(h, c[i])
      BY <2>1 DEF SessionInv
    <2>3. /\ DOMAIN c = 1..Len(c) /\ Len(c) \in Nat /\ Len(t) \in Nat /\ DOMAIN p = 1..Len(p)
          /\ \A i \in 1..Len(p) : p[i] \in Asked
      BY <2>2, LenProperties
    <2>4. h \in Seq(HostLine) /\ \A k \in 1..Len(h) : h[k].value # None
      BY <2>2 DEF IsHostsFile
    <2>5. ASSUME NEW i \in DOMAIN c, i <= Len(c) - Len(t), ~Direct(c[i].given.value)
          PROVE  GivenBy(c[i].used, h, Block(h, c[i].given.value))
      <3>1. Original(h, c[i])
        <4>1. i \in 1..(Len(c) - Len(t))
          BY <2>3, <2>5
        <4> QED BY <2>2, <4>1
      <3>2. PICK asked, used :
              /\ asked \in Asked /\ asked = c[i].given /\ used = c[i].used
              /\ ResolvesIn(h, asked) /\ used = ResolvedIn(h, asked) /\ Direct(used.value)
        BY <3>1 DEF Original
      <3>3. asked.value # None /\ ~Direct(asked.value)
        BY <2>5, <3>2 DEF Asked
      <3>4. ~Load(h, asked.value).failed
        BY <3>2, <3>3 DEF ResolvesIn
      <3>5. Load(h, asked.value).endpoint # Nothing /\ used = Load(h, asked.value).endpoint
        BY <3>2, <3>3 DEF ResolvedIn
      <3>6. GivenBy(Load(h, asked.value).endpoint, h, Block(h, asked.value))
        BY <2>4, <3>3, <3>4, <3>5, LoadFacts
      <3> QED BY <3>2, <3>5, <3>6
    <2>6. ASSUME NEW i \in DOMAIN p, ~Direct(p[i].value), Load(h, p[i].value).failed
          PROVE  \E n \in LinesWith(h, Block(h, p[i].value), {"headers", "body"}) :
                   ~Fits(h[n].key, h[n].value)
      <3>1. PICK name : name = p[i].value /\ name # None
        BY <2>3 DEF Asked
      <3>2. Load(h, name).failed
        BY <2>6, <3>1
      <3>3. Wrong(h, Block(h, name))
        BY <2>4, <3>1, <3>2, LoadFacts
      <3>4. \E n \in LinesWith(h, Block(h, name), {"headers", "body"}) : ~Fits(h[n].key, h[n].value)
        BY <3>3 DEF Wrong
      <3> QED BY <3>1, <3>4
    <2>7. \A i \in DOMAIN connected :
             i <= Len(connected) - Len(typed) /\ ~Direct(connected[i].given.value) =>
               GivenBy(connected[i].used, hosts, Block(hosts, connected[i].given.value))
      BY <2>1, <2>5
    <2>8. \A i \in DOMAIN pending :
             ~Direct(pending[i].value) /\ ~Loads(pending[i].value) =>
               \E n \in LinesWith(hosts, Block(hosts, pending[i].value), {"headers", "body"}) :
                 ~Fits(hosts[n].key, hosts[n].value)
      BY <2>1, <2>6 DEF Loads
    <2> QED BY <2>7, <2>8, Zenon DEF OwnBlockOnly
  <1> QED BY <1>1, SetupAlways, PTL

\* A host added in a session has the headers and bodies of its alias and behind them
\* those that were typed, each kind in the order it was typed, also when one of the
\* texts has blanks in it: then the line is not taken (parse_added_host).
THEOREM SettingsAsTyped == SetupSpec => []AddedAsTyped
  <1>1. SetupInv => AddedAsTyped
    <2> SUFFICES ASSUME SetupInv, phase = "idle"
                 PROVE  \A i \in DOMAIN typed :
                    LET host == connected[Len(connected) - Len(typed) + i].used
                        alias == Loaded(typed[i].host)
                        settings == typed[i].settings
                    IN  /\ Followed(host.headers, alias.headers, TypedWith("-headers", settings),
                                    TypedTexts(settings))
                        /\ Followed(host.body, alias.body, TypedWith("-body", settings),
                                    TypedTexts(settings))
      BY DEF AddedAsTyped
    <2>1. PICK h, p, c, t, ph :
            /\ h = hosts /\ p = pending /\ c = connected /\ t = typed /\ ph = phase
            /\ SessionInv(h, p, c, t, ph)
      BY DEF SetupInv
    <2>2. /\ IsHostsFile(h) /\ t \in Seq(Added) /\ DOMAIN t = 1..Len(t)
          /\ \A i \in 1..Len(t) : AddedBy(h, c[Len(c) - Len(t) + i], t[i]) /\ t[i] \in Added
      BY <2>1, LenProperties DEF SessionInv
    <2>3. ASSUME NEW spec \in Added, NEW host, AddedBy(h, host, spec)
          PROVE  LET alias == LoadedIn(h, spec.host)
                     settings == spec.settings
                 IN  /\ Followed(host.used.headers, alias.headers, TypedWith("-headers", settings),
                                 TypedTexts(settings))
                     /\ Followed(host.used.body, alias.body, TypedWith("-body", settings),
                                 TypedTexts(settings))
      <3>1. /\ Reads(Tokens(spec))
            /\ host.used = Equip(LoadedIn(h, spec.host), Pairs(Tokens(spec)))
        BY <2>3 DEF AddedBy
      <3>2. spec.host \in Said /\ spec.host # None
        BY SetupAssumption DEF Said
      <3>3. PICK alias \in Configs : alias = LoadedIn(h, spec.host)
        BY <2>2, <3>2, LoadedConfig
      <3>4. PICK settings \in Seq(Setting) :
              settings = spec.settings /\ settings = Pairs(Tokens(spec))
        BY <3>1, ReadsAsTyped
      <3>5. PICK used : used = host.used /\ used = Equip(alias, settings)
        BY <3>1, <3>3, <3>4
      <3>6. /\ Followed(used.headers, alias.headers, TypedWith("-headers", settings), TypedTexts(settings))
            /\ Followed(used.body, alias.body, TypedWith("-body", settings), TypedTexts(settings))
        BY <3>5, EquipFollowed
      <3> QED BY <3>3, <3>4, <3>5, <3>6
    <2>4. ASSUME NEW i \in DOMAIN t
          PROVE  LET host == c[Len(c) - Len(t) + i].used
                     alias == LoadedIn(h, t[i].host)
                     settings == t[i].settings
                 IN  /\ Followed(host.headers, alias.headers, TypedWith("-headers", settings),
                                 TypedTexts(settings))
                     /\ Followed(host.body, alias.body, TypedWith("-body", settings),
                                 TypedTexts(settings))
      <3>1. t[i] \in Added /\ AddedBy(h, c[Len(c) - Len(t) + i], t[i])
        BY <2>2
      <3> QED BY <2>3, <3>1, Zenon
    <2>5. \A name : Loaded(name) = LoadedIn(h, name)
      BY <2>1 DEF Loaded, LoadedIn
    <2> QED BY <2>1, <2>4, <2>5
  <1> QED BY <1>1, SetupAlways, PTL
-----------------------------------------------------------------------------
(* JSON values *)

\* The parts of a path.
LEMMA UptoFacts ==
  ASSUME NEW S, NEW p \in Seq(S)
  PROVE  /\ Len(p) \in Nat /\ Upto(p, 0) = << >> /\ Upto(p, Len(p)) = p
         /\ \A n \in 0..Len(p) :
              /\ Upto(p, n) \in Seq(S) /\ Len(Upto(p, n)) = n
              /\ \A m \in 0..n : Upto(Upto(p, n), m) = Upto(p, m)
              /\ n # 0 => Upto(p, n) # << >> /\ Upto(p, n)[1] = p[1]
  <1>1. Len(p) \in Nat /\ Upto(p, 0) = << >>
    BY DEF Upto
  <1>2. Upto(p, Len(p)) = p
    <2>1. Len(SubSeq(p, 1, Len(p))) = Len(p) /\ \A i \in 1..Len(p) : SubSeq(p, 1, Len(p))[i] = p[i]
      BY <1>1
    <2>2. SubSeq(p, 1, Len(p)) \in Seq(S)
      BY <1>1
    <2> QED BY <2>1, <2>2, SeqEqual DEF Upto
  <1>3. ASSUME NEW n \in 0..Len(p)
        PROVE  /\ Upto(p, n) \in Seq(S) /\ Len(Upto(p, n)) = n
               /\ \A i \in 1..n : Upto(p, n)[i] = p[i]
    BY <1>1 DEF Upto
  <1>4. ASSUME NEW n \in 0..Len(p), NEW m \in 0..n
        PROVE  Upto(Upto(p, n), m) = Upto(p, m)
    <2>1. PICK q \in Seq(S) : q = Upto(p, n) /\ Len(q) = n /\ \A i \in 1..n : q[i] = p[i]
      BY <1>3
    <2>2. m \in 0..Len(p) /\ m \in 0..Len(q)
      BY <1>1, <2>1
    <2>3. /\ Upto(q, m) \in Seq(S) /\ Len(Upto(q, m)) = m
          /\ \A i \in 1..m : Upto(q, m)[i] = q[i]
      BY <2>1, <2>2 DEF Upto
    <2>4. /\ Upto(p, m) \in Seq(S) /\ Len(Upto(p, m)) = m
          /\ \A i \in 1..m : Upto(p, m)[i] = p[i]
      BY <1>3, <2>2
    <2>5. \A i \in 1..m : Upto(q, m)[i] = Upto(p, m)[i]
      BY <2>1, <2>2, <2>3, <2>4
    <2>6. Upto(q, m) = Upto(p, m)
      BY <2>3, <2>4, <2>5, SeqEqual
    <2> QED BY <2>1, <2>6
  <1>5. ASSUME NEW n \in 0..Len(p), n # 0
        PROVE  Upto(p, n) # << >> /\ Upto(p, n)[1] = p[1]
    BY <1>1, <1>3, <1>5
  <1> QED BY <1>1, <1>2, <1>3, <1>4, <1>5

LEMMA JsonFacts ==
  ASSUME NEW j, IsJson(j), NEW p \in DOMAIN j
  PROVE  /\ p \in Seq(JsonKeys) /\ Len(p) \in Nat
         /\ \A n \in 0..Len(p) : Upto(p, n) \in DOMAIN j
         /\ \A n \in 0..Len(p) : n < Len(p) => j[Upto(p, n)] = "object"
  <1>1. p \in Seq(JsonKeys)
    BY DEF IsJson
  <1>2. Len(p) \in Nat
    BY <1>1
  <1> QED BY <1>1, <1>2 DEF IsJson

\* What merge_json is called for, key by key.
LEMMA CalledSteps ==
  ASSUME NEW base, NEW overlay, NEW p, Len(p) \in Nat
  PROVE  /\ Called(base, overlay, p)[0]
         /\ \A n \in 1..Len(p) :
              Called(base, overlay, p)[n] <=>
                /\ Called(base, overlay, p)[n - 1] /\ Meet(base, overlay, Upto(p, n - 1))
                /\ Upto(p, n) \in DOMAIN base \cap DOMAIN overlay
  <1> DEFINE N == Len(p)
             Goes(n) == /\ Meet(base, overlay, Upto(p, n - 1))
                        /\ Upto(p, n) \in DOMAIN base \cap DOMAIN overlay
             step == [n \in 1..N |-> [x \in BOOLEAN |-> x /\ Goes(n)]]
             IsCalled(x) == x = [n \in 0..N |-> IF n = 0 THEN TRUE ELSE x[n - 1] /\ Goes(n)]
             r == Called(base, overlay, p)
  <1> HIDE DEF Goes, N
  <1>1. step \in [1..N -> [BOOLEAN -> BOOLEAN]]
    OBVIOUS
  <1>2. N \in Nat /\ TRUE \in BOOLEAN
    BY DEF N
  <1>3. PICK f \in [0..N -> BOOLEAN] : IsChain(f, N, TRUE, step)
    <2> HIDE DEF step
    <2> QED BY <1>1, <1>2, ChainExists
  <1>4. IsCalled(f)
    <2>1. \A n \in 1..N : f[n] = (f[n - 1] /\ Goes(n))
      <3>1. \A n \in 1..N : n - 1 \in 0..N
        BY <1>2
      <3>2. \A n \in 1..N : \A x \in BOOLEAN : step[n][x] = (x /\ Goes(n))
        OBVIOUS
      <3>3. \A n \in 1..N : f[n - 1] \in BOOLEAN
        BY <3>1
      <3>4. \A n \in 1..N : f[n] = step[n][f[n - 1]]
        BY <1>3, Zenon DEF IsChain
      <3> HIDE DEF step
      <3> QED BY <3>2, <3>3, <3>4
    <2>2. \A n \in 0..N : n = 0 \/ n \in 1..N
      BY <1>2
    <2>3. f[0] = TRUE /\ f = [n \in 0..N |-> f[n]]
      BY <1>3, Zenon DEF IsChain
    <2>4. \A n \in 0..N : f[n] = IF n = 0 THEN TRUE ELSE f[n - 1] /\ Goes(n)
      BY <1>2, <2>1, <2>2, <2>3
    <2> QED BY <2>3, <2>4, Zenon
  <1>5. IsCalled(r)
    <2>1. r = CHOOSE x : IsCalled(x)
      BY DEF Called, Goes, N
    <2> HIDE DEF IsCalled, r
    <2> QED BY <1>4, <2>1
  <1>6. r[0] /\ \A n \in 1..N : r[n] = (r[n - 1] /\ Goes(n))
    <2>1. \A n \in 0..N : r[n] = IF n = 0 THEN TRUE ELSE r[n - 1] /\ Goes(n)
      <3> HIDE DEF r
      <3> QED BY <1>5
    <2>2. 0 \in 0..N /\ \A n \in 1..N : n \in 0..N /\ n # 0
      BY <1>2
    <2> HIDE DEF r
    <2> QED BY <2>1, <2>2, Zenon
  <1> QED BY <1>6 DEF r, N, Goes

\* A place p, where a value has is, outlives what is merged over it.
Stands(p, is, overlay) ==
  \A n \in 0..Len(p) :
    Upto(p, n) \in DOMAIN overlay =>
      overlay[Upto(p, n)] = "object" /\ (n = Len(p) => is = "object")

\* merge_json leaves the places that outlive the overlay.
LEMMA KeptOutlive ==
  ASSUME NEW base, IsJson(base), NEW overlay, IsJson(overlay), NEW p \in DOMAIN base
  PROVE  ~Replaced(base, overlay, p) <=> Stands(p, base[p], overlay)
  <1> DEFINE N == Len(p)
             c == Called(base, overlay, p)
             Meets(n) == Meet(base, overlay, Upto(p, n))
  <1>1. /\ p \in Seq(JsonKeys) /\ N \in Nat
        /\ \A n \in 0..N : Upto(p, n) \in DOMAIN base
        /\ \A n \in 0..N : n < N => base[Upto(p, n)] = "object"
    BY JsonFacts
  <1>2. /\ Upto(p, 0) = << >> /\ Upto(p, N) = p
        /\ \A n \in 0..N : \A m \in 0..n : Upto(Upto(p, n), m) = Upto(p, m)
        /\ \A n \in 0..N : Len(Upto(p, n)) = n
    BY <1>1, UptoFacts
  <1>3. /\ c[0]
        /\ \A n \in 1..N : c[n] <=> /\ c[n - 1] /\ Meets(n - 1)
                                    /\ Upto(p, n) \in DOMAIN base \cap DOMAIN overlay
    BY <1>1, CalledSteps
  <1>4. << >> \in DOMAIN base /\ << >> \in DOMAIN overlay
    BY DEF IsJson
  <1>5. Replaced(base, overlay, p) <=> \E n \in 0..N : c[n] /\ ~Meets(n)
    BY DEF Replaced
  <1>6. \A n \in 0..N : Meets(n) <=> base[Upto(p, n)] = "object" /\ overlay[Upto(p, n)] = "object"
    BY DEF Meet
  <1> HIDE DEF c, N, Meets
  <1>7. ASSUME Stands(p, base[p], overlay), NEW n \in 0..N, c[n]
        PROVE  Meets(n)
    <2>1. Upto(p, n) \in DOMAIN overlay
      <3>1. CASE n = 0
        BY <1>2, <1>4, <3>1
      <3>2. CASE n # 0
        <4>1. n \in 1..N
          BY <1>1, <3>2
        <4> QED BY <1>3, <1>7, <4>1
      <3> QED BY <3>1, <3>2
    <2>2. overlay[Upto(p, n)] = "object" /\ (n = N => base[p] = "object")
      BY <1>7, <2>1 DEF Stands, N
    <2>3. base[Upto(p, n)] = "object"
      <3>1. CASE n = N
        BY <1>2, <2>2, <3>1
      <3>2. CASE n # N
        <4>1. n < N
          BY <1>1, <3>2
        <4> QED BY <1>1, <4>1
      <3> QED BY <3>1, <3>2
    <2> QED BY <1>6, <2>2, <2>3
  <1>8. ASSUME \A n \in 0..N : c[n] => Meets(n),
               NEW n \in 0..N, Upto(p, n) \in DOMAIN overlay
        PROVE  c[n]
    <2> DEFINE Come == {m \in 0..n : c[m]}
    <2>1. n \in Nat /\ \A m \in 0..n : m \in 0..N
      BY <1>1
    <2>2. 0 \in Come
      BY <1>3, <2>1
    <2>3. ASSUME NEW m \in 1..n, m - 1 \in Come
          PROVE  m \in Come
      <3>1. c[m - 1] /\ m - 1 \in 0..N /\ m \in 1..N /\ m \in 0..n /\ m \in 0..N
        BY <1>1, <2>1, <2>3
      <3>2. Meets(m - 1)
        BY <1>8, <3>1
      <3>3. Upto(p, m) \in DOMAIN base
        BY <1>1, <3>1
      <3>4. Upto(p, m) \in DOMAIN overlay
        <4>1. PICK q \in DOMAIN overlay : q = Upto(p, n)
          BY <1>8
        <4>2. m \in 0..Len(q)
          BY <1>2, <3>1, <4>1
        <4>3. Upto(q, m) \in DOMAIN overlay
          BY <4>2, JsonFacts
        <4>4. Upto(q, m) = Upto(p, m)
          BY <1>2, <3>1, <4>1
        <4> QED BY <4>3, <4>4
      <3>5. c[m]
        BY <1>3, <3>1, <3>2, <3>3, <3>4
      <3> QED BY <3>1, <3>5
    <2>4. 0..n \subseteq Come
      <3> HIDE DEF Come
      <3> QED BY <2>1, <2>2, <2>3, RangeInduction
    <2> QED BY <2>1, <2>4
  <1>9. ASSUME \A n \in 0..N : c[n] => Meets(n)
        PROVE  Stands(p, base[p], overlay)
    <2> SUFFICES ASSUME NEW n \in 0..N, Upto(p, n) \in DOMAIN overlay
                 PROVE  overlay[Upto(p, n)] = "object" /\ (n = N => base[p] = "object")
      BY DEF Stands, N
    <2>1. c[n]
      BY <1>8, <1>9
    <2>2. Meets(n)
      BY <1>9, <2>1
    <2>3. base[Upto(p, n)] = "object" /\ overlay[Upto(p, n)] = "object"
      BY <1>6, <2>2
    <2> QED BY <1>2, <2>3
  <1>10. ~Replaced(base, overlay, p) <=> \A n \in 0..N : c[n] => Meets(n)
    BY <1>5
  <1>11. Stands(p, base[p], overlay) => \A n \in 0..N : c[n] => Meets(n)
    BY <1>7
  <1> QED BY <1>9, <1>10, <1>11

\* The places that merge_json leaves.
Kept(base, overlay) == {p \in DOMAIN base : Stands(p, base[p], overlay)}

\* What merging gives.
Merged(m, base, overlay) ==
  /\ DOMAIN m = Kept(base, overlay) \cup DOMAIN overlay
  /\ \A p \in DOMAIN overlay : m[p] = overlay[p]
  /\ \A p \in Kept(base, overlay) : p \notin DOMAIN overlay => m[p] = base[p]

LEMMA MergeFacts ==
  ASSUME NEW base, IsJson(base), NEW overlay, IsJson(overlay)
  PROVE  Merged(Merge(base, overlay), base, overlay)
  <1> DEFINE kept == Kept(base, overlay)
             merged == {p \in DOMAIN base : ~Replaced(base, overlay, p)}
  <1>1. \A p \in DOMAIN base : ~Replaced(base, overlay, p) <=> Stands(p, base[p], overlay)
    BY KeptOutlive
  <1>2. kept = merged
    BY <1>1, Zenon DEF Kept
  <1>3. Merge(base, overlay)
          = [p \in merged \cup DOMAIN overlay |-> IF p \in DOMAIN overlay THEN overlay[p] ELSE base[p]]
    BY DEF Merge
  <1> HIDE DEF merged, kept
  <1>4. Merge(base, overlay)
          = [p \in kept \cup DOMAIN overlay |-> IF p \in DOMAIN overlay THEN overlay[p] ELSE base[p]]
    BY <1>2, <1>3
  <1>5. PICK m : m = Merge(base, overlay)
    OBVIOUS
  <1>6. /\ DOMAIN m = kept \cup DOMAIN overlay
        /\ \A p \in DOMAIN overlay : m[p] = overlay[p]
        /\ \A p \in kept : p \notin DOMAIN overlay => m[p] = base[p]
    BY <1>4, <1>5
  <1> QED BY <1>5, <1>6 DEF kept, Merged

\* JSON merged over JSON is JSON.
LEMMA MergeIsJson ==
  ASSUME NEW base, IsJson(base), NEW overlay, IsJson(overlay)
  PROVE  IsJson(Merge(base, overlay))
  <1>0. PICK kept : kept = Kept(base, overlay) /\ kept = {p \in DOMAIN base : Stands(p, base[p], overlay)}
    BY DEF Kept
  <1>1. PICK m : m = Merge(base, overlay)
    OBVIOUS
  <1>2. /\ DOMAIN m = kept \cup DOMAIN overlay
        /\ \A p \in DOMAIN overlay : m[p] = overlay[p]
        /\ \A p \in kept : p \notin DOMAIN overlay => m[p] = base[p]
        /\ m = [p \in DOMAIN m |-> m[p]]
    <2>1. /\ DOMAIN m = kept \cup DOMAIN overlay
          /\ \A p \in DOMAIN overlay : m[p] = overlay[p]
          /\ \A p \in kept : p \notin DOMAIN overlay => m[p] = base[p]
      <3>1. Merged(m, base, overlay)
        BY <1>1, MergeFacts
      <3> QED BY <1>0, <3>1 DEF Merged
    <2>2. m = [p \in DOMAIN m |-> m[p]]
      BY <1>1 DEF Merge
    <2> QED BY <2>1, <2>2
  <1>3. << >> \in DOMAIN m
    BY <1>2 DEF IsJson
  <1>4. ASSUME NEW p \in DOMAIN m, NEW n \in 0..Len(p)
        PROVE  /\ p \in Seq(JsonKeys) /\ Upto(p, n) \in DOMAIN m
               /\ n < Len(p) => m[Upto(p, n)] = "object"
    <2>1. CASE p \in DOMAIN overlay
      <3>1. /\ p \in Seq(JsonKeys) /\ Upto(p, n) \in DOMAIN overlay
            /\ n < Len(p) => overlay[Upto(p, n)] = "object"
        BY <2>1, JsonFacts
      <3> QED BY <1>2, <3>1
    <2>2. CASE p \in kept
      <3>1. /\ p \in Seq(JsonKeys) /\ Len(p) \in Nat /\ Upto(p, n) \in DOMAIN base
            /\ n < Len(p) => base[Upto(p, n)] = "object"
        BY <1>0, <2>2, JsonFacts
      <3>2. PICK q \in DOMAIN base : q = Upto(p, n)
        BY <3>1
      <3>3. Len(q) = n /\ \A k \in 0..n : Upto(q, k) = Upto(p, k)
        BY <3>1, <3>2, UptoFacts
      <3>4. Stands(p, base[p], overlay)
        BY <1>0, <2>2
      <3>5. CASE q \in DOMAIN overlay
        <4>1. overlay[q] = "object"
          BY <3>2, <3>4, <3>5 DEF Stands
        <4> QED BY <1>2, <3>1, <3>2, <3>5, <4>1
      <3>6. CASE q \notin DOMAIN overlay
        <4>1. ASSUME NEW k \in 0..Len(q), Upto(q, k) \in DOMAIN overlay
              PROVE  overlay[Upto(q, k)] = "object" /\ k # Len(q)
          <5>1. k \in 0..Len(p) /\ Upto(q, k) = Upto(p, k)
            BY <3>1, <3>3
          <5>2. overlay[Upto(p, k)] = "object"
            BY <3>4, <4>1, <5>1 DEF Stands
          <5>3. k = n => Upto(q, k) = q
            BY <3>2, <5>1
          <5> QED BY <3>3, <3>6, <4>1, <5>1, <5>2, <5>3
        <4>2. Stands(q, base[q], overlay)
          BY <4>1 DEF Stands
        <4>3. q \in kept /\ m[q] = base[q]
          BY <1>0, <1>2, <3>6, <4>2
        <4> QED BY <1>2, <3>1, <3>2, <4>3
      <3> QED BY <3>5, <3>6
    <2> QED BY <1>2, <2>1, <2>2
  <1>5. \A p \in DOMAIN m : p \in Seq(JsonKeys)
    <2> SUFFICES ASSUME NEW p \in DOMAIN m
                 PROVE  p \in Seq(JsonKeys)
      OBVIOUS
    <2>1. p \in DOMAIN overlay \/ p \in DOMAIN base
      BY <1>0, <1>2
    <2> QED BY <2>1, JsonFacts
  <1>6. IsJson(m)
    BY <1>2, <1>3, <1>4, <1>5 DEF IsJson
  <1> QED BY <1>1, <1>6

\* The places after merging: those of the overlay, and those that outlive it.
LEMMA MergedPlaces ==
  ASSUME NEW base, IsJson(base), NEW overlay, IsJson(overlay)
  PROVE  Places(Merge(base, overlay))
           = Places(overlay) \cup {p \in Places(base) : Outlives(p, overlay)}
  <1>0. PICK kept : kept = Kept(base, overlay) /\ kept = {p \in DOMAIN base : Stands(p, base[p], overlay)}
    BY DEF Kept
  <1> DEFINE At(p, is) == [path |-> p, is |-> is]
             outlived == {p \in Places(base) : Outlives(p, overlay)}
  <1>1. PICK m : m = Merge(base, overlay)
    OBVIOUS
  <1>2. /\ DOMAIN m = kept \cup DOMAIN overlay
        /\ \A p \in DOMAIN overlay : m[p] = overlay[p]
        /\ \A p \in kept : p \notin DOMAIN overlay => m[p] = base[p]
    <2>1. Merged(m, base, overlay)
      BY <1>1, MergeFacts
    <2> QED BY <1>0, <2>1 DEF Merged
  <1>3. \A p, is : Outlives(At(p, is), overlay) <=> Stands(p, is, overlay)
    BY DEF Outlives, Stands
  <1>4. ASSUME NEW p \in kept
        PROVE  m[p] = base[p]
    <2>1. CASE p \in DOMAIN overlay
      <3>1. p \in Seq(JsonKeys) /\ Len(p) \in Nat /\ Len(p) \in 0..Len(p) /\ Upto(p, Len(p)) = p
        BY <1>0, JsonFacts, UptoFacts
      <3>2. overlay[p] = "object" /\ base[p] = "object"
        BY <1>0, <2>1, <3>1 DEF Stands
      <3> QED BY <1>2, <2>1, <3>2
    <2> QED BY <1>2, <2>1
  <1>5. outlived = {At(p, base[p]) : p \in kept}
    <2>1. ASSUME NEW x \in outlived
          PROVE  \E p \in kept : x = At(p, base[p])
      <3>1. PICK p \in DOMAIN base : x = At(p, base[p]) /\ Outlives(x, overlay)
        BY DEF Places
      <3>2. Stands(p, base[p], overlay)
        BY <1>3, <3>1
      <3> QED BY <1>0, <3>1, <3>2
    <2>2. ASSUME NEW p \in kept
          PROVE  At(p, base[p]) \in outlived
      <3>1. Outlives(At(p, base[p]), overlay)
        BY <1>0, <1>3
      <3>2. At(p, base[p]) \in Places(base)
        BY <1>0 DEF Places
      <3> HIDE DEF At
      <3> QED BY <3>1, <3>2
    <2> HIDE DEF At, outlived
    <2> QED BY <2>1, <2>2
  <1>6. Places(m) = {At(p, m[p]) : p \in DOMAIN m} /\ Places(overlay) = {At(p, overlay[p]) : p \in DOMAIN overlay}
    BY DEF Places
  <1> HIDE DEF At, outlived
  <1>7. {At(p, m[p]) : p \in DOMAIN m}
          = {At(p, base[p]) : p \in kept} \cup {At(p, overlay[p]) : p \in DOMAIN overlay}
    BY <1>2, <1>4
  <1>8. Places(m) = Places(overlay) \cup outlived
    BY <1>5, <1>6, <1>7
  <1> QED BY <1>1, <1>8 DEF outlived

\* The places that are left when values are merged one over another.
Standing(all) ==
  UNION {{p \in Places(all[i]) : \A k \in i + 1 .. Len(all) : Outlives(p, all[k])} : i \in DOMAIN all}

LEMMA StandingGrows ==
  ASSUME NEW S, NEW all \in Seq(S), NEW j \in S
  PROVE  Standing(Append(all, j)) = Places(j) \cup {p \in Standing(all) : Outlives(p, j)}
  <1>1. /\ Append(all, j) \in Seq(S) /\ Len(all) \in Nat /\ DOMAIN all = 1..Len(all)
        /\ DOMAIN Append(all, j) = 1..(Len(all) + 1) /\ Len(Append(all, j)) = Len(all) + 1
        /\ \A i \in 1..Len(all) : Append(all, j)[i] = all[i]
        /\ Append(all, j)[Len(all) + 1] = j
    BY BehindFacts
  <1>2. PICK more \in Seq(S) : more = Append(all, j)
    BY <1>1
  <1> DEFINE N == Len(all)
             From(s, i) == {p \in Places(s[i]) : \A k \in i + 1 .. Len(s) : Outlives(p, s[k])}
  <1>3. ASSUME NEW i \in 1..N
        PROVE  From(more, i) = {p \in From(all, i) : Outlives(p, j)}
    <2>1. more[i] = all[i]
      BY <1>1, <1>2
    <2>2. i + 1 .. Len(more) = (i + 1 .. N) \cup {N + 1}
      BY <1>1, <1>2
    <2>3. ASSUME NEW p
          PROVE  (\A k \in i + 1 .. Len(more) : Outlives(p, more[k]))
                   <=> (\A k \in i + 1 .. N : Outlives(p, all[k])) /\ Outlives(p, j)
      <3>1. \A k \in i + 1 .. N : more[k] = all[k]
        BY <1>1, <1>2
      <3>2. more[N + 1] = j
        BY <1>1, <1>2
      <3> HIDE DEF N
      <3> QED BY <2>2, <3>1, <3>2
    <2> QED BY <2>1, <2>3
  <1>4. From(more, N + 1) = Places(j)
    <2>1. more[N + 1] = j /\ N + 1 + 1 .. Len(more) = {}
      BY <1>1, <1>2
    <2> QED BY <2>1
  <1>5. 1..(N + 1) = (1..N) \cup {N + 1}
    BY <1>1
  <1>6. Standing(more) = UNION {From(more, i) : i \in 1..(N + 1)}
    BY <1>1, <1>2 DEF Standing
  <1>7. Standing(all) = UNION {From(all, i) : i \in 1..N}
    BY <1>1 DEF Standing
  <1> HIDE DEF From, N
  <1>8. ASSUME NEW p
        PROVE  p \in Standing(more) <=> p \in Places(j) \/ (p \in Standing(all) /\ Outlives(p, j))
    <2>1. p \in Standing(more) <=> \E i \in 1..(N + 1) : p \in From(more, i)
      BY <1>6, Zenon
    <2>2. p \in Standing(all) <=> \E i \in 1..N : p \in From(all, i)
      BY <1>7, Zenon
    <2>3. \A i \in 1..N : p \in From(more, i) <=> p \in From(all, i) /\ Outlives(p, j)
      BY <1>3
    <2>4. p \in From(more, N + 1) <=> p \in Places(j)
      BY <1>4
    <2>5. (\E i \in 1..(N + 1) : p \in From(more, i))
            <=> (\E i \in 1..N : p \in From(more, i)) \/ p \in From(more, N + 1)
      BY <1>5, Zenon
    <2> QED BY <2>1, <2>2, <2>3, <2>4, <2>5, Zenon
  <1>9. Standing(more) = Places(j) \cup {p \in Standing(all) : Outlives(p, j)}
    BY <1>8, Zenon
  <1> QED BY <1>2, <1>9

LEMMA EmptyIsJson == IsJson(Empty) /\ IsObject(Empty) /\ DOMAIN Empty = {<< >>} /\ Empty[<< >>] = "object"
  <1>1. Empty = [p \in {<< >>} |-> "object"]
    BY DEF Empty, Object
  <1>2. DOMAIN Empty = {<< >>} /\ Empty[<< >>] = "object" /\ Empty = [p \in DOMAIN Empty |-> Empty[p]]
    BY <1>1
  <1>3. /\ << >> \in Seq(JsonKeys) /\ 0..Len(<< >>) = {0}
        /\ Upto(<< >>, 0) = << >> /\ ~(0 < Len(<< >>))
    BY DEF Upto
  <1> HIDE DEF Empty
  <1> QED BY <1>2, <1>3 DEF IsJson, IsObject

\* What is known of the bodies.
BodiesHold(s, b) == s \in Seq(Bodies) /\ IsJson(b) /\ Places(b) = Standing(<<Empty>> \o s)
BodiesInv == BodiesHold(bodies, body)

LEMMA BodiesStart == RequestInit => BodiesInv
  <1> SUFFICES ASSUME RequestInit
               PROVE  BodiesInv
    OBVIOUS
  <1>1. bodies = << >> /\ body = Empty
    BY DEF RequestInit
  <1> DEFINE all == <<Empty>> \o << >>
  <1>2. all = <<Empty>>
    OBVIOUS
  <1>3. PICK one : one = <<Empty>>
    OBVIOUS
  <1>4. DOMAIN one = {1} /\ one[1] = Empty /\ Len(one) = 1
    <2>1. PICK e : e = Empty
      OBVIOUS
    <2>2. DOMAIN <<e>> = {1} /\ <<e>>[1] = e /\ Len(<<e>>) = 1
      <3>1. e \in {e}
        OBVIOUS
      <3> QED BY <3>1, OneItem
    <2>3. one = <<e>>
      BY <1>3, <2>1
    <2> QED BY <2>1, <2>2, <2>3
  <1>5. 1 + 1 .. 1 = {}
    OBVIOUS
  <1>6. Standing(one) = Places(Empty)
    BY <1>4, <1>5 DEF Standing
  <1> HIDE DEF all
  <1>7. Places(Empty) = Standing(<<Empty>> \o << >>)
    BY <1>2, <1>3, <1>6 DEF all
  <1>8. << >> \in Seq(Bodies)
    OBVIOUS
  <1> QED BY <1>1, <1>7, <1>8, EmptyIsJson DEF BodiesInv, BodiesHold

LEMMA BodiesStep == BodiesInv /\ [RequestNext]_requestVars => BodiesInv'
  <1> SUFFICES ASSUME BodiesInv, [RequestNext]_requestVars
               PROVE  BodiesInv'
    OBVIOUS
  <1>1. BodiesHold(bodies, body)
    BY DEF BodiesInv
  <1>2. ASSUME UNCHANGED <<bodies, body>>
        PROVE  BodiesInv'
    BY <1>1, <1>2 DEF BodiesInv
  <1>3. ASSUME NEW j \in Bodies, GiveBody(j)
        PROVE  BodiesInv'
    <2>1. bodies' = Append(bodies, j) /\ body' = Merge(body, j)
      BY <1>3 DEF GiveBody
    <2>2. IsJson(j)
      BY RequestAssumption
    <2>3. PICK b, s : b = body /\ s = bodies
      OBVIOUS
    <2>4. s \in Seq(Bodies) /\ IsJson(b) /\ Places(b) = Standing(<<Empty>> \o s)
      BY <1>1, <2>3 DEF BodiesHold
    <2>5. IsJson(Merge(b, j)) /\ Append(s, j) \in Seq(Bodies)
      BY <2>2, <2>4, MergeIsJson, AppendProperties
    <2> DEFINE S == Bodies \cup {Empty}
    <2>6. s \in Seq(S) /\ j \in S /\ Empty \in S
      <3>1. Bodies \subseteq S
        OBVIOUS
      <3> HIDE DEF S
      <3>2. s \in Seq(S)
        BY <2>4, <3>1, SeqMonotonic
      <3> QED BY <3>1, <3>2 DEF S
    <2> HIDE DEF S
    <2>7. PICK all \in Seq(S) : all = <<Empty>> \o s /\ Append(all, j) = <<Empty>> \o Append(s, j)
      <3>1. PICK one \in Seq(S) : one = <<Empty>>
        <4>1. PICK e \in S : e = Empty
          BY <2>6
        <4>2. <<e>> \in Seq(S)
          BY OneItem
        <4> QED BY <4>1, <4>2
      <3>2. PICK all \in Seq(S) : all = one \o s
        <4>1. one \o s \in Seq(S)
          BY <2>6
        <4> QED BY <4>1
      <3>3. Append(all, j) = one \o Append(s, j)
        BY <2>6, <3>2
      <3> QED BY <3>1, <3>2, <3>3
    <2>9. Places(b) = Standing(all)
      BY <2>4, <2>7
    <2>10. Places(Merge(b, j)) = Standing(Append(all, j))
      <3>1. Places(Merge(b, j)) = Places(j) \cup {p \in Places(b) : Outlives(p, j)}
        BY <2>2, <2>4, MergedPlaces
      <3>2. Standing(Append(all, j)) = Places(j) \cup {p \in Standing(all) : Outlives(p, j)}
        BY <2>6, StandingGrows
      <3> QED BY <2>9, <3>1, <3>2
    <2>11. PICK c, t : c = Merge(b, j) /\ t = Append(s, j)
      OBVIOUS
    <2>12. body' = c /\ bodies' = t
      BY <2>1, <2>3, <2>11
    <2>13. Places(c) = Standing(<<Empty>> \o t)
      BY <2>7, <2>10, <2>11
    <2>14. BodiesHold(t, c)
      BY <2>5, <2>11, <2>13 DEF BodiesHold
    <2> QED BY <2>12, <2>14 DEF BodiesInv
  <1>4. ASSUME NEW name, NEW value, GiveHeader(name, value)
        PROVE  BodiesInv'
    BY <1>2, <1>4 DEF GiveHeader
  <1>5. ASSUME NEW m, Connect(m)
        PROVE  BodiesInv'
    BY <1>2, <1>5 DEF Connect, endpoint
  <1>6. ASSUME NEW kind, NEW own, Send(kind, own)
        PROVE  BodiesInv'
    BY <1>2, <1>6 DEF Send, endpoint
  <1>7. CASE SendRequest \/ SendNotification
    BY <1>6, <1>7 DEF SendRequest, SendNotification
  <1>8. ASSUME NEW name, AskModel(name)
        PROVE  BodiesInv'
    BY <1>6, <1>8 DEF AskModel
  <1>9. CASE Finished \/ UNCHANGED requestVars
    BY <1>2, <1>9 DEF Finished, requestVars, endpoint
  <1> QED BY <1>3, <1>4, <1>5, <1>7, <1>8, <1>9 DEF RequestNext

\* Bodies given for an endpoint are merged: what stands in the merged body is what
\* was given and not replaced by a body given later (add_body_json).
THEOREM NestedObjectsMerge == RequestSpec => []BodiesMerge
  <1>1. RequestSpec => []BodiesInv
    BY BodiesStart, BodiesStep, PTL DEF RequestSpec
  <1>2. BodiesInv => BodiesMerge
    BY DEF BodiesInv, BodiesHold, BodiesMerge, Standing
  <1> QED BY <1>1, <1>2, PTL
-----------------------------------------------------------------------------
(* Messages *)

LEMMA UptoItems ==
  ASSUME NEW S, NEW p \in Seq(S), NEW n \in 0..Len(p)
  PROVE  Upto(p, n) \in Seq(S) /\ Len(Upto(p, n)) = n /\ \A i \in 1..n : Upto(p, n)[i] = p[i]
  <1>1. Len(p) \in Nat
    OBVIOUS
  <1> QED BY <1>1 DEF Upto

\* The place of q in the field k.
Under(k, q) == <<k>> \o q

LEMMA UnderFacts ==
  ASSUME NEW S, NEW k \in S, NEW q \in Seq(S)
  PROVE  /\ Under(k, q) \in Seq(S) /\ Under(k, q) # << >>
         /\ Len(q) \in Nat /\ Len(Under(k, q)) = Len(q) + 1
         /\ Head(Under(k, q)) = k /\ (Under(k, q))[1] = k /\ Tail(Under(k, q)) = q
         /\ \A n \in 1..Len(q) + 1 : Upto(Under(k, q), n) = Under(k, Upto(q, n - 1))
  <1>1. PICK one \in Seq(S) : one = <<k>> /\ Len(one) = 1 /\ one[1] = k
    BY OneItem
  <1>2. PICK p \in Seq(S) : p = one \o q
    <2>1. one \o q \in Seq(S)
      OBVIOUS
    <2> QED BY <2>1
  <1>3. Len(q) \in Nat /\ Len(p) = Len(q) + 1 /\ p[1] = k
        /\ \A i \in 1..Len(q) : p[i + 1] = q[i]
    BY <1>1, <1>2
  <1>4. p # << >> /\ Head(p) = k
    BY <1>3
  <1>5. Tail(p) = q
    <2>1. Tail(p) \in Seq(S) /\ Len(Tail(p)) = Len(q)
      BY <1>3, <1>4
    <2>2. \A i \in 1..Len(q) : Tail(p)[i] = q[i]
      BY <1>3, <1>4
    <2> QED BY <2>1, <2>2, SeqEqual
  <1>6. ASSUME NEW n \in 1..Len(q) + 1
        PROVE  Upto(p, n) = one \o Upto(q, n - 1)
    <2>1. n \in 0..Len(p) /\ n - 1 \in 0..Len(q)
      BY <1>3
    <2>2. PICK u \in Seq(S) : u = Upto(p, n) /\ Len(u) = n /\ \A i \in 1..n : u[i] = p[i]
      BY <2>1, UptoItems
    <2>3. PICK v \in Seq(S) : v = Upto(q, n - 1) /\ Len(v) = n - 1 /\ \A i \in 1..(n - 1) : v[i] = q[i]
      BY <2>1, UptoItems
    <2>4. one \o v \in Seq(S) /\ Len(one \o v) = n
      BY <1>1, <2>1, <2>3
    <2>5. \A i \in 1..n : u[i] = (one \o v)[i]
      <3> SUFFICES ASSUME NEW i \in 1..n
                   PROVE  u[i] = (one \o v)[i]
        OBVIOUS
      <3>1. CASE i = 1
        BY <1>1, <1>3, <2>2, <2>3, <3>1
      <3>2. CASE i # 1
        <4>1. i - 1 \in 1..(n - 1) /\ i - 1 \in 1..Len(q)
          BY <2>1, <3>2
        <4>2. (one \o v)[i] = v[i - 1]
          BY <1>1, <2>1, <2>3, <3>2
        <4>3. p[i] = q[i - 1]
          <5>1. p[(i - 1) + 1] = q[i - 1]
            BY <1>3, <4>1
          <5>2. (i - 1) + 1 = i
            BY <2>1
          <5> QED BY <5>1, <5>2
        <4> QED BY <2>2, <2>3, <4>1, <4>2, <4>3
      <3> QED BY <3>1, <3>2
    <2>6. u = one \o v
      BY <2>2, <2>4, <2>5, SeqEqual
    <2> QED BY <2>2, <2>3, <2>6
  <1> QED BY <1>1, <1>2, <1>3, <1>4, <1>5, <1>6 DEF Under

LEMMA AtomIsJson == ASSUME NEW v PROVE IsJson(Atom(v))
  <1>1. DOMAIN Atom(v) = {<< >>} /\ Atom(v) = [p \in DOMAIN Atom(v) |-> Atom(v)[p]]
    BY DEF Atom
  <1>2. /\ << >> \in Seq(JsonKeys) /\ 0..Len(<< >>) = {0}
        /\ Upto(<< >>, 0) = << >> /\ ~(0 < Len(<< >>))
    BY DEF Upto
  <1> HIDE DEF Atom
  <1> QED BY <1>1, <1>2 DEF IsJson

\* An object of JSON values is JSON.
LEMMA ObjectIsJson ==
  ASSUME NEW D \in SUBSET JsonKeys, NEW fields, DOMAIN fields = D,
         \A k \in D : IsJson(fields[k])
  PROVE  IsJson(Object(fields)) /\ IsObject(Object(fields))
  <1>1. PICK j : j = Object(fields)
    OBVIOUS
  <1>2. ASSUME NEW p
        PROVE  p \in DOMAIN j <=> p = << >> \/ \E k \in D : \E q \in DOMAIN fields[k] : p = Under(k, q)
    <2>1. DOMAIN j = {<< >>} \cup UNION {{Under(k, q) : q \in DOMAIN fields[k]} : k \in D}
      BY <1>1 DEF Object, Under
    <2> DEFINE Of(k) == {Under(k, q) : q \in DOMAIN fields[k]}
    <2>2. \A k : p \in Of(k) <=> \E q \in DOMAIN fields[k] : p = Under(k, q)
      OBVIOUS
    <2>3. DOMAIN j = {<< >>} \cup UNION {Of(k) : k \in D}
      BY <2>1
    <2> HIDE DEF Of
    <2>4. p \in UNION {Of(k) : k \in D} <=> \E k \in D : p \in Of(k)
      BY Zenon
    <2> QED BY <2>2, <2>3, <2>4
  <1>3. /\ j = [p \in DOMAIN j |-> j[p]]
        /\ \A p \in DOMAIN j : j[p] = IF p = << >> THEN "object" ELSE fields[Head(p)][Tail(p)]
    BY <1>1 DEF Object
  <1>4. << >> \in DOMAIN j /\ j[<< >>] = "object"
    BY <1>2, <1>3
  <1>5. ASSUME NEW k \in D, NEW q \in DOMAIN fields[k]
        PROVE  q \in Seq(JsonKeys) /\ k \in JsonKeys
    BY JsonFacts
  <1>6. ASSUME NEW k \in D, NEW q \in DOMAIN fields[k], NEW p, p = Under(k, q)
        PROVE  p \in DOMAIN j /\ j[p] = fields[k][q]
    <2>1. p # << >> /\ Head(p) = k /\ Tail(p) = q
      <3>1. q \in Seq(JsonKeys) /\ k \in JsonKeys
        BY <1>5
      <3>2. Under(k, q) # << >> /\ Head(Under(k, q)) = k /\ Tail(Under(k, q)) = q
        BY <3>1, UnderFacts
      <3> QED BY <1>6, <3>2
    <2>2. p \in DOMAIN j
      BY <1>2, <1>6
    <2> QED BY <1>3, <2>1, <2>2
  <1>7. ASSUME NEW p \in DOMAIN j
        PROVE  /\ p \in Seq(JsonKeys)
               /\ \A n \in 0..Len(p) : Upto(p, n) \in DOMAIN j /\ (n < Len(p) => j[Upto(p, n)] = "object")
    <2>1. CASE p = << >>
      <3>1. << >> \in Seq(JsonKeys) /\ 0..Len(<< >>) = {0} /\ Upto(<< >>, 0) = << >> /\ ~(0 < Len(<< >>))
        BY DEF Upto
      <3> QED BY <1>4, <2>1, <3>1
    <2>2. CASE p # << >>
      <3>1. PICK k \in D : \E q \in DOMAIN fields[k] : p = Under(k, q)
        BY <1>2, <2>2
      <3>2. PICK q \in DOMAIN fields[k] : p = Under(k, q)
        BY <3>1
      <3>3. q \in Seq(JsonKeys) /\ k \in JsonKeys
        BY <1>5
      <3>4. /\ p \in Seq(JsonKeys) /\ Len(q) \in Nat /\ Len(p) = Len(q) + 1
            /\ \A n \in 1..Len(q) + 1 : Upto(p, n) = Under(k, Upto(q, n - 1))
        <4>1. /\ Under(k, q) \in Seq(JsonKeys) /\ Len(q) \in Nat /\ Len(Under(k, q)) = Len(q) + 1
              /\ \A n \in 1..Len(q) + 1 : Upto(Under(k, q), n) = Under(k, Upto(q, n - 1))
          BY <3>3, UnderFacts
        <4> QED BY <3>2, <4>1
      <3>5. ASSUME NEW n \in 0..Len(p)
            PROVE  Upto(p, n) \in DOMAIN j /\ (n < Len(p) => j[Upto(p, n)] = "object")
        <4>1. CASE n = 0
          <5>1. Upto(p, 0) = << >>
            BY <3>4, UptoFacts
          <5> QED BY <1>4, <4>1, <5>1
        <4>2. CASE n # 0
          <5>1. n \in 1..Len(q) + 1 /\ n - 1 \in 0..Len(q) /\ (n < Len(p) => n - 1 < Len(q))
            BY <3>4, <4>2
          <5>2. PICK r : r = Upto(q, n - 1)
            OBVIOUS
          <5>3. r \in DOMAIN fields[k] /\ (n < Len(p) => fields[k][r] = "object")
            <6>1. IsJson(fields[k])
              OBVIOUS
            <6> QED BY <5>1, <5>2, <6>1, JsonFacts
          <5>4. PICK u : u = Upto(p, n) /\ u = Under(k, r)
            BY <3>4, <5>1, <5>2
          <5>5. u \in DOMAIN j /\ j[u] = fields[k][r]
            BY <1>6, <5>3, <5>4
          <5> QED BY <5>3, <5>4, <5>5
        <4> QED BY <4>1, <4>2
      <3> QED BY <3>4, <3>5
    <2> QED BY <2>1, <2>2
  <1>8. IsJson(j)
    BY <1>3, <1>4, <1>7 DEF IsJson
  <1> QED BY <1>1, <1>4, <1>8 DEF IsObject

LEMMA MessageIsJson ==
  ASSUME NEW fields \in SUBSET JsonKeys
  PROVE  IsJson(Message(fields)) /\ IsObject(Message(fields))
  <1> DEFINE name == [f \in {"name"} |-> Atom("own")]
             said == [k \in fields |-> IF k = "params" THEN Object(name) ELSE Atom("own")]
  <1>1. IsJson(Atom("own"))
    BY AtomIsJson
  <1>2. IsJson(Object(name))
    <2>1. {"name"} \in SUBSET JsonKeys
      BY RequestAssumption
    <2>2. DOMAIN name = {"name"} /\ \A k \in {"name"} : IsJson(name[k])
      BY <1>1
    <2> HIDE DEF name
    <2> QED BY <2>1, <2>2, ObjectIsJson
  <1>3. DOMAIN said = fields /\ \A k \in fields : IsJson(said[k])
    <2> HIDE DEF name
    <2> QED BY <1>1, <1>2
  <1>4. IsJson(Object(said)) /\ IsObject(Object(said))
    <2> HIDE DEF said
    <2> QED BY <1>3, ObjectIsJson
  <1> QED BY <1>4 DEF Message

Completed(base, own) ==
  LET merged == Merge(base, own)
      rest == {p \in DOMAIN merged : p # << >> => p[1] \notin KeysOf(own)}
  IN  [p \in DOMAIN own \cup rest |-> IF p \in DOMAIN own THEN own[p] ELSE merged[p]]

\* What stands in a message: all of its own, and of the defaults what is in no
\* field of its own.
LEMMA CompletedPlaces ==
  ASSUME NEW base, IsJson(base), NEW own, IsJson(own), IsObject(own), NEW p, p # << >>
  PROVE  LET all == Completed(base, own)
         IN  /\ p \in DOMAIN all <=> p \in DOMAIN own \/ (p \in DOMAIN base /\ p[1] \notin KeysOf(own))
             /\ p \in DOMAIN all => all[p] = IF p \in DOMAIN own THEN own[p] ELSE base[p]
  <1>0. PICK kept : kept = Kept(base, own) /\ kept = {q \in DOMAIN base : Stands(q, base[q], own)}
    BY DEF Kept
  <1>1. PICK m : m = Merge(base, own)
    OBVIOUS
  <1>2. /\ DOMAIN m = kept \cup DOMAIN own
        /\ \A q \in DOMAIN own : m[q] = own[q]
        /\ \A q \in kept : q \notin DOMAIN own => m[q] = base[q]
    <2>1. Merged(m, base, own)
      BY <1>1, MergeFacts
    <2> QED BY <1>0, <2>1 DEF Merged
  <1>3. PICK all : all = Completed(base, own)
    OBVIOUS
  <1> DEFINE rest == {q \in DOMAIN m : q # << >> => q[1] \notin KeysOf(own)}
  <1>4. /\ DOMAIN all = DOMAIN own \cup rest
        /\ \A q \in DOMAIN all : all[q] = IF q \in DOMAIN own THEN own[q] ELSE m[q]
    BY <1>1, <1>3 DEF Completed
  <1>5. p \in DOMAIN own => p[1] \in KeysOf(own)
    BY DEF KeysOf
  <1>6. ASSUME p \in DOMAIN base, p[1] \notin KeysOf(own)
        PROVE  p \in kept
    <2>1. p \in Seq(JsonKeys) /\ Len(p) \in Nat /\ Len(p) # 0
      <3>1. p \in Seq(JsonKeys)
        BY <1>6, JsonFacts
      <3> QED BY <3>1
    <2>2. ASSUME NEW n \in 0..Len(p), Upto(p, n) \in DOMAIN own
          PROVE  n = 0
      <3>1. SUFFICES ASSUME n # 0 PROVE FALSE
        OBVIOUS
      <3>2. PICK u : u = Upto(p, n)
        OBVIOUS
      <3>3. u # << >> /\ u[1] = p[1]
        BY <2>1, <3>1, <3>2, UptoFacts
      <3>4. u[1] \in KeysOf(own)
        BY <2>2, <3>2, <3>3 DEF KeysOf
      <3> QED BY <1>6, <3>3, <3>4
    <2>3. Upto(p, 0) = << >> /\ own[<< >>] = "object"
      BY <2>1, UptoFacts DEF IsObject
    <2>4. Stands(p, base[p], own)
      BY <2>1, <2>2, <2>3 DEF Stands
    <2> QED BY <1>0, <1>6, <2>4
  <1>7. p \in DOMAIN all <=> p \in DOMAIN own \/ (p \in DOMAIN base /\ p[1] \notin KeysOf(own))
    BY <1>0, <1>2, <1>4, <1>5, <1>6
  <1>8. ASSUME p \in DOMAIN all
        PROVE  all[p] = IF p \in DOMAIN own THEN own[p] ELSE base[p]
    BY <1>0, <1>2, <1>4, <1>6, <1>7, <1>8
  <1> QED BY <1>3, <1>7, <1>8

\* What OwnFieldsWin says of one message.
OwnFieldsKept(own, all, base) ==
  /\ IsObject(all)
  /\ KeysOf(all) = KeysOf(own) \cup KeysOf(base)
  /\ \A k \in KeysOf(own) : InField(all, k) = InField(own, k)
  /\ \A k \in KeysOf(all) \ KeysOf(own) : InField(all, k) = InField(base, k)

\* Values with the same places in a field have the same field.
LEMMA SameField ==
  ASSUME NEW i, NEW j, NEW k,
         \A p : p # << >> /\ p[1] = k =>
           /\ p \in DOMAIN i <=> p \in DOMAIN j
           /\ p \in DOMAIN j => i[p] = j[p]
  PROVE  InField(i, k) = InField(j, k)
  <1> DEFINE At(p, is) == [path |-> p, is |-> is]
             Of(v) == {p \in DOMAIN v : p # << >> /\ p[1] = k}
  <1>1. ASSUME NEW v
        PROVE  InField(v, k) = {At(p, v[p]) : p \in Of(v)}
    BY DEF InField, Places
  <1>2. Of(i) = Of(j) /\ \A p \in Of(j) : i[p] = j[p]
    OBVIOUS
  <1> HIDE DEF At, Of
  <1>3. {At(p, i[p]) : p \in Of(i)} = {At(p, j[p]) : p \in Of(j)}
    BY <1>2
  <1> QED BY <1>1, <1>3

LEMMA CompletedKeeps ==
  ASSUME NEW base, IsJson(base), NEW own, IsJson(own), IsObject(own)
  PROVE  OwnFieldsKept(own, Completed(base, own), base)
  <1>1. PICK all : all = Completed(base, own)
    OBVIOUS
  <1>2. ASSUME NEW p, p # << >>
        PROVE  /\ p \in DOMAIN all <=> p \in DOMAIN own \/ (p \in DOMAIN base /\ p[1] \notin KeysOf(own))
               /\ p \in DOMAIN all => all[p] = IF p \in DOMAIN own THEN own[p] ELSE base[p]
    BY <1>1, <1>2, CompletedPlaces
  <1>3. IsObject(all)
    <2>1. << >> \in DOMAIN own /\ own[<< >>] = "object"
      BY DEF IsJson, IsObject
    <2>2. << >> \in DOMAIN all /\ all[<< >>] = own[<< >>]
      BY <1>1, <2>1 DEF Completed
    <2> QED BY <2>1, <2>2 DEF IsObject
  <1>4. \A j, k : k \in KeysOf(j) <=> \E p \in DOMAIN j : p # << >> /\ p[1] = k
    BY DEF KeysOf
  <1>5. \A p : p # << >> => (p \in DOMAIN own => p[1] \in KeysOf(own))
    BY <1>4
  <1>6. KeysOf(all) = KeysOf(own) \cup KeysOf(base)
    <2>1. ASSUME NEW k
          PROVE  k \in KeysOf(all) <=> k \in KeysOf(own) \/ k \in KeysOf(base)
      <3>1. ASSUME k \in KeysOf(all)
            PROVE  k \in KeysOf(own) \/ k \in KeysOf(base)
        <4>1. PICK p \in DOMAIN all : p # << >> /\ p[1] = k
          BY <1>4, <3>1
        <4> QED BY <1>2, <1>4, <4>1
      <3>2. ASSUME k \in KeysOf(own)
            PROVE  k \in KeysOf(all)
        <4>1. PICK p \in DOMAIN own : p # << >> /\ p[1] = k
          BY <1>4, <3>2
        <4> QED BY <1>2, <1>4, <4>1
      <3>3. ASSUME k \in KeysOf(base), k \notin KeysOf(own)
            PROVE  k \in KeysOf(all)
        <4>1. PICK p \in DOMAIN base : p # << >> /\ p[1] = k
          BY <1>4, <3>3
        <4> QED BY <1>2, <1>4, <3>3, <4>1
      <3> QED BY <3>1, <3>2, <3>3
    <2> QED BY <2>1, Zenon
  <1>7. ASSUME NEW k \in KeysOf(own)
        PROVE  InField(all, k) = InField(own, k)
    <2>1. \A p : p # << >> /\ p[1] = k =>
            /\ p \in DOMAIN all <=> p \in DOMAIN own
            /\ p \in DOMAIN own => all[p] = own[p]
      BY <1>2
    <2> QED BY <2>1, SameField
  <1>8. ASSUME NEW k \in KeysOf(all) \ KeysOf(own)
        PROVE  InField(all, k) = InField(base, k)
    <2>1. \A p : p # << >> /\ p[1] = k =>
            /\ p \in DOMAIN all <=> p \in DOMAIN base
            /\ p \in DOMAIN base => all[p] = base[p]
      BY <1>2, <1>5
    <2> QED BY <2>1, SameField
  <1> QED BY <1>1, <1>3, <1>6, <1>7, <1>8 DEF OwnFieldsKept

\* There is a message only when one was sent, and then it is whole.
MessagesInv == (stage # "sent" => sent = NoMessage) /\ OwnFieldsWin

LEMMA MessagesStep == BodiesInv /\ MessagesInv /\ [RequestNext]_requestVars => MessagesInv'
  <1> SUFFICES ASSUME BodiesInv, MessagesInv, [RequestNext]_requestVars
               PROVE  MessagesInv'
    OBVIOUS
  <1>1. IsJson(body) /\ (stage # "sent" => sent = NoMessage) /\ OwnFieldsWin
    BY DEF BodiesInv, BodiesHold, MessagesInv
  <1>2. ASSUME sent' = NoMessage
        PROVE  MessagesInv'
    BY <1>2 DEF MessagesInv, OwnFieldsWin
  <1>3. ASSUME NEW kind, NEW fields \in SUBSET JsonKeys, Send(kind, Message(fields))
        PROVE  MessagesInv'
    <2>1. PICK own, base : own = Message(fields) /\ base = body
      OBVIOUS
    <2>2. PICK all : all = Completed(base, own)
      OBVIOUS
    <2>3. OwnFieldsKept(own, all, base)
      BY <1>1, <2>1, <2>2, MessageIsJson, CompletedKeeps
    <2>4. Complete(own) = all
      BY <2>1, <2>2 DEF Complete, Completed
    <2>5. sent'.own = own /\ sent'.payload = all /\ stage' = "sent" /\ body' = base
      BY <1>3, <2>1, <2>4 DEF Send, endpoint
    <2>6. OwnFieldsWin'
      BY <2>3, <2>5 DEF OwnFieldsWin, OwnFieldsKept
    <2> QED BY <2>5, <2>6 DEF MessagesInv
  <1>4. ASSUME NEW j, GiveBody(j)
        PROVE  MessagesInv'
    BY <1>1, <1>2, <1>4 DEF GiveBody, Giving
  <1>5. ASSUME NEW name, NEW value, GiveHeader(name, value)
        PROVE  MessagesInv'
    BY <1>1, <1>2, <1>5 DEF GiveHeader, Giving
  <1>6. ASSUME NEW m, Connect(m)
        PROVE  MessagesInv'
    BY <1>1, <1>2, <1>6 DEF Connect
  <1>7. CASE SendRequest
    <2>1. RpcFields \in SUBSET JsonKeys
      BY RequestAssumption
    <2> QED BY <1>3, <1>7, <2>1 DEF SendRequest
  <1>8. CASE SendNotification
    <2>1. RpcFields \ {"id"} \in SUBSET JsonKeys
      BY RequestAssumption
    <2> QED BY <1>3, <1>8, <2>1 DEF SendNotification
  <1>9. ASSUME NEW name, AskModel(name)
        PROVE  MessagesInv'
    <2>1. PICK fields : fields \in SUBSET ModelFields /\ Send("model", Message(fields))
      <3>1. PICK without \in SUBSET {"model", "tools"} : Send("model", Message(ModelFields \ without))
        BY <1>9 DEF AskModel
      <3> QED BY <3>1
    <2>2. fields \in SUBSET JsonKeys
      BY <2>1, RequestAssumption
    <2> QED BY <1>3, <2>1, <2>2
  <1>10. CASE Finished \/ UNCHANGED requestVars
    BY <1>1, <1>10 DEF Finished, requestVars, endpoint, MessagesInv, OwnFieldsWin
  <1> QED BY <1>4, <1>5, <1>6, <1>7, <1>8, <1>9, <1>10 DEF RequestNext

\* No body that was given changes what a message says itself, and each field of
\* it that the message does not say is sent with it (rpc_payload, chat).
THEOREM MessagesStayWhole == RequestSpec => []OwnFieldsWin
  <1>1. RequestInit => MessagesInv
    BY DEF RequestInit, MessagesInv, OwnFieldsWin
  <1>2. RequestSpec => []BodiesInv
    BY BodiesStart, BodiesStep, PTL DEF RequestSpec
  <1>3. MessagesInv => OwnFieldsWin
    BY DEF MessagesInv
  <1> QED BY <1>1, <1>2, <1>3, MessagesStep, PTL DEF RequestSpec

-----------------------------------------------------------------------------
(* Headers *)

\* What is known of the headers given: of each name, the last value is kept.
HeadersOf(g, h) ==
  /\ g \in Seq([name : HeaderNames, value : Values \cup References])
  /\ DOMAIN h = {g[i].name : i \in DOMAIN g}
  /\ \A n \in DOMAIN h : \E i \in DOMAIN g :
       /\ g[i].name = n /\ g[i].value = h[n]
       /\ \A j \in DOMAIN g : g[j].name = n => j <= i

HeadersInv == HeadersOf(given, headers)

LEMMA InsertKeeps ==
  ASSUME NEW g, NEW h, HeadersOf(g, h), NEW name \in HeaderNames, NEW value \in Values \cup References
  PROVE  HeadersOf(Append(g, [name |-> name, value |-> value]), Insert(h, name, value))
  <1> DEFINE S == [name : HeaderNames, value : Values \cup References]
             e == [name |-> name, value |-> value]
  <1>1. /\ g \in Seq(S) /\ DOMAIN h = {g[i].name : i \in DOMAIN g}
        /\ \A n \in DOMAIN h : \E i \in DOMAIN g :
             /\ g[i].name = n /\ g[i].value = h[n]
             /\ \A j \in DOMAIN g : g[j].name = n => j <= i
    BY DEF HeadersOf
  <1>2. e \in S /\ e.name = name /\ e.value = value
    OBVIOUS
  <1> HIDE DEF e, S
  <1>3. PICK more : more = Append(g, e)
    OBVIOUS
  <1>4. /\ more \in Seq(S) /\ Len(g) \in Nat /\ DOMAIN g = 1..Len(g)
        /\ DOMAIN more = 1..(Len(g) + 1)
        /\ \A i \in 1..Len(g) : more[i] = g[i]
        /\ more[Len(g) + 1] = e
    BY <1>1, <1>2, <1>3, BehindFacts
  <1>5. PICK k : k = Insert(h, name, value)
    OBVIOUS
  <1>6. /\ DOMAIN k = DOMAIN h \cup {name}
        /\ k[name] = value /\ \A n \in DOMAIN h : n # name => k[n] = h[n]
    BY <1>5 DEF Insert
  <1>7. DOMAIN k = {more[i].name : i \in DOMAIN more}
    <2>1. DOMAIN more = DOMAIN g \cup {Len(g) + 1} /\ \A i \in DOMAIN g : more[i] = g[i]
      BY <1>4
    <2>2. ASSUME NEW n
          PROVE  n \in DOMAIN k <=> \E i \in DOMAIN more : n = more[i].name
      <3>1. n \in DOMAIN h <=> \E i \in DOMAIN g : n = g[i].name
        BY <1>1
      <3>2. n \in DOMAIN k <=> n \in DOMAIN h \/ n = name
        BY <1>6
      <3> QED BY <1>2, <1>4, <2>1, <3>1, <3>2
    <2> QED BY <2>2, Zenon
  <1>8. ASSUME NEW n \in DOMAIN k
        PROVE  \E i \in DOMAIN more :
                 /\ more[i].name = n /\ more[i].value = k[n]
                 /\ \A j \in DOMAIN more : more[j].name = n => j <= i
    <2>1. CASE n = name
      <3>1. /\ Len(g) + 1 \in DOMAIN more
            /\ more[Len(g) + 1].name = n /\ more[Len(g) + 1].value = k[n]
        BY <1>2, <1>4, <1>6, <2>1
      <3>2. \A j \in DOMAIN more : j <= Len(g) + 1
        BY <1>4
      <3> QED BY <3>1, <3>2
    <2>2. CASE n # name
      <3>1. n \in DOMAIN h /\ k[n] = h[n]
        BY <1>6, <2>2
      <3>2. PICK i \in DOMAIN g : /\ g[i].name = n /\ g[i].value = h[n]
                                  /\ \A j \in DOMAIN g : g[j].name = n => j <= i
        BY <1>1, <3>1
      <3>3. i \in DOMAIN more /\ more[i] = g[i]
        BY <1>4
      <3>4. ASSUME NEW j \in DOMAIN more, more[j].name = n
            PROVE  j <= i
        <4>1. j # Len(g) + 1
          BY <1>2, <1>4, <2>2, <3>4
        <4>2. j \in DOMAIN g /\ more[j] = g[j]
          BY <1>4, <4>1
        <4> QED BY <3>2, <3>4, <4>2
      <3> QED BY <3>1, <3>2, <3>3, <3>4
    <2> QED BY <2>1, <2>2
  <1>9. HeadersOf(more, k)
    BY <1>4, <1>7, <1>8 DEF HeadersOf, S
  <1> QED BY <1>3, <1>5, <1>9 DEF e

LEMMA HeadersStep == HeadersInv /\ [RequestNext]_requestVars => HeadersInv'
  <1> SUFFICES ASSUME HeadersInv, [RequestNext]_requestVars
               PROVE  HeadersInv'
    OBVIOUS
  <1>1. ASSUME UNCHANGED <<given, headers>>
        PROVE  HeadersInv'
    BY <1>1 DEF HeadersInv
  <1>2. ASSUME NEW name \in HeaderNames, NEW value \in Values \cup References, GiveHeader(name, value)
        PROVE  HeadersInv'
    <2>1. PICK g, h : g = given /\ h = headers
      OBVIOUS
    <2>2. HeadersOf(Append(g, [name |-> name, value |-> value]), Insert(h, name, value))
      <3>1. HeadersOf(g, h)
        BY <2>1 DEF HeadersInv
      <3> QED BY <3>1, InsertKeeps
    <2>3. PICK more, k : more = Append(g, [name |-> name, value |-> value]) /\ k = Insert(h, name, value)
      OBVIOUS
    <2>4. given' = more /\ headers' = k
      BY <1>2, <2>1, <2>3 DEF GiveHeader
    <2> QED BY <2>2, <2>3, <2>4 DEF HeadersInv
  <1>3. ASSUME NEW j, GiveBody(j)
        PROVE  HeadersInv'
    BY <1>1, <1>3 DEF GiveBody
  <1>4. ASSUME NEW m, Connect(m)
        PROVE  HeadersInv'
    BY <1>1, <1>4 DEF Connect, endpoint
  <1>5. ASSUME NEW kind, NEW own, Send(kind, own)
        PROVE  HeadersInv'
    BY <1>1, <1>5 DEF Send, endpoint
  <1>6. CASE SendRequest \/ SendNotification
    BY <1>5, <1>6 DEF SendRequest, SendNotification
  <1>7. ASSUME NEW name, AskModel(name)
        PROVE  HeadersInv'
    BY <1>5, <1>7 DEF AskModel
  <1>8. CASE Finished \/ UNCHANGED requestVars
    BY <1>1, <1>8 DEF Finished, requestVars, endpoint
  <1> QED BY <1>2, <1>3, <1>4, <1>6, <1>7, <1>8 DEF RequestNext

\* What header_map makes of headers.
HeaderMapOf(h) ==
  [w \in WordsOf(DOMAIN h) |->
     LET lower == [word |-> w, case |-> "lower"]
     IN  h[IF lower \in DOMAIN h THEN lower ELSE [word |-> w, case |-> "upper"]]]

\* The client sends the endpoint's headers over the meta file's, if it has one.
ClientHeaders(w, m, high) ==
  \/ m = NoMeta /\ w = high
  \/ MetaResolves(m) /\ \E map \in MetaMaps(m) : w = Over(map, high)

WireInv ==
  /\ stage = "idle" => meta = NoMeta
  /\ stage \in {"connected", "sent"} => ClientHeaders(wire, meta, HeaderMapOf(headers))

LEMMA WireStep == WireInv /\ [RequestNext]_requestVars => WireInv'
  <1> SUFFICES ASSUME WireInv, [RequestNext]_requestVars
               PROVE  WireInv'
    OBVIOUS
  <1>1. /\ stage = "idle" => meta = NoMeta
        /\ stage \in {"connected", "sent"} => ClientHeaders(wire, meta, HeaderMapOf(headers))
    BY DEF WireInv
  <1>2. HeaderMap = HeaderMapOf(headers)
    BY DEF HeaderMap, HeaderMapOf
  <1>3. ASSUME stage = "idle", stage' = "idle", UNCHANGED meta
        PROVE  WireInv'
    BY <1>1, <1>3 DEF WireInv
  <1>4. ASSUME NEW high, high = HeaderMap, UNCHANGED headers, stage' # "idle",
               stage' = "failed" \/ ClientHeaders(wire', meta', high)
        PROVE  WireInv'
    <2>1. PICK h : h = headers
      OBVIOUS
    <2>2. high = HeaderMapOf(h) /\ headers' = h
      BY <1>2, <1>4, <2>1
    <2> QED BY <1>4, <2>2 DEF WireInv
  <1>5. ASSUME stage \in {"connected", "sent"}, stage' \in {"connected", "sent"},
               UNCHANGED <<wire, meta, headers>>
        PROVE  WireInv'
    BY <1>1, <1>5 DEF WireInv
  <1>6. ASSUME NEW j, GiveBody(j)
        PROVE  WireInv'
    BY <1>3, <1>6 DEF GiveBody, Giving
  <1>7. ASSUME NEW name, NEW value, GiveHeader(name, value)
        PROVE  WireInv'
    BY <1>3, <1>7 DEF GiveHeader, Giving
  <1>8. ASSUME NEW m, Connect(m)
        PROVE  WireInv'
    <2>1. UNCHANGED headers /\ meta' = m
      BY <1>8 DEF Connect, endpoint
    <2>2. PICK high : high = HeaderMap
      OBVIOUS
    <2>3. CASE MetaResolves(m)
      <3>1. PICK map \in MetaMaps(m) : wire' = Over(map, high)
        BY <1>8, <2>2, <2>3 DEF Connect
      <3>2. stage' = "connected"
        BY <1>8, <2>3 DEF Connect
      <3>3. ClientHeaders(wire', meta', high)
        BY <2>1, <2>3, <3>1 DEF ClientHeaders
      <3> QED BY <1>4, <2>1, <2>2, <3>2, <3>3
    <2>4. CASE ~MetaResolves(m)
      <3>1. stage' = "failed"
        BY <1>8, <2>4 DEF Connect
      <3> QED BY <1>4, <2>1, <2>2, <3>1
    <2> QED BY <2>3, <2>4
  <1>9. CASE SendRequest \/ SendNotification
    BY <1>5, <1>9 DEF SendRequest, SendNotification, Send, endpoint
  <1>10. ASSUME NEW name, AskModel(name)
         PROVE  WireInv'
    <2>1. stage = "idle" /\ wire' = HeaderMap
      BY <1>10 DEF AskModel
    <2>2. UNCHANGED <<headers, meta>> /\ stage' = "sent"
      BY <1>10 DEF AskModel, Send, endpoint
    <2>3. PICK high : high = HeaderMap
      OBVIOUS
    <2>4. ClientHeaders(wire', meta', high)
      BY <1>1, <2>1, <2>2, <2>3 DEF ClientHeaders
    <2> QED BY <1>4, <2>2, <2>3, <2>4
  <1>11. CASE Finished \/ UNCHANGED requestVars
    BY <1>1, <1>11 DEF Finished, requestVars, endpoint, WireInv
  <1> QED BY <1>6, <1>7, <1>8, <1>9, <1>10, <1>11 DEF RequestNext

\* What header_map has for a word was given for it, and nothing given for it later
\* is written the same way.
LEMMA MapOfGiven ==
  ASSUME NEW g, NEW h, HeadersOf(g, h), NEW w
  PROVE  LET for == {i \in DOMAIN g : g[i].name.word = w}
             map == HeaderMapOf(h)
         IN  /\ w \in DOMAIN map <=> for # {}
             /\ w \in DOMAIN map => \E i \in for :
                  g[i].value = map[w] /\ \A j \in for : g[j].name = g[i].name => j <= i
  <1> DEFINE for == {i \in DOMAIN g : g[i].name.word = w}
  <1>1. /\ g \in Seq([name : HeaderNames, value : Values \cup References])
        /\ DOMAIN h = {g[i].name : i \in DOMAIN g}
        /\ \A n \in DOMAIN h : \E i \in DOMAIN g :
             /\ g[i].name = n /\ g[i].value = h[n]
             /\ \A j \in DOMAIN g : g[j].name = n => j <= i
    BY DEF HeadersOf
  <1>2. PICK map : map = HeaderMapOf(h)
    OBVIOUS
  <1>3. w \in DOMAIN map <=> \E n \in DOMAIN h : n.word = w
    BY <1>2 DEF HeaderMapOf, WordsOf
  <1>4. (\E n \in DOMAIN h : n.word = w) <=> for # {}
    BY <1>1
  <1>5. \A n \in DOMAIN h : n \in HeaderNames
    <2>1. \A i \in DOMAIN g : g[i] \in [name : HeaderNames, value : Values \cup References]
      <3>1. PICK T : T = [name : HeaderNames, value : Values \cup References]
        OBVIOUS
      <3>2. g \in Seq(T)
        BY <1>1, <3>1
      <3>3. \A i \in DOMAIN g : g[i] \in T
        BY <3>2
      <3> QED BY <3>1, <3>3
    <2>2. \A i \in DOMAIN g : g[i].name \in HeaderNames
      BY <2>1
    <2>3. \A n \in DOMAIN h : \E i \in DOMAIN g : g[i].name = n
      BY <1>1
    <2> QED BY <2>2, <2>3, Zenon
  <1>6. ASSUME w \in DOMAIN map
        PROVE  \E n \in DOMAIN h : n.word = w /\ map[w] = h[n]
    <2> DEFINE lower == [word |-> w, case |-> "lower"]
               upper == [word |-> w, case |-> "upper"]
    <2>1. map[w] = h[IF lower \in DOMAIN h THEN lower ELSE upper]
      BY <1>2, <1>6 DEF HeaderMapOf
    <2>2. PICK n \in DOMAIN h : n.word = w
      BY <1>3, <1>6
    <2>3. n = lower \/ n = upper
      BY <1>5, <2>2 DEF HeaderNames
    <2>4. lower.word = w /\ upper.word = w
      OBVIOUS
    <2> HIDE DEF lower, upper
    <2> QED BY <2>1, <2>2, <2>3, <2>4
  <1>7. ASSUME w \in DOMAIN map
        PROVE  \E i \in for : g[i].value = map[w] /\ \A j \in for : g[j].name = g[i].name => j <= i
    <2>1. PICK n \in DOMAIN h : n.word = w /\ map[w] = h[n]
      BY <1>6, <1>7
    <2>2. PICK i \in DOMAIN g : /\ g[i].name = n /\ g[i].value = h[n]
                                /\ \A j \in DOMAIN g : g[j].name = n => j <= i
      BY <1>1
    <2> QED BY <2>1, <2>2
  <1> QED BY <1>2, <1>3, <1>4, <1>7

\* What build_headers has for a word is in the meta file for it.
LEMMA MapOfMeta ==
  ASSUME NEW m, MetaResolves(m), NEW map \in MetaMaps(m), NEW w
  PROVE  /\ w \in DOMAIN map <=> MetaValues(m, w) # {}
         /\ w \in DOMAIN map => \E value \in MetaValues(m, w) : StandsFor(value, map[w])
  <1> DEFINE auth == IF m.auth = NoAuth THEN {} ELSE {m.auth.word}
             own == WordsOf(DOMAIN m.headers)
  <1>1. PICK f \in [own -> DOMAIN m.headers] :
          /\ \A v \in own : f[v].word = v
          /\ map = [v \in own \cup auth |-> Secret(IF v \in own THEN m.headers[f[v]] ELSE m.auth.value)]
    BY DEF MetaMaps
  <1>2. own = {n.word : n \in DOMAIN m.headers}
    BY DEF WordsOf
  <1>3. \A v : SecretResolves(v) => StandsFor(v, Secret(v))
    BY DEF SecretResolves, StandsFor, Secret
  <1>4. CASE w \in own
    <2>1. w \in DOMAIN map /\ map[w] = Secret(m.headers[f[w]])
      BY <1>1, <1>4
    <2>2. f[w] \in DOMAIN m.headers /\ f[w].word = w
      BY <1>1, <1>4
    <2>3. m.headers[f[w]] \in MetaValues(m, w)
      BY <1>4, <2>2 DEF MetaValues
    <2>4. SecretResolves(m.headers[f[w]])
      BY <2>2 DEF MetaResolves
    <2> QED BY <1>3, <2>1, <2>3, <2>4
  <1>5. CASE w \notin own
    <2>1. w \in DOMAIN map <=> m.auth # NoAuth /\ m.auth.word = w
      BY <1>1, <1>5
    <2>2. MetaValues(m, w) = {a.value : a \in {a \in {m.auth} : a # NoAuth /\ a.word = w}}
      BY <1>5 DEF MetaValues
    <2>3. ASSUME w \in DOMAIN map
          PROVE  map[w] = Secret(m.auth.value) /\ m.auth.value \in MetaValues(m, w) /\ SecretResolves(m.auth.value)
      BY <1>1, <1>5, <2>1, <2>2, <2>3 DEF MetaResolves
    <2>4. w \notin DOMAIN map => MetaValues(m, w) = {}
      BY <2>1, <2>2
    <2> QED BY <1>3, <2>3, <2>4
  <1> QED BY <1>4, <1>5

\* A header of the endpoint is the one that is sent, the last given of those
\* written alike; else the meta file's, and no other (connect_endpoint).
THEOREM EndpointHeadersWin == RequestSpec => []EndpointOverMeta
  <1>1. RequestInit => HeadersInv /\ WireInv
    <2> SUFFICES ASSUME RequestInit
                 PROVE  HeadersInv /\ WireInv
      OBVIOUS
    <2>1. given = << >> /\ headers = NoHeaders /\ stage = "idle" /\ meta = NoMeta
      BY DEF RequestInit
    <2>2. HeadersOf(<< >>, NoHeaders)
      <3>1. DOMAIN NoHeaders = {} /\ DOMAIN << >> = {} /\ << >> \in Seq([name : HeaderNames, value : Values \cup References])
        BY DEF NoHeaders
      <3>2. {<< >>[i].name : i \in {}} = {}
        OBVIOUS
      <3> QED BY <3>1, <3>2 DEF HeadersOf
    <2> QED BY <2>1, <2>2 DEF HeadersInv, WireInv
  <1>2. HeadersInv /\ WireInv => EndpointOverMeta
    <2> SUFFICES ASSUME HeadersInv, WireInv, stage \in {"connected", "sent"}, NEW w \in HeaderWords
                 PROVE  LET alike == \A i, j \in GivenFor(w) : given[i].name = given[j].name
                        IN  /\ w \in DOMAIN wire <=> GivenFor(w) # {} \/ MetaValues(meta, w) # {}
                            /\ GivenFor(w) # {} =>
                                 \E i \in GivenFor(w) :
                                   given[i].value = wire[w] /\ (alike => \A j \in GivenFor(w) : j <= i)
                            /\ GivenFor(w) = {} /\ w \in DOMAIN wire =>
                                 \E value \in MetaValues(meta, w) : StandsFor(value, wire[w])
      BY DEF EndpointOverMeta
    <2>1. PICK high : high = HeaderMapOf(headers)
      OBVIOUS
    <2>2. /\ w \in DOMAIN high <=> GivenFor(w) # {}
          /\ w \in DOMAIN high => \E i \in GivenFor(w) :
               given[i].value = high[w] /\ \A j \in GivenFor(w) : given[j].name = given[i].name => j <= i
      BY <2>1, MapOfGiven DEF HeadersInv, GivenFor
    <2>3. CASE meta = NoMeta /\ wire = high
      <3>1. MetaValues(meta, w) = {}
        BY <2>3 DEF MetaValues, NoMeta, NoAuth, NoHeaders, WordsOf
      <3> QED BY <2>2, <2>3, <3>1
    <2>4. CASE MetaResolves(meta) /\ \E map \in MetaMaps(meta) : wire = Over(map, high)
      <3>1. PICK map \in MetaMaps(meta) : wire = Over(map, high)
        BY <2>4
      <3>2. /\ w \in DOMAIN map <=> MetaValues(meta, w) # {}
            /\ w \in DOMAIN map => \E value \in MetaValues(meta, w) : StandsFor(value, map[w])
        BY <2>4, MapOfMeta
      <3>3. /\ w \in DOMAIN wire <=> w \in DOMAIN map \/ w \in DOMAIN high
            /\ w \in DOMAIN high => wire[w] = high[w]
            /\ w \in DOMAIN map /\ w \notin DOMAIN high => wire[w] = map[w]
        BY <3>1 DEF Over
      <3> QED BY <2>2, <3>2, <3>3
    <2> QED BY <2>1, <2>3, <2>4 DEF WireInv, ClientHeaders
  <1> QED BY <1>1, <1>2, HeadersStep, WireStep, PTL DEF RequestSpec
==============================================================================
