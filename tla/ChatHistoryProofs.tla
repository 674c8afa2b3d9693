-------------------------- MODULE ChatHistoryProofs --------------------------
(***************************************************************************)
(* What becomes of the promises of ChatHistory when a message is appended. *)
(***************************************************************************)
EXTENDS ChatHistory, SequenceTheorems, TLAPS

\* What a list looks like after something is appended to it.
LEMMA AppendFacts ==
  ASSUME NEW S, NEW s \in Seq(S), NEW e \in S
  PROVE  /\ Append(s, e) \in Seq(S)
         /\ Len(Append(s, e)) = Len(s) + 1
         /\ \A i \in 1..Len(s) : Append(s, e)[i] = s[i]
         /\ Append(s, e)[Len(s) + 1] = e
  OBVIOUS

\* The names in a message are a list, so it has a length.
LEMMA NamesAreListed ==
  ASSUME NEW Names, NEW h \in Seq(Message(Names)), NEW i \in 1..Len(h)
  PROVE  h[i] \in Message(Names) /\ h[i].names \in Seq(Names) /\ Len(h[i].names) \in Nat
  <1>1. h[i] \in Message(Names)
    BY ElementOfSeq
  <1> QED BY <1>1, LenProperties DEF Message

\* A reply that was answered stays answered.
LEMMA StaysAnswered ==
  ASSUME NEW Names, NEW h \in Seq(Message(Names)), NEW m \in Message(Names),
         NEW i \in 1..Len(h), NEW n \in Nat, AnsweredUpTo(h, i, n)
  PROVE  AnsweredUpTo(Append(h, m), i, n)
  <1>1. Len(h) \in Nat
    BY LenProperties
  <1>2. ASSUME NEW k \in 1..n
        PROVE  /\ i + k <= Len(Append(h, m))
               /\ Append(h, m)[i + k] = ToolResult(Append(h, m)[i].names[k])
    <2>1. i + k \in 1..Len(h) /\ h[i + k] = ToolResult(h[i].names[k])
      BY <1>1 DEF AnsweredUpTo
    <2>2. Append(h, m)[i + k] = h[i + k] /\ Append(h, m)[i] = h[i]
      BY <2>1, AppendFacts
    <2> QED BY <1>1, <2>1, <2>2, AppendFacts
  <1> QED BY <1>2 DEF AnsweredUpTo

\* So do all replies of a part of the history.
LEMMA AllStayAnswered ==
  ASSUME NEW Names, NEW h \in Seq(Message(Names)), NEW m \in Message(Names),
         NEW first \in Nat \ {0}, NEW last \in Nat, last <= Len(h),
         AllAnswered(h, first, last)
  PROVE  AllAnswered(Append(h, m), first, last)
  <1> SUFFICES ASSUME NEW i \in first..last, Append(h, m)[i].role = "assistant"
               PROVE  AnsweredUpTo(Append(h, m), i, Len(Append(h, m)[i].names))
    BY DEF AllAnswered
  <1>1. i \in 1..Len(h) /\ Append(h, m)[i] = h[i]
    BY AppendFacts, LenProperties
  <1>2. Len(h[i].names) \in Nat
    BY <1>1, NamesAreListed
  <1>3. AnsweredUpTo(h, i, Len(h[i].names))
    BY <1>1 DEF AllAnswered
  <1> QED BY <1>1, <1>2, <1>3, StaysAnswered

\* A message that asks for nothing leaves nothing to answer.
LEMMA AllAnsweredAppend ==
  ASSUME NEW Names, NEW h \in Seq(Message(Names)), NEW m \in Message(Names),
         NEW first \in Nat \ {0}, AllAnswered(h, first, Len(h)),
         m.role # "assistant" \/ m.names = << >>
  PROVE  AllAnswered(Append(h, m), first, Len(h) + 1)
  <1> SUFFICES ASSUME NEW i \in first..(Len(h) + 1), Append(h, m)[i].role = "assistant"
               PROVE  AnsweredUpTo(Append(h, m), i, Len(Append(h, m)[i].names))
    BY DEF AllAnswered
  <1>0. Len(h) \in Nat
    BY LenProperties
  <1>1. CASE i = Len(h) + 1
    <2>1. Append(h, m)[i] = m
      BY <1>1, AppendFacts
    <2>2. Len(m.names) = 0
      BY <2>1, EmptySeq
    <2> QED BY <2>1, <2>2 DEF AnsweredUpTo
  <1>2. CASE i \in first..Len(h)
    <2>1. AllAnswered(Append(h, m), first, Len(h))
      BY <1>0, AllStayAnswered
    <2> QED BY <1>2, <2>1 DEF AllAnswered
  <1> QED BY <1>0, <1>1, <1>2

\* No result is there that nobody asked for, after a message that is no result.
LEMMA AllAskedForAppend ==
  ASSUME NEW Names, NEW h \in Seq(Message(Names)), NEW m \in Message(Names),
         NEW first \in Nat \ {0}, AllAskedFor(h, first),
         m.role = "tool" =>
           \E i \in first..Len(h) :
             /\ h[i].role = "assistant"
             /\ Len(h) + 1 - i \in 1..Len(h[i].names)
             /\ m = ToolResult(h[i].names[Len(h) + 1 - i])
  PROVE  AllAskedFor(Append(h, m), first)
  <1> DEFINE g == Append(h, m)
  <1>0. Len(h) \in Nat /\ Len(g) = Len(h) + 1
    BY LenProperties, AppendFacts
  <1> SUFFICES ASSUME NEW j \in first..Len(g), g[j].role = "tool"
               PROVE  \E i \in first..(j - 1) :
                        /\ g[i].role = "assistant"
                        /\ j - i \in 1..Len(g[i].names)
                        /\ g[j] = ToolResult(g[i].names[j - i])
    BY DEF AllAskedFor
  <1>1. CASE j = Len(h) + 1
    <2>1. g[j] = m
      BY <1>1, AppendFacts
    <2>2. PICK i \in first..Len(h) :
             /\ h[i].role = "assistant"
             /\ Len(h) + 1 - i \in 1..Len(h[i].names)
             /\ m = ToolResult(h[i].names[Len(h) + 1 - i])
      BY <2>1
    <2>3. g[i] = h[i] /\ i \in first..(j - 1)
      BY <1>0, <1>1, AppendFacts
    <2>4. Len(h) + 1 - i = j - i
      BY <1>1
    <2>5. /\ g[i].role = "assistant"
          /\ j - i \in 1..Len(g[i].names)
          /\ g[j] = ToolResult(g[i].names[j - i])
      <3> HIDE DEF g
      <3> QED BY <2>1, <2>2, <2>3, <2>4, Zenon
    <2> HIDE DEF g
    <2> QED BY <2>3, <2>5
  <1>2. CASE j \in first..Len(h)
    <2>1. g[j] = h[j]
      BY <1>0, <1>2, AppendFacts
    <2>2. PICK i \in first..(j - 1) :
             /\ h[i].role = "assistant"
             /\ j - i \in 1..Len(h[i].names)
             /\ h[j] = ToolResult(h[i].names[j - i])
      BY <1>2, <2>1 DEF AllAskedFor
    <2>3. g[i] = h[i]
      BY <1>0, <1>2, AppendFacts
    <2> QED BY <2>1, <2>2, <2>3
  <1>3. j \in first..Len(h) \/ j = Len(h) + 1
    <2> HIDE DEF g
    <2> QED BY <1>0
  <1> QED BY <1>1, <1>2, <1>3
==============================================================================
