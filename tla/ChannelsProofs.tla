---------------------------- MODULE ChannelsProofs ----------------------------
(***************************************************************************)
(* Proofs about the static and the dynamic channels.                       *)
(***************************************************************************)
EXTENDS MCChannels, FiniteSetTheorems, SequenceTheorems, TLAPS

-----------------------------------------------------------------------------
(* The size of a family of buffers.                                        *)

\* An interval from one is as large as its last number.
LEMMA Intervals == \A n \in Nat : IsFiniteSet(1 .. n) /\ Cardinality(1 .. n) = n
BY FS_Interval

\* A set of one element has size one.
LEMMA Singletons == \A x : IsFiniteSet({x}) /\ Cardinality({x}) = 1
BY FS_Singleton

\* The instances' names for operators of the library.
LEMMA SameSize == \A S : Static!Cardinality(S) = Cardinality(S)
BY DEF Static!Cardinality, Cardinality

\* The empty set has size zero.
LEMMA EmptySize == Cardinality({}) = 0
BY FS_EmptySet

\* A column of pairs.
LEMMA Columns ==
    ASSUME NEW x, NEW n \in Nat
    PROVE  IsFiniteSet({x} \X (1 .. n)) /\ Cardinality({x} \X (1 .. n)) = n
<1>1. IsFiniteSet({x}) /\ Cardinality({x}) = 1
  BY Singletons
<1>2. IsFiniteSet(1 .. n) /\ Cardinality(1 .. n) = n
  BY Intervals
<1> DEFINE A == {x}   B == 1 .. n
<1> HIDE DEF A, B
<1>3. IsFiniteSet(A \X B) /\ Cardinality(A \X B) = Cardinality(A) * Cardinality(B)
  BY <1>1, <1>2, FS_Product DEF A, B
<1>4. Cardinality(A) = 1 /\ Cardinality(B) = n
  BY <1>1, <1>2 DEF A, B
<1>5. IsFiniteSet(A \X B) /\ Cardinality(A \X B) = n
  BY <1>3, <1>4
<1> QED BY <1>5 DEF A, B

\* The size of a union of sets that have nothing in common.
LEMMA Disjoint ==
    ASSUME NEW A, IsFiniteSet(A), NEW B, IsFiniteSet(B), A \cap B = {}
    PROVE  /\ IsFiniteSet(A \cup B)
           /\ Cardinality(A) \in Nat /\ Cardinality(B) \in Nat
           /\ Cardinality(A \cup B) = Cardinality(A) + Cardinality(B)
<1> DEFINE a == Cardinality(A)   b == Cardinality(B)
           u == Cardinality(A \cup B)   i == Cardinality(A \cap B)
<1>1. IsFiniteSet(A \cup B) /\ u = a + b - i
  BY FS_Union
<1>2. a \in Nat /\ b \in Nat
  BY FS_CardinalityType
<1>3. i = 0
  BY FS_EmptySet, Zenon
<1> HIDE DEF a, b, u, i
<1>4. u = a + b
  BY <1>1, <1>2, <1>3
<1> QED BY <1>1, <1>2, <1>4 DEF a, b, u

Held(f, S) == UNION {{x} \X DOMAIN f[x] : x \in S}

\* A family of sequences.
Lists(f, S) == \A x \in S : Len(f[x]) \in Nat /\ DOMAIN f[x] = 1 .. Len(f[x])

\* What makes a function a family of buffers.
LEMMA ListsType ==
    ASSUME NEW S, NEW T, NEW f \in [S -> Seq(T)]
    PROVE  Lists(f, S)
BY LenProperties DEF Lists

\* Finitely many buffers hold finitely many chunks.
LEMMA HeldFinite ==
    ASSUME NEW S, IsFiniteSet(S), NEW f, Lists(f, S)
    PROVE  IsFiniteSet(Held(f, S)) /\ Cardinality(Held(f, S)) \in Nat
<1> DEFINE Part(x) == {x} \X DOMAIN f[x]
<1>1. \A x \in S : IsFiniteSet(Part(x))
  BY Columns DEF Lists
<1>2. IsFiniteSet({Part(x) : x \in S})
  <2> DEFINE g == [x \in S |-> Part(x)]
  <2>1. g \in Surjection(S, {Part(x) : x \in S})
    BY DEF Surjection
  <2> QED BY <2>1, FS_Surjection
<1>3. \A P \in {Part(x) : x \in S} : IsFiniteSet(P)
  BY <1>1
<1> QED BY <1>2, <1>3, FS_UNION, FS_CardinalityType DEF Held

\* One buffer counts for its length, apart from the others.
LEMMA HeldSplit ==
    ASSUME NEW S, IsFiniteSet(S), NEW f, Lists(f, S), NEW x \in S
    PROVE  /\ Cardinality(Held(f, S \ {x})) \in Nat
           /\ Cardinality(Held(f, S)) = Cardinality(Held(f, S \ {x})) + Len(f[x])
<1> DEFINE R == Held(f, S \ {x})   P == {x} \X DOMAIN f[x]
<1>1. IsFiniteSet(P) /\ Cardinality(P) = Len(f[x])
  BY Columns DEF Lists
<1>2. IsFiniteSet(S \ {x}) /\ Lists(f, S \ {x})
  BY FS_RemoveElement DEF Lists
<1>3. IsFiniteSet(R) /\ Cardinality(R) \in Nat
  BY <1>2, HeldFinite
<1>4. Held(f, S) = R \cup P
  BY DEF Held
<1>5. R \cap P = {}
  BY DEF Held
<1>6. Cardinality(R \cup P) = Cardinality(R) + Cardinality(P)
  BY <1>1, <1>3, <1>5, Disjoint
<1> QED BY <1>1, <1>3, <1>4, <1>6, Zenon

\* A buffer replaced by another.
LEMMA HeldStore ==
    ASSUME NEW S, IsFiniteSet(S), NEW f, Lists(f, S), NEW g, Lists(g, S),
           NEW x \in S, \A y \in S \ {x} : g[y] = f[y]
    PROVE  \E r \in Nat : /\ Cardinality(Held(f, S)) = r + Len(f[x])
                         /\ Cardinality(Held(g, S)) = r + Len(g[x])
<1>1. Held(g, S \ {x}) = Held(f, S \ {x})
  BY DEF Held
<1>2. /\ Cardinality(Held(f, S \ {x})) \in Nat
      /\ Cardinality(Held(f, S)) = Cardinality(Held(f, S \ {x})) + Len(f[x])
  BY HeldSplit
<1>3. Cardinality(Held(g, S)) = Cardinality(Held(g, S \ {x})) + Len(g[x])
  BY HeldSplit
<1> QED BY <1>1, <1>2, <1>3

\* Buffers no longer than n.
LEMMA HeldBound ==
    ASSUME NEW S, IsFiniteSet(S), NEW f, Lists(f, S), NEW n \in Nat, \A x \in S : Len(f[x]) <= n
    PROVE  Cardinality(Held(f, S)) <= Cardinality(S) * n
<1> DEFINE B == 1 .. n
<1>1. IsFiniteSet(B) /\ Cardinality(B) = n
  BY Intervals
<1>2. \A x \in S : DOMAIN f[x] \subseteq B
  <2> SUFFICES ASSUME NEW x \in S PROVE 1 .. Len(f[x]) \subseteq 1 .. n
    BY DEF Lists
  <2>1. Len(f[x]) \in Nat /\ Len(f[x]) <= n
    BY DEF Lists
  <2> QED BY <2>1
<1> HIDE DEF B
<1>3. IsFiniteSet(S \X B) /\ Cardinality(S \X B) = Cardinality(S) * Cardinality(B)
  BY <1>1, FS_Product
<1>4. Held(f, S) \in SUBSET (S \X B)
  BY <1>2 DEF Held
<1>5. Cardinality(Held(f, S)) <= Cardinality(S \X B)
  BY <1>3, <1>4, FS_Subset
<1> QED BY <1>1, <1>3, <1>5

-----------------------------------------------------------------------------
(* Queues shared by several channels: what is said of one channel (a key)  *)
(* is a chain, that runs from the last element handled to the last sent.   *)

Lacks(s, key, x, i, j) == \A m \in i .. j : key[s[m]] # x

\* In the queue s, each element of key x is related by R to the next one; p comes before
\* the first, and the last is c (p, when there is none).
Chain(s, key, R, x, p, c) ==
    /\ Lacks(s, key, x, 1, Len(s)) => p = c
    /\ \A j \in 1 .. Len(s) : key[s[j]] = x /\ Lacks(s, key, x, 1, j - 1) => <<p, s[j]>> \in R
    /\ \A i, j \in 1 .. Len(s) :
           i < j /\ key[s[i]] = x /\ key[s[j]] = x /\ Lacks(s, key, x, i + 1, j - 1)
           => <<s[i], s[j]>> \in R
    /\ \A i \in 1 .. Len(s) : key[s[i]] = x /\ Lacks(s, key, x, i + 1, Len(s)) => s[i] = c

\* With nothing under way, the last element handled is the last sent.
LEMMA ChainEmpty == \A key, R, x, p : Chain(<<>>, key, R, x, p, p)
BY DEF Chain

\* An element is sent.
LEMMA ChainSends ==
    ASSUME NEW T, NEW s \in Seq(T), NEW key, NEW R, NEW x, NEW p, NEW c, Chain(s, key, R, x, p, c),
           NEW d \in T, key[d] = x => <<c, d>> \in R
    PROVE  Chain(Append(s, d), key, R, x, p, IF key[d] = x THEN d ELSE c)
<1> DEFINE n == Len(s)   t == Append(s, d)   e == IF key[d] = x THEN d ELSE c
<1>1. /\ n \in Nat /\ Len(t) = n + 1 /\ t[n + 1] = d
      /\ \A i \in 1 .. n : t[i] = s[i]
  BY AppendProperties
<1> HIDE DEF t
<1>2. ASSUME NEW i \in 1 .. n + 1, NEW j \in 0 .. n
      PROVE  Lacks(t, key, x, i, j) <=> Lacks(s, key, x, i, j)
  <2>1. \A m \in i .. j : m \in 1 .. n
    BY <1>1
  <2>2. \A m \in i .. j : t[m] = s[m]
    BY <1>1, <2>1
  <2> QED BY <2>2 DEF Lacks
<1>3. \A i \in 1 .. n + 1 : Lacks(t, key, x, i, n + 1) => key[d] # x /\ Lacks(s, key, x, i, n)
  BY <1>1 DEF Lacks
<1>4. ASSUME Lacks(t, key, x, 1, n + 1) PROVE p = e
  BY <1>1, <1>3, <1>4 DEF Chain
<1>5. ASSUME NEW j \in 1 .. n + 1, key[t[j]] = x, Lacks(t, key, x, 1, j - 1)
      PROVE  <<p, t[j]>> \in R
  <2>1. 1 \in 1 .. n + 1 /\ j - 1 \in 0 .. n
    BY <1>1
  <2>2. Lacks(s, key, x, 1, j - 1)
    BY <1>2, <1>5, <2>1
  <2>3. CASE j = n + 1
    <3>1. Lacks(s, key, x, 1, n)
      BY <1>1, <2>2, <2>3
    <3>2. p = c
      BY <3>1 DEF Chain
    <3> QED BY <1>1, <1>5, <2>3, <3>2
  <2>4. CASE j \in 1 .. n
    BY <1>1, <1>5, <2>2, <2>4 DEF Chain
  <2> QED BY <1>1, <2>3, <2>4
<1>6. ASSUME NEW i \in 1 .. n + 1, NEW j \in 1 .. n + 1, i < j, key[t[i]] = x, key[t[j]] = x,
             Lacks(t, key, x, i + 1, j - 1)
      PROVE  <<t[i], t[j]>> \in R
  <2>1. i \in 1 .. n /\ i + 1 \in 1 .. n + 1 /\ j - 1 \in 0 .. n
    BY <1>1, <1>6
  <2>2. Lacks(s, key, x, i + 1, j - 1)
    BY <1>2, <1>6, <2>1
  <2>3. CASE j = n + 1
    <3>1. Lacks(s, key, x, i + 1, n)
      BY <1>1, <2>2, <2>3
    <3>2. s[i] = c
      BY <1>1, <1>6, <2>1, <3>1 DEF Chain
    <3> QED BY <1>1, <1>6, <2>1, <2>3, <3>2
  <2>4. CASE j \in 1 .. n
    BY <1>1, <1>6, <2>1, <2>2, <2>4 DEF Chain
  <2> QED BY <1>1, <2>3, <2>4
<1>7. ASSUME NEW i \in 1 .. n + 1, key[t[i]] = x, Lacks(t, key, x, i + 1, n + 1)
      PROVE  t[i] = e
  <2>1. CASE i = n + 1
    BY <1>1, <1>7, <2>1
  <2>2. CASE i \in 1 .. n
    <3>1. key[d] # x /\ Lacks(s, key, x, i + 1, n)
      BY <1>1, <1>3, <1>7, <2>2
    <3> QED BY <1>1, <1>7, <2>2, <3>1 DEF Chain
  <2> QED BY <1>1, <2>1, <2>2
<1> HIDE DEF e
<1>8. Chain(t, key, R, x, p, e)
  BY <1>1, <1>4, <1>5, <1>6, <1>7 DEF Chain
<1> QED BY <1>8 DEF t, e

\* What is left of a sequence when its first element is taken.
LEMMA TailElements ==
    ASSUME NEW T, NEW s \in Seq(T), s # <<>>
    PROVE  /\ Len(s) \in Nat /\ 1 \in 1 .. Len(s) /\ Head(s) = s[1] /\ Head(s) \in T
           /\ Tail(s) \in Seq(T) /\ Len(Tail(s)) = Len(s) - 1
           /\ \A i \in 1 .. Len(s) - 1 : Tail(s)[i] = s[i + 1] /\ i + 1 \in 1 .. Len(s)
OBVIOUS

\* A stretch of what is left was a stretch of what there was, one place further on.
LEMMA LacksShift ==
    ASSUME NEW T, NEW s \in Seq(T), s # <<>>, NEW key, NEW x, NEW i \in Nat, NEW j \in Int,
           1 <= i, j <= Len(s) - 1
    PROVE  Lacks(Tail(s), key, x, i, j) <=> Lacks(s, key, x, i + 1, j + 1)
<1> DEFINE t == Tail(s)   n == Len(s)
<1>1. n \in Nat /\ \A m \in 1 .. n - 1 : t[m] = s[m + 1]
  BY TailElements
<1> HIDE DEF t, n
<1>2. j <= n - 1
  BY DEF n
<1>3. ASSUME Lacks(t, key, x, i, j), NEW m \in i + 1 .. j + 1 PROVE key[s[m]] # x
  <2>1. m - 1 \in i .. j /\ m - 1 \in 1 .. n - 1 /\ m - 1 + 1 = m
    BY <1>1, <1>2
  <2>2. key[t[m - 1]] # x
    BY <1>3, <2>1 DEF Lacks
  <2> QED BY <1>1, <2>1, <2>2
<1>4. ASSUME Lacks(s, key, x, i + 1, j + 1), NEW m \in i .. j PROVE key[t[m]] # x
  <2>1. m + 1 \in i + 1 .. j + 1 /\ m \in 1 .. n - 1
    BY <1>1, <1>2
  <2>2. key[s[m + 1]] # x
    BY <1>4, <2>1 DEF Lacks
  <2> QED BY <1>1, <2>1, <2>2
<1>5. Lacks(t, key, x, i, j) <=> Lacks(s, key, x, i + 1, j + 1)
  BY <1>3, <1>4 DEF Lacks
<1> QED BY <1>5 DEF t

\* The first element is handled.
LEMMA ChainReceives ==
    ASSUME NEW T, NEW s \in Seq(T), s # <<>>, NEW key, NEW R, NEW x, NEW p, NEW c,
           Chain(s, key, R, x, p, c)
    PROVE  /\ key[Head(s)] = x => <<p, Head(s)>> \in R
           /\ Chain(Tail(s), key, R, x, IF key[Head(s)] = x THEN Head(s) ELSE p, c)
<1> DEFINE n == Len(s)   h == Head(s)   t == Tail(s)   q == IF key[h] = x THEN h ELSE p
<1>1. /\ n \in Nat /\ 1 \in 1 .. n /\ h = s[1] /\ Len(t) = n - 1
      /\ \A i \in 1 .. n - 1 : t[i] = s[i + 1] /\ i + 1 \in 1 .. n
  BY TailElements
<1>2. ASSUME NEW i \in Nat, NEW j \in Int, 1 <= i, j <= n - 1
      PROVE  Lacks(t, key, x, i, j) <=> Lacks(s, key, x, i + 1, j + 1)
  BY <1>2, LacksShift
<1> HIDE DEF h, t
<1>3. key[h] = x => <<p, h>> \in R
  <2>1. Lacks(s, key, x, 1, 1 - 1)
    BY DEF Lacks
  <2> QED BY <1>1, <2>1 DEF Chain
\* What is left before place j + 1, with the first element.
<1>4. ASSUME NEW j \in 0 .. n - 1, Lacks(t, key, x, 1, j), key[h] # x PROVE Lacks(s, key, x, 1, j + 1)
  <2>1. Lacks(s, key, x, 2, j + 1)
    <3>1. 1 \in Nat /\ j \in Int /\ 1 <= 1 /\ j <= n - 1 /\ 1 + 1 = 2
      BY <1>1
    <3> QED BY <1>2, <1>4, <3>1
  <2> QED BY <1>1, <1>4, <2>1 DEF Lacks
<1>5. ASSUME NEW j \in 0 .. n - 1, Lacks(t, key, x, 1, j) PROVE Lacks(s, key, x, 1 + 1, j + 1)
  BY <1>1, <1>2, <1>5
<1>6. ASSUME Lacks(t, key, x, 1, n - 1) PROVE q = c
  <2>1. n - 1 \in 0 .. n - 1 /\ (n - 1) + 1 = n
    BY <1>1
  <2>2. CASE key[h] = x
    <3>1. Lacks(s, key, x, 1 + 1, n)
      BY <1>5, <1>6, <2>1
    <3> QED BY <1>1, <2>2, <3>1 DEF Chain
  <2>3. CASE key[h] # x
    <3>1. Lacks(s, key, x, 1, n)
      BY <1>4, <1>6, <2>1, <2>3
    <3> QED BY <2>3, <3>1 DEF Chain
  <2> QED BY <2>2, <2>3
<1>7. ASSUME NEW j \in 1 .. n - 1, key[t[j]] = x, Lacks(t, key, x, 1, j - 1)
      PROVE  <<q, t[j]>> \in R
  <2>1. /\ j - 1 \in 0 .. n - 1 /\ (j - 1) + 1 = (j + 1) - 1 /\ 1 < j + 1
        /\ t[j] = s[j + 1] /\ j + 1 \in 1 .. n
    BY <1>1
  <2>2. CASE key[h] = x
    <3>1. Lacks(s, key, x, 1 + 1, (j + 1) - 1)
      BY <1>5, <1>7, <2>1
    <3> QED BY <1>1, <1>7, <2>1, <2>2, <3>1 DEF Chain
  <2>3. CASE key[h] # x
    <3>1. Lacks(s, key, x, 1, (j + 1) - 1)
      BY <1>4, <1>7, <2>1, <2>3
    <3> QED BY <1>1, <1>7, <2>1, <2>3, <3>1 DEF Chain
  <2> QED BY <2>2, <2>3
<1>8. ASSUME NEW i \in 1 .. n - 1, NEW j \in 1 .. n - 1, i < j, key[t[i]] = x, key[t[j]] = x,
             Lacks(t, key, x, i + 1, j - 1)
      PROVE  <<t[i], t[j]>> \in R
  <2>1. /\ t[i] = s[i + 1] /\ t[j] = s[j + 1] /\ i + 1 \in 1 .. n /\ j + 1 \in 1 .. n
        /\ i + 1 < j + 1
    BY <1>1, <1>8
  <2>2. i + 1 \in Nat /\ j - 1 \in Int /\ 1 <= i + 1 /\ j - 1 <= n - 1 /\ (j - 1) + 1 = (j + 1) - 1
    BY <1>1
  <2>3. Lacks(s, key, x, (i + 1) + 1, (j + 1) - 1)
    BY <1>2, <1>8, <2>2
  <2> QED BY <1>8, <2>1, <2>3 DEF Chain
<1>9. ASSUME NEW i \in 1 .. n - 1, key[t[i]] = x, Lacks(t, key, x, i + 1, n - 1)
      PROVE  t[i] = c
  <2>1. t[i] = s[i + 1] /\ i + 1 \in 1 .. n
    BY <1>1
  <2>2. i + 1 \in Nat /\ n - 1 \in Int /\ 1 <= i + 1 /\ n - 1 <= n - 1 /\ (n - 1) + 1 = n
    BY <1>1
  <2>3. Lacks(s, key, x, (i + 1) + 1, n)
    BY <1>2, <1>9, <2>2
  <2> QED BY <1>9, <2>1, <2>3 DEF Chain
<1> HIDE DEF q
<1>10. Chain(t, key, R, x, q, c)
  BY <1>1, <1>6, <1>7, <1>8, <1>9 DEF Chain
<1> QED BY <1>3, <1>10 DEF h, t, q

-----------------------------------------------------------------------------
(* Static channels: what the receive loop puts together.                   *)

StaticChunk == [ch : Channels, n : Nat, k : Nat, len : Nat]

\* Chunks under way, and the part of a message a server has sent.
Formed(c) == 1 <= c.n /\ 1 <= c.k /\ c.k <= c.len /\ (c.len > Limit => server = "long")

RecvTypeOK ==
    /\ server \in Servers
    /\ cur \in [Channels -> StaticChunk]
    /\ \A ch \in Channels : cur[ch].ch = ch
    /\ flight \in Seq(StaticChunk)
    /\ vcReassembly \in [Channels -> Seq(StaticChunk)] /\ vcReassemblyTotal \in Nat
    /\ got \in [Channels -> Seq(StaticChunk)] /\ dropped \in [Channels -> Nat]

AllFormed ==
    /\ \A i \in 1 .. Len(flight) : Formed(flight[i])
    /\ \A ch \in Channels : cur[ch] = Static!Chunk(ch, 0, 0, 0) \/ Formed(cur[ch])

\* c is what the server sends on a channel after p.
Follows(p, c) ==
    /\ p.ch = c.ch
    /\ \/ c.n = p.n /\ c.len = p.len /\ c.k = p.k + 1 /\ p.k < p.len
       \/ c.n = p.n + 1 /\ c.k = 1 /\ (p.k = p.len \/ server = "abandons")

ChannelOf == [c \in StaticChunk |-> c.ch]
Following == {pair \in StaticChunk \X StaticChunk : Follows(pair[1], pair[2])}

\* The buffer holds the message of p up to p.
Holds(p, ch) ==
    /\ p.len <= Limit /\ Len(vcReassembly[ch]) = p.k
    /\ \A i \in 1 .. p.k : vcReassembly[ch][i] = Static!Chunk(ch, p.n, i, p.len)

\* Where the channel stands after p: its message was delivered or dropped when p
\* was its last chunk, and is in the buffer or dropped when it was not.
Handled(p, ch) ==
    /\ p.ch = ch /\ p.k <= p.len
    /\ p.k = p.len => /\ vcReassembly[ch] = <<>>
                      /\ p.n > 0 => \/ dropped[ch] = p.n
                                    \/ got[ch] # <<>> /\ got[ch][1].n = p.n
    /\ p.k < p.len => /\ 1 <= p.n /\ 1 <= p.k
                      /\ \/ Holds(p, ch)
                         \/ vcReassembly[ch] = <<>> /\ dropped[ch] = p.n /\ server # "abandons"

\* The chunks of a channel under way lead from p to where the server is.
Leads(p, ch) == Chain(flight, ChannelOf, Following, ch, p, cur[ch])
InStep == \A ch \in Channels : \E p \in StaticChunk : Handled(p, ch) /\ Leads(p, ch)

RecvInv == RecvTypeOK /\ AllFormed /\ InStep /\ Static!CountExact /\ Static!WholeMessages

\* The constants' types, as the provers need them.
LEMMA StaticConstants ==
    /\ IsFiniteSet(Channels) /\ Limit \in Nat /\ GlobalLimit \in Nat /\ MaxLen \in Nat
    /\ Cardinality(Channels) \in Nat
BY ChannelsAssumption, FS_CardinalityType DEF ChannelsAssumption

\* It holds at the start: nothing is sent and nothing gathered.
LEMMA RecvInit == Static!Init => RecvInv
<1> SUFFICES ASSUME Static!Init PROVE RecvInv
  OBVIOUS
<1> USE DEF Static!Init, Static!Chunk, Static!NoBuf
<1>1. RecvTypeOK
  BY DEF RecvTypeOK, StaticChunk
<1>2. AllFormed
  BY DEF AllFormed
<1>3. InStep
  <2> SUFFICES ASSUME NEW ch \in Channels
               PROVE  \E p \in StaticChunk : Handled(p, ch) /\ Leads(p, ch)
    BY DEF InStep
  <2>1. cur[ch] \in StaticChunk
    BY DEF StaticChunk
  <2>2. Handled(cur[ch], ch)
    BY DEF Handled
  <2>3. Leads(cur[ch], ch)
    BY ChainEmpty DEF Leads
  <2> QED BY <2>1, <2>2, <2>3
<1>4. Static!CountExact
  <2>1. Static!Buffered(Channels) = {}
    BY DEF Static!Buffered
  <2>2. vcReassemblyTotal = 0
    OBVIOUS
  <2> QED BY <2>1, <2>2, EmptySize, SameSize DEF Static!CountExact
<1>5. Static!WholeMessages
  BY DEF Static!WholeMessages
<1> QED BY <1>1, <1>2, <1>3, <1>4, <1>5 DEF RecvInv

\* The server sends a chunk.
LEMMA ServerStep ==
    ASSUME RecvInv, NEW c \in StaticChunk, Formed(c), Follows(cur[c.ch], c),
           cur' = [cur EXCEPT ![c.ch] = c], flight' = Append(flight, c),
           UNCHANGED <<server, vcReassembly, vcReassemblyTotal, got, dropped>>
    PROVE  RecvInv'
<1>1. /\ c.ch \in Channels /\ cur \in [Channels -> StaticChunk] /\ flight \in Seq(StaticChunk)
      /\ cur[c.ch] \in StaticChunk /\ server' = server
  BY DEF RecvInv, RecvTypeOK, StaticChunk
<1>2. /\ flight' \in Seq(StaticChunk) /\ Len(flight) \in Nat /\ Len(flight') = Len(flight) + 1
      /\ \A i \in 1 .. Len(flight) : flight'[i] = flight[i]
      /\ flight'[Len(flight) + 1] = c
  BY <1>1, AppendProperties
<1>3. RecvTypeOK'
  BY <1>1, <1>2 DEF RecvInv, RecvTypeOK
<1>4. AllFormed'
  BY <1>1, <1>2 DEF RecvInv, AllFormed, Formed, RecvTypeOK
<1>5. InStep'
  <2> SUFFICES ASSUME NEW ch \in Channels
               PROVE  \E p \in StaticChunk : Handled(p, ch)' /\ Leads(p, ch)'
    BY DEF InStep
  <2>1. PICK p \in StaticChunk : Handled(p, ch) /\ Leads(p, ch)
    BY DEF RecvInv, InStep
  <2>2. Handled(p, ch)'
    BY <2>1 DEF Handled, Holds
  <2>3. ChannelOf[c] = c.ch /\ <<cur[c.ch], c>> \in Following /\ Following' = Following
    BY <1>1 DEF ChannelOf, Following, Follows
  <2>4. Chain(Append(flight, c), ChannelOf, Following, ch, p, IF ChannelOf[c] = ch THEN c ELSE cur[ch])
    BY <1>1, <2>1, <2>3, ChainSends DEF Leads
  <2>5. cur'[ch] = IF ChannelOf[c] = ch THEN c ELSE cur[ch]
    BY <1>1, <2>3
  <2>6. Leads(p, ch)'
    BY <2>3, <2>4, <2>5 DEF Leads
  <2> QED BY <2>2, <2>6
<1>6. Static!CountExact' /\ Static!WholeMessages'
  BY DEF RecvInv, Static!CountExact, Static!Buffered, Static!WholeMessages, Static!Chunk
<1> QED BY <1>3, <1>4, <1>5, <1>6 DEF RecvInv

\* The receive loop takes the first chunk: what was handled on its channel comes before
\* it, and it comes before the rest.
LEMMA ReceiveStep ==
    ASSUME RecvInv, NEW c, Static!Receive(c)
    PROVE  /\ c \in StaticChunk /\ c.ch \in Channels /\ Formed(c)
           /\ server' = server /\ cur' = cur /\ flight' \in Seq(StaticChunk)
           /\ AllFormed'
           /\ \A d \in Channels : \E p \in StaticChunk :
                 /\ Handled(p, d) /\ (d = c.ch => Follows(p, c))
                 /\ Leads(IF d = c.ch THEN c ELSE p, d)'
<1>1. /\ flight \in Seq(StaticChunk) /\ flight # <<>> /\ c = Head(flight) /\ flight' = Tail(flight)
      /\ server' = server /\ cur' = cur
  BY DEF Static!Receive, RecvInv, RecvTypeOK
<1>2. /\ Len(flight) \in Nat /\ 1 \in 1 .. Len(flight) /\ c = flight[1] /\ c \in StaticChunk
      /\ flight' \in Seq(StaticChunk) /\ Len(flight') = Len(flight) - 1
      /\ \A i \in 1 .. Len(flight) - 1 : flight'[i] = flight[i + 1] /\ i + 1 \in 1 .. Len(flight)
  BY <1>1, TailElements
<1>3. Formed(c) /\ AllFormed'
  BY <1>1, <1>2 DEF RecvInv, AllFormed, Formed
<1>4. c.ch \in Channels /\ ChannelOf[c] = c.ch /\ Following' = Following
  BY <1>1, <1>2 DEF StaticChunk, ChannelOf, Following, Follows
<1>5. ASSUME NEW d \in Channels
      PROVE  \E p \in StaticChunk : /\ Handled(p, d) /\ (d = c.ch => Follows(p, c))
                                    /\ Leads(IF d = c.ch THEN c ELSE p, d)'
  <2>1. PICK p \in StaticChunk : Handled(p, d) /\ Leads(p, d)
    BY DEF RecvInv, InStep
  <2>2. /\ ChannelOf[Head(flight)] = d => <<p, Head(flight)>> \in Following
        /\ Chain(Tail(flight), ChannelOf, Following, d, IF ChannelOf[Head(flight)] = d THEN Head(flight) ELSE p, cur[d])
    BY <1>1, <2>1, ChainReceives DEF Leads
  <2>3. d = c.ch => Follows(p, c)
    BY <1>1, <1>4, <2>2 DEF Following
  <2>4. Chain(flight', ChannelOf, Following', d, IF d = c.ch THEN c ELSE p, cur'[d])
    BY <1>1, <1>4, <2>2
  <2> QED BY <2>1, <2>3, <2>4 DEF Leads
<1> QED BY <1>1, <1>2, <1>3, <1>4, <1>5

\* A buffer is replaced: the count follows.
LEMMA StoreExact ==
    ASSUME RecvInv, NEW d \in Channels, NEW b \in Seq(StaticChunk), Static!Store(d, b)
    PROVE  /\ vcReassembly' \in [Channels -> Seq(StaticChunk)] /\ vcReassemblyTotal' \in Nat
           /\ Static!CountExact'
           /\ vcReassembly'[d] = b
           /\ \A e \in Channels \ {d} : vcReassembly'[e] = vcReassembly[e]
<1>1. /\ vcReassembly \in [Channels -> Seq(StaticChunk)]
      /\ vcReassembly' = [vcReassembly EXCEPT ![d] = b]
      /\ vcReassemblyTotal' = vcReassemblyTotal - Len(vcReassembly[d]) + Len(b)
  BY DEF RecvInv, RecvTypeOK, Static!Store, Static!Size
<1>2. vcReassembly' \in [Channels -> Seq(StaticChunk)]
  BY <1>1
<1>3. IsFiniteSet(Channels) /\ Lists(vcReassembly, Channels) /\ Lists(vcReassembly', Channels)
  BY <1>1, <1>2, StaticConstants, ListsType
<1>4. vcReassembly'[d] = b /\ \A e \in Channels \ {d} : vcReassembly'[e] = vcReassembly[e]
  BY <1>1
<1>5. PICK r \in Nat :
          /\ Cardinality(Held(vcReassembly, Channels)) = r + Len(vcReassembly[d])
          /\ Cardinality(Held(vcReassembly', Channels)) = r + Len(vcReassembly'[d])
  BY <1>3, <1>4, HeldStore
<1>6. Len(b) \in Nat /\ Len(vcReassembly[d]) \in Nat
  BY <1>1
<1>7. /\ vcReassemblyTotal = Cardinality(Held(vcReassembly, Channels))
      /\ Static!CountExact' <=> vcReassemblyTotal' = Cardinality(Held(vcReassembly', Channels))
  BY SameSize DEF RecvInv, Static!CountExact, Static!Buffered, Held
<1>8. vcReassemblyTotal' = r + Len(b)
  BY <1>1, <1>5, <1>6, <1>7
<1> QED BY <1>2, <1>4, <1>5, <1>6, <1>7, <1>8

\* What is buffered is at most a message of Limit for each channel.
LEMMA BufferBound ==
    ASSUME RecvInv
    PROVE  /\ vcReassemblyTotal <= Cardinality(Channels) * Limit
           /\ vcReassemblyTotal \in Nat /\ Cardinality(Channels) * Limit \in Nat
<1>1. ASSUME NEW ch \in Channels PROVE Len(vcReassembly[ch]) <= Limit
  <2>1. PICK p \in StaticChunk : Handled(p, ch)
    BY DEF RecvInv, InStep
  <2>2. CASE vcReassembly[ch] = <<>>
    BY <2>2, StaticConstants
  <2>3. CASE Holds(p, ch)
    BY <2>1, <2>3, StaticConstants DEF Holds, Handled, StaticChunk
  <2> QED BY <2>1, <2>2, <2>3 DEF Handled, StaticChunk
<1>2. vcReassembly \in [Channels -> Seq(StaticChunk)] /\ vcReassemblyTotal \in Nat
  BY DEF RecvInv, RecvTypeOK
<1>3. Cardinality(Held(vcReassembly, Channels)) <= Cardinality(Channels) * Limit
  <2>1. IsFiniteSet(Channels) /\ Lists(vcReassembly, Channels)
    BY <1>2, StaticConstants, ListsType
  <2> QED BY <1>1, <2>1, StaticConstants, HeldBound
<1>4. vcReassemblyTotal = Cardinality(Held(vcReassembly, Channels))
  BY SameSize DEF RecvInv, Static!CountExact, Static!Buffered, Held
<1> QED BY <1>2, <1>3, <1>4, StaticConstants

\* A server that leaves messages unfinished has none dropped.
LEMMA NeverTooLong ==
    ASSUME RecvInv, NEW c \in StaticChunk, Formed(c), Static!TooLong(c)
    PROVE  server # "abandons"
<1>1. SUFFICES ASSUME server = "abandons" PROVE FALSE
  OBVIOUS
<1>2. c.len \in Nat /\ c.len <= Limit
  BY <1>1, StaticConstants DEF Formed, StaticChunk
<1>3. Cardinality(Channels) * Limit + Limit <= GlobalLimit
  BY <1>1, ChannelsAssumption DEF ChannelsAssumption, RecvInv, RecvTypeOK
<1> DEFINE m == Cardinality(Channels) * Limit
<1>4. m \in Nat /\ vcReassemblyTotal \in Nat /\ vcReassemblyTotal <= m
  BY BufferBound
<1> HIDE DEF m
<1>5. vcReassemblyTotal + c.len <= m + Limit
  BY <1>2, <1>4, StaticConstants
<1>6. m + Limit <= GlobalLimit
  BY <1>3 DEF m
<1> QED BY <1>2, <1>4, <1>5, <1>6, StaticConstants DEF Static!TooLong

\* The chunk before the one received on its channel, and how it was handled.
LEMMA Predecessor ==
    ASSUME RecvInv, NEW c, Static!Receive(c)
    PROVE  \E p \in StaticChunk : Handled(p, c.ch) /\ Follows(p, c)
BY ReceiveStep

\* What a handler is given is a whole message of the channel.
Message(ch, b) == \A i \in 1 .. Len(b) : b[i] = Static!Chunk(ch, b[1].n, i, Len(b))

\* A chunk has been handled on its channel, and the others are as they were.
LEMMA ReceivedStep ==
    ASSUME RecvInv, NEW c, Static!Receive(c),
           vcReassembly' \in [Channels -> Seq(StaticChunk)], vcReassemblyTotal' \in Nat,
           Static!CountExact',
           NEW b \in Seq(StaticChunk), Message(c.ch, b), NEW z \in Nat,
           got' = got \/ got' = [got EXCEPT ![c.ch] = b],
           dropped' = dropped \/ dropped' = [dropped EXCEPT ![c.ch] = z],
           \A d \in Channels \ {c.ch} : vcReassembly'[d] = vcReassembly[d],
           Handled(c, c.ch)'
    PROVE  RecvInv'
<1>1. c \in StaticChunk /\ c.ch \in Channels
  BY ReceiveStep DEF StaticChunk
<1>2. /\ got' \in [Channels -> Seq(StaticChunk)] /\ dropped' \in [Channels -> Nat]
      /\ \A d \in Channels \ {c.ch} : got'[d] = got[d] /\ dropped'[d] = dropped[d]
  BY <1>1 DEF RecvInv, RecvTypeOK
<1>3. RecvTypeOK'
  BY <1>2, ReceiveStep DEF RecvInv, RecvTypeOK
<1>4. InStep'
  <2> SUFFICES ASSUME NEW d \in Channels
               PROVE  \E p \in StaticChunk : Handled(p, d)' /\ Leads(p, d)'
    BY DEF InStep
  <2>1. PICK p \in StaticChunk : Handled(p, d) /\ Leads(IF d = c.ch THEN c ELSE p, d)'
    BY ReceiveStep
  <2>2. CASE d = c.ch
    BY <1>1, <2>1, <2>2
  <2>3. CASE d # c.ch
    <3>1. /\ vcReassembly'[d] = vcReassembly[d] /\ got'[d] = got[d]
          /\ dropped'[d] = dropped[d] /\ server' = server
      BY <1>2, <2>3, ReceiveStep
    <3>2. Handled(p, d)'
      BY <2>1, <3>1 DEF Handled, Holds
    <3> QED BY <2>1, <2>3, <3>2
  <2> QED BY <2>2, <2>3
<1>5. Static!WholeMessages'
  <2> SUFFICES ASSUME NEW d \in Channels PROVE Message(d, got'[d])
    BY DEF Static!WholeMessages, Message
  <2>1. Message(d, got[d])
    BY DEF RecvInv, Static!WholeMessages, Message
  <2>2. got'[d] = got[d] \/ (d = c.ch /\ got'[d] = b)
    BY <1>1 DEF RecvInv, RecvTypeOK
  <2> QED BY <2>1, <2>2
<1> QED BY <1>3, <1>4, <1>5, ReceiveStep DEF RecvInv

\* A message in one chunk.
LEMMA WholeStep ==
    ASSUME RecvInv, NEW c, Static!ReceiveWhole(c)
    PROVE  RecvInv'
<1>1. Static!Receive(c) /\ c.k = 1 /\ c.len = 1 /\ Static!Store(c.ch, <<>>)
      /\ got' = [got EXCEPT ![c.ch] = <<c>>] /\ dropped' = dropped
  BY DEF Static!ReceiveWhole, Static!NoBuf
<1>2. c \in StaticChunk /\ c.ch \in Channels
  BY <1>1, ReceiveStep DEF StaticChunk
<1>3. Message(c.ch, <<c>>) /\ <<c>> \in Seq(StaticChunk)
  BY <1>1, <1>2 DEF Message, Static!Chunk, StaticChunk
<1>4. /\ vcReassembly' \in [Channels -> Seq(StaticChunk)] /\ vcReassemblyTotal' \in Nat
      /\ Static!CountExact' /\ vcReassembly'[c.ch] = <<>>
      /\ \A d \in Channels \ {c.ch} : vcReassembly'[d] = vcReassembly[d]
  <2>1. <<>> \in Seq(StaticChunk)
    OBVIOUS
  <2> QED BY <1>1, <1>2, <2>1, StoreExact
<1>5. Handled(c, c.ch)'
  <2>1. got'[c.ch] = <<c>> /\ <<c>> # <<>> /\ <<c>>[1] = c
    BY <1>1, <1>2 DEF RecvInv, RecvTypeOK
  <2> QED BY <1>1, <1>4, <2>1 DEF Handled
<1> QED BY <1>1, <1>3, <1>4, <1>5, ReceivedStep

\* A first chunk that is kept: the message before was finished, or the server has
\* left it, and its buffer is replaced.
LEMMA FirstStep ==
    ASSUME RecvInv, NEW c, Static!ReceiveFirst(c)
    PROVE  RecvInv'
<1>1. Static!Receive(c) /\ c.k = 1 /\ c.len > 1 /\ c.len <= Limit /\ Static!Store(c.ch, <<c>>)
      /\ got' = got /\ dropped' = dropped
  BY ReceiveStep, StaticConstants DEF Static!ReceiveFirst, Static!TooLong, StaticChunk
<1>2. c \in StaticChunk /\ c.ch \in Channels /\ Formed(c)
  BY <1>1, ReceiveStep DEF StaticChunk
<1>3. /\ vcReassembly' \in [Channels -> Seq(StaticChunk)] /\ vcReassemblyTotal' \in Nat
      /\ Static!CountExact' /\ vcReassembly'[c.ch] = <<c>>
      /\ \A d \in Channels \ {c.ch} : vcReassembly'[d] = vcReassembly[d]
  <2>1. <<c>> \in Seq(StaticChunk)
    BY <1>2
  <2> QED BY <1>1, <1>2, <2>1, StoreExact
<1>4. Handled(c, c.ch)'
  BY <1>1, <1>2, <1>3 DEF Handled, Holds, Formed, Static!Chunk, StaticChunk
<1>5. Message(c.ch, <<>>) /\ <<>> \in Seq(StaticChunk)
  BY DEF Message
<1> QED BY <1>1, <1>3, <1>4, <1>5, ReceivedStep

\* A first chunk that is dropped: no buffer was there to stay.
LEMMA TooLongStep ==
    ASSUME RecvInv, NEW c, Static!ReceiveTooLong(c)
    PROVE  RecvInv'
<1>1. Static!Receive(c) /\ c.k = 1 /\ c.len > 1 /\ Static!TooLong(c)
      /\ dropped' = [dropped EXCEPT ![c.ch] = c.n]
      /\ UNCHANGED <<vcReassembly, vcReassemblyTotal, got>>
  BY DEF Static!ReceiveTooLong
<1>2. c \in StaticChunk /\ c.ch \in Channels /\ Formed(c) /\ server' = server
  BY <1>1, ReceiveStep DEF StaticChunk
<1>3. server # "abandons"
  BY <1>1, <1>2, NeverTooLong
<1>4. vcReassembly[c.ch] = <<>>
  BY <1>1, <1>2, <1>3, Predecessor DEF Follows, Handled, StaticChunk
<1>5. dropped'[c.ch] = c.n
  BY <1>1, <1>2 DEF RecvInv, RecvTypeOK
<1>6. Handled(c, c.ch)'
  BY <1>1, <1>2, <1>3, <1>4, <1>5 DEF Handled, Formed, StaticChunk
<1>7. Message(c.ch, <<>>) /\ <<>> \in Seq(StaticChunk) /\ c.n \in Nat
  BY <1>2 DEF Message, StaticChunk
<1>8. Static!CountExact' /\ vcReassembly' \in [Channels -> Seq(StaticChunk)]
      /\ vcReassemblyTotal' \in Nat
  BY <1>1 DEF RecvInv, RecvTypeOK, Static!CountExact, Static!Buffered
<1> QED BY <1>1, <1>6, <1>7, <1>8, ReceivedStep

\* The buffer with the next chunk of its message.
LEMMA HeldChunks ==
    ASSUME RecvInv, NEW c, Static!Receive(c), c.k > 1, vcReassembly[c.ch] # <<>>
    PROVE  LET b == Append(vcReassembly[c.ch], c) IN
           /\ b \in Seq(StaticChunk) /\ Len(b) = c.k /\ c.len <= Limit
           /\ \A i \in 1 .. c.k : b[i] = Static!Chunk(c.ch, c.n, i, c.len)
<1> DEFINE s == vcReassembly[c.ch]   b == Append(s, c)
<1>1. c \in StaticChunk /\ c.ch \in Channels /\ Formed(c)
  BY ReceiveStep DEF StaticChunk
<1>2. PICK p \in StaticChunk : Handled(p, c.ch) /\ Follows(p, c)
  BY Predecessor
<1>3. Holds(p, c.ch) /\ c.n = p.n /\ c.len = p.len /\ c.k = p.k + 1
  BY <1>1, <1>2 DEF Follows, Handled, StaticChunk
<1>4. s \in Seq(StaticChunk) /\ Len(s) = p.k
  BY <1>1, <1>3 DEF RecvInv, RecvTypeOK, Holds
<1>5. \A i \in 1 .. p.k : s[i] = Static!Chunk(c.ch, c.n, i, c.len)
  BY <1>3 DEF Holds
<1> HIDE DEF s
<1>6. b \in Seq(StaticChunk) /\ Len(b) = p.k + 1 /\ b[p.k + 1] = c
      /\ \A i \in 1 .. p.k : b[i] = s[i]
  BY <1>1, <1>4, AppendProperties
<1>7. c = Static!Chunk(c.ch, c.n, c.k, c.len)
  BY <1>1 DEF StaticChunk, Static!Chunk
<1> HIDE DEF b
<1>8. \A i \in 1 .. c.k : b[i] = Static!Chunk(c.ch, c.n, i, c.len)
  <2> SUFFICES ASSUME NEW i \in 1 .. p.k + 1 PROVE b[i] = Static!Chunk(c.ch, c.n, i, c.len)
    BY <1>3
  <2>1. CASE i = p.k + 1
    BY <1>3, <1>6, <1>7, <2>1
  <2>2. CASE i \in 1 .. p.k
    BY <1>5, <1>6, <2>2
  <2> QED BY <2>1, <2>2 DEF StaticChunk
<1>9. c.len <= Limit
  BY <1>3 DEF Holds
<1> QED BY <1>3, <1>6, <1>8, <1>9 DEF b, s

\* A chunk within a message.
LEMMA MiddleStep ==
    ASSUME RecvInv, NEW c, Static!ReceiveMiddle(c)
    PROVE  RecvInv'
<1> DEFINE b == Append(vcReassembly[c.ch], c)
<1>1. Static!Receive(c) /\ 1 < c.k /\ c.k < c.len /\ vcReassembly[c.ch] # <<>>
      /\ Static!Store(c.ch, b) /\ got' = got /\ dropped' = dropped
  BY DEF Static!ReceiveMiddle, Static!NoBuf
<1>2. c \in StaticChunk /\ c.ch \in Channels /\ Formed(c)
  BY <1>1, ReceiveStep DEF StaticChunk
<1>3. b \in Seq(StaticChunk) /\ Len(b) = c.k /\ c.len <= Limit
      /\ \A i \in 1 .. c.k : b[i] = Static!Chunk(c.ch, c.n, i, c.len)
  BY <1>1, <1>2, HeldChunks DEF StaticChunk
<1> HIDE DEF b
<1>4. /\ vcReassembly' \in [Channels -> Seq(StaticChunk)] /\ vcReassemblyTotal' \in Nat
      /\ Static!CountExact' /\ vcReassembly'[c.ch] = b
      /\ \A d \in Channels \ {c.ch} : vcReassembly'[d] = vcReassembly[d]
  BY <1>1, <1>2, <1>3, StoreExact
<1>5. Handled(c, c.ch)'
  <2>1. Holds(c, c.ch)'
    BY <1>3, <1>4 DEF Holds
  <2> QED BY <1>1, <1>2, <2>1 DEF Handled, Formed, StaticChunk
<1>6. Message(c.ch, <<>>) /\ <<>> \in Seq(StaticChunk)
  BY DEF Message
<1> QED BY <1>1, <1>4, <1>5, <1>6, ReceivedStep

\* The last chunk: the handler is given the whole message.
LEMMA LastStep ==
    ASSUME RecvInv, NEW c, Static!ReceiveLast(c)
    PROVE  RecvInv'
<1> DEFINE b == Append(vcReassembly[c.ch], c)
<1>1. Static!Receive(c) /\ 1 < c.k /\ c.k = c.len /\ vcReassembly[c.ch] # <<>>
      /\ Static!Store(c.ch, <<>>) /\ got' = [got EXCEPT ![c.ch] = b] /\ dropped' = dropped
  BY ReceiveStep DEF Static!ReceiveLast, Static!NoBuf, StaticChunk
<1>2. c \in StaticChunk /\ c.ch \in Channels /\ Formed(c)
  BY <1>1, ReceiveStep DEF StaticChunk
<1>3. b \in Seq(StaticChunk) /\ Len(b) = c.k
      /\ \A i \in 1 .. c.k : b[i] = Static!Chunk(c.ch, c.n, i, c.len)
  BY <1>1, <1>2, HeldChunks DEF StaticChunk
<1> HIDE DEF b
<1>4. b[1].n = c.n /\ b # <<>>
  <2>1. 1 \in 1 .. c.k /\ Len(b) # 0
    BY <1>1, <1>2, <1>3 DEF StaticChunk
  <2>2. b[1] = Static!Chunk(c.ch, c.n, 1, c.len)
    BY <1>3, <2>1
  <2> QED BY <2>1, <2>2 DEF Static!Chunk
<1>5. Message(c.ch, b)
  BY <1>1, <1>3, <1>4 DEF Message
<1>6. /\ vcReassembly' \in [Channels -> Seq(StaticChunk)] /\ vcReassemblyTotal' \in Nat
      /\ Static!CountExact' /\ vcReassembly'[c.ch] = <<>>
      /\ \A d \in Channels \ {c.ch} : vcReassembly'[d] = vcReassembly[d]
  <2>1. <<>> \in Seq(StaticChunk)
    OBVIOUS
  <2> QED BY <1>1, <1>2, <2>1, StoreExact
<1>7. got'[c.ch] = b
  BY <1>1, <1>2 DEF RecvInv, RecvTypeOK
<1>8. Handled(c, c.ch)'
  BY <1>1, <1>2, <1>4, <1>6, <1>7 DEF Handled, StaticChunk
<1> QED BY <1>1, <1>3, <1>5, <1>6, <1>8, ReceivedStep

\* A chunk of a message that was dropped.
LEMMA StrayStep ==
    ASSUME RecvInv, NEW c, Static!ReceiveStray(c)
    PROVE  RecvInv'
<1>1. Static!Receive(c) /\ c.k > 1 /\ vcReassembly[c.ch] = <<>>
      /\ UNCHANGED <<vcReassembly, vcReassemblyTotal, got, dropped>>
  BY DEF Static!ReceiveStray, Static!NoBuf
<1>2. c \in StaticChunk /\ c.ch \in Channels /\ Formed(c) /\ server' = server
  BY <1>1, ReceiveStep DEF StaticChunk
<1>3. PICK p \in StaticChunk : Handled(p, c.ch) /\ Follows(p, c)
  BY <1>1, Predecessor
<1>4. dropped[c.ch] = c.n /\ server # "abandons"
  BY <1>1, <1>2, <1>3 DEF Follows, Handled, Holds, StaticChunk
<1>5. Handled(c, c.ch)'
  BY <1>1, <1>2, <1>4 DEF Handled, Formed, StaticChunk
<1>6. Message(c.ch, <<>>) /\ <<>> \in Seq(StaticChunk)
  BY DEF Message
<1>7. Static!CountExact' /\ vcReassembly' \in [Channels -> Seq(StaticChunk)]
      /\ vcReassemblyTotal' \in Nat
  BY <1>1 DEF RecvInv, RecvTypeOK, Static!CountExact, Static!Buffered
<1> QED BY <1>1, <1>5, <1>6, <1>7, ReceivedStep

\* The server's two steps send what follows on the channel.
LEMMA ServerStarts ==
    ASSUME RecvInv, NEW ch \in Channels, Static!ServerStarts(ch)
    PROVE  RecvInv'
<1>1. PICK len \in 1 .. MaxLen :
          /\ cur[ch].k = cur[ch].len \/ server = "abandons"
          /\ len > Limit => server = "long"
          /\ cur' = [cur EXCEPT ![ch] = Static!Chunk(ch, cur[ch].n + 1, 1, len)]
  BY DEF Static!ServerStarts
<1> DEFINE c == Static!Chunk(ch, cur[ch].n + 1, 1, len)
<1>2. cur[ch] \in StaticChunk /\ cur[ch].ch = ch /\ cur \in [Channels -> StaticChunk]
  BY DEF RecvInv, RecvTypeOK
<1>3. c \in StaticChunk /\ Formed(c) /\ c.ch = ch /\ Follows(cur[c.ch], c)
  BY <1>1, <1>2, StaticConstants DEF StaticChunk, Formed, Follows, Static!Chunk
<1>4. cur' = [cur EXCEPT ![ch] = c] /\ cur'[ch] = c
  BY <1>1, <1>2
<1> HIDE DEF c
<1>5. flight' = Append(flight, c)
      /\ UNCHANGED <<server, vcReassembly, vcReassemblyTotal, got, dropped>>
  BY <1>4 DEF Static!ServerStarts
<1> QED BY <1>3, <1>4, <1>5, ServerStep

\* The server sends the next chunk of its message.
LEMMA ServerContinues ==
    ASSUME RecvInv, NEW ch \in Channels, Static!ServerContinues(ch)
    PROVE  RecvInv'
<1> DEFINE p == cur[ch]   c == [p EXCEPT !.k = @ + 1]
<1>1. p \in StaticChunk /\ p.ch = ch /\ cur \in [Channels -> StaticChunk]
      /\ (p = Static!Chunk(ch, 0, 0, 0) \/ Formed(p))
  BY DEF RecvInv, RecvTypeOK, AllFormed
<1>2. p.k < p.len /\ cur' = [cur EXCEPT ![ch].k = @ + 1] /\ flight' = Append(flight, cur'[ch])
      /\ UNCHANGED <<server, vcReassembly, vcReassemblyTotal, got, dropped>>
  BY DEF Static!ServerContinues
<1>3. cur' = [cur EXCEPT ![ch] = c] /\ cur'[ch] = c
  BY <1>1, <1>2
<1> HIDE DEF p
<1>4. Formed(p)
  BY <1>1, <1>2 DEF Static!Chunk
<1>5. /\ c \in StaticChunk /\ c.ch = p.ch /\ c.n = p.n /\ c.k = p.k + 1 /\ c.len = p.len
  BY <1>1 DEF StaticChunk
<1> HIDE DEF c
<1>6. Formed(c) /\ Follows(p, c)
  BY <1>1, <1>2, <1>4, <1>5 DEF StaticChunk, Formed, Follows
<1>7. cur[c.ch] = p
  BY <1>1, <1>5 DEF p
<1> QED BY <1>1, <1>2, <1>3, <1>5, <1>6, <1>7, ServerStep

\* Senders leave what is received alone.
LEMMA RecvFrame ==
    ASSUME RecvInv, UNCHANGED Static!recvVars
    PROVE  RecvInv'
<1>1. RecvTypeOK' /\ AllFormed'
  BY DEF RecvInv, Static!recvVars, RecvTypeOK, AllFormed, Formed
<1>2. Following' = Following
  BY DEF Static!recvVars, Following, Follows
<1>3. \A p, ch : Handled(p, ch)' = Handled(p, ch) /\ Leads(p, ch)' = Leads(p, ch)
  BY <1>2 DEF Static!recvVars, Handled, Holds, Leads
<1>4. InStep'
  BY <1>3 DEF RecvInv, InStep
<1>5. Static!CountExact' /\ Static!WholeMessages'
  BY DEF RecvInv, Static!recvVars, Static!CountExact, Static!Buffered, Static!WholeMessages
<1> QED BY <1>1, <1>4, <1>5 DEF RecvInv

\* Every step keeps the invariant of the static receive loop.
LEMMA RecvNext == RecvInv /\ [Static!Next]_(Static!vcVars) => RecvInv'
<1> SUFFICES ASSUME RecvInv, [Static!Next]_(Static!vcVars) PROVE RecvInv'
  OBVIOUS
<1>1. ASSUME NEW ch \in Channels, Static!ServerStarts(ch) \/ Static!ServerContinues(ch)
      PROVE  RecvInv'
  BY <1>1, ServerStarts, ServerContinues
<1>2. ASSUME NEW c, \/ Static!ReceiveWhole(c) \/ Static!ReceiveFirst(c) \/ Static!ReceiveTooLong(c)
                    \/ Static!ReceiveMiddle(c) \/ Static!ReceiveLast(c) \/ Static!ReceiveStray(c)
      PROVE  RecvInv'
  BY <1>2, WholeStep, FirstStep, TooLongStep, MiddleStep, LastStep, StrayStep
<1>3. ASSUME NEW s \in Senders, \/ \E ch \in Channels : Static!SendBegins(s, ch)
                                \/ Static!SendChunk(s) \/ Static!SendFails(s)
      PROVE  RecvInv'
  BY <1>3, RecvFrame DEF Static!SendBegins, Static!SendChunk, Static!SendFails
<1>4. CASE UNCHANGED Static!vcVars
  BY <1>4, RecvFrame DEF Static!vcVars
<1> QED BY <1>1, <1>2, <1>3, <1>4 DEF Static!Next

\* What a handler is given, and what is buffered, in every reachable state.
THEOREM ReceivedInStep == Static!Spec => []RecvInv
BY RecvInit, RecvNext, PTL DEF Static!Spec

\* Once everything has arrived, the last chunk handled is the server's last one.
LEMMA ReceivedFaithful == RecvInv => Static!MessagesFaithful
<1> SUFFICES ASSUME RecvInv PROVE Static!NothingLost
  BY DEF RecvInv, Static!MessagesFaithful
<1> SUFFICES ASSUME NEW ch \in Channels, flight = <<>>, cur[ch].n > 0, cur[ch].k = cur[ch].len
             PROVE  \/ dropped[ch] = cur[ch].n
                    \/ got[ch] # <<>> /\ got[ch][1].n = cur[ch].n
  BY DEF Static!NothingLost
<1>1. PICK p \in StaticChunk : Handled(p, ch) /\ Leads(p, ch)
  BY DEF RecvInv, InStep
<1>2. p = cur[ch]
  BY <1>1 DEF Leads, Chain, Lacks
<1> QED BY <1>1, <1>2 DEF Handled

\* Messages come out of the static channels whole and complete, and the buffers add up
\* to the count that enforces the global limit, whatever number of channels, lengths and
\* limits there are.
THEOREM StaticMessagesFaithful == Static!Spec => []Static!MessagesFaithful
BY ReceivedInStep, ReceivedFaithful, PTL

\* The run's specification is each module's, one at a time.
LEMMA RunsEach == MCSpec => Static!Spec /\ Dynamic!Spec
<1>1. MCInit => Static!Init /\ Dynamic!Init
  BY DEF MCInit
<1>2. ASSUME [MCNext]_mcVars
      PROVE  [Static!Next]_(Static!vcVars) /\ [Dynamic!Next]_(Dynamic!dvcVars)
  <2>1. UNCHANGED staticVars => UNCHANGED Static!vcVars
    BY DEF staticVars, Static!vcVars, Static!recvVars, Static!sendVars
  <2>2. UNCHANGED dynamicVars => UNCHANGED Dynamic!dvcVars
    BY DEF dynamicVars, Dynamic!dvcVars, Dynamic!recvVars, Dynamic!sendVars
  <2>3. UNCHANGED mcVars => UNCHANGED staticVars /\ UNCHANGED dynamicVars
    BY DEF mcVars, staticVars, dynamicVars
  <2>4. MCNext => \/ Static!Next /\ UNCHANGED dynamicVars
                  \/ Dynamic!Next /\ UNCHANGED staticVars
    BY DEF MCNext
  <2> QED BY <1>2, <2>1, <2>2, <2>3, <2>4
<1> QED BY <1>1, <1>2, PTL DEF MCSpec, Static!Spec, Dynamic!Spec

\* The same of the behaviours that the run checks.
THEOREM MessagesAlwaysFaithful == MCSpec => []MessagesFaithful
BY RunsEach, StaticMessagesFaithful DEF MessagesFaithful

-----------------------------------------------------------------------------
(* Static channels: what the senders write.                                *)

Sending == [ch : Channels, k : Nat, len : Nat]

\* A channel between two messages, and one that s is in a message on.
Resting(ch) == wire[ch].k = wire[ch].len /\ \A s \in Senders : snd[s].ch = ch => snd[s].k = 0
Within(ch, s) ==
    /\ snd[s].ch = ch /\ snd[s].k > 0
    /\ wire[ch] = [by |-> s, k |-> snd[s].k, len |-> snd[s].len]

\* The sender that holds writeMu is the one that is in a message, and while the
\* connection lives each channel is where its message left it, or between two.
SendInv ==
    /\ snd \in [Senders -> Sending \cup {Static!Idle}]
    /\ wire \in [Channels -> [by : Senders \cup {Static!Free}, k : Nat, len : Nat]]
    /\ writeMu \in Senders \cup {Static!Free} /\ down \in BOOLEAN
    /\ \A s \in Senders : snd[s] # Static!Idle => writeMu = s
    /\ \A s \in Senders : snd[s] # Static!Idle => snd[s].k < snd[s].len
    /\ ~down => \A ch \in Channels :
          Resting(ch) \/ \E s \in Senders : Within(ch, s)

\* The step that writes a chunk continues its message or begins one.
Continued(ch) ==
    \/ wire'[ch] = wire[ch]
    \/ wire'[ch].k = 1 /\ wire[ch].k = wire[ch].len
    \/ wire'[ch].by = wire[ch].by /\ wire'[ch].k = wire[ch].k + 1

\* Nobody else is in a message while writeMu is held.
LEMMA OneSender ==
    ASSUME SendInv, NEW s \in Senders, writeMu \in {s, Static!Free}, NEW t \in Senders, t # s
    PROVE  snd[t] = Static!Idle
BY ChannelsAssumption DEF ChannelsAssumption, SendInv, Static!Free

\* SendData takes writeMu for a message.
LEMMA BeginsStep ==
    ASSUME SendInv, NEW s \in Senders, NEW d \in Channels, Static!SendBegins(s, d)
    PROVE  SendInv' /\ \A ch \in Channels : Continued(ch)
<1>1. PICK len \in 1 .. MaxLen : snd' = [snd EXCEPT ![s] = [ch |-> d, k |-> 0, len |-> len]]
  BY DEF Static!SendBegins
<1>2. /\ snd[s] = Static!Idle /\ writeMu = Static!Free /\ writeMu' = s
      /\ wire' = wire /\ down' = down
  BY DEF Static!SendBegins
<1>3. [ch |-> d, k |-> 0, len |-> len] \in Sending /\ 0 < len
  BY StaticConstants DEF Sending
<1>4. /\ snd' \in [Senders -> Sending \cup {Static!Idle}]
      /\ snd'[s].k = 0 /\ snd'[s].len = len
      /\ \A t \in Senders \ {s} : snd'[t] = snd[t]
  BY <1>1, <1>3 DEF SendInv
<1>5. \A t \in Senders : snd[t] = Static!Idle
  BY <1>2, OneSender
<1>6. Static!Idle.k = 0
  BY DEF Static!Idle
<1>7. \A t \in Senders : snd'[t].k = 0 /\ snd[t].k = 0
  BY <1>4, <1>5, <1>6
<1>8. ~down' => \A ch \in Channels : Resting(ch)'
  BY <1>2, <1>7 DEF SendInv, Resting, Within
<1> QED BY <1>2, <1>3, <1>4, <1>5, <1>7, <1>8 DEF SendInv, Continued

\* SendData writes a chunk, and lets go of writeMu after the last.
LEMMA ChunkStep ==
    ASSUME SendInv, NEW s \in Senders, Static!SendChunk(s)
    PROVE  SendInv' /\ \A ch \in Channels : Continued(ch)
<1> DEFINE m == snd[s]   w == [by |-> s, k |-> m.k + 1, len |-> m.len]
<1>1. /\ m # Static!Idle /\ ~down /\ down' = down /\ wire' = [wire EXCEPT ![m.ch] = w]
      /\ snd' = [snd EXCEPT ![s] = IF m.k + 1 = m.len THEN Static!Idle ELSE [m EXCEPT !.k = @ + 1]]
      /\ writeMu' = IF m.k + 1 = m.len THEN Static!Free ELSE writeMu
  BY DEF Static!SendChunk
<1>2. m \in Sending /\ m.k < m.len /\ writeMu = s
  BY <1>1 DEF SendInv
<1>3. m.ch \in Channels /\ m.k \in Nat /\ m.len \in Nat /\ w.k = m.k + 1 /\ w.len = m.len /\ w.by = s
      /\ w \in [by : Senders \cup {Static!Free}, k : Nat, len : Nat]
  BY <1>2 DEF Sending
<1>4. /\ wire' \in [Channels -> [by : Senders \cup {Static!Free}, k : Nat, len : Nat]]
      /\ wire'[m.ch] = w /\ \A ch \in Channels \ {m.ch} : wire'[ch] = wire[ch]
  BY <1>1, <1>3 DEF SendInv
<1>5. \A t \in Senders \ {s} : snd[t] = Static!Idle
  BY <1>2, OneSender
<1>6. Static!Idle.k = 0
  BY DEF Static!Idle
<1>7. \A t \in Senders \ {s} : snd'[t] = Static!Idle /\ snd'[t].k = 0 /\ snd[t].k = 0
  BY <1>1, <1>5, <1>6 DEF SendInv
\* Before the step, the sender's channel is where m left it, and the others are complete.
<1>8. IF m.k = 0 THEN wire[m.ch].k = wire[m.ch].len
                 ELSE wire[m.ch].by = s /\ wire[m.ch].k = m.k
  <2>1. Resting(m.ch) \/ \E t \in Senders : Within(m.ch, t)
    BY <1>1, <1>3 DEF SendInv
  <2>2. Resting(m.ch) => m.k = 0 /\ wire[m.ch].k = wire[m.ch].len
    BY DEF Resting
  <2>3. \A t \in Senders : Within(m.ch, t) => t = s
    BY <1>7 DEF Within
  <2>4. Within(m.ch, s) => m.k # 0 /\ wire[m.ch].by = s /\ wire[m.ch].k = m.k
    BY DEF Within
  <2> QED BY <2>1, <2>2, <2>3, <2>4
<1>9. \A ch \in Channels \ {m.ch} : wire[ch].k = wire[ch].len
  BY <1>1, <1>7 DEF SendInv, Resting, Within
<1>10. \A ch \in Channels : Continued(ch)
  BY <1>3, <1>4, <1>8 DEF Continued
<1> HIDE DEF w
<1>11. CASE m.k + 1 = m.len
  <2>1. writeMu' = Static!Free /\ snd'[s] = Static!Idle /\ snd' \in [Senders -> Sending \cup {Static!Idle}]
    BY <1>1, <1>11 DEF SendInv
  <2>2. \A t \in Senders : snd'[t] = Static!Idle /\ snd'[t].k = 0
    BY <1>6, <1>7, <2>1
  <2>3. \A ch \in Channels : Resting(ch)'
    BY <1>3, <1>4, <1>9, <1>11, <2>2 DEF Resting
  <2> QED BY <1>1, <1>4, <1>10, <2>1, <2>2, <2>3 DEF SendInv
<1>12. CASE m.k + 1 # m.len
  <2> DEFINE r == [m EXCEPT !.k = @ + 1]
  <2>1. r \in Sending /\ r.ch = m.ch /\ r.k = m.k + 1 /\ r.len = m.len /\ r.k < r.len
    BY <1>2, <1>12 DEF Sending
  <2>2. writeMu' = s /\ snd' = [snd EXCEPT ![s] = r]
    BY <1>1, <1>2, <1>12
  <2> HIDE DEF r
  <2>3. snd'[s] = r /\ snd' \in [Senders -> Sending \cup {Static!Idle}]
    BY <2>1, <2>2 DEF SendInv
  <2>4. \A t \in Senders : snd'[t] # Static!Idle => writeMu' = t /\ snd'[t].k < snd'[t].len
    BY <1>7, <2>1, <2>2, <2>3
  <2>5. ASSUME NEW ch \in Channels, ch = m.ch PROVE Within(ch, s)'
    BY <1>3, <1>4, <2>1, <2>3, <2>5 DEF Within, w
  <2>6. ASSUME NEW ch \in Channels, ch # m.ch PROVE Resting(ch)'
    BY <1>4, <1>7, <1>9, <2>1, <2>3, <2>6 DEF Resting
  <2> QED BY <1>1, <1>4, <1>10, <2>2, <2>3, <2>4, <2>5, <2>6 DEF SendInv
<1> QED BY <1>11, <1>12

\* A write fails: writeMu is free and the connection is down.
LEMMA FailsStep ==
    ASSUME SendInv, NEW s \in Senders, Static!SendFails(s)
    PROVE  SendInv' /\ \A ch \in Channels : Continued(ch)
<1>1. /\ snd[s] # Static!Idle /\ down' = TRUE /\ wire' = wire /\ writeMu' = Static!Free
      /\ snd' = [snd EXCEPT ![s] = Static!Idle]
  BY DEF Static!SendFails
<1>2. writeMu = s
  BY <1>1 DEF SendInv
<1>3. \A t \in Senders : snd'[t] = Static!Idle
  BY <1>1, <1>2, OneSender DEF SendInv
<1> QED BY <1>1, <1>3 DEF SendInv, Continued

\* Every step keeps the invariant of the senders and continues or begins a message.
LEMMA SendNext ==
    ASSUME SendInv, [Static!Next]_(Static!vcVars)
    PROVE  SendInv' /\ \A ch \in Channels : Continued(ch)
<1>1. ASSUME UNCHANGED Static!sendVars PROVE SendInv' /\ \A ch \in Channels : Continued(ch)
  BY <1>1 DEF SendInv, Resting, Within, Static!sendVars, Continued
<1>2. ASSUME NEW ch \in Channels, Static!ServerStarts(ch) \/ Static!ServerContinues(ch)
      PROVE  UNCHANGED Static!sendVars
  BY <1>2 DEF Static!ServerStarts, Static!ServerContinues
<1>3. ASSUME NEW c, \/ Static!ReceiveWhole(c) \/ Static!ReceiveFirst(c) \/ Static!ReceiveTooLong(c)
                    \/ Static!ReceiveMiddle(c) \/ Static!ReceiveLast(c) \/ Static!ReceiveStray(c)
      PROVE  UNCHANGED Static!sendVars
  BY <1>3 DEF Static!ReceiveWhole, Static!ReceiveFirst, Static!ReceiveTooLong,
              Static!ReceiveMiddle, Static!ReceiveLast, Static!ReceiveStray, Static!Receive
<1>4. UNCHANGED Static!vcVars => UNCHANGED Static!sendVars
  BY DEF Static!vcVars
<1> QED BY <1>1, <1>2, <1>3, <1>4, BeginsStep, ChunkStep, FailsStep DEF Static!Next

\* It holds at the start: nobody sends.
LEMMA SendInit == Static!Init => SendInv
<1> SUFFICES ASSUME Static!Init PROVE SendInv
  OBVIOUS
<1> USE DEF Static!Init
<1>1. \A s \in Senders : snd[s] = Static!Idle /\ snd[s].k = 0
  BY DEF Static!Idle
<1>2. \A ch \in Channels : Resting(ch)
  BY <1>1 DEF Resting
<1>3. snd \in [Senders -> Sending \cup {Static!Idle}]
      /\ wire \in [Channels -> [by : Senders \cup {Static!Free}, k : Nat, len : Nat]]
  OBVIOUS
<1> QED BY <1>1, <1>2, <1>3 DEF SendInv

\* The chunks of a message follow each other on every channel, with no other sender's in
\* between: writeMu is held from the first chunk to the last.
THEOREM StaticChunksContiguous == Static!Spec => Static!ChunksContiguous
<1>1. Static!Spec => []SendInv
  BY SendInit, SendNext, PTL DEF Static!Spec
<1>2. SendInv /\ [Static!Next]_(Static!vcVars)
      => [\A ch \in Channels :
            wire'[ch] # wire[ch] =>
                \/ wire'[ch].k = 1 /\ wire[ch].k = wire[ch].len
                \/ wire'[ch].by = wire[ch].by /\ wire'[ch].k = wire[ch].k + 1]_(Static!vcVars)
  BY SendNext DEF Continued
<1> QED BY <1>1, <1>2, PTL DEF Static!Spec, Static!ChunksContiguous
-----------------------------------------------------------------------------
(* Dynamic channels: what the receive loop makes of each ID.               *)

Fragment == [inc : Nat, n : Nat, k : Nat, len : Nat]
DynPdu == [cmd : {"create", "data", "first", "close"}, id : Ids,
           inc : Nat, n : Nat, k : Nat, len : Nat]

SrvState == [st : {"none", "asked", "open"}, inc : Nat, n : Nat, k : Nat, len : Nat]

DynTypeOK ==
    /\ srv \in [Ids -> SrvState]
    /\ dflight \in Seq(DynPdu)
    /\ chan \in [Ids -> [inc : Nat, buf : Seq(Fragment), total : Nat]]
    /\ loop \in [at : {"ready", "respond", "open"}, id : Ids \cup {0}, ok : BOOLEAN]
    /\ loop.at = "ready" => loop = Dynamic!Ready
    /\ loop.at # "ready" => loop.id \in Ids
    /\ loop.at = "open" => loop.ok
    /\ opened \subseteq Ids
    /\ dgot \in [Ids -> [inc : Nat, n : Nat, buf : Seq(Fragment)]]

\* Where the server is on an ID, and the PDUs it has sent.
Going(m) ==
    /\ m.k <= m.len /\ m.len <= DynMaxLen
    /\ m.k < m.len => 1 <= m.n /\ 1 <= m.k
Sent(c) ==
    /\ 1 <= c.inc /\ Going(c)
    /\ c.cmd = "create" => c.n = 0 /\ c.k = 0 /\ c.len = 0
    /\ c.cmd \in {"data", "first"} => 1 <= c.n /\ 1 <= c.k /\ (c.cmd = "first" <=> c.k = 1 /\ c.len > 1)

\* A create is answered before the server sends anything else on its ID.
WayOK ==
    /\ \A i \in Ids : Going(srv[i])
    /\ \A j \in 1 .. Len(dflight) :
          /\ Sent(dflight[j])
          /\ dflight[j].cmd = "create" =>
                /\ dflight[j].inc = srv[dflight[j].id].inc
                /\ \A m \in j + 1 .. Len(dflight) : dflight[m].id # dflight[j].id

\* The PDUs of an ID that are under way, by their commands.
Kinds(s, i) == {s[j].cmd : j \in {j \in 1 .. Len(s) : s[j].id = i}}

Responding(i) == loop.at = "respond" /\ loop.id = i

\* What the two sides hold to be open, and what is under way where they differ.
Agreed(i) ==
    LET there == chan[i] # Dynamic!NoChan
        way == Kinds(dflight, i)
    IN /\ chan[i].inc <= srv[i].inc
       /\ srv[i].st = "open" => there /\ chan[i].inc = srv[i].inc
       /\ srv[i].st = "asked" => Responding(i) \/ "create" \in way
       /\ there => srv[i].st = "open" \/ Responding(i) \/ "close" \in way
       /\ "create" \in way => srv[i].st = "asked" /\ chan[i].inc < srv[i].inc
       /\ "close" \in way => srv[i].st # "open"
       /\ Responding(i) => srv[i].st = "asked" /\ way = {}
       /\ loop.at # "ready" /\ loop.id = i => i \notin opened /\ (there <=> loop.ok)
       /\ i \in opened => there

\* c is what the server sends on an ID after p.
Succeeds(p, c) ==
    /\ p.id = c.id
    /\ c.cmd = "create" => c.inc = p.inc + 1
    /\ c.cmd # "create" => c.inc = p.inc
    /\ c.cmd = "close" => c.n = p.n /\ c.k = p.k /\ c.len = p.len
    /\ c.cmd \in {"data", "first"} =>
          \/ c.n = p.n /\ c.len = p.len /\ c.k = p.k + 1 /\ p.k < p.len
          \/ c.n = p.n + 1 /\ c.k = 1 /\ p.k = p.len

IdOf == [c \in DynPdu |-> c.id]
Succeeding == {pair \in DynPdu \X DynPdu : Succeeds(pair[1], pair[2])}

\* c ends where the server is.
Current(c, i) ==
    /\ c.id = i /\ c.inc = srv[i].inc
    /\ c.n = srv[i].n /\ c.k = srv[i].k /\ c.len = srv[i].len

\* The messages that have arrived in full with p.
Finished(p) == IF p.k = p.len THEN p.n ELSE p.n - 1

\* Where the channel of an ID stands after p: it holds the message of p up to p, and its
\* handler was given the message before.
Heard(p, i) ==
    /\ p.id = i /\ dgot[i].inc <= p.inc
    /\ chan[i] # Dynamic!NoChan =>
          /\ 1 <= p.inc /\ Going(p) /\ chan[i].inc = p.inc
          /\ p.k = p.len => chan[i].buf = <<>> /\ chan[i].total = 0
          /\ p.k < p.len =>
                /\ chan[i].total = p.len /\ Len(chan[i].buf) = p.k
                /\ \A j \in 1 .. p.k : chan[i].buf[j] = [inc |-> p.inc, n |-> p.n, k |-> j, len |-> p.len]
          /\ Finished(p) = 0 => dgot[i].inc < p.inc
          /\ Finished(p) # 0 => dgot[i].inc = p.inc /\ dgot[i].n = Finished(p)

UpTo(i) == \E p, c \in DynPdu :
    Heard(p, i) /\ Current(c, i) /\ Chain(dflight, IdOf, Succeeding, i, p, c)

DynInv ==
    /\ DynTypeOK /\ WayOK
    /\ \A i \in Ids : Agreed(i)
    /\ \A i \in Ids : UpTo(i)
    /\ Dynamic!HandlersGetWhole

\* A PDU joins those under way, and the first one leaves them.
LEMMA KindsAppend ==
    ASSUME NEW T, NEW s \in Seq(T), NEW c \in T, NEW i
    PROVE  Kinds(Append(s, c), i) = IF c.id = i THEN Kinds(s, i) \cup {c.cmd} ELSE Kinds(s, i)
<1> DEFINE n == Len(s)   t == Append(s, c)
<1>1. /\ n \in Nat /\ Len(t) = n + 1 /\ t[n + 1] = c
      /\ \A j \in 1 .. n : t[j] = s[j]
  BY AppendProperties
<1> HIDE DEF t
<1>2. {j \in 1 .. Len(t) : t[j].id = i}
          = {j \in 1 .. n : s[j].id = i} \cup (IF c.id = i THEN {n + 1} ELSE {})
  BY <1>1
<1>3. Kinds(t, i) = IF c.id = i THEN Kinds(s, i) \cup {c.cmd} ELSE Kinds(s, i)
  BY <1>1, <1>2 DEF Kinds
<1> QED BY <1>3 DEF t

\* The same of the first PDU, which leaves.
LEMMA KindsTail ==
    ASSUME NEW T, NEW s \in Seq(T), s # <<>>, NEW i
    PROVE  /\ Kinds(Tail(s), i) \subseteq Kinds(s, i)
           /\ Head(s).id # i => Kinds(Tail(s), i) = Kinds(s, i)
           /\ Head(s).id = i => Kinds(s, i) = Kinds(Tail(s), i) \cup {Head(s).cmd}
           /\ (\A m \in 2 .. Len(s) : s[m].id # i) => Kinds(Tail(s), i) = {}
<1> DEFINE n == Len(s)   t == Tail(s)   h == Head(s)
<1>1. /\ n \in Nat /\ 1 \in 1 .. n /\ h = s[1] /\ Len(t) = n - 1
      /\ \A j \in 1 .. n - 1 : t[j] = s[j + 1] /\ j + 1 \in 1 .. n
  BY TailElements
<1> HIDE DEF t, h
<1>2. \A k \in Kinds(t, i) : \E j \in 2 .. n : s[j].id = i /\ s[j].cmd = k
  <2> SUFFICES ASSUME NEW j \in 1 .. n - 1, t[j].id = i
               PROVE  \E m \in 2 .. n : s[m].id = i /\ s[m].cmd = t[j].cmd
    BY <1>1 DEF Kinds
  <2>1. j + 1 \in 2 .. n /\ t[j] = s[j + 1]
    BY <1>1
  <2> QED BY <2>1
<1>3. \A j \in 2 .. n : s[j].id = i => s[j].cmd \in Kinds(t, i)
  <2> SUFFICES ASSUME NEW j \in 2 .. n, s[j].id = i PROVE s[j].cmd \in Kinds(t, i)
    OBVIOUS
  <2>1. j - 1 \in 1 .. n - 1 /\ j - 1 + 1 = j
    BY <1>1
  <2>2. t[j - 1] = s[j]
    BY <1>1, <2>1
  <2> QED BY <1>1, <2>1, <2>2 DEF Kinds
<1>4. \A k : k \in Kinds(s, i) <=> (h.id = i /\ h.cmd = k) \/ \E j \in 2 .. n : s[j].id = i /\ s[j].cmd = k
  BY <1>1 DEF Kinds
<1>5. \A k \in Kinds(t, i) : k \in Kinds(s, i)
  BY <1>2, <1>4
<1>6. \A k \in Kinds(s, i) : k \in Kinds(t, i) \/ (h.id = i /\ h.cmd = k)
  BY <1>3, <1>4
<1>7. h.id = i => h.cmd \in Kinds(s, i)
  BY <1>4
<1>8. (\A m \in 2 .. n : s[m].id # i) => Kinds(t, i) = {}
  BY <1>2
<1> QED BY <1>5, <1>6, <1>7, <1>8 DEF t, h

\* The bounds, as the provers need them.
LEMMA DynConstants == DynLimit \in Nat /\ DynMaxLen \in Nat /\ DynMaxLen <= DynLimit
BY ChannelsAssumption DEF ChannelsAssumption

\* It holds at the start: no ID is in use.
LEMMA DynInit == Dynamic!Init => DynInv
<1> SUFFICES ASSUME Dynamic!Init PROVE DynInv
  OBVIOUS
<1> USE DEF Dynamic!Init
<1>1. Dynamic!NoChan \in [inc : Nat, buf : Seq(Fragment), total : Nat] /\ Dynamic!NoChan.inc = 0
  BY DEF Dynamic!NoChan
<1>2. Dynamic!NoMsg \in [inc : Nat, n : Nat, buf : Seq(Fragment)] /\ Dynamic!NoMsg.inc = 0
  BY DEF Dynamic!NoMsg
<1>3. loop \in [at : {"ready", "respond", "open"}, id : Ids \cup {0}, ok : BOOLEAN] /\ loop.at = "ready"
  BY DEF Dynamic!Ready
<1>4. DynTypeOK
  BY <1>1, <1>2, <1>3 DEF DynTypeOK, SrvState
<1>5. WayOK
  BY DynConstants DEF WayOK, Going
<1>6. ASSUME NEW i \in Ids PROVE Agreed(i)
  <2>1. Kinds(dflight, i) = {}
    BY DEF Kinds
  <2> QED BY <1>1, <1>3, <2>1 DEF Agreed, Responding
<1>7. ASSUME NEW i \in Ids PROVE UpTo(i)
  <2> DEFINE p == [cmd |-> "close", id |-> i, inc |-> 0, n |-> 0, k |-> 0, len |-> 0]
  <2>1. p \in DynPdu /\ Current(p, i)
    BY DEF DynPdu, Current
  <2>2. Heard(p, i)
    BY <1>2 DEF Heard
  <2> HIDE DEF p
  <2>3. Chain(dflight, IdOf, Succeeding, i, p, p)
    BY ChainEmpty
  <2> QED BY <2>1, <2>2, <2>3 DEF UpTo
<1>8. Dynamic!HandlersGetWhole
  BY DEF Dynamic!HandlersGetWhole
<1> QED BY <1>4, <1>5, <1>6, <1>7, <1>8 DEF DynInv

\* The server sends c, and is then at s.
PduSent(c, s) ==
    /\ c \in DynPdu /\ Sent(c) /\ "create" \notin Kinds(dflight, c.id)
    /\ s \in SrvState /\ s.inc = c.inc /\ s.n = c.n /\ s.k = c.k /\ s.len = c.len
    /\ \A q \in DynPdu : Current(q, c.id) => Succeeds(q, c)
    /\ srv' = [srv EXCEPT ![c.id] = s] /\ dflight' = Append(dflight, c)
    /\ UNCHANGED <<chan, loop, opened, dgot>>

\* What a step that sends c leaves to show: that the two sides still agree.
LEMMA DynSends ==
    ASSUME DynInv, NEW c, NEW s, PduSent(c, s)
    PROVE  /\ DynTypeOK' /\ WayOK' /\ Dynamic!HandlersGetWhole'
           /\ \A i \in Ids : UpTo(i)'
           /\ \A i \in Ids : Kinds(dflight', i) = IF i = c.id THEN Kinds(dflight, i) \cup {c.cmd}
                                                             ELSE Kinds(dflight, i)
           /\ c.id \in Ids /\ srv'[c.id] = s /\ \A i \in Ids \ {c.id} : srv'[i] = srv[i]
<1> USE DEF PduSent
<1>1. /\ c.id \in Ids /\ srv'[c.id] = s /\ \A i \in Ids \ {c.id} : srv'[i] = srv[i]
      /\ srv' \in [Ids -> SrvState]
      /\ dflight \in Seq(DynPdu)
  BY DEF DynInv, DynTypeOK, DynPdu
<1>2. /\ dflight' \in Seq(DynPdu) /\ Len(dflight) \in Nat /\ Len(dflight') = Len(dflight) + 1
      /\ \A j \in 1 .. Len(dflight) : dflight'[j] = dflight[j]
      /\ dflight'[Len(dflight) + 1] = c
  BY <1>1, AppendProperties
<1>3. DynTypeOK'
  BY <1>1, <1>2 DEF DynInv, DynTypeOK
<1>4. \A i \in Ids : Kinds(dflight', i) = IF i = c.id THEN Kinds(dflight, i) \cup {c.cmd}
                                                    ELSE Kinds(dflight, i)
  BY <1>1, KindsAppend
<1>5. WayOK'
  <2>1. \A i \in Ids : Going(srv[i])'
    BY <1>1 DEF DynInv, WayOK, Sent, Going
  <2>2. ASSUME NEW j \in 1 .. Len(dflight) + 1
        PROVE  /\ Sent(dflight'[j])
               /\ dflight'[j].cmd = "create" =>
                     /\ dflight'[j].inc = srv'[dflight'[j].id].inc
                     /\ \A m \in j + 1 .. Len(dflight) + 1 : dflight'[m].id # dflight'[j].id
    <3>1. CASE j = Len(dflight) + 1
      BY <1>1, <1>2, <3>1
    <3>2. CASE j \in 1 .. Len(dflight)
      <4>1. dflight'[j] = dflight[j] /\ dflight[j] \in DynPdu /\ Sent(dflight[j])
        BY <1>1, <1>2, <3>2 DEF DynInv, WayOK
      <4>2. dflight[j].cmd = "create" => dflight[j].id # c.id
        BY <1>2, <3>2 DEF Kinds
      <4>3. dflight[j].cmd = "create" =>
                /\ dflight[j].inc = srv[dflight[j].id].inc
                /\ \A m \in j + 1 .. Len(dflight) : dflight[m].id # dflight[j].id
        BY <3>2 DEF DynInv, WayOK
      <4>4. dflight[j].id \in Ids
        BY <4>1 DEF DynPdu
      <4>5. ASSUME dflight'[j].cmd = "create", NEW m \in j + 1 .. Len(dflight) + 1
            PROVE  dflight'[m].id # dflight'[j].id
        <5>1. CASE m = Len(dflight) + 1
          BY <1>2, <4>1, <4>2, <4>5, <5>1
        <5>2. CASE m \in j + 1 .. Len(dflight)
          <6>1. m \in 1 .. Len(dflight)
            BY <1>2, <3>2, <5>2
          <6> QED BY <1>2, <4>1, <4>3, <4>5, <5>2, <6>1
        <5> QED BY <1>2, <5>1, <5>2
      <4>6. dflight'[j].cmd = "create" => dflight'[j].inc = srv'[dflight'[j].id].inc
        BY <1>1, <4>1, <4>2, <4>3, <4>4
      <4> QED BY <4>1, <4>5, <4>6
    <3> QED BY <1>2, <3>1, <3>2
  <2>3. \A j \in 1 .. Len(dflight') :
          /\ Sent(dflight'[j])
          /\ dflight'[j].cmd = "create" =>
                /\ dflight'[j].inc = srv'[dflight'[j].id].inc
                /\ \A m \in j + 1 .. Len(dflight') : dflight'[m].id # dflight'[j].id
    BY <1>2, <2>2
  <2> QED BY <2>1, <2>3 DEF WayOK, Sent, Going
<1>6. ASSUME NEW i \in Ids PROVE UpTo(i)'
  <2>1. PICK p \in DynPdu, q \in DynPdu :
            Heard(p, i) /\ Current(q, i) /\ Chain(dflight, IdOf, Succeeding, i, p, q)
    BY DEF DynInv, UpTo
  <2>2. IdOf[c] = c.id /\ (c.id = i => <<q, c>> \in Succeeding)
    BY <2>1 DEF IdOf, Succeeding
  <2>3. Chain(dflight', IdOf, Succeeding, i, p, IF c.id = i THEN c ELSE q)
    BY <1>1, <2>1, <2>2, ChainSends
  <2>4. Heard(p, i)'
    BY <2>1 DEF Heard
  <2>5. Current(IF c.id = i THEN c ELSE q, i)'
    BY <1>1, <2>1 DEF Current
  <2> QED BY <2>3, <2>4, <2>5 DEF UpTo
<1>7. Dynamic!HandlersGetWhole'
  BY DEF DynInv, Dynamic!HandlersGetWhole
<1> QED BY <1>1, <1>3, <1>4, <1>5, <1>6, <1>7

\* The server creates an ID.
LEMMA DynServerCreates ==
    ASSUME DynInv, NEW i \in Ids, Dynamic!ServerCreates(i)
    PROVE  DynInv'
<1> DEFINE s == [st |-> "asked", inc |-> srv[i].inc + 1, n |-> 0, k |-> 0, len |-> 0]
           c == [cmd |-> "create", id |-> i, inc |-> srv[i].inc + 1, n |-> 0, k |-> 0, len |-> 0]
<1>1. /\ srv[i] \in SrvState
      /\ srv \in [Ids -> SrvState]
      /\ Agreed(i)
  BY DEF DynInv, DynTypeOK
<1>2. /\ srv[i].st = "none" /\ UNCHANGED <<chan, loop, opened, dgot>>
      /\ srv' = [srv EXCEPT ![i] = s] /\ dflight' = Append(dflight, Dynamic!Pdu("create", i))
  BY DEF Dynamic!ServerCreates
<1>3. srv'[i] = s
  BY <1>1, <1>2
<1>4. dflight' = Append(dflight, c)
  BY <1>2, <1>3 DEF Dynamic!Pdu
<1>5. /\ s \in SrvState
      /\ c \in DynPdu /\ Sent(c) /\ c.id = i /\ c.cmd = "create" /\ s.st = "asked"
      /\ s.inc = c.inc /\ s.n = c.n /\ s.k = c.k /\ s.len = c.len /\ s.inc = srv[i].inc + 1
  BY <1>1, DynConstants DEF DynPdu, SrvState, Sent, Going
<1>6. \A q \in DynPdu : Current(q, i) => Succeeds(q, c)
  BY <1>5 DEF Current, Succeeds
<1>7. "create" \notin Kinds(dflight, i) /\ ~Responding(i)
  BY <1>1, <1>2 DEF Agreed
<1> HIDE DEF s, c
<1>8. /\ DynTypeOK' /\ WayOK' /\ Dynamic!HandlersGetWhole' /\ \A j \in Ids : UpTo(j)'
      /\ \A j \in Ids : Kinds(dflight', j) = IF j = i THEN Kinds(dflight, j) \cup {"create"}
                                                    ELSE Kinds(dflight, j)
      /\ srv'[i] = s /\ \A j \in Ids \ {i} : srv'[j] = srv[j]
  <2>1. PduSent(c, s)
    BY <1>2, <1>4, <1>5, <1>6, <1>7 DEF PduSent
  <2> QED BY <1>5, <2>1, DynSends
<1>9. chan[i].inc \in Nat
  BY DEF DynInv, DynTypeOK
<1>10. Agreed(i)'
  BY <1>1, <1>2, <1>5, <1>7, <1>8, <1>9 DEF Agreed, Responding, SrvState
<1>11. ASSUME NEW j \in Ids, j # i PROVE Agreed(j)'
  BY <1>2, <1>8, <1>11 DEF DynInv, Agreed, Responding
<1> QED BY <1>8, <1>10, <1>11 DEF DynInv

\* The server sends the next fragment of a message, or the first of the next one.
LEMMA DynServerSends ==
    ASSUME DynInv, NEW i \in Ids, Dynamic!ServerSends(i)
    PROVE  DynInv'
<1> DEFINE o == srv[i]
<1>1. /\ o \in SrvState
      /\ srv \in [Ids -> SrvState]
      /\ Agreed(i) /\ Going(o) /\ chan[i].inc \in Nat
  BY DEF DynInv, DynTypeOK, WayOK
<1>2. o.st = "open" /\ UNCHANGED <<chan, loop, opened, dgot>>
  BY DEF Dynamic!ServerSends
<1>3. "create" \notin Kinds(dflight, i) /\ ~Responding(i) /\ 1 <= o.inc /\ chan[i].inc = o.inc
  <2>1. chan[i] # Dynamic!NoChan /\ chan[i].inc = o.inc /\ "create" \notin Kinds(dflight, i) /\ ~Responding(i)
    BY <1>1, <1>2 DEF Agreed
  <2>2. chan[i].inc >= 1
    BY <1>1, <2>1 DEF DynInv, UpTo, Heard, DynPdu
  <2> QED BY <1>1, <2>1, <2>2
\* Either way it sends the next fragment, of the next message or of this one.
<1>4. \E s \in SrvState :
          /\ srv' = [srv EXCEPT ![i] = s] /\ s.st = "open" /\ s.inc = o.inc
          /\ \/ o.k = o.len /\ s.n = o.n + 1 /\ s.k = 1 /\ 1 <= s.len /\ s.len <= DynMaxLen
                /\ dflight' = Append(dflight, Dynamic!Pdu(IF s.len = 1 THEN "data" ELSE "first", i))
             \/ o.k < o.len /\ s.n = o.n /\ s.k = o.k + 1 /\ s.len = o.len
                /\ dflight' = Append(dflight, Dynamic!Pdu("data", i))
  <2>1. CASE /\ o.k = o.len
             /\ \E len \in 1 .. DynMaxLen : srv' = [srv EXCEPT ![i].n = @ + 1, ![i].k = 1, ![i].len = len]
             /\ dflight' = Append(dflight, Dynamic!Pdu(IF srv'[i].len = 1 THEN "data" ELSE "first", i))
    <3>1. PICK len \in 1 .. DynMaxLen : srv' = [srv EXCEPT ![i].n = @ + 1, ![i].k = 1, ![i].len = len]
      BY <2>1
    <3> DEFINE r == [o EXCEPT !.n = @ + 1]   q == [r EXCEPT !.k = 1]   s == [q EXCEPT !.len = len]
    <3>4. len \in Nat /\ 1 <= len /\ len <= DynMaxLen
      BY DynConstants
    <3>2. s \in SrvState /\ s.st = "open" /\ s.inc = o.inc /\ s.n = o.n + 1 /\ s.k = 1 /\ s.len = len
      <4>1. r \in SrvState /\ r.st = "open" /\ r.inc = o.inc /\ r.n = o.n + 1
        BY <1>1, <1>2 DEF SrvState
      <4> HIDE DEF r
      <4>2. q \in SrvState /\ q.st = "open" /\ q.inc = o.inc /\ q.n = o.n + 1 /\ q.k = 1
        BY <4>1 DEF SrvState
      <4> HIDE DEF q
      <4> QED BY <3>4, <4>2 DEF SrvState
    <3>3. srv' = [srv EXCEPT ![i] = s] /\ srv'[i] = s
      <4> DEFINE e == [o EXCEPT !.n = @ + 1, !.k = 1, !.len = len]
      <4>1. srv' = [srv EXCEPT ![i] = e]
        BY <1>1, <3>1
      <4>2. e = s
        BY <1>1 DEF SrvState
      <4> HIDE DEF e, s
      <4> QED BY <1>1, <4>1, <4>2
    <3> HIDE DEF s
    <3> QED BY <2>1, <3>2, <3>3, <3>4
  <2>2. CASE /\ o.k < o.len /\ srv' = [srv EXCEPT ![i].k = @ + 1]
             /\ dflight' = Append(dflight, Dynamic!Pdu("data", i))
    <3> DEFINE s == [o EXCEPT !.k = @ + 1]
    <3>2. /\ s \in SrvState
          /\ s.st = "open" /\ s.inc = o.inc /\ s.n = o.n /\ s.k = o.k + 1 /\ s.len = o.len
      BY <1>1, <1>2 DEF SrvState
    <3>3. srv' = [srv EXCEPT ![i] = s]
      BY <1>1, <2>2
    <3> HIDE DEF s
    <3> QED BY <2>2, <3>2, <3>3
  <2> QED BY <2>1, <2>2 DEF Dynamic!ServerSends
<1>5. PICK s \in SrvState :
          /\ srv' = [srv EXCEPT ![i] = s] /\ s.st = "open" /\ s.inc = o.inc
          /\ \/ o.k = o.len /\ s.n = o.n + 1 /\ s.k = 1 /\ 1 <= s.len /\ s.len <= DynMaxLen
                /\ dflight' = Append(dflight, Dynamic!Pdu(IF s.len = 1 THEN "data" ELSE "first", i))
             \/ o.k < o.len /\ s.n = o.n /\ s.k = o.k + 1 /\ s.len = o.len
                /\ dflight' = Append(dflight, Dynamic!Pdu("data", i))
  BY <1>4
<1> DEFINE cmd == IF s.k = 1 /\ s.len > 1 THEN "first" ELSE "data"
           c == [cmd |-> cmd, id |-> i, inc |-> s.inc, n |-> s.n, k |-> s.k, len |-> s.len]
<1>6. srv'[i] = s
  BY <1>1, <1>5
<1> HIDE DEF o
<1>7. /\ o.inc \in Nat /\ o.n \in Nat /\ o.k \in Nat /\ o.len \in Nat
      /\ s.inc \in Nat /\ s.n \in Nat /\ s.k \in Nat /\ s.len \in Nat
  BY <1>1 DEF SrvState
<1>8. dflight' = Append(dflight, Dynamic!Pdu(cmd, i))
  <2>1. CASE o.k = o.len /\ s.k = 1 /\ 1 <= s.len
             /\ dflight' = Append(dflight, Dynamic!Pdu(IF s.len = 1 THEN "data" ELSE "first", i))
    <3>1. cmd = IF s.len = 1 THEN "data" ELSE "first"
      BY <1>7, <2>1
    <3> QED BY <2>1, <3>1
  <2>2. CASE o.k < o.len /\ s.k = o.k + 1 /\ dflight' = Append(dflight, Dynamic!Pdu("data", i))
    <3>1. cmd = "data"
      BY <1>1, <1>7, <2>2 DEF Going
    <3> QED BY <2>2, <3>1
  <2> QED BY <1>5, <2>1, <2>2
<1>9. dflight' = Append(dflight, c)
  BY <1>6, <1>8 DEF Dynamic!Pdu
<1>10. c \in DynPdu /\ c.id = i /\ c.cmd = cmd /\ cmd \in {"data", "first"}
       /\ s.inc = c.inc /\ s.n = c.n /\ s.k = c.k /\ s.len = c.len
  BY <1>7 DEF DynPdu
<1>11. cmd = "first" <=> c.k = 1 /\ c.len > 1
  BY <1>10
<1> HIDE DEF cmd, c
<1>12. Sent(c)
  <2>1. Going(c) /\ 1 <= c.inc /\ 1 <= c.n /\ 1 <= c.k
    BY <1>1, <1>3, <1>5, <1>7, <1>10, DynConstants DEF Going
  <2> QED BY <1>10, <1>11, <2>1 DEF Sent
<1>13. \A q \in DynPdu : Current(q, i) => Succeeds(q, c)
  BY <1>5, <1>10 DEF Current, Succeeds, o
<1>14. /\ DynTypeOK' /\ WayOK' /\ Dynamic!HandlersGetWhole' /\ \A j \in Ids : UpTo(j)'
       /\ \A j \in Ids : Kinds(dflight', j) = IF j = i THEN Kinds(dflight, j) \cup {cmd}
                                                     ELSE Kinds(dflight, j)
       /\ srv'[i] = s /\ \A j \in Ids \ {i} : srv'[j] = srv[j]
  <2>1. PduSent(c, s)
    BY <1>2, <1>3, <1>5, <1>9, <1>10, <1>12, <1>13 DEF PduSent
  <2> QED BY <1>10, <2>1, DynSends
<1>15. Agreed(i)'
  BY <1>1, <1>2, <1>3, <1>5, <1>10, <1>14 DEF Agreed, Responding, o
<1>16. ASSUME NEW j \in Ids, j # i PROVE Agreed(j)'
  BY <1>2, <1>14, <1>16 DEF DynInv, Agreed, Responding
<1> QED BY <1>14, <1>15, <1>16 DEF DynInv

\* The server closes an ID.
LEMMA DynServerCloses ==
    ASSUME DynInv, NEW i \in Ids, Dynamic!ServerCloses(i)
    PROVE  DynInv'
<1> DEFINE o == srv[i]   s == [o EXCEPT !.st = "none"]
           c == [cmd |-> "close", id |-> i, inc |-> o.inc, n |-> o.n, k |-> o.k, len |-> o.len]
<1>1. /\ o \in SrvState
      /\ srv \in [Ids -> SrvState]
      /\ Agreed(i) /\ Going(o) /\ chan[i].inc \in Nat
  BY DEF DynInv, DynTypeOK, WayOK
<1>2. /\ o.st = "open" /\ UNCHANGED <<chan, loop, opened, dgot>>
      /\ srv' = [srv EXCEPT ![i].st = "none"] /\ dflight' = Append(dflight, Dynamic!Pdu("close", i))
  BY DEF Dynamic!ServerCloses
<1>3. "create" \notin Kinds(dflight, i) /\ ~Responding(i) /\ 1 <= o.inc /\ chan[i].inc = o.inc
  <2>1. chan[i] # Dynamic!NoChan /\ chan[i].inc = o.inc /\ "create" \notin Kinds(dflight, i) /\ ~Responding(i)
    BY <1>1, <1>2 DEF Agreed
  <2>2. chan[i].inc >= 1
    BY <1>1, <2>1 DEF DynInv, UpTo, Heard, DynPdu
  <2> QED BY <1>1, <2>1, <2>2
<1>4. srv' = [srv EXCEPT ![i] = s] /\ srv'[i] = s
  BY <1>1, <1>2
<1>5. /\ s \in SrvState
      /\ s.st = "none" /\ s.inc = c.inc /\ s.n = c.n /\ s.k = c.k /\ s.len = c.len
      /\ c \in DynPdu /\ c.id = i /\ c.cmd = "close" /\ s.inc = o.inc
  BY <1>1 DEF DynPdu, SrvState
<1>6. dflight' = Append(dflight, c)
  BY <1>2, <1>4, <1>5 DEF Dynamic!Pdu
<1>7. Sent(c) /\ \A q \in DynPdu : Current(q, i) => Succeeds(q, c)
  BY <1>1, <1>3, <1>5 DEF Sent, Going, Current, Succeeds
<1> HIDE DEF s, c
<1>8. /\ DynTypeOK' /\ WayOK' /\ Dynamic!HandlersGetWhole' /\ \A j \in Ids : UpTo(j)'
      /\ \A j \in Ids : Kinds(dflight', j) = IF j = i THEN Kinds(dflight, j) \cup {"close"}
                                                    ELSE Kinds(dflight, j)
      /\ srv'[i] = s /\ \A j \in Ids \ {i} : srv'[j] = srv[j]
  <2>1. PduSent(c, s)
    BY <1>2, <1>3, <1>4, <1>5, <1>6, <1>7 DEF PduSent
  <2> QED BY <1>5, <2>1, DynSends
<1>9. Agreed(i)'
  BY <1>1, <1>2, <1>3, <1>5, <1>8 DEF Agreed, Responding
<1>10. ASSUME NEW j \in Ids, j # i PROVE Agreed(j)'
  BY <1>2, <1>8, <1>10 DEF DynInv, Agreed, Responding
<1> QED BY <1>8, <1>9, <1>10 DEF DynInv

\* The receive loop takes c from those under way.
Taken(c) == dflight # <<>> /\ c = Head(dflight) /\ dflight' = Tail(dflight) /\ srv' = srv

\* It comes after what its channel has heard, and before the rest of its ID.
LEMMA DynTakes ==
    ASSUME DynInv, NEW c, Taken(c)
    PROVE  /\ c \in DynPdu /\ c.id \in Ids /\ Sent(c) /\ dflight' \in Seq(DynPdu) /\ WayOK'
           /\ c.cmd = "create" => c.inc = srv[c.id].inc /\ Kinds(dflight', c.id) = {}
           /\ Kinds(dflight, c.id) = Kinds(dflight', c.id) \cup {c.cmd}
           /\ \A i \in Ids \ {c.id} : Kinds(dflight', i) = Kinds(dflight, i)
           /\ \A i \in Ids : \E p, q \in DynPdu :
                 /\ Heard(p, i) /\ (i = c.id => Succeeds(p, c)) /\ Current(q, i)'
                 /\ Chain(dflight', IdOf, Succeeding, i, IF i = c.id THEN c ELSE p, q)
<1>1. /\ dflight \in Seq(DynPdu) /\ dflight # <<>> /\ c = Head(dflight) /\ dflight' = Tail(dflight)
      /\ srv' = srv
  BY DEF Taken, DynInv, DynTypeOK
<1>2. /\ Len(dflight) \in Nat /\ 1 \in 1 .. Len(dflight) /\ c = dflight[1] /\ c \in DynPdu
      /\ dflight' \in Seq(DynPdu) /\ Len(dflight') = Len(dflight) - 1
      /\ \A j \in 1 .. Len(dflight) - 1 : dflight'[j] = dflight[j + 1] /\ j + 1 \in 1 .. Len(dflight)
  BY <1>1, TailElements
<1>3. c.id \in Ids /\ Sent(c) /\ IdOf[c] = c.id
  BY <1>2 DEF DynInv, WayOK, DynPdu, IdOf
<1>4. /\ Kinds(dflight, c.id) = Kinds(dflight', c.id) \cup {c.cmd}
      /\ \A i \in Ids \ {c.id} : Kinds(dflight', i) = Kinds(dflight, i)
      /\ (\A m \in 2 .. Len(dflight) : dflight[m].id # c.id) => Kinds(dflight', c.id) = {}
  BY <1>1, KindsTail
<1>5. c.cmd = "create" => c.inc = srv[c.id].inc /\ Kinds(dflight', c.id) = {}
  BY <1>2, <1>4 DEF DynInv, WayOK
<1>6. WayOK'
  <2>1. \A i \in Ids : Going(srv[i])'
    BY <1>1 DEF DynInv, WayOK, Going
  <2>2. ASSUME NEW j \in 1 .. Len(dflight) - 1
        PROVE  /\ Sent(dflight'[j])
               /\ dflight'[j].cmd = "create" =>
                     /\ dflight'[j].inc = srv[dflight'[j].id].inc
                     /\ \A m \in j + 1 .. Len(dflight) - 1 : dflight'[m].id # dflight'[j].id
    <3>1. dflight'[j] = dflight[j + 1] /\ j + 1 \in 1 .. Len(dflight)
      BY <1>2
    <3>2. ASSUME dflight'[j].cmd = "create", NEW m \in j + 1 .. Len(dflight) - 1
          PROVE  dflight'[m].id # dflight'[j].id
      <4>1. dflight'[m] = dflight[m + 1] /\ m + 1 \in (j + 1) + 1 .. Len(dflight)
        BY <1>2
      <4> QED BY <3>1, <3>2, <4>1 DEF DynInv, WayOK
    <3> QED BY <3>1, <3>2 DEF DynInv, WayOK
  <2>3. \A j \in 1 .. Len(dflight') :
          /\ Sent(dflight'[j])
          /\ dflight'[j].cmd = "create" =>
                /\ dflight'[j].inc = srv'[dflight'[j].id].inc
                /\ \A m \in j + 1 .. Len(dflight') : dflight'[m].id # dflight'[j].id
    BY <1>1, <1>2, <2>2
  <2> QED BY <2>1, <2>3 DEF WayOK, Sent, Going
<1>7. ASSUME NEW i \in Ids
      PROVE  \E p, q \in DynPdu :
                 /\ Heard(p, i) /\ (i = c.id => Succeeds(p, c)) /\ Current(q, i)'
                 /\ Chain(dflight', IdOf, Succeeding, i, IF i = c.id THEN c ELSE p, q)
  <2>1. PICK p \in DynPdu, q \in DynPdu :
            Heard(p, i) /\ Current(q, i) /\ Chain(dflight, IdOf, Succeeding, i, p, q)
    BY DEF DynInv, UpTo
  <2>2. /\ IdOf[c] = i => <<p, c>> \in Succeeding
        /\ Chain(dflight', IdOf, Succeeding, i, IF IdOf[c] = i THEN c ELSE p, q)
    BY <1>1, <2>1, ChainReceives
  <2>3. i = c.id => Succeeds(p, c)
    BY <1>3, <2>2 DEF Succeeding
  <2>4. Current(q, i)'
    BY <1>1, <2>1 DEF Current
  <2>5. (IF IdOf[c] = i THEN c ELSE p) = IF i = c.id THEN c ELSE p
    BY <1>3
  <2> QED BY <2>1, <2>2, <2>3, <2>4, <2>5
<1> QED BY <1>2, <1>3, <1>4, <1>5, <1>6, <1>7

\* The handler of an ID was given whole messages.
Whole(m) ==
    m # Dynamic!NoMsg =>
        m.buf = [k \in 1 .. m.buf[1].len |-> [inc |-> m.inc, n |-> m.n, k |-> k, len |-> m.buf[1].len]]

\* What is left to show of a step that takes c: its effect on the ID of c.
LEMMA DynHandles ==
    ASSUME DynInv, NEW c, Taken(c), DynTypeOK', Heard(c, c.id)', Agreed(c.id)', Whole(dgot'[c.id]),
           \A i \in Ids \ {c.id} : chan'[i] = chan[i] /\ dgot'[i] = dgot[i] /\ (i \in opened' <=> i \in opened),
           loop' = loop \/ (loop.at = "ready" /\ loop'.id = c.id)
    PROVE  DynInv'
<1>1. /\ c \in DynPdu /\ WayOK' /\ srv' = srv
      /\ \A i \in Ids \ {c.id} : Kinds(dflight', i) = Kinds(dflight, i)
  BY DynTakes DEF Taken
<1>2. ASSUME NEW i \in Ids PROVE UpTo(i)'
  <2>1. PICK p \in DynPdu, q \in DynPdu :
                 /\ Heard(p, i) /\ (i = c.id => Succeeds(p, c)) /\ Current(q, i)'
                 /\ Chain(dflight', IdOf, Succeeding, i, IF i = c.id THEN c ELSE p, q)
    BY DynTakes
  <2>2. CASE i = c.id
    BY <1>1, <2>1, <2>2 DEF UpTo
  <2>3. CASE i # c.id
    <3>1. Heard(p, i)'
      BY <2>1, <2>3 DEF Heard
    <3> QED BY <2>1, <2>3, <3>1 DEF UpTo
  <2> QED BY <2>2, <2>3
<1>3. ASSUME NEW i \in Ids PROVE Agreed(i)'
  <2>1. CASE i # c.id
    <3>1. Responding(i)' = Responding(i) /\ ((loop'.at # "ready" /\ loop'.id = i) => loop' = loop)
      BY <2>1 DEF Responding
    <3>2. chan'[i] = chan[i] /\ srv'[i] = srv[i] /\ Kinds(dflight', i) = Kinds(dflight, i) /\ (i \in opened' <=> i \in opened)
      BY <1>1, <2>1
    <3>3. Agreed(i)
      BY DEF DynInv
    <3> QED BY <3>1, <3>2, <3>3 DEF Agreed
  <2> QED BY <2>1
<1>4. Dynamic!HandlersGetWhole'
  BY DEF DynInv, Dynamic!HandlersGetWhole, Whole
<1> QED BY <1>1, <1>2, <1>3, <1>4 DEF DynInv

\* What a handler is given is the first message of a later incarnation of its channel,
\* or the next one of this.
Ordered(i) ==
    dgot'[i] # dgot[i] =>
        \/ dgot'[i].inc = dgot[i].inc /\ dgot'[i].n = dgot[i].n + 1
        \/ dgot'[i].inc > dgot[i].inc /\ dgot'[i].n = 1

\* The parts of a channel and of a PDU.
LEMMA DynParts ==
    ASSUME DynInv, NEW i \in Ids
    PROVE  /\ chan[i].inc \in Nat /\ chan[i].buf \in Seq(Fragment) /\ chan[i].total \in Nat
           /\ dgot[i].inc \in Nat /\ dgot[i].n \in Nat /\ srv[i].inc \in Nat
           /\ Agreed(i) /\ Whole(dgot[i])
           /\ chan \in [Ids -> [inc : Nat, buf : Seq(Fragment), total : Nat]]
           /\ dgot \in [Ids -> [inc : Nat, n : Nat, buf : Seq(Fragment)]]
<1>1. /\ chan \in [Ids -> [inc : Nat, buf : Seq(Fragment), total : Nat]]
      /\ dgot \in [Ids -> [inc : Nat, n : Nat, buf : Seq(Fragment)]]
      /\ srv[i].inc \in Nat /\ Agreed(i)
  BY DEF DynInv, DynTypeOK, SrvState
<1>2. Whole(dgot[i])
  BY DEF DynInv, Dynamic!HandlersGetWhole, Whole
<1> QED BY <1>1, <1>2

\* An entry that is not in the map is empty.
LEMMA NoChanType ==
    Dynamic!NoChan \in [inc : Nat, buf : Seq(Fragment), total : Nat]
    /\ Dynamic!NoChan.inc = 0 /\ Dynamic!NoChan.buf = <<>> /\ Dynamic!NoChan.total = 0
BY DEF Dynamic!NoChan

\* A channel is created, or refused: nothing else of its ID is under way, and no channel
\* of its ID is there.
LEMMA DynHandleCreate ==
    ASSUME DynInv, NEW c, Dynamic!HandleCreate(c)
    PROVE  DynInv'
<1>1. /\ loop.at = "ready" /\ Taken(c) /\ c.cmd = "create"
      /\ UNCHANGED <<srv, opened, dgot>>
  BY DEF Dynamic!HandleCreate, Dynamic!Receive, Dynamic!Ready, Taken
<1>2. PICK ok \in BOOLEAN :
          /\ chan' = IF ok THEN [chan EXCEPT ![c.id] = [Dynamic!NoChan EXCEPT !.inc = c.inc]] ELSE chan
          /\ loop' = [at |-> "respond", id |-> c.id, ok |-> ok]
  BY DEF Dynamic!HandleCreate
<1>3. /\ c \in DynPdu /\ c.id \in Ids /\ Sent(c) /\ c.inc = srv[c.id].inc /\ Kinds(dflight', c.id) = {}
      /\ Kinds(dflight, c.id) = {"create"} /\ dflight' \in Seq(DynPdu)
      /\ c.inc \in Nat /\ 1 <= c.inc /\ c.n = 0 /\ c.k = 0 /\ c.len = 0
  BY <1>1, DynTakes DEF Sent, DynPdu
<1>4. PICK p \in DynPdu : Heard(p, c.id) /\ Succeeds(p, c)
  BY <1>1, <1>3, DynTakes
<1>5. /\ srv[c.id].st = "asked" /\ chan[c.id] = Dynamic!NoChan /\ c.id \notin opened
      /\ dgot[c.id].inc < c.inc
  <2>1. ~Responding(c.id)
    BY <1>1 DEF Responding
  <2>2. srv[c.id].st = "asked"
    BY <1>3, DynParts DEF Agreed
  <2>3. chan[c.id] = Dynamic!NoChan
    BY <1>3, <2>1, <2>2, DynParts DEF Agreed
  <2>4. c.id \notin opened
    BY <1>3, <2>3, DynParts DEF Agreed
  <2>5. dgot[c.id].inc < c.inc
    BY <1>1, <1>3, <1>4, DynParts DEF Heard, Succeeds, DynPdu
  <2> QED BY <2>2, <2>3, <2>4, <2>5
<1> DEFINE e == IF ok THEN [Dynamic!NoChan EXCEPT !.inc = c.inc] ELSE Dynamic!NoChan
<1>6. /\ e \in [inc : Nat, buf : Seq(Fragment), total : Nat] /\ e.buf = <<>> /\ e.total = 0
      /\ ok => e.inc = c.inc /\ e # Dynamic!NoChan
      /\ ~ok => e.inc = 0 /\ e = Dynamic!NoChan
  <2>1. CASE ok
    <3>1. e = [inc |-> c.inc, buf |-> <<>>, total |-> 0]
      BY <2>1 DEF Dynamic!NoChan
    <3> HIDE DEF e
    <3> QED BY <1>3, <2>1, <3>1, NoChanType
  <2>2. CASE ~ok
    BY <2>2, NoChanType
  <2> QED BY <2>1, <2>2
<1>7. /\ chan'[c.id] = e /\ \A i \in Ids \ {c.id} : chan'[i] = chan[i]
      /\ chan' \in [Ids -> [inc : Nat, buf : Seq(Fragment), total : Nat]]
  BY <1>2, <1>3, <1>5, <1>6, DynParts
<1> HIDE DEF e
<1>8. DynTypeOK'
  BY <1>1, <1>2, <1>3, <1>7 DEF DynInv, DynTypeOK
<1>9. Heard(c, c.id)'
  <2>1. Going(c) /\ Finished(c) = 0
    BY <1>3, DynConstants DEF Going, Finished
  <2>2. chan'[c.id] # Dynamic!NoChan => chan'[c.id].inc = c.inc
    BY <1>6, <1>7
  <2>3. dgot'[c.id].inc < c.inc /\ dgot'[c.id].inc <= c.inc
    BY <1>1, <1>3, <1>5, DynParts
  <2> QED BY <1>3, <1>6, <1>7, <2>1, <2>2, <2>3 DEF Heard, Going, Finished
<1>10. Agreed(c.id)'
  BY <1>1, <1>2, <1>3, <1>5, <1>6, <1>7 DEF Agreed, Responding
<1>11. Whole(dgot'[c.id])
  BY <1>1, <1>3, DynParts
<1>12. loop'.id = c.id
  BY <1>2
<1> QED BY <1>1, <1>7, <1>8, <1>9, <1>10, <1>11, <1>12, DynHandles

\* A channel is closed by the server.
LEMMA DynHandleClose ==
    ASSUME DynInv, NEW c, Dynamic!HandleClose(c)
    PROVE  DynInv'
<1>1. /\ loop.at = "ready" /\ Taken(c) /\ c.cmd = "close"
      /\ UNCHANGED <<srv, loop, dgot>> /\ opened' = opened \ {c.id}
      /\ chan' = [chan EXCEPT ![c.id] = Dynamic!NoChan]
  BY DEF Dynamic!HandleClose, Dynamic!Receive, Dynamic!Ready, Taken
<1>2. /\ c \in DynPdu /\ c.id \in Ids /\ dflight' \in Seq(DynPdu) /\ c.inc \in Nat
      /\ Kinds(dflight, c.id) = Kinds(dflight', c.id) \cup {"close"}
  <2>1. /\ c \in DynPdu /\ c.id \in Ids /\ dflight' \in Seq(DynPdu)
        /\ Kinds(dflight, c.id) = Kinds(dflight', c.id) \cup {c.cmd}
    BY <1>1, DynTakes
  <2> QED BY <1>1, <2>1 DEF DynPdu
<1>3. PICK p \in DynPdu : Heard(p, c.id) /\ Succeeds(p, c)
  BY <1>1, <1>2, DynTakes
<1>4. /\ chan'[c.id] = Dynamic!NoChan /\ \A i \in Ids \ {c.id} : chan'[i] = chan[i]
      /\ chan' \in [Ids -> [inc : Nat, buf : Seq(Fragment), total : Nat]]
  BY <1>1, <1>2, DynParts, NoChanType
<1>5. DynTypeOK'
  BY <1>1, <1>2, <1>4 DEF DynInv, DynTypeOK
<1>6. Heard(c, c.id)'
  BY <1>1, <1>3, <1>4 DEF Heard, Succeeds
<1>7. Agreed(c.id)'
  <2>1. ~Responding(c.id)' /\ ~Responding(c.id)
    BY <1>1 DEF Responding
  <2>2. chan[c.id].inc \in Nat /\ srv[c.id].inc \in Nat /\ Agreed(c.id)
    BY <1>2, DynParts
  <2> QED BY <1>1, <1>2, <1>4, <2>1, <2>2, NoChanType DEF Agreed
<1>8. Whole(dgot'[c.id])
  BY <1>1, <1>2, DynParts
<1> QED BY <1>1, <1>4, <1>5, <1>6, <1>7, <1>8, DynHandles

\* The reassembly of a channel is set.
LEMMA Reassembles ==
    ASSUME DynInv, NEW i \in Ids, NEW b \in Seq(Fragment), NEW t \in Nat,
           chan' = [chan EXCEPT ![i].buf = b, ![i].total = t]
    PROVE  /\ chan' \in [Ids -> [inc : Nat, buf : Seq(Fragment), total : Nat]]
           /\ chan'[i].inc = chan[i].inc /\ chan'[i].buf = b /\ chan'[i].total = t
           /\ \A j \in Ids \ {i} : chan'[j] = chan[j]
<1> DEFINE r == [chan[i] EXCEPT !.buf = b]   e == [r EXCEPT !.total = t]
           d == [chan[i] EXCEPT !.buf = b, !.total = t]
<1>1. chan \in [Ids -> [inc : Nat, buf : Seq(Fragment), total : Nat]]
  BY DynParts
<1>2. r \in [inc : Nat, buf : Seq(Fragment), total : Nat] /\ r.inc = chan[i].inc /\ r.buf = b
  BY <1>1
<1>3. d = e
  BY <1>1
<1>4. chan' = [chan EXCEPT ![i] = d]
  BY <1>1
<1> HIDE DEF r, d
<1>5. /\ e \in [inc : Nat, buf : Seq(Fragment), total : Nat] /\ e.inc = chan[i].inc
      /\ e.buf = b /\ e.total = t
  BY <1>2
<1> HIDE DEF e
<1> QED BY <1>1, <1>3, <1>4, <1>5

\* A handler is called with a whole message.
LEMMA Delivered ==
    ASSUME DynInv, NEW c, c.id \in Ids, c.len \in Nat, c.len # 0,
           NEW buf \in Seq(Fragment), Len(buf) = c.len,
           \A j \in 1 .. c.len :
               buf[j] = [inc |-> chan[c.id].inc, n |-> c.n, k |-> j, len |-> c.len],
           Dynamic!Deliver(c.id, buf)
    PROVE  /\ dgot' \in [Ids -> [inc : Nat, n : Nat, buf : Seq(Fragment)]] /\ Whole(dgot'[c.id])
           /\ dgot'[c.id].inc = chan[c.id].inc /\ dgot'[c.id].n = c.n
           /\ \A j \in Ids \ {c.id} : dgot'[j] = dgot[j]
<1>0. PICK i, n, len : i = c.id /\ n = c.n /\ len = c.len
  OBVIOUS
<1>a. /\ i \in Ids /\ len \in Nat /\ len # 0 /\ Len(buf) = len /\ Dynamic!Deliver(i, buf)
      /\ \A j \in 1 .. len : buf[j] = [inc |-> chan[i].inc, n |-> n, k |-> j, len |-> len]
  BY <1>0
<1> DEFINE m == [inc |-> chan[i].inc, n |-> buf[1].n, buf |-> buf]
<1>1. dgot' = [dgot EXCEPT ![i] = m]
  BY <1>a DEF Dynamic!Deliver
<1>2. 1 \in 1 .. len /\ buf[1] \in Fragment /\ buf[1].n = n /\ buf[1].len = len /\ buf[1].n \in Nat
  <2>1. 1 \in 1 .. len
    BY <1>a
  <2>2. buf[1] \in Fragment
    BY <1>a, <2>1
  <2> QED BY <1>a, <2>1, <2>2 DEF Fragment
<1>3. m \in [inc : Nat, n : Nat, buf : Seq(Fragment)] /\ m.inc = chan[i].inc /\ m.n = n /\ m.buf = buf
  BY <1>2, <1>a, DynParts
<1> HIDE DEF m
<1>4. dgot'[i] = m /\ dgot' \in [Ids -> [inc : Nat, n : Nat, buf : Seq(Fragment)]]
      /\ \A j \in Ids \ {i} : dgot'[j] = dgot[j]
  BY <1>1, <1>3, <1>a, DynParts
<1>5. buf = [k \in 1 .. len |-> [inc |-> m.inc, n |-> m.n, k |-> k, len |-> len]]
  BY <1>3, <1>a
<1>6. Whole(m)
  BY <1>2, <1>3, <1>5, <1>a DEF Whole
<1> QED BY <1>0, <1>3, <1>4, <1>6

\* Data leaves what the sides hold to be open.
LEMMA DataAgrees ==
    ASSUME DynInv, NEW c, Taken(c), c.cmd \in {"data", "first"}, UNCHANGED <<loop, opened>>, loop.at = "ready",
           chan'[c.id].inc = chan[c.id].inc, chan'[c.id] # Dynamic!NoChan <=> chan[c.id] # Dynamic!NoChan
    PROVE  Agreed(c.id)'
<1>1. /\ c.id \in Ids
      /\ Kinds(dflight, c.id) = Kinds(dflight', c.id) \cup {c.cmd} /\ srv' = srv
  BY DynTakes DEF Taken
<1>2. ~Responding(c.id)' /\ ~Responding(c.id)
  BY DEF Responding
<1>3. Agreed(c.id)
  BY <1>1, DynParts
<1> QED BY <1>1, <1>2, <1>3 DEF Agreed

\* Data or a first fragment at the head, after p on its channel.
LEMMA DataFollows ==
    ASSUME DynInv, NEW c, Taken(c), c.cmd \in {"data", "first"}
    PROVE  /\ c.id \in Ids /\ c.inc \in Nat /\ c.n \in Nat /\ c.k \in Nat /\ c.len \in Nat /\ 1 <= c.inc
           /\ 1 <= c.n /\ 1 <= c.k /\ Going(c) /\ (c.cmd = "first" <=> c.k = 1 /\ c.len > 1)
           /\ dflight' \in Seq(DynPdu) /\ Dynamic!Frag(c) \in Fragment
           /\ \E p \in DynPdu :
                 /\ Heard(p, c.id) /\ p.inc = c.inc
                 /\ \/ c.n = p.n /\ c.len = p.len /\ c.k = p.k + 1 /\ p.k < p.len
                    \/ c.n = p.n + 1 /\ c.k = 1 /\ p.k = p.len
<1>1. c \in DynPdu /\ c.id \in Ids /\ Sent(c) /\ dflight' \in Seq(DynPdu)
  BY DynTakes
<1>2. PICK p \in DynPdu : Heard(p, c.id) /\ Succeeds(p, c)
  BY <1>1, DynTakes
<1>3. Dynamic!Frag(c) \in Fragment
  BY <1>1 DEF Dynamic!Frag, DynPdu, Fragment
<1>4. p.inc = c.inc /\ \/ c.n = p.n /\ c.len = p.len /\ c.k = p.k + 1 /\ p.k < p.len
                       \/ c.n = p.n + 1 /\ c.k = 1 /\ p.k = p.len
  BY <1>2 DEF Succeeds
<1>5. /\ c.inc \in Nat /\ c.n \in Nat /\ c.k \in Nat /\ c.len \in Nat /\ 1 <= c.inc
      /\ 1 <= c.n /\ 1 <= c.k /\ Going(c) /\ (c.cmd = "first" <=> c.k = 1 /\ c.len > 1)
  BY <1>1 DEF Sent, DynPdu
<1> QED BY <1>1, <1>2, <1>3, <1>4, <1>5

\* A first fragment starts the reassembly of the next message.
LEMMA DynHandleDataFirst ==
    ASSUME DynInv, NEW c, Dynamic!HandleDataFirst(c)
    PROVE  DynInv'
<1> DEFINE o == chan[c.id]
<1>1. /\ loop.at = "ready" /\ Taken(c) /\ c.cmd = "first"
      /\ UNCHANGED <<srv, loop, opened, dgot>>
      /\ chan' = IF o = Dynamic!NoChan THEN chan
                 ELSE [chan EXCEPT ![c.id].buf = IF c.len > DynLimit THEN <<>> ELSE <<Dynamic!Frag(c)>>,
                                   ![c.id].total = IF c.len > DynLimit THEN 0 ELSE c.len]
  BY DEF Dynamic!HandleDataFirst, Dynamic!Receive, Dynamic!Ready, Taken
<1>2. /\ c.id \in Ids /\ c.inc \in Nat /\ c.n \in Nat /\ c.k = 1 /\ c.len \in Nat /\ c.len > 1 /\ 1 <= c.inc
      /\ 1 <= c.n /\ Going(c) /\ dflight' \in Seq(DynPdu) /\ Dynamic!Frag(c) \in Fragment
  BY <1>1, DataFollows
<1>3. PICK p \in DynPdu :
          /\ Heard(p, c.id) /\ p.inc = c.inc
          /\ \/ c.n = p.n /\ c.len = p.len /\ c.k = p.k + 1 /\ p.k < p.len
             \/ c.n = p.n + 1 /\ c.k = 1 /\ p.k = p.len
  BY <1>1, DataFollows
<1>4. dgot'[c.id].inc <= c.inc /\ Whole(dgot'[c.id])
  BY <1>1, <1>2, <1>3, DynParts DEF Heard
<1>5. CASE o = Dynamic!NoChan
  <2>1. chan' = chan
    BY <1>1, <1>5
  <2>2. Heard(c, c.id)'
    BY <1>4, <1>5, <2>1 DEF Heard
  <2>3. DynTypeOK'
    BY <1>1, <1>2, <2>1 DEF DynInv, DynTypeOK
  <2>4. Agreed(c.id)'
    BY <1>1, <2>1, DataAgrees
  <2> QED BY <1>1, <1>4, <2>1, <2>2, <2>3, <2>4, DynHandles
<1>6. CASE o # Dynamic!NoChan
  <2>1. 1 <= o.inc /\ Going(p) /\ o.inc = p.inc
    BY <1>3, <1>6 DEF Heard
  <2>2. c.n = p.n + 1 /\ p.k = p.len
    <3>1. ~(c.k = p.k + 1 /\ p.k < p.len)
      BY <1>2, <2>1 DEF Going, DynPdu
    <3> QED BY <1>3, <3>1
  <2>3. ~(c.len > DynLimit)
    BY <1>2, DynConstants DEF Going
  <2>4. chan' = [chan EXCEPT ![c.id].buf = <<Dynamic!Frag(c)>>, ![c.id].total = c.len]
    BY <1>1, <1>6, <2>3
  <2>5. /\ chan' \in [Ids -> [inc : Nat, buf : Seq(Fragment), total : Nat]]
        /\ chan'[c.id].inc = o.inc /\ chan'[c.id].buf = <<Dynamic!Frag(c)>> /\ chan'[c.id].total = c.len
        /\ \A j \in Ids \ {c.id} : chan'[j] = chan[j]
    <3>1. <<Dynamic!Frag(c)>> \in Seq(Fragment)
      BY <1>2
    <3> QED BY <1>2, <2>4, <3>1, Reassembles
  <2>6. chan'[c.id] # Dynamic!NoChan
    BY <2>1, <2>5, NoChanType
  <2>7. Heard(c, c.id)'
    <3>1. p.n \in Nat /\ c.n - 1 = p.n /\ c.k < c.len
      BY <1>2, <2>2 DEF DynPdu
    <3>2. Finished(c) = Finished(p)
      BY <1>2, <2>2, <3>1 DEF Finished
    <3>3. /\ Finished(c) = 0 => dgot'[c.id].inc < c.inc
          /\ Finished(c) # 0 => dgot'[c.id].inc = c.inc /\ dgot'[c.id].n = Finished(c)
      BY <1>1, <1>3, <1>6, <3>2 DEF Heard
    <3>4. /\ Len(chan'[c.id].buf) = c.k
          /\ \A j \in 1 .. c.k : chan'[c.id].buf[j] = [inc |-> c.inc, n |-> c.n, k |-> j, len |-> c.len]
      BY <1>2, <2>5 DEF Dynamic!Frag
    <3> HIDE DEF Finished
    <3> QED BY <1>2, <1>3, <1>4, <2>1, <2>5, <3>1, <3>3, <3>4 DEF Heard, Going, Finished
  <2>8. DynTypeOK'
    BY <1>1, <1>2, <2>5 DEF DynInv, DynTypeOK
  <2>9. Agreed(c.id)'
    BY <1>1, <1>6, <2>5, <2>6, DataAgrees
  <2> QED BY <1>1, <1>4, <2>5, <2>7, <2>8, <2>9, DynHandles
<1> QED BY <1>5, <1>6

\* Data is a message of its own, or joins the buffer, which it may complete.
LEMMA DynHandleData ==
    ASSUME DynInv, NEW c, Dynamic!HandleData(c)
    PROVE  DynInv' /\ \A i \in Ids : Ordered(i)
<1> DEFINE o == chan[c.id]   g == Append(o.buf, Dynamic!Frag(c))
<1>1. /\ loop.at = "ready" /\ Taken(c) /\ c.cmd = "data"
      /\ UNCHANGED <<srv, loop, opened>>
      /\ \/ o = Dynamic!NoChan /\ UNCHANGED <<chan, dgot>>
         \/ /\ o # Dynamic!NoChan /\ o.total = 0
            /\ Dynamic!Deliver(c.id, <<Dynamic!Frag(c)>>) /\ UNCHANGED chan
         \/ o.total > Len(g) /\ chan' = [chan EXCEPT ![c.id].buf = g] /\ UNCHANGED dgot
         \/ /\ o.total > 0 /\ o.total <= Len(g) /\ Dynamic!Deliver(c.id, SubSeq(g, 1, o.total))
            /\ chan' = [chan EXCEPT ![c.id].buf = <<>>, ![c.id].total = 0]
  BY DEF Dynamic!HandleData, Dynamic!Receive, Dynamic!Ready, Taken, Dynamic!DeliverSingle, Dynamic!Gathered
<1>2. /\ c.id \in Ids /\ c.inc \in Nat /\ c.n \in Nat /\ c.k \in Nat /\ c.len \in Nat /\ 1 <= c.inc
      /\ 1 <= c.n /\ 1 <= c.k /\ Going(c) /\ ~(c.k = 1 /\ c.len > 1)
      /\ dflight' \in Seq(DynPdu) /\ Dynamic!Frag(c) \in Fragment
  BY <1>1, DataFollows
<1>3. PICK p \in DynPdu :
          /\ Heard(p, c.id) /\ p.inc = c.inc
          /\ \/ c.n = p.n /\ c.len = p.len /\ c.k = p.k + 1 /\ p.k < p.len
             \/ c.n = p.n + 1 /\ c.k = 1 /\ p.k = p.len
  BY <1>1, DataFollows
<1>4. /\ p.n \in Nat /\ p.k \in Nat /\ p.len \in Nat
      /\ o.buf \in Seq(Fragment) /\ o.total \in Nat /\ o.inc \in Nat
      /\ dgot[c.id].inc \in Nat /\ dgot[c.id].n \in Nat
  BY <1>2, DynParts DEF DynPdu
\* What suffices of the step: the effect on the channel, and on its handler.
<1>5. ASSUME chan' \in [Ids -> [inc : Nat, buf : Seq(Fragment), total : Nat]],
             dgot' \in [Ids -> [inc : Nat, n : Nat, buf : Seq(Fragment)]],
             \A i \in Ids \ {c.id} : chan'[i] = chan[i] /\ dgot'[i] = dgot[i],
             chan'[c.id].inc = o.inc, chan'[c.id] # Dynamic!NoChan <=> o # Dynamic!NoChan,
             Heard(c, c.id)', Whole(dgot'[c.id]), Ordered(c.id)
      PROVE  DynInv' /\ \A i \in Ids : Ordered(i)
  <2>1. DynTypeOK'
    BY <1>1, <1>2, <1>5 DEF DynInv, DynTypeOK
  <2>2. Agreed(c.id)'
    BY <1>1, <1>5, DataAgrees
  <2>3. DynInv'
    BY <1>1, <1>5, <2>1, <2>2, DynHandles
  <2>4. \A i \in Ids : Ordered(i)
    BY <1>5 DEF Ordered
  <2> QED BY <2>3, <2>4
<1>6. CASE o = Dynamic!NoChan /\ UNCHANGED <<chan, dgot>>
  <2>1. Heard(c, c.id)'
    BY <1>3, <1>6 DEF Heard
  <2>2. Whole(dgot'[c.id]) /\ Ordered(c.id)
    BY <1>2, <1>6, DynParts DEF Ordered
  <2>3. /\ chan' \in [Ids -> [inc : Nat, buf : Seq(Fragment), total : Nat]]
        /\ dgot' \in [Ids -> [inc : Nat, n : Nat, buf : Seq(Fragment)]]
    BY <1>2, <1>6, DynParts
  <2> QED BY <1>5, <1>6, <2>1, <2>2, <2>3
<1>7. CASE /\ o # Dynamic!NoChan /\ o.total = 0
           /\ Dynamic!Deliver(c.id, <<Dynamic!Frag(c)>>) /\ UNCHANGED chan
  <2>1. p.k = p.len /\ 1 <= p.inc /\ Going(p) /\ o.inc = p.inc /\ o.buf = <<>> /\ o.total = 0
    <3>1. p.k < p.len => p.len = 0
      BY <1>3, <1>7 DEF Heard
    <3>2. Going(p)
      BY <1>3, <1>7 DEF Heard
    <3>3. p.k = p.len
      BY <1>4, <3>1, <3>2 DEF Going
    <3> QED BY <1>3, <1>7, <3>3 DEF Heard
  <2>2. c.n = p.n + 1 /\ c.k = 1 /\ c.len = 1
    <3>1. c.n = p.n + 1 /\ c.k = 1
      BY <1>3, <1>4, <2>1
    <3> QED BY <1>2, <3>1 DEF Going
  <2>3. /\ <<Dynamic!Frag(c)>> \in Seq(Fragment) /\ Len(<<Dynamic!Frag(c)>>) = 1
        /\ \A j \in 1 .. 1 : <<Dynamic!Frag(c)>>[j] = [inc |-> o.inc, n |-> c.n, k |-> j, len |-> 1]
    BY <1>2, <1>3, <2>1, <2>2 DEF Dynamic!Frag
  <2>4. /\ dgot' \in [Ids -> [inc : Nat, n : Nat, buf : Seq(Fragment)]] /\ Whole(dgot'[c.id])
        /\ dgot'[c.id].inc = o.inc /\ dgot'[c.id].n = c.n
        /\ \A j \in Ids \ {c.id} : dgot'[j] = dgot[j]
    <3> DEFINE b == <<Dynamic!Frag(c)>>
    <3>1. /\ b \in Seq(Fragment) /\ Len(b) = c.len /\ Dynamic!Deliver(c.id, b)
          /\ \A j \in 1 .. c.len : b[j] = [inc |-> chan[c.id].inc, n |-> c.n, k |-> j, len |-> c.len]
      BY <1>7, <2>2, <2>3
    <3> HIDE DEF b
    <3>2. c.len \in Nat /\ c.len # 0 /\ c.id \in Ids
      BY <1>2, <2>2
    <3> QED BY <3>1, <3>2, Delivered
  <2>5. Finished(c) = c.n /\ Finished(p) = p.n
    BY <2>1, <2>2 DEF Finished
  <2>6. Heard(c, c.id)'
    <3>1. dgot'[c.id].inc = c.inc /\ dgot'[c.id].n = c.n /\ Finished(c) # 0
      BY <1>2, <1>3, <2>1, <2>4, <2>5
    <3>2. chan'[c.id] = o /\ c.k = c.len
      BY <1>7, <2>2
    <3>3. Finished(c)' = Finished(c)
      BY DEF Finished
    <3> QED BY <1>2, <1>3, <2>1, <2>2, <2>5, <3>1, <3>2 DEF Heard, Going, Finished
  <2>7. Ordered(c.id)
    <3>1. /\ p.n = 0 => dgot[c.id].inc < p.inc
          /\ p.n # 0 => dgot[c.id].inc = p.inc /\ dgot[c.id].n = p.n
      BY <1>3, <1>7, <2>5 DEF Heard
    <3> QED BY <1>3, <1>4, <2>1, <2>2, <2>4, <3>1 DEF Ordered, DynPdu
  <2>8. chan' \in [Ids -> [inc : Nat, buf : Seq(Fragment), total : Nat]]
    BY <1>2, <1>7, DynParts
  <2> QED BY <1>5, <1>7, <2>4, <2>6, <2>7, <2>8
\* The buffer holds the message up to p, and c is the next fragment.
<1>8. ASSUME o.total > 0
      PROVE  /\ 1 <= p.inc /\ Going(p) /\ o.inc = p.inc /\ o.total = c.len
             /\ c.n = p.n /\ c.len = p.len /\ c.k = p.k + 1 /\ p.k < p.len /\ Finished(p) = c.n - 1
             /\ g \in Seq(Fragment) /\ Len(g) = c.k /\ o # Dynamic!NoChan
             /\ \A j \in 1 .. c.k : g[j] = [inc |-> c.inc, n |-> c.n, k |-> j, len |-> c.len]
             /\ c.n = 1 => dgot[c.id].inc < c.inc
             /\ c.n # 1 => dgot[c.id].inc = c.inc /\ dgot[c.id].n = c.n - 1
  <2>1. o # Dynamic!NoChan
    BY <1>8, NoChanType
  <2>2. 1 <= p.inc /\ Going(p) /\ o.inc = p.inc
    BY <1>3, <2>1 DEF Heard
  <2>3. p.k < p.len
    <3>1. p.k = p.len => o.total = 0
      BY <1>3, <2>1 DEF Heard
    <3> QED BY <1>4, <1>8, <2>2, <3>1 DEF Going
  <2>4. c.n = p.n /\ c.len = p.len /\ c.k = p.k + 1
    BY <1>3, <1>4, <2>3
  <2>5. /\ o.total = p.len /\ Len(o.buf) = p.k
        /\ \A j \in 1 .. p.k : o.buf[j] = [inc |-> p.inc, n |-> p.n, k |-> j, len |-> p.len]
        /\ Finished(p) = 0 => dgot[c.id].inc < p.inc
        /\ Finished(p) # 0 => dgot[c.id].inc = p.inc /\ dgot[c.id].n = Finished(p)
    BY <1>3, <2>1, <2>3 DEF Heard
  <2>6. Finished(p) = c.n - 1
    BY <1>4, <2>3, <2>4 DEF Finished
  <2>7. Dynamic!Frag(c) = [inc |-> c.inc, n |-> c.n, k |-> c.k, len |-> c.len]
    BY DEF Dynamic!Frag
  <2>8. /\ g \in Seq(Fragment) /\ Len(g) = Len(o.buf) + 1 /\ g[Len(o.buf) + 1] = Dynamic!Frag(c)
        /\ \A j \in 1 .. Len(o.buf) : g[j] = o.buf[j]
    BY <1>2, <1>4, AppendProperties
  <2> HIDE DEF g
  <2>9. ASSUME NEW j \in 1 .. c.k PROVE g[j] = [inc |-> c.inc, n |-> c.n, k |-> j, len |-> c.len]
    <3>1. CASE j = c.k
      <4>1. j = Len(o.buf) + 1
        BY <2>4, <2>5, <3>1
      <4> QED BY <2>7, <2>8, <3>1, <4>1
    <3>2. CASE j # c.k
      <4>1. j \in 1 .. p.k
        BY <1>2, <1>4, <2>4, <3>2
      <4>2. g[j] = o.buf[j]
        BY <2>5, <2>8, <4>1
      <4>3. o.buf[j] = [inc |-> p.inc, n |-> p.n, k |-> j, len |-> p.len]
        BY <2>5, <4>1
      <4> QED BY <1>3, <2>4, <4>2, <4>3
    <3> QED BY <3>1, <3>2
  <2> QED BY <1>2, <1>3, <1>4, <2>1, <2>2, <2>3, <2>4, <2>5, <2>6, <2>8, <2>9
<1> HIDE DEF g
<1>9. CASE o.total > Len(g) /\ chan' = [chan EXCEPT ![c.id].buf = g] /\ UNCHANGED dgot
  <2>1. o.total > 0
    BY <1>4, <1>9 DEF g
  <2>2. c.k < c.len
    BY <1>2, <1>8, <1>9, <2>1
  <2>3. /\ chan' \in [Ids -> [inc : Nat, buf : Seq(Fragment), total : Nat]]
        /\ chan'[c.id].inc = o.inc /\ chan'[c.id].buf = g /\ chan'[c.id].total = c.len
        /\ \A j \in Ids \ {c.id} : chan'[j] = chan[j]
    <3> DEFINE e == [o EXCEPT !.buf = g]
    <3>1. o \in [inc : Nat, buf : Seq(Fragment), total : Nat]
      BY <1>2, DynParts
    <3>2. chan' = [chan EXCEPT ![c.id] = e]
      BY <1>2, <1>9, DynParts
    <3>3. /\ e \in [inc : Nat, buf : Seq(Fragment), total : Nat] /\ e.inc = o.inc /\ e.buf = g
          /\ e.total = c.len
      BY <1>8, <2>1, <3>1
    <3> HIDE DEF e
    <3> QED BY <1>2, <3>2, <3>3, DynParts
  <2>4. chan'[c.id] # Dynamic!NoChan /\ o # Dynamic!NoChan
    BY <1>2, <1>8, <2>1, <2>3, NoChanType
  <2>5. Heard(c, c.id)'
    <3>1. Finished(c) = c.n - 1
      BY <1>2, <2>2 DEF Finished
    <3>2. /\ Finished(c) = 0 => dgot'[c.id].inc < c.inc
          /\ Finished(c) # 0 => dgot'[c.id].inc = c.inc /\ dgot'[c.id].n = Finished(c)
          /\ dgot'[c.id].inc <= c.inc
      BY <1>2, <1>4, <1>8, <1>9, <2>1, <3>1
    <3> HIDE DEF Finished
    <3>3. /\ Len(chan'[c.id].buf) = c.k /\ chan'[c.id].inc = c.inc
          /\ \A j \in 1 .. c.k : chan'[c.id].buf[j] = [inc |-> c.inc, n |-> c.n, k |-> j, len |-> c.len]
      BY <1>3, <1>8, <2>1, <2>3
    <3> QED BY <1>2, <2>2, <2>3, <3>2, <3>3 DEF Heard, Going, Finished
  <2>6. Whole(dgot'[c.id]) /\ Ordered(c.id) /\ dgot' \in [Ids -> [inc : Nat, n : Nat, buf : Seq(Fragment)]]
    BY <1>2, <1>9, DynParts DEF Ordered
  <2> QED BY <1>5, <1>9, <2>3, <2>4, <2>5, <2>6
<1>10. CASE /\ o.total > 0 /\ o.total <= Len(g) /\ Dynamic!Deliver(c.id, SubSeq(g, 1, o.total))
            /\ chan' = [chan EXCEPT ![c.id].buf = <<>>, ![c.id].total = 0]
  <2>1. c.k = c.len /\ Len(g) = c.len /\ o.total = c.len /\ c.len # 0
    BY <1>2, <1>8, <1>10 DEF Going
  <2>2. /\ SubSeq(g, 1, o.total) \in Seq(Fragment) /\ Len(SubSeq(g, 1, o.total)) = c.len
        /\ \A j \in 1 .. c.len : SubSeq(g, 1, o.total)[j] = [inc |-> o.inc, n |-> c.n, k |-> j, len |-> c.len]
    <3>1. g \in Seq(Fragment) /\ \A j \in 1 .. c.len : g[j] = [inc |-> o.inc, n |-> c.n, k |-> j, len |-> c.len]
      BY <1>3, <1>8, <1>10, <2>1
    <3> QED BY <1>2, <2>1, <3>1
  <2>3. /\ dgot' \in [Ids -> [inc : Nat, n : Nat, buf : Seq(Fragment)]] /\ Whole(dgot'[c.id])
        /\ dgot'[c.id].inc = o.inc /\ dgot'[c.id].n = c.n
        /\ \A j \in Ids \ {c.id} : dgot'[j] = dgot[j]
    <3> DEFINE b == SubSeq(g, 1, o.total)
    <3>1. /\ b \in Seq(Fragment) /\ Len(b) = c.len /\ Dynamic!Deliver(c.id, b)
          /\ \A j \in 1 .. c.len : b[j] = [inc |-> chan[c.id].inc, n |-> c.n, k |-> j, len |-> c.len]
      BY <1>10, <2>2
    <3> HIDE DEF b
    <3>2. c.len \in Nat /\ c.len # 0 /\ c.id \in Ids
      BY <1>2, <2>1
    <3> QED BY <2>1, <3>1, <3>2, Delivered
  <2>4. /\ chan' \in [Ids -> [inc : Nat, buf : Seq(Fragment), total : Nat]]
        /\ chan'[c.id].inc = o.inc /\ chan'[c.id].buf = <<>> /\ chan'[c.id].total = 0
        /\ \A j \in Ids \ {c.id} : chan'[j] = chan[j]
    <3>1. <<>> \in Seq(Fragment) /\ 0 \in Nat
      OBVIOUS
    <3> QED BY <1>2, <1>10, <3>1, Reassembles
  <2>5. chan'[c.id] # Dynamic!NoChan /\ o # Dynamic!NoChan
    BY <1>2, <1>8, <1>10, <2>4, NoChanType
  <2>6. Heard(c, c.id)'
    <3>1. Finished(c) = c.n
      BY <2>1 DEF Finished
    <3>2. dgot'[c.id].inc = c.inc /\ dgot'[c.id].n = c.n /\ c.n # 0 /\ chan'[c.id].inc = c.inc
      BY <1>2, <1>3, <1>8, <1>10, <2>3, <2>4
    <3> QED BY <1>2, <2>1, <2>4, <3>1, <3>2 DEF Heard, Going, Finished
  <2>7. Ordered(c.id)
    BY <1>2, <1>3, <1>4, <1>8, <1>10, <2>3 DEF Ordered
  <2> QED BY <1>5, <2>3, <2>4, <2>5, <2>6, <2>7
<1> QED BY <1>1, <1>6, <1>7, <1>9, <1>10

\* The PDUs under way.
LEMMA DynFlight ==
    ASSUME DynInv
    PROVE  /\ dflight \in Seq(DynPdu)
           /\ \A j \in 1 .. Len(dflight) :
                 dflight[j] \in DynPdu /\ dflight[j].id \in Ids /\ IdOf[dflight[j]] = dflight[j].id
<1>1. dflight \in Seq(DynPdu)
  BY DEF DynInv, DynTypeOK
<1>2. \A d \in DynPdu : d.id \in Ids /\ IdOf[d] = d.id
  BY DEF IdOf, DynPdu
<1> QED BY <1>1, <1>2

\* What is left to show of a step that moves no PDU and delivers nothing.
LEMMA DynKeeps ==
    ASSUME DynInv, DynTypeOK', UNCHANGED <<dflight, dgot>>,
           \A i \in Ids : /\ srv'[i].inc = srv[i].inc /\ srv'[i].n = srv[i].n
                          /\ srv'[i].k = srv[i].k /\ srv'[i].len = srv[i].len,
           \A i \in Ids : chan'[i] = chan[i] \/ chan'[i] = Dynamic!NoChan,
           \A i \in Ids : Agreed(i)'
    PROVE  DynInv'
<1>1. WayOK'
  <2>1. \A i \in Ids : Going(srv[i])'
    BY DEF DynInv, WayOK, Going
  <2>2. \A j \in 1 .. Len(dflight) : dflight[j].id \in Ids
    BY DynFlight
  <2>3. \A j \in 1 .. Len(dflight') :
          /\ Sent(dflight'[j])
          /\ dflight'[j].cmd = "create" =>
                /\ dflight'[j].inc = srv'[dflight'[j].id].inc
                /\ \A m \in j + 1 .. Len(dflight') : dflight'[m].id # dflight'[j].id
    BY <2>2 DEF DynInv, WayOK
  <2> QED BY <2>1, <2>3 DEF WayOK, Sent, Going
<1>2. ASSUME NEW i \in Ids PROVE UpTo(i)'
  <2>1. PICK p \in DynPdu, q \in DynPdu :
            Heard(p, i) /\ Current(q, i) /\ Chain(dflight, IdOf, Succeeding, i, p, q)
    BY DEF DynInv, UpTo
  <2>2. Heard(p, i)'
    BY <2>1 DEF Heard
  <2>3. Current(q, i)'
    BY <2>1 DEF Current
  <2> QED BY <2>1, <2>2, <2>3 DEF UpTo
<1>3. Dynamic!HandlersGetWhole'
  BY DEF DynInv, Dynamic!HandlersGetWhole
<1> QED BY <1>1, <1>2, <1>3 DEF DynInv

\* Where nothing of an ID is under way, its channel has come as far as the server.
LEMMA Arrived ==
    ASSUME DynInv, NEW i \in Ids, Kinds(dflight, i) = {}
    PROVE  \E p \in DynPdu : Heard(p, i) /\ Current(p, i)
<1>1. PICK p \in DynPdu, q \in DynPdu :
          Heard(p, i) /\ Current(q, i) /\ Chain(dflight, IdOf, Succeeding, i, p, q)
  BY DEF DynInv, UpTo
<1>2. \A j \in 1 .. Len(dflight) : IdOf[dflight[j]] # i
  <2>1. \A j \in 1 .. Len(dflight) : dflight[j].id # i
    BY DEF Kinds
  <2> QED BY <2>1, DynFlight
<1>3. Lacks(dflight, IdOf, i, 1, Len(dflight))
  BY <1>2 DEF Lacks
<1> QED BY <1>1, <1>3 DEF Chain

\* The response to a create leaves.
LEMMA DynRespond ==
    ASSUME DynInv, NEW i, i = loop.id, Dynamic!Respond
    PROVE  DynInv'
<1> DEFINE s == IF loop.ok THEN "open" ELSE "none"
<1>1. /\ loop.at = "respond" /\ UNCHANGED <<dflight, chan, opened, dgot>>
      /\ srv' = [srv EXCEPT ![i].st = s]
      /\ loop' = IF loop.ok THEN [loop EXCEPT !.at = "open"] ELSE Dynamic!Ready
  BY DEF Dynamic!Respond
<1>2. /\ i \in Ids /\ srv \in [Ids -> SrvState]
      /\ loop \in [at : {"ready", "respond", "open"}, id : Ids \cup {0}, ok : BOOLEAN]
      /\ chan[i].inc \in Nat
  BY <1>1, DynParts DEF DynInv, DynTypeOK
<1>3. /\ srv'[i].st = s /\ srv'[i].inc = srv[i].inc /\ srv'[i].n = srv[i].n
      /\ srv'[i].k = srv[i].k /\ srv'[i].len = srv[i].len /\ srv' \in [Ids -> SrvState]
      /\ \A j \in Ids \ {i} : srv'[j] = srv[j]
  BY <1>1, <1>2 DEF SrvState
<1>4. /\ loop' \in [at : {"ready", "respond", "open"}, id : Ids \cup {0}, ok : BOOLEAN]
      /\ loop.ok => loop'.at = "open" /\ loop'.id = i /\ loop'.ok
      /\ ~loop.ok => loop' = Dynamic!Ready /\ loop'.at = "ready"
  BY <1>1, <1>2 DEF Dynamic!Ready
<1>5. /\ Kinds(dflight, i) = {} /\ i \notin opened /\ (chan[i] # Dynamic!NoChan <=> loop.ok)
      /\ chan[i].inc <= srv[i].inc
  BY <1>1, <1>2, DynParts DEF Agreed, Responding
<1>6. loop.ok => chan[i].inc = srv[i].inc
  BY <1>2, <1>5, Arrived DEF Heard, Current
<1>7. Agreed(i)'
  <2>1. Kinds(dflight', i) = {} /\ ~Responding(i)' /\ s # "asked"
    BY <1>1, <1>4, <1>5 DEF Responding
  <2> HIDE DEF s
  <2>2. CASE loop.ok
    <3>1. srv'[i].st = "open"
      BY <1>3, <2>2 DEF s
    <3> QED BY <1>1, <1>3, <1>4, <1>5, <1>6, <2>1, <2>2, <3>1 DEF Agreed
  <2>3. CASE ~loop.ok
    <3>1. srv'[i].st = "none"
      BY <1>3, <2>3 DEF s
    <3> QED BY <1>1, <1>3, <1>4, <1>5, <1>6, <2>1, <2>3, <3>1 DEF Agreed
  <2> QED BY <2>2, <2>3
<1>8. ASSUME NEW j \in Ids, j # i PROVE Agreed(j)'
  <2>1. ~Responding(j) /\ ~Responding(j)' /\ ~(loop'.at # "ready" /\ loop'.id = j)
    BY <1>4, <1>8 DEF Responding
  <2>2. Agreed(j)
    BY DynParts
  <2> QED BY <1>1, <1>3, <1>8, <2>1, <2>2 DEF Agreed
<1>9. DynTypeOK'
  BY <1>1, <1>2, <1>3, <1>4 DEF DynInv, DynTypeOK
<1> QED
  <2>1. \A j \in Ids : /\ srv'[j].inc = srv[j].inc /\ srv'[j].n = srv[j].n
                       /\ srv'[j].k = srv[j].k /\ srv'[j].len = srv[j].len
    BY <1>3
  <2> QED BY <1>1, <1>7, <1>8, <1>9, <2>1, DynKeeps

\* The channel is used after that.
LEMMA DynOpen ==
    ASSUME DynInv, Dynamic!Open
    PROVE  DynInv'
<1>1. /\ loop.at = "open" /\ UNCHANGED <<srv, dflight, chan, dgot>>
      /\ opened' = opened \cup {loop.id} /\ loop' = Dynamic!Ready /\ loop'.at = "ready"
  BY DEF Dynamic!Open, Dynamic!Ready
<1>2. loop.id \in Ids /\ loop.ok
      /\ loop' \in [at : {"ready", "respond", "open"}, id : Ids \cup {0}, ok : BOOLEAN]
  BY <1>1 DEF DynInv, DynTypeOK, Dynamic!Ready
<1>3. ASSUME NEW i \in Ids PROVE Agreed(i)'
  <2>1. Agreed(i) /\ ~Responding(i) /\ ~Responding(i)'
    BY <1>1, DynParts DEF Responding
  <2>2. i \in opened' => chan[i] # Dynamic!NoChan
    BY <1>1, <1>2, <2>1 DEF Agreed
  <2> QED BY <1>1, <2>1, <2>2 DEF Agreed
<1>4. DynTypeOK'
  BY <1>1, <1>2 DEF DynInv, DynTypeOK
<1> QED BY <1>1, <1>3, <1>4, DynKeeps

\* The client closes a channel of its own.
LEMMA DynCloseChannel ==
    ASSUME DynInv, NEW i \in Ids, Dynamic!CloseChannel(i)
    PROVE  DynInv'
<1>1. /\ i \in opened /\ chan[i] # Dynamic!NoChan /\ UNCHANGED <<dflight, loop, dgot>>
      /\ chan' = [chan EXCEPT ![i] = Dynamic!NoChan] /\ opened' = opened \ {i}
      /\ srv' = IF srv[i].inc = chan[i].inc THEN [srv EXCEPT ![i].st = "none"] ELSE srv
  BY DEF Dynamic!CloseChannel
<1>2. /\ srv \in [Ids -> SrvState] /\ Agreed(i) /\ chan[i].inc \in Nat
  BY DynParts DEF DynInv, DynTypeOK
<1>3. /\ srv' \in [Ids -> SrvState] /\ \A j \in Ids \ {i} : srv'[j] = srv[j]
      /\ srv'[i].inc = srv[i].inc /\ srv'[i].n = srv[i].n /\ srv'[i].k = srv[i].k /\ srv'[i].len = srv[i].len
      /\ srv[i].inc = chan[i].inc => srv'[i].st = "none"
      /\ srv[i].inc # chan[i].inc => srv'[i] = srv[i]
      /\ srv[i].inc \in Nat
  BY <1>1, <1>2 DEF SrvState
<1>4. /\ chan' \in [Ids -> [inc : Nat, buf : Seq(Fragment), total : Nat]] /\ chan'[i] = Dynamic!NoChan
      /\ \A j \in Ids \ {i} : chan'[j] = chan[j]
  BY <1>1, DynParts, NoChanType
<1>5. Agreed(i)'
  <2>1. ~(loop.at # "ready" /\ loop.id = i) /\ ~Responding(i) /\ ~Responding(i)'
    BY <1>1, <1>2 DEF Agreed, Responding
  <2> QED BY <1>1, <1>2, <1>3, <1>4, <2>1, NoChanType DEF Agreed
<1>6. ASSUME NEW j \in Ids, j # i PROVE Agreed(j)'
  <2>1. Agreed(j) /\ (Responding(j)' <=> Responding(j)) /\ (j \in opened' <=> j \in opened)
    BY <1>1, <1>6, DynParts DEF Responding
  <2> QED BY <1>1, <1>3, <1>4, <1>6, <2>1 DEF Agreed
<1>7. DynTypeOK'
  BY <1>1, <1>3, <1>4 DEF DynInv, DynTypeOK
<1> QED BY <1>1, <1>3, <1>4, <1>5, <1>6, <1>7, DynKeeps

\* Steps of the senders change nothing of it.
LEMMA DynFrame ==
    ASSUME DynInv, UNCHANGED Dynamic!recvVars
    PROVE  DynInv' /\ \A i \in Ids : Ordered(i)
<1>1. UNCHANGED <<srv, dflight, chan, loop, opened, dgot>>
  BY DEF Dynamic!recvVars
<1>2. DynTypeOK'
  BY <1>1 DEF DynInv, DynTypeOK
<1>3. \A i \in Ids : Agreed(i)'
  BY <1>1 DEF DynInv, Agreed, Responding
<1>4. DynInv'
  BY <1>1, <1>2, <1>3, DynKeeps
<1> QED BY <1>1, <1>4 DEF Ordered

\* Every step keeps the invariant, and gives the handlers their messages in order.
LEMMA DynNext ==
    ASSUME DynInv, [Dynamic!Next]_(Dynamic!dvcVars)
    PROVE  DynInv' /\ \A i \in Ids : Ordered(i)
<1>1. dgot' = dgot => \A i \in Ids : Ordered(i)
  BY DEF Ordered
<1>2. ASSUME NEW i \in Ids, \/ Dynamic!ServerCreates(i) \/ Dynamic!ServerSends(i)
                            \/ Dynamic!ServerCloses(i) \/ Dynamic!CloseChannel(i)
      PROVE  DynInv' /\ dgot' = dgot
  <2>1. DynInv'
    BY <1>2, DynServerCreates, DynServerSends, DynServerCloses, DynCloseChannel
  <2>2. dgot' = dgot
    BY <1>2 DEF Dynamic!ServerCreates, Dynamic!ServerSends, Dynamic!ServerCloses, Dynamic!CloseChannel
  <2> QED BY <2>1, <2>2
<1>3. ASSUME NEW c, Dynamic!HandleCreate(c) \/ Dynamic!HandleDataFirst(c) \/ Dynamic!HandleClose(c)
      PROVE  DynInv' /\ dgot' = dgot
  <2>1. DynInv'
    BY <1>3, DynHandleCreate, DynHandleDataFirst, DynHandleClose
  <2>2. dgot' = dgot
    BY <1>3 DEF Dynamic!HandleCreate, Dynamic!HandleDataFirst, Dynamic!HandleClose
  <2> QED BY <2>1, <2>2
<1>4. ASSUME Dynamic!Respond \/ Dynamic!Open
      PROVE  DynInv' /\ dgot' = dgot
  <2>1. DynInv'
    BY <1>4, DynRespond, DynOpen
  <2>2. dgot' = dgot
    BY <1>4 DEF Dynamic!Respond, Dynamic!Open
  <2> QED BY <2>1, <2>2
<1>5. ASSUME NEW w \in Workers, Dynamic!SendFragment(w) \/ \E i \in Ids : Dynamic!SendBegins(w, i)
      PROVE  UNCHANGED Dynamic!recvVars
  BY <1>5 DEF Dynamic!SendFragment, Dynamic!SendBegins
<1>6. UNCHANGED Dynamic!dvcVars => UNCHANGED Dynamic!recvVars
  BY DEF Dynamic!dvcVars
<1>7. CASE Dynamic!Next
  <2>1. \/ \E i \in Ids : \/ Dynamic!ServerCreates(i) \/ Dynamic!ServerSends(i)
                          \/ Dynamic!ServerCloses(i) \/ Dynamic!CloseChannel(i)
        \/ \E c : Dynamic!HandleCreate(c) \/ Dynamic!HandleDataFirst(c) \/ Dynamic!HandleClose(c)
        \/ \E c : Dynamic!HandleData(c)
        \/ Dynamic!Respond \/ Dynamic!Open
        \/ \E w \in Workers : Dynamic!SendFragment(w) \/ \E i \in Ids : Dynamic!SendBegins(w, i)
    BY <1>7 DEF Dynamic!Next
  <2> QED BY <1>1, <1>2, <1>3, <1>4, <1>5, <2>1, DynFrame, DynHandleData
<1> QED BY <1>6, <1>7, DynFrame

\* What was sent on a dynamic channel is in step with what was made of it: with what the
\* sides hold to be open, with the buffer and with what the handler was given.
THEOREM DynamicInStep == Dynamic!Spec => []DynInv
BY DynInit, DynNext, PTL DEF Dynamic!Spec

\* What the invariant says when nothing is under way.
LEMMA DynQuiet ==
    ASSUME DynInv
    PROVE  Dynamic!HandlersFaithful /\ Dynamic!ChannelsAgree
<1>1. dflight = <<>> => \A i \in Ids : Kinds(dflight, i) = {}
  BY DEF Kinds
<1>2. loop = Dynamic!Ready => \A i \in Ids : ~Responding(i)
  BY DEF Responding, Dynamic!Ready
<1>3. Dynamic!SidesAgree
  BY <1>1, <1>2, DynParts DEF Dynamic!SidesAgree, Agreed
<1>4. Dynamic!NothingMissed
  <2> SUFFICES ASSUME dflight = <<>>, loop = Dynamic!Ready, NEW i \in Ids,
                      chan[i] # Dynamic!NoChan, srv[i].n > 0, srv[i].k = srv[i].len
               PROVE  dgot[i].inc = srv[i].inc /\ dgot[i].n = srv[i].n
    BY DEF Dynamic!NothingMissed
  <2>1. PICK p \in DynPdu : Heard(p, i) /\ Current(p, i)
    BY <1>1, Arrived
  <2>2. p.n # 0 /\ p.k = p.len /\ p.inc = srv[i].inc /\ p.n = srv[i].n
    BY <2>1 DEF Current
  <2> QED BY <2>1, <2>2 DEF Heard, Finished
<1>5. Dynamic!OpenAfterResponse
  <2> SUFFICES ASSUME NEW i \in opened, chan[i].inc = srv[i].inc, srv[i].st = "asked"
               PROVE  FALSE
    BY DEF Dynamic!OpenAfterResponse
  <2>1. i \in Ids
    BY DEF DynInv, DynTypeOK
  <2>2. ~Responding(i)
    BY <2>1, DynParts DEF Agreed, Responding
  <2>3. ~(chan[i].inc < srv[i].inc)
    BY <2>1, DynParts
  <2> QED BY <2>1, <2>2, <2>3, DynParts DEF Agreed
<1> QED BY <1>3, <1>4, <1>5 DEF DynInv, Dynamic!HandlersFaithful, Dynamic!ChannelsAgree

\* The handler of a dynamic channel is called with whole messages of its own channel, and
\* an open channel has heard the last finished message when nothing is under way.
THEOREM HandlersAlwaysFaithful == MCSpec => []HandlersFaithful
<1>1. DynInv => Dynamic!HandlersFaithful
  BY DynQuiet
<1>2. Dynamic!Spec => []Dynamic!HandlersFaithful
  BY <1>1, DynamicInStep, PTL
<1> QED BY <1>2, RunsEach DEF HandlersFaithful

\* The client and the server agree on the channels that are open whenever nothing is under
\* way, and a goroutine sends on a channel only when its response has left.
THEOREM ChannelsAlwaysAgree == MCSpec => []ChannelsAgree
<1>1. DynInv => Dynamic!ChannelsAgree
  BY DynQuiet
<1>2. Dynamic!Spec => []Dynamic!ChannelsAgree
  BY <1>1, DynamicInStep, PTL
<1> QED BY <1>2, RunsEach DEF ChannelsAgree

\* The messages of an incarnation of a channel are heard from the first on, in order and
\* once, and nothing of it after a later one has been heard.
THEOREM MessagesInOrder == MCSpec => EveryMessageInOrder
<1>1. DynInv /\ [Dynamic!Next]_(Dynamic!dvcVars)
      => [\A i \in Ids :
            dgot'[i] # dgot[i] =>
                \/ dgot'[i].inc = dgot[i].inc /\ dgot'[i].n = dgot[i].n + 1
                \/ dgot'[i].inc > dgot[i].inc /\ dgot'[i].n = 1]_(Dynamic!dvcVars)
  BY DynNext DEF Ordered
<1>2. Dynamic!Spec => Dynamic!EveryMessageInOrder
  BY <1>1, DynamicInStep, PTL DEF Dynamic!Spec, Dynamic!EveryMessageInOrder
<1> QED BY <1>2, RunsEach DEF EveryMessageInOrder

-----------------------------------------------------------------------------
(* Dynamic channels: what the goroutines behind them write.                *)

DynSending == [id : Ids \cup {0}, k : Nat, len : Nat]
Written == [by : Workers \cup {"none"}, k : Nat, len : Nat]

\* A goroutine in SendData on an ID.
Busy(w, i) == dsnd[w] # Dynamic!Idle /\ dsnd[w].id = i

\* An ID between two messages, and one that w is in a message on.
DynResting(i) == dwire[i].k = dwire[i].len /\ \A w \in Workers : Busy(w, i) => dsnd[w].k = 0
DynWithin(i, w) ==
    Busy(w, i) /\ dsnd[w].k > 0 /\ dwire[i] = [by |-> w, k |-> dsnd[w].k, len |-> dsnd[w].len]

\* One goroutine at a time is in SendData on an ID whose handler serialises them, and the
\* ID is where its message left it, or between two.
DynSendInv ==
    /\ dsnd \in [Workers -> DynSending] /\ dwire \in [Ids -> Written]
    /\ \A w \in Workers : dsnd[w] # Dynamic!Idle => dsnd[w].id \in Ids /\ dsnd[w].k < dsnd[w].len
    /\ \A i \in Serialised : \A v, w \in Workers : Busy(v, i) /\ Busy(w, i) => v = w
    /\ \A i \in Serialised : DynResting(i) \/ \E w \in Workers : DynWithin(i, w)

\* The step that writes a fragment continues its message or begins one.
DynContinued(i) ==
    \/ dwire'[i] = dwire[i]
    \/ dwire'[i].k = 1 /\ dwire[i].k = dwire[i].len
    \/ dwire'[i].by = dwire[i].by /\ dwire'[i].k = dwire[i].k + 1

\* SendData begins a message; where senders are serialised, it is alone on its ID.
LEMMA DynBegins ==
    ASSUME DynSendInv, NEW w \in Workers, NEW d \in Ids, Dynamic!SendBegins(w, d)
    PROVE  DynSendInv' /\ \A i \in Serialised : DynContinued(i)
<1>1. PICK len \in 1 .. DynMaxLen : dsnd' = [dsnd EXCEPT ![w] = [id |-> d, k |-> 0, len |-> len]]
  BY DEF Dynamic!SendBegins
<1>2. /\ dsnd[w] = Dynamic!Idle /\ dwire' = dwire
      /\ d \in Serialised => \A v \in Workers : ~Busy(v, d)
  BY DEF Dynamic!SendBegins, Busy
<1> DEFINE m == [id |-> d, k |-> 0, len |-> len]
<1>3. m \in DynSending /\ m.id = d /\ m.k = 0 /\ m.len = len /\ m.k < m.len /\ len \in Nat
  BY DynConstants DEF DynSending
<1> HIDE DEF m
<1>4. dsnd' = [dsnd EXCEPT ![w] = m]
  BY <1>1 DEF m
<1>5. dsnd' \in [Workers -> DynSending] /\ dsnd'[w] = m /\ \A v \in Workers \ {w} : dsnd'[v] = dsnd[v]
  BY <1>3, <1>4 DEF DynSendInv
<1>6. \A v \in Workers, i \in Ids : Busy(v, i)' => (v = w /\ i = d) \/ (v # w /\ Busy(v, i))
  BY <1>3, <1>5 DEF Busy
<1>7. ~Busy(w, d) /\ \A i : ~Busy(w, i)
  BY <1>2 DEF Busy
<1>8. Serialised \subseteq Ids
  BY ChannelsAssumption DEF ChannelsAssumption
<1>9. \A i \in Serialised : \A v, u \in Workers : Busy(v, i)' /\ Busy(u, i)' => v = u
  BY <1>2, <1>6, <1>8 DEF DynSendInv
<1>10. ASSUME NEW i \in Serialised PROVE DynResting(i)' \/ \E v \in Workers : DynWithin(i, v)'
  <2>1. CASE DynResting(i)
    <3>1. ASSUME NEW v \in Workers, Busy(v, i)' PROVE dsnd'[v].k = 0
      BY <1>3, <1>5, <1>6, <1>8, <2>1, <3>1 DEF DynResting
    <3> QED BY <1>2, <2>1, <3>1 DEF DynResting
  <2>2. ASSUME NEW v \in Workers, DynWithin(i, v) PROVE DynWithin(i, v)'
    <3>1. v # w
      BY <1>7, <2>2 DEF DynWithin
    <3>2. dsnd'[v] = dsnd[v]
      BY <1>5, <3>1
    <3> QED BY <1>2, <2>2, <3>2 DEF DynWithin, Busy
  <2> QED BY <2>1, <2>2 DEF DynSendInv
<1>11. \A v \in Workers : dsnd'[v] # Dynamic!Idle => dsnd'[v].id \in Ids /\ dsnd'[v].k < dsnd'[v].len
  BY <1>3, <1>5 DEF DynSendInv
<1> QED BY <1>2, <1>5, <1>9, <1>10, <1>11 DEF DynSendInv, DynContinued

\* SendData writes a fragment.
LEMMA DynFragment ==
    ASSUME DynSendInv, NEW w \in Workers, NEW d, d = dsnd[w].id, Dynamic!SendFragment(w)
    PROVE  DynSendInv' /\ \A i \in Serialised : DynContinued(i)
<1> DEFINE m == dsnd[w]   e == [by |-> w, k |-> m.k + 1, len |-> m.len]
           r == IF m.k + 1 = m.len THEN Dynamic!Idle ELSE [m EXCEPT !.k = @ + 1]
<1>1. m # Dynamic!Idle /\ dwire' = [dwire EXCEPT ![d] = e] /\ dsnd' = [dsnd EXCEPT ![w] = r]
  BY DEF Dynamic!SendFragment
<1>2. m \in DynSending /\ m.id = d /\ d \in Ids /\ m.k < m.len /\ m.k \in Nat /\ m.len \in Nat
  BY <1>1 DEF DynSendInv, DynSending
<1>3. e \in Written /\ e.by = w /\ e.k = m.k + 1 /\ e.len = m.len
  BY <1>2 DEF Written
<1>4. /\ r \in DynSending
      /\ m.k + 1 = m.len => r = Dynamic!Idle
      /\ m.k + 1 # m.len => r # Dynamic!Idle /\ r.id = d /\ r.k = m.k + 1 /\ r.len = m.len /\ r.k < r.len
  <2>1. CASE m.k + 1 = m.len
    BY <2>1 DEF Dynamic!Idle, DynSending
  <2>2. CASE m.k + 1 # m.len
    <3>1. r = [m EXCEPT !.k = @ + 1]
      BY <2>2
    <3>2. r \in DynSending /\ r.id = d /\ r.k = m.k + 1 /\ r.len = m.len
      BY <1>2, <3>1 DEF DynSending
    <3>3. r # Dynamic!Idle
      BY <1>2, <3>2 DEF Dynamic!Idle
    <3> QED BY <1>2, <2>2, <3>2, <3>3
  <2> QED BY <2>1, <2>2
<1> HIDE DEF e, r
<1>5. /\ dsnd' \in [Workers -> DynSending] /\ dsnd'[w] = r /\ \A v \in Workers \ {w} : dsnd'[v] = dsnd[v]
      /\ dwire' \in [Ids -> Written] /\ dwire'[d] = e /\ \A i \in Ids \ {d} : dwire'[i] = dwire[i]
  BY <1>1, <1>2, <1>3, <1>4 DEF DynSendInv
<1>6. Busy(w, d) /\ \A v \in Workers, i \in Ids : Busy(v, i)' => Busy(v, i)
  BY <1>1, <1>2, <1>4, <1>5 DEF Busy
<1>7. Serialised \subseteq Ids
  BY ChannelsAssumption DEF ChannelsAssumption
<1>8. \A i \in Serialised : \A v, u \in Workers : Busy(v, i)' /\ Busy(u, i)' => v = u
  BY <1>6, <1>7 DEF DynSendInv
<1>9. d \in Serialised => \A v \in Workers \ {w} : ~Busy(v, d)
  BY <1>6 DEF DynSendInv
\* Before the step, the ID is where m left it, or between two messages.
<1>10. d \in Serialised => IF m.k = 0 THEN dwire[d].k = dwire[d].len
                                      ELSE dwire[d].by = w /\ dwire[d].k = m.k
  <2> SUFFICES ASSUME d \in Serialised
               PROVE  IF m.k = 0 THEN dwire[d].k = dwire[d].len
                                 ELSE dwire[d].by = w /\ dwire[d].k = m.k
    OBVIOUS
  <2>1. DynResting(d) \/ \E v \in Workers : DynWithin(d, v)
    BY DEF DynSendInv
  <2>2. DynResting(d) => m.k = 0 /\ dwire[d].k = dwire[d].len
    BY <1>6 DEF DynResting
  <2>3. \A v \in Workers : DynWithin(d, v) => v = w
    BY <1>9 DEF DynWithin
  <2>4. DynWithin(d, w) => m.k # 0 /\ dwire[d].by = w /\ dwire[d].k = m.k
    BY DEF DynWithin
  <2> QED BY <2>1, <2>2, <2>3, <2>4
<1>11. \A i \in Serialised : DynContinued(i)
  BY <1>2, <1>3, <1>5, <1>7, <1>10 DEF DynContinued
<1>12. ASSUME NEW i \in Serialised PROVE DynResting(i)' \/ \E v \in Workers : DynWithin(i, v)'
  <2>1. CASE i = d /\ m.k + 1 = m.len
    <3>1. \A v \in Workers : ~Busy(v, i)'
      BY <1>4, <1>5, <1>6, <1>7, <1>9, <2>1 DEF Busy
    <3> QED BY <1>3, <1>5, <2>1, <3>1 DEF DynResting
  <2>2. CASE i = d /\ m.k + 1 # m.len
    <3>1. dsnd'[w] # Dynamic!Idle /\ dsnd'[w].id = i /\ dsnd'[w].k = m.k + 1 /\ dsnd'[w].len = m.len
      BY <1>4, <1>5, <2>2
    <3>2. dwire'[i] = [by |-> w, k |-> m.k + 1, len |-> m.len]
      BY <1>5, <2>2 DEF e
    <3> HIDE DEF m
    <3>3. DynWithin(i, w)'
      <4>1. m.k + 1 > 0
        BY <1>2
      <4> QED BY <3>1, <3>2, <4>1 DEF DynWithin, Busy
    <3> QED BY <3>3
  <2>3. CASE i # d
    <3>1. dwire'[i] = dwire[i] /\ i \in Ids
      BY <1>5, <1>7, <2>3
    <3>2. ~Busy(w, i)
      BY <1>2, <2>3 DEF Busy
    <3>3. CASE DynResting(i)
      <4>1. ASSUME NEW v \in Workers, Busy(v, i)' PROVE dsnd'[v].k = 0
        <5>1. Busy(v, i) /\ v # w
          BY <1>6, <3>1, <3>2, <4>1
        <5> QED BY <1>5, <3>3, <5>1 DEF DynResting
      <4> QED BY <3>1, <3>3, <4>1 DEF DynResting
    <3>4. ASSUME NEW v \in Workers, DynWithin(i, v) PROVE DynWithin(i, v)'
      <4>1. v # w
        BY <3>2, <3>4 DEF DynWithin
      <4>2. dsnd'[v] = dsnd[v]
        BY <1>5, <4>1
      <4> QED BY <3>1, <3>4, <4>2 DEF DynWithin, Busy
    <3> QED BY <3>3, <3>4 DEF DynSendInv
  <2> QED BY <2>1, <2>2, <2>3
<1>13. \A v \in Workers : dsnd'[v] # Dynamic!Idle => dsnd'[v].id \in Ids /\ dsnd'[v].k < dsnd'[v].len
  BY <1>2, <1>4, <1>5 DEF DynSendInv
<1> QED BY <1>5, <1>8, <1>11, <1>12, <1>13 DEF DynSendInv

\* Every step keeps the invariant of the senders and continues or begins a message.
LEMMA DynSendNext ==
    ASSUME DynSendInv, [Dynamic!Next]_(Dynamic!dvcVars)
    PROVE  DynSendInv' /\ \A i \in Serialised : DynContinued(i)
<1>1. ASSUME UNCHANGED Dynamic!sendVars PROVE DynSendInv' /\ \A i \in Serialised : DynContinued(i)
  BY <1>1 DEF DynSendInv, DynResting, DynWithin, Busy, Dynamic!sendVars, DynContinued
<1>2. ASSUME NEW i \in Ids, \/ Dynamic!ServerCreates(i) \/ Dynamic!ServerSends(i)
                            \/ Dynamic!ServerCloses(i) \/ Dynamic!CloseChannel(i)
      PROVE  UNCHANGED Dynamic!sendVars
  BY <1>2 DEF Dynamic!ServerCreates, Dynamic!ServerSends, Dynamic!ServerCloses, Dynamic!CloseChannel
<1>3. ASSUME NEW c, \/ Dynamic!HandleCreate(c) \/ Dynamic!HandleDataFirst(c)
                    \/ Dynamic!HandleClose(c) \/ Dynamic!HandleData(c)
      PROVE  UNCHANGED Dynamic!sendVars
  BY <1>3 DEF Dynamic!HandleCreate, Dynamic!HandleDataFirst, Dynamic!HandleClose, Dynamic!HandleData
<1>4. Dynamic!Respond \/ Dynamic!Open => UNCHANGED Dynamic!sendVars
  BY DEF Dynamic!Respond, Dynamic!Open
<1>5. UNCHANGED Dynamic!dvcVars => UNCHANGED Dynamic!sendVars
  BY DEF Dynamic!dvcVars
<1>6. CASE Dynamic!Next
  <2>1. \/ \E i \in Ids : \/ Dynamic!ServerCreates(i) \/ Dynamic!ServerSends(i)
                          \/ Dynamic!ServerCloses(i) \/ Dynamic!CloseChannel(i)
        \/ \E c : \/ Dynamic!HandleCreate(c) \/ Dynamic!HandleDataFirst(c)
                  \/ Dynamic!HandleClose(c) \/ Dynamic!HandleData(c)
        \/ Dynamic!Respond \/ Dynamic!Open
        \/ \E w \in Workers : Dynamic!SendFragment(w) \/ \E i \in Ids : Dynamic!SendBegins(w, i)
    BY <1>6 DEF Dynamic!Next
  <2> QED BY <1>1, <1>2, <1>3, <1>4, <2>1, DynBegins, DynFragment
<1> QED BY <1>1, <1>5, <1>6

\* It holds at the start: nobody sends.
LEMMA DynSendInit == Dynamic!Init => DynSendInv
<1> SUFFICES ASSUME Dynamic!Init PROVE DynSendInv
  OBVIOUS
<1> USE DEF Dynamic!Init
<1>1. \A w \in Workers : dsnd[w] = Dynamic!Idle
  OBVIOUS
<1>2. dsnd \in [Workers -> DynSending] /\ dwire \in [Ids -> Written]
  BY DEF DynSending, Written, Dynamic!Idle
<1>3. Serialised \subseteq Ids
  BY ChannelsAssumption DEF ChannelsAssumption
<1> QED BY <1>1, <1>2, <1>3 DEF DynSendInv, DynResting, Busy

\* The fragments of a message follow each other on every ID whose handler serialises its
\* senders (audin's sendMu), with no other goroutine's in between.
THEOREM DynamicFragmentsContiguous == Dynamic!Spec => Dynamic!FragmentsContiguous
<1>1. Dynamic!Spec => []DynSendInv
  BY DynSendInit, DynSendNext, PTL DEF Dynamic!Spec
<1>2. DynSendInv /\ [Dynamic!Next]_(Dynamic!dvcVars)
      => [\A i \in Serialised :
            dwire'[i] # dwire[i] =>
                \/ dwire'[i].k = 1 /\ dwire[i].k = dwire[i].len
                \/ dwire'[i].by = dwire[i].by /\ dwire'[i].k = dwire[i].k + 1]_(Dynamic!dvcVars)
  BY DynSendNext DEF DynContinued
<1> QED BY <1>1, <1>2, PTL DEF Dynamic!Spec, Dynamic!FragmentsContiguous

\* What several goroutines send is never mixed: neither the chunks of a static channel nor
\* the fragments of a dynamic one that serialises its senders, however many there are.
THEOREM SendsNeverMixed == MCSpec => SendsContiguous
BY RunsEach, StaticChunksContiguous, DynamicFragmentsContiguous DEF SendsContiguous
=============================================================================
