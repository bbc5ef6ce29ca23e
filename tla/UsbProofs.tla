------------------------------ MODULE UsbProofs ------------------------------
(***************************************************************************)
(* Proofs about USB redirection: the tables of the handler, the channels   *)
(* and the server's view of them stay in step, and every request runs once *)
(* on the device it was sent to.                                           *)
(***************************************************************************)
EXTENDS UsbRedirection, FiniteSetTheorems, SequenceTheorems, WellFoundedInduction, TLAPS

-----------------------------------------------------------------------------
(* Devices taken out of a sequence.                                        *)

\* A set of naturals has a least member.
LEMMA LeastNatural ==
    ASSUME NEW T, T \subseteq Nat, T # {}
    PROVE  \E x \in T : \A y \in T : x <= y
<1> DEFINE R == OpToRel(<, Nat)
<1>1. IsWellFoundedOn(R, Nat)
  BY NatLessThanWellFounded
<1>2. \A x, y \in Nat : <<y, x>> \in R <=> y < x
  BY DEF OpToRel
<1> HIDE DEF R
<1>3. \E x \in T : \A y \in T : ~ (<<y, x>> \in R)
  BY <1>1, WFMin
<1>4. PICK x \in T : \A y \in T : ~ (<<y, x>> \in R)
  BY <1>3
<1>5. \A y \in T : ~ (y < x)
  BY <1>2, <1>4
<1>6. \A y \in T : x <= y
  BY <1>5
<1> QED BY <1>6

\* A set that has zero, and with a number the next one, has every natural number.
LEMMA EveryNatural ==
    ASSUME NEW S, 0 \in S, \A n \in Nat : n \in S => n + 1 \in S
    PROVE  Nat \subseteq S
<1> DEFINE T == Nat \ S
<1>1. SUFFICES ASSUME T # {} PROVE FALSE
  OBVIOUS
<1>2. PICK x \in T : \A y \in T : x <= y
  BY <1>1, LeastNatural
<1>3. x # 0 /\ x - 1 \in Nat /\ x - 1 \notin T
  BY <1>2
<1>4. x - 1 \in S /\ (x - 1) + 1 = x
  BY <1>3
<1> QED BY <1>3, <1>4

\* What Without keeps of the first n elements, and what it keeps of n + 1.
KeptStep(s, gone, f, n) ==
    IF n = 0 THEN <<>> ELSE IF s[n] \in gone THEN f[n - 1] ELSE Append(f[n - 1], s[n])
KeptOf(s, gone, n) == CHOOSE f : f = [m \in 0 .. n |-> KeptStep(s, gone, f, m)]

\* The function that Without defines exists.
LEMMA KeptExists ==
    ASSUME NEW s, NEW gone, NEW n \in Nat
    PROVE  KeptOf(s, gone, n) = [m \in 0 .. n |-> KeptStep(s, gone, KeptOf(s, gone, n), m)]
<1> DEFINE Is(f, k) == f = [m \in 0 .. k |-> KeptStep(s, gone, f, m)]
           S == {k \in Nat : \E f : Is(f, k)}
<1>1. 0 \in S
  <2>1. Is([m \in 0 .. 0 |-> <<>>], 0)
    BY DEF KeptStep
  <2> QED BY <2>1
<1>2. ASSUME NEW k \in Nat, k \in S PROVE k + 1 \in S
  <2>1. PICK f : Is(f, k)
    BY <1>2
  <2> DEFINE e == KeptStep(s, gone, f, k + 1)
             g == [m \in 0 .. k + 1 |-> IF m = k + 1 THEN e ELSE f[m]]
  <2>2. \A m \in 0 .. k : f[m] = KeptStep(s, gone, f, m)
    BY <2>1
  <2> HIDE DEF e
  <2>3. \A m \in 0 .. k : g[m] = f[m]
    OBVIOUS
  <2>4. g[k + 1] = e
    OBVIOUS
  <2> HIDE DEF g
  <2>5. ASSUME NEW m \in 0 .. k + 1 PROVE g[m] = KeptStep(s, gone, g, m)
    <3>1. CASE m = k + 1
      <4>1. g[m - 1] = f[m - 1] /\ m # 0
        BY <2>3, <3>1
      <4> QED BY <2>4, <3>1, <4>1 DEF e, KeptStep
    <3>2. CASE m = 0
      <4>1. 0 \in 0 .. k /\ f[0] = KeptStep(s, gone, f, 0) /\ g[0] = f[0]
        BY <2>2, <2>3
      <4> QED BY <3>2, <4>1 DEF KeptStep
    <3>3. CASE m \in 1 .. k
      <4>1. m \in 0 .. k /\ m - 1 \in 0 .. k
        BY <3>3
      <4>2. g[m] = f[m] /\ g[m - 1] = f[m - 1]
        BY <2>3, <4>1
      <4> QED BY <2>2, <4>1, <4>2 DEF KeptStep
    <3> QED BY <3>1, <3>2, <3>3
  <2>6. g = [m \in 0 .. k + 1 |-> g[m]]
    BY DEF g
  <2>7. Is(g, k + 1)
    BY <2>5, <2>6
  <2> QED BY <2>7
<1>3. n \in S
  <2> HIDE DEF S
  <2> QED BY <1>1, <1>2, EveryNatural
<1> QED BY <1>3 DEF KeptOf

\* What Without returns is what is kept of the whole sequence.
LEMMA WithoutIsKept ==
    ASSUME NEW s, NEW gone
    PROVE  Without(s, gone) = KeptOf(s, gone, Len(s))[Len(s)]
BY DEF Without, KeptOf, KeptStep

\* The devices that are left are those of s that are not gone, each where it stood once,
\* and no more than there were.
LEMMA WithoutProperties ==
    ASSUME NEW T, NEW s \in Seq(T), NEW gone
    PROVE  LET w == Without(s, gone) IN
           /\ w \in Seq(T) /\ Len(w) <= Len(s)
           /\ Range(w) = Range(s) \ gone
           /\ IsInjective(s) => IsInjective(w)
<1> DEFINE n == Len(s)   f == KeptOf(s, gone, n)   w == Without(s, gone)
           Good(k) == /\ f[k] \in Seq(T) /\ Len(f[k]) <= k
                      /\ \A i \in 1 .. Len(f[k]) :
                             \E j \in 1 .. k : f[k][i] = s[j] /\ s[j] \notin gone
                      /\ \A j \in 1 .. k : s[j] \notin gone => \E i \in 1 .. Len(f[k]) : f[k][i] = s[j]
                      /\ IsInjective(s) =>
                             \A i, j \in 1 .. Len(f[k]) : f[k][i] = f[k][j] => i = j
           S == {k \in Nat : k <= n => Good(k)}
<1>1. n \in Nat /\ w = f[n]
  BY WithoutIsKept
<1>2. \A m \in 0 .. n : f[m] = KeptStep(s, gone, f, m)
  <2>1. f = [m \in 0 .. n |-> KeptStep(s, gone, f, m)]
    BY <1>1, KeptExists
  <2> HIDE DEF f
  <2> QED BY <2>1
<1> HIDE DEF f, w, n
<1>3. 0 \in S
  <2>1. f[0] = <<>>
    BY <1>1, <1>2 DEF KeptStep
  <2>2. f[0] \in Seq(T) /\ Len(f[0]) = 0
    BY <2>1
  <2>3. Good(0)
    BY <2>2
  <2> HIDE DEF Good
  <2> QED BY <2>3
<1>4. ASSUME NEW k \in Nat, k \in S, k + 1 <= n PROVE Good(k + 1)
  <2>1. Good(k)
    <3> HIDE DEF Good
    <3> QED BY <1>1, <1>4
  <2>2. k + 1 \in 1 .. n /\ s[k + 1] \in T
    BY <1>1, <1>4 DEF n
  <2>3. f[k + 1] = IF s[k + 1] \in gone THEN f[k] ELSE Append(f[k], s[k + 1])
    BY <1>1, <1>2, <2>2 DEF KeptStep
  <2>4. CASE s[k + 1] \in gone
    BY <2>1, <2>3, <2>4
  <2>5. CASE s[k + 1] \notin gone
    <3> DEFINE a == f[k]   b == f[k + 1]   l == Len(f[k])
    <3>1. a \in Seq(T) /\ l \in Nat /\ l <= k
      BY <2>1
    <3>2. /\ b \in Seq(T) /\ Len(b) = l + 1 /\ b[l + 1] = s[k + 1]
          /\ \A i \in 1 .. l : b[i] = a[i]
      BY <2>2, <2>3, <2>5, <3>1, AppendProperties
    <3>3. \A i \in 1 .. l : \E j \in 1 .. k : a[i] = s[j] /\ s[j] \notin gone
      BY <2>1
    <3>4. \A j \in 1 .. k : s[j] \notin gone => \E i \in 1 .. l : a[i] = s[j]
      BY <2>1
    <3>5. IsInjective(s) => \A i, j \in 1 .. l : a[i] = a[j] => i = j
      BY <2>1
    <3>6. b \in Seq(T) /\ Len(b) = l + 1 /\ l + 1 <= k + 1
      BY <3>1, <3>2
    <3> HIDE DEF a, b, l
    <3>7. \A i \in 1 .. l + 1 : \E j \in 1 .. k + 1 : b[i] = s[j] /\ s[j] \notin gone
      <4>1. ASSUME NEW i \in 1 .. l + 1 PROVE \E j \in 1 .. k + 1 : b[i] = s[j] /\ s[j] \notin gone
        <5>1. CASE i = l + 1
          BY <2>2, <2>5, <3>2, <5>1
        <5>2. CASE i \in 1 .. l
          BY <3>2, <3>3, <5>2
        <5> QED BY <3>1, <5>1, <5>2
      <4> QED BY <4>1
    <3>8. \A j \in 1 .. k + 1 : s[j] \notin gone => \E i \in 1 .. l + 1 : b[i] = s[j]
      <4>1. ASSUME NEW j \in 1 .. k + 1, s[j] \notin gone PROVE \E i \in 1 .. l + 1 : b[i] = s[j]
        <5>1. CASE j = k + 1
          BY <3>1, <3>2, <5>1
        <5>2. CASE j \in 1 .. k
          <6>1. PICK i \in 1 .. l : a[i] = s[j]
            BY <3>4, <4>1, <5>2
          <6> QED BY <3>1, <3>2, <6>1
        <5> QED BY <5>1, <5>2
      <4> QED BY <4>1
    <3>9. ASSUME IsInjective(s) PROVE \A i, j \in 1 .. l + 1 : b[i] = b[j] => i = j
      <4>1. ASSUME NEW i \in 1 .. l PROVE b[i] # b[l + 1]
        <5>1. PICK j \in 1 .. k : a[i] = s[j]
          BY <3>3, <4>1
        <5>2. j \in DOMAIN s /\ k + 1 \in DOMAIN s /\ j # k + 1
          BY <1>1, <1>4 DEF n
        <5>3. s[j] # s[k + 1]
          BY <3>9, <5>2 DEF IsInjective
        <5> QED BY <3>2, <5>1, <5>3
      <4>2. \A i, j \in 1 .. l : b[i] = b[j] => i = j
        BY <3>2, <3>5, <3>9
      <4> QED BY <3>1, <4>1, <4>2
    <3> QED BY <3>6, <3>7, <3>8, <3>9 DEF b
  <2> QED BY <2>4, <2>5
<1>5. ASSUME NEW k \in Nat, k \in S PROVE k + 1 \in S
  BY <1>4, <1>5
<1>6. Good(n)
  <2> HIDE DEF S
  <2>1. n \in S
    BY <1>1, <1>3, <1>5, EveryNatural
  <2> HIDE DEF Good
  <2> QED BY <1>1, <2>1 DEF S
<1>7. Range(w) = Range(s) \ gone
  <2>1. DOMAIN w = 1 .. Len(w) /\ DOMAIN s = 1 .. n
    BY <1>1, <1>6 DEF n
  <2> DEFINE l == Len(w)
  <2>2. /\ \A i \in 1 .. l : \E j \in 1 .. n : w[i] = s[j] /\ s[j] \notin gone
        /\ \A j \in 1 .. n : s[j] \notin gone => \E i \in 1 .. l : w[i] = s[j]
    BY <1>1, <1>6
  <2>3. Range(w) = {w[i] : i \in 1 .. l} /\ Range(s) = {s[j] : j \in 1 .. n}
    BY <2>1 DEF Range
  <2> HIDE DEF l
  <2> QED BY <2>2, <2>3
<1>8. IsInjective(s) => IsInjective(w)
  <2>1. DOMAIN w = 1 .. Len(w)
    BY <1>1, <1>6
  <2> QED BY <1>1, <1>6, <2>1 DEF IsInjective
<1> QED BY <1>1, <1>6, <1>7, <1>8 DEF w, n

-----------------------------------------------------------------------------
(* The channel creations on the way.                                       *)

Pdus == [cmd : {"open", "close", "request"}, ch : Chans, inc : Nat, req : Nat]
Opens(f) == {i \in DOMAIN f : f[i].cmd = "open"}

\* There are finitely many.
LEMMA OpensFinite ==
    ASSUME NEW f \in Seq(Pdus)
    PROVE  IsFiniteSet(Opens(f)) /\ Cardinality(Opens(f)) \in Nat
<1>1. Len(f) \in Nat /\ DOMAIN f = 1 .. Len(f)
  OBVIOUS
<1>2. Opens(f) \in SUBSET (1 .. Len(f)) /\ IsFiniteSet(1 .. Len(f))
  BY <1>1, FS_Interval DEF Opens
<1>3. IsFiniteSet(Opens(f))
  BY <1>2, FS_Subset
<1> QED BY <1>3, FS_CardinalityType

\* One more PDU.
LEMMA OpensAppend ==
    ASSUME NEW f \in Seq(Pdus), NEW m \in Pdus
    PROVE  Cardinality(Opens(Append(f, m))) =
               Cardinality(Opens(f)) + (IF m.cmd = "open" THEN 1 ELSE 0)
<1> DEFINE n == Len(f)   g == Append(f, m)   O == Opens(f)
<1>1. n \in Nat /\ g \in Seq(Pdus) /\ Len(g) = n + 1 /\ g[n + 1] = m /\ \A i \in 1 .. n : g[i] = f[i]
  BY AppendProperties
<1>2. O = {i \in 1 .. n : f[i].cmd = "open"} /\ Opens(g) = {i \in 1 .. n + 1 : g[i].cmd = "open"}
  BY <1>1 DEF Opens
<1>3. IsFiniteSet(O) /\ Cardinality(O) \in Nat
  BY OpensFinite
<1> HIDE DEF n, g, O
<1>4. n + 1 \notin O
  BY <1>1, <1>2
<1>5. CASE m.cmd = "open"
  <2>1. Opens(g) = O \cup {n + 1}
    BY <1>1, <1>2, <1>5
  <2>2. Cardinality(O \cup {n + 1}) = Cardinality(O) + 1
    BY <1>3, <1>4, FS_AddElement
  <2> QED BY <1>5, <2>1, <2>2 DEF g, O
<1>6. CASE m.cmd # "open"
  <2>1. Opens(g) = O
    BY <1>1, <1>2, <1>6
  <2> QED BY <1>3, <1>6, <2>1 DEF g, O
<1> QED BY <1>5, <1>6

\* The first PDU is taken.
LEMMA OpensTail ==
    ASSUME NEW f \in Seq(Pdus), f # <<>>
    PROVE  Cardinality(Opens(f)) =
               Cardinality(Opens(Tail(f))) + (IF Head(f).cmd = "open" THEN 1 ELSE 0)
<1> DEFINE n == Len(f)   g == Tail(f)   O == Opens(f)   P == Opens(g)
<1>1. n \in Nat \ {0} /\ g \in Seq(Pdus) /\ Len(g) = n - 1 /\ \A i \in 1 .. n - 1 : g[i] = f[i + 1]
  BY HeadTailProperties
<1>2. O = {i \in 1 .. n : f[i].cmd = "open"} /\ P = {i \in 1 .. n - 1 : g[i].cmd = "open"}
  BY <1>1 DEF Opens
<1>3. IsFiniteSet(O) /\ IsFiniteSet(P) /\ Cardinality(P) \in Nat /\ Cardinality(O) \in Nat
  BY <1>1, OpensFinite
<1>4. Head(f) = f[1]
  OBVIOUS
<1> HIDE DEF n, g, O, P
<1> DEFINE R == O \ {1}   b == [i \in P |-> i + 1]
<1>5. b \in Bijection(P, R)
  <2>1. \A i \in P : i \in 1 .. n - 1 /\ g[i] = f[i + 1] /\ i + 1 \in 1 .. n /\ i + 1 # 1
    BY <1>1, <1>2
  <2>2. \A i \in P : i + 1 \in R
    BY <1>2, <2>1
  <2>3. \A j \in R : j - 1 \in P /\ (j - 1) + 1 = j
    BY <1>1, <1>2
  <2>4. b \in [P -> R]
    BY <2>2
  <2>5. \A i, j \in P : b[i] = b[j] => i = j
    BY <2>1
  <2>6. \A j \in R : \E i \in P : b[i] = j
    BY <2>3
  <2> HIDE DEF R, b
  <2> QED BY <2>4, <2>5, <2>6 DEF Bijection, Injection, Surjection, IsInjective
<1>6. Cardinality(R) = Cardinality(P)
  <2> HIDE DEF R, b
  <2> QED BY <1>3, <1>5, FS_Bijection DEF ExistsBijection
<1>7. Cardinality(R) = IF 1 \in O THEN Cardinality(O) - 1 ELSE Cardinality(O)
  BY <1>3, FS_RemoveElement
<1>8. 1 \in O <=> f[1].cmd = "open"
  BY <1>1, <1>2
<1> QED BY <1>3, <1>4, <1>6, <1>7, <1>8 DEF g, O, P

-----------------------------------------------------------------------------
(* The inductive invariant.                                                *)

Devices == [port : Ports, open : BOOLEAN, ch : Chans \cup {Nil}, on : BOOLEAN]
Requests == [dev : Nat, bulk : BOOLEAN, on : Nat, replies : Nat]

\* The types of what the user, the monitor and the handler's state machine keep.
MonitorTypes ==
    /\ state \in {"channelIn", "channelOut"} /\ monitorOn \in BOOLEAN /\ over \in BOOLEAN
    /\ plug \in [Ports -> Nat] /\ plugs \in Nat
    /\ mon \in [at : {"off", "wait", "scanned", "open"}, found : [Ports -> Nat],
                toAdd : SUBSET Ports, hand : Ports \cup {NoPort}]
    \* nothing is looked for before the control channel is open
    /\ state = "channelIn" => mon.at = "off" /\ mon.hand = NoPort

\* The tables.  A device is known by one port, and once it has a channel it keeps the ID.
TablesInv ==
    /\ dev \in Seq(Devices) /\ devices \in Seq(Nat) /\ pending \in Seq(Nat)
    /\ DOMAIN known \subseteq Ports /\ DOMAIN byChannel \subseteq Chans
    /\ \A p \in DOMAIN known :
          known[p] # Nil => known[p] \in DOMAIN dev /\ dev[known[p]].port = p
    /\ \A d \in DOMAIN dev : dev[d].on => dev[d].ch # Nil
    /\ \A c \in DOMAIN byChannel : byChannel[c] \in DOMAIN dev /\ dev[byChannel[c]].ch = c
    /\ Range(devices) \subseteq DOMAIN dev
    /\ state = "channelIn" => pending = <<>> /\ \A d \in DOMAIN dev : dev[d].ch = Nil
    /\ IsInjective(devices)
    /\ TablesAgree

\* An open channel of a device is the device's on both sides, until the server is told.
NetInv ==
    /\ srv \in [Chans -> [st : {"none", "opening", "open"}, inc : Nat, dev : Nat]]
    /\ chan \in [Chans -> Nat]
    /\ \A c \in Chans :
          /\ srv[c].dev # Nil => srv[c].dev \in DOMAIN dev
          /\ chan[c] <= srv[c].inc
          /\ srv[c].st = "opening" => chan[c] < srv[c].inc /\ srv[c].dev = Nil
          /\ srv[c].st = "open" /\ srv[c].dev # Nil =>
                /\ chan[c] = srv[c].inc /\ chan[c] # Nil
                /\ c \in DOMAIN byChannel /\ byChannel[c] = srv[c].dev
                /\ dev[srv[c].dev].on /\ (~over => dev[srv[c].dev].open)

\* Nothing of a channel follows its creation, and its end is not followed by its use.
FlightInv ==
    /\ flight \in Seq(Pdus)
    /\ \A i \in 1 .. Len(flight) :
          /\ flight[i].cmd = "open" =>
                /\ srv[flight[i].ch].st = "opening" /\ flight[i].inc = srv[flight[i].ch].inc
                /\ flight[i].inc # Nil
                /\ \A j \in i + 1 .. Len(flight) : flight[j].ch # flight[i].ch
          /\ flight[i].cmd = "close" => srv[flight[i].ch].st # "open"

\* Those that wait for a channel.
AskedInv == asks \in Nat /\ Len(pending) <= asks + Cardinality(Opens(flight))

\* The requests: on the way, in the loop, or in a goroutine.
RequestsInv ==
    /\ reqs \in Seq(Requests)
    /\ loop # Nil => loop \in 1 .. Len(reqs) /\ reqs[loop].on # Nil
    /\ IsFiniteSet(transfers) /\ Cardinality(transfers) <= SemCap
    /\ \A q \in transfers : q \in 1 .. Len(reqs) /\ reqs[q].on # Nil /\ q # loop
    /\ \A q \in 1 .. Len(reqs) :
          /\ reqs[q].on \in {Nil, reqs[q].dev}
          /\ reqs[q].replies = IF reqs[q].on = Nil \/ q = loop \/ q \in transfers THEN 0 ELSE 1

\* A request that is received goes to the device it was sent to, or to none.
OnTheWayInv ==
    /\ \A i \in 1 .. Len(flight) : flight[i].cmd = "request" =>
          /\ flight[i].req \in 1 .. Len(reqs) /\ reqs[flight[i].req].on = Nil
          /\ LET c == flight[i].ch IN
             chan[c] # Nil /\ c \in DOMAIN byChannel => byChannel[c] = reqs[flight[i].req].dev
    /\ \A i, j \in 1 .. Len(flight) :
          flight[i].cmd = "request" /\ flight[j].cmd = "request" /\ flight[i].req = flight[j].req
              => i = j

UsbInv == /\ MonitorTypes /\ TablesInv /\ NetInv
          /\ FlightInv /\ AskedInv /\ RequestsInv /\ OnTheWayInv

\* It holds at the start.
LEMMA UsbInit == Init => UsbInv
<1> SUFFICES ASSUME Init PROVE UsbInv
  OBVIOUS
<1> USE UsbAssumption DEF UsbAssumption, Nil, NoPort
<1>1. MonitorTypes
  <2> DEFINE f == [p \in Ports |-> Nil]
  <2>1. Waiting = [at |-> "wait", found |-> f, toAdd |-> {}, hand |-> NoPort]
    BY DEF Waiting
  <2>2. f \in [Ports -> Nat]
    OBVIOUS
  <2> HIDE DEF f
  <2>3. mon = [Waiting EXCEPT !.at = "off"] /\ state = "channelIn"
    BY DEF Init
  <2>4. mon = [at |-> "off", found |-> f, toAdd |-> {}, hand |-> NoPort]
    BY <2>1, <2>3
  <2>5. plug \in [Ports -> Nat] /\ plugs \in Nat
    BY DEF Init
  <2>6. mon \in [at : {"off", "wait", "scanned", "open"}, found : [Ports -> Nat],
                  toAdd : SUBSET Ports, hand : Ports \cup {NoPort}]
    BY <2>2, <2>4
  <2>7. mon.at = "off" /\ mon.hand = NoPort
    BY <2>4
  <2> QED BY <2>3, <2>5, <2>6, <2>7 DEF Init, MonitorTypes
<1>2. dev = <<>> /\ devices = <<>> /\ pending = <<>> /\ known = <<>> /\ byChannel = <<>> /\ ~over
      /\ \A s : DOMAIN s = {} => Range(s) = {}
  BY DEF Init, Range
<1>3. TablesInv
  <2>1. Range(<<>>) = {} /\ DOMAIN <<>> = {}
    BY <1>2
  <2>2. TablesAgree
    BY <1>2, <2>1 DEF TablesAgree, IsInjective
  <2>3. dev \in Seq(Devices) /\ devices \in Seq(Nat) /\ pending \in Seq(Nat)
    BY <1>2
  <2>4. IsInjective(devices)
    BY <1>2, <2>1 DEF IsInjective
  <2> QED BY <1>2, <2>1, <2>2, <2>3, <2>4 DEF TablesInv
<1>4. NetInv
  BY DEF Init, NetInv
<1>5. flight = <<>> /\ Len(flight) = 0 /\ flight \in Seq(Pdus)
  BY DEF Init
<1>6. FlightInv /\ OnTheWayInv
  BY <1>5 DEF FlightInv, OnTheWayInv
<1>7. AskedInv
  <2>1. Cardinality(Opens(flight)) \in Nat
    BY <1>5, OpensFinite
  <2> QED BY <1>2, <2>1 DEF Init, AskedInv
<1>8. RequestsInv
  <2>1. IsFiniteSet({}) /\ Cardinality({}) = 0
    BY FS_EmptySet
  <2> QED BY <2>1 DEF Init, RequestsInv
<1> QED BY <1>1, <1>3, <1>4, <1>6, <1>7, <1>8 DEF UsbInv

\* A part of the invariant is kept when nothing it speaks of changes.
LEMMA Frames ==
    ASSUME UsbInv
    PROVE  /\ UNCHANGED <<plug, plugs, state, monVars, over>> => MonitorTypes'
           /\ UNCHANGED <<tables, over, state>> => TablesInv'
           /\ UNCHANGED <<srv, chan, dev, byChannel, over>> => NetInv'
           /\ UNCHANGED <<flight, srv>> => FlightInv'
           /\ UNCHANGED <<asks, pending, flight>> => AskedInv'
           /\ UNCHANGED reqVars => RequestsInv'
           /\ UNCHANGED <<flight, reqs, chan, byChannel>> => OnTheWayInv'
<1>1. UNCHANGED <<plug, plugs, state, monVars, over>> => MonitorTypes'
  BY DEF UsbInv, MonitorTypes, monVars
<1>2. UNCHANGED <<tables, over, state>> => TablesInv'
  <2> SUFFICES ASSUME UNCHANGED <<tables, over, state>> PROVE TablesInv'
    OBVIOUS
  <2>1. UNCHANGED <<dev, devices, known, pending, byChannel, over, state>>
    BY DEF tables
  <2>2. TablesAgree'
    BY <2>1 DEF UsbInv, TablesInv, TablesAgree
  <2> QED BY <2>1, <2>2 DEF UsbInv, TablesInv
<1>3. UNCHANGED <<srv, chan, dev, byChannel, over>> => NetInv'
  BY DEF UsbInv, NetInv
<1>4. UNCHANGED <<flight, srv>> => FlightInv'
  BY DEF UsbInv, FlightInv
<1>5. UNCHANGED <<asks, pending, flight>> => AskedInv'
  BY DEF UsbInv, AskedInv, Opens
<1>6. UNCHANGED reqVars => RequestsInv'
  BY DEF UsbInv, RequestsInv, reqVars
<1>7. UNCHANGED <<flight, reqs, chan, byChannel>> => OnTheWayInv'
  BY DEF UsbInv, OnTheWayInv
<1> QED BY <1>1, <1>2, <1>3, <1>4, <1>5, <1>6, <1>7

\* The user, and the monitor's steps that touch no table.
LEMMA UsbQuietSteps ==
    ASSUME UsbInv,
           \/ \E p \in Ports : PlugIn(p) \/ Unplug(p) \/ Open(p)
           \/ Scan \/ PollEnds \/ MonitorExits
    PROVE  UsbInv'
<1>1. UNCHANGED <<state, tables, netVars, reqVars, over>>
  BY DEF PlugIn, Unplug, Open, Scan, PollEnds, MonitorExits
<1>2. UNCHANGED <<tables, dev, pending, byChannel, srv, flight, chan, asks, reqs>>
  BY <1>1 DEF tables, netVars, reqVars
<1>3. MonitorTypes
  BY DEF UsbInv
<1>4. ASSUME NEW p \in Ports, PlugIn(p) PROVE MonitorTypes'
  BY <1>3, <1>4 DEF PlugIn, MonitorTypes, monVars
<1>5. ASSUME NEW p \in Ports, Unplug(p) PROVE MonitorTypes'
  BY <1>3, <1>5 DEF Unplug, MonitorTypes, monVars, Nil
<1>6. ASSUME NEW p \in Ports, Open(p) PROVE MonitorTypes'
  <2>1. PICK h \in {NoPort, p} : mon' = [mon EXCEPT !.toAdd = @ \ {p}, !.hand = h]
    BY <1>6 DEF Open
  <2>2. /\ mon'.at = mon.at /\ mon' \in [at : {"off", "wait", "scanned", "open"}, found : [Ports -> Nat],
                                          toAdd : SUBSET Ports, hand : Ports \cup {NoPort}]
    BY <1>3, <2>1 DEF MonitorTypes
  <2>3. mon.at = "open"
    BY <1>6 DEF Open
  <2> QED BY <1>3, <1>6, <2>2, <2>3 DEF MonitorTypes, Open, portVars
<1>7. ASSUME Scan PROVE MonitorTypes'
  <2> DEFINE f == [p \in Ports |-> IF p \in Present THEN plug[p] ELSE Nil]
  <2>1. f \in [Ports -> Nat]
    BY <1>3 DEF MonitorTypes, Nil
  <2>2. mon.at = "wait" /\ mon' = [mon EXCEPT !.at = "scanned", !.found = f]
    BY <1>7 DEF Scan
  <2> HIDE DEF f
  <2>3. mon' \in [at : {"off", "wait", "scanned", "open"}, found : [Ports -> Nat],
                  toAdd : SUBSET Ports, hand : Ports \cup {NoPort}]
    BY <1>3, <2>1, <2>2 DEF MonitorTypes
  <2> QED BY <1>3, <1>7, <2>2, <2>3 DEF MonitorTypes, Scan, portVars
<1>8. ASSUME PollEnds \/ MonitorExits PROVE MonitorTypes'
  <2>1. mon.at \in {"open", "wait"} /\ mon' \in {Waiting, [mon EXCEPT !.at = "off"]}
    BY <1>8 DEF PollEnds, MonitorExits
  <2>2. mon' \in [at : {"off", "wait", "scanned", "open"}, found : [Ports -> Nat],
                  toAdd : SUBSET Ports, hand : Ports \cup {NoPort}]
    BY <1>3, <2>1 DEF MonitorTypes, Waiting, Nil
  <2>3. state # "channelIn"
    BY <1>3, <2>1 DEF MonitorTypes
  <2> QED BY <1>3, <1>8, <2>2, <2>3 DEF MonitorTypes, PollEnds, MonitorExits, portVars
<1>9. MonitorTypes'
  BY <1>4, <1>5, <1>6, <1>7, <1>8
<1> QED BY <1>1, <1>2, <1>9, Frames DEF UsbInv

\* What is on the way.
LEMMA FlightTypes ==
    ASSUME FlightInv
    PROVE  /\ flight \in Seq(Pdus) /\ Len(flight) \in Nat
           /\ \A i \in 1 .. Len(flight) : flight[i] \in Pdus /\ flight[i].ch \in Chans
<1>1. flight \in Seq(Pdus)
  BY DEF FlightInv
<1>2. \A i \in 1 .. Len(flight) : flight[i] \in Pdus
  BY <1>1
<1> QED BY <1>1, <1>2 DEF Pdus

\* One more device at the end of a sequence.
LEMMA RangeAppend ==
    ASSUME NEW T, NEW s \in Seq(T), NEW x \in T
    PROVE  /\ Range(Append(s, x)) = Range(s) \cup {x}
           /\ IsInjective(s) /\ x \notin Range(s) => IsInjective(Append(s, x))
<1> DEFINE n == Len(s)   t == Append(s, x)
<1>1. n \in Nat /\ DOMAIN s = 1 .. n /\ DOMAIN t = 1 .. n + 1 /\ t[n + 1] = x /\ \A i \in 1 .. n : t[i] = s[i]
  BY AppendProperties
<1> HIDE DEF n, t
<1>2. Range(t) = {t[i] : i \in 1 .. n + 1} /\ Range(s) = {s[i] : i \in 1 .. n}
  BY <1>1 DEF Range
<1>3. Range(t) = Range(s) \cup {x}
  BY <1>1, <1>2
<1>4. ASSUME IsInjective(s), x \notin Range(s) PROVE IsInjective(t)
  <2>1. \A i \in 1 .. n : t[i] # x
    BY <1>1, <1>2, <1>4
  <2>2. \A i, j \in 1 .. n : t[i] = t[j] => i = j
    BY <1>1, <1>4 DEF IsInjective
  <2>3. \A i \in 1 .. n + 1 : i = n + 1 \/ i \in 1 .. n
    BY <1>1
  <2> QED BY <1>1, <2>1, <2>2, <2>3 DEF IsInjective
<1> QED BY <1>3, <1>4 DEF t

\* A device is registered: the tables of AddDevice and of the monitor.
LEMMA UsbNewDevice ==
    ASSUME TablesInv, NEW p \in Ports, ~Known(p), NewDevice(p),
           \/ pending' = pending
           \/ state # "channelIn" /\ pending' = Append(pending, Newest + 1),
           UNCHANGED <<byChannel, over, state>>
    PROVE  /\ TablesInv' /\ DOMAIN dev \subseteq DOMAIN dev'
           /\ \A d \in DOMAIN dev : dev'[d] = dev[d]
<1> DEFINE n == Newest   e == [port |-> p, open |-> TRUE, ch |-> Nil, on |-> FALSE]
<1>1. /\ dev' = Append(dev, e) /\ devices' = Append(devices, n + 1)
      /\ known' = [z \in DOMAIN known \cup {p} |-> IF z = p THEN n + 1 ELSE known[z]]
      /\ p \notin DOMAIN known
  BY DEF NewDevice, SetEntry, Known
<1>2. e \in Devices /\ e.port = p /\ e.open /\ e.ch = Nil /\ ~e.on
  BY DEF Devices
<1>3. dev \in Seq(Devices) /\ devices \in Seq(Nat) /\ pending \in Seq(Nat) /\ n \in Nat
      /\ n = Len(dev) /\ DOMAIN dev = 1 .. n
  BY DEF TablesInv, Newest
<1> HIDE DEF n, e
<1>4. /\ dev' \in Seq(Devices) /\ DOMAIN dev' = 1 .. n + 1 /\ dev'[n + 1] = e
      /\ \A d \in 1 .. n : dev'[d] = dev[d]
  BY <1>1, <1>2, <1>3, AppendProperties
<1>5. n + 1 \in Nat /\ n + 1 \notin DOMAIN dev /\ n + 1 # Nil
  BY <1>3 DEF Nil
<1>6. /\ Range(devices) \subseteq DOMAIN dev /\ IsInjective(devices)
      /\ Range(pending) \subseteq Range(devices) /\ IsInjective(pending)
      /\ \A d \in Range(pending) : dev[d].ch = Nil
      /\ Range(devices) = Range(known) \ {Nil}
      /\ (~over => Range(devices) = {d \in DOMAIN dev : dev[d].open})
  BY DEF TablesInv, TablesAgree
<1>7. /\ devices' \in Seq(Nat) /\ Range(devices') = Range(devices) \cup {n + 1}
      /\ IsInjective(devices')
  BY <1>1, <1>3, <1>5, <1>6, RangeAppend, AppendProperties
<1>8. /\ pending' \in Seq(Nat) /\ IsInjective(pending')
      /\ Range(pending') \subseteq Range(pending) \cup {n + 1}
  <2>1. CASE pending' = pending
    BY <1>3, <1>6, <2>1
  <2>2. CASE pending' = Append(pending, n + 1)
    BY <1>3, <1>5, <1>6, <2>2, RangeAppend, AppendProperties
  <2> QED BY <2>1, <2>2 DEF n
<1>9. Range(known') = Range(known) \cup {n + 1}
  BY <1>1 DEF Range
<1>10. ~over => Range(devices') = {d \in DOMAIN dev' : dev'[d].open}
  <2>1. ASSUME ~over PROVE {d \in 1 .. n + 1 : dev'[d].open} = {d \in 1 .. n : dev[d].open} \cup {n + 1}
    BY <1>2, <1>3, <1>4
  <2>2. {d \in DOMAIN dev' : dev'[d].open} = {d \in 1 .. n + 1 : dev'[d].open}
    BY <1>4
  <2>3. ~over => Range(devices) = {d \in 1 .. n : dev[d].open}
    BY <1>3, <1>6
  <2>4. Range(devices') = Range(devices) \cup {n + 1}
    BY <1>7
  <2> QED BY <2>1, <2>2, <2>3, <2>4
<1>11. \A d \in Range(pending') : dev'[d].ch = Nil
  BY <1>2, <1>3, <1>4, <1>6, <1>8
<1>12. TablesAgree'
  <2>1. Range(devices') = Range(known') \ {Nil}
    <3>1. Range(devices) = Range(known) \ {Nil}
      BY <1>6
    <3>2. Range(devices') = Range(devices) \cup {n + 1} /\ n + 1 # Nil
      BY <1>5, <1>7
    <3> QED BY <1>9, <3>1, <3>2
  <2>2. Range(pending') \subseteq Range(devices')
    BY <1>6, <1>7, <1>8
  <2>3. over' = over
    OBVIOUS
  <2> QED BY <1>8, <1>10, <1>11, <2>1, <2>2, <2>3 DEF TablesAgree
<1>13. DOMAIN known' \subseteq Ports /\
       \A z \in DOMAIN known' :
           known'[z] # Nil => known'[z] \in DOMAIN dev' /\ dev'[known'[z]].port = z
  <2>1. \A z \in DOMAIN known : known[z] # Nil => known[z] \in 1 .. n /\ dev[known[z]].port = z
    BY <1>3 DEF TablesInv
  <2>2. DOMAIN known \subseteq Ports
    BY DEF TablesInv
  <2> QED BY <1>1, <1>2, <1>3, <1>4, <2>1, <2>2
<1>14. \A d \in DOMAIN dev' : dev'[d].on => dev'[d].ch # Nil
  <2>1. \A d \in 1 .. n : dev[d].on => dev[d].ch # Nil
    BY <1>3 DEF TablesInv
  <2>2. \A d \in 1 .. n + 1 : d = n + 1 \/ d \in 1 .. n
    BY <1>3
  <2> QED BY <1>2, <1>3, <1>4, <2>1, <2>2
<1>15. DOMAIN byChannel' \subseteq Chans /\
       \A c \in DOMAIN byChannel' : byChannel'[c] \in DOMAIN dev' /\ dev'[byChannel'[c]].ch = c
  BY <1>3, <1>4 DEF TablesInv
<1>16. Range(devices') \subseteq DOMAIN dev'
  BY <1>3, <1>4, <1>6, <1>7
<1>17. state' = "channelIn" => pending' = <<>> /\ \A d \in DOMAIN dev' : dev'[d].ch = Nil
  <2>1. state = "channelIn" => pending = <<>> /\ \A d \in 1 .. n : dev[d].ch = Nil
    BY <1>3 DEF TablesInv
  <2>2. \A d \in 1 .. n + 1 : d = n + 1 \/ d \in 1 .. n
    BY <1>3
  <2> QED BY <1>2, <1>4, <2>1, <2>2
<1> QED BY <1>3, <1>4, <1>7, <1>8, <1>12, <1>13, <1>14, <1>15, <1>16, <1>17 DEF TablesInv

\* The channels do not notice it.
LEMMA UsbNetGrows ==
    ASSUME NetInv, DOMAIN dev \subseteq DOMAIN dev', \A d \in DOMAIN dev : dev'[d] = dev[d],
           UNCHANGED <<srv, chan, byChannel, over>>
    PROVE  NetInv'
BY DEF NetInv

\* Connect opens a device.
LEMMA UsbAddDevice ==
    ASSUME UsbInv, NEW p \in Ports, AddDevice(p)
    PROVE  UsbInv'
<1>1. /\ ~Known(p) /\ NewDevice(p) /\ pending' = pending
      /\ UNCHANGED <<byChannel, over, state, plug, plugs, monVars, srv, chan, flight, asks, reqs>>
      /\ UNCHANGED reqVars
  BY DEF AddDevice, portVars, netVars, reqVars
<1>2. TablesInv' /\ NetInv'
  BY <1>1, UsbNewDevice, UsbNetGrows DEF UsbInv
<1> QED BY <1>1, <1>2, Frames DEF UsbInv

\* The monitor registers the device it has opened.
LEMMA UsbRegister ==
    ASSUME UsbInv, Register
    PROVE  UsbInv'
<1> DEFINE p == mon.hand
<1>1. /\ p # NoPort /\ mon' = [mon EXCEPT !.hand = NoPort]
      /\ UNCHANGED <<over, state, plug, plugs, monitorOn, srv, chan, flight, byChannel, reqs>>
      /\ UNCHANGED reqVars
  BY DEF Register, portVars, reqVars, tables
<1>2. MonitorTypes
  BY DEF UsbInv
<1>3. p \in Ports /\ state # "channelIn"
  BY <1>1, <1>2 DEF MonitorTypes
<1>4. MonitorTypes'
  <2>1. mon' \in [at : {"off", "wait", "scanned", "open"}, found : [Ports -> Nat],
                  toAdd : SUBSET Ports, hand : Ports \cup {NoPort}]
    BY <1>1, <1>2 DEF MonitorTypes
  <2> QED BY <1>1, <1>2, <1>3, <2>1 DEF MonitorTypes
<1> HIDE DEF p
<1>5. FlightInv' /\ RequestsInv' /\ OnTheWayInv'
  BY <1>1, Frames
<1>6. CASE Known(p)
  <2>1. UNCHANGED tables /\ UNCHANGED asks
    BY <1>6 DEF Register, p
  <2>2. UNCHANGED <<dev, pending>>
    BY <2>1 DEF tables
  <2> QED BY <1>1, <1>4, <1>5, <2>1, <2>2, Frames DEF UsbInv
<1>7. CASE ~Known(p)
  <2>1. NewDevice(p) /\ pending' = Append(pending, Newest + 1) /\ asks' = asks + 1
    BY <1>7 DEF Register, p
  <2>2. TablesInv' /\ NetInv'
    BY <1>1, <1>3, <1>7, <2>1, UsbNewDevice, UsbNetGrows DEF UsbInv
  <2>3. AskedInv'
    <3>1. /\ Len(pending') = Len(pending) + 1 /\ Len(pending) \in Nat /\ asks \in Nat
          /\ Len(pending) <= asks + Cardinality(Opens(flight))
      BY <2>1 DEF UsbInv, TablesInv, AskedInv
    <3>2. Cardinality(Opens(flight)) \in Nat /\ Cardinality(Opens(flight))' = Cardinality(Opens(flight))
      BY <1>1, OpensFinite DEF UsbInv, FlightInv
    <3> QED BY <2>1, <3>1, <3>2 DEF AskedInv
  <2> QED BY <1>4, <1>5, <2>2, <2>3 DEF UsbInv
<1> QED BY <1>6, <1>7

\* The control channel is ready: every device waits for a channel.
LEMMA UsbControlRelease ==
    ASSUME UsbInv, ControlRelease
    PROVE  UsbInv'
<1>1. /\ state = "channelIn" /\ state' = "channelOut" /\ pending' = pending \o devices
      /\ asks' = Len(devices)
      /\ UNCHANGED <<plug, plugs, dev, devices, byChannel, srv, flight, chan, over, reqs>>
      /\ UNCHANGED reqVars
  BY DEF ControlRelease, Announced, portVars, reqVars
<1>2. MonitorTypes /\ TablesInv /\ TablesAgree
  BY DEF UsbInv, TablesInv
<1>3. pending' = devices /\ devices \in Seq(Nat) /\ \A d \in DOMAIN dev : dev[d].ch = Nil
  <2>1. pending = <<>> /\ devices \in Seq(Nat)
    BY <1>1, <1>2 DEF TablesInv
  <2>2. pending \o devices = devices
    BY <2>1, ConcatEmptySeq
  <2> QED BY <1>1, <1>2, <2>1, <2>2 DEF TablesInv
<1>4. \/ UNCHANGED known /\ UNCHANGED monVars
      \/ /\ known' = [p \in DOMAIN known \cup Present |-> IF Known(p) THEN known[p] ELSE Nil]
         /\ monitorOn' = TRUE /\ mon' = Waiting
  BY DEF ControlRelease
<1>5. MonitorTypes'
  <2>1. mon' \in [at : {"off", "wait", "scanned", "open"}, found : [Ports -> Nat],
                  toAdd : SUBSET Ports, hand : Ports \cup {NoPort}]
    <3>1. CASE mon' = Waiting
      BY <3>1 DEF Waiting, Nil
    <3>2. CASE mon' = mon
      BY <1>2, <3>2 DEF MonitorTypes
    <3> QED BY <1>4, <3>1, <3>2 DEF monVars
  <2>2. monitorOn' \in BOOLEAN
    BY <1>2, <1>4 DEF monVars, MonitorTypes
  <2> QED BY <1>1, <1>2, <2>1, <2>2 DEF MonitorTypes
<1>6. /\ DOMAIN known' \subseteq Ports
      /\ \A p \in DOMAIN known' : known'[p] # Nil => p \in DOMAIN known /\ known'[p] = known[p]
      /\ \A p \in DOMAIN known : p \in DOMAIN known' /\ known'[p] = known[p]
  <2>1. DOMAIN known \subseteq Ports /\ Present \subseteq Ports
    BY <1>2, UsbAssumption DEF TablesInv, Present, UsbAssumption
  <2> QED BY <1>4, <2>1 DEF Known
<1>7. Range(known') \ {Nil} = Range(known) \ {Nil}
  BY <1>6 DEF Range
<1>8. TablesAgree'
  <2>1. Range(pending') \subseteq Range(devices') /\ IsInjective(pending')
    BY <1>1, <1>2, <1>3 DEF TablesInv
  <2>2. \A d \in Range(pending') : dev'[d].ch = Nil
    BY <1>1, <1>2, <1>3 DEF TablesInv
  <2>3. Range(devices') = Range(known') \ {Nil}
    BY <1>1, <1>2, <1>7 DEF TablesAgree
  <2>4. ~over' => Range(devices') = {d \in DOMAIN dev' : dev'[d].open}
    BY <1>1, <1>2 DEF TablesAgree
  <2> QED BY <2>1, <2>2, <2>3, <2>4 DEF TablesAgree
<1>9. TablesInv'
  <2>1. \A p \in DOMAIN known' : known'[p] # Nil => known'[p] \in DOMAIN dev' /\ dev'[known'[p]].port = p
    BY <1>1, <1>2, <1>6 DEF TablesInv
  <2> QED BY <1>1, <1>2, <1>3, <1>6, <1>8, <2>1 DEF TablesInv
<1>10. AskedInv'
  <2>1. Cardinality(Opens(flight)) \in Nat /\ Cardinality(Opens(flight))' = Cardinality(Opens(flight))
    BY <1>1, OpensFinite DEF UsbInv, FlightInv
  <2>2. Len(pending') = asks' /\ asks' \in Nat
    BY <1>1, <1>3
  <2> QED BY <2>1, <2>2 DEF AskedInv
<1> QED BY <1>1, <1>5, <1>9, <1>10, Frames DEF UsbInv

\* The monitor finds devices gone: they are closed, leave the tables, and their channels
\* are closed on both sides.
LEMMA UsbDiff ==
    ASSUME UsbInv, Diff
    PROVE  UsbInv'
<1> DEFINE G == Gone   C == Closing(Gone)   n == Len(dev)
<1>1. /\ mon.at = "scanned" /\ known' = Restrict(known, DOMAIN known \ GonePorts)
      /\ dev' = [d \in DOMAIN dev |-> IF d \in G THEN [dev[d] EXCEPT !.open = FALSE] ELSE dev[d]]
      /\ devices' = Without(devices, G) /\ pending' = Without(pending, G)
      /\ byChannel' = Restrict(byChannel, DOMAIN byChannel \ C)
      /\ chan' = [c \in Chans |-> IF c \in C THEN Nil ELSE chan[c]]
      /\ srv' = [c \in Chans |-> IF c \in C /\ srv[c].inc = chan[c]
                                 THEN [srv[c] EXCEPT !.st = "none"] ELSE srv[c]]
      /\ mon' = [mon EXCEPT !.at = "open",
                            !.toAdd = {p \in Ports : mon.found[p] # Nil /\ ~Known(p)}]
      /\ UNCHANGED <<plug, plugs, state, monitorOn, asks, flight, over, reqs>>
      /\ UNCHANGED reqVars
  BY DEF Diff, StillPending, portVars, reqVars
<1>2. /\ G = {known[p] : p \in GonePorts} \ {Nil} /\ GonePorts \subseteq DOMAIN known
      /\ \A d \in G : d \in DOMAIN dev => (dev[d].on => dev[d].ch \in C)
  BY DEF Gone, GonePorts, Closing
<1> HIDE DEF G, C
<1>3. MonitorTypes /\ TablesInv /\ TablesAgree /\ NetInv /\ FlightInv /\ AskedInv /\ OnTheWayInv
  BY DEF UsbInv, TablesInv
<1>4. MonitorTypes'
  <2> DEFINE a == {p \in Ports : mon.found[p] # Nil /\ ~Known(p)}
  <2>1. mon' = [mon EXCEPT !.at = "open", !.toAdd = a] /\ a \in SUBSET Ports
    BY <1>1
  <2> HIDE DEF a
  <2>2. mon' \in [at : {"off", "wait", "scanned", "open"}, found : [Ports -> Nat],
                  toAdd : SUBSET Ports, hand : Ports \cup {NoPort}]
    BY <1>3, <2>1 DEF MonitorTypes
  <2>3. state # "channelIn"
    BY <1>1, <1>3 DEF MonitorTypes
  <2> QED BY <1>1, <1>3, <2>2, <2>3 DEF MonitorTypes
<1>5. n \in Nat /\ DOMAIN dev = 1 .. n /\ dev \in Seq(Devices)
  BY <1>3 DEF TablesInv
<1> HIDE DEF n
<1>6. /\ DOMAIN dev' = DOMAIN dev /\ dev' \in Seq(Devices)
      /\ \A d \in DOMAIN dev : /\ dev'[d].port = dev[d].port /\ dev'[d].ch = dev[d].ch
                               /\ dev'[d].on = dev[d].on
                               /\ dev'[d].open = (dev[d].open /\ d \notin G)
  <2>1. \A d \in 1 .. n : dev[d] \in Devices
    BY <1>5 DEF n
  <2>2. \A d \in 1 .. n : dev'[d] = IF d \in G THEN [dev[d] EXCEPT !.open = FALSE] ELSE dev[d]
    BY <1>1, <1>5
  <2>3. ASSUME NEW d \in 1 .. n
        PROVE  /\ dev'[d] \in Devices /\ dev'[d].port = dev[d].port /\ dev'[d].ch = dev[d].ch
               /\ dev'[d].on = dev[d].on /\ dev'[d].open = (dev[d].open /\ d \notin G)
    <3>1. dev[d] \in Devices
      BY <2>1
    <3>2. CASE d \in G
      <4>1. dev'[d] = [dev[d] EXCEPT !.open = FALSE]
        BY <2>2, <3>2
      <4> QED BY <3>1, <3>2, <4>1 DEF Devices
    <3>3. CASE d \notin G
      <4>1. dev'[d] = dev[d]
        BY <2>2, <3>3
      <4>2. dev[d].open \in BOOLEAN
        BY <3>1 DEF Devices
      <4> QED BY <3>1, <3>3, <4>1, <4>2
    <3> QED BY <3>2, <3>3
  <2>4. dev' = [d \in 1 .. n |-> dev'[d]]
    BY <1>1, <1>5
  <2>5. dev' \in Seq(Devices)
    BY <1>5, <2>3, <2>4
  <2>6. DOMAIN dev' = 1 .. n
    BY <2>4
  <2> QED BY <1>5, <2>3, <2>5, <2>6
<1>7. /\ devices' \in Seq(Nat) /\ Range(devices') = Range(devices) \ G /\ IsInjective(devices')
      /\ pending' \in Seq(Nat) /\ Range(pending') = Range(pending) \ G /\ IsInjective(pending')
      /\ Len(pending') <= Len(pending)
  BY <1>1, <1>3, WithoutProperties DEF TablesInv, TablesAgree
<1>8. /\ DOMAIN known' = DOMAIN known \ GonePorts
      /\ \A p \in DOMAIN known' : known'[p] = known[p]
      /\ DOMAIN byChannel' = DOMAIN byChannel \ C
      /\ \A c \in DOMAIN byChannel' : byChannel'[c] = byChannel[c]
  BY <1>1 DEF Restrict
<1>9. Range(known') \ {Nil} = (Range(known) \ {Nil}) \ G
  <2>1. ASSUME NEW p \in DOMAIN known, p \notin GonePorts, known[p] # Nil PROVE known[p] \notin G
    <3>1. SUFFICES ASSUME NEW q \in GonePorts, known[q] = known[p] PROVE FALSE
      BY <1>2
    <3>2. dev[known[p]].port = p /\ dev[known[q]].port = q
      BY <1>2, <1>3, <2>1, <3>1 DEF TablesInv
    <3> QED BY <2>1, <3>1, <3>2
  <2>2. \A p \in GonePorts : known[p] # Nil => known[p] \in G
    BY <1>2
  <2>3. Range(known') = {known[p] : p \in DOMAIN known \ GonePorts}
    BY <1>8 DEF Range
  <2>4. Range(known) = {known[p] : p \in DOMAIN known}
    BY DEF Range
  <2> QED BY <2>1, <2>2, <2>3, <2>4
<1>10. TablesAgree'
  <2>1. Range(devices) = Range(known) \ {Nil} /\ Range(pending) \subseteq Range(devices)
        /\ (\A d \in Range(pending) : dev[d].ch = Nil) /\ Range(devices) \subseteq DOMAIN dev
    BY <1>3 DEF TablesAgree, TablesInv
  <2>2. Range(devices') = Range(known') \ {Nil} /\ Range(pending') \subseteq Range(devices')
    BY <1>7, <1>9, <2>1
  <2>3. \A d \in Range(pending') : dev'[d].ch = Nil
    BY <1>6, <1>7, <2>1
  <2>4. ASSUME ~over PROVE Range(devices') = {d \in DOMAIN dev' : dev'[d].open}
    <3>1. Range(devices) = {d \in DOMAIN dev : dev[d].open}
      BY <1>3, <2>4 DEF TablesAgree
    <3>2. {d \in DOMAIN dev' : dev'[d].open} = {d \in DOMAIN dev : dev[d].open} \ G
      BY <1>6
    <3> QED BY <1>7, <3>1, <3>2
  <2> QED BY <1>1, <1>7, <2>2, <2>3, <2>4 DEF TablesAgree
<1>11. TablesInv'
  <2>1. DOMAIN known' \subseteq Ports /\ DOMAIN byChannel' \subseteq Chans
    BY <1>3, <1>8 DEF TablesInv
  <2>2. ASSUME NEW p \in DOMAIN known', known'[p] # Nil
        PROVE  known'[p] \in DOMAIN dev' /\ dev'[known'[p]].port = p
    <3>1. p \in DOMAIN known /\ known'[p] = known[p]
      BY <1>8
    <3>2. known[p] \in DOMAIN dev /\ dev[known[p]].port = p
      BY <1>3, <2>2, <3>1 DEF TablesInv
    <3> QED BY <1>6, <3>1, <3>2
  <2>3. ASSUME NEW d \in DOMAIN dev', dev'[d].on PROVE dev'[d].ch # Nil
    <3>1. d \in DOMAIN dev /\ dev'[d].on = dev[d].on /\ dev'[d].ch = dev[d].ch
      BY <1>6
    <3> QED BY <1>3, <2>3, <3>1 DEF TablesInv
  <2>4. ASSUME NEW c \in DOMAIN byChannel'
        PROVE  byChannel'[c] \in DOMAIN dev' /\ dev'[byChannel'[c]].ch = c
    <3>1. c \in DOMAIN byChannel /\ byChannel'[c] = byChannel[c]
      BY <1>8
    <3>2. byChannel[c] \in DOMAIN dev /\ dev[byChannel[c]].ch = c
      BY <1>3, <3>1 DEF TablesInv
    <3> QED BY <1>6, <3>1, <3>2
  <2>5. Range(devices') \subseteq DOMAIN dev'
    BY <1>3, <1>6, <1>7 DEF TablesInv
  <2>6. state' # "channelIn"
    BY <1>1, <1>3 DEF MonitorTypes
  <2> QED BY <1>6, <1>7, <1>10, <2>1, <2>2, <2>3, <2>4, <2>5, <2>6 DEF TablesInv
<1>12. \A c \in Chans :
          /\ srv'[c].inc = srv[c].inc /\ srv'[c].dev = srv[c].dev
          /\ srv'[c].st = IF c \in C /\ srv[c].inc = chan[c] THEN "none" ELSE srv[c].st
          /\ chan'[c] = IF c \in C THEN Nil ELSE chan[c]
  BY <1>1, <1>3 DEF NetInv
<1>13. srv' \in [Chans -> [st : {"none", "opening", "open"}, inc : Nat, dev : Nat]]
       /\ chan' \in [Chans -> Nat]
  BY <1>1, <1>3 DEF NetInv, Nil
<1>14. NetInv'
  <2>1. ASSUME NEW c \in Chans
        PROVE  /\ srv'[c].dev # Nil => srv'[c].dev \in DOMAIN dev'
               /\ chan'[c] <= srv'[c].inc
               /\ srv'[c].st = "opening" => chan'[c] < srv'[c].inc /\ srv'[c].dev = Nil
               /\ srv'[c].st = "open" /\ srv'[c].dev # Nil =>
                     /\ chan'[c] = srv'[c].inc /\ chan'[c] # Nil
                     /\ c \in DOMAIN byChannel' /\ byChannel'[c] = srv'[c].dev
                     /\ dev'[srv'[c].dev].on /\ (~over' => dev'[srv'[c].dev].open)
    <3>1. srv[c].inc \in Nat /\ chan[c] \in Nat
      BY <1>3 DEF NetInv
    <3>2. /\ srv[c].dev # Nil => srv[c].dev \in DOMAIN dev
          /\ chan[c] <= srv[c].inc
          /\ srv[c].st = "opening" => chan[c] < srv[c].inc /\ srv[c].dev = Nil
          /\ srv[c].st = "open" /\ srv[c].dev # Nil =>
                /\ chan[c] = srv[c].inc /\ chan[c] # Nil
                /\ c \in DOMAIN byChannel /\ byChannel[c] = srv[c].dev
                /\ dev[srv[c].dev].on /\ (~over => dev[srv[c].dev].open)
      BY <1>3 DEF NetInv
    <3>3. /\ srv'[c].dev # Nil => srv'[c].dev \in DOMAIN dev'
          /\ chan'[c] <= srv'[c].inc
          /\ srv'[c].st = "opening" => chan'[c] < srv'[c].inc /\ srv'[c].dev = Nil
      BY <1>6, <1>12, <3>1, <3>2 DEF Nil
    <3>4. ASSUME srv'[c].st = "open", srv'[c].dev # Nil
          PROVE  /\ chan'[c] = srv'[c].inc /\ chan'[c] # Nil
                 /\ c \in DOMAIN byChannel' /\ byChannel'[c] = srv'[c].dev
                 /\ dev'[srv'[c].dev].on /\ (~over' => dev'[srv'[c].dev].open)
      <4> DEFINE d == srv[c].dev
      <4>1. /\ c \notin C /\ srv[c].st = "open" /\ d # Nil /\ srv'[c].dev = d
            /\ chan[c] = srv[c].inc /\ chan[c] # Nil
            /\ c \in DOMAIN byChannel /\ byChannel[c] = d /\ d \in DOMAIN dev
            /\ dev[d].on /\ (~over => dev[d].open)
        BY <1>12, <3>2, <3>4
      <4> HIDE DEF d
      <4>2. dev[d].ch = c
        BY <1>3, <4>1 DEF TablesInv
      <4>3. d \notin G
        BY <1>2, <4>1, <4>2
      <4>4. chan'[c] = chan[c] /\ srv'[c].inc = srv[c].inc
        BY <1>12, <4>1
      <4>5. c \in DOMAIN byChannel' /\ byChannel'[c] = d
        BY <1>8, <4>1
      <4>6. dev'[d].on /\ (~over => dev'[d].open)
        BY <1>6, <4>1, <4>3
      <4> QED BY <1>1, <4>1, <4>4, <4>5, <4>6
    <3> QED BY <3>3, <3>4
  <2> QED BY <1>13, <2>1 DEF NetInv
<1>15. FlightInv'
  <2>1. \A c \in Chans : srv[c].st = "opening" => srv'[c].st = "opening"
    <3>1. \A c \in Chans : srv[c].st = "opening" => srv[c].inc # chan[c]
      BY <1>3 DEF NetInv
    <3> QED BY <1>12, <3>1
  <2>2. \A c \in Chans : srv[c].st # "open" => srv'[c].st # "open"
    BY <1>12
  <2>3. \A i \in 1 .. Len(flight) : flight[i].ch \in Chans
    BY <1>3, FlightTypes
  <2> QED BY <1>1, <1>3, <1>12, <2>1, <2>2, <2>3 DEF FlightInv
<1>16. AskedInv'
  <2>1. Cardinality(Opens(flight)) \in Nat /\ Cardinality(Opens(flight))' = Cardinality(Opens(flight))
    BY <1>1, <1>3, OpensFinite DEF FlightInv
  <2>2. Len(pending) \in Nat /\ Len(pending') \in Nat
    BY <1>3, <1>7 DEF TablesInv
  <2> QED BY <1>1, <1>3, <1>7, <2>1, <2>2 DEF AskedInv
<1>17. OnTheWayInv'
  <2>1. \A i \in 1 .. Len(flight) : flight[i].ch \in Chans
    BY <1>3, FlightTypes
  <2>2. \A c \in Chans : chan'[c] # Nil => chan[c] # Nil
    BY <1>12
  <2> QED BY <1>1, <1>3, <1>8, <2>1, <2>2 DEF OnTheWayInv
<1> QED BY <1>1, <1>4, <1>11, <1>14, <1>15, <1>16, <1>17, Frames DEF UsbInv

\* The server creates a channel it was asked for.
LEMMA UsbServerOpens ==
    ASSUME UsbInv, NEW c \in Chans, ServerOpens(c)
    PROVE  UsbInv'
<1> DEFINE n == Len(flight)   k == srv[c].inc + 1
           r == [st |-> "opening", inc |-> k, dev |-> Nil]
           m == [cmd |-> "open", ch |-> c, inc |-> k, req |-> Nil]
<1>1. NetInv /\ FlightInv /\ AskedInv /\ OnTheWayInv /\ TablesInv
  BY DEF UsbInv
<1>2. /\ asks > 0 /\ srv[c].st = "none" /\ asks' = asks - 1 /\ srv' = [srv EXCEPT ![c] = r]
      /\ UNCHANGED <<plug, plugs, state, tables, monVars, chan, reqs, over, dev, pending, byChannel>>
      /\ UNCHANGED reqVars
  BY DEF ServerOpens, portVars, reqVars, tables
<1>3. srv \in [Chans -> [st : {"none", "opening", "open"}, inc : Nat, dev : Nat]]
      /\ k \in Nat \ {0} /\ k = srv[c].inc + 1 /\ srv[c].inc \in Nat
  BY <1>1 DEF NetInv
<1>4. flight' = Append(flight, m) /\ m \in Pdus /\ m.cmd = "open" /\ m.ch = c /\ m.inc = k
  <2>1. srv'[c] = r
    BY <1>2, <1>3
  <2> QED BY <1>3, <2>1 DEF ServerOpens, Pdu, Pdus, Nil
<1>5. /\ srv' \in [Chans -> [st : {"none", "opening", "open"}, inc : Nat, dev : Nat]]
      /\ srv'[c].st = "opening" /\ srv'[c].inc = k /\ srv'[c].dev = Nil
      /\ \A e \in Chans \ {c} : srv'[e] = srv[e]
  BY <1>2, <1>3 DEF Nil
<1> HIDE DEF n, k, r, m
<1>6. flight \in Seq(Pdus) /\ n \in Nat /\ \A i \in 1 .. n : flight[i].ch \in Chans
  BY <1>1, FlightTypes DEF n
<1>7. /\ flight' \in Seq(Pdus) /\ Len(flight') = n + 1 /\ flight'[n + 1] = m
      /\ \A i \in 1 .. n : flight'[i] = flight[i]
  BY <1>4, <1>6, AppendProperties DEF n
<1>8. NetInv'
  <2>1. chan[c] \in Nat /\ chan[c] < k
    BY <1>1, <1>3 DEF NetInv
  <2> QED BY <1>1, <1>2, <1>5, <2>1 DEF NetInv
<1>9. FlightInv'
  <2>1. \A i \in 1 .. n : flight[i].cmd = "open" =>
            /\ flight[i].ch # c
            /\ srv[flight[i].ch].st = "opening" /\ flight[i].inc = srv[flight[i].ch].inc
            /\ flight[i].inc # Nil
            /\ \A j \in i + 1 .. n : flight[j].ch # flight[i].ch
    BY <1>1, <1>2 DEF FlightInv, n
  <2>2. \A i \in 1 .. n : flight[i].cmd = "close" => srv[flight[i].ch].st # "open"
    BY <1>1 DEF FlightInv, n
  <2>3. ASSUME NEW i \in 1 .. n
        PROVE  /\ flight'[i].cmd = "open" =>
                     /\ srv'[flight'[i].ch].st = "opening" /\ flight'[i].inc = srv'[flight'[i].ch].inc
                     /\ flight'[i].inc # Nil
                     /\ \A j \in i + 1 .. n + 1 : flight'[j].ch # flight'[i].ch
               /\ flight'[i].cmd = "close" => srv'[flight'[i].ch].st # "open"
    <3>1. \A j \in i + 1 .. n + 1 : j = n + 1 \/ (j \in i + 1 .. n /\ j \in 1 .. n)
      BY <1>6
    <3>2. flight'[i] = flight[i] /\ flight[i].ch \in Chans
      BY <1>6, <1>7
    <3>3. ASSUME flight[i].cmd = "open"
          PROVE  /\ srv'[flight[i].ch].st = "opening" /\ flight[i].inc = srv'[flight[i].ch].inc
                 /\ \A j \in i + 1 .. n + 1 : flight'[j].ch # flight[i].ch
      <4>1. flight[i].ch # c /\ srv'[flight[i].ch] = srv[flight[i].ch]
        BY <1>5, <2>1, <3>2, <3>3
      <4>2. \A j \in i + 1 .. n : flight'[j].ch # flight[i].ch
        BY <1>7, <2>1, <3>1, <3>3
      <4>3. flight'[n + 1].ch # flight[i].ch
        BY <1>4, <1>7, <4>1
      <4> QED BY <2>1, <3>1, <3>3, <4>1, <4>2, <4>3
    <3>4. flight[i].cmd = "close" => srv'[flight[i].ch].st # "open"
      BY <1>5, <2>2, <3>2
    <3> QED BY <2>1, <3>2, <3>3, <3>4
  <2>4. \A j \in (n + 1) + 1 .. n + 1 : FALSE
    BY <1>6
  <2>5. \A i \in 1 .. n + 1 : i = n + 1 \/ i \in 1 .. n
    BY <1>6
  <2> QED BY <1>3, <1>4, <1>5, <1>7, <2>3, <2>4, <2>5 DEF FlightInv, Nil
<1>10. AskedInv'
  <2>1. Cardinality(Opens(flight')) = Cardinality(Opens(flight)) + 1
        /\ Cardinality(Opens(flight)) \in Nat
    BY <1>4, <1>6, OpensAppend, OpensFinite
  <2>2. Len(pending) \in Nat
    BY <1>1 DEF TablesInv
  <2> QED BY <1>1, <1>2, <2>1, <2>2 DEF AskedInv
<1>11. OnTheWayInv'
  <2>1. \A i \in 1 .. n + 1 : flight'[i].cmd = "request" => i \in 1 .. n /\ flight'[i] = flight[i]
    BY <1>4, <1>6, <1>7
  <2>2. UNCHANGED <<chan, byChannel, reqs>> /\ Len(flight') = n + 1
    BY <1>2, <1>7
  <2>3. /\ \A i \in 1 .. n : flight[i].cmd = "request" =>
              /\ flight[i].req \in 1 .. Len(reqs) /\ reqs[flight[i].req].on = Nil
              /\ chan[flight[i].ch] # Nil /\ flight[i].ch \in DOMAIN byChannel
                    => byChannel[flight[i].ch] = reqs[flight[i].req].dev
        /\ \A i, j \in 1 .. n :
              flight[i].cmd = "request" /\ flight[j].cmd = "request" /\ flight[i].req = flight[j].req
                  => i = j
    BY <1>1 DEF OnTheWayInv, n
  <2> QED BY <2>1, <2>2, <2>3 DEF OnTheWayInv
<1> QED BY <1>2, <1>8, <1>9, <1>10, <1>11, Frames DEF UsbInv

\* The server closes a channel.
LEMMA UsbServerCloses ==
    ASSUME UsbInv, NEW c \in Chans, ServerCloses(c)
    PROVE  UsbInv'
<1> DEFINE n == Len(flight)   m == [cmd |-> "close", ch |-> c, inc |-> srv[c].inc, req |-> Nil]
<1>1. NetInv /\ FlightInv /\ AskedInv /\ OnTheWayInv /\ TablesInv
  BY DEF UsbInv
<1>2. /\ srv[c].st = "open" /\ srv' = [srv EXCEPT ![c].st = "none"]
      /\ UNCHANGED <<plug, plugs, state, tables, monVars, chan, reqs, over, dev, pending, byChannel, asks>>
      /\ UNCHANGED reqVars
  BY DEF ServerCloses, portVars, reqVars, tables
<1>3. srv \in [Chans -> [st : {"none", "opening", "open"}, inc : Nat, dev : Nat]]
  BY <1>1 DEF NetInv
<1>4. /\ srv' \in [Chans -> [st : {"none", "opening", "open"}, inc : Nat, dev : Nat]]
      /\ srv'[c].st = "none" /\ srv'[c].inc = srv[c].inc /\ srv'[c].dev = srv[c].dev
      /\ \A e \in Chans \ {c} : srv'[e] = srv[e]
  BY <1>2, <1>3
<1>5. flight' = Append(flight, m) /\ m \in Pdus /\ m.cmd = "close" /\ m.ch = c
  BY <1>3, <1>4 DEF ServerCloses, Pdu, Pdus, Nil
<1> HIDE DEF n, m
<1>6. flight \in Seq(Pdus) /\ n \in Nat /\ \A i \in 1 .. n : flight[i].ch \in Chans
  BY <1>1, FlightTypes DEF n
<1>7. /\ flight' \in Seq(Pdus) /\ Len(flight') = n + 1 /\ flight'[n + 1] = m
      /\ \A i \in 1 .. n : flight'[i] = flight[i]
  BY <1>5, <1>6, AppendProperties DEF n
<1>8. NetInv'
  BY <1>1, <1>2, <1>4 DEF NetInv
<1>9. FlightInv'
  <2>1. \A i \in 1 .. n : flight[i].cmd = "open" =>
            /\ flight[i].ch # c
            /\ srv[flight[i].ch].st = "opening" /\ flight[i].inc = srv[flight[i].ch].inc
            /\ flight[i].inc # Nil
            /\ \A j \in i + 1 .. n : flight[j].ch # flight[i].ch
    BY <1>1, <1>2 DEF FlightInv, n
  <2>2. \A i \in 1 .. n : flight[i].cmd = "close" => srv[flight[i].ch].st # "open"
    BY <1>1 DEF FlightInv, n
  <2>3. ASSUME NEW i \in 1 .. n
        PROVE  /\ flight'[i].cmd = "open" =>
                     /\ srv'[flight'[i].ch].st = "opening" /\ flight'[i].inc = srv'[flight'[i].ch].inc
                     /\ flight'[i].inc # Nil
                     /\ \A j \in i + 1 .. n + 1 : flight'[j].ch # flight'[i].ch
               /\ flight'[i].cmd = "close" => srv'[flight'[i].ch].st # "open"
    <3>1. \A j \in i + 1 .. n + 1 : j = n + 1 \/ (j \in i + 1 .. n /\ j \in 1 .. n)
      BY <1>6
    <3>2. flight'[i] = flight[i] /\ flight[i].ch \in Chans
      BY <1>6, <1>7
    <3>3. ASSUME flight[i].cmd = "open"
          PROVE  /\ srv'[flight[i].ch].st = "opening" /\ flight[i].inc = srv'[flight[i].ch].inc
                 /\ \A j \in i + 1 .. n + 1 : flight'[j].ch # flight[i].ch
      <4>1. flight[i].ch # c /\ srv'[flight[i].ch] = srv[flight[i].ch]
        BY <1>4, <2>1, <3>2, <3>3
      <4>2. \A j \in i + 1 .. n : flight'[j].ch # flight[i].ch
        BY <1>7, <2>1, <3>1, <3>3
      <4>3. flight'[n + 1].ch # flight[i].ch
        BY <1>5, <1>7, <4>1
      <4> QED BY <2>1, <3>1, <3>3, <4>1, <4>2, <4>3
    <3>4. flight[i].cmd = "close" => srv'[flight[i].ch].st # "open"
      BY <1>4, <2>2, <3>2
    <3> QED BY <2>1, <3>2, <3>3, <3>4
  <2>4. \A i \in 1 .. n + 1 : i = n + 1 \/ i \in 1 .. n
    BY <1>6
  <2> QED BY <1>4, <1>5, <1>7, <2>3, <2>4 DEF FlightInv
<1>10. AskedInv'
  <2>1. Cardinality(Opens(flight')) = Cardinality(Opens(flight)) /\ Cardinality(Opens(flight)) \in Nat
    BY <1>5, <1>6, OpensAppend, OpensFinite
  <2> QED BY <1>1, <1>2, <2>1 DEF AskedInv
<1>11. OnTheWayInv'
  <2>1. \A i \in 1 .. n + 1 : flight'[i].cmd = "request" => i \in 1 .. n /\ flight'[i] = flight[i]
    BY <1>5, <1>6, <1>7
  <2>2. UNCHANGED <<chan, byChannel, reqs>> /\ Len(flight') = n + 1
    BY <1>2, <1>7
  <2>3. /\ \A i \in 1 .. n : flight[i].cmd = "request" =>
              /\ flight[i].req \in 1 .. Len(reqs) /\ reqs[flight[i].req].on = Nil
              /\ chan[flight[i].ch] # Nil /\ flight[i].ch \in DOMAIN byChannel
                    => byChannel[flight[i].ch] = reqs[flight[i].req].dev
        /\ \A i, j \in 1 .. n :
              flight[i].cmd = "request" /\ flight[j].cmd = "request" /\ flight[i].req = flight[j].req
                  => i = j
    BY <1>1 DEF OnTheWayInv, n
  <2> QED BY <2>1, <2>2, <2>3 DEF OnTheWayInv
<1> QED BY <1>2, <1>8, <1>9, <1>10, <1>11, Frames DEF UsbInv

\* The server sends a request to the device of an open channel.
LEMMA UsbServerRequests ==
    ASSUME UsbInv, NEW c \in Chans, ServerRequests(c)
    PROVE  UsbInv'
<1> DEFINE n == Len(flight)   l == Len(reqs)
           m == [cmd |-> "request", ch |-> c, inc |-> srv[c].inc, req |-> l + 1]
<1>1. NetInv /\ FlightInv /\ AskedInv /\ OnTheWayInv /\ TablesInv /\ RequestsInv
  BY DEF UsbInv
<1>2. PICK bulk \in BOOLEAN :
          reqs' = Append(reqs, [dev |-> srv[c].dev, bulk |-> bulk, on |-> Nil, replies |-> 0])
  BY DEF ServerRequests
<1> DEFINE r == [dev |-> srv[c].dev, bulk |-> bulk, on |-> Nil, replies |-> 0]
<1>3. /\ srv[c].st = "open" /\ srv[c].dev # Nil
      /\ flight' = Append(flight, Pdu("request", c, Len(reqs')))
      /\ UNCHANGED <<plug, plugs, state, tables, monVars, chan, over, dev, pending, byChannel, asks,
                     srv, loop, transfers>>
  BY DEF ServerRequests, portVars, tables
<1>4. srv[c].inc \in Nat /\ srv[c].dev \in Nat
  BY <1>1 DEF NetInv
<1>5. r \in Requests /\ r.dev = srv[c].dev /\ r.on = Nil /\ r.replies = 0 /\ reqs' = Append(reqs, r)
  BY <1>2, <1>4 DEF Requests, Nil
<1> HIDE DEF r
<1>6. reqs \in Seq(Requests) /\ l \in Nat
  BY <1>1 DEF RequestsInv
<1>7. /\ reqs' \in Seq(Requests) /\ Len(reqs') = l + 1 /\ reqs'[l + 1] = r
      /\ \A q \in 1 .. l : reqs'[q] = reqs[q]
  BY <1>5, <1>6, AppendProperties
<1>8. flight' = Append(flight, m) /\ m \in Pdus /\ m.cmd = "request" /\ m.ch = c /\ m.req = l + 1
  BY <1>3, <1>4, <1>6, <1>7 DEF Pdu, Pdus
<1>9. \A q \in 1 .. l : q \in 1 .. Len(reqs)
  OBVIOUS
<1> HIDE DEF n, m, l
<1>10. flight \in Seq(Pdus) /\ n \in Nat /\ \A i \in 1 .. n : flight[i].ch \in Chans
  BY <1>1, FlightTypes DEF n
<1>11. /\ flight' \in Seq(Pdus) /\ Len(flight') = n + 1 /\ flight'[n + 1] = m
       /\ \A i \in 1 .. n : flight'[i] = flight[i]
  BY <1>8, <1>10, AppendProperties DEF n
<1>12. FlightInv'
  <2>1. \A i \in 1 .. n : flight[i].cmd = "open" =>
            /\ flight[i].ch # c
            /\ srv[flight[i].ch].st = "opening" /\ flight[i].inc = srv[flight[i].ch].inc
            /\ flight[i].inc # Nil
            /\ \A j \in i + 1 .. n : flight[j].ch # flight[i].ch
    BY <1>1, <1>3 DEF FlightInv, n
  <2>2. \A i \in 1 .. n : flight[i].cmd = "close" => srv[flight[i].ch].st # "open"
    BY <1>1 DEF FlightInv, n
  <2>3. ASSUME NEW i \in 1 .. n, flight'[i].cmd = "open"
        PROVE  /\ srv[flight'[i].ch].st = "opening" /\ flight'[i].inc = srv[flight'[i].ch].inc
               /\ flight'[i].inc # Nil
               /\ \A j \in i + 1 .. n + 1 : flight'[j].ch # flight'[i].ch
    <3>1. \A j \in i + 1 .. n + 1 : j = n + 1 \/ (j \in i + 1 .. n /\ j \in 1 .. n)
      BY <1>10
    <3> QED BY <1>8, <1>10, <1>11, <2>1, <2>3, <3>1
  <2>4. \A i \in 1 .. n + 1 : i = n + 1 \/ i \in 1 .. n
    BY <1>10
  <2> QED BY <1>3, <1>8, <1>11, <2>2, <2>3, <2>4 DEF FlightInv
<1>13. AskedInv'
  <2>1. Cardinality(Opens(flight')) = Cardinality(Opens(flight)) /\ Cardinality(Opens(flight)) \in Nat
    BY <1>8, <1>10, OpensAppend, OpensFinite
  <2> QED BY <1>1, <1>3, <2>1 DEF AskedInv
<1>14. RequestsInv'
  <2>1. loop # l + 1 /\ l + 1 \notin transfers
    BY <1>1, <1>6 DEF RequestsInv, l, Nil
  <2>2. \A q \in 1 .. l + 1 : q = l + 1 \/ q \in 1 .. l
    BY <1>6
  <2>3. /\ loop # Nil => loop \in 1 .. l + 1 /\ reqs'[loop].on # Nil
        /\ \A q \in transfers : q \in 1 .. l + 1 /\ reqs'[q].on # Nil /\ q # loop
    BY <1>1, <1>6, <1>7 DEF RequestsInv, l
  <2>4. ASSUME NEW q \in 1 .. l + 1
        PROVE  /\ reqs'[q].on \in {Nil, reqs'[q].dev}
               /\ reqs'[q].replies = IF reqs'[q].on = Nil \/ q = loop \/ q \in transfers THEN 0 ELSE 1
    <3>1. \A a \in 1 .. l :
             /\ reqs[a].on \in {Nil, reqs[a].dev}
             /\ reqs[a].replies = IF reqs[a].on = Nil \/ a = loop \/ a \in transfers THEN 0 ELSE 1
      BY <1>1 DEF RequestsInv, l
    <3> QED BY <1>5, <1>7, <2>2, <3>1
  <2>5. IsFiniteSet(transfers) /\ Cardinality(transfers) <= SemCap
    BY <1>1 DEF RequestsInv
  <2> QED BY <1>3, <1>7, <2>3, <2>4, <2>5 DEF RequestsInv
<1>15. OnTheWayInv'
  <2>1. \A i \in 1 .. n + 1 : i = n + 1 \/ i \in 1 .. n
    BY <1>10
  <2>2. \A i \in 1 .. n : flight[i].cmd = "request" =>
            /\ flight[i].req \in 1 .. l /\ reqs[flight[i].req].on = Nil
            /\ chan[flight[i].ch] # Nil /\ flight[i].ch \in DOMAIN byChannel
                  => byChannel[flight[i].ch] = reqs[flight[i].req].dev
    BY <1>1 DEF OnTheWayInv, n, l
  <2>3. byChannel[c] = srv[c].dev
    BY <1>1, <1>3 DEF NetInv
  <2>4. ASSUME NEW i \in 1 .. n + 1, flight'[i].cmd = "request"
        PROVE  /\ flight'[i].req \in 1 .. l + 1 /\ reqs'[flight'[i].req].on = Nil
               /\ chan[flight'[i].ch] # Nil /\ flight'[i].ch \in DOMAIN byChannel
                     => byChannel[flight'[i].ch] = reqs'[flight'[i].req].dev
    <3>1. CASE i = n + 1
      BY <1>5, <1>6, <1>7, <1>8, <1>11, <2>3, <3>1
    <3>2. CASE i \in 1 .. n
      <4>1. flight'[i] = flight[i] /\ flight[i].cmd = "request"
        BY <1>11, <2>4, <3>2
      <4>2. flight[i].req \in 1 .. l /\ reqs'[flight[i].req] = reqs[flight[i].req]
        BY <1>7, <2>2, <3>2, <4>1
      <4> QED BY <1>6, <2>2, <3>2, <4>1, <4>2
    <3> QED BY <2>1, <3>1, <3>2
  <2>5. \A i, j \in 1 .. n + 1 :
            flight'[i].cmd = "request" /\ flight'[j].cmd = "request" /\ flight'[i].req = flight'[j].req
                => i = j
    <3>1. \A i \in 1 .. n : flight[i].cmd = "request" => flight[i].req # l + 1
      BY <1>6, <2>2
    <3>2. \A i, j \in 1 .. n :
             flight[i].cmd = "request" /\ flight[j].cmd = "request" /\ flight[i].req = flight[j].req
                 => i = j
      BY <1>1 DEF OnTheWayInv, n
    <3> QED BY <1>8, <1>11, <2>1, <3>1, <3>2
  <2>6. UNCHANGED <<chan, byChannel>> /\ Len(flight') = n + 1 /\ Len(reqs') = l + 1
    BY <1>3, <1>7, <1>11
  <2> QED BY <2>4, <2>5, <2>6 DEF OnTheWayInv
<1> QED BY <1>3, <1>12, <1>13, <1>14, <1>15, Frames DEF UsbInv

\* The first PDU is received.
LEMMA UsbTaken ==
    ASSUME UsbInv, NEW m, NEW cmd, Receive(m, cmd)
    PROVE  /\ m = flight[1] /\ m.cmd = cmd /\ m \in Pdus /\ m.ch \in Chans /\ loop = Nil /\ ~over
           /\ Len(flight) \in Nat \ {0} /\ Len(flight') = Len(flight) - 1 /\ flight' \in Seq(Pdus)
           /\ \A i \in 1 .. Len(flight) - 1 : flight'[i] = flight[i + 1]
           /\ Cardinality(Opens(flight)) \in Nat /\ Cardinality(Opens(flight')) \in Nat
           /\ Cardinality(Opens(flight)) =
                  Cardinality(Opens(flight')) + (IF cmd = "open" THEN 1 ELSE 0)
<1>1. /\ flight # <<>> /\ m = Head(flight) /\ m.cmd = cmd /\ flight' = Tail(flight)
      /\ loop = Nil /\ ~over
  BY DEF Receive
<1>2. flight \in Seq(Pdus)
  BY DEF UsbInv, FlightInv
<1>3. /\ Len(flight) \in Nat \ {0} /\ Len(flight') = Len(flight) - 1 /\ flight' \in Seq(Pdus)
      /\ \A i \in 1 .. Len(flight) - 1 : flight'[i] = flight[i + 1]
  BY <1>1, <1>2, HeadTailProperties
<1>4. m = flight[1] /\ m \in Pdus
  BY <1>1, <1>2, <1>3
<1>5. m.ch \in Chans
  BY <1>4 DEF Pdus
<1>6. Cardinality(Opens(flight)) \in Nat /\ Cardinality(Opens(flight')) \in Nat
  BY <1>2, <1>3, OpensFinite
<1>7. Cardinality(Opens(flight)) =
          Cardinality(Opens(flight')) + (IF cmd = "open" THEN 1 ELSE 0)
  BY <1>1, <1>2, OpensTail
<1> QED BY <1>1, <1>3, <1>4, <1>5, <1>6, <1>7

\* The PDUs that are still on the way are as good, when the server's side of their channels
\* is as it was.
LEMMA UsbFlightShorter ==
    ASSUME UsbInv, NEW m, NEW cmd, Receive(m, cmd),
           \A i \in 2 .. Len(flight) : srv'[flight[i].ch] = srv[flight[i].ch]
    PROVE  FlightInv'
<1> DEFINE n == Len(flight)
<1>1. /\ n \in Nat \ {0} /\ Len(flight') = n - 1 /\ flight' \in Seq(Pdus)
      /\ \A i \in 1 .. n - 1 : flight'[i] = flight[i + 1]
  BY UsbTaken
<1>2. \A i \in 1 .. n :
          /\ flight[i].cmd = "open" =>
                /\ srv[flight[i].ch].st = "opening" /\ flight[i].inc = srv[flight[i].ch].inc
                /\ flight[i].inc # Nil
                /\ \A j \in i + 1 .. n : flight[j].ch # flight[i].ch
          /\ flight[i].cmd = "close" => srv[flight[i].ch].st # "open"
  BY DEF UsbInv, FlightInv
<1>3. \A i \in 2 .. n : srv'[flight[i].ch] = srv[flight[i].ch]
  OBVIOUS
<1> HIDE DEF n
<1>4. ASSUME NEW i \in 1 .. n - 1
      PROVE  /\ flight'[i].cmd = "open" =>
                   /\ srv'[flight'[i].ch].st = "opening" /\ flight'[i].inc = srv'[flight'[i].ch].inc
                   /\ flight'[i].inc # Nil
                   /\ \A j \in i + 1 .. n - 1 : flight'[j].ch # flight'[i].ch
             /\ flight'[i].cmd = "close" => srv'[flight'[i].ch].st # "open"
  <2>1. i + 1 \in 1 .. n /\ i + 1 \in 2 .. n /\ flight'[i] = flight[i + 1]
    BY <1>1
  <2>2. srv'[flight'[i].ch] = srv[flight[i + 1].ch]
    BY <1>3, <2>1
  <2>3. \A j \in i + 1 .. n - 1 : flight'[j] = flight[j + 1] /\ j + 1 \in (i + 1) + 1 .. n
    BY <1>1
  <2> QED BY <1>2, <2>1, <2>2, <2>3
<1> QED BY <1>1, <1>4 DEF FlightInv

\* The requests that are still on the way are as good, when theirs is not the one received
\* and no channel has been given to another device before them.
LEMMA UsbWayShorter ==
    ASSUME UsbInv, NEW m, NEW cmd, Receive(m, cmd),
           \A i \in 2 .. Len(flight) : flight[i].cmd = "request" =>
               /\ flight[i].req \in 1 .. Len(reqs') /\ reqs'[flight[i].req] = reqs[flight[i].req]
               /\ chan'[flight[i].ch] # Nil /\ flight[i].ch \in DOMAIN byChannel' =>
                     /\ chan[flight[i].ch] # Nil /\ flight[i].ch \in DOMAIN byChannel
                     /\ byChannel'[flight[i].ch] = byChannel[flight[i].ch]
    PROVE  OnTheWayInv'
<1> DEFINE n == Len(flight)
<1>1. /\ n \in Nat \ {0} /\ Len(flight') = n - 1
      /\ \A i \in 1 .. n - 1 : flight'[i] = flight[i + 1]
  BY UsbTaken
<1>2. \A i \in 1 .. n : flight[i].cmd = "request" =>
          /\ reqs[flight[i].req].on = Nil
          /\ chan[flight[i].ch] # Nil /\ flight[i].ch \in DOMAIN byChannel =>
                byChannel[flight[i].ch] = reqs[flight[i].req].dev
  BY DEF UsbInv, OnTheWayInv
<1>3. \A i, j \in 1 .. n :
          flight[i].cmd = "request" /\ flight[j].cmd = "request" /\ flight[i].req = flight[j].req
              => i = j
  BY DEF UsbInv, OnTheWayInv
<1>4. \A i \in 2 .. n : flight[i].cmd = "request" =>
          /\ flight[i].req \in 1 .. Len(reqs') /\ reqs'[flight[i].req] = reqs[flight[i].req]
          /\ chan'[flight[i].ch] # Nil /\ flight[i].ch \in DOMAIN byChannel' =>
                /\ chan[flight[i].ch] # Nil /\ flight[i].ch \in DOMAIN byChannel
                /\ byChannel'[flight[i].ch] = byChannel[flight[i].ch]
  OBVIOUS
<1> HIDE DEF n
<1>5. \A i \in 1 .. n - 1 : i + 1 \in 1 .. n /\ i + 1 \in 2 .. n /\ flight'[i] = flight[i + 1]
  BY <1>1
<1>6. \A i \in 1 .. n - 1 : flight'[i].cmd = "request" =>
          /\ flight'[i].req \in 1 .. Len(reqs') /\ reqs'[flight'[i].req].on = Nil
          /\ chan'[flight'[i].ch] # Nil /\ flight'[i].ch \in DOMAIN byChannel' =>
                byChannel'[flight'[i].ch] = reqs'[flight'[i].req].dev
  BY <1>2, <1>4, <1>5
<1>7. \A i, j \in 1 .. n - 1 :
          flight'[i].cmd = "request" /\ flight'[j].cmd = "request" /\ flight'[i].req = flight'[j].req
              => i = j
  <2>1. ASSUME NEW i \in 1 .. n - 1, NEW j \in 1 .. n - 1, flight'[i].cmd = "request",
               flight'[j].cmd = "request", flight'[i].req = flight'[j].req
        PROVE  i = j
    <3>1. i + 1 = j + 1
      BY <1>3, <1>5, <2>1
    <3> QED BY <3>1
  <2> QED BY <2>1
<1> QED BY <1>1, <1>6, <1>7 DEF OnTheWayInv

\* The first of those that wait is taken.
LEMMA RangeTail ==
    ASSUME NEW T, NEW s \in Seq(T), s # <<>>, IsInjective(s)
    PROVE  /\ Head(s) \in Range(s) /\ Tail(s) \in Seq(T) /\ Len(Tail(s)) = Len(s) - 1
           /\ IsInjective(Tail(s)) /\ Range(Tail(s)) \subseteq Range(s) \ {Head(s)}
<1> DEFINE n == Len(s)   t == Tail(s)
<1>1. /\ n \in Nat \ {0} /\ t \in Seq(T) /\ Len(t) = n - 1
      /\ \A i \in 1 .. n - 1 : t[i] = s[i + 1]
  BY HeadTailProperties
<1>2. Head(s) = s[1] /\ DOMAIN s = 1 .. n /\ DOMAIN t = 1 .. n - 1
  BY <1>1
<1> HIDE DEF n, t
<1>3. \A i, j \in 1 .. n : s[i] = s[j] => i = j
  BY <1>2 DEF IsInjective
<1>4. 1 \in 1 .. n /\ \A i \in 1 .. n - 1 : i + 1 \in 1 .. n /\ i + 1 # 1
  BY <1>1
<1>5. IsInjective(t)
  <2>1. ASSUME NEW i \in 1 .. n - 1, NEW j \in 1 .. n - 1, t[i] = t[j] PROVE i = j
    <3>1. s[i + 1] = s[j + 1]
      BY <1>1, <2>1
    <3>2. i + 1 \in 1 .. n /\ j + 1 \in 1 .. n
      BY <1>4
    <3>3. i + 1 = j + 1
      BY <1>3, <3>1, <3>2
    <3> QED BY <3>3
  <2> QED BY <1>2, <2>1 DEF IsInjective
<1>6. Range(t) \subseteq Range(s) \ {s[1]}
  <2>1. ASSUME NEW i \in 1 .. n - 1 PROVE t[i] \in Range(s) /\ t[i] # s[1]
    <3>1. t[i] = s[i + 1] /\ i + 1 \in 1 .. n /\ i + 1 # 1
      BY <1>1, <1>4
    <3>2. t[i] # s[1]
      BY <1>3, <1>4, <3>1
    <3> QED BY <1>2, <3>1, <3>2 DEF Range
  <2> QED BY <1>2, <2>1 DEF Range
<1>7. s[1] \in Range(s)
  BY <1>2, <1>4 DEF Range
<1> QED BY <1>1, <1>2, <1>5, <1>6, <1>7 DEF n, t

\* A channel is created: the first device that waits, if there is one, has it.
LEMMA UsbReceiveOpen ==
    ASSUME UsbInv, NEW m, ReceiveOpen(m)
    PROVE  UsbInv'
<1> DEFINE c == m.ch   n == Len(flight)
<1>1. /\ Receive(m, "open") /\ chan' = [chan EXCEPT ![c] = m.inc]
      /\ UNCHANGED <<plug, plugs, state, devices, known, monVars, asks, reqs, over>>
      /\ UNCHANGED reqVars
  BY DEF ReceiveOpen, portVars, reqVars
<1>2. TablesInv /\ TablesAgree /\ NetInv /\ FlightInv /\ AskedInv /\ OnTheWayInv /\ MonitorTypes
  BY DEF UsbInv, TablesInv
<1>3. /\ m = flight[1] /\ m.cmd = "open" /\ c \in Chans /\ n \in Nat \ {0} /\ ~over
      /\ Cardinality(Opens(flight)) \in Nat /\ Cardinality(Opens(flight')) \in Nat
      /\ Cardinality(Opens(flight)) = Cardinality(Opens(flight')) + 1
  BY <1>1, UsbTaken
<1>4. /\ srv[c].st = "opening" /\ m.inc = srv[c].inc /\ m.inc # Nil
      /\ \A j \in 2 .. n : flight[j].ch # c
  <2>1. 1 \in 1 .. n /\ 1 + 1 = 2
    BY <1>3
  <2> QED BY <1>2, <1>3, <2>1 DEF FlightInv
<1>5. \A i \in 1 .. n : flight[i].ch \in Chans
  BY <1>2, FlightTypes
<1> HIDE DEF c
<1>6. /\ srv \in [Chans -> [st : {"none", "opening", "open"}, inc : Nat, dev : Nat]]
      /\ chan \in [Chans -> Nat] /\ m.inc \in Nat /\ srv[c].dev = Nil
  BY <1>2, <1>3, <1>4 DEF NetInv
<1>7. chan' \in [Chans -> Nat] /\ chan'[c] = m.inc /\ \A e \in Chans \ {c} : chan'[e] = chan[e]
  BY <1>1, <1>3, <1>6
<1>8. \A e \in Chans :
          /\ srv[e].dev # Nil => srv[e].dev \in DOMAIN dev
          /\ chan[e] <= srv[e].inc
          /\ srv[e].st = "opening" => chan[e] < srv[e].inc /\ srv[e].dev = Nil
          /\ srv[e].st = "open" /\ srv[e].dev # Nil =>
                /\ chan[e] = srv[e].inc /\ chan[e] # Nil
                /\ e \in DOMAIN byChannel /\ byChannel[e] = srv[e].dev
                /\ dev[srv[e].dev].on /\ (~over => dev[srv[e].dev].open)
  BY <1>2 DEF NetInv
<1>9. CASE pending = <<>>
  <2>1. srv' = [srv EXCEPT ![c].st = "open"] /\ UNCHANGED <<dev, pending, byChannel>>
    BY <1>9 DEF ReceiveOpen, c
  <2>2. /\ srv' \in [Chans -> [st : {"none", "opening", "open"}, inc : Nat, dev : Nat]]
        /\ srv'[c].st = "open" /\ srv'[c].dev = Nil /\ srv'[c].inc = srv[c].inc
        /\ \A e \in Chans \ {c} : srv'[e] = srv[e]
    BY <1>3, <1>6, <2>1
  <2>3. TablesInv' /\ MonitorTypes' /\ RequestsInv'
    BY <1>1, <2>1, Frames DEF tables
  <2>4. NetInv'
    <3>1. chan'[c] <= srv'[c].inc
      BY <1>4, <1>6, <1>7, <2>2
    <3> QED BY <1>1, <1>7, <1>8, <2>1, <2>2, <3>1 DEF NetInv
  <2>5. FlightInv'
    <3>1. \A i \in 2 .. n : srv'[flight[i].ch] = srv[flight[i].ch]
      BY <1>3, <1>4, <1>5, <2>2
    <3> QED BY <1>1, <3>1, UsbFlightShorter
  <2>6. AskedInv'
    BY <1>1, <1>2, <1>3, <1>9, <2>1 DEF AskedInv
  <2>7. OnTheWayInv'
    <3>1. ASSUME NEW i \in 2 .. n, flight[i].cmd = "request"
          PROVE  /\ flight[i].req \in 1 .. Len(reqs') /\ reqs'[flight[i].req] = reqs[flight[i].req]
                 /\ chan'[flight[i].ch] = chan[flight[i].ch]
      BY <1>1, <1>2, <1>3, <1>4, <1>5, <1>7, <3>1 DEF OnTheWayInv
    <3> QED BY <1>1, <2>1, <3>1, UsbWayShorter
  <2> QED BY <2>3, <2>4, <2>5, <2>6, <2>7 DEF UsbInv
<1>10. CASE pending # <<>>
  <2> DEFINE d == Head(pending)   x == [dev[d] EXCEPT !.ch = c, !.on = TRUE]
             y == [srv[c] EXCEPT !.st = "open", !.dev = d]
  <2>1. /\ pending' = Tail(pending) /\ dev' = [dev EXCEPT ![d] = x]
        /\ byChannel' = [z \in DOMAIN byChannel \cup {c} |-> IF z = c THEN d ELSE byChannel[z]]
        /\ srv' = [srv EXCEPT ![c] = y]
    BY <1>10 DEF ReceiveOpen, AssignChannel, SetEntry, c
  <2>2. /\ pending \in Seq(Nat) /\ IsInjective(pending) /\ dev \in Seq(Devices)
        /\ Range(pending) \subseteq Range(devices) /\ Range(devices) \subseteq DOMAIN dev
        /\ \A a \in Range(pending) : dev[a].ch = Nil
    BY <1>2 DEF TablesInv, TablesAgree
  <2>3. /\ d \in Range(pending) /\ pending' \in Seq(Nat) /\ Len(pending') = Len(pending) - 1
        /\ IsInjective(pending') /\ Range(pending') \subseteq Range(pending) \ {d}
        /\ Len(pending) \in Nat
    BY <1>10, <2>1, <2>2, RangeTail
  <2>4. d \in DOMAIN dev /\ d \in Range(devices) /\ dev[d].ch = Nil /\ d \in Nat \ {0}
    BY <2>2, <2>3
  <2>5. dev[d] \in Devices
    BY <2>2, <2>4
  <2>6. x \in Devices /\ x.port = dev[d].port /\ x.open = dev[d].open /\ x.ch = c /\ x.on
    BY <1>3, <2>5 DEF Devices
  <2>7. y \in [st : {"none", "opening", "open"}, inc : Nat, dev : Nat]
        /\ y.st = "open" /\ y.dev = d /\ y.inc = srv[c].inc
    BY <1>3, <1>6, <2>4
  <2> HIDE DEF d, x, y
  <2>8. /\ dev' \in Seq(Devices) /\ DOMAIN dev' = DOMAIN dev /\ dev'[d] = x
        /\ \A a \in DOMAIN dev \ {d} : dev'[a] = dev[a]
    BY <2>1, <2>2, <2>4, <2>6
  <2>9. /\ srv' \in [Chans -> [st : {"none", "opening", "open"}, inc : Nat, dev : Nat]]
        /\ srv'[c] = y /\ \A e \in Chans \ {c} : srv'[e] = srv[e]
    BY <1>3, <1>6, <2>1, <2>7
  <2>10. \A a \in DOMAIN dev : /\ dev'[a].port = dev[a].port /\ dev'[a].open = dev[a].open
                               /\ dev[a].on => dev'[a].on
    BY <2>6, <2>8
  <2>11. /\ DOMAIN byChannel' = DOMAIN byChannel \cup {c} /\ byChannel'[c] = d
         /\ \A e \in DOMAIN byChannel \ {c} : byChannel'[e] = byChannel[e]
    BY <2>1
  <2>12. TablesAgree'
    <3>1. \A a \in Range(pending') : dev'[a].ch = Nil
      BY <2>2, <2>3, <2>8
    <3>2. {a \in DOMAIN dev' : dev'[a].open} = {a \in DOMAIN dev : dev[a].open}
      BY <2>8, <2>10
    <3>3. ~over => Range(devices) = {a \in DOMAIN dev : dev[a].open}
      BY <1>2 DEF TablesAgree
    <3>4. Range(devices) = Range(known) \ {Nil}
      BY <1>2 DEF TablesAgree
    <3>5. Range(devices') = Range(devices) /\ Range(known') = Range(known) /\ over' = over
      BY <1>1
    <3>6. Range(pending') \subseteq Range(devices)
      BY <2>2, <2>3
    <3> QED BY <2>3, <3>1, <3>2, <3>3, <3>4, <3>5, <3>6 DEF TablesAgree
  <2>13. TablesInv'
    <3>1. c # Nil /\ Nil \notin Chans
      BY <1>3, UsbAssumption DEF UsbAssumption, Nil
    <3>2. \A p \in DOMAIN known' : known'[p] # Nil => known'[p] \in DOMAIN dev' /\ dev'[known'[p]].port = p
      BY <1>1, <1>2, <2>8, <2>10 DEF TablesInv
    <3>3. \A a \in DOMAIN dev' : dev'[a].on => dev'[a].ch # Nil
      BY <1>2, <2>6, <2>8, <3>1 DEF TablesInv
    <3>4. DOMAIN byChannel' \subseteq Chans
      BY <1>2, <1>3, <2>11 DEF TablesInv
    <3>5. ASSUME NEW e \in DOMAIN byChannel'
          PROVE  byChannel'[e] \in DOMAIN dev' /\ dev'[byChannel'[e]].ch = e
      <4>1. CASE e = c
        BY <2>4, <2>6, <2>8, <2>11, <4>1
      <4>2. CASE e # c
        <5>1. byChannel'[e] = byChannel[e] /\ byChannel[e] \in DOMAIN dev /\ dev[byChannel[e]].ch = e
              /\ e \in Chans
          BY <1>2, <2>11, <3>5, <4>2 DEF TablesInv
        <5>2. byChannel[e] # d
          BY <2>4, <3>1, <5>1
        <5> QED BY <2>8, <5>1, <5>2
      <4> QED BY <4>1, <4>2
    <3>6. state' # "channelIn"
      BY <1>1, <1>2, <1>10 DEF TablesInv
    <3>7. Range(devices') \subseteq DOMAIN dev' /\ devices' \in Seq(Nat) /\ IsInjective(devices')
          /\ DOMAIN known' \subseteq Ports
      BY <1>1, <1>2, <2>8 DEF TablesInv
    <3> QED BY <2>3, <2>8, <2>12, <3>2, <3>3, <3>4, <3>5, <3>6, <3>7 DEF TablesInv
  <2>14. NetInv'
    <3>1. ASSUME NEW e \in Chans
          PROVE  /\ srv'[e].dev # Nil => srv'[e].dev \in DOMAIN dev'
                 /\ chan'[e] <= srv'[e].inc
                 /\ srv'[e].st = "opening" => chan'[e] < srv'[e].inc /\ srv'[e].dev = Nil
                 /\ srv'[e].st = "open" /\ srv'[e].dev # Nil =>
                       /\ chan'[e] = srv'[e].inc /\ chan'[e] # Nil
                       /\ e \in DOMAIN byChannel' /\ byChannel'[e] = srv'[e].dev
                       /\ dev'[srv'[e].dev].on /\ (~over' => dev'[srv'[e].dev].open)
      <4>1. CASE e = c
        <5>1. srv'[e].dev = d /\ srv'[e].st = "open" /\ srv'[e].inc = m.inc /\ chan'[e] = m.inc
          BY <1>4, <1>7, <2>7, <2>9, <4>1
        <5>2. dev[d].open
          BY <1>2, <1>3, <2>4 DEF TablesAgree
        <5>3. dev'[d].on /\ dev'[d].open
          BY <2>4, <2>6, <2>8, <2>10, <5>2
        <5>4. m.inc <= m.inc
          BY <1>6
        <5> QED BY <1>4, <2>4, <2>8, <2>11, <4>1, <5>1, <5>3, <5>4
      <4>2. CASE e # c
        <5>1. srv'[e] = srv[e] /\ chan'[e] = chan[e]
              /\ (e \in DOMAIN byChannel => e \in DOMAIN byChannel' /\ byChannel'[e] = byChannel[e])
          BY <1>7, <2>9, <2>11, <4>2
        <5> QED BY <1>1, <1>8, <2>8, <2>10, <5>1
      <4> QED BY <4>1, <4>2
    <3> QED BY <1>7, <2>9, <3>1 DEF NetInv
  <2>15. FlightInv'
    <3>1. \A i \in 2 .. n : srv'[flight[i].ch] = srv[flight[i].ch]
      BY <1>3, <1>4, <1>5, <2>9
    <3> QED BY <1>1, <3>1, UsbFlightShorter
  <2>16. AskedInv'
    BY <1>1, <1>2, <1>3, <2>3 DEF AskedInv
  <2>17. OnTheWayInv'
    <3>1. ASSUME NEW i \in 2 .. n, flight[i].cmd = "request"
          PROVE  /\ flight[i].req \in 1 .. Len(reqs') /\ reqs'[flight[i].req] = reqs[flight[i].req]
                 /\ chan'[flight[i].ch] = chan[flight[i].ch]
                 /\ flight[i].ch \in DOMAIN byChannel' =>
                       /\ flight[i].ch \in DOMAIN byChannel
                       /\ byChannel'[flight[i].ch] = byChannel[flight[i].ch]
      <4>1. i \in 1 .. n /\ flight[i].ch \in Chans /\ flight[i].ch # c
        BY <1>3, <1>4, <1>5
      <4>2. flight[i].req \in 1 .. Len(reqs)
        BY <1>2, <3>1, <4>1 DEF OnTheWayInv
      <4> QED BY <1>1, <1>7, <2>11, <4>1, <4>2
    <3> QED BY <1>1, <3>1, UsbWayShorter
  <2>18. MonitorTypes' /\ RequestsInv'
    BY <1>1, Frames
  <2> QED BY <2>13, <2>14, <2>15, <2>16, <2>17, <2>18 DEF UsbInv
<1> QED BY <1>9, <1>10

\* A channel is closed by the server: its device keeps the ID but is no longer on it.
LEMMA UsbReceiveClose ==
    ASSUME UsbInv, NEW m, ReceiveClose(m)
    PROVE  UsbInv'
<1> DEFINE c == m.ch   n == Len(flight)   b == byChannel[c]
<1>1. /\ Receive(m, "close") /\ chan' = [chan EXCEPT ![c] = Nil]
      /\ dev' = IF chan[c] # Nil /\ c \in DOMAIN byChannel THEN [dev EXCEPT ![b].on = FALSE] ELSE dev
      /\ UNCHANGED <<plug, plugs, state, devices, known, pending, byChannel, monVars, asks, srv, reqs, over>>
      /\ UNCHANGED reqVars
  BY DEF ReceiveClose, portVars, reqVars
<1>2. TablesInv /\ TablesAgree /\ NetInv /\ FlightInv /\ AskedInv /\ OnTheWayInv
  BY DEF UsbInv, TablesInv
<1>3. /\ m = flight[1] /\ m.cmd = "close" /\ c \in Chans /\ n \in Nat \ {0}
      /\ Cardinality(Opens(flight)) \in Nat /\ Cardinality(Opens(flight')) \in Nat
      /\ Cardinality(Opens(flight)) = Cardinality(Opens(flight')) + 0
  BY <1>1, UsbTaken
<1>4. srv[c].st # "open"
  BY <1>2, <1>3 DEF FlightInv
<1> HIDE DEF c, n, b
<1>5. chan \in [Chans -> Nat] /\ dev \in Seq(Devices)
  BY <1>2 DEF NetInv, TablesInv
<1>6. chan' \in [Chans -> Nat] /\ chan'[c] = Nil /\ \A e \in Chans \ {c} : chan'[e] = chan[e]
  BY <1>1, <1>3, <1>5 DEF Nil
<1>7. c \in DOMAIN byChannel => b \in DOMAIN dev /\ dev[b].ch = c
  BY <1>2 DEF TablesInv, b
<1>8. /\ DOMAIN dev' = DOMAIN dev /\ dev' \in Seq(Devices)
      /\ \A d \in DOMAIN dev : /\ dev'[d].port = dev[d].port /\ dev'[d].ch = dev[d].ch
                               /\ dev'[d].open = dev[d].open
                               /\ dev'[d].on => dev[d].on
                               /\ dev[d].ch # c => dev'[d].on = dev[d].on
  <2>1. CASE dev' = dev
    BY <1>5, <2>1
  <2>2. CASE c \in DOMAIN byChannel /\ dev' = [dev EXCEPT ![b].on = FALSE]
    <3> DEFINE x == [dev[b] EXCEPT !.on = FALSE]
    <3>1. b \in DOMAIN dev /\ dev[b].ch = c
      BY <1>7, <2>2
    <3>2. dev[b] \in Devices
      BY <1>5, <3>1
    <3>3. x \in Devices /\ x.port = dev[b].port /\ x.open = dev[b].open /\ x.ch = dev[b].ch /\ ~x.on
      BY <3>2 DEF Devices
    <3>4. dev' = [dev EXCEPT ![b] = x]
      BY <2>2
    <3> HIDE DEF x
    <3>5. /\ dev' \in Seq(Devices) /\ DOMAIN dev' = DOMAIN dev /\ dev'[b] = x
          /\ \A d \in DOMAIN dev \ {b} : dev'[d] = dev[d]
      BY <1>5, <3>1, <3>3, <3>4
    <3> QED BY <3>1, <3>3, <3>5
  <2> QED BY <1>1, <2>1, <2>2
<1>9. TablesAgree'
  <2>1. {d \in DOMAIN dev' : dev'[d].open} = {d \in DOMAIN dev : dev[d].open}
    BY <1>8
  <2>2. \A d \in Range(pending) : d \in DOMAIN dev /\ dev[d].ch = Nil
    BY <1>2 DEF TablesAgree, TablesInv
  <2>3. \A d \in Range(pending) : dev'[d].ch = Nil
    BY <1>8, <2>2
  <2>4. ~over => Range(devices) = {d \in DOMAIN dev : dev[d].open}
    BY <1>2 DEF TablesAgree
  <2>5. /\ Range(devices) = Range(known) \ {Nil} /\ Range(pending) \subseteq Range(devices)
        /\ IsInjective(pending)
    BY <1>2 DEF TablesAgree
  <2> QED BY <1>1, <2>1, <2>3, <2>4, <2>5 DEF TablesAgree
<1>10. TablesInv'
  <2>1. \A p \in DOMAIN known' : known'[p] # Nil => known'[p] \in DOMAIN dev' /\ dev'[known'[p]].port = p
    BY <1>1, <1>2, <1>8 DEF TablesInv
  <2>2. \A d \in DOMAIN dev' : dev'[d].on => dev'[d].ch # Nil
    BY <1>2, <1>8 DEF TablesInv
  <2>3. \A e \in DOMAIN byChannel' : byChannel'[e] \in DOMAIN dev' /\ dev'[byChannel'[e]].ch = e
    BY <1>1, <1>2, <1>8 DEF TablesInv
  <2>4. state' = "channelIn" => pending' = <<>> /\ \A d \in DOMAIN dev' : dev'[d].ch = Nil
    BY <1>1, <1>2, <1>8 DEF TablesInv
  <2> QED BY <1>1, <1>2, <1>8, <1>9, <2>1, <2>2, <2>3, <2>4 DEF TablesInv
<1>11. NetInv'
  <2>1. ASSUME NEW e \in Chans
        PROVE  /\ srv[e].dev # Nil => srv[e].dev \in DOMAIN dev'
               /\ chan'[e] <= srv[e].inc
               /\ srv[e].st = "opening" => chan'[e] < srv[e].inc /\ srv[e].dev = Nil
               /\ srv[e].st = "open" /\ srv[e].dev # Nil =>
                     /\ chan'[e] = srv[e].inc /\ chan'[e] # Nil
                     /\ e \in DOMAIN byChannel /\ byChannel[e] = srv[e].dev
                     /\ dev'[srv[e].dev].on /\ (~over => dev'[srv[e].dev].open)
    <3>1. /\ srv[e].dev # Nil => srv[e].dev \in DOMAIN dev
          /\ chan[e] <= srv[e].inc /\ chan[e] \in Nat /\ srv[e].inc \in Nat
          /\ srv[e].st = "opening" => chan[e] < srv[e].inc /\ srv[e].dev = Nil
          /\ srv[e].st = "open" /\ srv[e].dev # Nil =>
                /\ chan[e] = srv[e].inc /\ chan[e] # Nil
                /\ e \in DOMAIN byChannel /\ byChannel[e] = srv[e].dev
                /\ dev[srv[e].dev].on /\ (~over => dev[srv[e].dev].open)
      BY <1>2 DEF NetInv
    <3>2. CASE e = c
      <4>1. chan'[e] = 0 /\ srv[e].st # "open"
        BY <1>4, <1>6, <3>2 DEF Nil
      <4> QED BY <1>8, <3>1, <4>1
    <3>3. CASE e # c
      <4>1. chan'[e] = chan[e]
        BY <1>6, <3>3
      <4>2. e \in DOMAIN byChannel => dev[byChannel[e]].ch = e /\ byChannel[e] \in DOMAIN dev
        BY <1>2 DEF TablesInv
      <4> QED BY <1>8, <3>1, <3>3, <4>1, <4>2
    <3> QED BY <3>2, <3>3
  <2> QED BY <1>1, <1>2, <1>6, <2>1 DEF NetInv
<1>12. FlightInv'
  BY <1>1, UsbFlightShorter
<1>13. AskedInv'
  BY <1>1, <1>2, <1>3 DEF AskedInv
<1>14. OnTheWayInv'
  <2>1. ASSUME NEW i \in 2 .. Len(flight), flight[i].cmd = "request"
        PROVE  /\ flight[i].req \in 1 .. Len(reqs') /\ reqs'[flight[i].req] = reqs[flight[i].req]
               /\ chan'[flight[i].ch] # Nil => chan[flight[i].ch] # Nil
    <3>1. i \in 1 .. n /\ flight[i].ch \in Chans
      BY <1>2, <1>3, FlightTypes DEF n
    <3>2. flight[i].req \in 1 .. Len(reqs)
      BY <1>2, <2>1, <3>1 DEF OnTheWayInv, n
    <3> QED BY <1>1, <1>6, <3>1, <3>2
  <2> QED BY <1>1, <2>1, UsbWayShorter
<1>15. MonitorTypes' /\ RequestsInv'
  BY <1>1, Frames
<1> QED BY <1>10, <1>11, <1>12, <1>13, <1>14, <1>15 DEF UsbInv

\* What a request that is received leaves as it was.
LEMMA UsbRequestTaken ==
    ASSUME UsbInv, NEW m, Receive(m, "request"),
           UNCHANGED <<portVars, state, tables, monVars, asks, srv, chan, over>>
    PROVE  MonitorTypes' /\ TablesInv' /\ NetInv' /\ FlightInv' /\ AskedInv'
<1>1. UNCHANGED <<plug, plugs, dev, byChannel, pending>>
  BY DEF portVars, tables
<1>2. MonitorTypes' /\ TablesInv' /\ NetInv'
  BY <1>1, Frames
<1>3. FlightInv'
  BY UsbFlightShorter
<1>4. AskedInv'
  <2>1. Cardinality(Opens(flight)) \in Nat /\ Cardinality(Opens(flight)) = Cardinality(Opens(flight')) + 0
        /\ Cardinality(Opens(flight')) \in Nat
    BY UsbTaken
  <2> QED BY <1>1, <2>1 DEF UsbInv, AskedInv
<1> QED BY <1>2, <1>3, <1>4

\* It finds no device.
LEMMA UsbReceiveStray ==
    ASSUME UsbInv, NEW m, ReceiveStray(m)
    PROVE  UsbInv'
<1>1. /\ Receive(m, "request") /\ UNCHANGED <<portVars, state, tables, monVars, asks, srv, chan, over>>
      /\ UNCHANGED <<byChannel, reqs>> /\ UNCHANGED reqVars
  BY DEF ReceiveStray, tables, reqVars
<1>2. OnTheWayInv'
  <2>1. \A i \in 2 .. Len(flight) : flight[i].cmd = "request" => flight[i].req \in 1 .. Len(reqs)
    <3>1. \A i \in 2 .. Len(flight) : i \in 1 .. Len(flight)
      BY <1>1, UsbTaken
    <3> QED BY <3>1 DEF UsbInv, OnTheWayInv
  <2> QED BY <1>1, <2>1, UsbWayShorter
<1> QED BY <1>1, <1>2, UsbRequestTaken, Frames DEF UsbInv

\* A request is put to its device, and answered.
LEMMA UsbAnswered ==
    ASSUME NEW rs \in Seq(Requests), NEW q \in 1 .. Len(rs)
    PROVE  /\ Replied(rs, q) \in Seq(Requests) /\ Len(Replied(rs, q)) = Len(rs)
           /\ Replied(rs, q)[q].replies = rs[q].replies + 1
           /\ Replied(rs, q)[q].on = rs[q].on /\ Replied(rs, q)[q].dev = rs[q].dev
           /\ \A a \in 1 .. Len(rs) : a # q => Replied(rs, q)[a] = rs[a]
<1> DEFINE n == rs[q].replies + 1   x == [rs[q] EXCEPT !.replies = n]
<1>1. rs[q] \in Requests
  OBVIOUS
<1>2. n \in Nat
  BY <1>1 DEF Requests
<1> HIDE DEF n
<1>3. x \in Requests /\ x.replies = n /\ x.on = rs[q].on /\ x.dev = rs[q].dev
  BY <1>1, <1>2 DEF Requests
<1>4. Replied(rs, q) = [rs EXCEPT ![q] = x]
  BY DEF Replied, n
<1> HIDE DEF x
<1> QED BY <1>3, <1>4 DEF n

\* The request that is received is new, and it is the request of its device.
LEMMA UsbOnDevice ==
    ASSUME UsbInv, NEW m, Taken(m)
    PROVE  LET q == m.req IN
           /\ q \in 1 .. Len(reqs) /\ q # Nil /\ reqs[q].on = Nil /\ reqs[q].replies = 0
           /\ q \notin transfers /\ loop = Nil
           /\ On(m) \in Seq(Requests) /\ Len(On(m)) = Len(reqs)
           /\ On(m)[q].on = reqs[q].dev /\ On(m)[q].dev = reqs[q].dev /\ On(m)[q].on # Nil
           /\ On(m)[q].replies = 0
           /\ \A a \in 1 .. Len(reqs) : a # q => On(m)[a] = reqs[a]
<1> DEFINE q == m.req   b == byChannel[m.ch]   x == [reqs[q] EXCEPT !.on = b]
<1>1. Receive(m, "request") /\ chan[m.ch] # Nil /\ m.ch \in DOMAIN byChannel
  BY DEF Taken
<1>2. m = flight[1] /\ m.cmd = "request" /\ 1 \in 1 .. Len(flight) /\ loop = Nil
  BY <1>1, UsbTaken
<1>3. /\ q \in 1 .. Len(reqs) /\ reqs[q].on = Nil /\ b = reqs[q].dev
  BY <1>1, <1>2 DEF UsbInv, OnTheWayInv
<1>4. b \in DOMAIN dev /\ dev \in Seq(Devices)
  BY <1>1 DEF UsbInv, TablesInv
<1>5. b \in Nat /\ b # Nil
  BY <1>4 DEF Nil
<1>6. reqs \in Seq(Requests) /\ q \notin transfers /\ q # Nil
  BY <1>3 DEF UsbInv, RequestsInv, Nil
<1>7. reqs[q].replies = 0 /\ reqs[q] \in Requests
  BY <1>3, <1>6 DEF UsbInv, RequestsInv
<1> HIDE DEF b
<1>8. x \in Requests /\ x.on = b /\ x.dev = reqs[q].dev /\ x.replies = 0
  BY <1>5, <1>7 DEF Requests
<1>9. On(m) = [reqs EXCEPT ![q] = x]
  BY DEF On, b
<1> HIDE DEF x, q
<1>10. /\ On(m) \in Seq(Requests) /\ Len(On(m)) = Len(reqs) /\ On(m)[q] = x
       /\ \A a \in 1 .. Len(reqs) : a # q => On(m)[a] = reqs[a]
  BY <1>3, <1>6, <1>8, <1>9
<1> QED BY <1>2, <1>3, <1>5, <1>6, <1>7, <1>8, <1>10 DEF q

\* The requests behind it are others.
LEMMA UsbOthersWait ==
    ASSUME UsbInv, NEW m, Taken(m)
    PROVE  \A i \in 2 .. Len(flight) : flight[i].cmd = "request" =>
               flight[i].req \in 1 .. Len(reqs) /\ flight[i].req # m.req
<1>1. Receive(m, "request")
  BY DEF Taken
<1>2. m = flight[1] /\ m.cmd = "request" /\ 1 \in 1 .. Len(flight) /\ Len(flight) \in Nat
  BY <1>1, UsbTaken
<1>3. ASSUME NEW i \in 2 .. Len(flight), flight[i].cmd = "request"
      PROVE  flight[i].req \in 1 .. Len(reqs) /\ flight[i].req # m.req
  <2>1. i \in 1 .. Len(flight) /\ i # 1
    BY <1>2
  <2> QED BY <1>2, <1>3, <2>1 DEF UsbInv, OnTheWayInv
<1> QED BY <1>3

\* A control transfer occupies the receive loop.
LEMMA UsbReceiveSync ==
    ASSUME UsbInv, NEW m, ReceiveSync(m)
    PROVE  UsbInv'
<1> DEFINE q == m.req
<1>1. /\ Taken(m) /\ Receive(m, "request") /\ reqs' = On(m) /\ loop' = q
      /\ UNCHANGED <<portVars, state, tables, monVars, asks, srv, chan, over, byChannel, transfers>>
  BY DEF ReceiveSync, Taken, tables
<1>2. /\ q \in 1 .. Len(reqs) /\ q # Nil /\ q \notin transfers /\ loop = Nil
      /\ reqs' \in Seq(Requests) /\ Len(reqs') = Len(reqs)
      /\ reqs'[q].on = reqs[q].dev /\ reqs'[q].dev = reqs[q].dev /\ reqs'[q].on # Nil
      /\ reqs'[q].replies = 0
      /\ \A a \in 1 .. Len(reqs) : a # q => reqs'[a] = reqs[a]
  BY <1>1, UsbOnDevice
<1> HIDE DEF q
<1>3. RequestsInv'
  <2>1. /\ IsFiniteSet(transfers) /\ Cardinality(transfers) <= SemCap
        /\ \A a \in transfers : a \in 1 .. Len(reqs) /\ reqs[a].on # Nil /\ a # q
        /\ \A a \in 1 .. Len(reqs) :
              /\ reqs[a].on \in {Nil, reqs[a].dev} /\ a # Nil
              /\ reqs[a].replies = IF reqs[a].on = Nil \/ a \in transfers THEN 0 ELSE 1
    BY <1>2 DEF UsbInv, RequestsInv, Nil
  <2> QED BY <1>1, <1>2, <2>1 DEF RequestsInv
<1>4. OnTheWayInv'
  <2>1. \A i \in 2 .. Len(flight) : flight[i].cmd = "request" =>
            flight[i].req \in 1 .. Len(reqs') /\ reqs'[flight[i].req] = reqs[flight[i].req]
    BY <1>1, <1>2, UsbOthersWait DEF q
  <2> QED BY <1>1, <2>1, UsbWayShorter
<1>5. MonitorTypes' /\ TablesInv' /\ NetInv' /\ FlightInv' /\ AskedInv'
  BY <1>1, UsbRequestTaken
<1> QED BY <1>3, <1>4, <1>5 DEF UsbInv

\* A bulk or interrupt transfer gets a goroutine, or is rejected.
LEMMA UsbReceiveBulk ==
    ASSUME UsbInv, NEW m, ReceiveBulk(m)
    PROVE  UsbInv'
<1> DEFINE q == m.req
<1>1. /\ Taken(m) /\ Receive(m, "request")
      /\ UNCHANGED <<portVars, state, tables, monVars, asks, srv, chan, over, byChannel, loop>>
  BY DEF ReceiveBulk, Taken, tables
<1>2. /\ q \in 1 .. Len(reqs) /\ q # Nil /\ q \notin transfers /\ loop = Nil
      /\ On(m) \in Seq(Requests) /\ Len(On(m)) = Len(reqs)
      /\ On(m)[q].on = reqs[q].dev /\ On(m)[q].dev = reqs[q].dev /\ On(m)[q].on # Nil
      /\ On(m)[q].replies = 0
      /\ \A a \in 1 .. Len(reqs) : a # q => On(m)[a] = reqs[a]
  BY <1>1, UsbOnDevice
<1>3. \/ SemFree /\ reqs' = On(m) /\ transfers' = transfers \cup {q}
      \/ reqs' = Replied(On(m), q) /\ transfers' = transfers
  BY DEF ReceiveBulk
<1> HIDE DEF q
<1>4. /\ IsFiniteSet(transfers) /\ Cardinality(transfers) <= SemCap /\ Cardinality(transfers) \in Nat
      /\ \A a \in transfers : a \in 1 .. Len(reqs) /\ reqs[a].on # Nil /\ a # q
      /\ \A a \in 1 .. Len(reqs) :
            /\ reqs[a].on \in {Nil, reqs[a].dev} /\ a # Nil
            /\ reqs[a].replies = IF reqs[a].on = Nil \/ a \in transfers THEN 0 ELSE 1
  BY <1>2, FS_CardinalityType DEF UsbInv, RequestsInv, Nil
<1>5. CASE SemFree /\ reqs' = On(m) /\ transfers' = transfers \cup {q}
  <2>1. RequestsInv' /\ Len(reqs') = Len(reqs) /\ \A a \in 1 .. Len(reqs) : a # q => reqs'[a] = reqs[a]
    <3>1. IsFiniteSet(transfers') /\ Cardinality(transfers') = Cardinality(transfers) + 1
      BY <1>2, <1>4, <1>5, FS_AddElement
    <3>2. Cardinality(transfers') <= SemCap
      BY <1>4, <1>5, <3>1, UsbAssumption DEF SemFree, UsbAssumption
    <3>3. reqs' = On(m) /\ transfers' = transfers \cup {q} /\ loop' = Nil
      BY <1>1, <1>2, <1>5
    <3>4. /\ reqs' \in Seq(Requests) /\ Len(reqs') = Len(reqs)
          /\ reqs'[q].on = reqs'[q].dev /\ reqs'[q].on # Nil /\ reqs'[q].replies = 0
          /\ \A a \in 1 .. Len(reqs) : a # q => reqs'[a] = reqs[a]
      BY <1>2, <3>3
    <3> QED BY <1>2, <1>4, <3>1, <3>2, <3>3, <3>4 DEF RequestsInv
  <2>2. OnTheWayInv'
    <3>1. \A i \in 2 .. Len(flight) : flight[i].cmd = "request" =>
              flight[i].req \in 1 .. Len(reqs') /\ reqs'[flight[i].req] = reqs[flight[i].req]
      BY <1>1, <2>1, UsbOthersWait DEF q
    <3> QED BY <1>1, <3>1, UsbWayShorter
  <2> QED BY <1>1, <2>1, <2>2, UsbRequestTaken DEF UsbInv
<1>6. CASE reqs' = Replied(On(m), q) /\ transfers' = transfers
  <2>1. /\ reqs' \in Seq(Requests) /\ Len(reqs') = Len(reqs)
        /\ reqs'[q].on = reqs'[q].dev /\ reqs'[q].on # Nil /\ reqs'[q].replies = 0 + 1
        /\ \A a \in 1 .. Len(reqs) : a # q => reqs'[a] = reqs[a]
    <3> DEFINE rs == On(m)
    <3>1. rs \in Seq(Requests) /\ q \in 1 .. Len(rs) /\ reqs' = Replied(rs, q)
      BY <1>2, <1>6
    <3> HIDE DEF rs
    <3>2. /\ reqs' \in Seq(Requests) /\ Len(reqs') = Len(rs)
          /\ reqs'[q].replies = rs[q].replies + 1
          /\ reqs'[q].on = rs[q].on /\ reqs'[q].dev = rs[q].dev
          /\ \A a \in 1 .. Len(rs) : a # q => reqs'[a] = rs[a]
      BY <3>1, UsbAnswered
    <3> QED BY <1>2, <3>2 DEF rs
  <2>2. RequestsInv'
    <3>1. transfers' = transfers /\ loop' = Nil
      BY <1>1, <1>2, <1>6
    <3> QED BY <1>2, <1>4, <2>1, <3>1 DEF RequestsInv
  <2>3. OnTheWayInv'
    <3>1. \A i \in 2 .. Len(flight) : flight[i].cmd = "request" =>
              flight[i].req \in 1 .. Len(reqs') /\ reqs'[flight[i].req] = reqs[flight[i].req]
      BY <1>1, <2>1, UsbOthersWait DEF q
    <3> QED BY <1>1, <3>1, UsbWayShorter
  <2> QED BY <1>1, <2>2, <2>3, UsbRequestTaken DEF UsbInv
<1> QED BY <1>3, <1>5, <1>6

\* A request under way is answered, and no other changes.
LEMMA UsbEnds ==
    ASSUME UsbInv, NEW q \in 1 .. Len(reqs), reqs' = Replied(reqs, q), reqs[q].on # Nil,
           reqs[q].replies = 0,
           \/ q = loop /\ loop' = Nil /\ transfers' = transfers
           \/ q \in transfers /\ transfers' = transfers \ {q} /\ loop' = loop,
           UNCHANGED <<portVars, state, tables, monVars, netVars, over>>
    PROVE  UsbInv'
<1>1. UNCHANGED <<plug, plugs, dev, byChannel, pending, srv, flight, chan, asks>>
  BY DEF portVars, tables, netVars
<1>2. RequestsInv /\ OnTheWayInv
  BY DEF UsbInv
<1>3. /\ reqs' \in Seq(Requests) /\ Len(reqs') = Len(reqs)
      /\ reqs'[q].replies = 1
      /\ reqs'[q].on = reqs[q].on /\ reqs'[q].dev = reqs[q].dev
      /\ \A a \in 1 .. Len(reqs) : a # q => reqs'[a] = reqs[a]
  <2>1. reqs \in Seq(Requests) /\ 0 + 1 = 1
    BY <1>2 DEF RequestsInv
  <2> QED BY <2>1, UsbAnswered
<1>4. RequestsInv'
  <2>1. /\ loop # Nil => loop \in 1 .. Len(reqs) /\ reqs[loop].on # Nil
        /\ IsFiniteSet(transfers) /\ Cardinality(transfers) <= SemCap
        /\ \A a \in transfers : a \in 1 .. Len(reqs) /\ reqs[a].on # Nil /\ a # loop
        /\ \A a \in 1 .. Len(reqs) :
              /\ reqs[a].on \in {Nil, reqs[a].dev} /\ a # Nil
              /\ reqs[a].replies = IF reqs[a].on = Nil \/ a = loop \/ a \in transfers THEN 0 ELSE 1
    BY <1>2 DEF RequestsInv, Nil
  <2>2. IsFiniteSet(transfers') /\ Cardinality(transfers') <= SemCap
    <3>1. transfers' \in SUBSET transfers
      OBVIOUS
    <3>2. IsFiniteSet(transfers') /\ Cardinality(transfers') <= Cardinality(transfers)
          /\ Cardinality(transfers) \in Nat /\ Cardinality(transfers') \in Nat
      BY <2>1, <3>1, FS_Subset, FS_CardinalityType
    <3> QED BY <2>1, <3>2, UsbAssumption DEF UsbAssumption
  <2>3. /\ loop' # Nil => loop' \in 1 .. Len(reqs') /\ reqs'[loop'].on # Nil
        /\ \A a \in transfers' : a \in 1 .. Len(reqs') /\ reqs'[a].on # Nil /\ a # loop'
    BY <1>3, <2>1
  <2>4. ASSUME NEW a \in 1 .. Len(reqs)
        PROVE  /\ reqs'[a].on \in {Nil, reqs'[a].dev}
               /\ reqs'[a].replies =
                      IF reqs'[a].on = Nil \/ a = loop' \/ a \in transfers' THEN 0 ELSE 1
    <3>1. CASE a = q
      BY <1>3, <2>1, <3>1
    <3>2. CASE a # q
      <4>1. (a = loop' <=> a = loop) /\ (a \in transfers' <=> a \in transfers)
        BY <2>1, <3>2
      <4> QED BY <1>3, <2>1, <3>2, <4>1
    <3> QED BY <3>1, <3>2
  <2> QED BY <1>3, <2>2, <2>3, <2>4 DEF RequestsInv
<1>5. OnTheWayInv'
  <2>1. \A a \in 1 .. Len(reqs) : reqs'[a].on = reqs[a].on /\ reqs'[a].dev = reqs[a].dev
    BY <1>3
  <2> QED BY <1>1, <1>2, <1>3, <2>1 DEF OnTheWayInv
<1> QED BY <1>1, <1>4, <1>5, Frames DEF UsbInv

\* The loop's transfer ends.
LEMMA UsbSyncEnds ==
    ASSUME UsbInv, SyncEnds
    PROVE  UsbInv'
<1>1. /\ loop # Nil /\ reqs' = Replied(reqs, loop) /\ loop' = Nil /\ transfers' = transfers
      /\ UNCHANGED <<portVars, state, tables, monVars, netVars, over>>
  BY DEF SyncEnds
<1>2. loop \in 1 .. Len(reqs) /\ reqs[loop].on # Nil /\ reqs[loop].replies = 0
  BY <1>1 DEF UsbInv, RequestsInv
<1> QED BY <1>1, <1>2, UsbEnds

\* A goroutine's transfer ends.
LEMMA UsbTransferEnds ==
    ASSUME UsbInv, NEW q, TransferEnds(q)
    PROVE  UsbInv'
<1>1. /\ q \in transfers /\ reqs' = Replied(reqs, q) /\ transfers' = transfers \ {q} /\ loop' = loop
      /\ UNCHANGED <<portVars, state, tables, monVars, netVars, over>>
  BY DEF TransferEnds
<1>2. q \in 1 .. Len(reqs) /\ reqs[q].on # Nil /\ reqs[q].replies = 0
  BY <1>1 DEF UsbInv, RequestsInv
<1> QED BY <1>1, <1>2, UsbEnds

\* The handler is closed, and with it every device.
LEMMA UsbClose ==
    ASSUME UsbInv, Close
    PROVE  UsbInv'
<1> DEFINE D == Range(devices)   n == Len(dev)
<1>1. /\ over' = TRUE /\ monitorOn' = FALSE
      /\ dev' = [d \in DOMAIN dev |-> IF d \in D THEN [dev[d] EXCEPT !.open = FALSE] ELSE dev[d]]
      /\ UNCHANGED <<plug, plugs, state, devices, known, pending, byChannel, mon, srv, flight, chan,
                     asks, reqs>>
      /\ UNCHANGED reqVars
  BY DEF Close, portVars, netVars, reqVars
<1>2. MonitorTypes /\ TablesInv /\ TablesAgree /\ NetInv
  BY DEF UsbInv, TablesInv
<1> HIDE DEF D
<1>3. n \in Nat /\ DOMAIN dev = 1 .. n /\ \A d \in 1 .. n : dev[d] \in Devices
  BY <1>2 DEF TablesInv
<1> HIDE DEF n
<1>4. /\ DOMAIN dev' = DOMAIN dev /\ dev' \in Seq(Devices)
      /\ \A d \in DOMAIN dev : /\ dev'[d].port = dev[d].port /\ dev'[d].ch = dev[d].ch
                               /\ dev'[d].on = dev[d].on
  <2>1. \A d \in 1 .. n : dev'[d] = IF d \in D THEN [dev[d] EXCEPT !.open = FALSE] ELSE dev[d]
    BY <1>1, <1>3
  <2>2. ASSUME NEW d \in 1 .. n
        PROVE  /\ dev'[d] \in Devices /\ dev'[d].port = dev[d].port /\ dev'[d].ch = dev[d].ch
               /\ dev'[d].on = dev[d].on
    <3>1. dev[d] \in Devices
      BY <1>3
    <3>2. CASE d \in D
      <4>1. dev'[d] = [dev[d] EXCEPT !.open = FALSE]
        BY <2>1, <3>2
      <4> QED BY <3>1, <4>1 DEF Devices
    <3>3. CASE d \notin D
      BY <2>1, <3>1, <3>3
    <3> QED BY <3>2, <3>3
  <2>3. dev' = [d \in 1 .. n |-> dev'[d]]
    BY <1>1, <1>3
  <2>4. dev' \in Seq(Devices)
    BY <1>3, <2>2, <2>3
  <2>5. DOMAIN dev' = 1 .. n
    BY <2>3
  <2> QED BY <1>3, <2>2, <2>4, <2>5
<1>5. TablesAgree'
  <2>1. \A d \in Range(pending) : d \in DOMAIN dev /\ dev[d].ch = Nil
    BY <1>2 DEF TablesAgree, TablesInv
  <2>2. \A d \in Range(pending) : dev'[d].ch = Nil
    BY <1>4, <2>1
  <2>3. /\ Range(devices) = Range(known) \ {Nil} /\ Range(pending) \subseteq Range(devices)
        /\ IsInjective(pending)
    BY <1>2 DEF TablesAgree
  <2> QED BY <1>1, <2>2, <2>3 DEF TablesAgree
<1>6. TablesInv'
  <2>1. \A p \in DOMAIN known' : known'[p] # Nil => known'[p] \in DOMAIN dev' /\ dev'[known'[p]].port = p
    BY <1>1, <1>2, <1>4 DEF TablesInv
  <2>2. \A d \in DOMAIN dev' : dev'[d].on => dev'[d].ch # Nil
    BY <1>2, <1>4 DEF TablesInv
  <2>3. \A e \in DOMAIN byChannel' : byChannel'[e] \in DOMAIN dev' /\ dev'[byChannel'[e]].ch = e
    BY <1>1, <1>2, <1>4 DEF TablesInv
  <2>4. state' = "channelIn" => pending' = <<>> /\ \A d \in DOMAIN dev' : dev'[d].ch = Nil
    BY <1>1, <1>2, <1>4 DEF TablesInv
  <2> QED BY <1>1, <1>2, <1>4, <1>5, <2>1, <2>2, <2>3, <2>4 DEF TablesInv
<1>7. NetInv'
  BY <1>1, <1>2, <1>4 DEF NetInv
<1>8. MonitorTypes'
  BY <1>1, <1>2 DEF MonitorTypes
<1> QED BY <1>1, <1>6, <1>7, <1>8, Frames DEF UsbInv

\* Every step keeps it.
LEMMA UsbNext == UsbInv /\ [Next]_usbVars => UsbInv'
<1> SUFFICES ASSUME UsbInv, [Next]_usbVars PROVE UsbInv'
  OBVIOUS
<1>1. CASE UNCHANGED usbVars
  <2>1. /\ UNCHANGED <<plug, plugs, state, monVars, over>> /\ UNCHANGED <<tables, over, state>>
        /\ UNCHANGED <<srv, chan, dev, byChannel, over>> /\ UNCHANGED <<flight, srv>>
        /\ UNCHANGED <<asks, pending, flight>> /\ UNCHANGED reqVars
        /\ UNCHANGED <<flight, reqs, chan, byChannel>>
    BY <1>1 DEF usbVars, portVars, tables, netVars, reqVars
  <2> QED BY <2>1, Frames DEF UsbInv
<1>2. CASE \/ \E p \in Ports : PlugIn(p) \/ Unplug(p) \/ Open(p)
           \/ Scan \/ PollEnds \/ MonitorExits
  BY <1>2, UsbQuietSteps
<1>3. ASSUME NEW p \in Ports, AddDevice(p) PROVE UsbInv'
  BY <1>3, UsbAddDevice
<1>4. CASE ControlRelease \/ Diff \/ Register
  BY <1>4, UsbControlRelease, UsbDiff, UsbRegister
<1>5. ASSUME NEW c \in Chans, ServerOpens(c) \/ ServerCloses(c) \/ ServerRequests(c) PROVE UsbInv'
  BY <1>5, UsbServerOpens, UsbServerCloses, UsbServerRequests
<1>6. ASSUME NEW m, ReceiveOpen(m) \/ ReceiveClose(m) \/ ReceiveStray(m) PROVE UsbInv'
  BY <1>6, UsbReceiveOpen, UsbReceiveClose, UsbReceiveStray
<1>7. ASSUME NEW m, ReceiveSync(m) \/ ReceiveBulk(m) PROVE UsbInv'
  BY <1>7, UsbReceiveSync, UsbReceiveBulk
<1>8. CASE SyncEnds \/ Close
  BY <1>8, UsbSyncEnds, UsbClose
<1>9. ASSUME NEW q, TransferEnds(q) PROVE UsbInv'
  BY <1>9, UsbTransferEnds
<1> QED BY <1>1, <1>2, <1>3, <1>4, <1>5, <1>6, <1>7, <1>8, <1>9 DEF Next

\* In every behaviour.
LEMMA UsbAlways == Spec => []UsbInv
BY UsbInit, UsbNext, PTL DEF Spec

\* The handler's tables, the channels and the server's view of them stay in step, for any
\* number of ports, channels, devices and openings: a device is open as long as it is listed
\* and known, a device that waits has a channel on its way, and the server has no open
\* channel to a device that is closed (urbdrc.go, hotplug.go).
THEOREM TablesAlwaysFaithful == Spec => []TablesFaithful
<1>1. ASSUME UsbInv PROVE TablesFaithful
  <2>1. TablesAgree /\ Range(devices) \subseteq DOMAIN dev /\ Range(pending) \subseteq DOMAIN dev
    BY <1>1 DEF UsbInv, TablesInv, TablesAgree
  <2>2. NoGhosts
    BY <1>1 DEF UsbInv, NetInv, NoGhosts
  <2>3. NobodyStranded
    BY <1>1 DEF UsbInv, AskedInv, NobodyStranded, Opens
  <2>4. mon.at \in {"off", "wait", "scanned", "open"} /\ mon.hand \in Ports \cup {NoPort}
    BY <1>1 DEF UsbInv, MonitorTypes
  <2>5. \A c \in Chans : srv[c].st \in {"none", "opening", "open"}
    BY <1>1 DEF UsbInv, NetInv
  <2>6. /\ Cardinality(transfers) <= SemCap /\ transfers \subseteq DOMAIN reqs
        /\ loop \in {Nil} \cup DOMAIN reqs
    BY <1>1 DEF UsbInv, RequestsInv
  <2>7. TypeOK
    BY <1>1, <2>1, <2>4, <2>5, <2>6 DEF UsbInv, MonitorTypes, TablesInv, AskedInv, TypeOK
  <2> QED BY <2>1, <2>2, <2>3, <2>7 DEF TablesFaithful
<1> QED BY <1>1, UsbAlways, PTL

\* A request runs on the device the server sent it to, or on none, although channel IDs are
\* used again and the tables keep old entries; and it is completed once (transfer.go).
THEOREM RequestsAlwaysOnce == Spec => []RequestsOnce
<1>1. ASSUME UsbInv PROVE RequestsOnce
  <2>1. DOMAIN reqs = 1 .. Len(reqs)
    BY <1>1 DEF UsbInv, RequestsInv
  <2> QED BY <1>1, <2>1 DEF UsbInv, RequestsInv, RequestsOnce, RunsOnTold, CompletedOnce
<1> QED BY <1>1, UsbAlways, PTL
==============================================================================
