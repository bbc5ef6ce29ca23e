---------------------------- MODULE ViewersProofs ----------------------------
(***************************************************************************)
(* Proofs about the viewers of MCViewers: what a browser, a tab for each   *)
(* monitor and a native window show, for every number of tabs, monitors,   *)
(* frames, resizes and batches they may be behind.                         *)
(***************************************************************************)
EXTENDS MCViewers, Integers, Sequences, SequenceTheorems, FiniteSetTheorems,
        WellFoundedInduction, TLAPS

(***************************************************************************)
(* Monitors in a row.  LeftOf is a recursive function: that it exists, and  *)
(* what it adds up to, follows from the least number that would not do.     *)
(***************************************************************************)
\* A set of naturals has a least member.
LEMMA LeastNatural ==
    ASSUME NEW T, T \subseteq Nat, T # {}
    PROVE  \E x \in T : \A y \in T : x <= y
<1> DEFINE R == OpToRel(<, Nat)
<1>1. IsWellFoundedOn(R, Nat)
  BY NatLessThanWellFounded
<1>2. \A x, y \in Nat : <<y, x>> \in R <=> y < x
  BY DEF OpToRel
<1> HIDE DEF R
<1>3. \E x \in T : \A y \in T : ~ (<<y, x>> \in R)
  BY <1>1, WFMin
<1>4. PICK x \in T : \A y \in T : ~ (<<y, x>> \in R)
  BY <1>3
<1>5. \A y \in T : ~ (y < x)
  BY <1>2, <1>4
<1>6. \A y \in T : x <= y
  BY <1>5
<1> QED BY <1>6

\* A set that has zero, and with a number the next one, has every natural number.
LEMMA EveryNatural ==
    ASSUME NEW S, 0 \in S, \A n \in Nat : n \in S => n + 1 \in S
    PROVE  Nat \subseteq S
<1> DEFINE T == Nat \ S
<1>1. SUFFICES ASSUME T # {} PROVE FALSE
  OBVIOUS
<1>2. PICK x \in T : \A y \in T : x <= y
  BY <1>1, LeastNatural
<1>3. x # 0 /\ x - 1 \in Nat /\ x - 1 \notin T
  BY <1>2
<1>4. x - 1 \in S /\ (x - 1) + 1 = x
  BY <1>3
<1> QED BY <1>3, <1>4

\* The sums that LeftOf is made of.
RowStep(w, f, i) == IF i = 0 THEN 0 ELSE f[i - 1] + w[i]
IsRow(w, f, n) == f = [i \in 0 .. n |-> RowStep(w, f, i)]
RowOf(w, n) == CHOOSE f : IsRow(w, f, n)

\* The function that LeftOf defines exists.
LEMMA RowExists ==
    ASSUME NEW w, NEW n \in Nat
    PROVE  IsRow(w, RowOf(w, n), n)
<1> DEFINE S == {k \in Nat : \E f : IsRow(w, f, k)}
<1>1. 0 \in S
  <2>1. IsRow(w, [i \in 0 .. 0 |-> 0], 0)
    BY DEF IsRow, RowStep
  <2> QED BY <2>1
<1>2. ASSUME NEW k \in Nat, k \in S PROVE k + 1 \in S
  <2>1. PICK f : IsRow(w, f, k)
    BY <1>2
  <2> DEFINE e == RowStep(w, f, k + 1)
             g == [i \in 0 .. k + 1 |-> IF i = k + 1 THEN e ELSE f[i]]
  <2>2. \A i \in 0 .. k : f[i] = RowStep(w, f, i)
    BY <2>1 DEF IsRow
  <2> HIDE DEF e
  <2>3. (\A i \in 0 .. k : g[i] = f[i]) /\ g[k + 1] = e
    OBVIOUS
  <2> HIDE DEF g
  <2>4. ASSUME NEW i \in 0 .. k + 1 PROVE g[i] = RowStep(w, g, i)
    <3>1. CASE i = k + 1
      <4>1. g[i - 1] = f[i - 1] /\ i # 0
        BY <2>3, <3>1
      <4> QED BY <2>3, <3>1, <4>1 DEF e, RowStep
    <3>2. CASE i = 0
      <4>1. 0 \in 0 .. k /\ f[0] = RowStep(w, f, 0) /\ g[0] = f[0]
        BY <2>2, <2>3
      <4> QED BY <3>2, <4>1 DEF RowStep
    <3>3. CASE i \in 1 .. k
      <4>1. i \in 0 .. k /\ i - 1 \in 0 .. k
        BY <3>3
      <4>2. g[i] = f[i] /\ g[i - 1] = f[i - 1]
        BY <2>3, <4>1
      <4> QED BY <2>2, <4>1, <4>2 DEF RowStep
    <3> QED BY <3>1, <3>2, <3>3
  <2>5. g = [i \in 0 .. k + 1 |-> g[i]]
    BY DEF g
  <2>6. IsRow(w, g, k + 1)
    BY <2>4, <2>5 DEF IsRow
  <2> QED BY <2>6
<1>3. n \in S
  <2> HIDE DEF S
  <2> QED BY <1>1, <1>2, EveryNatural
<1> QED BY <1>3 DEF RowOf

\* Rows of other lengths agree as far as both go.
LEMMA RowsAgree ==
    ASSUME NEW w, NEW n \in Nat, NEW k \in Nat, NEW i \in Nat, i <= n, i <= k
    PROVE  RowOf(w, n)[i] = RowOf(w, k)[i]
<1> DEFINE f == RowOf(w, n)
           g == RowOf(w, k)
           S == {j \in Nat : j <= n /\ j <= k => f[j] = g[j]}
<1>1. /\ \A j \in 0 .. n : f[j] = RowStep(w, f, j)
      /\ \A j \in 0 .. k : g[j] = RowStep(w, g, j)
  BY RowExists DEF IsRow
<1> HIDE DEF f, g
<1>2. 0 \in S
  BY <1>1 DEF RowStep
<1>3. ASSUME NEW j \in Nat, j \in S PROVE j + 1 \in S
  <2> SUFFICES ASSUME j + 1 <= n, j + 1 <= k PROVE f[j + 1] = g[j + 1]
    OBVIOUS
  <2>1. f[j] = g[j] /\ j + 1 \in 0 .. n /\ j + 1 \in 0 .. k /\ j + 1 # 0 /\ (j + 1) - 1 = j
    BY <1>3
  <2>2. f[j + 1] = RowStep(w, f, j + 1) /\ g[j + 1] = RowStep(w, g, j + 1)
    BY <1>1, <2>1
  <2>3. RowStep(w, f, j + 1) = f[j] + w[j + 1] /\ RowStep(w, g, j + 1) = g[j] + w[j + 1]
    BY <2>1 DEF RowStep
  <2> QED BY <2>1, <2>2, <2>3
<1>4. i \in S
  <2> HIDE DEF S
  <2> QED BY <1>2, <1>3, EveryNatural
<1> QED BY <1>4 DEF f, g

\* The place of monitor m.
Place(w, m) == RowOf(w, m - 1)[m - 1]

\* The place of a monitor in the modules of the viewers.
LEMMA PlaceIsLeftOf ==
    ASSUME NEW w, NEW m
    PROVE  Dispatcher!LeftOf(w, m) = Place(w, m) /\ Gui!LeftOf(w, m) = Place(w, m)
BY DEF Dispatcher!LeftOf, Gui!LeftOf, Place, RowOf, IsRow, RowStep

\* The first monitor stands at 0, each of the others at the end of the one before.
LEMMA PlaceNext ==
    ASSUME NEW w
    PROVE  /\ Place(w, 1) = 0
           /\ \A m \in Nat \ {0} : Place(w, m + 1) = Place(w, m) + w[m]
<1>1. Place(w, 1) = 0
  <2>1. RowOf(w, 0)[0] = RowStep(w, RowOf(w, 0), 0)
    BY RowExists DEF IsRow
  <2> QED BY <2>1 DEF Place, RowStep
<1>2. ASSUME NEW m \in Nat \ {0} PROVE Place(w, m + 1) = Place(w, m) + w[m]
  <2> DEFINE f == RowOf(w, m)
  <2>1. m + 1 - 1 = m /\ m \in 0 .. m /\ m # 0 /\ m - 1 \in Nat /\ m - 1 <= m
    OBVIOUS
  <2>2. f[m] = RowStep(w, f, m)
    BY <2>1, RowExists DEF IsRow
  <2>3. f[m - 1] = RowOf(w, m - 1)[m - 1]
    BY <2>1, RowsAgree
  <2> HIDE DEF f
  <2>4. f[m] = f[m - 1] + w[m]
    BY <2>1, <2>2 DEF RowStep
  <2> QED BY <2>1, <2>3, <2>4 DEF Place, f
<1> QED BY <1>1, <1>2

\* What a row of N monitors no wider than MaxWidth comes to.
N == Cardinality(Mons)
Widths == [Mons -> 0 .. MaxWidth]

\* The monitors are numbered from 1.
LEMMA MonsFacts == N \in Nat /\ Mons = 1 .. N /\ MaxWidth \in Nat /\ MaxWidth > 0 /\ 0 \notin Tabs
<1>1. N \in Nat
  BY ViewersAssumption, FS_CardinalityType DEF ViewersAssumption, N
<1> QED BY <1>1, ViewersAssumption DEF ViewersAssumption, N

\* A monitor ends within the room of N monitors of the greatest width.
LEMMA PlaceInRow ==
    ASSUME NEW w \in Widths, NEW m \in Mons
    PROVE  Place(w, m) \in Nat /\ Place(w, m) + w[m] <= N * MaxWidth
<1> USE MonsFacts
<1> DEFINE S == {i \in Nat : i < N => Place(w, i + 1) \in Nat /\ Place(w, i + 1) <= i * MaxWidth}
<1>1. 0 \in S
  BY PlaceNext
<1>2. ASSUME NEW i \in Nat, i \in S PROVE i + 1 \in S
  <2> SUFFICES ASSUME i + 1 < N
               PROVE  Place(w, i + 2) \in Nat /\ Place(w, i + 2) <= (i + 1) * MaxWidth
    OBVIOUS
  <2>1. Place(w, i + 1) \in Nat /\ Place(w, i + 1) <= i * MaxWidth /\ i + 1 \in Mons /\ i + 1 \in Nat \ {0}
    BY <1>2
  <2>2. Place(w, i + 2) = Place(w, i + 1) + w[i + 1]
    <3> DEFINE k == i + 1
    <3>1. k \in Nat \ {0} /\ k + 1 = i + 2
      OBVIOUS
    <3> HIDE DEF k
    <3>2. Place(w, k + 1) = Place(w, k) + w[k]
      BY <3>1, PlaceNext
    <3>3. Place(w, i + 2) = Place(w, k) + w[k]
      BY <3>1, <3>2
    <3> QED BY <3>3 DEF k
  <2>3. w[i + 1] \in 0 .. MaxWidth
    BY <2>1 DEF Widths
  <2>4. (i + 1) * MaxWidth = i * MaxWidth + MaxWidth /\ i * MaxWidth \in Nat
    OBVIOUS
  <2> HIDE DEF S
  <2> QED BY <2>1, <2>2, <2>3, <2>4
<1>3. m - 1 \in Nat /\ m - 1 < N /\ (m - 1) + 1 = m
  OBVIOUS
<1>4. m - 1 \in S
  <2> HIDE DEF S
  <2> QED BY <1>1, <1>2, <1>3, EveryNatural
<1>5. Place(w, m) \in Nat /\ Place(w, m) <= (m - 1) * MaxWidth
  BY <1>3, <1>4
<1>6. w[m] \in 0 .. MaxWidth
  BY DEF Widths
<1>7. (m - 1) * MaxWidth + MaxWidth = m * MaxWidth /\ m * MaxWidth <= N * MaxWidth
      /\ (m - 1) * MaxWidth \in Nat /\ m * MaxWidth \in Nat /\ N * MaxWidth \in Nat
  <2> DEFINE d == N - m
  <2>1. d \in Nat /\ N = m + d /\ m \in Nat /\ m - 1 \in Nat
    OBVIOUS
  <2>2. (m + d) * MaxWidth = m * MaxWidth + d * MaxWidth /\ d * MaxWidth \in Nat
    BY <2>1
  <2> QED BY <2>1, <2>2
<1> QED BY <1>5, <1>6, <1>7

\* No two monitors overlap.
LEMMA PlacesApart ==
    ASSUME NEW w \in Widths, NEW m \in Mons, NEW k \in Mons, m < k
    PROVE  Place(w, m) + w[m] <= Place(w, k)
<1> USE MonsFacts
<1> DEFINE S == {i \in Nat : m + i + 1 <= N => Place(w, m) + w[m] <= Place(w, m + i + 1)}
<1>1. 0 \in S
  <2>1. Place(w, m + 0 + 1) = Place(w, m) + w[m]
    BY PlaceNext
  <2>2. Place(w, m) \in Nat /\ w[m] \in Nat
    BY PlaceInRow DEF Widths
  <2> QED BY <2>1, <2>2
<1>2. ASSUME NEW i \in Nat, i \in S PROVE i + 1 \in S
  <2> SUFFICES ASSUME m + i + 2 <= N
               PROVE  Place(w, m) + w[m] <= Place(w, m + i + 2)
    OBVIOUS
  <2>1. Place(w, m) + w[m] <= Place(w, m + i + 1) /\ m + i + 1 \in Mons /\ m + i + 1 \in Nat \ {0}
    BY <1>2
  <2>2. Place(w, m + i + 2) = Place(w, m + i + 1) + w[m + i + 1]
    <3> DEFINE j == m + i + 1
    <3>1. j \in Nat \ {0} /\ j + 1 = m + i + 2
      BY <2>1
    <3> HIDE DEF j
    <3>2. Place(w, j + 1) = Place(w, j) + w[j]
      BY <3>1, PlaceNext
    <3>3. Place(w, m + i + 2) = Place(w, j) + w[j]
      BY <3>1, <3>2
    <3> QED BY <3>3 DEF j
  <2>3. w[m + i + 1] \in Nat /\ w[m] \in Nat /\ Place(w, m) \in Nat /\ Place(w, m + i + 1) \in Nat
    BY <2>1, PlaceInRow DEF Widths
  <2> HIDE DEF S
  <2> QED BY <2>1, <2>2, <2>3
<1>3. k - m - 1 \in Nat /\ m + (k - m - 1) + 1 = k
  OBVIOUS
<1>4. k - m - 1 \in S
  <2> HIDE DEF S
  <2> QED BY <1>1, <1>2, <1>3, EveryNatural
<1> QED BY <1>3, <1>4

(***************************************************************************)
(* The web viewer of one monitor.                                          *)
(***************************************************************************)
\* What a frame or a batch holds: some cells, each as often painted as it says.
Batches == UNION {[D -> Nat] : D \in SUBSET Web!Regions}
WebPlaces == {"new", "connect", "gone", "refresh", "begin", "end", "bitmap", "run"}
WebTab ==
    [at : WebPlaces, done : BOOLEAN, inPaint : BOOLEAN, frameBatch : Batches,
     queue : Seq([cells : Batches, whole : BOOLEAN]),
     dropped : BOOLEAN, whole : BOOLEAN, pic : [Web!Regions -> Nat]]

WebTypes ==
    /\ webTab \in [Tabs -> WebTab]
    /\ cb \in [{"begin", "end", "bitmap"} -> Tabs \cup {0}]
    /\ version \in Nat /\ wire \in 0 .. 3

\* The whole desktop when it has been painted v times.
Desktop(v) == [p \in Web!Regions |-> v]

\* What the tab shows when it has received all it will receive.
WillShow(s) == IF s.queue = <<>> THEN s.pic ELSE s.queue[Len(s.queue)].cells

\* A tab that has held all three callbacks since the frame began has in its frame
\* what was painted of it, and shows the desktop once it has ended.
WholeTab(t, s, held, v, w) ==
    s.whole =>
        /\ \A e \in {"begin", "end", "bitmap"} : held[e] = t
        /\ s.inPaint <=> w # 0
        /\ w # 0 => s.frameBatch = [p \in 1 .. w - 1 |-> v]
        /\ w = 0 /\ ~s.dropped => WillShow(s) = Desktop(v)

WholeQueue(s) ==
    \A i \in DOMAIN s.queue : s.queue[i].whole => DOMAIN s.queue[i].cells = Web!Regions

WebInv ==
    /\ WebTypes
    /\ \A t \in Tabs : WholeTab(t, webTab[t], cb, version, wire) /\ WholeQueue(webTab[t])

\* sendBatch appends the batch, or drops it.
LEMMA SentBatch ==
    ASSUME NEW s \in WebTab, NEW batch \in Batches,
           s.whole => DOMAIN batch = Web!Regions, WholeQueue(s)
    PROVE  LET n == Web!Sent(s, batch)
           IN /\ n \in WebTab /\ WholeQueue(n)
              /\ n.whole = s.whole /\ n.inPaint = s.inPaint /\ n.frameBatch = s.frameBatch
              /\ n.dropped \/ WillShow(n) = batch
<1> DEFINE entry == [cells |-> batch, whole |-> s.whole]
           n == Web!Sent(s, batch)
<1>1. entry \in [cells : Batches, whole : BOOLEAN] /\ entry.cells = batch /\ entry.whole = s.whole
  BY DEF WebTab
<1>2. CASE Len(s.queue) < MaxBehind
  <2> HIDE DEF entry
  <2>1. n = [s EXCEPT !.queue = Append(s.queue, entry)]
    BY <1>2 DEF Web!Sent, entry
  <2>2. s.queue \in Seq([cells : Batches, whole : BOOLEAN])
    BY DEF WebTab
  <2> DEFINE q == Append(s.queue, entry)
  <2>3. /\ q \in Seq([cells : Batches, whole : BOOLEAN]) /\ Len(q) = Len(s.queue) + 1
        /\ q[Len(q)] = entry /\ q # <<>>
        /\ \A i \in DOMAIN q : (i \in DOMAIN s.queue /\ q[i] = s.queue[i]) \/ q[i] = entry
    BY <1>1, <2>2
  <2> HIDE DEF q
  <2>4. /\ n \in WebTab /\ n.queue = q
        /\ n.whole = s.whole /\ n.inPaint = s.inPaint /\ n.frameBatch = s.frameBatch
    BY <2>1, <2>3 DEF WebTab, q
  <2>5. WholeQueue(n)
    BY <1>1, <2>3, <2>4 DEF WholeQueue
  <2>6. WillShow(n) = batch
    BY <1>1, <2>3, <2>4 DEF WillShow
  <2> QED BY <2>4, <2>5, <2>6
<1>3. CASE ~(Len(s.queue) < MaxBehind)
  <2>1. n = [s EXCEPT !.dropped = TRUE]
    BY <1>3 DEF Web!Sent
  <2>2. /\ n \in WebTab /\ n.queue = s.queue /\ n.dropped
        /\ n.whole = s.whole /\ n.inPaint = s.inPaint /\ n.frameBatch = s.frameBatch
    BY <2>1 DEF WebTab
  <2> QED BY <2>2 DEF WholeQueue
<1> QED BY <1>2, <1>3

\* An image laid over a frame.
LEMMA LaidOver ==
    ASSUME NEW image \in Batches, NEW frame \in Batches
    PROVE  /\ Web!Over(image, frame) \in Batches
           /\ DOMAIN Web!Over(image, frame) = DOMAIN image \cup DOMAIN frame
<1>1. PICK D \in SUBSET Web!Regions : image \in [D -> Nat]
  BY DEF Batches
<1>2. PICK E \in SUBSET Web!Regions : frame \in [E -> Nat]
  BY DEF Batches
<1>3. Web!Over(image, frame) \in [D \cup E -> Nat]
  BY <1>1, <1>2 DEF Web!Over
<1> QED BY <1>1, <1>2, <1>3 DEF Batches

\* One callback of the tab s: what a bitmap makes of it.
LEMMA BitmapStep ==
    ASSUME WebTypes, NEW t \in Tabs, NEW s \in WebTab, NEW image \in Batches,
           WholeTab(t, s, cb, version, wire), WholeQueue(s),
           ~s.inPaint /\ s.whole => DOMAIN image = Web!Regions
    PROVE  LET n == Web!Bitmap(s, image)
           IN /\ n \in WebTab /\ WholeQueue(n)
              /\ n.whole = s.whole /\ n.inPaint = s.inPaint
              /\ s.inPaint => n.frameBatch = Web!Over(image, s.frameBatch)
              /\ ~s.inPaint => n.dropped \/ WillShow(n) = image
<1> DEFINE n == Web!Bitmap(s, image)
<1>1. CASE s.inPaint
  <2>1. n = [s EXCEPT !.frameBatch = Web!Over(image, s.frameBatch)]
    BY <1>1 DEF Web!Bitmap, Web!InFrame
  <2>2. s.frameBatch \in Batches
    BY DEF WebTab
  <2>3. Web!Over(image, s.frameBatch) \in Batches
    BY <2>2, LaidOver
  <2>4. /\ n \in WebTab /\ n.queue = s.queue /\ n.whole = s.whole /\ n.inPaint = s.inPaint
        /\ n.frameBatch = Web!Over(image, s.frameBatch)
    BY <2>1, <2>3 DEF WebTab
  <2> QED BY <1>1, <2>4 DEF WholeQueue
<1>2. CASE ~s.inPaint
  <2>1. n = Web!Sent(s, image)
    BY <1>2 DEF Web!Bitmap, Web!InFrame
  <2> QED BY <1>2, <2>1, SentBatch
<1> QED BY <1>1, <1>2 DEF WebTab

\* The end of a frame.
LEMMA EndPaintStep ==
    ASSUME WebTypes, NEW t \in Tabs, NEW s \in WebTab, WholeTab(t, s, cb, version, wire), WholeQueue(s),
           wire = 3
    PROVE  LET n == Web!EndPaint(s)
           IN /\ n \in WebTab /\ WholeQueue(n) /\ n.whole = s.whole /\ ~n.inPaint
              /\ s.whole => n.dropped \/ WillShow(n) = Desktop(version)
<1> DEFINE n == Web!EndPaint(s)
<1>1. s.frameBatch \in Batches /\ s.whole \in BOOLEAN
  BY DEF WebTab
<1>2. s.whole => s.frameBatch = Desktop(version) /\ DOMAIN s.frameBatch = Web!Regions /\ s.frameBatch # <<>>
  <2> SUFFICES ASSUME s.whole PROVE s.frameBatch = Desktop(version) /\ DOMAIN s.frameBatch = Web!Regions /\ s.frameBatch # <<>>
    OBVIOUS
  <2>1. s.frameBatch = [p \in 1 .. wire - 1 |-> version] /\ 1 .. wire - 1 = {1, 2}
    BY DEF WholeTab
  <2>2. s.frameBatch = Desktop(version)
    BY <2>1 DEF Desktop, Web!Regions
  <2>3. DOMAIN s.frameBatch = {1, 2} /\ DOMAIN <<>> = {}
    BY <2>1
  <2> QED BY <2>2, <2>3 DEF Web!Regions
<1>3. CASE s.frameBatch = <<>>
  <2>1. n = [s EXCEPT !.inPaint = FALSE]
    BY <1>3 DEF Web!EndPaint
  <2>2. n \in WebTab /\ n.queue = s.queue /\ n.whole = s.whole /\ ~n.inPaint
    BY <2>1 DEF WebTab
  <2> QED BY <1>2, <1>3, <2>2 DEF WholeQueue
<1>4. CASE s.frameBatch # <<>>
  <2> DEFINE b == Web!Sent(s, s.frameBatch)
  <2>1. n = [b EXCEPT !.inPaint = FALSE]
    BY <1>4 DEF Web!EndPaint
  <2>2. /\ b \in WebTab /\ WholeQueue(b) /\ b.whole = s.whole
        /\ b.dropped \/ WillShow(b) = s.frameBatch
    BY <1>1, <1>2, SentBatch
  <2> HIDE DEF b
  <2>3. /\ n \in WebTab /\ n.queue = b.queue /\ n.whole = s.whole /\ ~n.inPaint
        /\ n.dropped = b.dropped /\ n.pic = b.pic
    BY <2>1, <2>2 DEF WebTab
  <2>4. WholeQueue(n) /\ WillShow(n) = WillShow(b)
    BY <2>2, <2>3 DEF WholeQueue, WillShow
  <2> QED BY <1>2, <2>2, <2>3, <2>4
<1> QED BY <1>3, <1>4

\* One from a number that is more than one.
LEMMA OneLess ==
    ASSUME NEW k \in Nat, k >= 1, k # 1
    PROVE  k - 1 \in 1 .. k - 1 /\ k - 1 + 1 = k /\ k - 1 # 0
OBVIOUS

\* The send loop shows the next batch.
LEMMA SendStep ==
    ASSUME WebTypes, NEW t \in Tabs, NEW s \in WebTab, WholeTab(t, s, cb, version, wire), WholeQueue(s),
           s.queue # <<>>, NEW n,
           n = [s EXCEPT
                  !.queue = Tail(@),
                  !.pic = [p \in Web!Regions |-> IF p \in DOMAIN Head(s.queue).cells
                                                 THEN Head(s.queue).cells[p] ELSE @[p]]]
    PROVE  n \in WebTab /\ WholeQueue(n) /\ WholeTab(t, n, cb, version, wire)
<1> DEFINE shown == [p \in Web!Regions |-> IF p \in DOMAIN Head(s.queue).cells
                                           THEN Head(s.queue).cells[p] ELSE s.pic[p]]
           q == s.queue
           E == [cells : Batches, whole : BOOLEAN]
<1> HIDE DEF shown, q, E
<1>1. q \in Seq(E) /\ Len(q) \in Nat /\ Len(q) >= 1 /\ Head(q) = q[1] /\ q[1] \in E
  <2>1. q \in Seq(E) /\ q # <<>>
    BY DEF WebTab, q, E
  <2> QED BY <2>1
<1>2. PICK D \in SUBSET Web!Regions : q[1].cells \in [D -> Nat]
  BY <1>1 DEF Batches, E
<1>3. shown \in [Web!Regions -> Nat]
  <2>1. s.pic \in [Web!Regions -> Nat]
    BY DEF WebTab
  <2> QED BY <1>1, <1>2, <2>1 DEF shown, q
<1>4. n = [s EXCEPT !.queue = Tail(q), !.pic = shown]
  BY DEF q, shown
<1>5. Tail(q) \in Seq(E) /\ Len(Tail(q)) = Len(q) - 1 /\ \A i \in 1 .. Len(q) - 1 : Tail(q)[i] = q[i + 1]
  BY <1>1
<1>6. /\ n \in WebTab /\ n.queue = Tail(q) /\ n.pic = shown /\ n.whole = s.whole
      /\ n.dropped = s.dropped /\ n.inPaint = s.inPaint /\ n.frameBatch = s.frameBatch
  BY <1>3, <1>4, <1>5 DEF WebTab, E
<1>7. WholeQueue(n)
  BY <1>1, <1>5, <1>6 DEF WholeQueue, q
<1>8. ASSUME WillShow(s) = Desktop(version) PROVE WillShow(n) = Desktop(version)
  <2>1. CASE Len(q) = 1
    <3>1. q[1].cells = Desktop(version)
      BY <1>8, <2>1, <1>1 DEF WillShow, q
    <3>2. \A p \in Web!Regions : shown[p] = version
      BY <3>1, <1>1 DEF Desktop, shown, q
    <3>3. shown = Desktop(version)
      BY <3>2 DEF Desktop, shown
    <3>4. Tail(q) = <<>>
      <4>1. Len(Tail(q)) = 0
        BY <1>5, <2>1
      <4> QED BY <4>1, <1>5
    <3> QED BY <1>6, <3>3, <3>4 DEF WillShow
  <2>2. CASE Len(q) # 1
    <3>1. Tail(q) # <<>> /\ Tail(q)[Len(Tail(q))] = q[Len(q)]
      <4>1. Len(q) - 1 \in 1 .. Len(q) - 1 /\ Len(q) - 1 + 1 = Len(q) /\ Len(q) - 1 # 0
        <5>1. Len(q) \in Nat /\ Len(q) >= 1
          BY <1>1
        <5> QED BY <5>1, <2>2, OneLess
      <4>2. Tail(q)[Len(q) - 1] = q[Len(q)]
        BY <1>5, <4>1
      <4>3. Len(Tail(q)) = Len(q) - 1
        BY <1>5
      <4>4. Len(Tail(q)) # Len(<<>>)
        BY <4>1, <4>3
      <4> QED BY <4>2, <4>3, <4>4
    <3> QED BY <1>6, <1>8, <3>1, <1>1 DEF WillShow, q
  <2> QED BY <2>1, <2>2
<1> QED BY <1>6, <1>7, <1>8 DEF WholeTab

\* Before the first tab opens.
LEMMA WebInvInit == Web!Init => WebInv
<1> SUFFICES ASSUME Web!Init PROVE WebInv
  OBVIOUS
<1>1. Web!NewTab \in WebTab
  <2>1. <<>> \in Batches /\ <<>> \in Seq([cells : Batches, whole : BOOLEAN])
    <3>1. <<>> \in [{} -> Nat]
      OBVIOUS
    <3> QED BY <3>1 DEF Batches
  <2> QED BY <2>1 DEF Web!NewTab, WebTab, WebPlaces
<1>2. WebTypes
  BY <1>1 DEF Web!Init, Web!None, WebTypes
<1>3. ASSUME NEW t \in Tabs PROVE WholeTab(t, webTab[t], cb, version, wire) /\ WholeQueue(webTab[t])
  <2>1. webTab[t] = Web!NewTab /\ ~Web!NewTab.whole /\ Web!NewTab.queue = <<>>
    BY DEF Web!Init, Web!NewTab
  <2> QED BY <2>1 DEF WholeTab, WholeQueue
<1> QED BY <1>2, <1>3 DEF WebInv

\* A step that changes, of a tab, only where it is or that it is done.
LEMMA TabMoves ==
    ASSUME WebInv, UNCHANGED <<cb, version, wire>>, webTab' \in [Tabs -> WebTab],
           \A t \in Tabs :
              LET n == webTab'[t]
                  s == webTab[t]
              IN /\ n.whole = s.whole /\ n.inPaint = s.inPaint /\ n.frameBatch = s.frameBatch
                 /\ n.queue = s.queue /\ n.dropped = s.dropped /\ n.pic = s.pic
    PROVE  WebInv'
<1>1. ASSUME NEW t \in Tabs
      PROVE  WholeTab(t, webTab'[t], cb, version, wire) /\ WholeQueue(webTab'[t])
  <2>1. WholeTab(t, webTab[t], cb, version, wire) /\ WholeQueue(webTab[t])
    BY DEF WebInv
  <2> QED BY <2>1 DEF WholeTab, WholeQueue, WillShow
<1>2. WebTypes'
  BY DEF WebInv, WebTypes
<1> QED BY <1>1, <1>2 DEF WebInv

\* The tabs' fields, when one field is set.
LEMMA TabAt ==
    ASSUME WebTypes, NEW t \in Tabs, NEW to \in WebPlaces, NEW over \in BOOLEAN,
           webTab' = [webTab EXCEPT ![t] = [@ EXCEPT !.at = to, !.done = over]]
    PROVE  /\ webTab' \in [Tabs -> WebTab]
           /\ \A k \in Tabs :
                LET n == webTab'[k]
                    s == webTab[k]
                IN /\ n.whole = s.whole /\ n.inPaint = s.inPaint /\ n.frameBatch = s.frameBatch
                   /\ n.queue = s.queue /\ n.dropped = s.dropped /\ n.pic = s.pic
<1> DEFINE n == [webTab[t] EXCEPT !.at = to, !.done = over]
<1>1. n \in WebTab
  BY DEF WebTypes, WebTab
<1>2. /\ n.whole = webTab[t].whole /\ n.inPaint = webTab[t].inPaint
      /\ n.frameBatch = webTab[t].frameBatch /\ n.queue = webTab[t].queue
      /\ n.dropped = webTab[t].dropped /\ n.pic = webTab[t].pic
  BY DEF WebTypes, WebTab
<1>3. webTab' = [webTab EXCEPT ![t] = n]
  OBVIOUS
<1> HIDE DEF n
<1> QED BY <1>1, <1>2, <1>3 DEF WebTypes

\* The same, of a step that moves a tab from one place to another.
LEMMA TabGoes ==
    ASSUME WebInv, NEW t \in Tabs, NEW from, NEW to \in WebPlaces, Web!Goes(t, from, to),
           UNCHANGED <<cb, version, wire>>
    PROVE  WebInv'
<1>1. webTab[t] \in WebTab /\ WebTypes
  BY DEF WebInv, WebTypes
<1>2. [webTab[t] EXCEPT !.at = to] = [webTab[t] EXCEPT !.at = to, !.done = webTab[t].done]
  BY <1>1 DEF WebTab
<1>3. webTab' = [webTab EXCEPT ![t] = [@ EXCEPT !.at = to, !.done = webTab[t].done]]
  BY <1>2 DEF Web!Goes
<1>4. webTab[t].done \in BOOLEAN
  BY <1>1 DEF WebTab
<1> QED BY <1>1, <1>3, <1>4, TabAt, TabMoves

\* One step per action.
LEMMA WebInvStep == WebInv /\ [Web!Next]_webVars => WebInv'
<1> SUFFICES ASSUME WebInv, [Web!Next]_webVars PROVE WebInv'
  OBVIOUS
<1>1. /\ WebTypes
      /\ \A t \in Tabs : /\ webTab[t] \in WebTab /\ WholeQueue(webTab[t])
                         /\ WholeTab(t, webTab[t], cb, version, wire)
  BY DEF WebInv, WebTypes
<1>2. ASSUME NEW t \in Tabs, Web!Opens(t) \/ Web!Connects(t) \/ Web!Refresh(t) PROVE WebInv'
  <2>1. UNCHANGED <<cb, version, wire>>
    BY <1>2 DEF Web!Opens, Web!Connects, Web!Refresh
  <2>2. CASE Web!Opens(t)
    <3>1. PICK to \in WebPlaces : Web!Goes(t, "new", to)
      <4>1. {"connect", "gone", "refresh"} \subseteq WebPlaces
        BY DEF WebPlaces
      <4> QED BY <2>2, <4>1 DEF Web!Opens
    <3> QED BY <2>1, <3>1, TabGoes
  <2>3. CASE Web!Connects(t)
    <3>1. PICK to \in WebPlaces : Web!Goes(t, "connect", to)
      BY <2>3 DEF Web!Connects, WebPlaces
    <3> QED BY <2>1, <3>1, TabGoes
  <2>4. CASE Web!Refresh(t)
    <3>1. Web!Goes(t, "refresh", "begin") /\ "begin" \in WebPlaces
      BY <2>4 DEF Web!Refresh, WebPlaces
    <3> QED BY <2>1, <3>1, TabGoes
  <2> QED BY <1>2, <2>2, <2>3, <2>4
<1>3. ASSUME NEW t \in Tabs, Web!Registers(t) PROVE WebInv'
  <2>1. PICK e \in DOMAIN cb :
          /\ webTab[t].at = e /\ cb' = [cb EXCEPT ![e] = t]
          /\ webTab' = [k \in Tabs |-> [webTab[k] EXCEPT !.whole = FALSE,
                                         !.at = IF k = t THEN Web!NextOf[e] ELSE @]]
    BY <1>3 DEF Web!Registers
  <2>2. e \in {"begin", "end", "bitmap"} /\ Web!NextOf[e] \in WebPlaces /\ UNCHANGED <<version, wire>>
    <3>1. e \in {"begin", "end", "bitmap"}
      BY <1>1 DEF WebTypes
    <3>2. Web!NextOf[e] \in {"end", "bitmap", "run"}
      BY <3>1 DEF Web!NextOf
    <3> QED BY <1>3, <3>1, <3>2 DEF WebPlaces, Web!Registers
  <2>3. cb' \in [{"begin", "end", "bitmap"} -> Tabs \cup {0}]
    BY <1>1, <2>1 DEF WebTypes
  <2>4. ASSUME NEW k \in Tabs
        PROVE  /\ webTab'[k] \in WebTab /\ ~webTab'[k].whole
               /\ webTab'[k].queue = webTab[k].queue
    <3> DEFINE p == IF k = t THEN Web!NextOf[e] ELSE webTab[k].at
    <3>1. p \in WebPlaces
      BY <1>1, <2>2 DEF WebTab
    <3>2. webTab'[k] = [webTab[k] EXCEPT !.whole = FALSE, !.at = p]
      BY <2>1
    <3> HIDE DEF p
    <3> QED BY <1>1, <3>1, <3>2 DEF WebTab
  <2>5. webTab' \in [Tabs -> WebTab]
    BY <2>1, <2>4
  <2>6. WebTypes'
    BY <1>1, <2>2, <2>3, <2>5 DEF WebTypes
  <2> QED BY <1>1, <2>4, <2>6 DEF WebInv, WholeTab, WholeQueue
<1>4. ASSUME NEW t \in Tabs, Web!SendLoop(t) PROVE WebInv'
  <2> DEFINE s == webTab[t]
             n == [s EXCEPT
                     !.queue = Tail(@),
                     !.pic = [p \in Web!Regions |-> IF p \in DOMAIN Head(s.queue).cells
                                                    THEN Head(s.queue).cells[p] ELSE @[p]]]
  <2>1. webTab' = [webTab EXCEPT ![t] = n] /\ s.queue # <<>> /\ UNCHANGED <<cb, version, wire>>
    <3>1. webTab' = [webTab EXCEPT ![t] = n]
      BY <1>4 DEF Web!SendLoop
    <3> QED BY <1>4, <3>1 DEF Web!SendLoop
  <2>2. n \in WebTab /\ WholeQueue(n) /\ WholeTab(t, n, cb, version, wire)
    BY <1>1, <2>1, SendStep
  <2> HIDE DEF n
  <2>3. webTab' \in [Tabs -> WebTab] /\ \A k \in Tabs : webTab'[k] = IF k = t THEN n ELSE webTab[k]
    BY <1>1, <2>1, <2>2 DEF WebTypes
  <2>4. WebTypes'
    BY <1>1, <2>1, <2>3 DEF WebTypes
  <2>5. ASSUME NEW k \in Tabs
        PROVE  WholeQueue(webTab'[k]) /\ WholeTab(k, webTab'[k], cb, version, wire)
    BY <1>1, <2>2, <2>3
  <2> QED BY <2>1, <2>4, <2>5 DEF WebInv
<1>5. ASSUME NEW t \in Tabs, Web!TabCloses(t) \/ Web!Watcher(t) PROVE WebInv'
  <2>1. UNCHANGED <<cb, version, wire>> /\ webTab[t].at \in WebPlaces
    BY <1>1, <1>5 DEF Web!TabCloses, Web!Watcher, WebTab
  <2>2. [webTab[t] EXCEPT !.done = TRUE] = [webTab[t] EXCEPT !.at = webTab[t].at, !.done = TRUE]
    BY <1>1 DEF WebTab
  <2>3. \E to \in WebPlaces : webTab' = [webTab EXCEPT ![t] = [@ EXCEPT !.at = to, !.done = TRUE]]
    <3>1. CASE Web!TabCloses(t)
      BY <3>1 DEF Web!TabCloses, WebPlaces
    <3>2. CASE Web!Watcher(t)
      BY <3>2, <2>1, <2>2 DEF Web!Watcher
    <3> QED BY <1>5, <3>1, <3>2
  <2> QED BY <1>1, <2>1, <2>3, TabAt, TabMoves
<1>6. CASE Web!ServerBegins
  <2>1. version' = version + 1 /\ wire' = 1 /\ wire = 0 /\ cb' = cb
        /\ webTab' = [t \in Tabs |-> Web!BeginPaint(t, webTab[t])]
    BY <1>6 DEF Web!ServerBegins
  <2>2. ASSUME NEW t \in Tabs
        PROVE  /\ webTab'[t] \in WebTab /\ WholeQueue(webTab'[t])
               /\ WholeTab(t, webTab'[t], cb, version', 1)
    <3> DEFINE s == webTab[t]
               n == webTab'[t]
               mine == \A e \in DOMAIN cb : cb[e] = t
               in == IF cb.begin = t THEN TRUE ELSE s.inPaint
               frame == IF cb.begin = t THEN <<>> ELSE s.frameBatch
    <3>1. n = [s EXCEPT !.whole = mine, !.inPaint = in, !.frameBatch = frame]
      BY <2>1 DEF Web!BeginPaint
    <3>2. DOMAIN cb = {"begin", "end", "bitmap"}
      BY <1>1 DEF WebTypes
    <3>3. mine \in BOOLEAN /\ in \in BOOLEAN /\ frame \in Batches /\ (mine => in /\ frame = <<>>)
      <4>1. <<>> \in [{} -> Nat]
        OBVIOUS
      <4>2. <<>> \in Batches
        BY <4>1 DEF Batches
      <4> QED BY <1>1, <3>2, <4>2 DEF WebTab
    <3> HIDE DEF mine, in, frame
    <3>4. /\ n \in WebTab /\ n.whole = mine /\ n.inPaint = in /\ n.frameBatch = frame
          /\ n.queue = s.queue
      BY <1>1, <3>1, <3>3 DEF WebTab
    <3>5. <<>> = [p \in 1 .. 0 |-> version']
      OBVIOUS
    <3>6. WholeTab(t, n, cb, version', 1)
      <4>1. 1 .. 1 - 1 = 1 .. 0
        OBVIOUS
      <4> SUFFICES ASSUME n.whole
                   PROVE  /\ \A e \in {"begin", "end", "bitmap"} : cb[e] = t
                          /\ n.inPaint /\ n.frameBatch = [p \in 1 .. 1 - 1 |-> version']
        BY DEF WholeTab
      <4>2. n.frameBatch = <<>> /\ n.inPaint
        BY <3>3, <3>4
      <4>3. n.frameBatch = [p \in 1 .. 1 - 1 |-> version']
        BY <3>5, <4>1, <4>2
      <4> QED BY <3>2, <3>4, <4>2, <4>3 DEF mine
    <3> QED BY <1>1, <3>4, <3>6 DEF WholeQueue
  <2>3. webTab' \in [Tabs -> WebTab]
    BY <2>1, <2>2
  <2>4. WebTypes'
    BY <1>1, <2>1, <2>3 DEF WebTypes
  <2> QED BY <2>1, <2>2, <2>4 DEF WebInv
<1>7. ASSUME NEW p \in Web!Regions, Web!ServerPaints(p) PROVE WebInv'
  <2> DEFINE image == [c \in {p} |-> version]
  <2>1. /\ wire = p /\ wire' = p + 1 /\ UNCHANGED <<cb, version>> /\ p \in {1, 2}
        /\ webTab' = [t \in Tabs |-> IF cb["bitmap"] = t THEN Web!Bitmap(webTab[t], image) ELSE webTab[t]]
    BY <1>7 DEF Web!ServerPaints, Web!Calls, Web!Regions
  <2>2. image \in Batches
    <3>1. image \in [{p} -> Nat] /\ {p} \in SUBSET Web!Regions
      BY <1>1, <2>1 DEF WebTypes, Web!Regions
    <3> QED BY <3>1 DEF Batches
  <2>3. ASSUME NEW t \in Tabs
        PROVE  /\ webTab'[t] \in WebTab /\ WholeQueue(webTab'[t])
               /\ WholeTab(t, webTab'[t], cb, version, p + 1)
    <3> DEFINE s == webTab[t]
               n == Web!Bitmap(s, image)
    <3>1. s.whole => s.inPaint /\ cb["bitmap"] = t /\ s.frameBatch = [c \in 1 .. p - 1 |-> version]
      BY <1>1, <2>1 DEF WholeTab
    <3>2. /\ n \in WebTab /\ WholeQueue(n) /\ n.whole = s.whole /\ n.inPaint = s.inPaint
          /\ s.inPaint => n.frameBatch = Web!Over(image, s.frameBatch)
      BY <1>1, <2>2, <3>1, BitmapStep
    <3>3. Web!Over(image, [c \in 1 .. p - 1 |-> version]) = [c \in 1 .. p |-> version]
      BY <2>1 DEF Web!Over
    <3> HIDE DEF n, image
    <3>4. WholeTab(t, n, cb, version, p + 1)
      <4> DEFINE w == p + 1
      <4>1. w \in Nat /\ w # 0 /\ 1 .. w - 1 = 1 .. p
        <5>1. p \in Nat
          BY DEF Web!Regions
        <5>2. w \in Nat /\ w # 0 /\ w - 1 = p
          BY <5>1
        <5> HIDE DEF w
        <5> QED BY <5>2
      <4> HIDE DEF w
      <4>2. ASSUME n.whole
            PROVE  /\ \A e \in {"begin", "end", "bitmap"} : cb[e] = t
                   /\ n.inPaint /\ n.frameBatch = [c \in 1 .. w - 1 |-> version]
        <5>1. n.inPaint /\ n.frameBatch = [c \in 1 .. p |-> version] /\ s.whole
          BY <3>1, <3>2, <3>3, <4>2
        <5>2. \A e \in {"begin", "end", "bitmap"} : cb[e] = t
          BY <1>1, <5>1 DEF WholeTab
        <5>3. n.frameBatch = [c \in 1 .. w - 1 |-> version]
          BY <4>1, <5>1
        <5> QED BY <5>1, <5>2, <5>3
      <4>3. WholeTab(t, n, cb, version, w)
        BY <4>1, <4>2 DEF WholeTab
      <4> QED BY <4>3 DEF w
    <3>5. CASE cb["bitmap"] = t
      BY <2>1, <3>2, <3>4, <3>5 DEF n
    <3>6. CASE cb["bitmap"] # t
      BY <1>1, <2>1, <3>1, <3>6 DEF WholeTab
    <3> QED BY <3>5, <3>6
  <2>4. webTab' \in [Tabs -> WebTab]
    BY <2>1, <2>3
  <2>5. WebTypes'
    BY <1>1, <2>1, <2>4 DEF WebTypes
  <2> QED BY <2>1, <2>3, <2>5 DEF WebInv
<1>8. CASE Web!ServerEnds
  <2>1. /\ wire = 3 /\ wire' = 0 /\ UNCHANGED <<cb, version>>
        /\ webTab' = [t \in Tabs |-> IF cb["end"] = t THEN Web!EndPaint(webTab[t]) ELSE webTab[t]]
    BY <1>8 DEF Web!ServerEnds, Web!Calls
  <2>2. ASSUME NEW t \in Tabs
        PROVE  /\ webTab'[t] \in WebTab /\ WholeQueue(webTab'[t])
               /\ WholeTab(t, webTab'[t], cb, version, 0)
    <3> DEFINE s == webTab[t]
               n == Web!EndPaint(s)
    <3>1. /\ n \in WebTab /\ WholeQueue(n) /\ n.whole = s.whole /\ ~n.inPaint
          /\ s.whole => n.dropped \/ WillShow(n) = Desktop(version)
      BY <1>1, <2>1, EndPaintStep
    <3>2. s.whole => \A e \in {"begin", "end", "bitmap"} : cb[e] = t
      BY <1>1 DEF WholeTab
    <3> HIDE DEF n
    <3>3. CASE cb["end"] = t
      BY <2>1, <3>1, <3>2, <3>3 DEF n, WholeTab
    <3>4. CASE cb["end"] # t
      BY <1>1, <2>1, <3>2, <3>4 DEF WholeTab
    <3> QED BY <3>3, <3>4
  <2>3. webTab' \in [Tabs -> WebTab]
    BY <2>1, <2>2
  <2>4. WebTypes'
    BY <1>1, <2>1, <2>3 DEF WebTypes
  <2> QED BY <2>1, <2>2, <2>4 DEF WebInv
<1>9. CASE Web!ServerRedraws
  <2>1. /\ wire = 0 /\ UNCHANGED <<cb, version, wire>>
        /\ webTab' = [t \in Tabs |-> IF cb["bitmap"] = t THEN Web!Bitmap(webTab[t], Desktop(version)) ELSE webTab[t]]
    BY <1>9 DEF Web!ServerRedraws, Web!Calls, Desktop
  <2>2. Desktop(version) \in Batches /\ DOMAIN Desktop(version) = Web!Regions
    BY <1>1 DEF WebTypes, Batches, Desktop
  <2>3. ASSUME NEW t \in Tabs
        PROVE  /\ webTab'[t] \in WebTab /\ WholeQueue(webTab'[t])
               /\ WholeTab(t, webTab'[t], cb, version, 0)
    <3> DEFINE s == webTab[t]
               n == Web!Bitmap(s, Desktop(version))
    <3>1. /\ n \in WebTab /\ WholeQueue(n) /\ n.whole = s.whole /\ n.inPaint = s.inPaint
          /\ ~s.inPaint => n.dropped \/ WillShow(n) = Desktop(version)
      BY <1>1, <2>2, BitmapStep
    <3>2. s.whole => ~s.inPaint /\ \A e \in {"begin", "end", "bitmap"} : cb[e] = t
      BY <1>1, <2>1 DEF WholeTab
    <3> HIDE DEF n
    <3>3. CASE cb["bitmap"] = t
      BY <2>1, <3>1, <3>2, <3>3 DEF n, WholeTab
    <3>4. CASE cb["bitmap"] # t
      BY <1>1, <2>1, <3>2, <3>4 DEF WholeTab
    <3> QED BY <3>3, <3>4
  <2>4. webTab' \in [Tabs -> WebTab]
    BY <2>1, <2>3
  <2>5. WebTypes'
    BY <1>1, <2>1, <2>4 DEF WebTypes
  <2> QED BY <2>1, <2>3, <2>5 DEF WebInv
<1>10. CASE Web!ServerLeaves \/ UNCHANGED webVars
  <2>1. UNCHANGED <<cb, webTab, version, wire>>
    BY <1>10 DEF Web!ServerLeaves, webVars
  <2> QED BY <2>1 DEF WebInv, WebTypes
<1> QED
  BY <1>2, <1>3, <1>4, <1>5, <1>6, <1>7, <1>8, <1>9, <1>10 DEF Web!Next

\* What is whole is shown, and shows the desktop.
LEMMA WebFaithful == WebInv => ViewerFaithful
<1> SUFFICES ASSUME WebInv PROVE Web!FramesWhole /\ Web!ViewerCurrent
  BY DEF ViewerFaithful, Web!ViewerFaithful
<1>1. Web!FramesWhole
  BY DEF WebInv, WholeQueue, Web!FramesWhole
<1>2. ASSUME NEW t \in Tabs, webTab[t].whole, wire = 0, webTab[t].queue = <<>>, ~webTab[t].dropped
      PROVE  \A p \in Web!Regions : webTab[t].pic[p] = version
  <2>1. webTab[t].pic = Desktop(version)
    BY <1>2 DEF WebInv, WholeTab, WillShow
  <2> QED BY <2>1 DEF Desktop
<1> QED BY <1>1, <1>2 DEF Web!ViewerCurrent

\* The browser paints frames whole, and a tab whose callbacks none took shows the desktop
\* when it has received all and dropped nothing, however many tabs come and go.
THEOREM ViewerAlwaysFaithful == MCSpec => []ViewerFaithful
<1>1. MCInit => WebInv
  BY WebInvInit DEF MCInit
<1>2. WebInv /\ [MCNext]_mcVars => WebInv'
  <2> SUFFICES ASSUME WebInv, [MCNext]_mcVars PROVE WebInv'
    OBVIOUS
  <2>1. [Web!Next]_webVars
    BY DEF MCNext, mcVars
  <2> QED BY <2>1, WebInvStep
<1> QED BY <1>1, <1>2, WebFaithful, PTL DEF MCSpec

(***************************************************************************)
(* The web viewer with a tab for each monitor.                             *)
(***************************************************************************)
\* Cells of the desktop, or of a monitor, and how often each was painted.
Images == UNION {[D -> Nat] : D \in SUBSET Int}
DispTab ==
    [mon : Mons \cup {0}, at : {"new", "connect", "gone", "refresh", "run"},
     done : BOOLEAN, queue : Seq(Images), dropped : BOOLEAN, rect : SUBSET Int,
     pic : [0 .. MaxWidth - 1 -> Seq(Nat)]]

DispTypes ==
    /\ width \in [Mons -> 0 .. MaxWidth] /\ posX = Dispatcher!Repositioned(width)
    /\ client \in {"none", "connecting", "up", "ended"} /\ lock \in Tabs \cup {0}
    /\ sessions \in [Mons -> Tabs \cup {0}] /\ tab \in [Tabs -> DispTab]
    /\ desktop \in [Dispatcher!Cells -> Nat] /\ inPaint \in BOOLEAN

\* What the server was told is where the monitors are, but for those without a size.
LayoutInv ==
    /\ layout = <<>> \/ layout = Dispatcher!UpdateOpts(width)
    /\ client # "none" => layout # <<>>
    /\ layout # <<>> => \E m \in Mons : width[m] > 0
    /\ lock # 0 => client = "connecting" /\ tab[lock].at = "connect" /\ tab[lock].mon \in Mons
    /\ todo \subseteq Dispatcher!Told(layout) /\ (client # "up" => todo = {})

\* A tab has a session, until it is done, and a session a tab.
HasSession(s) == s.at \in {"refresh", "run"} /\ ~s.done
SessionInv ==
    /\ \A t \in Tabs : HasSession(tab[t]) => tab[t].mon \in Mons /\ sessions[tab[t].mon] = t
    /\ \A m \in Mons : sessions[m] # 0 =>
          tab[sessions[m]].mon = m /\ tab[sessions[m]].at \in {"refresh", "run"}
    /\ \A t \in Tabs : tab[t].at = "run" => tab[t].rect = {}

\* What waits for the end of the frame is what the server last painted.
FrameInv ==
    /\ frameBatch \in Images /\ DOMAIN frameBatch \subseteq Dispatcher!Cells
    /\ ~inPaint => DOMAIN frameBatch = {}
    /\ \A g \in DOMAIN frameBatch : frameBatch[g] = desktop[g]

\* What cell c of a tab shows once its queue is empty.
Shows(s, c, v) ==
    \/ (\A i \in DOMAIN s.queue : c \notin DOMAIN s.queue[i]) /\ s.pic[c] = <<v>>
    \/ \E i \in DOMAIN s.queue :
          /\ c \in DOMAIN s.queue[i] /\ s.queue[i][c] = v
          /\ \A j \in DOMAIN s.queue : j > i => c \notin DOMAIN s.queue[j]

\* Every cell of a monitor is shown as it is, or is still to be sent: by the server, at
\* the end of the frame, or after the request for a redraw.
ShownTab(s, wd, px, td, fb, dk) ==
    HasSession(s) /\ ~s.dropped =>
        \A c \in 0 .. wd[s.mon] - 1 :
            LET g == px[s.mon] + c
            IN g \in td \/ g \in fb \/ g \in s.rect \/ Shows(s, c, dk[g])
ShownInv ==
    client = "up" /\ Dispatcher!Resolved =>
        \A t \in Tabs : ShownTab(tab[t], width, posX, todo, DOMAIN frameBatch, desktop)

DispInv == DispTypes /\ LayoutInv /\ SessionInv /\ FrameInv /\ ShownInv

\* Monitors are on the desktop, each where those before it end.
LEMMA DispBasics ==
    ASSUME DispTypes
    PROVE  /\ width \in Widths /\ posX = [m \in Mons |-> Place(width, m)]
           /\ \A m \in Mons : posX[m] \in Nat /\ width[m] \in 0 .. MaxWidth
<1>1. width \in Widths
  BY DEF DispTypes, Widths
<1>2. posX = [m \in Mons |-> Place(width, m)]
  BY PlaceIsLeftOf DEF DispTypes, Dispatcher!Repositioned
<1> QED BY <1>1, <1>2, PlaceInRow DEF Widths

\* FiniteSets reaches the module of the dispatcher by another way, with the same meaning.
LEMMA CellsAre == Dispatcher!Cells = 0 .. N * MaxWidth - 1
BY DEF Dispatcher!Cells, N, Dispatcher!Cardinality, Cardinality

\* What the server is told stands for every monitor, on the desktop; once all have a
\* size it is where they are.
LEMMA ToldPlaces ==
    ASSUME NEW w \in Widths, \E m \in Mons : w[m] > 0
    PROVE  LET lay == Dispatcher!UpdateOpts(w)
           IN /\ lay # <<>> /\ Dispatcher!Told(lay) \subseteq Dispatcher!Cells
              /\ (\A m \in Mons : w[m] > 0) =>
                    \A m \in Mons : /\ lay[m].x = Place(w, m) /\ lay[m].w = w[m]
                                    /\ Place(w, m) .. Place(w, m) + w[m] - 1 \subseteq Dispatcher!Told(lay)
<1> USE MonsFacts
<1> DEFINE e == Dispatcher!Effective(w)
           lay == Dispatcher!UpdateOpts(w)
           sized == {m \in Mons : w[m] > 0}
           first == CHOOSE m \in Mons : w[m] > 0 /\ \A k \in Mons : w[k] > 0 => m <= k
<1>1. first \in Mons
  <2>1. sized \subseteq Nat /\ sized # {}
    OBVIOUS
  <2>2. PICK m \in sized : \A k \in sized : m <= k
    BY <2>1, LeastNatural
  <2>3. \E n \in Mons : w[n] > 0 /\ \A k \in Mons : w[k] > 0 => n <= k
    BY <2>2
  <2> QED BY <2>3
<1>2. e = [m \in Mons |-> IF w[m] = 0 THEN w[first] ELSE w[m]]
  BY DEF Dispatcher!Effective
<1> HIDE DEF first
<1>3. e \in Widths
  BY <1>1, <1>2 DEF Widths
<1>4. lay = [m \in Mons |-> [x |-> Place(e, m), w |-> e[m]]]
  BY PlaceIsLeftOf DEF Dispatcher!UpdateOpts
<1>5. (\A m \in Mons : w[m] > 0) => e = w
  <2> SUFFICES ASSUME \A m \in Mons : w[m] > 0 PROVE e = w
    OBVIOUS
  <2>1. \A m \in Mons : w[m] # 0 /\ e[m] = w[m]
    BY <1>2 DEF Widths
  <2> QED BY <1>3, <2>1 DEF Widths
<1> HIDE DEF e, lay
<1>6. DOMAIN lay = Mons /\ \A m \in Mons : lay[m].x = Place(e, m) /\ lay[m].w = e[m]
  BY <1>4
<1>7. lay # <<>>
  <2>1. DOMAIN <<>> = {} /\ Mons # {}
    OBVIOUS
  <2> QED BY <1>6, <2>1
<1>8. Dispatcher!Told(lay) \subseteq Dispatcher!Cells
  <2> SUFFICES ASSUME NEW g \in Dispatcher!Told(lay) PROVE g \in Dispatcher!Cells
    OBVIOUS
  <2>1. PICK m \in Mons : g \in Place(e, m) .. Place(e, m) + e[m] - 1
    BY <1>6 DEF Dispatcher!Told
  <2>2. Place(e, m) \in Nat /\ Place(e, m) + e[m] <= N * MaxWidth /\ e[m] \in Nat /\ N * MaxWidth \in Nat
    <3>1. Place(e, m) \in Nat /\ Place(e, m) + e[m] <= N * MaxWidth
      BY <1>3, PlaceInRow
    <3>2. e[m] \in 0 .. MaxWidth
      BY <1>3 DEF Widths
    <3>3. N * MaxWidth \in Nat
      OBVIOUS
    <3> QED BY <3>1, <3>2, <3>3
  <2>3. g \in 0 .. N * MaxWidth - 1
    BY <2>1, <2>2
  <2>4. Dispatcher!Cells = 0 .. N * MaxWidth - 1
    BY CellsAre
  <2> QED BY <2>3, <2>4
<1>9. ASSUME \A m \in Mons : w[m] > 0
      PROVE  \A m \in Mons : /\ lay[m].x = Place(w, m) /\ lay[m].w = w[m]
                             /\ Place(w, m) .. Place(w, m) + w[m] - 1 \subseteq Dispatcher!Told(lay)
  BY <1>5, <1>6, <1>9 DEF Dispatcher!Told
<1> QED BY <1>7, <1>8, <1>9 DEF lay

\* What a tab shows in the end, when a batch is queued for it.
LEMMA ShowsAppend ==
    ASSUME NEW s \in DispTab, NEW b \in Images, NEW c, NEW n \in DispTab,
           n.queue = Append(s.queue, b), n.pic = s.pic
    PROVE  /\ c \in DOMAIN b => Shows(n, c, b[c])
           /\ \A v : c \notin DOMAIN b /\ Shows(s, c, v) => Shows(n, c, v)
<1> DEFINE q == s.queue
           p == n.queue
<1>1. q \in Seq(Images)
  BY DEF DispTab
<1>2. /\ Len(q) \in Nat /\ DOMAIN q = 1 .. Len(q) /\ DOMAIN p = 1 .. Len(q) + 1
      /\ p[Len(q) + 1] = b /\ \A i \in 1 .. Len(q) : p[i] = q[i]
  BY <1>1
<1> HIDE DEF p, q
<1>3. ASSUME c \in DOMAIN b PROVE Shows(n, c, b[c])
  <2>1. Len(q) + 1 \in DOMAIN p /\ \A j \in DOMAIN p : ~(j > Len(q) + 1)
    BY <1>2
  <2> QED BY <1>2, <1>3, <2>1 DEF Shows, p
<1>4. ASSUME NEW v, c \notin DOMAIN b, Shows(s, c, v) PROVE Shows(n, c, v)
  <2>1. \A j \in DOMAIN p : (j \in DOMAIN q /\ p[j] = q[j]) \/ c \notin DOMAIN p[j]
    BY <1>2, <1>4
  <2>2. CASE (\A i \in DOMAIN q : c \notin DOMAIN q[i]) /\ s.pic[c] = <<v>>
    <3>1. \A j \in DOMAIN p : c \notin DOMAIN p[j]
      BY <2>1, <2>2
    <3> QED BY <2>2, <3>1 DEF Shows, p
  <2>3. CASE \E i \in DOMAIN q : /\ c \in DOMAIN q[i] /\ q[i][c] = v
                                 /\ \A j \in DOMAIN q : j > i => c \notin DOMAIN q[j]
    <3>1. PICK i \in DOMAIN q : /\ c \in DOMAIN q[i] /\ q[i][c] = v
                                /\ \A j \in DOMAIN q : j > i => c \notin DOMAIN q[j]
      BY <2>3
    <3>2. i \in DOMAIN p /\ p[i] = q[i]
      BY <1>2
    <3>3. \A j \in DOMAIN p : j > i => c \notin DOMAIN p[j]
      BY <2>1, <3>1
    <3> QED BY <3>1, <3>2, <3>3 DEF Shows, p
  <2> QED BY <1>4, <2>2, <2>3 DEF Shows, q
<1> QED BY <1>3, <1>4

\* The same, when it takes a batch and shows it.
LEMMA ShowsTail ==
    ASSUME NEW s \in DispTab, s.queue # <<>>, NEW n \in DispTab, NEW c \in 0 .. MaxWidth - 1,
           n.queue = Tail(s.queue),
           n.pic[c] = IF c \in DOMAIN Head(s.queue) THEN <<Head(s.queue)[c]>> ELSE s.pic[c]
    PROVE  \A v : Shows(s, c, v) => Shows(n, c, v)
<1> DEFINE q == s.queue
           p == n.queue
<1>1. q \in Seq(Images) /\ q # <<>>
  BY DEF DispTab
<1>2. /\ Len(q) \in Nat /\ DOMAIN q = 1 .. Len(q) /\ Len(q) >= 1 /\ Head(q) = q[1]
      /\ DOMAIN p = 1 .. Len(q) - 1
      /\ \A i \in 1 .. Len(q) - 1 : p[i] = q[i + 1]
  <2>1. Len(q) \in Nat /\ DOMAIN q = 1 .. Len(q) /\ Len(q) >= 1 /\ Head(q) = q[1]
    BY <1>1
  <2>2. Tail(q) \in Seq(Images) /\ Len(Tail(q)) = Len(q) - 1 /\ \A i \in 1 .. Len(Tail(q)) : Tail(q)[i] = q[i + 1]
    BY <1>1, HeadTailProperties
  <2> QED BY <2>1, <2>2
<1>3. n.pic[c] = IF c \in DOMAIN q[1] THEN <<q[1][c]>> ELSE s.pic[c]
  BY <1>2
<1> HIDE DEF p, q
<1> SUFFICES ASSUME NEW v, Shows(s, c, v) PROVE Shows(n, c, v)
  OBVIOUS
<1>4. CASE (\A i \in DOMAIN q : c \notin DOMAIN q[i]) /\ s.pic[c] = <<v>>
  <2>1. 1 \in DOMAIN q /\ \A j \in DOMAIN p : j + 1 \in DOMAIN q /\ p[j] = q[j + 1]
    BY <1>2
  <2>2. n.pic[c] = <<v>> /\ \A j \in DOMAIN p : c \notin DOMAIN p[j]
    BY <1>3, <1>4, <2>1
  <2> QED BY <2>2 DEF Shows, p
<1>5. CASE \E i \in DOMAIN q : /\ c \in DOMAIN q[i] /\ q[i][c] = v
                               /\ \A j \in DOMAIN q : j > i => c \notin DOMAIN q[j]
  <2>1. PICK i \in DOMAIN q : /\ c \in DOMAIN q[i] /\ q[i][c] = v
                              /\ \A j \in DOMAIN q : j > i => c \notin DOMAIN q[j]
    BY <1>5
  <2>2. CASE i = 1
    <3>1. n.pic[c] = <<v>>
      BY <1>3, <2>1, <2>2
    <3>2. \A j \in DOMAIN p : j + 1 \in DOMAIN q /\ p[j] = q[j + 1] /\ j + 1 > i
      BY <1>2, <2>2
    <3>3. \A j \in DOMAIN p : c \notin DOMAIN p[j]
      BY <2>1, <3>2
    <3> QED BY <3>1, <3>3 DEF Shows, p
  <2>3. CASE i # 1
    <3>1. i - 1 \in DOMAIN p /\ p[i - 1] = q[i]
      <4>1. i \in Nat /\ i - 1 \in 1 .. Len(q) - 1 /\ (i - 1) + 1 = i
        BY <1>2, <2>3
      <4> QED BY <1>2, <4>1
    <3>2. \A j \in DOMAIN p : j > i - 1 => j + 1 \in DOMAIN q /\ p[j] = q[j + 1] /\ j + 1 > i
      BY <1>2, <2>1
    <3>3. \A j \in DOMAIN p : j > i - 1 => c \notin DOMAIN p[j]
      BY <2>1, <3>2
    <3> QED BY <2>1, <3>1, <3>3 DEF Shows, p
  <2> QED BY <2>2, <2>3
<1> QED BY <1>4, <1>5 DEF Shows, q

\* A tab whose session has ended is one still, and all but that is as it was.
LEMMA DoneTab ==
    ASSUME NEW t \in DispTab
    PROVE  LET d == [t EXCEPT !.done = TRUE]
           IN d \in DispTab /\ d.done /\ d.mon = t.mon /\ d.at = t.at /\ d.rect = t.rect
<1>1. [t EXCEPT !.done = TRUE] \in DispTab
  BY Zenon DEF DispTab
<1>2. [t EXCEPT !.done = TRUE].done /\ [t EXCEPT !.done = TRUE].rect = t.rect
  BY DEF DispTab
<1>3. [t EXCEPT !.done = TRUE].mon = t.mon /\ [t EXCEPT !.done = TRUE].at = t.at
  BY DEF DispTab
<1> QED BY <1>1, <1>2, <1>3

\* A tab that was never attached.
LEMMA NewTabFacts ==
    /\ Dispatcher!NewTab \in DispTab /\ Dispatcher!NewTab.mon = 0 /\ Dispatcher!NewTab.at = "new"
    /\ ~Dispatcher!NewTab.done /\ Dispatcher!NewTab.rect = {}
<1> DEFINE blank == [c \in 0 .. MaxWidth - 1 |-> <<>>]
<1>1. blank \in [0 .. MaxWidth - 1 -> Seq(Nat)] /\ <<>> \in Seq(Images) /\ {} \subseteq Int
  OBVIOUS
<1>2. Dispatcher!NewTab = [mon |-> 0, at |-> "new", done |-> FALSE, queue |-> <<>>, dropped |-> FALSE,
                           rect |-> {}, pic |-> blank]
  BY DEF Dispatcher!NewTab, Dispatcher!None
<1> HIDE DEF blank
<1> QED BY <1>1, <1>2 DEF DispTab

\* A new session: its monitor is to be redrawn, the one it replaces is done.
LEMMA SessionStarts ==
    ASSUME DispTypes, SessionInv, NEW t \in Tabs, NEW m \in Mons, tab[t].at \in {"new", "connect"},
           width' \in Widths, posX' = Dispatcher!Repositioned(width'), Dispatcher!Registered(t, m)
    PROVE  /\ tab' \in [Tabs -> DispTab] /\ sessions' \in [Mons -> Tabs \cup {0}] /\ SessionInv'
           /\ \A k \in Tabs : HasSession(tab'[k]) =>
                 \/ tab'[k] = tab[k] /\ HasSession(tab[k])
                 \/ k = t /\ tab'[k].mon = m /\ tab'[k].rect = posX'[m] .. posX'[m] + width'[m] - 1
<1> USE MonsFacts
<1> DEFINE area == posX'[m] .. posX'[m] + width'[m] - 1
           new == [Dispatcher!NewTab EXCEPT !.mon = m, !.at = "refresh", !.rect = area]
<1>1. posX'[m] \in Nat /\ width'[m] \in Nat
  <2>1. posX'[m] = Place(width', m)
    BY PlaceIsLeftOf DEF Dispatcher!Repositioned
  <2> QED BY <2>1, PlaceInRow DEF Widths
<1>2. area \subseteq Int
  BY <1>1
<1>3. /\ sessions' = [sessions EXCEPT ![m] = t]
      /\ tab' = [k \in Tabs |-> IF k = t THEN new
                                ELSE IF k = sessions[m] THEN [tab[k] EXCEPT !.done = TRUE] ELSE tab[k]]
  BY DEF Dispatcher!Registered
<1> HIDE DEF area
<1>4. new \in DispTab /\ new.mon = m /\ new.at = "refresh" /\ ~new.done /\ new.rect = area
  BY <1>2, NewTabFacts DEF DispTab
<1> HIDE DEF new
<1>5. \A k \in Tabs : /\ k = t => tab'[k] = new
                      /\ k # t /\ k = sessions[m] => tab'[k] = [tab[k] EXCEPT !.done = TRUE]
                      /\ k # t /\ k # sessions[m] => tab'[k] = tab[k]
  BY <1>3
<1>6. \A k \in Tabs : LET d == [tab[k] EXCEPT !.done = TRUE]
                      IN d \in DispTab /\ d.done /\ d.mon = tab[k].mon /\ d.at = tab[k].at /\ d.rect = tab[k].rect
  <2>1. \A k \in Tabs : tab[k] \in DispTab
    BY DEF DispTypes
  <2> QED BY <2>1, DoneTab
<1>7. tab' \in [Tabs -> DispTab]
  BY <1>3, <1>4, <1>6 DEF DispTypes
<1>13. \A k \in Tabs : k # t => tab'[k].mon = tab[k].mon /\ tab'[k].at = tab[k].at /\ tab'[k].rect = tab[k].rect
  BY <1>5, <1>6
<1>8. sessions' \in [Mons -> Tabs \cup {0}]
  BY <1>3 DEF DispTypes
<1>9. \A k \in Tabs : HasSession(tab'[k]) => (k = t \/ (k # t /\ k # sessions[m] /\ tab'[k] = tab[k]))
  BY <1>5, <1>6 DEF HasSession
<1>10. \A k \in Mons : /\ k = m => sessions'[k] = t
                       /\ k # m => sessions'[k] = sessions[k]
  BY <1>3 DEF DispTypes
<1>11. SessionInv'
  <2>1. ASSUME NEW k \in Tabs, HasSession(tab'[k])
        PROVE  tab'[k].mon \in Mons /\ sessions'[tab'[k].mon] = k
    <3>1. CASE k = t
      <4>1. tab'[k].mon = m
        BY <1>4, <1>5, <3>1
      <4> QED BY <1>10, <3>1, <4>1
    <3>2. CASE k # t /\ k # sessions[m] /\ tab'[k] = tab[k]
      <4>1. HasSession(tab[k])
        BY <2>1, <3>2
      <4>2. tab[k].mon \in Mons /\ sessions[tab[k].mon] = k
        BY <4>1 DEF SessionInv
      <4>3. tab'[k].mon = tab[k].mon /\ tab[k].mon # m
        BY <3>2, <4>2
      <4> QED BY <1>10, <4>2, <4>3
    <3> QED BY <1>9, <2>1, <3>1, <3>2
  <2>2. ASSUME NEW k \in Mons, sessions'[k] # 0
        PROVE  tab'[sessions'[k]].mon = k /\ tab'[sessions'[k]].at \in {"refresh", "run"}
    <3>1. CASE k = m
      BY <1>4, <1>5, <1>10, <3>1
    <3>2. CASE k # m
      <4>1. sessions'[k] = sessions[k] /\ sessions[k] \in Tabs
        BY <1>10, <2>2, <3>2 DEF DispTypes
      <4>2. tab[sessions[k]].mon = k /\ tab[sessions[k]].at \in {"refresh", "run"}
        BY <2>2, <4>1 DEF SessionInv
      <4>3. sessions[k] # t
        BY <4>2
      <4> QED BY <1>13, <4>1, <4>2, <4>3
    <3> QED BY <3>1, <3>2
  <2>3. ASSUME NEW k \in Tabs, tab'[k].at = "run" PROVE tab'[k].rect = {}
    <3>1. k # t
      BY <1>4, <1>5, <2>3
    <3>2. tab[k].at = "run"
      BY <1>13, <2>3, <3>1
    <3> QED BY <1>13, <3>1, <3>2 DEF SessionInv
  <2> QED BY <2>1, <2>2, <2>3 DEF SessionInv
<1>12. ASSUME NEW k \in Tabs, HasSession(tab'[k])
       PROVE  \/ tab'[k] = tab[k] /\ HasSession(tab[k])
              \/ k = t /\ tab'[k].mon = m /\ tab'[k].rect = area
  BY <1>4, <1>5, <1>9, <1>12
<1> QED BY <1>7, <1>8, <1>11, <1>12 DEF area

\* What is cut to a monitor shows what is painted there.
LEMMA ClippedShows ==
    ASSUME DispTypes, NEW b \in Images, NEW m \in Mons
    PROVE  LET d == Dispatcher!Clipped(b, m)
           IN /\ d \in Images
              /\ \A c \in 0 .. width[m] - 1 : /\ c \in DOMAIN d <=> posX[m] + c \in DOMAIN b
                                              /\ c \in DOMAIN d => d[c] = b[posX[m] + c]
<1> DEFINE x == posX[m]
           w == width[m]
           D == {k - x : k \in DOMAIN b \cap (x .. x + w - 1)}
           d == [c \in D |-> b[c + x]]
<1>1. x \in Nat /\ w \in Nat
  BY DispBasics, MonsFacts
<1>2. d = Dispatcher!Clipped(b, m)
  BY DEF Dispatcher!Clipped, Dispatcher!Area
<1>3. PICK B \in SUBSET Int : b \in [B -> Nat]
  BY DEF Images
<1> HIDE DEF x, w
<1>4. D \subseteq Int /\ \A c \in D : c + x \in B
  BY <1>1, <1>3
<1>5. d \in [D -> Nat]
  BY <1>3, <1>4
<1>6. d \in Images
  BY <1>4, <1>5 DEF Images
<1>7. ASSUME NEW c \in 0 .. w - 1
      PROVE  /\ c \in D <=> x + c \in DOMAIN b
             /\ c + x = x + c
  <2>1. c \in Int /\ c + x = x + c /\ x + c \in x .. x + w - 1 /\ (x + c) - x = c
    BY <1>1
  <2>2. ASSUME c \in D PROVE x + c \in DOMAIN b
    <3>1. PICK k \in DOMAIN b \cap (x .. x + w - 1) : c = k - x
      BY <2>2
    <3>2. k = x + c
      BY <1>1, <3>1
    <3> QED BY <3>1, <3>2
  <2>3. ASSUME x + c \in DOMAIN b PROVE c \in D
    BY <2>1, <2>3
  <2> QED BY <2>1, <2>2, <2>3
<1>8. DOMAIN d = D /\ \A c \in D : d[c] = b[c + x]
  OBVIOUS
<1> HIDE DEF d, D
<1>9. \A c \in 0 .. w - 1 : /\ c \in DOMAIN d <=> x + c \in DOMAIN b
                            /\ c \in DOMAIN d => d[c] = b[x + c]
  BY <1>7, <1>8
<1> QED BY <1>2, <1>6, <1>9 DEF x, w

\* What routing leaves of a tab as it is.
SameTab(n, s) ==
    /\ n.mon = s.mon /\ n.at = s.at /\ (n.done <=> s.done) /\ n.rect = s.rect /\ n.pic = s.pic
    /\ s.dropped => n.dropped
\* Routing a batch: a tab with a session shows, in the end, what the batch paints, and
\* elsewhere what it would have shown, unless it is behind.
LEMMA RouteShows ==
    ASSUME DispTypes, SessionInv, NEW b \in Images, Dispatcher!Route(b)
    PROVE  /\ tab' \in [Tabs -> DispTab] /\ \A t \in Tabs : SameTab(tab'[t], tab[t])
           /\ \A t \in Tabs : HasSession(tab[t]) /\ ~tab'[t].dropped =>
                 \A c \in 0 .. width[tab[t].mon] - 1 :
                    LET g == posX[tab[t].mon] + c
                    IN /\ g \in DOMAIN b => Shows(tab'[t], c, b[g])
                       /\ \A v : g \notin DOMAIN b /\ Shows(tab[t], c, v) => Shows(tab'[t], c, v)
<1> USE MonsFacts
<1> DEFINE Hit(t) == \E m \in Mons : sessions[m] = t /\ DOMAIN b \cap Dispatcher!Area(m) # {}
<1>1. \A t \in Tabs : /\ ~Hit(t) => tab'[t] = tab[t]
                      /\ Hit(t) /\ Len(tab[t].queue) < MaxBehind =>
                           tab'[t] = [tab[t] EXCEPT !.queue = Append(@, Dispatcher!Clipped(b, tab[t].mon))]
                      /\ Hit(t) /\ ~(Len(tab[t].queue) < MaxBehind) => tab'[t] = [tab[t] EXCEPT !.dropped = TRUE]
  BY DEF Dispatcher!Route
<1>2. \A t \in Tabs : Hit(t) => tab[t].mon \in Mons
  <2> SUFFICES ASSUME NEW t \in Tabs, NEW m \in Mons, sessions[m] = t PROVE tab[t].mon = m
    OBVIOUS
  <2> QED BY DEF SessionInv
<1>3. ASSUME NEW t \in Tabs, HasSession(tab[t]), ~Hit(t), NEW c \in 0 .. width[tab[t].mon] - 1
      PROVE  posX[tab[t].mon] + c \notin DOMAIN b
  <2>1. tab[t].mon \in Mons /\ sessions[tab[t].mon] = t
    BY <1>3 DEF SessionInv
  <2>2. posX[tab[t].mon] \in Nat /\ width[tab[t].mon] \in Nat
    BY <2>1, DispBasics
  <2>3. posX[tab[t].mon] + c \in Dispatcher!Area(tab[t].mon)
    BY <2>2 DEF Dispatcher!Area
  <2> QED BY <1>3, <2>1, <2>3
<1> HIDE DEF Hit
<1>4. \A t \in Tabs : tab[t] \in DispTab
  BY DEF DispTypes
<1>5. ASSUME NEW t \in Tabs
      PROVE  /\ tab'[t] \in DispTab /\ SameTab(tab'[t], tab[t])
             /\ HasSession(tab[t]) /\ ~tab'[t].dropped =>
                 \A c \in 0 .. width[tab[t].mon] - 1 :
                    LET g == posX[tab[t].mon] + c
                    IN /\ g \in DOMAIN b => Shows(tab'[t], c, b[g])
                       /\ \A v : g \notin DOMAIN b /\ Shows(tab[t], c, v) => Shows(tab'[t], c, v)
  <2>1. CASE ~Hit(t)
    <3>1. tab'[t] = tab[t]
      BY <1>1, <2>1
    <3> QED BY <1>3, <1>4, <2>1, <3>1 DEF SameTab
  <2>2. CASE Hit(t) /\ ~(Len(tab[t].queue) < MaxBehind)
    <3>1. tab'[t] = [tab[t] EXCEPT !.dropped = TRUE]
      BY <1>1, <2>2
    <3> QED BY <1>4, <3>1 DEF SameTab, DispTab
  <2>3. CASE Hit(t) /\ Len(tab[t].queue) < MaxBehind
    <3> DEFINE d == Dispatcher!Clipped(b, tab[t].mon)
               s == tab[t]
               n == tab'[t]
    <3>1. d \in Images /\ s \in DispTab
      BY <1>2, <1>4, <2>3, ClippedShows
    <3>2. n = [s EXCEPT !.queue = Append(@, d)]
      BY <1>1, <2>3
    <3> HIDE DEF d
    <3> HIDE DEF s, n
    <3>3. n \in DispTab /\ n.queue = Append(s.queue, d) /\ SameTab(n, s)
      <4>1. Append(s.queue, d) \in Seq(Images)
        BY <3>1 DEF DispTab
      <4>2. n = [s EXCEPT !.queue = Append(s.queue, d)]
        BY <3>2
      <4> DEFINE q == Append(s.queue, d)
      <4> HIDE DEF q
      <4>3. q \in Seq(Images) /\ n = [s EXCEPT !.queue = q]
        BY <4>1, <4>2 DEF q
      <4>4. n \in DispTab /\ n.queue = q /\ SameTab(n, s)
        BY <3>1, <4>3 DEF SameTab, DispTab
      <4> QED BY <4>4 DEF q
    <3>4. ASSUME NEW c \in 0 .. width[s.mon] - 1
          PROVE  /\ c \in DOMAIN d <=> posX[s.mon] + c \in DOMAIN b
                 /\ c \in DOMAIN d => d[c] = b[posX[s.mon] + c]
      BY <1>2, <2>3, ClippedShows DEF d, s
    <3>5. ASSUME NEW c \in 0 .. width[s.mon] - 1
          PROVE  /\ c \in DOMAIN d => Shows(n, c, d[c])
                 /\ \A v : c \notin DOMAIN d /\ Shows(s, c, v) => Shows(n, c, v)
      BY <3>1, <3>3, ShowsAppend DEF SameTab
    <3> QED BY <3>3, <3>4, <3>5 DEF s, n
  <2> QED BY <2>1, <2>2, <2>3
<1>6. tab' = [t \in Tabs |-> tab'[t]]
  BY DEF Dispatcher!Route
<1>7. tab' \in [Tabs -> DispTab]
  BY <1>5, <1>6
<1> QED BY <1>5, <1>7

\* Sessions stay what they are when tabs get on or are done.
LEMMA SessionsStay ==
    ASSUME DispTypes, SessionInv, sessions' = sessions,
           \A t \in Tabs : /\ tab'[t].mon = tab[t].mon
                           /\ HasSession(tab'[t]) => HasSession(tab[t])
                           /\ tab[t].at \in {"refresh", "run"} => tab'[t].at \in {"refresh", "run"}
                           /\ tab'[t].at = "run" => tab'[t].rect = {}
    PROVE  SessionInv'
<1>1. ASSUME NEW t \in Tabs, HasSession(tab'[t]) PROVE tab'[t].mon \in Mons /\ sessions'[tab'[t].mon] = t
  <2>1. HasSession(tab[t]) /\ tab'[t].mon = tab[t].mon
    BY <1>1
  <2> QED BY <2>1 DEF SessionInv
<1>2. ASSUME NEW m \in Mons, sessions'[m] # 0
      PROVE  tab'[sessions'[m]].mon = m /\ tab'[sessions'[m]].at \in {"refresh", "run"}
  <2>1. sessions'[m] = sessions[m] /\ sessions[m] \in Tabs
    BY <1>2 DEF DispTypes
  <2>2. tab[sessions[m]].mon = m /\ tab[sessions[m]].at \in {"refresh", "run"}
    BY <1>2, <2>1 DEF SessionInv
  <2> QED BY <2>1, <2>2
<1> QED BY <1>1, <1>2 DEF SessionInv

\* No tab has a session, and the server has nothing to send.
LEMMA DispInvInit == Dispatcher!Init => DispInv
<1> SUFFICES ASSUME Dispatcher!Init PROVE DispInv
  OBVIOUS
<1> USE MonsFacts
<1>1. /\ width \in [Mons -> 0 .. 1] /\ posX = Dispatcher!Repositioned(width) /\ layout = <<>>
      /\ client = "none" /\ lock = 0 /\ sessions = [m \in Mons |-> 0]
      /\ tab = [t \in Tabs |-> Dispatcher!NewTab] /\ desktop = [c \in Dispatcher!Cells |-> 0]
      /\ todo = {} /\ inPaint = FALSE /\ frameBatch = <<>>
  BY DEF Dispatcher!Init, Dispatcher!None
<1>2. width \in [Mons -> 0 .. MaxWidth]
  <2>1. 0 .. 1 \subseteq 0 .. MaxWidth
    OBVIOUS
  <2> QED BY <1>1, <2>1
<1>3. DispTypes
  BY <1>1, <1>2, NewTabFacts DEF DispTypes
<1>4. LayoutInv
  BY <1>1 DEF LayoutInv
<1>5. SessionInv
  BY <1>1, NewTabFacts DEF SessionInv, HasSession
<1>6. FrameInv
  <2>1. DOMAIN <<>> = {} /\ <<>> \in [{} -> Nat]
    OBVIOUS
  <2> QED BY <1>1, <2>1 DEF FrameInv, Images
<1>7. ShownInv
  BY <1>1 DEF ShownInv
<1> QED BY <1>3, <1>4, <1>5, <1>6, <1>7 DEF DispInv

\* The monitors' cells are cells of the desktop, and once all monitors have a size the
\* server sends them all when it sends everything.
LEMMA CellsOf ==
    ASSUME NEW w \in Widths, NEW m \in Mons, NEW c \in 0 .. w[m] - 1
    PROVE  /\ Dispatcher!Repositioned(w)[m] + c \in Dispatcher!Cells
           /\ (\A k \in Mons : w[k] > 0) =>
                 Dispatcher!Repositioned(w)[m] + c \in Dispatcher!Told(Dispatcher!UpdateOpts(w))
<1> USE MonsFacts
<1> DEFINE p == Place(w, m)
<1>1. Dispatcher!Repositioned(w)[m] = p
  BY PlaceIsLeftOf DEF Dispatcher!Repositioned
<1>2. p \in Nat /\ p + w[m] <= N * MaxWidth /\ w[m] \in Nat /\ N * MaxWidth \in Nat
  <2>1. p \in Nat /\ p + w[m] <= N * MaxWidth
    BY PlaceInRow
  <2>2. w[m] \in 0 .. MaxWidth /\ N * MaxWidth \in Nat
    BY DEF Widths
  <2> QED BY <2>1, <2>2
<1> HIDE DEF p
<1>3. p + c \in 0 .. N * MaxWidth - 1 /\ p + c \in p .. p + w[m] - 1
  BY <1>2
<1>4. ASSUME \A k \in Mons : w[k] > 0 PROVE p + c \in Dispatcher!Told(Dispatcher!UpdateOpts(w))
  <2>1. p .. p + w[m] - 1 \subseteq Dispatcher!Told(Dispatcher!UpdateOpts(w))
    BY <1>4, ToldPlaces DEF p
  <2> QED BY <1>3, <2>1
<1> QED BY <1>1, <1>3, <1>4, CellsAre

\* When the server is to send everything, every tab is to be shown everything.
LEMMA AllToSend ==
    ASSUME NEW w \in Widths, \A m \in Mons : w[m] > 0, NEW s \in DispTab, HasSession(s) => s.mon \in Mons,
           NEW td, Dispatcher!Told(Dispatcher!UpdateOpts(w)) \subseteq td, NEW fb, NEW dk
    PROVE  ShownTab(s, w, Dispatcher!Repositioned(w), td, fb, dk)
BY CellsOf DEF ShownTab

\* A bitmap comes from the server: what it paints is no longer to be sent.
LEMMA BitmapKeeps ==
    ASSUME DispInv, NEW image \in Images, DOMAIN image \subseteq Dispatcher!Cells,
           Dispatcher!Bitmap(image), desktop' \in [Dispatcher!Cells -> Nat],
           \A g \in DOMAIN image : image[g] = desktop'[g],
           \A g \in Dispatcher!Cells \ DOMAIN image : desktop'[g] = desktop[g],
           todo' \subseteq todo, todo \subseteq todo' \cup DOMAIN image
    PROVE  DispInv'
<1> USE MonsFacts DEF DispInv
<1>1. UNCHANGED <<width, posX, layout, client, lock, sessions, inPaint>> /\ lock = 0
  BY DEF Dispatcher!Bitmap, Dispatcher!topology, Dispatcher!None
<1>2. CASE inPaint
  <2>1. tab' = tab /\ frameBatch' = Dispatcher!Over(image, frameBatch)
    BY <1>2 DEF Dispatcher!Bitmap
  <2> DEFINE D == DOMAIN image \cup DOMAIN frameBatch
  <2>2. frameBatch' = [p \in D |-> IF p \in DOMAIN image THEN image[p] ELSE frameBatch[p]]
    BY <2>1 DEF Dispatcher!Over
  <2>3. D \subseteq Int /\ D \subseteq Dispatcher!Cells /\ \A p \in DOMAIN image : image[p] \in Nat
    BY DEF Images, FrameInv
  <2>4. \A p \in DOMAIN frameBatch : frameBatch[p] \in Nat
    BY DEF Images, FrameInv
  <2>5. frameBatch' \in [D -> Nat]
    BY <2>2, <2>3, <2>4
  <2>6. DOMAIN frameBatch' = D /\ \A g \in D : frameBatch'[g] = desktop'[g]
    BY <2>2, <2>3 DEF FrameInv
  <2> HIDE DEF D
  <2>7. FrameInv'
    BY <1>1, <1>2, <2>3, <2>5, <2>6 DEF FrameInv, Images
  <2>8. DispTypes' /\ LayoutInv' /\ SessionInv'
    BY <1>1, <2>1 DEF DispTypes, LayoutInv, SessionInv
  <2>9. ShownInv'
    <3> SUFFICES ASSUME client = "up", Dispatcher!Resolved, NEW t \in Tabs, HasSession(tab[t]), ~tab[t].dropped,
                        NEW c \in 0 .. width[tab[t].mon] - 1, NEW g, g = posX[tab[t].mon] + c
                 PROVE  g \in todo' \/ g \in D \/ g \in tab[t].rect \/ Shows(tab[t], c, desktop'[g])
      BY <1>1, <2>1, <2>6 DEF ShownInv, ShownTab, Dispatcher!Resolved
    <3>1. tab[t].mon \in Mons
      BY DEF SessionInv
    <3>2. g \in Dispatcher!Cells
      BY <3>1, CellsOf DEF DispTypes, Widths
    <3>3. g \in todo \/ g \in DOMAIN frameBatch \/ g \in tab[t].rect \/ Shows(tab[t], c, desktop[g])
      BY DEF ShownInv, ShownTab
    <3> QED BY <3>2, <3>3 DEF D
  <2> QED BY <2>7, <2>8, <2>9
<1>3. CASE ~inPaint
  <2>1. Dispatcher!Route(image) /\ frameBatch' = frameBatch
    BY <1>3 DEF Dispatcher!Bitmap
  <2>2. DOMAIN frameBatch = {}
    BY <1>3 DEF FrameInv
  <2>3. FrameInv'
    BY <1>1, <2>1, <2>2 DEF FrameInv
  <2>4. tab' \in [Tabs -> DispTab] /\ \A t \in Tabs : SameTab(tab'[t], tab[t])
    BY <2>1, RouteShows
  <2>5. DispTypes' /\ LayoutInv'
    BY <1>1, <2>4 DEF DispTypes, LayoutInv
  <2>6. SessionInv'
    <3>1. \A t \in Tabs : /\ tab'[t].mon = tab[t].mon
                          /\ HasSession(tab'[t]) => HasSession(tab[t])
                          /\ tab[t].at \in {"refresh", "run"} => tab'[t].at \in {"refresh", "run"}
                          /\ tab'[t].at = "run" => tab'[t].rect = {}
      BY <2>4 DEF SameTab, HasSession, SessionInv
    <3> QED BY <1>1, <3>1, SessionsStay
  <2>7. ShownInv'
    <3> SUFFICES ASSUME client = "up", Dispatcher!Resolved, NEW t \in Tabs, HasSession(tab'[t]), ~tab'[t].dropped,
                        NEW c \in 0 .. width[tab'[t].mon] - 1, NEW g, g = posX[tab'[t].mon] + c
                 PROVE  g \in todo' \/ g \in tab'[t].rect \/ Shows(tab'[t], c, desktop'[g])
      BY <1>1 DEF ShownInv, ShownTab, Dispatcher!Resolved
    <3>1. HasSession(tab[t]) /\ ~tab[t].dropped /\ tab'[t].mon = tab[t].mon /\ tab'[t].rect = tab[t].rect
      BY <2>4 DEF SameTab, HasSession
    <3>2. tab[t].mon \in Mons
      BY <3>1 DEF SessionInv
    <3>3. g \in Dispatcher!Cells
      BY <3>1, <3>2, CellsOf DEF DispTypes, Widths
    <3>4. g \in todo \/ g \in tab[t].rect \/ Shows(tab[t], c, desktop[g])
      BY <2>2, <3>1 DEF ShownInv, ShownTab
    <3>5. /\ g \in DOMAIN image => Shows(tab'[t], c, image[g])
          /\ \A v : g \notin DOMAIN image /\ Shows(tab[t], c, v) => Shows(tab'[t], c, v)
      BY <2>1, <3>1, RouteShows
    <3> QED BY <3>1, <3>3, <3>4, <3>5
  <2> QED BY <2>3, <2>5, <2>6, <2>7
<1> QED BY <1>2, <1>3

\* The end of a frame: what it painted is routed.
LEMMA EndPaintKeeps ==
    ASSUME DispInv, Dispatcher!EndPaint
    PROVE  DispInv'
<1> USE DEF DispInv
<1>1. UNCHANGED <<width, posX, layout, client, lock, sessions, desktop, todo>> /\ inPaint' = FALSE
      /\ frameBatch' = <<>> /\ Dispatcher!Route(frameBatch) /\ lock = 0
  BY DEF Dispatcher!EndPaint, Dispatcher!topology, Dispatcher!None
<1>2. FrameInv'
  <2>1. DOMAIN <<>> = {} /\ <<>> \in [{} -> Nat]
    OBVIOUS
  <2> QED BY <1>1, <2>1 DEF FrameInv, Images
<1>3. frameBatch \in Images
  BY DEF FrameInv
<1>4. tab' \in [Tabs -> DispTab] /\ \A t \in Tabs : SameTab(tab'[t], tab[t])
  BY <1>1, <1>3, RouteShows
<1>5. DispTypes' /\ LayoutInv'
  BY <1>1, <1>4 DEF DispTypes, LayoutInv
<1>6. SessionInv'
  <2>1. \A t \in Tabs : /\ tab'[t].mon = tab[t].mon
                        /\ HasSession(tab'[t]) => HasSession(tab[t])
                        /\ tab[t].at \in {"refresh", "run"} => tab'[t].at \in {"refresh", "run"}
                        /\ tab'[t].at = "run" => tab'[t].rect = {}
    BY <1>4 DEF SameTab, HasSession, SessionInv
  <2> QED BY <1>1, <2>1, SessionsStay
<1>7. ShownInv'
  <2> SUFFICES ASSUME client = "up", Dispatcher!Resolved, NEW t \in Tabs, HasSession(tab'[t]), ~tab'[t].dropped,
                      NEW c \in 0 .. width[tab'[t].mon] - 1, NEW g, g = posX[tab'[t].mon] + c
               PROVE  g \in todo \/ g \in tab'[t].rect \/ Shows(tab'[t], c, desktop[g])
    BY <1>1 DEF ShownInv, ShownTab, Dispatcher!Resolved
  <2>1. HasSession(tab[t]) /\ ~tab[t].dropped /\ tab'[t].mon = tab[t].mon /\ tab'[t].rect = tab[t].rect
    BY <1>4 DEF SameTab, HasSession
  <2>2. g \in todo \/ g \in DOMAIN frameBatch \/ g \in tab[t].rect \/ Shows(tab[t], c, desktop[g])
    BY <2>1 DEF ShownInv, ShownTab
  <2>3. /\ g \in DOMAIN frameBatch => Shows(tab'[t], c, frameBatch[g])
        /\ \A v : g \notin DOMAIN frameBatch /\ Shows(tab[t], c, v) => Shows(tab'[t], c, v)
    BY <1>1, <1>3, <2>1, RouteShows
  <2> QED BY <2>1, <2>2, <2>3 DEF FrameInv
<1> QED BY <1>2, <1>5, <1>6, <1>7

\* A tab that attaches connects first, or starts its session at once.
LEMMA AttachKeeps ==
    ASSUME DispInv, NEW t \in Tabs, NEW m \in Mons, NEW w \in 1 .. MaxWidth, Dispatcher!Attach(t, m, w)
    PROVE  DispInv'
<1> USE MonsFacts DEF DispInv
<1>1. /\ lock = 0 /\ tab[t].at = "new" /\ UNCHANGED <<desktop, inPaint, frameBatch>>
      /\ width' = IF width[m] = 0 THEN [width EXCEPT ![m] = w] ELSE width
      /\ posX' = IF width' # width THEN Dispatcher!Repositioned(width') ELSE posX
  BY DEF Dispatcher!Attach, Dispatcher!paint, Dispatcher!None
<1>2. width' \in Widths /\ width'[m] > 0
  BY <1>1 DEF DispTypes, Widths
<1>3. posX' = Dispatcher!Repositioned(width')
  BY <1>1 DEF DispTypes
<1>4. \E k \in Mons : width'[k] > 0
  BY <1>2
<1>5. Dispatcher!UpdateOpts(width') # <<>>
  BY <1>2, <1>4, ToldPlaces
<1>6. FrameInv'
  BY <1>1 DEF FrameInv
<1>7. CASE client = "none"
  <2>1. /\ layout' = Dispatcher!UpdateOpts(width') /\ client' = "connecting" /\ lock' = t
        /\ tab' = [tab EXCEPT ![t] = [tab[t] EXCEPT !.at = "connect", !.mon = m]]
        /\ sessions' = sessions /\ todo' = todo /\ todo = {}
    BY <1>7 DEF Dispatcher!Attach, LayoutInv
  <2> DEFINE s == tab[t]
             n == [s EXCEPT !.at = "connect", !.mon = m]
  <2>2. n \in DispTab /\ n.at = "connect" /\ n.mon = m
    <3>1. s \in DispTab
      BY DEF DispTypes
    <3> HIDE DEF s
    <3>2. n \in DispTab
      BY <3>1, Zenon DEF DispTab
    <3>3. n.at = "connect" /\ n.mon = m
      BY <3>1 DEF DispTab
    <3> QED BY <3>2, <3>3
  <2>3. tab' = [tab EXCEPT ![t] = n]
    BY <2>1
  <2> HIDE DEF n
  <2>4. tab' \in [Tabs -> DispTab] /\ tab'[t] = n /\ \A k \in Tabs : k # t => tab'[k] = tab[k]
    BY <2>2, <2>3 DEF DispTypes
  <2>5. DispTypes'
    BY <1>1, <1>2, <1>3, <2>1, <2>4 DEF DispTypes, Widths
  <2>6. LayoutInv'
    BY <1>4, <1>5, <2>1, <2>2, <2>4 DEF LayoutInv
  <2>7. SessionInv'
    <3>1. ASSUME NEW k \in Tabs, HasSession(tab'[k])
          PROVE  tab'[k].mon \in Mons /\ sessions'[tab'[k].mon] = k
      <4>1. k # t
        BY <2>2, <2>4, <3>1 DEF HasSession
      <4> QED BY <2>1, <2>4, <3>1, <4>1 DEF SessionInv
    <3>2. ASSUME NEW k \in Mons, sessions'[k] # 0
          PROVE  tab'[sessions'[k]].mon = k /\ tab'[sessions'[k]].at \in {"refresh", "run"}
      <4>1. sessions'[k] = sessions[k] /\ sessions[k] \in Tabs
        BY <2>1, <3>2 DEF DispTypes
      <4>2. tab[sessions[k]].mon = k /\ tab[sessions[k]].at \in {"refresh", "run"}
        BY <3>2, <4>1 DEF SessionInv
      <4>3. sessions[k] # t
        BY <1>1, <4>2
      <4> QED BY <2>4, <4>1, <4>2, <4>3
    <3>3. ASSUME NEW k \in Tabs, tab'[k].at = "run" PROVE tab'[k].rect = {}
      <4>1. k # t
        BY <2>2, <2>4, <3>3
      <4> QED BY <2>4, <3>3, <4>1 DEF SessionInv
    <3> QED BY <3>1, <3>2, <3>3 DEF SessionInv
  <2>8. ShownInv'
    BY <2>1 DEF ShownInv
  <2> QED BY <1>6, <2>5, <2>6, <2>7, <2>8
<1>8. CASE client # "none"
  <2>1. /\ layout' = IF width' # width THEN Dispatcher!UpdateOpts(width') ELSE layout
        /\ todo' = IF width' # width /\ client = "up" THEN Dispatcher!Told(layout') ELSE todo
        /\ Dispatcher!Registered(t, m) /\ client' = client /\ lock' = 0
    BY <1>1, <1>8 DEF Dispatcher!Attach
  <2>2. layout' = Dispatcher!UpdateOpts(width')
    BY <1>8, <2>1 DEF LayoutInv
  <2>3. todo' \subseteq Dispatcher!Told(layout') /\ (client # "up" => todo' = {})
    BY <2>1, <2>2 DEF LayoutInv
  <2>4. /\ tab' \in [Tabs -> DispTab] /\ sessions' \in [Mons -> Tabs \cup {0}] /\ SessionInv'
        /\ \A k \in Tabs : HasSession(tab'[k]) =>
              \/ tab'[k] = tab[k] /\ HasSession(tab[k])
              \/ k = t /\ tab'[k].mon = m /\ tab'[k].rect = posX'[m] .. posX'[m] + width'[m] - 1
    BY <1>1, <1>2, <1>3, <2>1, SessionStarts
  <2>5. DispTypes'
    BY <1>1, <1>2, <1>3, <2>1, <2>4 DEF DispTypes, Widths
  <2>6. LayoutInv'
    BY <1>4, <1>5, <2>1, <2>2, <2>3 DEF LayoutInv
  <2>7. ShownInv'
    <3> SUFFICES ASSUME client = "up", Dispatcher!Resolved', NEW k \in Tabs
                 PROVE  ShownTab(tab'[k], width', posX', todo', DOMAIN frameBatch', desktop')
      BY <2>1 DEF ShownInv
    <3>1. CASE width' # width
      <4>1. Dispatcher!Told(Dispatcher!UpdateOpts(width')) \subseteq todo'
        BY <2>1, <2>2, <3>1
      <4>2. HasSession(tab'[k]) => tab'[k].mon \in Mons
        BY <2>4 DEF SessionInv
      <4>3. \A j \in Mons : width'[j] > 0
        BY DEF Dispatcher!Resolved
      <4> QED BY <1>2, <1>3, <2>4, <4>1, <4>2, <4>3, AllToSend
    <3>2. CASE width' = width
      <4> SUFFICES ASSUME HasSession(tab'[k]), ~tab'[k].dropped
                   PROVE  ShownTab(tab'[k], width', posX', todo', DOMAIN frameBatch', desktop')
        BY DEF ShownTab
      <4>1. todo' = todo /\ posX' = posX /\ frameBatch' = frameBatch /\ desktop' = desktop
        BY <1>1, <2>1, <3>2
      <4>2. CASE tab'[k] = tab[k]
        <5>1. ShownTab(tab[k], width, posX, todo, DOMAIN frameBatch, desktop)
          BY <3>2 DEF ShownInv, Dispatcher!Resolved
        <5> QED BY <3>2, <4>1, <4>2, <5>1
      <4>3. CASE tab'[k].mon = m /\ tab'[k].rect = posX'[m] .. posX'[m] + width'[m] - 1
        <5>1. posX'[m] \in Nat /\ width'[m] \in Nat
          BY <2>5, <3>2, <4>1, DispBasics
        <5>2. ASSUME NEW c \in 0 .. width'[m] - 1 PROVE posX'[m] + c \in tab'[k].rect
          BY <4>3, <5>1
        <5> QED BY <4>3, <5>2 DEF ShownTab
      <4> QED BY <2>4, <4>2, <4>3
    <3> QED BY <3>1, <3>2
  <2> QED BY <1>6, <2>4, <2>5, <2>6, <2>7
<1> QED BY <1>7, <1>8

\* The connection is up, with everything to send, or the tab has none.
LEMMA ConnectedKeeps ==
    ASSUME DispInv, NEW t \in Tabs, Dispatcher!Connected(t)
    PROVE  DispInv'
<1> USE MonsFacts DEF DispInv
<1>1. lock = t /\ lock' = 0 /\ UNCHANGED <<width, posX, layout, desktop, inPaint, frameBatch>>
  BY DEF Dispatcher!Connected, Dispatcher!topology, Dispatcher!paint, Dispatcher!None
<1>2. /\ client = "connecting" /\ tab[t].at = "connect" /\ tab[t].mon \in Mons
      /\ layout = Dispatcher!UpdateOpts(width) /\ todo = {} /\ layout # <<>>
  BY <1>1 DEF LayoutInv
<1>3. FrameInv'
  BY <1>1 DEF FrameInv
<1>4. CASE client' = "up" /\ todo' = Dispatcher!Told(layout) /\ Dispatcher!Registered(t, tab[t].mon)
  <2>1. width' \in Widths /\ posX' = Dispatcher!Repositioned(width')
    BY <1>1 DEF DispTypes, Widths
  <2>2. tab' \in [Tabs -> DispTab] /\ sessions' \in [Mons -> Tabs \cup {0}] /\ SessionInv'
    BY <1>2, <1>4, <2>1, SessionStarts
  <2>3. DispTypes'
    BY <1>1, <1>4, <2>2 DEF DispTypes
  <2>4. LayoutInv'
    BY <1>1, <1>2, <1>4 DEF LayoutInv
  <2>5. ShownInv'
    <3> SUFFICES ASSUME Dispatcher!Resolved', NEW k \in Tabs
                 PROVE  ShownTab(tab'[k], width', posX', todo', DOMAIN frameBatch', desktop')
      BY DEF ShownInv
    <3>1. HasSession(tab'[k]) => tab'[k].mon \in Mons
      BY <2>2 DEF SessionInv
    <3>2. \A j \in Mons : width'[j] > 0
      BY DEF Dispatcher!Resolved
    <3>3. Dispatcher!Told(Dispatcher!UpdateOpts(width')) \subseteq todo'
      BY <1>1, <1>2, <1>4
    <3> QED BY <2>1, <2>2, <3>1, <3>2, <3>3, AllToSend
  <2> QED BY <1>3, <2>2, <2>3, <2>4, <2>5
<1>5. CASE client' = "none" /\ tab' = [tab EXCEPT ![t].at = "gone"] /\ UNCHANGED <<sessions, todo>>
  <2> DEFINE s == tab[t]
             n == [s EXCEPT !.at = "gone"]
  <2>1. n \in DispTab /\ n.at = "gone" /\ tab' = [tab EXCEPT ![t] = n]
    BY <1>5 DEF DispTypes, DispTab
  <2> HIDE DEF n
  <2>2. tab' \in [Tabs -> DispTab] /\ tab'[t] = n /\ \A k \in Tabs : k # t => tab'[k] = tab[k]
    BY <2>1 DEF DispTypes
  <2>3. DispTypes'
    BY <1>1, <1>5, <2>2 DEF DispTypes
  <2>4. LayoutInv'
    BY <1>1, <1>2, <1>5 DEF LayoutInv
  <2>5. SessionInv'
    <3>1. ASSUME NEW k \in Tabs, HasSession(tab'[k])
          PROVE  tab'[k].mon \in Mons /\ sessions'[tab'[k].mon] = k
      <4>1. k # t
        BY <2>1, <2>2, <3>1 DEF HasSession
      <4> QED BY <1>5, <2>2, <3>1, <4>1 DEF SessionInv
    <3>2. ASSUME NEW k \in Mons, sessions'[k] # 0
          PROVE  tab'[sessions'[k]].mon = k /\ tab'[sessions'[k]].at \in {"refresh", "run"}
      <4>1. sessions'[k] = sessions[k] /\ sessions[k] \in Tabs
        BY <1>5, <3>2 DEF DispTypes
      <4>2. tab[sessions[k]].mon = k /\ tab[sessions[k]].at \in {"refresh", "run"}
        BY <3>2, <4>1 DEF SessionInv
      <4>3. sessions[k] # t
        BY <1>2, <4>2
      <4> QED BY <2>2, <4>1, <4>2, <4>3
    <3>3. ASSUME NEW k \in Tabs, tab'[k].at = "run" PROVE tab'[k].rect = {}
      <4>1. k # t
        BY <2>1, <2>2, <3>3
      <4> QED BY <2>2, <3>3, <4>1 DEF SessionInv
    <3> QED BY <3>1, <3>2, <3>3 DEF SessionInv
  <2>6. ShownInv'
    BY <1>5 DEF ShownInv
  <2> QED BY <1>3, <2>3, <2>4, <2>5, <2>6
<1> QED BY <1>4, <1>5 DEF Dispatcher!Connected

\* A step of one tab with a session, that lets the server have at most more to send.
LEMMA TabStepKeeps ==
    ASSUME DispInv, NEW t \in Tabs, NEW n \in DispTab, tab' = [tab EXCEPT ![t] = n],
           UNCHANGED <<width, posX, layout, client, lock, sessions, desktop, inPaint, frameBatch>>,
           tab[t].at \in {"refresh", "run"}, n.mon = tab[t].mon, n.at = "run", n.rect = {},
           HasSession(n) => HasSession(tab[t]),
           todo \subseteq todo', todo' \subseteq Dispatcher!Told(layout), client # "up" => todo' = {},
           client = "up" /\ Dispatcher!Resolved =>
               ShownTab(n, width, posX, todo', DOMAIN frameBatch, desktop)
    PROVE  DispInv'
<1> USE MonsFacts DEF DispInv
<1>1. tab' \in [Tabs -> DispTab] /\ tab'[t] = n /\ \A k \in Tabs : k # t => tab'[k] = tab[k]
  BY DEF DispTypes
<1>2. DispTypes' /\ FrameInv'
  BY <1>1 DEF DispTypes, FrameInv
<1>3. LayoutInv'
  <2>1. lock # 0 => tab'[lock] = tab[lock]
    BY <1>1 DEF LayoutInv, DispTypes
  <2> QED BY <2>1 DEF LayoutInv
<1>4. SessionInv'
  <2>1. \A k \in Tabs : /\ tab'[k].mon = tab[k].mon
                        /\ HasSession(tab'[k]) => HasSession(tab[k])
                        /\ tab[k].at \in {"refresh", "run"} => tab'[k].at \in {"refresh", "run"}
                        /\ tab'[k].at = "run" => tab'[k].rect = {}
    BY <1>1 DEF SessionInv
  <2> QED BY <2>1, SessionsStay
<1>5. ShownInv'
  <2> SUFFICES ASSUME client = "up", Dispatcher!Resolved, NEW k \in Tabs
               PROVE  ShownTab(tab'[k], width, posX, todo', DOMAIN frameBatch, desktop)
    BY DEF ShownInv, Dispatcher!Resolved
  <2>1. CASE k = t
    BY <1>1, <2>1
  <2>2. CASE k # t
    <3>1. ShownTab(tab[k], width, posX, todo, DOMAIN frameBatch, desktop)
      BY DEF ShownInv
    <3> QED BY <1>1, <2>2, <3>1 DEF ShownTab
  <2> QED BY <2>1, <2>2
<1> QED BY <1>2, <1>3, <1>4, <1>5

\* The request for a redraw: what was to be redrawn is to be sent.
LEMMA RefreshKeeps ==
    ASSUME DispInv, NEW t \in Tabs, Dispatcher!Refresh(t)
    PROVE  DispInv'
<1> DEFINE s == tab[t]
           n == [s EXCEPT !.at = "run", !.rect = {}]
           want == s.rect \cap Dispatcher!Told(layout)
<1>1. /\ s.at = "refresh" /\ tab' = [tab EXCEPT ![t] = n]
      /\ todo' = IF client = "up" THEN todo \cup want ELSE todo
      /\ UNCHANGED <<width, posX, layout, client, lock, sessions, desktop, inPaint, frameBatch>>
  BY DEF Dispatcher!Refresh, Dispatcher!RefreshRect, Dispatcher!topology, Dispatcher!paint
<1>2. /\ n \in DispTab /\ n.mon = s.mon /\ n.at = "run" /\ n.rect = {} /\ n.queue = s.queue /\ n.pic = s.pic
      /\ n.done = s.done /\ n.dropped = s.dropped
  BY DEF DispInv, DispTypes, DispTab
<1> HIDE DEF s, n
<1>3. HasSession(n) => HasSession(s)
  BY <1>1, <1>2 DEF HasSession
<1>4. todo \subseteq todo' /\ todo' \subseteq Dispatcher!Told(layout) /\ (client # "up" => todo' = {})
  BY <1>1 DEF DispInv, LayoutInv
<1>5. ASSUME client = "up", Dispatcher!Resolved
      PROVE  ShownTab(n, width, posX, todo', DOMAIN frameBatch, desktop)
  <2> SUFFICES ASSUME HasSession(n), ~n.dropped, NEW c \in 0 .. width[n.mon] - 1, NEW g, g = posX[n.mon] + c
               PROVE  g \in todo' \/ g \in DOMAIN frameBatch \/ Shows(n, c, desktop[g])
    BY DEF ShownTab
  <2>1. HasSession(s) /\ ~s.dropped /\ n.mon \in Mons
    BY <1>2, <1>3 DEF DispInv, SessionInv, s
  <2>2. g \in todo \/ g \in DOMAIN frameBatch \/ g \in s.rect \/ Shows(s, c, desktop[g])
    BY <1>2, <1>5, <2>1 DEF DispInv, ShownInv, ShownTab, s
  <2>3. Shows(s, c, desktop[g]) => Shows(n, c, desktop[g])
    BY <1>2 DEF Shows
  <2>4. g \in Dispatcher!Told(layout)
    <3>1. width \in Widths /\ posX = Dispatcher!Repositioned(width) /\ \A m \in Mons : width[m] > 0
      BY <1>5 DEF DispInv, DispTypes, Widths, Dispatcher!Resolved
    <3>2. layout = Dispatcher!UpdateOpts(width)
      BY <1>5 DEF DispInv, LayoutInv
    <3> QED BY <2>1, <3>1, <3>2, CellsOf
  <2> QED BY <1>1, <1>5, <2>2, <2>3, <2>4
<1> QED BY <1>1, <1>2, <1>3, <1>4, <1>5, TabStepKeeps DEF s

\* The send loop gives the tab a batch to show.
LEMMA DispSendKeeps ==
    ASSUME DispInv, NEW t \in Tabs, Dispatcher!SendLoop(t)
    PROVE  DispInv'
<1> DEFINE s == tab[t]
           batch == Head(s.queue)
           pic == [c \in DOMAIN s.pic |-> IF c \in DOMAIN batch THEN <<batch[c]>> ELSE s.pic[c]]
           n == [s EXCEPT !.queue = Tail(s.queue), !.pic = pic]
<1>1. /\ s.at = "run" /\ ~s.done /\ s.queue # <<>> /\ tab' = [tab EXCEPT ![t] = n] /\ todo' = todo
      /\ UNCHANGED <<width, posX, layout, client, lock, sessions, desktop, inPaint, frameBatch>>
  BY DEF Dispatcher!SendLoop, Dispatcher!topology, Dispatcher!paint
<1>2. s \in DispTab
  BY DEF DispInv, DispTypes
<1>3. s.queue \in Seq(Images) /\ Tail(s.queue) \in Seq(Images) /\ batch \in Images
  BY <1>1, <1>2 DEF DispTab
<1>4. \A c \in DOMAIN batch : batch[c] \in Nat
  BY <1>3 DEF Images
<1>5. DOMAIN s.pic = 0 .. MaxWidth - 1 /\ \A c \in 0 .. MaxWidth - 1 : s.pic[c] \in Seq(Nat)
  BY <1>2 DEF DispTab
<1> HIDE DEF batch
<1>6. pic \in [0 .. MaxWidth - 1 -> Seq(Nat)]
  <2>1. \A c \in 0 .. MaxWidth - 1 : c \in DOMAIN batch => <<batch[c]>> \in Seq(Nat)
    BY <1>4
  <2> QED BY <1>5, <2>1
<1>7. \A c \in 0 .. MaxWidth - 1 : pic[c] = IF c \in DOMAIN batch THEN <<batch[c]>> ELSE s.pic[c]
  BY <1>5
<1> HIDE DEF pic
<1>8. /\ n \in DispTab /\ n.mon = s.mon /\ n.at = s.at /\ n.rect = s.rect /\ n.queue = Tail(s.queue)
      /\ n.pic = pic /\ n.done = s.done /\ n.dropped = s.dropped
  BY <1>2, <1>3, <1>6 DEF DispTab
<1> HIDE DEF s, n
<1>9. s.rect = {} /\ HasSession(s)
  BY <1>1 DEF DispInv, SessionInv, HasSession, s
<1>10. todo' \subseteq Dispatcher!Told(layout) /\ (client # "up" => todo' = {})
  BY <1>1 DEF DispInv, LayoutInv
<1>11. ASSUME client = "up", Dispatcher!Resolved
       PROVE  ShownTab(n, width, posX, todo', DOMAIN frameBatch, desktop)
  <2> SUFFICES ASSUME ~n.dropped, NEW c \in 0 .. width[n.mon] - 1, NEW g, g = posX[n.mon] + c
               PROVE  g \in todo \/ g \in DOMAIN frameBatch \/ Shows(n, c, desktop[g])
    BY <1>1 DEF ShownTab
  <2>1. ~s.dropped /\ n.mon \in Mons
    BY <1>8, <1>9 DEF DispInv, SessionInv, s
  <2>2. g \in todo \/ g \in DOMAIN frameBatch \/ Shows(s, c, desktop[g])
    BY <1>8, <1>9, <1>11, <2>1 DEF DispInv, ShownInv, ShownTab, s
  <2>3. c \in 0 .. MaxWidth - 1
    BY <2>1, DispBasics, MonsFacts DEF DispInv
  <2>4. n.pic[c] = IF c \in DOMAIN Head(s.queue) THEN <<Head(s.queue)[c]>> ELSE s.pic[c]
    BY <1>7, <1>8, <2>3 DEF batch
  <2>5. \A v : Shows(s, c, v) => Shows(n, c, v)
    BY <1>1, <1>2, <1>8, <2>3, <2>4, ShowsTail
  <2> QED BY <2>2, <2>5
<1>12. HasSession(n) => HasSession(tab[t])
  BY <1>9 DEF s
<1> QED BY <1>1, <1>8, <1>9, <1>10, <1>11, <1>12, TabStepKeeps DEF s

\* The session of a tab ends: TabCloses and Watcher.
LEMMA DoneKeeps ==
    ASSUME DispInv, NEW t \in Tabs, tab[t].at = "run", tab' = [tab EXCEPT ![t].done = TRUE],
           UNCHANGED <<width, posX, layout, client, lock, sessions, desktop, todo, inPaint, frameBatch>>
    PROVE  DispInv'
<1> DEFINE s == tab[t]
           n == [s EXCEPT !.done = TRUE]
<1>1. tab' = [tab EXCEPT ![t] = n]
  OBVIOUS
<1>2. n \in DispTab /\ n.mon = s.mon /\ n.at = "run" /\ n.rect = s.rect /\ n.done
  BY DEF DispInv, DispTypes, DispTab
<1> HIDE DEF n
<1>3. ~HasSession(n) /\ n.rect = {}
  BY <1>2 DEF HasSession, DispInv, SessionInv
<1>4. todo' \subseteq Dispatcher!Told(layout) /\ (client # "up" => todo' = {})
  BY DEF DispInv, LayoutInv
<1>5. ShownTab(n, width, posX, todo', DOMAIN frameBatch, desktop)
  BY <1>3 DEF ShownTab
<1> QED BY <1>1, <1>2, <1>3, <1>4, <1>5, TabStepKeeps

\* A monitor changes its size: everything is sent again.
LEMMA ResizeKeeps ==
    ASSUME DispInv, NEW t \in Tabs, NEW w \in 1 .. MaxWidth, Dispatcher!TabResizes(t, w)
    PROVE  DispInv'
<1> USE MonsFacts DEF DispInv
<1> DEFINE s == tab[t]
           blank == Dispatcher!NewTab.pic
           n == [s EXCEPT !.pic = blank]
<1>1. /\ s.at = "run" /\ ~s.done /\ lock = 0 /\ client = "up"
      /\ width' = [width EXCEPT ![s.mon] = w] /\ posX' = Dispatcher!Repositioned(width')
      /\ layout' = Dispatcher!UpdateOpts(width') /\ todo' = Dispatcher!Told(layout')
      /\ tab' = [tab EXCEPT ![t] = n]
      /\ UNCHANGED <<client, lock, sessions, desktop, inPaint, frameBatch>>
  BY DEF Dispatcher!TabResizes, Dispatcher!paint, Dispatcher!None
<1>2. n \in DispTab /\ n.mon = s.mon /\ n.at = s.at /\ n.rect = s.rect /\ n.done = s.done
  BY NewTabFacts DEF DispTypes, DispTab
<1> HIDE DEF n
<1>3. s.mon \in Mons
  BY <1>1 DEF SessionInv, HasSession
<1>4. width' \in Widths /\ width'[s.mon] > 0
  BY <1>1, <1>3 DEF DispTypes, Widths
<1>5. tab' \in [Tabs -> DispTab] /\ tab'[t] = n /\ \A k \in Tabs : k # t => tab'[k] = tab[k]
  BY <1>1, <1>2 DEF DispTypes
<1>6. DispTypes' /\ FrameInv'
  BY <1>1, <1>4, <1>5 DEF DispTypes, FrameInv, Widths
<1>7. LayoutInv'
  <2>1. Dispatcher!UpdateOpts(width') # <<>>
    BY <1>3, <1>4, ToldPlaces
  <2> QED BY <1>1, <1>3, <1>4, <2>1 DEF LayoutInv
<1>8. SessionInv'
  <2>1. \A k \in Tabs : /\ tab'[k].mon = tab[k].mon
                        /\ HasSession(tab'[k]) => HasSession(tab[k])
                        /\ tab[k].at \in {"refresh", "run"} => tab'[k].at \in {"refresh", "run"}
                        /\ tab'[k].at = "run" => tab'[k].rect = {}
    BY <1>2, <1>5 DEF SessionInv, HasSession
  <2> QED BY <1>1, <2>1, SessionsStay
<1>9. ShownInv'
  <2> SUFFICES ASSUME Dispatcher!Resolved', NEW k \in Tabs
               PROVE  ShownTab(tab'[k], width', posX', todo', DOMAIN frameBatch', desktop')
    BY DEF ShownInv
  <2>1. HasSession(tab'[k]) => tab'[k].mon \in Mons
    BY <1>8 DEF SessionInv
  <2>2. \A m \in Mons : width'[m] > 0
    BY DEF Dispatcher!Resolved
  <2>3. Dispatcher!Told(Dispatcher!UpdateOpts(width')) \subseteq todo'
    BY <1>1
  <2> QED BY <1>1, <1>4, <1>5, <2>1, <2>2, <2>3, AllToSend
<1> QED BY <1>6, <1>7, <1>8, <1>9

\* A tab that is done gives up the session it still has.
LEMMA DetachKeeps ==
    ASSUME DispInv, NEW t \in Tabs, Dispatcher!Detach(t)
    PROVE  DispInv'
<1> USE MonsFacts DEF DispInv
<1> DEFINE blank == Dispatcher!NewTab
           n == [blank EXCEPT !.at = "gone"]
           m == tab[t].mon
<1>1. /\ tab[t].at = "run" /\ tab[t].done /\ lock = 0
      /\ sessions' = IF sessions[m] = t THEN [sessions EXCEPT ![m] = 0] ELSE sessions
      /\ tab' = [tab EXCEPT ![t] = n]
      /\ UNCHANGED <<width, posX, layout, client, lock, desktop, todo, inPaint, frameBatch>>
  BY DEF Dispatcher!Detach, Dispatcher!Gives, Dispatcher!topology, Dispatcher!paint, Dispatcher!None
<1>2. n \in DispTab /\ n.at = "gone"
  BY NewTabFacts DEF DispTab
<1> HIDE DEF n
<1>3. tab' \in [Tabs -> DispTab] /\ tab'[t] = n /\ \A k \in Tabs : k # t => tab'[k] = tab[k]
  BY <1>1, <1>2 DEF DispTypes
<1>4. sessions' \in [Mons -> Tabs \cup {0}]
  BY <1>1 DEF DispTypes
<1>5. DispTypes' /\ FrameInv' /\ LayoutInv'
  BY <1>1, <1>3, <1>4 DEF DispTypes, FrameInv, LayoutInv
<1>6. \A k \in Mons : sessions[k] # t => sessions'[k] = sessions[k]
  BY <1>1 DEF DispTypes
<1>7. SessionInv'
  <2>1. ASSUME NEW k \in Tabs, HasSession(tab'[k])
        PROVE  tab'[k].mon \in Mons /\ sessions'[tab'[k].mon] = k
    <3>1. k # t
      BY <1>2, <1>3, <2>1 DEF HasSession
    <3>2. tab'[k] = tab[k] /\ tab[k].mon \in Mons /\ sessions[tab[k].mon] = k
      BY <1>3, <2>1, <3>1 DEF SessionInv
    <3> QED BY <1>6, <3>1, <3>2
  <2>2. ASSUME NEW k \in Mons, sessions'[k] # 0
        PROVE  tab'[sessions'[k]].mon = k /\ tab'[sessions'[k]].at \in {"refresh", "run"}
    <3>1. CASE sessions[k] = t
      <4>1. m = k
        BY <3>1 DEF SessionInv
      <4>2. sessions' = [sessions EXCEPT ![k] = 0]
        BY <1>1, <3>1, <4>1
      <4>3. sessions'[k] = 0
        BY <4>2 DEF DispTypes
      <4> QED BY <2>2, <4>3
    <3>2. CASE sessions[k] # t
      <4>1. sessions'[k] = sessions[k] /\ sessions[k] \in Tabs
        BY <1>6, <2>2, <3>2 DEF DispTypes
      <4>2. tab[sessions[k]].mon = k /\ tab[sessions[k]].at \in {"refresh", "run"}
        BY <2>2, <4>1 DEF SessionInv
      <4> QED BY <1>3, <3>2, <4>1, <4>2
    <3> QED BY <3>1, <3>2
  <2>3. ASSUME NEW k \in Tabs, tab'[k].at = "run" PROVE tab'[k].rect = {}
    <3>1. k # t
      BY <1>2, <1>3, <2>3
    <3> QED BY <1>3, <2>3, <3>1 DEF SessionInv
  <2> QED BY <2>1, <2>2, <2>3 DEF SessionInv
<1>8. ShownInv'
  <2> SUFFICES ASSUME client = "up", Dispatcher!Resolved, NEW k \in Tabs
               PROVE  ShownTab(tab'[k], width, posX, todo, DOMAIN frameBatch, desktop)
    BY <1>1 DEF ShownInv, Dispatcher!Resolved
  <2>1. CASE k = t
    BY <1>2, <1>3, <2>1 DEF ShownTab, HasSession
  <2>2. CASE k # t
    BY <1>3, <2>2 DEF ShownInv
  <2> QED BY <2>1, <2>2
<1> QED BY <1>5, <1>7, <1>8

\* The end of the connection is the end of all sessions.
LEMMA DisconnectedKeeps == DispInv /\ Dispatcher!Disconnected => DispInv'
<1> SUFFICES ASSUME DispInv, Dispatcher!Disconnected PROVE DispInv'
  OBVIOUS
<1> USE MonsFacts DEF DispInv
<1> DEFINE S(t) == \E m \in Mons : sessions[m] = t
<1>1. /\ client = "up" /\ lock = 0 /\ client' = "ended" /\ todo' = {}
      /\ tab' = [t \in Tabs |-> IF S(t) THEN [tab[t] EXCEPT !.done = TRUE] ELSE tab[t]]
      /\ UNCHANGED <<width, posX, layout, lock, sessions, desktop, inPaint, frameBatch>>
  BY DEF Dispatcher!Disconnected, Dispatcher!topology, Dispatcher!paint, Dispatcher!None
<1> HIDE DEF S
<1>2. ASSUME NEW t \in Tabs
      PROVE  LET d == [tab[t] EXCEPT !.done = TRUE]
             IN d \in DispTab /\ d.mon = tab[t].mon /\ d.at = tab[t].at /\ d.rect = tab[t].rect /\ d.done
  BY DEF DispTypes, DispTab
<1>3. tab' \in [Tabs -> DispTab]
  BY <1>1, <1>2 DEF DispTypes
<1>4. \A t \in Tabs : /\ tab'[t].mon = tab[t].mon /\ tab'[t].at = tab[t].at /\ tab'[t].rect = tab[t].rect
                      /\ HasSession(tab'[t]) => HasSession(tab[t])
  BY <1>1, <1>2 DEF HasSession
<1>5. DispTypes' /\ FrameInv' /\ LayoutInv'
  BY <1>1, <1>3 DEF DispTypes, FrameInv, LayoutInv
<1>6. SessionInv'
  BY <1>1, <1>4, SessionsStay DEF SessionInv
<1>7. ShownInv'
  BY <1>1 DEF ShownInv
<1> QED BY <1>5, <1>6, <1>7

\* What the server sends is dispatched as the desktop has it.
LEMMA ServerKeeps ==
    ASSUME DispInv, Dispatcher!ServerRepaints \/ \E c \in Dispatcher!Cells : Dispatcher!ServerPaints(c)
    PROVE  DispInv'
<1>1. client = "up" => Dispatcher!Told(layout) \subseteq Dispatcher!Cells
  <2> SUFFICES ASSUME client = "up" PROVE Dispatcher!Told(layout) \subseteq Dispatcher!Cells
    OBVIOUS
  <2>1. layout = Dispatcher!UpdateOpts(width) /\ (\E m \in Mons : width[m] > 0) /\ width \in Widths
    BY DEF DispInv, LayoutInv, DispTypes, Widths
  <2> QED BY <2>1, ToldPlaces
<1>2. Dispatcher!Cells \subseteq Int
  BY CellsAre, MonsFacts
<1>3. desktop \in [Dispatcher!Cells -> Nat]
  BY DEF DispInv, DispTypes
<1>4. CASE Dispatcher!ServerRepaints
  <2> DEFINE image == [c \in todo |-> desktop[c]]
  <2>1. client = "up" /\ todo' = {} /\ Dispatcher!Bitmap(image) /\ desktop' = desktop
    BY <1>4 DEF Dispatcher!ServerRepaints
  <2>2. todo \subseteq Dispatcher!Cells
    BY <1>1, <2>1 DEF DispInv, LayoutInv
  <2>3. image \in [todo -> Nat]
    BY <1>3, <2>2
  <2>4. image \in Images
    BY <1>2, <2>2, <2>3 DEF Images
  <2>5. DOMAIN image = todo /\ \A g \in todo : image[g] = desktop'[g]
    BY <2>1
  <2> HIDE DEF image
  <2> QED BY <1>3, <2>1, <2>2, <2>4, <2>5, BitmapKeeps
<1>5. ASSUME NEW c \in Dispatcher!Cells, Dispatcher!ServerPaints(c) PROVE DispInv'
  <2> DEFINE image == [k \in {c} |-> desktop'[c]]
  <2>1. /\ client = "up" /\ todo = {} /\ todo' = todo /\ desktop' = [desktop EXCEPT ![c] = desktop[c] + 1]
        /\ Dispatcher!Bitmap(image)
    BY <1>5 DEF Dispatcher!ServerPaints
  <2>2. /\ desktop' \in [Dispatcher!Cells -> Nat] /\ desktop'[c] \in Nat
        /\ \A g \in Dispatcher!Cells : g # c => desktop'[g] = desktop[g]
    BY <1>3, <2>1
  <2>3. image \in [{c} -> Nat] /\ DOMAIN image = {c} /\ image[c] = desktop'[c]
    BY <2>2
  <2> HIDE DEF image
  <2>4. image \in Images
    BY <1>2, <2>3 DEF Images
  <2> QED BY <2>1, <2>2, <2>3, <2>4, BitmapKeeps
<1> QED BY <1>4, <1>5

\* Every step of the dispatcher keeps its invariant.
LEMMA DispInvStep == DispInv /\ [Dispatcher!Next]_dispatcherVars => DispInv'
<1> SUFFICES ASSUME DispInv, [Dispatcher!Next]_dispatcherVars PROVE DispInv'
  OBVIOUS
<1>1. ASSUME NEW t \in Tabs, NEW m \in Mons, NEW w \in 1 .. MaxWidth, Dispatcher!Attach(t, m, w) PROVE DispInv'
  BY <1>1, AttachKeeps
<1>2. ASSUME NEW t \in Tabs, Dispatcher!Connected(t) PROVE DispInv'
  BY <1>2, ConnectedKeeps
<1>3. ASSUME NEW t \in Tabs, Dispatcher!Refresh(t) PROVE DispInv'
  BY <1>3, RefreshKeeps
<1>4. ASSUME NEW t \in Tabs, Dispatcher!SendLoop(t) PROVE DispInv'
  BY <1>4, DispSendKeeps
<1>5. ASSUME NEW t \in Tabs, Dispatcher!TabCloses(t) \/ Dispatcher!Watcher(t) PROVE DispInv'
  BY <1>5, DoneKeeps DEF Dispatcher!TabCloses, Dispatcher!Watcher, Dispatcher!topology, Dispatcher!paint
<1>6. ASSUME NEW t \in Tabs, NEW w \in 1 .. MaxWidth, Dispatcher!TabResizes(t, w) PROVE DispInv'
  BY <1>6, ResizeKeeps
<1>7. ASSUME NEW t \in Tabs, Dispatcher!Detach(t) PROVE DispInv'
  BY <1>7, DetachKeeps
<1>8. CASE Dispatcher!Disconnected
  BY <1>8, DisconnectedKeeps
<1>9. CASE Dispatcher!ServerRepaints \/ \E c \in Dispatcher!Cells : Dispatcher!ServerPaints(c)
  BY <1>9, ServerKeeps
<1>10. CASE Dispatcher!EndPaint
  BY <1>10, EndPaintKeeps
<1>11. CASE Dispatcher!BeginPaint
  <2>1. /\ UNCHANGED <<width, posX, layout, client, lock, sessions, tab, desktop, todo>>
        /\ ~inPaint /\ inPaint' = TRUE /\ frameBatch' = <<>>
    BY <1>11 DEF Dispatcher!BeginPaint, Dispatcher!topology
  <2>2. DOMAIN frameBatch = {} /\ DOMAIN frameBatch' = {} /\ frameBatch' \in [{} -> Nat]
    <3>1. DOMAIN <<>> = {} /\ <<>> \in [{} -> Nat]
      OBVIOUS
    <3> QED BY <2>1, <3>1 DEF DispInv, FrameInv
  <2>3. FrameInv'
    BY <2>1, <2>2 DEF FrameInv, Images
  <2>4. DispTypes' /\ LayoutInv' /\ SessionInv'
    BY <2>1 DEF DispInv, DispTypes, LayoutInv, SessionInv
  <2>5. ShownInv'
    BY <2>1, <2>2 DEF DispInv, ShownInv, Dispatcher!Resolved
  <2> QED BY <2>3, <2>4, <2>5 DEF DispInv
<1>12. CASE Dispatcher!DrawnTooEarly \/ UNCHANGED dispatcherVars
  <2>1. UNCHANGED <<width, posX, layout, client, lock, sessions, tab, desktop, todo, inPaint, frameBatch>>
    BY <1>12 DEF Dispatcher!DrawnTooEarly, Dispatcher!topology, Dispatcher!paint, dispatcherVars
  <2>2. DispTypes' /\ LayoutInv' /\ SessionInv' /\ FrameInv'
    BY <2>1 DEF DispInv, DispTypes, LayoutInv, SessionInv, FrameInv
  <2>3. ShownInv'
    BY <2>1 DEF DispInv, ShownInv, Dispatcher!Resolved
  <2> QED BY <2>2, <2>3 DEF DispInv
<1> QED
  BY <1>1, <1>2, <1>3, <1>4, <1>5, <1>6, <1>7, <1>8, <1>9, <1>10, <1>11, <1>12 DEF Dispatcher!Next

\* What is to be shown is shown when nothing is on its way.
LEMMA DispFaithful == DispInv => TabsFaithful
<1> SUFFICES ASSUME DispInv
             PROVE  Dispatcher!TabIsSession /\ Dispatcher!PlacedAlike /\ Dispatcher!TabShowsDesktop
  BY DEF TabsFaithful, Dispatcher!TabsFaithful
<1> USE DEF DispInv
<1>1. Dispatcher!TabIsSession
  BY DEF SessionInv, HasSession, Dispatcher!TabIsSession, Dispatcher!Running
<1>2. Dispatcher!PlacedAlike
  <2> SUFFICES ASSUME Dispatcher!Resolved, layout # <<>>, NEW m \in Mons
               PROVE  posX[m] = layout[m].x /\ width[m] = layout[m].w
    BY DEF Dispatcher!PlacedAlike
  <2>1. layout = Dispatcher!UpdateOpts(width) /\ \E k \in Mons : width[k] > 0
    BY DEF LayoutInv
  <2>2. width \in Widths /\ posX[m] = Place(width, m) /\ \A k \in Mons : width[k] > 0
    BY DispBasics DEF Dispatcher!Resolved
  <2> QED BY <2>1, <2>2, ToldPlaces
<1>3. Dispatcher!TabShowsDesktop
  <2> SUFFICES ASSUME NEW t \in Tabs, tab[t].at = "run", ~tab[t].done, Dispatcher!Resolved, client = "up",
                      todo = {}, frameBatch = <<>>, tab[t].queue = <<>>, ~tab[t].dropped,
                      NEW c \in 0 .. width[tab[t].mon] - 1
               PROVE  tab[t].pic[c] = <<desktop[posX[tab[t].mon] + c]>>
    BY DEF Dispatcher!TabShowsDesktop, Dispatcher!Running
  <2>1. HasSession(tab[t]) /\ tab[t].rect = {} /\ DOMAIN frameBatch = {}
    BY DEF HasSession, SessionInv
  <2>2. Shows(tab[t], c, desktop[posX[tab[t].mon] + c])
    BY <2>1 DEF ShownInv, ShownTab
  <2> QED BY <2>2 DEF Shows
<1> QED BY <1>1, <1>2, <1>3

\* A tab of the dispatcher has the session of its monitor; once every monitor has a size
\* each is where the server was told; and a tab that dropped nothing shows its part of
\* the desktop when nothing is on its way, whatever tabs come, go, replace and resize.
THEOREM TabsAlwaysFaithful == MCSpec => []TabsFaithful
<1>1. MCInit => DispInv
  BY DispInvInit DEF MCInit
<1>2. DispInv /\ [MCNext]_mcVars => DispInv'
  <2> SUFFICES ASSUME DispInv, [MCNext]_mcVars PROVE DispInv'
    OBVIOUS
  <2>1. [Dispatcher!Next]_dispatcherVars
    BY DEF MCNext, mcVars
  <2> QED BY <2>1, DispInvStep
<1> QED BY <1>1, <1>2, DispFaithful, PTL DEF MCSpec

(***************************************************************************)
(* The native viewer with a window for each monitor.                       *)
(***************************************************************************)
\* What a cell shows, cells of the desktop or a monitor, and messages to a window.
Shades == Seq(Int)
Pieces == UNION {[D -> Shades] : D \in SUBSET Int}
Sizes == [Mons -> 1 .. MaxWidth]
GuiMsg == [kind : {"resize"}, width : 1 .. MaxWidth] \cup [kind : {"bitmap"}, image : Pieces]
GuiChild == [width : 1 .. MaxWidth, pic : [Gui!Local -> Shades], queue : Seq(GuiMsg)]

GuiTypes ==
    /\ guiWidth \in Sizes /\ told \in Sizes /\ asked \in Seq(Sizes)
    /\ guiDesktop \in [Mons -> [Gui!Local -> Nat]] /\ guiTodo \subseteq Mons
    /\ child \in [Mons -> GuiChild] /\ guiInPaint \in BOOLEAN
    /\ skipped \in [Mons -> SUBSET Int] /\ lost \in [Mons -> SUBSET Int]

\* The server learns of the last layout last.
AskedInv == guiWidth = IF asked = <<>> THEN told ELSE asked[Len(asked)]

\* The width of a window, and what cell c of it shows, once its queue is empty.
IsBitmap(msg) == msg.kind = "bitmap"
Without(msg, c) == IsBitmap(msg) /\ c \notin DOMAIN msg.image
EndsAt(s, w) ==
    \/ (\A i \in DOMAIN s.queue : IsBitmap(s.queue[i])) /\ s.width = w
    \/ \E i \in DOMAIN s.queue : /\ ~IsBitmap(s.queue[i]) /\ s.queue[i].width = w
                                 /\ \A j \in DOMAIN s.queue : j > i => IsBitmap(s.queue[j])
GuiShows(s, c, v) ==
    \/ (\A i \in DOMAIN s.queue : Without(s.queue[i], c)) /\ s.pic[c] = v
    \/ \E i \in DOMAIN s.queue :
          /\ IsBitmap(s.queue[i]) /\ c \in DOMAIN s.queue[i].image /\ s.queue[i].image[c] = v
          /\ \A j \in DOMAIN s.queue : j > i => Without(s.queue[j], c)

\* A window ends up with the width of its monitor, but for a size that was dropped.
WidthInv == \A m \in Mons : MaxWidth \notin lost[m] => EndsAt(child[m], guiWidth[m])

\* A frame holds, of a monitor drawn since the last layout, what the server has there.
Cell(m, c, dk) == <<m, c, dk[m][c]>>
GuiFrameInv ==
    /\ guiBatch \in Pieces /\ (~guiInPaint => DOMAIN guiBatch = {})
    /\ asked = <<>> => \A m \in Mons \ guiTodo : \A c \in 0 .. guiWidth[m] - 1 :
          Place(guiWidth, m) + c \in DOMAIN guiBatch =>
              guiBatch[Place(guiWidth, m) + c] = Cell(m, c, guiDesktop)

\* Every cell of such a monitor is shown as it is, waits for the end of the frame, or
\* was withheld or dropped.
GuiShownInv ==
    asked = <<>> => \A m \in Mons \ guiTodo : MaxWidth \notin lost[m] =>
        \A c \in 0 .. guiWidth[m] - 1 :
            \/ c \in skipped[m] \cup lost[m] \/ Place(guiWidth, m) + c \in DOMAIN guiBatch
            \/ GuiShows(child[m], c, Cell(m, c, guiDesktop))

GuiInv == GuiTypes /\ AskedInv /\ WidthInv /\ GuiFrameInv /\ GuiShownInv

\* The cells of a monitor, and where they are on the desktop.
LEMMA SizesFacts ==
    ASSUME NEW w \in Sizes
    PROVE  /\ w \in Widths
           /\ \A m \in Mons : w[m] \in 1 .. MaxWidth /\ Place(w, m) \in Nat
           /\ \A m \in Mons : \A c \in 0 .. w[m] - 1 : c \in Gui!Local /\ c # MaxWidth
<1>1. 1 .. MaxWidth \subseteq 0 .. MaxWidth
  BY MonsFacts
<1>2. w \in Widths /\ \A m \in Mons : w[m] \in 1 .. MaxWidth
  BY <1>1 DEF Sizes, Widths
<1>3. \A m \in Mons : \A c \in 0 .. w[m] - 1 : c \in Gui!Local /\ c # MaxWidth
  BY <1>2, MonsFacts DEF Gui!Local
<1> QED BY <1>2, <1>3, PlaceInRow

\* A cell of the desktop belongs to one monitor.
LEMMA CellsApart ==
    ASSUME NEW w \in Sizes, NEW m \in Mons, NEW k \in Mons, NEW c \in 0 .. w[m] - 1, NEW d \in 0 .. w[k] - 1,
           Place(w, m) + c = Place(w, k) + d
    PROVE  m = k /\ c = d
<1>1. /\ Place(w, m) \in Nat /\ Place(w, k) \in Nat /\ w[m] \in Nat /\ w[k] \in Nat /\ m \in Nat /\ k \in Nat
      /\ w \in Widths
  BY SizesFacts, MonsFacts
<1>2. m < k => Place(w, m) + w[m] <= Place(w, k)
  BY <1>1, PlacesApart
<1>3. k < m => Place(w, k) + w[k] <= Place(w, m)
  BY <1>1, PlacesApart
<1> DEFINE p == Place(w, m)
           q == Place(w, k)
<1>4. p \in Nat /\ q \in Nat /\ (m < k => p + w[m] <= q) /\ (k < m => q + w[k] <= p) /\ p + c = q + d
      /\ (m = k => p = q)
  BY <1>1, <1>2, <1>3
<1> HIDE DEF p, q
<1> QED BY <1>1, <1>4

\* A bitmap in a queue that shows nothing of a cell changes nothing there.
LEMMA GuiAppend ==
    ASSUME NEW s \in GuiChild, NEW msg \in GuiMsg, NEW n \in GuiChild,
           n.queue = Append(s.queue, msg), n.pic = s.pic, n.width = s.width
    PROVE  /\ IsBitmap(msg) => \A w : EndsAt(s, w) => EndsAt(n, w)
           /\ ~IsBitmap(msg) => EndsAt(n, msg.width)
           /\ \A c : IsBitmap(msg) /\ c \in DOMAIN msg.image => GuiShows(n, c, msg.image[c])
           /\ \A c, v : Without(msg, c) /\ GuiShows(s, c, v) => GuiShows(n, c, v)
<1> DEFINE q == s.queue
           p == n.queue
<1>1. q \in Seq(GuiMsg)
  BY DEF GuiChild
<1>2. /\ Len(q) \in Nat /\ DOMAIN q = 1 .. Len(q) /\ DOMAIN p = 1 .. Len(q) + 1
      /\ p[Len(q) + 1] = msg /\ \A i \in 1 .. Len(q) : p[i] = q[i]
  BY <1>1
<1> HIDE DEF p, q
<1>3. Len(q) + 1 \in DOMAIN p /\ \A j \in DOMAIN p : ~(j > Len(q) + 1)
  BY <1>2
<1>4. \A j \in DOMAIN p : (j \in DOMAIN q /\ p[j] = q[j]) \/ p[j] = msg
  BY <1>2
<1>5. \A i \in DOMAIN q : i \in DOMAIN p /\ p[i] = q[i]
  BY <1>2
<1>6. ASSUME IsBitmap(msg), NEW w, EndsAt(s, w) PROVE EndsAt(n, w)
  <2>1. CASE (\A i \in DOMAIN q : IsBitmap(q[i])) /\ s.width = w
    BY <1>4, <1>6, <2>1 DEF EndsAt, p
  <2>2. CASE \E i \in DOMAIN q : /\ ~IsBitmap(q[i]) /\ q[i].width = w
                                 /\ \A j \in DOMAIN q : j > i => IsBitmap(q[j])
    <3>1. PICK i \in DOMAIN q : /\ ~IsBitmap(q[i]) /\ q[i].width = w
                                /\ \A j \in DOMAIN q : j > i => IsBitmap(q[j])
      BY <2>2
    <3>2. \A j \in DOMAIN p : j > i => IsBitmap(p[j])
      BY <1>4, <1>6, <3>1
    <3> QED BY <1>5, <3>1, <3>2 DEF EndsAt, p
  <2> QED BY <1>6, <2>1, <2>2 DEF EndsAt, q
<1>7. ASSUME ~IsBitmap(msg) PROVE EndsAt(n, msg.width)
  BY <1>2, <1>3, <1>7 DEF EndsAt, p
<1>8. ASSUME NEW c, IsBitmap(msg), c \in DOMAIN msg.image PROVE GuiShows(n, c, msg.image[c])
  BY <1>2, <1>3, <1>8 DEF GuiShows, p
<1>9. ASSUME NEW c, NEW v, Without(msg, c), GuiShows(s, c, v) PROVE GuiShows(n, c, v)
  <2>1. CASE (\A i \in DOMAIN q : Without(q[i], c)) /\ s.pic[c] = v
    BY <1>4, <1>9, <2>1 DEF GuiShows, p
  <2>2. CASE \E i \in DOMAIN q : /\ IsBitmap(q[i]) /\ c \in DOMAIN q[i].image /\ q[i].image[c] = v
                                 /\ \A j \in DOMAIN q : j > i => Without(q[j], c)
    <3>1. PICK i \in DOMAIN q : /\ IsBitmap(q[i]) /\ c \in DOMAIN q[i].image /\ q[i].image[c] = v
                                /\ \A j \in DOMAIN q : j > i => Without(q[j], c)
      BY <2>2
    <3>2. \A j \in DOMAIN p : j > i => Without(p[j], c)
      BY <1>4, <1>9, <3>1
    <3> QED BY <1>5, <3>1, <3>2 DEF GuiShows, p
  <2> QED BY <1>9, <2>1, <2>2 DEF GuiShows, q
<1> QED BY <1>6, <1>7, <1>8, <1>9

\* A window takes the first message of its queue.
LEMMA GuiTakes ==
    ASSUME NEW s \in GuiChild, s.queue # <<>>
    PROVE  LET n == [Gui!Receives(s, Head(s.queue)) EXCEPT !.queue = Tail(@)]
           IN /\ n \in GuiChild /\ \A w : EndsAt(s, w) => EndsAt(n, w)
              /\ \A w, v : \A c \in 0 .. w - 1 :
                    w \in 1 .. MaxWidth /\ EndsAt(s, w) /\ GuiShows(s, c, v) => GuiShows(n, c, v)
<1> DEFINE q == s.queue
           h == Head(q)
           r == Gui!Receives(s, h)
           n == [r EXCEPT !.queue = Tail(@)]
           p == n.queue
           black == [c \in Gui!Local |-> <<>>]
           drawn == [c \in Gui!Local |-> IF c \in DOMAIN h.image /\ c < s.width THEN h.image[c] ELSE s.pic[c]]
<1>1. q \in Seq(GuiMsg) /\ q # <<>>
  BY DEF GuiChild
<1>2. h \in GuiMsg /\ Tail(q) \in Seq(GuiMsg) /\ Len(q) \in Nat /\ DOMAIN q = 1 .. Len(q) /\ Len(q) >= 1 /\ h = q[1]
      /\ DOMAIN Tail(q) = 1 .. Len(q) - 1 /\ \A i \in 1 .. Len(q) - 1 : Tail(q)[i] = q[i + 1]
  <2>1. h \in GuiMsg /\ Len(q) \in Nat /\ DOMAIN q = 1 .. Len(q) /\ Len(q) >= 1 /\ h = q[1]
    BY <1>1
  <2>2. Tail(q) \in Seq(GuiMsg) /\ Len(Tail(q)) = Len(q) - 1 /\ \A i \in 1 .. Len(Tail(q)) : Tail(q)[i] = q[i + 1]
    BY <1>1, HeadTailProperties
  <2> QED BY <2>1, <2>2
<1> HIDE DEF h
<1>3. \/ ~IsBitmap(h) /\ h.kind = "resize" /\ h.width \in 1 .. MaxWidth
      \/ IsBitmap(h) /\ h.kind # "resize" /\ h.image \in Pieces
  BY <1>2 DEF GuiMsg, IsBitmap
<1>4. black \in [Gui!Local -> Shades]
  <2>1. <<>> \in Shades
    BY DEF Shades
  <2> QED BY <2>1
<1>5. s.pic \in [Gui!Local -> Shades] /\ s.width \in 1 .. MaxWidth
  BY DEF GuiChild
<1>6. IsBitmap(h) => drawn \in [Gui!Local -> Shades]
  <2> SUFFICES ASSUME IsBitmap(h) PROVE drawn \in [Gui!Local -> Shades]
    OBVIOUS
  <2>1. \A c \in DOMAIN h.image : h.image[c] \in Shades
    BY <1>3 DEF Pieces
  <2> QED BY <1>5, <2>1
<1>7. \A c \in Gui!Local : drawn[c] = IF c \in DOMAIN h.image /\ c < s.width THEN h.image[c] ELSE s.pic[c]
  OBVIOUS
<1>8. ~IsBitmap(h) => r = [s EXCEPT !.width = h.width, !.pic = IF s.width = h.width THEN s.pic ELSE black]
  BY <1>3 DEF Gui!Receives, Gui!Black
<1>9. IsBitmap(h) => r = [s EXCEPT !.pic = drawn]
  BY <1>3 DEF Gui!Receives
<1> HIDE DEF black, drawn, r
<1>10. ~IsBitmap(h) => r \in GuiChild /\ r.width = h.width /\ r.queue = q
  BY <1>3, <1>4, <1>5, <1>8 DEF GuiChild
<1>11. IsBitmap(h) => r \in GuiChild /\ r.width = s.width /\ r.queue = q /\ r.pic = drawn
  BY <1>6, <1>9 DEF GuiChild
<1>12. r \in GuiChild /\ r.queue = q
  BY <1>10, <1>11
<1>13. n \in GuiChild /\ n.queue = Tail(q) /\ n.width = r.width /\ n.pic = r.pic
  BY <1>2, <1>12 DEF GuiChild
<1>14. DOMAIN p = 1 .. Len(q) - 1 /\ \A i \in 1 .. Len(q) - 1 : p[i] = q[i + 1]
  BY <1>2, <1>13
<1> HIDE DEF n, p, q
<1>15. 1 \in DOMAIN q /\ \A j \in DOMAIN p : j + 1 \in DOMAIN q /\ p[j] = q[j + 1] /\ j + 1 > 1
  BY <1>2, <1>14
<1>16. \A i \in DOMAIN q : i # 1 => i - 1 \in DOMAIN p /\ p[i - 1] = q[i]
                                    /\ \A j \in DOMAIN p : j > i - 1 => j + 1 > i
  <2> SUFFICES ASSUME NEW i \in DOMAIN q, i # 1
               PROVE  i - 1 \in DOMAIN p /\ p[i - 1] = q[i] /\ \A j \in DOMAIN p : j > i - 1 => j + 1 > i
    OBVIOUS
  <2>1. i \in Nat /\ i - 1 \in 1 .. Len(q) - 1 /\ (i - 1) + 1 = i
    BY <1>2
  <2>2. p[i - 1] = q[i]
    BY <1>14, <2>1
  <2>3. \A j \in DOMAIN p : j > i - 1 => j + 1 > i
    BY <1>2, <1>14, <2>1
  <2> QED BY <1>14, <2>1, <2>2, <2>3
<1>17. ASSUME NEW w, EndsAt(s, w) PROVE EndsAt(n, w)
  <2>1. CASE (\A i \in DOMAIN q : IsBitmap(q[i])) /\ s.width = w
    <3>1. IsBitmap(h) /\ \A j \in DOMAIN p : IsBitmap(p[j])
      BY <1>2, <1>15, <2>1
    <3> QED BY <1>11, <1>13, <2>1, <3>1 DEF EndsAt, p
  <2>2. CASE \E i \in DOMAIN q : /\ ~IsBitmap(q[i]) /\ q[i].width = w
                                 /\ \A j \in DOMAIN q : j > i => IsBitmap(q[j])
    <3>1. PICK i \in DOMAIN q : /\ ~IsBitmap(q[i]) /\ q[i].width = w
                                /\ \A j \in DOMAIN q : j > i => IsBitmap(q[j])
      BY <2>2
    <3>2. CASE i = 1
      <4>1. n.width = w /\ \A j \in DOMAIN p : IsBitmap(p[j])
        BY <1>2, <1>10, <1>13, <1>15, <3>1, <3>2
      <4> QED BY <4>1 DEF EndsAt, p
    <3>3. CASE i # 1
      <4>1. i - 1 \in DOMAIN p /\ p[i - 1] = q[i] /\ \A j \in DOMAIN p : j > i - 1 => IsBitmap(p[j])
        BY <1>15, <1>16, <3>1, <3>3
      <4> QED BY <3>1, <4>1 DEF EndsAt, p
    <3> QED BY <3>2, <3>3
  <2> QED BY <1>17, <2>1, <2>2 DEF EndsAt, q
<1>18. ASSUME NEW w \in 1 .. MaxWidth, NEW v, NEW c \in 0 .. w - 1, EndsAt(s, w), GuiShows(s, c, v)
       PROVE  GuiShows(n, c, v)
  <2>1. c \in Gui!Local
    BY MonsFacts DEF Gui!Local
  <2>2. CASE (\A i \in DOMAIN q : Without(q[i], c)) /\ s.pic[c] = v
    <3>1. Without(h, c) /\ \A j \in DOMAIN p : Without(p[j], c)
      BY <1>2, <1>15, <2>2
    <3>2. n.pic[c] = v
      BY <1>7, <1>11, <1>13, <2>1, <2>2, <3>1 DEF Without
    <3> QED BY <3>1, <3>2 DEF GuiShows, p
  <2>3. CASE \E i \in DOMAIN q : /\ IsBitmap(q[i]) /\ c \in DOMAIN q[i].image /\ q[i].image[c] = v
                                 /\ \A j \in DOMAIN q : j > i => Without(q[j], c)
    <3>1. PICK i \in DOMAIN q : /\ IsBitmap(q[i]) /\ c \in DOMAIN q[i].image /\ q[i].image[c] = v
                                /\ \A j \in DOMAIN q : j > i => Without(q[j], c)
      BY <2>3
    <3>2. CASE i = 1
      <4>1. IsBitmap(h) /\ \A j \in DOMAIN p : Without(p[j], c)
        BY <1>2, <1>15, <3>1, <3>2
      <4>2. \A j \in DOMAIN q : IsBitmap(q[j])
        <5>1. \A j \in DOMAIN q : j = 1 \/ j > 1
          BY <1>2
        <5> QED BY <3>1, <3>2, <5>1 DEF Without
      <4>3. s.width = w
        BY <1>18, <4>2 DEF EndsAt, q
      <4>4. c < s.width
        BY <4>3
      <4>5. n.pic[c] = v
        BY <1>2, <1>7, <1>11, <1>13, <2>1, <3>1, <3>2, <4>1, <4>4
      <4> QED BY <4>1, <4>5 DEF GuiShows, p
    <3>3. CASE i # 1
      <4>1. i - 1 \in DOMAIN p /\ p[i - 1] = q[i] /\ \A j \in DOMAIN p : j > i - 1 => Without(p[j], c)
        BY <1>15, <1>16, <3>1, <3>3
      <4> QED BY <3>1, <4>1 DEF GuiShows, p
    <3> QED BY <3>2, <3>3
  <2> QED BY <1>18, <2>2, <2>3 DEF GuiShows, q
<1>19. n = [Gui!Receives(s, Head(s.queue)) EXCEPT !.queue = Tail(@)]
  BY DEF n, r, h, q
<1> QED BY <1>13, <1>17, <1>18, <1>19

\* What is cut to a monitor shows what is painted there.
LEMMA GuiClippedShows ==
    ASSUME GuiTypes, NEW b \in Pieces, NEW m \in Mons
    PROVE  LET d == Gui!Clipped(b, m)
           IN /\ d \in Pieces /\ MaxWidth \notin DOMAIN d /\ DOMAIN d \subseteq Int
              /\ \A c \in 0 .. guiWidth[m] - 1 :
                    /\ c \in DOMAIN d <=> Place(guiWidth, m) + c \in DOMAIN b
                    /\ c \in DOMAIN d => d[c] = b[Place(guiWidth, m) + c]
<1> DEFINE x == Place(guiWidth, m)
           w == guiWidth[m]
           D == {k - x : k \in DOMAIN b \cap (x .. x + w - 1)}
           d == [c \in D |-> b[c + x]]
<1>1. x \in Nat /\ w \in 1 .. MaxWidth
  BY SizesFacts DEF GuiTypes
<1>2. d = Gui!Clipped(b, m)
  BY PlaceIsLeftOf DEF Gui!Clipped
<1>3. PICK B \in SUBSET Int : b \in [B -> Shades]
  BY DEF Pieces
<1> HIDE DEF x, w
<1>4. D \subseteq Int /\ \A c \in D : c + x \in B
  BY <1>1, <1>3
<1>5. d \in [D -> Shades]
  BY <1>3, <1>4
<1>6. d \in Pieces
  BY <1>4, <1>5 DEF Pieces
<1>7. MaxWidth \notin D
  <2> SUFFICES ASSUME NEW k \in x .. x + w - 1, MaxWidth = k - x PROVE FALSE
    OBVIOUS
  <2> QED BY <1>1, MonsFacts
<1>8. ASSUME NEW c \in 0 .. w - 1
      PROVE  /\ c \in D <=> x + c \in DOMAIN b
             /\ c + x = x + c
  <2>1. c \in Int /\ c + x = x + c /\ x + c \in x .. x + w - 1 /\ (x + c) - x = c
    BY <1>1
  <2>2. ASSUME c \in D PROVE x + c \in DOMAIN b
    <3>1. PICK k \in DOMAIN b \cap (x .. x + w - 1) : c = k - x
      BY <2>2
    <3>2. k = x + c
      BY <1>1, <3>1
    <3> QED BY <3>1, <3>2
  <2>3. ASSUME x + c \in DOMAIN b PROVE c \in D
    BY <2>1, <2>3
  <2> QED BY <2>1, <2>2, <2>3
<1>9. DOMAIN d = D /\ \A c \in D : d[c] = b[c + x]
  OBVIOUS
<1> HIDE DEF d, D
<1>10. \A c \in 0 .. w - 1 : /\ c \in DOMAIN d <=> x + c \in DOMAIN b
                             /\ c \in DOMAIN d => d[c] = b[x + c]
  BY <1>8, <1>9
<1> QED BY <1>2, <1>4, <1>6, <1>7, <1>9, <1>10 DEF x, w

\* Routing a bitmap: of what it paints, a window shows it in the end, or it was withheld
\* or dropped; elsewhere nothing changes.
LEMMA GuiRouteShows ==
    ASSUME GuiTypes, NEW b \in Pieces, Gui!RouteBitmaps(b)
    PROVE  /\ child' \in [Mons -> GuiChild] /\ skipped' \in [Mons -> SUBSET Int] /\ lost' \in [Mons -> SUBSET Int]
           /\ \A m \in Mons : /\ MaxWidth \in lost'[m] <=> MaxWidth \in lost[m]
                              /\ \A w : EndsAt(child[m], w) => EndsAt(child'[m], w)
           /\ \A m \in Mons : \A c \in 0 .. guiWidth[m] - 1 :
                 LET g == Place(guiWidth, m) + c
                 IN \/ c \in skipped'[m] \cup lost'[m]
                    \/ g \in DOMAIN b /\ GuiShows(child'[m], c, b[g])
                    \/ /\ g \notin DOMAIN b /\ c \notin skipped[m] \cup lost[m]
                       /\ \A v : GuiShows(child[m], c, v) => GuiShows(child'[m], c, v)
<1> DEFINE cut(m) == Gui!Clipped(b, m)
           sends(m) == ~Gui!Silenced(m) /\ cut(m) # <<>>
           msg(m) == [kind |-> "bitmap", image |-> cut(m)]
<1>1. /\ child' = [m \in Mons |-> IF sends(m) THEN Gui!Queued(m, msg(m)) ELSE child[m]]
      /\ skipped' = [m \in Mons |-> IF Gui!Silenced(m) THEN skipped[m] \cup DOMAIN cut(m)
                                    ELSE skipped[m] \ DOMAIN cut(m)]
      /\ lost' = [m \in Mons |-> IF ~sends(m) THEN lost[m]
                                 ELSE IF Gui!Room(m) THEN lost[m] \ DOMAIN cut(m)
                                 ELSE lost[m] \cup DOMAIN cut(m)]
  BY DEF Gui!RouteBitmaps
<1> HIDE DEF cut
<1>2. \A m \in Mons :
         /\ cut(m) \in Pieces /\ MaxWidth \notin DOMAIN cut(m) /\ DOMAIN cut(m) \subseteq Int
         /\ \A c \in 0 .. guiWidth[m] - 1 :
               /\ c \in DOMAIN cut(m) <=> Place(guiWidth, m) + c \in DOMAIN b
               /\ c \in DOMAIN cut(m) => cut(m)[c] = b[Place(guiWidth, m) + c]
  BY GuiClippedShows DEF cut
<1>3. ASSUME NEW m \in Mons
      PROVE  /\ child'[m] \in GuiChild /\ skipped'[m] \subseteq Int /\ lost'[m] \subseteq Int
             /\ MaxWidth \in lost'[m] <=> MaxWidth \in lost[m]
             /\ \A w : EndsAt(child[m], w) => EndsAt(child'[m], w)
             /\ \A c \in 0 .. guiWidth[m] - 1 :
                   \/ c \in skipped'[m] \cup lost'[m]
                   \/ c \in DOMAIN cut(m) /\ GuiShows(child'[m], c, cut(m)[c])
                   \/ /\ c \notin DOMAIN cut(m) /\ c \notin skipped[m] \cup lost[m]
                      /\ \A v : GuiShows(child[m], c, v) => GuiShows(child'[m], c, v)
  <2> DEFINE s == child[m]
             n == child'[m]
             d == cut(m)
             k == msg(m)
  <2>1. s \in GuiChild /\ skipped[m] \subseteq Int /\ lost[m] \subseteq Int
    BY DEF GuiTypes
  <2>2. k \in GuiMsg /\ IsBitmap(k) /\ k.image = d
    BY <1>2 DEF GuiMsg, IsBitmap
  <2>3. d \in Pieces /\ MaxWidth \notin DOMAIN d /\ DOMAIN d \subseteq Int
    BY <1>2
  <2>4. CASE Gui!Silenced(m)
    <3>1. n = s /\ skipped'[m] = skipped[m] \cup DOMAIN d /\ lost'[m] = lost[m]
      BY <1>1, <2>4
    <3> QED BY <2>1, <2>3, <3>1
  <2>5. CASE ~Gui!Silenced(m) /\ d = <<>>
    <3>1. n = s /\ skipped'[m] = skipped[m] \ DOMAIN d /\ lost'[m] = lost[m] /\ DOMAIN d = {}
      BY <1>1, <2>5
    <3> QED BY <2>1, <2>3, <3>1
  <2>6. CASE ~Gui!Silenced(m) /\ d # <<>> /\ ~Gui!Room(m)
    <3>1. n = s /\ skipped'[m] = skipped[m] \ DOMAIN d /\ lost'[m] = lost[m] \cup DOMAIN d
      BY <1>1, <2>6 DEF Gui!Queued
    <3> QED BY <2>1, <2>3, <3>1
  <2>7. CASE ~Gui!Silenced(m) /\ d # <<>> /\ Gui!Room(m)
    <3> DEFINE q == Append(s.queue, k)
    <3>1. n = [s EXCEPT !.queue = q] /\ skipped'[m] = skipped[m] \ DOMAIN d /\ lost'[m] = lost[m] \ DOMAIN d
      BY <1>1, <2>7 DEF Gui!Queued
    <3> HIDE DEF s, n, d, k
    <3>2. q \in Seq(GuiMsg)
      BY <2>1, <2>2 DEF GuiChild
    <3> HIDE DEF q
    <3>3. n \in GuiChild /\ n.queue = q /\ n.pic = s.pic /\ n.width = s.width
      BY <2>1, <3>1, <3>2 DEF GuiChild
    <3>4. n.queue = Append(s.queue, k)
      BY <3>3 DEF q
    <3>5. /\ \A w : EndsAt(s, w) => EndsAt(n, w)
          /\ \A c : c \in DOMAIN d => GuiShows(n, c, d[c])
          /\ \A c, v : c \notin DOMAIN d /\ GuiShows(s, c, v) => GuiShows(n, c, v)
      BY <2>1, <2>2, <3>3, <3>4, GuiAppend DEF Without
    <3> QED BY <2>1, <2>3, <3>1, <3>3, <3>5 DEF s, n, d
  <2> QED BY <2>4, <2>5, <2>6, <2>7
<1>4. child' = [m \in Mons |-> child'[m]] /\ skipped' = [m \in Mons |-> skipped'[m]] /\ lost' = [m \in Mons |-> lost'[m]]
  BY <1>1
<1>5. child' \in [Mons -> GuiChild] /\ skipped' \in [Mons -> SUBSET Int] /\ lost' \in [Mons -> SUBSET Int]
  BY <1>3, <1>4
<1>6. ASSUME NEW m \in Mons, NEW c \in 0 .. guiWidth[m] - 1, NEW g, g = Place(guiWidth, m) + c
      PROVE  \/ c \in skipped'[m] \cup lost'[m]
             \/ g \in DOMAIN b /\ GuiShows(child'[m], c, b[g])
             \/ /\ g \notin DOMAIN b /\ c \notin skipped[m] \cup lost[m]
                /\ \A v : GuiShows(child[m], c, v) => GuiShows(child'[m], c, v)
  <2>1. /\ c \in DOMAIN cut(m) <=> g \in DOMAIN b
        /\ c \in DOMAIN cut(m) => cut(m)[c] = b[g]
    BY <1>2, <1>6
  <2> QED BY <1>3, <2>1
<1> QED BY <1>3, <1>5, <1>6

\* What the server draws of a monitor, where it has it.
LEMMA DrawnShows ==
    ASSUME GuiTypes, guiDesktop' \in [Mons -> [Gui!Local -> Nat]],
           NEW m \in Mons, NEW cells, cells \subseteq 0 .. told[m] - 1
    PROVE  LET image == Gui!Drawn(m, cells)
           IN /\ image \in Pieces
              /\ \A k \in Mons : \A c \in 0 .. told[k] - 1 :
                    /\ Place(told, k) + c \in DOMAIN image <=> k = m /\ c \in cells
                    /\ k = m /\ c \in cells => image[Place(told, k) + c] = Cell(m, c, guiDesktop')
<1> DEFINE x == Place(told, m)
           D == {x + c : c \in cells}
           image == [k \in D |-> <<m, k - x, guiDesktop'[m][k - x]>>]
<1>1. /\ x \in Nat /\ told \in Sizes /\ told[m] \in 1 .. MaxWidth /\ m \in Int
      /\ \A c \in 0 .. told[m] - 1 : c \in Gui!Local
  BY SizesFacts, MonsFacts DEF GuiTypes
<1>2. image = Gui!Drawn(m, cells)
  BY PlaceIsLeftOf DEF Gui!Drawn
<1>3. \A c \in cells : c \in Nat /\ c \in Gui!Local /\ x + c \in D /\ (x + c) - x = c /\ guiDesktop'[m][c] \in Nat
  <2> SUFFICES ASSUME NEW c \in cells
               PROVE  c \in Nat /\ c \in Gui!Local /\ (x + c) - x = c /\ guiDesktop'[m][c] \in Nat
    OBVIOUS
  <2>1. c \in Nat /\ c \in Gui!Local
    BY <1>1
  <2>2. guiDesktop'[m][c] \in Nat
    BY <2>1
  <2>3. (x + c) - x = c
    BY <1>1, <2>1
  <2> QED BY <2>1, <2>2, <2>3
<1> HIDE DEF x
<1>4. \A k \in D : \E c \in cells : k = x + c
  OBVIOUS
<1>5. D \subseteq Int
  BY <1>1, <1>3, <1>4
<1>6. \A c \in cells : image[x + c] = Cell(m, c, guiDesktop') /\ Cell(m, c, guiDesktop') \in Shades
  <2> SUFFICES ASSUME NEW c \in cells
               PROVE  image[x + c] = Cell(m, c, guiDesktop') /\ Cell(m, c, guiDesktop') \in Shades
    OBVIOUS
  <2>1. image[x + c] = <<m, (x + c) - x, guiDesktop'[m][(x + c) - x]>>
    BY <1>3
  <2>2. image[x + c] = Cell(m, c, guiDesktop')
    BY <1>3, <2>1 DEF Cell
  <2>3. c \in Int /\ m \in Int /\ guiDesktop'[m][c] \in Int
    BY <1>1, <1>3
  <2>4. Cell(m, c, guiDesktop') \in Shades
    BY <2>3 DEF Cell, Shades
  <2> QED BY <2>2, <2>4
<1>7. image = [k \in D |-> image[k]]
  OBVIOUS
<1> HIDE DEF image
<1>8. \A k \in D : image[k] \in Shades
  BY <1>4, <1>6
<1>9. image \in [D -> Shades]
  BY <1>7, <1>8
<1>10. image \in Pieces
  BY <1>5, <1>9 DEF Pieces
<1>11. ASSUME NEW k \in Mons, NEW c \in 0 .. told[k] - 1
       PROVE  /\ Place(told, k) + c \in DOMAIN image <=> k = m /\ c \in cells
              /\ k = m /\ c \in cells => image[Place(told, k) + c] = Cell(m, c, guiDesktop')
  <2>1. DOMAIN image = D
    BY <1>7
  <2>2. ASSUME Place(told, k) + c \in D PROVE k = m /\ c \in cells
    <3>1. PICK e \in cells : Place(told, k) + c = x + e
      BY <1>4, <2>2
    <3>2. k = m /\ c = e
      BY <1>1, <3>1, CellsApart DEF x
    <3> QED BY <3>2
  <2>3. ASSUME k = m, c \in cells
        PROVE  Place(told, k) + c \in D /\ image[Place(told, k) + c] = Cell(m, c, guiDesktop')
    BY <1>3, <1>6, <2>3 DEF x
  <2> QED BY <2>1, <2>2, <2>3
<1> QED BY <1>2, <1>10, <1>11

\* The server has everything to draw yet.
LEMMA GuiInvInit == Gui!Init => GuiInv
<1> SUFFICES ASSUME Gui!Init PROVE GuiInv
  OBVIOUS
<1> USE MonsFacts
<1> DEFINE black == [c \in Gui!Local |-> <<>>]
           fresh == [width |-> 1, pic |-> black, queue |-> <<>>]
           zero == [c \in Gui!Local |-> 0]
<1>1. /\ guiWidth = [m \in Mons |-> 1] /\ told = guiWidth /\ asked = <<>>
      /\ guiDesktop = [m \in Mons |-> zero] /\ guiTodo = Mons
      /\ guiInPaint = FALSE /\ guiBatch = <<>> /\ child = [m \in Mons |-> fresh]
      /\ skipped = [m \in Mons |-> {}] /\ lost = [m \in Mons |-> {}]
  BY DEF Gui!Init, Gui!Black
<1>2. /\ black \in [Gui!Local -> Shades] /\ zero \in [Gui!Local -> Nat] /\ <<>> \in Seq(GuiMsg)
      /\ 1 \in 1 .. MaxWidth
  <2>1. <<>> \in Shades
    BY DEF Shades
  <2> QED BY <2>1
<1> HIDE DEF black, zero
<1>3. fresh \in GuiChild /\ fresh.width = 1 /\ fresh.queue = <<>>
  BY <1>2 DEF GuiChild
<1> HIDE DEF fresh
<1>4. guiWidth \in Sizes
  BY <1>1, <1>2 DEF Sizes
<1>5. GuiTypes
  <2>1. asked \in Seq(Sizes) /\ guiDesktop \in [Mons -> [Gui!Local -> Nat]] /\ child \in [Mons -> GuiChild]
    BY <1>1, <1>2, <1>3
  <2>2. skipped \in [Mons -> SUBSET Int] /\ lost \in [Mons -> SUBSET Int]
    BY <1>1
  <2> QED BY <1>1, <1>4, <2>1, <2>2 DEF GuiTypes
<1>6. AskedInv
  BY <1>1 DEF AskedInv
<1>7. WidthInv
  BY <1>1, <1>3 DEF WidthInv, EndsAt
<1>8. GuiFrameInv
  <2>1. DOMAIN <<>> = {} /\ <<>> \in [{} -> Shades]
    OBVIOUS
  <2> QED BY <1>1, <2>1 DEF GuiFrameInv, Pieces
<1>9. GuiShownInv
  BY <1>1 DEF GuiShownInv
<1> QED BY <1>5, <1>6, <1>7, <1>8, <1>9 DEF GuiInv

\* Routed bitmaps keep the sizes of the windows.
LEMMA RoutedWidths ==
    ASSUME GuiInv, NEW b \in Pieces, Gui!RouteBitmaps(b), guiWidth' = guiWidth
    PROVE  WidthInv'
<1> SUFFICES ASSUME NEW m \in Mons, MaxWidth \notin lost'[m] PROVE EndsAt(child'[m], guiWidth[m])
  BY DEF WidthInv
<1>1. MaxWidth \notin lost[m] /\ \A w : EndsAt(child[m], w) => EndsAt(child'[m], w)
  BY GuiRouteShows DEF GuiInv
<1>2. EndsAt(child[m], guiWidth[m])
  BY <1>1 DEF GuiInv, WidthInv
<1> QED BY <1>1, <1>2

\* The cells of an image.
LEMMA PieceFacts ==
    ASSUME NEW f \in Pieces
    PROVE  DOMAIN f \subseteq Int /\ \A p \in DOMAIN f : f[p] \in Shades
<1>1. PICK D \in SUBSET Int : f \in [D -> Shades]
  BY DEF Pieces
<1> QED BY <1>1

\* The server draws cells of a monitor, all of them if it still had to draw it.
LEMMA GuiBitmapKeeps ==
    ASSUME GuiInv, NEW m \in Mons, NEW cells, cells \subseteq 0 .. told[m] - 1,
           Gui!Bitmap(Gui!Drawn(m, cells)), guiDesktop' \in [Mons -> [Gui!Local -> Nat]],
           \A k \in Mons : \A c \in Gui!Local : ~(k = m /\ c \in cells) => guiDesktop'[k][c] = guiDesktop[k][c],
           guiTodo' \subseteq guiTodo, guiTodo \subseteq guiTodo' \cup {m},
           m \in guiTodo => cells = 0 .. told[m] - 1
    PROVE  GuiInv'
<1> USE DEF GuiInv
<1> DEFINE image == Gui!Drawn(m, cells)
<1>1. UNCHANGED <<guiWidth, guiInPaint, asked, told>>
  BY DEF Gui!Bitmap
<1>2. image \in Pieces
  BY DrawnShows
<1>3. asked = <<>> => \A k \in Mons : \A c \in 0 .. guiWidth[k] - 1 :
         /\ Place(guiWidth, k) + c \in DOMAIN image <=> k = m /\ c \in cells
         /\ k = m /\ c \in cells => image[Place(guiWidth, k) + c] = Cell(k, c, guiDesktop')
  <2> SUFFICES ASSUME asked = <<>>, NEW k \in Mons, NEW c \in 0 .. guiWidth[k] - 1
               PROVE  /\ Place(guiWidth, k) + c \in DOMAIN image <=> k = m /\ c \in cells
                      /\ k = m /\ c \in cells => image[Place(guiWidth, k) + c] = Cell(k, c, guiDesktop')
    OBVIOUS
  <2>1. told = guiWidth
    BY DEF AskedInv
  <2>2. \A j \in Mons : \A e \in 0 .. told[j] - 1 :
           /\ Place(told, j) + e \in DOMAIN image <=> j = m /\ e \in cells
           /\ j = m /\ e \in cells => image[Place(told, j) + e] = Cell(m, e, guiDesktop')
    BY DrawnShows
  <2> HIDE DEF image
  <2> QED BY <2>1, <2>2
<1>4. \A k \in Mons : \A c \in 0 .. guiWidth[k] - 1 :
         ~(k = m /\ c \in cells) => Cell(k, c, guiDesktop') = Cell(k, c, guiDesktop)
  BY SizesFacts DEF GuiTypes, Cell
<1>5. asked = <<>> => \A k \in Mons \ guiTodo' : k \in Mons \ guiTodo \/ \A c \in 0 .. guiWidth[k] - 1 : k = m /\ c \in cells
  BY DEF AskedInv
<1> HIDE DEF image
<1>6. CASE guiInPaint
  <2>1. guiBatch' = Gui!Over(image, guiBatch) /\ UNCHANGED <<child, skipped, lost>>
    BY <1>6 DEF Gui!Bitmap, image
  <2> DEFINE D == DOMAIN image \cup DOMAIN guiBatch
  <2>2. guiBatch' = [p \in D |-> IF p \in DOMAIN image THEN image[p] ELSE guiBatch[p]]
    BY <2>1 DEF Gui!Over
  <2>3. D \subseteq Int /\ (\A p \in DOMAIN image : image[p] \in Shades) /\ \A p \in DOMAIN guiBatch : guiBatch[p] \in Shades
    <3>1. guiBatch \in Pieces
      BY DEF GuiFrameInv
    <3> QED BY <1>2, <3>1, PieceFacts
  <2>4. guiBatch' \in [D -> Shades]
    BY <2>2, <2>3
  <2>5. guiBatch' \in Pieces
    BY <2>3, <2>4 DEF Pieces
  <2>6. DOMAIN guiBatch' = D /\ \A p \in D : guiBatch'[p] = IF p \in DOMAIN image THEN image[p] ELSE guiBatch[p]
    BY <2>2
  <2>7. ASSUME asked = <<>>, NEW k \in Mons \ guiTodo', NEW c \in 0 .. guiWidth[k] - 1,
               NEW g, g = Place(guiWidth, k) + c, g \in D
        PROVE  guiBatch'[g] = Cell(k, c, guiDesktop')
    <3>1. CASE g \in DOMAIN image
      BY <1>3, <2>6, <2>7, <3>1
    <3>2. CASE g \notin DOMAIN image
      <4>1. ~(k = m /\ c \in cells)
        BY <1>3, <2>7, <3>2
      <4>2. k \in Mons \ guiTodo
        BY <1>5, <2>7, <4>1
      <4>3. g \in DOMAIN guiBatch
        BY <2>7, <3>2
      <4>4. guiBatch[g] = Cell(k, c, guiDesktop)
        BY <2>7, <4>2, <4>3 DEF GuiFrameInv
      <4> QED BY <1>4, <2>6, <2>7, <3>2, <4>1, <4>4
    <3> QED BY <3>1, <3>2
  <2>8. GuiFrameInv'
    <3> HIDE DEF D
    <3> QED BY <1>1, <1>6, <2>5, <2>6, <2>7 DEF GuiFrameInv
  <2>9. GuiTypes' /\ AskedInv' /\ WidthInv'
    BY <1>1, <2>1 DEF GuiTypes, AskedInv, WidthInv
  <2>10. GuiShownInv'
    <3> SUFFICES ASSUME asked = <<>>, NEW k \in Mons \ guiTodo', MaxWidth \notin lost[k],
                        NEW c \in 0 .. guiWidth[k] - 1, NEW g, g = Place(guiWidth, k) + c
                 PROVE  c \in skipped[k] \cup lost[k] \/ g \in D \/ GuiShows(child[k], c, Cell(k, c, guiDesktop'))
      BY <1>1, <2>1, <2>6 DEF GuiShownInv
    <3>1. CASE k = m /\ c \in cells
      BY <1>3, <3>1
    <3>2. CASE ~(k = m /\ c \in cells)
      <4>1. k \in Mons \ guiTodo
        BY <1>5, <3>2
      <4>2. c \in skipped[k] \cup lost[k] \/ g \in DOMAIN guiBatch \/ GuiShows(child[k], c, Cell(k, c, guiDesktop))
        BY <4>1 DEF GuiShownInv
      <4> QED BY <1>4, <3>2, <4>2
    <3> QED BY <3>1, <3>2
  <2> QED BY <2>8, <2>9, <2>10
<1>7. CASE ~guiInPaint
  <2>1. Gui!RouteBitmaps(image) /\ guiBatch' = guiBatch /\ DOMAIN guiBatch = {}
    BY <1>7 DEF Gui!Bitmap, image, GuiFrameInv
  <2>2. GuiFrameInv'
    BY <1>1, <2>1 DEF GuiFrameInv
  <2>3. GuiTypes' /\ AskedInv'
    <3>1. child' \in [Mons -> GuiChild] /\ skipped' \in [Mons -> SUBSET Int] /\ lost' \in [Mons -> SUBSET Int]
      BY <1>2, <2>1, GuiRouteShows
    <3> QED BY <1>1, <3>1 DEF GuiTypes, AskedInv
  <2>4. WidthInv'
    BY <1>1, <1>2, <2>1, RoutedWidths
  <2>5. GuiShownInv'
    <3> SUFFICES ASSUME asked = <<>>, NEW k \in Mons \ guiTodo', MaxWidth \notin lost'[k],
                        NEW c \in 0 .. guiWidth[k] - 1, NEW g, g = Place(guiWidth, k) + c
                 PROVE  c \in skipped'[k] \cup lost'[k] \/ GuiShows(child'[k], c, Cell(k, c, guiDesktop'))
      BY <1>1 DEF GuiShownInv
    <3>1. \/ c \in skipped'[k] \cup lost'[k]
          \/ g \in DOMAIN image /\ GuiShows(child'[k], c, image[g])
          \/ /\ g \notin DOMAIN image /\ c \notin skipped[k] \cup lost[k]
             /\ \A v : GuiShows(child[k], c, v) => GuiShows(child'[k], c, v)
      BY <1>2, <2>1, GuiRouteShows
    <3>2. MaxWidth \notin lost[k]
      BY <1>2, <2>1, GuiRouteShows
    <3>3. CASE g \in DOMAIN image /\ GuiShows(child'[k], c, image[g])
      BY <1>3, <3>3
    <3>4. CASE /\ g \notin DOMAIN image /\ c \notin skipped[k] \cup lost[k]
               /\ \A v : GuiShows(child[k], c, v) => GuiShows(child'[k], c, v)
      <4>1. ~(k = m /\ c \in cells)
        BY <1>3, <3>4
      <4>2. k \in Mons \ guiTodo
        BY <1>5, <4>1
      <4>3. GuiShows(child[k], c, Cell(k, c, guiDesktop))
        BY <2>1, <3>2, <3>4, <4>2 DEF GuiShownInv
      <4> QED BY <1>4, <3>4, <4>1, <4>3
    <3> QED BY <3>1, <3>3, <3>4
  <2> QED BY <2>2, <2>3, <2>4, <2>5
<1> QED BY <1>6, <1>7

\* The end of a frame routes what it painted.
LEMMA GuiEndPaintKeeps == GuiInv /\ Gui!EndPaint => GuiInv'
<1> SUFFICES ASSUME GuiInv, Gui!EndPaint PROVE GuiInv'
  OBVIOUS
<1> USE DEF GuiInv
<1>1. /\ UNCHANGED <<guiWidth, asked, told, guiDesktop, guiTodo>> /\ guiInPaint' = FALSE
      /\ guiBatch' = <<>> /\ Gui!RouteBitmaps(guiBatch)
  BY DEF Gui!EndPaint, Gui!server
<1>2. guiBatch \in Pieces
  BY DEF GuiFrameInv
<1>3. DOMAIN guiBatch' = {} /\ guiBatch' \in Pieces
  <2>1. DOMAIN <<>> = {} /\ <<>> \in [{} -> Shades]
    OBVIOUS
  <2> QED BY <1>1, <2>1 DEF Pieces
<1>4. GuiFrameInv'
  BY <1>1, <1>3 DEF GuiFrameInv
<1>5. GuiTypes' /\ AskedInv'
  <2>1. child' \in [Mons -> GuiChild] /\ skipped' \in [Mons -> SUBSET Int] /\ lost' \in [Mons -> SUBSET Int]
    BY <1>1, <1>2, GuiRouteShows
  <2> QED BY <1>1, <2>1 DEF GuiTypes, AskedInv
<1>6. WidthInv'
  BY <1>1, <1>2, RoutedWidths
<1>7. GuiShownInv'
  <2> SUFFICES ASSUME asked = <<>>, NEW k \in Mons \ guiTodo, MaxWidth \notin lost'[k],
                      NEW c \in 0 .. guiWidth[k] - 1, NEW g, g = Place(guiWidth, k) + c
               PROVE  c \in skipped'[k] \cup lost'[k] \/ GuiShows(child'[k], c, Cell(k, c, guiDesktop))
    BY <1>1, <1>3 DEF GuiShownInv
  <2>1. \/ c \in skipped'[k] \cup lost'[k]
        \/ g \in DOMAIN guiBatch /\ GuiShows(child'[k], c, guiBatch[g])
        \/ /\ g \notin DOMAIN guiBatch /\ c \notin skipped[k] \cup lost[k]
           /\ \A v : GuiShows(child[k], c, v) => GuiShows(child'[k], c, v)
    BY <1>1, <1>2, GuiRouteShows
  <2>2. MaxWidth \notin lost[k]
    BY <1>1, <1>2, GuiRouteShows
  <2>3. g \in DOMAIN guiBatch => guiBatch[g] = Cell(k, c, guiDesktop)
    BY DEF GuiFrameInv
  <2>4. c \in skipped[k] \cup lost[k] \/ g \in DOMAIN guiBatch \/ GuiShows(child[k], c, Cell(k, c, guiDesktop))
    BY <2>2 DEF GuiShownInv
  <2> QED BY <2>1, <2>3, <2>4
<1> QED BY <1>4, <1>5, <1>6, <1>7

\* A resize: nothing is claimed until the server has the layout.
LEMMA GuiResizeKeeps ==
    ASSUME GuiInv, NEW m \in Mons, NEW w \in 1 .. MaxWidth, Gui!ResizeMonitor(m, w)
    PROVE  GuiInv'
<1> USE DEF GuiInv
<1> DEFINE s == child[m]
           msg == [kind |-> "resize", width |-> w]
           n == Gui!Queued(m, msg)
           late == IF Gui!Room(m) THEN lost[m] \ {MaxWidth} ELSE lost[m] \cup {MaxWidth}
<1>1. /\ guiWidth' = [guiWidth EXCEPT ![m] = w] /\ asked' = Append(asked, guiWidth')
      /\ child' = [child EXCEPT ![m] = n] /\ lost' = [lost EXCEPT ![m] = late]
      /\ UNCHANGED <<told, guiDesktop, guiTodo, guiInPaint, guiBatch, skipped>>
  BY DEF Gui!ResizeMonitor, Gui!Confirmed, Gui!paint, Gui!Size
<1>2. msg \in GuiMsg /\ ~IsBitmap(msg) /\ msg.width = w
  BY DEF GuiMsg, IsBitmap
<1>3. s \in GuiChild /\ lost[m] \subseteq Int
  BY DEF GuiTypes
<1>4. n \in GuiChild /\ (Gui!Room(m) => EndsAt(n, w))
  <2>1. CASE ~Gui!Room(m)
    BY <1>3, <2>1 DEF Gui!Queued
  <2>2. CASE Gui!Room(m)
    <3> DEFINE q == Append(s.queue, msg)
    <3>1. n = [s EXCEPT !.queue = q]
      BY <2>2 DEF Gui!Queued
    <3> HIDE DEF s, n, msg
    <3>2. q \in Seq(GuiMsg)
      BY <1>2, <1>3 DEF GuiChild
    <3> HIDE DEF q
    <3>3. n \in GuiChild /\ n.queue = q /\ n.pic = s.pic /\ n.width = s.width
      BY <1>3, <3>1, <3>2 DEF GuiChild
    <3> QED BY <1>2, <1>3, <3>3, GuiAppend DEF q
  <2> QED BY <2>1, <2>2
<1>5. late \subseteq Int /\ (MaxWidth \notin late => Gui!Room(m))
  BY <1>3, MonsFacts
<1> HIDE DEF n, late
<1>6. /\ guiWidth' \in Sizes /\ guiWidth'[m] = w /\ child' \in [Mons -> GuiChild] /\ child'[m] = n
      /\ lost' \in [Mons -> SUBSET Int] /\ lost'[m] = late
      /\ \A k \in Mons : k # m => guiWidth'[k] = guiWidth[k] /\ child'[k] = child[k] /\ lost'[k] = lost[k]
  BY <1>1, <1>4, <1>5 DEF GuiTypes, Sizes
<1>7. /\ asked' \in Seq(Sizes) /\ asked' # <<>> /\ asked'[Len(asked')] = guiWidth'
  <2> DEFINE u == guiWidth'
  <2>1. asked \in Seq(Sizes) /\ u \in Sizes /\ asked' = Append(asked, u)
    BY <1>1, <1>6 DEF GuiTypes
  <2> HIDE DEF u
  <2>2. asked' \in Seq(Sizes) /\ asked' # <<>> /\ asked'[Len(asked')] = u
    BY <2>1
  <2> QED BY <2>2 DEF u
<1>8. GuiTypes'
  BY <1>1, <1>6, <1>7 DEF GuiTypes
<1>9. AskedInv'
  BY <1>7 DEF AskedInv
<1>10. WidthInv'
  <2> SUFFICES ASSUME NEW k \in Mons, MaxWidth \notin lost'[k] PROVE EndsAt(child'[k], guiWidth'[k])
    BY DEF WidthInv
  <2>1. CASE k = m
    BY <1>4, <1>5, <1>6, <2>1
  <2>2. CASE k # m
    BY <1>6, <2>2 DEF WidthInv
  <2> QED BY <2>1, <2>2
<1>11. GuiFrameInv' /\ GuiShownInv'
  BY <1>1, <1>7 DEF GuiFrameInv, GuiShownInv
<1> QED BY <1>8, <1>9, <1>10, <1>11

\* The server takes a layout and has everything to draw.
LEMMA ServerResizesKeeps == GuiInv /\ Gui!ServerResizes => GuiInv'
<1> SUFFICES ASSUME GuiInv, Gui!ServerResizes PROVE GuiInv'
  OBVIOUS
<1> USE DEF GuiInv
<1>1. /\ asked # <<>> /\ told' = Head(asked) /\ asked' = Tail(asked) /\ guiTodo' = Mons
      /\ UNCHANGED <<guiWidth, guiDesktop, guiInPaint, guiBatch, child, skipped, lost>>
  BY DEF Gui!ServerResizes, Gui!paint
<1>2. /\ Head(asked) \in Sizes /\ Tail(asked) \in Seq(Sizes)
      /\ Tail(asked) = <<>> => Head(asked) = asked[Len(asked)]
      /\ Tail(asked) # <<>> => Tail(asked)[Len(Tail(asked))] = asked[Len(asked)]
  <2>1. asked \in Seq(Sizes)
    BY DEF GuiTypes
  <2>2. /\ Head(asked) \in Sizes /\ Tail(asked) \in Seq(Sizes) /\ Len(Tail(asked)) = Len(asked) - 1
        /\ Head(asked) = asked[1] /\ Len(asked) \in Nat \ {0}
        /\ \A i \in 1 .. Len(Tail(asked)) : Tail(asked)[i] = asked[i + 1]
    BY <1>1, <2>1, HeadTailProperties
  <2>3. Tail(asked) = <<>> => Len(asked) = 1
    <3> DEFINE rest == Tail(asked)
    <3>1. rest \in Seq(Sizes) /\ Len(rest) = Len(asked) - 1 /\ Len(asked) \in Nat
      BY <2>2
    <3> HIDE DEF rest
    <3>2. rest = <<>> => Len(rest) = 0
      BY <3>1
    <3>3. rest = <<>> => Len(asked) = 1
      BY <3>1, <3>2
    <3> QED BY <3>3 DEF rest
  <2>4. Tail(asked) # <<>> => Len(Tail(asked)) >= 1
    BY <2>2
  <2> QED BY <2>2, <2>3, <2>4
<1>3. GuiTypes'
  BY <1>1, <1>2 DEF GuiTypes
<1>4. AskedInv'
  BY <1>1, <1>2 DEF AskedInv
<1>5. WidthInv'
  BY <1>1 DEF WidthInv
<1>6. GuiFrameInv' /\ GuiShownInv'
  BY <1>1 DEF GuiFrameInv, GuiShownInv
<1> QED BY <1>3, <1>4, <1>5, <1>6

\* A window that takes a message ends up as before.
LEMMA RecvKeeps ==
    ASSUME GuiInv, NEW m \in Mons, Gui!RecvLoop(m)
    PROVE  GuiInv'
<1> USE DEF GuiInv
<1> DEFINE s == child[m]
           n == [Gui!Receives(s, Head(s.queue)) EXCEPT !.queue = Tail(@)]
<1>1. /\ s.queue # <<>> /\ child' = [child EXCEPT ![m] = n]
      /\ UNCHANGED <<guiWidth, told, asked, guiDesktop, guiTodo, guiInPaint, guiBatch, skipped, lost>>
  BY DEF Gui!RecvLoop, Gui!server, Gui!paint
<1>2. s \in GuiChild /\ guiWidth[m] \in 1 .. MaxWidth
  BY SizesFacts DEF GuiTypes
<1>3. /\ n \in GuiChild /\ \A w : EndsAt(s, w) => EndsAt(n, w)
      /\ \A w, v : \A c \in 0 .. w - 1 :
            w \in 1 .. MaxWidth /\ EndsAt(s, w) /\ GuiShows(s, c, v) => GuiShows(n, c, v)
  BY <1>1, <1>2, GuiTakes
<1> HIDE DEF n
<1>4. child' \in [Mons -> GuiChild] /\ child'[m] = n /\ \A k \in Mons : k # m => child'[k] = child[k]
  BY <1>1, <1>3 DEF GuiTypes
<1>5. GuiTypes' /\ AskedInv' /\ GuiFrameInv'
  BY <1>1, <1>4 DEF GuiTypes, AskedInv, GuiFrameInv
<1>6. WidthInv'
  <2> SUFFICES ASSUME NEW k \in Mons, MaxWidth \notin lost[k] PROVE EndsAt(child'[k], guiWidth[k])
    BY <1>1 DEF WidthInv
  <2>1. EndsAt(child[k], guiWidth[k])
    BY DEF WidthInv
  <2> QED BY <1>3, <1>4, <2>1
<1>7. GuiShownInv'
  <2> SUFFICES ASSUME asked = <<>>, NEW k \in Mons \ guiTodo, MaxWidth \notin lost[k],
                      NEW c \in 0 .. guiWidth[k] - 1
               PROVE  \/ c \in skipped[k] \cup lost[k] \/ Place(guiWidth, k) + c \in DOMAIN guiBatch
                      \/ GuiShows(child'[k], c, Cell(k, c, guiDesktop))
    BY <1>1 DEF GuiShownInv
  <2>1. \/ c \in skipped[k] \cup lost[k] \/ Place(guiWidth, k) + c \in DOMAIN guiBatch
        \/ GuiShows(child[k], c, Cell(k, c, guiDesktop))
    BY DEF GuiShownInv
  <2>2. EndsAt(child[k], guiWidth[k])
    BY DEF WidthInv
  <2>3. GuiShows(child[k], c, Cell(k, c, guiDesktop)) => GuiShows(child'[k], c, Cell(k, c, guiDesktop))
    BY <1>2, <1>3, <1>4, <2>2
  <2> QED BY <2>1, <2>3
<1> QED BY <1>5, <1>6, <1>7

\* Every step of the broker and its windows keeps their invariant.
LEMMA GuiInvStep == GuiInv /\ [Gui!Next]_guiVars => GuiInv'
<1> SUFFICES ASSUME GuiInv, [Gui!Next]_guiVars PROVE GuiInv'
  OBVIOUS
<1>1. CASE Gui!ServerResizes
  BY <1>1, ServerResizesKeeps
<1>2. CASE Gui!TimerFires \/ UNCHANGED guiVars
  <2>1. UNCHANGED <<guiWidth, told, asked, guiDesktop, guiTodo, guiInPaint, guiBatch, child, skipped, lost>>
    BY <1>2 DEF Gui!TimerFires, Gui!server, Gui!paint, guiVars
  <2> QED BY <2>1 DEF GuiInv, GuiTypes, AskedInv, WidthInv, GuiFrameInv, GuiShownInv
<1>3. CASE Gui!BeginPaint
  <2>1. /\ UNCHANGED <<guiWidth, told, asked, guiDesktop, guiTodo, child, skipped, lost>>
        /\ ~guiInPaint /\ guiInPaint' = TRUE /\ guiBatch' = <<>>
    BY <1>3 DEF Gui!BeginPaint, Gui!server
  <2>2. DOMAIN guiBatch = {} /\ DOMAIN guiBatch' = {} /\ guiBatch' \in Pieces
    <3>1. DOMAIN <<>> = {} /\ <<>> \in [{} -> Shades]
      OBVIOUS
    <3> QED BY <2>1, <3>1 DEF GuiInv, GuiFrameInv, Pieces
  <2>3. GuiFrameInv'
    BY <2>1, <2>2 DEF GuiFrameInv
  <2>4. GuiShownInv'
    BY <2>1, <2>2 DEF GuiInv, GuiShownInv
  <2> QED BY <2>1, <2>3, <2>4 DEF GuiInv, GuiTypes, AskedInv, WidthInv
<1>4. CASE Gui!EndPaint
  BY <1>4, GuiEndPaintKeeps
<1>5. ASSUME NEW m \in Mons, NEW w \in 1 .. MaxWidth, Gui!ResizeMonitor(m, w) PROVE GuiInv'
  BY <1>5, GuiResizeKeeps
<1>6. ASSUME NEW m \in Mons, NEW c \in Gui!Local, Gui!ServerPaints(m, c) PROVE GuiInv'
  <2> DEFINE row == guiDesktop[m]
             more == [row EXCEPT ![c] = row[c] + 1]
  <2>1. /\ guiTodo = {} /\ guiTodo' = guiTodo /\ c < told[m] /\ guiDesktop' = [guiDesktop EXCEPT ![m] = more]
        /\ Gui!Bitmap(Gui!Drawn(m, {c}))
    BY <1>6 DEF Gui!ServerPaints
  <2>2. more \in [Gui!Local -> Nat] /\ \A d \in Gui!Local : d # c => more[d] = row[d]
    BY DEF GuiInv, GuiTypes
  <2> HIDE DEF more
  <2>3. /\ guiDesktop' \in [Mons -> [Gui!Local -> Nat]] /\ guiDesktop'[m] = more
        /\ \A k \in Mons : k # m => guiDesktop'[k] = guiDesktop[k]
    BY <2>1, <2>2 DEF GuiInv, GuiTypes
  <2>4. \A k \in Mons : \A d \in Gui!Local : ~(k = m /\ d \in {c}) => guiDesktop'[k][d] = guiDesktop[k][d]
    BY <2>2, <2>3
  <2>5. told[m] \in 1 .. MaxWidth
    BY SizesFacts DEF GuiInv, GuiTypes
  <2>6. {c} \subseteq 0 .. told[m] - 1
    BY <2>1, <2>5, MonsFacts DEF Gui!Local
  <2> QED BY <2>1, <2>3, <2>4, <2>6, GuiBitmapKeeps
<1>7. ASSUME NEW m \in Mons, Gui!ServerRepaints(m) PROVE GuiInv'
  <2>1. /\ m \in guiTodo /\ guiTodo' = guiTodo \ {m} /\ guiDesktop' = guiDesktop
        /\ Gui!Bitmap(Gui!Drawn(m, 0 .. told[m] - 1))
    BY <1>7 DEF Gui!ServerRepaints
  <2>2. guiDesktop' \in [Mons -> [Gui!Local -> Nat]]
    BY <2>1 DEF GuiInv, GuiTypes
  <2> QED BY <2>1, <2>2, GuiBitmapKeeps
<1>8. ASSUME NEW m \in Mons, Gui!RecvLoop(m) PROVE GuiInv'
  BY <1>8, RecvKeeps
<1> QED BY <1>1, <1>2, <1>3, <1>4, <1>5, <1>6, <1>7, <1>8 DEF Gui!Next

\* When nothing waits, what is to be shown is shown.
LEMMA GuiFaithful == GuiInv => WindowsFaithful
<1> SUFFICES ASSUME GuiInv, Gui!Quiet, NEW m \in Mons, MaxWidth \notin lost[m]
             PROVE  child[m].width = guiWidth[m] /\ Gui!Wrong(m) \subseteq skipped[m] \cup lost[m]
  BY DEF WindowsFaithful, Gui!WindowsFaithful, Gui!Size
<1>1. asked = <<>> /\ guiTodo = {} /\ ~guiInPaint /\ child[m].queue = <<>> /\ DOMAIN guiBatch = {}
  BY DEF GuiInv, GuiFrameInv, Gui!Quiet
<1>2. child[m].width = guiWidth[m]
  BY <1>1 DEF GuiInv, WidthInv, EndsAt
<1>3. ASSUME NEW c \in 0 .. guiWidth[m] - 1, c \notin skipped[m] \cup lost[m]
      PROVE  child[m].pic[c] = <<m, c, guiDesktop[m][c]>>
  <2>1. GuiShows(child[m], c, Cell(m, c, guiDesktop))
    BY <1>1, <1>3 DEF GuiInv, GuiShownInv
  <2> QED BY <1>1, <2>1 DEF GuiShows, Cell
<1> QED BY <1>2, <1>3 DEF Gui!Wrong

\* When all is drawn and delivered a window has the size of its monitor, and what it shows
\* wrongly was withheld during a resize or dropped, for any number of monitors, resizes,
\* frames and messages a window may be behind.
THEOREM WindowsAlwaysFaithful == MCSpec => []WindowsFaithful
<1>1. MCInit => GuiInv
  BY GuiInvInit DEF MCInit
<1>2. GuiInv /\ [MCNext]_mcVars => GuiInv'
  <2> SUFFICES ASSUME GuiInv, [MCNext]_mcVars PROVE GuiInv'
    OBVIOUS
  <2>1. [Gui!Next]_guiVars
    BY DEF MCNext, mcVars
  <2> QED BY <2>1, GuiInvStep
<1> QED BY <1>1, <1>2, GuiFaithful, PTL DEF MCSpec

=============================================================================
