---------------------------- MODULE DevicesProofs ----------------------------
(***************************************************************************)
(* Proofs about the redirected devices of MCDevices: the serial port, the  *)
(* smart card, the channel with its printers, and the shared directory.    *)
(***************************************************************************)
EXTENDS MCDevices, Integers, Sequences, FiniteSets, Functions, SequenceTheorems,
        FiniteSetTheorems, WellFoundedInduction, TLAPS

\* A set of naturals has a least member, as the lowest free descriptor or number.
LEMMA LeastNatural ==
    ASSUME NEW T, T \subseteq Nat, T # {}
    PROVE  \E x \in T : \A y \in T : x <= y
<1> DEFINE R == OpToRel(<, Nat)
<1>1. IsWellFoundedOn(R, Nat)
  BY NatLessThanWellFounded
<1>2. \A x, y \in Nat : <<y, x>> \in R <=> y < x
  BY DEF OpToRel
<1> HIDE DEF R
<1>3. \E x \in T : \A y \in T : ~ (<<y, x>> \in R)
  BY <1>1, WFMin
<1>4. PICK x \in T : \A y \in T : ~ (<<y, x>> \in R)
  BY <1>3
<1>5. \A y \in T : ~ (y < x)
  BY <1>2, <1>4
<1>6. \A y \in T : x <= y
  BY <1>5
<1> QED BY <1>6

(***************************************************************************)
(* The serial port.                                                        *)
(***************************************************************************)

Flags == {"crtscts", "ixon"}
Terminal == [baud : Bauds \cup {9600}, stop : {1, 2}, parity : {"none", "even"}, bits : {7, 8},
             flow : SUBSET Flags]
Settings == [baud : SUBSET Bauds, line : SUBSET MCLines, flow : SUBSET MCFlows,
             timeouts : SUBSET Timeouts]
PortRead == [fd : Fds, file : {"none", "port", "other"}, closed : BOOLEAN, epoch : Nat]

PortTypes ==
    /\ fd \in Fds \cup {0} /\ open \in [Fds -> {"free", "port", "other"}]
    /\ term \in Terminal /\ asked \in Settings
    /\ reads = [r \in DOMAIN reads |-> reads[r]]
    /\ \A r \in DOMAIN reads : reads[r] \in PortRead
    /\ portEpoch \in Nat \ {0}

\* The port's descriptor is open, and in the first connection no other one is. The
\* number a read took is that of an open port until the server closes its port.
DescriptorInv ==
    /\ fd # 0 => open[fd] = "port"
    /\ portEpoch = 1 => \A n \in Fds : open[n] = "port" => n = fd
    /\ \A r \in DOMAIN reads :
          ~reads[r].closed => open[reads[r].fd] = "port" /\ reads[r].file # "other"
    /\ misread \subseteq {TRUE}

\* Timeouts outlast a close: they are not part of the terminal.
TimeoutsKept == asked.timeouts # {} => timeouts \in asked.timeouts

PortInv == PortTypes /\ DescriptorInv /\ TimeoutsKept /\ Port!SettingsKept

\* The system gives out the lowest free descriptor.
LEMMA LowestFree == Port!Free # {} => Port!Lowest \in Fds /\ open[Port!Lowest] = "free"
<1> SUFFICES ASSUME Port!Free # {} PROVE Port!Lowest \in Port!Free
  BY DEF Port!Free
<1>1. Port!Free \subseteq Nat
  BY DevicesAssumption DEF DevicesAssumption, Port!Free
<1>2. \E n \in Port!Free : \A m \in Port!Free : n <= m
  BY <1>1, LeastNatural
<1> QED BY <1>2 DEF Port!Lowest

\* What a reset and a line control leave of the terminal.
LEMMA RawTerminal == \A t \in Terminal : Port!Raw(t) \in Terminal
<1> SUFFICES ASSUME NEW t \in Terminal PROVE Port!Raw(t) \in Terminal
  OBVIOUS
<1>1. PICK b, o, p, n, l : /\ t = [baud |-> b, stop |-> o, parity |-> p, bits |-> n, flow |-> l]
                           /\ b \in Bauds \cup {9600} /\ o \in {1, 2} /\ l \in SUBSET Flags
  BY DEF Terminal
<1>2. Port!Raw(t) = [baud |-> 9600, stop |-> o, parity |-> "none", bits |-> 8, flow |-> l \ {"ixon"}]
  <2> DEFINE t1 == [t EXCEPT !.baud = 9600]
             t2 == [t1 EXCEPT !.parity = "none"]
             t3 == [t2 EXCEPT !.bits = 8]
  <2>1. t1 = [baud |-> 9600, stop |-> o, parity |-> p, bits |-> n, flow |-> l]
    BY <1>1
  <2>2. Port!Raw(t) = [t3 EXCEPT !.flow = t.flow \ {"ixon"}]
    BY DEF Port!Raw
  <2> HIDE DEF t1
  <2>3. t2 = [baud |-> 9600, stop |-> o, parity |-> "none", bits |-> n, flow |-> l]
    BY <2>1
  <2> HIDE DEF t2
  <2>4. t3 = [baud |-> 9600, stop |-> o, parity |-> "none", bits |-> 8, flow |-> l]
    BY <2>3
  <2> HIDE DEF t3
  <2>5. t.flow = l
    BY <1>1
  <2> QED BY <2>2, <2>4, <2>5
<1>3. l \ {"ixon"} \in SUBSET Flags
  BY <1>1
<1> QED BY <1>1, <1>2, <1>3 DEF Terminal

\* What a line control leaves of the terminal.
LEMMA LineTerminal ==
    ASSUME NEW t \in Terminal, NEW l \in MCLines
    PROVE  /\ Port!WithLine(t, l) \in Terminal
           /\ Port!WithLine(t, l) = [baud |-> t.baud, stop |-> IF l.stop = 2 THEN 2 ELSE 1,
                                    parity |-> l.parity, bits |-> l.bits, flow |-> t.flow]
<1> DEFINE w == Port!WithLine(t, l)
<1>1. PICK b, o, p, n, f : /\ t = [baud |-> b, stop |-> o, parity |-> p, bits |-> n, flow |-> f]
                           /\ b \in Bauds \cup {9600} /\ o \in {1, 2} /\ f \in SUBSET Flags
  BY DEF Terminal
<1>2. w = [baud |-> b, stop |-> IF l.stop = 2 THEN 2 ELSE 1, parity |-> l.parity, bits |-> l.bits, flow |-> f]
  <2> DEFINE k == IF l.stop = 2 THEN 2 ELSE 1
             t1 == [t EXCEPT !.stop = k]
             t2 == [t1 EXCEPT !.parity = l.parity]
  <2>1. Port!WithLine(t, l) = [t2 EXCEPT !.bits = l.bits]
    BY DEF Port!WithLine
  <2> HIDE DEF k
  <2>2. t1 = [baud |-> b, stop |-> k, parity |-> p, bits |-> n, flow |-> f]
    BY <1>1
  <2> HIDE DEF t1
  <2>3. t2 = [baud |-> b, stop |-> k, parity |-> l.parity, bits |-> n, flow |-> f]
    BY <2>2
  <2> HIDE DEF t2
  <2>4. w = [baud |-> b, stop |-> k, parity |-> l.parity, bits |-> l.bits, flow |-> f]
    BY <2>1, <2>3
  <2> QED BY <2>4 DEF k
<1>3. l.parity \in {"none", "even"} /\ l.bits \in {7, 8}
  BY DEF MCLines
<1> HIDE DEF w
<1>4. w \in Terminal
  BY <1>1, <1>2, <1>3 DEF Terminal
<1>5. w = [baud |-> t.baud, stop |-> IF l.stop = 2 THEN 2 ELSE 1,
           parity |-> l.parity, bits |-> l.bits, flow |-> t.flow]
  BY <1>1, <1>2
<1> QED BY <1>4, <1>5 DEF w

\* It holds at the start.
LEMMA PortStarts == Port!Init => PortInv
<1> SUFFICES ASSUME Port!Init PROVE PortInv
  OBVIOUS
<1> USE DevicesAssumption DEF Port!Init
<1>1. PortTypes
  BY DEF PortTypes, Terminal, Settings, Port!Unset
<1>2. DescriptorInv
  BY DEF DescriptorInv
<1>3. TimeoutsKept /\ Port!SettingsKept
  BY DEF TimeoutsKept, Port!SettingsKept, Port!Unset
<1> QED BY <1>1, <1>2, <1>3 DEF PortInv

\* Each step keeps it.
LEMMA PortSteps == PortInv /\ [Port!Next]_serialVars => PortInv'
<1> SUFFICES ASSUME PortInv, [Port!Next]_serialVars PROVE PortInv'
  OBVIOUS
<1>a. PortTypes /\ DescriptorInv /\ TimeoutsKept /\ Port!SettingsKept /\ 0 \notin Fds
  BY DevicesAssumption DEF PortInv, DevicesAssumption
<1>b. ASSUME UNCHANGED <<fd, term, timeouts, asked>> PROVE TimeoutsKept' /\ Port!SettingsKept'
  BY <1>a, <1>b DEF TimeoutsKept, Port!SettingsKept, Port!Reported
<1>c. ASSUME UNCHANGED <<fd, open, reads, misread, portEpoch>> PROVE DescriptorInv'
  BY <1>a, <1>c DEF DescriptorInv
<1>1. CASE UNCHANGED serialVars
  <2>1. PortTypes'
    BY <1>1, <1>a DEF serialVars, PortTypes
  <2> QED BY <1>1, <1>b, <1>c, <2>1 DEF serialVars, PortInv
<1>2. CASE Port!HandleCreate
  <2>1. CASE fd # 0
    <3>1. UNCHANGED serialVars
      BY <1>2, <2>1 DEF Port!HandleCreate, Port!AlreadyOpen, serialVars
    <3> QED BY <1>1, <3>1
  <2>2. CASE fd = 0
    <3>1. /\ Port!Free # {} /\ fd' = Port!Lowest /\ open' = [open EXCEPT ![Port!Lowest] = "port"]
          /\ term' = Port!Raw(term) /\ asked' = [Port!Unset EXCEPT !.timeouts = asked.timeouts]
          /\ UNCHANGED <<timeouts, reads, misread, portEpoch>>
      BY <1>2, <2>2 DEF Port!HandleCreate, Port!AlreadyOpen
    <3>2. Port!Lowest \in Fds /\ open[Port!Lowest] = "free"
      BY <3>1, LowestFree
    <3>3. term' \in Terminal
      BY <1>a, <3>1, RawTerminal DEF PortTypes
    <3>4. /\ asked' \in Settings /\ asked'.baud = {} /\ asked'.line = {} /\ asked'.flow = {}
          /\ asked'.timeouts = asked.timeouts
      BY <1>a, <3>1 DEF PortTypes, Settings, Port!Unset
    <3>5. PortTypes'
      BY <1>a, <3>1, <3>2, <3>3, <3>4 DEF PortTypes
    <3>6. DescriptorInv'
      BY <1>a, <2>2, <3>1, <3>2 DEF PortTypes, DescriptorInv, PortRead
    <3>7. TimeoutsKept' /\ Port!SettingsKept'
      BY <1>a, <3>1, <3>4 DEF TimeoutsKept, Port!SettingsKept, Port!Reported
    <3> QED BY <3>5, <3>6, <3>7 DEF PortInv
  <2> QED BY <2>1, <2>2
<1>3. CASE Port!HandleClose
  <2>1. /\ fd' = 0 /\ open' = IF fd = 0 THEN open ELSE [open EXCEPT ![fd] = "free"]
        /\ reads' = [r \in DOMAIN reads |-> [reads[r] EXCEPT !.closed = reads[r].closed \/ fd # 0]]
        /\ UNCHANGED <<term, timeouts, asked, misread, portEpoch>>
    BY <1>3 DEF Port!HandleClose, Port!AfterClose
  <2>2. /\ DOMAIN reads' = DOMAIN reads /\ reads' = [r \in DOMAIN reads' |-> reads'[r]]
        /\ \A r \in DOMAIN reads : reads'[r] = [reads[r] EXCEPT !.closed = reads[r].closed \/ fd # 0]
    BY <2>1
  <2>3. ASSUME NEW r \in DOMAIN reads
        PROVE  /\ reads'[r] \in PortRead /\ reads'[r].fd = reads[r].fd
               /\ reads'[r].file = reads[r].file
               /\ ~reads'[r].closed => fd = 0 /\ ~reads[r].closed
    <3>1. PICK x \in BOOLEAN : x <=> reads[r].closed \/ fd # 0
      OBVIOUS
    <3>2. reads'[r] = [reads[r] EXCEPT !.closed = reads[r].closed \/ fd # 0] /\ reads[r] \in PortRead
      BY <1>a, <2>2 DEF PortTypes
    <3>3. (reads[r].closed \/ fd # 0) = x
      BY <3>1
    <3>4. reads'[r] = [reads[r] EXCEPT !.closed = x]
      BY <3>2, <3>3
    <3> QED BY <3>1, <3>2, <3>4 DEF PortRead
  <2>4. PortTypes'
    BY <1>a, <2>1, <2>2, <2>3 DEF PortTypes
  <2>5. DescriptorInv'
    <3>1. \A n \in Fds : open'[n] = "port" => open[n] = "port" /\ n # fd
      BY <1>a, <2>1 DEF PortTypes
    <3>2. fd' = 0 /\ portEpoch' = portEpoch /\ misread' = misread
      BY <2>1
    <3>3. portEpoch' = 1 => \A n \in Fds : open'[n] = "port" => n = fd'
      BY <1>a, <3>1, <3>2 DEF DescriptorInv
    <3>4. \A r \in DOMAIN reads' :
             ~reads'[r].closed => open'[reads'[r].fd] = "port" /\ reads'[r].file # "other"
      BY <1>a, <2>1, <2>2, <2>3 DEF DescriptorInv
    <3> QED BY <1>a, <3>2, <3>3, <3>4 DEF DescriptorInv
  <2>6. TimeoutsKept' /\ Port!SettingsKept'
    BY <1>a, <2>1 DEF TimeoutsKept, Port!SettingsKept
  <2> QED BY <2>4, <2>5, <2>6 DEF PortInv
<1>4. CASE Port!HandleRead
  <2>1. /\ fd # 0 /\ UNCHANGED <<fd, open, term, timeouts, asked, misread, portEpoch>>
        /\ \E s : reads' = [x \in DOMAIN reads \cup {s} |-> IF x # s THEN reads[x]
                    ELSE [fd |-> fd, file |-> "none", closed |-> FALSE, epoch |-> portEpoch]]
    BY <1>4 DEF Port!HandleRead
  <2>2. PICK s : reads' = [x \in DOMAIN reads \cup {s} |-> IF x # s THEN reads[x]
                    ELSE [fd |-> fd, file |-> "none", closed |-> FALSE, epoch |-> portEpoch]]
    BY <2>1
  <2>3. /\ DOMAIN reads' = DOMAIN reads \cup {s} /\ reads' = [r \in DOMAIN reads' |-> reads'[r]]
        /\ \A r \in DOMAIN reads' : IF r # s THEN r \in DOMAIN reads /\ reads'[r] = reads[r]
              ELSE reads'[r] = [fd |-> fd, file |-> "none", closed |-> FALSE, epoch |-> portEpoch]
    BY <2>2
  <2>4. PortTypes'
    BY <1>a, <2>1, <2>3 DEF PortTypes, PortRead
  <2>5. DescriptorInv'
    <3>1. \A r \in DOMAIN reads' :
             ~reads'[r].closed => open'[reads'[r].fd] = "port" /\ reads'[r].file # "other"
      BY <1>a, <2>1, <2>3 DEF DescriptorInv
    <3> QED BY <1>a, <2>1, <3>1 DEF DescriptorInv
  <2> QED BY <1>b, <2>1, <2>4, <2>5 DEF PortInv
<1>d. ASSUME NEW r \in DOMAIN reads, Port!Done(r), UNCHANGED <<fd, open, term, timeouts, asked, portEpoch>>,
             misread' \subseteq {TRUE}
      PROVE  PortInv'
  <2>1. /\ DOMAIN reads' = DOMAIN reads \ {r} /\ reads' = [x \in DOMAIN reads' |-> reads'[x]]
        /\ \A x \in DOMAIN reads' : reads'[x] = reads[x]
    BY <1>d DEF Port!Done
  <2>2. PortTypes'
    BY <1>a, <1>d, <2>1 DEF PortTypes
  <2>3. DescriptorInv'
    <3>1. ASSUME NEW x \in DOMAIN reads', ~reads'[x].closed
          PROVE  open[reads'[x].fd] = "port" /\ reads'[x].file # "other"
      BY <1>a, <2>1, <3>1 DEF DescriptorInv
    <3> QED BY <1>a, <1>d, <3>1 DEF DescriptorInv
  <2> QED BY <1>b, <1>d, <2>2, <2>3 DEF PortInv
<1>5. ASSUME NEW r \in DOMAIN reads, Port!ReadStarts(r) PROVE PortInv'
  <2>1. reads[r].file = "none" /\ UNCHANGED <<fd, open, term, timeouts, asked, misread, portEpoch>>
    BY <1>5 DEF Port!ReadStarts
  <2>2. CASE open[reads[r].fd] = "free"
    BY <1>5, <1>a, <1>d, <2>1, <2>2 DEF Port!ReadStarts, DescriptorInv
  <2>3. CASE open[reads[r].fd] # "free"
    <3>1. reads' = [reads EXCEPT ![r].file = open[reads[r].fd]]
      BY <1>5, <2>3 DEF Port!ReadStarts
    <3>2. /\ DOMAIN reads' = DOMAIN reads /\ reads' = [x \in DOMAIN reads' |-> reads'[x]]
          /\ \A x \in DOMAIN reads : x # r => reads'[x] = reads[x]
          /\ reads'[r] = [reads[r] EXCEPT !.file = open[reads[r].fd]]
      BY <3>1, <1>a DEF PortTypes
    <3>3. reads[r] \in PortRead /\ open[reads[r].fd] \in {"free", "port", "other"}
      BY <1>a DEF PortTypes, PortRead
    <3>4. /\ reads'[r] \in PortRead /\ reads'[r].fd = reads[r].fd /\ reads'[r].closed = reads[r].closed
          /\ reads'[r].file = open[reads[r].fd]
      BY <2>3, <3>2, <3>3 DEF PortRead
    <3>5. PortTypes'
      BY <1>a, <2>1, <3>2, <3>4 DEF PortTypes
    <3>6. DescriptorInv'
      <4>1. \A x \in DOMAIN reads' :
             ~reads'[x].closed => open'[reads'[x].fd] = "port" /\ reads'[x].file # "other"
        <5> SUFFICES ASSUME NEW x \in DOMAIN reads', ~reads'[x].closed
                     PROVE  open[reads'[x].fd] = "port" /\ reads'[x].file # "other"
          BY <2>1
        <5>1. CASE x = r
          BY <1>a, <3>4, <5>1 DEF DescriptorInv
        <5>2. CASE x # r
          BY <1>a, <3>2, <5>2 DEF DescriptorInv
        <5> QED BY <5>1, <5>2
      <4> QED BY <1>a, <2>1, <4>1 DEF DescriptorInv
    <3> QED BY <1>b, <2>1, <3>5, <3>6 DEF PortInv
  <2> QED BY <2>2, <2>3
<1>6. ASSUME NEW r \in DOMAIN reads, Port!ReadEnds(r) PROVE PortInv'
  <2>1. /\ Port!Done(r) /\ UNCHANGED <<fd, open, term, timeouts, asked, portEpoch>>
        /\ misread' = IF reads[r].file = "other" THEN misread \cup {reads[r].closed} ELSE misread
    BY <1>6 DEF Port!ReadEnds
  <2>2. reads[r].file = "other" => reads[r].closed = TRUE
    BY <1>a DEF DescriptorInv, PortTypes, PortRead
  <2>3. misread' \subseteq {TRUE}
    BY <1>a, <2>1, <2>2 DEF DescriptorInv
  <2> QED BY <1>d, <2>1, <2>3
<1>7. CASE Port!DeviceControl
  <2>0. fd # 0 /\ UNCHANGED <<fd, open, reads, misread, portEpoch>>
    BY <1>7 DEF Port!DeviceControl
  <2>1. SUFFICES /\ term' \in Terminal /\ asked' \in Settings /\ TimeoutsKept' /\ Port!SettingsKept'
    BY <1>a, <1>c, <2>0 DEF PortTypes, PortInv
  <2>a. term \in Terminal /\ asked \in Settings
    BY <1>a DEF PortTypes
  <2>2. ASSUME NEW b \in Bauds, Port!SetBaudRate(b), UNCHANGED timeouts
        PROVE  term' \in Terminal /\ asked' \in Settings /\ TimeoutsKept' /\ Port!SettingsKept'
    <3>1. term' = [term EXCEPT !.baud = b] /\ asked' = [asked EXCEPT !.baud = {b}]
      BY <2>2 DEF Port!SetBaudRate, Port!Set
    <3>2. term' \in Terminal /\ asked' \in Settings
      BY <2>a, <3>1 DEF Terminal, Settings
    <3>3. /\ term'.baud = b /\ term'.stop = term.stop /\ term'.parity = term.parity
          /\ term'.bits = term.bits /\ term'.flow = term.flow
      BY <2>a, <3>1 DEF Terminal
    <3>4. /\ asked'.baud = {b} /\ asked'.line = asked.line /\ asked'.flow = asked.flow
          /\ asked'.timeouts = asked.timeouts
      BY <2>a, <3>1 DEF Settings
    <3> QED BY <1>a, <2>0, <2>2, <3>2, <3>3, <3>4 DEF TimeoutsKept, Port!SettingsKept, Port!Reported
  <2>3. ASSUME NEW l \in MCLines, Port!SetLineControl(l), UNCHANGED timeouts
        PROVE  term' \in Terminal /\ asked' \in Settings /\ TimeoutsKept' /\ Port!SettingsKept'
    <3>1. term' = Port!WithLine(term, l) /\ asked' = [asked EXCEPT !.line = {l}]
      BY <2>3 DEF Port!SetLineControl, Port!Set
    <3>2. term' \in Terminal /\ asked' \in Settings
      BY <2>a, <3>1, LineTerminal DEF Settings
    <3>3. /\ term'.baud = term.baud /\ term'.stop = (IF l.stop = 2 THEN 2 ELSE 1) /\ term'.parity = l.parity
          /\ term'.bits = l.bits /\ term'.flow = term.flow
      BY <2>a, <3>1, LineTerminal
    <3>4. /\ asked'.baud = asked.baud /\ asked'.line = {l} /\ asked'.flow = asked.flow
          /\ asked'.timeouts = asked.timeouts
      BY <2>a, <3>1 DEF Settings
    <3>5. [stop |-> term'.stop, parity |-> term'.parity, bits |-> term'.bits] = Port!Kept(l)
      BY <3>3 DEF MCLines, Port!Kept
    <3> QED BY <1>a, <2>0, <2>3, <3>2, <3>3, <3>4, <3>5 DEF TimeoutsKept, Port!SettingsKept, Port!Reported
  <2>4. ASSUME NEW f \in MCFlows, Port!SetHandflow(f), UNCHANGED timeouts
        PROVE  term' \in Terminal /\ asked' \in Settings /\ TimeoutsKept' /\ Port!SettingsKept'
    <3>1. term' = [term EXCEPT !.flow = f] /\ asked' = [asked EXCEPT !.flow = {f}]
      BY <2>4 DEF Port!SetHandflow, Port!Set
    <3>2. term' \in Terminal /\ asked' \in Settings
      <4>1. f \in SUBSET Flags
        BY DEF MCFlows, Flags
      <4>2. term' \in Terminal
        BY <2>a, <3>1, <4>1 DEF Terminal
      <4> QED BY <2>a, <3>1, <4>2 DEF Settings
    <3>3. /\ term'.baud = term.baud /\ term'.stop = term.stop /\ term'.parity = term.parity
          /\ term'.bits = term.bits /\ term'.flow = f
      BY <2>a, <3>1 DEF Terminal
    <3>4. /\ asked'.baud = asked.baud /\ asked'.line = asked.line /\ asked'.flow = {f}
          /\ asked'.timeouts = asked.timeouts
      BY <2>a, <3>1 DEF Settings
    <3> QED BY <1>a, <2>0, <2>4, <3>2, <3>3, <3>4 DEF TimeoutsKept, Port!SettingsKept, Port!Reported
  <2>5. ASSUME NEW t \in Timeouts, timeouts' = t, asked' = [asked EXCEPT !.timeouts = {t}], UNCHANGED term
        PROVE  term' \in Terminal /\ asked' \in Settings /\ TimeoutsKept' /\ Port!SettingsKept'
    <3>1. /\ asked' \in Settings /\ asked'.baud = asked.baud /\ asked'.line = asked.line
          /\ asked'.flow = asked.flow /\ asked'.timeouts = {t}
      BY <2>5, <2>a DEF Settings
    <3> QED BY <1>a, <2>0, <2>5, <2>a, <3>1 DEF TimeoutsKept, Port!SettingsKept, Port!Reported
  <2>6. CASE Port!ResetDevice
    <3>1. term' \in Terminal
      BY <2>6, <2>a, RawTerminal DEF Port!ResetDevice
    <3>2. /\ asked' \in Settings /\ asked'.baud = {} /\ asked'.line = {} /\ asked'.flow = {}
          /\ asked'.timeouts = {}
      BY <2>6 DEF Settings, Port!Unset, Port!ResetDevice
    <3> QED BY <3>1, <3>2 DEF TimeoutsKept, Port!SettingsKept
  <2> QED BY <1>7, <2>2, <2>3, <2>4, <2>5, <2>6 DEF Port!DeviceControl
<1>8. CASE Port!Reconnect
  <2>1. /\ portEpoch' = portEpoch + 1 /\ fd' = 0 /\ timeouts' = Port!Zero /\ asked' = Port!Unset
        /\ UNCHANGED <<open, term, reads, misread>>
    BY <1>8 DEF Port!Reconnect
  <2>2. asked' \in Settings /\ asked'.timeouts = {}
    BY <2>1 DEF Port!Unset, Settings
  <2>3. PortTypes'
    BY <1>a, <2>1, <2>2 DEF PortTypes
  <2>4. portEpoch' # 1
    BY <1>a, <2>1 DEF PortTypes
  <2>5. DescriptorInv'
    BY <1>a, <2>1, <2>4 DEF DescriptorInv
  <2> QED BY <2>1, <2>2, <2>3, <2>5 DEF PortInv, TimeoutsKept, Port!SettingsKept
<1>9. ASSUME Port!OtherOpens \/ Port!OtherCloses, UNCHANGED <<fd, term, timeouts, asked, reads, misread, portEpoch>>
      PROVE  PortInv'
  <2>1. PICK n \in Fds, v \in {"other", "free"} : open[n] # "port" /\ open' = [open EXCEPT ![n] = v]
    BY <1>9, LowestFree DEF Port!OtherOpens, Port!OtherCloses
  <2>2. PortTypes'
    BY <1>9, <1>a, <2>1 DEF PortTypes
  <2>3. DescriptorInv'
    <3>1. \A m \in Fds : open'[m] = "port" <=> open[m] = "port"
      BY <1>a, <2>1 DEF PortTypes
    <3>2. \A r \in DOMAIN reads : reads[r].fd \in Fds
      BY <1>a DEF PortTypes, PortRead
    <3>3. fd \in Fds \cup {0}
      BY <1>a DEF PortTypes
    <3> QED BY <1>9, <1>a, <3>1, <3>2, <3>3 DEF DescriptorInv
  <2> QED BY <1>9, <1>b, <2>2, <2>3 DEF PortInv
<1> QED
  BY <1>1, <1>2, <1>3, <1>4, <1>5, <1>6, <1>7, <1>8, <1>9 DEF Port!Next

\* In every behaviour the server reads the port it opened, with the settings it set
\* last, and the first connection opens one descriptor at a time, for every number of
\* descriptors, reads and connections.
THEOREM SerialAlwaysFaithful == MCSpec => []SerialFaithful
<1>1. MCInit => PortInv
  BY PortStarts DEF MCInit
<1>2. PortInv /\ [MCNext]_mcVars => PortInv'
  <2>1. [MCNext]_mcVars => [Port!Next]_serialVars
    BY DEF MCNext, mcVars
  <2> QED BY <2>1, PortSteps
<1>3. PortInv => SerialFaithful
  <2> SUFFICES ASSUME PortInv PROVE SerialFaithful
    OBVIOUS
  <2>1. Port!ReadsThePort /\ Port!SettingsKept
    BY DEF PortInv, DescriptorInv, Port!ReadsThePort
  <2>2. Port!OpenOnce
    BY DEF PortInv, PortTypes, DescriptorInv, Port!OpenOnce, Port!Ports
  <2> QED BY <2>1, <2>2 DEF SerialFaithful, Port!SerialFaithful
<1> QED BY <1>1, <1>2, <1>3, PTL DEF MCSpec

(***************************************************************************)
(* The smart card.                                                         *)
(***************************************************************************)

Seen == [counter : Int, flag : {"unaware", "present", "empty"}]
LoopOp == [op : {"release", "disconnect", "begin", "end", "transmit"}, ctx : Contexts,
           handle : Handles \cup {0}, at : {"lock", "sent", "granted"}]
CardOp == [kind : {"connect", "wait"}, ctx : Contexts, epoch : Nat,
           at : {"start", "sent", "waiting", "notified"}, timeout : {"none", "zero", "endless"},
           known : Seen, handle : Handles \cup {0}]

CardTypes ==
    /\ cardEpoch \in Nat /\ counter \in Nat /\ present \in BOOLEAN /\ known \in Seen
    /\ contexts \subseteq Contexts \cap used /\ tracked \subseteq Contexts \cap used
    /\ \A h \in DOMAIN cardCtx : h \in used \cap Handles /\ cardCtx[h] \in used
    /\ \A h \in DOMAIN cards : h \in used \cap Handles /\ cards[h] \in used
    /\ lock \in [Contexts -> {"free", "loop"} \cup Ops]
    /\ wire \in [Contexts -> Seq({"loop", "cancelled"} \cup Ops)]
    /\ loop \in {Card!Idle} \cup LoopOp
    /\ ops = [o \in DOMAIN ops |-> ops[o]]
    /\ \A o \in DOMAIN ops : o \in Ops /\ ops[o] \in CardOp /\ ops[o].ctx \in used

\* A request of the receive loop is for a card of a context that is open, except the
\* one that releases it.
LoopInv ==
    /\ loop # Card!Idle => loop.ctx \in used
    /\ loop.at = "granted" => loop.op = "begin"
    /\ loop.op = "release" => loop.ctx \notin contexts
    /\ loop.op \in {"disconnect", "begin", "end", "transmit"} =>
          /\ loop.ctx \in contexts /\ loop.handle \in DOMAIN cardCtx
          /\ cardCtx[loop.handle] = loop.ctx

\* A context is locked by the one whose request is under way on its connection.
LockInv ==
    \A c \in Contexts :
        /\ lock[c] = "loop" <=> loop.ctx = c /\ loop.at \in {"sent", "granted"}
        /\ \A o \in Ops : lock[c] = o <=> o \in DOMAIN ops /\ ops[o].at = "sent" /\ ops[o].ctx = c

\* The answer on a connection that was not cancelled is that of the one who holds it.
Unanswered(c) == lock[c] = "loop" /\ loop.op = "begin" /\ loop.at = "sent"
WireInv ==
    /\ \A c \in Contexts \ cancelled :
          wire[c] = IF lock[c] = "free" \/ Unanswered(c) THEN <<>> ELSE <<lock[c]>>
    /\ skewed \subseteq cancelled

\* A handle that the daemon has given out and the client not yet read is in no table.
HandleInv ==
    /\ \A o \in DOMAIN ops : ops[o].at = "sent" =>
          ops[o].kind = "connect" /\ ops[o].handle \in (used \cap Handles) \ DOMAIN cardCtx
    /\ \A o, p \in DOMAIN ops :
          ops[o].at = "sent" /\ ops[p].at = "sent" /\ ops[o].handle = ops[p].handle => o = p

\* The tables of an open context differ from the daemon's by the request under way.
Kept(c) == {h \in DOMAIN cardCtx : cardCtx[h] = c}
Opened(c) == {h \in DOMAIN cards : cards[h] = c}
Agree(c) ==
    /\ lock[c] = "free" => Opened(c) = Kept(c)
    /\ lock[c] = "loop" => Opened(c) = IF loop.op = "disconnect" THEN Kept(c) \ {loop.handle} ELSE Kept(c)
    /\ \A o \in Ops : lock[c] = o => Opened(c) = Kept(c) \cup {ops[o].handle}

CardInv ==
    CardTypes /\ LoopInv /\ LockInv /\ WireInv /\ HandleInv /\ (\A c \in contexts : Agree(c)) /\ Card!NoEventLost

\* The senders' names and the numbers.
LEMMA CardConstants ==
    /\ "free" \notin Ops /\ "loop" \notin Ops /\ "cancelled" \notin Ops
    /\ Contexts \subseteq Nat \ {0} /\ Handles \subseteq Nat \ {0} /\ CounterRange \in Nat \ {0}
BY DevicesAssumption DEF DevicesAssumption

\* The daemon gives out the least number it has not given out.
LEMMA LeastNumber == ASSUME NEW S, S \subseteq Nat, S # {} PROVE Card!Least(S) \in S
<1>1. \E x \in S : \A y \in S : x <= y
  BY LeastNatural
<1> QED BY <1>1 DEF Card!Least

\* It holds at the start.
LEMMA CardStarts == Card!Init => CardInv
<1> SUFFICES ASSUME Card!Init PROVE CardInv
  OBVIOUS
<1> USE CardConstants DEF Card!Init, Card!Idle
<1>1. CardTypes
  <2>1. wire \in [Contexts -> Seq({"loop", "cancelled"} \cup Ops)]
    BY EmptySeq
  <2> QED BY <2>1 DEF CardTypes, Seen
<1>2. LoopInv
  BY DEF LoopInv
<1>3. LockInv
  BY DEF LockInv
<1>4. WireInv
  BY DEF WireInv
<1>5. HandleInv /\ (\A c \in contexts : Agree(c)) /\ Card!NoEventLost
  BY DEF HandleInv, Card!NoEventLost
<1> QED BY <1>1, <1>2, <1>3, <1>4, <1>5 DEF CardInv

\* What the reader is told of is well formed.
LEMMA ReportedSeen == CardTypes => Card!Reported \in Seen
<1> SUFFICES ASSUME CardTypes PROVE Card!Reported \in Seen
  OBVIOUS
<1>1. counter % CounterRange \in Int
  BY CardConstants DEF CardTypes
<1>2. Card!Flag \in {"unaware", "present", "empty"}
  BY DEF Card!Flag
<1> QED BY <1>1, <1>2 DEF Card!Reported, Seen

\* A context that is new or at rest: nothing is under way on it.
LEMMA UnusedRests ==
    ASSUME CardTypes, LoopInv, LockInv, NEW c \in Contexts, c \notin used
    PROVE  lock[c] = "free" /\ Opened(c) = {} /\ Kept(c) = {}
<1>1. lock[c] # "loop"
  BY CardConstants DEF LoopInv, LockInv, Card!Idle
<1>2. \A o \in Ops : lock[c] # o
  BY DEF CardTypes, LockInv
<1>3. lock[c] = "free"
  BY <1>1, <1>2 DEF CardTypes
<1> QED BY <1>3 DEF CardTypes, Opened, Kept

\* EstablishContext.
LEMMA Establishes == CardInv /\ Card!EstablishContext => CardInv'
<1> SUFFICES ASSUME CardInv, Card!EstablishContext PROVE CardInv'
  OBVIOUS
<1>a. CardTypes /\ LoopInv /\ LockInv /\ WireInv /\ HandleInv /\ (\A c \in contexts : Agree(c)) /\ Card!NoEventLost
  BY DEF CardInv
<1> DEFINE c == Card!Least(Contexts \ used)
<1>1. /\ loop = Card!Idle /\ Contexts \ used # {}
      /\ used' = used \cup {c} /\ contexts' = contexts \cup {c} /\ tracked' = tracked \cup {c}
      /\ UNCHANGED <<cardEpoch, cardCtx, lock, loop, ops, wire, cards, owner, present, counter, known,
                     cancelled, skewed, foreign>>
  BY DEF Card!EstablishContext, Card!reader
<1>2. c \in Contexts \ used
  BY <1>1, LeastNumber, CardConstants
<1> HIDE DEF c
<1>3. CardTypes'
  BY <1>a, <1>1, <1>2 DEF CardTypes
<1>4. LoopInv' /\ LockInv' /\ WireInv' /\ HandleInv' /\ Card!NoEventLost'
  <2>1. LoopInv'
    BY <1>a, <1>1 DEF LoopInv, Card!Idle
  <2>2. LockInv'
    BY <1>a, <1>1 DEF LockInv
  <2>3. WireInv'
    BY <1>a, <1>1 DEF WireInv, Unanswered
  <2>4. HandleInv'
    BY <1>a, <1>1 DEF HandleInv
  <2>5. Card!NoEventLost'
    BY <1>a, <1>1 DEF Card!NoEventLost, Card!Flag
  <2> QED BY <2>1, <2>2, <2>3, <2>4, <2>5
<1>5. \A x \in contexts' : Agree(x)'
  <2>1. \A x : Agree(x)' <=> Agree(x)
    BY <1>1 DEF Agree, Opened, Kept
  <2>2. Agree(c)
    BY <1>a, <1>2, UnusedRests, CardConstants DEF Agree
  <2> QED BY <1>a, <1>1, <2>1, <2>2
<1> QED BY <1>3, <1>4, <1>5 DEF CardInv

\* ReleaseContext.
LEMMA Releases == ASSUME CardInv, NEW c \in Contexts, Card!ReleaseContext(c) PROVE CardInv'
<1>a. CardTypes /\ LoopInv /\ LockInv /\ WireInv /\ HandleInv /\ (\A x \in contexts : Agree(x)) /\ Card!NoEventLost
  BY DEF CardInv
<1>1. /\ loop = Card!Idle /\ c \in tracked
      /\ contexts' = contexts \ {c}
      /\ cardCtx' = Card!Without(cardCtx, {h \in DOMAIN cardCtx : cardCtx[h] = c})
      /\ loop' = [op |-> "release", ctx |-> c, handle |-> 0, at |-> "lock"]
      /\ UNCHANGED <<cardEpoch, tracked, lock, ops, wire, used, cards, owner, present, counter, known,
                     cancelled, skewed, foreign>>
  BY DEF Card!ReleaseContext, Card!reader, Card!daemon
<1>2. /\ DOMAIN cardCtx' = {h \in DOMAIN cardCtx : cardCtx[h] # c}
      /\ \A h \in DOMAIN cardCtx' : cardCtx'[h] = cardCtx[h]
  BY <1>1 DEF Card!Without
<1>3. loop' \in LoopOp /\ loop'.op = "release" /\ loop'.ctx = c /\ loop'.at = "lock"
  BY <1>1 DEF LoopOp
<1>4. CardTypes'
  BY <1>a, <1>1, <1>2, <1>3 DEF CardTypes
<1>5. LoopInv'
  BY <1>a, <1>1, <1>3 DEF CardTypes, LoopInv
<1>6. LockInv' /\ \A x \in Contexts : lock[x] # "loop"
  BY <1>a, <1>1, <1>3 DEF LockInv, Card!Idle
<1>7. WireInv'
  BY <1>a, <1>1, <1>6 DEF WireInv, Unanswered
<1>8. HandleInv'
  BY <1>a, <1>1, <1>2 DEF HandleInv
<1>9. Card!NoEventLost'
  BY <1>a, <1>1 DEF Card!NoEventLost, Card!Flag
<1>10. ASSUME NEW x \in contexts' PROVE Agree(x)'
  <2>1. x \in contexts /\ x # c /\ x \in Contexts
    BY <1>a, <1>1 DEF CardTypes
  <2>2. Opened(x)' = Opened(x)
    BY <1>1 DEF Opened
  <2>3. Kept(x)' = Kept(x)
    BY <1>2, <2>1 DEF Kept
  <2>4. Agree(x)
    BY <1>a, <2>1
  <2> QED BY <1>1, <1>6, <2>1, <2>2, <2>3, <2>4 DEF Agree
<1> QED BY <1>4, <1>5, <1>6, <1>7, <1>8, <1>9, <1>10 DEF CardInv

\* The receive loop takes up a request about a card.
LEMMA Uses ==
    ASSUME CardInv, NEW h \in Handles, NEW op \in {"disconnect", "begin", "end", "transmit"},
           Card!UseCard(op, h)
    PROVE  CardInv'
<1>a. CardTypes /\ LoopInv /\ LockInv /\ WireInv /\ HandleInv /\ (\A x \in contexts : Agree(x)) /\ Card!NoEventLost
  BY DEF CardInv
<1>1. /\ loop = Card!Idle /\ h \in DOMAIN cardCtx /\ cardCtx[h] \in contexts
      /\ loop' = [op |-> op, ctx |-> cardCtx[h], handle |-> h, at |-> "lock"]
      /\ UNCHANGED <<cardEpoch, tracked, contexts, cardCtx, lock, ops, wire, used, cards, owner, present,
                     counter, known, cancelled, skewed, foreign>>
  BY DEF Card!UseCard, Card!reader, Card!daemon
<1>2. /\ loop' \in LoopOp /\ loop'.op = op /\ loop'.ctx = cardCtx[h] /\ loop'.at = "lock"
      /\ loop'.handle = h /\ cardCtx[h] \in Contexts \cap used
  BY <1>a, <1>1 DEF CardTypes, LoopOp
<1>3. CardTypes'
  BY <1>a, <1>1, <1>2 DEF CardTypes
<1>4. LoopInv'
  BY <1>1, <1>2 DEF LoopInv
<1>5. LockInv' /\ \A x \in Contexts : lock[x] # "loop"
  BY <1>a, <1>1, <1>2 DEF LockInv, Card!Idle
<1>6. WireInv'
  BY <1>a, <1>1, <1>5 DEF WireInv, Unanswered
<1>7. HandleInv'
  BY <1>a, <1>1 DEF HandleInv
<1>8. Card!NoEventLost'
  BY <1>a, <1>1 DEF Card!NoEventLost, Card!Flag
<1>9. \A x \in contexts' : Agree(x)'
  BY <1>a, <1>1, <1>5 DEF CardTypes, Agree, Opened, Kept
<1> QED BY <1>3, <1>4, <1>5, <1>6, <1>7, <1>8, <1>9 DEF CardInv

\* The daemon does what the receive loop tells it: cards of the context are closed, or
\* one card is.
LEMMA TellsDaemon ==
    ASSUME NEW c, c = loop.ctx, CardTypes, LoopInv, loop \in LoopOp, loop.op # "begin",
           Card!Told(loop.op, loop.ctx, loop.handle),
           loop.op = "disconnect" /\ loop.handle \in DOMAIN cards => cards[loop.handle] = loop.ctx
    PROVE  /\ DOMAIN cards' \subseteq DOMAIN cards /\ \A h \in DOMAIN cards' : cards'[h] = cards[h]
           /\ \A x : x # c => Opened(x)' = Opened(x)
           /\ loop.op \in {"end", "transmit"} => Opened(c)' = Opened(c)
           /\ loop.op = "disconnect" => Opened(c)' = Opened(c) \ {loop.handle}
<1>1. CASE loop.op = "release"
  <2>1. cards' = Card!Without(cards, {x \in DOMAIN cards : cards[x] = loop.ctx})
    BY <1>1 DEF Card!Told
  <2>2. /\ DOMAIN cards' = {h \in DOMAIN cards : cards[h] # loop.ctx}
        /\ \A h \in DOMAIN cards' : cards'[h] = cards[h]
    BY <2>1 DEF Card!Without
  <2>3. \A x : x # c => Opened(x)' = Opened(x)
    BY <2>2 DEF Opened
  <2> QED BY <1>1, <2>2, <2>3
<1>2. CASE loop.op = "disconnect"
  <2>1. cards' = Card!Without(cards, {loop.handle})
    BY <1>2 DEF Card!Told
  <2>2. /\ DOMAIN cards' = DOMAIN cards \ {loop.handle}
        /\ \A h \in DOMAIN cards' : cards'[h] = cards[h]
    BY <2>1 DEF Card!Without
  <2>3. \A x : x # c => Opened(x)' = Opened(x)
    BY <1>2, <2>2 DEF Opened
  <2>4. \A h : h \in Opened(c)' <=> h \in Opened(c) /\ h # loop.handle
    BY <2>2 DEF Opened
  <2>5. Opened(c)' = Opened(c) \ {loop.handle}
    BY <2>4
  <2> QED BY <1>2, <2>2, <2>3, <2>5
<1>3. CASE loop.op \in {"end", "transmit"}
  <2>1. cards' = cards
    BY <1>3 DEF Card!Told
  <2>2. \A x : Opened(x)' = Opened(x)
    BY <2>1 DEF Opened
  <2> QED BY <1>3, <2>1, <2>2
<1> QED BY <1>1, <1>2, <1>3 DEF LoopOp

\* The receive loop takes the lock of the context and sends its request.
LEMMA Locks == CardInv /\ Card!LoopLocks => CardInv'
<1> SUFFICES ASSUME CardInv, Card!LoopLocks PROVE CardInv'
  OBVIOUS
<1>a. CardTypes /\ LoopInv /\ LockInv /\ WireInv /\ HandleInv /\ (\A x \in contexts : Agree(x)) /\ Card!NoEventLost
  BY DEF CardInv
<1>c. PICK c : c = loop.ctx
  OBVIOUS
<1>1. /\ loop.at = "lock" /\ lock[c] = "free"
      /\ loop' = [loop EXCEPT !.at = "sent"]
      /\ lock' = [lock EXCEPT ![c] = "loop"]
      /\ UNCHANGED <<cardEpoch, tracked, contexts, cardCtx, ops, used, present, counter, known, cancelled,
                     skewed, foreign>>
  BY <1>c DEF Card!LoopLocks, Card!LockFree, Card!Ask, Card!reader
<1>2. IF loop.op = "begin" THEN UNCHANGED <<wire, cards>>
      ELSE wire' = [wire EXCEPT ![c] = Append(wire[c], "loop")] /\ Card!Told(loop.op, loop.ctx, loop.handle)
  BY <1>c DEF Card!LoopLocks, Card!Ask
<1>3. loop \in LoopOp /\ c \in Contexts
  BY <1>c, <1>a, <1>1 DEF CardTypes, Card!Idle, LoopOp
<1>4. /\ loop' \in LoopOp /\ loop'.op = loop.op /\ loop'.ctx = c /\ loop'.handle = loop.handle
      /\ loop'.at = "sent"
  BY <1>c, <1>1, <1>3 DEF LoopOp
<1>5. loop.op = "disconnect" /\ loop.handle \in DOMAIN cards => cards[loop.handle] = loop.ctx
  <2> SUFFICES ASSUME loop.op = "disconnect" PROVE loop.handle \in Opened(c)
    BY <1>c DEF Opened
  <2>1. c \in contexts /\ loop.handle \in Kept(c)
    BY <1>c, <1>a DEF LoopInv, Kept
  <2> QED BY <1>a, <1>1, <2>1 DEF Agree
<1>6. /\ DOMAIN cards' \subseteq DOMAIN cards /\ \A h \in DOMAIN cards' : cards'[h] = cards[h]
      /\ \A x : x # c => Opened(x)' = Opened(x)
      /\ loop.op \in {"begin", "end", "transmit"} => Opened(c)' = Opened(c)
      /\ loop.op = "disconnect" => Opened(c)' = Opened(c) \ {loop.handle}
  <2>1. CASE loop.op = "begin"
    <3>1. cards' = cards
      BY <1>2, <2>1
    <3>2. \A x : Opened(x)' = Opened(x)
      BY <3>1 DEF Opened
    <3> QED BY <2>1, <3>1, <3>2
  <2>2. CASE loop.op # "begin"
    BY <1>a, <1>2, <1>3, <1>5, <1>c, <2>2, TellsDaemon
  <2> QED BY <2>1, <2>2
<1>7. CardTypes'
  <2>1. wire' \in [Contexts -> Seq({"loop", "cancelled"} \cup Ops)]
    <3>1. wire[c] \in Seq({"loop", "cancelled"} \cup Ops)
      BY <1>a, <1>3 DEF CardTypes
    <3>2. Append(wire[c], "loop") \in Seq({"loop", "cancelled"} \cup Ops)
      BY <3>1
    <3> QED BY <1>a, <1>2, <3>2 DEF CardTypes
  <2> QED BY <1>a, <1>1, <1>4, <1>6, <2>1 DEF CardTypes
<1>8. LoopInv'
  BY <1>a, <1>1, <1>3, <1>4, <1>c DEF LoopInv, Card!Idle
<1>9. LockInv'
  <2>1. \A x \in Contexts : lock'[x] = IF x = c THEN "loop" ELSE lock[x]
    BY <1>a, <1>1 DEF CardTypes
  <2>2. ASSUME NEW x \in Contexts
        PROVE  lock'[x] = "loop" <=> loop'.ctx = x /\ loop'.at \in {"sent", "granted"}
    BY <1>c, <1>a, <1>1, <1>4, <2>1 DEF LockInv
  <2>3. ASSUME NEW x \in Contexts, NEW o \in Ops
        PROVE  lock'[x] = o <=> o \in DOMAIN ops' /\ ops'[o].at = "sent" /\ ops'[o].ctx = x
    BY <1>a, <1>1, <1>3, <2>1, CardConstants DEF LockInv
  <2> QED BY <2>2, <2>3 DEF LockInv
<1>10. WireInv'
  <2>1. \A x \in Contexts : lock'[x] = IF x = c THEN "loop" ELSE lock[x]
    BY <1>a, <1>1 DEF CardTypes
  <2>2. ASSUME NEW x \in Contexts \ cancelled, x # c
        PROVE  wire'[x] = IF lock'[x] = "free" \/ Unanswered(x)' THEN <<>> ELSE <<lock'[x]>>
    <3>1. wire'[x] = wire[x] /\ lock'[x] = lock[x] /\ lock[x] # "loop"
      BY <1>c, <1>a, <1>1, <1>2, <2>1, <2>2 DEF CardTypes, LockInv
    <3> QED BY <1>a, <3>1 DEF WireInv, Unanswered
  <2>3. ASSUME c \notin cancelled
        PROVE  wire'[c] = IF lock'[c] = "free" \/ Unanswered(c)' THEN <<>> ELSE <<lock'[c]>>
    <3>1. wire[c] = <<>>
      BY <1>c, <1>a, <1>1, <1>3, <2>3 DEF WireInv
    <3>2. CASE loop.op = "begin"
      <4>1. wire'[c] = <<>>
        BY <1>2, <3>1, <3>2
      <4>2. Unanswered(c)'
        BY <1>3, <1>4, <2>1, <3>2 DEF Unanswered
      <4> QED BY <4>1, <4>2
    <3>3. CASE loop.op # "begin"
      <4>1. wire'[c] = Append(wire[c], "loop")
        BY <1>a, <1>2, <1>3, <3>3 DEF CardTypes
      <4>2. wire'[c] = <<"loop">>
        BY <3>1, <4>1
      <4> QED BY <1>3, <1>4, <2>1, <3>3, <4>2 DEF Unanswered
    <3> QED BY <3>2, <3>3
  <2>4. ASSUME NEW x \in Contexts \ cancelled
        PROVE  wire'[x] = IF lock'[x] = "free" \/ Unanswered(x)' THEN <<>> ELSE <<lock'[x]>>
    <3>1. CASE x = c
      BY <2>3, <3>1
    <3>2. CASE x # c
      BY <2>2, <3>2
    <3> QED BY <3>1, <3>2
  <2> QED BY <1>a, <1>1, <2>4 DEF WireInv
<1>11. HandleInv' /\ Card!NoEventLost'
  BY <1>a, <1>1 DEF HandleInv, Card!NoEventLost, Card!Flag
<1>12. ASSUME NEW x \in contexts' PROVE Agree(x)'
  <2>1. x \in contexts /\ x \in Contexts /\ Agree(x)
    BY <1>a, <1>1, <1>12 DEF CardTypes
  <2>2. Kept(x)' = Kept(x)
    BY <1>1 DEF Kept
  <2>3. CASE x # c
    <3>1. lock'[x] = lock[x] /\ lock[x] # "loop" /\ Opened(x)' = Opened(x)
      BY <1>c, <1>a, <1>1, <1>6, <2>1, <2>3 DEF CardTypes, LockInv
    <3> QED BY <1>1, <2>1, <2>2, <3>1 DEF Agree
  <2>4. CASE x = c
    <3>1. lock'[x] = "loop" /\ lock[x] = "free" /\ loop.op # "release"
      BY <1>c, <1>a, <1>1, <2>1, <2>4 DEF CardTypes, LoopInv
    <3>2. Opened(x) = Kept(x)
      BY <2>1, <3>1 DEF Agree
    <3>3. Opened(x)' = IF loop'.op = "disconnect" THEN Kept(x)' \ {loop'.handle} ELSE Kept(x)'
      <4>1. loop.op \in {"disconnect", "begin", "end", "transmit"}
        BY <1>3, <3>1 DEF LoopOp
      <4>2. CASE loop.op = "disconnect"
        BY <1>4, <1>6, <2>2, <2>4, <3>2, <4>2
      <4>3. CASE loop.op # "disconnect"
        BY <1>4, <1>6, <2>2, <2>4, <3>2, <4>1, <4>3
      <4> QED BY <4>2, <4>3
    <3> QED BY <3>1, <3>3, CardConstants DEF Agree
  <2> QED BY <2>3, <2>4
<1> QED BY <1>7, <1>8, <1>9, <1>10, <1>11, <1>12 DEF CardInv

\* The daemon grants the transaction.
LEMMA Grants == CardInv /\ Card!Grant => CardInv'
<1> SUFFICES ASSUME CardInv, Card!Grant PROVE CardInv'
  OBVIOUS
<1>a. CardTypes /\ LoopInv /\ LockInv /\ WireInv /\ HandleInv /\ (\A x \in contexts : Agree(x)) /\ Card!NoEventLost
  BY DEF CardInv
<1>c. PICK c : c = loop.ctx
  OBVIOUS
<1>1. /\ loop.at = "sent" /\ loop.op = "begin"
      /\ wire' = [wire EXCEPT ![c] = Append(wire[c], "loop")]
      /\ loop' = [loop EXCEPT !.at = "granted"]
      /\ UNCHANGED <<cardEpoch, tracked, contexts, cardCtx, lock, ops, used, cards, present, counter, known,
                     cancelled, skewed, foreign>>
  BY <1>c DEF Card!Grant, Card!Told, Card!reader
<1>2. loop \in LoopOp /\ c \in Contexts
  BY <1>c, <1>a, <1>1 DEF CardTypes, Card!Idle, LoopOp
<1>3. /\ loop' \in LoopOp /\ loop'.op = "begin" /\ loop'.ctx = c /\ loop'.handle = loop.handle
      /\ loop'.at = "granted"
  BY <1>c, <1>1, <1>2 DEF LoopOp
<1>4. lock[c] = "loop"
  BY <1>c, <1>a, <1>1, <1>2 DEF LockInv
<1>5. CardTypes'
  <2>1. wire' \in [Contexts -> Seq({"loop", "cancelled"} \cup Ops)]
    <3>1. wire[c] \in Seq({"loop", "cancelled"} \cup Ops)
      BY <1>a, <1>2 DEF CardTypes
    <3>2. Append(wire[c], "loop") \in Seq({"loop", "cancelled"} \cup Ops)
      BY <3>1
    <3> QED BY <1>a, <1>1, <3>2 DEF CardTypes
  <2> QED BY <1>a, <1>1, <1>3, <2>1 DEF CardTypes
<1>6. LoopInv'
  BY <1>a, <1>1, <1>2, <1>3, <1>c DEF LoopInv, Card!Idle
<1>7. LockInv'
  BY <1>c, <1>a, <1>1, <1>3 DEF LockInv
<1>8. WireInv'
  <2>1. ASSUME NEW x \in Contexts \ cancelled, x # c
        PROVE  wire'[x] = IF lock'[x] = "free" \/ Unanswered(x)' THEN <<>> ELSE <<lock'[x]>>
    <3>1. wire'[x] = wire[x] /\ lock'[x] = lock[x] /\ lock[x] # "loop"
      BY <1>c, <1>a, <1>1, <2>1 DEF CardTypes, LockInv
    <3> QED BY <1>a, <3>1 DEF WireInv, Unanswered
  <2>2. ASSUME c \notin cancelled
        PROVE  wire'[c] = IF lock'[c] = "free" \/ Unanswered(c)' THEN <<>> ELSE <<lock'[c]>>
    <3>1. wire[c] = <<>>
      BY <1>a, <1>1, <1>2, <1>4, <2>2 DEF WireInv, Unanswered
    <3>2. wire'[c] = Append(wire[c], "loop")
      BY <1>a, <1>1, <1>2 DEF CardTypes
    <3>3. wire'[c] = <<"loop">>
      BY <3>1, <3>2
    <3> QED BY <1>1, <1>3, <1>4, <3>3 DEF Unanswered
  <2>3. ASSUME NEW x \in Contexts \ cancelled
        PROVE  wire'[x] = IF lock'[x] = "free" \/ Unanswered(x)' THEN <<>> ELSE <<lock'[x]>>
    <3>1. CASE x = c
      BY <2>2, <3>1
    <3>2. CASE x # c
      BY <2>1, <3>2
    <3> QED BY <3>1, <3>2
  <2> QED BY <1>a, <1>1, <2>3 DEF WireInv
<1>9. HandleInv' /\ Card!NoEventLost'
  BY <1>a, <1>1 DEF HandleInv, Card!NoEventLost, Card!Flag
<1>10. ASSUME NEW x \in contexts' PROVE Agree(x)'
  BY <1>a, <1>1, <1>3, <1>10 DEF Agree, Opened, Kept
<1> QED BY <1>5, <1>6, <1>7, <1>8, <1>9, <1>10 DEF CardInv

\* Whoever holds the lock of a context reads what comes on its connection.
LEMMA ReadsAnswer ==
    ASSUME CardTypes, WireInv, NEW c \in Contexts, NEW who \in {"loop"} \cup Ops, lock[c] = who,
           ~Unanswered(c), Card!Reads(c, who), cancelled' = cancelled
    PROVE  /\ wire' \in [Contexts -> Seq({"loop", "cancelled"} \cup Ops)]
           /\ skewed' \subseteq cancelled
           /\ \A x \in Contexts : lock'[x] = IF x = c THEN "free" ELSE lock[x]
           /\ lock' \in [Contexts -> {"free", "loop"} \cup Ops]
           /\ \A x \in Contexts \ cancelled : wire'[x] = IF x = c THEN <<>> ELSE wire[x]
<1>1. /\ wire[c] # <<>> /\ skewed' = IF Head(wire[c]) = who THEN skewed ELSE skewed \cup {c}
      /\ wire' = [wire EXCEPT ![c] = Tail(wire[c])] /\ lock' = [lock EXCEPT ![c] = "free"]
  BY DEF Card!Reads
<1>2. wire[c] \in Seq({"loop", "cancelled"} \cup Ops)
  BY DEF CardTypes
<1>3. Tail(wire[c]) \in Seq({"loop", "cancelled"} \cup Ops)
  BY <1>1, <1>2
<1>4. wire' \in [Contexts -> Seq({"loop", "cancelled"} \cup Ops)]
  BY <1>1, <1>3 DEF CardTypes
<1>5. c \notin cancelled => wire[c] = <<who>>
  BY CardConstants DEF WireInv
<1>6. c \notin cancelled => Head(wire[c]) = who /\ Tail(wire[c]) = <<>>
  <2>1. Head(<<who>>) = who /\ Tail(<<who>>) = <<>>
    OBVIOUS
  <2> QED BY <1>5, <2>1
<1>7. skewed' \subseteq cancelled
  BY <1>1, <1>6 DEF WireInv
<1>8. \A x \in Contexts : lock'[x] = IF x = c THEN "free" ELSE lock[x]
  BY <1>1 DEF CardTypes
<1>9. lock' \in [Contexts -> {"free", "loop"} \cup Ops]
  BY <1>1 DEF CardTypes
<1>10. \A x \in Contexts \ cancelled : wire'[x] = IF x = c THEN <<>> ELSE wire[x]
  BY <1>1, <1>6 DEF CardTypes
<1> QED BY <1>4, <1>7, <1>8, <1>9, <1>10

\* The receive loop reads its answer.
LEMMA LoopReadsAnswer == CardInv /\ Card!LoopReads => CardInv'
<1> SUFFICES ASSUME CardInv, Card!LoopReads PROVE CardInv'
  OBVIOUS
<1>a. CardTypes /\ LoopInv /\ LockInv /\ WireInv /\ HandleInv /\ (\A x \in contexts : Agree(x)) /\ Card!NoEventLost
  BY DEF CardInv
<1>c. PICK c : c = loop.ctx
  OBVIOUS
<1>1. /\ loop.at = IF loop.op = "begin" THEN "granted" ELSE "sent"
      /\ Card!Reads(c, "loop")
      /\ cardCtx' = IF loop.op = "disconnect" THEN Card!Without(cardCtx, {loop.handle}) ELSE cardCtx
      /\ tracked' \subseteq tracked /\ loop' = Card!Idle
      /\ UNCHANGED <<cardEpoch, contexts, ops, used, cards, present, counter, known, cancelled, foreign>>
  BY <1>c DEF Card!LoopReads, Card!Forgets, Card!reader, Card!daemon
<1>2. loop \in LoopOp /\ c \in Contexts /\ loop.at \in {"sent", "granted"}
  BY <1>c, <1>a, <1>1 DEF CardTypes, Card!Idle, LoopOp
<1>3. lock[c] = "loop" /\ ~Unanswered(c)
  BY <1>c, <1>a, <1>1, <1>2 DEF LockInv, Unanswered
<1>4. /\ wire' \in [Contexts -> Seq({"loop", "cancelled"} \cup Ops)]
      /\ skewed' \subseteq cancelled
      /\ \A x \in Contexts : lock'[x] = IF x = c THEN "free" ELSE lock[x]
      /\ lock' \in [Contexts -> {"free", "loop"} \cup Ops]
      /\ \A x \in Contexts \ cancelled : wire'[x] = IF x = c THEN <<>> ELSE wire[x]
  BY <1>a, <1>1, <1>2, <1>3, ReadsAnswer
<1>5. /\ DOMAIN cardCtx' = IF loop.op = "disconnect" THEN DOMAIN cardCtx \ {loop.handle} ELSE DOMAIN cardCtx
      /\ \A h \in DOMAIN cardCtx' : cardCtx'[h] = cardCtx[h]
  BY <1>1 DEF Card!Without
<1>6. \A x \in Contexts : x # c => lock[x] # "loop"
  BY <1>c, <1>a DEF LockInv
<1>7. CardTypes'
  BY <1>a, <1>1, <1>4, <1>5 DEF CardTypes
<1>8. LoopInv'
  BY <1>1 DEF LoopInv, Card!Idle
<1>9. LockInv'
  <2>1. ASSUME NEW x \in Contexts
        PROVE  lock'[x] = "loop" <=> loop'.ctx = x /\ loop'.at \in {"sent", "granted"}
    BY <1>1, <1>4, <1>6 DEF Card!Idle
  <2>2. ASSUME NEW x \in Contexts, NEW o \in Ops
        PROVE  lock'[x] = o <=> o \in DOMAIN ops' /\ ops'[o].at = "sent" /\ ops'[o].ctx = x
    BY <1>a, <1>1, <1>3, <1>4, CardConstants DEF LockInv
  <2> QED BY <2>1, <2>2 DEF LockInv
<1>10. WireInv'
  <2>1. ASSUME NEW x \in Contexts \ cancelled
        PROVE  wire'[x] = IF lock'[x] = "free" \/ Unanswered(x)' THEN <<>> ELSE <<lock'[x]>>
    <3>1. CASE x = c
      BY <1>4, <3>1
    <3>2. CASE x # c
      BY <1>a, <1>4, <1>6, <3>2 DEF WireInv, Unanswered
    <3> QED BY <3>1, <3>2
  <2> QED BY <1>1, <1>4, <2>1 DEF WireInv
<1>11. HandleInv'
  BY <1>a, <1>1, <1>5 DEF HandleInv
<1>12. Card!NoEventLost'
  BY <1>a, <1>1 DEF Card!NoEventLost, Card!Flag
<1>13. ASSUME NEW x \in contexts' PROVE Agree(x)'
  <2>1. x \in contexts /\ x \in Contexts /\ Agree(x) /\ Opened(x)' = Opened(x)
    BY <1>a, <1>1, <1>13 DEF CardTypes, Opened
  <2>2. CASE x # c
    <3>1. lock'[x] = lock[x] /\ lock[x] # "loop"
      BY <1>4, <1>6, <2>1, <2>2
    <3>2. loop.op = "disconnect" => loop.handle \in DOMAIN cardCtx /\ cardCtx[loop.handle] = c
      BY <1>c, <1>a DEF LoopInv
    <3>3. Kept(x)' = Kept(x)
      BY <1>5, <2>2, <3>2 DEF Kept
    <3> QED BY <1>1, <2>1, <3>1, <3>3 DEF Agree
  <2>3. CASE x = c
    <3>1. lock'[x] = "free" /\ lock[x] = "loop"
      BY <1>3, <1>4, <2>1, <2>3
    <3>2. Kept(x)' = IF loop.op = "disconnect" THEN Kept(x) \ {loop.handle} ELSE Kept(x)
      BY <1>5 DEF Kept
    <3>3. Opened(x)' = Kept(x)'
      BY <2>1, <3>1, <3>2 DEF Agree
    <3> QED BY <3>1, <3>3, CardConstants DEF Agree
  <2> QED BY <2>2, <2>3
<1> QED BY <1>7, <1>8, <1>9, <1>10, <1>11, <1>12, <1>13 DEF CardInv

\* A goroutine that holds no lock ends.
LEMMA OpEnds ==
    ASSUME CardInv, NEW o \in DOMAIN ops, ops[o].at # "sent", Card!Answer(o), known' \in Seen,
           UNCHANGED <<cardEpoch, tracked, contexts, cardCtx, lock, loop, wire, used, cards, present, counter,
                       cancelled, skewed>>
    PROVE  CardInv'
<1>a. CardTypes /\ LoopInv /\ LockInv /\ WireInv /\ HandleInv /\ (\A x \in contexts : Agree(x)) /\ Card!NoEventLost
  BY DEF CardInv
<1>1. /\ DOMAIN ops' = DOMAIN ops \ {o} /\ ops' = [x \in DOMAIN ops' |-> ops'[x]]
      /\ \A x \in DOMAIN ops' : ops'[x] = ops[x]
  BY DEF Card!Answer, Card!Without
<1>2. CardTypes'
  BY <1>a, <1>1 DEF CardTypes
<1>3. LoopInv'
  BY <1>a DEF LoopInv
<1>4. LockInv'
  <2>1. ASSUME NEW x \in Contexts, NEW p \in Ops
        PROVE  lock'[x] = p <=> p \in DOMAIN ops' /\ ops'[p].at = "sent" /\ ops'[p].ctx = x
    BY <1>a, <1>1 DEF LockInv
  <2> QED BY <1>a, <2>1 DEF LockInv
<1>5. WireInv'
  BY <1>a DEF WireInv, Unanswered
<1>6. HandleInv'
  BY <1>a, <1>1 DEF HandleInv
<1>7. Card!NoEventLost'
  BY <1>a, <1>1 DEF Card!NoEventLost, Card!Flag
<1>8. ASSUME NEW x \in contexts' PROVE Agree(x)'
  <2>1. x \in Contexts /\ Agree(x)
    BY <1>a, <1>8 DEF CardTypes
  <2>2. Opened(x)' = Opened(x) /\ Kept(x)' = Kept(x) /\ lock'[x] = lock[x]
    BY DEF Opened, Kept
  <2>3. \A p \in Ops : lock[x] = p => ops'[p] = ops[p]
    BY <1>a, <1>1, <2>1 DEF LockInv
  <2> QED BY <2>1, <2>2, <2>3 DEF Agree
<1> QED BY <1>2, <1>3, <1>4, <1>5, <1>6, <1>7, <1>8 DEF CardInv

\* A goroutine that holds no lock goes on without taking one.
LEMMA OpGoesOn ==
    ASSUME CardInv, ops' = [o \in DOMAIN ops' |-> ops'[o]],
           \A o \in DOMAIN ops' : /\ o \in Ops /\ ops'[o] \in CardOp /\ ops'[o].ctx \in used
                                  /\ \/ o \in DOMAIN ops /\ ops'[o] = ops[o]
                                     \/ ops'[o].at # "sent" /\ (o \in DOMAIN ops => ops[o].at # "sent"),
           DOMAIN ops \subseteq DOMAIN ops', Card!NoEventLost', counter' \in Nat, present' \in BOOLEAN,
           UNCHANGED <<cardEpoch, tracked, contexts, cardCtx, lock, loop, wire, used, cards, known,
                       cancelled, skewed>>
    PROVE  CardInv'
<1>a. CardTypes /\ LoopInv /\ LockInv /\ WireInv /\ HandleInv /\ (\A x \in contexts : Agree(x))
  BY DEF CardInv
<1>1. CardTypes'
  BY <1>a DEF CardTypes
<1>2. LoopInv'
  BY <1>a DEF LoopInv
<1>3. \A o \in Ops : /\ (o \in DOMAIN ops' /\ ops'[o].at = "sent") <=> (o \in DOMAIN ops /\ ops[o].at = "sent")
                     /\ o \in DOMAIN ops /\ ops[o].at = "sent" => ops'[o] = ops[o]
  BY <1>a DEF CardTypes
<1>4. LockInv'
  <2>1. ASSUME NEW x \in Contexts, NEW p \in Ops
        PROVE  lock'[x] = p <=> p \in DOMAIN ops' /\ ops'[p].at = "sent" /\ ops'[p].ctx = x
    BY <1>a, <1>3 DEF LockInv
  <2> QED BY <1>a, <2>1 DEF LockInv
<1>5. WireInv'
  BY <1>a DEF WireInv, Unanswered
<1>6. HandleInv'
  <2>1. \A o \in DOMAIN ops' : ops'[o].at = "sent" =>
           o \in DOMAIN ops /\ ops[o].at = "sent" /\ ops'[o] = ops[o]
    BY <1>3
  <2> QED BY <1>a, <2>1 DEF HandleInv
<1>7. ASSUME NEW x \in contexts' PROVE Agree(x)'
  <2>1. x \in Contexts /\ Agree(x)
    BY <1>a, <1>7 DEF CardTypes
  <2>2. Opened(x)' = Opened(x) /\ Kept(x)' = Kept(x) /\ lock'[x] = lock[x]
    BY DEF Opened, Kept
  <2>3. \A p \in Ops : lock[x] = p => ops'[p] = ops[p]
    BY <1>a, <1>3, <2>1 DEF LockInv
  <2> QED BY <2>1, <2>2, <2>3 DEF Agree
<1> QED BY <1>1, <1>2, <1>4, <1>5, <1>6, <1>7 DEF CardInv

\* handleConnect and handleGetStatusChange start a goroutine.
LEMMA Spawns ==
    ASSUME CardInv, NEW c \in Contexts, NEW kd \in {"connect", "wait"},
           NEW t \in {"none", "zero", "endless"}, Card!Spawn(kd, c, t)
    PROVE  CardInv'
<1>a. CardTypes /\ Card!NoEventLost
  BY DEF CardInv
<1>1. /\ c \in tracked /\ Ops \ DOMAIN ops # {}
      /\ UNCHANGED <<cardEpoch, tracked, contexts, cardCtx, lock, loop, wire, used, cards, present, counter,
                     known, cancelled, skewed>>
  BY DEF Card!Spawn, Card!reader, Card!daemon
<1>2. PICK o \in Ops \ DOMAIN ops : ops' = Card!With(ops, o,
                   [kind |-> kd, ctx |-> c, epoch |-> cardEpoch, at |-> "start", timeout |-> t,
                    known |-> known, handle |-> 0])
  <2> DEFINE o == CHOOSE o \in Ops : o \notin DOMAIN ops
  <2>1. o \in Ops /\ o \notin DOMAIN ops
    BY <1>1
  <2> QED BY <2>1 DEF Card!Spawn
<1>3. /\ DOMAIN ops' = DOMAIN ops \cup {o} /\ ops' = [x \in DOMAIN ops' |-> ops'[x]]
      /\ \A x \in DOMAIN ops : ops'[x] = ops[x]
      /\ ops'[o] = [kind |-> kd, ctx |-> c, epoch |-> cardEpoch, at |-> "start", timeout |-> t,
                    known |-> known, handle |-> 0]
  BY <1>2 DEF Card!With
<1>4. ops'[o] \in CardOp /\ ops'[o].ctx \in used /\ ops'[o].at = "start"
  BY <1>a, <1>1, <1>3 DEF CardTypes, CardOp
<1>5. Card!NoEventLost'
  BY <1>a, <1>1, <1>3, <1>4 DEF Card!NoEventLost, Card!Flag
<1> QED BY <1>a, <1>1, <1>2, <1>3, <1>4, <1>5, OpGoesOn DEF CardTypes

\* The user moves the card: nobody waits any more.
LEMMA Moves == CardInv /\ Card!CardMoves => CardInv'
<1> SUFFICES ASSUME CardInv, Card!CardMoves PROVE CardInv'
  OBVIOUS
<1>a. CardTypes
  BY DEF CardInv
<1>1. /\ counter' = counter + 1 /\ present' = ~present
      /\ ops' = [o \in DOMAIN ops |-> IF ops[o].at = "waiting" THEN [ops[o] EXCEPT !.at = "notified"] ELSE ops[o]]
      /\ UNCHANGED <<cardEpoch, tracked, contexts, cardCtx, lock, loop, wire, used, cards, known, cancelled, skewed>>
  BY DEF Card!CardMoves, Card!daemon
<1>2. DOMAIN ops' = DOMAIN ops /\ ops' = [x \in DOMAIN ops' |-> ops'[x]]
  BY <1>1
<1>3. ASSUME NEW o \in DOMAIN ops
      PROVE  /\ ops'[o] \in CardOp /\ ops'[o].ctx = ops[o].ctx
             /\ IF ops[o].at = "waiting" THEN ops'[o].at = "notified" ELSE ops'[o] = ops[o]
  <2>1. ops[o] \in CardOp
    BY <1>a DEF CardTypes
  <2>2. ops'[o] = IF ops[o].at = "waiting" THEN [ops[o] EXCEPT !.at = "notified"] ELSE ops[o]
    BY <1>1
  <2> QED BY <2>1, <2>2 DEF CardOp
<1>4. Card!NoEventLost'
  BY <1>2, <1>3 DEF Card!NoEventLost
<1>5. counter' \in Nat /\ present' \in BOOLEAN
  BY <1>a, <1>1 DEF CardTypes
<1> QED BY <1>a, <1>1, <1>2, <1>3, <1>4, <1>5, OpGoesOn DEF CardTypes

\* GetStatusChange looks at the reader and is told, or waits.
LEMMA WaitsStart == ASSUME CardInv, NEW o \in DOMAIN ops, Card!WaitStarts(o) PROVE CardInv'
<1>a. CardTypes /\ Card!NoEventLost
  BY DEF CardInv
<1>1. /\ ops[o].at = "start"
      /\ UNCHANGED <<cardEpoch, tracked, contexts, cardCtx, loop, wire, used, cards, present, counter,
                     cancelled, skewed>>
  BY DEF Card!WaitStarts, Card!daemon
<1>2. \/ Card!Answer(o) /\ known' \in {known, Card!Reported} /\ UNCHANGED lock
      \/ /\ ~Card!Changed(ops[o].known) /\ UNCHANGED <<lock, known>>
         /\ ops' = [ops EXCEPT ![o].at = "waiting"]
  BY DEF Card!WaitStarts, Card!WaitLocks
<1>3. CASE Card!Answer(o) /\ known' \in {known, Card!Reported} /\ UNCHANGED lock
  <2>1. known' \in Seen
    BY <1>a, <1>3, ReportedSeen DEF CardTypes
  <2> QED BY <1>1, <1>3, <2>1, OpEnds
<1>4. CASE /\ ~Card!Changed(ops[o].known) /\ UNCHANGED <<lock, known>>
           /\ ops' = [ops EXCEPT ![o].at = "waiting"]
  <2>1. /\ DOMAIN ops' = DOMAIN ops /\ ops' = [x \in DOMAIN ops' |-> ops'[x]]
        /\ \A x \in DOMAIN ops : x # o => ops'[x] = ops[x]
        /\ ops'[o] = [ops[o] EXCEPT !.at = "waiting"]
    BY <1>4, <1>a DEF CardTypes
  <2>2. ops[o] \in CardOp /\ ops[o].ctx \in used
    BY <1>a DEF CardTypes
  <2>3. /\ ops'[o] \in CardOp /\ ops'[o].ctx = ops[o].ctx /\ ops'[o].at = "waiting"
        /\ ops'[o].known = ops[o].known
    BY <2>1, <2>2 DEF CardOp
  <2>4. ops[o].known.flag = Card!Flag /\ ops[o].known.counter \in {0, counter}
    BY <1>4 DEF Card!Changed, Card!CounterDiffers
  <2>5. Card!NoEventLost'
    <3> SUFFICES ASSUME NEW x \in DOMAIN ops', ops'[x].at = "waiting"
                 PROVE  ops'[x].known.flag = Card!Flag /\ ops'[x].known.counter \in {0, counter}
      BY <1>1 DEF Card!NoEventLost, Card!Flag
    <3> QED BY <1>a, <2>1, <2>3, <2>4 DEF Card!NoEventLost
  <2>6. counter' \in Nat /\ present' \in BOOLEAN
    BY <1>a, <1>1 DEF CardTypes
  <2> QED BY <1>1, <1>4, <1>a, <2>1, <2>2, <2>3, <2>5, <2>6, OpGoesOn DEF CardTypes
<1> QED BY <1>2, <1>3, <1>4

\* The daemon has told it of an event.
LEMMA WaitsEnd == ASSUME CardInv, NEW o \in DOMAIN ops, Card!WaitEnds(o) PROVE CardInv'
<1>1. /\ ops[o].at = "notified" /\ Card!Answer(o) /\ known' \in {known, Card!Reported}
      /\ UNCHANGED <<cardEpoch, tracked, contexts, cardCtx, lock, loop, wire, used, cards, present, counter,
                     cancelled, skewed>>
  BY DEF Card!WaitEnds, Card!daemon
<1>2. known' \in Seen
  BY <1>1, ReportedSeen DEF CardInv, CardTypes
<1> QED BY <1>1, <1>2, OpEnds

\* A goroutine of Connect takes the lock of its context and asks for the card.
LEMMA ConnectLocksContext == ASSUME CardInv, NEW o \in DOMAIN ops, Card!ConnectLocks(o) PROVE CardInv'
<1>a. CardTypes /\ LoopInv /\ LockInv /\ WireInv /\ HandleInv /\ (\A x \in contexts : Agree(x)) /\ Card!NoEventLost
  BY DEF CardInv
<1>c. PICK c : c = ops[o].ctx
  OBVIOUS
<1>1. /\ ops[o].kind = "connect" /\ ops[o].at = "start"
      /\ UNCHANGED <<cardEpoch, tracked, contexts, cardCtx, loop, present, counter, known, cancelled, skewed>>
  BY DEF Card!ConnectLocks, Card!reader
<1>2. o \in Ops /\ ops[o] \in CardOp /\ c \in Contexts
  BY <1>a, <1>c DEF CardTypes, CardOp
<1>3. CASE c \notin contexts \/ Handles \subseteq used
  <2>1. Card!Answer(o) /\ UNCHANGED <<lock, wire, used, cards>>
    BY <1>3, <1>c DEF Card!ConnectLocks, Card!daemon
  <2>2. known' \in Seen
    BY <1>1, <1>a DEF CardTypes
  <2> QED BY <1>1, <2>1, <2>2, OpEnds
<1>4. CASE ~ (c \notin contexts \/ Handles \subseteq used)
  <2>h. PICK h : h = Card!Least(Handles \ used)
    OBVIOUS
  <2>1. /\ lock[c] = "free" /\ c \in contexts
        /\ lock' = [lock EXCEPT ![c] = o] /\ wire' = [wire EXCEPT ![c] = Append(wire[c], o)]
        /\ used' = used \cup {h} /\ cards' = Card!With(cards, h, c)
        /\ ops' = [ops EXCEPT ![o].at = "sent", ![o].handle = h]
    BY <1>4, <1>c, <2>h DEF Card!ConnectLocks, Card!Ask, Card!LockFree
  <2>2. h \in Handles \ used
    <3>1. Handles \ used \subseteq Nat /\ Handles \ used # {}
      BY <1>4, CardConstants
    <3> QED BY <3>1, <2>h, LeastNumber
  <2>3. /\ DOMAIN ops' = DOMAIN ops /\ ops' = [x \in DOMAIN ops' |-> ops'[x]]
        /\ \A x \in DOMAIN ops : x # o => ops'[x] = ops[x]
        /\ ops'[o] = [ops[o] EXCEPT !.at = "sent", !.handle = h]
    BY <2>1, <1>a DEF CardTypes
  <2>4. /\ ops'[o] \in CardOp /\ ops'[o].ctx = c /\ ops'[o].at = "sent" /\ ops'[o].kind = "connect"
        /\ ops'[o].handle = h
    BY <1>1, <1>2, <1>c, <2>2, <2>3 DEF CardOp
  <2>5. /\ DOMAIN cards' = DOMAIN cards \cup {h} /\ h \notin DOMAIN cards /\ h \notin DOMAIN cardCtx
        /\ cards'[h] = c /\ \A x \in DOMAIN cards : cards'[x] = cards[x]
    BY <1>a, <2>1, <2>2 DEF Card!With, CardTypes
  <2>6. c \in used
    BY <1>a, <1>c DEF CardTypes
  <2>7. \A x \in Contexts : lock'[x] = IF x = c THEN o ELSE lock[x]
    BY <1>a, <2>1 DEF CardTypes
  <2>8. CardTypes'
    <3>1. wire[c] \in Seq({"loop", "cancelled"} \cup Ops)
      BY <1>a, <1>2 DEF CardTypes
    <3>2. Append(wire[c], o) \in Seq({"loop", "cancelled"} \cup Ops)
      BY <1>2, <3>1
    <3>3. wire' \in [Contexts -> Seq({"loop", "cancelled"} \cup Ops)]
      BY <1>a, <2>1, <3>2 DEF CardTypes
    <3>4. lock' \in [Contexts -> {"free", "loop"} \cup Ops]
      BY <1>a, <1>2, <2>1 DEF CardTypes
    <3>5. \A x \in DOMAIN ops' : x \in Ops /\ ops'[x] \in CardOp /\ ops'[x].ctx \in used'
      BY <1>a, <2>1, <2>3, <2>4, <2>6 DEF CardTypes
    <3>6. \A x \in DOMAIN cards' : x \in used' \cap Handles /\ cards'[x] \in used'
      BY <1>a, <2>1, <2>2, <2>5, <2>6 DEF CardTypes
    <3> QED BY <1>1, <1>a, <2>1, <2>3, <3>3, <3>4, <3>5, <3>6 DEF CardTypes
  <2>9. LoopInv'
    BY <1>1, <1>a, <2>1 DEF LoopInv
  <2>10. LockInv'
    <3>1. ASSUME NEW x \in Contexts
          PROVE  lock'[x] = "loop" <=> loop'.ctx = x /\ loop'.at \in {"sent", "granted"}
      BY <1>1, <1>2, <1>a, <2>1, <2>7, CardConstants DEF LockInv
    <3>2. ASSUME NEW x \in Contexts, NEW p \in Ops
          PROVE  lock'[x] = p <=> p \in DOMAIN ops' /\ ops'[p].at = "sent" /\ ops'[p].ctx = x
      <4>1. CASE p = o
        <5>1. lock[x] # o
          BY <1>1, <1>2, <1>a DEF LockInv
        <5> QED BY <2>3, <2>4, <2>7, <4>1, <5>1
      <4>2. CASE p # o
        <5>1. lock'[x] = p <=> lock[x] = p
          BY <1>2, <2>1, <2>7, <4>2, CardConstants
        <5> QED BY <1>a, <2>3, <4>2, <5>1 DEF LockInv
      <4> QED BY <4>1, <4>2
    <3> QED BY <3>1, <3>2 DEF LockInv
  <2>11. WireInv'
    <3>1. ASSUME NEW x \in Contexts \ cancelled
          PROVE  wire'[x] = IF lock'[x] = "free" \/ Unanswered(x)' THEN <<>> ELSE <<lock'[x]>>
      <4>1. CASE x = c
        <5>1. wire[x] = <<>>
          BY <1>a, <2>1, <4>1 DEF WireInv
        <5>2. wire'[x] = Append(wire[x], o)
          BY <1>a, <2>1, <4>1 DEF CardTypes
        <5>3. wire'[x] = <<o>>
          BY <5>1, <5>2
        <5>4. lock'[x] = o /\ o # "free" /\ ~Unanswered(x)'
          BY <1>2, <2>7, <4>1, CardConstants DEF Unanswered
        <5> QED BY <5>3, <5>4
      <4>2. CASE x # c
        <5>1. wire'[x] = wire[x] /\ lock'[x] = lock[x]
          BY <1>a, <2>1, <2>7, <4>2 DEF CardTypes
        <5> QED BY <1>a, <1>1, <5>1 DEF WireInv, Unanswered
      <4> QED BY <4>1, <4>2
    <3> QED BY <1>1, <1>a, <3>1 DEF WireInv
  <2>12. HandleInv'
    <3>1. ASSUME NEW p \in DOMAIN ops', ops'[p].at = "sent"
          PROVE  ops'[p].kind = "connect" /\ ops'[p].handle \in (used' \cap Handles) \ DOMAIN cardCtx'
      BY <1>1, <1>a, <2>1, <2>2, <2>3, <2>4, <2>5, <3>1 DEF HandleInv
    <3>2. \A p \in DOMAIN ops : ops[p].at = "sent" => ops[p].handle # h
      BY <1>a, <2>2 DEF HandleInv
    <3>3. ASSUME NEW p \in DOMAIN ops', NEW q \in DOMAIN ops', ops'[p].at = "sent", ops'[q].at = "sent",
                 ops'[p].handle = ops'[q].handle
          PROVE  p = q
      <4>2. CASE p = o /\ q = o
        BY <4>2
      <4>3. CASE p # o /\ q # o
        <5>1. p \in DOMAIN ops /\ q \in DOMAIN ops /\ ops'[p] = ops[p] /\ ops'[q] = ops[q]
          BY <2>3, <4>3
        <5> QED BY <1>a, <3>3, <5>1 DEF HandleInv
      <4>4. CASE p = o /\ q # o
        <5>1. q \in DOMAIN ops /\ ops'[q] = ops[q] /\ ops'[p].handle = h
          BY <2>3, <2>4, <4>4
        <5> QED BY <3>2, <3>3, <5>1
      <4>5. CASE p # o /\ q = o
        <5>1. p \in DOMAIN ops /\ ops'[p] = ops[p] /\ ops'[q].handle = h
          BY <2>3, <2>4, <4>5
        <5> QED BY <3>2, <3>3, <5>1
      <4> QED BY <4>2, <4>3, <4>4, <4>5
    <3> QED BY <3>1, <3>3 DEF HandleInv
  <2>13. Card!NoEventLost'
    <3> SUFFICES ASSUME NEW x \in DOMAIN ops', ops'[x].at = "waiting"
                 PROVE  ops'[x].known.flag = Card!Flag /\ ops'[x].known.counter \in {0, counter}
      BY <1>1 DEF Card!NoEventLost, Card!Flag
    <3> QED BY <1>a, <2>3, <2>4 DEF Card!NoEventLost
  <2>14. ASSUME NEW x \in contexts' PROVE Agree(x)'
    <3>1. x \in contexts /\ x \in Contexts /\ Agree(x)
      BY <1>1, <1>a, <2>14 DEF CardTypes
    <3>2. Kept(x)' = Kept(x)
      BY <1>1 DEF Kept
    <3>3. CASE x # c
      <4>1. lock'[x] = lock[x] /\ lock[x] # o
        BY <1>1, <1>2, <1>a, <2>7, <3>1, <3>3 DEF LockInv
      <4>2. Opened(x)' = Opened(x)
        BY <2>5, <3>3 DEF Opened
      <4>3. \A p \in Ops : lock[x] = p => ops'[p] = ops[p]
        BY <1>a, <2>3, <3>1, <4>1 DEF LockInv
      <4> QED BY <1>1, <3>1, <3>2, <4>1, <4>2, <4>3 DEF Agree
    <3>4. CASE x = c
      <4>1. Opened(x) = Kept(x)
        BY <2>1, <3>1, <3>4 DEF Agree
      <4>2. Opened(x)' = Opened(x) \cup {h}
        BY <2>5, <3>4 DEF Opened
      <4>3. lock'[x] = o
        BY <2>7, <3>1, <3>4
      <4> QED BY <1>2, <2>4, <3>2, <4>1, <4>2, <4>3, CardConstants DEF Agree
    <3> QED BY <3>3, <3>4
  <2> QED BY <2>8, <2>9, <2>10, <2>11, <2>12, <2>13, <2>14 DEF CardInv
<1> QED BY <1>3, <1>4

\* It reads the handle, and ends.
LEMMA ConnectReadsHandle == ASSUME CardInv, NEW o \in DOMAIN ops, Card!ConnectReads(o) PROVE CardInv'
<1>a. CardTypes /\ LoopInv /\ LockInv /\ WireInv /\ HandleInv /\ (\A x \in contexts : Agree(x)) /\ Card!NoEventLost
  BY DEF CardInv
<1>c. PICK c, h : c = ops[o].ctx /\ h = ops[o].handle
  OBVIOUS
<1>1. /\ ops[o].at = "sent" /\ Card!Reads(c, o) /\ Card!Answer(o)
      /\ cardCtx' = Card!With(cardCtx, h, c)
      /\ UNCHANGED <<cardEpoch, tracked, contexts, loop, used, cards, present, counter, known, cancelled>>
  BY <1>c DEF Card!ConnectReads, Card!reader, Card!daemon
<1>2. /\ o \in Ops /\ c \in Contexts /\ c \in used
      /\ h \in (used \cap Handles) \ DOMAIN cardCtx
  BY <1>a, <1>c, <1>1 DEF CardTypes, CardOp, HandleInv
<1>3. lock[c] = o /\ ~Unanswered(c)
  BY <1>a, <1>c, <1>1, <1>2, CardConstants DEF LockInv, Unanswered
<1>4. /\ wire' \in [Contexts -> Seq({"loop", "cancelled"} \cup Ops)]
      /\ skewed' \subseteq cancelled
      /\ \A x \in Contexts : lock'[x] = IF x = c THEN "free" ELSE lock[x]
      /\ lock' \in [Contexts -> {"free", "loop"} \cup Ops]
      /\ \A x \in Contexts \ cancelled : wire'[x] = IF x = c THEN <<>> ELSE wire[x]
  BY <1>a, <1>1, <1>2, <1>3, ReadsAnswer
<1>5. /\ DOMAIN ops' = DOMAIN ops \ {o} /\ ops' = [x \in DOMAIN ops' |-> ops'[x]]
      /\ \A x \in DOMAIN ops' : ops'[x] = ops[x]
  BY <1>1 DEF Card!Answer, Card!Without
<1>6. /\ DOMAIN cardCtx' = DOMAIN cardCtx \cup {h} /\ cardCtx'[h] = c
      /\ \A x \in DOMAIN cardCtx : cardCtx'[x] = cardCtx[x]
  BY <1>1, <1>2 DEF Card!With
<1>7. CardTypes'
  BY <1>a, <1>1, <1>2, <1>4, <1>5, <1>6 DEF CardTypes
<1>8. LoopInv'
  BY <1>a, <1>1, <1>6 DEF LoopInv
<1>9. LockInv'
  <2>1. ASSUME NEW x \in Contexts
        PROVE  lock'[x] = "loop" <=> loop'.ctx = x /\ loop'.at \in {"sent", "granted"}
    BY <1>a, <1>1, <1>2, <1>3, <1>4, CardConstants DEF LockInv
  <2>2. ASSUME NEW x \in Contexts, NEW p \in Ops
        PROVE  lock'[x] = p <=> p \in DOMAIN ops' /\ ops'[p].at = "sent" /\ ops'[p].ctx = x
    <3>1. CASE p = o
      <4>1. lock[x] = o => x = c
        BY <1>a, <1>2, <1>3, <1>c DEF LockInv
      <4> QED BY <1>2, <1>4, <1>5, <3>1, <4>1, CardConstants
    <3>2. CASE p # o
      <4>1. lock'[x] = p <=> lock[x] = p
        BY <1>2, <1>3, <1>4, <3>2, CardConstants
      <4> QED BY <1>a, <1>5, <3>2, <4>1 DEF LockInv
    <3> QED BY <3>1, <3>2
  <2> QED BY <2>1, <2>2 DEF LockInv
<1>10. WireInv'
  <2>1. ASSUME NEW x \in Contexts \ cancelled
        PROVE  wire'[x] = IF lock'[x] = "free" \/ Unanswered(x)' THEN <<>> ELSE <<lock'[x]>>
    <3>1. CASE x = c
      BY <1>4, <3>1
    <3>2. CASE x # c
      BY <1>a, <1>1, <1>4, <3>2 DEF WireInv, Unanswered
    <3> QED BY <3>1, <3>2
  <2> QED BY <1>1, <1>4, <2>1 DEF WireInv
<1>11. HandleInv'
  <2>1. \A p \in DOMAIN ops' : ops[p].at = "sent" => ops[p].handle # h
    BY <1>a, <1>c, <1>1, <1>5 DEF HandleInv
  <2> QED BY <1>a, <1>1, <1>5, <1>6, <2>1 DEF HandleInv
<1>12. Card!NoEventLost'
  BY <1>a, <1>1, <1>5 DEF Card!NoEventLost, Card!Flag
<1>13. ASSUME NEW x \in contexts' PROVE Agree(x)'
  <2>1. x \in contexts /\ x \in Contexts /\ Agree(x) /\ Opened(x)' = Opened(x)
    BY <1>a, <1>1, <1>13 DEF CardTypes, Opened
  <2>2. CASE x # c
    <3>1. lock'[x] = lock[x] /\ lock[x] # o
      BY <1>a, <1>c, <1>2, <1>4, <2>1, <2>2 DEF LockInv
    <3>2. Kept(x)' = Kept(x)
      BY <1>2, <1>6, <2>2 DEF Kept
    <3>3. \A p \in Ops : lock[x] = p => ops'[p] = ops[p]
      BY <1>a, <1>5, <2>1, <3>1 DEF LockInv
    <3> QED BY <1>1, <2>1, <3>1, <3>2, <3>3 DEF Agree
  <2>3. CASE x = c
    <3>1. lock'[x] = "free" /\ lock[x] = o
      BY <1>3, <1>4, <2>1, <2>3
    <3>2. Kept(x)' = Kept(x) \cup {h}
      BY <1>6, <2>3 DEF Kept
    <3>3. Opened(x) = Kept(x) \cup {h}
      BY <1>2, <1>c, <2>1, <3>1 DEF Agree
    <3> QED BY <2>1, <3>1, <3>2, <3>3, CardConstants DEF Agree
  <2> QED BY <2>2, <2>3
<1> QED BY <1>7, <1>8, <1>9, <1>10, <1>11, <1>12, <1>13 DEF CardInv

\* Contexts are cancelled, one by one or when the session reconnects.
LEMMA Cancels ==
    ASSUME CardInv, NEW S, Card!CancelAll(S), known' \in Seen, cardEpoch' \in Nat,
           tracked' \subseteq tracked,
           UNCHANGED <<contexts, cardCtx, lock, loop, ops, used, cards, present, counter, skewed>>
    PROVE  CardInv'
<1>a. CardTypes /\ LoopInv /\ LockInv /\ WireInv /\ HandleInv /\ (\A x \in contexts : Agree(x)) /\ Card!NoEventLost
  BY DEF CardInv
<1>1. /\ wire' = [c \in Contexts |-> IF c \in S THEN Append(wire[c], "cancelled") ELSE wire[c]]
      /\ cancelled' = cancelled \cup S
  BY DEF Card!CancelAll
<1>2. wire' \in [Contexts -> Seq({"loop", "cancelled"} \cup Ops)]
  <2>1. ASSUME NEW c \in Contexts
        PROVE  (IF c \in S THEN Append(wire[c], "cancelled") ELSE wire[c]) \in Seq({"loop", "cancelled"} \cup Ops)
    <3>1. wire[c] \in Seq({"loop", "cancelled"} \cup Ops)
      BY <1>a DEF CardTypes
    <3> QED BY <3>1
  <2> QED BY <1>1, <2>1
<1>3. CardTypes'
  BY <1>a, <1>2 DEF CardTypes
<1>4. LoopInv' /\ LockInv' /\ HandleInv'
  BY <1>a DEF LoopInv, LockInv, HandleInv
<1>5. WireInv'
  BY <1>a, <1>1 DEF WireInv, Unanswered
<1>6. Card!NoEventLost'
  BY <1>a DEF Card!NoEventLost, Card!Flag
<1>7. \A x \in contexts' : Agree(x)'
  BY <1>a DEF Agree, Opened, Kept
<1> QED BY <1>3, <1>4, <1>5, <1>6, <1>7 DEF CardInv

\* Every step of the smart card keeps its invariant.
LEMMA CardSteps == CardInv /\ [Card!Next]_cardVars => CardInv'
<1> SUFFICES ASSUME CardInv, [Card!Next]_cardVars PROVE CardInv'
  OBVIOUS
<1>1. CASE UNCHANGED cardVars
  <2>1. CardTypes' /\ LoopInv' /\ LockInv' /\ HandleInv'
    BY <1>1 DEF CardInv, cardVars, CardTypes, LoopInv, LockInv, HandleInv
  <2>2. WireInv' /\ Card!NoEventLost'
    BY <1>1 DEF CardInv, cardVars, WireInv, Unanswered, Card!NoEventLost, Card!Flag
  <2>3. \A x \in contexts' : Agree(x)'
    BY <1>1 DEF CardInv, cardVars, Agree, Opened, Kept
  <2> QED BY <2>1, <2>2, <2>3 DEF CardInv
<1>2. ASSUME NEW c \in Contexts, Card!HandleCancel(c) PROVE CardInv'
  <2>1. known' \in Seen /\ cardEpoch' \in Nat
    BY <1>2 DEF Card!HandleCancel, CardInv, CardTypes, Card!reader
  <2> QED BY <1>2, <2>1, Cancels DEF Card!HandleCancel, Card!reader, Card!daemon
<1>3. CASE Card!Reconnect
  <2>1. known' \in Seen /\ cardEpoch' \in Nat
    BY <1>3 DEF Card!Reconnect, CardInv, CardTypes, Seen
  <2>2. tracked' \subseteq tracked
    BY <1>3 DEF Card!Reconnect
  <2> QED BY <1>3, <2>1, <2>2, Cancels DEF Card!Reconnect, Card!daemon
<1>4. ASSUME NEW c \in Contexts,
             \/ Card!Spawn("connect", c, "none")
             \/ \E t \in {"zero", "endless"} : Card!Spawn("wait", c, t)
      PROVE  CardInv'
  BY <1>4, Spawns
<1> QED
  BY <1>1, <1>2, <1>3, <1>4, Establishes, Releases, Uses, Locks, Grants, LoopReadsAnswer, Moves,
     ConnectLocksContext, ConnectReadsHandle, WaitsStart, WaitsEnd DEF Card!Next

\* In every behaviour the tables of the handler agree with the daemon's, an answer goes to
\* the request it answers until its context is cancelled, no event of the reader is lost
\* on one who waits for it, and a context is locked only while the daemon is asked, for
\* every number of contexts, handles, goroutines, events and connections.
THEOREM CardAlwaysFaithful == MCSpec => []CardFaithful
<1>1. MCInit => CardInv
  BY CardStarts DEF MCInit
<1>2. CardInv /\ [MCNext]_mcVars => CardInv'
  <2>1. [MCNext]_mcVars => [Card!Next]_cardVars
    BY DEF MCNext, mcVars
  <2> QED BY <2>1, CardSteps
<1>3. CardInv => CardFaithful
  <2> SUFFICES ASSUME CardInv PROVE CardFaithful
    OBVIOUS
  <2>1. Card!CardsAgree
    <3> SUFFICES ASSUME NEW c \in contexts, lock[c] = "free" PROVE Kept(c) = Opened(c)
      BY DEF Card!CardsAgree, Kept, Opened
    <3> QED BY DEF CardInv, Agree
  <2>2. Card!AnswersMatch /\ Card!NoEventLost
    BY DEF CardInv, WireInv, Card!AnswersMatch
  <2>3. Card!LockedForRequests
    <3> SUFFICES ASSUME NEW c \in Contexts, lock[c] # "free"
                 PROVE  \/ lock[c] = "loop" /\ loop.ctx = c /\ loop.at \in {"sent", "granted"}
                        \/ lock[c] \in DOMAIN ops /\ ops[lock[c]].kind = "connect" /\ ops[lock[c]].at = "sent"
      BY DEF Card!LockedForRequests
    <3>1. lock[c] \in {"loop"} \cup Ops
      BY DEF CardInv, CardTypes
    <3> QED BY <3>1 DEF CardInv, LockInv, HandleInv
  <2> QED BY <2>1, <2>2, <2>3 DEF CardFaithful, Card!CardFaithful
<1> QED BY <1>1, <1>2, <1>3, PTL DEF MCSpec

(***************************************************************************)
(* The shared directory.                                                   *)
(***************************************************************************)

OpenFile == [obj : Disk!Objects \cup {0}, path : Disk!Paths, isDir : BOOLEAN,
             deleteOnClose : BOOLEAN, entries : Seq(Names), index : Nat,
             pattern : Names \cup {"*"}, started : BOOLEAN, moved : BOOLEAN,
             stay : SUBSET Names, got : Seq(Names)]
Trees == [Disk!Paths -> Disk!Objects \cup {0}]
Kinds == [Disk!Objects -> {"file", "dir", "none"}]
Sizes == [Disk!Objects -> {0, 1}]

DiskTypes ==
    /\ readOnly \in BOOLEAN /\ tree \in Trees /\ kind \in Kinds /\ size \in Sizes
    /\ nextID \in Nat \ {0}
    /\ files = [h \in DOMAIN files |-> files[h]]
    /\ \A h \in DOMAIN files : h \in 1..(nextID - 1) /\ files[h] \in OpenFile

\* The path of an open file still stands for it in a directory, unless the file is
\* marked.
PathMeans(f, t) == ~f.moved => t[f.path] = f.obj

\* A listing gave the names before its index, except those that do not match or went
\* away meanwhile; the names that stay are all in its entries, and there.
Given(f) == {k \in DOMAIN f.entries : k + 1 < f.index}
ListingInv(f, t) ==
    /\ IsInjective(f.entries) /\ IsInjective(f.got)
    /\ \A j \in DOMAIN f.got : \E k \in Given(f) : f.got[j] = f.entries[k]
    /\ \A k \in Given(f) :
          Disk!Matches(f.pattern, f.entries[k]) /\ f.entries[k] \in f.stay
          => \E j \in DOMAIN f.got : f.got[j] = f.entries[k]
    /\ \A n \in f.stay : t[n] # 0 /\ \E k \in DOMAIN f.entries : f.entries[k] = n

DiskInv ==
    /\ DiskTypes
    /\ \A h \in DOMAIN files : PathMeans(files[h], tree) /\ ListingInv(files[h], tree)
    /\ IsFiniteSet(DOMAIN files) /\ fds = Cardinality(DOMAIN files) /\ fds <= MaxOpen
    /\ Disk!ReadOnlyKept /\ ~astray /\ Disk!FailedCreateHarmless

\* The number of open files is that of the module.
LEMMA FileCount == \A S : Disk!Cardinality(S) = Cardinality(S)
BY DEF Disk!Cardinality, Cardinality

\* A new file or directory takes an object that was not there.
LEMMA FreshObject == Disk!Unused # {} => Disk!Fresh \in Disk!Objects
<1> SUFFICES ASSUME Disk!Unused # {} PROVE Disk!Fresh \in Disk!Objects
  OBVIOUS
<1>1. Disk!Unused \subseteq Nat
  BY DevicesAssumption DEF DevicesAssumption, Disk!Unused, Disk!Objects
<1>2. \E o \in Disk!Unused : \A q \in Disk!Unused : o <= q
  BY <1>1, LeastNatural
<1>3. Disk!Fresh \in Disk!Unused
  BY <1>2 DEF Disk!Fresh
<1> QED BY <1>3 DEF Disk!Unused

\* The names of a directory in some order, each once.
LEMMA ListingNames ==
    /\ Disk!Listing \in Seq(Names) /\ IsInjective(Disk!Listing)
    /\ \A n \in Names : Disk!Exists(n) => \E k \in DOMAIN Disk!Listing : Disk!Listing[k] = n
<1> DEFINE S == {n \in Names : Disk!Exists(n)}
           N == Cardinality(S)
<1>1. IsFiniteSet(S)
  <2>1. S \in SUBSET Names /\ IsFiniteSet(Names)
    BY DevicesAssumption DEF DevicesAssumption
  <2> HIDE DEF S
  <2> QED BY <2>1, FS_Subset
<1>2. Disk!Listing = CHOOSE f \in [1..N -> S] : Disk!IsInjective(f)
  <2>1. Disk!Listing = CHOOSE f \in [1..Disk!Cardinality(S) -> S] : Disk!IsInjective(f)
    BY DEF Disk!Listing, Disk!SetToSeq
  <2>2. Disk!Cardinality(S) = N
    BY FileCount
  <2> QED BY <2>1, <2>2
<1>4. \A n \in S : n \in Names
  OBVIOUS
<1>5. \A n \in Names : Disk!Exists(n) => n \in S
  OBVIOUS
<1> HIDE DEF S
<1>3. N \in Nat /\ ExistsBijection(1..N, S)
  BY <1>1, FS_CardinalityType
<1> HIDE DEF N
<1>6. \E f \in [1..N -> S] : Disk!IsInjective(f)
  BY <1>3 DEF ExistsBijection, Bijection, Injection, Disk!IsInjective, IsInjective
<1>7. Disk!Listing \in [1..N -> S] /\ Disk!IsInjective(Disk!Listing)
  BY <1>2, <1>6
<1> DEFINE f == Disk!Listing
<1> HIDE DEF f
<1>8. f \in [1..N -> S] /\ IsInjective(f)
  BY <1>7 DEF Disk!IsInjective, IsInjective, f
<1>9. IsFiniteSet(1..N) /\ Cardinality(1..N) = Cardinality(S)
  BY <1>3, FS_Interval DEF N
<1>10. f \in Injection(1..N, S)
  BY <1>8 DEF Injection
<1>11. f \in Surjection(1..N, S)
  BY <1>1, <1>9, <1>10, FS_Injection
<1>12. \A n \in S : \E k \in 1..N : f[k] = n
  BY <1>11 DEF Surjection
<1>13. f \in Seq(Names) /\ DOMAIN f = 1..N
  BY <1>3, <1>4, <1>8
<1>14. \A n \in Names : Disk!Exists(n) => \E k \in DOMAIN f : f[k] = n
  BY <1>5, <1>12, <1>13
<1> QED BY <1>8, <1>13, <1>14 DEF f

\* It holds at the start.
LEMMA DiskStarts == Disk!Init => DiskInv
<1> SUFFICES ASSUME Disk!Init PROVE DiskInv
  OBVIOUS
<1> USE DevicesAssumption DEF Disk!Init
<1>1. DOMAIN files = {} /\ files = [h \in {} |-> 0]
  BY DEF DevicesAssumption
<1>2. tree \in Trees
  <2>1. 1 \in Disk!Objects /\ 2 \in Disk!Objects
    BY DEF DevicesAssumption, Disk!Objects
  <2>2. PICK S \in SUBSET Names :
            tree = [p \in Disk!Paths |-> IF p = Root THEN 1 ELSE IF p \in S THEN 2 ELSE Disk!None]
    OBVIOUS
  <2> QED BY <2>1, <2>2 DEF Trees, Disk!None
<1>3. DiskTypes
  BY <1>1, <1>2 DEF DiskTypes, Kinds, Sizes
<1>4. IsFiniteSet(DOMAIN files) /\ fds = Cardinality(DOMAIN files) /\ fds <= MaxOpen
  BY <1>1, FS_EmptySet DEF DevicesAssumption
<1>5. Disk!ReadOnlyKept /\ ~astray /\ Disk!FailedCreateHarmless
  BY DEF Disk!ReadOnlyKept, Disk!FailedCreateHarmless
<1> QED BY <1>1, <1>3, <1>4, <1>5 DEF DiskInv

\* What a mark changes of an open file.
Remarked(f, m, S) == [f EXCEPT !.moved = m, !.stay = S]
LEMMA MarkedFile ==
    ASSUME NEW f \in OpenFile, NEW m \in BOOLEAN, NEW S \in SUBSET Names
    PROVE  LET g == Remarked(f, m, S)
           IN  /\ g \in OpenFile /\ g.obj = f.obj /\ g.path = f.path /\ g.entries = f.entries
               /\ g.index = f.index /\ g.pattern = f.pattern /\ g.started = f.started
               /\ g.got = f.got /\ g.moved = m /\ g.stay = S
<1> DEFINE g1 == [f EXCEPT !.moved = m]
           g == [g1 EXCEPT !.stay = S]
<1>1. /\ g1 \in OpenFile /\ g1.obj = f.obj /\ g1.path = f.path /\ g1.entries = f.entries
      /\ g1.index = f.index /\ g1.pattern = f.pattern /\ g1.got = f.got
  BY DEF OpenFile
<1>2. g1.started = f.started /\ g1.moved = m
  BY Zenon DEF OpenFile
<1> HIDE DEF g1
<1>3. /\ g \in OpenFile /\ g.obj = g1.obj /\ g.path = g1.path /\ g.entries = g1.entries
      /\ g.index = g1.index /\ g.pattern = g1.pattern /\ g.got = g1.got /\ g.stay = S
  BY <1>1 DEF OpenFile
<1>4. g.started = g1.started /\ g.moved = g1.moved
  BY <1>1, Zenon DEF OpenFile
<1>5. Remarked(f, m, S) = g
  BY DEF g1, Remarked
<1> HIDE DEF g
<1> QED BY <1>1, <1>2, <1>3, <1>4, <1>5

\* A change of the directory marks the open files whose path it touches, but not the
\* one that makes it, and takes the names it removes from those that stay.
LEMMA MarksFiles ==
    ASSUME NEW fs, NEW doer, NEW t,
           \A h \in DOMAIN fs : fs[h] \in OpenFile /\ PathMeans(fs[h], tree) /\ ListingInv(fs[h], tree)
    PROVE  LET gs == Disk!Marked(fs, doer, t)
           IN  /\ DOMAIN gs = DOMAIN fs /\ gs = [h \in DOMAIN gs |-> gs[h]]
               /\ \A h \in DOMAIN gs :
                     /\ gs[h] \in OpenFile /\ ListingInv(gs[h], t)
                     /\ gs[h].path = fs[h].path /\ gs[h].obj = fs[h].obj
                     /\ h # doer => PathMeans(gs[h], t)
                     /\ h = doer => (gs[h].moved <=> fs[h].moved)
<1> DEFINE gs == Disk!Marked(fs, doer, t)
<1>1. DOMAIN gs = DOMAIN fs /\ gs = [h \in DOMAIN gs |-> gs[h]]
  BY DEF Disk!Marked
<1>2. ASSUME NEW h \in DOMAIN fs
      PROVE  /\ gs[h] \in OpenFile /\ ListingInv(gs[h], t)
             /\ gs[h].path = fs[h].path /\ gs[h].obj = fs[h].obj
             /\ h # doer => PathMeans(gs[h], t)
             /\ h = doer => (gs[h].moved <=> fs[h].moved)
  <2>1. PICK f : f = fs[h]
    OBVIOUS
  <2>2. f \in OpenFile /\ PathMeans(f, tree) /\ ListingInv(f, tree)
    BY <2>1
  <2> DEFINE m == f.moved \/ (h # doer /\ t[f.path] # tree[f.path])
             S == {n \in f.stay : t[n] # 0}
             g == Remarked(f, m, S)
  <2>3. gs[h] = g
    BY <2>1 DEF Disk!Marked, Disk!None, Remarked
  <2>4. m \in BOOLEAN /\ S \in SUBSET Names
    BY <2>2 DEF OpenFile
  <2>5. m <=> f.moved \/ (h # doer /\ t[f.path] # tree[f.path])
    OBVIOUS
  <2>6. \A n : n \in S <=> n \in f.stay /\ t[n] # 0
    OBVIOUS
  <2> HIDE DEF m, S
  <2>7. /\ g \in OpenFile /\ g.obj = f.obj /\ g.path = f.path /\ g.entries = f.entries
        /\ g.index = f.index /\ g.pattern = f.pattern /\ g.started = f.started
        /\ g.got = f.got /\ g.moved = m /\ g.stay = S
    BY <2>2, <2>4, MarkedFile
  <2> HIDE DEF g
  <2>8. ListingInv(g, t)
    BY <2>2, <2>6, <2>7 DEF ListingInv, Given
  <2>9. h # doer => PathMeans(g, t)
    BY <2>2, <2>5, <2>7 DEF PathMeans
  <2>10. h = doer => (g.moved <=> f.moved)
    BY <2>5, <2>7
  <2> HIDE DEF gs
  <2> QED BY <2>1, <2>3, <2>7, <2>8, <2>9, <2>10
<1> HIDE DEF gs
<1> QED BY <1>1, <1>2 DEF gs


\* What a request leaves of the directory, as the handler returned it: a change means
\* that the directory may be written and that the request succeeded.
Lawful(out) ==
    /\ out.tree \in Trees /\ out.kind \in Kinds /\ out.size \in Sizes
    /\ Disk!Changes(out) => ~readOnly /\ out.status = "Success"

\* A request that is refused leaves everything.
LEMMA LawfulSame == ASSUME DiskTypes, NEW s PROVE Lawful(Disk!Same(s))
BY DEF DiskTypes, Lawful, Disk!Same, Disk!Outcome, Disk!Changes

\* One that makes a file or a directory was allowed to write.
LEMMA LawfulMade ==
    ASSUME DiskTypes, Disk!Unused # {}, ~readOnly, NEW p \in Disk!Paths, NEW k \in {"file", "dir"}
    PROVE  Lawful(Disk!Made(p, k))
<1>1. Disk!Fresh \in Disk!Objects
  BY FreshObject
<1> DEFINE o == Disk!Fresh
<1> HIDE DEF o
<1>2. [tree EXCEPT ![p] = o] \in Trees
  BY <1>1 DEF DiskTypes, Trees, o
<1>3. [kind EXCEPT ![o] = k] \in Kinds
  BY DEF DiskTypes, Kinds
<1> QED BY <1>2, <1>3 DEF DiskTypes, Lawful, Disk!Made, Disk!Outcome, o

\* Creating, opening and replacing do.
LEMMA LawfulCreates ==
    ASSUME DiskTypes, Disk!Unused # {}, NEW p \in Disk!Paths,
           NEW d \in {"Open", "Create", "OpenIf", "Overwrite", "Supersede"}
    PROVE  Lawful(Disk!CreateDirectory(p, d)) /\ Lawful(Disk!CreateFile(p, d))
<1>1. \A s : Lawful(Disk!Same(s))
  BY LawfulSame
<1>2. ~readOnly => Lawful(Disk!Made(p, "file")) /\ Lawful(Disk!Made(p, "dir"))
  BY LawfulMade
<1>3. ~readOnly => Lawful(Disk!Outcome("Success", tree, kind, [size EXCEPT ![tree[p]] = 0]))
  BY DEF DiskTypes, Lawful, Disk!Outcome, Sizes
<1>4. Lawful(Disk!CreateDirectory(p, d))
  BY <1>1, <1>2 DEF Disk!CreateDirectory
<1>5. Lawful(Disk!CreateFile(p, d))
  BY <1>1, <1>2, <1>3 DEF Disk!CreateFile, Disk!Superseded
<1> QED BY <1>4, <1>5

\* Such an outcome keeps the directory's part of the invariant.
LEMMA LeavesLawful ==
    ASSUME DiskInv, NEW op, NEW out, Lawful(out), Disk!Leaves(op, out), readOnly' = readOnly
    PROVE  /\ tree' = out.tree /\ tree' \in Trees /\ kind' \in Kinds /\ size' \in Sizes
           /\ Disk!ReadOnlyKept'
BY DEF DiskInv, Lawful, Disk!Leaves, Disk!ReadOnlyKept

\* A request that goes by a handle's path reaches what the handle opened.
LEMMA ReachesOwn ==
    ASSUME DiskInv, NEW id \in DOMAIN files, Disk!Reaches(files[id])
    PROVE  ~astray'
BY DEF DiskInv, Disk!Reaches, PathMeans


\* The operations of the server and of the user of this machine.
LEMMA Creates ==
    ASSUME DiskInv, NEW p \in Disk!Paths, NEW want \in {"dir", "file", "any"}, NEW del \in BOOLEAN,
           NEW d \in {"Open", "Create", "OpenIf", "Overwrite", "Supersede"},
           Disk!HandleCreate(p, want, d, del)
    PROVE  DiskInv'
<1>0. DiskTypes
  BY DEF DiskInv
<1>1. CASE want = "file" /\ Disk!IsDir(p)
  BY <1>0, <1>1 DEF Disk!HandleCreate, DiskInv, DiskTypes, Disk!ReadOnlyKept, Disk!FailedCreateHarmless
<1>2. CASE ~(want = "file" /\ Disk!IsDir(p))
  <2>1. PICK asDir \in BOOLEAN : asDir <=> want = "dir" \/ (want = "any" /\ Disk!IsDir(p))
    OBVIOUS
  <2>2. PICK out : out = IF asDir THEN Disk!CreateDirectory(p, d) ELSE Disk!CreateFile(p, d)
    OBVIOUS
  <2>3. PICK others : others = Disk!Marked(files, 0, out.tree)
    OBVIOUS
  <2>4. PICK opened : opened = [obj |-> out.tree[p], path |-> p, isDir |-> asDir,
                   deleteOnClose |-> del, entries |-> <<>>, index |-> 0, pattern |-> "*",
                   started |-> FALSE, moved |-> FALSE, stay |-> {}, got |-> <<>>]
    OBVIOUS
  <2>5. PICK over \in BOOLEAN : over <=> Cardinality(DOMAIN files) >= MaxOpen
    OBVIOUS
  <2>6. /\ nextID <= MaxCreates \/ over
        /\ UNCHANGED <<readOnly, astray, local>>
        /\ Disk!Unused # {} /\ Disk!Leaves("create", out)
        /\ refused' = IF ~Disk!Changes(out) THEN refused
                      ELSE IF out.status # "Success" THEN refused \cup {out.status}
                      ELSE IF over THEN refused \cup {"TooManyOpenedFiles"} ELSE refused
        /\ IF out.status # "Success" THEN files' = others /\ UNCHANGED <<nextID, fds>>
           ELSE IF over
           THEN files' = others /\ UNCHANGED <<nextID, fds>>
           ELSE nextID' = nextID + 1 /\ fds' = fds + 1
                /\ files' = [h \in DOMAIN files \cup {nextID} |-> IF h = nextID THEN opened ELSE others[h]]
    <3>1. (want = "dir" \/ (want = "any" /\ Disk!IsDir(p))) = asDir
      BY <2>1
    <3>2. (Cardinality(DOMAIN files) >= MaxOpen) = over
      BY <2>5
    <3> QED BY <1>2, <2>2, <2>3, <2>4, <3>1, <3>2, FileCount
            DEF Disk!HandleCreate, Disk!OpenAfterRefusal, Disk!None
  <2>7. Lawful(out)
    BY <1>0, <2>2, <2>6, LawfulCreates
  <2>8. /\ tree' = out.tree /\ tree' \in Trees /\ kind' \in Kinds /\ size' \in Sizes
        /\ Disk!ReadOnlyKept'
    BY <2>6, <2>7, LeavesLawful
  <2>9. /\ DOMAIN others = DOMAIN files /\ others = [h \in DOMAIN others |-> others[h]]
        /\ \A h \in DOMAIN others :
              others[h] \in OpenFile /\ ListingInv(others[h], out.tree) /\ PathMeans(others[h], out.tree)
    <3>1. \A h \in DOMAIN files :
             h # 0 /\ files[h] \in OpenFile /\ PathMeans(files[h], tree) /\ ListingInv(files[h], tree)
      BY DEF DiskInv, DiskTypes
    <3> QED BY <2>3, <3>1, MarksFiles
  <2>10. Disk!FailedCreateHarmless' /\ ~astray'
    BY <2>6, <2>7 DEF DiskInv, Disk!FailedCreateHarmless, Lawful
  <2>11. CASE files' = others /\ UNCHANGED <<nextID, fds>>
    BY <1>0, <2>6, <2>8, <2>9, <2>10, <2>11 DEF DiskInv, DiskTypes
  <2>12. CASE /\ ~over /\ nextID' = nextID + 1 /\ fds' = fds + 1
              /\ files' = [h \in DOMAIN files \cup {nextID} |-> IF h = nextID THEN opened ELSE others[h]]
    <3>1. DOMAIN files' = DOMAIN files \cup {nextID} /\ files' = [h \in DOMAIN files' |-> files'[h]]
      BY <2>12
    <3>2. nextID \notin DOMAIN files
      BY <1>0 DEF DiskTypes
    <3>3. /\ files'[nextID] = opened
          /\ \A h \in DOMAIN files : files'[h] = others[h] /\ h \in 1..(nextID - 1)
      BY <1>0, <2>12, <3>2 DEF DiskTypes
    <3>4. IsFiniteSet(DOMAIN files') /\ Cardinality(DOMAIN files') = Cardinality(DOMAIN files) + 1
      BY <3>1, <3>2, FS_AddElement DEF DiskInv
    <3>5. fds' = Cardinality(DOMAIN files') /\ fds' <= MaxOpen
      <4>1. fds = Cardinality(DOMAIN files) /\ Cardinality(DOMAIN files) \in Nat
        BY FS_CardinalityType DEF DiskInv
      <4> QED BY <2>5, <2>12, <3>4, <4>1, DevicesAssumption DEF DevicesAssumption
    <3>6. opened \in OpenFile
      <4>1. out.tree[p] \in Disk!Objects \cup {0}
        BY <2>7 DEF Lawful, Trees
      <4> QED BY <2>4, <4>1 DEF OpenFile
    <3>7. PathMeans(opened, tree') /\ ListingInv(opened, tree')
      BY <2>4, <2>8 DEF PathMeans, ListingInv, Given, IsInjective
    <3>8. DiskTypes'
      BY <1>0, <2>6, <2>8, <2>9, <2>12, <3>1, <3>3, <3>6 DEF DiskTypes
    <3>9. \A h \in DOMAIN files' : PathMeans(files'[h], tree') /\ ListingInv(files'[h], tree')
      BY <2>8, <2>9, <3>1, <3>3, <3>7
    <3> QED BY <2>8, <2>10, <3>4, <3>5, <3>8, <3>9 DEF DiskInv
  <2> QED BY <2>6, <2>11, <2>12
<1> QED BY <1>1, <1>2

\* handleClose: the path is deleted for a handle that deletes, and no handle is left over.
LEMMA Closes ==
    ASSUME DiskInv, NEW id \in 1..nextID, Disk!HandleClose(id)
    PROVE  DiskInv'
<1>0. DiskTypes
  BY DEF DiskInv
<1>1. CASE id \notin DOMAIN files
  BY <1>0, <1>1 DEF Disk!HandleClose, DiskInv, DiskTypes, Disk!ReadOnlyKept, Disk!FailedCreateHarmless
<1>2. CASE id \in DOMAIN files
  <2>1. PICK f : f = files[id]
    OBVIOUS
  <2>2. PICK t : t = IF f.deleteOnClose THEN [tree EXCEPT ![f.path] = 0] ELSE tree
    OBVIOUS
  <2>3. PICK rest : rest = [h \in DOMAIN files \ {id} |-> files[h]]
    OBVIOUS
  <2>4. PICK out : out = Disk!Outcome("Success", t, kind, size)
    OBVIOUS
  <2>5. /\ UNCHANGED <<readOnly, nextID, refused, local>>
        /\ fds' = fds - 1 /\ Disk!Leaves("close", out) /\ files' = Disk!Marked(rest, id, t)
        /\ IF f.deleteOnClose THEN Disk!Reaches(f) ELSE UNCHANGED astray
    BY <1>2, <2>1, <2>2, <2>3, <2>4 DEF Disk!HandleClose, Disk!None
  <2>6. out.tree = t /\ tree' = t /\ kind' = kind /\ size' = size
    BY <2>4, <2>5 DEF Disk!Outcome, Disk!Leaves
  <2>7. t \in Trees
    BY <1>0, <2>2 DEF DiskTypes, Trees
  <2>8. Disk!ReadOnlyKept'
    BY <2>5 DEF DiskInv, Disk!Leaves, Disk!ReadOnlyKept
  <2>9. ~astray'
    BY <1>2, <2>1, <2>5, ReachesOwn DEF DiskInv
  <2>10. /\ DOMAIN rest = DOMAIN files \ {id}
         /\ \A h \in DOMAIN rest : /\ h # id /\ h \in DOMAIN files /\ h \in 1..(nextID - 1)
                                   /\ rest[h] \in OpenFile
                                   /\ PathMeans(rest[h], tree) /\ ListingInv(rest[h], tree)
    BY <1>0, <2>3 DEF DiskInv, DiskTypes
  <2>11. /\ DOMAIN files' = DOMAIN rest /\ files' = [h \in DOMAIN files' |-> files'[h]]
         /\ \A h \in DOMAIN files' :
               files'[h] \in OpenFile /\ ListingInv(files'[h], t) /\ PathMeans(files'[h], t)
    BY <2>5, <2>10, MarksFiles
  <2>12. IsFiniteSet(DOMAIN files') /\ fds' = Cardinality(DOMAIN files') /\ fds' <= MaxOpen
    <3>1. IsFiniteSet(DOMAIN files') /\ Cardinality(DOMAIN files') = Cardinality(DOMAIN files) - 1
      BY <1>2, <2>10, <2>11, FS_RemoveElement DEF DiskInv
    <3>2. fds = Cardinality(DOMAIN files) /\ Cardinality(DOMAIN files) \in Nat /\ fds <= MaxOpen
      BY FS_CardinalityType DEF DiskInv
    <3> QED BY <2>5, <3>1, <3>2, DevicesAssumption DEF DevicesAssumption
  <2>13. DiskTypes'
    BY <1>0, <2>5, <2>6, <2>7, <2>10, <2>11 DEF DiskTypes
  <2>14. Disk!FailedCreateHarmless'
    BY <2>5 DEF DiskInv, Disk!FailedCreateHarmless
  <2> QED BY <2>6, <2>8, <2>9, <2>11, <2>12, <2>13, <2>14 DEF DiskInv
<1> QED BY <1>1, <1>2


\* A step that replaces one open file and leaves the directory keeps the invariant when
\* the new file is one.
LEMMA OneFile ==
    ASSUME DiskInv, NEW id \in DOMAIN files, NEW g \in OpenFile,
           PathMeans(g, tree), ListingInv(g, tree), files' = [files EXCEPT ![id] = g],
           UNCHANGED <<readOnly, tree, kind, size, nextID, fds, astray, touched, refused>>
    PROVE  DiskInv'
<1>1. DOMAIN files' = DOMAIN files /\ files' = [h \in DOMAIN files' |-> files'[h]]
  BY DEF DiskInv, DiskTypes
<1>2. \A h \in DOMAIN files : files'[h] = IF h = id THEN g ELSE files[h]
  BY DEF DiskInv, DiskTypes
<1>3. DiskTypes'
  BY <1>1, <1>2 DEF DiskInv, DiskTypes
<1>4. \A h \in DOMAIN files' : PathMeans(files'[h], tree') /\ ListingInv(files'[h], tree')
  BY <1>1, <1>2 DEF DiskInv
<1>5. Disk!ReadOnlyKept' /\ ~astray' /\ Disk!FailedCreateHarmless'
  BY DEF DiskInv, Disk!ReadOnlyKept, Disk!FailedCreateHarmless
<1> QED BY <1>1, <1>3, <1>4, <1>5 DEF DiskInv

\* handleWrite: refused when shared read-only, and through the open file otherwise.
LEMMA Writes ==
    ASSUME DiskInv, NEW id \in DOMAIN files, NEW data \in {0, 1}, Disk!HandleWrite(id, data)
    PROVE  DiskInv'
<1>0. DiskTypes
  BY DEF DiskInv
<1> DEFINE ok == ~readOnly /\ id \in DOMAIN files /\ kind[files[id].obj] = "file"
<1>1. PICK out : out = IF ok THEN Disk!Outcome("Success", tree, kind, [size EXCEPT ![files[id].obj] = data])
                       ELSE Disk!Same(IF readOnly THEN "AccessDenied" ELSE "NoSuchFile")
  OBVIOUS
<1>2. Disk!Leaves("write", out) /\ UNCHANGED <<readOnly, files, nextID, fds, astray, refused, local>>
  BY <1>1 DEF Disk!HandleWrite
<1>3. out.tree = tree
  BY <1>1 DEF Disk!Same, Disk!Outcome
<1>4. Lawful(out)
  <2>1. CASE ok
    <3>1. [size EXCEPT ![files[id].obj] = data] \in Sizes
      BY <1>0 DEF DiskTypes, Sizes
    <3> QED BY <1>0, <1>1, <2>1, <3>1 DEF DiskTypes, Lawful, Disk!Outcome
  <2>2. CASE ~ok
    BY <1>0, <1>1, <2>2, LawfulSame
  <2> QED BY <2>1, <2>2
<1>5. tree' = tree /\ kind' \in Kinds /\ size' \in Sizes /\ Disk!ReadOnlyKept'
  BY <1>2, <1>3, <1>4, LeavesLawful
<1>6. DiskTypes'
  BY <1>0, <1>2, <1>5 DEF DiskTypes
<1> QED BY <1>2, <1>5, <1>6 DEF DiskInv, Disk!FailedCreateHarmless

\* handleQueryInfo: by the path, which still means the handle's object.
LEMMA Queries ==
    ASSUME DiskInv, NEW id \in DOMAIN files, Disk!HandleQueryInfo(id)
    PROVE  DiskInv'
<1>1. ~astray'
  BY ReachesOwn DEF Disk!HandleQueryInfo
<1> QED BY <1>1 DEF Disk!HandleQueryInfo, DiskInv, DiskTypes, Disk!ReadOnlyKept, Disk!FailedCreateHarmless

\* handleSetInfo, the mark for deletion.
LEMMA Disposes ==
    ASSUME DiskInv, NEW id \in DOMAIN files, NEW delete \in BOOLEAN, Disk!HandleDisposition(id, delete)
    PROVE  DiskInv'
<1>1. CASE readOnly
  BY <1>1 DEF Disk!HandleDisposition, Disk!SetRefused, DiskInv, DiskTypes, Disk!ReadOnlyKept,
              Disk!FailedCreateHarmless
<1>2. CASE ~readOnly
  <2>1. PICK f : f = files[id]
    OBVIOUS
  <2> DEFINE g == [f EXCEPT !.deleteOnClose = delete]
  <2>2. files' = [files EXCEPT ![id] = g]
    BY <1>2, <2>1 DEF Disk!HandleDisposition, Disk!SetRefused
  <2>3. f \in OpenFile /\ PathMeans(f, tree) /\ ListingInv(f, tree)
    BY <2>1 DEF DiskInv, DiskTypes
  <2>4. /\ g \in OpenFile /\ g.obj = f.obj /\ g.path = f.path /\ g.entries = f.entries
        /\ g.index = f.index /\ g.pattern = f.pattern /\ g.got = f.got /\ g.stay = f.stay
    BY <2>3 DEF OpenFile
  <2>5. g.moved = f.moved
    BY <2>3, Zenon DEF OpenFile
  <2> HIDE DEF g
  <2>6. PathMeans(g, tree) /\ ListingInv(g, tree)
    BY <2>3, <2>4, <2>5 DEF PathMeans, ListingInv, Given
  <2>7. UNCHANGED <<readOnly, tree, kind, size, nextID, fds, astray, touched, refused>>
    BY DEF Disk!HandleDisposition
  <2> QED BY <2>2, <2>4, <2>6, <2>7, OneFile
<1> QED BY <1>1, <1>2

\* handleSetInfo, the rename: the handle takes its object to the new path.
LEMMA Renames ==
    ASSUME DiskInv, NEW id \in DOMAIN files, NEW to \in Names, Disk!HandleRename(id, to)
    PROVE  DiskInv'
<1>0. DiskTypes
  BY DEF DiskInv
<1>1. PICK f : f = files[id]
  OBVIOUS
<1>2. PICK t : t = IF f.path = to THEN tree ELSE [tree EXCEPT ![to] = tree[f.path], ![f.path] = 0]
  OBVIOUS
<1>3. PICK out : out = Disk!Outcome("Success", t, kind, size)
  OBVIOUS
<1>4. PICK gs : gs = Disk!Marked(files, id, t)
  OBVIOUS
<1>5. UNCHANGED <<readOnly, nextID, fds, refused, local>>
  BY DEF Disk!HandleRename
<1>6. CASE UNCHANGED <<tree, kind, size, files, astray, touched>>
  BY <1>0, <1>5, <1>6 DEF DiskInv, DiskTypes, Disk!ReadOnlyKept, Disk!FailedCreateHarmless
<1>7. CASE /\ ~readOnly /\ Disk!Leaves("rename", out) /\ Disk!Reaches(f)
           /\ files' = [gs EXCEPT ![id] = Disk!Renamed(@, to)]
  <2>1. f \in OpenFile /\ PathMeans(f, tree) /\ f.path \in Disk!Paths /\ to \in Disk!Paths
    BY <1>1, <1>0 DEF DiskInv, DiskTypes, OpenFile, Disk!Paths
  <2>2. t \in Trees /\ t[to] = tree[f.path]
    <3>1. CASE f.path = to
      BY <1>0, <1>2, <3>1 DEF DiskTypes
    <3>2. CASE f.path # to
      <4> DEFINE t1 == [tree EXCEPT ![to] = tree[f.path]]
      <4>1. t1 \in Trees /\ t1[to] = tree[f.path]
        BY <1>0, <2>1 DEF DiskTypes, Trees
      <4>2. t = [t1 EXCEPT ![f.path] = 0]
        BY <1>2, <3>2
      <4> HIDE DEF t1
      <4> QED BY <2>1, <3>2, <4>1, <4>2 DEF Trees
    <3> QED BY <3>1, <3>2
  <2>3. tree' = t /\ kind' = kind /\ size' = size /\ ~astray'
    <3>1. ~astray'
      BY <1>1, <1>7, ReachesOwn
    <3> QED BY <1>3, <1>7, <3>1 DEF Disk!Leaves, Disk!Outcome
  <2>4. Disk!ReadOnlyKept' /\ Disk!FailedCreateHarmless'
    BY <1>5, <1>7 DEF DiskInv, Disk!ReadOnlyKept, Disk!FailedCreateHarmless
  <2>5. /\ DOMAIN gs = DOMAIN files /\ gs = [h \in DOMAIN gs |-> gs[h]]
        /\ \A h \in DOMAIN gs :
              /\ gs[h] \in OpenFile /\ ListingInv(gs[h], t)
              /\ gs[h].path = files[h].path /\ gs[h].obj = files[h].obj
              /\ h # id => PathMeans(gs[h], t)
              /\ h = id => (gs[h].moved <=> files[h].moved)
    <3>1. \A h \in DOMAIN files :
             files[h] \in OpenFile /\ PathMeans(files[h], tree) /\ ListingInv(files[h], tree)
      BY DEF DiskInv, DiskTypes
    <3> QED BY <1>4, <3>1, MarksFiles
  <2>6. PICK g : g = gs[id]
    OBVIOUS
  <2> DEFINE r == [g EXCEPT !.path = to]
  <2>7. /\ DOMAIN files' = DOMAIN files /\ files' = [h \in DOMAIN files' |-> files'[h]]
        /\ \A h \in DOMAIN files : files'[h] = IF h = id THEN r ELSE gs[h]
    <3>1. files' = [gs EXCEPT ![id] = r]
      BY <1>7, <2>6 DEF Disk!Renamed
    <3> HIDE DEF r
    <3> QED BY <2>5, <3>1
  <2>8. g \in OpenFile /\ ListingInv(g, t) /\ g.obj = f.obj /\ (g.moved <=> f.moved)
    BY <1>1, <2>5, <2>6
  <2>9. /\ r \in OpenFile /\ r.obj = g.obj /\ r.path = to /\ r.entries = g.entries
        /\ r.index = g.index /\ r.pattern = g.pattern /\ r.got = g.got /\ r.stay = g.stay
    BY <2>1, <2>8 DEF OpenFile
  <2>10. r.moved = g.moved
    BY <2>8, Zenon DEF OpenFile
  <2> HIDE DEF r
  <2>11. PathMeans(r, t) /\ ListingInv(r, t)
    <3>1. ListingInv(r, t)
      BY <2>8, <2>9 DEF ListingInv, Given
    <3>2. PathMeans(r, t)
      BY <2>1, <2>2, <2>8, <2>9, <2>10 DEF PathMeans
    <3> QED BY <3>1, <3>2
  <2>12. DiskTypes'
    BY <1>0, <1>5, <2>2, <2>3, <2>5, <2>7, <2>9 DEF DiskTypes
  <2>13. \A h \in DOMAIN files' : PathMeans(files'[h], tree') /\ ListingInv(files'[h], tree')
    BY <2>3, <2>5, <2>7, <2>11
  <2> QED BY <1>5, <2>3, <2>4, <2>7, <2>12, <2>13 DEF DiskInv
<1> QED BY <1>1, <1>2, <1>3, <1>4, <1>6, <1>7 DEF Disk!HandleRename, Disk!SetRefused, Disk!None

\* The user of this machine changes the directory: every handle at the path is marked.
LEMMA UserSteps ==
    ASSUME DiskInv, NEW t \in Trees, NEW k \in Kinds, Disk!UserChanges(t, k)
    PROVE  DiskInv'
<1>0. DiskTypes
  BY DEF DiskInv
<1>1. /\ tree' = t /\ kind' = k /\ files' = Disk!Marked(files, 0, t)
      /\ UNCHANGED <<readOnly, size, nextID, fds, astray, touched, refused>>
  BY DEF Disk!UserChanges, Disk!None
<1>2. \A h \in DOMAIN files :
         h # 0 /\ files[h] \in OpenFile /\ PathMeans(files[h], tree) /\ ListingInv(files[h], tree)
  BY DEF DiskInv, DiskTypes
<1>3. /\ DOMAIN files' = DOMAIN files /\ files' = [h \in DOMAIN files' |-> files'[h]]
      /\ \A h \in DOMAIN files' :
            files'[h] \in OpenFile /\ ListingInv(files'[h], t) /\ PathMeans(files'[h], t)
  BY <1>1, <1>2, MarksFiles
<1>4. DiskTypes'
  BY <1>0, <1>1, <1>3 DEF DiskTypes
<1> QED BY <1>1, <1>3, <1>4 DEF DiskInv, Disk!ReadOnlyKept, Disk!FailedCreateHarmless


\* A listing that begins again has every name there is, and has given none.
LEMMA RestartsListing ==
    ASSUME NEW f \in OpenFile, PathMeans(f, tree), NEW pattern \in Names \cup {"*"}
    PROVE  LET g == Disk!Restart(f, pattern)
           IN  g \in OpenFile /\ g.started /\ PathMeans(g, tree) /\ ListingInv(g, tree)
<1>0. PICK e \in Seq(Names) : e = <<>>
  <2>1. <<>> \in Seq(Names)
    OBVIOUS
  <2> QED BY <2>1, Zenon
<1>1. PICK L \in Seq(Names) :
         /\ L = Disk!Listing /\ IsInjective(L)
         /\ \A n \in Names : tree[n] # 0 => \E k \in DOMAIN L : L[k] = n
  BY ListingNames DEF Disk!Exists, Disk!None
<1>2. PICK S \in SUBSET Names : S = {n \in Names : tree[n] # 0}
  OBVIOUS
<1> DEFINE g1 == [f EXCEPT !.entries = L]
           g2 == [g1 EXCEPT !.index = 0]
           g3 == [g2 EXCEPT !.pattern = pattern]
           g4 == [g3 EXCEPT !.started = TRUE]
           g5 == [g4 EXCEPT !.stay = S]
           g == [g5 EXCEPT !.got = e]
<1>3. Disk!Restart(f, pattern) = g
  BY <1>0, <1>1, <1>2 DEF Disk!Restart, Disk!Exists, Disk!None
<1>4. g1 \in OpenFile /\ g1.entries = L /\ g1.path = f.path /\ g1.obj = f.obj
  BY DEF OpenFile
<1>5. g1.moved = f.moved
  BY Zenon DEF OpenFile
<1> HIDE DEF g1
<1>6. g2 \in OpenFile /\ g2.entries = L /\ g2.index = 0 /\ g2.path = f.path /\ g2.obj = f.obj
  BY <1>4 DEF OpenFile
<1>7. g2.moved = f.moved
  BY <1>4, <1>5, Zenon DEF OpenFile
<1> HIDE DEF g2
<1>8. g3 \in OpenFile /\ g3.entries = L /\ g3.index = 0 /\ g3.path = f.path /\ g3.obj = f.obj
  BY <1>6 DEF OpenFile
<1>9. g3.moved = f.moved
  BY <1>6, <1>7, Zenon DEF OpenFile
<1> HIDE DEF g3
<1>10. g4 \in OpenFile /\ g4.entries = L /\ g4.index = 0 /\ g4.path = f.path /\ g4.obj = f.obj
  BY <1>8 DEF OpenFile
<1>11. g4.moved = f.moved /\ g4.started
  BY <1>8, <1>9, Zenon DEF OpenFile
<1> HIDE DEF g4
<1>12. g5 \in OpenFile /\ g5.entries = L /\ g5.index = 0 /\ g5.path = f.path /\ g5.obj = f.obj
       /\ g5.stay = S
  BY <1>10 DEF OpenFile
<1>13. g5.moved = f.moved /\ g5.started
  BY <1>10, <1>11, Zenon DEF OpenFile
<1> HIDE DEF g5
<1>14. g \in OpenFile /\ g.entries = L /\ g.index = 0 /\ g.path = f.path /\ g.obj = f.obj
       /\ g.stay = S /\ g.got = e
  BY <1>12 DEF OpenFile
<1>15. g.moved = f.moved /\ g.started
  BY <1>12, <1>13, Zenon DEF OpenFile
<1> HIDE DEF g
<1>16. Given(g) = {}
  BY <1>14 DEF Given
<1>17. ListingInv(g, tree)
  <2>1. IsInjective(g.got) /\ DOMAIN g.got = {}
    BY <1>0, <1>14 DEF IsInjective
  <2> QED BY <1>1, <1>2, <1>14, <1>16, <2>1 DEF ListingInv
<1>18. PathMeans(g, tree)
  BY <1>14, <1>15 DEF PathMeans
<1> QED BY <1>3, <1>14, <1>15, <1>17, <1>18

\* Where a listing goes on: at the first entry from its index on that is shown.
LEMMA NextAnswer ==
    ASSUME NEW f \in OpenFile, f.started
    PROVE  LET i == Disk!Answer(f)
           IN  \/ /\ i = 0 - 1
                  /\ \A j \in f.index..(Len(f.entries) + 1) : ~Disk!Shown(f, j)
               \/ /\ i \in f.index..(Len(f.entries) + 1) /\ Disk!Shown(f, i)
                  /\ \A j \in f.index..(Len(f.entries) + 1) : j < i => ~Disk!Shown(f, j)
<1> DEFINE rest == {j \in f.index..(Len(f.entries) + 1) : Disk!Shown(f, j)}
<1>1. f.index \in Nat /\ Len(f.entries) \in Nat
  BY DEF OpenFile
<1>2. CASE rest = {}
  <2>1. Disk!Answer(f) = 0 - 1
    BY <1>2 DEF Disk!Answer, Disk!None
  <2> QED BY <1>2, <2>1
<1>3. CASE rest # {}
  <2>1. rest \subseteq Nat
    BY <1>1
  <2>2. Disk!Answer(f) = CHOOSE i \in rest : \A j \in rest : i <= j
    BY <1>3 DEF Disk!Answer
  <2>3. \A j : j \in rest <=> j \in f.index..(Len(f.entries) + 1) /\ Disk!Shown(f, j)
    OBVIOUS
  <2> HIDE DEF rest
  <2>4. \E i \in rest : \A j \in rest : i <= j
    BY <1>3, <2>1, LeastNatural
  <2>5. Disk!Answer(f) \in rest /\ \A j \in rest : Disk!Answer(f) <= j
    BY <2>2, <2>4
  <2>6. \A j \in f.index..(Len(f.entries) + 1) : j < Disk!Answer(f) => ~Disk!Shown(f, j)
    BY <1>1, <2>1, <2>3, <2>5
  <2> QED BY <2>3, <2>5, <2>6
<1> QED BY <1>2, <1>3

\* A name that stays and is not shown does not match.
LEMMA NotShown ==
    ASSUME NEW f \in OpenFile, ListingInv(f, tree), NEW k \in DOMAIN f.entries, ~Disk!Shown(f, k + 1)
    PROVE  ~(Disk!Matches(f.pattern, f.entries[k]) /\ f.entries[k] \in f.stay)
<1>1. k \in Nat \ {0}
  BY DEF OpenFile
<1>2. ~(k + 1 < 2) /\ (k + 1) - 1 = k
  BY <1>1
<1>3. ~(Disk!Matches(f.pattern, f.entries[k]) /\ Disk!Exists(f.entries[k]))
  BY <1>2 DEF Disk!Shown
<1> QED BY <1>3 DEF ListingInv, Disk!Exists, Disk!None


\* A listing advances: it passes names that are not shown, and gives at most one.
LEMMA Passes ==
    ASSUME NEW f \in OpenFile, ListingInv(f, tree), NEW g \in OpenFile, g.entries = f.entries,
           g.pattern = f.pattern, g.stay = f.stay, g.got = f.got, f.index <= g.index,
           \A k \in DOMAIN f.entries : f.index <= k + 1 /\ k + 1 < g.index => ~Disk!Shown(f, k + 1)
    PROVE  ListingInv(g, tree)
<1>1. f.index \in Nat /\ g.index \in Nat /\ DOMAIN f.entries \subseteq Nat
  BY DEF OpenFile
<1>2. Given(f) \subseteq Given(g)
  BY <1>1 DEF Given
<1>3. ASSUME NEW k \in Given(g), Disk!Matches(f.pattern, f.entries[k]), f.entries[k] \in f.stay
      PROVE  k \in Given(f)
  BY <1>1, <1>3, NotShown DEF Given
<1>4. /\ IsInjective(f.entries) /\ IsInjective(f.got)
      /\ \A j \in DOMAIN f.got : \E k \in Given(f) : f.got[j] = f.entries[k]
      /\ \A k \in Given(f) :
            Disk!Matches(f.pattern, f.entries[k]) /\ f.entries[k] \in f.stay
            => \E j \in DOMAIN f.got : f.got[j] = f.entries[k]
      /\ \A n \in f.stay : tree[n] # 0 /\ \E k \in DOMAIN f.entries : f.entries[k] = n
  BY DEF ListingInv
<1>5. \A j \in DOMAIN g.got : \E k \in Given(g) : g.got[j] = g.entries[k]
  BY <1>2, <1>4
<1>6. \A k \in Given(g) :
         Disk!Matches(g.pattern, g.entries[k]) /\ g.entries[k] \in g.stay
         => \E j \in DOMAIN g.got : g.got[j] = g.entries[k]
  BY <1>3, <1>4
<1> QED BY <1>4, <1>5, <1>6 DEF ListingInv

\* It gives one: a name it had not given yet.
LEMMA Gives ==
    ASSUME NEW f \in OpenFile, ListingInv(f, tree), NEW g \in OpenFile, NEW m \in DOMAIN f.entries,
           g.entries = f.entries, g.pattern = f.pattern, g.stay = f.stay,
           g.got = Append(f.got, f.entries[m]), f.index <= m + 1, g.index = m + 2,
           \A k \in DOMAIN f.entries : f.index <= k + 1 /\ k < m => ~Disk!Shown(f, k + 1)
    PROVE  ListingInv(g, tree)
<1>1. f.index \in Nat /\ g.index \in Nat /\ DOMAIN f.entries \subseteq Nat /\ m \in Nat
  BY DEF OpenFile
<1> DEFINE n == Len(f.got)
<1>2. /\ n \in Nat /\ DOMAIN f.got = 1..n /\ DOMAIN g.got = 1..(n + 1)
      /\ g.got[n + 1] = f.entries[m] /\ \A j \in 1..n : g.got[j] = f.got[j]
  BY DEF OpenFile
<1> HIDE DEF n
<1>3. Given(f) \subseteq Given(g) /\ m \in Given(g) /\ m \notin Given(f)
  BY <1>1 DEF Given
<1>4. ASSUME NEW k \in Given(g), Disk!Matches(f.pattern, f.entries[k]), f.entries[k] \in f.stay
      PROVE  k = m \/ k \in Given(f)
  BY <1>1, <1>4, NotShown DEF Given
<1>5. /\ IsInjective(f.entries) /\ IsInjective(f.got)
      /\ \A j \in DOMAIN f.got : \E k \in Given(f) : f.got[j] = f.entries[k]
      /\ \A k \in Given(f) :
            Disk!Matches(f.pattern, f.entries[k]) /\ f.entries[k] \in f.stay
            => \E j \in DOMAIN f.got : f.got[j] = f.entries[k]
      /\ \A x \in f.stay : tree[x] # 0 /\ \E k \in DOMAIN f.entries : f.entries[k] = x
  BY DEF ListingInv
<1>6. \A j \in 1..n : f.got[j] # f.entries[m]
  <2> SUFFICES ASSUME NEW j \in 1..n PROVE f.got[j] # f.entries[m]
    OBVIOUS
  <2>1. PICK k \in Given(f) : f.got[j] = f.entries[k]
    BY <1>2, <1>5
  <2>2. k \in DOMAIN f.entries /\ k # m
    BY <1>3 DEF Given
  <2> QED BY <1>5, <2>1, <2>2 DEF IsInjective
<1>7. IsInjective(g.got)
  <2> SUFFICES ASSUME NEW a \in 1..(n + 1), NEW b \in 1..(n + 1), g.got[a] = g.got[b]
               PROVE  a = b
    BY <1>2 DEF IsInjective
  <2>1. CASE a \in 1..n /\ b \in 1..n
    <3>1. f.got[a] = g.got[a] /\ f.got[b] = g.got[b]
      BY <1>2, <2>1
    <3>2. a \in DOMAIN f.got /\ b \in DOMAIN f.got /\ f.got[a] = f.got[b]
      BY <1>2, <2>1, <3>1
    <3>3. IsInjective(f.got)
      BY <1>5
    <3> QED BY <3>2, <3>3, Zenon DEF IsInjective
  <2>2. CASE a = n + 1 \/ b = n + 1
    <3>1. a = n + 1 \/ a \in 1..n
      BY <1>2
    <3>2. b = n + 1 \/ b \in 1..n
      BY <1>2
    <3> QED BY <1>2, <1>6, <2>2, <3>1, <3>2
  <2> QED BY <1>2, <2>1, <2>2
<1>8. \A j \in DOMAIN g.got : \E k \in Given(g) : g.got[j] = g.entries[k]
  <2> SUFFICES ASSUME NEW j \in 1..(n + 1) PROVE \E k \in Given(g) : g.got[j] = g.entries[k]
    BY <1>2
  <2>1. CASE j = n + 1
    BY <1>2, <1>3, <2>1
  <2>2. CASE j \in 1..n
    BY <1>2, <1>3, <1>5, <2>2
  <2> QED BY <1>2, <2>1, <2>2
<1>9. ASSUME NEW k \in Given(g), Disk!Matches(g.pattern, g.entries[k]), g.entries[k] \in g.stay
      PROVE  \E j \in DOMAIN g.got : g.got[j] = g.entries[k]
  <2>1. CASE k = m
    <3>1. n + 1 \in DOMAIN g.got /\ g.got[n + 1] = g.entries[k]
      BY <1>2, <2>1
    <3> QED BY <3>1
  <2>2. CASE k \in Given(f)
    <3>1. PICK j \in DOMAIN f.got : f.got[j] = f.entries[k]
      BY <1>5, <1>9, <2>2
    <3>2. j \in DOMAIN g.got /\ g.got[j] = g.entries[k]
      BY <1>2, <3>1
    <3> QED BY <3>2
  <2> QED BY <1>4, <1>9, <2>1, <2>2
<1> QED BY <1>5, <1>7, <1>8, <1>9 DEF ListingInv


\* handleQueryDirectory: it starts again, gives the next name, or ends.
LEMMA Lists ==
    ASSUME DiskInv, NEW id \in DOMAIN files, NEW initial \in BOOLEAN, NEW pattern \in Names \cup {"*"},
           Disk!HandleQueryDirectory(id, initial, pattern)
    PROVE  DiskInv'
<1>1. UNCHANGED <<readOnly, tree, kind, size, nextID, fds, astray, touched, refused>>
  BY DEF Disk!HandleQueryDirectory
<1>2. CASE files' = files
  BY <1>1, <1>2 DEF DiskInv, DiskTypes, Disk!ReadOnlyKept, Disk!FailedCreateHarmless
<1>3. CASE ~(initial /\ files[id].path # Root)
  <2>1. PICK f : f = IF initial THEN Disk!Restart(files[id], pattern) ELSE files[id]
    OBVIOUS
  <2>2. f \in OpenFile /\ PathMeans(f, tree) /\ ListingInv(f, tree)
    <3>1. files[id] \in OpenFile /\ PathMeans(files[id], tree) /\ ListingInv(files[id], tree)
      BY DEF DiskInv, DiskTypes
    <3> QED BY <2>1, <3>1, RestartsListing
  <2>3. PICK i : i = Disk!Answer(f)
    OBVIOUS
  <2> DEFINE last == IF f.started THEN Len(f.entries) + 2 ELSE f.index
             kept == [f EXCEPT !.index = last]
             g1 == [f EXCEPT !.index = i + 1]
             more == IF i < 2 THEN f.got ELSE Append(f.got, f.entries[i - 1])
             g2 == [g1 EXCEPT !.got = more]
  <2>4. files' = [files EXCEPT ![id] = IF i < 0 THEN kept ELSE g2]
    BY <1>3, <2>1, <2>3 DEF Disk!HandleQueryDirectory
  <2>5. f.index \in Nat /\ Len(f.entries) \in Nat /\ DOMAIN f.entries = 1..Len(f.entries)
    BY <2>2 DEF OpenFile
  <2>6. CASE ~f.started
    <3>1. i = 0 - 1
      BY <2>3, <2>6 DEF Disk!Answer, Disk!None
    <3>2. kept = f
      BY <2>2, <2>6 DEF OpenFile
    <3> HIDE DEF kept, g2
    <3>3. files' = [files EXCEPT ![id] = f]
      BY <2>4, <3>1, <3>2
    <3> QED BY <1>1, <2>2, <3>3, OneFile
  <2>7. CASE f.started /\ i = 0 - 1
    <3>1. files' = [files EXCEPT ![id] = kept]
      BY <2>4, <2>7
    <3>2. last \in Nat /\ last = Len(f.entries) + 2
      BY <2>5, <2>7
    <3> HIDE DEF last
    <3>3. /\ kept \in OpenFile /\ kept.entries = f.entries /\ kept.pattern = f.pattern
          /\ kept.stay = f.stay /\ kept.got = f.got /\ kept.index = last
          /\ kept.path = f.path /\ kept.obj = f.obj
      BY <2>2, <3>2 DEF OpenFile
    <3>4. kept.moved = f.moved
      BY <2>2, <3>2, Zenon DEF OpenFile
    <3> HIDE DEF kept
    <3>5. \A j \in f.index..(Len(f.entries) + 1) : ~Disk!Shown(f, j)
      <4>1. i \notin f.index..(Len(f.entries) + 1)
        BY <2>5, <2>7
      <4> QED BY <2>2, <2>3, <2>7, <4>1, NextAnswer
    <3>6. \A k \in DOMAIN f.entries : f.index <= k + 1 => ~Disk!Shown(f, k + 1)
      BY <2>5, <3>5
    <3>7. ListingInv(kept, tree)
      <4>1. CASE f.index <= last
        BY <2>2, <3>3, <3>6, <4>1, Passes
      <4>2. CASE ~(f.index <= last)
        <5>1. Given(kept) = DOMAIN f.entries /\ Given(f) = DOMAIN f.entries
          BY <2>5, <3>2, <3>3, <4>2 DEF Given
        <5> QED BY <2>2, <3>3, <5>1 DEF ListingInv
      <4> QED BY <4>1, <4>2
    <3>8. PathMeans(kept, tree)
      BY <2>2, <3>3, <3>4 DEF PathMeans
    <3> QED BY <1>1, <3>1, <3>3, <3>7, <3>8, OneFile
  <2>8. CASE f.started /\ i # 0 - 1
    <3>1. /\ i \in f.index..(Len(f.entries) + 1) /\ Disk!Shown(f, i)
          /\ \A j \in f.index..(Len(f.entries) + 1) : j < i => ~Disk!Shown(f, j)
      BY <2>2, <2>3, <2>8, NextAnswer
    <3>2. i \in Nat /\ f.index <= i /\ i <= Len(f.entries) + 1
      BY <2>5, <3>1
    <3>3. files' = [files EXCEPT ![id] = g2]
      <4>1. ~(i < 0)
        BY <3>2
      <4> HIDE DEF kept, g2
      <4> QED BY <2>4, <4>1
    <3>4. more \in Seq(Names)
      <4>1. CASE i < 2
        BY <2>2, <4>1 DEF OpenFile
      <4>2. CASE ~(i < 2)
        <5>1. i - 1 \in DOMAIN f.entries
          BY <2>5, <3>2, <4>2
        <5>2. f.entries[i - 1] \in Names /\ f.got \in Seq(Names)
          BY <2>2, <5>1 DEF OpenFile
        <5> QED BY <4>2, <5>2
      <4> QED BY <4>1, <4>2
    <3>5. (i < 2 => more = f.got) /\ (~(i < 2) => more = Append(f.got, f.entries[i - 1]))
      OBVIOUS
    <3> HIDE DEF more
    <3>6. /\ g1 \in OpenFile /\ g1.entries = f.entries /\ g1.pattern = f.pattern
          /\ g1.stay = f.stay /\ g1.index = i + 1 /\ g1.path = f.path /\ g1.obj = f.obj
      BY <2>2, <3>2 DEF OpenFile
    <3>7. g1.moved = f.moved
      BY <2>2, Zenon DEF OpenFile
    <3> HIDE DEF g1
    <3>8. /\ g2 \in OpenFile /\ g2.entries = f.entries /\ g2.pattern = f.pattern
          /\ g2.stay = f.stay /\ g2.got = more /\ g2.index = i + 1
          /\ g2.path = f.path /\ g2.obj = f.obj
      BY <3>4, <3>6 DEF OpenFile
    <3>9. g2.moved = f.moved
      BY <3>6, <3>7, Zenon DEF OpenFile
    <3> HIDE DEF g2
    <3>10. \A k \in DOMAIN f.entries : f.index <= k + 1 /\ k + 1 < i => ~Disk!Shown(f, k + 1)
      BY <2>5, <3>1
    <3>11. ListingInv(g2, tree)
      <4>1. CASE i < 2
        <5>1. \A k \in DOMAIN f.entries : f.index <= k + 1 /\ k + 1 < g2.index => ~Disk!Shown(f, k + 1)
          BY <2>5, <3>2, <3>8, <4>1
        <5>2. f.index <= g2.index /\ g2.got = f.got
          BY <2>5, <3>2, <3>5, <3>8, <4>1
        <5> QED BY <2>2, <3>8, <5>1, <5>2, Passes
      <4>2. CASE ~(i < 2)
        <5>1. PICK m \in DOMAIN f.entries : m = i - 1
          BY <2>5, <3>2, <4>2
        <5>2. f.index <= m + 1 /\ g2.index = m + 2 /\ g2.got = Append(f.got, f.entries[m])
          BY <2>5, <3>2, <3>5, <3>8, <4>2, <5>1
        <5>3. \A k \in DOMAIN f.entries : f.index <= k + 1 /\ k < m => ~Disk!Shown(f, k + 1)
          BY <2>5, <3>2, <3>10, <5>1
        <5> QED BY <2>2, <3>8, <5>2, <5>3, Gives
      <4> QED BY <4>1, <4>2
    <3>12. PathMeans(g2, tree)
      BY <2>2, <3>8, <3>9 DEF PathMeans
    <3> QED BY <1>1, <3>3, <3>8, <3>11, <3>12, OneFile
  <2> QED BY <2>6, <2>7, <2>8
<1> QED BY <1>2, <1>3 DEF Disk!HandleQueryDirectory

\* Every step of the shared directory keeps its invariant.
LEMMA DiskSteps == DiskInv /\ [Disk!Next]_diskVars => DiskInv'
<1> SUFFICES ASSUME DiskInv, [Disk!Next]_diskVars PROVE DiskInv'
  OBVIOUS
<1>1. CASE UNCHANGED diskVars
  BY <1>1 DEF diskVars, DiskInv, DiskTypes, Disk!ReadOnlyKept, Disk!FailedCreateHarmless
<1>2. CASE \E n \in Names :
             Disk!UserMakes(n) \/ Disk!UserDeletes(n) \/ \E to \in Names : Disk!UserRenames(n, to)
  <2>1. PICK n \in Names :
           Disk!UserMakes(n) \/ Disk!UserDeletes(n) \/ \E to \in Names : Disk!UserRenames(n, to)
    BY <1>2
  <2>2. n \in Disk!Paths /\ tree \in Trees /\ kind \in Kinds
    BY DEF DiskInv, DiskTypes, Disk!Paths
  <2>3. CASE Disk!UserMakes(n)
    <3>1. PICK o \in Disk!Objects : o = Disk!Fresh
      BY <2>3, FreshObject DEF Disk!UserMakes
    <3>2. [tree EXCEPT ![n] = o] \in Trees /\ [kind EXCEPT ![o] = "file"] \in Kinds
      BY <2>2 DEF Trees, Kinds
    <3>3. Disk!UserChanges([tree EXCEPT ![n] = o], [kind EXCEPT ![o] = "file"])
      BY <2>3, <3>1 DEF Disk!UserMakes
    <3> QED BY <3>2, <3>3, UserSteps
  <2>4. CASE Disk!UserDeletes(n)
    <3>1. [tree EXCEPT ![n] = 0] \in Trees
      BY <2>2 DEF Trees
    <3>2. Disk!UserChanges([tree EXCEPT ![n] = 0], kind)
      BY <2>4 DEF Disk!UserDeletes, Disk!None
    <3> QED BY <2>2, <3>1, <3>2, UserSteps
  <2>5. ASSUME NEW to \in Names, Disk!UserRenames(n, to) PROVE DiskInv'
    <3> DEFINE t1 == [tree EXCEPT ![to] = tree[n]]
               t2 == [t1 EXCEPT ![n] = 0]
    <3>1. t1 \in Trees
      BY <2>2 DEF Trees, Disk!Paths
    <3>2. Disk!UserChanges(t2, kind)
      BY <2>5 DEF Disk!UserRenames, Disk!None
    <3> HIDE DEF t1
    <3>3. t2 \in Trees
      BY <2>2, <3>1 DEF Trees
    <3> HIDE DEF t2
    <3> QED BY <2>2, <3>2, <3>3, UserSteps
  <2> QED BY <2>1, <2>3, <2>4, <2>5
<1>3. ASSUME NEW id \in 1..nextID, Disk!HandleClose(id) PROVE DiskInv'
  BY <1>3, Closes
<1> QED BY <1>1, <1>2, <1>3, Creates, Writes, Queries, Disposes, Renames, Lists DEF Disk!Next

\* THEOREM.  A directory shared read-only is only changed by closing a handle that
\* deletes, no file stays open without a handle, a handle and its path mean the same
\* object unless something else was put there, a listing gives every name that stays
\* once, and a create that fails changes nothing except at the limit on open files: for
\* every set of names and number of files, handles, requests and changes of the user.
THEOREM DiskAlwaysFaithful == MCSpec => []DiskFaithful
<1>1. MCInit => DiskInv
  BY DiskStarts DEF MCInit
<1>2. DiskInv /\ [MCNext]_mcVars => DiskInv'
  <2>1. [MCNext]_mcVars => [Disk!Next]_diskVars
    BY DEF MCNext, mcVars
  <2> QED BY <2>1, DiskSteps
<1>3. DiskInv => DiskFaithful
  <2> SUFFICES ASSUME DiskInv PROVE DiskFaithful
    OBVIOUS
  <2>1. Disk!FilesAreHandles
    BY FileCount DEF DiskInv, Disk!FilesAreHandles
  <2>2. Disk!ListedOnce
    <3>1. ASSUME NEW h \in DOMAIN files
          PROVE  /\ Disk!IsInjective(files[h].got)
                 /\ files[h].started /\ Disk!Answer(files[h]) < 0
                    => {n \in files[h].stay : Disk!Matches(files[h].pattern, n)} \subseteq Disk!ToSet(files[h].got)
      <4>1. PICK f : f = files[h]
        OBVIOUS
      <4>2. f \in OpenFile /\ ListingInv(f, tree)
        BY <4>1 DEF DiskInv, DiskTypes
      <4>3. Disk!IsInjective(f.got)
        BY <4>2 DEF ListingInv, IsInjective, Disk!IsInjective
      <4>4. ASSUME f.started, Disk!Answer(f) < 0, NEW n \in f.stay, Disk!Matches(f.pattern, n)
            PROVE  n \in Disk!ToSet(f.got)
        <5>1. f.index \in Nat /\ Len(f.entries) \in Nat /\ DOMAIN f.entries = 1..Len(f.entries)
          BY <4>2 DEF OpenFile
        <5>2. \A j \in f.index..(Len(f.entries) + 1) : ~Disk!Shown(f, j)
          BY <4>2, <4>4, <5>1, NextAnswer
        <5>3. PICK k \in DOMAIN f.entries : f.entries[k] = n
          BY <4>2, <4>4 DEF ListingInv
        <5>4. ~(f.index <= k + 1)
          BY <4>2, <4>4, <5>1, <5>2, <5>3, NotShown
        <5>5. k \in Given(f)
          BY <5>1, <5>3, <5>4 DEF Given
        <5>6. \E j \in DOMAIN f.got : f.got[j] = n
          BY <4>2, <4>4, <5>3, <5>5 DEF ListingInv
        <5> QED BY <5>6 DEF Disk!ToSet
      <4> QED BY <4>1, <4>3, <4>4
    <3> QED BY <3>1 DEF Disk!ListedOnce
  <2> QED BY <2>1, <2>2 DEF DiskInv, DiskFaithful, Disk!DiskFaithful, Disk!PathIsHandle
<1> QED BY <1>1, <1>2, <1>3, PTL DEF MCSpec

(***************************************************************************)
(* The channel with its printers.                                          *)
(***************************************************************************)

HandshakeTypes == {"announce", "caps", "confirm", "logon"}
RequestTypes == {"create", "write", "close", "read", "unknown"}
Message == [t : HandshakeTypes]
           \cup [t : {"create", "read", "unknown"}, cid : Redir!Cids]
           \cup [t : {"write"}, job : Nat, data : Chunks, cid : Redir!Cids]
           \cup [t : {"close"}, job : Nat, cid : Redir!Cids]
           \cup [t : {"add", "update"}, of : Printers]
Document == [job : Nat, data : Seq(Chunks)]
IsRequest(m) == m.t \in RequestTypes

RedirTypes ==
    /\ inbox \in Seq(Message) /\ handshakes \in Nat
    /\ gotServerCap \in BOOLEAN /\ gotIDConfirm \in BOOLEAN
    /\ held = <<>> \/ \E m \in Message : IsRequest(m) /\ held = <<m>>
    /\ nextJob \in Nat /\ printed \in Seq(Document)
    /\ jobs = [j \in DOMAIN jobs |-> jobs[j]] /\ wrote = [j \in DOMAIN wrote |-> wrote[j]]
    /\ DOMAIN jobs \subseteq DOMAIN wrote /\ DOMAIN wrote \subseteq 0..(nextJob - 1)
    /\ \A j \in DOMAIN jobs : jobs[j] \in Seq(Chunks)
    /\ owed \subseteq Redir!Cids
    /\ cachedConfig \in [Printers -> SUBSET Printers]

\* In the first handshake each message of it comes once, the client has sent what the
\* messages it handled call for, and the logon comes after the client's capabilities.
FirstHandshake ==
    /\ \A t \in HandshakeTypes :
          /\ \A i, k \in DOMAIN inbox : inbox[i].t = t /\ inbox[k].t = t => i = k
          /\ \A i \in DOMAIN inbox : inbox[i].t = t => t \notin heard
    /\ gotServerCap <=> "caps" \in heard
    /\ gotIDConfirm <=> "confirm" \in heard
    /\ \A m \in {"reply", "name"} : m \in sent <=> "announce" \in heard
    /\ \A m \in {"caps", "early"} : m \in sent <=> {"caps", "confirm"} \subseteq heard
    /\ "late" \in sent <=> "logon" \in heard
    /\ "logon" \in heard => {"caps", "confirm"} \subseteq heard
    /\ \A i \in DOMAIN inbox : inbox[i].t = "logon" => {"caps", "confirm"} \subseteq heard
HandshakeInv ==
    /\ \A r \in repeated : r[1] > 1
    /\ handshakes = 0 => inbox = <<>> /\ sent = {} /\ heard = {}
    /\ handshakes <= 1 => FirstHandshake

\* The completion ids of the requests that are queued or hold the loop are distinct,
\* and are what the server waits for.
Queued(c) == \E k \in DOMAIN inbox : IsRequest(inbox[k]) /\ inbox[k].cid = c
Held(c) == \E i \in DOMAIN held : held[i].cid = c
CompletionInv ==
    /\ ~stray
    /\ \A c \in Redir!Cids : c \in owed <=> Queued(c) \/ Held(c)
    /\ \A c \in Redir!Cids : ~(Queued(c) /\ Held(c))
    /\ \A i, k \in DOMAIN inbox :
          IsRequest(inbox[i]) /\ IsRequest(inbox[k]) /\ inbox[i].cid = inbox[k].cid => i = k

\* A job that was printed is closed.
PrintInv ==
    /\ \A i \in DOMAIN printed : printed[i].job \in DOMAIN wrote \ DOMAIN jobs
    /\ Redir!PrintedWhole

RedirInv == RedirTypes /\ HandshakeInv /\ CompletionInv /\ PrintInv /\ Redir!MisplacedByAdd


\* What the messages carry.
LEMMA MessageFields ==
    ASSUME NEW m \in Message
    PROVE  /\ m.t \in HandshakeTypes \cup RequestTypes \cup {"add", "update"}
           /\ IsRequest(m) <=> m.t \notin HandshakeTypes \cup {"add", "update"}
           /\ IsRequest(m) <=> "cid" \in DOMAIN m
           /\ IsRequest(m) => m.cid \in Redir!Cids
           /\ m.t \in {"write", "close"} => m.job \in Nat
           /\ m.t = "write" => m.data \in Chunks
           /\ m.t \in {"add", "update"} => m.of \in Printers
<1> USE DEF Message, HandshakeTypes, RequestTypes, IsRequest
<1>1. CASE m \in [t : HandshakeTypes]
  BY <1>1
<1>2. CASE m \in [t : {"create", "read", "unknown"}, cid : Redir!Cids]
  BY <1>2
<1>3. CASE m \in [t : {"write"}, job : Nat, data : Chunks, cid : Redir!Cids]
  BY <1>3
<1>4. CASE m \in [t : {"close"}, job : Nat, cid : Redir!Cids]
  BY <1>4
<1>5. CASE m \in [t : {"add", "update"}, of : Printers]
  BY <1>5
<1> QED BY <1>1, <1>2, <1>3, <1>4, <1>5

\* Posting and taking a message.
LEMMA QueuePosts ==
    ASSUME RedirTypes, NEW m \in Message, inbox' = Append(inbox, m)
    PROVE  /\ inbox' \in Seq(Message)
           /\ Len(inbox) + 1 \notin DOMAIN inbox /\ DOMAIN inbox' = DOMAIN inbox \cup {Len(inbox) + 1}
           /\ inbox'[Len(inbox) + 1] = m
           /\ \A i \in DOMAIN inbox : inbox'[i] = inbox[i]
BY DEF RedirTypes

\* Taking one: what is left moves up.
LEMMA QueueTakes ==
    ASSUME RedirTypes, inbox # <<>>, inbox' = Tail(inbox)
    PROVE  /\ inbox' \in Seq(Message) /\ Head(inbox) \in Message
           /\ 1 \in DOMAIN inbox /\ Head(inbox) = inbox[1]
           /\ \A i \in DOMAIN inbox' : /\ i \in Nat /\ i + 1 # 1 /\ i + 1 \in DOMAIN inbox
                                       /\ inbox'[i] = inbox[i + 1]
           /\ \A k \in DOMAIN inbox : k # 1 => \E i \in DOMAIN inbox' : k = i + 1
<1>1. Len(inbox) \in Nat /\ Len(inbox) # 0 /\ DOMAIN inbox = 1..Len(inbox)
  BY DEF RedirTypes
<1>2. inbox' \in Seq(Message) /\ Len(inbox') = Len(inbox) - 1 /\ DOMAIN inbox' = 1..(Len(inbox) - 1)
  BY <1>1 DEF RedirTypes
<1>3. \A i \in DOMAIN inbox' : inbox'[i] = inbox[i + 1]
  BY <1>1, <1>2 DEF RedirTypes
<1>4. Head(inbox) = inbox[1] /\ Head(inbox) \in Message
  BY <1>1 DEF RedirTypes
<1>5. \A i \in DOMAIN inbox' : i \in Nat /\ i + 1 # 1 /\ i + 1 \in DOMAIN inbox
  BY <1>1, <1>2
<1>6. ASSUME NEW k \in DOMAIN inbox, k # 1 PROVE \E i \in DOMAIN inbox' : k = i + 1
  <2>1. k - 1 \in DOMAIN inbox' /\ k = (k - 1) + 1
    BY <1>1, <1>2, <1>6
  <2> QED BY <2>1
<1> QED BY <1>1, <1>2, <1>3, <1>4, <1>5, <1>6

\* It holds at the start.
LEMMA RedirStarts == Redir!Init => RedirInv
<1> SUFFICES ASSUME Redir!Init PROVE RedirInv
  OBVIOUS
<1> USE DEF Redir!Init
<1>0. /\ DOMAIN inbox = {} /\ DOMAIN jobs = {} /\ DOMAIN wrote = {} /\ DOMAIN printed = {}
      /\ DOMAIN held = {} /\ jobs = [j \in {} |-> jobs[j]] /\ wrote = [j \in {} |-> wrote[j]]
  OBVIOUS
<1>1. RedirTypes
  <2>1. cachedConfig \in [Printers -> SUBSET Printers]
    OBVIOUS
  <2>2. inbox \in Seq(Message) /\ printed \in Seq(Document)
    OBVIOUS
  <2> QED BY <1>0, <2>1, <2>2 DEF RedirTypes
<1>2. HandshakeInv
  BY <1>0 DEF HandshakeInv, FirstHandshake
<1>3. CompletionInv
  BY <1>0 DEF CompletionInv, Queued, Held
<1>4. PrintInv
  BY <1>0 DEF PrintInv, Redir!PrintedWhole
<1>5. Redir!MisplacedByAdd
  BY DEF Redir!MisplacedByAdd
<1> QED BY <1>1, <1>2, <1>3, <1>4, <1>5 DEF RedirInv


\* The server takes a completion id that is not out.
LEMMA NextIsFree == Redir!Cids \ owed # {} => Redir!NextCid \in Redir!Cids \ owed
<1> SUFFICES ASSUME Redir!Cids \ owed # {} PROVE Redir!NextCid \in Redir!Cids \ owed
  OBVIOUS
<1>1. Redir!Cids \ owed \subseteq Nat
  BY DevicesAssumption DEF DevicesAssumption, Redir!Cids
<1>2. \E c \in Redir!Cids \ owed : \A d \in Redir!Cids \ owed : c <= d
  BY <1>1, LeastNatural
<1> QED BY <1>2 DEF Redir!NextCid

\* The jobs and the stored settings do not see the channel.
LEMMA OthersKept ==
    ASSUME RedirInv, UNCHANGED <<jobs, nextJob, wrote, printed, cachedConfig, added>>
    PROVE  PrintInv' /\ Redir!MisplacedByAdd'
BY DEF RedirInv, PrintInv, Redir!PrintedWhole, Redir!MisplacedByAdd

\* What is posted that is no request changes nothing of the completions.
LEMMA PostsNoRequest ==
    ASSUME RedirInv, NEW m \in Message, ~IsRequest(m), inbox' = Append(inbox, m),
           UNCHANGED <<held, owed, stray>>
    PROVE  CompletionInv'
<1>1. /\ Len(inbox) + 1 \notin DOMAIN inbox /\ DOMAIN inbox' = DOMAIN inbox \cup {Len(inbox) + 1}
      /\ inbox'[Len(inbox) + 1] = m
      /\ \A i \in DOMAIN inbox : inbox'[i] = inbox[i]
  BY QueuePosts DEF RedirInv
<1>2. \A i \in DOMAIN inbox' : IsRequest(inbox'[i]) => i \in DOMAIN inbox /\ inbox'[i] = inbox[i]
  BY <1>1
<1>3. ASSUME NEW c PROVE Queued(c)' <=> Queued(c)
  BY <1>1, <1>2 DEF Queued
<1>4. ASSUME NEW c PROVE Held(c)' <=> Held(c)
  BY DEF Held
<1>5. \A i, k \in DOMAIN inbox' :
         IsRequest(inbox'[i]) /\ IsRequest(inbox'[k]) /\ inbox'[i].cid = inbox'[k].cid => i = k
  BY <1>2 DEF RedirInv, CompletionInv
<1> QED BY <1>3, <1>4, <1>5 DEF RedirInv, CompletionInv

\* A request that is posted is owed.
LEMMA PostsRequest ==
    ASSUME RedirInv, NEW m \in Message, IsRequest(m), m.cid \notin owed,
           inbox' = Append(inbox, m), owed' = owed \cup {m.cid}, UNCHANGED <<held, stray>>
    PROVE  CompletionInv' /\ owed' \subseteq Redir!Cids
<1>1. /\ Len(inbox) + 1 \notin DOMAIN inbox /\ DOMAIN inbox' = DOMAIN inbox \cup {Len(inbox) + 1}
      /\ inbox'[Len(inbox) + 1] = m
      /\ \A i \in DOMAIN inbox : inbox'[i] = inbox[i]
  BY QueuePosts DEF RedirInv
<1>2. m.cid \in Redir!Cids
  BY MessageFields
<1>3. ~Queued(m.cid) /\ ~Held(m.cid)
  BY <1>2 DEF RedirInv, CompletionInv
<1>4. ASSUME NEW c PROVE Queued(c)' <=> Queued(c) \/ c = m.cid
  BY <1>1 DEF Queued
<1>5. ASSUME NEW c PROVE Held(c)' <=> Held(c)
  BY DEF Held
<1>6. ASSUME NEW i \in DOMAIN inbox', NEW k \in DOMAIN inbox', IsRequest(inbox'[i]),
             IsRequest(inbox'[k]), inbox'[i].cid = inbox'[k].cid
      PROVE  i = k
  <2>1. CASE i \in DOMAIN inbox /\ k \in DOMAIN inbox
    BY <1>1, <1>6, <2>1 DEF RedirInv, CompletionInv
  <2>2. CASE i = Len(inbox) + 1 /\ k \in DOMAIN inbox
    BY <1>1, <1>3, <1>6, <2>2 DEF Queued
  <2>3. CASE i \in DOMAIN inbox /\ k = Len(inbox) + 1
    BY <1>1, <1>3, <1>6, <2>3 DEF Queued
  <2> QED BY <1>1, <2>1, <2>2, <2>3
<1>7. owed' \subseteq Redir!Cids
  BY <1>2 DEF RedirInv, RedirTypes
<1>8. \A c \in Redir!Cids : c \in owed' <=> Queued(c)' \/ Held(c)'
  BY <1>4, <1>5 DEF RedirInv, CompletionInv
<1>9. \A c \in Redir!Cids : ~(Queued(c)' /\ Held(c)')
  BY <1>3, <1>4, <1>5 DEF RedirInv, CompletionInv
<1>10. ~stray'
  BY DEF RedirInv, CompletionInv
<1> QED BY <1>6, <1>7, <1>8, <1>9, <1>10 DEF CompletionInv

\* After the logon the server may post anything but the handshake's messages.
LEMMA PostsAfterLogon ==
    ASSUME RedirInv, NEW m \in Message, m.t \notin HandshakeTypes, inbox' = Append(inbox, m),
           "late" \in sent,
           UNCHANGED <<handshakes, gotServerCap, gotIDConfirm, heard, sent, repeated>>
    PROVE  HandshakeInv'
<1>1. /\ Len(inbox) + 1 \notin DOMAIN inbox /\ DOMAIN inbox' = DOMAIN inbox \cup {Len(inbox) + 1}
      /\ inbox'[Len(inbox) + 1] = m
      /\ \A i \in DOMAIN inbox : inbox'[i] = inbox[i]
  BY QueuePosts DEF RedirInv
<1>2. \A i \in DOMAIN inbox' :
         inbox'[i].t \in HandshakeTypes => i \in DOMAIN inbox /\ inbox'[i] = inbox[i]
  BY <1>1
<1>3. handshakes # 0
  BY DEF RedirInv, HandshakeInv
<1>4. FirstHandshake => FirstHandshake'
  <2> SUFFICES ASSUME FirstHandshake PROVE FirstHandshake'
    OBVIOUS
  <2>1. ASSUME NEW t \in HandshakeTypes
        PROVE  /\ \A i, k \in DOMAIN inbox' : inbox'[i].t = t /\ inbox'[k].t = t => i = k
               /\ \A i \in DOMAIN inbox' : inbox'[i].t = t => t \notin heard'
    BY <1>2 DEF FirstHandshake
  <2>2. \A i \in DOMAIN inbox' : inbox'[i].t = "logon" => {"caps", "confirm"} \subseteq heard'
    BY <1>2 DEF FirstHandshake, HandshakeTypes
  <2> QED BY <2>1, <2>2 DEF FirstHandshake
<1> QED BY <1>3, <1>4 DEF RedirInv, HandshakeInv


\* The server's actions.
LEMMA AnnouncesAgain == ASSUME RedirInv, Redir!ServerAnnounces PROVE RedirInv'
<1> USE DEF Redir!ServerAnnounces, Redir!Posts, Redir!jobVars, Redir!cacheVars
<1>1. PICK m : m = [t |-> "announce"]
  OBVIOUS
<1>2. m \in Message /\ ~IsRequest(m) /\ m.t = "announce"
  BY <1>1 DEF Message, HandshakeTypes, IsRequest, RequestTypes
<1>3. /\ inbox = <<>> /\ inbox' = Append(inbox, m) /\ handshakes' = handshakes + 1
      /\ heard' = {} /\ sent' = {}
      /\ UNCHANGED <<gotServerCap, gotIDConfirm, repeated, held, jobs, nextJob, wrote, printed,
                     owed, stray, cachedConfig, added>>
  BY <1>1
<1> HIDE DEF Redir!ServerAnnounces
<1>4. CompletionInv'
  BY <1>2, <1>3, PostsNoRequest
<1>5. PrintInv' /\ Redir!MisplacedByAdd'
  BY <1>3, OthersKept
<1>6. inbox' \in Seq(Message) /\ DOMAIN inbox' = {1} /\ inbox'[1] = m
  BY <1>2, <1>3 DEF RedirInv, RedirTypes
<1>7. RedirTypes'
  BY <1>3, <1>6 DEF RedirInv, RedirTypes
<1>8. HandshakeInv'
  <2>1. handshakes \in Nat
    BY DEF RedirInv, RedirTypes
  <2>2. CASE handshakes = 0
    <3>1. ~gotServerCap /\ ~gotIDConfirm
      BY <2>2 DEF RedirInv, HandshakeInv, FirstHandshake
    <3>2. FirstHandshake'
      BY <1>2, <1>3, <1>6, <3>1 DEF FirstHandshake
    <3> QED BY <1>3, <2>1, <2>2, <3>2 DEF RedirInv, HandshakeInv
  <2>3. CASE handshakes # 0
    BY <1>3, <2>1, <2>3 DEF RedirInv, HandshakeInv
  <2> QED BY <2>2, <2>3
<1> QED BY <1>4, <1>5, <1>7, <1>8 DEF RedirInv

\* The server goes on with the handshake: the message has not come yet.
LEMMA Proceeds ==
    ASSUME RedirInv, NEW t \in {"caps", "confirm", "logon"}, Redir!ServerProceeds(t)
    PROVE  RedirInv'
<1> USE DEF Redir!ServerProceeds, Redir!Posts, Redir!jobVars, Redir!cacheVars, Redir!handshakeVars
<1>1. PICK m : m = [t |-> t]
  OBVIOUS
<1>2. m \in Message /\ ~IsRequest(m) /\ m.t = t
  BY <1>1 DEF Message, HandshakeTypes, IsRequest, RequestTypes
<1>3. /\ inbox' = Append(inbox, m) /\ t \notin heard /\ \A i \in DOMAIN inbox : inbox[i].t # t
      /\ IF t = "logon" THEN {"caps", "early"} \subseteq sent /\ {"caps", "confirm"} \subseteq heard
         ELSE "name" \in sent
      /\ UNCHANGED <<handshakes, gotServerCap, gotIDConfirm, heard, sent, repeated, held, jobs,
                     nextJob, wrote, printed, owed, stray, cachedConfig, added>>
  BY <1>1 DEF Redir!Unposted
<1> HIDE DEF Redir!ServerProceeds
<1>4. CompletionInv'
  BY <1>2, <1>3, PostsNoRequest
<1>5. PrintInv' /\ Redir!MisplacedByAdd'
  BY <1>3, OthersKept
<1>6. /\ inbox' \in Seq(Message)
      /\ Len(inbox) + 1 \notin DOMAIN inbox /\ DOMAIN inbox' = DOMAIN inbox \cup {Len(inbox) + 1}
      /\ inbox'[Len(inbox) + 1] = m
      /\ \A i \in DOMAIN inbox : inbox'[i] = inbox[i]
  BY <1>2, <1>3, QueuePosts DEF RedirInv
<1>7. RedirTypes'
  BY <1>3, <1>6 DEF RedirInv, RedirTypes
<1>8. HandshakeInv'
  <2>1. handshakes # 0
    BY <1>3 DEF RedirInv, HandshakeInv
  <2>2. FirstHandshake => FirstHandshake'
    <3> SUFFICES ASSUME FirstHandshake PROVE FirstHandshake'
      OBVIOUS
    <3>1. ASSUME NEW u \in HandshakeTypes
          PROVE  /\ \A i, k \in DOMAIN inbox' : inbox'[i].t = u /\ inbox'[k].t = u => i = k
                 /\ \A i \in DOMAIN inbox' : inbox'[i].t = u => u \notin heard'
      BY <1>2, <1>3, <1>6 DEF FirstHandshake
    <3>2. \A i \in DOMAIN inbox' : inbox'[i].t = "logon" => {"caps", "confirm"} \subseteq heard'
      BY <1>2, <1>3, <1>6 DEF FirstHandshake
    <3> QED BY <1>3, <3>1, <3>2 DEF FirstHandshake
  <2> QED BY <1>3, <2>1, <2>2 DEF RedirInv, HandshakeInv
<1> QED BY <1>4, <1>5, <1>7, <1>8 DEF RedirInv

\* A request takes an id that is free.
LEMMA AsksOne ==
    ASSUME RedirInv, NEW m \in Message, IsRequest(m), m.cid = Redir!NextCid, Redir!Asks(m)
    PROVE  RedirInv'
<1> USE DEF Redir!Asks, Redir!Posts, Redir!jobVars, Redir!cacheVars, Redir!handshakeVars
<1>1. /\ inbox' = Append(inbox, m) /\ "late" \in sent /\ owed' = owed \cup {m.cid}
      /\ Redir!Cids \ owed # {}
      /\ UNCHANGED <<handshakes, gotServerCap, gotIDConfirm, heard, sent, repeated, held, jobs,
                     nextJob, wrote, printed, stray, cachedConfig, added>>
  OBVIOUS
<1> HIDE DEF Redir!Asks
<1>2. m.cid \notin owed
  BY <1>1, NextIsFree
<1>3. CompletionInv' /\ owed' \subseteq Redir!Cids
  BY <1>1, <1>2, PostsRequest
<1>4. PrintInv' /\ Redir!MisplacedByAdd'
  BY <1>1, OthersKept
<1>5. m.t \notin HandshakeTypes
  BY MessageFields
<1>6. HandshakeInv'
  BY <1>1, <1>5, PostsAfterLogon
<1>7. inbox' \in Seq(Message)
  BY <1>1, QueuePosts DEF RedirInv
<1>8. RedirTypes'
  BY <1>1, <1>3, <1>7 DEF RedirInv, RedirTypes
<1> QED BY <1>3, <1>4, <1>6, <1>8 DEF RedirInv

\* Each kind of request does.
LEMMA AsksAny == ASSUME RedirInv, Redir!ServerAsks PROVE RedirInv'
<1>1. PICK c : c = Redir!NextCid
  OBVIOUS
<1>2. ASSUME NEW m, Redir!Asks(m) PROVE c \in Redir!Cids
  BY <1>1, <1>2, NextIsFree DEF Redir!Asks
<1>3. CASE Redir!Asks([t |-> "create", cid |-> c])
  <2>1. PICK m : m = [t |-> "create", cid |-> c]
    OBVIOUS
  <2>2. m \in Message /\ IsRequest(m) /\ m.cid = c
    BY <1>2, <1>3, <2>1 DEF Message, IsRequest, RequestTypes
  <2> QED BY <1>1, <1>3, <2>1, <2>2, AsksOne
<1>4. ASSUME NEW j \in DOMAIN wrote, NEW d \in Chunks,
             Redir!Asks([t |-> "write", job |-> j, data |-> d, cid |-> c])
      PROVE  RedirInv'
  <2>1. PICK m : m = [t |-> "write", job |-> j, data |-> d, cid |-> c]
    OBVIOUS
  <2>2. j \in Nat
    BY DEF RedirInv, RedirTypes
  <2>3. m \in Message /\ IsRequest(m) /\ m.cid = c
    BY <1>2, <1>4, <2>1, <2>2 DEF Message, IsRequest, RequestTypes
  <2> QED BY <1>1, <1>4, <2>1, <2>3, AsksOne
<1>5. ASSUME NEW j \in DOMAIN wrote, Redir!Asks([t |-> "close", job |-> j, cid |-> c])
      PROVE  RedirInv'
  <2>1. PICK m : m = [t |-> "close", job |-> j, cid |-> c]
    OBVIOUS
  <2>2. j \in Nat
    BY DEF RedirInv, RedirTypes
  <2>3. m \in Message /\ IsRequest(m) /\ m.cid = c
    BY <1>2, <1>5, <2>1, <2>2 DEF Message, IsRequest, RequestTypes
  <2> QED BY <1>1, <1>5, <2>1, <2>3, AsksOne
<1>6. ASSUME NEW t \in {"read", "unknown"}, Redir!Asks([t |-> t, cid |-> c]) PROVE RedirInv'
  <2>1. PICK m : m = [t |-> t, cid |-> c]
    OBVIOUS
  <2>2. m \in Message /\ IsRequest(m) /\ m.cid = c
    BY <1>2, <1>6, <2>1 DEF Message, IsRequest, RequestTypes
  <2> QED BY <1>1, <1>6, <2>1, <2>2, AsksOne
<1> QED BY <1>1, <1>3, <1>4, <1>5, <1>6 DEF Redir!ServerAsks

\* The server keeps settings with the client.
LEMMA CachesAny == ASSUME RedirInv, Redir!ServerCaches PROVE RedirInv'
<1> USE DEF Redir!ServerCaches, Redir!Posts, Redir!jobVars, Redir!cacheVars, Redir!handshakeVars
<1>1. PICK p \in Printers, t \in {"add", "update"} : Redir!Posts([t |-> t, of |-> p])
  OBVIOUS
<1>2. PICK m : m = [t |-> t, of |-> p]
  OBVIOUS
<1>3. m \in Message /\ ~IsRequest(m) /\ m.t \notin HandshakeTypes
  BY <1>2 DEF Message, IsRequest, RequestTypes, HandshakeTypes
<1>4. /\ inbox' = Append(inbox, m) /\ "late" \in sent
      /\ UNCHANGED <<handshakes, gotServerCap, gotIDConfirm, heard, sent, repeated, held, jobs,
                     nextJob, wrote, printed, owed, stray, cachedConfig, added>>
  BY <1>1, <1>2
<1> HIDE DEF Redir!ServerCaches
<1>5. CompletionInv'
  BY <1>3, <1>4, PostsNoRequest
<1>6. PrintInv' /\ Redir!MisplacedByAdd'
  BY <1>4, OthersKept
<1>7. HandshakeInv'
  BY <1>3, <1>4, PostsAfterLogon
<1>8. inbox' \in Seq(Message)
  BY <1>3, <1>4, QueuePosts DEF RedirInv
<1>9. RedirTypes'
  BY <1>4, <1>8 DEF RedirInv, RedirTypes
<1> QED BY <1>5, <1>6, <1>7, <1>9 DEF RedirInv


\* Taking a message that is no request changes nothing of the completions.
LEMMA TakesNoRequest ==
    ASSUME RedirInv, inbox # <<>>, inbox' = Tail(inbox), ~IsRequest(Head(inbox)),
           UNCHANGED <<held, owed, stray>>
    PROVE  CompletionInv'
<1>1. /\ 1 \in DOMAIN inbox /\ ~IsRequest(inbox[1])
      /\ \A i \in DOMAIN inbox' : /\ i \in Nat /\ i + 1 # 1 /\ i + 1 \in DOMAIN inbox
                                  /\ inbox'[i] = inbox[i + 1]
      /\ \A k \in DOMAIN inbox : k # 1 => \E i \in DOMAIN inbox' : k = i + 1
  BY QueueTakes DEF RedirInv
<1>2. ASSUME NEW c PROVE Queued(c)' <=> Queued(c)
  BY <1>1 DEF Queued
<1>3. ASSUME NEW c PROVE Held(c)' <=> Held(c)
  BY DEF Held
<1>4. ASSUME NEW i \in DOMAIN inbox', NEW k \in DOMAIN inbox', IsRequest(inbox'[i]),
             IsRequest(inbox'[k]), inbox'[i].cid = inbox'[k].cid
      PROVE  i = k
  <2>1. i + 1 = k + 1
    BY <1>1, <1>4 DEF RedirInv, CompletionInv
  <2> QED BY <1>1, <2>1
<1> QED BY <1>2, <1>3, <1>4 DEF RedirInv, CompletionInv

\* A request is answered, or holds the loop.
LEMMA TakesRequest ==
    ASSUME RedirInv, inbox # <<>>, inbox' = Tail(inbox), NEW m, m = Head(inbox), IsRequest(m),
           held = <<>>,
           \/ UNCHANGED held /\ Redir!Completed(m.cid)
           \/ held' = <<m>> /\ UNCHANGED <<owed, stray>>
    PROVE  CompletionInv' /\ owed' \subseteq Redir!Cids
<1>1. /\ m \in Message /\ 1 \in DOMAIN inbox /\ inbox[1] = m
      /\ \A i \in DOMAIN inbox' : /\ i \in Nat /\ i + 1 # 1 /\ i + 1 \in DOMAIN inbox
                                  /\ inbox'[i] = inbox[i + 1]
      /\ \A k \in DOMAIN inbox : k # 1 => \E i \in DOMAIN inbox' : k = i + 1
  BY QueueTakes DEF RedirInv
<1>2. m.cid \in Redir!Cids
  BY <1>1, MessageFields
<1>3. Queued(m.cid) /\ m.cid \in owed /\ ~\E c : Held(c)
  <2>1. Queued(m.cid)
    BY <1>1 DEF Queued
  <2>2. ~\E c : Held(c)
    BY DEF Held
  <2> QED BY <1>2, <2>1, <2>2 DEF RedirInv, CompletionInv
<1>4. ASSUME NEW i \in DOMAIN inbox', IsRequest(inbox'[i]) PROVE inbox'[i].cid # m.cid
  BY <1>1, <1>4 DEF RedirInv, CompletionInv
<1>5. ASSUME NEW c PROVE Queued(c)' <=> Queued(c) /\ c # m.cid
  BY <1>1, <1>4 DEF Queued
<1>6. ASSUME NEW i \in DOMAIN inbox', NEW k \in DOMAIN inbox', IsRequest(inbox'[i]),
             IsRequest(inbox'[k]), inbox'[i].cid = inbox'[k].cid
      PROVE  i = k
  <2>1. i + 1 = k + 1
    BY <1>1, <1>6 DEF RedirInv, CompletionInv
  <2> QED BY <1>1, <2>1
<1>7. CASE UNCHANGED held /\ Redir!Completed(m.cid)
  <2>1. owed' = owed \ {m.cid} /\ ~stray'
    BY <1>3, <1>7 DEF Redir!Completed, RedirInv, CompletionInv
  <2>2. ASSUME NEW c PROVE ~Held(c)'
    BY <1>7 DEF Held
  <2>3. owed' \subseteq Redir!Cids
    BY <2>1 DEF RedirInv, RedirTypes
  <2>4. \A c \in Redir!Cids : c \in owed' <=> Queued(c)' \/ Held(c)'
    BY <1>3, <1>5, <2>1, <2>2 DEF RedirInv, CompletionInv
  <2>5. \A c \in Redir!Cids : ~(Queued(c)' /\ Held(c)')
    BY <2>2
  <2> QED BY <1>6, <2>1, <2>3, <2>4, <2>5 DEF CompletionInv
<1>8. CASE held' = <<m>> /\ UNCHANGED <<owed, stray>>
  <2>1. ASSUME NEW c PROVE Held(c)' <=> c = m.cid
    <3>1. DOMAIN held' = {1} /\ held'[1] = m
      BY <1>8
    <3> QED BY <3>1 DEF Held
  <2>2. owed' \subseteq Redir!Cids /\ ~stray'
    BY <1>8 DEF RedirInv, RedirTypes, CompletionInv
  <2>3. \A c \in Redir!Cids : c \in owed' <=> Queued(c)' \/ Held(c)'
    BY <1>3, <1>5, <1>8, <2>1 DEF RedirInv, CompletionInv
  <2>4. \A c \in Redir!Cids : ~(Queued(c)' /\ Held(c)')
    BY <1>5, <2>1
  <2> QED BY <1>6, <2>2, <2>3, <2>4 DEF CompletionInv
<1> QED BY <1>7, <1>8

\* Taking a message, the handshake's part.
LEMMA TakesAny ==
    ASSUME RedirInv, inbox # <<>>, inbox' = Tail(inbox), Head(inbox).t \notin HandshakeTypes,
           UNCHANGED <<handshakes, gotServerCap, gotIDConfirm, heard, sent, repeated>>
    PROVE  HandshakeInv'
<1>1. \A i \in DOMAIN inbox' : /\ i \in Nat /\ i + 1 # 1 /\ i + 1 \in DOMAIN inbox
                               /\ inbox'[i] = inbox[i + 1]
  BY QueueTakes DEF RedirInv
<1>2. FirstHandshake => FirstHandshake'
  <2> SUFFICES ASSUME FirstHandshake PROVE FirstHandshake'
    OBVIOUS
  <2>1. ASSUME NEW t \in HandshakeTypes, NEW i \in DOMAIN inbox', inbox'[i].t = t
        PROVE  t \notin heard' /\ \A k \in DOMAIN inbox' : inbox'[k].t = t => i = k
    <3>1. t \notin heard
      BY <1>1, <2>1 DEF FirstHandshake
    <3>2. ASSUME NEW k \in DOMAIN inbox', inbox'[k].t = t PROVE i = k
      <4>1. i + 1 = k + 1
        BY <1>1, <2>1, <3>2 DEF FirstHandshake
      <4> QED BY <1>1, <4>1
    <3> QED BY <3>1, <3>2
  <2>2. \A i \in DOMAIN inbox' : inbox'[i].t = "logon" => {"caps", "confirm"} \subseteq heard'
    BY <1>1 DEF FirstHandshake
  <2> QED BY <2>1, <2>2 DEF FirstHandshake
<1>3. handshakes # 0
  BY DEF RedirInv, HandshakeInv
<1> QED BY <1>2, <1>3 DEF RedirInv, HandshakeInv

\* Taking a message of the handshake.
LEMMA TakesHandshake ==
    ASSUME RedirInv, inbox # <<>>, held = <<>>, inbox' = Tail(inbox), UNCHANGED handshakes,
           Redir!Handshake(Head(inbox))
    PROVE  RedirInv'
<1>1. PICK m : m = Head(inbox)
  OBVIOUS
<1>2. /\ inbox' \in Seq(Message) /\ m \in Message /\ 1 \in DOMAIN inbox /\ inbox[1] = m
      /\ \A i \in DOMAIN inbox' : /\ i \in Nat /\ i + 1 # 1 /\ i + 1 \in DOMAIN inbox
                                  /\ inbox'[i] = inbox[i + 1]
  BY <1>1, QueueTakes DEF RedirInv
<1>3. /\ m.t \in HandshakeTypes /\ heard' = heard \cup {m.t}
      /\ UNCHANGED <<held, jobs, nextJob, wrote, printed, owed, stray, cachedConfig, added>>
  BY <1>1 DEF Redir!Handshake, Redir!jobVars, Redir!cacheVars, HandshakeTypes
<1>4. \/ m.t = "announce" /\ Redir!HandleServerAnnounce
      \/ m.t = "caps" /\ Redir!HandleServerCoreCap
      \/ m.t = "confirm" /\ Redir!HandleClientIDConfirm
      \/ m.t = "logon" /\ Redir!HandleUserLoggedOn
  BY <1>1, <1>3 DEF Redir!Handshake, HandshakeTypes
<1>5. ~IsRequest(m)
  BY <1>2, <1>3, MessageFields
<1>6. CompletionInv'
  BY <1>1, <1>3, <1>5, TakesNoRequest
<1>7. PrintInv' /\ Redir!MisplacedByAdd'
  BY <1>3, OthersKept
<1>8. gotServerCap' \in BOOLEAN /\ gotIDConfirm' \in BOOLEAN
  BY <1>4 DEF Redir!HandleServerAnnounce, Redir!HandleServerCoreCap, Redir!HandleClientIDConfirm,
              Redir!HandleUserLoggedOn, RedirInv, RedirTypes
<1>9. RedirTypes'
  BY <1>2, <1>3, <1>8 DEF RedirInv, RedirTypes
<1>10. handshakes # 0 /\ handshakes \in Nat
  BY DEF RedirInv, HandshakeInv, RedirTypes
<1>11. PICK msgs : Redir!Sends(msgs)
  BY <1>4 DEF Redir!HandleServerAnnounce, Redir!HandleServerCoreCap, Redir!HandleClientIDConfirm,
              Redir!HandleUserLoggedOn, Redir!TrySendCapAndDeviceList
<1>12. CASE handshakes # 1
  <2>1. \A r \in repeated' : r[1] > 1
    BY <1>10, <1>11, <1>12 DEF Redir!Sends, RedirInv, HandshakeInv
  <2>2. HandshakeInv'
    BY <1>10, <1>12, <2>1 DEF HandshakeInv
  <2> QED BY <1>6, <1>7, <1>9, <2>2 DEF RedirInv
<1>13. CASE handshakes = 1
  <2>1. FirstHandshake
    BY <1>13 DEF RedirInv, HandshakeInv
  <2>2. m.t \notin heard
    BY <1>2, <1>3, <2>1 DEF FirstHandshake
  <2>3. m.t = "logon" => {"caps", "confirm"} \subseteq heard
    BY <1>2, <2>1 DEF FirstHandshake
  <2>4. ASSUME NEW S, Redir!Sends(S), S \cap sent = {}
        PROVE  sent' = sent \cup S /\ \A r \in repeated' : r[1] > 1
    BY <2>4 DEF Redir!Sends, RedirInv, HandshakeInv
  <2>5. /\ \A r \in repeated' : r[1] > 1
        /\ gotServerCap' <=> "caps" \in heard'
        /\ gotIDConfirm' <=> "confirm" \in heard'
        /\ \A u \in {"reply", "name"} : u \in sent' <=> "announce" \in heard'
        /\ \A u \in {"caps", "early"} : u \in sent' <=> {"caps", "confirm"} \subseteq heard'
        /\ "late" \in sent' <=> "logon" \in heard'
    <3>1. CASE m.t = "announce" /\ Redir!HandleServerAnnounce
      <4>1. {"reply", "name"} \cap sent = {}
        BY <2>1, <2>2, <3>1 DEF FirstHandshake
      <4>2. sent' = sent \cup {"reply", "name"} /\ \A r \in repeated' : r[1] > 1
        BY <2>4, <3>1, <4>1 DEF Redir!HandleServerAnnounce
      <4>3. UNCHANGED <<gotServerCap, gotIDConfirm>>
        BY <3>1 DEF Redir!HandleServerAnnounce
      <4> QED BY <1>3, <2>1, <3>1, <4>2, <4>3 DEF FirstHandshake
    <3>2. CASE m.t = "logon" /\ Redir!HandleUserLoggedOn
      <4>1. {"late"} \cap sent = {}
        BY <2>1, <2>2, <3>2 DEF FirstHandshake
      <4>2. sent' = sent \cup {"late"} /\ \A r \in repeated' : r[1] > 1
        BY <2>4, <3>2, <4>1 DEF Redir!HandleUserLoggedOn
      <4>3. UNCHANGED <<gotServerCap, gotIDConfirm>>
        BY <3>2 DEF Redir!HandleUserLoggedOn
      <4> QED BY <1>3, <2>1, <3>2, <4>2, <4>3 DEF FirstHandshake
    <3>3. CASE \/ m.t = "caps" /\ Redir!HandleServerCoreCap
               \/ m.t = "confirm" /\ Redir!HandleClientIDConfirm
      <4>1. /\ gotServerCap' <=> "caps" \in heard'
            /\ gotIDConfirm' <=> "confirm" \in heard'
            /\ Redir!TrySendCapAndDeviceList
        BY <1>3, <2>1, <3>3 DEF FirstHandshake, Redir!HandleServerCoreCap, Redir!HandleClientIDConfirm
      <4>2. PICK S : /\ S = IF Redir!BothCame THEN {"caps", "early"} ELSE {}
                     /\ Redir!Sends(S)
        BY <4>1 DEF Redir!TrySendCapAndDeviceList
      <4>3. Redir!BothCame <=> {"caps", "confirm"} \subseteq heard'
        BY <4>1 DEF Redir!BothCame
      <4>4. ~({"caps", "confirm"} \subseteq heard)
        BY <2>2, <3>3
      <4>5. {"caps", "early"} \cap sent = {}
        BY <2>1, <4>4 DEF FirstHandshake
      <4>6. sent' = sent \cup S /\ \A r \in repeated' : r[1] > 1
        BY <2>4, <4>2, <4>5
      <4>7. /\ \A u \in {"reply", "name"} : u \in sent' <=> "announce" \in heard'
            /\ "late" \in sent' <=> "logon" \in heard'
        BY <1>3, <2>1, <3>3, <4>2, <4>6 DEF FirstHandshake
      <4>8. \A u \in {"caps", "early"} : u \in sent' <=> {"caps", "confirm"} \subseteq heard'
        BY <4>2, <4>3, <4>5, <4>6
      <4> QED BY <4>1, <4>6, <4>7, <4>8
    <3> QED BY <1>4, <3>1, <3>2, <3>3
  <2>6. "logon" \in heard' => {"caps", "confirm"} \subseteq heard'
    BY <1>3, <2>1, <2>3 DEF FirstHandshake
  <2>7. \A i \in DOMAIN inbox' : inbox'[i].t = "logon" => {"caps", "confirm"} \subseteq heard'
    BY <1>2, <1>3, <2>1 DEF FirstHandshake
  <2>8. ASSUME NEW t \in HandshakeTypes, NEW i \in DOMAIN inbox', inbox'[i].t = t
        PROVE  t \notin heard' /\ \A k \in DOMAIN inbox' : inbox'[k].t = t => i = k
    <3>1. inbox[i + 1].t = t /\ i + 1 \in DOMAIN inbox /\ i + 1 # 1
      BY <1>2, <2>8
    <3>2. t \notin heard /\ t # m.t
      BY <1>2, <2>1, <3>1 DEF FirstHandshake
    <3>3. ASSUME NEW k \in DOMAIN inbox', inbox'[k].t = t PROVE i = k
      <4>1. i + 1 = k + 1
        BY <1>2, <2>1, <2>8, <3>3 DEF FirstHandshake
      <4> QED BY <1>2, <4>1
    <3> QED BY <1>3, <3>2, <3>3
  <2>9. HandshakeInv'
    BY <1>13, <2>5, <2>6, <2>7, <2>8 DEF HandshakeInv, FirstHandshake
  <2> QED BY <1>6, <1>7, <1>9, <2>9 DEF RedirInv
<1> QED BY <1>12, <1>13


\* The types of a request that changes the jobs: what the handlers keep.
PrintTypes ==
    /\ nextJob \in Nat /\ printed \in Seq(Document)
    /\ jobs = [j \in DOMAIN jobs |-> jobs[j]] /\ wrote = [j \in DOMAIN wrote |-> wrote[j]]
    /\ DOMAIN jobs \subseteq DOMAIN wrote /\ DOMAIN wrote \subseteq 0..(nextJob - 1)
    /\ \A j \in DOMAIN jobs : jobs[j] \in Seq(Chunks)

\* PrinterDevice.handleCreate: a new number, unless there are too many jobs.
LEMMA CreatesJob ==
    ASSUME RedirInv, NEW m, Redir!HandleCreate(m)
    PROVE  PrintTypes' /\ PrintInv'
<1>0. PrintTypes /\ PrintInv /\ printed' = printed
  BY DEF RedirInv, RedirTypes, PrintTypes, Redir!HandleCreate
<1>1. CASE UNCHANGED <<jobs, nextJob, wrote>>
  BY <1>0, <1>1 DEF PrintTypes, PrintInv, Redir!PrintedWhole
<1>2. CASE jobs' = Redir!WithJob(jobs) /\ wrote' = Redir!WithJob(wrote) /\ nextJob' = nextJob + 1
  <2>1. nextJob \notin DOMAIN wrote /\ nextJob \notin DOMAIN jobs
    BY <1>0 DEF PrintTypes
  <2>2. /\ DOMAIN jobs' = DOMAIN jobs \cup {nextJob} /\ DOMAIN wrote' = DOMAIN wrote \cup {nextJob}
        /\ jobs' = [j \in DOMAIN jobs' |-> jobs'[j]] /\ wrote' = [j \in DOMAIN wrote' |-> wrote'[j]]
        /\ jobs'[nextJob] = <<>> /\ wrote'[nextJob] = <<>>
        /\ \A j \in DOMAIN jobs : jobs'[j] = jobs[j]
        /\ \A j \in DOMAIN wrote : wrote'[j] = wrote[j]
    BY <1>2, <2>1 DEF Redir!WithJob
  <2>3. PrintTypes'
    <3>1. DOMAIN wrote' \subseteq 0..(nextJob' - 1) /\ nextJob' \in Nat
      BY <1>0, <1>2, <2>2 DEF PrintTypes
    <3>2. \A j \in DOMAIN jobs' : jobs'[j] \in Seq(Chunks)
      <4>1. \A s : s = <<>> => s \in Seq(Chunks)
        OBVIOUS
      <4> QED BY <1>0, <2>2, <4>1 DEF PrintTypes
    <3>3. DOMAIN jobs' \subseteq DOMAIN wrote'
      BY <1>0, <2>2 DEF PrintTypes
    <3> QED BY <1>0, <2>2, <3>1, <3>2, <3>3 DEF PrintTypes
  <2>4. \A i \in DOMAIN printed' : printed'[i].job \in DOMAIN wrote' \ DOMAIN jobs'
    BY <1>0, <2>1, <2>2 DEF PrintInv
  <2>5. Redir!PrintedWhole'
    BY <1>0, <2>2 DEF PrintInv, PrintTypes, Redir!PrintedWhole
  <2> QED BY <2>3, <2>4, <2>5 DEF PrintInv
<1> QED BY <1>1, <1>2 DEF Redir!HandleCreate

\* PrinterDevice.handleWrite: the job and what the server was told grow together.
LEMMA WritesJob ==
    ASSUME RedirInv, NEW m \in Message, m.t = "write", Redir!HandleWrite(m)
    PROVE  PrintTypes' /\ PrintInv'
<1>0. PrintTypes /\ PrintInv /\ printed' = printed /\ nextJob' = nextJob
  BY DEF RedirInv, RedirTypes, PrintTypes, Redir!HandleWrite
<1>1. CASE UNCHANGED <<jobs, wrote>>
  BY <1>0, <1>1 DEF PrintTypes, PrintInv, Redir!PrintedWhole
<1>2. CASE /\ m.job \in DOMAIN jobs /\ jobs' = Redir!Appended(m)
           /\ wrote' = [wrote EXCEPT ![m.job] = Append(@, m.data)]
  <2>1. m.data \in Chunks
    BY MessageFields
  <2>2. PICK n, d : n = m.job /\ d = m.data
    OBVIOUS
  <2>3. n \in DOMAIN wrote /\ n \in DOMAIN jobs /\ jobs[n] = wrote[n] /\ jobs[n] \in Seq(Chunks)
    BY <1>0, <1>2, <2>2 DEF PrintTypes, PrintInv, Redir!PrintedWhole
  <2>4. PICK e \in Seq(Chunks) : e = Append(jobs[n], d) /\ e = Append(wrote[n], d)
    <3>1. Append(jobs[n], d) \in Seq(Chunks) /\ Append(jobs[n], d) = Append(wrote[n], d)
      BY <2>1, <2>2, <2>3
    <3> QED BY <3>1, Zenon
  <2>5. jobs' = [jobs EXCEPT ![n] = e] /\ wrote' = [wrote EXCEPT ![n] = e]
    BY <1>2, <2>2, <2>4 DEF Redir!Appended
  <2>6. /\ DOMAIN jobs' = DOMAIN jobs /\ DOMAIN wrote' = DOMAIN wrote
        /\ jobs' = [j \in DOMAIN jobs' |-> jobs'[j]] /\ wrote' = [j \in DOMAIN wrote' |-> wrote'[j]]
        /\ jobs'[n] = e /\ wrote'[n] = e
        /\ \A j \in DOMAIN jobs : j # n => jobs'[j] = jobs[j]
        /\ \A j \in DOMAIN wrote : j # n => wrote'[j] = wrote[j]
    BY <1>0, <2>3, <2>5 DEF PrintTypes
  <2>7. PrintTypes'
    BY <1>0, <2>4, <2>6 DEF PrintTypes
  <2>8. \A i \in DOMAIN printed' : printed'[i].job \in DOMAIN wrote' \ DOMAIN jobs'
    BY <1>0, <2>6 DEF PrintInv
  <2>9. Redir!PrintedWhole'
    <3>1. \A i \in DOMAIN printed' : printed'[i].data = wrote'[printed'[i].job]
      BY <1>0, <2>3, <2>6 DEF PrintInv, Redir!PrintedWhole
    <3>2. \A i, k \in DOMAIN printed' : printed'[i].job = printed'[k].job => i = k
      BY <1>0 DEF PrintInv, Redir!PrintedWhole
    <3>3. \A j \in DOMAIN jobs' : jobs'[j] = wrote'[j]
      BY <1>0, <2>6 DEF PrintInv, PrintTypes, Redir!PrintedWhole
    <3> QED BY <3>1, <3>2, <3>3 DEF Redir!PrintedWhole
  <2> QED BY <2>7, <2>8, <2>9 DEF PrintInv
<1> QED BY <1>1, <1>2 DEF Redir!HandleWrite

\* PrinterDevice.handleClose: the job leaves the open ones as its document is printed.
LEMMA ClosesJob ==
    ASSUME RedirInv, NEW m \in Message, m.t = "close", Redir!HandleClose(m)
    PROVE  PrintTypes' /\ PrintInv'
<1>0. PrintTypes /\ PrintInv /\ wrote' = wrote /\ nextJob' = nextJob
  BY DEF RedirInv, RedirTypes, PrintTypes, Redir!HandleClose
<1>1. PICK n : n = m.job
  OBVIOUS
<1>2. /\ DOMAIN jobs' = DOMAIN jobs \ {n} /\ jobs' = [j \in DOMAIN jobs' |-> jobs'[j]]
      /\ \A j \in DOMAIN jobs' : jobs'[j] = jobs[j]
  BY <1>1 DEF Redir!HandleClose, Redir!Remaining, Redir!Restrict
<1>3. CASE printed' = printed
  <2>1. PrintTypes'
    BY <1>0, <1>2, <1>3 DEF PrintTypes
  <2> QED BY <1>0, <1>2, <1>3, <2>1 DEF PrintInv, Redir!PrintedWhole
<1>4. CASE n \in DOMAIN jobs /\ printed' = Append(printed, [job |-> m.job, data |-> jobs[m.job]])
  <2>1. PICK d : d = [job |-> n, data |-> jobs[n]]
    OBVIOUS
  <2>2. d \in Document /\ d.job = n /\ d.data = jobs[n]
    <3>1. n \in Nat /\ jobs[n] \in Seq(Chunks)
      BY <1>0, <1>4 DEF PrintTypes
    <3> QED BY <2>1, <3>1 DEF Document
  <2>3. PICK k : k = Len(printed) + 1
    OBVIOUS
  <2>4. /\ printed' \in Seq(Document) /\ k \notin DOMAIN printed
        /\ DOMAIN printed' = DOMAIN printed \cup {k} /\ printed'[k] = d
        /\ \A i \in DOMAIN printed : printed'[i] = printed[i]
    <3>1. printed' = Append(printed, d) /\ printed \in Seq(Document)
      BY <1>0, <1>1, <1>4, <2>1 DEF PrintTypes
    <3> QED BY <2>2, <2>3, <3>1
  <2>5. PrintTypes'
    BY <1>0, <1>2, <2>4 DEF PrintTypes
  <2>6. n \in DOMAIN wrote /\ wrote[n] = jobs[n] /\ \A i \in DOMAIN printed : printed[i].job # n
    BY <1>0, <1>4 DEF PrintTypes, PrintInv, Redir!PrintedWhole
  <2>7. \A i \in DOMAIN printed' : printed'[i].job \in DOMAIN wrote' \ DOMAIN jobs'
    BY <1>0, <1>2, <2>2, <2>4, <2>6 DEF PrintInv
  <2>8. Redir!PrintedWhole'
    <3>1. \A i \in DOMAIN printed' : printed'[i].data = wrote'[printed'[i].job]
      BY <1>0, <2>2, <2>4, <2>6 DEF PrintInv, Redir!PrintedWhole
    <3>2. ASSUME NEW i \in DOMAIN printed', NEW j \in DOMAIN printed',
                 printed'[i].job = printed'[j].job
          PROVE  i = j
      <4>1. CASE i \in DOMAIN printed /\ j \in DOMAIN printed
        BY <1>0, <2>4, <3>2, <4>1 DEF PrintInv, Redir!PrintedWhole
      <4>2. CASE i = k \/ j = k
        BY <2>2, <2>4, <2>6, <3>2, <4>2
      <4> QED BY <2>4, <4>1, <4>2
    <3>3. \A j \in DOMAIN jobs' : jobs'[j] = wrote'[j]
      BY <1>0, <1>2 DEF PrintInv, Redir!PrintedWhole
    <3> QED BY <3>1, <3>2, <3>3 DEF Redir!PrintedWhole
  <2> QED BY <2>5, <2>7, <2>8 DEF PrintInv
<1> QED BY <1>1, <1>3, <1>4 DEF Redir!HandleClose


\* Taking a request.
LEMMA TakesARequest ==
    ASSUME RedirInv, inbox # <<>>, held = <<>>, inbox' = Tail(inbox), UNCHANGED handshakes,
           Redir!Request(Head(inbox))
    PROVE  RedirInv'
<1>1. PICK m : m = Head(inbox)
  OBVIOUS
<1>2. /\ inbox' \in Seq(Message) /\ m \in Message
      /\ m.t \in RequestTypes /\ IsRequest(m)
  BY <1>1, QueueTakes DEF RedirInv, Redir!Request, RequestTypes, IsRequest
<1>3. UNCHANGED <<gotServerCap, gotIDConfirm, heard, sent, repeated, cachedConfig, added>>
  BY DEF Redir!Request, Redir!handshakeVars, Redir!cacheVars
<1>4. m.t \notin HandshakeTypes
  BY <1>2 DEF RequestTypes, HandshakeTypes
<1>5. HandshakeInv'
  BY <1>1, <1>3, <1>4, TakesAny
<1>6. \/ m.t = "create" /\ Redir!HandleCreate(m)
      \/ m.t = "write" /\ Redir!HandleWrite(m)
      \/ m.t = "close" /\ Redir!HandleClose(m)
      \/ m.t = "read" /\ Redir!HandleRead(m)
      \/ m.t = "unknown" /\ Redir!Completed(m.cid) /\ UNCHANGED <<held, jobs, nextJob, wrote, printed>>
  BY <1>1 DEF Redir!Request, Redir!jobVars
<1>7. \/ UNCHANGED held /\ Redir!Completed(m.cid)
      \/ held' = <<m>> /\ UNCHANGED <<owed, stray>>
  BY <1>6 DEF Redir!HandleCreate, Redir!HandleWrite, Redir!HandleClose, Redir!HandleRead, Redir!Waits
<1>8. CompletionInv' /\ owed' \subseteq Redir!Cids
  BY <1>1, <1>2, <1>7, TakesRequest
<1>9. PrintTypes' /\ PrintInv'
  <2>1. CASE UNCHANGED <<jobs, nextJob, wrote, printed>>
    <3>1. PrintInv'
      BY <2>1 DEF RedirInv, PrintInv, Redir!PrintedWhole
    <3> QED BY <2>1, <3>1 DEF RedirInv, RedirTypes, PrintTypes
  <2> QED BY <1>2, <1>6, <2>1, CreatesJob, WritesJob, ClosesJob DEF Redir!HandleRead, Redir!jobVars
<1>10. RedirTypes'
  <2>1. held' = <<>> \/ \E x \in Message : IsRequest(x) /\ held' = <<x>>
    BY <1>2, <1>7
  <2> QED BY <1>2, <1>3, <1>8, <1>9, <2>1 DEF RedirInv, RedirTypes, PrintTypes
<1>11. Redir!MisplacedByAdd'
  BY <1>3 DEF RedirInv, Redir!MisplacedByAdd
<1> QED BY <1>5, <1>8, <1>9, <1>10, <1>11 DEF RedirInv

\* Taking an event of the printer cache.
LEMMA TakesACacheEvent ==
    ASSUME RedirInv, inbox # <<>>, held = <<>>, inbox' = Tail(inbox), UNCHANGED handshakes,
           Redir!Cache(Head(inbox))
    PROVE  RedirInv'
<1>1. PICK m : m = Head(inbox)
  OBVIOUS
<1>2. /\ inbox' \in Seq(Message) /\ m \in Message /\ m.t \in {"add", "update"} /\ m.of \in Printers
  <2>1. inbox' \in Seq(Message) /\ m \in Message /\ m.t \in {"add", "update"}
    BY <1>1, QueueTakes DEF RedirInv, Redir!Cache
  <2> QED BY <2>1, MessageFields
<1>3. UNCHANGED <<gotServerCap, gotIDConfirm, heard, sent, repeated, held, jobs, nextJob, wrote,
                  printed, owed, stray>>
  BY DEF Redir!Cache, Redir!handshakeVars, Redir!jobVars
<1>4. m.t \notin HandshakeTypes /\ ~IsRequest(m)
  BY <1>2 DEF RequestTypes, HandshakeTypes, IsRequest
<1>5. HandshakeInv'
  BY <1>1, <1>3, <1>4, TakesAny
<1>6. CompletionInv'
  BY <1>1, <1>3, <1>4, TakesNoRequest
<1>7. PrintInv'
  BY <1>3 DEF RedirInv, PrintInv, Redir!PrintedWhole
<1>8. cachedConfig' \in [Printers -> SUBSET Printers] /\ Redir!MisplacedByAdd'
  <2>1. cachedConfig \in [Printers -> SUBSET Printers]
    BY DEF RedirInv, RedirTypes
  <2>2. CASE Redir!HandlePrnCacheAdd(m)
    BY <1>2, <2>1, <2>2 DEF Redir!HandlePrnCacheAdd, Redir!MisplacedByAdd
  <2>3. CASE Redir!HandlePrnCacheUpdate(m)
    BY <1>2, <2>1, <2>3 DEF Redir!HandlePrnCacheUpdate, Redir!Named, RedirInv, Redir!MisplacedByAdd
  <2> QED BY <1>1, <2>2, <2>3 DEF Redir!Cache
<1>9. RedirTypes'
  BY <1>2, <1>3, <1>8 DEF RedirInv, RedirTypes
<1> QED BY <1>5, <1>6, <1>7, <1>8, <1>9 DEF RedirInv

\* The network printer or the parallel port comes back.
LEMMA ReturnsAnswer == ASSUME RedirInv, Redir!Returns PROVE RedirInv'
<1>1. PICK m \in Message : IsRequest(m) /\ held = <<m>>
  BY DEF RedirInv, RedirTypes, Redir!Returns
<1>2. /\ held' = <<>> /\ owed' = owed \ {m.cid} /\ stray' = (stray \/ m.cid \notin owed)
      /\ UNCHANGED <<inbox, handshakes, gotServerCap, gotIDConfirm, heard, sent, repeated, jobs,
                     nextJob, wrote, printed, cachedConfig, added>>
  BY <1>1 DEF Redir!Returns, Redir!Completed, Redir!handshakeVars, Redir!jobVars, Redir!cacheVars
<1>3. m.cid \in Redir!Cids
  BY <1>1, MessageFields
<1>4. ASSUME NEW c PROVE (Held(c) <=> c = m.cid) /\ ~Held(c)' /\ (Queued(c)' <=> Queued(c))
  <2>1. DOMAIN held = {1} /\ held[1] = m /\ DOMAIN held' = {}
    BY <1>1, <1>2
  <2> QED BY <1>2, <2>1 DEF Held, Queued
<1>5. CompletionInv'
  <2>1. ~stray'
    BY <1>2, <1>3, <1>4 DEF RedirInv, CompletionInv
  <2>2. \A c \in Redir!Cids : c \in owed' <=> Queued(c)' \/ Held(c)'
    BY <1>2, <1>4 DEF RedirInv, CompletionInv
  <2> QED BY <1>2, <1>4, <2>1, <2>2 DEF RedirInv, CompletionInv
<1>6. PrintInv' /\ Redir!MisplacedByAdd'
  BY <1>2, OthersKept
<1>7. RedirTypes'
  BY <1>2 DEF RedirInv, RedirTypes
<1>8. HandshakeInv'
  BY <1>2 DEF RedirInv, HandshakeInv, FirstHandshake
<1> QED BY <1>5, <1>6, <1>7, <1>8 DEF RedirInv

\* Every step of the channel keeps its invariant.
LEMMA RedirSteps == RedirInv /\ [Redir!Next]_redirectionVars => RedirInv'
<1> SUFFICES ASSUME RedirInv, [Redir!Next]_redirectionVars PROVE RedirInv'
  OBVIOUS
<1>1. CASE UNCHANGED redirectionVars
  <2>1. UNCHANGED <<inbox, gotServerCap, gotIDConfirm, handshakes, heard, sent, repeated, held, jobs,
                    nextJob, wrote, printed, owed, stray, cachedConfig, added>>
    BY <1>1 DEF redirectionVars
  <2>2. PrintInv' /\ Redir!MisplacedByAdd'
    BY <2>1, OthersKept
  <2>3. RedirTypes'
    BY <2>1 DEF RedirInv, RedirTypes
  <2>4. HandshakeInv'
    BY <2>1 DEF RedirInv, HandshakeInv, FirstHandshake
  <2>5. CompletionInv'
    BY <2>1 DEF RedirInv, CompletionInv, Queued, Held
  <2> QED BY <2>2, <2>3, <2>4, <2>5 DEF RedirInv
<1>2. CASE Redir!ProcessPDU
  <2>1. inbox # <<>> /\ held = <<>> /\ inbox' = Tail(inbox) /\ UNCHANGED handshakes
    BY <1>2 DEF Redir!ProcessPDU
  <2>2. Redir!Handshake(Head(inbox)) \/ Redir!Request(Head(inbox)) \/ Redir!Cache(Head(inbox))
    BY <1>2 DEF Redir!ProcessPDU
  <2> QED BY <2>1, <2>2, TakesHandshake, TakesARequest, TakesACacheEvent
<1> QED BY <1>1, <1>2, AnnouncesAgain, Proceeds, AsksAny, CachesAny, ReturnsAnswer DEF Redir!Next

\* THEOREM.  In the first handshake the capabilities and the devices are sent once, after
\* both messages they answer, in whatever order these come; a document is printed once
\* and is what the server was told is written; each request is answered once, also when it
\* holds the receive loop; and only an add event of the printer cache gives a printer the
\* settings of another: for every number of printers, jobs, requests and handshakes.
THEOREM RedirectionAlwaysFaithful == MCSpec => []RedirectionFaithful
<1>1. MCInit => RedirInv
  BY RedirStarts DEF MCInit
<1>2. RedirInv /\ [MCNext]_mcVars => RedirInv'
  <2>1. [MCNext]_mcVars => [Redir!Next]_redirectionVars
    BY DEF MCNext, mcVars
  <2> QED BY <2>1, RedirSteps
<1>3. RedirInv => RedirectionFaithful
  <2> SUFFICES ASSUME RedirInv PROVE RedirectionFaithful
    OBVIOUS
  <2>1. Redir!FirstHandshakeOnce
    BY DEF RedirInv, HandshakeInv, FirstHandshake, Redir!FirstHandshakeOnce
  <2>2. Redir!AnsweredOnce
    <3>1. ASSUME NEW k \in DOMAIN inbox
          PROVE  /\ IsRequest(inbox[k]) <=> "cid" \in DOMAIN inbox[k]
                 /\ IsRequest(inbox[k]) => inbox[k].cid \in Redir!Cids
      <4>1. inbox[k] \in Message
        BY DEF RedirInv, RedirTypes
      <4> QED BY <4>1, MessageFields
    <3>2. \A i \in DOMAIN held : held[i].cid \in Redir!Cids
      <4>1. CASE held = <<>>
        BY <4>1
      <4>2. ASSUME NEW m \in Message, IsRequest(m), held = <<m>>
            PROVE  \A i \in DOMAIN held : held[i].cid \in Redir!Cids
        <5>1. m.cid \in Redir!Cids
          BY <4>2, MessageFields
        <5>2. DOMAIN held = {1} /\ held[1] = m
          BY <4>2
        <5> QED BY <5>1, <5>2
      <4> QED BY <4>1, <4>2 DEF RedirInv, RedirTypes
    <3> DEFINE Due == {inbox[i].cid : i \in {k \in DOMAIN inbox : "cid" \in DOMAIN inbox[k]}}
                      \cup {held[i].cid : i \in DOMAIN held}
    <3>3. ASSUME NEW c PROVE c \in Due <=> Queued(c) \/ Held(c)
      BY <3>1 DEF Queued, Held
    <3>4. \A c \in Due : c \in Redir!Cids
      BY <3>1, <3>2
    <3> HIDE DEF Due
    <3>5. \A c : c \in owed <=> c \in Due
      BY <3>3, <3>4 DEF RedirInv, RedirTypes, CompletionInv
    <3>6. owed = Due
      BY <3>5
    <3> QED BY <3>6 DEF RedirInv, CompletionInv, Redir!AnsweredOnce, Due
  <2> QED BY <2>1, <2>2 DEF RedirInv, PrintInv, RedirectionFaithful, Redir!RedirectionFaithful
<1> QED BY <1>1, <1>2, <1>3, PTL DEF MCSpec
=============================================================================
