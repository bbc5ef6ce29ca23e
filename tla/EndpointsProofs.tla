--------------------------- MODULE EndpointsProofs ---------------------------
(***************************************************************************)
(* Proofs about the endpoints of MCEndpoints.  A behaviour runs one of     *)
(* them, so an invariant of one endpoint is kept by the steps of the       *)
(* others, which leave its variables alone.                                *)
(***************************************************************************)
EXTENDS MCEndpoints, Integers, Sequences, FiniteSets, Functions, SequenceTheorems,
        FiniteSetTheorems, WellFoundedInduction, TLAPS

(***************************************************************************)
(* Display control.                                                        *)
(***************************************************************************)

\* The server has the last size that was asked for, or refused its layout.
Applied == srvSize = wanted \/ (wanted # 0 /\ ~Disp!Valid(wanted))

\* The next flush will give the server that size, or it has it already.
WillApply ==
    IF pendingMonitors # 0 THEN pendingMonitors = wanted
    ELSE IF pendingResize # 0 THEN pendingResize = wanted ELSE Applied

\* Where the handler, its callback and the call of the application stand together.
ChannelStages ==
    /\ wanted \in Nat /\ optsSize = wanted
    /\ app.at # "idle" => wanted # 0
    /\ dispHandler \in {"none", "opened", "ready"}
    /\ dispHandler = "opened" => onReady = TRUE
    /\ flush \in {"idle", "fire", "drop"}
    /\ flush # "idle" => dispHandler = "ready"
    /\ app.at \in {"idle", "checks", "reconnects", "queues", "sends"}
    /\ app.at = "reconnects" => dispHandler = "none"
    /\ app.at \in {"queues", "sends"} => dispHandler # "none"
    /\ app.at = "sends" => dispHandler = "ready" /\ (raced \/ flush = "idle")
    /\ mixedKinds \/ pendingResize = 0 \/ pendingMonitors = 0

\* Between two calls that neither raced the channel nor mixed the kinds of requests.
SizeUnderWay ==
    ~raced /\ ~mixedKinds /\ app.at = "idle" =>
        IF dispHandler = "opened" \/ flush = "fire" THEN WillApply ELSE Applied

DisplayInv == ChannelStages /\ SizeUnderWay /\ Disp!QueueOfSession

\* It holds at the start.
LEMMA DisplayStarts == Disp!Init => DisplayInv
BY DEF Disp!Init, DisplayInv, ChannelStages, SizeUnderWay, Applied, WillApply,
       Disp!QueueOfSession, Disp!None

\* Every step of the application and of the receive loop keeps it.
LEMMA DisplaySteps == DisplayInv /\ [Disp!Next]_displayVars => DisplayInv'
<1> SUFFICES ASSUME DisplayInv, [Disp!Next]_displayVars PROVE DisplayInv'
  OBVIOUS
<1> USE DEF DisplayInv, ChannelStages, SizeUnderWay, Applied, WillApply, Disp!QueueOfSession,
            Disp!None, Disp!Valid, Disp!Sent, Disp!history, Disp!queue
<1>1. ASSUME NEW k \in Disp!Kinds, Disp!Resize(k) PROVE DisplayInv'
  BY <1>1 DEF Disp!Resize
<1>2. CASE Disp!ResizeReconnects
  BY <1>2 DEF Disp!ResizeReconnects
<1>3. CASE Disp!ResizeSeesReady
  BY <1>3 DEF Disp!ResizeSeesReady
<1>4. CASE Disp!ResizeQueues
  <2>1. CASE kindOf[wanted] = "single"
    BY <1>4, <2>1 DEF Disp!ResizeQueues, Disp!Queue
  <2>2. CASE kindOf[wanted] # "single"
    <3>1. mixedKinds' <=> mixedKinds \/ pendingResize # 0
      BY <1>4, <2>2, Zenon DEF Disp!ResizeQueues
    <3>2. raced' <=> raced \/ dispHandler # "opened"
      BY <1>4, Zenon DEF Disp!ResizeQueues
    <3> QED BY <1>4, <2>2, <3>1, <3>2 DEF Disp!ResizeQueues, Disp!Queue
  <2> QED BY <2>1, <2>2
<1>5. CASE Disp!ResizeSends
  BY <1>5 DEF Disp!ResizeSends
<1>6. CASE Disp!ResizeViaReconnect
  BY <1>6 DEF Disp!ResizeViaReconnect, Disp!ResetQueue
<1>7. CASE Disp!HandleCreate
  BY <1>7 DEF Disp!HandleCreate, Disp!ArmCallback
<1>8. CASE Disp!ProcessCaps
  BY <1>8 DEF Disp!ProcessCaps
<1>9. CASE Disp!Flush
  BY <1>9 DEF Disp!Flush
<1>10. CASE Disp!DropCallback
  BY <1>10 DEF Disp!DropCallback
<1>11. CASE Disp!Reconnect
  BY <1>11 DEF Disp!Reconnect, Disp!ResetQueue
<1>12. CASE UNCHANGED displayVars
  BY <1>12 DEF displayVars
<1> QED BY <1>1, <1>2, <1>3, <1>4, <1>5, <1>6, <1>7, <1>8, <1>9, <1>10, <1>11, <1>12
        DEF Disp!Next

\* The last size asked for is the one the server gets, on the connection it was
\* meant for, for any number of calls and of connections.
THEOREM ResizesAlwaysFaithful == MCSpec => []ResizesFaithful
<1>1. MCInit => DisplayInv
  BY DisplayStarts DEF MCInit
<1>2. DisplayInv /\ [MCNext]_mcVars => DisplayInv'
  <2> SUFFICES ASSUME DisplayInv, [MCNext]_mcVars PROVE DisplayInv'
    OBVIOUS
  <2>1. [Disp!Next]_displayVars
    BY DEF MCNext, mcVars
  <2> QED BY <2>1, DisplaySteps
<1>3. DisplayInv => ResizesFaithful
  BY DEF DisplayInv, ChannelStages, SizeUnderWay, Applied, ResizesFaithful,
         Disp!ResizesFaithful, Disp!LastSizeWins
<1> QED BY <1>1, <1>2, <1>3, PTL DEF MCSpec

(***************************************************************************)
(* The camera.                                                             *)
(***************************************************************************)

Sampler == [at : {"none", "waits", "holds", "ends"}, ch : DevIds \cup {0}, frame : Nat]

CameraTypes ==
    /\ starts \in Nat /\ samples \in 0..MaxSamples /\ frames \in Nat
    /\ devSendFns \subseteq DevIds /\ waits \in [DevIds -> 0..MaxSamples]
    /\ getter \in [1..MaxSamples -> Sampler]
    /\ sampleCh \in Seq(1..frames) /\ inHand \in 0..frames /\ discarded \subseteq 1..frames

\* The request a channel waits for is that of a goroutine of this channel.
RequestOwned ==
    /\ stopped => devSendFns = {}
    /\ \A c \in DevIds : waits[c] # 0 =>
          /\ waits[c] <= samples /\ c \in devSendFns
          /\ getter[waits[c]].ch = c /\ getter[waits[c]].at \in {"waits", "holds"}

\* A frame that has left the queue is older than what is in it, and was not in it
\* when a stream stopped.
Gone(n) ==
    /\ n \in 0..frames /\ n \notin discarded
    /\ \A i \in DOMAIN sampleCh : n < sampleCh[i]
    /\ inHand # 0 => n < inHand

\* The queue holds the frames in the order in which the browser sent them.
FramesInOrder ==
    /\ inHand \notin discarded
    /\ \A i \in DOMAIN sampleCh : /\ sampleCh[i] \notin discarded
                                  /\ inHand # 0 => sampleCh[i] < inHand
    /\ \A i, j \in DOMAIN sampleCh : i < j => sampleCh[i] < sampleCh[j]
    /\ \A g \in 1..MaxSamples : Gone(getter[g].frame)
    /\ Gone(response.taken)

CameraInv == CameraTypes /\ RequestOwned /\ Cam!CaptureMatches /\ FramesInOrder

\* It holds at the start.
LEMMA CameraStarts == Cam!Init => CameraInv
<1> SUFFICES ASSUME Cam!Init PROVE CameraInv
  OBVIOUS
<1> USE EndpointsAssumption DEF EndpointsAssumption, Cam!Init, Cam!Getters, Cam!NoAnswer
<1>1. sampleCh \in Seq(1..frames)
  OBVIOUS
<1>2. CameraTypes
  BY <1>1 DEF CameraTypes, Sampler
<1>3. RequestOwned /\ Cam!CaptureMatches
  BY DEF RequestOwned, Cam!CaptureMatches
<1>4. FramesInOrder
  BY DEF FramesInOrder, Gone
<1> QED BY <1>2, <1>3, <1>4 DEF CameraInv

\* Where the goroutines, the queue and the frame in hand stay, what left the queue
\* stays out of it.
LEMMA FramesStay ==
    ASSUME CameraInv, UNCHANGED <<getter, sampleCh, frames, inHand, discarded, response>>
    PROVE  FramesInOrder'
BY DEF CameraInv, FramesInOrder, Gone

\* And a request whose goroutine goes on stays with it.
LEMMA RequestsStay ==
    ASSUME CameraInv, UNCHANGED <<devSendFns, waits, samples, getter, stopped>>
    PROVE  RequestOwned'
BY DEF CameraInv, RequestOwned

\* What the server asks of the camera keeps the invariant.
LEMMA CameraServerSteps ==
    ASSUME CameraInv
    PROVE  /\ Cam!EnumChannelOpened => CameraInv'
           /\ Cam!HandleSelectVersionResponse => CameraInv'
           /\ Cam!Stop => CameraInv'
           /\ \A c \in DevIds : /\ Cam!SetDevSendFn(c) => CameraInv'
                                /\ Cam!RemoveDevSendFn(c) => CameraInv'
                                /\ Cam!HandleStartStreams(c) => CameraInv'
<1> USE DEF Cam!fields, Cam!viewerVars
<1>1. ASSUME Cam!EnumChannelOpened \/ Cam!HandleSelectVersionResponse PROVE CameraInv'
  <2>1. FramesInOrder'
    BY <1>1, FramesStay DEF Cam!EnumChannelOpened, Cam!HandleSelectVersionResponse
  <2>2. RequestOwned'
    BY <1>1, RequestsStay DEF Cam!EnumChannelOpened, Cam!HandleSelectVersionResponse
  <2>3. /\ UNCHANGED <<starts, samples, frames, devSendFns, waits, getter, sampleCh>>
        /\ UNCHANGED <<inHand, discarded, capture, streaming>>
    BY <1>1 DEF Cam!EnumChannelOpened, Cam!HandleSelectVersionResponse
  <2>4. CameraTypes' /\ Cam!CaptureMatches'
    BY <2>3 DEF CameraInv, CameraTypes, Cam!CaptureMatches
  <2> QED BY <2>1, <2>2, <2>4 DEF CameraInv
<1>2. ASSUME Cam!Stop PROVE CameraInv'
  <2>1. FramesInOrder'
    BY <1>2, FramesStay DEF Cam!Stop
  <2>2. CameraTypes'
    BY <1>2, EndpointsAssumption DEF EndpointsAssumption, CameraInv, CameraTypes, Cam!Stop
  <2>3. RequestOwned' /\ Cam!CaptureMatches'
    BY <1>2 DEF CameraInv, RequestOwned, Cam!CaptureMatches, Cam!Stop, Cam!StopTells
  <2> QED BY <2>1, <2>2, <2>3 DEF CameraInv
<1>3. ASSUME NEW c \in DevIds, Cam!SetDevSendFn(c) \/ Cam!RemoveDevSendFn(c) PROVE CameraInv'
  <2>1. FramesInOrder'
    BY <1>3, FramesStay DEF Cam!SetDevSendFn, Cam!RemoveDevSendFn
  <2>2. /\ waits' = [waits EXCEPT ![c] = 0] /\ devSendFns' \subseteq DevIds
        /\ \A d \in DevIds : d # c => (d \in devSendFns' <=> d \in devSendFns)
        /\ stopped' => devSendFns' = {}
    BY <1>3 DEF CameraInv, CameraTypes, RequestOwned, Cam!SetDevSendFn, Cam!RemoveDevSendFn
  <2>3. waits' \in [DevIds -> 0..MaxSamples]
    BY <2>2, EndpointsAssumption DEF EndpointsAssumption, CameraInv, CameraTypes
  <2>4. CameraTypes'
    BY <1>3, <2>2, <2>3 DEF CameraInv, CameraTypes, Cam!SetDevSendFn, Cam!RemoveDevSendFn
  <2>5. ASSUME NEW d \in DevIds, waits'[d] # 0 PROVE d # c /\ waits'[d] = waits[d]
    BY <2>2, <2>5 DEF CameraInv, CameraTypes
  <2>6. UNCHANGED <<samples, getter, stopped, capture, streaming>>
    BY <1>3 DEF Cam!SetDevSendFn, Cam!RemoveDevSendFn
  <2>7. RequestOwned'
    BY <2>2, <2>5, <2>6 DEF CameraInv, RequestOwned
  <2>8. Cam!CaptureMatches'
    BY <2>6 DEF CameraInv, Cam!CaptureMatches
  <2> QED BY <2>1, <2>4, <2>7, <2>8 DEF CameraInv
<1>4. ASSUME NEW c \in DevIds, Cam!HandleStartStreams(c) PROVE CameraInv'
  <2>1. FramesInOrder'
    BY <1>4, FramesStay DEF Cam!HandleStartStreams
  <2> QED BY <1>4, <2>1 DEF CameraInv, CameraTypes, RequestOwned, Cam!CaptureMatches,
                            Cam!HandleStartStreams
<1> QED BY <1>1, <1>2, <1>3, <1>4

\* A stream that stops empties the queue: its frames are older than the one in hand.
LEMMA CameraStopSteps ==
    ASSUME CameraInv, NEW c \in DevIds, Cam!HandleStopStreams(c)
    PROVE  CameraInv'
<1> USE DEF Cam!HandleStopStreams, Cam!Drain, CameraInv
<1>1. sampleCh' = <<>> /\ DOMAIN sampleCh' = {}
  OBVIOUS
<1>2. \A i \in DOMAIN sampleCh : sampleCh[i] \in 1..frames
  BY DEF CameraTypes
<1>3. CameraTypes'
  <2>1. discarded' \subseteq 1..frames
    BY <1>2 DEF CameraTypes
  <2>2. sampleCh' \in Seq(1..frames)
    BY <1>1
  <2> QED BY <2>1, <2>2 DEF CameraTypes
<1>4. RequestOwned' /\ Cam!CaptureMatches'
  BY RequestsStay DEF Cam!CaptureMatches
<1>5. ASSUME NEW n, Gone(n) PROVE Gone(n)'
  BY <1>1, <1>2, <1>5 DEF Gone, CameraTypes
<1>6. FramesInOrder'
  <2>1. inHand' \notin discarded'
    BY <1>2 DEF FramesInOrder, CameraTypes
  <2>2. \A g \in 1..MaxSamples : Gone(getter[g].frame)'
    BY <1>5 DEF FramesInOrder
  <2>3. Gone(response.taken)'
    BY <1>5 DEF FramesInOrder
  <2> QED BY <1>1, <2>1, <2>2, <2>3 DEF FramesInOrder, Gone
<1> QED BY <1>3, <1>4, <1>6

\* A request starts a goroutine of its own.
LEMMA CameraRequestSteps ==
    ASSUME CameraInv, NEW c \in DevIds, Cam!HandleSampleRequest(c)
    PROVE  CameraInv'
<1> USE EndpointsAssumption
    DEF EndpointsAssumption, Cam!HandleSampleRequest, Cam!Waiter, Cam!viewerVars, CameraInv
<1> DEFINE n == samples + 1
<1>1. n \in 1..MaxSamples /\ samples' = n /\ waits' = [waits EXCEPT ![c] = n]
  BY DEF CameraTypes
<1>2. /\ getter' \in [1..MaxSamples -> Sampler]
      /\ getter'[n] = [at |-> "waits", ch |-> c, frame |-> 0]
      /\ \A g \in 1..MaxSamples : g # n => getter'[g] = getter[g]
  BY <1>1 DEF CameraTypes, Sampler
<1>3. CameraTypes'
  BY <1>1, <1>2 DEF CameraTypes
<1>4. RequestOwned' /\ Cam!CaptureMatches'
  <2>1. ASSUME NEW d \in DevIds, waits'[d] # 0
        PROVE  /\ waits'[d] <= samples' /\ d \in devSendFns'
               /\ getter'[waits'[d]].ch = d /\ getter'[waits'[d]].at \in {"waits", "holds"}
    <3>1. CASE d = c
      BY <1>1, <1>2, <3>1 DEF CameraTypes
    <3>2. CASE d # c
      <4>1. waits'[d] = waits[d] /\ waits[d] \in 1..MaxSamples /\ waits[d] <= samples
        BY <1>1, <2>1, <3>2 DEF CameraTypes, RequestOwned
      <4>2. waits[d] # n
        BY <4>1 DEF CameraTypes
      <4> QED BY <1>1, <1>2, <2>1, <4>1, <4>2 DEF CameraTypes, RequestOwned
    <3> QED BY <3>1, <3>2
  <2> QED BY <2>1 DEF RequestOwned, Cam!CaptureMatches
<1>5. Gone(0)
  BY DEF FramesInOrder, Gone, CameraTypes
<1>6. FramesInOrder'
  <2>1. \A g \in 1..MaxSamples : Gone(getter'[g].frame)
    BY <1>2, <1>5 DEF FramesInOrder
  <2> QED BY <2>1 DEF FramesInOrder, Gone
<1> QED BY <1>3, <1>4, <1>6

\* A frame of the browser is newer than the frames before it, in hand and in the queue.
LEMMA CameraViewerSteps ==
    ASSUME CameraInv
    PROVE  /\ Cam!BrowserSends => CameraInv'
           /\ Cam!SendSample => CameraInv'
<1> USE DEF CameraInv
<1>1. ASSUME Cam!BrowserSends PROVE CameraInv'
  <2> USE <1>1 DEF Cam!BrowserSends, Cam!serverVars, Cam!fields
  <2>1. sampleCh' \in Seq(1..frames')
    <3>1. frames \in Nat /\ 1..frames \subseteq 1..(frames + 1)
      BY DEF CameraTypes
    <3>2. sampleCh \in Seq(1..(frames + 1))
      BY <3>1 DEF CameraTypes
    <3> QED BY <3>2
  <2>2. CameraTypes'
    BY <2>1 DEF CameraTypes
  <2>3. RequestOwned' /\ Cam!CaptureMatches'
    BY DEF RequestOwned, Cam!CaptureMatches
  <2>4. \A i \in DOMAIN sampleCh : sampleCh[i] \in 1..frames
    BY DEF CameraTypes
  <2>5. ASSUME NEW k, Gone(k) PROVE Gone(k)'
    BY <2>5 DEF Gone, CameraTypes
  <2>6. \A g \in 1..MaxSamples : Gone(getter[g].frame)'
    BY <2>5 DEF FramesInOrder
  <2>7. Gone(response.taken)'
    BY <2>5 DEF FramesInOrder
  <2>8. FramesInOrder'
    BY <2>4, <2>6, <2>7 DEF FramesInOrder, CameraTypes
  <2> QED BY <2>2, <2>3, <2>8
<1>2. ASSUME Cam!SendSample PROVE CameraInv'
  <2> USE <1>2 DEF Cam!SendSample, Cam!serverVars
  <2>1. CASE sampleCh' = sampleCh
    <3>1. CameraTypes'
      BY <2>1 DEF CameraTypes
    <3>2. RequestOwned' /\ Cam!CaptureMatches'
      BY DEF RequestOwned, Cam!CaptureMatches
    <3>3. \A i \in DOMAIN sampleCh : sampleCh[i] \in 1..frames
      BY DEF CameraTypes
    <3>4. FramesInOrder'
      BY <2>1, <3>3 DEF FramesInOrder, Gone, CameraTypes
    <3> QED BY <3>1, <3>2, <3>4
  <2>2. CASE sampleCh' = Append(sampleCh, inHand)
    <3>1. inHand \in 1..frames
      BY DEF CameraTypes
    <3>2. sampleCh' \in Seq(1..frames)
      <4> DEFINE S == 1..frames
      <4>1. sampleCh \in Seq(S) /\ inHand \in S
        BY <3>1 DEF CameraTypes
      <4> HIDE DEF S
      <4>2. Append(sampleCh, inHand) \in Seq(S)
        BY <4>1, AppendProperties
      <4> QED BY <2>2, <4>2 DEF S
    <3>3. CameraTypes'
      BY <3>2 DEF CameraTypes
    <3>4. RequestOwned' /\ Cam!CaptureMatches'
      BY DEF RequestOwned, Cam!CaptureMatches
    <3> DEFINE L == Len(sampleCh)
    <3>5. /\ L \in Nat /\ DOMAIN sampleCh = 1..L /\ DOMAIN sampleCh' = 1..(L + 1)
          /\ sampleCh'[L + 1] = inHand /\ \A i \in 1..L : sampleCh'[i] = sampleCh[i]
      BY <2>2, <3>1 DEF CameraTypes
    <3>6. \A i \in DOMAIN sampleCh : sampleCh[i] \in 1..frames
      BY DEF CameraTypes
    <3> HIDE DEF L
    <3>7. ASSUME NEW k, Gone(k) PROVE Gone(k)'
      BY <3>1, <3>5, <3>7 DEF Gone
    <3>8. \A i \in DOMAIN sampleCh' : sampleCh'[i] \notin discarded'
      BY <3>1, <3>5 DEF FramesInOrder
    <3>9. \A i, j \in DOMAIN sampleCh' : i < j => sampleCh'[i] < sampleCh'[j]
      BY <3>1, <3>5 DEF FramesInOrder
    <3>10. (\A g \in 1..MaxSamples : Gone(getter[g].frame)') /\ Gone(response.taken)'
      BY <3>7 DEF FramesInOrder
    <3>11. inHand' = 0 /\ 0 \notin discarded'
      BY DEF CameraTypes
    <3>12. FramesInOrder'
      BY <3>8, <3>9, <3>10, <3>11 DEF FramesInOrder
    <3> QED BY <3>3, <3>4, <3>12
  <2> QED BY <2>1, <2>2
<1> QED BY <1>1, <1>2

\* A goroutine takes the oldest frame, answers its own request, or ends without one.
LEMMA CameraGetterSteps ==
    ASSUME CameraInv, NEW g \in 1..MaxSamples
    PROVE  /\ Cam!TakeSample(g) => CameraInv'
           /\ Cam!SendDevMsg(g) => CameraInv'
           /\ Cam!SeesDone(g) => CameraInv'
<1> USE DEF CameraInv
<1>1. ASSUME Cam!TakeSample(g) PROVE CameraInv'
  <2> USE <1>1 DEF Cam!TakeSample, Cam!serverVars, Cam!viewerVars
  <2> DEFINE L == Len(sampleCh)
  <2>1. /\ L \in Nat \ {0} /\ DOMAIN sampleCh = 1..L /\ DOMAIN sampleCh' = 1..(L - 1)
        /\ Head(sampleCh) = sampleCh[1] /\ \A i \in 1..(L - 1) : sampleCh'[i] = sampleCh[i + 1]
        /\ sampleCh' \in Seq(1..frames) /\ \A i \in 1..L : sampleCh[i] \in 1..frames
    BY DEF CameraTypes
  <2> HIDE DEF L
  <2>2. /\ getter' \in [1..MaxSamples -> Sampler]
        /\ getter'[g] = [at |-> "holds", ch |-> getter[g].ch, frame |-> sampleCh[1]]
        /\ \A h \in 1..MaxSamples : h # g => getter'[h] = getter[h]
    <3>1. PICK r \in Sampler : r = getter[g] /\ DOMAIN getter = 1..MaxSamples
      BY DEF CameraTypes
    <3>2. /\ [r EXCEPT !.at = "holds"] = [at |-> "holds", ch |-> r.ch, frame |-> r.frame]
          /\ r.ch \in DevIds \cup {0}
      BY DEF Sampler
    <3> DEFINE held == [at |-> "holds", ch |-> r.ch, frame |-> r.frame]
    <3>3. [held EXCEPT !.frame = sampleCh[1]] = [at |-> "holds", ch |-> r.ch, frame |-> sampleCh[1]]
      OBVIOUS
    <3>4. [at |-> "holds", ch |-> r.ch, frame |-> sampleCh[1]] \in Sampler
      BY <2>1, <3>2 DEF CameraTypes, Sampler
    <3> DEFINE mid == [getter EXCEPT ![g].at = "holds"]
    <3>5. mid = [getter EXCEPT ![g] = held]
      BY <3>1, <3>2
    <3>6. getter' = [mid EXCEPT ![g].frame = sampleCh[1]]
      BY <2>1
    <3>7. mid[g] = held /\ DOMAIN mid = 1..MaxSamples /\ \A h \in 1..MaxSamples : h # g => mid[h] = getter[h]
      BY <3>1, <3>5
    <3> HIDE DEF mid, held
    <3>8. getter' = [h \in 1..MaxSamples |-> IF h = g THEN [held EXCEPT !.frame = sampleCh[1]] ELSE getter[h]]
      BY <3>6, <3>7
    <3> DEFINE taken == [at |-> "holds", ch |-> r.ch, frame |-> sampleCh[1]]
    <3>9. getter' = [h \in 1..MaxSamples |-> IF h = g THEN taken ELSE getter[h]]
      BY <3>3, <3>8 DEF held
    <3>10. taken \in Sampler /\ \A h \in 1..MaxSamples : getter[h] \in Sampler
      BY <3>4 DEF CameraTypes
    <3> HIDE DEF taken
    <3>11. /\ getter' \in [1..MaxSamples -> Sampler] /\ getter'[g] = taken
           /\ \A h \in 1..MaxSamples : h # g => getter'[h] = getter[h]
      BY <3>9, <3>10
    <3> QED BY <3>1, <3>11 DEF taken
  <2>3. CameraTypes'
    BY <2>1, <2>2 DEF CameraTypes
  <2>4. RequestOwned' /\ Cam!CaptureMatches'
    BY <2>2 DEF CameraTypes, RequestOwned, Cam!CaptureMatches
  <2>5. ASSUME NEW k, Gone(k) PROVE Gone(k)'
    BY <2>1, <2>5 DEF Gone
  <2>6. ASSUME NEW k, k = sampleCh[1] PROVE Gone(k)'
    BY <2>1, <2>6 DEF Gone, FramesInOrder
  <2>7. \A h \in 1..MaxSamples : Gone(getter[h].frame)'
    <3>1. ASSUME NEW h \in 1..MaxSamples, NEW k, k = getter'[h].frame PROVE Gone(k)'
      BY <2>2, <2>5, <2>6, <3>1 DEF FramesInOrder
    <3> QED BY <3>1 DEF Gone
  <2>8. Gone(response.taken)'
    BY <2>5 DEF FramesInOrder
  <2>9. \A i \in DOMAIN sampleCh' : /\ sampleCh'[i] \notin discarded'
                                    /\ inHand' # 0 => sampleCh'[i] < inHand'
    BY <2>1 DEF FramesInOrder
  <2>10. \A i, j \in DOMAIN sampleCh' : i < j => sampleCh'[i] < sampleCh'[j]
    BY <2>1 DEF FramesInOrder
  <2>11. FramesInOrder'
    BY <2>7, <2>8, <2>9, <2>10 DEF FramesInOrder
  <2> QED BY <2>3, <2>4, <2>11
<1>2. ASSUME Cam!SendDevMsg(g) \/ Cam!SeesDone(g) PROVE CameraInv'
  <2> USE DEF Cam!SendDevMsg, Cam!SeesDone, Cam!serverVars, Cam!viewerVars
  <2> DEFINE c == getter[g].ch
  <2>1. /\ getter' \in [1..MaxSamples -> Sampler]
        /\ getter'[g] = [at |-> "ends", ch |-> getter[g].ch, frame |-> getter[g].frame]
        /\ \A h \in 1..MaxSamples : h # g => getter'[h] = getter[h]
    <3> DEFINE e == [at |-> "ends", ch |-> getter[g].ch, frame |-> getter[g].frame]
    <3>1. getter \in [1..MaxSamples -> Sampler]
      BY DEF CameraTypes
    <3>2. e \in Sampler /\ [getter[g] EXCEPT !.at = "ends"] = e
      BY <3>1 DEF Sampler
    <3>3. getter' = [getter EXCEPT ![g] = [getter[g] EXCEPT !.at = "ends"]]
      BY <1>2
    <3>4. getter' = [getter EXCEPT ![g] = e]
      BY <3>2, <3>3
    <3> HIDE DEF e
    <3>5. /\ getter' \in [1..MaxSamples -> Sampler] /\ getter'[g] = e
          /\ \A h \in 1..MaxSamples : h # g => getter'[h] = getter[h]
      BY <3>1, <3>2, <3>4
    <3> QED BY <3>5 DEF e
  <2>2. \/ waits' = waits /\ c \notin devSendFns
        \/ waits' = [waits EXCEPT ![c] = IF @ = g THEN 0 ELSE @]
    BY <1>2 DEF RequestOwned
  <2>3. CameraTypes'
    <3>1. waits' \in [DevIds -> 0..MaxSamples]
      BY <2>2, EndpointsAssumption DEF EndpointsAssumption, CameraTypes
    <3> QED BY <1>2, <2>1, <3>1 DEF CameraTypes
  <2>4. ASSUME NEW d \in DevIds, waits'[d] # 0
        PROVE  waits'[d] = waits[d] /\ waits[d] # g
    <3>1. waits[d] # 0 => d \in devSendFns /\ getter[waits[d]].ch = d
      BY DEF RequestOwned
    <3>2. DOMAIN waits = DevIds
      BY DEF CameraTypes
    <3>3. CASE waits' = waits /\ c \notin devSendFns
      BY <2>4, <3>1, <3>3
    <3>4. CASE waits' = [waits EXCEPT ![c] = IF @ = g THEN 0 ELSE @]
      <4>1. CASE d = c
        BY <2>4, <3>2, <3>4, <4>1
      <4>2. CASE d # c
        BY <2>4, <3>1, <3>2, <3>4, <4>2
      <4> QED BY <4>1, <4>2
    <3> QED BY <2>2, <3>3, <3>4
  <2>5. RequestOwned' /\ Cam!CaptureMatches'
    BY <1>2, <2>1, <2>4 DEF CameraTypes, RequestOwned, Cam!CaptureMatches
  <2>6. \A h \in 1..MaxSamples : getter'[h].frame = getter[h].frame
    BY <2>1
  <2>7. Gone(response'.taken)
    BY <1>2 DEF FramesInOrder
  <2>8. FramesInOrder'
    BY <1>2, <2>6, <2>7 DEF FramesInOrder, Gone
  <2> QED BY <2>3, <2>5, <2>8
<1> QED BY <1>1, <1>2

\* Every step of the camera keeps it.
LEMMA CameraSteps == CameraInv /\ [Cam!Next]_cameraVars => CameraInv'
<1> SUFFICES ASSUME CameraInv, [Cam!Next]_cameraVars PROVE CameraInv'
  OBVIOUS
<1>1. CASE UNCHANGED cameraVars
  <2>1. UNCHANGED <<getter, sampleCh, frames, inHand, discarded, response>>
    BY <1>1 DEF cameraVars
  <2> QED BY <1>1, <2>1, FramesStay
          DEF cameraVars, CameraInv, CameraTypes, RequestOwned, Cam!CaptureMatches
<1>2. CASE Cam!Next
  BY <1>2, CameraServerSteps, CameraStopSteps, CameraRequestSteps, CameraViewerSteps,
     CameraGetterSteps DEF Cam!Next, Cam!Getters
<1> QED BY <1>1, <1>2

\* A stream of the camera gets its own frames, one for each request, as long as it is
\* on, for any number of channels, requests, frames and streams.
THEOREM CameraAlwaysFaithful == MCSpec => []CameraFaithful
<1>1. MCInit => CameraInv
  BY CameraStarts DEF MCInit
<1>2. CameraInv /\ [MCNext]_mcVars => CameraInv'
  <2> SUFFICES ASSUME CameraInv, [MCNext]_mcVars PROVE CameraInv'
    OBVIOUS
  <2>1. [Cam!Next]_cameraVars
    BY DEF MCNext, mcVars
  <2> QED BY <2>1, CameraSteps
<1>3. CameraInv => CameraFaithful
  BY DEF CameraInv, CameraTypes, RequestOwned, FramesInOrder, Gone, CameraFaithful,
         Cam!CameraFaithful, Cam!RequestsKept, Cam!DiscardedGone
<1> QED BY <1>1, <1>2, <1>3, PTL DEF MCSpec

(***************************************************************************)
(* The microphone.                                                         *)
(***************************************************************************)

Callers == 0..MaxStarts
CallRec == [at : {"idle", "waits", "announces", "pair", "data", "ends"}, take : Nat,
            format : {"none", "pcm", "adpcm"}, epoch : Nat, raced : BOOLEAN]
Openings == {<<>>, <<"onOpen">>, <<"change", "onOpen">>, <<"reply", "change", "onOpen">>}

MikeTypes ==
    /\ take \in Nat /\ epoch \in Nat /\ lateSilence \in Nat
    /\ accepted \subseteq {"pcm", "adpcm"} /\ activeFormat \in {"none", "pcm", "adpcm"}
    /\ call \in [Callers -> CallRec]
    /\ filler \in [1..MaxStarts -> {"none", "running", "stopped"}] /\ silenceStop \in Callers
    /\ opening \in Openings

\* Recording is on between the open and the close, as the client has handled them.
Dialogue ==
    /\ asking = "create" => asker = "created"
    /\ asking = "version" => asker = "version"
    /\ asking = "formats" => asker = "formats"
    /\ asking \in {"open", "change"} => asker = "open"
    /\ asking = "close" => asker = "closed"
    /\ recording <=> (asker = "open" /\ asking # "open") \/ asking = "close"
    /\ opening # <<>> => asking = "none" /\ asker = "open"
    /\ asking \in {"open", "change"} \/ opening # <<>> => Mike!Started < MaxStarts

\* Between the lock and the unlock.
Inside(s) == call[s].at \in {"announces", "pair", "data", "ends"}

\* A sender inside holds sendMu, so the pair it has begun on a channel is the last
\* thing on it; a channel that is being opened again has no call on it yet.
CallsApart ==
    /\ \A s \in Callers :
          /\ Inside(s) => sendMu = s
          /\ call[s].at = "data" /\ call[s].take = take => announced = s
          /\ call[s].at # "idle" =>
                /\ call[s].take <= take
                /\ asker \in {"created", "version", "formats"} /\ asking # "create"
                      => call[s].take < take
    /\ torn = FALSE

\* What is left over is of the format that is active, unless a change overtook it.
FormatsApart ==
    /\ \A s \in Callers : Inside(s) /\ ~call[s].raced => call[s].epoch = epoch
    /\ leftover.epoch = 0 \/ leftover.raced = TRUE \/ leftover.epoch = epoch
    /\ mixed = FALSE

\* The goroutines that have been started are the first ones; the one that
\* silenceStop stops is the one that runs.
FillersInv ==
    /\ Mike!Started \in Nat /\ Mike!Started <= MaxStarts
    /\ \A f \in 1..MaxStarts :
          /\ filler[f] # "none" <=> f <= Mike!Started
          /\ filler[f] = "running" <=> f = silenceStop
          /\ call[f].at # "idle" => filler[f] # "none"
    /\ ~recording => silenceStop = 0
    /\ recording /\ ~spoken /\ opening = <<>> => silenceStop # 0
    /\ spoken => silenceStop = 0

\* The silence a goroutine has begun to send.
Begun == {f \in 1..MaxStarts : call[f].at \in {"waits", "announces", "pair", "data"}}

SilenceInv ==
    IF spoken THEN lateSilence + Cardinality(Begun) <= Mike!Started ELSE lateSilence = 0

MikeInv == MikeTypes /\ Dialogue /\ CallsApart /\ FormatsApart /\ FillersInv /\ SilenceInv

\* FiniteSets as AudioInput has it.
LEMMA MikeCardinality == \A S : Mike!Cardinality(S) = Cardinality(S)
BY DEF Mike!Cardinality, Cardinality

\* The silence that has begun is of goroutines that have been started.
LEMMA BegunStarted ==
    ASSUME MikeInv
    PROVE  /\ IsFiniteSet(Begun) /\ Cardinality(Begun) \in Nat
           /\ Cardinality(Begun) <= Mike!Started
<1>1. Begun \subseteq {f \in 1..MaxStarts : filler[f] # "none"}
  BY DEF Begun, MikeInv, FillersInv
<1>2. IsFiniteSet({f \in 1..MaxStarts : filler[f] # "none"})
  <2>1. IsFiniteSet(1..MaxStarts)
    BY EndpointsAssumption, FS_Interval DEF EndpointsAssumption
  <2>2. {f \in 1..MaxStarts : filler[f] # "none"} \in SUBSET (1..MaxStarts)
    OBVIOUS
  <2> QED BY <2>1, <2>2, FS_Subset
<1>3. Mike!Started = Cardinality({f \in 1..MaxStarts : filler[f] # "none"})
  BY MikeCardinality DEF Mike!Started, Mike!Fillers
<1> QED BY <1>1, <1>2, <1>3, FS_Subset, FS_CardinalityType

\* A set of goroutines that are the first n has n of them.
LEMMA FirstOnes ==
    ASSUME NEW n \in Nat, n <= MaxStarts,
           NEW P, P \subseteq 1..MaxStarts, \A f \in 1..MaxStarts : f \in P <=> f <= n
    PROVE  Mike!Cardinality(P) = n
<1>1. P = 1..n
  <2>1. \A f : f \in 1..n <=> f \in 1..MaxStarts /\ f <= n
    BY EndpointsAssumption DEF EndpointsAssumption
  <2>2. \A f : f \in P <=> f \in 1..n
    BY <2>1
  <2> QED BY <2>2
<1>2. Cardinality(1..n) = n
  BY FS_Interval
<1> QED BY <1>1, <1>2, MikeCardinality

\* What a call that goes on becomes.
LEMMA CallGoesOn ==
    ASSUME MikeInv, NEW s \in Callers, NEW a \in {"waits", "announces", "pair", "data", "ends"},
           call' = [call EXCEPT ![s].at = a]
    PROVE  /\ call' \in [Callers -> CallRec]
           /\ call'[s].at = a /\ call'[s].take = call[s].take
           /\ call'[s].epoch = call[s].epoch /\ call'[s].raced = call[s].raced
           /\ \A h \in Callers : h # s => call'[h] = call[h]
BY DEF MikeInv, MikeTypes, CallRec

\* It holds at the start.
LEMMA MikeStarts == Mike!Init => MikeInv
<1> SUFFICES ASSUME Mike!Init PROVE MikeInv
  OBVIOUS
<1> USE EndpointsAssumption DEF EndpointsAssumption, Mike!Init, Mike!None, Mike!Nothing,
        Mike!Fillers, Mike!Senders, Mike!Mic
<1>1. Callers = {0} \cup 1..MaxStarts
  BY DEF Callers
<1>2. call = [s \in Callers |-> Mike!Idle] /\ Mike!Idle \in CallRec /\ Mike!Idle.at = "idle"
  BY <1>1 DEF Mike!Idle, CallRec
<1>3. MikeTypes
  BY <1>1, <1>2 DEF MikeTypes, Openings
<1>4. \A s \in Callers : call[s].at = "idle"
  BY <1>2
<1>5. Mike!Started = 0
  <2>1. {f \in 1..MaxStarts : filler[f] # "none"} = {}
    OBVIOUS
  <2> QED BY <2>1, FS_EmptySet, MikeCardinality DEF Mike!Started
<1>6. Dialogue /\ CallsApart /\ FormatsApart
  BY <1>4 DEF Dialogue, CallsApart, FormatsApart, Inside
<1>7. FillersInv
  BY <1>1, <1>4, <1>5 DEF FillersInv
<1> QED BY <1>3, <1>6, <1>7 DEF MikeInv, SilenceInv

\* Where the calls and the goroutines stay, so does the silence.
LEMMA SilenceStays ==
    ASSUME MikeInv, UNCHANGED <<call, filler, spoken, lateSilence>>
    PROVE  SilenceInv'
BY DEF MikeInv, SilenceInv, Begun, Mike!Started, Mike!Fillers

\* The server asks for one thing at a time.
LEMMA MikeAsks == ASSUME MikeInv, Mike!ServerAsks PROVE MikeInv'
<1> USE DEF Mike!ServerAsks, Mike!Asks, Mike!formatVars, Mike!fillVars, Mike!sendVars, Mike!seen,
            Mike!None, MikeInv
<1>1. /\ UNCHANGED <<take, recording, accepted, activeFormat, epoch, leftover, opening, filler>>
      /\ UNCHANGED <<silenceStop, sendMu, call, speech, announced, torn, mixed, spoken, lateSilence>>
      /\ asking = "none" /\ opening = <<>>
  OBVIOUS
<1>2. \/ asker = "closed" /\ asking' = "create" /\ asker' = "created"
      \/ asker = "created" /\ asking' = "version" /\ asker' = "version"
      \/ asker = "version" /\ asking' = "formats" /\ asker' = "formats"
      \/ asker = "formats" /\ asking' = "open" /\ asker' = "open" /\ Mike!Started < MaxStarts
      \/ asker = "open" /\ asking' = "change" /\ asker' = "open" /\ Mike!Started < MaxStarts
      \/ asker = "open" /\ asking' = "close" /\ asker' = "closed"
  OBVIOUS
<1> HIDE DEF Mike!ServerAsks, Mike!Asks
<1>3. Mike!Started' = Mike!Started
  BY <1>1 DEF Mike!Started
<1>4. MikeTypes'
  BY <1>1 DEF MikeTypes
<1>5. Dialogue'
  BY <1>1, <1>2, <1>3 DEF Dialogue
<1>6. CallsApart'
  BY <1>1, <1>2 DEF CallsApart, Inside
<1>7. FormatsApart'
  BY <1>1 DEF FormatsApart, Inside
<1>8. FillersInv'
  BY <1>1, <1>3 DEF FillersInv
<1>9. SilenceInv'
  BY <1>1, SilenceStays
<1> QED BY <1>4, <1>5, <1>6, <1>7, <1>8, <1>9

\* The channel is opened: no call is on the new one.
LEMMA MikeCreates ==
    ASSUME MikeInv, Mike!HandleCreate \/ Mike!HandleVersion \/ Mike!HandleFormats
    PROVE  MikeInv'
<1> USE DEF Mike!Arrives, Mike!formatVars, Mike!fillVars, Mike!sendVars, Mike!seen,
            Mike!None, MikeInv
<1>1. /\ UNCHANGED <<asker, recording, activeFormat, epoch, leftover, opening, filler>>
      /\ UNCHANGED <<silenceStop, sendMu, call, speech, torn, mixed, spoken, lateSilence>>
      /\ asking' = "none" /\ opening = <<>> /\ accepted' \subseteq {"pcm", "adpcm"}
  BY DEF Mike!HandleCreate, Mike!HandleVersion, Mike!HandleFormats, MikeTypes
<1>2. \/ asking = "create" /\ take' = take + 1
      \/ asking = "version" /\ take' = take /\ announced' = announced
      \/ asking = "formats" /\ take' = take
  BY DEF Mike!HandleCreate, Mike!HandleVersion, Mike!HandleFormats
<1>3. Mike!Started' = Mike!Started
  BY <1>1 DEF Mike!Started
<1>4. MikeTypes'
  BY <1>1, <1>2 DEF MikeTypes
<1>5. Dialogue'
  BY <1>1, <1>2, <1>3 DEF Dialogue
<1>6. \A s \in Callers : call[s].take \in Nat
  BY DEF MikeTypes, CallRec
<1>7. CallsApart'
  BY <1>1, <1>2, <1>6 DEF CallsApart, Inside, Dialogue, MikeTypes
<1>8. FormatsApart'
  BY <1>1 DEF FormatsApart, Inside
<1>9. FillersInv'
  BY <1>1, <1>3 DEF FillersInv
<1>10. SilenceInv'
  BY <1>1, SilenceStays
<1> QED BY <1>4, <1>5, <1>7, <1>8, <1>9, <1>10

\* A format is set: the encoder forgets, and the calls that it overtakes are marked.
LEMMA MikeSetsFormat ==
    ASSUME MikeInv, Mike!HandleOpen \/ Mike!HandleFormatChange
    PROVE  MikeInv'
<1> USE DEF Mike!Arrives, Mike!SetFormat, Mike!ResetEncoder, Mike!Nothing, Mike!formatVars,
            Mike!fillVars, Mike!sendVars, Mike!seen, Mike!None, MikeInv
<1> DEFINE Marked(s) == [call[s] EXCEPT !.raced = @ \/ call[s].at # "idle"]
<1>1. /\ UNCHANGED <<asker, take, accepted, filler, silenceStop, sendMu, announced, torn, mixed>>
      /\ asking \in {"open", "change"} /\ asking' = "none" /\ opening = <<>>
      /\ epoch' = epoch + 1 /\ leftover' = [epoch |-> 0, raced |-> FALSE]
      /\ activeFormat' \in accepted
      /\ call' = [s \in Callers |-> Marked(s)]
  <2>1. Mike!Senders = Callers
    BY EndpointsAssumption DEF EndpointsAssumption, Mike!Senders, Mike!Mic, Mike!Fillers, Callers
  <2> QED BY <2>1 DEF Mike!HandleOpen, Mike!HandleFormatChange
<1>2. \/ /\ asking = "open" /\ recording' = TRUE /\ spoken' = FALSE /\ lateSilence' = 0
         /\ opening' = <<"reply", "change", "onOpen">>
      \/ /\ asking = "change" /\ UNCHANGED <<recording, spoken, lateSilence>>
         /\ opening' = <<"onOpen">>
  BY DEF Mike!HandleOpen, Mike!HandleFormatChange
<1>3. ASSUME NEW s \in Callers
      PROVE  /\ Marked(s) \in CallRec /\ Marked(s).at = call[s].at
             /\ Marked(s).take = call[s].take
             /\ call[s].at # "idle" => Marked(s).raced = TRUE
  <2>1. PICK r \in CallRec : r = call[s]
    BY DEF MikeTypes
  <2>2. r.raced \in BOOLEAN
    BY DEF CallRec
  <2> DEFINE b == r.raced \/ r.at # "idle"
  <2>3. b \in BOOLEAN /\ (r.at # "idle" => b = TRUE)
    BY <2>2
  <2>4. Marked(s) = [r EXCEPT !.raced = b]
    BY <2>1
  <2> HIDE DEF b
  <2>5. [r EXCEPT !.raced = b] = [at |-> r.at, take |-> r.take, format |-> r.format,
                                  epoch |-> r.epoch, raced |-> b]
    BY DEF CallRec
  <2> QED BY <2>1, <2>3, <2>4, <2>5 DEF CallRec
<1> HIDE DEF Marked
<1>4. ASSUME NEW s \in Callers
      PROVE  /\ call'[s].at = call[s].at /\ call'[s].take = call[s].take
             /\ call[s].at # "idle" => call'[s].raced = TRUE
  BY <1>1, <1>3
<1>5. Mike!Started' = Mike!Started
  BY <1>1 DEF Mike!Started
<1>6. MikeTypes'
  <2>1. call' \in [Callers -> CallRec]
    BY <1>1, <1>3
  <2>2. activeFormat' \in {"none", "pcm", "adpcm"}
    BY <1>1 DEF MikeTypes
  <2> QED BY <1>1, <1>2, <2>1, <2>2 DEF MikeTypes, Openings
<1>7. Dialogue'
  BY <1>1, <1>2, <1>5 DEF Dialogue
<1>8. CallsApart'
  BY <1>1, <1>4, <1>2 DEF CallsApart, Inside, Dialogue
<1>9. FormatsApart'
  BY <1>1, <1>4 DEF FormatsApart, Inside
<1>10. 1..MaxStarts \subseteq Callers
  BY EndpointsAssumption DEF EndpointsAssumption, Callers
<1>11. FillersInv'
  <2>1. \A f \in 1..MaxStarts : call'[f].at # "idle" => filler'[f] # "none"
    BY <1>1, <1>4, <1>10 DEF FillersInv
  <2>2. opening' # <<>>
    BY <1>2
  <2>3. (~recording' => ~recording) /\ (spoken' => spoken)
    BY <1>2
  <2> QED BY <1>1, <1>5, <2>1, <2>2, <2>3 DEF FillersInv
<1>12. Begun' = Begun
  BY <1>4, <1>10 DEF Begun
<1>13. SilenceInv'
  BY <1>1, <1>2, <1>5, <1>12 DEF SilenceInv
<1> QED BY <1>6, <1>7, <1>8, <1>9, <1>11, <1>13

\* OnOpen stops the goroutine that runs and starts the next one.
LEMMA MikeOpens ==
    ASSUME MikeInv, Mike!SendReply \/ Mike!OnOpen
    PROVE  MikeInv'
<1> USE DEF Mike!askerVars, Mike!formatVars, Mike!fillVars, Mike!sendVars, Mike!seen, MikeInv
<1>1. ASSUME Mike!SendReply PROVE MikeInv'
  <2>1. /\ UNCHANGED <<asker, asking, take, recording, accepted, activeFormat, epoch, leftover>>
        /\ UNCHANGED <<filler, silenceStop, sendMu, call, announced, torn, mixed, spoken, lateSilence>>
        /\ opening # <<>> /\ Head(opening) \in {"reply", "change"} /\ opening' = Tail(opening)
    BY <1>1 DEF Mike!SendReply
  <2>2. opening' \in Openings \ {<<>>}
    <3>1. CASE opening = <<"onOpen">>
      BY <2>1, <3>1
    <3>2. CASE opening = <<"change", "onOpen">>
      BY <2>1, <3>2 DEF Openings
    <3>3. CASE opening = <<"reply", "change", "onOpen">>
      BY <2>1, <3>3 DEF Openings
    <3> QED BY <2>1, <3>1, <3>2, <3>3 DEF MikeTypes, Openings
  <2>3. Mike!Started' = Mike!Started
    BY <2>1 DEF Mike!Started
  <2>4. MikeTypes'
    BY <2>1, <2>2 DEF MikeTypes
  <2>5. Dialogue'
    BY <2>1, <2>3 DEF Dialogue
  <2>6. CallsApart' /\ FormatsApart'
    BY <2>1 DEF CallsApart, FormatsApart, Inside
  <2>7. FillersInv'
    BY <2>1, <2>2, <2>3 DEF FillersInv
  <2>8. SilenceInv'
    BY <2>1, SilenceStays
  <2> QED BY <2>4, <2>5, <2>6, <2>7, <2>8
<1>2. ASSUME Mike!OnOpen PROVE MikeInv'
  <2> DEFINE n == Mike!Started
  <2>1. /\ UNCHANGED <<asker, asking, take, recording, accepted, activeFormat, epoch, leftover>>
        /\ UNCHANGED <<sendMu, call, announced, torn, mixed>>
        /\ spoken' = FALSE /\ lateSilence' = 0
        /\ opening # <<>> /\ Head(opening) = "onOpen" /\ opening' = Tail(opening)
        /\ filler' = [Mike!StopSilenceFill EXCEPT ![n + 1] = "running"]
        /\ silenceStop' = n + 1
    BY <1>2 DEF Mike!OnOpen
  <2>2. opening = <<"onOpen">> /\ opening' = <<>>
    <3>1. opening # <<"change", "onOpen">>
      BY <2>1
    <3>2. opening # <<"reply", "change", "onOpen">>
      BY <2>1
    <3>3. opening = <<"onOpen">>
      BY <2>1, <3>1, <3>2 DEF MikeTypes, Openings
    <3>4. Tail(<<"onOpen">>) = <<>>
      OBVIOUS
    <3> QED BY <2>1, <3>3, <3>4
  <2>3. n \in Nat /\ n + 1 \in 1..MaxStarts
    BY <2>2, EndpointsAssumption DEF EndpointsAssumption, Dialogue, FillersInv
  <2>4. \A f \in 1..MaxStarts :
           /\ filler[f] # "none" <=> f <= n
           /\ filler[f] = "running" <=> f = silenceStop
    BY DEF FillersInv
  <2>5. silenceStop \in 0..MaxStarts /\ DOMAIN filler = 1..MaxStarts
    BY DEF MikeTypes, Callers
  <2> HIDE DEF n
  <2>6. /\ Mike!StopSilenceFill \in [1..MaxStarts -> {"none", "running", "stopped"}]
        /\ \A f \in 1..MaxStarts : /\ Mike!StopSilenceFill[f] # "none" <=> f <= n
                                   /\ Mike!StopSilenceFill[f] # "running"
    BY <2>4, <2>5 DEF Mike!StopSilenceFill, MikeTypes
  <2>7. /\ filler' \in [1..MaxStarts -> {"none", "running", "stopped"}]
        /\ \A f \in 1..MaxStarts : /\ filler'[f] # "none" <=> f <= n + 1
                                   /\ filler'[f] = "running" <=> f = n + 1
    BY <2>1, <2>3, <2>6
  <2>8. Mike!Started' = n + 1
    <3>1. n + 1 <= MaxStarts /\ n + 1 \in Nat
      BY <2>3, EndpointsAssumption DEF EndpointsAssumption
    <3>2. Mike!Cardinality({f \in 1..MaxStarts : filler'[f] # "none"}) = n + 1
      BY <2>7, <3>1, FirstOnes
    <3> QED BY <3>2 DEF Mike!Started, Mike!Fillers
  <2>9. MikeTypes'
    BY <2>1, <2>2, <2>3, <2>7 DEF MikeTypes, Openings, Callers
  <2>10. Dialogue'
    BY <2>1, <2>2 DEF Dialogue
  <2>11. CallsApart' /\ FormatsApart'
    BY <2>1 DEF CallsApart, FormatsApart, Inside
  <2>12. recording
    BY <2>2 DEF Dialogue
  <2>13. \A f \in 1..MaxStarts : call'[f].at # "idle" => filler'[f] # "none"
    BY <2>1, <2>3, <2>4, <2>7 DEF FillersInv
  <2>14. FillersInv'
    BY <2>1, <2>3, <2>7, <2>8, <2>12, <2>13, EndpointsAssumption DEF EndpointsAssumption, FillersInv
  <2>15. SilenceInv'
    BY <2>1 DEF SilenceInv
  <2> QED BY <2>9, <2>10, <2>11, <2>14, <2>15
<1> QED BY <1>1, <1>2

\* What stopping the goroutine that runs leaves.
LEMMA SilenceStopped ==
    ASSUME MikeInv, filler' = Mike!StopSilenceFill
    PROVE  /\ filler' \in [1..MaxStarts -> {"none", "running", "stopped"}]
           /\ \A f \in 1..MaxStarts : /\ filler'[f] # "running"
                                      /\ filler'[f] # "none" <=> filler[f] # "none"
           /\ Mike!Started' = Mike!Started
<1>1. silenceStop \in 0..MaxStarts /\ DOMAIN filler = 1..MaxStarts
  BY DEF MikeInv, MikeTypes, Callers
<1>2. \A f \in 1..MaxStarts : filler[f] = "running" <=> f = silenceStop
  BY DEF MikeInv, FillersInv
<1>3. /\ filler' \in [1..MaxStarts -> {"none", "running", "stopped"}]
      /\ \A f \in 1..MaxStarts : /\ filler'[f] # "running"
                                 /\ filler'[f] # "none" <=> filler[f] # "none"
  BY <1>1, <1>2 DEF MikeInv, MikeTypes, Mike!StopSilenceFill
<1>4. {f \in 1..MaxStarts : filler'[f] # "none"} = {f \in 1..MaxStarts : filler[f] # "none"}
  BY <1>3
<1> QED BY <1>3, <1>4 DEF Mike!Started, Mike!Fillers

\* The close stops it.
LEMMA MikeStops == ASSUME MikeInv, Mike!Stop PROVE MikeInv'
<1> USE DEF Mike!Arrives, Mike!None, Mike!formatVars, Mike!fillVars, Mike!sendVars, Mike!seen, MikeInv
<1>1. /\ UNCHANGED <<asker, take, accepted, activeFormat, epoch, leftover, opening>>
      /\ UNCHANGED <<sendMu, call, announced, torn, mixed, spoken, lateSilence>>
      /\ asking = "close" /\ asking' = "none" /\ opening = <<>> /\ recording' = FALSE
  BY DEF Mike!Stop
<1>2. filler' = Mike!StopSilenceFill /\ silenceStop' = 0
  BY <1>1 DEF Mike!Stop, Dialogue
<1>3. MikeTypes'
  BY <1>1, <1>2, SilenceStopped, EndpointsAssumption DEF EndpointsAssumption, MikeTypes, Callers
<1>4. Mike!Started' = Mike!Started
  BY <1>2, SilenceStopped
<1>5. Dialogue'
  BY <1>1, <1>4 DEF Dialogue
<1>6. CallsApart' /\ FormatsApart'
  BY <1>1 DEF CallsApart, FormatsApart, Inside, Dialogue
<1>7. \A f \in 1..MaxStarts : /\ filler'[f] # "running"
                              /\ filler'[f] # "none" <=> filler[f] # "none"
  BY <1>2, SilenceStopped
<1>8. 0 \notin 1..MaxStarts
  OBVIOUS
<1>9. FillersInv'
  BY <1>1, <1>2, <1>4, <1>7, <1>8 DEF FillersInv
<1>10. Begun' = Begun
  BY <1>1 DEF Begun
<1>11. SilenceInv'
  BY <1>1, <1>4, <1>10 DEF SilenceInv
<1> QED BY <1>3, <1>5, <1>6, <1>9, <1>11

\* A call begins while recording is on, on the channel there is.
LEMMA CallBegins ==
    ASSUME MikeInv, NEW s \in Callers, Mike!Enters(s)
    PROVE  /\ recording /\ call[s].at = "idle"
           /\ call' \in [Callers -> CallRec]
           /\ call'[s].at = "waits" /\ call'[s].take = take
           /\ \A h \in Callers : h # s => call'[h] = call[h]
<1> DEFINE new == [at |-> "waits", take |-> take, format |-> "none", epoch |-> 0, raced |-> FALSE]
<1>1. Mike!Idle = [at |-> "idle", take |-> 0, format |-> "none", epoch |-> 0, raced |-> FALSE]
  BY DEF Mike!Idle, Mike!None
<1>2. [Mike!Idle EXCEPT !.at = "waits", !.take = take] = new
  <2> DEFINE mid == [Mike!Idle EXCEPT !.at = "waits"]
  <2>1. mid = [at |-> "waits", take |-> 0, format |-> "none", epoch |-> 0, raced |-> FALSE]
    <3>1. PICK r \in CallRec : r = Mike!Idle
      BY <1>1 DEF CallRec
    <3>2. [r EXCEPT !.at = "waits"] = [at |-> "waits", take |-> r.take, format |-> r.format,
                                       epoch |-> r.epoch, raced |-> r.raced]
      BY DEF CallRec
    <3>3. r.take = 0 /\ r.format = "none" /\ r.epoch = 0
      BY <1>1, <3>1
    <3>4. r.raced = FALSE
      BY <1>1, <3>1, Zenon
    <3> QED BY <3>1, <3>2, <3>3, <3>4
  <2> HIDE DEF mid
  <2>2. mid \in CallRec
    BY <2>1 DEF CallRec
  <2>3. [mid EXCEPT !.take = take] = [at |-> mid.at, take |-> take, format |-> mid.format,
                                      epoch |-> mid.epoch, raced |-> mid.raced]
    BY <2>2 DEF CallRec
  <2>4. [mid EXCEPT !.take = take] = new
    BY <2>1, <2>3
  <2> QED BY <2>4 DEF mid
<1>3. new \in CallRec
  BY DEF MikeInv, MikeTypes, CallRec
<1>4. new.at = "waits" /\ new.take = take
  OBVIOUS
<1>5. call[s].at = "idle" /\ recording
  BY <1>1 DEF Mike!Enters
<1>6. call' = [call EXCEPT ![s] = new]
  BY <1>2 DEF Mike!Enters
<1> HIDE DEF new
<1> QED BY <1>3, <1>4, <1>5, <1>6 DEF MikeInv, MikeTypes

\* The microphone stops the silence; a goroutine that runs sends some.
LEMMA MikeBegins ==
    ASSUME MikeInv,
           Mike!MicSpeaks \/ \E f \in 1..MaxStarts : Mike!FillerTicks(f)
    PROVE  MikeInv'
<1> USE DEF Mike!askerVars, Mike!formatVars, Mike!fillVars, Mike!seen, MikeInv
<1>0. 0 \in Callers /\ 0 \notin 1..MaxStarts /\ 1..MaxStarts \subseteq Callers
  BY EndpointsAssumption DEF EndpointsAssumption, Callers
<1>1. ASSUME NEW s \in Callers, Mike!Enters(s),
             UNCHANGED <<asker, asking, take, recording, accepted, activeFormat, epoch, leftover,
                         opening, sendMu, announced, torn, mixed>>,
             Mike!Started' = Mike!Started
      PROVE  Dialogue' /\ CallsApart' /\ FormatsApart'
  <2>1. /\ recording /\ call'[s].at = "waits" /\ call'[s].take = take
        /\ \A h \in Callers : h # s => call'[h] = call[h]
    BY <1>1, CallBegins
  <2>2. Dialogue'
    BY <1>1 DEF Dialogue
  <2>3. ~(asker \in {"created", "version", "formats"} /\ asking # "create")
    BY <2>1 DEF Dialogue
  <2>4. CallsApart'
    BY <1>1, <2>1, <2>3 DEF CallsApart, Inside, MikeTypes
  <2>5. FormatsApart'
    BY <1>1, <2>1 DEF FormatsApart, Inside
  <2> QED BY <2>2, <2>4, <2>5
<1>2. ASSUME Mike!MicSpeaks PROVE MikeInv'
  <2>1. /\ UNCHANGED <<asker, asking, take, recording, accepted, activeFormat, epoch, leftover>>
        /\ UNCHANGED <<opening, sendMu, announced, torn, mixed, lateSilence>>
        /\ Mike!Enters(0) /\ spoken' = TRUE
        /\ filler' = Mike!StopSilenceFill /\ silenceStop' = 0
    BY <1>2 DEF Mike!MicSpeaks, Mike!Mic, Mike!StopsSilence
  <2>2. /\ call' \in [Callers -> CallRec] /\ \A f \in 1..MaxStarts : call'[f] = call[f]
        /\ recording
    BY <1>0, <2>1, CallBegins
  <2>3. /\ filler' \in [1..MaxStarts -> {"none", "running", "stopped"}]
        /\ \A f \in 1..MaxStarts : /\ filler'[f] # "running"
                                   /\ filler'[f] # "none" <=> filler[f] # "none"
        /\ Mike!Started' = Mike!Started
    BY <2>1, SilenceStopped
  <2>4. MikeTypes'
    BY <1>0, <2>1, <2>2, <2>3 DEF MikeTypes
  <2>5. Dialogue' /\ CallsApart' /\ FormatsApart'
    BY <1>0, <1>1, <2>1, <2>3
  <2>6. FillersInv'
    BY <1>0, <2>1, <2>2, <2>3 DEF FillersInv
  <2>7. Begun' = Begun
    BY <2>2 DEF Begun
  <2>8. SilenceInv'
    <3>1. Cardinality(Begun) \in Nat /\ Cardinality(Begun) <= Mike!Started
      BY BegunStarted
    <3> QED BY <2>1, <2>3, <2>7, <3>1 DEF SilenceInv
  <2> QED BY <2>4, <2>5, <2>6, <2>8
<1>3. ASSUME NEW f \in 1..MaxStarts, Mike!FillerTicks(f) PROVE MikeInv'
  <2>1. /\ UNCHANGED <<asker, asking, take, recording, accepted, activeFormat, epoch, leftover>>
        /\ UNCHANGED <<opening, filler, silenceStop, sendMu, announced, torn, mixed, spoken, lateSilence>>
        /\ Mike!Enters(f) /\ filler[f] = "running"
    BY <1>3 DEF Mike!FillerTicks
  <2>2. Mike!Started' = Mike!Started
    BY <2>1 DEF Mike!Started
  <2>3. /\ call' \in [Callers -> CallRec]
        /\ \A h \in 1..MaxStarts : h # f => call'[h] = call[h]
    BY <1>0, <2>1, CallBegins
  <2>4. MikeTypes'
    BY <2>1, <2>3 DEF MikeTypes
  <2>5. Dialogue' /\ CallsApart' /\ FormatsApart'
    BY <1>0, <1>1, <2>1, <2>2
  <2>6. FillersInv'
    BY <2>1, <2>2, <2>3 DEF FillersInv
  <2>7. ~spoken
    BY <1>0, <2>1 DEF FillersInv
  <2>8. SilenceInv'
    BY <2>1, <2>7 DEF SilenceInv
  <2> QED BY <2>4, <2>5, <2>6, <2>8
<1> QED BY <1>2, <1>3

\* A call that goes on begins no silence anew.
LEMMA SilenceShrinks ==
    ASSUME MikeInv, NEW s \in Callers, UNCHANGED <<filler, spoken, lateSilence>>,
           \A h \in Callers : h # s => call'[h] = call[h],
           \/ call'[s].at \in {"ends", "idle"}
           \/ call[s].at \in {"waits", "announces", "pair", "data"}
    PROVE  SilenceInv'
<1>1. /\ IsFiniteSet(Begun) /\ Cardinality(Begun) \in Nat /\ lateSilence \in Nat
      /\ Mike!Started \in Nat
  BY BegunStarted DEF MikeInv, MikeTypes, FillersInv
<1>2. 1..MaxStarts \subseteq Callers
  BY EndpointsAssumption DEF EndpointsAssumption, Callers
<1>3. Mike!Started' = Mike!Started
  BY DEF Mike!Started
<1>4. Begun' \in SUBSET Begun
  BY <1>2 DEF Begun
<1>5. Cardinality(Begun') <= Cardinality(Begun) /\ Cardinality(Begun') \in Nat
  BY <1>1, <1>4, FS_Subset, FS_CardinalityType
<1> QED BY <1>1, <1>3, <1>5 DEF MikeInv, SilenceInv

\* What the lock gives a call: the format of the moment.
LEMMA CallLocks ==
    ASSUME MikeInv, NEW s \in Callers, Mike!Locks(s)
    PROVE  /\ call' \in [Callers -> CallRec]
           /\ call'[s].at \in {"announces", "ends"} /\ call'[s].take = call[s].take
           /\ call'[s].epoch = epoch
           /\ \A h \in Callers : h # s => call'[h] = call[h]
<1>1. PICK r \in CallRec : r = call[s] /\ DOMAIN call = Callers
  BY DEF MikeInv, MikeTypes
<1> DEFINE a == IF recording THEN "announces" ELSE "ends"
           one == [at |-> a, take |-> r.take, format |-> r.format, epoch |-> r.epoch, raced |-> r.raced]
           two == [at |-> a, take |-> r.take, format |-> activeFormat, epoch |-> r.epoch, raced |-> r.raced]
           three == [at |-> a, take |-> r.take, format |-> activeFormat, epoch |-> epoch, raced |-> r.raced]
           c1 == [call EXCEPT ![s].at = a]
           c2 == [c1 EXCEPT ![s].format = activeFormat]
           c3 == [c2 EXCEPT ![s].epoch = epoch]
<1>2. a \in {"announces", "ends"}
  OBVIOUS
<1>3. call' = c3
  BY DEF Mike!Locks
<1> HIDE DEF a
<1>4. /\ [r EXCEPT !.at = a] = one /\ [one EXCEPT !.format = activeFormat] = two
      /\ [two EXCEPT !.epoch = epoch] = three
  BY DEF CallRec
<1>5. three \in CallRec /\ three.at = a /\ three.take = r.take /\ three.epoch = epoch
  BY <1>2 DEF CallRec, MikeInv, MikeTypes
<1> HIDE DEF one, two, three
<1>6. c1 = [h \in Callers |-> IF h = s THEN one ELSE call[h]]
  BY <1>1, <1>4
<1> HIDE DEF c1
<1>7. c2 = [h \in Callers |-> IF h = s THEN two ELSE call[h]]
  BY <1>4, <1>6
<1> HIDE DEF c2
<1>8. c3 = [h \in Callers |-> IF h = s THEN three ELSE call[h]]
  BY <1>4, <1>7
<1> HIDE DEF c3
<1>9. \A h \in Callers : call[h] \in CallRec
  BY DEF MikeInv, MikeTypes
<1> QED BY <1>1, <1>2, <1>3, <1>5, <1>8, <1>9

\* The pair of PDUs is sent inside, and what is left over is of the format of the call.
LEMMA MikeSends ==
    ASSUME MikeInv, NEW s \in Callers,
           \/ Mike!Locks(s) \/ Mike!Encodes(s) \/ Mike!PassesThrough(s) \/ Mike!SendIncoming(s)
           \/ Mike!SendData(s) \/ Mike!Unlocks(s)
    PROVE  MikeInv'
<1> USE DEF Mike!askerVars, Mike!formatVars, Mike!fillVars, Mike!seen, MikeInv
<1>1. /\ UNCHANGED <<asker, asking, take, recording, accepted, activeFormat, epoch, opening>>
      /\ UNCHANGED <<filler, silenceStop, spoken>>
  BY DEF Mike!Locks, Mike!Encodes, Mike!PassesThrough, Mike!SendIncoming, Mike!SendData, Mike!Unlocks
<1>2. Mike!Started' = Mike!Started
  BY <1>1 DEF Mike!Started
<1>3. Dialogue'
  BY <1>1, <1>2 DEF Dialogue
<1>4. 0 \notin 1..MaxStarts /\ 1..MaxStarts \subseteq Callers /\ s # MaxStarts + 1
  BY EndpointsAssumption DEF EndpointsAssumption, Callers
\* What is common: the types, the goroutines, and the calls of the others.
<1>5. ASSUME call' \in [Callers -> CallRec], call[s].at # "idle", lateSilence' \in Nat,
             \A h \in Callers : h # s => call'[h] = call[h]
      PROVE  MikeTypes' /\ FillersInv'
  <2>1. MikeTypes'
    BY <1>1, <1>5 DEF MikeTypes
  <2>2. \A f \in 1..MaxStarts : call'[f].at # "idle" => filler'[f] # "none"
    BY <1>1, <1>4, <1>5 DEF FillersInv
  <2> QED BY <1>1, <1>2, <2>1, <2>2 DEF FillersInv
<1>6. lateSilence \in Nat /\ take \in Nat
  BY DEF MikeTypes
<1>7. CASE Mike!Locks(s)
  <2>1. /\ UNCHANGED <<leftover, announced, torn, mixed, lateSilence>>
        /\ call[s].at = "waits" /\ sendMu = MaxStarts + 1 /\ sendMu' = s
    BY <1>7 DEF Mike!Locks, Mike!LockSend, Mike!Nobody
  <2>2. /\ call' \in [Callers -> CallRec] /\ call'[s].at \in {"announces", "ends"}
        /\ call'[s].take = call[s].take /\ call'[s].epoch = epoch
        /\ \A h \in Callers : h # s => call'[h] = call[h]
    BY <1>7, CallLocks
  <2>3. \A h \in Callers : ~Inside(h)
    BY <2>1, EndpointsAssumption DEF EndpointsAssumption, CallsApart, Callers
  <2>4. CallsApart'
    BY <1>1, <2>1, <2>2, <2>3 DEF CallsApart, Inside
  <2>5. FormatsApart'
    BY <1>1, <2>1, <2>2, <2>3 DEF FormatsApart, Inside
  <2>6. SilenceInv'
    BY <1>1, <2>1, <2>2, SilenceShrinks
  <2> QED BY <1>3, <1>5, <1>6, <2>1, <2>2, <2>4, <2>5, <2>6
<1>8. CASE Mike!Encodes(s) \/ Mike!PassesThrough(s)
  <2>1. PICK a \in {"pair", "ends"} : call' = [call EXCEPT ![s].at = a]
    BY <1>8 DEF Mike!Encodes, Mike!PassesThrough
  <2>2. /\ UNCHANGED <<sendMu, announced, torn, lateSilence>> /\ call[s].at = "announces"
    BY <1>8 DEF Mike!Encodes, Mike!PassesThrough
  <2>3. /\ call' \in [Callers -> CallRec] /\ call'[s].at = a /\ call'[s].take = call[s].take
        /\ call'[s].epoch = call[s].epoch /\ call'[s].raced = call[s].raced
        /\ \A h \in Callers : h # s => call'[h] = call[h]
    BY <2>1, CallGoesOn
  <2>4. CallsApart'
    BY <1>1, <2>2, <2>3 DEF CallsApart, Inside
  <2>5. \A h \in Callers : (Inside(h) /\ ~call[h].raced)' => call'[h].epoch = epoch'
    BY <1>1, <2>2, <2>3 DEF FormatsApart, Inside
  <2>6. call[s].raced \in BOOLEAN
    BY DEF MikeTypes, CallRec
  <2>7. ~call[s].raced => call[s].epoch = epoch
    BY <2>2 DEF FormatsApart, Inside
  <2>8. /\ leftover'.epoch = 0 \/ leftover'.raced = TRUE \/ leftover'.epoch = epoch
        /\ mixed' = FALSE
    <3>1. CASE Mike!PassesThrough(s)
      BY <3>1 DEF Mike!PassesThrough, FormatsApart
    <3>2. CASE Mike!Encodes(s)
      <4>1. leftover' = [epoch |-> call[s].epoch, raced |-> call[s].raced] \/ leftover' = Mike!Nothing
        BY <3>2 DEF Mike!Encodes
      <4>2. leftover'.epoch = 0 \/ leftover'.raced = TRUE \/ leftover'.epoch = epoch
        BY <2>6, <2>7, <4>1 DEF Mike!Nothing
      <4>3. ~(leftover.epoch \notin {0, call[s].epoch} /\ ~leftover.raced /\ ~call[s].raced)
        BY <2>7 DEF FormatsApart
      <4>4. mixed' = (mixed \/ (leftover.epoch \notin {0, call[s].epoch} /\ ~leftover.raced /\ ~call[s].raced))
        BY <3>2 DEF Mike!Encodes
      <4>5. mixed' = FALSE
        BY <4>3, <4>4 DEF FormatsApart
      <4> QED BY <4>2, <4>5
    <3> QED BY <1>8, <3>1, <3>2
  <2>9. FormatsApart'
    BY <1>1, <2>5, <2>8 DEF FormatsApart
  <2>10. SilenceInv'
    BY <1>1, <2>2, <2>3, SilenceShrinks
  <2> QED BY <1>3, <1>5, <1>6, <2>2, <2>3, <2>4, <2>9, <2>10
<1>9. CASE Mike!SendIncoming(s)
  <2>1. /\ UNCHANGED <<leftover, sendMu, torn, mixed, lateSilence>>
        /\ call[s].at = "pair" /\ call' = [call EXCEPT ![s].at = "data"] /\ announced' = s
    BY <1>9 DEF Mike!SendIncoming
  <2>2. /\ call' \in [Callers -> CallRec] /\ call'[s].at = "data" /\ call'[s].take = call[s].take
        /\ call'[s].epoch = call[s].epoch /\ call'[s].raced = call[s].raced
        /\ \A h \in Callers : h # s => call'[h] = call[h]
    BY <2>1, CallGoesOn
  <2>3. \A h \in Callers : h # s => ~Inside(h)
    BY <2>1 DEF CallsApart, Inside
  <2>4. CallsApart'
    BY <1>1, <2>1, <2>2, <2>3 DEF CallsApart, Inside
  <2>5. FormatsApart'
    BY <1>1, <2>1, <2>2 DEF FormatsApart, Inside
  <2>6. SilenceInv'
    BY <1>1, <2>1, <2>2, SilenceShrinks
  <2> QED BY <1>3, <1>5, <1>6, <2>1, <2>2, <2>4, <2>5, <2>6
<1>10. CASE Mike!SendData(s)
  <2>1. /\ UNCHANGED <<leftover, sendMu, announced, mixed>>
        /\ call[s].at = "data" /\ call' = [call EXCEPT ![s].at = "ends"]
        /\ torn' = (torn \/ (announced # s /\ call[s].take = take))
        /\ lateSilence' = IF s # 0 /\ spoken THEN lateSilence + 1 ELSE lateSilence
    BY <1>10 DEF Mike!SendData, Mike!Mic
  <2>2. /\ call' \in [Callers -> CallRec] /\ call'[s].at = "ends" /\ call'[s].take = call[s].take
        /\ call'[s].epoch = call[s].epoch /\ call'[s].raced = call[s].raced
        /\ \A h \in Callers : h # s => call'[h] = call[h]
    BY <2>1, CallGoesOn
  <2>3. torn' = FALSE
    BY <2>1 DEF CallsApart
  <2>4. CallsApart'
    BY <1>1, <2>1, <2>2, <2>3 DEF CallsApart, Inside
  <2>5. FormatsApart'
    BY <1>1, <2>1, <2>2 DEF FormatsApart, Inside
  <2>6. SilenceInv'
    <3>1. CASE s = 0 \/ ~spoken
      <4>1. lateSilence' = lateSilence
        BY <2>1, <3>1
      <4> QED BY <1>1, <2>1, <2>2, <4>1, SilenceShrinks
    <3>2. CASE s # 0 /\ spoken
      <4>1. s \in Begun
        BY <2>1, <3>2 DEF Begun, Callers
      <4>2. Begun' = Begun \ {s}
        BY <1>4, <2>1, <2>2 DEF Begun
      <4>3. IsFiniteSet(Begun) /\ Cardinality(Begun) \in Nat
        BY BegunStarted
      <4>4. Cardinality(Begun') = Cardinality(Begun) - 1
        BY <4>1, <4>2, <4>3, FS_RemoveElement
      <4> QED BY <1>1, <1>2, <1>6, <2>1, <3>2, <4>3, <4>4 DEF SilenceInv
    <3> QED BY <3>1, <3>2
  <2>7. lateSilence' \in Nat
    BY <1>6, <2>1
  <2> QED BY <1>3, <1>5, <2>1, <2>2, <2>4, <2>5, <2>6, <2>7
<1>11. CASE Mike!Unlocks(s)
  <2>1. /\ UNCHANGED <<leftover, announced, torn, mixed, lateSilence>>
        /\ call[s].at = "ends" /\ call' = [call EXCEPT ![s] = Mike!Idle]
    BY <1>11 DEF Mike!Unlocks
  <2>2. Mike!Idle \in CallRec /\ Mike!Idle.at = "idle"
    BY DEF Mike!Idle, CallRec, Mike!None
  <2>3. /\ call' \in [Callers -> CallRec] /\ call'[s].at = "idle"
        /\ \A h \in Callers : h # s => call'[h] = call[h]
    BY <2>1, <2>2 DEF MikeTypes
  <2>4. \A h \in Callers : h # s => ~Inside(h)
    BY <2>1 DEF CallsApart, Inside
  <2>5. CallsApart'
    BY <1>1, <2>1, <2>3, <2>4 DEF CallsApart, Inside
  <2>6. FormatsApart'
    BY <1>1, <2>1, <2>3 DEF FormatsApart, Inside
  <2>7. SilenceInv'
    BY <1>1, <2>1, <2>3, SilenceShrinks
  <2> QED BY <1>3, <1>5, <1>6, <2>1, <2>3, <2>5, <2>6, <2>7
<1> QED BY <1>7, <1>8, <1>9, <1>10, <1>11

\* Every step of the microphone keeps it.
LEMMA MikeSteps == MikeInv /\ [Mike!Next]_microphoneVars => MikeInv'
<1> SUFFICES ASSUME MikeInv, [Mike!Next]_microphoneVars PROVE MikeInv'
  OBVIOUS
<1>1. CASE UNCHANGED microphoneVars
  <2>1. Mike!Started' = Mike!Started
    BY <1>1 DEF microphoneVars, Mike!Started
  <2>2. MikeTypes' /\ Dialogue'
    BY <1>1, <2>1 DEF microphoneVars, MikeInv, MikeTypes, Dialogue
  <2>3. CallsApart' /\ FormatsApart' /\ FillersInv'
    BY <1>1, <2>1 DEF microphoneVars, MikeInv, CallsApart, FormatsApart, FillersInv, Inside
  <2>4. SilenceInv'
    BY <1>1, SilenceStays DEF microphoneVars
  <2> QED BY <2>2, <2>3, <2>4 DEF MikeInv
<1>2. Mike!Senders = Callers /\ Mike!Fillers = 1..MaxStarts
  BY EndpointsAssumption DEF EndpointsAssumption, Mike!Senders, Mike!Mic, Mike!Fillers, Callers
<1>3. CASE Mike!Next
  BY <1>2, <1>3, MikeAsks, MikeCreates, MikeSetsFormat, MikeOpens, MikeStops, MikeBegins, MikeSends
  DEF Mike!Next
<1> QED BY <1>1, <1>3

\* The server hears the microphone, or silence until it speaks, in whole blocks of the
\* format it knows, for any number of openings, goroutines and calls.
THEOREM MicrophoneAlwaysFaithful == MCSpec => []MicrophoneFaithful
<1>1. MCInit => MikeInv
  BY MikeStarts DEF MCInit
<1>2. MikeInv /\ [MCNext]_mcVars => MikeInv'
  <2> SUFFICES ASSUME MikeInv, [MCNext]_mcVars PROVE MikeInv'
    OBVIOUS
  <2>1. [Mike!Next]_microphoneVars
    BY DEF MCNext, mcVars
  <2> QED BY <2>1, MikeSteps
<1>3. MikeInv => MicrophoneFaithful
  <2> SUFFICES ASSUME MikeInv PROVE MicrophoneFaithful
    OBVIOUS
  <2>1. Mike!PairsWhole /\ Mike!BlocksOfOneFormat
    BY DEF MikeInv, CallsApart, FormatsApart, Mike!PairsWhole, Mike!BlocksOfOneFormat
  <2>2. Mike!SilenceYields
    <3>1. Cardinality(Begun) \in Nat /\ Cardinality(Begun) <= Mike!Started /\ lateSilence \in Nat
          /\ Mike!Started \in Nat
      BY BegunStarted DEF MikeInv, MikeTypes, FillersInv
    <3> QED BY <3>1 DEF MikeInv, SilenceInv, Mike!SilenceYields
  <2> DEFINE R == {f \in 1..MaxStarts : filler[f] = "running"}
  <2>3. R \in SUBSET {silenceStop}
    BY DEF MikeInv, FillersInv
  <2>4. Mike!Cardinality(R) <= 1
    <3>1. IsFiniteSet({silenceStop}) /\ Cardinality({silenceStop}) = 1
      BY FS_Singleton
    <3>2. Cardinality(R) <= 1
      BY <2>3, <3>1, FS_Subset
    <3> QED BY <3>2, MikeCardinality
  <2>5. silenceStop # 0 => silenceStop \in 1..MaxStarts
    BY DEF MikeInv, MikeTypes, Callers
  <2>6. Mike!OneFiller
    BY <2>4, <2>5 DEF MikeInv, FillersInv, Mike!OneFiller, Mike!Fillers
  <2> QED BY <2>1, <2>2, <2>6 DEF MicrophoneFaithful, Mike!MicrophoneFaithful
<1> QED BY <1>1, <1>2, <1>3, PTL DEF MCSpec

(***************************************************************************)
(* Playback.                                                               *)
(***************************************************************************)

IsSeq(q) == \E X : q \in Seq(X)

\* A PDU that begins a block, in one PDU or in the first of two.
Starts(p) == p.cmd \in {"wave2", "waveinfo"}

\* The first channel of the connection is served or still to be opened.
First == served \/ opens = 0

\* What the handler will be given: the PDUs on the way before the channel closes.
NoDelete(n) == \A j \in 1..n : playFlight[j].cmd # "delete"
Live(i) == First /\ i \in DOMAIN playFlight /\ NoDelete(i)
Alive == First /\ NoDelete(Len(playFlight))

\* A WaveInfo has been read, its continuation has not.
HalfRead == served /\ pendingWave

\* Blocks that have been read, one of them by half perhaps.
Read == Len(confirmed) + (IF HalfRead THEN 1 ELSE 0)

Commands == {"create", "delete", "formats", "wave2", "waveinfo", "wave", "close"}

PlayTypes ==
    /\ IsSeq(playFlight) /\ confirmed \in Seq(Nat)
    /\ block \in Nat /\ rest \in Nat /\ opens \in Nat
    /\ handler = (opens # 0) /\ served \in BOOLEAN /\ pendingWave \in BOOLEAN
    /\ host \in {"closed", "opened", "offered", "agreed"}
    /\ \A i \in DOMAIN playFlight :
          /\ playFlight[i].cmd \in Commands
          /\ Starts(playFlight[i]) \/ playFlight[i].cmd = "wave" => playFlight[i].n \in Nat

\* The server opens and closes by turns; nothing has happened before the first channel.
ChannelOrder ==
    /\ served => opens # 0
    /\ opens = 0 =>
          /\ confirmed = <<>> /\ block = 0 /\ rest = 0 /\ host # "agreed"
          /\ \A i \in DOMAIN playFlight : ~Starts(playFlight[i]) /\ playFlight[i].cmd # "wave"
          /\ IF playFlight = <<>> THEN host = "closed" ELSE playFlight[1].cmd = "create"
    /\ \A i \in DOMAIN playFlight :
          playFlight[i].cmd = "delete" /\ (\A j \in DOMAIN playFlight :
              j > i => playFlight[j].cmd # "create") => host = "closed"
    /\ host = "closed" /\ (served \/ playFlight # <<>>) => ~Alive
    /\ \A i \in DOMAIN playFlight : Live(i) /\ playFlight[i].cmd = "create" => i = 1 /\ opens = 0
    /\ opens = 1 /\ ~served /\ (\A i \in DOMAIN playFlight : playFlight[i].cmd # "create")
          => host = "closed"

\* The blocks on the way are those that follow the blocks that have been read.
BlockOrder ==
    /\ \A i \in DOMAIN confirmed : confirmed[i] = i
    /\ \A i, j \in DOMAIN playFlight : Live(j) /\ i < j /\ Starts(playFlight[i]) /\ Starts(playFlight[j])
          => playFlight[i].n < playFlight[j].n
    /\ \A i \in DOMAIN playFlight : Live(i) /\ Starts(playFlight[i]) =>
          /\ Read < playFlight[i].n
          /\ \A m \in Nat : Read < m /\ m < playFlight[i].n =>
                \E j \in DOMAIN playFlight : j < i /\ Starts(playFlight[j]) /\ playFlight[j].n = m
    /\ Alive =>
          /\ Read <= block
          /\ \A i \in DOMAIN playFlight : Starts(playFlight[i]) => playFlight[i].n <= block
          /\ \A m \in Nat : Read < m /\ m <= block =>
                \E j \in DOMAIN playFlight : Starts(playFlight[j]) /\ playFlight[j].n = m

\* A continuation follows its WaveInfo, and nothing comes between.
PairOrder ==
    /\ \A i \in DOMAIN playFlight : Live(i) /\ playFlight[i].cmd = "waveinfo"
          /\ i + 1 \in DOMAIN playFlight =>
             \/ playFlight[i + 1].cmd = "delete"
             \/ playFlight[i + 1].cmd = "wave" /\ playFlight[i + 1].n = playFlight[i].n
    /\ \A i \in DOMAIN playFlight : Live(i) /\ playFlight[i].cmd = "wave" =>
          IF i = 1 THEN HalfRead ELSE playFlight[i - 1].cmd = "waveinfo"
    /\ HalfRead =>
          /\ wave.n = Read
          /\ playFlight # <<>> =>
                \/ playFlight[1].cmd = "delete"
                \/ playFlight[1].cmd = "wave" /\ playFlight[1].n = wave.n
    /\ Alive =>
          /\ playFlight = <<>> => IF HalfRead THEN rest # 0 /\ rest = wave.n ELSE rest = 0
          /\ playFlight # <<>> =>
                IF playFlight[Len(playFlight)].cmd = "waveinfo"
                THEN rest # 0 /\ rest = playFlight[Len(playFlight)].n ELSE rest = 0

\* A block on the way is in a format of the list that the handler has, and no list
\* overtakes it.
FormatOrder ==
    /\ \A i \in DOMAIN playFlight : Live(i) /\ Starts(playFlight[i]) =>
          /\ playFlight[i].no \in DOMAIN clientFormats
          /\ playFlight[i].meant = clientFormats[playFlight[i].no]
          /\ \A j \in DOMAIN playFlight : j < i => playFlight[j].cmd # "formats"
    /\ HalfRead => wave.no \in DOMAIN clientFormats /\ wave.meant = clientFormats[wave.no]
    /\ Alive =>
          /\ host = "agreed" => hostFormats = clientFormats
          /\ IF host = "offered"
             THEN \E i \in DOMAIN playFlight :
                     \A j \in DOMAIN playFlight : playFlight[j].cmd = "formats" <=> j = i
             ELSE \A j \in DOMAIN playFlight : playFlight[j].cmd # "formats"
    /\ heard.head = heard.tail /\ heard.format = heard.meant

PlayInv == PlayTypes /\ ChannelOrder /\ BlockOrder /\ PairOrder /\ FormatOrder

\* It holds at the start.
LEMMA PlayStarts == Play!Init => PlayInv
<1> SUFFICES ASSUME Play!Init PROVE PlayInv
  OBVIOUS
<1> USE DEF Play!Init, Play!NoSample
<1>1. playFlight = <<>> /\ DOMAIN playFlight = {} /\ confirmed = <<>> /\ Len(confirmed) = 0
      /\ DOMAIN confirmed = {}
  OBVIOUS
<1>2. IsSeq(playFlight) /\ confirmed \in Seq(Nat)
  BY <1>1 DEF IsSeq
<1>3. PlayTypes
  BY <1>1, <1>2 DEF PlayTypes
<1>4. ~HalfRead /\ Read = 0
  BY <1>1 DEF HalfRead, Read
<1>5. ChannelOrder
  BY <1>1 DEF ChannelOrder
<1>6. BlockOrder /\ PairOrder /\ FormatOrder
  BY <1>1, <1>4 DEF BlockOrder, PairOrder, FormatOrder
<1> QED BY <1>3, <1>5, <1>6 DEF PlayInv

\* A PDU is sent: it is the last one, and lives unless the channel has been closed.
LEMMA FlightAppends ==
    ASSUME IsSeq(playFlight), NEW p, playFlight' = Append(playFlight, p),
           UNCHANGED <<served, opens>>
    PROVE  /\ IsSeq(playFlight)' /\ Len(playFlight) \in Nat /\ DOMAIN playFlight = 1..Len(playFlight)
           /\ Len(playFlight') = Len(playFlight) + 1 /\ DOMAIN playFlight' = 1..(Len(playFlight) + 1)
           /\ \A i \in DOMAIN playFlight : playFlight'[i] = playFlight[i]
           /\ playFlight'[Len(playFlight) + 1] = p
           /\ \A i \in DOMAIN playFlight : Live(i)' <=> Live(i)
           /\ \A i : i = Len(playFlight) + 1 => (Live(i)' <=> Alive /\ p.cmd # "delete")
           /\ Alive' <=> Alive /\ p.cmd # "delete"
<1>1. PICK X : playFlight \in Seq(X)
  BY DEF IsSeq
<1> DEFINE L == Len(playFlight)
           Y == X \cup {p}
<1>2. playFlight \in Seq(Y) /\ p \in Y
  BY <1>1
<1> HIDE DEF Y
<1>3. /\ playFlight' \in Seq(Y) /\ L \in Nat /\ Len(playFlight') = L + 1
      /\ DOMAIN playFlight = 1..L /\ DOMAIN playFlight' = 1..(L + 1)
      /\ \A i \in 1..L : playFlight'[i] = playFlight[i]
      /\ playFlight'[L + 1] = p
  BY <1>2, AppendProperties
<1>4. IsSeq(playFlight)'
  BY <1>3 DEF IsSeq
<1> HIDE DEF L
<1>5. First' <=> First
  BY DEF First
<1>6. \A i \in 1..L : NoDelete(i)' <=> NoDelete(i)
  BY <1>3 DEF NoDelete
<1>7. \A i : i = L + 1 => (NoDelete(i)' <=> (\A j \in 1..L : playFlight[j].cmd # "delete") /\ p.cmd # "delete")
  BY <1>3 DEF NoDelete
<1>8. \A i \in 1..L : Live(i)' <=> Live(i)
  BY <1>3, <1>5, <1>6 DEF Live
<1>9. Alive <=> First /\ \A j \in 1..L : playFlight[j].cmd # "delete"
  BY DEF Alive, NoDelete, L
<1>10. \A i : i = L + 1 => (Live(i)' <=> Alive /\ p.cmd # "delete")
  BY <1>3, <1>5, <1>7, <1>9 DEF Live
<1>11. Alive' <=> Alive /\ p.cmd # "delete"
  <2>1. ASSUME NEW n, n = L + 1 PROVE Alive' <=> First' /\ NoDelete(n)'
    BY <1>3, <2>1 DEF Alive, NoDelete
  <2> QED BY <1>5, <1>7, <1>9, <2>1
<1> QED BY <1>3, <1>4, <1>8, <1>10, <1>11 DEF L

\* A PDU is read that does not close the channel: the others move up.
LEMMA FlightShifts ==
    ASSUME IsSeq(playFlight), playFlight # <<>>, playFlight' = Tail(playFlight)
    PROVE  /\ IsSeq(playFlight)' /\ Len(playFlight) \in Nat \ {0} /\ DOMAIN playFlight = 1..Len(playFlight)
           /\ Len(playFlight') = Len(playFlight) - 1 /\ DOMAIN playFlight' = 1..(Len(playFlight) - 1)
           /\ \A i \in DOMAIN playFlight' : playFlight'[i] = playFlight[i + 1]
           /\ Head(playFlight) = playFlight[1]
           /\ First /\ First' /\ playFlight[1].cmd # "delete" =>
                 /\ \A i \in DOMAIN playFlight' : Live(i)' <=> Live(i + 1)
                 /\ Live(1) /\ (Alive' <=> Alive)
<1>1. PICK X : playFlight \in Seq(X)
  BY DEF IsSeq
<1> DEFINE L == Len(playFlight)
<1>2. /\ playFlight' \in Seq(X) /\ L \in Nat \ {0} /\ Len(playFlight') = L - 1
      /\ DOMAIN playFlight = 1..L /\ DOMAIN playFlight' = 1..(L - 1)
      /\ \A i \in 1..(L - 1) : playFlight'[i] = playFlight[i + 1]
      /\ Head(playFlight) = playFlight[1]
  BY <1>1
<1>3. IsSeq(playFlight)'
  BY <1>2 DEF IsSeq
<1> HIDE DEF L
<1>4. ASSUME First, First', playFlight[1].cmd # "delete"
      PROVE  /\ \A i \in DOMAIN playFlight' : Live(i)' <=> Live(i + 1)
             /\ Live(1) /\ (Alive' <=> Alive)
  <2>1. ASSUME NEW i \in 0..(L - 1) PROVE NoDelete(i)' <=> NoDelete(i + 1)
    <3>1. NoDelete(i)' <=> \A j \in 1..i : playFlight[j + 1].cmd # "delete"
      BY <1>2 DEF NoDelete
    <3>2. ASSUME \A j \in 1..i : playFlight[j + 1].cmd # "delete", NEW k \in 1..(i + 1)
          PROVE  playFlight[k].cmd # "delete"
      <4>1. CASE k = 1
        BY <1>4, <4>1
      <4>2. CASE k # 1
        <5>1. k - 1 \in 1..i /\ (k - 1) + 1 = k
          BY <4>2
        <5> QED BY <3>2, <5>1
      <4> QED BY <4>1, <4>2
    <3>3. ASSUME NoDelete(i + 1), NEW j \in 1..i PROVE playFlight[j + 1].cmd # "delete"
      BY <3>3 DEF NoDelete
    <3> QED BY <3>1, <3>2, <3>3 DEF NoDelete
  <2>2. \A i \in DOMAIN playFlight' : Live(i)' <=> Live(i + 1)
    BY <1>2, <1>4, <2>1 DEF Live
  <2>3. Live(1)
    BY <1>2, <1>4 DEF Live, NoDelete
  <2>4. Alive' <=> Alive
    <3>1. ASSUME NEW n, n = L - 1 PROVE Alive' <=> First' /\ NoDelete(n)'
      BY <1>2, <3>1 DEF Alive, NoDelete
    <3>2. Alive <=> First /\ NoDelete(L)
      BY DEF Alive, L
    <3>3. L - 1 \in 0..(L - 1) /\ (L - 1) + 1 = L
      BY <1>2
    <3> QED BY <1>4, <2>1, <3>1, <3>2, <3>3
  <2> QED BY <2>2, <2>3, <2>4
<1> QED BY <1>2, <1>3, <1>4 DEF L

\* What the server sends that is no block changes nothing about the blocks.
LEMMA NoBlockSent ==
    ASSUME PlayInv, NEW p, playFlight' = Append(playFlight, p),
           UNCHANGED <<served, opens, block, pendingWave, wave, confirmed, clientFormats, heard>>,
           ~Starts(p)
    PROVE  /\ BlockOrder'
           /\ \A i \in DOMAIN playFlight' : Live(i)' /\ Starts(playFlight'[i]) =>
                 /\ playFlight'[i].no \in DOMAIN clientFormats
                 /\ playFlight'[i].meant = clientFormats[playFlight'[i].no]
                 /\ \A j \in DOMAIN playFlight' : j < i => playFlight'[j].cmd # "formats"
           /\ (HalfRead => wave.no \in DOMAIN clientFormats
                           /\ wave.meant = clientFormats[wave.no])'
           /\ (heard.head = heard.tail /\ heard.format = heard.meant)'
<1> DEFINE L == Len(playFlight)
<1>1. /\ L \in Nat /\ DOMAIN playFlight = 1..L
      /\ Len(playFlight') = L + 1 /\ DOMAIN playFlight' = 1..(L + 1)
      /\ \A i \in 1..L : playFlight'[i] = playFlight[i]
      /\ playFlight'[L + 1] = p
      /\ \A i \in 1..L : Live(i)' <=> Live(i)
      /\ \A i : i = L + 1 => (Live(i)' <=> Alive /\ p.cmd # "delete")
      /\ Alive' <=> Alive /\ p.cmd # "delete"
  BY FlightAppends DEF PlayInv, PlayTypes
<1>2. (HalfRead' <=> HalfRead) /\ Read' = Read
  BY DEF HalfRead, Read
<1>3. ~Starts(p)
  OBVIOUS
<1>4. playFlight' # <<>> /\ (playFlight = <<>> <=> L = 0)
  BY <1>1 DEF PlayInv, PlayTypes, IsSeq
<1> HIDE DEF L
<1>5. BlockOrder'
  <2> USE DEF PlayInv, BlockOrder
  <2>1. (\A i \in DOMAIN confirmed : confirmed[i] = i)'
    OBVIOUS
  <2>2. ASSUME NEW i \in DOMAIN playFlight', NEW j \in DOMAIN playFlight', Live(j)', i < j,
               Starts(playFlight'[i]), Starts(playFlight'[j])
        PROVE  playFlight'[i].n < playFlight'[j].n
    <3>1. i \in 1..L /\ j \in 1..L
      BY <1>1, <1>3, <2>2
    <3> QED BY <1>1, <2>2, <3>1
  <2>3. ASSUME NEW i \in DOMAIN playFlight', Live(i)', Starts(playFlight'[i])
        PROVE  /\ Read' < playFlight'[i].n
               /\ \A m \in Nat : Read' < m /\ m < playFlight'[i].n =>
                     \E j \in DOMAIN playFlight' : j < i /\ Starts(playFlight'[j]) /\ playFlight'[j].n = m
    <3>1. i \in 1..L /\ playFlight'[i] = playFlight[i] /\ Live(i)
      BY <1>1, <1>3, <2>3
    <3>2. Read' < playFlight'[i].n
      BY <1>1, <1>2, <2>3, <3>1
    <3>3. ASSUME NEW m \in Nat, Read' < m, m < playFlight'[i].n
          PROVE  \E j \in DOMAIN playFlight' : j < i /\ Starts(playFlight'[j]) /\ playFlight'[j].n = m
      <4>1. PICK j \in 1..L : j < i /\ Starts(playFlight[j]) /\ playFlight[j].n = m
        BY <1>1, <1>2, <2>3, <3>1, <3>3
      <4>2. j \in DOMAIN playFlight' /\ playFlight'[j] = playFlight[j]
        BY <1>1
      <4> QED BY <4>1, <4>2
    <3> QED BY <3>2, <3>3
  <2>4. ASSUME Alive'
        PROVE  /\ Read' <= block'
               /\ \A i \in DOMAIN playFlight' : Starts(playFlight'[i]) => playFlight'[i].n <= block'
               /\ \A m \in Nat : Read' < m /\ m <= block' =>
                     \E j \in DOMAIN playFlight' : Starts(playFlight'[j]) /\ playFlight'[j].n = m
    <3>1. Alive
      BY <1>1, <2>4
    <3>2. ASSUME NEW i \in DOMAIN playFlight', Starts(playFlight'[i]) PROVE playFlight'[i].n <= block'
      <4>1. i \in 1..L
        BY <1>1, <1>3, <3>2
      <4> QED BY <1>1, <3>1, <3>2, <4>1
    <3>3. ASSUME NEW m \in Nat, Read' < m, m <= block'
          PROVE  \E j \in DOMAIN playFlight' : Starts(playFlight'[j]) /\ playFlight'[j].n = m
      <4>1. PICK j \in 1..L : Starts(playFlight[j]) /\ playFlight[j].n = m
        BY <1>1, <1>2, <3>1, <3>3
      <4>2. j \in DOMAIN playFlight' /\ playFlight'[j] = playFlight[j]
        BY <1>1
      <4> QED BY <4>1, <4>2
    <3> QED BY <1>2, <3>1, <3>2, <3>3
  <2> QED BY <2>1, <2>2, <2>3, <2>4
<1>6. ASSUME NEW i \in DOMAIN playFlight', Live(i)', Starts(playFlight'[i])
      PROVE  /\ playFlight'[i].no \in DOMAIN clientFormats
             /\ playFlight'[i].meant = clientFormats[playFlight'[i].no]
             /\ \A j \in DOMAIN playFlight' : j < i => playFlight'[j].cmd # "formats"
  <2>1. i \in 1..L /\ Live(i) /\ playFlight'[i] = playFlight[i]
    BY <1>1, <1>3, <1>6
  <2>2. \A j \in 1..L : j < i => playFlight'[j].cmd # "formats"
    BY <1>1, <1>6, <2>1 DEF PlayInv, FormatOrder
  <2> QED BY <1>1, <1>6, <2>1, <2>2 DEF PlayInv, FormatOrder
<1>7. (HalfRead => wave.no \in DOMAIN clientFormats /\ wave.meant = clientFormats[wave.no])'
  BY <1>2 DEF PlayInv, FormatOrder
<1>8. (heard.head = heard.tail /\ heard.format = heard.meant)'
  BY DEF PlayInv, FormatOrder
<1> QED BY <1>5, <1>6, <1>7, <1>8

\* What is no part of a block is not sent between the two parts of one.
LEMMA NoPairParted ==
    ASSUME PlayInv, NEW p, playFlight' = Append(playFlight, p),
           UNCHANGED <<served, opens, block, pendingWave, wave, confirmed, clientFormats, heard>>,
           p.cmd \in {"create", "delete", "formats", "close"},
           p.cmd # "delete" => UNCHANGED rest /\ (Alive => rest = 0)
    PROVE  PairOrder'
<1> DEFINE L == Len(playFlight)
<1>1. /\ L \in Nat /\ DOMAIN playFlight = 1..L
      /\ Len(playFlight') = L + 1 /\ DOMAIN playFlight' = 1..(L + 1)
      /\ \A i \in 1..L : playFlight'[i] = playFlight[i]
      /\ playFlight'[L + 1] = p
      /\ \A i \in 1..L : Live(i)' <=> Live(i)
      /\ \A i : i = L + 1 => (Live(i)' <=> Alive /\ p.cmd # "delete")
      /\ Alive' <=> Alive /\ p.cmd # "delete"
  BY FlightAppends DEF PlayInv, PlayTypes
<1>2. (HalfRead' <=> HalfRead) /\ Read' = Read
  BY DEF HalfRead, Read
<1>3. ~Starts(p) /\ p.cmd # "wave" /\ p.cmd # "waveinfo"
  BY DEF Starts
<1>4. playFlight' # <<>> /\ (playFlight = <<>> <=> L = 0)
  BY <1>1 DEF PlayInv, PlayTypes, IsSeq
<1> HIDE DEF L
<1>5. PairOrder'
  <2> USE DEF PlayInv, PairOrder
  <2>1. ASSUME NEW i \in DOMAIN playFlight', Live(i)', playFlight'[i].cmd = "waveinfo",
               i + 1 \in DOMAIN playFlight'
        PROVE  \/ playFlight'[i + 1].cmd = "delete"
               \/ playFlight'[i + 1].cmd = "wave" /\ playFlight'[i + 1].n = playFlight'[i].n
    <3>1. i \in 1..L /\ Live(i) /\ playFlight'[i] = playFlight[i]
      BY <1>1, <1>3, <2>1
    <3>2. CASE i + 1 \in 1..L
      BY <1>1, <2>1, <3>1, <3>2
    <3>3. CASE i + 1 = L + 1 /\ p.cmd # "delete"
      <4>1. i = L /\ Alive
        BY <1>1, <3>1, <3>3 DEF Live, Alive, L
      <4>2. rest # 0
        BY <1>1, <1>4, <2>1, <3>1, <4>1 DEF L
      <4> QED BY <3>3, <4>1, <4>2
    <3>4. CASE i + 1 = L + 1 /\ p.cmd = "delete"
      BY <1>1, <3>4
    <3> QED BY <1>1, <2>1, <3>2, <3>3, <3>4
  <2>2. ASSUME NEW i \in DOMAIN playFlight', Live(i)', playFlight'[i].cmd = "wave"
        PROVE  IF i = 1 THEN HalfRead' ELSE playFlight'[i - 1].cmd = "waveinfo"
    <3>1. i \in 1..L /\ Live(i) /\ playFlight'[i] = playFlight[i]
      BY <1>1, <1>3, <2>2
    <3>2. i # 1 => i - 1 \in 1..L /\ playFlight'[i - 1] = playFlight[i - 1]
      BY <1>1, <3>1
    <3> QED BY <1>1, <1>2, <2>2, <3>1, <3>2
  <2>3. ASSUME HalfRead'
        PROVE  /\ wave'.n = Read'
               /\ playFlight' # <<>> =>
                     \/ playFlight'[1].cmd = "delete"
                     \/ playFlight'[1].cmd = "wave" /\ playFlight'[1].n = wave'.n
    <3>1. HalfRead
      BY <1>2, <2>3
    <3>2. CASE L = 0
      <4>1. Alive
        BY <1>1, <3>1, <3>2 DEF Alive, L, NoDelete, First, HalfRead
      <4>2. p.cmd = "delete"
        BY <1>4, <3>1, <3>2, <4>1
      <4> QED BY <1>1, <1>2, <3>1, <3>2, <4>2
    <3>3. CASE L # 0
      BY <1>1, <1>2, <1>4, <3>1, <3>3
    <3> QED BY <3>2, <3>3
  <2>4. ASSUME Alive' PROVE playFlight'[Len(playFlight')].cmd # "waveinfo" /\ rest' = 0
    BY <1>1, <1>3, <2>4
  <2> QED BY <1>4, <2>1, <2>2, <2>3, <2>4
<1> QED BY <1>5

\* A continuation follows its WaveInfo.
LEMMA ContinuationSent ==
    ASSUME PlayInv, NEW p, playFlight' = Append(playFlight, p),
           UNCHANGED <<served, opens, pendingWave, wave, confirmed>>,
           p.cmd = "wave", rest # 0, p.n = rest, rest' = 0
    PROVE  PairOrder'
<1> DEFINE L == Len(playFlight)
<1>1. /\ L \in Nat /\ DOMAIN playFlight = 1..L
      /\ Len(playFlight') = L + 1 /\ DOMAIN playFlight' = 1..(L + 1)
      /\ \A i \in 1..L : playFlight'[i] = playFlight[i]
      /\ playFlight'[L + 1] = p
      /\ \A i \in 1..L : Live(i)' <=> Live(i)
      /\ \A i : i = L + 1 => (Live(i)' <=> Alive)
      /\ Alive' <=> Alive
  BY FlightAppends DEF PlayInv, PlayTypes
<1>2. (HalfRead' <=> HalfRead) /\ Read' = Read
  BY DEF HalfRead, Read
<1>3. playFlight' # <<>> /\ (playFlight = <<>> <=> L = 0)
  BY <1>1 DEF PlayInv, PlayTypes, IsSeq
<1>4. Alive => IF L = 0 THEN HalfRead /\ rest = wave.n
               ELSE playFlight[L].cmd = "waveinfo" /\ rest = playFlight[L].n
  BY <1>3 DEF PlayInv, PairOrder
<1> HIDE DEF L
<1> USE DEF PlayInv, PairOrder
<1>5. ASSUME NEW i \in DOMAIN playFlight', Live(i)', playFlight'[i].cmd = "waveinfo",
             i + 1 \in DOMAIN playFlight'
      PROVE  \/ playFlight'[i + 1].cmd = "delete"
             \/ playFlight'[i + 1].cmd = "wave" /\ playFlight'[i + 1].n = playFlight'[i].n
  <2>1. i \in 1..L /\ Live(i) /\ playFlight'[i] = playFlight[i]
    BY <1>1, <1>5
  <2>2. CASE i + 1 \in 1..L
    BY <1>1, <1>5, <2>1, <2>2
  <2>3. CASE i + 1 = L + 1
    <3>1. i = L /\ Alive
      BY <1>1, <2>1, <2>3 DEF Live, Alive, L
    <3> QED BY <1>1, <1>4, <2>1, <2>3, <3>1
  <2> QED BY <1>1, <1>5, <2>2, <2>3
<1>6. ASSUME NEW i \in DOMAIN playFlight', Live(i)', playFlight'[i].cmd = "wave"
      PROVE  IF i = 1 THEN HalfRead' ELSE playFlight'[i - 1].cmd = "waveinfo"
  <2>1. CASE i \in 1..L
    <3>1. i # 1 => i - 1 \in 1..L /\ playFlight'[i - 1] = playFlight[i - 1]
      BY <1>1, <2>1
    <3> QED BY <1>1, <1>2, <1>6, <2>1, <3>1
  <2>2. CASE i = L + 1
    <3>1. Alive /\ i - 1 = L
      BY <1>1, <1>6, <2>2
    <3>2. CASE L = 0
      BY <1>2, <1>4, <2>2, <3>1, <3>2
    <3>3. CASE L # 0
      <4>1. playFlight'[i - 1] = playFlight[L] /\ playFlight[L].cmd = "waveinfo"
        BY <1>1, <1>4, <3>1, <3>3
      <4> QED BY <1>1, <2>2, <3>3, <4>1
    <3> QED BY <3>2, <3>3
  <2> QED BY <1>1, <2>1, <2>2
<1>7. ASSUME HalfRead'
      PROVE  /\ wave'.n = Read'
             /\ playFlight' # <<>> =>
                   \/ playFlight'[1].cmd = "delete"
                   \/ playFlight'[1].cmd = "wave" /\ playFlight'[1].n = wave'.n
  <2>1. HalfRead
    BY <1>2, <1>7
  <2>2. CASE L = 0
    <3>1. Alive
      BY <1>1, <2>1, <2>2 DEF Alive, L, NoDelete, First, HalfRead
    <3> QED BY <1>1, <1>2, <1>4, <2>1, <2>2, <3>1
  <2>3. CASE L # 0
    BY <1>1, <1>2, <1>3, <2>1, <2>3
  <2> QED BY <2>2, <2>3
<1>8. playFlight'[Len(playFlight')].cmd # "waveinfo" /\ rest' = 0
  BY <1>1
<1> QED BY <1>3, <1>5, <1>6, <1>7, <1>8

\* The turns of the server are kept by what it sends.
LEMMA TurnsKept ==
    ASSUME PlayInv, NEW p, playFlight' = Append(playFlight, p),
           UNCHANGED <<served, opens, confirmed>>, opens = 0 => block' = 0 /\ rest' = 0,
           \/ host = "closed" /\ host' = "opened" /\ p.cmd = "create"
           \/ host # "closed" /\ host' = "closed" /\ p.cmd = "delete"
           \/ /\ host # "closed" /\ host' # "closed" /\ p.cmd \notin {"create", "delete"}
              /\ opens = 0 => ~Starts(p) /\ p.cmd # "wave" /\ host' # "agreed"
    PROVE  ChannelOrder'
<1> USE DEF PlayInv
<1> DEFINE L == Len(playFlight)
<1>1. /\ L \in Nat /\ DOMAIN playFlight = 1..L
      /\ Len(playFlight') = L + 1 /\ DOMAIN playFlight' = 1..(L + 1)
      /\ \A i \in 1..L : playFlight'[i] = playFlight[i]
      /\ playFlight'[L + 1] = p
      /\ \A i \in 1..L : Live(i)' <=> Live(i)
      /\ \A i : i = L + 1 => (Live(i)' <=> Alive /\ p.cmd # "delete")
      /\ Alive' <=> Alive /\ p.cmd # "delete"
  BY FlightAppends DEF PlayTypes
<1>2. playFlight' # <<>> /\ (playFlight = <<>> <=> L = 0)
  BY <1>1 DEF PlayTypes, IsSeq
<1> HIDE DEF L
<1> USE DEF ChannelOrder
<1>3. ASSUME opens' = 0
      PROVE  /\ confirmed' = <<>> /\ block' = 0 /\ rest' = 0 /\ host' # "agreed"
             /\ \A i \in DOMAIN playFlight' : ~Starts(playFlight'[i]) /\ playFlight'[i].cmd # "wave"
             /\ playFlight' # <<>> /\ playFlight'[1].cmd = "create"
  <2>1. opens = 0
    BY <1>3
  <2>2. ~Starts(p) /\ p.cmd # "wave" /\ host' # "agreed"
    BY <2>1 DEF Starts
  <2>3. ASSUME NEW i \in DOMAIN playFlight' PROVE ~Starts(playFlight'[i]) /\ playFlight'[i].cmd # "wave"
    <3>1. CASE i \in 1..L
      BY <1>1, <2>1, <3>1
    <3>2. CASE i = L + 1
      BY <1>1, <2>2, <3>2
    <3> QED BY <1>1, <3>1, <3>2
  <2>4. playFlight'[1].cmd = "create"
    <3>1. CASE L = 0
      BY <1>1, <1>2, <2>1, <3>1
    <3>2. CASE L # 0
      BY <1>1, <1>2, <2>1, <3>2
    <3> QED BY <3>1, <3>2
  <2> QED BY <1>2, <2>1, <2>2, <2>3, <2>4
<1>4. ASSUME NEW i \in DOMAIN playFlight', playFlight'[i].cmd = "delete",
             \A j \in DOMAIN playFlight' : j > i => playFlight'[j].cmd # "create"
      PROVE  host' = "closed"
  <2>1. CASE p.cmd = "create"
    <3>1. i # L + 1
      BY <1>1, <1>4, <2>1
    <3>2. L + 1 \in DOMAIN playFlight' /\ L + 1 > i
      BY <1>1, <3>1
    <3> QED BY <1>1, <1>4, <2>1, <3>2
  <2>2. CASE p.cmd = "delete"
    BY <2>2
  <2>3. CASE p.cmd \notin {"create", "delete"}
    <3>1. i \in 1..L /\ playFlight[i].cmd = "delete"
      BY <1>1, <1>4, <2>3
    <3>2. \A j \in 1..L : j > i => playFlight[j].cmd # "create"
      BY <1>1, <1>4
    <3> QED BY <1>1, <2>3, <3>1, <3>2
  <2> QED BY <2>1, <2>2, <2>3
<1>5. host' = "closed" => ~Alive'
  BY <1>1
<1>6. ASSUME NEW i \in DOMAIN playFlight', Live(i)', playFlight'[i].cmd = "create"
      PROVE  i = 1 /\ opens' = 0
  <2>1. CASE i \in 1..L
    BY <1>1, <1>6, <2>1
  <2>2. CASE i = L + 1
    <3>1. p.cmd = "create" /\ Alive /\ host = "closed"
      BY <1>1, <1>6, <2>2
    <3>2. ~served /\ L = 0
      BY <1>2, <3>1
    <3> QED BY <2>2, <3>1, <3>2 DEF Alive, First
  <2> QED BY <1>1, <2>1, <2>2
<1>7. ASSUME opens' = 1, ~served', \A i \in DOMAIN playFlight' : playFlight'[i].cmd # "create"
      PROVE  host' = "closed"
  <2>1. \A i \in 1..L : playFlight[i].cmd # "create"
    BY <1>1, <1>7
  <2>2. p.cmd # "create"
    BY <1>1, <1>7
  <2> QED BY <1>1, <1>7, <2>1, <2>2
<1> QED BY <1>2, <1>3, <1>4, <1>5, <1>6, <1>7

\* A block follows the blocks before it, in a format that the client has agreed to.
LEMMA BlockSent ==
    ASSUME PlayInv, NEW p, playFlight' = Append(playFlight, p),
           UNCHANGED <<served, opens, pendingWave, wave, confirmed, clientFormats, heard, host,
                       hostFormats>>,
           Starts(p), p.n = block + 1, block' = block + 1, host = "agreed", rest = 0,
           rest' = IF p.cmd = "waveinfo" THEN block + 1 ELSE 0,
           p.no \in DOMAIN hostFormats, p.meant = hostFormats[p.no]
    PROVE  BlockOrder' /\ PairOrder' /\ FormatOrder'
<1> DEFINE L == Len(playFlight)
<1>1. /\ L \in Nat /\ DOMAIN playFlight = 1..L
      /\ Len(playFlight') = L + 1 /\ DOMAIN playFlight' = 1..(L + 1)
      /\ \A i \in 1..L : playFlight'[i] = playFlight[i]
      /\ playFlight'[L + 1] = p
      /\ \A i \in 1..L : Live(i)' <=> Live(i)
      /\ \A i : i = L + 1 => (Live(i)' <=> Alive)
      /\ Alive' <=> Alive
  BY FlightAppends DEF PlayInv, PlayTypes, Starts
<1>2. (HalfRead' <=> HalfRead) /\ Read' = Read
  BY DEF HalfRead, Read
<1>3. p.cmd \in {"wave2", "waveinfo"} /\ block \in Nat /\ Read \in Nat
  BY DEF Starts, PlayInv, PlayTypes, Read
<1>4. playFlight' # <<>> /\ (playFlight = <<>> <=> L = 0)
  BY <1>1 DEF PlayInv, PlayTypes, IsSeq
<1>5. \A i \in 1..L : Starts(playFlight[i]) => playFlight[i].n \in Nat
  BY <1>1 DEF PlayInv, PlayTypes
<1> HIDE DEF L
<1>6. BlockOrder'
  <2> USE DEF PlayInv, BlockOrder
  <2>1. (\A i \in DOMAIN confirmed : confirmed[i] = i)'
    OBVIOUS
  <2>2. ASSUME NEW i \in DOMAIN playFlight', NEW j \in DOMAIN playFlight', Live(j)', i < j,
               Starts(playFlight'[i]), Starts(playFlight'[j])
        PROVE  playFlight'[i].n < playFlight'[j].n
    <3>1. CASE j \in 1..L
      <4>1. i \in 1..L
        BY <1>1, <2>2, <3>1
      <4> QED BY <1>1, <2>2, <3>1, <4>1
    <3>2. CASE j = L + 1
      <4>1. i \in 1..L /\ Alive
        BY <1>1, <2>2, <3>2
      <4>2. playFlight[i].n <= block
        BY <1>1, <2>2, <4>1
      <4> QED BY <1>1, <1>3, <1>5, <2>2, <3>2, <4>1, <4>2
    <3> QED BY <1>1, <3>1, <3>2
  <2>3. ASSUME NEW i \in DOMAIN playFlight', Live(i)', Starts(playFlight'[i])
        PROVE  /\ Read' < playFlight'[i].n
               /\ \A m \in Nat : Read' < m /\ m < playFlight'[i].n =>
                     \E j \in DOMAIN playFlight' : j < i /\ Starts(playFlight'[j]) /\ playFlight'[j].n = m
    <3>1. Read' < playFlight'[i].n
      <4>1. CASE i \in 1..L
        BY <1>1, <1>2, <2>3, <4>1
      <4>2. CASE i = L + 1
        BY <1>1, <1>2, <1>3, <2>3, <4>2
      <4> QED BY <1>1, <4>1, <4>2
    <3>2. ASSUME NEW m \in Nat, Read' < m, m < playFlight'[i].n
          PROVE  \E j \in DOMAIN playFlight' : j < i /\ Starts(playFlight'[j]) /\ playFlight'[j].n = m
      <4>1. \E j \in 1..L : j < i /\ Starts(playFlight[j]) /\ playFlight[j].n = m
        <5>1. CASE i \in 1..L
          BY <1>1, <1>2, <2>3, <3>2, <5>1
        <5>2. CASE i = L + 1
          <6>1. Alive /\ m <= block /\ Read < m
            BY <1>1, <1>2, <1>3, <2>3, <3>2, <5>2
          <6> QED BY <1>1, <5>2, <6>1
        <5> QED BY <1>1, <5>1, <5>2
      <4>2. \A j \in 1..L : j \in DOMAIN playFlight' /\ playFlight'[j] = playFlight[j]
        BY <1>1
      <4> QED BY <4>1, <4>2
    <3> QED BY <3>1, <3>2
  <2>4. ASSUME Alive'
        PROVE  /\ Read' <= block'
               /\ \A i \in DOMAIN playFlight' : Starts(playFlight'[i]) => playFlight'[i].n <= block'
               /\ \A m \in Nat : Read' < m /\ m <= block' =>
                     \E j \in DOMAIN playFlight' : Starts(playFlight'[j]) /\ playFlight'[j].n = m
    <3>1. Alive
      BY <1>1, <2>4
    <3>2. ASSUME NEW i \in DOMAIN playFlight', Starts(playFlight'[i]) PROVE playFlight'[i].n <= block'
      <4>1. CASE i \in 1..L
        <5>1. playFlight[i].n <= block
          BY <1>1, <3>1, <3>2, <4>1
        <5> QED BY <1>1, <1>3, <1>5, <3>2, <4>1, <5>1
      <4>2. CASE i = L + 1
        BY <1>1, <1>3, <4>2
      <4> QED BY <1>1, <4>1, <4>2
    <3>3. ASSUME NEW m \in Nat, Read' < m, m <= block'
          PROVE  \E j \in DOMAIN playFlight' : Starts(playFlight'[j]) /\ playFlight'[j].n = m
      <4>1. CASE m = block + 1
        <5>1. L + 1 \in DOMAIN playFlight'
          BY <1>1
        <5> QED BY <1>1, <4>1, <5>1
      <4>2. CASE m # block + 1
        <5>1. m <= block
          BY <1>3, <3>3, <4>2
        <5>2. PICK j \in 1..L : Starts(playFlight[j]) /\ playFlight[j].n = m
          BY <1>1, <1>2, <3>1, <3>3, <5>1
        <5>3. j \in DOMAIN playFlight' /\ playFlight'[j] = playFlight[j]
          BY <1>1
        <5> QED BY <5>2, <5>3
      <4> QED BY <4>1, <4>2
    <3>4. Read <= block
      BY <3>1
    <3> QED BY <1>2, <1>3, <3>2, <3>3, <3>4
  <2> QED BY <2>1, <2>2, <2>3, <2>4
<1>7. PairOrder'
  <2> USE DEF PlayInv, PairOrder
  <2>1. ASSUME NEW i \in DOMAIN playFlight', Live(i)', playFlight'[i].cmd = "waveinfo",
               i + 1 \in DOMAIN playFlight'
        PROVE  \/ playFlight'[i + 1].cmd = "delete"
               \/ playFlight'[i + 1].cmd = "wave" /\ playFlight'[i + 1].n = playFlight'[i].n
    <3>1. i \in 1..L /\ Live(i) /\ playFlight'[i] = playFlight[i]
      BY <1>1, <2>1
    <3>2. CASE i + 1 \in 1..L
      BY <1>1, <2>1, <3>1, <3>2
    <3>3. i + 1 # L + 1
      <4>1. SUFFICES ASSUME i + 1 = L + 1 PROVE FALSE
        OBVIOUS
      <4>2. i = L /\ Alive
        BY <1>1, <3>1, <4>1 DEF Live, Alive, L
      <4> QED BY <1>1, <1>4, <2>1, <3>1, <4>2 DEF L
    <3> QED BY <1>1, <2>1, <3>2, <3>3
  <2>2. ASSUME NEW i \in DOMAIN playFlight', Live(i)', playFlight'[i].cmd = "wave"
        PROVE  IF i = 1 THEN HalfRead' ELSE playFlight'[i - 1].cmd = "waveinfo"
    <3>1. i \in 1..L /\ Live(i) /\ playFlight'[i] = playFlight[i]
      BY <1>1, <1>3, <2>2
    <3>2. i # 1 => i - 1 \in 1..L /\ playFlight'[i - 1] = playFlight[i - 1]
      BY <1>1, <3>1
    <3> QED BY <1>1, <1>2, <2>2, <3>1, <3>2
  <2>3. ASSUME HalfRead'
        PROVE  /\ wave'.n = Read'
               /\ playFlight' # <<>> =>
                     \/ playFlight'[1].cmd = "delete"
                     \/ playFlight'[1].cmd = "wave" /\ playFlight'[1].n = wave'.n
    <3>1. HalfRead
      BY <1>2, <2>3
    <3>2. L # 0
      <4>1. SUFFICES ASSUME L = 0 PROVE FALSE
        OBVIOUS
      <4>2. Alive
        BY <1>1, <3>1, <4>1 DEF Alive, L, NoDelete, First, HalfRead
      <4> QED BY <1>4, <3>1, <4>1, <4>2
    <3> QED BY <1>1, <1>2, <1>4, <3>1, <3>2
  <2>4. IF playFlight'[Len(playFlight')].cmd = "waveinfo"
        THEN rest' # 0 /\ rest' = playFlight'[Len(playFlight')].n ELSE rest' = 0
    BY <1>1, <1>3
  <2> QED BY <1>4, <2>1, <2>2, <2>3, <2>4
<1>8. FormatOrder'
  <2> USE DEF PlayInv, FormatOrder
  <2>1. ASSUME NEW i \in DOMAIN playFlight', Live(i)', Starts(playFlight'[i])
        PROVE  /\ playFlight'[i].no \in DOMAIN clientFormats
               /\ playFlight'[i].meant = clientFormats[playFlight'[i].no]
               /\ \A j \in DOMAIN playFlight' : j < i => playFlight'[j].cmd # "formats"
    <3>1. CASE i \in 1..L
      <4>1. \A j \in 1..L : j < i => playFlight'[j].cmd # "formats"
        BY <1>1, <2>1, <3>1
      <4> QED BY <1>1, <2>1, <3>1, <4>1
    <3>2. CASE i = L + 1
      <4>1. Alive
        BY <1>1, <2>1, <3>2
      <4>2. hostFormats = clientFormats /\ \A j \in 1..L : playFlight[j].cmd # "formats"
        BY <1>1, <4>1
      <4> QED BY <1>1, <3>2, <4>2
    <3> QED BY <1>1, <3>1, <3>2
  <2>2. (HalfRead => wave.no \in DOMAIN clientFormats /\ wave.meant = clientFormats[wave.no])'
    BY <1>2
  <2>3. ASSUME Alive', NEW j \in DOMAIN playFlight' PROVE playFlight'[j].cmd # "formats"
    BY <1>1, <1>3, <2>3
  <2>4. Alive' => hostFormats' = clientFormats'
    BY <1>1
  <2> QED BY <2>1, <2>2, <2>3, <2>4
<1> QED BY <1>6, <1>7, <1>8

\* Every step of the server keeps the invariant.
LEMMA PlayServerSteps ==
    ASSUME PlayInv,
           \/ Play!HostOpens \/ Play!HostCloses \/ Play!HostOffers \/ Play!HostPauses
           \/ Play!HostContinues \/ Play!HostPlays("wave2") \/ Play!HostPlays("waveinfo")
    PROVE  PlayInv'
<1> USE DEF PlayInv, Play!HostSends, Play!fieldVars
<1>1. UNCHANGED <<served, opens, handler, pendingWave, wave, confirmed, clientFormats, heard, hostFormats>>
  BY DEF Play!HostOpens, Play!HostCloses, Play!HostOffers, Play!HostPauses, Play!HostContinues,
         Play!HostPlays, Play!hostVars
<1>2. ASSUME NEW p, playFlight' = Append(playFlight, p), p.cmd \in Commands,
             Starts(p) \/ p.cmd = "wave" => p.n \in Nat, block' \in Nat, rest' \in Nat,
             host' \in {"closed", "opened", "offered", "agreed"}
      PROVE  PlayTypes'
  <2>1. IsSeq(playFlight)'
    BY <1>2, FlightAppends, <1>1 DEF PlayTypes
  <2>2. \A i \in DOMAIN playFlight' : playFlight'[i] = p \/ (i \in DOMAIN playFlight /\ playFlight'[i] = playFlight[i])
    BY <1>1, <1>2, FlightAppends DEF PlayTypes
  <2>3. ASSUME NEW i \in DOMAIN playFlight'
        PROVE  /\ playFlight'[i].cmd \in Commands
               /\ Starts(playFlight'[i]) \/ playFlight'[i].cmd = "wave" => playFlight'[i].n \in Nat
    BY <1>2, <2>2 DEF PlayTypes
  <2> QED BY <1>1, <1>2, <2>1, <2>3 DEF PlayTypes
\* Of the last part of FormatOrder: which list is on the way.
<1>3. ASSUME NEW p, playFlight' = Append(playFlight, p), Alive', p.cmd # "formats",
             host' = "agreed" <=> host = "agreed", host' = "offered" <=> host = "offered"
      PROVE  /\ host' = "agreed" => hostFormats' = clientFormats'
             /\ IF host' = "offered"
                THEN \E i \in DOMAIN playFlight' :
                        \A j \in DOMAIN playFlight' : playFlight'[j].cmd = "formats" <=> j = i
                ELSE \A j \in DOMAIN playFlight' : playFlight'[j].cmd # "formats"
  <2>1. /\ Alive
        /\ \A j \in DOMAIN playFlight : j \in DOMAIN playFlight' /\ playFlight'[j] = playFlight[j]
        /\ \A j \in DOMAIN playFlight' : j \in DOMAIN playFlight \/ playFlight'[j].cmd # "formats"
    BY <1>1, <1>3, FlightAppends DEF PlayTypes
  <2>2. CASE host = "offered"
    <3>1. PICK i \in DOMAIN playFlight : \A j \in DOMAIN playFlight : playFlight[j].cmd = "formats" <=> j = i
      BY <2>1, <2>2 DEF FormatOrder
    <3>2. \A j \in DOMAIN playFlight' : playFlight'[j].cmd = "formats" <=> j = i
      BY <2>1, <3>1
    <3> QED BY <1>3, <2>1, <2>2, <3>2
  <2>3. CASE host # "offered"
    BY <1>1, <1>3, <2>1, <2>3 DEF FormatOrder
  <2> QED BY <2>2, <2>3
<1>4. block \in Nat /\ rest \in Nat /\ host \in {"closed", "opened", "offered", "agreed"}
  BY DEF PlayTypes
<1>5. ASSUME Play!HostOpens PROVE PlayInv'
  <2> DEFINE p == [cmd |-> "create"]
  <2>1. /\ playFlight' = Append(playFlight, p) /\ host = "closed" /\ host' = "opened"
        /\ UNCHANGED <<block, rest>> /\ p.cmd = "create"
    BY <1>5 DEF Play!HostOpens
  <2> HIDE DEF p
  <2>2. ~Starts(p)
    BY <2>1 DEF Starts
  <2>3. opens = 0 => block' = 0 /\ rest' = 0
    BY <2>1 DEF ChannelOrder
  <2>4. ChannelOrder'
    BY <1>1, <2>1, <2>3, TurnsKept
  <2>5. Alive => rest = 0
    <3>1. Alive => playFlight = <<>> /\ ~served
      BY <2>1 DEF ChannelOrder
    <3> QED BY <3>1 DEF PairOrder, HalfRead
  <2>6. PlayTypes'
    BY <1>2, <1>4, <2>1, <2>2 DEF Commands
  <2>7. BlockOrder' /\ PairOrder'
    BY <1>1, <2>1, <2>2, <2>5, NoBlockSent, NoPairParted
  <2>8. FormatOrder'
    BY <1>1, <1>3, <2>1, <2>2, NoBlockSent DEF FormatOrder
  <2> QED BY <2>4, <2>6, <2>7, <2>8
<1>6. ASSUME Play!HostCloses PROVE PlayInv'
  <2> DEFINE p == [cmd |-> "delete"]
  <2>1. /\ playFlight' = Append(playFlight, p) /\ host # "closed" /\ host' = "closed"
        /\ UNCHANGED block /\ rest' = 0 /\ p.cmd = "delete"
    BY <1>6 DEF Play!HostCloses
  <2> HIDE DEF p
  <2>2. ~Starts(p)
    BY <2>1 DEF Starts
  <2>3. opens = 0 => block' = 0 /\ rest' = 0
    BY <2>1 DEF ChannelOrder
  <2>4. ChannelOrder'
    BY <1>1, <2>1, <2>3, TurnsKept
  <2>6. PlayTypes'
    BY <1>2, <1>4, <2>1, <2>2 DEF Commands
  <2>7. BlockOrder' /\ PairOrder'
    BY <1>1, <2>1, <2>2, NoBlockSent, NoPairParted
  <2>8. ~Alive'
    BY <1>1, <2>1, FlightAppends DEF PlayTypes
  <2>9. FormatOrder'
    BY <1>1, <2>1, <2>2, <2>8, NoBlockSent DEF FormatOrder
  <2> QED BY <2>4, <2>6, <2>7, <2>9
<1>7. ASSUME Play!HostPauses PROVE PlayInv'
  <2> DEFINE p == [cmd |-> "close"]
  <2>1. /\ playFlight' = Append(playFlight, p) /\ host = "agreed" /\ host' = host
        /\ UNCHANGED <<block, rest>> /\ rest = 0 /\ p.cmd = "close"
    BY <1>7 DEF Play!HostPauses, Play!hostVars
  <2> HIDE DEF p
  <2>2. ~Starts(p)
    BY <2>1 DEF Starts
  <2>3. opens # 0
    BY <2>1 DEF ChannelOrder
  <2>4. ChannelOrder'
    BY <1>1, <2>1, <2>2, <2>3, TurnsKept
  <2>6. PlayTypes'
    BY <1>2, <1>4, <2>1, <2>2 DEF Commands
  <2>7. BlockOrder' /\ PairOrder'
    BY <1>1, <2>1, <2>2, NoBlockSent, NoPairParted
  <2>8. FormatOrder'
    BY <1>1, <1>3, <2>1, <2>2, NoBlockSent DEF FormatOrder
  <2> QED BY <2>4, <2>6, <2>7, <2>8
<1>8. ASSUME Play!HostOffers PROVE PlayInv'
  <2>1. PICK fs : playFlight' = Append(playFlight, [cmd |-> "formats", formats |-> fs])
    BY <1>8 DEF Play!HostOffers
  <2> DEFINE p == [cmd |-> "formats", formats |-> fs]
  <2>2. /\ playFlight' = Append(playFlight, p) /\ host \in {"opened", "agreed"} /\ host' = "offered"
        /\ UNCHANGED <<block, rest>> /\ rest = 0 /\ p.cmd = "formats"
    BY <1>8, <2>1 DEF Play!HostOffers
  <2> HIDE DEF p
  <2>3. ~Starts(p)
    BY <2>2 DEF Starts
  <2>4. opens = 0 => block' = 0 /\ rest' = 0
    BY <2>2 DEF ChannelOrder
  <2>5. ChannelOrder'
    BY <1>1, <2>2, <2>3, <2>4, TurnsKept
  <2>6. PlayTypes'
    BY <1>2, <1>4, <2>2, <2>3 DEF Commands
  <2>7. BlockOrder' /\ PairOrder'
    BY <1>1, <2>2, <2>3, NoBlockSent, NoPairParted
  <2>8. ASSUME Alive'
        PROVE  \E i \in DOMAIN playFlight' :
                  \A j \in DOMAIN playFlight' : playFlight'[j].cmd = "formats" <=> j = i
    <3> DEFINE L == Len(playFlight)
    <3>1. /\ Alive /\ L \in Nat /\ DOMAIN playFlight = 1..L /\ DOMAIN playFlight' = 1..(L + 1)
          /\ \A j \in 1..L : playFlight'[j] = playFlight[j]
          /\ playFlight'[L + 1] = p
      BY <1>1, <2>2, <2>8, FlightAppends DEF PlayTypes
    <3> HIDE DEF L
    <3>2. \A j \in 1..L : playFlight'[j].cmd # "formats"
      BY <2>2, <3>1 DEF FormatOrder
    <3>3. L + 1 \in DOMAIN playFlight' /\ \A j \in DOMAIN playFlight' : playFlight'[j].cmd = "formats" <=> j = L + 1
      BY <2>2, <3>1, <3>2
    <3> QED BY <3>3
  <2>9. FormatOrder'
    BY <1>1, <2>2, <2>3, <2>8, NoBlockSent DEF FormatOrder
  <2> QED BY <2>5, <2>6, <2>7, <2>9
<1>9. ASSUME NEW c \in {"wave2", "waveinfo"}, Play!HostPlays(c) PROVE PlayInv'
  <2>1. PICK no \in DOMAIN hostFormats :
           playFlight' = Append(playFlight, [cmd |-> c, n |-> block', no |-> no, meant |-> hostFormats[no]])
    BY <1>9 DEF Play!HostPlays
  <2> DEFINE p == [cmd |-> c, n |-> block', no |-> no, meant |-> hostFormats[no]]
  <2>2. /\ playFlight' = Append(playFlight, p) /\ host = "agreed" /\ host' = host
        /\ block' = block + 1 /\ rest = 0 /\ rest' = IF p.cmd = "waveinfo" THEN block + 1 ELSE 0
        /\ p.cmd = c /\ p.n = block + 1 /\ p.no \in DOMAIN hostFormats /\ p.meant = hostFormats[p.no]
    BY <1>9, <2>1 DEF Play!HostPlays
  <2> HIDE DEF p
  <2>3. Starts(p)
    BY <2>2 DEF Starts
  <2>4. opens # 0
    BY <2>2 DEF ChannelOrder
  <2>5. ChannelOrder'
    BY <1>1, <2>2, <2>4, TurnsKept
  <2>6. PlayTypes'
    BY <1>2, <1>4, <2>2 DEF Commands
  <2>7. BlockOrder' /\ PairOrder' /\ FormatOrder'
    BY <1>1, <2>2, <2>3, BlockSent
  <2> QED BY <2>5, <2>6, <2>7
<1>10. ASSUME Play!HostContinues PROVE PlayInv'
  <2>1. PICK short : playFlight' = Append(playFlight, [cmd |-> "wave", n |-> rest, short |-> short])
    BY <1>10 DEF Play!HostContinues
  <2> DEFINE p == [cmd |-> "wave", n |-> rest, short |-> short]
  <2>2. /\ playFlight' = Append(playFlight, p) /\ UNCHANGED <<host, block>>
        /\ rest # 0 /\ rest' = 0 /\ p.cmd = "wave" /\ p.n = rest
    BY <1>10, <2>1 DEF Play!HostContinues
  <2> HIDE DEF p
  <2>3. ~Starts(p)
    BY <2>2 DEF Starts
  <2>4. opens # 0
    BY <2>2 DEF ChannelOrder
  <2>5. ChannelOrder'
    <3>1. CASE host # "closed"
      BY <1>1, <2>2, <2>4, <3>1, TurnsKept
    <3>2. CASE host = "closed"
      <4> DEFINE L == Len(playFlight)
      <4>1. /\ L \in Nat /\ DOMAIN playFlight = 1..L /\ DOMAIN playFlight' = 1..(L + 1)
            /\ \A i \in 1..L : playFlight'[i] = playFlight[i]
            /\ playFlight'[L + 1] = p
            /\ \A i \in 1..L : Live(i)' <=> Live(i)
            /\ Alive' <=> Alive
        BY <1>1, <2>2, FlightAppends DEF PlayTypes
      <4> HIDE DEF L
      <4>2. ASSUME NEW i \in DOMAIN playFlight', Live(i)', playFlight'[i].cmd = "create"
            PROVE  i = 1 /\ opens' = 0
        <5>1. i \in 1..L
          BY <2>2, <4>1, <4>2
        <5> QED BY <1>1, <4>1, <4>2, <5>1 DEF ChannelOrder
      <4>3. host = "closed" => ~Alive'
        <5>1. playFlight # <<>> \/ served \/ ~First
          BY <2>4 DEF First
        <5> QED BY <3>2, <4>1, <5>1 DEF ChannelOrder, Alive
      <4> QED BY <1>1, <2>2, <2>4, <3>2, <4>2, <4>3 DEF ChannelOrder
    <3> QED BY <3>1, <3>2
  <2>6. PlayTypes'
    BY <1>2, <1>4, <2>2 DEF Commands
  <2>7. BlockOrder' /\ PairOrder'
    BY <1>1, <2>2, <2>3, NoBlockSent, ContinuationSent
  <2>8. FormatOrder'
    BY <1>1, <1>3, <2>2, <2>3, NoBlockSent DEF FormatOrder
  <2> QED BY <2>5, <2>6, <2>7, <2>8
<1> QED BY <1>5, <1>6, <1>7, <1>8, <1>9, <1>10

\* Blocks are read in the order in which they are sent.
LEMMA HeadIsNext ==
    ASSUME PlayInv, playFlight # <<>>, First, playFlight[1].cmd # "delete"
    PROVE  /\ Read \in Nat /\ Len(confirmed) \in Nat
           /\ Starts(playFlight[1]) => playFlight[1].n = Read + 1
<1>1. Len(playFlight) \in Nat \ {0} /\ DOMAIN playFlight = 1..Len(playFlight)
  BY DEF PlayInv, PlayTypes, IsSeq
<1>2. Read \in Nat /\ Len(confirmed) \in Nat
  <2>1. Len(confirmed) \in Nat
    BY DEF PlayInv, PlayTypes
  <2> QED BY <2>1 DEF Read
<1>3. Live(1)
  BY <1>1 DEF Live, NoDelete
<1>4. ASSUME Starts(playFlight[1]) PROVE playFlight[1].n = Read + 1
  <2>1. 1 \in DOMAIN playFlight /\ playFlight[1].n \in Nat
    BY <1>1, <1>4 DEF PlayInv, PlayTypes
  <2>2. Read < playFlight[1].n
    BY <1>3, <1>4, <2>1 DEF PlayInv, BlockOrder
  <2>3. ~(Read + 1 < playFlight[1].n)
    <3>1. ASSUME Read + 1 < playFlight[1].n PROVE FALSE
      <4>1. Read + 1 \in Nat /\ Read < Read + 1
        BY <1>2
      <4>2. \E j \in DOMAIN playFlight : j < 1
        BY <1>3, <1>4, <2>1, <3>1, <4>1 DEF PlayInv, BlockOrder
      <4> QED BY <1>1, <4>2
    <3> QED BY <3>1
  <2> QED BY <1>2, <2>1, <2>2, <2>3
<1> QED BY <1>2, <1>4

\* What remains on the way has its types.
LEMMA TypesRead ==
    ASSUME PlayInv, playFlight # <<>>, playFlight' = Tail(playFlight), UNCHANGED <<block, rest>>,
           confirmed' \in Seq(Nat), opens' \in Nat, handler' = (opens' # 0),
           served' \in BOOLEAN, pendingWave' \in BOOLEAN,
           host' \in {"closed", "opened", "offered", "agreed"}
    PROVE  PlayTypes'
<1>1. /\ IsSeq(playFlight)' /\ Len(playFlight) \in Nat /\ DOMAIN playFlight = 1..Len(playFlight)
      /\ DOMAIN playFlight' = 1..(Len(playFlight) - 1)
      /\ \A i \in DOMAIN playFlight' : playFlight'[i] = playFlight[i + 1]
  BY FlightShifts DEF PlayInv, PlayTypes
<1>2. ASSUME NEW i \in DOMAIN playFlight'
      PROVE  /\ playFlight'[i].cmd \in Commands
             /\ Starts(playFlight'[i]) \/ playFlight'[i].cmd = "wave" => playFlight'[i].n \in Nat
  <2>1. i + 1 \in DOMAIN playFlight /\ playFlight'[i] = playFlight[i + 1]
    BY <1>1
  <2> QED BY <2>1 DEF PlayInv, PlayTypes
<1> QED BY <1>1, <1>2 DEF PlayInv, PlayTypes

\* The turns of the server are kept by what is read.
LEMMA TurnsRead ==
    ASSUME PlayInv, playFlight # <<>>, playFlight' = Tail(playFlight),
           opens' \in Nat \ {0}, host' = "closed" <=> host = "closed",
           served' => First /\ playFlight[1].cmd # "delete",
           \/ served'
           \/ opens' # 1
           \/ opens' = opens /\ playFlight[1].cmd = "delete"
           \/ opens' = opens /\ ~served /\ playFlight[1].cmd # "create"
    PROVE  ChannelOrder'
<1> DEFINE L == Len(playFlight)
<1>1. /\ L \in Nat \ {0} /\ DOMAIN playFlight = 1..L /\ DOMAIN playFlight' = 1..(L - 1)
      /\ \A i \in 1..(L - 1) : playFlight'[i] = playFlight[i + 1]
      /\ First /\ First' /\ playFlight[1].cmd # "delete" =>
            /\ \A i \in DOMAIN playFlight' : Live(i)' <=> Live(i + 1)
            /\ Alive' <=> Alive
  BY FlightShifts DEF PlayInv, PlayTypes
<1> HIDE DEF L
<1>2. First' <=> served'
  BY DEF First
<1>3. ASSUME NEW i \in DOMAIN playFlight', playFlight'[i].cmd = "delete",
             \A j \in DOMAIN playFlight' : j > i => playFlight'[j].cmd # "create"
      PROVE  host' = "closed"
  <2>1. i + 1 \in DOMAIN playFlight /\ playFlight[i + 1].cmd = "delete"
    BY <1>1, <1>3
  <2>2. ASSUME NEW j \in DOMAIN playFlight, j > i + 1 PROVE playFlight[j].cmd # "create"
    <3>1. j - 1 \in DOMAIN playFlight' /\ j - 1 > i /\ (j - 1) + 1 = j
      BY <1>1, <2>2
    <3>2. playFlight'[j - 1] = playFlight[j]
      BY <1>1, <3>1
    <3> QED BY <1>3, <3>1, <3>2
  <2> QED BY <2>1, <2>2 DEF PlayInv, ChannelOrder
<1>4. ASSUME host' = "closed" PROVE ~Alive'
  <2>1. CASE served'
    BY <1>1, <1>2, <1>4, <2>1 DEF PlayInv, ChannelOrder
  <2>2. CASE ~served'
    BY <1>2, <2>2 DEF Alive
  <2> QED BY <2>1, <2>2
<1>5. ASSUME NEW i \in DOMAIN playFlight', Live(i)', playFlight'[i].cmd = "create" PROVE FALSE
  <2>1. served'
    BY <1>2, <1>5 DEF Live
  <2>2. i + 1 \in DOMAIN playFlight /\ Live(i + 1) /\ playFlight[i + 1].cmd = "create"
    BY <1>1, <1>2, <1>5, <2>1
  <2>3. i + 1 = 1
    BY <2>2 DEF PlayInv, ChannelOrder
  <2> QED BY <1>1, <2>3
<1>6. ASSUME opens' = 1, ~served', \A i \in DOMAIN playFlight' : playFlight'[i].cmd # "create"
      PROVE  host' = "closed"
  <2>1. ASSUME NEW j \in DOMAIN playFlight, j > 1 PROVE playFlight[j].cmd # "create"
    <3>1. j - 1 \in DOMAIN playFlight' /\ (j - 1) + 1 = j
      BY <1>1, <2>1
    <3>2. playFlight'[j - 1] = playFlight[j]
      BY <1>1, <3>1
    <3> QED BY <1>6, <3>1, <3>2
  <2>2. CASE playFlight[1].cmd = "delete"
    <3>1. 1 \in DOMAIN playFlight
      BY <1>1
    <3> QED BY <2>1, <2>2, <3>1 DEF PlayInv, ChannelOrder
  <2>3. CASE opens' = opens /\ ~served /\ playFlight[1].cmd # "create"
    <3>1. \A j \in DOMAIN playFlight : playFlight[j].cmd # "create"
      BY <1>1, <2>1, <2>3
    <3> QED BY <1>6, <2>3, <3>1 DEF PlayInv, ChannelOrder
  <2> QED BY <1>6, <2>2, <2>3
<1> QED BY <1>3, <1>4, <1>5, <1>6 DEF ChannelOrder

\* The blocks that remain on the way follow those that have been read.
LEMMA BlocksRead ==
    ASSUME PlayInv, playFlight # <<>>, playFlight' = Tail(playFlight), First, First',
           playFlight[1].cmd # "delete", UNCHANGED block,
           \A i \in DOMAIN confirmed' : confirmed'[i] = i,
           Read' = Read + (IF Starts(playFlight[1]) THEN 1 ELSE 0)
    PROVE  BlockOrder'
<1> DEFINE L == Len(playFlight)
<1>1. /\ L \in Nat \ {0} /\ DOMAIN playFlight = 1..L /\ DOMAIN playFlight' = 1..(L - 1)
      /\ \A i \in 1..(L - 1) : playFlight'[i] = playFlight[i + 1]
      /\ \A i \in 1..(L - 1) : Live(i)' <=> Live(i + 1)
      /\ Live(1) /\ (Alive' <=> Alive)
  BY FlightShifts DEF PlayInv, PlayTypes
<1>2. /\ Read \in Nat /\ Read' \in Nat /\ Read <= Read'
      /\ Starts(playFlight[1]) => playFlight[1].n = Read + 1 /\ Read' = Read + 1
      /\ ~Starts(playFlight[1]) => Read' = Read
  BY HeadIsNext
<1>3. block \in Nat /\ \A i \in 1..L : Starts(playFlight[i]) => playFlight[i].n \in Nat
  BY <1>1 DEF PlayInv, PlayTypes
<1> HIDE DEF L
<1> DEFINE r == Read'
<1>4. r \in Nat /\ r = Read' /\ Read <= r /\ (Starts(playFlight[1]) => r = Read + 1)
      /\ (~Starts(playFlight[1]) => r = Read)
  BY <1>2
<1> HIDE DEF r
<1>5. ASSUME NEW i \in DOMAIN playFlight', NEW j \in DOMAIN playFlight', Live(j)', i < j,
             Starts(playFlight'[i]), Starts(playFlight'[j])
      PROVE  playFlight'[i].n < playFlight'[j].n
  <2>1. /\ i + 1 \in DOMAIN playFlight /\ j + 1 \in DOMAIN playFlight /\ i + 1 < j + 1
        /\ Live(j + 1) /\ playFlight'[i] = playFlight[i + 1] /\ playFlight'[j] = playFlight[j + 1]
    BY <1>1, <1>5
  <2> QED BY <1>5, <2>1 DEF PlayInv, BlockOrder
<1>6. ASSUME NEW m \in Nat, r < m, NEW k \in 1..L, Starts(playFlight[k]), playFlight[k].n = m
      PROVE  /\ k - 1 \in DOMAIN playFlight' /\ Starts(playFlight'[k - 1])
             /\ playFlight'[k - 1].n = m
  <2>1. k # 1
    BY <1>2, <1>4, <1>6
  <2>2. k - 1 \in 1..(L - 1) /\ (k - 1) + 1 = k
    BY <1>1, <2>1
  <2>3. playFlight'[k - 1] = playFlight[k]
    BY <1>1, <2>2
  <2> QED BY <1>1, <1>6, <2>2, <2>3
<1>7. ASSUME NEW i \in DOMAIN playFlight', Live(i)', Starts(playFlight'[i])
      PROVE  /\ r < playFlight'[i].n
             /\ \A m \in Nat : r < m /\ m < playFlight'[i].n =>
                   \E j \in DOMAIN playFlight' : j < i /\ Starts(playFlight'[j]) /\ playFlight'[j].n = m
  <2>1. /\ i + 1 \in DOMAIN playFlight /\ i \in Nat \ {0} /\ 1 \in DOMAIN playFlight
        /\ Live(i + 1) /\ playFlight'[i] = playFlight[i + 1] /\ Starts(playFlight[i + 1])
    BY <1>1, <1>7
  <2>2. playFlight[i + 1].n \in Nat /\ Read < playFlight[i + 1].n
    BY <1>1, <1>3, <2>1 DEF PlayInv, BlockOrder
  <2>3. r < playFlight[i + 1].n
    <3>1. CASE Starts(playFlight[1])
      <4>1. playFlight[1].n < playFlight[i + 1].n
        BY <2>1, <3>1 DEF PlayInv, BlockOrder
      <4> QED BY <1>2, <1>4, <3>1, <4>1
    <3>2. CASE ~Starts(playFlight[1])
      BY <1>4, <2>2, <3>2
    <3> QED BY <3>1, <3>2
  <2>4. ASSUME NEW m \in Nat, r < m, m < playFlight[i + 1].n
        PROVE  \E j \in DOMAIN playFlight' : j < i /\ Starts(playFlight'[j]) /\ playFlight'[j].n = m
    <3>1. Read < m
      BY <1>2, <1>4, <2>4
    <3>2. PICK k \in DOMAIN playFlight : k < i + 1 /\ Starts(playFlight[k]) /\ playFlight[k].n = m
      BY <2>1, <2>4, <3>1 DEF PlayInv, BlockOrder
    <3>3. k \in 1..L /\ k - 1 < i
      BY <1>1, <2>1, <3>2
    <3> QED BY <1>6, <2>4, <3>2, <3>3
  <2> QED BY <2>1, <2>3, <2>4
<1>8. ASSUME Alive'
      PROVE  /\ r <= block
             /\ \A i \in DOMAIN playFlight' : Starts(playFlight'[i]) => playFlight'[i].n <= block
             /\ \A m \in Nat : r < m /\ m <= block =>
                   \E j \in DOMAIN playFlight' : Starts(playFlight'[j]) /\ playFlight'[j].n = m
  <2>1. Alive /\ Read <= block
    BY <1>1, <1>8 DEF PlayInv, BlockOrder
  <2>2. r <= block
    <3>1. CASE Starts(playFlight[1])
      <4>1. playFlight[1].n <= block
        BY <1>1, <2>1, <3>1 DEF PlayInv, BlockOrder
      <4> QED BY <1>2, <1>4, <3>1, <4>1
    <3>2. CASE ~Starts(playFlight[1])
      BY <1>4, <2>1, <3>2
    <3> QED BY <3>1, <3>2
  <2>3. ASSUME NEW i \in DOMAIN playFlight', Starts(playFlight'[i]) PROVE playFlight'[i].n <= block
    <3>1. i + 1 \in DOMAIN playFlight /\ playFlight'[i] = playFlight[i + 1]
      BY <1>1
    <3> QED BY <2>1, <2>3, <3>1 DEF PlayInv, BlockOrder
  <2>4. ASSUME NEW m \in Nat, r < m, m <= block
        PROVE  \E j \in DOMAIN playFlight' : Starts(playFlight'[j]) /\ playFlight'[j].n = m
    <3>1. Read < m
      BY <1>2, <1>4, <2>4
    <3>2. PICK k \in DOMAIN playFlight : Starts(playFlight[k]) /\ playFlight[k].n = m
      BY <2>1, <2>4, <3>1 DEF PlayInv, BlockOrder
    <3> QED BY <1>1, <1>6, <2>4, <3>2
  <2> QED BY <2>2, <2>3, <2>4
<1> QED BY <1>4, <1>5, <1>7, <1>8 DEF BlockOrder

\* The parts that remain on the way go with those that have been read.
LEMMA PairsRead ==
    ASSUME PlayInv, playFlight # <<>>, playFlight' = Tail(playFlight), First, First',
           playFlight[1].cmd # "delete", UNCHANGED rest,
           HalfRead' <=> playFlight[1].cmd = "waveinfo",
           HalfRead' => wave'.n = Read' /\ wave'.n = playFlight[1].n
    PROVE  PairOrder'
<1> DEFINE L == Len(playFlight)
<1>1. /\ L \in Nat \ {0} /\ DOMAIN playFlight = 1..L /\ DOMAIN playFlight' = 1..(L - 1)
      /\ Len(playFlight') = L - 1 /\ (playFlight' = <<>> <=> L = 1)
      /\ \A i \in 1..(L - 1) : playFlight'[i] = playFlight[i + 1]
      /\ \A i \in 1..(L - 1) : Live(i)' <=> Live(i + 1)
      /\ Live(1) /\ (Alive' <=> Alive)
  <2>1. PICK X : playFlight \in Seq(X)
    BY DEF PlayInv, PlayTypes, IsSeq
  <2>2. Len(playFlight') = L - 1 /\ L \in Nat \ {0}
    BY FlightShifts DEF PlayInv, PlayTypes
  <2>3. playFlight' \in Seq(X)
    BY <2>1
  <2>4. playFlight' = <<>> <=> Len(playFlight') = 0
    <3>1. \A q \in Seq(X) : q = <<>> <=> Len(q) = 0
      OBVIOUS
    <3> QED BY <2>3, <3>1, Zenon
  <2>5. playFlight' = <<>> <=> L = 1
    BY <2>2, <2>4
  <2> HIDE DEF L
  <2> QED BY <2>2, <2>5, FlightShifts DEF PlayInv, PlayTypes, L
<1> HIDE DEF L
<1> USE DEF PlayInv, PairOrder
<1>2. ASSUME NEW i \in DOMAIN playFlight', Live(i)', playFlight'[i].cmd = "waveinfo",
             i + 1 \in DOMAIN playFlight'
      PROVE  \/ playFlight'[i + 1].cmd = "delete"
             \/ playFlight'[i + 1].cmd = "wave" /\ playFlight'[i + 1].n = playFlight'[i].n
  <2>1. /\ i + 1 \in DOMAIN playFlight /\ (i + 1) + 1 \in DOMAIN playFlight /\ Live(i + 1)
        /\ playFlight'[i] = playFlight[i + 1] /\ playFlight'[i + 1] = playFlight[(i + 1) + 1]
    BY <1>1, <1>2
  <2> QED BY <1>2, <2>1
<1>3. ASSUME NEW i \in DOMAIN playFlight', Live(i)', playFlight'[i].cmd = "wave"
      PROVE  IF i = 1 THEN HalfRead' ELSE playFlight'[i - 1].cmd = "waveinfo"
  <2>1. /\ i + 1 \in DOMAIN playFlight /\ Live(i + 1) /\ playFlight[i + 1].cmd = "wave"
        /\ i + 1 # 1 /\ (i + 1) - 1 = i
    <3>1. i \in 1..(L - 1) /\ i + 1 \in 1..L /\ i + 1 # 1 /\ (i + 1) - 1 = i
      BY <1>1
    <3> HIDE DEF PairOrder, PlayInv
    <3> QED BY <1>1, <1>3, <3>1
  <2>2. playFlight[i].cmd = "waveinfo"
    BY <2>1
  <2>3. i # 1 => i - 1 \in 1..(L - 1) /\ playFlight'[i - 1] = playFlight[i]
    <3>1. i # 1 => i - 1 \in 1..(L - 1) /\ (i - 1) + 1 = i
      BY <1>1, <1>3
    <3> QED BY <1>1, <3>1
  <2> QED BY <2>2, <2>3
<1>4. ASSUME HalfRead'
      PROVE  /\ wave'.n = Read'
             /\ playFlight' # <<>> =>
                   \/ playFlight'[1].cmd = "delete"
                   \/ playFlight'[1].cmd = "wave" /\ playFlight'[1].n = wave'.n
  <2>1. CASE playFlight' # <<>>
    <3>1. 1 \in DOMAIN playFlight /\ 1 + 1 \in DOMAIN playFlight /\ playFlight'[1] = playFlight[1 + 1]
      BY <1>1, <2>1
    <3> QED BY <1>1, <1>4, <3>1
  <2> QED BY <1>4, <2>1
<1>5. ASSUME Alive'
      PROVE  /\ playFlight' = <<>> => IF HalfRead' THEN rest # 0 /\ rest = wave'.n ELSE rest = 0
             /\ playFlight' # <<>> =>
                   IF playFlight'[Len(playFlight')].cmd = "waveinfo"
                   THEN rest # 0 /\ rest = playFlight'[Len(playFlight')].n ELSE rest = 0
  <2>1. IF playFlight[L].cmd = "waveinfo" THEN rest # 0 /\ rest = playFlight[L].n ELSE rest = 0
    BY <1>1, <1>5 DEF L
  <2>2. CASE L = 1
    BY <1>1, <2>1, <2>2
  <2>3. CASE L # 1
    <3>1. Len(playFlight') \in 1..(L - 1) /\ Len(playFlight') + 1 = L
      BY <1>1, <2>3
    <3>2. playFlight'[Len(playFlight')] = playFlight[L]
      BY <1>1, <3>1
    <3> QED BY <1>1, <2>1, <2>3, <3>2
  <2> QED BY <2>2, <2>3
<1> QED BY <1>2, <1>3, <1>4, <1>5

\* The blocks that remain on the way are in a format of the list, unless a new one comes.
LEMMA FormatsRead ==
    ASSUME PlayInv, playFlight # <<>>, playFlight' = Tail(playFlight), First, First',
           playFlight[1].cmd \notin {"delete", "formats"}, UNCHANGED <<host, hostFormats>>,
           opens = 0 \/ UNCHANGED clientFormats,
           HalfRead' => wave'.no \in DOMAIN clientFormats' /\ wave'.meant = clientFormats'[wave'.no],
           heard'.head = heard'.tail, heard'.format = heard'.meant
    PROVE  FormatOrder'
<1> DEFINE L == Len(playFlight)
<1>1. /\ L \in Nat \ {0} /\ DOMAIN playFlight = 1..L /\ DOMAIN playFlight' = 1..(L - 1)
      /\ \A i \in 1..(L - 1) : playFlight'[i] = playFlight[i + 1]
      /\ \A i \in 1..(L - 1) : Live(i)' <=> Live(i + 1)
      /\ Alive' <=> Alive
  BY FlightShifts DEF PlayInv, PlayTypes
<1> HIDE DEF L
<1> USE DEF PlayInv, FormatOrder
<1>2. ASSUME NEW i \in DOMAIN playFlight', Live(i)', Starts(playFlight'[i])
      PROVE  /\ playFlight'[i].no \in DOMAIN clientFormats'
             /\ playFlight'[i].meant = clientFormats'[playFlight'[i].no]
             /\ \A j \in DOMAIN playFlight' : j < i => playFlight'[j].cmd # "formats"
  <2>1. /\ i + 1 \in DOMAIN playFlight /\ Live(i + 1) /\ playFlight'[i] = playFlight[i + 1]
        /\ Starts(playFlight[i + 1])
    BY <1>1, <1>2
  <2>2. UNCHANGED clientFormats
    BY <2>1 DEF ChannelOrder
  <2>3. ASSUME NEW j \in DOMAIN playFlight', j < i PROVE playFlight'[j].cmd # "formats"
    <3>1. j + 1 \in DOMAIN playFlight /\ j + 1 < i + 1 /\ playFlight'[j] = playFlight[j + 1]
      BY <1>1, <2>3
    <3> QED BY <2>1, <3>1
  <2> QED BY <2>1, <2>2, <2>3
<1>3. ASSUME Alive'
      PROVE  /\ host' = "agreed" => hostFormats' = clientFormats'
             /\ IF host' = "offered"
                THEN \E i \in DOMAIN playFlight' :
                        \A j \in DOMAIN playFlight' : playFlight'[j].cmd = "formats" <=> j = i
                ELSE \A j \in DOMAIN playFlight' : playFlight'[j].cmd # "formats"
  <2>1. Alive
    BY <1>1, <1>3
  <2>2. host' = "agreed" => hostFormats' = clientFormats'
    BY <2>1 DEF ChannelOrder
  <2>3. ASSUME host = "offered"
        PROVE  \E i \in DOMAIN playFlight' :
                  \A j \in DOMAIN playFlight' : playFlight'[j].cmd = "formats" <=> j = i
    <3>1. PICK k \in DOMAIN playFlight :
                  \A j \in DOMAIN playFlight : playFlight[j].cmd = "formats" <=> j = k
      BY <2>1, <2>3
    <3>2. k # 1
      BY <3>1
    <3>3. k - 1 \in DOMAIN playFlight'
      BY <1>1, <3>2
    <3>4. ASSUME NEW j \in DOMAIN playFlight' PROVE playFlight'[j].cmd = "formats" <=> j = k - 1
      <4>1. j + 1 \in DOMAIN playFlight /\ playFlight'[j] = playFlight[j + 1]
        BY <1>1
      <4>2. playFlight'[j].cmd = "formats" <=> j + 1 = k
        BY <3>1, <4>1
      <4>3. j + 1 = k <=> j = k - 1
        BY <1>1
      <4> QED BY <4>2, <4>3
    <3> QED BY <3>3, <3>4
  <2>4. ASSUME host # "offered", NEW j \in DOMAIN playFlight' PROVE playFlight'[j].cmd # "formats"
    <3>1. j + 1 \in DOMAIN playFlight /\ playFlight'[j] = playFlight[j + 1]
      BY <1>1
    <3> QED BY <2>1, <2>4, <3>1
  <2> QED BY <2>2, <2>3, <2>4
<1> QED BY <1>2, <1>3

\* Where nothing lives there is nothing to keep in order.
LEMMA NothingLives ==
    ASSUME PlayInv, ~First', UNCHANGED <<confirmed, heard>>
    PROVE  BlockOrder' /\ PairOrder' /\ FormatOrder'
<1>1. /\ \A i : ~Live(i)'
      /\ ~Alive' /\ ~HalfRead'
  BY DEF Live, Alive, HalfRead, First
<1>2. BlockOrder'
  BY <1>1 DEF PlayInv, BlockOrder
<1>3. PairOrder'
  BY <1>1 DEF PlayInv, PairOrder
<1>4. FormatOrder'
  BY <1>1 DEF PlayInv, FormatOrder
<1> QED BY <1>2, <1>3, <1>4

\* A channel opens: the first one is served, from nothing.
LEMMA PlayOpens == ASSUME PlayInv, Play!ChannelOpens PROVE PlayInv'
<1>1. /\ playFlight # <<>> /\ playFlight' = Tail(playFlight) /\ Head(playFlight).cmd = "create"
      /\ opens' = opens + 1 /\ handler' = TRUE /\ served' = ~handler
      /\ UNCHANGED <<host, hostFormats, block, rest, confirmed, heard>>
      /\ handler => UNCHANGED <<clientFormats, pendingWave, wave>>
      /\ ~handler => clientFormats' = <<>> /\ pendingWave' = FALSE
  BY DEF Play!ChannelOpens, Play!Arrives, Play!pdu, Play!fieldVars, Play!hostVars
<1>2. playFlight[1].cmd = "create"
  BY <1>1, FlightShifts DEF PlayInv, PlayTypes
<1>3. opens \in Nat /\ handler = (opens # 0) /\ opens' \in Nat \ {0} /\ confirmed' \in Seq(Nat)
      /\ pendingWave' \in BOOLEAN /\ host' \in {"closed", "opened", "offered", "agreed"}
  <2>1. opens \in Nat /\ handler = (opens # 0) /\ pendingWave \in BOOLEAN
    BY DEF PlayInv, PlayTypes
  <2>2. CASE handler
    <3>1. pendingWave' \in BOOLEAN
      BY <1>1, <2>1, <2>2
    <3> QED BY <1>1, <2>1, <3>1 DEF PlayInv, PlayTypes
  <2>3. CASE ~handler
    <3>1. pendingWave' = FALSE
      BY <1>1, <2>3
    <3>2. pendingWave' \in BOOLEAN
      BY <3>1
    <3> QED BY <1>1, <2>1, <3>2 DEF PlayInv, PlayTypes
  <2> QED BY <2>2, <2>3
<1>4. served' \in BOOLEAN /\ handler' = (opens' # 0) /\ (served' <=> opens = 0)
  BY <1>1, <1>3
<1>5. PlayTypes'
  BY <1>1, <1>3, <1>4, TypesRead
<1>6. opens # 0 => opens' # 1
  BY <1>1, <1>3
<1>7. ChannelOrder'
  BY <1>1, <1>2, <1>3, <1>4, <1>6, TurnsRead DEF First
<1>8. BlockOrder' /\ PairOrder' /\ FormatOrder'
  <2>1. CASE opens # 0
    <3>1. ~First'
      BY <1>3, <1>4, <2>1 DEF First
    <3> QED BY <1>1, <3>1, NothingLives
  <2>2. CASE opens = 0
    <3>1. First /\ First' /\ ~HalfRead /\ ~HalfRead' /\ ~handler
      BY <1>1, <1>3, <1>4, <2>2 DEF First, HalfRead, PlayInv, ChannelOrder
    <3>2. Read' = Read
      BY <1>1, <3>1 DEF Read
    <3>3. ~Starts(playFlight[1]) /\ playFlight[1].cmd \notin {"delete", "waveinfo", "formats"}
      BY <1>2 DEF Starts
    <3>4. \A k \in DOMAIN confirmed' : confirmed'[k] = k
      BY <1>1 DEF PlayInv, BlockOrder
    <3>5. Read \in Nat
      BY <1>1, <3>1, <3>3, HeadIsNext
    <3>6. BlockOrder'
      BY <1>1, <3>1, <3>2, <3>3, <3>4, <3>5, BlocksRead
    <3>7. PairOrder'
      BY <1>1, <3>1, <3>3, PairsRead
    <3>8. heard'.head = heard'.tail /\ heard'.format = heard'.meant
      BY <1>1 DEF PlayInv, FormatOrder
    <3>9. FormatOrder'
      BY <1>1, <2>2, <3>1, <3>3, <3>8, FormatsRead
    <3> QED BY <3>6, <3>7, <3>9
  <2> QED BY <2>1, <2>2
<1> QED BY <1>5, <1>7, <1>8 DEF PlayInv

\* A channel closes, or one without the handler is deaf to what comes.
LEMMA PlayUnserved ==
    ASSUME PlayInv, Play!ChannelCloses \/ Play!Deaf
    PROVE  PlayInv'
<1>1. /\ playFlight # <<>> /\ playFlight' = Tail(playFlight) /\ Head(playFlight).cmd # "create"
      /\ UNCHANGED <<host, hostFormats, block, rest, opens, handler, pendingWave, confirmed, heard>>
  BY DEF Play!ChannelCloses, Play!Deaf, Play!Arrives, Play!pdu, Play!fieldVars, Play!hostVars
<1>2. served \in BOOLEAN
  BY DEF PlayInv, PlayTypes
<1>3. served' = FALSE /\ (Head(playFlight).cmd = "delete" \/ ~served)
  BY <1>2 DEF Play!ChannelCloses, Play!Deaf, Play!Arrives, Play!pdu
<1>4. Head(playFlight) = playFlight[1]
  BY <1>1, FlightShifts DEF PlayInv, PlayTypes
<1>5. opens \in Nat /\ handler' = (opens' # 0) /\ confirmed' \in Seq(Nat)
      /\ pendingWave' \in BOOLEAN /\ host' \in {"closed", "opened", "offered", "agreed"}
  BY <1>1 DEF PlayInv, PlayTypes
<1>6. opens # 0
  BY <1>1, <1>4 DEF PlayInv, ChannelOrder
<1>7. PlayTypes'
  BY <1>1, <1>3, <1>5, TypesRead
<1>8. ChannelOrder'
  BY <1>1, <1>3, <1>4, <1>5, <1>6, TurnsRead
<1>9. ~First'
  BY <1>1, <1>3, <1>6 DEF First
<1>10. BlockOrder' /\ PairOrder' /\ FormatOrder'
  BY <1>1, <1>9, NothingLives
<1> QED BY <1>7, <1>8, <1>10 DEF PlayInv

\* The connection is made again: everything starts anew.
LEMMA PlayReconnects == ASSUME PlayInv, Play!Reconnect PROVE PlayInv'
<1>1. /\ playFlight' = <<>> /\ confirmed' = <<>> /\ block' = 0 /\ rest' = 0 /\ opens' = 0
      /\ handler' = FALSE /\ served' = FALSE /\ host' = "closed" /\ heard' = Play!NoSample
      /\ UNCHANGED pendingWave
  BY DEF Play!Reconnect, Play!ResetForReconnect, Play!fieldVars
<1>2. DOMAIN playFlight' = {} /\ Len(confirmed') = 0 /\ DOMAIN confirmed' = {}
      /\ confirmed' \in Seq(Nat) /\ IsSeq(playFlight)'
  BY <1>1 DEF IsSeq
<1>3. PlayTypes'
  BY <1>1, <1>2 DEF PlayInv, PlayTypes
<1>4. ~HalfRead' /\ Read' = 0
  BY <1>1, <1>2 DEF HalfRead, Read
<1>5. ChannelOrder'
  BY <1>1, <1>2 DEF ChannelOrder
<1>6. BlockOrder'
  BY <1>1, <1>2, <1>4 DEF BlockOrder
<1>7. PairOrder'
  BY <1>1, <1>2, <1>4 DEF PairOrder
<1>8. FormatOrder'
  BY <1>1, <1>2, <1>4 DEF FormatOrder, Play!NoSample
<1> QED BY <1>3, <1>5, <1>6, <1>7, <1>8 DEF PlayInv

\* What the handler reads leaves the channel as it is.
LEMMA HandlerReads ==
    ASSUME PlayInv, served, playFlight # <<>>, playFlight' = Tail(playFlight),
           playFlight[1].cmd \notin {"create", "delete"},
           UNCHANGED <<block, rest, opens, handler, served>>,
           host' = host \/ (host = "offered" /\ host' = "agreed"),
           pendingWave' \in BOOLEAN, confirmed' \in Seq(Nat)
    PROVE  PlayTypes' /\ ChannelOrder' /\ First /\ First'
<1>1. opens \in Nat \ {0} /\ handler' = (opens' # 0)
      /\ host' \in {"closed", "opened", "offered", "agreed"} /\ (host' = "closed" <=> host = "closed")
  BY DEF PlayInv, PlayTypes, ChannelOrder
<1>2. First /\ First'
  BY DEF First
<1>3. PlayTypes'
  BY <1>1, TypesRead DEF PlayInv, PlayTypes
<1>4. ChannelOrder'
  BY <1>1, <1>2, TurnsRead
<1> QED BY <1>2, <1>3, <1>4

\* The handler takes a list of formats, and answers it.
LEMMA PlayTakesFormats == ASSUME PlayInv, Play!HandleServerFormats PROVE PlayInv'
<1>1. /\ served /\ ~pendingWave /\ playFlight # <<>> /\ playFlight' = Tail(playFlight)
      /\ Head(playFlight).cmd = "formats"
      /\ UNCHANGED <<block, rest, opens, handler, served, pendingWave, wave, confirmed, heard>>
  BY DEF Play!HandleServerFormats, Play!ProcessPDU, Play!Arrives, Play!pdu, Play!Unchanged
<1>2. /\ host = "offered" => host' = "agreed" /\ hostFormats' = clientFormats'
      /\ host # "offered" => host' = host
  BY DEF Play!HandleServerFormats, Play!ClientFormats
<1>3. Head(playFlight) = playFlight[1] /\ 1 \in DOMAIN playFlight
  BY <1>1, FlightShifts DEF PlayInv, PlayTypes
<1>4. pendingWave' \in BOOLEAN /\ confirmed' \in Seq(Nat)
  BY <1>1 DEF PlayInv, PlayTypes
<1>5. PlayTypes' /\ ChannelOrder' /\ First /\ First'
  BY <1>1, <1>2, <1>3, <1>4, HandlerReads
<1>6. ~HalfRead /\ ~HalfRead' /\ Read' = Read
  BY <1>1 DEF HalfRead, Read
<1>7. ~Starts(playFlight[1]) /\ playFlight[1].cmd \notin {"delete", "waveinfo"}
  BY <1>1, <1>3 DEF Starts
<1>8. \A k \in DOMAIN confirmed' : confirmed'[k] = k
  BY <1>1 DEF PlayInv, BlockOrder
<1>9. Read \in Nat
  BY <1>1, <1>5, <1>7, HeadIsNext
<1>10. BlockOrder'
  BY <1>1, <1>5, <1>6, <1>7, <1>8, <1>9, BlocksRead
<1>11. PairOrder'
  BY <1>1, <1>5, <1>6, <1>7, PairsRead
<1>12. FormatOrder'
  <2> DEFINE L == Len(playFlight)
  <2>1. /\ L \in Nat \ {0} /\ DOMAIN playFlight = 1..L /\ DOMAIN playFlight' = 1..(L - 1)
        /\ \A i \in 1..(L - 1) : playFlight'[i] = playFlight[i + 1]
        /\ \A i \in 1..(L - 1) : Live(i)' <=> Live(i + 1)
        /\ Alive' <=> Alive
    BY <1>1, <1>5, <1>7, FlightShifts DEF PlayInv, PlayTypes
  <2> HIDE DEF L
  <2>2. ASSUME NEW i \in DOMAIN playFlight', Live(i)', Starts(playFlight'[i]) PROVE FALSE
    <3>1. /\ i + 1 \in DOMAIN playFlight /\ Live(i + 1) /\ Starts(playFlight[i + 1]) /\ 1 < i + 1
      BY <2>1, <2>2
    <3> QED BY <1>1, <1>3, <3>1 DEF PlayInv, FormatOrder
  <2>3. ASSUME Alive'
        PROVE  /\ host' = "agreed" => hostFormats' = clientFormats'
               /\ host' # "offered" /\ \A j \in DOMAIN playFlight' : playFlight'[j].cmd # "formats"
    <3>1. Alive
      BY <2>1, <2>3
    <3>2. host = "offered"
      BY <1>1, <1>3, <3>1 DEF PlayInv, FormatOrder
    <3>3. ASSUME NEW j \in DOMAIN playFlight' PROVE playFlight'[j].cmd # "formats"
      <4>1. j + 1 \in DOMAIN playFlight /\ j + 1 # 1 /\ playFlight'[j] = playFlight[j + 1]
        BY <2>1
      <4> QED BY <1>1, <1>3, <3>1, <3>2, <4>1 DEF PlayInv, FormatOrder
    <3> QED BY <1>2, <3>2, <3>3
  <2>4. (heard.head = heard.tail /\ heard.format = heard.meant)'
    BY <1>1 DEF PlayInv, FormatOrder
  <2> QED BY <1>6, <2>2, <2>3, <2>4 DEF FormatOrder
<1> QED BY <1>5, <1>10, <1>11, <1>12 DEF PlayInv

\* The stream ends.
LEMMA PlayPauses == ASSUME PlayInv, Play!HandleClose PROVE PlayInv'
<1>1. /\ served /\ ~pendingWave /\ playFlight # <<>> /\ playFlight' = Tail(playFlight)
      /\ Head(playFlight).cmd = "close"
      /\ UNCHANGED <<host, hostFormats, block, rest, opens, handler, served, clientFormats,
                     pendingWave, wave, confirmed, heard>>
  BY DEF Play!HandleClose, Play!ProcessPDU, Play!Arrives, Play!pdu, Play!Unchanged
<1>2. Head(playFlight) = playFlight[1]
  BY <1>1, FlightShifts DEF PlayInv, PlayTypes
<1>3. pendingWave' \in BOOLEAN /\ confirmed' \in Seq(Nat)
  BY <1>1 DEF PlayInv, PlayTypes
<1>4. PlayTypes' /\ ChannelOrder' /\ First /\ First'
  BY <1>1, <1>2, <1>3, HandlerReads
<1>5. ~HalfRead /\ ~HalfRead' /\ Read' = Read
  BY <1>1 DEF HalfRead, Read
<1>6. ~Starts(playFlight[1]) /\ playFlight[1].cmd \notin {"delete", "waveinfo", "formats"}
  BY <1>1, <1>2 DEF Starts
<1>7. \A k \in DOMAIN confirmed' : confirmed'[k] = k
  BY <1>1 DEF PlayInv, BlockOrder
<1>8. Read \in Nat
  BY <1>1, <1>4, <1>6, HeadIsNext
<1>9. BlockOrder'
  BY <1>1, <1>4, <1>5, <1>6, <1>7, <1>8, BlocksRead
<1>10. PairOrder'
  BY <1>1, <1>4, <1>5, <1>6, PairsRead
<1>11. heard'.head = heard'.tail /\ heard'.format = heard'.meant
  BY <1>1 DEF PlayInv, FormatOrder
<1>12. FormatOrder'
  BY <1>1, <1>4, <1>5, <1>6, <1>11, FormatsRead
<1> QED BY <1>4, <1>9, <1>10, <1>12 DEF PlayInv

\* The next block is confirmed in its turn.
LEMMA BlockConfirmed ==
    ASSUME PlayInv, NEW n, n = Len(confirmed) + 1, confirmed' = Append(confirmed, n)
    PROVE  /\ confirmed' \in Seq(Nat) /\ Len(confirmed') = Len(confirmed) + 1 /\ Len(confirmed) \in Nat
           /\ \A i \in DOMAIN confirmed' : confirmed'[i] = i
<1>1. confirmed \in Seq(Nat) /\ \A i \in DOMAIN confirmed : confirmed[i] = i
  BY DEF PlayInv, PlayTypes, BlockOrder
<1>2. n \in Nat /\ Len(confirmed) \in Nat
  BY <1>1
<1>3. /\ confirmed' \in Seq(Nat) /\ Len(confirmed') = Len(confirmed) + 1
      /\ DOMAIN confirmed = 1..Len(confirmed) /\ DOMAIN confirmed' = 1..(Len(confirmed) + 1)
      /\ \A i \in 1..Len(confirmed) : confirmed'[i] = confirmed[i]
      /\ confirmed'[Len(confirmed) + 1] = n
  BY <1>1, <1>2, AppendProperties
<1> QED BY <1>1, <1>2, <1>3

\* A block in one PDU is heard and confirmed.
LEMMA PlayHearsBlock == ASSUME PlayInv, Play!HandleWave2 PROVE PlayInv'
<1>1. /\ served /\ ~pendingWave /\ playFlight # <<>> /\ playFlight' = Tail(playFlight)
      /\ Head(playFlight).cmd = "wave2"
      /\ UNCHANGED <<host, hostFormats, block, rest, opens, handler, served, clientFormats,
                     pendingWave, wave>>
  BY DEF Play!HandleWave2, Play!ProcessPDU, Play!Arrives, Play!pdu, Play!Unchanged, Play!fieldVars
<1>2. Head(playFlight) = playFlight[1] /\ 1 \in DOMAIN playFlight
  BY <1>1, FlightShifts DEF PlayInv, PlayTypes
<1> DEFINE n == playFlight[1].n
           no == playFlight[1].no
           meant == playFlight[1].meant
<1>3. /\ confirmed' = Append(confirmed, n)
      /\ heard' = IF no \in DOMAIN clientFormats
                  THEN [n |-> n, head |-> n, tail |-> n, format |-> clientFormats[no],
                        meant |-> meant]
                  ELSE heard
  BY <1>2 DEF Play!HandleWave2, Play!DeliverAudio, Play!pdu
<1>4. Starts(playFlight[1]) /\ playFlight[1].cmd \notin {"create", "delete", "waveinfo", "formats"}
  BY <1>1, <1>2 DEF Starts
<1>5. First /\ ~HalfRead /\ ~HalfRead'
  BY <1>1 DEF First, HalfRead
<1>6. n = Len(confirmed) + 1 /\ Read = Len(confirmed) /\ Read \in Nat
  <2>1. n = Read + 1 /\ Len(confirmed) \in Nat
    BY <1>1, <1>4, <1>5, HeadIsNext
  <2> QED BY <1>5, <2>1 DEF Read
<1> HIDE DEF n, no, meant
<1>7. /\ confirmed' \in Seq(Nat) /\ Len(confirmed') = Len(confirmed) + 1
      /\ \A i \in DOMAIN confirmed' : confirmed'[i] = i
  BY <1>3, <1>6, BlockConfirmed
<1>8. Read' = Read + 1
  <2>1. Len(confirmed') \in Nat
    BY <1>6, <1>7
  <2> QED BY <1>5, <1>6, <1>7, <2>1 DEF Read
<1>9. PlayTypes' /\ ChannelOrder' /\ First'
  <2>1. pendingWave' \in BOOLEAN
    BY <1>1 DEF PlayInv, PlayTypes
  <2> QED BY <1>1, <1>4, <1>7, <2>1, HandlerReads
<1>10. BlockOrder'
  BY <1>1, <1>4, <1>5, <1>7, <1>8, <1>9, BlocksRead
<1>11. PairOrder'
  BY <1>1, <1>4, <1>5, <1>9, PairsRead
<1>12. no \in DOMAIN clientFormats /\ meant = clientFormats[no]
  <2>1. Live(1)
    BY <1>1, <1>4, <1>5, <1>9, FlightShifts DEF PlayInv, PlayTypes
  <2> QED BY <1>2, <1>4, <2>1 DEF PlayInv, FormatOrder, no, meant
<1>13. heard'.head = heard'.tail /\ heard'.format = heard'.meant
  BY <1>3, <1>12
<1>14. FormatOrder'
  BY <1>1, <1>4, <1>5, <1>9, <1>13, FormatsRead
<1> QED BY <1>9, <1>10, <1>11, <1>14 DEF PlayInv

\* The first part of a block is kept.
LEMMA PlayKeepsHalf == ASSUME PlayInv, Play!HandleWaveInfo PROVE PlayInv'
<1>1. /\ served /\ ~pendingWave /\ playFlight # <<>> /\ playFlight' = Tail(playFlight)
      /\ Head(playFlight).cmd = "waveinfo" /\ pendingWave' = TRUE
      /\ wave' = [n |-> Head(playFlight).n, no |-> Head(playFlight).no, meant |-> Head(playFlight).meant]
      /\ UNCHANGED <<host, hostFormats, block, rest, opens, handler, served, clientFormats,
                     confirmed, heard>>
  BY DEF Play!HandleWaveInfo, Play!ProcessPDU, Play!Arrives, Play!pdu, Play!Unchanged
<1>2. Head(playFlight) = playFlight[1] /\ 1 \in DOMAIN playFlight
  BY <1>1, FlightShifts DEF PlayInv, PlayTypes
<1>3. wave'.n = playFlight[1].n /\ wave'.no = playFlight[1].no /\ wave'.meant = playFlight[1].meant
  BY <1>1, <1>2
<1>4. Starts(playFlight[1]) /\ playFlight[1].cmd \notin {"create", "delete", "formats"}
      /\ playFlight[1].cmd = "waveinfo"
  BY <1>1, <1>2 DEF Starts
<1>5. First /\ ~HalfRead /\ HalfRead'
  BY <1>1 DEF First, HalfRead
<1>6. Read \in Nat /\ playFlight[1].n = Read + 1 /\ Len(confirmed) \in Nat
  BY <1>1, <1>4, <1>5, HeadIsNext
<1>7. Read' = Read + 1
  BY <1>1, <1>5, <1>6 DEF Read
<1>8. confirmed' \in Seq(Nat) /\ \A i \in DOMAIN confirmed' : confirmed'[i] = i
  BY <1>1 DEF PlayInv, PlayTypes, BlockOrder
<1>9. PlayTypes' /\ ChannelOrder' /\ First'
  BY <1>1, <1>4, <1>8, HandlerReads
<1>10. BlockOrder'
  BY <1>1, <1>4, <1>5, <1>7, <1>8, <1>9, BlocksRead
<1>11. PairOrder'
  BY <1>1, <1>3, <1>4, <1>5, <1>6, <1>7, <1>9, PairsRead
<1>12. wave'.no \in DOMAIN clientFormats' /\ wave'.meant = clientFormats'[wave'.no]
  <2>1. Live(1)
    BY <1>1, <1>4, <1>5, <1>9, FlightShifts DEF PlayInv, PlayTypes
  <2>2. playFlight[1].no \in DOMAIN clientFormats /\ playFlight[1].meant = clientFormats[playFlight[1].no]
    BY <1>2, <1>4, <2>1 DEF PlayInv, FormatOrder
  <2> QED BY <1>1, <1>3, <2>2
<1>13. heard'.head = heard'.tail /\ heard'.format = heard'.meant
  BY <1>1 DEF PlayInv, FormatOrder
<1>14. FormatOrder'
  BY <1>1, <1>4, <1>5, <1>9, <1>12, <1>13, FormatsRead
<1> QED BY <1>9, <1>10, <1>11, <1>14 DEF PlayInv

\* The second part completes it.
LEMMA PlayHearsRest == ASSUME PlayInv, Play!HandleWaveContinuation PROVE PlayInv'
<1>1. /\ served /\ pendingWave /\ playFlight # <<>> /\ playFlight' = Tail(playFlight)
      /\ Head(playFlight).cmd # "delete" /\ pendingWave' = FALSE
      /\ UNCHANGED <<host, hostFormats, block, rest, opens, handler, served, clientFormats, wave>>
  BY DEF Play!HandleWaveContinuation, Play!pdu, Play!Unchanged
<1>2. Head(playFlight) = playFlight[1] /\ 1 \in DOMAIN playFlight
  BY <1>1, FlightShifts DEF PlayInv, PlayTypes
<1>3. First /\ HalfRead /\ ~HalfRead'
  BY <1>1 DEF First, HalfRead
<1>4. playFlight[1].cmd = "wave" /\ playFlight[1].n = wave.n /\ wave.n = Read
  BY <1>1, <1>2, <1>3 DEF PlayInv, PairOrder
<1>5. ~Starts(playFlight[1]) /\ playFlight[1].cmd \notin {"create", "delete", "waveinfo", "formats"}
  BY <1>4 DEF Starts
<1>6. wave.no \in DOMAIN clientFormats /\ wave.meant = clientFormats[wave.no]
      /\ heard.head = heard.tail /\ heard.format = heard.meant
  BY <1>3 DEF PlayInv, FormatOrder
<1>7. /\ confirmed' = Append(confirmed, wave.n)
      /\ \/ heard' = [n |-> wave.n, head |-> wave.n, tail |-> wave.n,
                      format |-> clientFormats[wave.no], meant |-> wave.meant]
         \/ heard' = heard
  BY <1>2, <1>4, <1>6 DEF Play!HandleWaveContinuation, Play!DeliverAudio, Play!ShortWave, Play!pdu
<1>8. Read \in Nat /\ wave.n = Len(confirmed) + 1 /\ Len(confirmed) \in Nat
  <2>1. Read \in Nat /\ Len(confirmed) \in Nat
    BY <1>1, <1>3, <1>5, HeadIsNext
  <2> QED BY <1>3, <1>4, <2>1 DEF Read
<1>9. /\ confirmed' \in Seq(Nat) /\ Len(confirmed') = Len(confirmed) + 1
      /\ \A i \in DOMAIN confirmed' : confirmed'[i] = i
  BY <1>7, <1>8, BlockConfirmed
<1>10. Read' = Read
  <2>1. Read' = Len(confirmed')
    <3>1. Len(confirmed') \in Nat
      BY <1>8, <1>9
    <3> QED BY <1>3, <3>1 DEF Read
  <2> QED BY <1>4, <1>8, <1>9, <2>1
<1>11. PlayTypes' /\ ChannelOrder' /\ First'
  BY <1>1, <1>5, <1>9, HandlerReads
<1>12. BlockOrder'
  BY <1>1, <1>3, <1>5, <1>8, <1>9, <1>10, <1>11, BlocksRead
<1>13. PairOrder'
  BY <1>1, <1>3, <1>5, <1>11, PairsRead
<1>14. heard'.head = heard'.tail /\ heard'.format = heard'.meant
  BY <1>6, <1>7
<1>15. FormatOrder'
  BY <1>1, <1>3, <1>5, <1>11, <1>14, FormatsRead
<1> QED BY <1>11, <1>12, <1>13, <1>15 DEF PlayInv

\* Every step keeps it.
LEMMA PlaySteps == PlayInv /\ [Play!Next]_playbackVars => PlayInv'
<1> SUFFICES ASSUME PlayInv, [Play!Next]_playbackVars PROVE PlayInv'
  OBVIOUS
<1>1. CASE \/ Play!HostOpens \/ Play!HostCloses \/ Play!HostOffers \/ Play!HostContinues
           \/ Play!HostPauses \/ Play!HostPlays("wave2") \/ Play!HostPlays("waveinfo")
  BY <1>1, PlayServerSteps
<1>2. CASE Play!ChannelOpens
  BY <1>2, PlayOpens
<1>3. CASE Play!ChannelCloses \/ Play!Deaf
  BY <1>3, PlayUnserved
<1>4. CASE Play!Reconnect
  BY <1>4, PlayReconnects
<1>5. CASE Play!HandleServerFormats
  BY <1>5, PlayTakesFormats
<1>6. CASE Play!HandleWave2
  BY <1>6, PlayHearsBlock
<1>7. CASE Play!HandleWaveInfo
  BY <1>7, PlayKeepsHalf
<1>8. CASE Play!HandleWaveContinuation
  BY <1>8, PlayHearsRest
<1>9. CASE Play!HandleClose
  BY <1>9, PlayPauses
<1>10. CASE UNCHANGED playbackVars
  BY <1>10 DEF PlayInv, PlayTypes, ChannelOrder, BlockOrder, PairOrder, FormatOrder, Live, Alive,
     First, NoDelete, HalfRead, Read, IsSeq, playbackVars
<1> QED BY <1>1, <1>2, <1>3, <1>4, <1>5, <1>6, <1>7, <1>8, <1>9, <1>10 DEF Play!Next

\* The server's audio is heard as it was sent, in the format it was encoded in, and
\* confirmed block by block in order, across channels closed in the middle of a wave,
\* lists of formats made again, and reconnections.
THEOREM PlaybackAlwaysFaithful == MCSpec => []PlaybackFaithful
<1>1. MCInit => PlayInv
  BY PlayStarts DEF MCInit
<1>2. PlayInv /\ [MCNext]_mcVars => PlayInv'
  <2> SUFFICES ASSUME PlayInv, [MCNext]_mcVars PROVE PlayInv'
    OBVIOUS
  <2>1. Play!Next \/ UNCHANGED playbackVars
    BY DEF MCNext, mcVars
  <2> QED BY <2>1, PlaySteps
<1>3. PlayInv => PlaybackFaithful
  <2> SUFFICES ASSUME PlayInv PROVE PlaybackFaithful
    OBVIOUS
  <2>1. Play!SampleAsMeant /\ Play!ConfirmedInOrder
    BY DEF PlayInv, BlockOrder, FormatOrder, Play!SampleAsMeant, Play!ConfirmedInOrder
  <2>2. ASSUME playFlight = <<>> PROVE DOMAIN playFlight = {} /\ Len(playFlight) = 0
    BY <2>2
  <2>3. ASSUME served, playFlight = <<>>, rest = 0 PROVE Len(confirmed) = block /\ host # "offered"
    <3>1. Alive
      BY <2>2, <2>3 DEF Alive, First, NoDelete
    <3>2. ~HalfRead
      BY <2>3, <3>1 DEF PlayInv, PairOrder
    <3>3. Len(confirmed) \in Nat /\ block \in Nat
      BY DEF PlayInv, PlayTypes
    <3>4. Read = Len(confirmed)
      BY <3>2, <3>3 DEF Read
    <3>5. Read <= block /\ ~(Read < block)
      BY <2>2, <2>3, <3>1, <3>3 DEF PlayInv, BlockOrder
    <3>6. host # "offered"
      BY <2>2, <2>3, <3>1 DEF PlayInv, FormatOrder
    <3> QED BY <3>3, <3>4, <3>5, <3>6
  <2>4. Play!AllConfirmed
    BY <2>3 DEF Play!AllConfirmed
  <2>5. Play!FirstIsServed
    BY <2>2 DEF PlayInv, ChannelOrder, Play!FirstIsServed
  <2> QED BY <2>1, <2>4, <2>5 DEF PlaybackFaithful, Play!PlaybackFaithful
<1> QED BY <1>1, <1>2, <1>3, PTL DEF MCSpec

(***************************************************************************)
(* Clipboard.                                                              *)
(***************************************************************************)

\* A PDU on the way to the client, by what it carries.
ClipPdu(p, long) ==
    /\ p.cmd \in {"caps", "ready", "list", "response", "request"}
    /\ p.cmd = "caps" => p.long = long
    /\ p.cmd = "list" => p.formats \in (SUBSET Clip!Formats) \ {{}}
    /\ p.cmd = "response" => p.format \in Clip!Formats
    /\ p.cmd = "request" => p.format \in Clip!Formats /\ p.least \in Nat

ClipQueue == IsSeq(toClient) /\ \A i \in DOMAIN toClient : ClipPdu(toClient[i], srvLong)

ClipTypes ==
    /\ outstanding \in Seq(Clip!Formats)
    /\ srvLong \in BOOLEAN /\ serverCaps \in BOOLEAN /\ useLongFormatNames \in BOOLEAN
    /\ capsSeen \in BOOLEAN /\ ready \in BOOLEAN /\ enabled \in BOOLEAN
    /\ early \in BOOLEAN /\ crossing \in BOOLEAN
    /\ loop \in {<<>>, <<"list">>, <<"caps", "list">>}
    /\ localText \in Nat /\ localImage \in Nat /\ copies \in Nat
    /\ srvList.n \in Nat /\ srvList.text \in Nat /\ srvList.image \in Nat

\* The capabilities of the server come before its readiness.
CapsFirst ==
    /\ \A i \in DOMAIN toClient : toClient[i].cmd = "ready" =>
          serverCaps = srvLong \/ \E j \in DOMAIN toClient : j < i /\ toClient[j].cmd = "caps"
    /\ capsSent # "nothing" =>
          serverCaps = srvLong \/ \E j \in DOMAIN toClient : toClient[j].cmd = "caps"

\* Those of the client come before its lists, and a list is in the form that both have.
Handshake ==
    /\ useLongFormatNames => srvLong
    /\ ready => useLongFormatNames = srvLong
    /\ loop # <<>> => ready
    /\ loop = <<"list">> => capsSeen
    /\ ready /\ loop = <<>> => capsSeen /\ srvList.n > 0
    /\ ~early => srvList.readable
    /\ ~early /\ viewer.at = "send" => capsSeen /\ viewer.list.long = srvLong

\* No list announces more than the fields hold, and no request asks for more.
NothingNewer ==
    /\ localText <= copies /\ localImage <= copies
    /\ srvList.text <= localText /\ srvList.image <= localImage
    /\ viewer.at = "send" =>
          /\ viewer.list.text \in Nat /\ viewer.list.text <= localText
          /\ viewer.list.image \in Nat /\ viewer.list.image <= localImage

AskedOld == \A i \in DOMAIN toClient :
    toClient[i].cmd = "request" =>
        toClient[i].least <= (IF toClient[i].format = "text" THEN localText ELSE localImage)

\* Requests that did not cross are one at most, and it is the one that is pending.
OneUnderWay ==
    ~crossing =>
        /\ Len(outstanding) <= 1
        /\ outstanding # <<>> => pendingFormat = Head(outstanding)
        /\ \A i \in DOMAIN toClient : toClient[i].cmd = "response" =>
              /\ outstanding = <<>> /\ pendingFormat = toClient[i].format
              /\ \A j \in DOMAIN toClient : toClient[j].cmd = "response" => i = j

\* What the server waits for is on its way.
AskedUnderWay == srvAsked # "none" => \E i \in DOMAIN toClient : toClient[i].cmd = "request"

ClipInv ==
    /\ ClipQueue /\ ClipTypes /\ CapsFirst /\ Handshake /\ NothingNewer /\ AskedOld
    /\ OneUnderWay /\ AskedUnderWay /\ Clip!PasteIsCurrent /\ Clip!MisreadOnlyCrossed

\* It holds at the start.
LEMMA ClipStarts == Clip!Init => ClipInv
<1> SUFFICES ASSUME Clip!Init PROVE ClipInv
  OBVIOUS
<1> USE DEF Clip!Init, Clip!None, Clip!Unread
<1>1. toClient = <<>> /\ DOMAIN toClient = {} /\ outstanding \in Seq(Clip!Formats) /\ Len(outstanding) = 0
  OBVIOUS
<1>2. ClipQueue
  BY <1>1 DEF ClipQueue, IsSeq
<1>3. ClipTypes
  BY <1>1 DEF ClipTypes
<1>4. CapsFirst /\ AskedOld /\ AskedUnderWay
  BY <1>1 DEF CapsFirst, AskedOld, AskedUnderWay
<1>5. srvList.readable
  BY Zenon
<1>6. Handshake
  BY <1>5 DEF Handshake
<1>7. NothingNewer /\ Clip!MisreadOnlyCrossed
  BY DEF NothingNewer, Clip!MisreadOnlyCrossed
<1>8. OneUnderWay
  BY <1>1 DEF OneUnderWay
<1>9. Clip!PasteIsCurrent
  <2>1. answer.on <=> FALSE
    BY Zenon
  <2> QED BY <2>1 DEF Clip!PasteIsCurrent
<1> QED BY <1>2, <1>3, <1>4, <1>6, <1>7, <1>8, <1>9 DEF ClipInv

\* What is appended is last.
LEMMA QueueAppends ==
    ASSUME NEW q, IsSeq(q), NEW p
    PROVE  /\ IsSeq(Append(q, p)) /\ Len(q) \in Nat /\ DOMAIN q = 1..Len(q)
           /\ DOMAIN Append(q, p) = 1..(Len(q) + 1)
           /\ \A i \in 1..Len(q) : Append(q, p)[i] = q[i]
           /\ Append(q, p)[Len(q) + 1] = p
<1>1. PICK X : q \in Seq(X)
  BY DEF IsSeq
<1> DEFINE Y == X \cup {p}
<1>2. q \in Seq(Y) /\ p \in Y
  BY <1>1
<1> HIDE DEF Y
<1>3. Append(q, p) \in Seq(Y)
  BY <1>2, AppendProperties
<1>4. Len(q) \in Nat /\ DOMAIN q = 1..Len(q)
  BY <1>2
<1> QED BY <1>2, <1>3, <1>4, AppendProperties DEF IsSeq

\* What is read was first, and the others move up.
LEMMA QueueShifts ==
    ASSUME NEW q, IsSeq(q), q # <<>>
    PROVE  /\ IsSeq(Tail(q)) /\ 1 \in DOMAIN q /\ Head(q) = q[1]
           /\ \A i \in DOMAIN Tail(q) : i \in Nat /\ i + 1 \in DOMAIN q /\ i + 1 # 1 /\ Tail(q)[i] = q[i + 1]
           /\ \A k \in DOMAIN q : k \in Nat \ {0} /\ (k # 1 => k - 1 \in DOMAIN Tail(q) /\ Tail(q)[k - 1] = q[k])
<1>1. PICK X : q \in Seq(X)
  BY DEF IsSeq
<1> DEFINE L == Len(q)
<1>2. /\ Tail(q) \in Seq(X) /\ L \in Nat \ {0} /\ Len(Tail(q)) = L - 1
      /\ DOMAIN q = 1..L /\ DOMAIN Tail(q) = 1..(L - 1)
      /\ \A i \in 1..(L - 1) : Tail(q)[i] = q[i + 1]
      /\ Head(q) = q[1]
  BY <1>1
<1>3. IsSeq(Tail(q))
  BY <1>2 DEF IsSeq
<1> HIDE DEF L
<1>4. ASSUME NEW i \in DOMAIN Tail(q)
      PROVE  i \in Nat /\ i + 1 \in DOMAIN q /\ i + 1 # 1 /\ Tail(q)[i] = q[i + 1]
  BY <1>2
<1>5. ASSUME NEW k \in DOMAIN q, k # 1 PROVE k - 1 \in DOMAIN Tail(q) /\ Tail(q)[k - 1] = q[k]
  <2>1. k - 1 \in 1..(L - 1) /\ (k - 1) + 1 = k
    BY <1>2, <1>5
  <2> QED BY <1>2, <2>1
<1>6. \A k \in DOMAIN q : k \in Nat \ {0}
  BY <1>2
<1> QED BY <1>2, <1>3, <1>4, <1>5, <1>6

\* The server sends a PDU.
LEMMA ClipSent ==
    ASSUME ClipInv, NEW p, toClient' = Append(toClient, p), ClipPdu(p, srvLong),
           UNCHANGED <<srvLong, capsSeen, srvList, answer, serverCaps, useLongFormatNames, ready,
                       enabled, localText, localImage, pendingFormat, loop, viewer, delivered,
                       crossing, early>>,
           copies' \in Nat, copies <= copies',
           p.cmd = "ready" => capsSent # "nothing",
           capsSent' # "nothing" => capsSent # "nothing" \/ p.cmd = "caps",
           p.cmd = "request" => p.least <= Clip!Local(p.format),
           srvAsked' = srvAsked \/ p.cmd = "request",
           p.cmd # "response" => UNCHANGED outstanding,
           p.cmd = "response" => /\ outstanding # <<>> /\ outstanding' = Tail(outstanding)
                                 /\ p.format = Head(outstanding)
    PROVE  ClipInv'
<1> DEFINE L == Len(toClient)
<1>1. /\ IsSeq(toClient') /\ L \in Nat /\ DOMAIN toClient = 1..L /\ DOMAIN toClient' = 1..(L + 1)
      /\ \A i \in 1..L : toClient'[i] = toClient[i]
      /\ toClient'[L + 1] = p
  BY QueueAppends DEF ClipInv, ClipQueue
<1> HIDE DEF L
<1>2. ClipPdu(p, srvLong') /\ \A i \in DOMAIN toClient : ClipPdu(toClient[i], srvLong')
  BY DEF ClipInv, ClipQueue, ClipPdu
<1>3. ClipQueue'
  <2>1. \A i \in DOMAIN toClient' : ClipPdu(toClient'[i], srvLong')
    <3> SUFFICES ASSUME NEW i \in DOMAIN toClient' PROVE ClipPdu(toClient'[i], srvLong')
      OBVIOUS
    <3>1. CASE i \in 1..L
      BY <1>1, <1>2, <3>1 DEF ClipPdu
    <3>2. CASE i = L + 1
      BY <1>1, <1>2, <3>2 DEF ClipPdu
    <3> QED BY <1>1, <3>1, <3>2
  <2>2. IsSeq(toClient)'
    BY <1>1 DEF IsSeq
  <2> QED BY <2>1, <2>2 DEF ClipQueue, ClipPdu
<1>4. outstanding' \in Seq(Clip!Formats)
  <2>1. outstanding \in Seq(Clip!Formats)
    BY DEF ClipInv, ClipTypes
  <2>2. CASE outstanding # <<>> /\ outstanding' = Tail(outstanding)
    BY <2>1, <2>2
  <2>3. CASE outstanding' = outstanding
    BY <2>1, <2>3
  <2> QED BY <2>2, <2>3
<1>5. ClipTypes'
  BY <1>4 DEF ClipInv, ClipTypes
<1>6. CapsFirst'
  <2>1. ASSUME NEW i \in DOMAIN toClient', toClient'[i].cmd = "ready", ~(serverCaps = srvLong)
        PROVE  \E j \in DOMAIN toClient' : j < i /\ toClient'[j].cmd = "caps"
    <3>1. CASE i \in 1..L
      BY <1>1, <2>1, <3>1 DEF ClipInv, CapsFirst
    <3>2. CASE i = L + 1
      <4>1. PICK j \in 1..L : toClient[j].cmd = "caps"
        BY <1>1, <2>1, <3>2 DEF ClipInv, CapsFirst
      <4> QED BY <1>1, <3>2, <4>1
    <3> QED BY <1>1, <3>1, <3>2
  <2>2. ASSUME capsSent' # "nothing", ~(serverCaps = srvLong)
        PROVE  \E j \in DOMAIN toClient' : toClient'[j].cmd = "caps"
    <3>1. CASE p.cmd = "caps"
      BY <1>1, <3>1
    <3>2. CASE p.cmd # "caps"
      <4>1. PICK j \in 1..L : toClient[j].cmd = "caps"
        BY <1>1, <2>2, <3>2 DEF ClipInv, CapsFirst
      <4> QED BY <1>1, <4>1
    <3> QED BY <3>1, <3>2
  <2> QED BY <2>1, <2>2 DEF CapsFirst
<1>7. Handshake' /\ NothingNewer'
  BY <1>1 DEF ClipInv, ClipTypes, Handshake, NothingNewer
<1>8. AskedOld'
  <2> SUFFICES ASSUME NEW i \in DOMAIN toClient', toClient'[i].cmd = "request"
               PROVE  toClient'[i].least
                         <= (IF toClient'[i].format = "text" THEN localText' ELSE localImage')
    BY DEF AskedOld
  <2>1. CASE i \in 1..L
    BY <1>1, <2>1 DEF ClipInv, AskedOld
  <2>2. CASE i = L + 1
    BY <1>1, <2>2 DEF Clip!Local
  <2> QED BY <1>1, <2>1, <2>2
<1>9. OneUnderWay'
  <2> SUFFICES ASSUME ~crossing'
               PROVE  /\ Len(outstanding') <= 1
                      /\ outstanding' # <<>> => pendingFormat' = Head(outstanding')
                      /\ \A i \in DOMAIN toClient' : toClient'[i].cmd = "response" =>
                            /\ outstanding' = <<>> /\ pendingFormat' = toClient'[i].format
                            /\ \A j \in DOMAIN toClient' : toClient'[j].cmd = "response" => i = j
    BY DEF OneUnderWay
  <2>1. /\ ~crossing /\ Len(outstanding) <= 1
        /\ outstanding # <<>> => pendingFormat = Head(outstanding)
        /\ \A i \in DOMAIN toClient : toClient[i].cmd = "response" =>
              /\ outstanding = <<>> /\ pendingFormat = toClient[i].format
              /\ \A j \in DOMAIN toClient : toClient[j].cmd = "response" => i = j
    BY DEF ClipInv, OneUnderWay
  <2>2. CASE p.cmd # "response"
    BY <1>1, <2>1, <2>2
  <2>3. CASE p.cmd = "response"
    <3>1. outstanding' = <<>>
      BY <2>1, <2>3 DEF ClipInv, ClipTypes
    <3>2. \A i \in 1..L : toClient'[i].cmd # "response"
      BY <1>1, <2>1, <2>3
    <3> QED BY <1>1, <2>1, <2>3, <3>1, <3>2
  <2> QED BY <2>2, <2>3
<1>10. AskedUnderWay'
  <2> SUFFICES ASSUME srvAsked' # "none"
               PROVE  \E i \in DOMAIN toClient' : toClient'[i].cmd = "request"
    BY DEF AskedUnderWay
  <2>1. CASE p.cmd = "request"
    BY <1>1, <2>1
  <2>2. CASE p.cmd # "request"
    <3>1. PICK i \in 1..L : toClient[i].cmd = "request"
      BY <1>1, <2>2 DEF ClipInv, AskedUnderWay
    <3> QED BY <1>1, <3>1
  <2> QED BY <2>1, <2>2
<1>11. Clip!PasteIsCurrent' /\ Clip!MisreadOnlyCrossed'
  BY DEF ClipInv, Clip!PasteIsCurrent, Clip!MisreadOnlyCrossed
<1> QED BY <1>3, <1>5, <1>6, <1>7, <1>8, <1>9, <1>10, <1>11 DEF ClipInv

\* The steps of the server.
LEMMA ClipServerSteps ==
    ASSUME ClipInv, \/ Clip!ServerCaps \/ Clip!ServerReady \/ Clip!ServerCopies
                    \/ Clip!ServerAnswers \/ Clip!ServerAsks
    PROVE  ClipInv'
<1> USE DEF Clip!Send, Clip!fields, Clip!history, Clip!bounds, Clip!serverVars
<1>1. copies \in Nat /\ ClipTypes
  BY DEF ClipInv, ClipTypes
<1>2. CASE Clip!ServerCaps
  <2> DEFINE p == [cmd |-> "caps", long |-> srvLong]
  <2>1. p.cmd = "caps" /\ p.long = srvLong /\ ClipPdu(p, srvLong)
    BY DEF ClipPdu
  <2>2. toClient' = Append(toClient, p)
    BY <1>2 DEF Clip!ServerCaps
  <2> HIDE DEF p
  <2> QED BY <1>1, <1>2, <2>1, <2>2, ClipSent DEF Clip!ServerCaps
<1>3. CASE Clip!ServerReady
  <2> DEFINE p == [cmd |-> "ready"]
  <2>1. p.cmd = "ready" /\ ClipPdu(p, srvLong)
    BY DEF ClipPdu
  <2>2. toClient' = Append(toClient, p) /\ capsSent = "caps"
    BY <1>3 DEF Clip!ServerReady
  <2> HIDE DEF p
  <2> QED BY <1>1, <1>3, <2>1, <2>2, ClipSent DEF Clip!ServerReady
<1>4. CASE Clip!ServerCopies
  <2>1. PICK fs \in (SUBSET Clip!Formats) \ {{}} :
               toClient' = Append(toClient, [cmd |-> "list", formats |-> fs])
    BY <1>4 DEF Clip!ServerCopies
  <2> DEFINE p == [cmd |-> "list", formats |-> fs]
  <2>2. p.cmd = "list" /\ ClipPdu(p, srvLong)
    BY DEF ClipPdu
  <2>3. toClient' = Append(toClient, p)
    BY <2>1
  <2>4. copies' \in Nat /\ copies <= copies'
    BY <1>1, <1>4 DEF Clip!ServerCopies
  <2> HIDE DEF p
  <2> QED BY <1>1, <1>4, <2>2, <2>3, <2>4, ClipSent DEF Clip!ServerCopies
<1>5. CASE Clip!ServerAnswers
  <2> DEFINE f == Head(outstanding)
             p == [cmd |-> "response", format |-> f, ok |-> f \in srvClip.formats]
  <2>1. toClient' = Append(toClient, p) /\ outstanding # <<>> /\ outstanding' = Tail(outstanding)
    BY <1>5 DEF Clip!ServerAnswers
  <2>2. f \in Clip!Formats
    BY <1>1, <2>1 DEF ClipTypes
  <2>3. p.cmd = "response" /\ p.format = f
    OBVIOUS
  <2>4. ClipPdu(p, srvLong)
    BY <2>2, <2>3 DEF ClipPdu
  <2> HIDE DEF p
  <2> QED BY <1>1, <1>5, <2>1, <2>3, <2>4, ClipSent DEF Clip!ServerAnswers
<1>6. CASE Clip!ServerAsks
  <2>1. PICK f \in Clip!Formats :
               toClient' = Append(toClient, [cmd |-> "request", format |-> f, least |-> srvList[f]])
    BY <1>6 DEF Clip!ServerAsks
  <2> DEFINE p == [cmd |-> "request", format |-> f, least |-> srvList[f]]
  <2>2. p.cmd = "request" /\ p.format = f /\ p.least = srvList[f]
    OBVIOUS
  <2>3. srvList[f] \in Nat /\ srvList[f] <= Clip!Local(f)
    BY <1>1 DEF ClipTypes, ClipInv, NothingNewer, Clip!Local, Clip!Formats
  <2>4. ClipPdu(p, srvLong) /\ p.least <= Clip!Local(p.format)
    BY <2>2, <2>3 DEF ClipPdu
  <2>5. toClient' = Append(toClient, p)
    BY <2>1
  <2> HIDE DEF p
  <2> QED BY <1>1, <1>6, <2>2, <2>4, <2>5, ClipSent DEF Clip!ServerAsks
<1> QED BY <1>2, <1>3, <1>4, <1>5, <1>6

\* What remains on the way when the first PDU is read.
LEMMA ClipRead ==
    ASSUME ClipInv, toClient # <<>>, toClient' = Tail(toClient),
           UNCHANGED <<srvLong, capsSent, localText, localImage>>,
           \/ serverCaps' = srvLong
           \/ serverCaps' = serverCaps /\ toClient[1].cmd # "caps",
           \/ srvAsked' = "none"
           \/ srvAsked' = srvAsked /\ toClient[1].cmd # "request"
    PROVE  ClipQueue' /\ CapsFirst' /\ AskedOld' /\ AskedUnderWay'
<1>1. /\ IsSeq(toClient') /\ 1 \in DOMAIN toClient
      /\ \A i \in DOMAIN toClient' : /\ i \in Nat /\ i + 1 \in DOMAIN toClient /\ i + 1 # 1
                                     /\ toClient'[i] = toClient[i + 1]
      /\ \A k \in DOMAIN toClient : /\ k \in Nat \ {0}
                                    /\ k # 1 => k - 1 \in DOMAIN toClient' /\ toClient'[k - 1] = toClient[k]
  BY QueueShifts DEF ClipInv, ClipQueue
<1>2. ClipQueue'
  <2>1. \A i \in DOMAIN toClient' : ClipPdu(toClient'[i], srvLong')
    BY <1>1 DEF ClipInv, ClipQueue
  <2>2. IsSeq(toClient)'
    BY <1>1 DEF IsSeq
  <2> QED BY <2>1, <2>2 DEF ClipQueue, ClipPdu
<1>3. CapsFirst'
  <2>1. ASSUME NEW k \in DOMAIN toClient, toClient[k].cmd = "caps", serverCaps' # srvLong
        PROVE  k - 1 \in DOMAIN toClient' /\ toClient'[k - 1].cmd = "caps"
    BY <1>1, <2>1
  <2>2. ASSUME NEW i \in DOMAIN toClient', toClient'[i].cmd = "ready", serverCaps' # srvLong
        PROVE  \E j \in DOMAIN toClient' : j < i /\ toClient'[j].cmd = "caps"
    <3>1. i + 1 \in DOMAIN toClient /\ toClient[i + 1].cmd = "ready" /\ i \in Nat
      BY <1>1, <2>2
    <3>2. serverCaps # srvLong
      BY <2>2
    <3>3. PICK k \in DOMAIN toClient : k < i + 1 /\ toClient[k].cmd = "caps"
      BY <3>1, <3>2 DEF ClipInv, CapsFirst
    <3>4. k - 1 < i
      BY <1>1, <3>1, <3>3
    <3> QED BY <2>1, <2>2, <3>3, <3>4
  <2>3. ASSUME capsSent' # "nothing", serverCaps' # srvLong
        PROVE  \E j \in DOMAIN toClient' : toClient'[j].cmd = "caps"
    <3>1. PICK k \in DOMAIN toClient : toClient[k].cmd = "caps"
      BY <2>3 DEF ClipInv, CapsFirst
    <3> QED BY <2>1, <2>3, <3>1
  <2> QED BY <2>2, <2>3 DEF CapsFirst
<1>4. AskedOld'
  <2> SUFFICES ASSUME NEW i \in DOMAIN toClient', toClient'[i].cmd = "request"
               PROVE  toClient'[i].least
                         <= (IF toClient'[i].format = "text" THEN localText' ELSE localImage')
    BY DEF AskedOld
  <2> QED BY <1>1 DEF ClipInv, AskedOld
<1>5. AskedUnderWay'
  <2> SUFFICES ASSUME srvAsked' # "none"
               PROVE  \E i \in DOMAIN toClient' : toClient'[i].cmd = "request"
    BY DEF AskedUnderWay
  <2>1. PICK k \in DOMAIN toClient : toClient[k].cmd = "request"
    BY DEF ClipInv, AskedUnderWay
  <2>2. k # 1
    BY <2>1
  <2> QED BY <1>1, <2>1, <2>2
<1> QED BY <1>2, <1>3, <1>4, <1>5

\* What is read that is no answer leaves the requests under way.
LEMMA NoAnswerRead ==
    ASSUME ClipInv, toClient # <<>>, toClient' = Tail(toClient), toClient[1].cmd # "response",
           UNCHANGED <<outstanding, pendingFormat, crossing, delivered>>
    PROVE  OneUnderWay' /\ Clip!MisreadOnlyCrossed'
<1>1. \A i \in DOMAIN toClient' : /\ i \in Nat /\ i + 1 \in DOMAIN toClient
                                  /\ toClient'[i] = toClient[i + 1]
  BY QueueShifts DEF ClipInv, ClipQueue
<1>2. ASSUME ~crossing, NEW i \in DOMAIN toClient', toClient'[i].cmd = "response"
      PROVE  /\ outstanding = <<>> /\ pendingFormat = toClient'[i].format
             /\ \A j \in DOMAIN toClient' : toClient'[j].cmd = "response" => i = j
  <2>1. i + 1 \in DOMAIN toClient /\ toClient[i + 1].cmd = "response"
    BY <1>1, <1>2
  <2>2. ASSUME NEW j \in DOMAIN toClient', toClient'[j].cmd = "response" PROVE i = j
    <3>1. i + 1 = j + 1
      BY <1>1, <1>2, <2>1, <2>2 DEF ClipInv, OneUnderWay
    <3> QED BY <1>1, <3>1
  <2> QED BY <1>1, <1>2, <2>1, <2>2 DEF ClipInv, OneUnderWay
<1>3. OneUnderWay'
  BY <1>2 DEF ClipInv, OneUnderWay
<1> QED BY <1>3 DEF ClipInv, Clip!MisreadOnlyCrossed

\* The capabilities of the server are read, and its readiness.
LEMMA ClipHandshakes ==
    ASSUME ClipInv, Clip!HandleCaps \/ Clip!HandleMonitorReady
    PROVE  ClipInv'
<1>1. ClipTypes
  BY DEF ClipInv
<1>2. /\ toClient # <<>> /\ toClient' = Tail(toClient) /\ loop = <<>>
      /\ UNCHANGED <<srvLong, capsSent, capsSeen, srvList, srvAsked, answer, enabled, localText,
                     localImage, pendingFormat, viewer, copies, delivered, outstanding, crossing,
                     early>>
  BY DEF Clip!HandleCaps, Clip!HandleMonitorReady, Clip!Receive, Clip!serverVars, Clip!bounds,
         Clip!history
<1>3. Head(toClient) = toClient[1] /\ 1 \in DOMAIN toClient
  BY <1>2, QueueShifts DEF ClipInv, ClipQueue
<1>4. toClient[1].cmd \in {"caps", "ready"}
  BY <1>3 DEF Clip!HandleCaps, Clip!HandleMonitorReady, Clip!Receive
<1>5. /\ serverCaps' = srvLong \/ (serverCaps' = serverCaps /\ toClient[1].cmd # "caps")
      /\ serverCaps' \in BOOLEAN
      /\ \/ UNCHANGED <<useLongFormatNames, ready, loop>>
         \/ loop' = <<"caps", "list">> /\ ready' = TRUE /\ useLongFormatNames' = srvLong
  <2>1. CASE Clip!HandleCaps
    <3>1. serverCaps' = toClient[1].long /\ toClient[1].cmd = "caps"
          /\ UNCHANGED <<useLongFormatNames, ready, loop>>
      BY <1>3, <2>1 DEF Clip!HandleCaps, Clip!Receive, Clip!m
    <3>2. toClient[1].long = srvLong
      BY <1>3, <3>1 DEF ClipInv, ClipQueue, ClipPdu
    <3> QED BY <1>1, <3>1, <3>2 DEF ClipTypes
  <2>2. CASE Clip!HandleMonitorReady
    <3>1. /\ toClient[1].cmd = "ready" /\ UNCHANGED serverCaps /\ ready' = TRUE
          /\ loop' = <<"caps", "list">>
      BY <1>3, <2>2 DEF Clip!HandleMonitorReady, Clip!Receive, Clip!HandshakeSends
    <3>2. useLongFormatNames' = (useLongFormatNames \/ serverCaps)
      BY <2>2, Zenon DEF Clip!HandleMonitorReady
    <3>3. \A j \in DOMAIN toClient : ~(j < 1)
      <4>1. \A j \in DOMAIN toClient : j \in Nat \ {0}
        BY <1>2, QueueShifts DEF ClipInv, ClipQueue
      <4> QED BY <4>1
    <3>4. serverCaps = srvLong
      BY <1>3, <3>1, <3>3 DEF ClipInv, CapsFirst
    <3>5. useLongFormatNames' = srvLong
      <4>1. useLongFormatNames => srvLong
        BY DEF ClipInv, Handshake
      <4>2. CASE srvLong = TRUE
        <5>1. (useLongFormatNames \/ serverCaps) = TRUE
          BY <3>4, <4>2
        <5> QED BY <3>2, <4>2, <5>1, Zenon
      <4>3. CASE srvLong = FALSE
        <5>1. (useLongFormatNames \/ serverCaps) = FALSE
          BY <3>4, <4>1, <4>3
        <5> QED BY <3>2, <4>3, <5>1, Zenon
      <4> QED BY <1>1, <4>2, <4>3 DEF ClipTypes
    <3> QED BY <1>1, <3>1, <3>5 DEF ClipTypes
  <2> QED BY <2>1, <2>2
<1>6. ClipQueue' /\ CapsFirst' /\ AskedOld' /\ AskedUnderWay'
  BY <1>2, <1>4, <1>5, ClipRead
<1>7. OneUnderWay' /\ Clip!MisreadOnlyCrossed'
  BY <1>2, <1>4, NoAnswerRead
<1>8. NothingNewer' /\ Clip!PasteIsCurrent'
  BY <1>2 DEF ClipInv, NothingNewer, Clip!PasteIsCurrent
<1>9. CASE UNCHANGED <<useLongFormatNames, ready, loop>>
  <2>1. ClipTypes' /\ Handshake'
    BY <1>2, <1>5, <1>9 DEF ClipInv, ClipTypes, Handshake
  <2> QED BY <1>6, <1>7, <1>8, <2>1 DEF ClipInv
<1>10. CASE loop' = <<"caps", "list">> /\ ready' = TRUE /\ useLongFormatNames' = srvLong
  <2>1. ready' /\ ready' \in BOOLEAN /\ loop' # <<>> /\ loop' # <<"list">>
    BY <1>10
  <2>2. ClipTypes'
    BY <1>2, <1>5, <1>10, <2>1 DEF ClipInv, ClipTypes
  <2>3. Handshake'
    BY <1>1, <1>2, <1>10, <2>1 DEF ClipInv, ClipTypes, Handshake
  <2> QED BY <1>6, <1>7, <1>8, <2>2, <2>3 DEF ClipInv
<1> QED BY <1>5, <1>9, <1>10

\* A list in the form that both have can be read.
LEMMA ListRead ==
    ASSUME ClipTypes, NEW l, Clip!ListArrives(l)
    PROVE  /\ srvList'.n = srvList.n + 1 /\ srvList'.text = l.text /\ srvList'.image = l.image
           /\ capsSeen /\ l.long = srvLong => srvList'.readable
<1>1. /\ srvList'.n = srvList.n + 1 /\ srvList'.text = l.text /\ srvList'.image = l.image
  BY DEF Clip!ListArrives
<1>2. ASSUME capsSeen, l.long = srvLong PROVE srvList'.readable
  <2>1. srvList'.readable <=> l.long = (srvLong /\ capsSeen)
    BY Zenon DEF Clip!ListArrives
  <2>2. srvLong = (srvLong /\ capsSeen)
    BY <1>2 DEF ClipTypes
  <2> QED BY <1>2, <2>1, <2>2
<1> QED BY <1>1, <1>2

\* What neither the requests nor the queue are touched by.
LEMMA ClipQueueStays ==
    ASSUME ClipInv, UNCHANGED <<srvLong, capsSent, srvAsked, answer, toClient, serverCaps,
                                pendingFormat, delivered, outstanding, crossing>>
    PROVE  /\ ClipQueue' /\ CapsFirst' /\ AskedUnderWay' /\ OneUnderWay'
           /\ Clip!PasteIsCurrent' /\ Clip!MisreadOnlyCrossed'
BY DEF ClipInv, ClipQueue, ClipPdu, IsSeq, CapsFirst, AskedUnderWay, OneUnderWay,
       Clip!PasteIsCurrent, Clip!MisreadOnlyCrossed

\* The rest of the handshake: the client's capabilities, then its list.
LEMMA ClipAnswersReady ==
    ASSUME ClipInv, Clip!SendCaps \/ Clip!SendFormatList
    PROVE  ClipInv'
<1>1. ClipTypes
  BY DEF ClipInv
<1>2. /\ loop # <<>> /\ loop' = Tail(loop)
      /\ UNCHANGED <<srvLong, capsSent, srvAsked, answer, toClient, serverCaps, useLongFormatNames,
                     ready, enabled, localText, localImage, pendingFormat, viewer, copies, delivered,
                     outstanding, crossing, early>>
  BY DEF Clip!SendCaps, Clip!SendFormatList, Clip!fields, Clip!bounds, Clip!history
<1>3. /\ ClipQueue' /\ CapsFirst' /\ AskedUnderWay' /\ OneUnderWay'
      /\ Clip!PasteIsCurrent' /\ Clip!MisreadOnlyCrossed'
  BY <1>2, ClipQueueStays
<1>4. AskedOld'
  BY <1>2 DEF ClipInv, AskedOld
<1>5. ready
  BY <1>2 DEF ClipInv, Handshake
<1>6. CASE Clip!SendCaps
  <2>1. loop = <<"caps", "list">> /\ loop' = <<"list">> /\ capsSeen' = TRUE /\ UNCHANGED srvList
    <3>1. Head(loop) = "caps" /\ capsSeen' = TRUE /\ UNCHANGED srvList
      BY <1>6 DEF Clip!SendCaps
    <3>2. loop # <<"list">>
      BY <3>1
    <3>3. loop = <<"caps", "list">>
      BY <1>1, <1>2, <3>2 DEF ClipTypes
    <3>4. loop' = <<"list">>
      BY <1>2, <3>3
    <3> QED BY <3>1, <3>3, <3>4
  <2>2. loop' # <<>> /\ capsSeen' /\ capsSeen' \in BOOLEAN
    BY <2>1
  <2>3. ClipTypes' /\ Handshake' /\ NothingNewer'
    BY <1>2, <1>5, <2>1, <2>2 DEF ClipInv, ClipTypes, Handshake, NothingNewer
  <2> QED BY <1>3, <1>4, <2>3 DEF ClipInv
<1>7. CASE Clip!SendFormatList
  <2>1. loop = <<"list">> /\ loop' = <<>> /\ UNCHANGED capsSeen
    <3>1. Head(loop) = "list" /\ UNCHANGED capsSeen
      BY <1>7 DEF Clip!SendFormatList
    <3>2. loop # <<"caps", "list">>
      BY <3>1
    <3>3. loop = <<"list">>
      BY <1>1, <1>2, <3>2 DEF ClipTypes
    <3>4. loop' = <<>>
      BY <1>2, <3>3
    <3> QED BY <3>1, <3>3, <3>4
  <2>2. capsSeen /\ useLongFormatNames = srvLong
    BY <1>5, <2>1 DEF ClipInv, Handshake
  <2>3. /\ srvList'.n = srvList.n + 1 /\ srvList'.text = localText /\ srvList'.image = localImage
        /\ srvList'.readable
    <3> DEFINE l == Clip!FormatList(useLongFormatNames)
    <3>1. l.text = localText /\ l.image = localImage /\ l.long = useLongFormatNames
      BY DEF Clip!FormatList
    <3>2. Clip!ListArrives(l)
      BY <1>7 DEF Clip!SendFormatList
    <3> HIDE DEF l
    <3> QED BY <1>1, <2>2, <3>1, <3>2, ListRead
  <2>4. srvList'.n \in Nat /\ srvList'.n > 0
    BY <1>1, <2>3 DEF ClipTypes
  <2>5. ClipTypes' /\ NothingNewer'
    BY <1>1, <1>2, <2>1, <2>3, <2>4 DEF ClipInv, ClipTypes, NothingNewer
  <2>6. Handshake'
    BY <1>1, <1>2, <1>5, <2>1, <2>2, <2>3, <2>4 DEF ClipInv, ClipTypes, Handshake
  <2> QED BY <1>3, <1>4, <2>5, <2>6 DEF ClipInv
<1> QED BY <1>6, <1>7

\* What the viewer does.
LEMMA ClipViewerSteps ==
    ASSUME ClipInv, \/ \E f \in Clip!Formats : Clip!SetLocal(f)
                    \/ Clip!SetEnabled \/ Clip!Reannounce \/ Clip!ViewerSends
    PROVE  ClipInv'
<1>1. ClipTypes
  BY DEF ClipInv
<1>2. UNCHANGED <<srvLong, capsSent, capsSeen, srvAsked, answer, toClient, serverCaps,
                  useLongFormatNames, ready, pendingFormat, loop, delivered, outstanding, crossing>>
  BY DEF Clip!SetLocal, Clip!SetEnabled, Clip!Reannounce, Clip!ViewerSends, Clip!serverVars,
         Clip!fields, Clip!bounds, Clip!history
<1>3. /\ ClipQueue' /\ CapsFirst' /\ AskedUnderWay' /\ OneUnderWay'
      /\ Clip!PasteIsCurrent' /\ Clip!MisreadOnlyCrossed'
  BY <1>2, ClipQueueStays
<1>4. ASSUME NEW f \in Clip!Formats, Clip!SetLocal(f) PROVE ClipInv'
  <2> DEFINE l == [Clip!FormatList(useLongFormatNames) EXCEPT ![f] = copies']
  <2>1. /\ copies' = copies + 1 /\ UNCHANGED <<srvList, enabled>>
        /\ localText' = IF f = "text" THEN copies' ELSE localText
        /\ localImage' = IF f = "image" THEN copies' ELSE localImage
        /\ viewer' = [at |-> "send", list |-> l, format |-> f]
    BY <1>4 DEF Clip!SetLocal, Clip!Set, Clip!serverVars
  <2>2. l.text = localText' /\ l.image = localImage' /\ l.long = useLongFormatNames
    BY <2>1 DEF Clip!FormatList, Clip!Formats
  <2> HIDE DEF l
  <2>3. viewer'.at = "send" /\ viewer'.list = l
    BY <2>1
  <2>4. copies' \in Nat /\ localText' \in Nat /\ localImage' \in Nat
        /\ localText <= localText' /\ localImage <= localImage'
        /\ localText' <= copies' /\ localImage' <= copies'
    <3>1. copies \in Nat /\ localText \in Nat /\ localImage \in Nat
          /\ localText <= copies /\ localImage <= copies
      BY DEF ClipTypes, ClipInv, NothingNewer
    <3>2. copies' \in Nat /\ copies' = copies + 1
      BY <2>1, <3>1
    <3>3. localText' = localText \/ localText' = copies'
      BY <2>1
    <3>4. localImage' = localImage \/ localImage' = copies'
      BY <2>1
    <3> QED BY <3>1, <3>2, <3>3, <3>4
  <2>5. early' = (early \/ ~ready \/ loop # <<>>)
    BY <1>4, Zenon DEF Clip!SetLocal
  <2>6. early' \in BOOLEAN /\ (~early' => ~early /\ ready /\ loop = <<>>)
    <3>1. CASE early \/ ~ready \/ loop # <<>>
      <4>1. early' = TRUE
        BY <2>5, <3>1, Zenon
      <4> QED BY <4>1
    <3>2. CASE ~(early \/ ~ready \/ loop # <<>>)
      <4>1. early' = FALSE
        BY <2>5, <3>2, Zenon
      <4> QED BY <3>2, <4>1
    <3> QED BY <3>1, <3>2
  <2>7. ClipTypes'
    BY <1>1, <1>2, <2>1, <2>4, <2>6 DEF ClipTypes
  <2>8. NothingNewer'
    <3>1. /\ srvList'.text \in Nat /\ srvList'.text <= localText
          /\ srvList'.image \in Nat /\ srvList'.image <= localImage
      BY <1>1, <2>1 DEF ClipTypes, ClipInv, NothingNewer
    <3>2. localText \in Nat /\ localImage \in Nat
      BY <1>1 DEF ClipTypes
    <3>3. srvList'.text <= localText' /\ srvList'.image <= localImage'
      BY <2>4, <3>1, <3>2
    <3>4. viewer'.list.text = localText' /\ viewer'.list.image = localImage'
      BY <2>2, <2>3
    <3> QED BY <2>4, <3>3, <3>4 DEF NothingNewer
  <2>9. Handshake'
    BY <1>2, <2>1, <2>2, <2>3, <2>6 DEF ClipInv, Handshake
  <2>10. AskedOld'
    <3> SUFFICES ASSUME NEW i \in DOMAIN toClient, toClient[i].cmd = "request"
                 PROVE  toClient[i].least
                           <= (IF toClient[i].format = "text" THEN localText' ELSE localImage')
      BY <1>2 DEF AskedOld
    <3>1. toClient[i].least \in Nat
      BY DEF ClipInv, ClipQueue, ClipPdu
    <3> QED BY <1>1, <2>4, <3>1 DEF ClipInv, AskedOld, ClipTypes
  <2> QED BY <1>3, <2>7, <2>8, <2>9, <2>10 DEF ClipInv
<1>5. CASE Clip!SetEnabled
  <2>1. /\ enabled' = ~enabled /\ UNCHANGED <<srvList, localText, localImage, copies, early>>
        /\ viewer.at = "idle" /\ viewer' = IF enabled' THEN [at |-> "reannounce"] ELSE viewer
    BY <1>5 DEF Clip!SetEnabled, Clip!serverVars, Clip!history
  <2>2. enabled' \in BOOLEAN /\ viewer'.at # "send"
    <3>1. CASE enabled'
      BY <2>1, <3>1
    <3>2. CASE ~enabled'
      BY <2>1, <3>2
    <3> QED BY <1>1, <2>1, <3>1, <3>2 DEF ClipTypes
  <2>3. ClipTypes' /\ Handshake' /\ NothingNewer' /\ AskedOld'
    BY <1>2, <2>1, <2>2 DEF ClipInv, ClipTypes, Handshake, NothingNewer, AskedOld
  <2> QED BY <1>3, <2>3 DEF ClipInv
<1>6. CASE Clip!Reannounce
  <2> DEFINE l == Clip!FormatList(useLongFormatNames)
  <2>1. /\ UNCHANGED <<srvList, enabled, localText, localImage, copies>>
        /\ viewer' = IF ready THEN [at |-> "send", list |-> l, format |-> "none"]
                     ELSE [at |-> "idle"]
    BY <1>6 DEF Clip!Reannounce, Clip!serverVars, Clip!fields, Clip!bounds, Clip!None
  <2>2. l.text = localText /\ l.image = localImage /\ l.long = useLongFormatNames
    BY DEF Clip!FormatList
  <2> HIDE DEF l
  <2>3. early' = (early \/ (ready /\ loop # <<>>))
    BY <1>6, Zenon DEF Clip!Reannounce
  <2>4. early' \in BOOLEAN /\ (~early' => ~early /\ (ready => loop = <<>>))
    <3>1. CASE early \/ (ready /\ loop # <<>>)
      <4>1. early' = TRUE
        BY <2>3, <3>1, Zenon
      <4> QED BY <4>1
    <3>2. CASE ~(early \/ (ready /\ loop # <<>>))
      <4>1. early' = FALSE
        BY <2>3, <3>2, Zenon
      <4> QED BY <3>2, <4>1
    <3> QED BY <3>1, <3>2
  <2>5. viewer'.at = "send" => ready /\ viewer'.list = l
    BY <2>1
  <2>6. ClipTypes' /\ NothingNewer' /\ AskedOld'
    BY <1>1, <1>2, <2>1, <2>2, <2>4, <2>5 DEF ClipInv, ClipTypes, NothingNewer, AskedOld
  <2>7. Handshake'
    BY <1>2, <2>1, <2>2, <2>4, <2>5 DEF ClipInv, Handshake
  <2> QED BY <1>3, <2>6, <2>7 DEF ClipInv
<1>7. CASE Clip!ViewerSends
  <2>1. /\ viewer.at = "send" /\ viewer'.at = "idle" /\ Clip!ListArrives(viewer.list)
        /\ UNCHANGED <<enabled, localText, localImage, copies, early>>
    BY <1>7 DEF Clip!ViewerSends, Clip!fields, Clip!bounds, Clip!history
  <2>2. /\ srvList'.n = srvList.n + 1
        /\ srvList'.text = viewer.list.text /\ srvList'.image = viewer.list.image
        /\ capsSeen /\ viewer.list.long = srvLong => srvList'.readable
    BY <1>1, <2>1, ListRead
  <2>3. /\ srvList'.n \in Nat /\ srvList'.n > 0
        /\ srvList'.text \in Nat /\ srvList'.text <= localText
        /\ srvList'.image \in Nat /\ srvList'.image <= localImage
    BY <1>1, <2>1, <2>2 DEF ClipInv, ClipTypes, NothingNewer
  <2>4. ClipTypes' /\ NothingNewer' /\ AskedOld'
    BY <1>1, <1>2, <2>1, <2>3 DEF ClipInv, ClipTypes, NothingNewer, AskedOld
  <2>5. Handshake'
    BY <1>2, <2>1, <2>2, <2>3 DEF ClipInv, Handshake
  <2> QED BY <1>3, <2>4, <2>5 DEF ClipInv
<1> QED BY <1>4, <1>5, <1>6, <1>7

\* FiniteSets as Clipboard has it.
LEMMA ClipCardinality == \A S : Clip!Cardinality(S) = Cardinality(S)
BY DEF Clip!Cardinality, Cardinality

\* What the count of requests under way tells.
LEMMA FewUnderWay ==
    ASSUME ClipInv
    PROVE  /\ Clip!UnderWay \in Nat /\ Len(outstanding) \in Nat
           /\ Clip!UnderWay = 0 =>
                 outstanding = <<>> /\ \A i \in DOMAIN toClient : toClient[i].cmd # "response"
           /\ Clip!UnderWay <= 1 => \A i \in DOMAIN toClient : toClient[i].cmd = "response" =>
                 /\ outstanding = <<>>
                 /\ \A j \in DOMAIN toClient : toClient[j].cmd = "response" => i = j
<1> DEFINE R == {i \in DOMAIN toClient : toClient[i].cmd = "response"}
           c == Cardinality(R)
           o == Len(outstanding)
<1>1. IsFiniteSet(R)
  <2>1. IsFiniteSet(DOMAIN toClient)
    <3>1. Len(toClient) \in Nat /\ DOMAIN toClient = 1..Len(toClient)
      BY QueueAppends DEF ClipInv, ClipQueue
    <3> QED BY <3>1, FS_Interval
  <2> QED BY <2>1, FS_Subset
<1>2. c \in Nat /\ (c = 0 => R = {}) /\ (c = 1 => \E x : R = {x})
  BY <1>1, FS_CardinalityType, FS_EmptySet, FS_Singleton
<1>3. o \in Nat /\ (o = 0 => outstanding = <<>>)
  BY DEF ClipInv, ClipTypes
<1>4. Clip!UnderWay = o + c
  BY ClipCardinality DEF Clip!UnderWay
<1>5. \A i \in DOMAIN toClient : toClient[i].cmd = "response" <=> i \in R
  OBVIOUS
<1> HIDE DEF R, c, o
<1>6. o + c = 0 => o = 0 /\ c = 0
  BY <1>2, <1>3
<1>7. ASSUME o + c <= 1, NEW i \in R PROVE outstanding = <<>> /\ \A j \in R : i = j
  <2>1. c # 0
    BY <1>2, <1>7
  <2>2. o = 0 /\ c = 1
    BY <1>2, <1>3, <1>7, <2>1
  <2> QED BY <1>2, <1>3, <1>7, <2>2
<1> QED BY <1>2, <1>3, <1>4, <1>5, <1>6, <1>7 DEF o

\* Of a list with something in it something is wanted.
LEMMA WantedFormats ==
    ASSUME NEW fs \in (SUBSET Clip!Formats) \ {{}}
    PROVE  Clip!Wanted(fs) \in Seq(Clip!Formats) /\ Len(Clip!Wanted(fs)) \in Nat \ {0}
<1> DEFINE a == IF "text" \in fs THEN <<"text">> ELSE <<>>
           b == IF "image" \in fs THEN <<"image">> ELSE <<>>
<1>1. /\ a \in Seq(Clip!Formats) /\ (Len(a) = IF "text" \in fs THEN 1 ELSE 0)
  <2>1. CASE "text" \in fs
    <3>1. a = <<"text">>
      BY <2>1
    <3>2. <<"text">> \in Seq(Clip!Formats) /\ Len(<<"text">>) = 1
      BY DEF Clip!Formats
    <3> HIDE DEF a
    <3> QED BY <2>1, <3>1, <3>2
  <2>2. CASE "text" \notin fs
    <3>1. a = <<>>
      BY <2>2
    <3> HIDE DEF a
    <3> QED BY <2>2, <3>1
  <2> QED BY <2>1, <2>2
<1>2. /\ b \in Seq(Clip!Formats) /\ (Len(b) = IF "image" \in fs THEN 1 ELSE 0)
  <2>1. CASE "image" \in fs
    <3>1. b = <<"image">>
      BY <2>1
    <3>2. <<"image">> \in Seq(Clip!Formats) /\ Len(<<"image">>) = 1
      BY DEF Clip!Formats
    <3> HIDE DEF b
    <3> QED BY <2>1, <3>1, <3>2
  <2>2. CASE "image" \notin fs
    <3>1. b = <<>>
      BY <2>2
    <3> HIDE DEF b
    <3> QED BY <2>2, <3>1
  <2> QED BY <2>1, <2>2
<1>3. Clip!Wanted(fs) = a \o b
  BY Zenon DEF Clip!Wanted
<1> HIDE DEF a, b
<1>4. a \o b \in Seq(Clip!Formats) /\ Len(a \o b) = Len(a) + Len(b)
  BY <1>1, <1>2, ConcatProperties
<1>5. "text" \in fs \/ "image" \in fs
  BY DEF Clip!Formats
<1> QED BY <1>1, <1>2, <1>3, <1>4, <1>5

\* The server's list is read, and what the viewers want of it requested.
LEMMA ClipReadsList == ASSUME ClipInv, Clip!HandleFormatList PROVE ClipInv'
<1>1. ClipTypes
  BY DEF ClipInv
<1>2. /\ toClient # <<>> /\ toClient' = Tail(toClient) /\ Head(toClient).cmd = "list"
      /\ UNCHANGED <<srvLong, capsSent, capsSeen, srvList, srvAsked, answer, serverCaps,
                     useLongFormatNames, ready, enabled, localText, localImage, loop, viewer,
                     copies, delivered, early>>
  BY DEF Clip!HandleFormatList, Clip!Receive, Clip!serverVars, Clip!bounds
<1>3. /\ 1 \in DOMAIN toClient /\ toClient[1] = Head(toClient)
      /\ \A i \in DOMAIN toClient' : i + 1 \in DOMAIN toClient /\ toClient'[i] = toClient[i + 1]
  BY <1>2, QueueShifts DEF ClipInv, ClipQueue
<1>4. ClipQueue' /\ CapsFirst' /\ AskedOld' /\ AskedUnderWay'
  BY <1>2, <1>3, ClipRead
<1>5. Handshake' /\ NothingNewer' /\ Clip!PasteIsCurrent' /\ Clip!MisreadOnlyCrossed'
  BY <1>2 DEF ClipInv, Handshake, NothingNewer, Clip!PasteIsCurrent, Clip!MisreadOnlyCrossed
<1>6. CASE UNCHANGED <<outstanding, crossing, pendingFormat>>
  <2>1. OneUnderWay'
    BY <1>2, <1>3, <1>6, NoAnswerRead
  <2>2. ClipTypes'
    BY <1>1, <1>2, <1>6 DEF ClipTypes
  <2> QED BY <1>4, <1>5, <2>1, <2>2 DEF ClipInv
<1>7. CASE enabled
  <2> DEFINE w == Clip!Wanted(toClient[1].formats)
  <2>1. /\ outstanding' = outstanding \o w
        /\ crossing' = (crossing \/ Clip!UnderWay + Len(w) > 1)
        /\ pendingFormat' = w[Len(w)]
    BY <1>3, <1>7 DEF Clip!HandleFormatList, Clip!Requested, Clip!m
  <2>2. w \in Seq(Clip!Formats) /\ Len(w) \in Nat \ {0}
    <3>1. toClient[1].formats \in (SUBSET Clip!Formats) \ {{}}
      BY <1>2, <1>3 DEF ClipInv, ClipQueue, ClipPdu
    <3> QED BY <3>1, WantedFormats
  <2> HIDE DEF w
  <2>3. outstanding' \in Seq(Clip!Formats)
    BY <1>1, <2>1, <2>2 DEF ClipTypes
  <2>4. crossing' \in BOOLEAN /\ (~crossing' => ~(Clip!UnderWay + Len(w) > 1))
    <3>1. CASE crossing \/ Clip!UnderWay + Len(w) > 1
      <4>1. crossing' = TRUE
        BY <2>1, <3>1, Zenon
      <4> QED BY <4>1
    <3>2. CASE ~(crossing \/ Clip!UnderWay + Len(w) > 1)
      <4>1. crossing' = FALSE
        BY <2>1, <3>2, Zenon
      <4> QED BY <3>2, <4>1
    <3> QED BY <3>1, <3>2
  <2>5. ASSUME ~crossing'
        PROVE  /\ Len(outstanding') <= 1 /\ pendingFormat' = Head(outstanding')
               /\ \A i \in DOMAIN toClient : toClient[i].cmd # "response"
    <3>1. Clip!UnderWay = 0 /\ Len(w) = 1
      <4> DEFINE u == Clip!UnderWay
                 k == Len(w)
      <4>1. u \in Nat /\ k \in Nat \ {0}
        BY <2>2, FewUnderWay
      <4>2. ~(u + k > 1)
        BY <2>4, <2>5
      <4> HIDE DEF u, k
      <4>3. u = 0 /\ k = 1
        BY <4>1, <4>2
      <4> QED BY <4>3 DEF u, k
    <3>2. outstanding = <<>> /\ \A i \in DOMAIN toClient : toClient[i].cmd # "response"
      BY <3>1, FewUnderWay
    <3>3. outstanding' = w
      <4>1. <<>> \o w = w
        BY <2>2, ConcatEmptySeq
      <4> QED BY <2>1, <3>2, <4>1
    <3>4. w[Len(w)] = Head(w) /\ Len(w) <= 1
      BY <2>2, <3>1
    <3> QED BY <2>1, <3>2, <3>3, <3>4, Zenon
  <2>6. OneUnderWay'
    BY <1>3, <2>5 DEF OneUnderWay
  <2>7. ClipTypes'
    BY <1>1, <1>2, <2>3, <2>4 DEF ClipTypes
  <2> QED BY <1>4, <1>5, <2>6, <2>7 DEF ClipInv
<1> QED BY <1>6, <1>7 DEF Clip!HandleFormatList

\* A request of the server is answered.
LEMMA ClipAnswersRequest == ASSUME ClipInv, Clip!HandleDataRequest PROVE ClipInv'
<1>1. ClipTypes
  BY DEF ClipInv
<1>2. /\ toClient # <<>> /\ toClient' = Tail(toClient) /\ Head(toClient).cmd = "request"
      /\ srvAsked' = "none"
      /\ UNCHANGED <<srvLong, capsSent, capsSeen, srvList, serverCaps, useLongFormatNames, ready,
                     enabled, localText, localImage, pendingFormat, loop, viewer, copies, delivered,
                     outstanding, crossing, early>>
  BY DEF Clip!HandleDataRequest, Clip!Receive, Clip!fields, Clip!bounds, Clip!history, Clip!None
<1>3. 1 \in DOMAIN toClient /\ toClient[1] = Head(toClient)
  BY <1>2, QueueShifts DEF ClipInv, ClipQueue
<1>4. ClipQueue' /\ CapsFirst' /\ AskedOld' /\ AskedUnderWay'
  BY <1>2, <1>3, ClipRead
<1>5. OneUnderWay' /\ Clip!MisreadOnlyCrossed'
  BY <1>2, <1>3, NoAnswerRead
<1>6. ClipTypes' /\ Handshake' /\ NothingNewer'
  BY <1>2 DEF ClipInv, ClipTypes, Handshake, NothingNewer
<1>7. Clip!PasteIsCurrent'
  <2> DEFINE n == IF enabled THEN Clip!Local(toClient[1].format) ELSE 0
  <2>1. answer' = [on |-> enabled, n |-> n, least |-> toClient[1].least]
    BY <1>3 DEF Clip!HandleDataRequest, Clip!m
  <2>2. answer'.on <=> enabled
    BY <2>1, Zenon
  <2>3. answer'.n = n /\ answer'.least = toClient[1].least
    BY <2>1
  <2>4. ASSUME enabled PROVE n >= toClient[1].least
    <3>1. toClient[1].least \in Nat
      BY <1>2, <1>3 DEF ClipInv, ClipQueue, ClipPdu
    <3>2. toClient[1].least <= (IF toClient[1].format = "text" THEN localText ELSE localImage)
      BY <1>2, <1>3 DEF ClipInv, AskedOld
    <3> QED BY <1>1, <2>4, <3>1, <3>2 DEF Clip!Local, ClipTypes
  <2> HIDE DEF n
  <2> QED BY <2>2, <2>3, <2>4 DEF Clip!PasteIsCurrent
<1> QED BY <1>4, <1>5, <1>6, <1>7 DEF ClipInv

\* An answer is read as what is pending.
LEMMA ClipReadsAnswer == ASSUME ClipInv, Clip!HandleDataResponse PROVE ClipInv'
<1>1. ClipTypes
  BY DEF ClipInv
<1>2. /\ toClient # <<>> /\ toClient' = Tail(toClient) /\ Head(toClient).cmd = "response"
      /\ UNCHANGED <<srvLong, capsSent, capsSeen, srvList, srvAsked, answer, serverCaps,
                     useLongFormatNames, ready, enabled, localText, localImage, loop, viewer,
                     copies, outstanding, early>>
  BY DEF Clip!HandleDataResponse, Clip!Receive, Clip!serverVars, Clip!bounds
<1>3. /\ 1 \in DOMAIN toClient /\ toClient[1] = Head(toClient)
      /\ \A i \in DOMAIN toClient' :
            i + 1 \in DOMAIN toClient /\ i + 1 # 1 /\ toClient'[i] = toClient[i + 1]
  BY <1>2, QueueShifts DEF ClipInv, ClipQueue
<1>4. ClipQueue' /\ CapsFirst' /\ AskedOld' /\ AskedUnderWay'
  BY <1>2, <1>3, ClipRead
<1>5. Handshake' /\ NothingNewer' /\ Clip!PasteIsCurrent'
  BY <1>2 DEF ClipInv, Handshake, NothingNewer, Clip!PasteIsCurrent
<1>6. crossing' \in BOOLEAN /\ (~crossing' => ~crossing \/ ~(Clip!UnderWay > 1))
  <2>1. crossing' = (crossing /\ Clip!UnderWay > 1)
    BY Zenon DEF Clip!HandleDataResponse
  <2>2. CASE crossing /\ Clip!UnderWay > 1
    <3>1. crossing' = TRUE
      BY <2>1, <2>2, Zenon
    <3> QED BY <3>1
  <2>3. CASE ~(crossing /\ Clip!UnderWay > 1)
    <3>1. crossing' = FALSE
      BY <2>1, <2>3, Zenon
    <3> QED BY <2>3, <3>1
  <2> QED BY <2>2, <2>3
<1>7. ClipTypes'
  BY <1>1, <1>2, <1>6 DEF ClipTypes
<1>8. OneUnderWay'
  <2>1. ASSUME ~crossing'
        PROVE  outstanding = <<>> /\ \A i \in DOMAIN toClient : toClient[i].cmd = "response" => i = 1
    <3>1. CASE ~crossing
      BY <1>2, <1>3, <3>1 DEF ClipInv, OneUnderWay
    <3>2. CASE ~(Clip!UnderWay > 1)
      <4>1. Clip!UnderWay <= 1
        BY <3>2, FewUnderWay
      <4> QED BY <1>2, <1>3, <4>1, FewUnderWay
    <3> QED BY <1>6, <2>1, <3>1, <3>2
  <2>2. ~crossing' => \A i \in DOMAIN toClient' : toClient'[i].cmd # "response"
    BY <1>3, <2>1
  <2>3. ~crossing' => outstanding' = <<>> /\ Len(outstanding') = 0
    BY <1>2, <2>1
  <2> QED BY <2>2, <2>3 DEF OneUnderWay
<1>9. Clip!MisreadOnlyCrossed'
  <2>1. CASE delivered' = delivered
    BY <2>1 DEF ClipInv, Clip!MisreadOnlyCrossed
  <2>2. CASE delivered' # delivered
    <3>1. /\ Clip!ReadAs = "image" => toClient[1].format = "image"
          /\ delivered' = [as |-> Clip!ReadAs, format |-> toClient[1].format, crossed |-> crossing]
      BY <1>3, <2>2 DEF Clip!HandleDataResponse, Clip!m
    <3>2. delivered'.as = Clip!ReadAs /\ delivered'.format = toClient[1].format
      BY <3>1
    <3>3. delivered'.crossed <=> crossing
      BY <3>1, Zenon
    <3>4. toClient[1].format \in Clip!Formats
      BY <1>2, <1>3 DEF ClipInv, ClipQueue, ClipPdu
    <3>5. ~crossing => pendingFormat = toClient[1].format
      BY <1>2, <1>3 DEF ClipInv, OneUnderWay
    <3>6. ~crossing => delivered'.as = delivered'.format
      BY <3>2, <3>4, <3>5 DEF Clip!ReadAs, Clip!Formats
    <3> QED BY <3>3, <3>6 DEF Clip!MisreadOnlyCrossed
  <2> QED BY <2>1, <2>2
<1> QED BY <1>4, <1>5, <1>7, <1>8, <1>9 DEF ClipInv

\* Every step keeps it.
LEMMA ClipSteps == ClipInv /\ [Clip!Next]_clipboardVars => ClipInv'
<1> SUFFICES ASSUME ClipInv, [Clip!Next]_clipboardVars PROVE ClipInv'
  OBVIOUS
<1>1. CASE \/ Clip!ServerCaps \/ Clip!ServerReady \/ Clip!ServerCopies
           \/ Clip!ServerAnswers \/ Clip!ServerAsks
  BY <1>1, ClipServerSteps
<1>2. CASE Clip!HandleCaps \/ Clip!HandleMonitorReady
  BY <1>2, ClipHandshakes
<1>3. CASE Clip!SendCaps \/ Clip!SendFormatList
  BY <1>3, ClipAnswersReady
<1>4. CASE Clip!HandleFormatList
  BY <1>4, ClipReadsList
<1>5. CASE Clip!HandleDataRequest
  BY <1>5, ClipAnswersRequest
<1>6. CASE Clip!HandleDataResponse
  BY <1>6, ClipReadsAnswer
<1>7. CASE \/ \E f \in Clip!Formats : Clip!SetLocal(f)
           \/ Clip!SetEnabled \/ Clip!Reannounce \/ Clip!ViewerSends
  BY <1>7, ClipViewerSteps
<1>8. CASE UNCHANGED clipboardVars
  <2>1. /\ ClipQueue' /\ CapsFirst' /\ AskedUnderWay' /\ OneUnderWay'
        /\ Clip!PasteIsCurrent' /\ Clip!MisreadOnlyCrossed'
    BY <1>8, ClipQueueStays DEF clipboardVars
  <2>2. ClipTypes' /\ Handshake' /\ NothingNewer' /\ AskedOld'
    BY <1>8 DEF ClipInv, ClipTypes, Handshake, NothingNewer, AskedOld, clipboardVars
  <2> QED BY <2>1, <2>2 DEF ClipInv
<1> QED BY <1>1, <1>2, <1>3, <1>4, <1>5, <1>6, <1>7, <1>8 DEF Clip!Next

\* Both ends of the clipboard mean the same, whatever the viewer copies and switches
\* meanwhile: lists are in the form that the server reads, a paste is no older than the
\* list it is for, requests are answered, and an answer is read as another format only
\* when two requests crossed.
THEOREM ClipboardAlwaysFaithful == MCSpec => []ClipboardFaithful
<1>1. MCInit => ClipInv
  BY ClipStarts DEF MCInit
<1>2. ClipInv /\ [MCNext]_mcVars => ClipInv'
  <2> SUFFICES ASSUME ClipInv, [MCNext]_mcVars PROVE ClipInv'
    OBVIOUS
  <2>1. Clip!Next \/ UNCHANGED clipboardVars
    BY DEF MCNext, mcVars
  <2> QED BY <2>1, ClipSteps
<1>3. ClipInv => ClipboardFaithful
  <2> SUFFICES ASSUME ClipInv PROVE ClipboardFaithful
    OBVIOUS
  <2>1. Clip!ListsReadable
    BY DEF ClipInv, Handshake, Clip!ListsReadable, Clip!Quiet
  <2>2. Clip!AskedIsAnswered
    <3>1. toClient = <<>> => DOMAIN toClient = {}
      OBVIOUS
    <3> QED BY <3>1 DEF ClipInv, AskedUnderWay, Clip!AskedIsAnswered, Clip!Quiet, Clip!None
  <2> QED BY <2>1, <2>2 DEF ClipInv, ClipboardFaithful, Clip!ClipboardFaithful
<1> QED BY <1>1, <1>2, <1>3, PTL DEF MCSpec

(***************************************************************************)
(* The graphics pipeline: its acknowledgements.                            *)
(***************************************************************************)

\* The server tells acknowledgements by their place in the order: a frame's, its quality's.
Rank(a) == 2 * a.n + (IF a.kind = "qoe" THEN 1 ELSE 0)
Ranked(q, top) ==
    IsSeq(q) /\ \A i \in DOMAIN q : /\ q[i].kind \in {"frame", "qoe"} /\ q[i].n \in Nat
                                    /\ Rank(q[i]) <= top
Increasing(q) == \A i, j \in DOMAIN q : i < j => Rank(q[i]) < Rank(q[j])
Before(p, q) == \A i \in DOMAIN p, j \in DOMAIN q : Rank(p[i]) < Rank(q[j])

\* The last place that can have been acknowledged.
Top == IF inFrame THEN 2 * curFrameID - 1
       ELSE IF ending # "none" THEN 2 * curFrameID ELSE 2 * curFrameID + 1

FrameTypes ==
    /\ inFrame \in BOOLEAN /\ overflowed \in BOOLEAN /\ curFrameID \in Nat /\ framesDecoded \in Nat
    /\ ending \in {"none", "flush", "qoe"} /\ (inFrame => ending = "none")

\* Sent, held and queued follow one another, unless one went around.
AckInv ==
    /\ Ranked(acked, Top) /\ Ranked(ackHand, Top) /\ Ranked(ackCh, Top)
    /\ ackHand = <<>> \/ \E a : ackHand = <<a>>
    /\ ~overflowed =>
          /\ Increasing(acked) /\ Increasing(ackCh)
          /\ Before(acked, ackHand) /\ Before(acked, ackCh) /\ Before(ackHand, ackCh)
    /\ Gfx!AckedOnce

\* FiniteSets as GraphicsPipeline has it.
LEMMA GfxCardinality == \A S : Gfx!Cardinality(S) = Cardinality(S)
BY DEF Gfx!Cardinality, Cardinality

\* A higher top is one too, and places are integers.
LEMMA RanksStay ==
    ASSUME NEW q, NEW t \in Int, NEW u \in Int, t <= u, Ranked(q, t)
    PROVE  Ranked(q, u) /\ \A i \in DOMAIN q : Rank(q[i]) \in Nat
<1>1. \A i \in DOMAIN q : Rank(q[i]) \in Nat
  BY DEF Ranked, Rank
<1>2. \A k \in Nat : k <= t => k <= u
  OBVIOUS
<1> QED BY <1>1, <1>2 DEF Ranked

\* What is appended comes last, if it is not below the others.
LEMMA RankAppends ==
    ASSUME NEW q, NEW t \in Int, Ranked(q, t), NEW a, a.kind \in {"frame", "qoe"}, a.n \in Nat,
           NEW u \in Int, t <= u, Rank(a) <= u
    PROVE  /\ Ranked(Append(q, a), u)
           /\ t < Rank(a) /\ Increasing(q) => Increasing(Append(q, a))
           /\ t < Rank(a) => \A p : Ranked(p, t) /\ Before(p, q) => Before(p, Append(q, a))
           /\ \A p : Before(q, p) /\ (\A j \in DOMAIN p : Rank(a) < Rank(p[j]))
                        => Before(Append(q, a), p)
           /\ Increasing(q) /\ (\A i \in DOMAIN q : Rank(q[i]) < Rank(a)) => Increasing(Append(q, a))
<1> DEFINE r == Append(q, a)
           L == Len(q)
<1>1. /\ IsSeq(r) /\ L \in Nat /\ DOMAIN q = 1..L /\ DOMAIN r = 1..(L + 1)
      /\ (\A i \in 1..L : r[i] = q[i]) /\ r[L + 1] = a
  BY QueueAppends DEF Ranked
<1>2. (\A i \in 1..L : Rank(q[i]) \in Nat /\ Rank(q[i]) <= t) /\ Rank(a) \in Nat
  <2>1. /\ \A i \in 1..L : q[i].kind \in {"frame", "qoe"} /\ q[i].n \in Nat /\ Rank(q[i]) <= t
        /\ a.n \in Nat
    BY <1>1 DEF Ranked
  <2>2. \A e : e.n \in Nat => Rank(e) \in Nat
    BY DEF Rank
  <2> QED BY <2>1, <2>2
<1> HIDE DEF r, L
<1>3. Ranked(r, u)
  <2>1. ASSUME NEW i \in DOMAIN r
        PROVE  r[i].kind \in {"frame", "qoe"} /\ r[i].n \in Nat /\ Rank(r[i]) <= u
    <3>1. CASE i \in 1..L
      <4>1. q[i].kind \in {"frame", "qoe"} /\ q[i].n \in Nat
        BY <1>1, <3>1 DEF Ranked
      <4>2. Rank(q[i]) <= u
        BY <1>2, <3>1
      <4> QED BY <1>1, <3>1, <4>1, <4>2
    <3>2. CASE i = L + 1
      BY <1>1, <3>2
    <3> QED BY <1>1, <3>1, <3>2
  <2> QED BY <1>1, <2>1 DEF Ranked
<1>4. ASSUME Increasing(q), \A i \in 1..L : Rank(q[i]) < Rank(a) PROVE Increasing(r)
  <2>1. ASSUME NEW i \in DOMAIN r, NEW j \in DOMAIN r, i < j PROVE Rank(r[i]) < Rank(r[j])
    <3>1. i \in 1..L
      BY <1>1, <2>1
    <3>2. CASE j \in 1..L
      BY <1>1, <1>4, <2>1, <3>1, <3>2 DEF Increasing
    <3>3. CASE j = L + 1
      BY <1>1, <1>4, <3>1, <3>3
    <3> QED BY <1>1, <3>2, <3>3
  <2> QED BY <2>1 DEF Increasing
<1>5. t < Rank(a) => \A i \in 1..L : Rank(q[i]) < Rank(a)
  BY <1>2
<1>6. ASSUME t < Rank(a), NEW p, Ranked(p, t), Before(p, q) PROVE Before(p, r)
  <2>1. ASSUME NEW i \in DOMAIN p, NEW j \in DOMAIN r PROVE Rank(p[i]) < Rank(r[j])
    <3>1. CASE j \in 1..L
      BY <1>1, <1>6, <3>1 DEF Before
    <3>2. CASE j = L + 1
      <4>1. Rank(p[i]) \in Nat /\ Rank(p[i]) <= t
        BY <1>6 DEF Ranked, Rank
      <4> QED BY <1>1, <1>2, <1>6, <3>2, <4>1
    <3> QED BY <1>1, <3>1, <3>2
  <2> QED BY <2>1 DEF Before
<1>7. ASSUME NEW p, Before(q, p), \A j \in DOMAIN p : Rank(a) < Rank(p[j]) PROVE Before(r, p)
  <2>1. ASSUME NEW i \in DOMAIN r, NEW j \in DOMAIN p PROVE Rank(r[i]) < Rank(p[j])
    <3>1. CASE i \in 1..L
      BY <1>1, <1>7, <3>1 DEF Before
    <3>2. CASE i = L + 1
      BY <1>1, <1>7, <3>2
    <3> QED BY <1>1, <3>1, <3>2
  <2> QED BY <2>1 DEF Before
<1> QED BY <1>1, <1>3, <1>4, <1>5, <1>6, <1>7 DEF r

\* Acknowledgements of frames can be counted.
LEMMA CountFinite ==
    ASSUME NEW q, IsSeq(q)
    PROVE  IsFiniteSet(Gfx!FrameAcks(q)) /\ Cardinality(Gfx!FrameAcks(q)) \in Nat
<1>1. Len(q) \in Nat /\ DOMAIN q = 1..Len(q)
  BY QueueAppends
<1>2. Gfx!FrameAcks(q) \subseteq 1..Len(q)
  BY <1>1 DEF Gfx!FrameAcks
<1>3. IsFiniteSet(1..Len(q))
  BY <1>1, FS_Interval
<1> QED BY <1>2, <1>3, FS_Subset, FS_CardinalityType

\* What has been appended, for the counts.
Counted(a) == IF a.kind = "frame" THEN 1 ELSE 0
LEMMA CountAppends ==
    ASSUME NEW q, IsSeq(q), NEW a
    PROVE  /\ Cardinality(Gfx!FrameAcks(q)) \in Nat /\ IsFiniteSet(Gfx!FrameIDs(q))
           /\ Cardinality(Gfx!FrameAcks(Append(q, a))) = Cardinality(Gfx!FrameAcks(q)) + Counted(a)
           /\ Gfx!FrameIDs(Append(q, a))
                 = Gfx!FrameIDs(q) \cup (IF a.kind = "frame" THEN {a.n} ELSE {})
<1> DEFINE r == Append(q, a)
           L == Len(q)
           Q == Gfx!FrameAcks(q)
           R == Gfx!FrameAcks(r)
<1>1. /\ IsSeq(r) /\ L \in Nat /\ DOMAIN q = 1..L /\ DOMAIN r = 1..(L + 1)
      /\ (\A i \in 1..L : r[i] = q[i]) /\ r[L + 1] = a
  BY QueueAppends
<1> HIDE DEF r, L
<1>2. Q \subseteq 1..L /\ IsFiniteSet(Q) /\ Cardinality(Q) \in Nat
  <2>1. Q \subseteq 1..L
    BY <1>1 DEF Gfx!FrameAcks
  <2> QED BY <2>1, CountFinite
<1>3. IsFiniteSet(Gfx!FrameIDs(q))
  <2>1. Gfx!FrameIDs(q) = {q[i].n : i \in Q}
    BY DEF Gfx!FrameIDs
  <2> HIDE DEF Q
  <2> DEFINE T == {q[i].n : i \in Q}
             f == [i \in Q |-> q[i].n]
  <2>2. f \in Surjection(Q, T)
    BY DEF Surjection
  <2> HIDE DEF f, T
  <2>3. IsFiniteSet(T)
    BY <1>2, <2>2, FS_Surjection
  <2> QED BY <2>1, <2>3 DEF T
<1>4. CASE a.kind = "frame"
  <2>1. R = Q \cup {L + 1}
    BY <1>1, <1>4 DEF Gfx!FrameAcks
  <2>2. L + 1 \notin Q
    BY <1>1, <1>2
  <2>3. Cardinality(R) = Cardinality(Q) + 1
    BY <1>2, <2>1, <2>2, FS_AddElement
  <2>4. Gfx!FrameIDs(r) = Gfx!FrameIDs(q) \cup {a.n}
    <3>1. \A i \in Q : r[i] = q[i]
      BY <1>1, <1>2
    <3> HIDE DEF Q, R
    <3>2. {r[i].n : i \in R} = {q[i].n : i \in Q} \cup {a.n}
      BY <1>1, <2>1, <3>1
    <3> QED BY <3>2 DEF Gfx!FrameIDs, Q, R
  <2> QED BY <1>2, <1>3, <1>4, <2>3, <2>4 DEF r, Counted
<1>5. CASE a.kind # "frame"
  <2>1. R = Q
    BY <1>1, <1>5 DEF Gfx!FrameAcks
  <2>2. Gfx!FrameIDs(r) = Gfx!FrameIDs(q)
    <3>1. \A i \in Q : r[i] = q[i]
      BY <1>1, <1>2
    <3> HIDE DEF Q, R
    <3>2. {r[i].n : i \in R} = {q[i].n : i \in Q}
      BY <2>1, <3>1
    <3> QED BY <3>2 DEF Gfx!FrameIDs, Q, R
  <2> QED BY <1>2, <1>3, <1>5, <2>1, <2>2 DEF r, Counted
<1> QED BY <1>4, <1>5

\* And what has been taken.
LEMMA CountShifts ==
    ASSUME NEW q, IsSeq(q), q # <<>>
    PROVE  /\ Cardinality(Gfx!FrameAcks(q)) = Cardinality(Gfx!FrameAcks(Tail(q))) + Counted(Head(q))
           /\ Gfx!FrameIDs(q)
                 = Gfx!FrameIDs(Tail(q)) \cup (IF Head(q).kind = "frame" THEN {Head(q).n} ELSE {})
<1> DEFINE g == Tail(q)
           h == Head(q)
           Q == Gfx!FrameAcks(q)
           P == Gfx!FrameAcks(g)
<1>1. /\ IsSeq(g) /\ 1 \in DOMAIN q /\ h = q[1]
      /\ \A i \in DOMAIN g : i \in Nat /\ i + 1 \in DOMAIN q /\ i + 1 # 1 /\ g[i] = q[i + 1]
      /\ \A k \in DOMAIN q : k \in Nat \ {0} /\ (k # 1 => k - 1 \in DOMAIN g /\ g[k - 1] = q[k])
  BY QueueShifts
<1> HIDE DEF g, h
<1>2. /\ \A i : i \in Q <=> i \in DOMAIN q /\ q[i].kind = "frame"
      /\ \A i : i \in P <=> i \in DOMAIN g /\ g[i].kind = "frame"
  BY DEF Gfx!FrameAcks
<1>3. IsFiniteSet(Q) /\ IsFiniteSet(P) /\ Cardinality(Q) \in Nat /\ Cardinality(P) \in Nat
  BY <1>1, CountFinite
<1> HIDE DEF Q, P
<1> DEFINE R == Q \ {1}
           b == [i \in P |-> i + 1]
<1>4. b \in Bijection(P, R)
  <2>1. \A i \in P : i + 1 \in R /\ i \in Nat
    BY <1>1, <1>2
  <2>2. \A j \in R : j - 1 \in P /\ (j - 1) + 1 = j
    BY <1>1, <1>2
  <2>3. b \in [P -> R]
    BY <2>1
  <2>4. \A i, j \in P : b[i] = b[j] => i = j
    BY <2>1
  <2>5. \A j \in R : \E i \in P : b[i] = j
    BY <2>2
  <2> HIDE DEF R, b
  <2> QED BY <2>3, <2>4, <2>5 DEF Bijection, Injection, Surjection, IsInjective
<1>5. Cardinality(R) = Cardinality(P)
  <2> HIDE DEF R, b
  <2> QED BY <1>3, <1>4, FS_Bijection DEF ExistsBijection
<1>6. Cardinality(R) = IF 1 \in Q THEN Cardinality(Q) - 1 ELSE Cardinality(Q)
  BY <1>3, FS_RemoveElement
<1>7. 1 \in Q <=> h.kind = "frame"
  BY <1>1, <1>2
<1>8. Cardinality(Q) = Cardinality(P) + Counted(h)
  BY <1>3, <1>5, <1>6, <1>7 DEF Counted
<1>9. /\ Gfx!FrameIDs(q) = {q[i].n : i \in Q}
      /\ Gfx!FrameIDs(g) = {g[i].n : i \in P}
  BY DEF Gfx!FrameIDs, Q, P
<1>10. \A x : x \in Gfx!FrameIDs(q) <=> x \in Gfx!FrameIDs(g) \/ (h.kind = "frame" /\ x = h.n)
  <2>1. ASSUME NEW i \in P PROVE g[i].n \in {q[k].n : k \in Q}
    <3>1. i + 1 \in Q /\ g[i] = q[i + 1]
      BY <1>1, <1>2
    <3> QED BY <3>1
  <2>2. ASSUME NEW k \in Q, k # 1 PROVE q[k].n \in {g[i].n : i \in P}
    <3>1. k - 1 \in P /\ g[k - 1] = q[k]
      BY <1>1, <1>2, <2>2
    <3> QED BY <3>1
  <2>3. h.kind = "frame" => h.n \in {q[k].n : k \in Q}
    BY <1>1, <1>7
  <2>4. 1 \in Q => h.kind = "frame" /\ q[1].n = h.n
    BY <1>1, <1>7
  <2> QED BY <1>9, <2>1, <2>2, <2>3, <2>4
<1>11. Gfx!FrameIDs(q) = Gfx!FrameIDs(g) \cup (IF h.kind = "frame" THEN {h.n} ELSE {})
  BY <1>10
<1> QED BY <1>8, <1>11 DEF Q, P, g, h

\* Nothing under way counts nothing; a single one for itself.
LEMMA CountOne ==
    /\ IsSeq(<<>>) /\ Cardinality(Gfx!FrameAcks(<<>>)) = 0 /\ Gfx!FrameIDs(<<>>) = {}
    /\ \A a : /\ IsSeq(<<a>>) /\ Cardinality(Gfx!FrameAcks(<<a>>)) = Counted(a)
              /\ Gfx!FrameIDs(<<a>>) = IF a.kind = "frame" THEN {a.n} ELSE {}
<1>1. IsSeq(<<>>)
  <2>1. <<>> \in Seq({})
    OBVIOUS
  <2> QED BY <2>1 DEF IsSeq
<1>2. Gfx!FrameAcks(<<>>) = {} /\ Gfx!FrameIDs(<<>>) = {}
  <2>1. Gfx!FrameAcks(<<>>) = {}
    BY DEF Gfx!FrameAcks
  <2> QED BY <2>1 DEF Gfx!FrameIDs
<1>3. Cardinality(Gfx!FrameAcks(<<>>)) = 0
  BY <1>2, FS_EmptySet
<1>4. ASSUME NEW a
      PROVE  /\ IsSeq(<<a>>) /\ Cardinality(Gfx!FrameAcks(<<a>>)) = Counted(a)
             /\ Gfx!FrameIDs(<<a>>) = IF a.kind = "frame" THEN {a.n} ELSE {}
  <2>1. Append(<<>>, a) = <<a>>
    OBVIOUS
  <2>2. IsSeq(<<a>>)
    <3>1. <<a>> \in Seq({a})
      OBVIOUS
    <3> QED BY <3>1 DEF IsSeq
  <2>3. Cardinality(Gfx!FrameAcks(<<a>>)) = 0 + Counted(a)
    BY <1>1, <1>3, <2>1, CountAppends
  <2>4. Gfx!FrameIDs(<<a>>) = {} \cup (IF a.kind = "frame" THEN {a.n} ELSE {})
    BY <1>1, <1>2, <2>1, CountAppends
  <2>5. Cardinality(Gfx!FrameAcks(<<a>>)) = Counted(a)
    BY <2>3 DEF Counted
  <2>6. Gfx!FrameIDs(<<a>>) = IF a.kind = "frame" THEN {a.n} ELSE {}
    BY <2>4
  <2> QED BY <2>2, <2>5, <2>6
<1> QED BY <1>1, <1>2, <1>3, <1>4

\* Where nothing is acknowledged the places stay allowed.
LEMMA AcksStay ==
    ASSUME FrameTypes, FrameTypes', AckInv, Top <= Top',
           UNCHANGED <<ackCh, ackHand, acked, overflowed, framesDecoded>>
    PROVE  AckInv'
<1>1. Top \in Int /\ Top' \in Int
  BY DEF FrameTypes, Top
<1>2. Ranked(acked, Top') /\ Ranked(ackHand, Top') /\ Ranked(ackCh, Top')
  <2> DEFINE t == Top
             u == Top'
  <2>1. t \in Int /\ u \in Int /\ t <= u /\ Ranked(acked, t) /\ Ranked(ackHand, t) /\ Ranked(ackCh, t)
    BY <1>1 DEF AckInv
  <2> HIDE DEF t, u
  <2>2. Ranked(acked, u) /\ Ranked(ackHand, u) /\ Ranked(ackCh, u)
    BY <2>1, RanksStay
  <2> QED BY <2>2 DEF u
<1> QED BY <1>2 DEF AckInv, Gfx!AckedOnce

\* An acknowledgement is queued, or goes around the queue.
LEMMA AckQueued ==
    ASSUME FrameTypes, FrameTypes', AckInv, NEW a, a.kind \in {"frame", "qoe"}, a.n \in Nat,
           Gfx!Acknowledge(a), ackHand' = ackHand, framesDecoded' = framesDecoded + Counted(a),
           Top < Rank(a), Rank(a) <= Top'
    PROVE  AckInv'
<1> DEFINE t == Top
           u == Top'
           A == Cardinality(Gfx!FrameAcks(acked))
           H == Cardinality(Gfx!FrameAcks(ackHand))
           C == Cardinality(Gfx!FrameAcks(ackCh))
           I == Gfx!FrameIDs(acked) \cup Gfx!FrameIDs(ackHand) \cup Gfx!FrameIDs(ackCh)
           N == IF a.kind = "frame" THEN {a.n} ELSE {}
<1>1. /\ t \in Int /\ u \in Int /\ t < Rank(a) /\ Rank(a) <= u /\ Rank(a) \in Nat /\ t <= u
      /\ framesDecoded \in Nat
  <2>1. t \in Int
    BY DEF FrameTypes, Top
  <2>2. u \in Int
    BY DEF FrameTypes, Top
  <2>3. Rank(a) \in Nat /\ framesDecoded \in Nat
    BY DEF Rank, FrameTypes
  <2> HIDE DEF t, u
  <2> DEFINE k == Rank(a)
  <2>4. t < k /\ k <= u
    BY DEF t, u
  <2>5. k \in Nat
    BY <2>3
  <2> HIDE DEF k
  <2>6. t <= u
    BY <2>1, <2>2, <2>4, <2>5
  <2> QED BY <2>1, <2>2, <2>3, <2>4, <2>6 DEF k
<1>2. Ranked(acked, t) /\ Ranked(ackHand, t) /\ Ranked(ackCh, t)
  BY DEF AckInv
<1>3. A \in Nat /\ H \in Nat /\ C \in Nat /\ IsFiniteSet(I)
  <2>1. IsSeq(acked) /\ IsSeq(ackHand) /\ IsSeq(ackCh)
    BY <1>2 DEF Ranked
  <2>2. IsFiniteSet(Gfx!FrameIDs(acked)) /\ IsFiniteSet(Gfx!FrameIDs(ackHand))
        /\ IsFiniteSet(Gfx!FrameIDs(ackCh))
    BY <2>1, CountAppends
  <2> QED BY <2>1, <2>2, CountFinite, FS_Union
<1>4. A + H + C = framesDecoded /\ Cardinality(I) = framesDecoded
  BY GfxCardinality DEF AckInv, Gfx!AckedOnce
<1>5. Cardinality(I \cup N) = framesDecoded + Counted(a)
  <2>1. CASE a.kind = "frame"
    <3>1. ASSUME NEW q, Ranked(q, t) PROVE a.n \notin Gfx!FrameIDs(q)
      <4>1. \A i \in DOMAIN q : q[i].kind = "frame" => q[i].n # a.n
        BY <1>1, <2>1, <3>1 DEF Ranked, Rank
      <4> QED BY <4>1 DEF Gfx!FrameIDs, Gfx!FrameAcks
    <3>2. a.n \notin I
      BY <1>2, <3>1
    <3> HIDE DEF I
    <3>3. Cardinality(I \cup {a.n}) = Cardinality(I) + 1
      BY <1>3, <3>2, FS_AddElement
    <3> QED BY <1>4, <2>1, <3>3 DEF Counted
  <2>2. CASE a.kind # "frame"
    <3>1. I \cup N = I
      BY <2>2
    <3> HIDE DEF I, N
    <3> QED BY <1>1, <1>4, <2>2, <3>1 DEF Counted
  <2> QED BY <2>1, <2>2
<1>6. CASE ackCh' = Append(ackCh, a) /\ UNCHANGED <<acked, overflowed>>
  <2>1. Ranked(acked, u) /\ Ranked(ackHand, u) /\ Ranked(Append(ackCh, a), u)
    <3> HIDE DEF t, u
    <3> QED BY <1>1, <1>2, RanksStay, RankAppends
  <2>2. ~overflowed => /\ Increasing(Append(ackCh, a))
                       /\ Before(acked, Append(ackCh, a)) /\ Before(ackHand, Append(ackCh, a))
    <3>1. ~overflowed => Increasing(ackCh) /\ Before(acked, ackCh) /\ Before(ackHand, ackCh)
      BY DEF AckInv
    <3> HIDE DEF t, u
    <3> QED BY <1>1, <1>2, <3>1, RankAppends
  <2>3. /\ Cardinality(Gfx!FrameAcks(Append(ackCh, a))) = C + Counted(a)
        /\ Gfx!FrameIDs(Append(ackCh, a)) = Gfx!FrameIDs(ackCh) \cup N
    BY <1>2, CountAppends DEF Ranked
  <2>4. /\ A + H + Cardinality(Gfx!FrameAcks(Append(ackCh, a))) = framesDecoded'
        /\ Gfx!FrameIDs(acked) \cup Gfx!FrameIDs(ackHand) \cup Gfx!FrameIDs(Append(ackCh, a)) = I \cup N
    <3>1. Counted(a) \in Nat
      BY DEF Counted
    <3>2. A + H + (C + Counted(a)) = framesDecoded'
      <4> HIDE DEF A, H, C
      <4> QED BY <1>3, <1>4, <3>1
    <3> QED BY <2>3, <3>2
  <2>5. Gfx!AckedOnce'
    <3>1. Cardinality(I \cup N) = framesDecoded'
      BY <1>5
    <3> HIDE DEF I, N
    <3> QED BY <1>6, <2>4, <3>1, GfxCardinality DEF Gfx!AckedOnce, A, H
  <2>6. /\ Ranked(acked, Top)' /\ Ranked(ackHand, Top)' /\ Ranked(ackCh, Top)'
    BY <1>6, <2>1
  <2> QED BY <1>6, <2>2, <2>5, <2>6 DEF AckInv
<1>7. CASE acked' = Append(acked, a) /\ overflowed' = TRUE /\ UNCHANGED ackCh
  <2>1. Ranked(Append(acked, a), u) /\ Ranked(ackHand, u) /\ Ranked(ackCh, u)
    <3> HIDE DEF t, u
    <3> QED BY <1>1, <1>2, RanksStay, RankAppends
  <2>3. /\ Cardinality(Gfx!FrameAcks(Append(acked, a))) = A + Counted(a)
        /\ Gfx!FrameIDs(Append(acked, a)) = Gfx!FrameIDs(acked) \cup N
    BY <1>2, CountAppends DEF Ranked
  <2>4. /\ Cardinality(Gfx!FrameAcks(Append(acked, a))) + H + C = framesDecoded'
        /\ Gfx!FrameIDs(Append(acked, a)) \cup Gfx!FrameIDs(ackHand) \cup Gfx!FrameIDs(ackCh) = I \cup N
    <3>1. Counted(a) \in Nat
      BY DEF Counted
    <3>2. (A + Counted(a)) + H + C = framesDecoded'
      <4> HIDE DEF A, H, C
      <4> QED BY <1>3, <1>4, <3>1
    <3> QED BY <2>3, <3>2
  <2>5. Gfx!AckedOnce'
    <3>1. Cardinality(I \cup N) = framesDecoded'
      BY <1>5
    <3> HIDE DEF I, N
    <3> QED BY <1>7, <2>4, <3>1, GfxCardinality DEF Gfx!AckedOnce, C, H
  <2>6. /\ Ranked(acked, Top)' /\ Ranked(ackHand, Top)' /\ Ranked(ackCh, Top)'
    BY <1>7, <2>1
  <2> QED BY <1>7, <2>5, <2>6 DEF AckInv
<1> QED BY <1>6, <1>7 DEF Gfx!Acknowledge

\* The goroutine takes one from the queue.
LEMMA AckTaken == ASSUME FrameTypes, AckInv, Gfx!TakeAck PROVE AckInv'
<1> DEFINE h == Head(ackCh)
           g == Tail(ackCh)
<1>1. /\ ackHand = <<>> /\ ackCh # <<>> /\ ackHand' = <<h>> /\ ackCh' = g
      /\ UNCHANGED <<acked, overflowed, framesDecoded, inFrame, ending, curFrameID>>
  BY DEF Gfx!TakeAck, Gfx!frameVars
<1>2. Ranked(acked, Top) /\ Ranked(ackCh, Top) /\ IsSeq(ackCh)
  BY DEF AckInv, Ranked
<1>3. /\ IsSeq(g) /\ 1 \in DOMAIN ackCh /\ h = ackCh[1]
      /\ \A i \in DOMAIN g : i \in Nat /\ i + 1 \in DOMAIN ackCh /\ i + 1 # 1 /\ g[i] = ackCh[i + 1]
      /\ \A k \in DOMAIN ackCh : k \in Nat \ {0}
  BY <1>1, <1>2, QueueShifts
<1>4. /\ Cardinality(Gfx!FrameAcks(ackCh)) = Cardinality(Gfx!FrameAcks(g)) + Counted(h)
      /\ Gfx!FrameIDs(ackCh) = Gfx!FrameIDs(g) \cup (IF h.kind = "frame" THEN {h.n} ELSE {})
      /\ Cardinality(Gfx!FrameAcks(g)) \in Nat /\ Cardinality(Gfx!FrameAcks(acked)) \in Nat
  BY <1>1, <1>2, <1>3, CountShifts, CountFinite DEF Ranked
<1>5. DOMAIN <<h>> = {1} /\ <<h>>[1] = h
  OBVIOUS
<1> HIDE DEF h, g
<1>6. Gfx!AckedOnce'
  <2>1. /\ Cardinality(Gfx!FrameAcks(acked)) + 0
              + (Cardinality(Gfx!FrameAcks(g)) + Counted(h)) = framesDecoded
        /\ Cardinality(Gfx!FrameIDs(acked) \cup {} \cup Gfx!FrameIDs(ackCh)) = framesDecoded
    BY <1>1, <1>4, GfxCardinality, CountOne DEF AckInv, Gfx!AckedOnce
  <2>2. Counted(h) \in Nat
    BY DEF Counted
  <2>3. Cardinality(Gfx!FrameAcks(acked)) + Counted(h) + Cardinality(Gfx!FrameAcks(g)) = framesDecoded
    BY <1>4, <2>1, <2>2
  <2>4. Gfx!FrameIDs(acked) \cup Gfx!FrameIDs(<<h>>) \cup Gfx!FrameIDs(g)
           = Gfx!FrameIDs(acked) \cup {} \cup Gfx!FrameIDs(ackCh)
    <3>1. Gfx!FrameIDs(<<h>>) = IF h.kind = "frame" THEN {h.n} ELSE {}
      BY CountOne
    <3> QED BY <1>4, <3>1
  <2>5. Cardinality(Gfx!FrameAcks(<<h>>)) = Counted(h)
    BY CountOne
  <2> QED BY <1>1, <2>1, <2>3, <2>4, <2>5, GfxCardinality DEF Gfx!AckedOnce
<1>7. Ranked(<<h>>, Top) /\ Ranked(g, Top)
  <2>1. IsSeq(<<h>>)
    BY CountOne
  <2> QED BY <1>2, <1>3, <1>5, <2>1 DEF Ranked
<1>8. ~overflowed => Increasing(g) /\ Before(acked, <<h>>) /\ Before(acked, g) /\ Before(<<h>>, g)
  <2> SUFFICES ASSUME Increasing(ackCh), Before(acked, ackCh)
               PROVE  Increasing(g) /\ Before(acked, <<h>>) /\ Before(acked, g) /\ Before(<<h>>, g)
    BY DEF AckInv
  <2>1. Increasing(g)
    BY <1>3 DEF Increasing
  <2>2. Before(acked, <<h>>) /\ Before(acked, g)
    BY <1>3, <1>5 DEF Before
  <2>3. Before(<<h>>, g)
    BY <1>3, <1>5 DEF Before, Increasing
  <2> QED BY <2>1, <2>2, <2>3
<1>9. Top' = Top
  BY <1>1 DEF Top
<1>10. Ranked(acked, Top)' /\ Ranked(ackHand, Top)' /\ Ranked(ackCh, Top)'
  BY <1>1, <1>2, <1>7, <1>9
<1>11. ackHand' = <<>> \/ \E a : ackHand' = <<a>>
  BY <1>1
<1> QED BY <1>1, <1>6, <1>8, <1>10, <1>11 DEF AckInv

\* And sends what it has taken.
LEMMA AckSent == ASSUME FrameTypes, AckInv, Gfx!SendAck PROVE AckInv'
<1>1. /\ ackHand # <<>> /\ ackHand' = <<>> /\ acked' = acked \o ackHand
      /\ UNCHANGED <<ackCh, overflowed, framesDecoded, inFrame, ending, curFrameID>>
  BY DEF Gfx!SendAck, Gfx!frameVars
<1>2. Ranked(acked, Top) /\ Ranked(ackHand, Top) /\ Ranked(ackCh, Top)
  BY DEF AckInv
<1>3. PICK a : ackHand = <<a>>
  BY <1>1 DEF AckInv
<1>4. DOMAIN <<a>> = {1} /\ <<a>>[1] = a
  OBVIOUS
<1>5. a.kind \in {"frame", "qoe"} /\ a.n \in Nat /\ Rank(a) <= Top /\ Top \in Int /\ Rank(a) \in Nat
  BY <1>2, <1>3, <1>4 DEF Ranked, Rank, FrameTypes, Top
<1>6. acked' = Append(acked, a)
  <2>1. PICK X : acked \in Seq(X)
    BY <1>2 DEF Ranked, IsSeq
  <2>2. acked \o <<a>> = Append(acked, a)
    <3> DEFINE Y == X \cup {a}
    <3>1. acked \in Seq(Y) /\ <<a>> \in Seq(Y) /\ a \in Y
      BY <2>1
    <3> HIDE DEF Y
    <3> QED BY <3>1, AppendIsConcat
  <2> QED BY <1>1, <1>3, <2>2
<1>7. /\ Cardinality(Gfx!FrameAcks(Append(acked, a))) = Cardinality(Gfx!FrameAcks(acked)) + Counted(a)
      /\ Gfx!FrameIDs(Append(acked, a))
            = Gfx!FrameIDs(acked) \cup (IF a.kind = "frame" THEN {a.n} ELSE {})
      /\ Cardinality(Gfx!FrameAcks(acked)) \in Nat /\ Cardinality(Gfx!FrameAcks(ackCh)) \in Nat
  BY <1>2, CountAppends, CountFinite DEF Ranked
<1>8. Gfx!AckedOnce'
  <2>1. /\ Cardinality(Gfx!FrameAcks(acked)) + Counted(a)
              + Cardinality(Gfx!FrameAcks(ackCh)) = framesDecoded
        /\ Cardinality(Gfx!FrameIDs(acked) \cup (IF a.kind = "frame" THEN {a.n} ELSE {})
              \cup Gfx!FrameIDs(ackCh)) = framesDecoded
    BY <1>3, GfxCardinality, CountOne DEF AckInv, Gfx!AckedOnce
  <2>2. Counted(a) \in Nat
    BY DEF Counted
  <2>3. (Cardinality(Gfx!FrameAcks(acked)) + Counted(a)) + 0
           + Cardinality(Gfx!FrameAcks(ackCh)) = framesDecoded
    BY <1>7, <2>1, <2>2
  <2>4. (Gfx!FrameIDs(acked) \cup (IF a.kind = "frame" THEN {a.n} ELSE {})) \cup {} \cup Gfx!FrameIDs(ackCh)
           = Gfx!FrameIDs(acked) \cup (IF a.kind = "frame" THEN {a.n} ELSE {}) \cup Gfx!FrameIDs(ackCh)
    OBVIOUS
  <2> QED BY <1>1, <1>6, <1>7, <2>1, <2>3, <2>4, GfxCardinality, CountOne DEF Gfx!AckedOnce
<1>9. Ranked(Append(acked, a), Top) /\ Ranked(<<>>, Top)
  <2>1. Ranked(<<>>, Top)
    <3>1. DOMAIN <<>> = {}
      OBVIOUS
    <3> QED BY <3>1, CountOne DEF Ranked
  <2> DEFINE t == Top
  <2>2. Ranked(acked, t) /\ t \in Int /\ Rank(a) <= t /\ t <= t
    BY <1>2, <1>5
  <2> HIDE DEF t
  <2>3. Ranked(Append(acked, a), t)
    BY <1>5, <2>2, RankAppends
  <2> QED BY <2>1, <2>3 DEF t
<1>10. ~overflowed => /\ Increasing(Append(acked, a)) /\ Increasing(ackCh)
                      /\ Before(Append(acked, a), <<>>) /\ Before(Append(acked, a), ackCh)
                      /\ Before(<<>>, ackCh)
  <2> SUFFICES ASSUME ~overflowed
               PROVE  /\ Increasing(Append(acked, a)) /\ Increasing(ackCh)
                      /\ Before(Append(acked, a), <<>>) /\ Before(Append(acked, a), ackCh)
                      /\ Before(<<>>, ackCh)
    OBVIOUS
  <2>1. Increasing(acked) /\ Increasing(ackCh) /\ Before(acked, <<a>>) /\ Before(acked, ackCh)
        /\ Before(<<a>>, ackCh)
    BY <1>3 DEF AckInv
  <2>2. Before(Append(acked, a), <<>>) /\ Before(<<>>, ackCh)
    <3>1. DOMAIN <<>> = {}
      OBVIOUS
    <3> QED BY <3>1 DEF Before
  <2>3. /\ \A i \in DOMAIN acked : Rank(acked[i]) < Rank(a)
        /\ \A j \in DOMAIN ackCh : Rank(a) < Rank(ackCh[j])
    BY <1>4, <2>1 DEF Before
  <2> DEFINE t == Top
  <2>4. Ranked(acked, t) /\ t \in Int /\ Rank(a) <= t /\ t <= t
    BY <1>2, <1>5
  <2> HIDE DEF t
  <2> QED BY <1>5, <2>1, <2>2, <2>3, <2>4, RankAppends
<1>11. Top' = Top
  BY <1>1 DEF Top
<1>12. Ranked(acked, Top)' /\ Ranked(ackHand, Top)' /\ Ranked(ackCh, Top)'
  BY <1>1, <1>2, <1>6, <1>9, <1>11
<1> QED BY <1>1, <1>6, <1>8, <1>10, <1>12 DEF AckInv

\* Every step keeps the acknowledgements.
LEMMA AckSteps == FrameTypes /\ AckInv /\ [Gfx!Next]_graphicsVars => FrameTypes' /\ AckInv'
<1> SUFFICES ASSUME FrameTypes, AckInv, [Gfx!Next]_graphicsVars PROVE FrameTypes' /\ AckInv'
  OBVIOUS
<1>1. CASE UNCHANGED <<inFrame, ending, curFrameID, framesDecoded, ackCh, ackHand, acked, overflowed>>
  <2>1. FrameTypes' /\ Top' = Top /\ Top \in Int
    BY <1>1 DEF FrameTypes, Top
  <2>2. Top <= Top'
    BY <2>1
  <2> QED BY <1>1, <2>1, <2>2, AcksStay
<1>2. CASE Gfx!ResetGraphics
  <2>1. /\ ending = "none" /\ inFrame' = FALSE
        /\ UNCHANGED <<curFrameID, framesDecoded, ending, ackCh, ackHand, acked, overflowed>>
    BY <1>2 DEF Gfx!ResetGraphics, Gfx!Command, Gfx!None, Gfx!ackVars
  <2>2. FrameTypes'
    <3>1. /\ inFrame' \in BOOLEAN /\ overflowed' \in BOOLEAN /\ curFrameID' \in Nat
          /\ framesDecoded' \in Nat /\ ending' = "none"
      BY <2>1 DEF FrameTypes
    <3> QED BY <3>1 DEF FrameTypes
  <2>3. Top \in Int /\ Top <= 2 * curFrameID + 1
    BY <2>1 DEF FrameTypes, Top
  <2>4. Top' = 2 * curFrameID + 1
    BY <2>1 DEF Top
  <2> QED BY <2>1, <2>2, <2>3, <2>4, AcksStay
<1>3. CASE Gfx!StartFrame
  <2>1. /\ ending = "none" /\ ~inFrame /\ inFrame' = TRUE /\ curFrameID' = curFrameID + 1
        /\ UNCHANGED <<framesDecoded, ending, ackCh, ackHand, acked, overflowed>>
    BY <1>3 DEF Gfx!StartFrame, Gfx!Command, Gfx!None, Gfx!ackVars
  <2>2. FrameTypes' /\ Top <= Top'
    BY <2>1 DEF FrameTypes, Top
  <2> QED BY <2>1, <2>2, AcksStay
<1>4. CASE Gfx!EndFrame
  <2> DEFINE a == [kind |-> "frame", n |-> curFrameID]
  <2>1. /\ ending = "none" /\ inFrame /\ inFrame' = FALSE /\ framesDecoded' = framesDecoded + 1
        /\ ending' = "flush" /\ Gfx!Acknowledge(a) /\ UNCHANGED <<curFrameID, ackHand>>
    BY <1>4 DEF Gfx!EndFrame, Gfx!None
  <2>2. overflowed' \in BOOLEAN
    BY <2>1 DEF Gfx!Acknowledge, FrameTypes
  <2>3. FrameTypes'
    <3>1. inFrame' \in BOOLEAN /\ ~inFrame'
      BY <2>1, Zenon
    <3>2. curFrameID' \in Nat /\ framesDecoded' \in Nat
      BY <2>1 DEF FrameTypes
    <3> QED BY <2>1, <2>2, <3>1, <3>2 DEF FrameTypes
  <2>4. a.kind = "frame" /\ a.n = curFrameID
    OBVIOUS
  <2> HIDE DEF a
  <2>5. Top < Rank(a) /\ Rank(a) <= Top' /\ a.n \in Nat /\ Counted(a) = 1
    BY <2>1, <2>4 DEF FrameTypes, Top, Rank, Counted
  <2> QED BY <2>1, <2>3, <2>4, <2>5, AckQueued
<1>5. CASE Gfx!FlushFrame
  <2>1. /\ ending = "flush" /\ ending' \in {"qoe", "none"}
        /\ UNCHANGED <<inFrame, curFrameID, framesDecoded, ackCh, ackHand, acked, overflowed>>
    BY <1>5 DEF Gfx!FlushFrame, Gfx!None, Gfx!ackVars
  <2>2. FrameTypes' /\ Top <= Top'
    BY <2>1 DEF FrameTypes, Top
  <2> QED BY <2>1, <2>2, AcksStay
<1>6. CASE Gfx!SendQoEFrameAck
  <2> DEFINE a == [kind |-> "qoe", n |-> curFrameID]
  <2>1. /\ ending = "qoe" /\ ending' = "none" /\ Gfx!Acknowledge(a)
        /\ UNCHANGED <<inFrame, framesDecoded, curFrameID, ackHand>>
    BY <1>6 DEF Gfx!SendQoEFrameAck, Gfx!None
  <2>2. overflowed' \in BOOLEAN
    BY <2>1 DEF Gfx!Acknowledge, FrameTypes
  <2>3. FrameTypes'
    BY <2>1, <2>2 DEF FrameTypes
  <2>4. a.kind = "qoe" /\ a.n = curFrameID
    OBVIOUS
  <2> HIDE DEF a
  <2>5. /\ Top < Rank(a) /\ Rank(a) <= Top' /\ a.n \in Nat
        /\ framesDecoded' = framesDecoded + Counted(a)
    BY <2>1, <2>4 DEF FrameTypes, Top, Rank, Counted
  <2> QED BY <2>1, <2>3, <2>4, <2>5, AckQueued
<1>7. CASE Gfx!TakeAck
  <2>1. FrameTypes'
    BY <1>7 DEF Gfx!TakeAck, Gfx!frameVars, FrameTypes
  <2> QED BY <1>7, <2>1, AckTaken
<1>8. CASE Gfx!SendAck
  <2>1. FrameTypes'
    BY <1>8 DEF Gfx!SendAck, Gfx!frameVars, FrameTypes
  <2> QED BY <1>8, <2>1, AckSent
<1>9. CASE \/ Gfx!EvictCacheEntry
           \/ \E s \in Surfaces : \/ Gfx!CreateSurface(s) \/ Gfx!DeleteSurface(s)
                                  \/ Gfx!MapSurfaceToOutput(s) \/ Gfx!SurfaceToCache(s)
  BY <1>1, <1>9 DEF Gfx!EvictCacheEntry, Gfx!CreateSurface, Gfx!DeleteSurface,
     Gfx!MapSurfaceToOutput, Gfx!SurfaceToCache, Gfx!frameVars, Gfx!ackVars
<1>10. ASSUME NEW s \in Surfaces, NEW cs, NEW f, Gfx!Paint(s, cs, f) PROVE FrameTypes' /\ AckInv'
  BY <1>1, <1>10 DEF Gfx!Paint, Gfx!ackVars
<1>11. CASE \E s \in Surfaces :
           \/ \E c \in Gfx!Cells : Gfx!CacheToSurface(s, c) \/ Gfx!WireToSurface2(s, c)
           \/ \E c \in Gfx!Cells, k \in Gfx!Colours : Gfx!SolidFill(s, {c}, k)
           \/ \E t \in Surfaces, a, b \in {0, 1} : Gfx!SurfaceToSurface(s, t, a, b)
  <2>1. PICK s \in Surfaces :
           \/ \E c \in Gfx!Cells : Gfx!CacheToSurface(s, c) \/ Gfx!WireToSurface2(s, c)
           \/ \E c \in Gfx!Cells, k \in Gfx!Colours : Gfx!SolidFill(s, {c}, k)
           \/ \E t \in Surfaces, a, b \in {0, 1} : Gfx!SurfaceToSurface(s, t, a, b)
    BY <1>11
  <2>2. CASE \E c \in Gfx!Cells : Gfx!CacheToSurface(s, c)
    BY <1>10, <2>2 DEF Gfx!CacheToSurface
  <2>3. CASE \E c \in Gfx!Cells : Gfx!WireToSurface2(s, c)
    BY <1>10, <2>3 DEF Gfx!WireToSurface2
  <2>4. CASE \E c \in Gfx!Cells, k \in Gfx!Colours : Gfx!SolidFill(s, {c}, k)
    BY <1>10, <2>4 DEF Gfx!SolidFill
  <2>5. CASE \E t \in Surfaces, a, b \in {0, 1} : Gfx!SurfaceToSurface(s, t, a, b)
    BY <1>10, <2>5 DEF Gfx!SurfaceToSurface
  <2> QED BY <2>1, <2>2, <2>3, <2>4, <2>5
<1>12. CASE UNCHANGED graphicsVars
  BY <1>1, <1>12 DEF graphicsVars
<1> QED BY <1>2, <1>3, <1>4, <1>5, <1>6, <1>7, <1>8, <1>9, <1>11, <1>12 DEF Gfx!Next

(***************************************************************************)
(* The graphics pipeline: what the screen shows.                           *)
(***************************************************************************)

\* What can be on a surface.
Contents == [Gfx!Cells -> Gfx!Colours]

\* A rectangle of the frame will draw the cell from the surface.
Dirty(s, x) == \E i \in DOMAIN dirty : dirty[i].s = s /\ x - Gfx!Origin(s) \in dirty[i].cells

ScreenTypes ==
    /\ surfaces \in [Surfaces -> Contents \cup {<<>>}]
    /\ outputMap \in [Surfaces -> {-1} \cup Gfx!Origins]
    /\ touched \in [Surfaces -> SUBSET Gfx!Cells]
    /\ \A s \in Surfaces : ~Gfx!Exists(s) => outputMap[s] = -1
    /\ \A s \in Surfaces : outputMap[s] = -1 => touched[s] = {}
    /\ IsSeq(dirty)
    /\ \A i \in DOMAIN dirty : dirty[i].s \in Surfaces /\ dirty[i].cells \subseteq Gfx!Cells
    /\ \A x \in Gfx!ScreenCells :
          owner[x].s \in Surfaces \cup {0, -1} /\ owner[x].at \in Gfx!Origins

\* A cell of the screen shows what its surface holds there, or will, as long as the
\* surface is where it was when the cell was drawn.
Shown ==
    \A x \in Gfx!ScreenCells, o \in Surfaces, at \in Gfx!Origins :
        owner[x].s = o /\ owner[x].at = at =>
            /\ Gfx!Exists(o) /\ x - at \in Gfx!Cells
            /\ outputMap[o] = -1 => at = 0
            /\ Gfx!Origin(o) = at => screen[x] = surfaces[o][x - at] \/ Dirty(o, x)

\* What was drawn on a mapped surface is on the screen, or will be.
Drawn ==
    \A x \in Gfx!ScreenCells, s \in Surfaces :
        outputMap[s] # -1 /\ x - outputMap[s] \in touched[s] => owner[x].s # 0 \/ Dirty(s, x)

\* Only a frame defers what it draws.
Deferred == inFrame \/ ending = "flush" \/ dirty = <<>>

ScreenInv == ScreenTypes /\ Shown /\ Drawn /\ Deferred

\* A set of natural numbers that has a member has a least one.
LEMMA LeastNumber ==
    ASSUME NEW T, T \subseteq Nat, T # {}
    PROVE  \E x \in T : \A y \in T : x <= y
<1> DEFINE R == OpToRel(<, Nat)
<1>1. IsWellFoundedOn(R, Nat)
  BY NatLessThanWellFounded
<1>2. \A x, y \in Nat : <<y, x>> \in R <=> y < x
  BY DEF OpToRel
<1> HIDE DEF R
<1>3. \E x \in T : \A y \in T : ~ (<<y, x>> \in R)
  BY <1>1, WFMin
<1>4. PICK x \in T : \A y \in T : ~ (<<y, x>> \in R)
  BY <1>3
<1>5. \A y \in T : ~ (y < x)
  BY <1>2, <1>4
<1>6. \A y \in T : x <= y
  BY <1>5
<1> QED BY <1>6

\* A set of numbers up to a limit that has a member has a largest one.
LEMMA Greatest ==
    ASSUME NEW n \in Nat, NEW S, S \subseteq 1..n, S # {}
    PROVE  \E i \in S : \A j \in S : j <= i
<1> DEFINE T == {m \in Nat : \A j \in S : j <= m}
<1>1. n \in T /\ T \subseteq Nat
  OBVIOUS
<1>2. PICK m \in T : \A y \in T : m <= y
  <2> HIDE DEF T
  <2>1. T # {}
    BY <1>1
  <2> QED BY <1>1, <2>1, LeastNumber
<1>3. m \in S
  <2> SUFFICES ASSUME m \notin S PROVE FALSE
    OBVIOUS
  <2>1. \A j \in S : j \in Nat /\ 1 <= j /\ j <= m /\ j # m
    BY <1>2
  <2>2. m - 1 \in Nat /\ \A j \in S : j <= m - 1
    <3>1. PICK j \in S : TRUE
      OBVIOUS
    <3>2. m \in Nat /\ 1 <= m
      BY <1>2, <2>1, <3>1
    <3> QED BY <2>1, <3>2
  <2>3. m - 1 \in T /\ m \in Nat
    BY <1>2, <2>2
  <2>4. m <= m - 1
    BY <1>2, <2>3
  <2> QED BY <2>3, <2>4
<1> QED BY <1>2, <1>3

\* The surface of the last rectangle over a cell shows there; without one nothing changes.
LEMMA EmitShows ==
    ASSUME NEW rects, IsSeq(rects), Gfx!Emit(rects), NEW x \in Gfx!ScreenCells
    PROVE  \/ /\ \A i \in DOMAIN rects : surfaces'[rects[i].s] # <<>> =>
                     x - Gfx!Origin(rects[i].s) \notin rects[i].cells
              /\ screen'[x] = screen[x] /\ owner'[x] = owner[x]
           \/ \E i \in DOMAIN rects :
                 /\ surfaces'[rects[i].s] # <<>> /\ x - Gfx!Origin(rects[i].s) \in rects[i].cells
                 /\ owner'[x].s = rects[i].s /\ owner'[x].at = Gfx!Origin(rects[i].s)
                 /\ screen'[x] = surfaces'[rects[i].s][x - Gfx!Origin(rects[i].s)]
<1> DEFINE over == {i \in DOMAIN rects : /\ surfaces'[rects[i].s] # <<>>
                                        /\ x - Gfx!Origin(rects[i].s) \in rects[i].cells}
           top == CHOOSE i \in over : \A j \in over : j <= i
           o == rects[top].s
<1>1. /\ screen'[x] = IF over = {} THEN screen[x] ELSE surfaces'[o][x - Gfx!Origin(o)]
      /\ owner'[x] = IF over = {} THEN owner[x] ELSE [s |-> o, at |-> Gfx!Origin(o)]
  BY DEF Gfx!Emit, Gfx!NoSurface
<1>2. \A i : i \in over <=> /\ i \in DOMAIN rects /\ surfaces'[rects[i].s] # <<>>
                           /\ x - Gfx!Origin(rects[i].s) \in rects[i].cells
  OBVIOUS
<1>3. DOMAIN rects = 1..Len(rects) /\ Len(rects) \in Nat
  BY QueueAppends
<1> HIDE DEF over
<1>4. over \subseteq 1..Len(rects)
  BY <1>2, <1>3
<1>5. over # {} => top \in over
  <2>1. over # {} => \E i \in over : \A j \in over : j <= i
    BY <1>3, <1>4, Greatest
  <2> QED BY <2>1
<1> HIDE DEF top
<1>6. CASE over = {}
  <2>1. screen'[x] = screen[x] /\ owner'[x] = owner[x]
    BY <1>1, <1>6
  <2> QED BY <1>2, <1>6, <2>1
<1>7. CASE over # {}
  <2>1. screen'[x] = surfaces'[o][x - Gfx!Origin(o)] /\ owner'[x] = [s |-> o, at |-> Gfx!Origin(o)]
    BY <1>1, <1>7
  <2>2. owner'[x].s = o /\ owner'[x].at = Gfx!Origin(o)
    <3> HIDE DEF o
    <3> QED BY <2>1
  <2>3. top \in DOMAIN rects /\ surfaces'[o] # <<>> /\ x - Gfx!Origin(o) \in rects[top].cells
    BY <1>2, <1>5, <1>7
  <2> QED BY <2>1, <2>2, <2>3
<1> QED BY <1>6, <1>7

\* A surface holds at least one cell.
LEMMA ContentsExist == \A f \in Contents : f # <<>> /\ DOMAIN f = Gfx!Cells
<1> SUFFICES ASSUME NEW f \in Contents PROVE f # <<>> /\ DOMAIN f = Gfx!Cells
  OBVIOUS
<1>1. DOMAIN f = Gfx!Cells /\ 0 \in Gfx!Cells
  BY EndpointsAssumption DEF EndpointsAssumption, Contents, Gfx!Cells
<1>2. DOMAIN <<>> = {}
  OBVIOUS
<1> QED BY <1>1, <1>2

\* Places on the screen are numbers.
LEMMA Places ==
    ASSUME ScreenTypes
    PROVE  /\ \A s \in Surfaces : Gfx!Origin(s) \in Gfx!Origins /\ s # 0 /\ s # -1 /\ s > 0
           /\ \A s \in Surfaces : outputMap[s] # -1 => Gfx!Origin(s) = outputMap[s]
           /\ \A s \in Surfaces : outputMap[s] = -1 => Gfx!Origin(s) = 0
BY EndpointsAssumption DEF EndpointsAssumption, ScreenTypes, Gfx!Origin, Gfx!Origins

\* Cells of a surface are painted, and shown at once or put off to the end of the frame.
LEMMA PaintShows ==
    ASSUME ScreenInv, NEW s \in Surfaces, NEW cs \in SUBSET Gfx!Cells, NEW f \in Contents,
           Gfx!Exists(s), \A c \in Gfx!Cells : c \notin cs => f[c] = surfaces[s][c],
           ending = "none", Gfx!Paint(s, cs, f)
    PROVE  ScreenInv'
<1>1. /\ surfaces' = [surfaces EXCEPT ![s] = f] /\ Gfx!NotifyBitmap(s, cs)
      /\ touched' = [touched EXCEPT ![s] = IF outputMap[s] = -1 THEN @ ELSE @ \cup cs]
      /\ UNCHANGED <<outputMap, inFrame, ending>>
  BY DEF Gfx!Paint
<1>2. ScreenTypes /\ Shown /\ Drawn /\ Deferred
  BY DEF ScreenInv
<1>3. /\ surfaces' \in [Surfaces -> Contents \cup {<<>>}] /\ surfaces'[s] = f
      /\ \A r \in Surfaces : r # s => surfaces'[r] = surfaces[r]
  BY <1>1, <1>2 DEF ScreenTypes
<1>4. /\ touched' \in [Surfaces -> SUBSET Gfx!Cells]
      /\ \A r \in Surfaces : touched'[r] = touched[r]
                             \/ (r = s /\ outputMap[s] # -1 /\ touched'[r] = touched[r] \cup cs)
  BY <1>1, <1>2 DEF ScreenTypes
<1>5. f # <<>>
  BY ContentsExist
<1>6. \A r \in Surfaces : Gfx!Exists(r)' <=> Gfx!Exists(r)
  BY <1>3, <1>5 DEF Gfx!Exists, Gfx!NoSurface
<1>7. \A r \in Surfaces : Gfx!Origin(r)' = Gfx!Origin(r)
  BY <1>1 DEF Gfx!Origin
<1>8. \A r \in Surfaces : outputMap'[r] = -1 => touched'[r] = {}
  BY <1>1, <1>2, <1>4 DEF ScreenTypes
<1> DEFINE rect == [s |-> s, cells |-> cs]
<1>9. rect.s = s /\ rect.cells = cs
  OBVIOUS
<1> HIDE DEF rect
<1>10. CASE inFrame
  <2>1. dirty' = Append(dirty, rect) /\ UNCHANGED <<screen, owner>>
    BY <1>1, <1>10 DEF Gfx!NotifyBitmap, rect
  <2>2. /\ IsSeq(dirty') /\ DOMAIN dirty = 1..Len(dirty) /\ DOMAIN dirty' = 1..(Len(dirty) + 1)
        /\ Len(dirty) \in Nat
        /\ \A i \in 1..Len(dirty) : dirty'[i] = dirty[i]
        /\ dirty'[Len(dirty) + 1] = rect
    BY <1>2, <2>1, QueueAppends DEF ScreenTypes
  <2>3. \A i \in DOMAIN dirty' : dirty'[i].s \in Surfaces /\ dirty'[i].cells \subseteq Gfx!Cells
    BY <1>2, <1>9, <2>2 DEF ScreenTypes
  <2>4. ScreenTypes'
    BY <1>1, <1>2, <1>3, <1>4, <1>6, <1>8, <2>1, <2>2, <2>3 DEF ScreenTypes
  <2>5. \A r \in Surfaces, x \in Gfx!ScreenCells : Dirty(r, x) => Dirty(r, x)'
    BY <1>7, <2>2 DEF Dirty
  <2>6. \A x \in Gfx!ScreenCells : x - Gfx!Origin(s) \in cs => Dirty(s, x)'
    <3>1. Len(dirty) + 1 \in DOMAIN dirty'
      BY <2>2
    <3> QED BY <1>7, <1>9, <2>2, <3>1 DEF Dirty
  <2>7. Shown'
    <3> SUFFICES ASSUME NEW x \in Gfx!ScreenCells, NEW o \in Surfaces, NEW at \in Gfx!Origins,
                        owner[x].s = o, owner[x].at = at
                 PROVE  /\ Gfx!Exists(o)' /\ x - at \in Gfx!Cells
                        /\ outputMap[o] = -1 => at = 0
                        /\ Gfx!Origin(o) = at =>
                              screen[x] = surfaces'[o][x - at] \/ Dirty(o, x)'
      BY <1>1, <1>7, <2>1 DEF Shown
    <3>1. /\ Gfx!Exists(o) /\ x - at \in Gfx!Cells /\ (outputMap[o] = -1 => at = 0)
          /\ Gfx!Origin(o) = at => screen[x] = surfaces[o][x - at] \/ Dirty(o, x)
      BY <1>2 DEF Shown
    <3>2. CASE o # s
      BY <1>3, <1>6, <2>5, <3>1, <3>2
    <3>3. CASE o = s /\ x - at \in cs
      BY <1>6, <2>6, <3>1, <3>3
    <3>4. CASE o = s /\ x - at \notin cs
      <4>1. f[x - at] = surfaces[s][x - at]
        BY <3>1, <3>4
      <4> QED BY <1>3, <1>6, <2>5, <3>1, <3>4, <4>1
    <3> QED BY <3>2, <3>3, <3>4
  <2>8. Drawn'
    <3> SUFFICES ASSUME NEW x \in Gfx!ScreenCells, NEW r \in Surfaces, outputMap[r] # -1,
                        x - outputMap[r] \in touched'[r]
                 PROVE  owner[x].s # 0 \/ Dirty(r, x)'
      BY <1>1, <2>1 DEF Drawn
    <3>1. CASE x - outputMap[r] \in touched[r]
      BY <1>2, <2>5, <3>1 DEF Drawn
    <3>2. CASE r = s /\ x - outputMap[r] \in cs
      BY <1>2, <2>6, <3>2, Places
    <3> QED BY <1>4, <3>1, <3>2
  <2>9. Deferred'
    BY <1>1, <1>10 DEF Deferred
  <2> QED BY <2>4, <2>7, <2>8, <2>9 DEF ScreenInv
<1>11. CASE ~inFrame
  <2>1. Gfx!Emit(<<rect>>) /\ dirty' = dirty
    BY <1>1, <1>11 DEF Gfx!NotifyBitmap, rect
  <2>2. dirty = <<>> /\ DOMAIN dirty = {}
    <3>1. dirty = <<>>
      BY <1>2, <1>11 DEF Deferred
    <3> QED BY <3>1
  <2>3. \A x \in Gfx!ScreenCells :
            \/ /\ x - Gfx!Origin(s) \notin cs /\ screen'[x] = screen[x] /\ owner'[x] = owner[x]
            \/ /\ x - Gfx!Origin(s) \in cs
               /\ owner'[x].s = s /\ owner'[x].at = Gfx!Origin(s)
               /\ screen'[x] = f[x - Gfx!Origin(s)]
    <3>1. DOMAIN <<rect>> = {1} /\ <<rect>>[1] = rect /\ IsSeq(<<rect>>)
      BY CountOne
    <3> QED BY <1>3, <1>5, <1>9, <2>1, <3>1, EmitShows
  <2>4. \A x \in Gfx!ScreenCells :
            owner'[x].s \in Surfaces \cup {0, -1} /\ owner'[x].at \in Gfx!Origins
    BY <1>2, <2>3, Places DEF ScreenTypes
  <2>5. ScreenTypes'
    BY <1>1, <1>2, <1>3, <1>4, <1>6, <1>8, <2>1, <2>4 DEF ScreenTypes
  <2>6. Shown'
    <3> SUFFICES ASSUME NEW x \in Gfx!ScreenCells, NEW o \in Surfaces, NEW at \in Gfx!Origins,
                        owner'[x].s = o, owner'[x].at = at
                 PROVE  /\ Gfx!Exists(o)' /\ x - at \in Gfx!Cells
                        /\ outputMap[o] = -1 => at = 0
                        /\ Gfx!Origin(o) = at => screen'[x] = surfaces'[o][x - at]
      BY <1>1, <1>7 DEF Shown
    <3>1. CASE /\ x - Gfx!Origin(s) \in cs /\ owner'[x].s = s /\ owner'[x].at = Gfx!Origin(s)
               /\ screen'[x] = f[x - Gfx!Origin(s)]
      BY <1>2, <1>3, <1>6, <3>1, Places
    <3>2. CASE /\ x - Gfx!Origin(s) \notin cs /\ screen'[x] = screen[x] /\ owner'[x] = owner[x]
      <4>1. /\ Gfx!Exists(o) /\ x - at \in Gfx!Cells /\ (outputMap[o] = -1 => at = 0)
            /\ Gfx!Origin(o) = at => screen[x] = surfaces[o][x - at]
        BY <1>2, <2>2, <3>2 DEF Shown, Dirty
      <4>2. CASE o # s
        BY <1>3, <1>6, <3>2, <4>1, <4>2
      <4>3. CASE o = s
        <5>1. Gfx!Origin(s) = at => f[x - at] = surfaces[s][x - at]
          BY <3>2, <4>1
        <5> QED BY <1>3, <1>6, <3>2, <4>1, <4>3, <5>1
      <4> QED BY <4>2, <4>3
    <3> QED BY <2>3, <3>1, <3>2
  <2>7. Drawn'
    <3> SUFFICES ASSUME NEW x \in Gfx!ScreenCells, NEW r \in Surfaces, outputMap[r] # -1,
                        x - outputMap[r] \in touched'[r]
                 PROVE  owner'[x].s # 0
      BY <1>1 DEF Drawn
    <3>1. CASE x - outputMap[r] \in touched[r]
      <4>1. owner[x].s # 0
        BY <1>2, <2>2, <3>1 DEF Drawn, Dirty
      <4> QED BY <1>2, <2>3, <4>1, Places
    <3>2. CASE r = s /\ x - outputMap[r] \in cs
      BY <1>2, <2>3, <3>2, Places
    <3> QED BY <1>4, <3>1, <3>2
  <2>8. Deferred'
    BY <2>1, <2>2 DEF Deferred
  <2> QED BY <2>5, <2>6, <2>7, <2>8 DEF ScreenInv
<1> QED BY <1>10, <1>11

\* At the end of a frame what was put off is shown.
LEMMA FlushShows == ASSUME ScreenInv, FrameTypes, Gfx!FlushFrame PROVE ScreenInv'
<1>1. /\ ScreenTypes /\ Shown /\ Drawn /\ ending = "flush" /\ Gfx!Emit(dirty) /\ dirty' = <<>>
      /\ UNCHANGED <<surfaces, outputMap, touched>>
  BY DEF ScreenInv, Gfx!FlushFrame, Gfx!surfaceVars
<1>2. IsSeq(dirty) /\ \A i \in DOMAIN dirty : dirty[i].s \in Surfaces /\ dirty[i].cells \subseteq Gfx!Cells
  BY <1>1 DEF ScreenTypes
<1>3. \A x \in Gfx!ScreenCells :
          \/ /\ \A s \in Surfaces : Gfx!Exists(s) => ~Dirty(s, x)
             /\ screen'[x] = screen[x] /\ owner'[x] = owner[x]
          \/ \E s \in Surfaces :
                /\ Gfx!Exists(s) /\ x - Gfx!Origin(s) \in Gfx!Cells
                /\ owner'[x].s = s /\ owner'[x].at = Gfx!Origin(s)
                /\ screen'[x] = surfaces[s][x - Gfx!Origin(s)]
  <2> TAKE x \in Gfx!ScreenCells
  <2>1. CASE \E i \in DOMAIN dirty :
                 /\ surfaces'[dirty[i].s] # <<>> /\ x - Gfx!Origin(dirty[i].s) \in dirty[i].cells
                 /\ owner'[x].s = dirty[i].s /\ owner'[x].at = Gfx!Origin(dirty[i].s)
                 /\ screen'[x] = surfaces'[dirty[i].s][x - Gfx!Origin(dirty[i].s)]
    BY <1>1, <1>2, <2>1 DEF Gfx!Exists, Gfx!NoSurface
  <2>2. CASE /\ \A i \in DOMAIN dirty : surfaces'[dirty[i].s] # <<>> =>
                     x - Gfx!Origin(dirty[i].s) \notin dirty[i].cells
             /\ screen'[x] = screen[x] /\ owner'[x] = owner[x]
    BY <1>1, <2>2 DEF Gfx!Exists, Gfx!NoSurface, Dirty
  <2> QED BY <1>1, <1>2, <2>1, <2>2, EmitShows
<1>4. \A x \in Gfx!ScreenCells :
          owner'[x].s \in Surfaces \cup {0, -1} /\ owner'[x].at \in Gfx!Origins
  BY <1>1, <1>3, Places DEF ScreenTypes
<1>5. \A s \in Surfaces : Gfx!Exists(s)' = Gfx!Exists(s) /\ Gfx!Origin(s)' = Gfx!Origin(s)
  BY <1>1 DEF Gfx!Exists, Gfx!Origin
<1>6. ScreenTypes'
  <2>1. IsSeq(dirty') /\ DOMAIN dirty' = {}
    BY <1>1, CountOne
  <2> QED BY <1>1, <1>4, <1>5, <2>1 DEF ScreenTypes
<1>7. Shown'
  <2> SUFFICES ASSUME NEW x \in Gfx!ScreenCells, NEW o \in Surfaces, NEW at \in Gfx!Origins,
                      owner'[x].s = o, owner'[x].at = at
               PROVE  /\ Gfx!Exists(o) /\ x - at \in Gfx!Cells
                      /\ outputMap[o] = -1 => at = 0
                      /\ Gfx!Origin(o) = at => screen'[x] = surfaces[o][x - at]
    BY <1>1, <1>5 DEF Shown
  <2>1. CASE \E s \in Surfaces :
                /\ Gfx!Exists(s) /\ x - Gfx!Origin(s) \in Gfx!Cells
                /\ owner'[x].s = s /\ owner'[x].at = Gfx!Origin(s)
                /\ screen'[x] = surfaces[s][x - Gfx!Origin(s)]
    BY <1>1, <2>1, Places
  <2>2. CASE /\ \A s \in Surfaces : Gfx!Exists(s) => ~Dirty(s, x)
             /\ screen'[x] = screen[x] /\ owner'[x] = owner[x]
    BY <1>1, <2>2 DEF Shown
  <2> QED BY <1>3, <2>1, <2>2
<1>8. Drawn'
  <2> SUFFICES ASSUME NEW x \in Gfx!ScreenCells, NEW r \in Surfaces, outputMap[r] # -1,
                      x - outputMap[r] \in touched[r]
               PROVE  owner'[x].s # 0
    BY <1>1 DEF Drawn
  <2>1. Gfx!Exists(r) /\ (owner[x].s # 0 \/ Dirty(r, x))
    BY <1>1 DEF Drawn, ScreenTypes
  <2> QED BY <1>1, <1>3, <2>1, Places
<1>9. Deferred'
  BY <1>1 DEF Deferred
<1> QED BY <1>6, <1>7, <1>8, <1>9 DEF ScreenInv

\* Nothing that the screen is about changes.
LEMMA ScreenStays ==
    ASSUME ScreenInv, UNCHANGED <<surfaces, outputMap, touched, dirty, screen, owner>>, Deferred'
    PROVE  ScreenInv'
<1>1. ScreenTypes'
  BY DEF ScreenInv, ScreenTypes, Gfx!Exists
<1>2. Shown' /\ Drawn'
  BY DEF ScreenInv, Shown, Drawn, Dirty, Gfx!Exists, Gfx!Origin
<1> QED BY <1>1, <1>2 DEF ScreenInv

\* A surface comes.
LEMMA SurfaceComes == ASSUME ScreenInv, NEW s \in Surfaces, Gfx!CreateSurface(s) PROVE ScreenInv'
<1>1. /\ ~Gfx!Exists(s) /\ surfaces' = [surfaces EXCEPT ![s] = Gfx!White]
      /\ UNCHANGED <<outputMap, touched, dirty, screen, owner, inFrame, ending>>
  BY DEF Gfx!CreateSurface, Gfx!frameVars, Gfx!screenVars
<1>2. ScreenTypes /\ Shown /\ Drawn /\ Deferred
  BY DEF ScreenInv
<1>3. Gfx!White \in Contents /\ Gfx!White # <<>>
  <2>1. Gfx!White \in Contents
    BY DEF Gfx!White, Contents, Gfx!Colours
  <2> QED BY <2>1, ContentsExist
<1>4. /\ surfaces' \in [Surfaces -> Contents \cup {<<>>}] /\ surfaces'[s] = Gfx!White
      /\ \A r \in Surfaces : r # s => surfaces'[r] = surfaces[r]
  BY <1>1, <1>2, <1>3 DEF ScreenTypes
<1>5. \A r \in Surfaces : Gfx!Exists(r)' <=> r = s \/ Gfx!Exists(r)
  BY <1>3, <1>4 DEF Gfx!Exists, Gfx!NoSurface
<1>6. \A r \in Surfaces, x \in Gfx!ScreenCells : Dirty(r, x)' = Dirty(r, x) /\ Gfx!Origin(r)' = Gfx!Origin(r)
  BY <1>1 DEF Dirty, Gfx!Origin
<1>7. ScreenTypes'
  BY <1>1, <1>2, <1>4, <1>5 DEF ScreenTypes
<1>8. Shown'
  <2> SUFFICES ASSUME NEW x \in Gfx!ScreenCells, NEW o \in Surfaces, NEW at \in Gfx!Origins,
                      owner[x].s = o, owner[x].at = at
               PROVE  /\ Gfx!Exists(o)' /\ x - at \in Gfx!Cells
                      /\ outputMap[o] = -1 => at = 0
                      /\ Gfx!Origin(o) = at => screen[x] = surfaces'[o][x - at] \/ Dirty(o, x)
    BY <1>1, <1>6 DEF Shown
  <2>1. /\ Gfx!Exists(o) /\ x - at \in Gfx!Cells /\ (outputMap[o] = -1 => at = 0)
        /\ Gfx!Origin(o) = at => screen[x] = surfaces[o][x - at] \/ Dirty(o, x)
    BY <1>2 DEF Shown
  <2>2. o # s
    BY <1>1, <2>1
  <2> QED BY <1>4, <1>5, <2>1, <2>2
<1>9. Drawn'
  BY <1>1, <1>2, <1>6 DEF Drawn
<1>10. Deferred'
  BY <1>1, <1>2 DEF Deferred
<1> QED BY <1>7, <1>8, <1>9, <1>10 DEF ScreenInv

\* A surface goes, and what the screen shows of it belongs to nobody.
LEMMA SurfaceGoes == ASSUME ScreenInv, NEW s \in Surfaces, Gfx!DeleteSurface(s) PROVE ScreenInv'
<1>1. /\ surfaces' = [surfaces EXCEPT ![s] = <<>>] /\ outputMap' = [outputMap EXCEPT ![s] = -1]
      /\ touched' = [touched EXCEPT ![s] = {}]
      /\ owner' = [x \in Gfx!ScreenCells |-> IF owner[x].s = s THEN Gfx!Deleted ELSE owner[x]]
      /\ UNCHANGED <<dirty, screen, inFrame, ending>>
  BY DEF Gfx!DeleteSurface, Gfx!frameVars, Gfx!NoSurface
<1>2. ScreenTypes /\ Shown /\ Drawn /\ Deferred
  BY DEF ScreenInv
<1>3. /\ surfaces' \in [Surfaces -> Contents \cup {<<>>}] /\ surfaces'[s] = <<>>
      /\ \A r \in Surfaces : r # s => surfaces'[r] = surfaces[r]
  BY <1>1, <1>2 DEF ScreenTypes
<1>4. /\ outputMap' \in [Surfaces -> {-1} \cup Gfx!Origins] /\ outputMap'[s] = -1
      /\ touched' \in [Surfaces -> SUBSET Gfx!Cells] /\ touched'[s] = {}
      /\ \A r \in Surfaces : r # s => outputMap'[r] = outputMap[r] /\ touched'[r] = touched[r]
  BY <1>1, <1>2 DEF ScreenTypes
<1>5. /\ \A r \in Surfaces : r # s => (Gfx!Exists(r)' <=> Gfx!Exists(r))
      /\ ~Gfx!Exists(s)'
  BY <1>3 DEF Gfx!Exists, Gfx!NoSurface
<1>6. \A r \in Surfaces : r # s => Gfx!Origin(r)' = Gfx!Origin(r)
  BY <1>4 DEF Gfx!Origin
<1>7. \A r \in Surfaces, x \in Gfx!ScreenCells : r # s => (Dirty(r, x)' <=> Dirty(r, x))
  BY <1>1, <1>6 DEF Dirty
<1>8. \A x \in Gfx!ScreenCells :
          \/ owner[x].s = s /\ owner'[x].s = -1 /\ owner'[x].at = 0
          \/ owner[x].s # s /\ owner'[x].s = owner[x].s /\ owner'[x].at = owner[x].at
  BY <1>1 DEF Gfx!Deleted
<1>9. ScreenTypes'
  <2>1. \A x \in Gfx!ScreenCells :
            owner'[x].s \in Surfaces \cup {0, -1} /\ owner'[x].at \in Gfx!Origins
    BY <1>2, <1>8 DEF ScreenTypes, Gfx!Origins
  <2>2. \A r \in Surfaces : ~Gfx!Exists(r)' => outputMap'[r] = -1
    BY <1>2, <1>4, <1>5 DEF ScreenTypes
  <2>3. \A r \in Surfaces : outputMap'[r] = -1 => touched'[r] = {}
    BY <1>2, <1>4 DEF ScreenTypes
  <2> QED BY <1>1, <1>2, <1>3, <1>4, <2>1, <2>2, <2>3 DEF ScreenTypes
<1>10. Shown'
  <2> SUFFICES ASSUME NEW x \in Gfx!ScreenCells, NEW o \in Surfaces, NEW at \in Gfx!Origins,
                      owner'[x].s = o, owner'[x].at = at
               PROVE  /\ Gfx!Exists(o)' /\ x - at \in Gfx!Cells
                      /\ outputMap'[o] = -1 => at = 0
                      /\ Gfx!Origin(o)' = at => screen'[x] = surfaces'[o][x - at] \/ Dirty(o, x)'
    BY DEF Shown
  <2>1. o # s /\ owner[x].s = o /\ owner[x].at = at
    BY <1>2, <1>8, Places
  <2>2. /\ Gfx!Exists(o) /\ x - at \in Gfx!Cells /\ (outputMap[o] = -1 => at = 0)
        /\ Gfx!Origin(o) = at => screen[x] = surfaces[o][x - at] \/ Dirty(o, x)
    BY <1>2, <2>1 DEF Shown
  <2> QED BY <1>1, <1>3, <1>4, <1>5, <1>6, <1>7, <2>1, <2>2
<1>11. Drawn'
  <2> SUFFICES ASSUME NEW x \in Gfx!ScreenCells, NEW r \in Surfaces, outputMap'[r] # -1,
                      x - outputMap'[r] \in touched'[r]
               PROVE  owner'[x].s # 0 \/ Dirty(r, x)'
    BY DEF Drawn
  <2>1. r # s /\ (owner[x].s # 0 \/ Dirty(r, x))
    BY <1>2, <1>4 DEF Drawn
  <2> QED BY <1>7, <1>8, <2>1
<1>12. Deferred'
  BY <1>1, <1>2 DEF Deferred
<1> QED BY <1>9, <1>10, <1>11, <1>12 DEF ScreenInv

\* A surface gets its place.
LEMMA SurfacePlaced ==
    ASSUME ScreenInv, NEW s \in Surfaces, Gfx!MapSurfaceToOutput(s)
    PROVE  ScreenInv'
<1>1. PICK p \in Gfx!Origins : outputMap' = [outputMap EXCEPT ![s] = p]
  BY DEF Gfx!MapSurfaceToOutput
<1>2. /\ Gfx!Exists(s) /\ outputMap[s] = -1
      /\ UNCHANGED <<surfaces, touched, owner, dirty, screen, inFrame, ending>>
  BY DEF Gfx!MapSurfaceToOutput, Gfx!frameVars, Gfx!screenVars
<1>3. ScreenTypes /\ Shown /\ Drawn /\ Deferred
  BY DEF ScreenInv
<1>4. /\ outputMap' \in [Surfaces -> {-1} \cup Gfx!Origins] /\ outputMap'[s] = p
      /\ \A r \in Surfaces : r # s => outputMap'[r] = outputMap[r]
  BY <1>1, <1>3 DEF ScreenTypes
<1>5. p # -1 /\ Gfx!Origin(s)' = p /\ Gfx!Origin(s) = 0
  BY <1>2, <1>4 DEF Gfx!Origin, Gfx!Origins
<1>6. \A r \in Surfaces : (Gfx!Exists(r)' <=> Gfx!Exists(r)) /\ (r # s => Gfx!Origin(r)' = Gfx!Origin(r))
  BY <1>2, <1>4 DEF Gfx!Exists, Gfx!Origin
<1>7. \A r \in Surfaces, x \in Gfx!ScreenCells : r # s \/ p = 0 => (Dirty(r, x)' <=> Dirty(r, x))
  BY <1>2, <1>5, <1>6 DEF Dirty
<1>8. ScreenTypes'
  <2>1. \A r \in Surfaces : ~Gfx!Exists(r)' => outputMap'[r] = -1
    BY <1>2, <1>3, <1>4, <1>6 DEF ScreenTypes
  <2>2. \A r \in Surfaces : outputMap'[r] = -1 => touched'[r] = {}
    BY <1>2, <1>3, <1>4, <1>5 DEF ScreenTypes
  <2> QED BY <1>2, <1>3, <1>4, <2>1, <2>2 DEF ScreenTypes
<1>9. Shown'
  <2> SUFFICES ASSUME NEW x \in Gfx!ScreenCells, NEW o \in Surfaces, NEW at \in Gfx!Origins,
                      owner[x].s = o, owner[x].at = at
               PROVE  /\ Gfx!Exists(o)' /\ x - at \in Gfx!Cells
                      /\ outputMap'[o] = -1 => at = 0
                      /\ Gfx!Origin(o)' = at => screen[x] = surfaces[o][x - at] \/ Dirty(o, x)'
    BY <1>2 DEF Shown
  <2>1. /\ Gfx!Exists(o) /\ x - at \in Gfx!Cells /\ (outputMap[o] = -1 => at = 0)
        /\ Gfx!Origin(o) = at => screen[x] = surfaces[o][x - at] \/ Dirty(o, x)
    BY <1>3 DEF Shown
  <2> QED BY <1>2, <1>4, <1>5, <1>6, <1>7, <2>1
<1>10. Drawn'
  <2> SUFFICES ASSUME NEW x \in Gfx!ScreenCells, NEW r \in Surfaces, outputMap'[r] # -1,
                      x - outputMap'[r] \in touched[r]
               PROVE  owner[x].s # 0 \/ Dirty(r, x)'
    BY <1>2 DEF Drawn
  <2>1. r # s
    BY <1>2, <1>3 DEF ScreenTypes
  <2> QED BY <1>3, <1>4, <1>7, <2>1 DEF Drawn
<1>11. Deferred'
  BY <1>2, <1>3 DEF Deferred
<1> QED BY <1>8, <1>9, <1>10, <1>11 DEF ScreenInv

\* All surfaces go.
LEMMA SurfacesGo == ASSUME ScreenInv, Gfx!ResetGraphics PROVE ScreenInv'
<1>1. /\ surfaces' = [s \in Surfaces |-> <<>>] /\ outputMap' = [s \in Surfaces |-> -1]
      /\ touched' = [s \in Surfaces |-> {}] /\ dirty' = <<>>
      /\ owner' = [x \in Gfx!ScreenCells |-> Gfx!Nobody]
  BY DEF Gfx!ResetGraphics, Gfx!NoSurface
<1>2. \A x \in Gfx!ScreenCells : owner'[x].s = 0 /\ owner'[x].at = 0
  BY <1>1 DEF Gfx!Nobody
<1>3. IsSeq(dirty') /\ DOMAIN dirty' = {}
  BY <1>1, CountOne
<1>4. ScreenTypes'
  BY <1>1, <1>2, <1>3 DEF ScreenTypes, Gfx!Origins
<1>5. Shown'
  BY <1>2, EndpointsAssumption DEF EndpointsAssumption, Shown
<1>6. Drawn' /\ Deferred'
  BY <1>1 DEF Drawn, Deferred
<1> QED BY <1>4, <1>5, <1>6 DEF ScreenInv

(***************************************************************************)
(* The graphics pipeline: what the surfaces and the cache hold.            *)
(***************************************************************************)

\* The copy of a run of cells, one cell after the other: a step, the run, and what is
\* there after i cells.
CopyStep(p, q, src, dst, f, i) ==
    IF i = 0 THEN q ELSE [f[i - 1] EXCEPT ![dst + i - 1] = p[src + i - 1]]
Copied(p, q, src, dst, n) == CHOOSE f : f = [i \in 0..n |-> CopyStep(p, q, src, dst, f, i)]
After(p, q, src, dst, i) ==
    [c \in Gfx!Cells |-> IF c \in dst..(dst + i - 1) THEN p[c - dst + src] ELSE q[c]]

\* One more cell is copied.
LEMMA CellCopied ==
    ASSUME NEW p, NEW q, NEW src \in Nat, NEW dst \in Nat, NEW i \in Nat \ {0},
           dst + i - 1 \in Gfx!Cells
    PROVE  [After(p, q, src, dst, i - 1) EXCEPT ![dst + i - 1] = p[src + i - 1]]
               = After(p, q, src, dst, i)
<1> DEFINE a == After(p, q, src, dst, i - 1)   b == After(p, q, src, dst, i)
           d == dst + i - 1   e == p[src + i - 1]
<1>1. a = [c \in Gfx!Cells |-> a[c]] /\ b = [c \in Gfx!Cells |-> b[c]]
  BY DEF After
<1>2. \A c \in Gfx!Cells :
          /\ c \in Int
          /\ a[c] = IF dst <= c /\ c <= d - 1 THEN p[c - dst + src] ELSE q[c]
          /\ b[c] = IF dst <= c /\ c <= d THEN p[c - dst + src] ELSE q[c]
  BY EndpointsAssumption DEF EndpointsAssumption, After, Gfx!Cells
<1>3. d - dst + src = src + i - 1 /\ dst <= d /\ d \in Int
  OBVIOUS
<1>4. p[d - dst + src] = e
  BY <1>3
<1>5. d \in Gfx!Cells
  OBVIOUS
<1> HIDE DEF a, b, d, e
<1>6. ASSUME NEW c \in Gfx!Cells PROVE [a EXCEPT ![d] = e][c] = b[c]
  <2>1. CASE c = d
    BY <1>1, <1>2, <1>3, <1>4, <1>5, <2>1
  <2>2. CASE c # d
    BY <1>1, <1>2, <1>3, <2>2
  <2> QED BY <2>1, <2>2
<1>7. [a EXCEPT ![d] = e] = [c \in Gfx!Cells |-> [a EXCEPT ![d] = e][c]]
  BY <1>1
<1>8. [a EXCEPT ![d] = e] = b
  BY <1>1, <1>6, <1>7
<1> QED BY <1>8 DEF a, b, d, e

\* The run of the copy is a function, so it copies the cells of the run and no other.
LEMMA RunCopied ==
    ASSUME NEW p, NEW q \in Contents, NEW src \in Nat, NEW dst \in Nat, NEW n \in Nat,
           \A i \in 1..n : dst + i - 1 \in Gfx!Cells
    PROVE  Copied(p, q, src, dst, n)[n] = After(p, q, src, dst, n)
<1> DEFINE f == Copied(p, q, src, dst, n)
           g == [i \in 0..n |-> After(p, q, src, dst, i)]
<1>1. After(p, q, src, dst, 0) = q
  <2>1. \A c \in Gfx!Cells : c \notin dst..(dst + 0 - 1)
    OBVIOUS
  <2>2. q = [c \in Gfx!Cells |-> q[c]]
    BY DEF Contents
  <2> QED BY <2>1, <2>2 DEF After
<1>2. \A i \in 1..n : [After(p, q, src, dst, i - 1) EXCEPT ![dst + i - 1] = p[src + i - 1]]
                          = After(p, q, src, dst, i)
  BY CellCopied
<1>3. \A i \in 0..n : g[i] = After(p, q, src, dst, i)
  OBVIOUS
<1>4. g = [i \in 0..n |-> g[i]]
  OBVIOUS
<1> HIDE DEF g
<1>5. ASSUME NEW i \in 0..n PROVE g[i] = CopyStep(p, q, src, dst, g, i)
  <2>1. CASE i = 0
    BY <1>1, <1>3, <2>1 DEF CopyStep
  <2>2. CASE i # 0
    <3>1. i \in 1..n /\ i - 1 \in 0..n
      BY <2>2
    <3>2. g[i - 1] = After(p, q, src, dst, i - 1) /\ g[i] = After(p, q, src, dst, i)
      BY <1>3, <3>1
    <3> QED BY <1>2, <2>2, <3>1, <3>2 DEF CopyStep
  <2> QED BY <2>1, <2>2
<1>6. g = [i \in 0..n |-> CopyStep(p, q, src, dst, g, i)]
  BY <1>4, <1>5
<1>7. f = [i \in 0..n |-> CopyStep(p, q, src, dst, f, i)]
  BY <1>6 DEF Copied
<1> HIDE DEF f
<1>8. \A i \in 0..n : f[i] = CopyStep(p, q, src, dst, f, i)
  <2> DEFINE e == [i \in 0..n |-> CopyStep(p, q, src, dst, f, i)]
  <2>1. \A i \in 0..n : e[i] = CopyStep(p, q, src, dst, f, i)
    OBVIOUS
  <2>2. f = e
    BY <1>7
  <2> HIDE DEF e
  <2> QED BY <2>1, <2>2
<1> DEFINE T == {i \in 0..n : f[i] # After(p, q, src, dst, i)}
<1>9. T = {}
  <2> SUFFICES ASSUME T # {} PROVE FALSE
    OBVIOUS
  <2>1. T \subseteq Nat
    OBVIOUS
  <2>2. PICK i \in T : \A j \in T : i <= j
    <3> HIDE DEF T
    <3> QED BY <2>1, LeastNumber
  <2>3. i \in 0..n /\ f[i] # After(p, q, src, dst, i)
    BY <2>2
  <2>4. i # 0
    <3>1. 0 \in 0..n /\ CopyStep(p, q, src, dst, f, 0) = q
      BY DEF CopyStep
    <3>2. f[0] = q
      BY <1>8, <3>1
    <3> QED BY <1>1, <2>3, <3>2
  <2>5. i - 1 \in 0..n /\ i \in 1..n
    BY <2>3, <2>4
  <2>6. f[i - 1] = After(p, q, src, dst, i - 1)
    <3>1. i - 1 \notin T
      BY <2>2, <2>5
    <3> QED BY <2>5, <3>1
  <2>7. f[i] = [f[i - 1] EXCEPT ![dst + i - 1] = p[src + i - 1]]
    BY <1>8, <2>4, <2>3 DEF CopyStep
  <2> QED BY <1>2, <2>3, <2>5, <2>6, <2>7
<1>10. f[n] = After(p, q, src, dst, n)
  BY <1>9
<1> QED BY <1>10 DEF f

\* What is copied from one surface to another.
LEMMA CellsCopied ==
    ASSUME NEW from \in Surfaces, NEW to \in Surfaces, surfaces[to] \in Contents,
           NEW src \in {0, 1}, NEW dst \in {0, 1}
    PROVE  Gfx!CopyCells(from, to, src, dst, Width - 1)
               = After(surfaces[from], surfaces[to], src, dst, Width - 1)
<1>1. Width - 1 \in Nat /\ \A i \in 1..(Width - 1) : dst + i - 1 \in Gfx!Cells
  BY EndpointsAssumption DEF EndpointsAssumption, Gfx!Cells
<1>2. Gfx!CopyCells(from, to, src, dst, Width - 1)
          = Copied(surfaces[from], surfaces[to], src, dst, Width - 1)[Width - 1]
  BY DEF Gfx!CopyCells, Copied, CopyStep
<1> QED BY <1>1, <1>2, RunCopied

\* What the client holds is what the commands mean, and so is what it kept of tiles.
KeptTiles == [Surfaces -> [Gfx!Cells -> {"none", "ink"}]]
ContentInv ==
    /\ Gfx!SurfacesAgree /\ cache \in Gfx!Colours \cup {"none"}
    /\ progressive \in KeptTiles /\ srvTiles \in KeptTiles
    /\ \A s \in Surfaces : IF Gfx!Exists(s) THEN srvTiles[s] = progressive[s]
                           ELSE progressive[s] = Gfx!NoTiles

\* Surfaces that exist hold contents.
LEMMA SurfaceHolds ==
    ASSUME ScreenTypes, NEW s \in Surfaces, Gfx!Exists(s)
    PROVE  surfaces[s] \in Contents
BY DEF ScreenTypes, Gfx!Exists, Gfx!NoSurface

\* A surface gets the content that its command means.
LEMMA ContentPainted ==
    ASSUME ScreenTypes, ContentInv, NEW s \in Surfaces, NEW f \in Contents, Gfx!Exists(s),
           surfaces' = [surfaces EXCEPT ![s] = f], srvSurfaces' = [srvSurfaces EXCEPT ![s] = f],
           cache' = cache, srvCache' = srvCache,
           progressive' \in KeptTiles, srvTiles' \in KeptTiles, progressive'[s] = srvTiles'[s],
           \A r \in Surfaces : r # s => /\ progressive'[r] = progressive[r]
                                        /\ srvTiles'[r] = srvTiles[r]
    PROVE  ContentInv'
<1>1. surfaces'[s] = f /\ \A r \in Surfaces : r # s => surfaces'[r] = surfaces[r]
  BY DEF ScreenTypes
<1>2. f # <<>>
  BY ContentsExist
<1>3. \A r \in Surfaces : Gfx!Exists(r)' <=> Gfx!Exists(r)
  BY <1>1, <1>2 DEF Gfx!Exists, Gfx!NoSurface
<1>4. surfaces' = srvSurfaces' /\ cache' = srvCache'
  BY DEF ContentInv, Gfx!SurfacesAgree
<1>5. ASSUME NEW r \in Surfaces
      PROVE  IF Gfx!Exists(r)' THEN srvTiles'[r] = progressive'[r]
             ELSE progressive'[r] = Gfx!NoTiles
  <2>1. CASE r = s
    BY <1>3, <2>1
  <2>2. CASE r # s
    BY <1>3, <2>2 DEF ContentInv
  <2> QED BY <2>1, <2>2
<1>6. cache' \in Gfx!Colours \cup {"none"}
  BY DEF ContentInv
<1> QED BY <1>4, <1>5, <1>6 DEF ContentInv, Gfx!SurfacesAgree

\* A fill gives cells a colour.
LEMMA CellFilled ==
    ASSUME ScreenInv, ContentInv, NEW s \in Surfaces, NEW c \in Gfx!Cells, NEW k \in Gfx!Colours,
           Gfx!SolidFill(s, {c}, k)
    PROVE  ScreenInv' /\ ContentInv'
<1> DEFINE f == [d \in Gfx!Cells |-> IF d \in {c} THEN k ELSE surfaces[s][d]]
<1>1. /\ Gfx!Exists(s) /\ ending = "none" /\ Gfx!Paint(s, {c}, f)
      /\ UNCHANGED <<srvCache, srvTiles, cache, progressive>>
  BY DEF Gfx!SolidFill, Gfx!Command, Gfx!None
<1>2. srvSurfaces' = [srvSurfaces EXCEPT ![s] = f]
  BY DEF Gfx!SolidFill, ContentInv, Gfx!SurfacesAgree
<1>3. surfaces' = [surfaces EXCEPT ![s] = f]
  BY <1>1 DEF Gfx!Paint
<1>4. ScreenTypes /\ surfaces[s] \in Contents
  BY <1>1, SurfaceHolds DEF ScreenInv
<1>5. f \in Contents /\ \A d \in Gfx!Cells : d \notin {c} => f[d] = surfaces[s][d]
  BY <1>4 DEF Contents
<1>6. /\ progressive' \in KeptTiles /\ srvTiles' \in KeptTiles /\ progressive'[s] = srvTiles'[s]
      /\ \A r \in Surfaces : progressive'[r] = progressive[r] /\ srvTiles'[r] = srvTiles[r]
  BY <1>1 DEF ContentInv
<1> HIDE DEF f
<1>7. ContentInv'
  BY <1>1, <1>2, <1>3, <1>4, <1>5, <1>6, ContentPainted
<1>8. {c} \in SUBSET Gfx!Cells
  OBVIOUS
<1>9. ScreenInv'
  BY <1>1, <1>5, <1>8, PaintShows
<1> QED BY <1>7, <1>9

\* A cell is painted from the cache, which the server has as well.
LEMMA CellFromCache ==
    ASSUME ScreenInv, ContentInv, NEW s \in Surfaces, NEW c \in Gfx!Cells,
           Gfx!CacheToSurface(s, c)
    PROVE  ScreenInv' /\ ContentInv'
<1> DEFINE f == [surfaces[s] EXCEPT ![c] = cache]
<1>1. /\ Gfx!Exists(s) /\ ending = "none" /\ cache # "none" /\ Gfx!Paint(s, {c}, f)
      /\ UNCHANGED <<srvCache, srvTiles, cache, progressive>>
  BY DEF Gfx!CacheToSurface, Gfx!Command, Gfx!None
<1>2. srvSurfaces' = [srvSurfaces EXCEPT ![s] = f]
  BY DEF Gfx!CacheToSurface, ContentInv, Gfx!SurfacesAgree
<1>3. surfaces' = [surfaces EXCEPT ![s] = f]
  BY <1>1 DEF Gfx!Paint
<1>4. ScreenTypes /\ surfaces[s] \in Contents /\ cache \in Gfx!Colours
  BY <1>1, SurfaceHolds DEF ScreenInv, ContentInv
<1>5. f \in Contents /\ \A d \in Gfx!Cells : d \notin {c} => f[d] = surfaces[s][d]
  BY <1>4 DEF Contents
<1>6. /\ progressive' \in KeptTiles /\ srvTiles' \in KeptTiles /\ progressive'[s] = srvTiles'[s]
      /\ \A r \in Surfaces : progressive'[r] = progressive[r] /\ srvTiles'[r] = srvTiles[r]
  BY <1>1 DEF ContentInv
<1> HIDE DEF f
<1>7. ContentInv'
  BY <1>1, <1>2, <1>3, <1>4, <1>5, <1>6, ContentPainted
<1>8. {c} \in SUBSET Gfx!Cells
  OBVIOUS
<1>9. ScreenInv'
  BY <1>1, <1>5, <1>8, PaintShows
<1> QED BY <1>7, <1>9

\* A run of cells is copied, from another surface or within one.
LEMMA SurfaceCopied ==
    ASSUME ScreenInv, ContentInv, NEW from \in Surfaces, NEW to \in Surfaces,
           NEW src \in {0, 1}, NEW dst \in {0, 1}, Gfx!SurfaceToSurface(from, to, src, dst)
    PROVE  ScreenInv' /\ ContentInv'
<1> DEFINE n == Width - 1
           run == dst..(dst + n - 1)
           f == After(surfaces[from], surfaces[to], src, dst, n)
<1>1. /\ Gfx!Exists(from) /\ Gfx!Exists(to) /\ src # dst /\ ending = "none"
      /\ Gfx!Paint(to, run, Gfx!CopyCells(from, to, src, dst, n))
      /\ UNCHANGED <<srvCache, srvTiles, cache, progressive>>
  BY DEF Gfx!SurfaceToSurface, Gfx!Command, Gfx!None
<1>2. ScreenTypes /\ surfaces[from] \in Contents /\ surfaces[to] \in Contents
  BY <1>1, SurfaceHolds DEF ScreenInv
<1>3. Gfx!CopyCells(from, to, src, dst, n) = f
  BY <1>2, CellsCopied
<1>4. Gfx!Paint(to, run, f)
  BY <1>1, <1>3
<1>5. surfaces' = [surfaces EXCEPT ![to] = f]
  BY <1>4 DEF Gfx!Paint
<1>6. srvSurfaces' = [srvSurfaces EXCEPT ![to] = f]
  BY DEF Gfx!SurfaceToSurface, ContentInv, Gfx!SurfacesAgree, After
<1>7. run \in SUBSET Gfx!Cells
  BY EndpointsAssumption DEF EndpointsAssumption, Gfx!Cells
<1>8. \A c \in Gfx!Cells : c \in run => c - dst + src \in Gfx!Cells
  BY <1>1, EndpointsAssumption DEF EndpointsAssumption, Gfx!Cells
<1>9. \A c \in Gfx!Cells : f[c] = IF c \in run THEN surfaces[from][c - dst + src] ELSE surfaces[to][c]
  BY DEF After
<1>10. f = [c \in Gfx!Cells |-> f[c]]
  BY DEF After
<1>11. /\ progressive' \in KeptTiles /\ srvTiles' \in KeptTiles /\ progressive'[to] = srvTiles'[to]
       /\ \A r \in Surfaces : progressive'[r] = progressive[r] /\ srvTiles'[r] = srvTiles[r]
  BY <1>1 DEF ContentInv
<1> HIDE DEF f, run
<1>12. f \in Contents /\ \A c \in Gfx!Cells : c \notin run => f[c] = surfaces[to][c]
  <2>1. \A c \in Gfx!Cells : f[c] \in Gfx!Colours
    BY <1>2, <1>8, <1>9 DEF Contents
  <2> QED BY <1>9, <1>10, <2>1 DEF Contents
<1>13. ContentInv'
  BY <1>1, <1>2, <1>5, <1>6, <1>11, <1>12, ContentPainted
<1>14. ScreenInv'
  BY <1>1, <1>4, <1>7, <1>12, PaintShows
<1> QED BY <1>13, <1>14

\* A tile is decoded, and the region shows it with the tiles there were.
LEMMA TilesShown ==
    ASSUME ScreenInv, ContentInv, NEW s \in Surfaces, NEW tile \in Gfx!Cells,
           Gfx!WireToSurface2(s, tile)
    PROVE  ScreenInv' /\ ContentInv'
<1> DEFINE region == {tile, (tile + 1) % Width}
           tiles == [progressive[s] EXCEPT ![tile] = "ink"]
           cs == {c \in region : tiles[c] # "none"}
           f == Gfx!Blit(tiles, region, surfaces[s])
<1>1. /\ progressive \in KeptTiles /\ srvTiles \in KeptTiles /\ surfaces = srvSurfaces
      /\ Gfx!Exists(s) /\ ending = "none" /\ srvTiles[s] = progressive[s]
  BY DEF ContentInv, Gfx!SurfacesAgree, Gfx!WireToSurface2, Gfx!Command, Gfx!None
<1>2. ScreenTypes /\ surfaces[s] \in Contents
  BY <1>1, SurfaceHolds DEF ScreenInv
<1>3. progressive' = [progressive EXCEPT ![s] = tiles] /\ srvTiles' = [srvTiles EXCEPT ![s] = tiles]
  BY <1>1 DEF Gfx!WireToSurface2, KeptTiles
<1>4. tiles \in [Gfx!Cells -> {"none", "ink"}]
  BY <1>1 DEF KeptTiles
<1>5. /\ progressive' \in KeptTiles /\ srvTiles' \in KeptTiles
      /\ progressive'[s] = tiles /\ srvTiles'[s] = tiles
      /\ \A r \in Surfaces : r # s => progressive'[r] = progressive[r] /\ srvTiles'[r] = srvTiles[r]
  <2> HIDE DEF tiles
  <2> QED BY <1>1, <1>3, <1>4 DEF KeptTiles
<1>6. Gfx!Paint(s, {c \in region : progressive'[s][c] # "none"},
                Gfx!Blit(progressive'[s], region, surfaces[s]))
      /\ srvSurfaces' = [srvSurfaces EXCEPT ![s] = Gfx!Blit(srvTiles'[s], region, srvSurfaces[s])]
      /\ UNCHANGED <<srvCache, cache>>
  BY <1>1 DEF Gfx!WireToSurface2, Gfx!Region, Gfx!None, Gfx!Blit
<1>7. Gfx!Paint(s, cs, f) /\ srvSurfaces' = [srvSurfaces EXCEPT ![s] = f]
  <2> HIDE DEF tiles, region
  <2> QED BY <1>1, <1>5, <1>6
<1>8. surfaces' = [surfaces EXCEPT ![s] = f]
  BY <1>7 DEF Gfx!Paint
<1>9. (tile + 1) % Width \in Gfx!Cells
  BY EndpointsAssumption DEF EndpointsAssumption, Gfx!Cells
<1>10. cs \in SUBSET Gfx!Cells
  BY <1>9
<1>11. /\ f = [c \in Gfx!Cells |-> f[c]]
       /\ \A c \in Gfx!Cells : f[c] = IF c \in cs THEN tiles[c] ELSE surfaces[s][c]
  BY DEF Gfx!Blit, Gfx!None
<1>12. \A c \in cs : tiles[c] = "ink"
  <2> HIDE DEF tiles, region
  <2> QED BY <1>4, <1>10
<1> HIDE DEF f, cs, tiles, region
<1>13. f \in Contents /\ \A c \in Gfx!Cells : c \notin cs => f[c] = surfaces[s][c]
  <2>1. \A c \in Gfx!Cells : f[c] \in Gfx!Colours
    BY <1>2, <1>11, <1>12 DEF Contents, Gfx!Colours
  <2> QED BY <1>11, <2>1 DEF Contents
<1>14. ContentInv'
  BY <1>1, <1>2, <1>5, <1>6, <1>7, <1>8, <1>13, ContentPainted
<1>15. ScreenInv'
  BY <1>1, <1>7, <1>10, <1>13, PaintShows
<1> QED BY <1>14, <1>15

\* Nothing that the commands mean changes, but possibly what is in the cache.
LEMMA ContentStays ==
    ASSUME ContentInv, UNCHANGED <<surfaces, srvSurfaces, progressive, srvTiles>>,
           cache' = srvCache', cache' \in Gfx!Colours \cup {"none"}
    PROVE  ContentInv'
BY DEF ContentInv, Gfx!SurfacesAgree, Gfx!Exists

\* Surfaces come and go.
LEMMA ContentComesAndGoes ==
    ASSUME ScreenTypes, ContentInv,
           \/ \E s \in Surfaces : Gfx!CreateSurface(s) \/ Gfx!DeleteSurface(s)
           \/ Gfx!ResetGraphics
    PROVE  ContentInv'
<1>1. Gfx!NoTiles \in [Gfx!Cells -> {"none", "ink"}]
  BY DEF Gfx!NoTiles, Gfx!None
<1>2. Gfx!White # <<>>
  <2>1. Gfx!White \in Contents
    BY DEF Gfx!White, Contents, Gfx!Colours
  <2> QED BY <2>1, ContentsExist
<1> HIDE DEF Gfx!NoTiles, Gfx!White
<1>3. ASSUME NEW s \in Surfaces, Gfx!CreateSurface(s) PROVE ContentInv'
  <2>1. /\ ~Gfx!Exists(s) /\ srvSurfaces' = [srvSurfaces EXCEPT ![s] = Gfx!White]
        /\ srvTiles' = [srvTiles EXCEPT ![s] = Gfx!NoTiles]
        /\ surfaces' = [surfaces EXCEPT ![s] = Gfx!White]
        /\ UNCHANGED <<srvCache, cache, progressive>>
    BY <1>3 DEF Gfx!CreateSurface
  <2>2. surfaces'[s] = Gfx!White /\ \A r \in Surfaces : r # s => surfaces'[r] = surfaces[r]
    BY <2>1 DEF ScreenTypes
  <2>3. \A r \in Surfaces : Gfx!Exists(r)' <=> r = s \/ Gfx!Exists(r)
    BY <1>2, <2>2 DEF Gfx!Exists, Gfx!NoSurface
  <2>4. srvTiles' \in KeptTiles /\ srvTiles'[s] = Gfx!NoTiles
        /\ \A r \in Surfaces : r # s => srvTiles'[r] = srvTiles[r]
    BY <1>1, <2>1 DEF ContentInv, KeptTiles
  <2>5. ASSUME NEW r \in Surfaces
        PROVE  IF Gfx!Exists(r)' THEN srvTiles'[r] = progressive'[r]
               ELSE progressive'[r] = Gfx!NoTiles
    BY <2>1, <2>3, <2>4 DEF ContentInv
  <2>6. surfaces' = srvSurfaces' /\ cache' = srvCache' /\ progressive' \in KeptTiles
        /\ cache' \in Gfx!Colours \cup {"none"}
    BY <2>1 DEF ContentInv, Gfx!SurfacesAgree
  <2> QED BY <2>4, <2>5, <2>6 DEF ContentInv, Gfx!SurfacesAgree
<1>4. ASSUME NEW s \in Surfaces, Gfx!DeleteSurface(s) PROVE ContentInv'
  <2>1. /\ srvSurfaces' = [srvSurfaces EXCEPT ![s] = <<>>]
        /\ progressive' = [progressive EXCEPT ![s] = Gfx!NoTiles]
        /\ surfaces' = [surfaces EXCEPT ![s] = <<>>]
        /\ UNCHANGED <<srvCache, cache, srvTiles>>
    BY <1>4 DEF Gfx!DeleteSurface, Gfx!ClearContext, Gfx!NoSurface
  <2>2. surfaces'[s] = <<>> /\ \A r \in Surfaces : r # s => surfaces'[r] = surfaces[r]
    BY <2>1 DEF ScreenTypes
  <2>3. \A r \in Surfaces : Gfx!Exists(r)' <=> r # s /\ Gfx!Exists(r)
    BY <2>2 DEF Gfx!Exists, Gfx!NoSurface
  <2>4. progressive' \in KeptTiles /\ progressive'[s] = Gfx!NoTiles
        /\ \A r \in Surfaces : r # s => progressive'[r] = progressive[r]
    BY <1>1, <2>1 DEF ContentInv, KeptTiles
  <2>5. ASSUME NEW r \in Surfaces
        PROVE  IF Gfx!Exists(r)' THEN srvTiles'[r] = progressive'[r]
               ELSE progressive'[r] = Gfx!NoTiles
    BY <2>1, <2>3, <2>4 DEF ContentInv
  <2>6. surfaces' = srvSurfaces' /\ cache' = srvCache' /\ srvTiles' \in KeptTiles
        /\ cache' \in Gfx!Colours \cup {"none"}
    BY <2>1 DEF ContentInv, Gfx!SurfacesAgree
  <2> QED BY <2>4, <2>5, <2>6 DEF ContentInv, Gfx!SurfacesAgree
<1>5. CASE Gfx!ResetGraphics
  <2>1. /\ srvSurfaces' = [s \in Surfaces |-> <<>>] /\ surfaces' = [s \in Surfaces |-> <<>>]
        /\ progressive' = [s \in Surfaces |-> Gfx!NoTiles]
        /\ UNCHANGED <<srvCache, cache, srvTiles>>
    BY <1>5 DEF Gfx!ResetGraphics, Gfx!ResetCache, Gfx!NoSurface
  <2>2. \A r \in Surfaces : ~Gfx!Exists(r)' /\ progressive'[r] = Gfx!NoTiles
    BY <2>1 DEF Gfx!Exists, Gfx!NoSurface
  <2>3. progressive' \in KeptTiles
    BY <1>1, <2>1 DEF KeptTiles
  <2> QED BY <2>1, <2>2, <2>3 DEF ContentInv, Gfx!SurfacesAgree
<1> QED BY <1>3, <1>4, <1>5

\* It all holds at the start.
GfxInv == FrameTypes /\ AckInv /\ ScreenInv /\ ContentInv

\* A pipeline starts with no surface, no frame and nothing held back.
LEMMA GfxStarts == Gfx!Init => GfxInv
<1> SUFFICES ASSUME Gfx!Init PROVE GfxInv
  OBVIOUS
<1>1. FrameTypes
  BY DEF Gfx!Init, FrameTypes, Gfx!None
<1>2. IsSeq(<<>>) /\ DOMAIN <<>> = {}
  BY CountOne
<1>3. AckInv
  <2>1. ackCh = <<>> /\ ackHand = <<>> /\ acked = <<>> /\ framesDecoded = 0
    BY DEF Gfx!Init
  <2>2. /\ Ranked(<<>>, Top) /\ Increasing(<<>>) /\ Before(<<>>, <<>>)
        /\ Gfx!FrameAcks(<<>>) = {} /\ Gfx!FrameIDs(<<>>) = {}
    BY <1>2 DEF Ranked, Increasing, Before, Gfx!FrameAcks, Gfx!FrameIDs
  <2>3. Gfx!Cardinality({}) = 0
    BY GfxCardinality, FS_EmptySet
  <2>4. Gfx!AckedOnce
    <3> DEFINE acks == Gfx!FrameAcks(<<>>)   ids == Gfx!FrameIDs(<<>>)
    <3>1. acks = {} /\ ids \cup ids \cup ids = {}
      BY <2>2
    <3> HIDE DEF acks, ids
    <3>2. Gfx!Cardinality(acks) = 0 /\ Gfx!Cardinality(ids \cup ids \cup ids) = 0
      BY <2>3, <3>1, Zenon
    <3>3. Gfx!Cardinality(acks) + Gfx!Cardinality(acks) + Gfx!Cardinality(acks) = 0
      BY <3>2
    <3> QED BY <2>1, <3>2, <3>3, Zenon DEF Gfx!AckedOnce, acks, ids
  <2> QED BY <2>1, <2>2, <2>4 DEF AckInv
<1>4. ScreenInv
  <2>1. /\ surfaces = [s \in Surfaces |-> <<>>] /\ outputMap = [s \in Surfaces |-> -1]
        /\ touched = [s \in Surfaces |-> {}] /\ dirty = <<>>
        /\ owner = [x \in Gfx!ScreenCells |-> Gfx!Nobody]
    BY DEF Gfx!Init, Gfx!NoSurface
  <2>2. \A x \in Gfx!ScreenCells : owner[x].s = 0 /\ owner[x].at = 0
    BY <2>1 DEF Gfx!Nobody
  <2>3. ScreenTypes
    BY <1>2, <2>1, <2>2 DEF ScreenTypes, Gfx!Origins
  <2>4. Shown
    BY <2>2, EndpointsAssumption DEF EndpointsAssumption, Shown
  <2>5. Drawn /\ Deferred
    BY <2>1 DEF Drawn, Deferred
  <2> QED BY <2>3, <2>4, <2>5 DEF ScreenInv
<1>5. ContentInv
  <2>1. \A s \in Surfaces : ~Gfx!Exists(s)
    BY DEF Gfx!Init, Gfx!Exists
  <2> QED BY <2>1 DEF Gfx!Init, ContentInv, KeptTiles, Gfx!SurfacesAgree, Gfx!NoTiles, Gfx!None
<1> QED BY <1>1, <1>3, <1>4, <1>5 DEF GfxInv

\* Every command, the end of a frame and the goroutine of the acknowledgements keep it.
LEMMA GfxSteps == GfxInv /\ [Gfx!Next]_graphicsVars => GfxInv'
<1> SUFFICES ASSUME GfxInv, [Gfx!Next]_graphicsVars PROVE GfxInv'
  OBVIOUS
<1>1. FrameTypes /\ ScreenInv /\ ContentInv /\ ScreenTypes
  BY DEF GfxInv, ScreenInv
<1>2. FrameTypes' /\ AckInv'
  BY AckSteps DEF GfxInv
<1>3. srvCache = cache /\ surfaces = srvSurfaces /\ cache \in Gfx!Colours \cup {"none"} /\ Deferred
  BY <1>1 DEF ContentInv, Gfx!SurfacesAgree, ScreenInv
<1>4. CASE \E s \in Surfaces : Gfx!CreateSurface(s) \/ Gfx!DeleteSurface(s)
  BY <1>1, <1>2, <1>4, ContentComesAndGoes, SurfaceComes, SurfaceGoes DEF GfxInv
<1>5. CASE Gfx!ResetGraphics
  BY <1>1, <1>2, <1>5, ContentComesAndGoes, SurfacesGo DEF GfxInv
<1>6. ASSUME NEW s \in Surfaces, Gfx!MapSurfaceToOutput(s) PROVE GfxInv'
  <2>1. ContentInv'
    BY <1>1, <1>3, <1>6, ContentStays DEF Gfx!MapSurfaceToOutput
  <2> QED BY <1>1, <1>2, <1>6, <2>1, SurfacePlaced DEF GfxInv
<1>7. CASE Gfx!EvictCacheEntry \/ \E s \in Surfaces : Gfx!SurfaceToCache(s)
  <2>1. /\ UNCHANGED <<surfaces, outputMap, touched, dirty, screen, owner, inFrame, ending>>
        /\ UNCHANGED <<srvSurfaces, progressive, srvTiles>>
    BY <1>7 DEF Gfx!EvictCacheEntry, Gfx!SurfaceToCache, Gfx!frameVars, Gfx!screenVars
  <2>2. cache' = srvCache' /\ cache' \in Gfx!Colours \cup {"none"}
    <3>1. CASE Gfx!EvictCacheEntry
      BY <3>1 DEF Gfx!EvictCacheEntry, Gfx!None
    <3>2. ASSUME NEW s \in Surfaces, Gfx!SurfaceToCache(s)
          PROVE  cache' = srvCache' /\ cache' \in Gfx!Colours \cup {"none"}
      <4>1. surfaces[s] \in Contents /\ cache' = surfaces[s][0] /\ srvCache' = surfaces[s][0]
        BY <1>1, <1>3, <3>2, SurfaceHolds DEF Gfx!SurfaceToCache, Gfx!Cached
      <4>2. 0 \in Gfx!Cells
        BY EndpointsAssumption DEF EndpointsAssumption, Gfx!Cells
      <4> QED BY <4>1, <4>2 DEF Contents
    <3> QED BY <1>7, <3>1, <3>2
  <2>3. Deferred'
    BY <1>3, <2>1 DEF Deferred
  <2> QED BY <1>1, <1>2, <2>1, <2>2, <2>3, ScreenStays, ContentStays DEF GfxInv
<1>8. CASE Gfx!StartFrame
  <2>1. /\ UNCHANGED <<surfaces, outputMap, touched, screen, owner>> /\ inFrame' = TRUE
        /\ UNCHANGED <<srvSurfaces, srvCache, progressive, srvTiles, cache>>
        /\ dirty' = <<>> /\ ~inFrame /\ ending = "none"
    BY <1>8 DEF Gfx!StartFrame, Gfx!Command, Gfx!surfaceVars, Gfx!screenVars, Gfx!None
  <2>2. dirty' = dirty /\ Deferred'
    BY <1>3, <2>1 DEF Deferred
  <2> QED BY <1>1, <1>2, <1>3, <2>1, <2>2, ScreenStays, ContentStays DEF GfxInv
<1>9. CASE Gfx!EndFrame \/ Gfx!SendQoEFrameAck
  <2>1. /\ UNCHANGED <<surfaces, outputMap, touched, dirty, screen, owner>>
        /\ UNCHANGED <<srvSurfaces, srvCache, progressive, srvTiles, cache>>
    BY <1>9 DEF Gfx!EndFrame, Gfx!SendQoEFrameAck, Gfx!surfaceVars, Gfx!screenVars, Gfx!srvVars
  <2>2. Deferred'
    <3>1. CASE Gfx!EndFrame
      BY <3>1 DEF Gfx!EndFrame, Deferred
    <3>2. CASE Gfx!SendQoEFrameAck
      BY <1>1, <1>3, <3>2 DEF Gfx!SendQoEFrameAck, Deferred, FrameTypes
    <3> QED BY <1>9, <3>1, <3>2
  <2> QED BY <1>1, <1>2, <1>3, <2>1, <2>2, ScreenStays, ContentStays DEF GfxInv
<1>10. CASE Gfx!FlushFrame
  <2>1. UNCHANGED <<surfaces, srvSurfaces, srvCache, progressive, srvTiles, cache>>
    BY <1>10 DEF Gfx!FlushFrame, Gfx!surfaceVars, Gfx!srvVars
  <2> QED BY <1>1, <1>2, <1>3, <1>10, <2>1, FlushShows, ContentStays DEF GfxInv
<1>11. CASE Gfx!TakeAck \/ Gfx!SendAck \/ UNCHANGED graphicsVars
  <2>1. /\ UNCHANGED <<surfaces, outputMap, touched, dirty, screen, owner, inFrame, ending>>
        /\ UNCHANGED <<srvSurfaces, srvCache, progressive, srvTiles, cache>>
    BY <1>11 DEF Gfx!TakeAck, Gfx!SendAck, graphicsVars, Gfx!surfaceVars, Gfx!screenVars,
       Gfx!srvVars, Gfx!frameVars
  <2>2. Deferred'
    BY <1>3, <2>1 DEF Deferred
  <2> QED BY <1>1, <1>2, <1>3, <2>1, <2>2, ScreenStays, ContentStays DEF GfxInv
<1>12. CASE \E s \in Surfaces :
                \/ \E c \in Gfx!Cells : Gfx!CacheToSurface(s, c) \/ Gfx!WireToSurface2(s, c)
                \/ \E c \in Gfx!Cells, k \in Gfx!Colours : Gfx!SolidFill(s, {c}, k)
                \/ \E t \in Surfaces, a, b \in {0, 1} : Gfx!SurfaceToSurface(s, t, a, b)
  <2>1. ScreenInv' /\ ContentInv'
    BY <1>1, <1>12, CellFromCache, TilesShown, CellFilled, SurfaceCopied
  <2> QED BY <1>2, <2>1 DEF GfxInv
<1> QED BY <1>4, <1>5, <1>6, <1>7, <1>8, <1>9, <1>10, <1>11, <1>12 DEF Gfx!Next

\* Surfaces and cache hold what the commands mean, between frames the screen shows what
\* the surfaces hold, every frame that ended is acknowledged once, and in order unless the
\* queue overflowed.
THEOREM GraphicsAlwaysFaithful == MCSpec => []GraphicsFaithful
<1>1. MCInit => GfxInv
  BY GfxStarts DEF MCInit
<1>2. GfxInv /\ [MCNext]_mcVars => GfxInv'
  <2> SUFFICES ASSUME GfxInv, [MCNext]_mcVars PROVE GfxInv'
    OBVIOUS
  <2>1. Gfx!Next \/ UNCHANGED graphicsVars
    BY DEF MCNext, mcVars
  <2> QED BY <2>1, GfxSteps
<1>3. GfxInv => GraphicsFaithful
  <2> SUFFICES ASSUME GfxInv PROVE GraphicsFaithful
    OBVIOUS
  <2>1. FrameTypes /\ AckInv /\ ScreenTypes /\ Shown /\ Drawn /\ Deferred /\ ContentInv
    BY DEF GfxInv, ScreenInv
  <2>2. Gfx!SurfacesAgree /\ Gfx!AckedOnce
    BY <2>1 DEF ContentInv, AckInv
  <2>3. Gfx!AcksInOrder
    BY <2>1 DEF AckInv, Increasing, Rank, Gfx!AcksInOrder
  <2>4. Gfx!ScreenCurrent
    <3> SUFFICES ASSUME ~inFrame, ending = "none", NEW x \in Gfx!ScreenCells
                 PROVE  /\ owner[x].s > 0 /\ outputMap[owner[x].s] = owner[x].at
                              => screen[x] = surfaces[owner[x].s][x - owner[x].at]
                        /\ \A s \in Surfaces :
                              outputMap[s] # -1 /\ (x - outputMap[s]) \in touched[s]
                                  => owner[x].s # 0
      BY DEF Gfx!ScreenCurrent, Gfx!None
    <3>1. \A s \in Surfaces : ~Dirty(s, x)
      <4>1. DOMAIN dirty = {}
        BY <2>1, CountOne DEF Deferred
      <4> QED BY <4>1 DEF Dirty
    <3>2. ASSUME NEW o, NEW at, owner[x].s = o, owner[x].at = at, o > 0, outputMap[o] = at
          PROVE  screen[x] = surfaces[o][x - at]
      <4>1. o \in Surfaces /\ at \in Gfx!Origins
        BY <2>1, <3>2 DEF ScreenTypes
      <4>2. Gfx!Origin(o) = at
        BY <2>1, <3>2, <4>1, Places DEF Gfx!Origins
      <4> QED BY <2>1, <3>1, <3>2, <4>1, <4>2 DEF Shown
    <3>3. ASSUME NEW s \in Surfaces, outputMap[s] # -1, (x - outputMap[s]) \in touched[s]
          PROVE  owner[x].s # 0
      BY <2>1, <3>1, <3>3 DEF Drawn
    <3> QED BY <3>2, <3>3
  <2> QED BY <2>2, <2>3, <2>4 DEF GraphicsFaithful, Gfx!GraphicsFaithful
<1> QED BY <1>1, <1>2, <1>3, PTL DEF MCSpec

=============================================================================
