------------------------------- MODULE Camera --------------------------------
(***************************************************************************)
(* The webcam (protocol/rdpecam/rdpecam.go): an enumeration channel, which *)
(* announces the device, and device channels, on which the server starts a *)
(* stream and requests one sample at a time.  The receive loop starts a    *)
(* goroutine for each request; the viewer's read loop (display/web/web.go) *)
(* queues the frames of the browser, which it reads into one buffer.       *)
(***************************************************************************)
EXTENDS Naturals, Sequences, FiniteSets

CONSTANTS
    DevIds,       \* IDs of device channels
    QueueCap,     \* capacity of sampleCh, 8 in the code
    MaxSamples,   \* bound: sample requests
    MaxFrames,    \* bound: frames of the browser
    MaxStarts     \* bound: starts of a stream

Getters == 1..MaxSamples

VARIABLES
    enum,          \* enumeration: closed, asked, announced
    devSendFns,    \* device channels that are open
    srvStream,     \* the channel whose stream the server wants, or 0
    waits,         \* requests the server has no answer for, by channel
    starts, samples, frames,   \* for the bounds
    streaming, streamChID,     \* fields of Handler
    sampleCh,      \* queue of frames
    sampleBuf,     \* the frame it was filled with
    getter,        \* goroutines of handleSampleRequest
    stopped,       \* done is closed
    capture,       \* the capture the browser runs, or 0
    inHand,        \* a frame that web.go has read and not queued yet, or 0
    readBuf,       \* the frame that the read buffer holds
    discarded,     \* frames in the queue when a stream stopped
    answer         \* the last SampleResponse: its frame, and the one queued for it

serverVars == <<enum, srvStream, waits, starts, samples>>
fields == <<devSendFns, streaming, streamChID, sampleCh, sampleBuf, getter, stopped>>
viewerVars == <<frames, capture, inHand, readBuf>>
vars == <<serverVars, fields, viewerVars, discarded, answer>>

NoAnswer == [frame |-> 0, taken |-> 0]

Init ==
    /\ enum = "closed" /\ devSendFns = {} /\ srvStream = 0 /\ waits = [c \in DevIds |-> 0]
    /\ starts = 0 /\ samples = 0 /\ frames = 0
    /\ streaming = FALSE /\ streamChID = 0 /\ sampleCh = <<>>
    /\ sampleBuf = 0
    /\ getter = [g \in Getters |-> [at |-> "none", ch |-> 0, frame |-> 0]]
    /\ stopped = FALSE /\ capture = 0 /\ inHand = 0 /\ readBuf = 0
    /\ discarded = {} /\ answer = NoAnswer

-----------------------------------------------------------------------------
(* What the server asks is handled at once, by the receive loop.           *)

EnumChannelOpened ==
    /\ ~stopped /\ enum = "closed" /\ enum' = "asked"
    /\ UNCHANGED <<srvStream, waits, starts, samples, fields, viewerVars, discarded, answer>>

HandleSelectVersionResponse ==
    /\ ~stopped /\ enum = "asked" /\ enum' = "announced"
    /\ UNCHANGED <<srvStream, waits, starts, samples, fields, viewerVars, discarded, answer>>

SetDevSendFn(c) ==
    /\ ~stopped /\ enum = "announced" /\ c \notin devSendFns
    /\ devSendFns' = devSendFns \cup {c} /\ waits' = [waits EXCEPT ![c] = 0]
    /\ UNCHANGED <<enum, srvStream, starts, samples, streaming, streamChID, sampleCh,
                   sampleBuf, getter, stopped, viewerVars, discarded, answer>>

\* The server closes a channel it has no stream on.
RemoveDevSendFn(c) ==
    /\ c \in devSendFns /\ srvStream # c
    /\ devSendFns' = devSendFns \ {c} /\ waits' = [waits EXCEPT ![c] = 0]
    /\ UNCHANGED <<enum, srvStream, starts, samples, streaming, streamChID, sampleCh,
                   sampleBuf, getter, stopped, viewerVars, discarded, answer>>

\* onStartCapture and onStopCapture tell the browser.
HandleStartStreams(c) ==
    /\ c \in devSendFns /\ srvStream = 0 /\ starts < MaxStarts
    /\ starts' = starts + 1 /\ srvStream' = c
    /\ streaming' = TRUE /\ streamChID' = c
    /\ capture' = starts'
    /\ UNCHANGED <<enum, waits, samples, devSendFns, sampleCh, sampleBuf, getter, stopped,
                   frames, inHand, readBuf, discarded, answer>>

Drain == <<>>

\* handleDeactivate does the same.  A stream of another channel stops too.
HandleStopStreams(c) ==
    /\ c \in devSendFns
    /\ srvStream' = IF srvStream = c THEN 0 ELSE srvStream
    /\ streaming' = FALSE /\ sampleCh' = Drain /\ capture' = 0
    /\ discarded' = discarded \cup {sampleCh[i] : i \in DOMAIN sampleCh}
    /\ UNCHANGED <<enum, waits, starts, samples, devSendFns, streamChID, sampleBuf, getter,
                   stopped, frames, inHand, readBuf, answer>>

\* A goroutine per request.
Waiter(c) == [at |-> "waits", ch |-> c, frame |-> 0]

HandleSampleRequest(c) ==
    /\ srvStream = c /\ c \in devSendFns /\ waits[c] = 0 /\ samples < MaxSamples
    /\ samples' = samples + 1 /\ waits' = [waits EXCEPT ![c] = samples']
    /\ getter' = [getter EXCEPT ![samples'] = Waiter(c)]
    /\ UNCHANGED <<enum, srvStream, starts, devSendFns, streaming, streamChID, sampleCh,
                   sampleBuf, stopped, viewerVars, discarded, answer>>

\* Stop, of resetForReconnect and Close.
StopTells_Never == UNCHANGED capture
StopTells == capture' = IF streaming THEN 0 ELSE capture

Stop ==
    /\ ~stopped /\ stopped' = TRUE /\ streaming' = FALSE /\ devSendFns' = {}
    /\ srvStream' = 0 /\ waits' = [c \in DevIds |-> 0]
    /\ StopTells
    /\ UNCHANGED <<enum, starts, samples, streamChID, sampleCh, sampleBuf, getter, frames,
                   inHand, readBuf, discarded, answer>>

-----------------------------------------------------------------------------
(* The browser and its read loop.                                          *)

BrowserSends ==
    /\ capture # 0 /\ inHand = 0 /\ frames < MaxFrames
    /\ frames' = frames + 1 /\ inHand' = frames' /\ readBuf' = frames'
    /\ UNCHANGED <<serverVars, fields, capture, discarded, answer>>

\* What is queued is a slice of the read buffer; a full queue drops it.
SendSample ==
    /\ inHand # 0 /\ inHand' = 0
    /\ sampleCh' = IF Len(sampleCh) < QueueCap THEN Append(sampleCh, inHand) ELSE sampleCh
    /\ UNCHANGED <<serverVars, devSendFns, streaming, streamChID, sampleBuf, getter, stopped,
                   frames, capture, readBuf, discarded, answer>>

-----------------------------------------------------------------------------
(* A goroutine takes a sample, fills sampleBuf under mu and sends it after *)
(* the unlock; or sees done.                                               *)

TakeSample(g) ==
    /\ getter[g].at = "waits" /\ sampleCh # <<>>
    /\ sampleCh' = Tail(sampleCh)
    /\ getter' = [getter EXCEPT ![g].at = "holds", ![g].frame = Head(sampleCh)]
    /\ sampleBuf' = readBuf
    /\ UNCHANGED <<serverVars, devSendFns, streaming, streamChID, stopped, viewerVars,
                   discarded, answer>>

SendDevMsg(g) ==
    LET c == getter[g].ch IN
    /\ getter[g].at = "holds" /\ getter' = [getter EXCEPT ![g].at = "ends"]
    /\ IF c \in devSendFns
       THEN /\ answer' = [frame |-> sampleBuf, taken |-> getter[g].frame]
            /\ waits' = [waits EXCEPT ![c] = IF @ = g THEN 0 ELSE @]
       ELSE UNCHANGED <<answer, waits>>
    /\ UNCHANGED <<enum, srvStream, starts, samples, devSendFns, streaming, streamChID,
                   sampleCh, sampleBuf, stopped, viewerVars, discarded>>

SeesDone(g) ==
    /\ getter[g].at = "waits" /\ stopped /\ getter' = [getter EXCEPT ![g].at = "ends"]
    /\ UNCHANGED <<serverVars, devSendFns, streaming, streamChID, sampleCh, sampleBuf, stopped,
                   viewerVars, discarded, answer>>

Next ==
    \/ EnumChannelOpened \/ HandleSelectVersionResponse \/ Stop \/ BrowserSends \/ SendSample
    \/ \E c \in DevIds : \/ SetDevSendFn(c) \/ RemoveDevSendFn(c) \/ HandleStartStreams(c)
                         \/ HandleStopStreams(c) \/ HandleSampleRequest(c)
    \/ \E g \in Getters : TakeSample(g) \/ SendDevMsg(g) \/ SeesDone(g)

Spec == Init /\ [][Next]_vars

-----------------------------------------------------------------------------
(* Properties.                                                             *)

\* A request that waits for its answer has a goroutine that will give it: a server
\* that gets none never asks again.
RequestsKept ==
    \A c \in devSendFns : waits[c] # 0 => getter[waits[c]].at \in {"waits", "holds"}

\* The browser captures while a stream is on, and not after the handler was dropped.
CaptureMatches == (capture # 0) <=> streaming

\* A frame that was in the queue when a stream stopped is not shown in the next one.
DiscardedGone == answer.taken \notin discarded

\* rdpecam.go:191 says that SendSample "delivers an H.264 NAL unit from the browser
\* for the next SampleResponse".
SamplesIntact == answer.frame = answer.taken

\* A stream of the camera gets its own frames, one for each request, as long as it is on.
CameraFaithful == RequestsKept /\ CaptureMatches /\ DiscardedGone
=============================================================================
