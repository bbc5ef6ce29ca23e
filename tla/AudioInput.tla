----------------------------- MODULE AudioInput ------------------------------
(***************************************************************************)
(* Audio input (protocol/audin/audin.go) on the dynamic channel            *)
(* AUDIO_INPUT, with the silence fill of client.go.  The receive loop runs *)
(* the handlers; the microphone of the viewer and one goroutine per        *)
(* opening, which sends silence until the microphone speaks, call          *)
(* SendAudioData.  mu guards the formats, sendMu a pair of PDUs, and       *)
(* nothing both.                                                           *)
(***************************************************************************)
EXTENDS Naturals, Sequences, FiniteSets

CONSTANTS
    MaxTakes,    \* bound: openings of the channel
    MaxStarts,   \* bound: calls of onOpen, by an open or by a change of format
    MaxSpeech    \* bound: calls of SendAudioInput

Fillers == 1..MaxStarts
Mic == 0
Senders == {Mic} \cup Fillers
Nobody == MaxStarts + 1
None == "none"

VARIABLES
    asker,         \* server: closed, created, version, formats, open
    asking,        \* its PDU on the way to the client, or None
    take,          \* the opening of the channel; sendFn sends on it
    recording,     \* the atomic flag
    accepted,      \* clientFormats
    activeFormat, epoch,       \* the format, and how many were set
    leftover,      \* pendingSamples: the epoch they are of, or 0; a call that was overtaken
    opening,       \* the rest of handleFormats or of handleOpen
    filler,        \* state of each silence goroutine
    silenceStop,   \* the goroutine that c.silenceStop stops, or 0
    sendMu,        \* its holder, or Nobody
    call,          \* the call each sender is in
    speech,        \* for the bound
    announced,     \* whose DATA_INCOMING came last on the channel
    torn,          \* data came without its own DATA_INCOMING
    mixed,         \* a block of two formats was sent
    spoken,        \* SendAudioInput was called since recording began
    lateSilence    \* silence sent after them

askerVars == <<asker, asking>>
formatVars == <<accepted, activeFormat, epoch, leftover>>
fillVars == <<filler, silenceStop>>
sendVars == <<sendMu, call, speech>>
seen == <<announced, torn, mixed, spoken, lateSilence>>
vars == <<askerVars, take, recording, formatVars, opening, fillVars, sendVars, seen>>

Idle == [at |-> "idle", take |-> 0, format |-> None, epoch |-> 0, raced |-> FALSE]
Nothing == [epoch |-> 0, raced |-> FALSE]

Init ==
    /\ asker = "closed" /\ asking = None /\ take = 0 /\ recording = FALSE
    /\ accepted = {} /\ activeFormat = None /\ epoch = 0 /\ leftover = Nothing
    /\ opening = <<>>
    /\ filler = [f \in Fillers |-> "none"] /\ silenceStop = 0
    /\ sendMu = Nobody /\ call = [s \in Senders |-> Idle] /\ speech = 0
    /\ announced = Nobody /\ torn = FALSE /\ mixed = FALSE /\ spoken = FALSE /\ lateSilence = 0

-----------------------------------------------------------------------------
(* The server asks one thing at a time.                                    *)

Asks(from, what, to) ==
    /\ asking = None /\ opening = <<>> /\ asker = from
    /\ asking' = what /\ asker' = to
    /\ UNCHANGED <<take, recording, formatVars, opening, fillVars, sendVars, seen>>

Started == Cardinality({f \in Fillers : filler[f] # "none"})

ServerAsks ==
    \/ take < MaxTakes /\ Asks("closed", "create", "created")
    \/ Asks("created", "version", "version")
    \/ Asks("version", "formats", "formats")
    \/ accepted # {} /\ Started < MaxStarts /\ Asks("formats", "open", "open")
    \/ Started < MaxStarts /\ Asks("open", "change", "open")
    \/ Asks("open", "close", "closed")

-----------------------------------------------------------------------------
(* The receive loop.                                                       *)

Arrives(what) == opening = <<>> /\ asking = what /\ asking' = None

\* The channel opens: SetSendFn.
HandleCreate ==
    /\ Arrives("create") /\ take' = take + 1 /\ announced' = Nobody
    /\ UNCHANGED <<asker, recording, formatVars, opening, fillVars, sendVars,
                   torn, mixed, spoken, lateSilence>>

HandleVersion ==
    /\ Arrives("version")
    /\ UNCHANGED <<asker, take, recording, formatVars, opening, fillVars, sendVars, seen>>

\* The filter may leave one format or both; DATA_INCOMING, then the list, under mu.
HandleFormats ==
    /\ Arrives("formats")
    /\ \E fs \in SUBSET {"pcm", "adpcm"} : accepted' = fs
    /\ announced' = Nobody
    /\ UNCHANGED <<asker, take, recording, activeFormat, epoch, leftover, opening, fillVars,
                   sendVars, torn, mixed, spoken, lateSilence>>

\* The encoder forgets what belongs to the old format.
ResetEncoder == leftover' = Nothing

SetFormat ==
    /\ \E f \in accepted : activeFormat' = f
    /\ epoch' = epoch + 1 /\ ResetEncoder
    /\ call' = [s \in Senders |-> [call[s] EXCEPT !.raced = @ \/ call[s].at # "idle"]]

\* Recording starts before the reply is sent.
HandleOpen ==
    /\ Arrives("open") /\ SetFormat
    /\ recording' = TRUE /\ opening' = <<"reply", "change", "onOpen">>
    /\ spoken' = FALSE /\ lateSilence' = 0
    /\ UNCHANGED <<asker, take, accepted, fillVars, sendMu, speech, announced, torn, mixed>>

SendReply ==
    /\ opening # <<>> /\ Head(opening) \in {"reply", "change"} /\ opening' = Tail(opening)
    /\ UNCHANGED <<askerVars, take, recording, formatVars, fillVars, sendVars, seen>>

HandleFormatChange ==
    /\ Arrives("change") /\ SetFormat /\ opening' = <<"onOpen">>
    /\ UNCHANGED <<asker, take, recording, accepted, fillVars, sendMu, speech, seen>>

\* OnOpen of client.go: under silenceMu the last goroutine is stopped and a new
\* one takes its place.
StopSilenceFill ==
    IF silenceStop = 0 THEN filler ELSE [filler EXCEPT ![silenceStop] = "stopped"]

OnOpen ==
    /\ opening # <<>> /\ Head(opening) = "onOpen" /\ opening' = Tail(opening)
    /\ filler' = [StopSilenceFill EXCEPT ![Started + 1] = "running"]
    /\ silenceStop' = Started + 1
    /\ spoken' = FALSE /\ lateSilence' = 0
    /\ UNCHANGED <<askerVars, take, recording, formatVars, sendVars, announced, torn, mixed>>

\* The channel closes: Stop, and OnClose of client.go.
Stop ==
    /\ Arrives("close") /\ recording' = FALSE
    /\ IF recording THEN filler' = StopSilenceFill /\ silenceStop' = 0
                    ELSE UNCHANGED fillVars
    /\ UNCHANGED <<asker, take, formatVars, opening, sendVars, seen>>

-----------------------------------------------------------------------------
(* SendAudioInput of the microphone, SendAudioData of everybody.           *)

Enters(s) ==
    /\ call[s] = Idle /\ recording
    /\ call' = [call EXCEPT ![s] = [Idle EXCEPT !.at = "waits", !.take = take]]

StopsSilence_Never == UNCHANGED fillVars
StopsSilence == filler' = StopSilenceFill /\ silenceStop' = 0

MicSpeaks ==
    /\ speech < MaxSpeech /\ speech' = speech + 1
    /\ Enters(Mic) /\ StopsSilence /\ spoken' = TRUE
    /\ UNCHANGED <<askerVars, take, recording, formatVars, opening, sendMu, announced,
                   torn, mixed, lateSilence>>

FillerTicks(f) ==
    /\ filler[f] = "running" /\ Enters(f)
    /\ UNCHANGED <<askerVars, take, recording, formatVars, opening, fillVars, sendMu, speech, seen>>

\* The lock is taken, recording checked again, the format read under mu.
LockSend(s) == sendMu = Nobody /\ sendMu' = s

Locks(s) ==
    /\ call[s].at = "waits" /\ LockSend(s)
    /\ call' = [call EXCEPT ![s].at = IF recording THEN "announces" ELSE "ends",
                            ![s].format = activeFormat, ![s].epoch = epoch]
    /\ UNCHANGED <<askerVars, take, recording, formatVars, opening, fillVars, speech, seen>>

\* ADPCM: what is left over from the last call goes first, and there may be less
\* than a block.
Encodes(s) ==
    /\ call[s].at = "announces" /\ call[s].format = "adpcm"
    /\ mixed' = (mixed \/ /\ leftover.epoch \notin {0, call[s].epoch}
                          /\ ~leftover.raced /\ ~call[s].raced)
    /\ \E enough \in BOOLEAN :
           /\ call' = [call EXCEPT ![s].at = IF enough THEN "pair" ELSE "ends"]
           /\ leftover' \in {[epoch |-> call[s].epoch, raced |-> call[s].raced]}
                            \cup (IF enough THEN {Nothing} ELSE {})
    /\ UNCHANGED <<askerVars, take, recording, accepted, activeFormat, epoch, opening, fillVars,
                   sendMu, speech, announced, torn, spoken, lateSilence>>

PassesThrough(s) ==
    /\ call[s].at = "announces" /\ call[s].format = "pcm"
    /\ call' = [call EXCEPT ![s].at = "pair"]
    /\ UNCHANGED <<askerVars, take, recording, formatVars, opening, fillVars, sendMu,
                   speech, seen>>

SendIncoming(s) ==
    /\ call[s].at = "pair" /\ call' = [call EXCEPT ![s].at = "data"]
    /\ announced' = s
    /\ UNCHANGED <<askerVars, take, recording, formatVars, opening, fillVars, sendMu,
                   speech, torn, mixed, spoken, lateSilence>>

\* Data goes on the channel that is current by now.
SendData(s) ==
    /\ call[s].at = "data" /\ call' = [call EXCEPT ![s].at = "ends"]
    /\ torn' = (torn \/ (announced # s /\ call[s].take = take))
    /\ lateSilence' = IF s # Mic /\ spoken THEN lateSilence + 1 ELSE lateSilence
    /\ UNCHANGED <<askerVars, take, recording, formatVars, opening, fillVars, sendMu,
                   speech, announced, mixed, spoken>>

Unlocks(s) ==
    /\ call[s].at = "ends" /\ call' = [call EXCEPT ![s] = Idle]
    /\ sendMu' = Nobody
    /\ UNCHANGED <<askerVars, take, recording, formatVars, opening, fillVars, speech, seen>>

Next ==
    \/ ServerAsks \/ HandleCreate \/ HandleVersion \/ HandleFormats \/ HandleOpen
    \/ SendReply \/ HandleFormatChange \/ OnOpen \/ Stop \/ MicSpeaks
    \/ \E f \in Fillers : FillerTicks(f)
    \/ \E s \in Senders : \/ Locks(s) \/ Encodes(s) \/ PassesThrough(s)
                          \/ SendIncoming(s) \/ SendData(s) \/ Unlocks(s)

Spec == Init /\ [][Next]_vars

-----------------------------------------------------------------------------
(* Properties.                                                             *)

\* audin.go:74: a DATA_INCOMING and its DATA are never parted by another caller
\* (nor by a list of formats), as long as the channel is not replaced during the
\* call: sendFn is read anew for each PDU.
PairsWhole == ~torn

\* A block holds samples of one format, unless a change of the format overtook
\* the call that encoded it: the reset is under mu, the encoder under sendMu.
BlocksOfOneFormat == ~mixed

\* Once the microphone has spoken, the silence that is still sent is what the
\* goroutines stopped meanwhile had begun.
SilenceYields == lateSilence <= Started

\* While nothing has been said one goroutine keeps the channel alive, and after
\* the close none does, whatever the microphone did in between.
OneFiller ==
    opening = <<>> =>
        /\ Cardinality({f \in Fillers : filler[f] = "running"}) <= 1
        /\ ~recording => \A f \in Fillers : filler[f] # "running"
        /\ recording /\ ~spoken => \E f \in Fillers : filler[f] = "running"

\* The server hears the microphone, or silence until it speaks, in whole blocks of the
\* format it knows.
MicrophoneFaithful == PairsWhole /\ BlocksOfOneFormat /\ SilenceYields /\ OneFiller
=============================================================================
