----------------------------- MODULE AudioOutput -----------------------------
(***************************************************************************)
(* Audio output (protocol/rdpsnd/rdpsnd.go) on the dynamic channel         *)
(* AUDIO_PLAYBACK_DVC, with what client.go does when the server opens it.  *)
(* The handler runs in the receive loop only.  What is hard about it is    *)
(* the wave in two PDUs, the second of which has no header, and the list   *)
(* of formats, of which a wave names an index.  A block of samples is its  *)
(* number.                                                                 *)
(***************************************************************************)
EXTENDS Naturals, Sequences

CONSTANTS
    Offers,       \* lists of formats that servers offer
    MaxBlocks,    \* bound: blocks of samples
    MaxOffers,    \* bound: offers of formats on a connection
    MaxOpens,     \* bound: openings of the channel
    MaxPlayFlight \* bound: PDUs on the way to the client

VARIABLES
    host,          \* server: closed, opened, offered (waits for the list), agreed
    hostFormats,   \* the list of the client, as the server read it
    block,         \* the last block that was begun
    rest,          \* the block whose second PDU is due, or 0
    offers, opens, \* for the bounds; opens counts on this connection
    playFlight,
    filter,        \* FormatFilter, an option
    handler,       \* c.rdpsndHandler is not nil
    served,        \* the current channel has the handler
    clientFormats, ready, pendingWave, wave,   \* fields of Handler
    confirmed,     \* the blocks the server saw confirmed
    heard          \* the last AudioSample

hostVars == <<host, hostFormats, block, rest, offers>>
fieldVars == <<clientFormats, ready, pendingWave, wave>>
vars == <<hostVars, opens, playFlight, filter, handler, served, fieldVars, confirmed, heard>>

NoSample == [n |-> 0, head |-> 0, tail |-> 0, format |-> 0, meant |-> 0]
Filters == [stereo : BOOLEAN, fast : BOOLEAN, pcmOnly : BOOLEAN]

Init ==
    /\ host = "closed" /\ hostFormats = <<>> /\ block = 0 /\ rest = 0
    /\ offers = 0 /\ opens = 0 /\ playFlight = <<>>
    /\ filter \in Filters /\ handler = FALSE /\ served = FALSE
    /\ clientFormats = <<>> /\ ready = FALSE /\ pendingWave = FALSE
    /\ wave = [n |-> 0, no |-> 0, meant |-> 0]
    /\ confirmed = <<>> /\ heard = NoSample

-----------------------------------------------------------------------------
(* The server.                                                             *)

HostSends(pdu) == Len(playFlight) < MaxPlayFlight /\ playFlight' = Append(playFlight, pdu)

HostOpens ==
    /\ host = "closed" /\ opens < MaxOpens /\ host' = "opened" /\ HostSends([cmd |-> "create"])
    /\ UNCHANGED <<hostFormats, block, rest, offers, opens, filter, handler, served,
                   fieldVars, confirmed, heard>>

\* The channel goes, with a block half sent perhaps; the next wave starts anew.
HostCloses ==
    /\ host # "closed" /\ host' = "closed" /\ rest' = 0 /\ HostSends([cmd |-> "delete"])
    /\ UNCHANGED <<hostFormats, block, offers, opens, filter, handler, served, fieldVars,
                   confirmed, heard>>

HostOffers ==
    /\ host \in {"opened", "agreed"} /\ rest = 0 /\ offers < MaxOffers
    /\ host' = "offered" /\ offers' = offers + 1
    /\ \E fs \in Offers : HostSends([cmd |-> "formats", formats |-> fs])
    /\ UNCHANGED <<hostFormats, block, rest, opens, filter, handler, served, fieldVars,
                   confirmed, heard>>

\* A block in one PDU, or the first PDU of two.
HostPlays(cmd) ==
    /\ host = "agreed" /\ rest = 0 /\ block < MaxBlocks
    /\ block' = block + 1 /\ rest' = IF cmd = "waveinfo" THEN block' ELSE 0
    /\ \E no \in DOMAIN hostFormats :
           HostSends([cmd |-> cmd, n |-> block', no |-> no, meant |-> hostFormats[no]])
    /\ UNCHANGED <<host, hostFormats, offers, opens, filter, handler, served, fieldVars,
                   confirmed, heard>>

HostContinues ==
    /\ rest # 0 /\ rest' = 0
    /\ \E short \in BOOLEAN : HostSends([cmd |-> "wave", n |-> rest, short |-> short])
    /\ UNCHANGED <<host, hostFormats, block, offers, opens, filter, handler, served,
                   fieldVars, confirmed, heard>>

\* The stream ends: SNDC_CLOSE.
HostPauses ==
    /\ host = "agreed" /\ rest = 0 /\ ready /\ HostSends([cmd |-> "close"])
    /\ UNCHANGED <<hostVars, opens, filter, handler, served, fieldVars, confirmed, heard>>

-----------------------------------------------------------------------------
(* client.go: the channel is created and deleted, the connection reset.    *)

pdu == Head(playFlight)
Arrives(cmd) == playFlight # <<>> /\ pdu.cmd = cmd /\ playFlight' = Tail(playFlight)

\* Only the first channel of a connection gets the handler, which is new.
ChannelOpens ==
    /\ Arrives("create") /\ opens' = opens + 1
    /\ handler' = TRUE /\ served' = ~handler
    /\ IF handler THEN UNCHANGED fieldVars
       ELSE /\ clientFormats' = <<>> /\ ready' = FALSE /\ pendingWave' = FALSE
            /\ wave' = [n |-> 0, no |-> 0, meant |-> 0]
    /\ UNCHANGED <<hostVars, filter, confirmed, heard>>

ChannelCloses ==
    /\ Arrives("delete") /\ served' = FALSE
    /\ UNCHANGED <<hostVars, opens, filter, handler, fieldVars, confirmed, heard>>

\* resetForReconnect drops the handler; the server starts from nothing.
ResetForReconnect == handler' = FALSE

Reconnect ==
    /\ opens > 0 /\ offers > 0 /\ ResetForReconnect
    /\ host' = "closed" /\ hostFormats' = <<>> /\ rest' = 0 /\ block' = 0
    /\ playFlight' = <<>> /\ served' = FALSE /\ confirmed' = <<>> /\ heard' = NoSample
    /\ opens' = 0
    /\ UNCHANGED <<offers, filter, fieldVars>>

\* A channel without the handler is deaf.
Deaf ==
    /\ ~served /\ playFlight # <<>> /\ pdu.cmd \notin {"create", "delete"}
    /\ playFlight' = Tail(playFlight)
    /\ UNCHANGED <<hostVars, opens, filter, handler, served, fieldVars, confirmed, heard>>

-----------------------------------------------------------------------------
(* ProcessPDU.  After a WaveInfo the next PDU is its continuation,         *)
(* whatever it is.                                                         *)

ProcessPDU(cmd) == served /\ ~pendingWave /\ Arrives(cmd)

Unchanged == UNCHANGED <<block, rest, offers, opens, filter, handler, served>>

AcceptFormat(f) ==
    /\ f.tag \in {"pcm", "ms", "ima"}
    /\ filter.pcmOnly => f.tag = "pcm"
    /\ filter.stereo => f.channels >= 2
    /\ filter.fast => f.fast

\* IMA ADPCM goes when MS ADPCM is there.
PreferMSADPCM(fs) ==
    IF \E i \in DOMAIN fs : fs[i].tag = "ms" THEN SelectSeq(fs, LAMBDA f : f.tag # "ima") ELSE fs

Accepted(fs) == PreferMSADPCM(SelectSeq(fs, AcceptFormat))

\* What is kept and what is sent are one list.
ClientFormats(fs) == Accepted(fs)

HandleServerFormats ==
    /\ ProcessPDU("formats")
    /\ clientFormats' = ClientFormats(pdu.formats) /\ ready' = TRUE
    /\ IF host = "offered" THEN hostFormats' = Accepted(pdu.formats) /\ host' = "agreed"
                           ELSE UNCHANGED <<hostFormats, host>>
    /\ Unchanged /\ UNCHANGED <<pendingWave, wave, confirmed, heard>>

\* A sample of a format the list has goes to the callback, decoded to PCM; the
\* wave is confirmed whether or not.
DeliverAudio(n, no, head, tail, meant) ==
    /\ heard' = IF no \in DOMAIN clientFormats
                THEN [n |-> n, head |-> head, tail |-> tail, format |-> clientFormats[no],
                      meant |-> meant]
                ELSE heard
    /\ confirmed' = Append(confirmed, n)

HandleWave2 ==
    /\ ProcessPDU("wave2")
    /\ DeliverAudio(pdu.n, pdu.no, pdu.n, pdu.n, pdu.meant)
    /\ Unchanged /\ UNCHANGED <<host, hostFormats, fieldVars>>

HandleWaveInfo ==
    /\ ProcessPDU("waveinfo")
    /\ wave' = [n |-> pdu.n, no |-> pdu.no, meant |-> pdu.meant] /\ pendingWave' = TRUE
    /\ Unchanged /\ UNCHANGED <<host, hostFormats, clientFormats, ready, confirmed, heard>>

ShortWave_Silent == UNCHANGED <<confirmed, heard>>
ShortWave == confirmed' = Append(confirmed, wave.n) /\ UNCHANGED heard

HandleWaveContinuation ==
    /\ served /\ pendingWave /\ playFlight # <<>> /\ playFlight' = Tail(playFlight)
    /\ pdu.cmd # "delete"
    /\ pendingWave' = FALSE
    /\ IF pdu.cmd = "wave" /\ ~pdu.short
       THEN DeliverAudio(wave.n, wave.no, wave.n, pdu.n, wave.meant) ELSE ShortWave
    /\ Unchanged /\ UNCHANGED <<host, hostFormats, clientFormats, ready, wave>>

HandleClose ==
    /\ ProcessPDU("close") /\ ready' = FALSE
    /\ Unchanged /\ UNCHANGED <<host, hostFormats, clientFormats, pendingWave, wave,
                                confirmed, heard>>

Next ==
    \/ HostOpens \/ HostCloses \/ HostOffers \/ HostContinues \/ HostPauses
    \/ HostPlays("wave2") \/ HostPlays("waveinfo")
    \/ ChannelOpens \/ ChannelCloses \/ Reconnect \/ Deaf
    \/ HandleServerFormats \/ HandleWave2 \/ HandleWaveInfo \/ HandleWaveContinuation
    \/ HandleClose

Spec == Init /\ [][Next]_vars

-----------------------------------------------------------------------------
(* Properties.                                                             *)

\* The samples of a block are the four bytes of its own WaveInfo and the rest of
\* its own continuation, in the format that the server encoded them in, which
\* names it by its place in the client's list: across offers made again, channels
\* closed in the middle of a wave, and reconnections.
SampleAsMeant == heard.head = heard.tail /\ heard.format = heard.meant

\* The server, which counts the blocks under way, sees each confirmed once, in order.
ConfirmedInOrder == \A i \in DOMAIN confirmed : confirmed[i] = i

\* With nothing on its way each block of a served channel is confirmed and each
\* offer answered.
AllConfirmed ==
    served /\ playFlight = <<>> /\ rest = 0 => Len(confirmed) = block /\ host # "offered"

\* The first channel of a connection is served, until it is closed.
FirstIsServed == opens = 1 /\ host # "closed" /\ playFlight = <<>> => served

\* The server's audio is heard as it was sent and confirmed as it was heard.
PlaybackFaithful == SampleAsMeant /\ ConfirmedInOrder /\ AllConfirmed /\ FirstIsServed
=============================================================================
