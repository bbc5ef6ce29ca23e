--------------------------- MODULE VirtualChannels ---------------------------
(***************************************************************************)
(* Static virtual channels (client.go): handleVirtualChannelData puts the  *)
(* chunks of the server's messages together, sendChannelData splits what   *)
(* the client's goroutines send.  Lengths are counted in chunks.           *)
(***************************************************************************)
EXTENDS Naturals, Sequences, FiniteSets, FiniteSetsExt

CONSTANTS
    Channels,      \* the static channels joined
    Senders,       \* goroutines that call sendChannelData
    Servers,       \* subset of {"long", "abandons"}, see Init
    Limit,         \* maxVCReassembly
    GlobalLimit,   \* maxVCReassemblyGlobal
    MaxLen,        \* bound: length of a message
    MaxMsgs,       \* bound: messages of the server on a channel
    MaxSent,       \* bound: messages of a sender
    MaxFlight      \* bound: chunks on the way to the client

VARIABLES
    server,        \* what this server does, see Init
    cur,           \* the server's message in progress on each channel
    flight,        \* chunks on the way to the client
    vcReassembly, vcReassemblyTotal,   \* Client fields
    got,           \* the last message a channel's handler was given
    dropped,       \* number of the last message dropped at its first chunk
    writeMu,       \* Client.writeMu: the sender that holds it
    snd, sent,     \* what each sender sends, messages it has begun
    wire,          \* the last chunk written on each channel
    down           \* the connection no longer takes writes

recvVars == <<server, cur, flight, vcReassembly, vcReassemblyTotal, got, dropped>>
sendVars == <<writeMu, snd, sent, wire, down>>
vcVars == <<recvVars, sendVars>>

NoBuf == <<>>   \* a buffer that exists holds its first chunk
Free == "free"
Idle == [ch |-> "none", k |-> 0, len |-> 0]
Chunk(ch, n, k, len) == [ch |-> ch, n |-> n, k |-> k, len |-> len]

\* A "long" server sends messages beyond Limit, one that "abandons" starts a
\* message before it has finished the last one.
Init ==
    /\ server \in Servers
    /\ cur = [ch \in Channels |-> Chunk(ch, 0, 0, 0)]
    /\ flight = <<>>
    /\ vcReassembly = [ch \in Channels |-> NoBuf] /\ vcReassemblyTotal = 0
    /\ got = [ch \in Channels |-> <<>>] /\ dropped = [ch \in Channels |-> 0]
    /\ writeMu = Free
    /\ snd = [s \in Senders |-> Idle] /\ sent = [s \in Senders |-> 0]
    /\ wire = [ch \in Channels |-> [by |-> Free, k |-> 0, len |-> 0]]
    /\ down = FALSE

-----------------------------------------------------------------------------
(* The server, with the chunks of its channels interleaved.                *)

ServerStarts(ch) ==
    /\ Len(flight) < MaxFlight /\ cur[ch].n < MaxMsgs
    /\ cur[ch].k = cur[ch].len \/ server = "abandons"
    /\ \E len \in 1 .. MaxLen :
           /\ len > Limit => server = "long"
           /\ cur' = [cur EXCEPT ![ch] = Chunk(ch, cur[ch].n + 1, 1, len)]
    /\ flight' = Append(flight, cur'[ch])
    /\ UNCHANGED <<server, vcReassembly, vcReassemblyTotal, got, dropped, sendVars>>

ServerContinues(ch) ==
    /\ Len(flight) < MaxFlight /\ cur[ch].k < cur[ch].len
    /\ cur' = [cur EXCEPT ![ch].k = @ + 1]
    /\ flight' = Append(flight, cur'[ch])
    /\ UNCHANGED <<server, vcReassembly, vcReassemblyTotal, got, dropped, sendVars>>

-----------------------------------------------------------------------------
(* handleVirtualChannelData, in the receive loop.                          *)

Size(ch) == Len(vcReassembly[ch])

\* The channel's buffer becomes b, and the bytes counted become what they were
\* without the old buffer, and with the new one.
Store(ch, b) ==
    /\ vcReassembly' = [vcReassembly EXCEPT ![ch] = b]
    /\ vcReassemblyTotal' = vcReassemblyTotal - Size(ch) + Len(b)

Receive(c) ==
    /\ flight # <<>> /\ c = Head(flight) /\ flight' = Tail(flight)
    /\ UNCHANGED <<server, cur, sendVars>>

ReceiveWhole_KeepsCount(c) ==
    /\ Receive(c) /\ c.k = 1 /\ c.len = 1
    /\ vcReassembly' = [vcReassembly EXCEPT ![c.ch] = NoBuf]
    /\ got' = [got EXCEPT ![c.ch] = <<c>>]
    /\ UNCHANGED <<vcReassemblyTotal, dropped>>
ReceiveWhole(c) ==
    /\ Receive(c) /\ c.k = 1 /\ c.len = 1
    /\ Store(c.ch, NoBuf)
    /\ got' = [got EXCEPT ![c.ch] = <<c>>]
    /\ UNCHANGED dropped

TooLong(c) == c.len > Limit \/ vcReassemblyTotal + c.len > GlobalLimit

ReceiveFirst(c) ==
    /\ Receive(c) /\ c.k = 1 /\ c.len > 1 /\ ~TooLong(c)
    /\ Store(c.ch, <<c>>)
    /\ UNCHANGED <<got, dropped>>

\* What is dropped is the chunk: a buffer of an earlier message stays.
ReceiveTooLong(c) ==
    /\ Receive(c) /\ c.k = 1 /\ c.len > 1 /\ TooLong(c)
    /\ dropped' = [dropped EXCEPT ![c.ch] = c.n]
    /\ UNCHANGED <<vcReassembly, vcReassemblyTotal, got>>

ReceiveMiddle(c) ==
    /\ Receive(c) /\ 1 < c.k /\ c.k < c.len /\ vcReassembly[c.ch] # NoBuf
    /\ Store(c.ch, Append(vcReassembly[c.ch], c))
    /\ UNCHANGED <<got, dropped>>

ReceiveLast(c) ==
    /\ Receive(c) /\ c.k > 1 /\ c.k = c.len /\ vcReassembly[c.ch] # NoBuf
    /\ Store(c.ch, NoBuf)
    /\ got' = [got EXCEPT ![c.ch] = Append(vcReassembly[c.ch], c)]
    /\ UNCHANGED dropped

ReceiveStray(c) ==
    /\ Receive(c) /\ c.k > 1 /\ vcReassembly[c.ch] = NoBuf
    /\ UNCHANGED <<vcReassembly, vcReassemblyTotal, got, dropped>>

-----------------------------------------------------------------------------
(* sendChannelData: writeMu is held for all chunks of a message.           *)

SendBegins_Unlocked(s, ch) ==
    /\ snd[s] = Idle /\ sent[s] < MaxSent
    /\ \E len \in 1 .. MaxLen :
           snd' = [snd EXCEPT ![s] = [ch |-> ch, k |-> 0, len |-> len]]
    /\ sent' = [sent EXCEPT ![s] = @ + 1] /\ UNCHANGED <<writeMu, wire, down, recvVars>>
SendBegins(s, ch) ==
    /\ snd[s] = Idle /\ sent[s] < MaxSent
    /\ writeMu = Free /\ writeMu' = s
    /\ \E len \in 1 .. MaxLen :
           snd' = [snd EXCEPT ![s] = [ch |-> ch, k |-> 0, len |-> len]]
    /\ sent' = [sent EXCEPT ![s] = @ + 1] /\ UNCHANGED <<wire, down, recvVars>>

SendChunk(s) ==
    LET m == snd[s]
        done == m.k + 1 = m.len
    IN /\ m # Idle /\ ~down
       /\ wire' = [wire EXCEPT ![m.ch] = [by |-> s, k |-> m.k + 1, len |-> m.len]]
       /\ snd' = [snd EXCEPT ![s] = IF done THEN Idle ELSE [m EXCEPT !.k = @ + 1]]
       /\ writeMu' = IF done THEN Free ELSE writeMu
       /\ UNCHANGED <<sent, down, recvVars>>

\* A write fails: the rest of the message is not sent.
SendFails(s) ==
    /\ snd[s] # Idle
    /\ down' = TRUE /\ snd' = [snd EXCEPT ![s] = Idle] /\ writeMu' = Free
    /\ UNCHANGED <<sent, wire, recvVars>>

Next ==
    \/ \E ch \in Channels : ServerStarts(ch) \/ ServerContinues(ch)
    \/ \E c \in {flight[i] : i \in 1 .. Min({1, Len(flight)})} :
           \/ ReceiveWhole(c) \/ ReceiveFirst(c) \/ ReceiveTooLong(c)
           \/ ReceiveMiddle(c) \/ ReceiveLast(c) \/ ReceiveStray(c)
    \/ \E s \in Senders : \/ \E ch \in Channels : SendBegins(s, ch)
                          \/ SendChunk(s) \/ SendFails(s)

Spec == Init /\ [][Next]_vcVars

-----------------------------------------------------------------------------
(* Properties.                                                             *)

\* The count that enforces the global limit is the size of the buffers,
\* whichever chunks are dropped, evicted or complete a message.
Buffered(chs) == UNION {{ch} \X DOMAIN vcReassembly[ch] : ch \in chs}
CountExact ==
    vcReassemblyTotal = Cardinality(Buffered(Channels))

\* A handler is given whole messages of the server, never a piece of one or two
\* of them joined, however the server's channels interleave.
WholeMessages ==
    \A ch \in Channels :
        \A i \in 1 .. Len(got[ch]) :
            got[ch][i] = Chunk(ch, got[ch][1].n, i, Len(got[ch]))

\* Each message is delivered before the next, unless it was dropped for its
\* length: once all chunks have arrived, the handler has the last message.
NothingLost ==
    \A ch \in Channels :
        flight = <<>> /\ cur[ch].n > 0 /\ cur[ch].k = cur[ch].len
        => \/ dropped[ch] = cur[ch].n
           \/ got[ch] # <<>> /\ got[ch][1].n = cur[ch].n

\* On every channel the chunks of a message follow each other: no other
\* goroutine's message starts in between, and none is left unfinished.
ChunksContiguous ==
    [][\A ch \in Channels :
         wire'[ch] # wire[ch] =>
             \/ wire'[ch].k = 1 /\ wire[ch].k = wire[ch].len
             \/ wire'[ch].by = wire[ch].by /\ wire'[ch].k = wire[ch].k + 1]_vcVars

\* Messages come out of the chunks whole and complete, and the buffers add up.
MessagesFaithful == CountExact /\ WholeMessages /\ NothingLost
=============================================================================
