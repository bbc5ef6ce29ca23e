---------------------------- MODULE UpdatesProofs ----------------------------
(***************************************************************************)
(* Proofs about what the client does with the bytes of a session: the      *)
(* encrypted streams, updates from the wire to their dispatch, the tiles   *)
(* of ClearCodec, the compression of the graphics channel, the progressive *)
(* tiles and the drawing orders.                                           *)
(***************************************************************************)
EXTENDS MCUpdates, Sequences, SequenceTheorems,
        WellFoundedInduction, TLAPS

\* The constants' types, as the provers need them.
LEMMA StreamConstants ==
    /\ Threshold \in Nat \ {0} /\ Stream!None \notin Senders
    /\ MCChunks \in [Senders -> Nat]
BY UpdatesAssumption DEF UpdatesAssumption, MCChunks, Stream!None

\* One packet further in the stream, the count is one more, or the key.
LEMMA NextPlace ==
    ASSUME NEW t \in Nat \ {0}, NEW n \in Nat
    PROVE  IF (n % t) + 1 = t THEN (n + 1) % t = 0 /\ (n + 1) \div t = (n \div t) + 1
                            ELSE (n + 1) % t = (n % t) + 1 /\ (n + 1) \div t = n \div t
OBVIOUS

Where == [count : Nat, key : Nat]
Packet == [from : Senders, left : Nat, at : Where]

\* What s has still to write of its message.
Left(s) == todo[s] + Len(packet[s])

\* The sender that holds writeMu is the only one with a message or a packet. What it
\* encrypted last, or encrypts next, is at the place in the stream it is written at, and
\* it is what follows the last packet written, when that one was not its message's last.
StreamInv ==
    /\ lock \in Senders \cup {Stream!None}
    /\ todo \in [Senders -> Nat] /\ packet \in [Senders -> Seq(Packet)]
    /\ wire \in Seq(Packet) /\ encrypt \in Where /\ decrypt \in Where
    /\ received \in Nat
    /\ \A s \in Senders : lock # s => todo[s] = 0 /\ packet[s] = <<>>
    /\ \A s \in Senders : packet[s] # <<>> =>
          /\ Len(packet[s]) = 1 /\ packet[s][1].from = s /\ packet[s][1].left = todo[s] + 1
          /\ packet[s][1].at = Stream!Place(Len(wire))
          /\ Stream!Updated(encrypt) = Stream!Place(Len(wire) + 1)
    /\ (\A s \in Senders : packet[s] = <<>>) => Stream!Updated(encrypt) = Stream!Place(Len(wire))
    /\ Len(wire) > 0 /\ wire[Len(wire)].left > 1 =>
          lock = wire[Len(wire)].from /\ wire[Len(wire)].left = Left(lock) + 1
    /\ Stream!Updated(decrypt) = Stream!Place(received)
    /\ Stream!StreamFaithful

\* A place is a count and a key.
LEMMA PlaceInWhere == ASSUME NEW n \in Nat PROVE Stream!Place(n) \in Where
<1>1. n % Threshold \in Nat /\ n \div Threshold \in Nat
  BY StreamConstants
<1> QED BY <1>1 DEF Stream!Place, Where

\* A packet is encrypted or decrypted: the next one is at the next place.
LEMMA PlaceUsed ==
    ASSUME NEW n \in Nat, NEW c \in Where, c = Stream!Place(n)
    PROVE  Stream!Used(c) \in Where /\ Stream!Updated(Stream!Used(c)) = Stream!Place(n + 1)
<1> DEFINE u == Stream!Used(c)
<1>1. c.count = n % Threshold /\ c.key = n \div Threshold /\ c.count \in Nat /\ c.key \in Nat
  BY StreamConstants DEF Stream!Place, Where
<1>2. u \in Where /\ u.count = c.count + 1 /\ u.key = c.key
  BY <1>1 DEF Stream!Used, Where
<1>3. u = [count |-> c.count + 1, key |-> c.key]
  BY <1>1 DEF Stream!Used, Where
<1> HIDE DEF u
<1>4. IF c.count + 1 = Threshold
      THEN (n + 1) % Threshold = 0 /\ (n + 1) \div Threshold = c.key + 1
      ELSE (n + 1) % Threshold = c.count + 1 /\ (n + 1) \div Threshold = c.key
  <2>1. IF (n % Threshold) + 1 = Threshold
        THEN (n + 1) % Threshold = 0 /\ (n + 1) \div Threshold = (n \div Threshold) + 1
        ELSE (n + 1) % Threshold = (n % Threshold) + 1 /\ (n + 1) \div Threshold = n \div Threshold
    BY StreamConstants, NextPlace
  <2> QED BY <1>1, <2>1
<1>5. Stream!Updated(u) = Stream!Place(n + 1)
  BY <1>2, <1>3, <1>4 DEF Stream!Updated, Stream!Place
<1> QED BY <1>2, <1>5 DEF u

\* It holds at the start: nothing is encrypted.
LEMMA StreamInit == Stream!Init => StreamInv
<1> SUFFICES ASSUME Stream!Init PROVE StreamInv
  OBVIOUS
<1> USE DEF Stream!Init
<1>1. Stream!Fresh \in Where /\ Stream!Updated(Stream!Fresh) = Stream!Place(0)
  BY StreamConstants DEF Stream!Fresh, Stream!Updated, Stream!Place, Where
<1>2. Stream!StreamFaithful
  BY DEF Stream!StreamFaithful, Stream!Readable, Stream!ChunksTogether
<1> QED BY <1>1, <1>2 DEF StreamInv

\* The lock is taken for a message.
LEMMA StreamLock ==
    ASSUME StreamInv, NEW s \in Senders, Stream!Lock(s)
    PROVE  StreamInv'
<1>1. /\ lock = Stream!None /\ lock' = s /\ packet[s] = <<>>
      /\ \E n \in 1 .. MCChunks[s] : todo' = [todo EXCEPT ![s] = n]
      /\ UNCHANGED <<packet, encrypt, wire, decrypt, garbled, received>>
  BY DEF Stream!Lock, Stream!CanLock
<1>2. \A t \in Senders : todo[t] = 0 /\ packet[t] = <<>>
  BY <1>1, StreamConstants DEF StreamInv
<1>3. todo' \in [Senders -> Nat] /\ \A t \in Senders \ {s} : todo'[t] = todo[t]
  <2>1. PICK n \in 1 .. MCChunks[s] : todo' = [todo EXCEPT ![s] = n]
    BY <1>1
  <2>2. n \in Nat
    BY <2>1, StreamConstants
  <2> QED BY <2>1, <2>2 DEF StreamInv
<1>4. ~(Len(wire) > 0 /\ wire[Len(wire)].left > 1)
  <2>1. Len(wire) > 0 => wire[Len(wire)].from \in Senders
    <3>1. wire \in Seq(Packet)
      BY DEF StreamInv
    <3>2. Len(wire) > 0 => wire[Len(wire)] \in Packet
      BY <3>1
    <3> QED BY <3>2 DEF Packet
  <2> QED BY <1>1, <2>1, StreamConstants DEF StreamInv
<1>5. Stream!StreamFaithful'
  BY <1>1 DEF StreamInv, Stream!StreamFaithful, Stream!Readable, Stream!ChunksTogether, Stream!Place
<1> QED BY <1>1, <1>2, <1>3, <1>4, <1>5 DEF StreamInv, Left, Stream!Place, Stream!Updated

\* A chunk is encrypted.
LEMMA StreamEncrypts ==
    ASSUME StreamInv, NEW s \in Senders, Stream!EncryptChunk(s)
    PROVE  StreamInv'
<1> DEFINE c == Stream!Updated(encrypt)   d == [from |-> s, left |-> todo[s], at |-> c]
<1>1. /\ todo[s] > 0 /\ packet[s] = <<>>
      /\ packet' = [packet EXCEPT ![s] = <<d>>] /\ encrypt' = Stream!Used(c)
      /\ todo' = [todo EXCEPT ![s] = @ - 1]
      /\ UNCHANGED <<lock, wire, decrypt, garbled, received>>
  BY DEF Stream!EncryptChunk
<1>2. lock = s /\ todo[s] \in Nat /\ Len(wire) \in Nat
  BY <1>1 DEF StreamInv
<1>3. \A t \in Senders : packet[t] = <<>>
  BY <1>1, <1>2 DEF StreamInv
<1>4. c = Stream!Place(Len(wire)) /\ c \in Where
  <2>1. c = Stream!Place(Len(wire))
    BY <1>3 DEF StreamInv
  <2> QED BY <1>2, <2>1, PlaceInWhere
<1>5. encrypt' \in Where /\ Stream!Updated(encrypt') = Stream!Place(Len(wire) + 1)
  BY <1>1, <1>2, <1>4, PlaceUsed
<1>6. d \in Packet /\ d.from = s /\ d.left = todo[s] /\ d.at = Stream!Place(Len(wire))
  BY <1>2, <1>4 DEF Packet
<1> HIDE DEF c, d
<1>7. /\ packet' \in [Senders -> Seq(Packet)] /\ packet'[s] = <<d>>
      /\ \A t \in Senders \ {s} : packet'[t] = <<>>
      /\ todo' \in [Senders -> Nat] /\ todo'[s] = todo[s] - 1
      /\ \A t \in Senders \ {s} : todo'[t] = todo[t]
  BY <1>1, <1>2, <1>3, <1>6 DEF StreamInv
<1>8. Stream!StreamFaithful'
  BY <1>1 DEF StreamInv, Stream!StreamFaithful, Stream!Readable, Stream!ChunksTogether, Stream!Place
<1>9. Left(s)' = Left(s)
  BY <1>1, <1>2, <1>7 DEF Left
<1>10. ASSUME NEW t \in Senders, packet'[t] # <<>>
       PROVE  /\ Len(packet'[t]) = 1 /\ packet'[t][1].from = t /\ packet'[t][1].left = todo'[t] + 1
              /\ packet'[t][1].at = Stream!Place(Len(wire))
              /\ Stream!Updated(encrypt') = Stream!Place(Len(wire) + 1)
  <2>1. t = s
    BY <1>7, <1>10
  <2>2. Len(packet'[s]) = 1 /\ packet'[s][1] = d
    BY <1>7
  <2>3. todo'[s] + 1 = todo[s]
    BY <1>2, <1>7
  <2> QED BY <1>5, <1>6, <2>1, <2>2, <2>3
<1>11. Len(wire) > 0 /\ wire[Len(wire)].left > 1 =>
           lock' = wire[Len(wire)].from /\ wire[Len(wire)].left = Left(s)' + 1
  BY <1>1, <1>2, <1>9 DEF StreamInv
<1>12. Stream!Updated(decrypt)' = Stream!Place(received)'
  BY <1>1 DEF StreamInv, Stream!Updated, Stream!Place
<1>13. packet'[s] # <<>>
  BY <1>7
<1> QED BY <1>1, <1>2, <1>5, <1>7, <1>8, <1>10, <1>11, <1>12, <1>13
        DEF StreamInv, Stream!Place, Stream!Updated, Left

\* A packet is written, and the lock let go after the last of the message.
LEMMA StreamWrites ==
    ASSUME StreamInv, NEW s \in Senders, Stream!WriteChunk(s)
    PROVE  StreamInv'
<1> DEFINE d == packet[s][1]   n == Len(wire)
<1>1. /\ packet[s] # <<>> /\ wire' = Append(wire, d) /\ packet' = [packet EXCEPT ![s] = <<>>]
      /\ lock' = IF todo[s] = 0 THEN Stream!None ELSE lock
      /\ UNCHANGED <<todo, encrypt, decrypt, garbled, received>>
  BY DEF Stream!WriteChunk
<1>2. /\ lock = s /\ todo[s] \in Nat /\ n \in Nat /\ wire \in Seq(Packet)
      /\ Len(packet[s]) = 1 /\ d.from = s /\ d.left = todo[s] + 1 /\ d.at = Stream!Place(n)
      /\ Stream!Updated(encrypt) = Stream!Place(n + 1)
  BY <1>1 DEF StreamInv
<1>3. d \in Packet
  <2>1. packet[s] \in Seq(Packet)
    BY DEF StreamInv
  <2> QED BY <1>2, <2>1
<1> HIDE DEF d
<1>4. /\ wire' \in Seq(Packet) /\ Len(wire') = n + 1 /\ wire'[n + 1] = d
      /\ \A m \in 1 .. n : wire'[m] = wire[m]
  BY <1>1, <1>2, <1>3, AppendProperties
<1> HIDE DEF n
<1>5. /\ packet' \in [Senders -> Seq(Packet)] /\ \A t \in Senders : packet'[t] = <<>>
  BY <1>1, <1>2 DEF StreamInv
<1>6. \A t \in Senders : lock' # t => todo[t] = 0
  BY <1>1, <1>2, StreamConstants DEF StreamInv
<1>7. n > 0 /\ wire[n].left > 1 => wire[n].from = d.from /\ wire[n].left - 1 = d.left
  <2>1. n > 0 /\ wire[n].left > 1 => wire[n].from = s /\ wire[n].left = todo[s] + 1 + 1
    BY <1>2 DEF StreamInv, Left, n
  <2> QED BY <1>2, <2>1
<1>8. Stream!Readable'
  <2>1. \A m \in 1 .. n + 1 : wire'[m].at = Stream!Place(m - 1)
    <3>1. \A m \in 1 .. n : wire[m].at = Stream!Place(m - 1)
      BY DEF StreamInv, Stream!StreamFaithful, Stream!Readable, n
    <3>2. (n + 1) - 1 = n
      BY <1>2
    <3> QED BY <1>2, <1>4, <3>1, <3>2
  <2> QED BY <1>4, <2>1 DEF Stream!Readable, Stream!Place
<1>9. Stream!ChunksTogether'
  <2>1. ASSUME NEW m \in 1 .. n, wire'[m].left > 1
        PROVE  wire'[m + 1].from = wire'[m].from /\ wire'[m + 1].left = wire'[m].left - 1
    <3>1. CASE m = n
      BY <1>2, <1>4, <1>7, <2>1, <3>1
    <3>2. CASE m \in 1 .. n - 1
      <4>1. wire'[m] = wire[m] /\ wire'[m + 1] = wire[m + 1]
        BY <1>2, <1>4, <3>2
      <4> QED BY <2>1, <3>2, <4>1 DEF StreamInv, Stream!StreamFaithful, Stream!ChunksTogether, n
    <3> QED BY <1>2, <3>1, <3>2
  <2> QED BY <1>2, <1>4, <2>1 DEF Stream!ChunksTogether
<1>10. Stream!StreamFaithful'
  BY <1>1, <1>8, <1>9 DEF StreamInv, Stream!StreamFaithful
<1>11. d.left > 1 => lock' = d.from /\ d.left = Left(s)' + 1
  <2>1. Len(packet'[s]) = 0
    BY <1>5
  <2> QED BY <1>1, <1>2, <2>1 DEF Left
<1>12. Stream!Updated(encrypt)' = Stream!Place(Len(wire))' /\ Stream!Updated(decrypt)' = Stream!Place(received)'
  BY <1>1, <1>2, <1>4 DEF StreamInv, Stream!Updated, Stream!Place
<1>13. lock' \in Senders \cup {Stream!None}
  BY <1>1, <1>2
<1>14. Len(wire') > 0 /\ wire'[Len(wire')].left > 1 =>
           lock' = wire'[Len(wire')].from /\ wire'[Len(wire')].left = Left(lock)' + 1
  <2>1. d.left > 1 => lock' = s
    BY <1>2, <1>11
  <2> QED BY <1>4, <1>11, <2>1 DEF Left
<1> QED BY <1>1, <1>4, <1>5, <1>6, <1>10, <1>12, <1>13, <1>14 DEF StreamInv

\* A packet of the server is received.
LEMMA StreamReceives ==
    ASSUME StreamInv, NEW kind, Stream!Receive(kind)
    PROVE  StreamInv'
<1> DEFINE c == Stream!Updated(decrypt)
<1>1. /\ received' = IF kind = "plain" THEN received ELSE received + 1
      /\ decrypt' = IF kind # "plain" THEN Stream!Used(c) ELSE decrypt
      /\ garbled' = (garbled \/ (kind # "plain" /\ c # Stream!Place(received)))
      /\ UNCHANGED <<lock, todo, packet, encrypt, wire>>
  BY DEF Stream!Receive, Stream!Decrypts
<1>2. received \in Nat /\ decrypt \in Where /\ c = Stream!Place(received) /\ c \in Where
  <2>1. received \in Nat /\ decrypt \in Where /\ c = Stream!Place(received)
    BY DEF StreamInv
  <2> QED BY <2>1, PlaceInWhere
<1>3. decrypt' \in Where /\ received' \in Nat /\ Stream!Updated(decrypt') = Stream!Place(received')
  <2>1. CASE kind = "plain"
    BY <1>1, <1>2, <2>1
  <2>2. CASE kind # "plain"
    BY <1>1, <1>2, <2>2, PlaceUsed
  <2> QED BY <2>1, <2>2
<1>4. Stream!StreamFaithful'
  BY <1>1, <1>2 DEF StreamInv, Stream!StreamFaithful, Stream!Readable, Stream!ChunksTogether, Stream!Place
<1> HIDE DEF c
<1> QED BY <1>1, <1>3, <1>4 DEF StreamInv, Left, Stream!Place, Stream!Updated

\* Every step keeps it.
LEMMA StreamNext == StreamInv /\ [Stream!Next]_(Stream!vars) => StreamInv'
<1> SUFFICES ASSUME StreamInv, [Stream!Next]_(Stream!vars) PROVE StreamInv'
  OBVIOUS
<1>1. ASSUME UNCHANGED Stream!vars PROVE StreamInv'
  <2>1. UNCHANGED <<lock, todo, packet, encrypt, wire, decrypt, garbled, received>>
    BY <1>1 DEF Stream!vars
  <2>2. Stream!StreamFaithful'
    BY <2>1 DEF StreamInv, Stream!StreamFaithful, Stream!Readable, Stream!ChunksTogether, Stream!Place
  <2> QED BY <2>1, <2>2 DEF StreamInv, Left, Stream!Place, Stream!Updated
<1> QED BY <1>1, StreamLock, StreamEncrypts, StreamWrites, StreamReceives DEF Stream!Next

\* Every packet is written at the place of the stream, and under the key, it was encrypted
\* at, the chunks of a message are together, and what the server sends is decrypted where
\* it was encrypted: for any number of senders and chunks, and whenever keys are replaced.
THEOREM StreamAlwaysFaithful == MCSpec => []StreamFaithful
<1>1. StreamInv => Stream!StreamFaithful
  BY DEF StreamInv
<1>2. Stream!Spec => []Stream!StreamFaithful
  BY <1>1, StreamInit, StreamNext, PTL DEF Stream!Spec
<1>3. MCSpec => Stream!Spec
  <2>1. MCInit => Stream!Init
    BY DEF MCInit
  <2>2. ASSUME [MCNext]_mcVars PROVE [Stream!Next]_(Stream!vars)
    <3>1. UNCHANGED streamVars => UNCHANGED Stream!vars
      BY DEF streamVars, Stream!vars
    <3>2. UNCHANGED mcVars => UNCHANGED streamVars
      BY DEF mcVars, streamVars
    <3>3. MCNext => Stream!Next \/ UNCHANGED streamVars
      BY DEF MCNext
    <3> QED BY <2>2, <3>1, <3>2, <3>3
  <2> QED BY <2>1, <2>2, PTL DEF MCSpec, Stream!Spec
<1> QED BY <1>2, <1>3 DEF StreamFaithful

(***************************************************************************)
(* Updates, from the wire to their dispatch.                               *)
(***************************************************************************)

\* The fields of both sides.
ServerFields == {"hist", "off", "now", "code", "left", "cache", "cursor", "frames", "sent"}
ClientFields == {"hist", "off", "frag", "code", "cache", "cursor", "acks", "done"}
IsServer(s) == DOMAIN s = ServerFields /\ s = [f \in ServerFields |-> s[f]]
IsClient(c) == DOMAIN c = ClientFields /\ c = [f \in ClientFields |-> c[f]]

\* The histories are the same, and so is what came of the updates that are whole.
SameHistory(s, c) == s.hist = c.hist /\ s.off = c.off /\ s.off \in Nat
SameUpdates(s, c) ==
    /\ s.sent = c.done /\ s.cache = c.cache /\ DOMAIN s.cache = Blocks
    /\ s.cursor = c.cursor /\ s.frames = c.acks

\* What the client has of the update that is being cut is what the server sent of it.
SamePieces(s, c) ==
    /\ s.left \in Nat /\ s.now \in Seq(Blocks) /\ c.frag = s.now
    /\ s.left = 0 => s.now = <<>>
    /\ s.left > 0 => s.now # <<>> /\ c.code = s.code

\* Both sides of the receive path, and its paints.
ReceiveInv ==
    /\ IsServer(sender) /\ IsClient(receiver)
    /\ SameHistory(sender, receiver) /\ SameUpdates(sender, receiver)
    /\ SamePieces(sender, receiver)
    /\ Receive!PaintsPaired /\ pdu \in BOOLEAN

\* It holds at the start.
LEMMA ReceiveStarts == Receive!Init => ReceiveInv
<1> SUFFICES ASSUME Receive!Init PROVE ReceiveInv
  OBVIOUS
<1>1. IsServer(sender) /\ IsClient(receiver)
  BY DEF Receive!Init, IsServer, IsClient, ServerFields, ClientFields
<1>2. SameHistory(sender, receiver) /\ SameUpdates(sender, receiver)
  BY DEF Receive!Init, SameHistory, SameUpdates
<1>3. SamePieces(sender, receiver)
  BY DEF Receive!Init, SamePieces
<1>4. Receive!PaintsPaired /\ pdu \in BOOLEAN
  BY DEF Receive!Init, Receive!PaintsPaired
<1> QED BY <1>1, <1>2, <1>3, <1>4 DEF ReceiveInv

\* One side with another history.
Moved(s, h, o) == [s EXCEPT !.hist = h, !.off = o]

\* What is unpacked is what was packed, and leaves both with one history: unless the
\* server flushes in a packet the decompressor does not see.
LEMMA BlockUnpacked ==
    ASSUME ~UncompressedFlush, NEW s, NEW c, IsServer(s), IsClient(c), SameHistory(s, c),
           NEW b, NEW p \in Receive!Packets(s, b)
    PROVE  LET d == Receive!Unpack(c, p) IN
           /\ d.ok /\ d.out = b
           /\ Receive!Sent(s, p) = Moved(s, d.hist, d.off) /\ d.off \in Nat
<1>1. /\ p.form \in {"plain", "literal", "match"} /\ p.b = b
      /\ p.reset \in BOOLEAN /\ p.flush \in BOOLEAN
      /\ p.form = "plain" => ~p.flush
      /\ p.form # "plain" => Receive!Start(s, p) < HistSize
      /\ p.form = "match" => ~p.flush /\ s.hist[Receive!Behind(Receive!Start(s, p), p.dist)] = b
  BY DEF Receive!Packets
<1>2. /\ Receive!Start(s, p) = Receive!Started(c, p) /\ Receive!Hist(s, p) = Receive!Hist(c, p)
      /\ s.hist = c.hist /\ s.off = c.off
  BY DEF SameHistory, Receive!Start, Receive!Started, Receive!Hist
<1>3. CASE p.form = "plain"
  <2>1. Receive!Sent(s, p) = s
    BY <1>1, <1>3 DEF Receive!Sent
  <2>2. s = [s EXCEPT !.hist = s.hist, !.off = s.off]
    BY DEF IsServer, ServerFields
  <2> DEFINE d == Receive!Unpack(c, p)
  <2>3. d.ok /\ d.out = b /\ d.hist = c.hist /\ d.off = c.off
    BY <1>1, <1>3 DEF Receive!Unpack
  <2> HIDE DEF d
  <2>4. [s EXCEPT !.hist = s.hist, !.off = s.off] = [s EXCEPT !.hist = d.hist, !.off = d.off]
    BY <1>2, <2>3
  <2>5. /\ d.ok /\ d.out = b /\ Receive!Sent(s, p) = [s EXCEPT !.hist = d.hist, !.off = d.off]
        /\ d.off \in Nat
    BY <2>1, <2>2, <2>3, <2>4 DEF SameHistory
  <2> QED BY <2>5 DEF d, Moved
<1>4. CASE p.form # "plain"
  <2> DEFINE d == Receive!Unpack(c, p)
             at == Receive!Start(s, p)
             old == Receive!Hist(s, p)
  <2>1. /\ (IF p.form = "literal" THEN p.b ELSE old[Receive!Behind(at, p.dist)]) = b
        /\ ~(at >= HistSize)
    <3>1. p.form = "match" => old = s.hist
      BY <1>1 DEF Receive!Hist
    <3>2. (IF p.form = "literal" THEN p.b ELSE old[Receive!Behind(at, p.dist)]) = b
      BY <1>1, <1>4, <3>1
    <3>3. at \in Nat /\ at < HistSize /\ HistSize \in Nat
      BY <1>1, <1>4, UpdatesAssumption DEF UpdatesAssumption, SameHistory, Receive!Start
    <3>4. ~(at >= HistSize)
      <4> HIDE DEF at
      <4> QED BY <3>3
    <3> QED BY <3>2, <3>4
  <2>2. d = [ok |-> TRUE, out |-> b, hist |-> [old EXCEPT ![at + 1] = b], off |-> at + 1]
    BY <1>2, <1>4, <2>1 DEF Receive!Unpack, Receive!Decompress
  <2>3. Receive!Sent(s, p) = [s EXCEPT !.hist = [old EXCEPT ![at + 1] = b], !.off = at + 1]
    BY <1>1, <1>4 DEF Receive!Sent
  <2> HIDE DEF d
  <2>4. d.ok /\ d.out = b /\ d.hist = [old EXCEPT ![at + 1] = b] /\ d.off = at + 1
    BY <2>2
  <2>5. d.ok /\ d.out = b /\ Receive!Sent(s, p) = [s EXCEPT !.hist = d.hist, !.off = d.off]
    BY <2>3, <2>4
  <2>6. d.off \in Nat
    BY <2>4 DEF SameHistory, Receive!Start
  <2> QED BY <2>5, <2>6 DEF d, Moved
<1> QED BY <1>3, <1>4

\* A whole update changes both sides alike.
LEMMA UpdateDispatched ==
    ASSUME NEW s, NEW c, IsServer(s), IsClient(c), SameUpdates(s, c), NEW u
    PROVE  LET t == Receive!Whole(s, u)
               e == Receive!Dispatch(c, u)
           IN  /\ IsServer(t) /\ IsClient(e) /\ SameUpdates(t, e)
               /\ t.hist = s.hist /\ t.off = s.off /\ e.hist = c.hist /\ e.off = c.off
               /\ t.now = <<>> /\ t.left = 0 /\ e.frag = c.frag /\ e.code = c.code
               /\ t.code = s.code
<1> DEFINE shape == Receive!Shape(u)   at == u.blocks[1]   new == u.code = "new"
           kept == IF new THEN [c.cache EXCEPT ![at] = shape] ELSE c.cache
           seen == IF new THEN shape ELSE IF u.code = "cached" THEN c.cache[at] ELSE c.cursor
           count == IF u.code = "frame" THEN c.acks + 1 ELSE c.acks
           t == Receive!Whole(s, u)
           e == Receive!Dispatch(c, u)
<1>1. /\ s.cache = c.cache /\ s.cursor = c.cursor /\ s.frames = c.acks /\ s.sent = c.done
      /\ DOMAIN c.cache = Blocks
  BY DEF SameUpdates
<1>2. [c.cache EXCEPT ![at] = shape] = [i \in Blocks |-> IF i = at THEN shape ELSE c.cache[i]]
  <2> HIDE DEF at, shape
  <2> QED BY <1>1
<1>3. kept = IF new THEN [i \in Blocks |-> IF i = at THEN shape ELSE s.cache[i]] ELSE s.cache
  <2> HIDE DEF at, shape, new
  <2> QED BY <1>1, <1>2
<1>4. seen = CASE new -> shape [] u.code = "cached" -> s.cache[at] [] OTHER -> s.cursor
  <2>1. new => u.code # "cached"
    OBVIOUS
  <2> HIDE DEF at, shape, new
  <2> QED BY <1>1, <2>1
<1>5. count = (IF u.code = "frame" THEN s.frames + 1 ELSE s.frames) /\ DOMAIN kept = Blocks
  BY <1>1
<1>6. e = [c EXCEPT !.done = Append(c.done, u), !.cache = kept, !.cursor = seen, !.acks = count]
  BY DEF Receive!Dispatch, Receive!Cached, Receive!Index
<1>7. t = [s EXCEPT !.sent = Append(c.done, u), !.now = <<>>, !.left = 0,
                    !.cache = kept, !.cursor = seen, !.frames = count]
  <2>1. t = [s EXCEPT !.sent = Append(s.sent, u), !.now = <<>>, !.left = 0,
               !.cache = IF new THEN [i \in Blocks |-> IF i = at THEN shape ELSE s.cache[i]]
                         ELSE s.cache,
               !.cursor = CASE new -> shape [] u.code = "cached" -> s.cache[at]
                            [] OTHER -> s.cursor,
               !.frames = IF u.code = "frame" THEN s.frames + 1 ELSE s.frames]
    BY DEF Receive!Whole
  <2> HIDE DEF t, kept, seen, count, new, shape, at
  <2> QED BY <1>1, <1>3, <1>4, <1>5, <2>1, Zenon
<1> HIDE DEF shape, at, new, kept, seen, count, t, e
<1>8. /\ e.hist = c.hist /\ e.off = c.off /\ e.frag = c.frag /\ e.code = c.code
      /\ e.cache = kept /\ e.cursor = seen /\ e.acks = count /\ e.done = Append(c.done, u)
      /\ IsClient(e)
  BY <1>6 DEF IsClient, ClientFields
<1>9. /\ t.hist = s.hist /\ t.off = s.off /\ t.now = <<>> /\ t.code = s.code /\ t.left = 0
      /\ t.cache = kept /\ t.cursor = seen /\ t.frames = count /\ t.sent = Append(c.done, u)
      /\ IsServer(t)
  BY <1>7 DEF IsServer, ServerFields
<1>10. SameUpdates(t, e)
  BY <1>1, <1>5, <1>8, <1>9 DEF SameUpdates
<1>11. /\ IsServer(t) /\ IsClient(e) /\ SameUpdates(t, e)
       /\ t.hist = s.hist /\ t.off = s.off /\ e.hist = c.hist /\ e.off = c.off
       /\ t.now = <<>> /\ t.left = 0 /\ e.frag = c.frag /\ e.code = c.code
       /\ t.code = s.code
  BY <1>8, <1>9, <1>10
<1> QED BY <1>11 DEF t, e

\* Both sides but for paints.
SidesInv(s, c) ==
    IsServer(s) /\ IsClient(c) /\ SameHistory(s, c) /\ SameUpdates(s, c) /\ SamePieces(s, c)

\* With the block unpacked, both have the new history and nothing else is changed.
LEMMA HistoryMoves ==
    ASSUME NEW s, NEW c, SidesInv(s, c), NEW h, NEW o \in Nat
    PROVE  SidesInv([s EXCEPT !.hist = h, !.off = o], [c EXCEPT !.hist = h, !.off = o])
<1> DEFINE t == [s EXCEPT !.hist = h, !.off = o]   e == [c EXCEPT !.hist = h, !.off = o]
<1>1. IsServer(s) /\ IsClient(c)
  BY DEF SidesInv
<1>2. t = [s EXCEPT !.hist = h, !.off = o] /\ e = [c EXCEPT !.hist = h, !.off = o]
  OBVIOUS
<1> HIDE DEF t, e
<1>3. /\ t.hist = h /\ t.off = o /\ t.now = s.now /\ t.code = s.code /\ t.left = s.left
      /\ t.cache = s.cache /\ t.cursor = s.cursor /\ t.frames = s.frames /\ t.sent = s.sent
      /\ IsServer(t)
  BY <1>1, <1>2 DEF IsServer, ServerFields
<1>4. /\ e.hist = h /\ e.off = o /\ e.frag = c.frag /\ e.code = c.code /\ e.cache = c.cache
      /\ e.cursor = c.cursor /\ e.acks = c.acks /\ e.done = c.done /\ IsClient(e)
  BY <1>1, <1>2 DEF IsClient, ClientFields
<1>5. SameHistory(t, e) /\ SameUpdates(t, e) /\ SamePieces(t, e)
  BY <1>3, <1>4 DEF SidesInv, SameHistory, SameUpdates, SamePieces
<1>6. SidesInv(t, e)
  BY <1>3, <1>4, <1>5 DEF SidesInv
<1> QED BY <1>6 DEF t, e

\* A fragment goes to what it is a piece of, and the last makes the update whole.
LEMMA FragmentHandled ==
    ASSUME NEW s, NEW c, SidesInv(s, c), NEW x, x.b \in Blocks,
           \/ x.kind = "single"
           \/ x.kind = "first" /\ s.left = 0 /\ x.n \in Nat /\ x.n > 1
           \/ x.kind = "next" /\ s.left > 1
           \/ x.kind = "last" /\ s.left = 1
    PROVE  LET r == Receive!Handle(c, x.kind, x.code, x.b) IN
           SidesInv(Receive!AfterPiece(s, x),
                    IF r.out = <<>> THEN r.client ELSE Receive!Dispatch(r.client, r.out[1]))
<1> DEFINE r == Receive!Handle(c, x.kind, x.code, x.b)
           t == Receive!AfterPiece(s, x)
           e == IF r.out = <<>> THEN r.client ELSE Receive!Dispatch(r.client, r.out[1])
<1>1. /\ IsServer(s) /\ IsClient(c) /\ SameHistory(s, c) /\ SameUpdates(s, c)
      /\ s.left \in Nat /\ s.now \in Seq(Blocks) /\ c.frag = s.now
      /\ s.left = 0 => s.now = <<>>
      /\ s.left > 0 => s.now # <<>> /\ c.code = s.code
  BY DEF SidesInv, SamePieces
<1>2. CASE x.kind = "single"
  <2> DEFINE u == [code |-> x.code, blocks |-> <<x.b>>]
             w == Receive!Whole(s, u)
  <2>1. r.client = c /\ r.out = <<u>>
    BY <1>2 DEF Receive!Handle
  <2>2. t = [w EXCEPT !.now = s.now, !.left = s.left]
    BY <1>2 DEF Receive!AfterPiece
  <2> HIDE DEF u, r
  <2>3. e = Receive!Dispatch(c, u)
    BY <2>1
  <2>4. /\ IsServer(w) /\ IsClient(e) /\ SameUpdates(w, e)
        /\ w.hist = s.hist /\ w.off = s.off /\ e.hist = c.hist /\ e.off = c.off
        /\ e.frag = c.frag /\ e.code = c.code /\ w.code = s.code
    BY <1>1, <2>3, UpdateDispatched
  <2> HIDE DEF w, e, t
  <2>5. /\ t.hist = w.hist /\ t.off = w.off /\ t.now = s.now /\ t.code = w.code /\ t.left = s.left
        /\ t.cache = w.cache /\ t.cursor = w.cursor /\ t.frames = w.frames /\ t.sent = w.sent
        /\ IsServer(t)
    BY <2>2, <2>4 DEF IsServer, ServerFields
  <2>6. SameHistory(t, e) /\ SameUpdates(t, e) /\ SamePieces(t, e)
    BY <1>1, <2>4, <2>5 DEF SameHistory, SameUpdates, SamePieces
  <2>7. SidesInv(t, e)
    BY <2>4, <2>5, <2>6 DEF SidesInv
  <2> QED BY <2>7 DEF t, e, r
<1>3. CASE x.kind = "first"
  <2>1. r.client = [c EXCEPT !.code = x.code, !.frag = <<x.b>>] /\ r.out = <<>>
    BY <1>3 DEF Receive!Handle
  <2>2. t = [s EXCEPT !.now = <<x.b>>, !.code = x.code, !.left = x.n - 1]
    BY <1>3 DEF Receive!AfterPiece
  <2> HIDE DEF r
  <2>3. e = [c EXCEPT !.code = x.code, !.frag = <<x.b>>]
    BY <2>1
  <2> HIDE DEF e, t
  <2>4. /\ e.hist = c.hist /\ e.off = c.off /\ e.frag = <<x.b>> /\ e.code = x.code
        /\ e.cache = c.cache /\ e.cursor = c.cursor /\ e.acks = c.acks /\ e.done = c.done
        /\ IsClient(e)
    BY <1>1, <2>3 DEF IsClient, ClientFields
  <2>5. /\ t.hist = s.hist /\ t.off = s.off /\ t.now = <<x.b>> /\ t.code = x.code
        /\ t.left = x.n - 1 /\ t.cache = s.cache /\ t.cursor = s.cursor
        /\ t.frames = s.frames /\ t.sent = s.sent /\ IsServer(t)
    BY <1>1, <2>2 DEF IsServer, ServerFields
  <2>6. <<x.b>> # <<>> /\ <<x.b>> \in Seq(Blocks) /\ x.n - 1 \in Nat /\ x.n - 1 # 0
    BY <1>3
  <2>7. SamePieces(t, e)
    BY <2>4, <2>5, <2>6 DEF SamePieces
  <2>8. SameHistory(t, e) /\ SameUpdates(t, e)
    BY <1>1, <2>4, <2>5 DEF SameHistory, SameUpdates
  <2>9. SidesInv(t, e)
    BY <2>4, <2>5, <2>7, <2>8 DEF SidesInv
  <2> QED BY <2>9 DEF t, e, r
<1>4. CASE x.kind = "next"
  <2>1. c.frag # <<>> /\ s.left > 1 /\ c.code = s.code
    BY <1>1, <1>4
  <2>2. r.client = [c EXCEPT !.frag = Append(c.frag, x.b)] /\ r.out = <<>>
    BY <1>4, <2>1 DEF Receive!Handle
  <2>3. t = [s EXCEPT !.now = Append(s.now, x.b), !.left = s.left - 1]
    BY <1>4 DEF Receive!AfterPiece
  <2> HIDE DEF r
  <2>4. e = [c EXCEPT !.frag = Append(c.frag, x.b)]
    BY <2>2
  <2> HIDE DEF e, t
  <2>5. /\ e.hist = c.hist /\ e.off = c.off /\ e.frag = Append(c.frag, x.b) /\ e.code = c.code
        /\ e.cache = c.cache /\ e.cursor = c.cursor /\ e.acks = c.acks /\ e.done = c.done
        /\ IsClient(e)
    BY <1>1, <2>4 DEF IsClient, ClientFields
  <2>6. /\ t.hist = s.hist /\ t.off = s.off /\ t.now = Append(s.now, x.b) /\ t.code = s.code
        /\ t.left = s.left - 1 /\ t.cache = s.cache /\ t.cursor = s.cursor
        /\ t.frames = s.frames /\ t.sent = s.sent /\ IsServer(t)
    BY <1>1, <2>3 DEF IsServer, ServerFields
  <2>7. Append(s.now, x.b) # <<>> /\ Append(s.now, x.b) \in Seq(Blocks)
    <3> DEFINE q == s.now
    <3>1. q \in Seq(Blocks)
      BY <1>1
    <3> HIDE DEF q
    <3>2. Append(q, x.b) # <<>> /\ Append(q, x.b) \in Seq(Blocks)
      BY <3>1
    <3> QED BY <3>2 DEF q
  <2>8. SamePieces(t, e)
    <3> DEFINE n == s.left
    <3>1. n \in Nat /\ n > 1 /\ t.left = n - 1
      BY <1>1, <2>1, <2>6
    <3> HIDE DEF n
    <3>2. t.left \in Nat /\ t.left # 0
      BY <3>1
    <3> QED BY <1>1, <2>1, <2>5, <2>6, <2>7, <3>2 DEF SamePieces
  <2>9. SameHistory(t, e) /\ SameUpdates(t, e)
    BY <1>1, <2>5, <2>6 DEF SameHistory, SameUpdates
  <2>10. SidesInv(t, e)
    BY <2>5, <2>6, <2>8, <2>9 DEF SidesInv
  <2> QED BY <2>10 DEF t, e, r
<1>5. CASE x.kind = "last"
  <2> DEFINE u == [code |-> s.code, blocks |-> Append(s.now, x.b)]
             d == [c EXCEPT !.frag = <<>>]
  <2>1. c.frag # <<>> /\ c.code = s.code
    BY <1>1, <1>5
  <2>2. r.client = d /\ r.out = <<[code |-> c.code, blocks |-> Append(c.frag, x.b)]>>
    BY <1>5, <2>1 DEF Receive!Handle
  <2>3. t = Receive!Whole(s, u)
    BY <1>5 DEF Receive!AfterPiece
  <2>4. [code |-> c.code, blocks |-> Append(c.frag, x.b)] = u
    BY <1>1, <2>1
  <2> HIDE DEF u, r
  <2> HIDE DEF d
  <2>5. e = Receive!Dispatch(d, u)
    <3>1. r.client = d /\ r.out = <<u>>
      BY <2>2, <2>4, Zenon
    <3> QED BY <3>1
  <2> HIDE DEF e, t
  <2>6. /\ d.hist = c.hist /\ d.off = c.off /\ d.frag = <<>> /\ d.code = c.code
        /\ d.cache = c.cache /\ d.cursor = c.cursor /\ d.acks = c.acks /\ d.done = c.done
        /\ IsClient(d)
    BY <1>1 DEF IsClient, ClientFields, d
  <2>7. SameUpdates(s, d)
    BY <1>1, <2>6 DEF SameUpdates
  <2>8. /\ IsServer(t) /\ IsClient(e) /\ SameUpdates(t, e)
        /\ t.hist = s.hist /\ t.off = s.off /\ e.hist = d.hist /\ e.off = d.off
        /\ t.now = <<>> /\ t.left = 0 /\ e.frag = d.frag
    BY <1>1, <2>3, <2>5, <2>6, <2>7, UpdateDispatched
  <2>9. SameHistory(t, e) /\ SamePieces(t, e)
    BY <1>1, <2>6, <2>8 DEF SameHistory, SamePieces
  <2>10. SidesInv(t, e)
    BY <2>8, <2>9 DEF SidesInv
  <2> QED BY <2>10 DEF t, e, r
<1> QED BY <1>2, <1>3, <1>4, <1>5

\* The sides after a fragment that both unpacked.
LEMMA FragmentCarried ==
    ASSUME ~UncompressedFlush, NEW s, NEW c, SidesInv(s, c), NEW x, x.b \in Blocks,
           NEW p \in Receive!Packets(s, x.b),
           \/ x.kind = "single"
           \/ x.kind = "first" /\ s.left = 0 /\ x.n \in Nat /\ x.n > 1
           \/ x.kind = "next" /\ s.left > 1
           \/ x.kind = "last" /\ s.left = 1
    PROVE  LET d == Receive!Unpack(c, p)
               e == [c EXCEPT !.hist = d.hist, !.off = d.off]
               r == Receive!Handle(e, x.kind, x.code, d.out)
           IN  /\ d.ok
               /\ SidesInv(Receive!AfterPiece(Receive!Sent(s, p), x),
                           IF r.out = <<>> THEN r.client ELSE Receive!Dispatch(r.client, r.out[1]))
<1> DEFINE d == Receive!Unpack(c, p)
           e == [c EXCEPT !.hist = d.hist, !.off = d.off]
           t == Receive!Sent(s, p)
           r == Receive!Handle(e, x.kind, x.code, d.out)
<1>1. d.ok /\ d.out = x.b /\ t = Moved(s, d.hist, d.off) /\ d.off \in Nat
  <2>1. IsServer(s) /\ IsClient(c) /\ SameHistory(s, c)
    BY DEF SidesInv
  <2> QED BY <2>1, BlockUnpacked
<1>2. t.left = s.left
  <2> HIDE DEF t, d
  <2> QED BY <1>1 DEF SidesInv, IsServer, ServerFields, Moved
<1> HIDE DEF t, d
<1>3. SidesInv(t, e)
  BY <1>1, HistoryMoves DEF Moved
<1> HIDE DEF e
<1>4. r = Receive!Handle(e, x.kind, x.code, x.b)
  BY <1>1
<1>5. SidesInv(Receive!AfterPiece(t, x),
               IF r.out = <<>> THEN r.client ELSE Receive!Dispatch(r.client, r.out[1]))
  BY <1>2, <1>3, <1>4, FragmentHandled
<1> QED BY <1>1, <1>5 DEF t, d, e

\* The pieces are one of the four kinds.
LEMMA PieceKinds ==
    ASSUME SidesInv(sender, receiver), NEW x \in Receive!Pieces
    PROVE  /\ x.b \in Blocks
           /\ \/ x.kind = "single"
              \/ x.kind = "first" /\ sender.left = 0 /\ x.n \in Nat /\ x.n > 1
              \/ x.kind = "next" /\ sender.left > 1
              \/ x.kind = "last" /\ sender.left = 1
<1>1. sender.left \in Nat
  BY DEF SidesInv, SamePieces
<1>2. CASE /\ x \in [kind : {"single", "first"}, code : Codes, b : Blocks, n : 1 .. MaxLength]
           /\ x.kind = "first" => x.n > 1 /\ sender.left = 0
  BY <1>2
<1>3. ASSUME NEW b \in Blocks, sender.left > 0,
             x = [kind |-> IF sender.left = 1 THEN "last" ELSE "next", code |-> sender.code,
                  b |-> b, n |-> sender.left]
      PROVE  x.b \in Blocks /\ ((x.kind = "next" /\ sender.left > 1) \/ (x.kind = "last" /\ sender.left = 1))
  <2> DEFINE n == sender.left
  <2>1. n \in Nat /\ n > 0 /\ x.b = b /\ x.kind = IF n = 1 THEN "last" ELSE "next"
    BY <1>1, <1>3
  <2> HIDE DEF n
  <2>2. x.b \in Blocks /\ ((x.kind = "next" /\ n > 1) \/ (x.kind = "last" /\ n = 1))
    BY <2>1
  <2> QED BY <2>2 DEF n
<1> QED BY <1>2, <1>3 DEF Receive!Pieces

\* A paint ends where it began.
LEMMA PaintsEnd ==
    ASSUME paint.shown = paint.flag, NEW out
    PROVE  /\ Receive!Begin(paint).shown = TRUE /\ Receive!Begin(paint).flag = TRUE
           /\ Receive!End(paint).shown = FALSE /\ Receive!End(paint).flag = FALSE
           /\ Receive!Bracketed(out).shown = Receive!Bracketed(out).flag
           /\ ~paint.flag => ~Receive!Bracketed(out).flag
<1> QED BY DEF Receive!Begin, Receive!End, Receive!Bracketed

\* Every fragment, slow-path update and paint keeps it.
LEMMA ReceiveSteps ==
    ASSUME ~UncompressedFlush, ~SlowInFinalization, ReceiveInv, [Receive!Next]_receiveVars
    PROVE  ReceiveInv'
<1>1. SidesInv(sender, receiver) /\ pdu \in BOOLEAN /\ paint.shown = paint.flag /\ (~pdu => ~paint.flag)
  BY DEF ReceiveInv, SidesInv, Receive!PaintsPaired
<1>2. SidesInv(sender', receiver') /\ Receive!PaintsPaired' /\ pdu' \in BOOLEAN => ReceiveInv'
  BY DEF ReceiveInv, SidesInv
<1>3. CASE Receive!BeginPdu
  <2>1. pdu' = TRUE /\ paint' = Receive!Begin(paint) /\ UNCHANGED <<sender, receiver>>
    BY <1>3 DEF Receive!BeginPdu
  <2>2. Receive!PaintsPaired'
    BY <1>1, <2>1, PaintsEnd DEF Receive!PaintsPaired
  <2> QED BY <1>1, <1>2, <2>1, <2>2
<1>4. CASE Receive!EndPdu
  <2>1. pdu' = FALSE /\ paint' = Receive!End(paint) /\ UNCHANGED <<sender, receiver>>
    BY <1>4 DEF Receive!EndPdu
  <2>2. Receive!PaintsPaired'
    BY <1>1, <2>1, PaintsEnd DEF Receive!PaintsPaired
  <2> QED BY <1>1, <1>2, <2>1, <2>2
<1>5. CASE Receive!HandleUpdate
  <2>1. pdu /\ pdu' = pdu
    BY <1>5 DEF Receive!HandleUpdate
  <2> DEFINE Carries(x, p) ==
            LET d == Receive!Unpack(receiver, p)
                c == [receiver EXCEPT !.hist = d.hist, !.off = d.off]
                r == Receive!Handle(c, x.kind, x.code, d.out)
            IN  /\ sender' = Receive!AfterPiece(Receive!Sent(sender, p), x)
                /\ IF ~d.ok THEN receiver' = c /\ UNCHANGED paint
                   ELSE /\ receiver' = IF r.out = <<>> THEN r.client
                                       ELSE Receive!Dispatch(r.client, r.out[1])
                        /\ paint' = Receive!Bracketed(r.out)
  <2>0. PICK x \in Receive!Pieces : \E p \in Receive!Packets(sender, x.b) : Carries(x, p)
    BY <1>5 DEF Receive!HandleUpdate
  <2>2. PICK p \in Receive!Packets(sender, x.b) : Carries(x, p)
    BY <2>0
  <2> DEFINE d == Receive!Unpack(receiver, p)
             c == [receiver EXCEPT !.hist = d.hist, !.off = d.off]
             r == Receive!Handle(c, x.kind, x.code, d.out)
             e == IF r.out = <<>> THEN r.client ELSE Receive!Dispatch(r.client, r.out[1])
  <2>3. d.ok /\ SidesInv(Receive!AfterPiece(Receive!Sent(sender, p), x), e)
    BY <1>1, PieceKinds, FragmentCarried
  <2>4. /\ sender' = Receive!AfterPiece(Receive!Sent(sender, p), x) /\ receiver' = e
        /\ paint' = Receive!Bracketed(r.out)
    BY <2>2, <2>3
  <2> HIDE DEF d, c, r, e
  <2>5. SidesInv(sender', receiver')
    BY <2>3, <2>4
  <2>6. Receive!PaintsPaired' /\ pdu' \in BOOLEAN
    BY <1>1, <2>1, <2>4, PaintsEnd DEF Receive!PaintsPaired
  <2> QED BY <1>2, <2>5, <2>6
<1>6. CASE Receive!SlowUpdate
  <2>1. ~pdu /\ pdu' = pdu /\ phase # "finalizing"
    BY <1>6 DEF Receive!SlowUpdate
  <2> DEFINE Carries(code, b, p) ==
            LET u == [code |-> code, blocks |-> <<b>>]
                d == Receive!Unpack(receiver, p)
                c == [receiver EXCEPT !.hist = d.hist, !.off = d.off]
            IN  /\ sender' = [Receive!Whole(Receive!Sent(sender, p), u) EXCEPT
                                  !.now = sender.now, !.left = sender.left]
                /\ IF ~d.ok THEN receiver' = c /\ UNCHANGED paint
                   ELSE /\ receiver' = Receive!Dispatch(c, [code |-> code, blocks |-> <<d.out>>])
                        /\ paint' = Receive!Bracketed(<<u>>)
  <2>0. PICK code \in Codes \ {"frame"}, b \in Blocks :
            \E p \in Receive!Packets(sender, b) : Carries(code, b, p)
    BY <1>6, <2>1 DEF Receive!SlowUpdate
  <2>2. PICK p \in Receive!Packets(sender, b) : Carries(code, b, p)
    BY <2>0
  <2> DEFINE x == [kind |-> "single", code |-> code, b |-> b]
             u == [code |-> code, blocks |-> <<b>>]
             d == Receive!Unpack(receiver, p)
             c == [receiver EXCEPT !.hist = d.hist, !.off = d.off]
             t == Receive!Sent(sender, p)
             r == Receive!Handle(c, x.kind, x.code, d.out)
             e == IF r.out = <<>> THEN r.client ELSE Receive!Dispatch(r.client, r.out[1])
  <2>3. x.b = b /\ x.kind = "single" /\ x.code = code
    OBVIOUS
  <2>4. d.ok /\ d.out = b /\ t = Moved(sender, d.hist, d.off)
    <3>1. IsServer(sender) /\ IsClient(receiver) /\ SameHistory(sender, receiver)
      BY <1>1 DEF SidesInv
    <3> QED BY <3>1, BlockUnpacked
  <2>5. t.now = sender.now /\ t.left = sender.left
    <3> HIDE DEF t, d
    <3> QED BY <1>1, <2>4 DEF SidesInv, IsServer, ServerFields, Moved
  <2>6. sender' = [Receive!Whole(t, u) EXCEPT !.now = t.now, !.left = t.left]
    BY <2>2, <2>5
  <2>7. sender' = Receive!AfterPiece(t, x)
    <3> HIDE DEF t
    <3> QED BY <2>6 DEF Receive!AfterPiece
  <2>8. receiver' = Receive!Dispatch(c, u) /\ paint' = Receive!Bracketed(<<u>>)
    BY <2>2, <2>4
  <2>9. r.client = c /\ r.out = <<u>>
    <3> HIDE DEF c, d
    <3> QED BY <2>4 DEF Receive!Handle
  <2>10. receiver' = e
    <3> HIDE DEF c, u, r, d
    <3> QED BY <2>8, <2>9
  <2>11. SidesInv(Receive!AfterPiece(t, x), e)
    <3> HIDE DEF x
    <3> QED BY <1>1, <2>3, FragmentCarried
  <2> HIDE DEF x, u, d, c, t, r, e
  <2>12. SidesInv(sender', receiver')
    BY <2>7, <2>10, <2>11
  <2>13. Receive!PaintsPaired' /\ pdu' \in BOOLEAN
    BY <1>1, <2>1, <2>8, PaintsEnd DEF Receive!PaintsPaired
  <2> QED BY <1>2, <2>12, <2>13
<1>7. CASE Receive!Reactivate \/ UNCHANGED receiveVars
  <2>1. UNCHANGED <<sender, receiver, pdu, paint>>
    BY <1>7 DEF Receive!Reactivate, receiveVars
  <2> QED BY <1>1, <1>2, <2>1 DEF Receive!PaintsPaired
<1> QED BY <1>3, <1>4, <1>5, <1>6, <1>7 DEF Receive!Next

\* From a server that never flushes in a packet that is not compressed, and sends no
\* slow-path update while a session is finalized, every update is dispatched once, whole
\* and in order, the pointer is the server's, frames are acknowledged and paints are
\* paired: for any history, fragments of any number, and any blocks and codes.
THEOREM ReceiveAlwaysFaithful ==
    ASSUME ~UncompressedFlush, ~SlowInFinalization
    PROVE  MCSpec => []ReceiveFaithful
<1>1. MCInit => ReceiveInv
  BY ReceiveStarts DEF MCInit
<1>2. ReceiveInv /\ [MCNext]_mcVars => ReceiveInv'
  <2> SUFFICES ASSUME ReceiveInv, [MCNext]_mcVars PROVE ReceiveInv'
    OBVIOUS
  <2>1. Receive!Next \/ UNCHANGED receiveVars
    BY DEF MCNext, mcVars
  <2> QED BY <2>1, ReceiveSteps
<1>3. ReceiveInv => ReceiveFaithful
  BY DEF ReceiveInv, SameUpdates, ReceiveFaithful, Receive!ReceiveFaithful,
         Receive!UpdatesWhole, Receive!PointerCurrent, Receive!FramesAcked
<1> QED BY <1>1, <1>2, <1>3, PTL DEF MCSpec

(***************************************************************************)
(* ClearCodec tiles.                                                       *)
(***************************************************************************)
\* Two places less than a round apart are different entries.
LEMMA EntriesDiffer ==
    ASSUME NEW size \in Nat \ {0}, NEW a \in Int, NEW b \in Int, a < b, b - a < size
    PROVE  a % size # b % size
<1> DEFINE p == a \div size
           q == b \div size
<1>1. /\ p \in Int /\ q \in Int /\ a % size \in Int /\ b % size \in Int
      /\ a = size * p + (a % size) /\ b = size * q + (b % size)
  OBVIOUS
<1> HIDE DEF p, q
<1>2. SUFFICES ASSUME a % size = b % size PROVE FALSE
  OBVIOUS
<1>3. size * q - size * p = b - a
  BY <1>1, <1>2
<1>4. CASE q <= p
  <2>1. size * q <= size * p
    BY <1>1, <1>4
  <2> QED BY <1>1, <1>3, <2>1
<1>5. CASE q >= p + 1
  <2>1. size * q >= size * (p + 1)
    BY <1>1, <1>5
  <2>2. size * (p + 1) = size * p + size
    BY <1>1
  <2> QED BY <1>1, <1>3, <2>1, <2>2
<1> QED BY <1>1, <1>4, <1>5

\* What the server stored, h, since the cursor at was last at the start: the last round
\* of it is what is kept.
Window(h, kept, at, size) ==
    /\ at = Len(h) % size
    /\ \A n \in 1 .. Len(h) : n + size > Len(h) => kept[(n - 1) % size] = h[n]

\* A cursor moves one entry, around the end.
LEMMA CursorMoves ==
    ASSUME NEW size \in Nat \ {0}, NEW n \in Nat
    PROVE  ((n % size) + 1) % size = (n + 1) % size
<1> DEFINE r == n % size
<1>1. r \in 0 .. size - 1
  OBVIOUS
<1>2. IF r + 1 = size THEN (n + 1) % size = 0 ELSE (n + 1) % size = r + 1
  BY NextPlace
<1> HIDE DEF r
<1>3. (r + 1) % size = IF r + 1 = size THEN 0 ELSE r + 1
  BY <1>1
<1> QED BY <1>2, <1>3 DEF r

\* Storing one more, at the cursor, keeps the last round.
LEMMA WindowGrows ==
    ASSUME NEW S, NEW T, NEW size \in Nat \ {0}, NEW h \in Seq(S), NEW at, NEW x \in S,
           NEW kept \in [0 .. size - 1 -> T], Window(h, kept, at, size)
    PROVE  Window(Append(h, x), [kept EXCEPT ![at] = x], (at + 1) % size, size)
<1> DEFINE g == Append(h, x)
           k == [kept EXCEPT ![at] = x]
<1>1. /\ Len(h) \in Nat /\ Len(g) = Len(h) + 1 /\ g[Len(g)] = x
      /\ \A n \in 1 .. Len(h) : g[n] = h[n]
  OBVIOUS
<1>2. at = Len(h) % size
  BY DEF Window
<1>3. (at + 1) % size = Len(g) % size
  BY <1>1, <1>2, CursorMoves
<1>4. ASSUME NEW n \in 1 .. Len(g), n + size > Len(g)
      PROVE  k[(n - 1) % size] = g[n]
  <2>1. (n - 1) % size \in 0 .. size - 1
    BY <1>1
  <2>2. CASE n = Len(g)
    <3>1. (n - 1) % size = at
      BY <1>1, <1>2, <2>2
    <3> QED BY <1>1, <2>1, <2>2, <3>1
  <2>3. CASE n # Len(g)
    <3>1. n \in 1 .. Len(h) /\ n + size > Len(h)
      BY <1>1, <1>4, <2>3
    <3>2. (n - 1) % size # Len(h) % size
      <4>1. n - 1 \in Int /\ Len(h) \in Int /\ n - 1 < Len(h) /\ Len(h) - (n - 1) < size
        BY <1>1, <1>4, <3>1
      <4> HIDE DEF g, k
      <4> QED BY <4>1, EntriesDiffer
    <3>3. kept[(n - 1) % size] = h[n]
      BY <3>1 DEF Window
    <3> QED BY <1>1, <1>2, <2>1, <3>1, <3>2, <3>3
  <2> QED BY <2>2, <2>3
<1> HIDE DEF g, k
<1> QED BY <1>3, <1>4 DEF Window, g, k

\* One more is stored as what there was.
LEMMA StoredTyped ==
    ASSUME NEW S, NEW x \in S, NEW h \in Seq(S), NEW mark, NEW range, NEW at,
           NEW kept \in [range -> S \cup {mark}]
    PROVE  Append(h, x) \in Seq(S) /\ [kept EXCEPT ![at] = x] \in [range -> S \cup {mark}]
<1>1. Append(h, x) \in Seq(S)
  OBVIOUS
<1>2. [kept EXCEPT ![at] = x] \in [range -> S \cup {mark}]
  OBVIOUS
<1> QED BY <1>1, <1>2

\* An entry the server may name has a place in the last round.
LEMMA EntryInRound ==
    ASSUME NEW size \in Nat \ {0}, NEW len \in Nat, NEW m \in 1 .. len
    PROVE  \E n \in 1 .. len : (n - 1) % size = (m - 1) % size /\ n + size > len
<1> DEFINE i == (m - 1) % size
           r == (len - 1 - i) % size
           n == len - r
<1>1. i \in 0 .. size - 1 /\ r \in 0 .. size - 1
  OBVIOUS
<1>2. PICK q \in Int : len - 1 - i = size * q + r
  <2>1. len - 1 - i = size * ((len - 1 - i) \div size) + r
    BY <1>1
  <2>2. (len - 1 - i) \div size \in Int
    BY <1>1
  <2> QED BY <2>1, <2>2
<1> HIDE DEF r
<1>3. n - 1 = size * q + i
  BY <1>1, <1>2
<1> HIDE DEF i
<1>4. n \in Int
  BY <1>1
<1>5. (n - 1) % size = i
  BY <1>1, <1>3, <1>4
<1>6. n >= m
  <2>1. SUFFICES ASSUME n < m PROVE FALSE
    BY <1>4
  <2>2. (m - 1) - (n - 1) < size
    BY <1>1, <1>4
  <2>3. (n - 1) % size # (m - 1) % size
    BY <1>4, <2>1, <2>2, EntriesDiffer
  <2> QED BY <1>5, <2>3 DEF i
<1>7. n \in 1 .. len /\ n + size > len
  BY <1>1, <1>4, <1>6
<1> HIDE DEF n
<1> QED BY <1>5, <1>7 DEF i

\* So what the client keeps at an entry the server may name is what the server knows.
LEMMA EntryKept ==
    ASSUME NEW S, NEW size \in Nat \ {0}, NEW h \in Seq(S), NEW kept, NEW at,
           Window(h, kept, at, size), NEW i \in Clear!Stored(h, size)
    PROVE  Clear!Entry(h, size, i) \in S /\ kept[i] = Clear!Entry(h, size, i)
<1> DEFINE Named(n) == (n - 1) % size = i /\ n + size > Len(h)
           c == CHOOSE n \in 1 .. Len(h) : Named(n)
<1>1. Len(h) \in Nat
  OBVIOUS
<1>2. PICK m \in 1 .. Len(h) : i = (m - 1) % size
  BY DEF Clear!Stored
<1>3. \E n \in 1 .. Len(h) : Named(n)
  BY <1>1, <1>2, EntryInRound
<1>4. c \in 1 .. Len(h) /\ Named(c)
  BY <1>3
<1>5. Clear!Entry(h, size, i) = h[c]
  BY DEF Clear!Entry
<1> HIDE DEF c
<1> QED BY <1>4, <1>5 DEF Window

\* Full columns, and a glyph of one, are never the mark of an empty entry.
Bars == [Clear!Rows -> {1, 2}]
LEMMA BarsPresent == ASSUME NEW v \in Bars PROVE v # Clear!Absent
<1>1. 1 \in DOMAIN v
  BY DEF Bars, Clear!Rows, Clear!Height
<1> QED BY <1>1 DEF Clear!Absent

\* A full column is made of the piece and the background.
LEMMA FullIsBar ==
    ASSUME NEW on \in {0, 1}, NEW piece \in Clear!Pieces
    PROVE  Clear!FullVBar(on, piece) \in Bars
<1>1. \A k \in 1 .. Len(piece) : piece[k] \in {1, 2}
  BY DEF Clear!Pieces
<1>2. \A r \in Clear!Rows :
        (IF r - on \in 1 .. Len(piece) THEN piece[r - on] ELSE Clear!Ground) \in {1, 2}
  BY <1>1 DEF Clear!Ground
<1> QED BY <1>2 DEF Bars, Clear!FullVBar

\* The two sides of the tiles: the client keeps the last round of both caches, all the
\* glyphs, the tile and what is shown, and expects the server's number or any.
TileFields == {"seq", "bars", "shorts", "glyphs", "tile", "shown"}
DecoderFields == TileFields \cup {"at", "shortAt"}
CachesInv(s, d) ==
    /\ s.bars \in Seq(Bars) /\ s.shorts \in Seq(Clear!Pieces)
    /\ d.bars \in [0 .. VBars - 1 -> Bars \cup {Clear!Absent}]
    /\ d.shorts \in [0 .. ShortVBars - 1 -> Clear!Pieces \cup {Clear!Absent}]
    /\ Window(s.bars, d.bars, d.at, VBars)
    /\ Window(s.shorts, d.shorts, d.shortAt, ShortVBars)
    /\ d.glyphs = s.glyphs /\ d.tile = s.tile /\ d.shown = s.shown
TilesInv(s, d) ==
    /\ DOMAIN s = TileFields /\ DOMAIN d = DecoderFields
    /\ CachesInv(s, d)
    /\ d.seq \in {0, s.seq}

\* A tile with columns to come is one the client goes on with.
ClearInv == TilesInv(clearEncoder, decoder) /\ (taken \/ tile = Clear!Absent)

\* Caches that are empty, or whose cursors were reset, hold what the server may name.
LEMMA EmptyWindow ==
    ASSUME NEW size \in Nat \ {0}, NEW kept
    PROVE  Window(<<>>, kept, 0, size)
BY DEF Window

\* The caches start empty on both sides.
LEMMA ClearStarts == Clear!Init => ClearInv
<1> SUFFICES ASSUME Clear!Init PROVE ClearInv
  OBVIOUS
<1> USE UpdatesAssumption DEF UpdatesAssumption
<1>1. /\ DOMAIN clearEncoder = TileFields /\ DOMAIN decoder = DecoderFields
      /\ decoder.seq = 0 /\ tile = Clear!Absent
      /\ clearEncoder.bars = <<>> /\ clearEncoder.shorts = <<>>
      /\ decoder.at = 0 /\ decoder.shortAt = 0
      /\ decoder.bars = [i \in 0 .. VBars - 1 |-> Clear!Absent]
      /\ decoder.shorts = [i \in 0 .. ShortVBars - 1 |-> Clear!Absent]
      /\ decoder.glyphs = clearEncoder.glyphs /\ decoder.tile = clearEncoder.tile
      /\ decoder.shown = clearEncoder.shown
  BY DEF Clear!Init, TileFields, DecoderFields
<1>2. /\ Window(clearEncoder.bars, decoder.bars, decoder.at, VBars)
      /\ Window(clearEncoder.shorts, decoder.shorts, decoder.shortAt, ShortVBars)
  BY <1>1, EmptyWindow
<1> QED BY <1>1, <1>2 DEF ClearInv, TilesInv, CachesInv

\* A tile begins on both sides, with the client's number in step: cursors reset or not,
\* as a glyph both have or as the same ground.
LEMMA TileBegins == ClearInv /\ Clear!Begin => ClearInv'
<1> SUFFICES ASSUME ClearInv, Clear!Begin PROVE ClearInv'
  OBVIOUS
<1> USE UpdatesAssumption DEF UpdatesAssumption
<1>1. PICK reset \in BOOLEAN, residual \in {0, 1}, g \in Glyphs,
           use \in {"none", "store", "hit"} : Clear!Begin!2!(reset, residual, g, use)
  BY DEF Clear!Begin
<1> DEFINE s == IF reset THEN [clearEncoder EXCEPT !.bars = <<>>, !.shorts = <<>>]
                ELSE clearEncoder
           d == IF reset THEN [decoder EXCEPT !.at = 0, !.shortAt = 0] ELSE decoder
           next == (clearEncoder.seq + 1) % SeqMod
           start == [x \in 1 .. Columns |-> Clear!Bar(residual)]
<1>2. Clear!Accepts(clearEncoder.seq)
  BY DEF ClearInv, TilesInv, Clear!Accepts
<1>3. /\ use = "hit" => clearEncoder.glyphs[g] # Clear!Absent
      /\ clearEncoder' = IF use = "hit" THEN [s EXCEPT !.seq = next, !.shown = s.glyphs[g]]
                         ELSE [s EXCEPT !.seq = next, !.tile = start]
      /\ decoder' = IF use # "hit" THEN [d EXCEPT !.seq = next, !.tile = start]
                    ELSE IF d.glyphs[g] = Clear!Absent THEN [d EXCEPT !.seq = next]
                    ELSE [d EXCEPT !.seq = next, !.shown = d.glyphs[g]]
      /\ use = "hit" => tile' = Clear!Absent
      /\ taken' = (Clear!Accepts(clearEncoder.seq) /\ use # "hit")
  BY <1>1, <1>2
<1>4. TilesInv(s, d) /\ s.glyphs = clearEncoder.glyphs
  <2>1. CASE reset
    <3>1. /\ DOMAIN s = TileFields /\ s.bars = <<>> /\ s.shorts = <<>>
          /\ s.glyphs = clearEncoder.glyphs /\ s.tile = clearEncoder.tile
          /\ s.shown = clearEncoder.shown /\ s.seq = clearEncoder.seq
      BY <2>1 DEF ClearInv, TilesInv, TileFields
    <3>2. /\ DOMAIN d = DecoderFields /\ d.at = 0 /\ d.shortAt = 0
          /\ d.bars = decoder.bars /\ d.shorts = decoder.shorts /\ d.seq = decoder.seq
          /\ d.glyphs = decoder.glyphs /\ d.tile = decoder.tile /\ d.shown = decoder.shown
      BY <2>1 DEF ClearInv, TilesInv, DecoderFields, TileFields
    <3> HIDE DEF s, d
    <3>3. Window(s.bars, d.bars, d.at, VBars) /\ Window(s.shorts, d.shorts, d.shortAt, ShortVBars)
      BY <3>1, <3>2, EmptyWindow
    <3> QED BY <3>1, <3>2, <3>3 DEF ClearInv, TilesInv, CachesInv
  <2>2. CASE ~reset
    BY <2>2 DEF ClearInv
  <2> QED BY <2>1, <2>2
<1> HIDE DEF s, d, next, start
<1>5. CASE use = "hit"
  <2>1. d.glyphs[g] = s.glyphs[g] /\ d.glyphs[g] # Clear!Absent
    BY <1>3, <1>4, <1>5 DEF TilesInv, CachesInv
  <2>2. /\ clearEncoder' = [s EXCEPT !.seq = next, !.shown = s.glyphs[g]]
        /\ decoder' = [d EXCEPT !.seq = next, !.shown = s.glyphs[g]]
    BY <1>3, <1>5, <2>1
  <2>3. TilesInv(clearEncoder', decoder')
    BY <1>4, <2>2 DEF TilesInv, CachesInv, TileFields, DecoderFields
  <2> QED BY <1>3, <1>5, <2>3 DEF ClearInv
<1>6. CASE use # "hit"
  <2>1. /\ clearEncoder' = [s EXCEPT !.seq = next, !.tile = start]
        /\ decoder' = [d EXCEPT !.seq = next, !.tile = start]
    BY <1>3, <1>6
  <2>2. TilesInv(clearEncoder', decoder')
    BY <1>4, <2>1 DEF TilesInv, CachesInv, TileFields, DecoderFields
  <2> QED BY <1>2, <1>3, <1>6, <2>2, Zenon DEF ClearInv
<1> QED BY <1>5, <1>6

\* A tile ends alike on both sides, and is kept alike.
LEMMA TileEnds == ClearInv /\ Clear!End => ClearInv'
<1> SUFFICES ASSUME ClearInv, Clear!End PROVE ClearInv'
  OBVIOUS
<1>1. PICK p \in Clear!Overs : Clear!End!2!(p)
  BY DEF Clear!End
<1> DEFINE s == [clearEncoder EXCEPT !.tile = Clear!Over(@, p)]
           d == [decoder EXCEPT !.tile = Clear!Over(@, p)]
<1>2. taken /\ tile' = Clear!Absent
  BY DEF ClearInv, Clear!End
<1>3. /\ clearEncoder' = [s EXCEPT !.shown = s.tile,
                            !.glyphs[tile.glyph] = IF tile.store THEN s.tile ELSE @]
      /\ decoder' = [d EXCEPT !.shown = d.tile,
                       !.glyphs[tile.glyph] = IF tile.store THEN Clear!GlyphOf(d) ELSE @]
  BY <1>1, <1>2
<1>4. TilesInv(s, d)
  BY DEF ClearInv, TilesInv, CachesInv, TileFields, DecoderFields
<1> HIDE DEF s, d
<1>5. TilesInv(clearEncoder', decoder')
  BY <1>3, <1>4 DEF TilesInv, CachesInv, TileFields, DecoderFields, Clear!GlyphOf
<1> QED BY <1>2, <1>5 DEF ClearInv

\* A column is drawn and kept alike on both sides, whether it is sent or named.
LEMMA ColumnDrawn == ClearInv /\ Clear!Column => ClearInv'
<1> SUFFICES ASSUME ClearInv, Clear!Column PROVE ClearInv'
  OBVIOUS
<1> USE UpdatesAssumption DEF UpdatesAssumption
<1> DEFINE s == clearEncoder
           d == decoder
<1>1. PICK c \in Clear!Sendable(Columns + 1 - tile.left) : Clear!Column!2!(c)
  BY DEF Clear!Column
<1> DEFINE piece == IF c.kind = "miss" THEN c.piece
                    ELSE IF c.kind = "short" THEN Clear!Entry(s.shorts, ShortVBars, c.i)
                    ELSE <<>>
           full == IF c.kind = "hit" THEN Clear!Entry(s.bars, VBars, c.i)
                   ELSE Clear!FullVBar(c.on, piece)
<1>2. taken /\ taken'
  BY DEF ClearInv, Clear!Column
<1>3. /\ clearEncoder' = [s EXCEPT
            !.bars = IF c.kind = "hit" THEN @ ELSE Append(@, full),
            !.shorts = IF c.kind = "miss" THEN Append(@, piece) ELSE @,
            !.tile[c.x] = full]
      /\ decoder' = Clear!Banded(d, c)
  BY <1>1, <1>2
<1>4. /\ c.kind \in {"miss", "short", "hit"} /\ c.on \in {0, 1}
      /\ c.kind = "miss" => c.piece \in Clear!Pieces
      /\ c.kind = "short" => c.i \in Clear!Stored(s.shorts, ShortVBars)
      /\ c.kind = "hit" => c.i \in Clear!Stored(s.bars, VBars)
  BY DEF Clear!Sendable
<1>5. TilesInv(s, d)
  BY DEF ClearInv
<1> HIDE DEF s, d
<1>6. CASE c.kind = "hit"
  <2>1. full \in Bars /\ d.bars[c.i] = full
    BY <1>4, <1>5, <1>6, EntryKept DEF TilesInv, CachesInv
  <2>2. d.bars[c.i] # Clear!Absent
    BY <2>1, BarsPresent
  <2> HIDE DEF full, piece
  <2>3. decoder' = [d EXCEPT !.tile[c.x] = full]
    BY <1>3, <1>6, <2>1, <2>2 DEF Clear!Banded
  <2>4. clearEncoder' = [s EXCEPT !.tile[c.x] = full]
    <3>1. clearEncoder' = [s EXCEPT !.bars = @, !.shorts = @, !.tile[c.x] = full]
      BY <1>3, <1>6
    <3> QED BY <1>5, <3>1 DEF TilesInv, TileFields
  <2>5. TilesInv(clearEncoder', decoder')
    BY <1>5, <2>3, <2>4 DEF TilesInv, CachesInv, TileFields, DecoderFields
  <2> QED BY <1>2, <2>5 DEF ClearInv
<1>7. CASE c.kind # "hit"
  <2>1. piece \in Clear!Pieces
    BY <1>4, <1>5, <1>7, EntryKept DEF TilesInv, CachesInv
  <2>2. full \in Bars
    BY <1>4, <1>7, <2>1, FullIsBar
  <2>3. piece = IF c.kind = "miss" THEN c.piece ELSE d.shorts[c.i]
    BY <1>4, <1>5, <1>7, EntryKept DEF TilesInv, CachesInv
  <2>4. full = Clear!FullVBar(c.on, piece)
    BY <1>7
  <2> HIDE DEF full, piece
  <2> DEFINE e == IF c.kind # "miss" THEN d
                  ELSE [d EXCEPT !.shorts[d.shortAt] = piece,
                                 !.shortAt = Clear!NextAt(@, ShortVBars)]
             t == IF c.kind # "miss" THEN s ELSE [s EXCEPT !.shorts = Append(@, piece)]
  <2>5. decoder' = [e EXCEPT !.bars[d.at] = full, !.at = Clear!NextAt(@, VBars),
                             !.tile[c.x] = full]
    BY <1>3, <1>7, <2>3, <2>4 DEF Clear!Banded
  <2>6. clearEncoder' = [t EXCEPT !.bars = Append(@, full), !.tile[c.x] = full]
    <3>1. CASE c.kind = "miss"
      BY <1>3, <1>5, <3>1 DEF TilesInv, TileFields
    <3>2. CASE c.kind # "miss"
      <4>1. clearEncoder' = [s EXCEPT !.bars = Append(@, full), !.shorts = @,
                                      !.tile[c.x] = full]
        BY <1>3, <1>7, <3>2
      <4> QED BY <1>5, <3>2, <4>1 DEF TilesInv, TileFields
    <3> QED BY <3>1, <3>2
  <2>7. TilesInv(t, e) /\ e.at = d.at
    <3>1. CASE c.kind = "miss"
      <4> DEFINE h == Append(s.shorts, piece)
                 k == [d.shorts EXCEPT ![d.shortAt] = piece]
                 at == Clear!NextAt(d.shortAt, ShortVBars)
      <4>1. Window(h, k, at, ShortVBars)
        BY <1>5, <2>1, WindowGrows DEF TilesInv, CachesInv, Clear!NextAt
      <4>2. h \in Seq(Clear!Pieces)
            /\ k \in [0 .. ShortVBars - 1 -> Clear!Pieces \cup {Clear!Absent}]
        BY <1>5, <2>1, StoredTyped DEF TilesInv, CachesInv
      <4> HIDE DEF h, k, at
      <4>3. t = [s EXCEPT !.shorts = h] /\ e = [d EXCEPT !.shorts = k, !.shortAt = at]
        BY <1>5, <3>1 DEF TilesInv, TileFields, DecoderFields, h, k, at
      <4> HIDE DEF t, e
      <4> QED BY <1>5, <4>1, <4>2, <4>3 DEF TilesInv, CachesInv, TileFields, DecoderFields
    <3>2. CASE c.kind # "miss"
      BY <1>5, <3>2
    <3> QED BY <3>1, <3>2
  <2> HIDE DEF t, e
  <2> DEFINE h == Append(t.bars, full)
             k == [e.bars EXCEPT ![e.at] = full]
             at == Clear!NextAt(e.at, VBars)
  <2>8. Window(h, k, at, VBars)
    BY <2>2, <2>7, WindowGrows DEF TilesInv, CachesInv, Clear!NextAt
  <2>9. h \in Seq(Bars) /\ k \in [0 .. VBars - 1 -> Bars \cup {Clear!Absent}]
    BY <2>2, <2>7, StoredTyped DEF TilesInv, CachesInv
  <2> HIDE DEF h, k, at
  <2>10. /\ clearEncoder' = [t EXCEPT !.bars = h, !.tile[c.x] = full]
         /\ decoder' = [e EXCEPT !.bars = k, !.at = at, !.tile[c.x] = full]
    BY <2>5, <2>6, <2>7 DEF TilesInv, TileFields, DecoderFields, h, k, at
  <2>11. TilesInv(clearEncoder', decoder')
    BY <2>7, <2>8, <2>9, <2>10 DEF TilesInv, CachesInv, TileFields, DecoderFields
  <2> QED BY <1>2, <2>11 DEF ClearInv
<1> QED BY <1>6, <1>7

\* From any caches, glyphs and columns, and however often cursors and numbers are reset,
\* what the client keeps where the server may name it is what the server stored there,
\* and every tile is shown as the server meant it.
THEOREM ClearAlwaysFaithful == MCSpec => []ClearFaithful
<1>1. MCInit => ClearInv
  BY ClearStarts DEF MCInit
<1>2. ClearInv /\ [MCNext]_mcVars => ClearInv'
  <2> SUFFICES ASSUME ClearInv, [MCNext]_mcVars PROVE ClearInv'
    OBVIOUS
  <2>1. Clear!Next \/ UNCHANGED clearVars
    BY DEF MCNext, mcVars
  <2>2. CASE Clear!ResetGraphics
    <3>1. /\ decoder' = [decoder EXCEPT !.seq = 0] /\ UNCHANGED <<tile, taken>>
          /\ \E seq \in {0, clearEncoder.seq} :
                clearEncoder' = [clearEncoder EXCEPT !.seq = seq]
      BY <2>2 DEF Clear!ResetGraphics, Clear!ResetState
    <3>2. TilesInv(clearEncoder', decoder')
      BY <3>1 DEF ClearInv, TilesInv, CachesInv, TileFields, DecoderFields
    <3> QED BY <3>1, <3>2 DEF ClearInv
  <2>3. CASE UNCHANGED clearVars
    BY <2>3 DEF clearVars, ClearInv, TilesInv, CachesInv
  <2> QED BY <2>1, <2>2, <2>3, TileBegins, ColumnDrawn, TileEnds DEF Clear!Next
<1>3. ClearInv => ClearFaithful
  <2> SUFFICES ASSUME ClearInv PROVE ClearFaithful
    OBVIOUS
  <2>1. \A i \in Clear!Stored(clearEncoder.bars, VBars) :
          decoder.bars[i] = Clear!Entry(clearEncoder.bars, VBars, i)
    BY UpdatesAssumption, EntryKept DEF UpdatesAssumption, ClearInv, TilesInv, CachesInv
  <2>2. \A i \in Clear!Stored(clearEncoder.shorts, ShortVBars) :
          decoder.shorts[i] = Clear!Entry(clearEncoder.shorts, ShortVBars, i)
    BY UpdatesAssumption, EntryKept DEF UpdatesAssumption, ClearInv, TilesInv, CachesInv
  <2> QED BY <2>1, <2>2 DEF ClearInv, TilesInv, CachesInv, ClearFaithful,
             Clear!ClearFaithful, Clear!CachesAgree
<1> QED BY <1>1, <1>2, <1>3, PTL DEF MCSpec

(***************************************************************************)
(* The compression of the graphics channel.                                *)
(***************************************************************************)
\* What is left after any number of whole rounds, and how many rounds that are.
LEMMA Remainder ==
    ASSUME NEW size \in Nat \ {0}, NEW q \in Int, NEW m \in 0 .. size - 1, NEW n \in Int,
           n = size * q + m
    PROVE  n % size = m /\ n \div size = q
<1> DEFINE p == n \div size
           r == n % size
<1>1. p \in Int /\ r \in 0 .. size - 1 /\ n = size * p + r
  OBVIOUS
<1> HIDE DEF p, r
<1>2. size * p - size * q = m - r /\ m - r < size /\ r - m < size
  BY <1>1
<1>3. CASE p >= q + 1
  <2>1. size * p >= size * (q + 1) /\ size * (q + 1) = size * q + size
    BY <1>1, <1>3
  <2> QED BY <1>1, <1>2, <2>1
<1>4. CASE q >= p + 1
  <2>1. size * q >= size * (p + 1) /\ size * (p + 1) = size * p + size
    BY <1>1, <1>4
  <2> QED BY <1>1, <1>2, <2>1
<1>5. CASE p = q
  BY <1>1, <1>5 DEF p, r
<1> QED BY <1>1, <1>3, <1>4, <1>5

\* Going round before a step or after it is the same.
LEMMA StepsAround ==
    ASSUME NEW size \in Nat \ {0}, NEW a \in Int, NEW k \in Int
    PROVE  ((a % size) + k) % size = (a + k) % size
<1> DEFINE q == a \div size
           r == a % size
           p == (r + k) \div size
           m == (r + k) % size
<1>1. q \in Int /\ r \in Int /\ a = size * q + r
  OBVIOUS
<1>2. p \in Int /\ m \in 0 .. size - 1 /\ r + k = size * p + m
  BY <1>1
<1> HIDE DEF q, r
<1>3. a + k = size * q + (r + k)
  BY <1>1
<1> HIDE DEF p, m
<1>4. a + k = size * (q + p) + m /\ q + p \in Int /\ a + k \in Int
  BY <1>1, <1>2, <1>3
<1>5. (a + k) % size = m
  <2> DEFINE n == a + k
             c == q + p
  <2>1. n = size * c + m /\ n \in Int /\ c \in Int
    BY <1>4
  <2> HIDE DEF n, c
  <2>2. n % size = m
    BY <1>2, <2>1, Remainder
  <2> QED BY <2>2 DEF n
<1> QED BY <1>5 DEF m, r

\* The history h, as far as it goes, ends before the ring's index.
Ends(h, kept, place) ==
    \A d \in 1 .. RingSize : d <= Len(h) => kept[(place - d) % RingSize] = h[Len(h) - d + 1]

\* A byte more in both.
LEMMA RingGrows ==
    ASSUME NEW S, NEW T, NEW h \in Seq(S), NEW x \in S,
           NEW kept \in [0 .. RingSize - 1 -> T], NEW place \in 0 .. RingSize - 1,
           Ends(h, kept, place)
    PROVE  Ends(Append(h, x), [kept EXCEPT ![place] = x], (place + 1) % RingSize)
<1> USE UpdatesAssumption DEF UpdatesAssumption
<1> DEFINE g == Append(h, x)
           k == [kept EXCEPT ![place] = x]
           to == (place + 1) % RingSize
<1>1. /\ Len(h) \in Nat /\ Len(g) = Len(h) + 1 /\ g[Len(g)] = x
      /\ \A n \in 1 .. Len(h) : g[n] = h[n]
  OBVIOUS
<1>2. k \in [0 .. RingSize - 1 -> T \cup {x}] /\ k[place] = x
      /\ \A i \in 0 .. RingSize - 1 : i # place => k[i] = kept[i]
  OBVIOUS
<1>3. place % RingSize = place
  OBVIOUS
<1> HIDE DEF g, k
<1>4. ASSUME NEW d \in 1 .. RingSize, d <= Len(g)
      PROVE  k[(to - d) % RingSize] = g[Len(g) - d + 1]
  <2>1. (to - d) % RingSize = (place - (d - 1)) % RingSize
    <3>1. to + (-d) = to - d /\ (place + 1) + (-d) = place - (d - 1)
      OBVIOUS
    <3>2. (to + (-d)) % RingSize = ((place + 1) + (-d)) % RingSize
      <4>1. place + 1 \in Int /\ -d \in Int /\ RingSize \in Nat \ {0}
        OBVIOUS
      <4> QED BY <4>1, StepsAround, Zenon
    <3> QED BY <3>1, <3>2
  <2> HIDE DEF to
  <2>2. CASE d = 1
    <3>1. place - (d - 1) = place /\ Len(g) - d + 1 = Len(g)
      BY <1>1, <2>2
    <3> QED BY <1>1, <1>2, <1>3, <2>1, <3>1
  <2>3. CASE d # 1
    <3>1. d - 1 \in 1 .. RingSize /\ d - 1 <= Len(h)
      BY <1>1, <1>4, <2>3
    <3>2. kept[(place - (d - 1)) % RingSize] = h[Len(h) - (d - 1) + 1]
      BY <3>1 DEF Ends
    <3>3. (place - (d - 1)) % RingSize # place
      <4>1. place - (d - 1) < place /\ place - (place - (d - 1)) < RingSize
        BY <3>1
      <4>2. (place - (d - 1)) % RingSize # place % RingSize
        <5>1. place - (d - 1) \in Int /\ place \in Int /\ RingSize \in Nat \ {0}
          OBVIOUS
        <5> QED BY <4>1, <5>1, EntriesDiffer, Zenon
      <4> QED BY <1>3, <4>2
    <3>4. (place - (d - 1)) % RingSize \in 0 .. RingSize - 1
      OBVIOUS
    <3>5. Len(h) - (d - 1) + 1 = Len(g) - d + 1 /\ Len(g) - d + 1 \in 1 .. Len(h)
      BY <1>1, <1>4, <3>1
    <3> QED BY <1>1, <1>2, <2>1, <3>2, <3>3, <3>4, <3>5
  <2> QED BY <2>2, <2>3
<1> QED BY <1>4 DEF Ends, g, k

\* Of the token being decoded: the bytes to come, or a match inside the history that is
\* read as far back in the ring as the server meant it in what it sent.
TokenInv ==
    /\ token \in [bytes : Seq(Bytes), dist : 0 .. RingSize, len : Nat, src : Nat]
    /\ token.bytes = <<>> \/ token.len = 0
    /\ token.len > 0 =>
          /\ token.dist \in 1 .. RingSize /\ token.dist <= Len(history)
          /\ token.src % RingSize = (ringAt - token.dist) % RingSize

\* The ring ends with the history, of which it has what a match may name.
ZgfxInv ==
    /\ history \in Seq(Bytes) /\ ringAt \in 0 .. RingSize - 1
    /\ ring \in [0 .. RingSize - 1 -> Bytes \cup {0}]
    /\ Ends(history, ring, ringAt)
    /\ dst = message
    /\ TokenInv

\* The ring starts empty, as the history.
LEMMA ZgfxStarts == Zgfx!Init => ZgfxInv
<1> SUFFICES ASSUME Zgfx!Init PROVE ZgfxInv
  OBVIOUS
<1> USE UpdatesAssumption DEF UpdatesAssumption
<1>1. token \in [bytes : Seq(Bytes), dist : 0 .. RingSize, len : Nat, src : Nat]
  BY DEF Zgfx!Init, Zgfx!NoToken
<1>2. TokenInv
  BY <1>1 DEF TokenInv, Zgfx!Init, Zgfx!NoToken
<1> QED BY <1>2 DEF ZgfxInv, Ends, Zgfx!Init

\* A byte goes out, into the ring and into the history.
LEMMA BytePut ==
    ASSUME NEW b \in Bytes, ZgfxInv, Zgfx!Put(b, b)
    PROVE  /\ history' = Append(history, b) /\ history' \in Seq(Bytes)
           /\ ringAt' = (ringAt + 1) % RingSize /\ ringAt' \in 0 .. RingSize - 1
           /\ ring' \in [0 .. RingSize - 1 -> Bytes \cup {0}]
           /\ Ends(history, ring, ringAt)'
           /\ dst' = message'
<1> USE UpdatesAssumption DEF UpdatesAssumption
<1>1. /\ ring' = [ring EXCEPT ![ringAt] = b] /\ ringAt' = (ringAt + 1) % RingSize
      /\ history' = Append(history, b) /\ dst' = Append(dst, b)
      /\ message' = Append(message, b)
  BY DEF Zgfx!Put, Zgfx!Written
<1>2. Ends(history', ring', ringAt')
  BY <1>1, RingGrows DEF ZgfxInv
<1>3. history' \in Seq(Bytes) /\ ring' \in [0 .. RingSize - 1 -> Bytes \cup {0}]
  BY <1>1, StoredTyped DEF ZgfxInv
<1>4. ringAt' \in 0 .. RingSize - 1
  BY <1>1 DEF ZgfxInv
<1> QED BY <1>1, <1>2, <1>3, <1>4 DEF ZgfxInv, Ends

\* A token begins where the ring has what the server meant.
LEMMA TokenBegins == ZgfxInv /\ Zgfx!Segment => ZgfxInv'
<1> SUFFICES ASSUME ZgfxInv, Zgfx!Segment PROVE ZgfxInv'
  OBVIOUS
<1> USE UpdatesAssumption DEF UpdatesAssumption
<1>1. UNCHANGED <<history, ring, ringAt, message, dst>> /\ token' \in Zgfx!Sendable
  BY DEF Zgfx!Segment
<1>2. TokenInv'
  <2>1. CASE \E r \in Zgfx!Runs : token' = [bytes |-> r, dist |-> 0, len |-> 0, src |-> 0]
    <3>1. PICK r \in Zgfx!Runs : token' = [bytes |-> r, dist |-> 0, len |-> 0, src |-> 0]
      BY <2>1
    <3>2. r \in Seq(Bytes)
      <4>1. \A b \in Bytes : <<b>> \in Seq(Bytes)
        OBVIOUS
      <4>2. \A b, c \in Bytes : <<b, c>> \in Seq(Bytes)
        OBVIOUS
      <4>3. (\E b \in Bytes : r = <<b>>) \/ (\E b \in Bytes : \E c \in Bytes : r = <<b, c>>)
        BY DEF Zgfx!Runs
      <4> QED BY <4>1, <4>2, <4>3, Zenon
    <3> QED BY <3>1, <3>2 DEF TokenInv
  <2>2. CASE \E d \in {e \in 1 .. RingSize : e <= Len(history)}, n \in 1 .. MaxLength :
               token' = [bytes |-> <<>>, dist |-> d, len |-> n, src |-> Zgfx!SrcIdx(d)]
    <3>1. PICK d \in {e \in 1 .. RingSize : e <= Len(history)}, n \in 1 .. MaxLength :
               token' = [bytes |-> <<>>, dist |-> d, len |-> n, src |-> Zgfx!SrcIdx(d)]
      BY <2>2
    <3>2. /\ Zgfx!SrcIdx(d) \in 0 .. RingSize - 1
          /\ Zgfx!SrcIdx(d) % RingSize = (ringAt - d) % RingSize
      <4> DEFINE s == Zgfx!SrcIdx(d)
      <4>1. s \in 0 .. RingSize - 1 /\ (s = ringAt - d \/ s = (ringAt - d) + RingSize)
        BY DEF ZgfxInv, Zgfx!SrcIdx
      <4> HIDE DEF s
      <4>2. ringAt - d = s \/ ringAt - d = s - RingSize
        BY <4>1 DEF ZgfxInv
      <4>3. CASE ringAt - d = s - RingSize
        <5>1. ringAt - d = RingSize * (-1) + s
          BY <4>1, <4>3
        <5>2. s % RingSize = s /\ (ringAt - d) % RingSize = s
          BY <4>1, <5>1 DEF ZgfxInv
        <5> QED BY <4>1, <5>2 DEF s
      <4> QED BY <4>1, <4>2, <4>3 DEF s
    <3> HIDE DEF Zgfx!SrcIdx
    <3>3. n \in Nat /\ n > 0 /\ d \in 0 .. RingSize
      OBVIOUS
    <3>4. <<>> \in Seq(Bytes)
      OBVIOUS
    <3> QED BY <1>1, <3>1, <3>2, <3>3, <3>4 DEF TokenInv
  <2> QED BY <1>1, <2>1, <2>2 DEF Zgfx!Sendable
<1> QED BY <1>1, <1>2 DEF ZgfxInv, Ends

\* A byte that is sent.
LEMMA LiteralOut == ZgfxInv /\ Zgfx!Literal => ZgfxInv'
<1> SUFFICES ASSUME ZgfxInv, Zgfx!Literal PROVE ZgfxInv'
  OBVIOUS
<1> DEFINE b == Head(token.bytes)
<1>1. token.bytes \in Seq(Bytes) /\ token.bytes # <<>> /\ token.len = 0
  BY DEF Zgfx!Literal, ZgfxInv, TokenInv
<1>2. b \in Bytes /\ Tail(token.bytes) \in Seq(Bytes)
  BY <1>1
<1>3. Zgfx!Put(b, b) /\ token' = [token EXCEPT !.bytes = Tail(@)]
  BY DEF Zgfx!Literal
<1>4. TokenInv'
  <2> DEFINE rest == Tail(token.bytes)
  <2>1. token' = [token EXCEPT !.bytes = rest] /\ rest \in Seq(Bytes)
    BY <1>2, <1>3
  <2> HIDE DEF rest
  <2>2. /\ token' \in [bytes : Seq(Bytes), dist : 0 .. RingSize, len : Nat, src : Nat]
        /\ token'.len = 0
    BY <1>1, <2>1 DEF ZgfxInv, TokenInv
  <2> QED BY <2>2 DEF TokenInv
<1> HIDE DEF b
<1> QED BY <1>2, <1>3, <1>4, BytePut DEF ZgfxInv

\* A byte of a match is the one the server meant, and so is the next.
LEMMA CopyOut == ZgfxInv /\ Zgfx!Copy => ZgfxInv'
<1> SUFFICES ASSUME ZgfxInv, Zgfx!Copy PROVE ZgfxInv'
  OBVIOUS
<1> USE UpdatesAssumption DEF UpdatesAssumption
<1> DEFINE d == token.dist
           b == history[Len(history) - d + 1]
<1>1. /\ token.len > 0 /\ token.bytes = <<>> /\ d \in 1 .. RingSize /\ d <= Len(history)
      /\ token.src % RingSize = (ringAt - d) % RingSize
      /\ token.src \in Nat /\ token.len \in Nat
  BY DEF Zgfx!Copy, ZgfxInv, TokenInv
<1>2. ring[token.src % RingSize] = b
  BY <1>1 DEF ZgfxInv, Ends
<1>3. b \in Bytes
  BY <1>1 DEF ZgfxInv
<1>4. /\ Zgfx!Put(ring[token.src % RingSize], b)
      /\ token' = IF token.len = 1 THEN Zgfx!NoToken
                  ELSE [token EXCEPT !.len = @ - 1, !.src = @ + 1]
  BY DEF Zgfx!Copy
<1>5. Zgfx!Put(b, b)
  BY <1>2, <1>4
<1> HIDE DEF b
<1>6. history' = Append(history, b) /\ ringAt' = (ringAt + 1) % RingSize
  BY <1>3, <1>5, BytePut
<1>7. TokenInv'
  <2>1. CASE token.len = 1
    <3>1. token' = [bytes |-> <<>>, dist |-> 0, len |-> 0, src |-> 0]
      BY <1>4, <2>1 DEF Zgfx!NoToken
    <3> QED BY <3>1 DEF TokenInv
  <2>2. CASE token.len # 1
    <3>1. token' = [token EXCEPT !.len = @ - 1, !.src = @ + 1]
      BY <1>4, <2>2
    <3>2. /\ token' \in [bytes : Seq(Bytes), dist : 0 .. RingSize, len : Nat, src : Nat]
          /\ token'.bytes = <<>> /\ token'.dist = d /\ token'.src = token.src + 1
      <4>1. token \in [bytes : Seq(Bytes), dist : 0 .. RingSize, len : Nat, src : Nat]
        BY DEF ZgfxInv, TokenInv
      <4>2. token.len - 1 \in Nat /\ token.src + 1 \in Nat
        BY <1>1
      <4> QED BY <1>1, <3>1, <4>1, <4>2
    <3>3. Len(history') = Len(history) + 1 /\ Len(history) \in Nat
      BY <1>3, <1>6 DEF ZgfxInv
    <3>4. (token.src + 1) % RingSize = (ringAt' - d) % RingSize
      <4>1. ringAt \in Int /\ ringAt - d \in Int /\ d \in Int
        BY <1>1 DEF ZgfxInv
      <4>2. (token.src + 1) % RingSize = (((ringAt - d) % RingSize) + 1) % RingSize
        <5>1. token.src \in Int /\ 1 \in Int /\ RingSize \in Nat \ {0}
          BY <1>1
        <5>2. ((token.src % RingSize) + 1) % RingSize = (token.src + 1) % RingSize
          BY <5>1, StepsAround, Zenon
        <5> QED BY <1>1, <5>2
      <4>3. @ = ((ringAt - d) + 1) % RingSize
        BY <4>1, StepsAround
      <4>4. (ringAt' + (-d)) % RingSize = ((ringAt + 1) + (-d)) % RingSize
        <5>1. ringAt + 1 \in Int /\ -d \in Int /\ RingSize \in Nat \ {0}
          BY <4>1
        <5>2. (((ringAt + 1) % RingSize) + (-d)) % RingSize
                = ((ringAt + 1) + (-d)) % RingSize
          BY <5>1, StepsAround, Zenon
        <5> QED BY <1>6, <5>2
      <4>5. ringAt' \in Int
        BY <1>6, <4>1
      <4>6. ringAt' + (-d) = ringAt' - d /\ (ringAt + 1) + (-d) = (ringAt - d) + 1
        BY <4>1, <4>5
      <4> QED BY <4>2, <4>3, <4>4, <4>6
    <3> HIDE DEF d
    <3> QED BY <1>1, <3>2, <3>3, <3>4 DEF TokenInv
  <2> QED BY <2>1, <2>2
<1> QED BY <1>3, <1>5, <1>7, BytePut DEF ZgfxInv

\* From any history and any matches inside it, for a ring of any size and messages of
\* any segments, what comes out is what the server meant, and the ring ends with its
\* history: also when the server started that again and the ring did not.
THEOREM ZgfxAlwaysFaithful == MCSpec => []ZgfxFaithful
<1>1. MCInit => ZgfxInv
  BY ZgfxStarts DEF MCInit
<1>2. ZgfxInv /\ [MCNext]_mcVars => ZgfxInv'
  <2> SUFFICES ASSUME ZgfxInv, [MCNext]_mcVars PROVE ZgfxInv'
    OBVIOUS
  <2>1. Zgfx!Next \/ UNCHANGED zgfxVars
    BY DEF MCNext, mcVars
  <2>2. CASE Zgfx!Begin
    BY <2>2 DEF Zgfx!Begin, ZgfxInv, TokenInv, Ends
  <2>3. CASE Zgfx!ResetGraphics
    <3>1. /\ history' = <<>> /\ UNCHANGED <<ring, ringAt, message, dst, token>>
          /\ token.len = 0
      BY <2>3 DEF Zgfx!ResetGraphics, Zgfx!NoToken
    <3> QED BY <3>1 DEF ZgfxInv, TokenInv, Ends
  <2>4. CASE UNCHANGED zgfxVars
    BY <2>4 DEF zgfxVars, ZgfxInv, TokenInv, Ends
  <2> QED BY <2>1, <2>2, <2>3, <2>4, TokenBegins, LiteralOut, CopyOut DEF Zgfx!Next
<1>3. ZgfxInv => ZgfxFaithful
  BY DEF ZgfxInv, Ends, ZgfxFaithful, Zgfx!ZgfxFaithful
<1> QED BY <1>1, <1>2, <1>3, PTL DEF MCSpec

(***************************************************************************)
(* The progressive tiles.  What the bits of a coefficient weigh is a       *)
(* recursive function, known by induction from its definition.             *)
(***************************************************************************)
\* A set of naturals has a least member.
LEMMA LeastNatural ==
    ASSUME NEW T, T \subseteq Nat, T # {}
    PROVE  \E x \in T : \A y \in T : x <= y
<1> DEFINE R == OpToRel(<, Nat)
<1>1. IsWellFoundedOn(R, Nat)
  BY NatLessThanWellFounded
<1>2. \A x, y \in Nat : <<y, x>> \in R <=> y < x
  BY DEF OpToRel
<1> HIDE DEF R
<1>3. \E x \in T : \A y \in T : ~ (<<y, x>> \in R)
  BY <1>1, WFMin
<1>4. PICK x \in T : \A y \in T : ~ (<<y, x>> \in R)
  BY <1>3
<1>5. \A y \in T : ~ (y < x)
  BY <1>2, <1>4
<1>6. \A y \in T : x <= y
  BY <1>5
<1> QED BY <1>6

\* A set that has zero, and with a number the next one, has every natural number.
LEMMA EveryNatural ==
    ASSUME NEW S, 0 \in S, \A n \in Nat : n \in S => n + 1 \in S
    PROVE  Nat \subseteq S
<1> DEFINE T == Nat \ S
<1>1. SUFFICES ASSUME T # {} PROVE FALSE
  OBVIOUS
<1>2. PICK x \in T : \A y \in T : x <= y
  BY <1>1, LeastNatural
<1>3. x # 0 /\ x - 1 \in Nat /\ x - 1 \notin T
  BY <1>2
<1>4. x - 1 \in S /\ (x - 1) + 1 = x
  BY <1>3
<1> QED BY <1>3, <1>4

\* What the bits weigh is a function: its tables up to any bit exist and agree.
LEMMA WeightsExist ==
    Progressive!Weight = [b \in Nat |-> IF b = 0 THEN 1 ELSE 2 * Progressive!Weight[b - 1]]
<1> DEFINE Is(f, k) == /\ f \in [0 .. k -> Nat]
                       /\ \A b \in 0 .. k : f[b] = IF b = 0 THEN 1 ELSE 2 * f[b - 1]
           S == {k \in Nat : \E f : Is(f, k)}
           F(k) == CHOOSE f : Is(f, k)
           w == [k \in Nat |-> F(k)[k]]
<1>1. 0 \in S
  <2> DEFINE f == [b \in 0 .. 0 |-> 1]
  <2>1. Is(f, 0)
    OBVIOUS
  <2> QED BY <2>1
<1>2. ASSUME NEW k \in Nat, k \in S PROVE k + 1 \in S
  <2>1. PICK f : Is(f, k)
    BY <1>2
  <2> DEFINE g == [b \in 0 .. k + 1 |-> IF b = k + 1 THEN 2 * f[k] ELSE f[b]]
  <2>2. f[k] \in Nat /\ \A b \in 0 .. k : f[b] \in Nat
    BY <2>1
  <2>3. g \in [0 .. k + 1 -> Nat] /\ g[k + 1] = 2 * f[k] /\ \A b \in 0 .. k : g[b] = f[b]
    BY <2>2
  <2> HIDE DEF g
  <2>4. ASSUME NEW b \in 0 .. k + 1 PROVE g[b] = IF b = 0 THEN 1 ELSE 2 * g[b - 1]
    <3>1. CASE b = k + 1
      <4>1. b - 1 = k /\ b # 0 /\ k \in 0 .. k
        BY <3>1
      <4> QED BY <2>3, <3>1, <4>1
    <3>2. CASE b \in 0 .. k
      <4>1. b # 0 => b - 1 \in 0 .. k
        BY <3>2
      <4> QED BY <2>1, <2>3, <3>2, <4>1
    <3> QED BY <3>1, <3>2
  <2>5. Is(g, k + 1)
    BY <2>3, <2>4
  <2> HIDE DEF Is
  <2> QED BY <2>5
<1>3. \A k \in Nat : Is(F(k), k)
  <2>1. Nat \subseteq S
    <3> HIDE DEF S
    <3> QED BY <1>1, <1>2, EveryNatural
  <2> HIDE DEF Is
  <2> QED BY <2>1
<1> HIDE DEF F
<1>4. ASSUME NEW k \in Nat, NEW f, Is(f, k)
      PROVE  \A b \in 0 .. k : f[b] = F(b)[b]
  <2> DEFINE A == {b \in Nat : b <= k => \A c \in Nat : c >= b => F(c)[b] = f[b]}
  <2>1. 0 \in A
    <3>1. f[0] = 1
      BY <1>4
    <3>2. ASSUME NEW c \in Nat PROVE F(c)[0] = 1
      <4>1. 0 \in 0 .. c /\ Is(F(c), c)
        BY <1>3
      <4> QED BY <4>1
    <3> QED BY <3>1, <3>2
  <2>2. ASSUME NEW b \in Nat, b \in A PROVE b + 1 \in A
    <3>1. SUFFICES ASSUME b + 1 <= k, NEW c \in Nat, c >= b + 1 PROVE F(c)[b + 1] = f[b + 1]
      OBVIOUS
    <3>2. b + 1 \in 0 .. k /\ b + 1 \in 0 .. c /\ b + 1 # 0 /\ (b + 1) - 1 = b
      BY <3>1
    <3>3. F(c)[b + 1] = 2 * F(c)[b]
      BY <1>3, <3>2
    <3>4. f[b + 1] = 2 * f[b]
      BY <1>4, <3>2
    <3>5. F(c)[b] = f[b]
      BY <2>2, <3>1
    <3> QED BY <3>3, <3>4, <3>5
  <2>3. Nat \subseteq A
    <3> HIDE DEF A
    <3> QED BY <2>1, <2>2, EveryNatural
  <2> HIDE DEF Is
  <2>4. ASSUME NEW b \in 0 .. k PROVE f[b] = F(b)[b]
    <3>1. b \in Nat /\ b <= k /\ b >= b /\ b \in A
      BY <2>3
    <3> QED BY <3>1
  <2> QED BY <2>4
<1>5. ASSUME NEW b \in Nat PROVE w[b] = IF b = 0 THEN 1 ELSE 2 * w[b - 1]
  <2>1. w[b] = F(b)[b] /\ (b # 0 => w[b - 1] = F(b - 1)[b - 1])
    OBVIOUS
  <2>2. F(b)[b] = IF b = 0 THEN 1 ELSE 2 * F(b)[b - 1]
    <3>1. b \in 0 .. b
      OBVIOUS
    <3> QED BY <1>3, <3>1
  <2>3. b # 0 => F(b)[b - 1] = F(b - 1)[b - 1]
    <3>1. b # 0 => b - 1 \in 0 .. b
      OBVIOUS
    <3> QED BY <1>3, <1>4, <3>1
  <2> QED BY <2>1, <2>2, <2>3
<1>6. w = [b \in Nat |-> w[b]]
  OBVIOUS
<1> HIDE DEF w
<1>7. w = [b \in Nat |-> IF b = 0 THEN 1 ELSE 2 * w[b - 1]]
  BY <1>5, <1>6
<1>8. \E f : f = [b \in Nat |-> IF b = 0 THEN 1 ELSE 2 * f[b - 1]]
  BY <1>7
<1> QED BY <1>8 DEF Progressive!Weight

\* A bit weighs twice the one below it.
LEMMA Weights ==
    /\ Progressive!Weight[0] = 1
    /\ \A b \in Nat : /\ Progressive!Weight[b] \in Nat \ {0}
                      /\ Progressive!Weight[b + 1] = 2 * Progressive!Weight[b]
<1> DEFINE w == Progressive!Weight
           S == {b \in Nat : w[b] \in Nat \ {0}}
<1>1. \A b \in Nat : w[b] = IF b = 0 THEN 1 ELSE 2 * w[b - 1]
  <2>1. w = [b \in Nat |-> IF b = 0 THEN 1 ELSE 2 * w[b - 1]]
    BY WeightsExist
  <2> HIDE DEF w
  <2> QED BY <2>1
<1> HIDE DEF w
<1>2. w[0] = 1 /\ \A b \in Nat : w[b + 1] = 2 * w[b]
  <2>1. \A b \in Nat : b + 1 \in Nat /\ b + 1 # 0 /\ (b + 1) - 1 = b
    OBVIOUS
  <2> QED BY <1>1, <2>1
<1>3. Nat \subseteq S
  <2>1. 0 \in S
    BY <1>2
  <2>2. ASSUME NEW b \in Nat, b \in S PROVE b + 1 \in S
    BY <1>2, <2>2
  <2> HIDE DEF S
  <2> QED BY <2>1, <2>2, EveryNatural
<1> QED BY <1>2, <1>3 DEF w

\* Bits above other bits weigh that many times more.
LEMMA WeightsMultiply ==
    ASSUME NEW a \in Nat, NEW b \in Nat
    PROVE  Progressive!Weight[a + b] = Progressive!Weight[a] * Progressive!Weight[b]
<1> DEFINE w == Progressive!Weight
           S == {k \in Nat : w[a + k] = w[a] * w[k]}
<1>1. w[0] = 1 /\ \A k \in Nat : w[k] \in Nat /\ w[k + 1] = 2 * w[k]
  BY Weights
<1> HIDE DEF w
<1>2. 0 \in S
  BY <1>1
<1>3. ASSUME NEW k \in Nat, k \in S PROVE k + 1 \in S
  <2>1. w[a + (k + 1)] = 2 * w[a + k]
    <3>1. a + (k + 1) = (a + k) + 1 /\ a + k \in Nat
      OBVIOUS
    <3> QED BY <1>1, <3>1
  <2>2. w[a] * w[k + 1] = 2 * (w[a] * w[k])
    BY <1>1
  <2> QED BY <1>3, <2>1, <2>2
<1>4. Nat \subseteq S
  <2> HIDE DEF S
  <2> QED BY <1>2, <1>3, EveryNatural
<1> QED BY <1>4 DEF w

\* Bits of a that a coarser pass left out, and the ones it had, are the bits of a finer.
LEMMA FinerBits ==
    ASSUME NEW a \in Nat, NEW m \in Nat \ {0}, NEW k \in Nat \ {0}
    PROVE  /\ (a \div (k * m)) * (k * m) + ((a \div m) % k) * m = (a \div m) * m
           /\ a \div (k * m) = (a \div m) \div k
<1> DEFINE q == a \div m
           r == a % m
           p == q \div k
           d == q % k
<1>1. q \in Nat /\ r \in 0 .. m - 1 /\ a = m * q + r
  OBVIOUS
<1> HIDE DEF q, r
<1>2. p \in Nat /\ d \in 0 .. k - 1 /\ q = k * p + d
  BY <1>1
<1> HIDE DEF p, d
<1> DEFINE e == m * d + r
<1>3. k * m \in Nat \ {0}
  OBVIOUS
<1>4. e \in 0 .. (k * m) - 1
  <2>1. m * d <= m * (k - 1) /\ m * d >= 0 /\ m * d \in Int
    BY <1>2
  <2>2. m * (k - 1) = k * m - m
    OBVIOUS
  <2> QED BY <1>1, <1>3, <2>1, <2>2
<1>5. a = (k * m) * p + e
  <2>1. m * q = m * (k * p) + m * d
    BY <1>2
  <2>2. m * (k * p) = (k * m) * p
    BY <1>2
  <2> QED BY <1>1, <1>2, <2>1, <2>2
<1> HIDE DEF e
<1>6. a \div (k * m) = p
  <2> DEFINE n == k * m
  <2>1. n \in Nat \ {0} /\ e \in 0 .. n - 1 /\ a = n * p + e /\ p \in Int /\ a \in Int
    BY <1>2, <1>3, <1>4, <1>5
  <2> HIDE DEF n
  <2>2. a \div n = p
    BY <2>1, Remainder
  <2> QED BY <2>2 DEF n
<1>7. p * (k * m) + d * m = q * m
  BY <1>2
<1> QED BY <1>6, <1>7 DEF d, p, q

\* What is kept of a coefficient has its sign, or nothing.
LEMMA KeptSigns ==
    ASSUME NEW v \in Int, NEW b \in Nat
    PROVE  LET k == Progressive!Kept(v, b)   t == Progressive!Trunc(v, b) IN
           /\ k \in Int /\ t \in Int /\ t = k * Progressive!Weight[b]
           /\ Progressive!Sign(k) = Progressive!Sign(t)
           /\ t # 0 => Progressive!Sign(t) = Progressive!Sign(v)
           /\ b = 0 => t = v
<1> DEFINE w == Progressive!Weight[b]
           s == Progressive!Sign(v)
           a == Progressive!Abs(v)
           d == a \div w
           k == Progressive!Kept(v, b)
           t == Progressive!Trunc(v, b)
<1>1. w \in Nat \ {0} /\ (b = 0 => w = 1)
  BY Weights
<1>2. a \in Nat /\ s \in {-1, 0, 1} /\ v = s * a /\ (s = 0 <=> a = 0)
  BY DEF Progressive!Abs, Progressive!Sign
<1>3. d \in Nat /\ (a = 0 => d = 0) /\ (w = 1 => d = a)
  <2> HIDE DEF w, a
  <2> QED BY <1>1, <1>2
<1>4. k = s * d /\ t = k * w
  BY DEF Progressive!Kept, Progressive!Trunc
<1>5. s = 1 => v > 0
  BY DEF Progressive!Sign
<1>6. s = -1 => v < 0
  BY DEF Progressive!Sign
<1> HIDE DEF w, s, a, d, k, t
<1>7. k \in Int /\ t \in Int /\ (b = 0 => t = v)
  BY <1>1, <1>2, <1>3, <1>4
<1>8. Progressive!Sign(k) = Progressive!Sign(t) /\ (t # 0 => Progressive!Sign(t) = s)
  <2>1. CASE d = 0
    <3>1. k = 0 /\ t = 0
      BY <1>1, <1>2, <1>4, <2>1
    <3> QED BY <3>1
  <2>2. CASE d # 0
    <3>1. d > 0 /\ d * w \in Nat /\ d * w > 0
      BY <1>1, <1>3, <2>2
    <3>2. t = s * (d * w)
      BY <1>1, <1>2, <1>3, <1>4
    <3>3. CASE s = 1
      <4>1. k > 0 /\ t > 0
        BY <1>4, <3>1, <3>2, <3>3, <1>3
      <4> QED BY <1>7, <3>3, <4>1 DEF Progressive!Sign
    <3>4. CASE s = -1
      <4>1. k < 0 /\ t < 0
        BY <1>4, <3>1, <3>2, <3>4, <1>3
      <4> QED BY <1>7, <3>4, <4>1 DEF Progressive!Sign
    <3>5. CASE s = 0
      BY <1>2, <1>3, <2>2, <3>5
    <3> QED BY <1>2, <3>3, <3>4, <3>5
  <2> QED BY <2>1, <2>2
<1> QED BY <1>4, <1>7, <1>8 DEF k, t, w, s

\* The bits between two passes take a coefficient from the coarser to the finer: with the
\* sign it was kept with, or, where there is none, when it is no less than zero.
LEMMA BitsBetween ==
    ASSUME NEW v \in Int, NEW b \in Nat, NEW n \in Nat
    PROVE  LET x == (Progressive!Abs(v) \div Progressive!Weight[b]) % Progressive!Weight[n]
               coarse == Progressive!Trunc(v, b + n)
               fine == Progressive!Trunc(v, b)
           IN  /\ x \in Nat
               /\ coarse + (Progressive!Sign(v) * x) * Progressive!Weight[b] = fine
               /\ coarse # 0 => fine # 0
<1> DEFINE m == Progressive!Weight[b]
           k == Progressive!Weight[n]
           s == Progressive!Sign(v)
           a == Progressive!Abs(v)
           x == (a \div m) % k
           c == a \div (k * m)
           d == a \div m
<1>1. m \in Nat \ {0} /\ k \in Nat \ {0} /\ Progressive!Weight[b + n] = k * m
  <2>1. m \in Nat \ {0} /\ k \in Nat \ {0}
    BY Weights
  <2>2. Progressive!Weight[b + n] = m * k
    BY WeightsMultiply
  <2> HIDE DEF m, k
  <2> QED BY <2>1, <2>2
<1>2. a \in Nat /\ s \in {-1, 0, 1}
  BY DEF Progressive!Abs, Progressive!Sign
<1>3. Progressive!Trunc(v, b + n) = (s * c) * (k * m) /\ Progressive!Trunc(v, b) = (s * d) * m
  BY <1>1 DEF Progressive!Kept, Progressive!Trunc
<1> HIDE DEF m, k, s, a
<1>4. c * (k * m) + x * m = d * m /\ c = d \div k
  BY <1>1, <1>2, FinerBits
<1>5. d \in Nat /\ x \in Nat /\ c \in Nat /\ k * m \in Nat \ {0}
  <2>1. d \in Nat
    BY <1>1, <1>2
  <2>2. x \in Nat /\ k * m \in Nat \ {0}
    <3>1. x = d % k
      OBVIOUS
    <3> HIDE DEF d, x
    <3> QED BY <1>1, <2>1, <3>1
  <2>3. c \in Nat
    <3> HIDE DEF d, c
    <3> QED BY <1>1, <1>4, <2>1
  <2> QED BY <2>1, <2>2, <2>3
<1>6. c # 0 => d # 0
  <2> HIDE DEF c, d
  <2> QED BY <1>1, <1>4
<1> HIDE DEF c, d, x
<1>7. (s * c) * (k * m) + (s * x) * m = (s * d) * m
  <2> DEFINE n1 == k * m
  <2>1. c * n1 + x * m = d * m /\ n1 \in Nat
    BY <1>4, <1>5
  <2> HIDE DEF n1
  <2>2. (s * c) * n1 + (s * x) * m = (s * d) * m
    <3>1. CASE s = 0
      BY <1>1, <1>5, <2>1, <3>1
    <3>2. CASE s = 1
      BY <1>1, <1>5, <2>1, <3>2
    <3>3. CASE s = -1
      <4>1. (s * c) * n1 = -(c * n1) /\ (s * x) * m = -(x * m) /\ (s * d) * m = -(d * m)
        BY <1>1, <1>5, <2>1, <3>3
      <4>2. c * n1 \in Int /\ x * m \in Int /\ d * m \in Int
        BY <1>1, <1>5, <2>1
      <4> QED BY <2>1, <4>1, <4>2
    <3> QED BY <1>2, <3>1, <3>2, <3>3
  <2> QED BY <2>2 DEF n1
<1>8. (s * c) * (k * m) # 0 => (s * d) * m # 0
  <2>1. SUFFICES ASSUME (s * c) * (k * m) # 0 PROVE (s * d) * m # 0
    OBVIOUS
  <2>2. s # 0 /\ c # 0
    BY <1>2, <1>5, <2>1
  <2>3. d > 0 /\ d * m > 0
    BY <1>1, <1>5, <1>6, <2>2
  <2>4. (s * d) * m = s * (d * m)
    BY <1>1, <1>2, <1>5
  <2> QED BY <1>1, <1>2, <1>5, <2>2, <2>3, <2>4
<1> QED BY <1>3, <1>5, <1>7, <1>8 DEF x, a, m, k, s

\* A tile as the server means it, and as the client keeps it.
Meant == [base : Int \X Int, diff : Int \X Nat, bits : Nat]
Kept == [hl : Int, ll : Int, sign : Int, bits : Nat, pixels : Int \X Int]

\* The client has refined a tile as far as the server, and has its sign and pixels.
Agrees(tc, s) ==
    /\ s \in Meant /\ tc \in Kept
    /\ tc.bits = s.bits
    /\ tc.hl = Progressive!Meaning(s)[1] /\ tc.ll = Progressive!Meaning(s)[2]
    /\ tc.sign = Progressive!Sign(Progressive!Trunc(s.diff[1], s.bits))
    /\ tc.pixels = Progressive!Meaning(s)

\* Both know a tile, or neither does.
Known(tc, s) == (s = Progressive!Absent /\ tc = Progressive!Absent) \/ Agrees(tc, s)

\* A block that makes of the tile the client keeps what the server means.
Fits(tc, b) == Agrees(Progressive!Decoded(tc, b), b.means)

\* What a tile means is a pair.
LEMMA MeaningPair ==
    ASSUME NEW s \in Meant
    PROVE  /\ Progressive!Meaning(s) \in Int \X Int
           /\ Progressive!Meaning(s)[1] = s.base[1] + Progressive!Trunc(s.diff[1], s.bits)
           /\ Progressive!Meaning(s)[2] = s.base[2] + Progressive!Trunc(s.diff[2], s.bits)
           /\ s.base[1] \in Int /\ s.base[2] \in Int /\ s.diff[1] \in Int /\ s.diff[2] \in Nat
           /\ s.bits \in Nat
<1>1. /\ s.base[1] \in Int /\ s.base[2] \in Int /\ s.diff[1] \in Int /\ s.diff[2] \in Nat
      /\ s.bits \in Nat
  BY DEF Meant
<1>2. /\ Progressive!Trunc(s.diff[1], s.bits) \in Int
      /\ Progressive!Trunc(s.diff[2], s.bits) \in Int
  <2>1. s.diff[2] \in Int
    BY <1>1
  <2> QED BY <1>1, <2>1, KeptSigns
<1> QED BY <1>1, <1>2 DEF Progressive!Meaning

\* A tile that is there is not the mark of one that is not.
LEMMA TilesPresent ==
    /\ \A tc \in Kept : tc # Progressive!Absent
    /\ \A s \in Meant : s # Progressive!Absent
<1>1. ASSUME NEW tc \in Kept PROVE tc # Progressive!Absent
  <2>1. "hl" \in DOMAIN tc /\ "hl" \notin 1 .. 0
    BY DEF Kept
  <2> QED BY <2>1 DEF Progressive!Absent
<1>2. ASSUME NEW s \in Meant PROVE s # Progressive!Absent
  <2>1. "base" \in DOMAIN s /\ "base" \notin 1 .. 0
    BY DEF Meant
  <2> QED BY <2>1 DEF Progressive!Absent
<1> QED BY <1>1, <1>2

\* A whole tile fits what is kept, as a difference to it or in its place.
LEMMA WholeFits ==
    ASSUME NEW t \in Tiles, Known(coeffs[t], encoder[t]), NEW b \in Progressive!Whole(t)
    PROVE  Fits(coeffs[t], b) /\ b.tile = t /\ b.means \in Meant
<1> USE UpdatesAssumption DEF UpdatesAssumption
<1> DEFINE tc == Progressive!Ensured(coeffs[t])
           s == b.means
           n == b.bits
           v == s.diff
           d == Progressive!Decoded(coeffs[t], b)
           base == Progressive!Base(tc, b.diff)
<1>1. /\ b.tile = t /\ b.kind # "upgrade" /\ n \in Nat /\ s.bits = n
      /\ v \in MCValues /\ s = [base |-> s.base, diff |-> v, bits |-> n]
      /\ b.hl = Progressive!Kept(v[1], n) /\ b.ll = Progressive!Kept(v[2], n)
      /\ s.base = IF b.diff /\ encoder[t] # Progressive!Absent
                  THEN Progressive!Meaning(encoder[t]) ELSE Progressive!NoPixels
      /\ b.diff \in BOOLEAN
  <2>1. CASE \E w \in MCValues :
               b = [kind |-> "simple", tile |-> t, bits |-> 0, diff |-> FALSE,
                    hl |-> w[1], ll |-> w[2],
                    means |-> [base |-> Progressive!NoPixels, diff |-> w, bits |-> 0]]
    <3>1. PICK w \in MCValues :
               b = [kind |-> "simple", tile |-> t, bits |-> 0, diff |-> FALSE,
                    hl |-> w[1], ll |-> w[2],
                    means |-> [base |-> Progressive!NoPixels, diff |-> w, bits |-> 0]]
      BY <2>1
    <3>2. Progressive!Kept(w[1], 0) = w[1] /\ Progressive!Kept(w[2], 0) = w[2]
      <4>1. w[1] \in Int /\ w[2] \in Int
        BY DEF MCValues
      <4> DEFINE k1 == Progressive!Kept(w[1], 0)
                 k2 == Progressive!Kept(w[2], 0)
      <4>2. /\ k1 \in Int /\ k1 * Progressive!Weight[0] = w[1]
            /\ k2 \in Int /\ k2 * Progressive!Weight[0] = w[2]
        BY <4>1, KeptSigns
      <4>3. Progressive!Weight[0] = 1
        BY Weights
      <4> HIDE DEF k1, k2
      <4> QED BY <4>2, <4>3 DEF k1, k2
    <3> QED BY <3>1, <3>2
  <2>2. CASE \E w \in MCValues, c \in Coarse, diff \in BOOLEAN :
               b = [kind |-> "first", tile |-> t, bits |-> c, diff |-> diff,
                    hl |-> Progressive!Kept(w[1], c), ll |-> Progressive!Kept(w[2], c),
                    means |-> [base |-> IF diff /\ encoder[t] # Progressive!Absent
                                        THEN Progressive!Meaning(encoder[t])
                                        ELSE Progressive!NoPixels,
                               diff |-> w, bits |-> c]]
    <3>1. PICK w \in MCValues, c \in Coarse, diff \in BOOLEAN :
               b = [kind |-> "first", tile |-> t, bits |-> c, diff |-> diff,
                    hl |-> Progressive!Kept(w[1], c), ll |-> Progressive!Kept(w[2], c),
                    means |-> [base |-> IF diff /\ encoder[t] # Progressive!Absent
                                        THEN Progressive!Meaning(encoder[t])
                                        ELSE Progressive!NoPixels,
                               diff |-> w, bits |-> c]]
      BY <2>2
    <3> QED BY <3>1
  <2> QED BY <2>1, <2>2 DEF Progressive!Whole
<1>2. v \in Int \X Nat /\ v[1] \in Int /\ v[2] \in Nat /\ v[2] \in Int
  BY <1>1 DEF MCValues
<1>3. \/ tc.hl = 0 /\ tc.ll = 0 /\ encoder[t] = Progressive!Absent
      \/ Agrees(tc, encoder[t]) /\ encoder[t] # Progressive!Absent
  <2>1. CASE Agrees(coeffs[t], encoder[t])
    BY <2>1, TilesPresent DEF Agrees, Progressive!Ensured
  <2>2. CASE encoder[t] = Progressive!Absent /\ coeffs[t] = Progressive!Absent
    BY <2>2 DEF Progressive!Ensured
  <2> QED BY <2>1, <2>2 DEF Known
<1> HIDE DEF tc, v, n
<1>4. base[1] = s.base[1] /\ base[2] = s.base[2] /\ s.base \in Int \X Int
  <2>1. CASE b.diff /\ encoder[t] # Progressive!Absent
    <3>1. s.base = Progressive!Meaning(encoder[t])
      BY <1>1, <2>1
    <3>2. /\ encoder[t] \in Meant /\ tc.hl = Progressive!Meaning(encoder[t])[1]
          /\ tc.ll = Progressive!Meaning(encoder[t])[2]
      BY <1>3, <2>1 DEF Agrees
    <3>3. base = <<tc.hl, tc.ll>>
      BY <2>1 DEF Progressive!Base
    <3> QED BY <3>1, <3>2, <3>3, MeaningPair
  <2>2. CASE ~b.diff
    <3>1. s.base = <<0, 0>>
      BY <1>1, <2>2 DEF Progressive!NoPixels
    <3>2. base = <<0, 0>>
      BY <2>2 DEF Progressive!Base, Progressive!NoPixels
    <3> QED BY <3>1, <3>2
  <2>3. CASE b.diff /\ encoder[t] = Progressive!Absent
    <3>1. s.base = <<0, 0>>
      BY <1>1, <2>3 DEF Progressive!NoPixels
    <3>2. base = <<tc.hl, tc.ll>> /\ tc.hl = 0 /\ tc.ll = 0
      BY <1>3, <2>3 DEF Progressive!Base
    <3> QED BY <3>1, <3>2
  <2> QED BY <1>1, <2>1, <2>2, <2>3
<1>5. s \in Meant
  BY <1>1, <1>2, <1>4 DEF Meant
<1> HIDE DEF base, s
<1> DEFINE t1 == Progressive!Trunc(v[1], n)
           t2 == Progressive!Trunc(v[2], n)
<1>6. /\ t1 \in Int /\ t1 = b.hl * Progressive!Weight[n]
      /\ t2 \in Int /\ t2 = b.ll * Progressive!Weight[n]
      /\ Progressive!Sign(b.hl) = Progressive!Sign(t1)
  <2>1. v[1] \in Int /\ v[2] \in Int /\ n \in Nat
    BY <1>1, <1>2
  <2> HIDE DEF t1, t2
  <2>2. /\ t1 \in Int /\ t1 = Progressive!Kept(v[1], n) * Progressive!Weight[n]
        /\ Progressive!Sign(Progressive!Kept(v[1], n)) = Progressive!Sign(t1)
    BY <2>1, KeptSigns, Zenon DEF t1
  <2>3. t2 \in Int /\ t2 = Progressive!Kept(v[2], n) * Progressive!Weight[n]
    BY <2>1, KeptSigns, Zenon DEF t2
  <2> QED BY <1>1, <2>2, <2>3
<1>7. d = [hl |-> base[1] + t1, ll |-> base[2] + t2, sign |-> Progressive!Sign(t1),
           bits |-> n, pixels |-> <<base[1] + t1, base[2] + t2>>]
  BY <1>1, <1>6 DEF Progressive!Decoded, Progressive!TileData, Progressive!SignKept,
                    base, tc, n
<1> HIDE DEF d, t1, t2
<1>8. /\ Progressive!Meaning(s)[1] = base[1] + t1 /\ Progressive!Meaning(s)[2] = base[2] + t2
      /\ Progressive!Meaning(s) = <<base[1] + t1, base[2] + t2>>
  <2>1. s.diff[1] = v[1] /\ s.diff[2] = v[2] /\ s.bits = n
    BY <1>1 DEF v
  <2>2. Progressive!Meaning(s) = <<base[1] + t1, base[2] + t2>>
    BY <1>4, <2>1 DEF Progressive!Meaning, t1, t2
  <2> QED BY <2>2
<1>9. base[1] + t1 \in Int /\ base[2] + t2 \in Int /\ Progressive!Sign(t1) \in Int
  BY <1>4, <1>6 DEF Progressive!Sign
<1>10. Agrees(d, s)
  <2>1. Progressive!Sign(Progressive!Trunc(s.diff[1], s.bits)) = Progressive!Sign(t1)
    BY <1>1 DEF t1, v
  <2>2. d \in Kept
    BY <1>1, <1>7, <1>9 DEF Kept
  <2> QED BY <1>1, <1>5, <1>7, <1>8, <2>1, <2>2 DEF Agrees
<1> QED BY <1>1, <1>5, <1>10 DEF Fits, d, s

\* The bits of an upgrade take what is kept of a tile down to its own.
LEMMA UpgradeFits ==
    ASSUME NEW t, NEW tc, NEW s, Known(tc, s), NEW b \in Progressive!Upgrades(t, s)
    PROVE  Fits(tc, b) /\ b.tile = t /\ b.means \in Meant
<1> DEFINE m == b.means
           c == b.bits
           k == s.bits - c
           w == Progressive!Weight[c]
           d == Progressive!Decoded(tc, b)
           v1 == s.diff[1]
           v2 == s.diff[2]
           x1 == (Progressive!Abs(v1) \div w) % Progressive!Weight[k]
           x2 == (v2 \div w) % Progressive!Weight[k]
<1>1. s # Progressive!Absent
  BY DEF Progressive!Upgrades
<1>2. Agrees(tc, s) /\ s \in Meant
  BY <1>1 DEF Known, Agrees
<1>3. /\ b.tile = t /\ b.kind = "upgrade" /\ c \in 0 .. s.bits - 1
      /\ m = [s EXCEPT !.bits = c]
      /\ b.hl = IF Progressive!Trunc(v1, s.bits) # 0 THEN x1 ELSE Progressive!Kept(v1, c)
      /\ b.ll = x2
  <2>1. PICK n \in 0 .. s.bits - 1 :
          b = [kind |-> "upgrade", tile |-> t, bits |-> n, diff |-> FALSE,
               hl |-> IF Progressive!Trunc(s.diff[1], s.bits) # 0
                      THEN (Progressive!Abs(s.diff[1]) \div Progressive!Weight[n])
                             % Progressive!Weight[s.bits - n]
                      ELSE Progressive!Kept(s.diff[1], n),
               ll |-> (s.diff[2] \div Progressive!Weight[n]) % Progressive!Weight[s.bits - n],
               means |-> [s EXCEPT !.bits = n]]
    BY <1>1 DEF Progressive!Upgrades
  <2> QED BY <2>1
<1>4. /\ s.base[1] \in Int /\ s.base[2] \in Int /\ v1 \in Int /\ v2 \in Nat /\ v2 \in Int
      /\ s.bits \in Nat
  BY <1>2, MeaningPair
<1>5. c \in Nat /\ k \in Nat /\ k > 0 /\ s.bits = c + k
  BY <1>3, <1>4
<1>6. m \in Meant /\ m.base = s.base /\ m.diff = s.diff /\ m.bits = c
  BY <1>2, <1>3, <1>5 DEF Meant
<1> HIDE DEF k, v1, v2
<1> DEFINE coarse1 == Progressive!Trunc(v1, s.bits)
           fine1 == Progressive!Trunc(v1, c)
           coarse2 == Progressive!Trunc(v2, s.bits)
           fine2 == Progressive!Trunc(v2, c)
<1>7. /\ x1 \in Nat /\ coarse1 + (Progressive!Sign(v1) * x1) * w = fine1
      /\ coarse1 # 0 => fine1 # 0
  <2>1. /\ x1 \in Nat
        /\ Progressive!Trunc(v1, c + k) + (Progressive!Sign(v1) * x1) * w = fine1
        /\ Progressive!Trunc(v1, c + k) # 0 => fine1 # 0
    BY <1>4, <1>5, BitsBetween, Zenon
  <2>2. coarse1 = Progressive!Trunc(v1, c + k)
    BY <1>5
  <2> HIDE DEF coarse1, fine1, x1
  <2> QED BY <2>1, <2>2
<1>8. x2 \in Nat /\ coarse2 + x2 * w = fine2
  <2>1. Progressive!Abs(v2) = v2 /\ Progressive!Sign(v2) \in {0, 1}
        /\ (Progressive!Sign(v2) = 0 => v2 = 0)
    BY <1>4 DEF Progressive!Abs, Progressive!Sign
  <2> DEFINE y == (Progressive!Abs(v2) \div w) % Progressive!Weight[k]
  <2>2. y \in Nat /\ coarse2 + (Progressive!Sign(v2) * y) * w = fine2
    <3>1. /\ y \in Nat
          /\ Progressive!Trunc(v2, c + k) + (Progressive!Sign(v2) * y) * w = fine2
      BY <1>4, <1>5, BitsBetween, Zenon
    <3>2. coarse2 = Progressive!Trunc(v2, c + k)
      BY <1>5
    <3> HIDE DEF coarse2, fine2, y
    <3> QED BY <3>1, <3>2
  <2>3. y = x2
    BY <2>1
  <2>4. w \in Nat \ {0} /\ Progressive!Weight[k] \in Nat \ {0}
    BY <1>5, Weights, Zenon
  <2>5. v2 = 0 => x2 = 0
    <3> DEFINE z == Progressive!Weight[k]
    <3> HIDE DEF w, z
    <3> QED BY <2>4 DEF z
  <2> HIDE DEF y, x2, w, coarse2, fine2
  <2>6. Progressive!Sign(v2) * x2 = x2
    BY <2>1, <2>2, <2>3, <2>5
  <2> QED BY <2>2, <2>3, <2>6
<1>9. /\ coarse1 \in Int /\ coarse2 \in Int /\ fine1 \in Int /\ fine2 \in Int
      /\ fine1 = Progressive!Kept(v1, c) * w
      /\ Progressive!Sign(Progressive!Kept(v1, c)) = Progressive!Sign(fine1)
      /\ coarse1 # 0 => Progressive!Sign(coarse1) = Progressive!Sign(v1)
      /\ fine1 # 0 => Progressive!Sign(fine1) = Progressive!Sign(v1)
  <2> HIDE DEF w, coarse1, coarse2, fine1, fine2
  <2>1. coarse1 \in Int /\ (coarse1 # 0 => Progressive!Sign(coarse1) = Progressive!Sign(v1))
    BY <1>4, KeptSigns, Zenon DEF coarse1
  <2>2. coarse2 \in Int
    BY <1>4, KeptSigns, Zenon DEF coarse2
  <2>3. fine2 \in Int
    BY <1>4, <1>5, KeptSigns, Zenon DEF fine2
  <2>4. /\ fine1 \in Int /\ fine1 = Progressive!Kept(v1, c) * w
        /\ Progressive!Sign(Progressive!Kept(v1, c)) = Progressive!Sign(fine1)
        /\ fine1 # 0 => Progressive!Sign(fine1) = Progressive!Sign(v1)
    BY <1>4, <1>5, KeptSigns, Zenon DEF fine1, w
  <2> QED BY <2>1, <2>2, <2>3, <2>4
<1>10. /\ tc.bits = s.bits /\ tc.hl = s.base[1] + coarse1 /\ tc.ll = s.base[2] + coarse2
       /\ tc.sign = Progressive!Sign(coarse1) /\ tc \in Kept
  BY <1>2, MeaningPair DEF Agrees, v1, v2
<1>11. Progressive!Ensured(tc) = tc
  BY <1>10, TilesPresent DEF Progressive!Ensured
<1> HIDE DEF d, m
<1> DEFINE sign == Progressive!Sign(fine1)
<1>12. /\ s.base[1] + coarse1 + (IF tc.sign # 0 THEN tc.sign * b.hl ELSE b.hl) * w
            = s.base[1] + fine1
       /\ (IF tc.sign # 0 THEN tc.sign ELSE Progressive!Sign(b.hl)) = sign
  <2>1. tc.sign # 0 <=> coarse1 # 0
    BY <1>9, <1>10 DEF Progressive!Sign
  <2> DEFINE h == Progressive!Kept(v1, c)
             sc == Progressive!Sign(coarse1)
             sv == Progressive!Sign(v1)
  <2>2. CASE coarse1 # 0
    <3>1. tc.sign # 0 /\ b.hl = x1 /\ tc.sign = sv /\ sign = sv
      BY <1>3, <1>7, <1>9, <1>10, <2>1, <2>2
    <3>2. w \in Nat /\ sv \in Int
      <4>1. w \in Nat \ {0}
        BY <1>5, Weights, Zenon
      <4>2. sv \in Int
        BY <1>4 DEF Progressive!Sign
      <4> HIDE DEF w
      <4> QED BY <4>1, <4>2
    <3> HIDE DEF w, sc, sv, h, x1, coarse1, fine1, sign
    <3>3. coarse1 + (sv * x1) * w = fine1
      BY <1>7 DEF sv
    <3>4. s.base[1] + coarse1 + (sv * x1) * w = s.base[1] + fine1
      BY <1>4, <1>7, <1>9, <3>2, <3>3
    <3> QED BY <3>1, <3>4
  <2>3. CASE coarse1 = 0
    <3>1. tc.sign = 0 /\ b.hl = h
      BY <1>3, <2>1, <2>3 DEF v1
    <3> HIDE DEF w, h, sc, sv, coarse1, fine1
    <3>2. s.base[1] + coarse1 + h * w = s.base[1] + fine1
      BY <1>4, <1>9, <2>3 DEF h
    <3>3. Progressive!Sign(b.hl) = Progressive!Sign(fine1)
      BY <1>9, <3>1 DEF h
    <3> QED BY <3>1, <3>2, <3>3
  <2> QED BY <2>2, <2>3
<1>13. d = [hl |-> s.base[1] + fine1, ll |-> s.base[2] + fine2, sign |-> sign,
            bits |-> c, pixels |-> <<s.base[1] + fine1, s.base[2] + fine2>>]
  <2> DEFINE n == IF tc.bits > b.bits THEN tc.bits - b.bits ELSE 0
  <2>1. n # 0
    BY <1>5, <1>10
  <2>2. s.base[2] + coarse2 + x2 * w = s.base[2] + fine2
    <3>1. w \in Nat
      BY <1>5, Weights
    <3> HIDE DEF w, x2, coarse2, fine2
    <3> QED BY <1>4, <1>8, <1>9, <3>1
  <2>3. d = [hl |-> tc.hl + (IF tc.sign # 0 THEN tc.sign * b.hl ELSE b.hl) * w,
             ll |-> tc.ll + b.ll * w,
             sign |-> IF tc.sign # 0 THEN tc.sign ELSE Progressive!Sign(b.hl),
             bits |-> c,
             pixels |-> <<tc.hl + (IF tc.sign # 0 THEN tc.sign * b.hl ELSE b.hl) * w,
                          tc.ll + b.ll * w>>]
    <3> HIDE DEF x1, x2, coarse1, coarse2, fine1, fine2
    <3>1. d = Progressive!TileUpgrade(tc, b)
      BY <1>3, <1>11 DEF d, Progressive!Decoded
    <3> QED BY <2>1, <3>1 DEF Progressive!TileUpgrade
  <2> HIDE DEF n, w, x1, x2, coarse1, coarse2, fine1, fine2, sign
  <2> QED BY <1>3, <1>10, <1>12, <2>2, <2>3
<1>14. Agrees(d, m)
  <2> HIDE DEF w, x1, x2, coarse1, coarse2
  <2>1. Progressive!Meaning(m) = <<s.base[1] + fine1, s.base[2] + fine2>>
    BY <1>6 DEF Progressive!Meaning, v1, v2
  <2>2. Progressive!Sign(Progressive!Trunc(m.diff[1], m.bits)) = sign
    BY <1>6 DEF v1
  <2>3. sign \in Int
    BY <1>9 DEF Progressive!Sign
  <2> HIDE DEF fine1, fine2, sign
  <2>4. d \in Kept
    BY <1>4, <1>5, <1>9, <1>13, <2>3 DEF Kept
  <2> QED BY <1>6, <1>13, <2>1, <2>2, <2>4 DEF Agrees
<1> QED BY <1>3, <1>6, <1>14 DEF Fits, m, d

\* What is known while the blocks of a region are decoded: a tile with no block to come
\* is known, the others have blocks that fit; what a tile's last block made is its meaning.
Pending(j) == results[j] = Progressive!Absent
LastOfTile(j) == \A i \in DOMAIN jobs : jobs[i].tile = jobs[j].tile => i <= j

RegionShape ==
    /\ Len(jobs) \in 0 .. 2 /\ DOMAIN jobs = 1 .. Len(jobs) /\ DOMAIN results = DOMAIN jobs
    /\ \A j \in DOMAIN jobs : jobs[j].tile \in Tiles /\ jobs[j].means \in Meant
    /\ \A i, j \in DOMAIN jobs : i < j /\ jobs[i].tile = jobs[j].tile =>
         /\ Len(jobs) < ParallelAt
         /\ Pending(i) => Pending(j)
    /\ rects \subseteq Progressive!Cells /\ (jobs = <<>> => rects = {})
    /\ DOMAIN coeffs = Tiles /\ DOMAIN encoder = Tiles
    /\ surface = [c \in Progressive!Cells |-> surface[c]]
    /\ meant = [c \in Progressive!Cells |-> meant[c]]

TilesKnown ==
    \A t \in Tiles :
      (\A j \in DOMAIN jobs : jobs[j].tile = t => ~Pending(j)) => Known(coeffs[t], encoder[t])

JobsFit ==
    \A j \in DOMAIN jobs :
      /\ Pending(j) /\ (\A i \in DOMAIN jobs : i < j /\ jobs[i].tile = jobs[j].tile => ~Pending(i))
           => Fits(coeffs[jobs[j].tile], jobs[j])
      /\ \A i \in DOMAIN jobs : i < j /\ jobs[i].tile = jobs[j].tile /\ Pending(i) =>
           Fits(Progressive!Decoded(coeffs[jobs[j].tile], jobs[i]), jobs[j])
      /\ LastOfTile(j) => /\ encoder[jobs[j].tile] = jobs[j].means
                          /\ ~Pending(j) => results[j] = Progressive!Meaning(jobs[j].means)

CellsShown ==
    \A c \in Progressive!Cells :
      IF c \in rects /\ encoder[c[1]] # Progressive!Absent
      THEN meant[c] = Progressive!Meaning(encoder[c[1]]) ELSE surface[c] = meant[c]

ProgressiveInv == RegionShape /\ TilesKnown /\ JobsFit /\ CellsShown

\* A block or two, in a row.
LEMMA BlocksInRow ==
    ASSUME NEW b, NEW c
    PROVE  /\ Len(<<b>> \o <<>>) = 1 /\ DOMAIN (<<b>> \o <<>>) = 1 .. 1 /\ (<<b>> \o <<>>)[1] = b
           /\ Len(<<b>> \o <<c>>) = 2 /\ DOMAIN (<<b>> \o <<c>>) = 1 .. 2
           /\ (<<b>> \o <<c>>)[1] = b /\ (<<b>> \o <<c>>)[2] = c
<1>1. <<b>> \in Seq({b, c}) /\ <<c>> \in Seq({b, c}) /\ <<>> \in Seq({b, c})
  OBVIOUS
<1>2. /\ Len(<<b>> \o <<>>) = 1 /\ (<<b>> \o <<>>)[1] = b /\ DOMAIN (<<b>> \o <<>>) = 1 .. 1
  BY <1>1
<1>3. /\ Len(<<b>> \o <<c>>) = 2 /\ DOMAIN (<<b>> \o <<c>>) = 1 .. 2
      /\ (<<b>> \o <<c>>)[1] = b /\ (<<b>> \o <<c>>)[2] = c
  BY <1>1
<1> QED BY <1>2, <1>3

\* The client starts with no tile and the server's surface.
LEMMA ProgressiveStarts == Progressive!Init => ProgressiveInv
<1> SUFFICES ASSUME Progressive!Init PROVE ProgressiveInv
  OBVIOUS
<1>1. /\ encoder = [t \in Tiles |-> Progressive!Absent]
      /\ coeffs = [t \in Tiles |-> Progressive!Absent]
      /\ jobs = <<>> /\ results = <<>> /\ rects = {}
      /\ surface = [c \in Progressive!Cells |-> Progressive!NoPixels] /\ meant = surface
  BY DEF Progressive!Init
<1>2. Len(jobs) = 0 /\ DOMAIN jobs = {} /\ DOMAIN results = {} /\ 1 .. 0 = {}
  BY <1>1
<1>3. RegionShape
  BY <1>1, <1>2 DEF RegionShape
<1>4. TilesKnown
  BY <1>1 DEF TilesKnown, Known
<1>5. JobsFit
  BY <1>2 DEF JobsFit
<1>6. CellsShown
  BY <1>1 DEF CellsShown
<1> QED BY <1>3, <1>4, <1>5, <1>6 DEF ProgressiveInv

\* A region sent: each block fits the tile kept, or what the block before makes of it.
LEMMA RegionSent ==
    ASSUME ProgressiveInv, Repeats => ParallelAt > 2, Progressive!Region
    PROVE  ProgressiveInv'
<1> USE UpdatesAssumption DEF UpdatesAssumption
<1>1. PICK t \in Tiles : Progressive!Region!2!(t)
  BY Zenon DEF Progressive!Region
<1>2. PICK b \in Progressive!Whole(t) \cup Progressive!Upgrades(t, encoder[t]) :
           Progressive!Region!2!(t)!(b)
  BY <1>1, Zenon
<1> DEFINE both == UNION {IF u = t THEN IF Repeats THEN Progressive!Upgrades(t, b.means) ELSE {}
                          ELSE Progressive!Whole(u) \cup Progressive!Upgrades(u, encoder[u])
                          : u \in Tiles}
<1>3. PICK more \in {<<>>} \cup (IF blocks + 2 > MaxBlocks THEN {} ELSE {<<c>> : c \in both}) :
           Progressive!Region!2!(t)!(b)!(more)
  BY <1>2, Zenon
<1>11. PICK shown1 \in {{<<t, "left">>, <<t, "right">>}, Progressive!Middle} :
           Progressive!Region!2!(t)!(b)!(more)!(shown1)
  BY <1>3, Zenon
<1>12. /\ jobs' = <<b>> \o more
       /\ results' = [j \in 1 .. Len(<<b>> \o more) |-> Progressive!Absent]
       /\ rects' = shown1
       /\ encoder' = IF more = <<>> THEN [encoder EXCEPT ![t] = b.means]
                     ELSE [encoder EXCEPT ![t] = b.means, ![more[1].tile] = more[1].means]
       /\ meant' = [c \in Progressive!Cells |->
            IF c \in shown1 /\ encoder'[c[1]] # Progressive!Absent
            THEN Progressive!Meaning(encoder'[c[1]]) ELSE meant[c]]
  BY <1>11
<1>4. /\ jobs = <<>> /\ UNCHANGED <<coeffs, surface>>
      /\ DOMAIN jobs = {} /\ rects = {}
      /\ DOMAIN coeffs = Tiles /\ DOMAIN encoder = Tiles
      /\ surface = [c \in Progressive!Cells |-> surface[c]]
      /\ surface = meant
  BY DEF Progressive!Region, ProgressiveInv, RegionShape, CellsShown
<1>5. \A u \in Tiles : Known(coeffs[u], encoder[u])
  BY <1>4 DEF ProgressiveInv, TilesKnown
<1>6. \A u \in Tiles : \A c \in Progressive!Whole(u) \cup Progressive!Upgrades(u, encoder[u]) :
         Fits(coeffs[u], c) /\ c.tile = u /\ c.means \in Meant
  BY <1>5, WholeFits, UpgradeFits
<1>7. rects' \subseteq Progressive!Cells
  <2>1. <<t, "left">> \in Progressive!Cells /\ <<t, "right">> \in Progressive!Cells
    BY DEF Progressive!Cells
  <2>2. Progressive!Middle \subseteq Progressive!Cells
    BY Zenon DEF Progressive!Middle
  <2> QED BY <1>12, <2>1, <2>2
<1>8. Fits(coeffs[t], b) /\ b.tile = t /\ b.means \in Meant
  BY <1>6
<1>9. CASE more = <<>>
  <2>1. /\ jobs' # <<>> /\ Len(jobs') = 1 /\ DOMAIN jobs' = {1} /\ jobs'[1] = b
        /\ 1 .. 1 = {1}
    BY <1>12, <1>9, BlocksInRow
  <2>2. results' = [j \in {1} |-> Progressive!Absent]
    BY <1>12, <1>9, <2>1
  <2>3. encoder' = [encoder EXCEPT ![t] = b.means]
    BY <1>12, <1>9
  <2>4. RegionShape'
    BY <1>12, <1>4, <1>7, <1>8, <2>1, <2>2, <2>3 DEF RegionShape
  <2>5. TilesKnown'
    BY <1>4, <1>5, <1>8, <2>1, <2>2, <2>3 DEF TilesKnown, Pending
  <2>6. JobsFit'
    BY <1>4, <1>8, <2>1, <2>2, <2>3 DEF JobsFit, Pending, LastOfTile
  <2>7. CellsShown'
    BY <1>12, <1>4 DEF CellsShown
  <2> QED BY <2>4, <2>5, <2>6, <2>7 DEF ProgressiveInv
<1>10. CASE more # <<>>
  <2>1. PICK c \in both : more = <<c>>
    BY <1>3, <1>10
  <2>2. PICK u \in Tiles :
          c \in IF u = t THEN IF Repeats THEN Progressive!Upgrades(t, b.means) ELSE {}
                ELSE Progressive!Whole(u) \cup Progressive!Upgrades(u, encoder[u])
    BY <2>1, Zenon
  <2> HIDE DEF both
  <2>3. \/ /\ u # t /\ Fits(coeffs[u], c)
        \/ /\ u = t /\ ParallelAt > 2
           /\ Fits(Progressive!Decoded(coeffs[t], b), c)
    <3>1. CASE u # t
      BY <1>6, <2>2, <3>1
    <3>2. CASE u = t
      <4>1. Repeats /\ c \in Progressive!Upgrades(t, b.means)
        BY <2>2, <3>2
      <4>2. Known(Progressive!Decoded(coeffs[t], b), b.means)
        BY <1>8 DEF Fits, Known
      <4>3. Fits(Progressive!Decoded(coeffs[t], b), c)
        BY <4>1, <4>2, UpgradeFits
      <4> QED BY <3>2, <4>1, <4>3
    <3> QED BY <3>1, <3>2
  <2>4. c.tile = u /\ c.means \in Meant
    <3>1. CASE u # t
      BY <1>6, <2>2, <3>1
    <3>2. CASE u = t
      <4>1. c \in Progressive!Upgrades(t, b.means)
        BY <2>2, <3>2
      <4>2. Known(Progressive!Decoded(coeffs[t], b), b.means)
        BY <1>8 DEF Fits, Known
      <4> QED BY <3>2, <4>1, <4>2, UpgradeFits
    <3> QED BY <3>1, <3>2
  <2>5. more[1] = c
    BY <2>1
  <2>6. /\ jobs' # <<>> /\ Len(jobs') = 2 /\ DOMAIN jobs' = 1 .. 2
        /\ jobs'[1] = b /\ jobs'[2] = c /\ 1 .. 2 = {1, 2}
    BY <1>12, <2>1, BlocksInRow
  <2>7. results' = [j \in {1, 2} |-> Progressive!Absent]
    BY <1>12, <2>1, <2>6
  <2>8. encoder' = [encoder EXCEPT ![t] = b.means, ![u] = c.means]
    BY <1>12, <1>10, <2>4, <2>5
  <2>9. RegionShape'
    BY <1>12, <1>4, <1>7, <1>8, <2>3, <2>4, <2>6, <2>7, <2>8 DEF RegionShape, Pending
  <2>10. TilesKnown'
    BY <1>4, <1>5, <1>8, <2>4, <2>6, <2>7, <2>8 DEF TilesKnown, Pending
  <2>11. JobsFit'
    BY <1>4, <1>8, <2>3, <2>4, <2>6, <2>7, <2>8 DEF JobsFit, Pending, LastOfTile
  <2>12. CellsShown'
    BY <1>12, <1>4 DEF CellsShown
  <2> QED BY <2>9, <2>10, <2>11, <2>12 DEF ProgressiveInv
<1> QED BY <1>9, <1>10

\* A block decoded makes of its tile what the server means by it, and leaves the others.
LEMMA BlockDecoded == ProgressiveInv /\ Progressive!Decode => ProgressiveInv'
<1> SUFFICES ASSUME ProgressiveInv, Progressive!Decode PROVE ProgressiveInv'
  OBVIOUS
<1>1. PICK j \in DOMAIN jobs :
        /\ results[j] = Progressive!Absent /\ Progressive!MayDecode(j)
        /\ coeffs' = [coeffs EXCEPT ![jobs[j].tile] =
                        Progressive!Decoded(coeffs[jobs[j].tile], jobs[j])]
        /\ results' = [results EXCEPT ![j] =
                        Progressive!Decoded(coeffs[jobs[j].tile], jobs[j]).pixels]
        /\ UNCHANGED <<encoder, jobs, rects, surface, meant>>
  BY DEF Progressive!Decode
<1> DEFINE t == jobs[j].tile
           tc == Progressive!Decoded(coeffs[t], jobs[j])
<1>2. /\ Len(jobs) \in 0 .. 2 /\ DOMAIN jobs = 1 .. Len(jobs) /\ DOMAIN results = DOMAIN jobs
      /\ \A i \in DOMAIN jobs : jobs[i].tile \in Tiles /\ jobs[i].means \in Meant
      /\ \A i, k \in DOMAIN jobs : i < k /\ jobs[i].tile = jobs[k].tile =>
           /\ Len(jobs) < ParallelAt
           /\ Pending(i) => Pending(k)
      /\ DOMAIN coeffs = Tiles
  BY DEF ProgressiveInv, RegionShape
<1>3. \A i \in DOMAIN jobs : i < j /\ jobs[i].tile = t => ~Pending(i)
  <2> SUFFICES ASSUME NEW i \in DOMAIN jobs, i < j, jobs[i].tile = t PROVE ~Pending(i)
    OBVIOUS
  <2>1. Len(jobs) < ParallelAt
    BY <1>2
  <2>2. i \in 1 .. j - 1
    BY <1>2
  <2> QED BY <1>1, <2>1, <2>2 DEF Progressive!MayDecode, Pending
<1>4. Fits(coeffs[t], jobs[j])
  BY <1>1, <1>3 DEF ProgressiveInv, JobsFit, Pending
<1>5. Agrees(tc, jobs[j].means)
  BY <1>4 DEF Fits
<1> HIDE DEF tc
<1>6. /\ tc.pixels = Progressive!Meaning(jobs[j].means)
      /\ tc.pixels # Progressive!Absent
  <2>1. tc.pixels = Progressive!Meaning(jobs[j].means) /\ jobs[j].means \in Meant
    BY <1>5 DEF Agrees
  <2>2. \E x, y \in Int : tc.pixels = <<x, y>>
    BY <2>1, MeaningPair
  <2> QED BY <2>1, <2>2 DEF Progressive!Absent
<1>7. /\ \A u \in Tiles : coeffs'[u] = IF u = t THEN tc ELSE coeffs[u]
      /\ \A i \in DOMAIN jobs : results'[i] = IF i = j THEN tc.pixels ELSE results[i]
      /\ DOMAIN coeffs' = Tiles /\ DOMAIN results' = DOMAIN jobs
      /\ UNCHANGED <<encoder, jobs, rects, surface, meant>>
  BY <1>1, <1>2 DEF tc
<1>8. \A i \in DOMAIN jobs : Pending(i)' <=> Pending(i) /\ i # j
  BY <1>6, <1>7 DEF Pending
<1> HIDE DEF t
<1>9. t \in Tiles /\ jobs[j].tile = t
  BY <1>2 DEF t
<1>10. RegionShape'
  <2>1. ASSUME NEW i \in DOMAIN jobs, NEW k \in DOMAIN jobs, i < k, jobs[i].tile = jobs[k].tile
        PROVE  Pending(i)' => Pending(k)'
    BY <1>2, <1>3, <1>8, <1>9, <2>1
  <2> QED BY <1>2, <1>7, <2>1 DEF ProgressiveInv, RegionShape
<1>11. TilesKnown'
  <2> SUFFICES ASSUME NEW u \in Tiles,
                      \A i \in DOMAIN jobs : jobs[i].tile = u => ~Pending(i)'
               PROVE  Known(coeffs'[u], encoder[u])
    BY <1>7 DEF TilesKnown
  <2>1. CASE u # t
    <3>1. \A i \in DOMAIN jobs : jobs[i].tile = u => ~Pending(i)
      BY <1>8, <1>9, <2>1
    <3>2. Known(coeffs[u], encoder[u])
      BY <3>1 DEF ProgressiveInv, TilesKnown
    <3> QED BY <1>7, <2>1, <3>2
  <2>2. CASE u = t
    <3>1. LastOfTile(j)
      <4> SUFFICES ASSUME NEW i \in DOMAIN jobs, jobs[i].tile = t, i > j PROVE FALSE
        BY <1>2, <1>9 DEF LastOfTile
      <4>1. Pending(i)
        BY <1>1, <1>2, <1>9 DEF Pending
      <4>2. ~Pending(i)'
        BY <2>2
      <4>3. i = j
        BY <1>8, <4>1, <4>2
      <4> QED BY <1>2, <4>3
    <3>2. encoder[t] = jobs[j].means
      BY <1>9, <3>1 DEF ProgressiveInv, JobsFit
    <3>3. coeffs'[t] = tc
      BY <1>7, <1>9
    <3> QED BY <1>5, <2>2, <3>2, <3>3 DEF Known
  <2> QED BY <2>1, <2>2
<1>12. JobsFit'
  <2> SUFFICES ASSUME NEW k \in DOMAIN jobs
               PROVE  /\ Pending(k)' /\ (\A i \in DOMAIN jobs :
                                           i < k /\ jobs[i].tile = jobs[k].tile => ~Pending(i)')
                           => Fits(coeffs'[jobs[k].tile], jobs[k])
                      /\ \A i \in DOMAIN jobs :
                           i < k /\ jobs[i].tile = jobs[k].tile /\ Pending(i)' =>
                             Fits(Progressive!Decoded(coeffs'[jobs[k].tile], jobs[i]), jobs[k])
                      /\ LastOfTile(k) =>
                           /\ encoder[jobs[k].tile] = jobs[k].means
                           /\ ~Pending(k)' =>
                                results'[k] = Progressive!Meaning(jobs[k].means)
    BY <1>7 DEF JobsFit, LastOfTile
  <2>1. ASSUME Pending(k)', \A i \in DOMAIN jobs :
                              i < k /\ jobs[i].tile = jobs[k].tile => ~Pending(i)'
        PROVE  Fits(coeffs'[jobs[k].tile], jobs[k])
    <3>1. Pending(k) /\ k # j
      BY <1>8, <2>1
    <3>2. CASE jobs[k].tile = t
      <4>1. j < k
        <5>1. ~(k < j)
          BY <1>3, <3>1, <3>2
        <5> QED BY <1>2, <3>1, <5>1
      <4>2. Pending(j)
        BY <1>1 DEF Pending
      <4>3. Fits(Progressive!Decoded(coeffs[t], jobs[j]), jobs[k])
        BY <1>9, <3>2, <4>1, <4>2 DEF ProgressiveInv, JobsFit
      <4>4. coeffs'[t] = Progressive!Decoded(coeffs[t], jobs[j])
        BY <1>7, <1>9 DEF tc
      <4> QED BY <3>2, <4>3, <4>4
    <3>3. CASE jobs[k].tile # t
      <4>1. \A i \in DOMAIN jobs : i < k /\ jobs[i].tile = jobs[k].tile => ~Pending(i)
        BY <1>8, <1>9, <2>1, <3>3
      <4>2. Fits(coeffs[jobs[k].tile], jobs[k])
        BY <3>1, <4>1 DEF ProgressiveInv, JobsFit
      <4>3. coeffs'[jobs[k].tile] = coeffs[jobs[k].tile]
        BY <1>2, <1>7, <3>3
      <4> QED BY <4>2, <4>3
    <3> QED BY <3>2, <3>3
  <2>2. ASSUME NEW i \in DOMAIN jobs, i < k, jobs[i].tile = jobs[k].tile, Pending(i)'
        PROVE  Fits(Progressive!Decoded(coeffs'[jobs[k].tile], jobs[i]), jobs[k])
    <3>1. Pending(i) /\ i # j
      BY <1>8, <2>2
    <3>2. Fits(Progressive!Decoded(coeffs[jobs[k].tile], jobs[i]), jobs[k])
      BY <2>2, <3>1 DEF ProgressiveInv, JobsFit
    <3>3. jobs[k].tile # t
      <4> SUFFICES ASSUME jobs[k].tile = t PROVE FALSE
        OBVIOUS
      <4>1. ~(i < j)
        BY <1>3, <2>2, <3>1
      <4>2. i = 2 /\ k > 2
        BY <1>2, <2>2, <3>1, <4>1
      <4> QED BY <1>2, <4>2
    <3>4. coeffs'[jobs[k].tile] = coeffs[jobs[k].tile]
      BY <1>2, <1>7, <3>3
    <3> QED BY <3>2, <3>4
  <2>3. ASSUME LastOfTile(k)
        PROVE  /\ encoder[jobs[k].tile] = jobs[k].means
               /\ ~Pending(k)' => results'[k] = Progressive!Meaning(jobs[k].means)
    <3>1. /\ encoder[jobs[k].tile] = jobs[k].means
          /\ ~Pending(k) => results[k] = Progressive!Meaning(jobs[k].means)
      BY <2>3 DEF ProgressiveInv, JobsFit
    <3> QED BY <1>6, <1>7, <1>8, <3>1
  <2> QED BY <2>1, <2>2, <2>3
<1>13. CellsShown'
  BY <1>7 DEF ProgressiveInv, CellsShown
<1> QED BY <1>10, <1>11, <1>12, <1>13 DEF ProgressiveInv

\* What the region uncovers is drawn from what its blocks made, or from what was kept.
LEMMA RegionShown == ProgressiveInv /\ Progressive!Blit => ProgressiveInv'
<1> SUFFICES ASSUME ProgressiveInv, Progressive!Blit PROVE ProgressiveInv'
  OBVIOUS
<1>1. /\ \A j \in DOMAIN jobs : ~Pending(j)
      /\ surface' = [c \in Progressive!Cells |->
           IF c \notin rects THEN surface[c]
           ELSE IF Progressive!DecodedNow(c[1]) THEN Progressive!Last(c[1])
           ELSE IF Progressive!FromCache(c[1]) THEN coeffs[c[1]].pixels
           ELSE surface[c]]
      /\ jobs' = <<>> /\ results' = <<>> /\ rects' = {}
      /\ UNCHANGED <<encoder, coeffs, meant>>
  BY DEF Progressive!Blit, Pending
<1>2. Len(jobs') = 0 /\ DOMAIN jobs' = {} /\ DOMAIN results' = {} /\ 1 .. 0 = {}
  BY <1>1
<1>3. \A t \in Tiles : Known(coeffs[t], encoder[t])
  BY <1>1 DEF ProgressiveInv, TilesKnown
<1>4. RegionShape'
  <2>1. /\ DOMAIN coeffs' = Tiles /\ DOMAIN encoder' = Tiles
        /\ meant' = [c \in Progressive!Cells |-> meant'[c]]
    BY <1>1 DEF ProgressiveInv, RegionShape
  <2>2. surface' = [c \in Progressive!Cells |-> surface'[c]]
    BY <1>1
  <2> QED BY <1>1, <1>2, <2>1, <2>2 DEF RegionShape
<1>5. TilesKnown'
  BY <1>1, <1>3 DEF TilesKnown
<1>6. JobsFit'
  BY <1>2 DEF JobsFit
<1>7. CellsShown'
  <2> SUFFICES ASSUME NEW c \in Progressive!Cells PROVE surface'[c] = meant[c]
    BY <1>1 DEF CellsShown
  <2>1. c[1] \in Tiles
    BY DEF Progressive!Cells
  <2> DEFINE t == c[1]
  <2>2. IF c \in rects /\ encoder[t] # Progressive!Absent
        THEN meant[c] = Progressive!Meaning(encoder[t]) ELSE surface[c] = meant[c]
    BY DEF ProgressiveInv, CellsShown
  <2>3. surface'[c] = IF c \notin rects THEN surface[c]
           ELSE IF Progressive!DecodedNow(t) THEN Progressive!Last(t)
           ELSE IF Progressive!FromCache(t) THEN coeffs[t].pixels
           ELSE surface[c]
    BY <1>1
  <2> HIDE DEF t
  <2>4. CASE c \notin rects
    BY <2>2, <2>3, <2>4
  <2>5. CASE c \in rects /\ Progressive!DecodedNow(t)
    <3> DEFINE js == {j \in DOMAIN jobs : jobs[j].tile = t}
               k == CHOOSE j \in js : \A i \in js : i <= j
    <3>1. \E j \in js : \A i \in js : i <= j
      <4>1. js # {} /\ js \subseteq {1, 2}
        BY <2>5 DEF Progressive!DecodedNow, ProgressiveInv, RegionShape
      <4> HIDE DEF js
      <4>2. CASE 2 \in js
        BY <4>1, <4>2
      <4>3. CASE 2 \notin js
        <5>1. js = {1}
          BY <4>1, <4>3
        <5> QED BY <5>1
      <4> QED BY <4>2, <4>3
    <3>2. k \in js /\ \A i \in js : i <= k
      <4> HIDE DEF js
      <4> QED BY <3>1
    <3>3. Progressive!Last(t) = results[k]
      BY DEF Progressive!Last
    <3> HIDE DEF k
    <3>4. k \in DOMAIN jobs /\ jobs[k].tile = t /\ LastOfTile(k)
      BY <3>2 DEF LastOfTile
    <3>5. encoder[t] = jobs[k].means /\ results[k] = Progressive!Meaning(jobs[k].means)
      BY <1>1, <3>4 DEF ProgressiveInv, JobsFit
    <3>6. jobs[k].means \in Meant
      BY <3>4 DEF ProgressiveInv, RegionShape
    <3>7. encoder[t] # Progressive!Absent
      BY <3>5, <3>6, TilesPresent
    <3> HIDE DEF js
    <3> QED BY <2>2, <2>3, <2>5, <3>3, <3>5, <3>7
  <2>6. CASE c \in rects /\ ~Progressive!DecodedNow(t) /\ Progressive!FromCache(t)
    <3>1. Agrees(coeffs[t], encoder[t])
      BY <1>3, <2>1, <2>6 DEF Known, Progressive!FromCache, t
    <3>2. encoder[t] # Progressive!Absent /\ coeffs[t].pixels = Progressive!Meaning(encoder[t])
      BY <3>1, TilesPresent DEF Agrees
    <3> QED BY <2>2, <2>3, <2>6, <3>2
  <2>7. CASE c \in rects /\ ~Progressive!DecodedNow(t) /\ ~Progressive!FromCache(t)
    <3>1. encoder[t] = Progressive!Absent
      BY <1>3, <2>1, <2>7, TilesPresent DEF Known, Agrees, Progressive!FromCache, t
    <3> QED BY <2>2, <2>3, <2>7, <3>1
  <2> QED BY <2>4, <2>5, <2>6, <2>7
<1> QED BY <1>4, <1>5, <1>6, <1>7 DEF ProgressiveInv

\* The tiles kept go with the surface, on both sides.
LEMMA TilesCleared == ProgressiveInv /\ Progressive!Clear => ProgressiveInv'
<1> SUFFICES ASSUME ProgressiveInv, Progressive!Clear PROVE ProgressiveInv'
  OBVIOUS
<1>1. /\ jobs = <<>> /\ UNCHANGED <<jobs, results, rects>>
      /\ coeffs' = [t \in Tiles |-> Progressive!Absent]
      /\ encoder' = [t \in Tiles |-> Progressive!Absent]
      /\ surface' = [c \in Progressive!Cells |-> Progressive!NoPixels] /\ meant' = surface'
  BY DEF Progressive!Clear, Progressive!Cleared
<1>2. DOMAIN jobs = {} /\ Len(jobs) = 0
  BY <1>1
<1>3. RegionShape'
  BY <1>1, <1>2 DEF ProgressiveInv, RegionShape
<1>4. TilesKnown'
  BY <1>1 DEF TilesKnown, Known
<1>5. JobsFit'
  BY <1>1, <1>2 DEF JobsFit
<1>6. CellsShown'
  <2>1. rects' = {}
    BY <1>1 DEF ProgressiveInv, RegionShape
  <2> QED BY <1>1, <2>1 DEF CellsShown
<1> QED BY <1>3, <1>4, <1>5, <1>6 DEF ProgressiveInv

\* Between two regions the client keeps every tile to the bits the server refines it from,
\* and shows what the server means (decodeTileData, decodeTileUpgrade, decodeRegion), as
\* long as a region that names a tile twice is decoded in order.
THEOREM TilesAlwaysFaithful ==
    ASSUME Repeats => ParallelAt > 2
    PROVE  MCSpec => []TilesFaithful
<1>1. MCInit => ProgressiveInv
  BY ProgressiveStarts DEF MCInit
<1>2. ProgressiveInv /\ [MCNext]_mcVars => ProgressiveInv'
  <2> SUFFICES ASSUME ProgressiveInv, [MCNext]_mcVars PROVE ProgressiveInv'
    OBVIOUS
  <2>1. Progressive!Next \/ UNCHANGED progressiveVars
    BY DEF MCNext, mcVars
  <2>2. CASE UNCHANGED progressiveVars
    <3>1. UNCHANGED <<encoder, coeffs, jobs, results, rects, surface, meant>>
      BY <2>2 DEF progressiveVars
    <3>2. RegionShape'
      BY <3>1 DEF ProgressiveInv, RegionShape, Pending
    <3>3. TilesKnown'
      BY <3>1 DEF ProgressiveInv, TilesKnown, Pending
    <3>4. JobsFit'
      BY <3>1 DEF ProgressiveInv, JobsFit, Pending, LastOfTile
    <3>5. CellsShown'
      BY <3>1 DEF ProgressiveInv, CellsShown
    <3> QED BY <3>2, <3>3, <3>4, <3>5 DEF ProgressiveInv
  <2> QED BY <2>1, <2>2, RegionSent, BlockDecoded, RegionShown, TilesCleared
          DEF Progressive!Next
<1>3. ProgressiveInv => TilesFaithful
  <2> SUFFICES ASSUME ProgressiveInv, jobs = <<>>
               PROVE  /\ \A t \in Tiles : encoder[t] # Progressive!Absent =>
                           /\ coeffs[t] # Progressive!Absent
                           /\ coeffs[t].bits = encoder[t].bits
                           /\ <<coeffs[t].hl, coeffs[t].ll>> = Progressive!Meaning(encoder[t])
                           /\ coeffs[t].sign =
                                Progressive!Sign(Progressive!Trunc(encoder[t].diff[1],
                                                                   encoder[t].bits))
                      /\ surface = meant
    BY DEF TilesFaithful, Progressive!TilesFaithful, Progressive!CoefficientsAgree,
           Progressive!TilesShown
  <2>1. ASSUME NEW t \in Tiles, encoder[t] # Progressive!Absent
        PROVE  /\ coeffs[t] # Progressive!Absent
               /\ coeffs[t].bits = encoder[t].bits
               /\ <<coeffs[t].hl, coeffs[t].ll>> = Progressive!Meaning(encoder[t])
               /\ coeffs[t].sign = Progressive!Sign(Progressive!Trunc(encoder[t].diff[1],
                                                                     encoder[t].bits))
    <3>1. Known(coeffs[t], encoder[t])
      BY DEF ProgressiveInv, TilesKnown
    <3>2. Agrees(coeffs[t], encoder[t])
      BY <2>1, <3>1 DEF Known
    <3>3. coeffs[t] # Progressive!Absent
      BY <3>2, TilesPresent DEF Agrees
    <3>4. Progressive!Meaning(encoder[t]) \in Int \X Int
      BY <3>2, MeaningPair DEF Agrees
    <3> QED BY <3>2, <3>3, <3>4 DEF Agrees
  <2>2. surface = meant
    <3>1. rects = {} /\ surface = [c \in Progressive!Cells |-> surface[c]]
          /\ meant = [c \in Progressive!Cells |-> meant[c]]
      BY DEF ProgressiveInv, RegionShape
    <3>2. \A c \in Progressive!Cells : surface[c] = meant[c]
      BY <3>1 DEF ProgressiveInv, CellsShown
    <3> QED BY <3>1, <3>2
  <2> QED BY <2>1, <2>2
<1> QED BY <1>1, <1>2, <1>3, PTL DEF MCSpec

\* The decoders that keep state from one update to the next show what the server means,
\* with the progressive regions decoded as above (progressive.go, zgfx.go, clearcodec.go).
THEOREM DecodersAlwaysFaithful ==
    ASSUME Repeats => ParallelAt > 2
    PROVE  MCSpec => []DecodersFaithful
<1>1. TilesFaithful /\ ZgfxFaithful /\ ClearFaithful => DecodersFaithful
  BY DEF DecodersFaithful
<1> QED BY <1>1, TilesAlwaysFaithful, ZgfxAlwaysFaithful, ClearAlwaysFaithful, PTL

(***************************************************************************)
(* The drawing orders.  What is proved of painting is about one order and  *)
(* any two sides that agree.                                               *)
(***************************************************************************)
\* A rectangle of cells.
Rects == [x : Int, w : Int]

\* Clipping to the screen keeps the cells of the screen.
LEMMA ClippedCells ==
    ASSUME NEW r \in Rects, NEW p \in Int
    PROVE  /\ Orders!ClipFb(r) \in Rects /\ Orders!ClipFb(r).w <= r.w
           /\ Orders!In(p, Orders!ClipFb(r)) <=> p \in Orders!Cells /\ Orders!In(p, r)
<1> USE UpdatesAssumption DEF UpdatesAssumption
<1> DEFINE x == IF r.x < 0 THEN 0 ELSE r.x
           w == IF r.x < 0 THEN r.w + r.x ELSE r.w
           v == IF x + w > Width THEN Width - x ELSE w
<1>1. r.x \in Int /\ r.w \in Int
  BY DEF Rects
<1>2. Orders!ClipFb(r) = [x |-> x, w |-> v]
  BY DEF Orders!ClipFb, Orders!Rect
<1>3. x \in Int /\ w \in Int /\ v \in Int /\ v <= r.w
  BY <1>1
<1>4. x <= p /\ p < x + v <=> 0 <= p /\ p <= Width - 1 /\ r.x <= p /\ p < r.x + r.w
  BY <1>1
<1> HIDE DEF x, v
<1> QED BY <1>2, <1>3, <1>4 DEF Rects, Orders!In, Orders!Cells

\* Clipping to the bounds keeps the cells inside them.
LEMMA BoundedCells ==
    ASSUME NEW r \in Rects, NEW p \in Int, NEW b \in {Orders!Absent} \cup Orders!Ranges
    PROVE  /\ Orders!ClipTo(b, r) \in Rects /\ Orders!ClipTo(b, r).w <= r.w
           /\ Orders!ClipTo(b, r).x >= r.x
           /\ Orders!ClipTo(b, r).x + Orders!ClipTo(b, r).w <= r.x + r.w
           /\ Orders!In(p, Orders!ClipTo(b, r)) <=>
                Orders!In(p, r) /\ (b # Orders!Absent => p >= b.lo /\ p <= b.hi)
<1> USE UpdatesAssumption DEF UpdatesAssumption
<1>1. r.x \in Int /\ r.w \in Int
  BY DEF Rects
<1>2. CASE b = Orders!Absent
  BY <1>1, <1>2 DEF Orders!ClipTo
<1>3. CASE b # Orders!Absent
  <2> DEFINE x == IF r.x < b.lo THEN b.lo ELSE r.x
             w == r.w - (x - r.x)
             v == IF x + w > b.hi + 1 THEN b.hi + 1 - x ELSE w
  <2>1. b.lo \in Int /\ b.hi \in Int
    BY <1>3 DEF Orders!Ranges
  <2>2. Orders!ClipTo(b, r) = [x |-> x, w |-> v]
    BY <1>3 DEF Orders!ClipTo, Orders!Rect
  <2>3. x \in Int /\ v \in Int /\ v <= r.w /\ x >= r.x /\ x + v <= r.x + r.w
    BY <1>1, <2>1
  <2>4. x <= p /\ p < x + v <=> r.x <= p /\ p < r.x + r.w /\ p >= b.lo /\ p <= b.hi
    BY <1>1, <2>1
  <2> HIDE DEF x, v
  <2> QED BY <1>3, <2>2, <2>3, <2>4 DEF Rects, Orders!In
<1> QED BY <1>2, <1>3

\* The cells of an order.
LEMMA WholeCells ==
    ASSUME NEW left \in Int, NEW arg, NEW p \in Int
    PROVE  LET r == Orders!Whole([left |-> left, arg |-> arg]) IN
           /\ r \in Rects /\ r.x = left /\ r.w = Wide
           /\ Orders!In(p, r) <=> p - left \in Orders!Steps
BY UpdatesAssumption DEF UpdatesAssumption, Orders!Whole, Orders!Rect, Rects, Orders!In,
   Orders!Steps

\* A screen with ink on the cells of an order that its bounds let through.
Laid(screen, left, b, ink) ==
    [p \in Orders!Cells |->
       IF p - left \in Orders!Steps /\ (b # Orders!Absent => p >= b.lo /\ p <= b.hi)
       THEN ink[p] ELSE screen[p]]

OnCells(screen) == screen = [p \in Orders!Cells |-> screen[p]]

\* An order clipped to its bounds, to the screen and its bounds, or to the screen.
LEMMA ClippedOrder ==
    ASSUME NEW left \in Int, NEW arg, NEW b \in {Orders!Absent} \cup Orders!Ranges,
           NEW p \in Orders!Cells
    PROVE  LET f == [left |-> left, arg |-> arg]
               inside == p - left \in Orders!Steps
               within == b # Orders!Absent => p >= b.lo /\ p <= b.hi
               whole == Orders!Whole(f)
               r == Orders!ClipTo(b, whole)
               s == Orders!ClipFb(whole)
           IN  /\ Orders!In(p, whole) <=> inside
               /\ r \in Rects /\ r.x >= left /\ r.w <= Wide /\ r.x + r.w <= left + Wide
               /\ Orders!In(p, r) <=> inside /\ within
               /\ Orders!ClipFb(r) \in Rects /\ Orders!ClipFb(r).w <= Wide
               /\ Orders!In(p, Orders!ClipFb(r)) <=> inside /\ within
               /\ s \in Rects /\ (Orders!In(p, s) <=> inside)
               /\ Orders!ClipTo(b, s) \in Rects
               /\ Orders!In(p, Orders!ClipTo(b, s)) <=> inside /\ within
<1> DEFINE f == [left |-> left, arg |-> arg]
           whole == Orders!Whole(f)
           r == Orders!ClipTo(b, whole)
           s == Orders!ClipFb(whole)
           e == Orders!ClipFb(r)
           u == Orders!ClipTo(b, s)
           inside == p - left \in Orders!Steps
           within == b # Orders!Absent => p >= b.lo /\ p <= b.hi
<1>1. p \in Int
  BY UpdatesAssumption DEF UpdatesAssumption, Orders!Cells
<1>2. whole \in Rects /\ whole.x = left /\ whole.w = Wide /\ (Orders!In(p, whole) <=> inside)
  BY <1>1, WholeCells
<1> HIDE DEF whole, inside, within
<1>3. /\ r \in Rects /\ r.w <= whole.w /\ r.x >= whole.x /\ r.x + r.w <= whole.x + whole.w
      /\ Orders!In(p, r) <=> Orders!In(p, whole) /\ within
  BY <1>1, <1>2, BoundedCells DEF within
<1>4. s \in Rects /\ (Orders!In(p, s) <=> p \in Orders!Cells /\ Orders!In(p, whole))
  BY <1>1, <1>2, ClippedCells
<1> HIDE DEF r, s
<1>5. e \in Rects /\ e.w <= r.w /\ (Orders!In(p, e) <=> p \in Orders!Cells /\ Orders!In(p, r))
  BY <1>1, <1>3, ClippedCells
<1>6. u \in Rects /\ (Orders!In(p, u) <=> Orders!In(p, s) /\ within)
  BY <1>1, <1>4, BoundedCells DEF within
<1> HIDE DEF e, u
<1>7. r.w \in Int /\ e.w \in Int /\ Wide \in Int /\ e.w <= Wide
  BY <1>2, <1>3, <1>5, UpdatesAssumption DEF UpdatesAssumption, Rects
<1>8. /\ Orders!In(p, whole) <=> inside
      /\ r \in Rects /\ r.x >= left /\ r.w <= Wide /\ r.x + r.w <= left + Wide
      /\ Orders!In(p, r) <=> inside /\ within
      /\ e \in Rects /\ e.w <= Wide
      /\ Orders!In(p, e) <=> inside /\ within
      /\ s \in Rects /\ (Orders!In(p, s) <=> inside)
      /\ u \in Rects
      /\ Orders!In(p, u) <=> inside /\ within
  BY <1>2, <1>3, <1>4, <1>5, <1>6, <1>7
<1> QED BY <1>8 DEF whole, r, s, e, u, inside, within

\* What is painted into the framebuffer and shown from it is shown as painted.
LEMMA FbShown ==
    ASSUME NEW screen, OnCells(screen), NEW cells, OnCells(cells), NEW r,
           \A p \in Orders!Cells : ~Orders!In(p, r) => cells[p] = screen[p]
    PROVE  Orders!ShowFb(screen, cells, r) = cells
<1>1. Orders!ShowFb(screen, cells, r) = [p \in Orders!Cells |-> cells[p]]
  BY DEF Orders!ShowFb
<1> QED BY <1>1 DEF OnCells

\* What no cell of an order is in leaves the screen as it is.
LEMMA NothingLaid ==
    ASSUME NEW screen, OnCells(screen), NEW left, NEW b, NEW ink,
           \A p \in Orders!Cells :
             ~(p - left \in Orders!Steps /\ (b # Orders!Absent => p >= b.lo /\ p <= b.hi))
    PROVE  Laid(screen, left, b, ink) = screen
<1>1. Laid(screen, left, b, ink) = [p \in Orders!Cells |-> screen[p]]
  BY DEF Laid
<1> QED BY <1>1 DEF OnCells

\* A rectangle's colour, clipped by the bounds and then by the screen.
LEMMA OpaquePainted ==
    ASSUME NEW c, OnCells(c.screen), NEW left \in Int, NEW arg \in Int,
           NEW b \in {Orders!Absent} \cup Orders!Ranges, NEW ink,
           \A p \in Orders!Cells : ink[p] = arg
    PROVE  LET d == Laid(c.screen, left, b, ink) IN
           Orders!PaintOpaque(c, [left |-> left, arg |-> arg], b, c.screen) = Orders!Picture(d, d)
<1> DEFINE f == [left |-> left, arg |-> arg]
           r == Orders!ClipTo(b, Orders!Whole(f))
           e == Orders!ClipFb(r)
           pixels == [i \in Orders!Steps |-> arg]
           d == Laid(c.screen, left, b, ink)
<1>1. f.arg = arg
  OBVIOUS
<1>2. \A p \in Orders!Cells :
        /\ r \in Rects /\ r.w <= Wide /\ e \in Rects /\ e.w <= Wide /\ p \in Int
        /\ Orders!In(p, r) <=> p - left \in Orders!Steps
                                /\ (b # Orders!Absent => p >= b.lo /\ p <= b.hi)
        /\ Orders!In(p, e) <=> p - left \in Orders!Steps
                                /\ (b # Orders!Absent => p >= b.lo /\ p <= b.hi)
  BY ClippedOrder, UpdatesAssumption DEF UpdatesAssumption, Orders!Cells
<1>3. Orders!PaintOpaque(c, f, b, c.screen) =
        IF r.w <= 0 THEN Orders!Picture(c.screen, c.screen)
        ELSE Orders!Picture(Orders!WriteRect(c.screen, r, pixels),
                            Orders!ShowAt(c.screen, r, pixels))
  BY <1>1 DEF Orders!PaintOpaque
<1> HIDE DEF r, e, f
<1>4. CASE r.w <= 0
  <2>1. \A p \in Orders!Cells : ~Orders!In(p, r)
    BY <1>2, <1>4 DEF Orders!In, Rects
  <2>2. d = c.screen
    BY <1>2, <2>1, NothingLaid
  <2> QED BY <1>3, <1>4, <2>2 DEF f
<1>5. CASE ~(r.w <= 0)
  <2>1. \A p \in Orders!Cells : Orders!In(p, r) => pixels[p - r.x] = arg
    BY <1>2, UpdatesAssumption DEF UpdatesAssumption, Orders!In, Rects, Orders!Steps
  <2>2. \A p \in Orders!Cells : Orders!In(p, e) => pixels[p - e.x] = arg
    BY <1>2, UpdatesAssumption DEF UpdatesAssumption, Orders!In, Rects, Orders!Steps
  <2> HIDE DEF pixels
  <2>3. Orders!WriteRect(c.screen, r, pixels) = d
    BY <1>2, <2>2 DEF Orders!WriteRect, e, Laid
  <2>4. Orders!ShowAt(c.screen, r, pixels) = d
    BY <1>2, <2>1 DEF Orders!ShowAt, Laid
  <2> QED BY <1>3, <1>5, <2>3, <2>4 DEF f
<1> QED BY <1>4, <1>5

\* Orders painted into the framebuffer, between the bounds and the screen's edges.
LEMMA FbPainted ==
    ASSUME NEW screen, OnCells(screen), NEW left \in Int, NEW arg,
           NEW b \in {Orders!Absent} \cup Orders!Ranges, NEW ink, NEW cells,
           LET r == Orders!ClipTo(b, Orders!ClipFb(Orders!Whole([left |-> left, arg |-> arg])))
           IN  cells = [p \in Orders!Cells |-> IF Orders!In(p, r) THEN ink[p] ELSE screen[p]]
    PROVE  LET d == Laid(screen, left, b, ink)
               r == Orders!ClipTo(b, Orders!ClipFb(Orders!Whole([left |-> left, arg |-> arg])))
           IN  /\ Orders!Picture(cells, Orders!ShowFb(screen, cells, r)) = Orders!Picture(d, d)
               /\ r \in Rects /\ (r.w <= 0 => d = screen)
<1> DEFINE f == [left |-> left, arg |-> arg]
           s == Orders!ClipFb(Orders!Whole(f))
           r == Orders!ClipTo(b, s)
           d == Laid(screen, left, b, ink)
<1>1. \A p \in Orders!Cells :
        Orders!In(p, r) <=> p - left \in Orders!Steps
                            /\ (b # Orders!Absent => p >= b.lo /\ p <= b.hi)
  BY ClippedOrder
<1>2. s \in Rects
  <2>1. 0 \in Int /\ Orders!Whole(f) \in Rects
    BY WholeCells
  <2> QED BY <2>1, ClippedCells
<1>3. r \in Rects
  <2>1. 0 \in Int
    OBVIOUS
  <2> HIDE DEF s
  <2> QED BY <1>2, <2>1, BoundedCells
<1> HIDE DEF r
<1>4. cells = d
  BY <1>1 DEF Laid, r
<1>5. OnCells(cells)
  BY DEF OnCells
<1>6. Orders!ShowFb(screen, cells, r) = cells
  <2>1. \A p \in Orders!Cells : ~Orders!In(p, r) => cells[p] = screen[p]
    BY DEF r
  <2> HIDE DEF r
  <2> QED BY <1>5, <2>1, FbShown
<1>7. r.w <= 0 => d = screen
  <2> SUFFICES ASSUME r.w <= 0 PROVE d = screen
    OBVIOUS
  <2>1. \A p \in Orders!Cells : p \in Int
    BY UpdatesAssumption DEF UpdatesAssumption, Orders!Cells
  <2>2. \A p \in Orders!Cells : ~Orders!In(p, r)
    BY <1>3, <2>1 DEF Orders!In, Rects
  <2> QED BY <1>1, <2>2, NothingLaid
<1> HIDE DEF d
<1> QED BY <1>3, <1>4, <1>6, <1>7 DEF r, d

\* The same for those that are not clipped to bounds.
LEMMA WholePainted ==
    ASSUME NEW screen, OnCells(screen), NEW left \in Int, NEW arg, NEW ink, NEW cells,
           cells = [p \in Orders!Cells |->
                      IF Orders!In(p, Orders!Whole([left |-> left, arg |-> arg]))
                      THEN ink[p] ELSE screen[p]]
    PROVE  LET d == Laid(screen, left, Orders!Absent, ink)
               r == Orders!ClipFb(Orders!Whole([left |-> left, arg |-> arg]))
           IN  Orders!Picture(cells, Orders!ShowFb(screen, cells, r)) = Orders!Picture(d, d)
<1> DEFINE whole == Orders!Whole([left |-> left, arg |-> arg])
           r == Orders!ClipFb(whole)
           d == Laid(screen, left, Orders!Absent, ink)
<1>1. \A p \in Orders!Cells :
        (Orders!In(p, whole) <=> p - left \in Orders!Steps) /\
        (Orders!In(p, r) <=> p - left \in Orders!Steps)
  BY ClippedOrder
<1> HIDE DEF whole, r
<1>2. cells = d
  BY <1>1 DEF Laid, whole
<1>3. OnCells(cells)
  BY DEF OnCells
<1>4. Orders!ShowFb(screen, cells, r) = cells
  <2>1. \A p \in Orders!Cells : ~Orders!In(p, r) => cells[p] = screen[p]
    BY <1>1 DEF whole
  <2> QED BY <1>3, <2>1, FbShown
<1> QED BY <1>2, <1>4 DEF r, whole

\* An inverted destination.
LEMMA DstPainted ==
    ASSUME NEW c, OnCells(c.screen), NEW left \in Int, NEW arg,
           NEW b \in {Orders!Absent} \cup Orders!Ranges
    PROVE  LET d == Laid(c.screen, left, b, [p \in Orders!Cells |-> 1 - c.screen[p]]) IN
           Orders!PaintDst(c, [left |-> left, arg |-> arg], b, c.screen) = Orders!Picture(d, d)
<1> DEFINE f == [left |-> left, arg |-> arg]
           ink == [p \in Orders!Cells |-> 1 - c.screen[p]]
           r == Orders!ClipTo(b, Orders!ClipFb(Orders!Whole(f)))
           cells == [p \in Orders!Cells |-> IF Orders!In(p, r) THEN 1 - c.screen[p] ELSE c.screen[p]]
<1>1. cells = [p \in Orders!Cells |-> IF Orders!In(p, r) THEN ink[p] ELSE c.screen[p]]
  OBVIOUS
<1>2. Orders!PaintDst(c, f, b, c.screen) =
        Orders!Picture(cells, Orders!ShowFb(c.screen, cells, r))
  BY DEF Orders!PaintDst
<1> HIDE DEF ink, cells
<1>3. Orders!Picture(cells, Orders!ShowFb(c.screen, cells, r)) =
        Orders!Picture(Laid(c.screen, left, b, ink), Laid(c.screen, left, b, ink))
  BY <1>1, FbPainted
<1> QED BY <1>2, <1>3 DEF ink

\* The brush, by the position of the cell.
LEMMA PatPainted ==
    ASSUME NEW c, OnCells(c.screen), NEW left \in Int, NEW arg,
           NEW b \in {Orders!Absent} \cup Orders!Ranges
    PROVE  LET d == Laid(c.screen, left, b, [p \in Orders!Cells |-> Orders!Brush(c)[p % Wide]]) IN
           Orders!PaintPat(c, [left |-> left, arg |-> arg], b, c.screen) = Orders!Picture(d, d)
<1> DEFINE f == [left |-> left, arg |-> arg]
           ink == [p \in Orders!Cells |-> Orders!Brush(c)[p % Wide]]
           r == Orders!ClipTo(b, Orders!ClipFb(Orders!Whole(f)))
           cells == [p \in Orders!Cells |-> IF Orders!In(p, r) THEN Orders!Brush(c)[p % Wide]
                                            ELSE c.screen[p]]
<1>1. cells = [p \in Orders!Cells |-> IF Orders!In(p, r) THEN ink[p] ELSE c.screen[p]]
  OBVIOUS
<1>2. Orders!PaintPat(c, f, b, c.screen) =
        Orders!Picture(cells, Orders!ShowFb(c.screen, cells, r))
  BY DEF Orders!PaintPat
<1> HIDE DEF ink, cells
<1>3. Orders!Picture(cells, Orders!ShowFb(c.screen, cells, r)) =
        Orders!Picture(Laid(c.screen, left, b, ink), Laid(c.screen, left, b, ink))
  BY <1>1, FbPainted
<1> QED BY <1>2, <1>3 DEF ink

\* The source of a picture moves with the clipped left edge.
LEMMA SourceMoves ==
    ASSUME NEW left \in Int, NEW arg, NEW b \in {Orders!Absent} \cup Orders!Ranges,
           NEW p \in Orders!Cells
    PROVE  LET at == Orders!Placed([left |-> left, arg |-> arg], b) IN
           /\ at.src + p - at.r.x = p - left
           /\ at.r = Orders!ClipTo(b, Orders!ClipFb(Orders!Whole([left |-> left, arg |-> arg])))
<1> DEFINE s == Orders!ClipFb(Orders!Whole([left |-> left, arg |-> arg]))
           r == Orders!ClipTo(b, s)
<1>1. s \in Rects /\ r \in Rects
  BY ClippedOrder
<1>2. s.x \in Int /\ r.x \in Int /\ p \in Int
  BY <1>1, UpdatesAssumption DEF UpdatesAssumption, Orders!Cells, Rects
<1>3. (s.x - left) + (r.x - s.x) + p - r.x = p - left
  BY <1>2
<1> HIDE DEF s, r
<1> QED BY <1>3 DEF Orders!Placed, Orders!Shift, s, r

\* A cached picture, as it is.
LEMMA MemPainted ==
    ASSUME NEW c, OnCells(c.screen), NEW left \in Int, NEW arg,
           NEW b \in {Orders!Absent} \cup Orders!Ranges,
           ~Orders!Missing(c, [left |-> left, arg |-> arg])
    PROVE  LET d == Laid(c.screen, left, b,
                         [p \in Orders!Cells |-> c.pics[Orders!Slot(arg)][p - left]]) IN
           Orders!PaintMem(c, [left |-> left, arg |-> arg], b, c.screen) = Orders!Picture(d, d)
<1> DEFINE f == [left |-> left, arg |-> arg]
           at == Orders!Placed(f, b)
           r == Orders!ClipTo(b, Orders!ClipFb(Orders!Whole(f)))
           ink == [p \in Orders!Cells |-> c.pics[Orders!Slot(arg)][p - left]]
           cells == [p \in Orders!Cells |->
                       IF Orders!In(p, at.r) THEN c.pics[Orders!Slot(f.arg)][at.src + p - at.r.x]
                       ELSE c.screen[p]]
           d == Laid(c.screen, left, b, ink)
<1>1. \A p \in Orders!Cells : at.src + p - at.r.x = p - left /\ at.r = r
  BY SourceMoves
<1>2. f.arg = arg
  OBVIOUS
<1>3. Orders!PaintMem(c, f, b, c.screen) =
        IF at.r.w <= 0 THEN Orders!Picture(c.screen, c.screen)
        ELSE Orders!Picture(cells, Orders!ShowFb(c.screen, cells, at.r))
  BY DEF Orders!PaintMem
<1>4. at.r = r
  BY DEF Orders!Placed
<1> HIDE DEF at, r, f
<1>5. cells = [p \in Orders!Cells |-> IF Orders!In(p, r) THEN ink[p] ELSE c.screen[p]]
  BY <1>1, <1>2
<1> HIDE DEF cells, ink
<1>6. /\ Orders!Picture(cells, Orders!ShowFb(c.screen, cells, r)) = Orders!Picture(d, d)
      /\ r.w <= 0 => d = c.screen
  BY <1>5, FbPainted DEF r, f
<1> HIDE DEF d
<1> QED BY <1>3, <1>4, <1>6 DEF f, d, ink

\* A cached picture through the brush.
LEMMA Mem3Painted ==
    ASSUME NEW c, OnCells(c.screen), NEW left \in Int, NEW arg,
           NEW b \in {Orders!Absent} \cup Orders!Ranges,
           ~Orders!Missing(c, [left |-> left, arg |-> arg])
    PROVE  LET d == Laid(c.screen, left, b,
                         [p \in Orders!Cells |->
                            IF Orders!Brush(c)[p % Wide] = 1
                            THEN c.pics[Orders!Slot(arg)][p - left] ELSE c.screen[p]]) IN
           Orders!PaintMem3(c, [left |-> left, arg |-> arg], b, c.screen) = Orders!Picture(d, d)
<1> DEFINE f == [left |-> left, arg |-> arg]
           at == Orders!Placed(f, b)
           r == Orders!ClipTo(b, Orders!ClipFb(Orders!Whole(f)))
           ink == [p \in Orders!Cells |->
                     IF Orders!Brush(c)[p % Wide] = 1
                     THEN c.pics[Orders!Slot(arg)][p - left] ELSE c.screen[p]]
           cells == [p \in Orders!Cells |->
                       IF Orders!In(p, at.r) /\ Orders!Brush(c)[p % Wide] = 1
                       THEN c.pics[Orders!Slot(f.arg)][at.src + p - at.r.x]
                       ELSE c.screen[p]]
           d == Laid(c.screen, left, b, ink)
<1>1. \A p \in Orders!Cells : at.src + p - at.r.x = p - left /\ at.r = r
  BY SourceMoves
<1>2. f.arg = arg
  OBVIOUS
<1>3. Orders!PaintMem3(c, f, b, c.screen) =
        IF at.r.w <= 0 THEN Orders!Picture(c.screen, c.screen)
        ELSE Orders!Picture(cells, Orders!ShowFb(c.screen, cells, at.r))
  BY DEF Orders!PaintMem3
<1>4. at.r = r
  BY DEF Orders!Placed
<1> HIDE DEF at, r, f
<1>5. cells = [p \in Orders!Cells |-> IF Orders!In(p, r) THEN ink[p] ELSE c.screen[p]]
  BY <1>1, <1>2
<1> HIDE DEF cells, ink
<1>6. /\ Orders!Picture(cells, Orders!ShowFb(c.screen, cells, r)) = Orders!Picture(d, d)
      /\ r.w <= 0 => d = c.screen
  BY <1>5, FbPainted DEF r, f
<1> HIDE DEF d
<1> QED BY <1>3, <1>4, <1>6 DEF f, d, ink

\* Glyphs drawn into the framebuffer.
LEMMA LabelPainted ==
    ASSUME NEW c, OnCells(c.screen), NEW left \in Int, NEW arg,
           Orders!Inline(c, "label", [left |-> left, arg |-> arg]) # Orders!Absent
    PROVE  LET glyph == Orders!Inline(c, "label", [left |-> left, arg |-> arg])
               d == Laid(c.screen, left, Orders!Absent,
                         [p \in Orders!Cells |-> IF glyph[p - left] = 1 THEN 1 ELSE c.screen[p]])
           IN  Orders!PaintLabel(c, [left |-> left, arg |-> arg], Orders!Absent, c.screen)
                 = Orders!Picture(d, d)
<1> DEFINE f == [left |-> left, arg |-> arg]
           glyph == Orders!Inline(c, "label", f)
           whole == Orders!Whole(f)
           ink == [p \in Orders!Cells |-> IF glyph[p - left] = 1 THEN 1 ELSE c.screen[p]]
           cells == [p \in Orders!Cells |-> IF Orders!In(p, whole) /\ glyph[p - f.left] = 1 THEN 1
                                            ELSE c.screen[p]]
           d == Laid(c.screen, left, Orders!Absent, ink)
<1>1. Orders!PaintLabel(c, f, Orders!Absent, c.screen) =
        Orders!Picture(cells, Orders!ShowFb(c.screen, cells, Orders!ClipFb(whole)))
  BY DEF Orders!PaintLabel
<1>2. f.left = left
  OBVIOUS
<1> HIDE DEF f, glyph, whole
<1>3. cells = [p \in Orders!Cells |-> IF Orders!In(p, whole) THEN ink[p] ELSE c.screen[p]]
  BY <1>2
<1> HIDE DEF cells, ink
<1>4. Orders!Picture(cells, Orders!ShowFb(c.screen, cells, Orders!ClipFb(whole)))
        = Orders!Picture(d, d)
  BY <1>3, WholePainted DEF whole, f
<1> HIDE DEF d
<1> QED BY <1>1, <1>4 DEF d, ink, glyph, f

\* A line, cell by cell.
LEMMA LinePainted ==
    ASSUME NEW c, OnCells(c.screen), NEW left \in Int, NEW arg, NEW ink,
           \A p \in Orders!Cells : ink[p] = arg
    PROVE  LET d == Laid(c.screen, left, Orders!Absent, ink) IN
           Orders!PaintLine(c, [left |-> left, arg |-> arg], Orders!Absent, c.screen)
             = Orders!Picture(d, d)
<1> DEFINE f == [left |-> left, arg |-> arg]
           whole == Orders!Whole(f)
           cells == [p \in Orders!Cells |-> IF Orders!In(p, whole) THEN f.arg ELSE c.screen[p]]
           d == Laid(c.screen, left, Orders!Absent, ink)
<1>1. Orders!PaintLine(c, f, Orders!Absent, c.screen) =
        Orders!Picture(cells, Orders!ShowFb(c.screen, cells, Orders!ClipFb(whole)))
  BY DEF Orders!PaintLine
<1>2. f.arg = arg
  OBVIOUS
<1> HIDE DEF f, whole
<1>3. cells = [p \in Orders!Cells |-> IF Orders!In(p, whole) THEN ink[p] ELSE c.screen[p]]
  BY <1>2
<1> HIDE DEF cells
<1>4. Orders!Picture(cells, Orders!ShowFb(c.screen, cells, Orders!ClipFb(whole)))
        = Orders!Picture(d, d)
  BY <1>3, WholePainted DEF whole, f
<1> HIDE DEF d
<1> QED BY <1>1, <1>4 DEF d, f

\* The cells saved, on the screen again.
LEMMA RestorePainted ==
    ASSUME NEW c, OnCells(c.screen), NEW left \in Int, NEW arg \in {0, 1}, NEW ink,
           \A p \in Orders!Cells : ink[p] = IF arg = 1 THEN c.saved[p - left] ELSE c.screen[p]
    PROVE  LET d == Laid(c.screen, left, Orders!Absent, ink) IN
           Orders!PaintRestore(c, [left |-> left, arg |-> arg], Orders!Absent, c.screen)
             = Orders!Picture(d, d)
<1> DEFINE f == [left |-> left, arg |-> arg]
           whole == Orders!Whole(f)
           cells == [p \in Orders!Cells |-> IF Orders!In(p, whole) THEN c.saved[p - f.left]
                                            ELSE c.screen[p]]
           d == Laid(c.screen, left, Orders!Absent, ink)
<1>1. Orders!PaintRestore(c, f, Orders!Absent, c.screen) =
        IF arg = 0 THEN Orders!Picture(c.screen, c.screen)
        ELSE Orders!Picture(cells, Orders!ShowFb(c.screen, cells, Orders!ClipFb(whole)))
  BY DEF Orders!PaintRestore
<1>2. f.left = left
  OBVIOUS
<1> HIDE DEF f, whole
<1>3. CASE arg = 1
  <2>1. cells = [p \in Orders!Cells |-> IF Orders!In(p, whole) THEN ink[p] ELSE c.screen[p]]
    BY <1>2, <1>3
  <2> HIDE DEF cells
  <2>2. Orders!Picture(cells, Orders!ShowFb(c.screen, cells, Orders!ClipFb(whole)))
          = Orders!Picture(d, d)
    BY <2>1, WholePainted DEF whole, f
  <2> HIDE DEF d
  <2> QED BY <1>1, <1>3, <2>2 DEF d, f
<1>4. CASE arg = 0
  <2>1. d = [p \in Orders!Cells |-> c.screen[p]]
    BY <1>4 DEF Laid
  <2>2. d = c.screen
    BY <2>1 DEF OnCells
  <2> HIDE DEF d
  <2> QED BY <1>1, <1>4, <2>2 DEF d, f
<1> QED BY <1>3, <1>4

\* Inside the screen nothing is clipped at its edges, so what is written and what is shown
\* start at the same cell.
LEMMA WrittenInside ==
    ASSUME NEW screen, NEW r \in Rects, r.x >= 0, r.x + r.w <= Width, NEW src
    PROVE  /\ Orders!ClipFb(r) = r
           /\ Orders!WriteRect(screen, r, src) =
                [p \in Orders!Cells |-> IF Orders!In(p, r) THEN src[p - r.x] ELSE screen[p]]
           /\ Orders!ReadRect(screen, r) =
                [i \in Orders!Steps |-> IF i < r.w THEN screen[r.x + i] ELSE 0]
<1>1. r.x \in Int /\ r.w \in Int /\ Width \in Int /\ r = [x |-> r.x, w |-> r.w]
  BY UpdatesAssumption DEF UpdatesAssumption, Rects
<1>2. Orders!ClipFb(r) = r
  BY <1>1 DEF Orders!ClipFb, Orders!Rect
<1> QED BY <1>2 DEF Orders!WriteRect, Orders!ReadRect

\* Text laid over what the screen has: read, written and shown inside the screen.
LEMMA TextPainted ==
    ASSUME NEW c, OnCells(c.screen), NEW left \in 0 .. Width - Wide, NEW arg,
           NEW b \in {Orders!Absent} \cup Orders!Ranges, c.glyphs # Orders!Absent, NEW ink,
           \A p \in Orders!Cells : ink[p] = IF c.glyphs[p - left] = 1 THEN arg ELSE c.screen[p]
    PROVE  LET d == Laid(c.screen, left, b, ink) IN
           Orders!PaintText(c, [left |-> left, arg |-> arg], b, c.screen) = Orders!Picture(d, d)
<1> USE UpdatesAssumption DEF UpdatesAssumption
<1> DEFINE f == [left |-> left, arg |-> arg]
           r == Orders!ClipTo(b, Orders!Whole(f))
           under == Orders!ReadRect(c.screen, r)
           over == [i \in Orders!Steps |->
                      IF i + r.x - f.left \in Orders!Steps /\ c.glyphs[i + r.x - f.left] = 1
                      THEN f.arg ELSE under[i]]
           d == Laid(c.screen, left, b, ink)
<1>1. f.arg = arg /\ f.left = left /\ left \in Int
  OBVIOUS
<1>2. \A p \in Orders!Cells :
        /\ r \in Rects /\ r.x >= left /\ r.w <= Wide /\ r.x + r.w <= left + Wide
        /\ Orders!In(p, r) <=> p - left \in Orders!Steps
                                /\ (b # Orders!Absent => p >= b.lo /\ p <= b.hi)
  BY <1>1, ClippedOrder
<1>3. Orders!PaintText(c, f, b, c.screen) =
        IF r.w <= 0 THEN Orders!Picture(c.screen, c.screen)
        ELSE Orders!Picture(Orders!WriteRect(c.screen, r, over), Orders!ShowAt(c.screen, r, over))
  BY DEF Orders!PaintText
<1>4. 0 \in Orders!Cells
  BY DEF Orders!Cells
<1>5. r \in Rects /\ r.x \in Int /\ r.w \in Int /\ r.x >= left /\ r.w <= Wide
      /\ r.x >= 0 /\ r.x + r.w <= Width
  <2>1. r \in Rects /\ r.x >= left /\ r.w <= Wide /\ r.x + r.w <= left + Wide
    BY <1>2, <1>4
  <2> HIDE DEF r
  <2> QED BY <2>1 DEF Rects
<1> HIDE DEF r, f
<1>6. \A p \in Orders!Cells : p \in Int
  BY DEF Orders!Cells
<1>7. CASE r.w <= 0
  <2>1. \A p \in Orders!Cells : ~Orders!In(p, r)
    BY <1>5, <1>6, <1>7 DEF Orders!In
  <2>2. d = c.screen
    BY <1>1, <1>2, <2>1, NothingLaid
  <2> HIDE DEF d
  <2> QED BY <1>3, <1>7, <2>2 DEF f, d
<1>8. CASE ~(r.w <= 0)
  <2>1. /\ Orders!WriteRect(c.screen, r, over) =
             [p \in Orders!Cells |-> IF Orders!In(p, r) THEN over[p - r.x] ELSE c.screen[p]]
        /\ under = [i \in Orders!Steps |-> IF i < r.w THEN c.screen[r.x + i] ELSE 0]
    BY <1>5, WrittenInside
  <2>2. ASSUME NEW p \in Orders!Cells, Orders!In(p, r)
        PROVE  over[p - r.x] = ink[p]
    <3>1. p - r.x \in Orders!Steps /\ p - r.x < r.w /\ r.x + (p - r.x) = p
          /\ p - r.x + r.x - left = p - left
      BY <1>1, <1>5, <1>6, <2>2 DEF Orders!In, Orders!Steps
    <3>2. under[p - r.x] = c.screen[p]
      BY <2>1, <3>1
    <3>3. p - left \in Orders!Steps
      BY <1>2, <2>2
    <3> HIDE DEF under
    <3> QED BY <1>1, <3>1, <3>2, <3>3
  <2> HIDE DEF over
  <2>3. Orders!WriteRect(c.screen, r, over) = d
    BY <1>2, <2>1, <2>2 DEF Laid
  <2>4. Orders!ShowAt(c.screen, r, over) = d
    BY <1>2, <2>2 DEF Orders!ShowAt, Laid
  <2> HIDE DEF d
  <2> QED BY <1>3, <1>8, <2>3, <2>4 DEF f, d
<1> QED BY <1>7, <1>8

\* A copy on the screen: read whole before it is written, from where the clipped left edge
\* moved the source.
LEMMA ScrPainted ==
    ASSUME NEW c, OnCells(c.screen), NEW left \in 0 .. Width - Wide, NEW arg \in 0 .. Width - Wide,
           NEW b \in {Orders!Absent} \cup Orders!Ranges, NEW ink,
           \A p \in Orders!Cells : ink[p] = c.screen[arg + (p - left)]
    PROVE  LET d == Laid(c.screen, left, b, ink) IN
           Orders!PaintScr(c, [left |-> left, arg |-> arg], b, c.screen) = Orders!Picture(d, d)
<1> USE UpdatesAssumption DEF UpdatesAssumption
<1> DEFINE f == [left |-> left, arg |-> arg]
           r == Orders!ClipTo(b, Orders!Whole(f))
           from == Orders!Rect(arg + (r.x - left), r.w)
           scratch == Orders!ReadRect(c.screen, from)
           d == Laid(c.screen, left, b, ink)
<1>1. f.arg = arg /\ f.left = left /\ left \in Int
  OBVIOUS
<1>2. \A p \in Orders!Cells :
        /\ r \in Rects /\ r.x >= left /\ r.w <= Wide /\ r.x + r.w <= left + Wide
        /\ Orders!In(p, r) <=> p - left \in Orders!Steps
                                /\ (b # Orders!Absent => p >= b.lo /\ p <= b.hi)
  BY <1>1, ClippedOrder
<1>3. Orders!PaintScr(c, f, b, c.screen) =
        IF r.w <= 0 THEN Orders!Picture(c.screen, c.screen)
        ELSE Orders!Picture(Orders!WriteRect(c.screen, r, scratch),
                            Orders!ShowAt(c.screen, r, scratch))
  BY DEF Orders!PaintScr, Orders!Shift
<1>4. 0 \in Orders!Cells
  BY DEF Orders!Cells
<1>5. r \in Rects /\ r.x \in Int /\ r.w \in Int /\ r.x >= left /\ r.w <= Wide
      /\ r.x >= 0 /\ r.x + r.w <= Width /\ r.x + r.w <= left + Wide
  <2>1. r \in Rects /\ r.x >= left /\ r.w <= Wide /\ r.x + r.w <= left + Wide
    BY <1>2, <1>4
  <2> HIDE DEF r
  <2> QED BY <2>1 DEF Rects
<1> HIDE DEF r, f
<1>6. \A p \in Orders!Cells : p \in Int
  BY DEF Orders!Cells
<1>7. CASE r.w <= 0
  <2>1. \A p \in Orders!Cells : ~Orders!In(p, r)
    BY <1>5, <1>6, <1>7 DEF Orders!In
  <2>2. d = c.screen
    BY <1>1, <1>2, <2>1, NothingLaid
  <2> HIDE DEF d
  <2> QED BY <1>3, <1>7, <2>2 DEF f, d
<1>8. CASE ~(r.w <= 0)
  <2>1. from \in Rects /\ from.x = arg + (r.x - left) /\ from.w = r.w
        /\ from.x >= 0 /\ from.x + from.w <= Width
    BY <1>1, <1>5 DEF Orders!Rect, Rects
  <2> HIDE DEF from
  <2>2. scratch = [i \in Orders!Steps |-> IF i < r.w THEN c.screen[from.x + i] ELSE 0]
    BY <2>1, WrittenInside
  <2> HIDE DEF scratch
  <2>3. Orders!WriteRect(c.screen, r, scratch) =
          [p \in Orders!Cells |-> IF Orders!In(p, r) THEN scratch[p - r.x] ELSE c.screen[p]]
    <3>1. Orders!ClipFb(r) = r
      BY <1>5, WrittenInside
    <3> QED BY <3>1 DEF Orders!WriteRect
  <2>4. ASSUME NEW p \in Orders!Cells, Orders!In(p, r)
        PROVE  scratch[p - r.x] = ink[p]
    <3>1. p - r.x \in Orders!Steps /\ p - r.x < r.w
          /\ from.x + (p - r.x) = arg + (p - left)
      BY <1>1, <1>5, <1>6, <2>1, <2>4 DEF Orders!In, Orders!Steps
    <3> QED BY <2>2, <3>1
  <2>5. Orders!WriteRect(c.screen, r, scratch) = d
    BY <1>2, <2>3, <2>4 DEF Laid
  <2>6. Orders!ShowAt(c.screen, r, scratch) = d
    BY <1>2, <2>4 DEF Orders!ShowAt, Laid
  <2> HIDE DEF d
  <2> QED BY <1>3, <1>8, <2>5, <2>6 DEF f, d
<1> QED BY <1>7, <1>8

\* What the two sides keep of the orders, and what they have painted until one is executed
\* before the viewer is there.
OrderFields == {"last", "f", "bounds", "screen", "pics", "glyphs", "brush", "saved"}

OrderSides(s, c) ==
    /\ DOMAIN s = OrderFields /\ DOMAIN c = OrderFields
    /\ c.last = s.last /\ c.f = s.f /\ c.bounds = s.bounds /\ c.pics = s.pics
    /\ c.brush = s.brush
    /\ DOMAIN s.f = Kinds /\ DOMAIN s.pics = 0 .. Slots
    /\ \A k \in Kinds : s.f[k].left \in Int /\ s.f[k].arg \in Int
    /\ OnCells(s.screen)

Alike(s, c, v) ==
    c.screen = s.screen /\ c.saved = s.saved /\ c.glyphs = s.glyphs /\ v = s.screen

OrdersInv == OrderSides(drawer, painter) /\ (~early => Alike(drawer, painter, viewer))

\* What an order carries: a number, with what the server has sent.
LEMMA ArgsKnown ==
    ASSUME NEW s, NEW k, NEW arg \in Orders!Args(s, k)
    PROVE  /\ arg \in Int
           /\ k \in {"opaque", "line", "text", "dst", "pat", "scr", "label", "mem", "mem3", "save"}
           /\ k = "text" => s.glyphs # Orders!Absent
           /\ k = "pat" => s.brush # Orders!Absent
           /\ k = "scr" => arg \in 0 .. Width - Wide
           /\ k = "label" => arg = 1 \/ s.glyphs # Orders!Absent
           /\ k \in {"mem", "mem3"} => /\ Orders!Slot(arg) \in 0 .. Slots
                                       /\ s.pics[Orders!Slot(arg)] # Orders!Absent
           /\ k = "mem3" => s.brush # Orders!Absent
           /\ k = "save" => arg \in {0, 1}
<1> USE UpdatesAssumption DEF UpdatesAssumption
<1>1. CASE k \in {"opaque", "line"}
  BY <1>1 DEF Orders!Args, Orders!Colour
<1>2. CASE k = "text"
  BY <1>2 DEF Orders!Args
<1>3. CASE k = "dst"
  BY <1>3 DEF Orders!Args
<1>4. CASE k = "pat"
  BY <1>4 DEF Orders!Args
<1>5. CASE k = "scr"
  BY <1>5 DEF Orders!Args
<1>6. CASE k = "label"
  BY <1>6 DEF Orders!Args
<1>7. CASE k \in {"mem", "mem3"}
  <2>1. k = "mem3" => s.brush # Orders!Absent
    BY <1>7 DEF Orders!Args
  <2>2. arg \in {i \in (0 .. Slots - 1) \cup {Orders!Waiting} :
                   s.pics[IF i = Orders!Waiting THEN Slots ELSE i] # Orders!Absent}
    BY <1>7, <2>1 DEF Orders!Args
  <2> QED BY <1>7, <2>1, <2>2 DEF Orders!Slot, Orders!Waiting
<1>8. CASE k = "save"
  BY <1>8 DEF Orders!Args
<1>9. CASE k \notin {"opaque", "line", "text", "dst", "pat", "scr", "label", "mem", "mem3", "save"}
  BY <1>9 DEF Orders!Args
<1> QED BY <1>1, <1>2, <1>3, <1>4, <1>5, <1>6, <1>7, <1>8, <1>9

\* A side after an order, decoded.
Filled(c, k, range, f) ==
    [c EXCEPT !.last = k, !.bounds = IF range = Orders!Absent THEN c.bounds ELSE range, !.f[k] = f]

\* What was left out of an order is filled in again.
LEMMA OrderDecoded ==
    ASSUME NEW s, NEW c, OrderSides(s, c), NEW k \in Kinds, NEW left \in Int, NEW arg \in Int,
           NEW range \in {Orders!Absent} \cup Orders!Ranges,
           NEW w \in Orders!Wire(s, k, left, arg, range)
    PROVE  LET d == Orders!Decoded(w, c) IN
           /\ Orders!KindOf(w, c) = k
           /\ d = Filled(c, k, range, [left |-> left, arg |-> arg])
           /\ (IF w.bounds = "none" THEN Orders!Absent ELSE d.bounds) = range
<1>1. /\ DOMAIN c = OrderFields /\ c.last = s.last /\ c.f = s.f /\ c.bounds = s.bounds
      /\ s.f[k].left \in Int /\ s.f[k].arg \in Int /\ DOMAIN s.f = Kinds
  BY DEF OrderSides
<1> DEFINE was == s.f[k]
           needed == {x \in {"left", "arg"} :
                        (x = "left" /\ left # was.left) \/ (x = "arg" /\ arg # was.arg)}
<1>2. PICK form \in {"full", "terse", "delta"} :
        w = [typed  |-> form = "full" \/ s.last # k, kind |-> k, delta |-> form = "delta",
             has    |-> IF form = "full" THEN {"left", "arg"} ELSE needed,
             left   |-> IF form = "delta" THEN left - was.left ELSE left,
             arg    |-> IF k = "scr" THEN IF form = "delta" THEN arg - was.arg ELSE arg ELSE arg,
             bounds |-> IF range = Orders!Absent THEN "none"
                        ELSE IF range = s.bounds THEN "last" ELSE "new",
             edges  |-> IF range = Orders!Absent THEN {}
                        ELSE {e \in {"lo", "hi"} : range[e] # s.bounds[e]},
             range  |-> range]
  BY DEF Orders!Wire
<1>3. /\ (w.typed <=> form = "full" \/ s.last # k) /\ w.kind = k
      /\ (w.delta <=> form = "delta")
      /\ w.has = (IF form = "full" THEN {"left", "arg"} ELSE needed)
      /\ w["left"] = (IF form = "delta" THEN left - was.left ELSE left)
      /\ w["arg"] = (IF k = "scr" THEN IF form = "delta" THEN arg - was.arg ELSE arg ELSE arg)
      /\ w.bounds = (IF range = Orders!Absent THEN "none"
                     ELSE IF range = s.bounds THEN "last" ELSE "new")
      /\ w.edges = (IF range = Orders!Absent THEN {}
                    ELSE {e \in {"lo", "hi"} : range[e] # s.bounds[e]})
      /\ w.range = range
  BY <1>2
<1> HIDE <1>2
<1>4. Orders!KindOf(w, c) = k
  BY <1>1, <1>3 DEF Orders!KindOf
<1>5. "left" \in Orders!Coordinates(k) /\ ("arg" \in Orders!Coordinates(k) <=> k = "scr")
  BY DEF Orders!Coordinates, Orders!TextCoordinates, Orders!ShapeCoordinates,
         Orders!BlitCoordinates
<1>6. Orders!Field(w, k, "left", was.left) = left
  BY <1>1, <1>3, <1>5 DEF Orders!Field
<1>7. Orders!Field(w, k, "arg", was.arg) = arg
  BY <1>1, <1>3, <1>5 DEF Orders!Field
<1>8. Orders!DecodedBounds(w, c.bounds) = IF range = Orders!Absent THEN c.bounds ELSE range
  <2>1. CASE range = Orders!Absent
    BY <1>3, <2>1 DEF Orders!DecodedBounds
  <2>2. CASE range # Orders!Absent /\ range = s.bounds
    BY <1>1, <1>3, <2>2 DEF Orders!DecodedBounds
  <2>3. CASE range # Orders!Absent /\ range # s.bounds
    <3>1. range = [e \in {"lo", "hi"} |-> range[e]]
      BY <2>3 DEF Orders!Ranges
    <3>2. Orders!DecodedBounds(w, c.bounds) =
            [e \in {"lo", "hi"} |-> IF e \in w.edges THEN w.range[e] ELSE c.bounds[e]]
      BY <1>3, <2>3 DEF Orders!DecodedBounds
    <3>3. \A e \in {"lo", "hi"} : (IF e \in w.edges THEN w.range[e] ELSE c.bounds[e]) = range[e]
      BY <1>1, <1>3, <2>3
    <3> QED BY <2>3, <3>1, <3>2, <3>3
  <2> QED BY <2>1, <2>2, <2>3
<1> DEFINE d == Orders!Decoded(w, c)
<1>9. d = [c EXCEPT !.last = k, !.bounds = IF range = Orders!Absent THEN c.bounds ELSE range,
                    !.f[k] = [left |-> left, arg |-> arg]]
  BY <1>1, <1>4, <1>6, <1>7, <1>8 DEF Orders!Decoded
<1>10. d.bounds = IF range = Orders!Absent THEN c.bounds ELSE range
  BY <1>1, <1>9 DEF OrderFields
<1> HIDE DEF d
<1>11. (IF w.bounds = "none" THEN Orders!Absent ELSE d.bounds) = range
  BY <1>3, <1>10
<1> QED BY <1>4, <1>9, <1>11 DEF d, Filled

\* What the code relies on in a server: texts and copies start on the screen, and what is
\* drawn without looking at the bounds is sent without.
OrdersLegal ==
    OffScreen \cap {"text", "scr"} = {} /\ Bounded \cap {"label", "line", "save"} = {}

\* The server after its glyph, if one came with the order.
Sent(s, k, arg) ==
    [s EXCEPT !.glyphs = IF k = "label" /\ arg = 1
                         THEN [i \in Orders!Steps |-> i % 2] ELSE s.glyphs]

InkOf(s, k, left, arg) == [p \in Orders!Cells |-> Orders!Ink(s, k, left, arg, p)]

\* An order is painted and shown as the server means it.
LEMMA OrderPainted ==
    ASSUME OrdersLegal, NEW s, NEW c, NEW v, OrderSides(s, c), Alike(s, c, v), NEW k \in Kinds,
           NEW left \in Orders!Lefts(k), NEW arg \in Orders!Args(s, k),
           NEW range \in {Orders!Absent} \cup (IF k \in Bounded THEN Orders!Ranges ELSE {})
    PROVE  LET d == Orders!Drawn(Sent(s, k, arg), k, left, arg, range) IN
           /\ Orders!Painted(c, k, [left |-> left, arg |-> arg], range, v) = Orders!Picture(d, d)
           /\ Orders!Inline(c, k, [left |-> left, arg |-> arg]) = Sent(s, k, arg).glyphs
           /\ Orders!SavedBy(c, k, [left |-> left, arg |-> arg])
                = Orders!SavedBy(s, k, [left |-> left, arg |-> arg])
<1> DEFINE f == [left |-> left, arg |-> arg]
           sent == Sent(s, k, arg)
           ink == InkOf(sent, k, left, arg)
           d == Orders!Drawn(sent, k, left, arg, range)
           lay == Laid(c.screen, left, range, ink)
           out == Orders!Painted(c, k, f, range, v)
<1>1. left \in Int /\ (k \in {"text", "scr"} => left \in 0 .. Width - Wide)
  BY DEF Orders!Lefts, OrdersLegal
<1>2. range \in {Orders!Absent} \cup Orders!Ranges
  OBVIOUS
<1>3. k \in {"label", "line", "save"} => range = Orders!Absent
  BY DEF OrdersLegal
<1>4. /\ c.screen = s.screen /\ c.saved = s.saved /\ c.glyphs = s.glyphs /\ v = c.screen
      /\ OnCells(c.screen) /\ c.pics = s.pics /\ c.brush = s.brush
      /\ DOMAIN c.pics = 0 .. Slots /\ DOMAIN s = OrderFields
  BY DEF OrderSides, Alike
<1>5. /\ sent.screen = s.screen /\ sent.pics = s.pics /\ sent.brush = s.brush
      /\ sent.saved = s.saved
      /\ sent.glyphs = IF k = "label" /\ arg = 1 THEN [i \in Orders!Steps |-> i % 2]
                       ELSE s.glyphs
  BY <1>4 DEF Sent, OrderFields
<1>6. f.arg = arg /\ f.left = left
  OBVIOUS
<1>7. Orders!Inline(c, k, f) = sent.glyphs
  <2> HIDE DEF f, sent
  <2> QED BY <1>4, <1>5, <1>6 DEF Orders!Inline
<1>8. Orders!SavedBy(c, k, f) = Orders!SavedBy(s, k, f)
  BY <1>4 DEF Orders!SavedBy
<1> HIDE DEF sent
<1>9. d = lay
  BY <1>4, <1>5 DEF Orders!Drawn, Laid, InkOf
<1>10. /\ arg \in Int
       /\ k \in {"opaque", "line", "text", "dst", "pat", "scr", "label", "mem", "mem3", "save"}
       /\ k = "text" => c.glyphs # Orders!Absent
       /\ k = "pat" => c.brush # Orders!Absent
       /\ k = "scr" => arg \in 0 .. Width - Wide
       /\ k = "label" => arg = 1 \/ c.glyphs # Orders!Absent
       /\ k \in {"mem", "mem3"} => /\ Orders!Slot(arg) \in 0 .. Slots
                                   /\ c.pics[Orders!Slot(arg)] # Orders!Absent
       /\ k = "mem3" => c.brush # Orders!Absent
       /\ k = "save" => arg \in {0, 1}
  BY <1>4, ArgsKnown
<1>12. OnCells(c.screen) /\ left \in Int
  BY <1>1, <1>4
<1>11. out = Orders!Picture(lay, lay)
  <2>1. CASE k = "opaque"
    <3>1. \A p \in Orders!Cells : ink[p] = arg
      BY <2>1 DEF InkOf, Orders!Ink
    <3>2. out = Orders!PaintOpaque(c, f, range, c.screen)
      BY <1>4, <2>1 DEF Orders!Painted
    <3> HIDE DEF ink, out
    <3>3. Orders!PaintOpaque(c, f, range, c.screen) = Orders!Picture(lay, lay)
      <4>1. arg \in Int
        BY <1>10
      <4> QED BY <1>2, <1>12, <3>1, <4>1, OpaquePainted
    <3> QED BY <3>2, <3>3
  <2>2. CASE k = "text"
    <3>1. \A p \in Orders!Cells : ink[p] = IF c.glyphs[p - left] = 1 THEN arg ELSE c.screen[p]
      BY <1>4, <1>5, <2>2 DEF InkOf, Orders!Ink
    <3>2. out = Orders!PaintText(c, f, range, c.screen)
      BY <1>4, <2>2 DEF Orders!Painted
    <3> HIDE DEF ink, out
    <3>3. Orders!PaintText(c, f, range, c.screen) = Orders!Picture(lay, lay)
      <4>1. left \in 0 .. Width - Wide /\ c.glyphs # Orders!Absent
        BY <1>1, <1>10, <2>2
      <4> QED BY <1>2, <1>12, <3>1, <4>1, TextPainted
    <3> QED BY <3>2, <3>3
  <2>3. CASE k = "dst"
    <3>1. ink = [p \in Orders!Cells |-> 1 - c.screen[p]]
      BY <1>4, <1>5, <2>3 DEF InkOf, Orders!Ink
    <3>2. out = Orders!PaintDst(c, f, range, c.screen)
      BY <1>4, <2>3 DEF Orders!Painted
    <3> HIDE DEF ink, out
    <3>3. Orders!PaintDst(c, f, range, c.screen) = Orders!Picture(lay, lay)
      BY <1>1, <1>2, <1>4, <3>1, DstPainted
    <3> QED BY <3>2, <3>3
  <2>4. CASE k = "pat"
    <3>1. Orders!Brush(c) = c.brush
      BY <1>10, <2>4 DEF Orders!Brush
    <3>2. ink = [p \in Orders!Cells |-> Orders!Brush(c)[p % Wide]]
      BY <1>4, <1>5, <2>4, <3>1 DEF InkOf, Orders!Ink
    <3>3. out = Orders!PaintPat(c, f, range, c.screen)
      BY <1>4, <2>4 DEF Orders!Painted
    <3> HIDE DEF ink, out
    <3>4. Orders!PaintPat(c, f, range, c.screen) = Orders!Picture(lay, lay)
      BY <1>1, <1>2, <1>4, <3>2, PatPainted
    <3> QED BY <3>3, <3>4
  <2>5. CASE k = "scr"
    <3>1. \A p \in Orders!Cells : ink[p] = c.screen[arg + (p - left)]
      BY <1>4, <1>5, <2>5 DEF InkOf, Orders!Ink
    <3>2. out = Orders!PaintScr(c, f, range, c.screen)
      BY <1>4, <2>5 DEF Orders!Painted
    <3> HIDE DEF ink, out
    <3>3. Orders!PaintScr(c, f, range, c.screen) = Orders!Picture(lay, lay)
      <4>1. left \in 0 .. Width - Wide /\ arg \in 0 .. Width - Wide
        BY <1>1, <1>10, <2>5
      <4> QED BY <1>2, <1>12, <3>1, <4>1, ScrPainted, ZenonT(30)
    <3> QED BY <3>2, <3>3
  <2>6. CASE k = "label"
    <3> DEFINE glyph == Orders!Inline(c, "label", f)
    <3>1. glyph = sent.glyphs
      BY <1>7, <2>6
    <3>2. glyph # Orders!Absent
      <4>1. CASE arg = 1
        <5>1. glyph = [i \in Orders!Steps |-> i % 2]
          BY <1>5, <2>6, <3>1, <4>1
        <5>2. 0 \in DOMAIN glyph
          BY <5>1, UpdatesAssumption DEF UpdatesAssumption, Orders!Steps
        <5> QED BY <5>2 DEF Orders!Absent
      <4>2. CASE arg # 1
        BY <1>4, <1>5, <1>10, <2>6, <3>1, <4>2
      <4> QED BY <4>1, <4>2
    <3>3. ink = [p \in Orders!Cells |-> IF glyph[p - left] = 1 THEN 1 ELSE c.screen[p]]
      <4> HIDE DEF glyph
      <4> QED BY <1>4, <1>5, <2>6, <3>1 DEF InkOf, Orders!Ink
    <3>4. out = Orders!PaintLabel(c, f, Orders!Absent, c.screen)
      BY <1>3, <1>4, <2>6 DEF Orders!Painted
    <3> HIDE DEF ink, out
    <3>5. Orders!PaintLabel(c, f, Orders!Absent, c.screen) = Orders!Picture(lay, lay)
      BY <1>1, <1>3, <1>4, <2>6, <3>2, <3>3, LabelPainted
    <3> QED BY <3>4, <3>5
  <2>7. CASE k \in {"mem", "mem3"}
    <3>1. ~Orders!Missing(c, f)
      BY <1>4, <1>6, <1>10, <2>7 DEF Orders!Missing
    <3>2. Orders!Slot(arg) = IF arg = Orders!Waiting THEN Slots ELSE arg
      BY DEF Orders!Slot
    <3>3. CASE k = "mem"
      <4>1. ink = [p \in Orders!Cells |-> c.pics[Orders!Slot(arg)][p - left]]
        BY <1>4, <1>5, <3>2, <3>3 DEF InkOf, Orders!Ink
      <4>2. out = Orders!PaintMem(c, f, range, c.screen)
        BY <1>4, <3>3 DEF Orders!Painted
      <4> HIDE DEF ink, out
      <4>3. Orders!PaintMem(c, f, range, c.screen) = Orders!Picture(lay, lay)
        <5> DEFINE laid == Laid(c.screen, left, range, [p \in Orders!Cells |-> c.pics[Orders!Slot(arg)][p - left]])
        <5>1. Orders!PaintMem(c, f, range, c.screen) = Orders!Picture(laid, laid)
          BY <1>1, <1>2, <1>4, <3>1, MemPainted
        <5>2. laid = lay
          BY <4>1
        <5> HIDE DEF laid, lay
        <5> QED BY <5>1, <5>2
      <4> QED BY <4>2, <4>3
    <3>4. CASE k = "mem3"
      <4>1. Orders!Brush(c) = c.brush
        BY <1>10, <3>4 DEF Orders!Brush
      <4>2. ink = [p \in Orders!Cells |-> IF Orders!Brush(c)[p % Wide] = 1
                                          THEN c.pics[Orders!Slot(arg)][p - left]
                                          ELSE c.screen[p]]
        BY <1>4, <1>5, <3>2, <3>4, <4>1 DEF InkOf, Orders!Ink
      <4>3. out = Orders!PaintMem3(c, f, range, c.screen)
        BY <1>4, <3>4 DEF Orders!Painted
      <4> HIDE DEF ink, out
      <4>4. Orders!PaintMem3(c, f, range, c.screen) = Orders!Picture(lay, lay)
        BY <1>1, <1>2, <1>4, <3>1, <4>2, Mem3Painted
      <4> QED BY <4>3, <4>4
    <3> QED BY <2>7, <3>3, <3>4
  <2>8. CASE k = "line"
    <3>1. \A p \in Orders!Cells : ink[p] = arg
      BY <2>8 DEF InkOf, Orders!Ink
    <3>2. out = Orders!PaintLine(c, f, Orders!Absent, c.screen)
      BY <1>3, <1>4, <2>8 DEF Orders!Painted
    <3> HIDE DEF ink, out
    <3>3. Orders!PaintLine(c, f, Orders!Absent, c.screen) = Orders!Picture(lay, lay)
      BY <1>1, <1>3, <1>4, <2>8, <3>1, LinePainted
    <3> QED BY <3>2, <3>3
  <2>9. CASE k = "save"
    <3>1. \A p \in Orders!Cells : ink[p] = IF arg = 1 THEN c.saved[p - left] ELSE c.screen[p]
      BY <1>4, <1>5, <2>9 DEF InkOf, Orders!Ink
    <3>2. out = Orders!PaintRestore(c, f, Orders!Absent, c.screen)
      BY <1>3, <1>4, <2>9 DEF Orders!Painted
    <3> HIDE DEF ink, out
    <3>3. Orders!PaintRestore(c, f, Orders!Absent, c.screen) = Orders!Picture(lay, lay)
      <4>1. arg \in {0, 1} /\ range = Orders!Absent
        BY <1>3, <1>10, <2>9
      <4> QED BY <1>12, <3>1, <4>1, RestorePainted, Zenon
    <3> QED BY <3>2, <3>3
  <2> QED BY <1>10, <2>1, <2>2, <2>3, <2>4, <2>5, <2>6, <2>7, <2>8, <2>9
<1> HIDE DEF d, lay, out, f
<1> QED BY <1>7, <1>8, <1>9, <1>11 DEF d, out, f, sent

\* Both sides start with nothing drawn and nothing cached.
LEMMA OrdersStart == Orders!Init => OrdersInv
<1> SUFFICES ASSUME Orders!Init PROVE OrdersInv
  OBVIOUS
<1> DEFINE z == [p \in Orders!Cells |-> 0]
<1>1. /\ drawer = Orders!Fresh /\ painter = Orders!Fresh /\ viewer = z
  BY DEF Orders!Init
<1>2. /\ DOMAIN Orders!Fresh = OrderFields
      /\ Orders!Fresh.f = [k \in Kinds |-> [left |-> 0, arg |-> 0]]
      /\ Orders!Fresh.screen = z
      /\ Orders!Fresh.pics = [i \in 0 .. Slots |-> Orders!Absent]
  BY DEF Orders!Fresh, Orders!FreshState, OrderFields
<1>3. OnCells(Orders!Fresh.screen)
  BY <1>2 DEF OnCells
<1>4. OrderSides(drawer, painter)
  BY <1>1, <1>2, <1>3 DEF OrderSides
<1>5. Alike(drawer, painter, viewer)
  BY <1>1, <1>2 DEF Alike
<1> QED BY <1>4, <1>5 DEF OrdersInv

\* An order is decoded on the client's side as it was sent, and painted if the viewer is there.
LEMMA PrimarySent == OrdersLegal /\ OrdersInv /\ Orders!PrimaryOrder => OrdersInv'
<1> SUFFICES ASSUME OrdersLegal, OrdersInv, Orders!PrimaryOrder PROVE OrdersInv'
  OBVIOUS
<1>1. PICK k \in Kinds : Orders!PrimaryOrder!(k)
  BY Zenon DEF Orders!PrimaryOrder
<1>2. PICK left \in Orders!Lefts(k), arg \in Orders!Args(drawer, k),
           range \in {Orders!Absent} \cup (IF k \in Bounded THEN Orders!Ranges ELSE {}) :
        Orders!PrimaryOrder!(k)!(left, arg, range)
  BY <1>1, Zenon
<1>3. PICK w \in Orders!Wire(drawer, k, left, arg, range) :
        Orders!PrimaryOrder!(k)!(left, arg, range)!(w)
  BY <1>2, Zenon
<1> DEFINE c == Orders!Decoded(w, painter)
           f == [left |-> left, arg |-> arg]
           out == Orders!Painted(painter, k, f, range, viewer)
           sent == Sent(drawer, k, arg)
           drawn == Orders!Drawn(sent, k, left, arg, range)
           bounds == IF range = Orders!Absent THEN drawer.bounds ELSE range
           saved == Orders!SavedBy(drawer, k, f)
<1>4. left \in Int /\ arg \in Int /\ range \in {Orders!Absent} \cup Orders!Ranges
  BY ArgsKnown DEF Orders!Lefts
<1>5. OrderSides(drawer, painter)
  BY DEF OrdersInv
<1>6. /\ Orders!KindOf(w, painter) = k
      /\ c = Filled(painter, k, range, f)
      /\ (IF w.bounds = "none" THEN Orders!Absent ELSE c.bounds) = range
  BY <1>4, <1>5, OrderDecoded
<1>7. /\ DOMAIN drawer = OrderFields /\ DOMAIN painter = OrderFields /\ DOMAIN drawer.f = Kinds
      /\ painter.last = drawer.last /\ painter.f = drawer.f /\ painter.bounds = drawer.bounds
      /\ painter.pics = drawer.pics /\ painter.brush = drawer.brush
      /\ DOMAIN drawer.pics = 0 .. Slots
      /\ \A x \in Kinds : drawer.f[x].left \in Int /\ drawer.f[x].arg \in Int
  BY <1>5 DEF OrderSides
<1>8. /\ DOMAIN c = OrderFields /\ c.last = k /\ c.bounds = bounds
      /\ c.f = [drawer.f EXCEPT ![k] = f] /\ c.pics = drawer.pics /\ c.brush = drawer.brush
      /\ c.f[k] = f
  <2> HIDE DEF c, f
  <2> QED BY <1>6, <1>7 DEF OrderFields, Filled
<1> HIDE DEF c
<1>9. drawer' = [sent EXCEPT !.last = k, !.f[k] = f, !.bounds = bounds, !.saved = saved,
                             !.screen = drawn]
  <2>1. sent.bounds = drawer.bounds
    BY <1>7 DEF Sent, OrderFields
  <2>2. drawer' = [sent EXCEPT !.last = k, !.f[k] = f,
                      !.bounds = IF range = Orders!Absent THEN sent.bounds ELSE range,
                      !.saved = saved, !.screen = drawn]
    BY <1>3 DEF Sent
  <2> QED BY <2>1, <2>2
<1>10. /\ DOMAIN drawer' = OrderFields /\ drawer'.last = k /\ drawer'.bounds = bounds
       /\ drawer'.f = [drawer.f EXCEPT ![k] = f] /\ drawer'.pics = drawer.pics
       /\ drawer'.brush = drawer.brush /\ drawer'.saved = saved /\ drawer'.screen = drawn
       /\ drawer'.glyphs = sent.glyphs
  <2>1. DOMAIN sent = OrderFields /\ sent.f = drawer.f /\ sent.pics = drawer.pics
        /\ sent.brush = drawer.brush
    BY <1>7 DEF Sent, OrderFields
  <2> HIDE DEF sent, f, bounds, saved, drawn
  <2> QED BY <1>9, <2>1 DEF OrderFields
<1>11. (early' <=> early \/ ~shown) /\ UNCHANGED shown
  BY <1>3, Zenon
<1>12. IF shown
       THEN /\ painter' = [c EXCEPT !.screen = out.screen, !.glyphs = Orders!Inline(painter, k, f),
                                    !.saved = Orders!SavedBy(painter, k, f)]
            /\ viewer' = out.viewer
       ELSE painter' = c /\ viewer' = viewer
  BY <1>3, <1>6, <1>8 DEF c
<1>13. /\ DOMAIN painter' = OrderFields /\ painter'.last = k /\ painter'.bounds = bounds
       /\ painter'.f = [drawer.f EXCEPT ![k] = f] /\ painter'.pics = drawer.pics
       /\ painter'.brush = drawer.brush
       /\ shown => /\ painter'.screen = out.screen /\ viewer' = out.viewer
                   /\ painter'.glyphs = Orders!Inline(painter, k, f)
                   /\ painter'.saved = Orders!SavedBy(painter, k, f)
  <2> HIDE DEF f, bounds, out
  <2> QED BY <1>8, <1>12 DEF OrderFields
<1>14. OnCells(drawn)
  BY DEF OnCells, Orders!Drawn
<1>15. OrderSides(drawer', painter')
  <2>1. /\ DOMAIN drawer'.f = Kinds
        /\ \A x \in Kinds : drawer'.f[x].left \in Int /\ drawer'.f[x].arg \in Int
    BY <1>4, <1>7, <1>10
  <2> HIDE DEF f, bounds, drawn
  <2> QED BY <1>7, <1>10, <1>13, <1>14, <2>1 DEF OrderSides
<1>16. ~early' => Alike(drawer', painter', viewer')
  <2> SUFFICES ASSUME ~early' PROVE Alike(drawer', painter', viewer')
    OBVIOUS
  <2>1. shown /\ Alike(drawer, painter, viewer)
    BY <1>11 DEF OrdersInv
  <2>2. /\ out = Orders!Picture(drawn, drawn)
        /\ Orders!Inline(painter, k, f) = sent.glyphs
        /\ Orders!SavedBy(painter, k, f) = saved
    BY <1>5, <2>1, OrderPainted
  <2>3. out.screen = drawn /\ out.viewer = drawn
    BY <2>2 DEF Orders!Picture
  <2> HIDE DEF out, drawn, sent, saved, f
  <2> QED BY <1>10, <1>13, <2>1, <2>2, <2>3 DEF Alike
<1> QED BY <1>15, <1>16 DEF OrdersInv

\* What is cached is cached on both sides.
LEMMA SecondarySent == OrdersInv /\ Orders!SecondaryOrder => OrdersInv'
<1> SUFFICES ASSUME OrdersInv, Orders!SecondaryOrder PROVE OrdersInv'
  OBVIOUS
<1>1. /\ OrderSides(drawer, painter) /\ UNCHANGED <<viewer, shown, early>>
      /\ DOMAIN drawer = OrderFields /\ DOMAIN painter = OrderFields
      /\ DOMAIN drawer.pics = 0 .. Slots /\ painter.pics = drawer.pics
  BY DEF OrdersInv, OrderSides, Orders!SecondaryOrder
<1>2. PICK pic \in Orders!Pictures :
         \/ \E i \in (0 .. Slots - 1) \cup {Orders!Waiting} :
               /\ drawer' = [drawer EXCEPT !.pics[IF i = Orders!Waiting THEN Slots ELSE i] = pic]
               /\ painter' = Orders!CacheBitmap(painter, i, pic)
         \/ /\ drawer' = [drawer EXCEPT !.glyphs = pic]
            /\ painter' = Orders!CacheGlyph(painter, pic)
         \/ /\ drawer' = [drawer EXCEPT !.brush = pic]
            /\ painter' = Orders!CacheBrush(painter, pic)
  BY DEF Orders!SecondaryOrder
<1>3. CASE \E i \in (0 .. Slots - 1) \cup {Orders!Waiting} :
               /\ drawer' = [drawer EXCEPT !.pics[IF i = Orders!Waiting THEN Slots ELSE i] = pic]
               /\ painter' = Orders!CacheBitmap(painter, i, pic)
  <2>1. PICK i \in (0 .. Slots - 1) \cup {Orders!Waiting} :
               /\ drawer' = [drawer EXCEPT !.pics[IF i = Orders!Waiting THEN Slots ELSE i] = pic]
               /\ painter' = Orders!CacheBitmap(painter, i, pic)
    BY <1>3
  <2> DEFINE j == IF i = Orders!Waiting THEN Slots ELSE i
  <2>2. j \in 0 .. Slots /\ Orders!Slot(i) = j
    BY UpdatesAssumption DEF UpdatesAssumption, Orders!Slot
  <2> HIDE DEF j
  <2>3. /\ drawer' = [drawer EXCEPT !.pics = [drawer.pics EXCEPT ![j] = pic]]
        /\ painter' = [painter EXCEPT !.pics = [drawer.pics EXCEPT ![j] = pic]]
    BY <1>1, <2>1, <2>2 DEF Orders!CacheBitmap, j
  <2> QED BY <1>1, <2>3 DEF OrdersInv, OrderSides, Alike, OrderFields
<1>4. CASE drawer' = [drawer EXCEPT !.glyphs = pic] /\ painter' = Orders!CacheGlyph(painter, pic)
  BY <1>1, <1>4 DEF OrdersInv, OrderSides, Alike, OrderFields, Orders!CacheGlyph
<1>5. CASE drawer' = [drawer EXCEPT !.brush = pic] /\ painter' = Orders!CacheBrush(painter, pic)
  BY <1>1, <1>5 DEF OrdersInv, OrderSides, Alike, OrderFields, Orders!CacheBrush
<1> QED BY <1>2, <1>3, <1>4, <1>5

\* A reactivation starts the same again on both sides.
LEMMA OrdersRestart == OrdersInv /\ Orders!Reactivate => OrdersInv'
<1> SUFFICES ASSUME OrdersInv, Orders!Reactivate PROVE OrdersInv'
  OBVIOUS
<1> DEFINE z == [p \in Orders!Cells |-> 0]
<1>1. /\ OrderSides(drawer, painter)
      /\ DOMAIN drawer = OrderFields /\ DOMAIN painter = OrderFields
      /\ drawer' = [drawer EXCEPT !.last = Orders!FreshState.last, !.f = Orders!FreshState.f,
                                  !.bounds = Orders!FreshState.bounds, !.screen = z]
      /\ painter' = [painter EXCEPT !.last = Orders!FreshState.last, !.f = Orders!FreshState.f,
                                    !.bounds = Orders!FreshState.bounds, !.screen = z]
      /\ viewer' = z /\ UNCHANGED early
  BY DEF OrdersInv, OrderSides, Orders!Reactivate, Orders!Restarted
<1>2. Orders!FreshState.f = [k \in Kinds |-> [left |-> 0, arg |-> 0]]
  BY DEF Orders!FreshState
<1>3. OnCells(z)
  BY DEF OnCells
<1> HIDE DEF z
<1>4. /\ DOMAIN drawer' = OrderFields /\ DOMAIN painter' = OrderFields
      /\ drawer'.f = Orders!FreshState.f /\ painter'.f = Orders!FreshState.f
      /\ drawer'.last = painter'.last /\ drawer'.bounds = painter'.bounds
      /\ drawer'.screen = z /\ painter'.screen = z
      /\ drawer'.pics = drawer.pics /\ painter'.pics = painter.pics
      /\ drawer'.glyphs = drawer.glyphs /\ painter'.glyphs = painter.glyphs
      /\ drawer'.brush = drawer.brush /\ painter'.brush = painter.brush
      /\ drawer'.saved = drawer.saved /\ painter'.saved = painter.saved
  BY <1>1 DEF OrderFields
<1>5. OrderSides(drawer', painter')
  BY <1>1, <1>2, <1>3, <1>4 DEF OrderSides
<1>6. ~early' => Alike(drawer', painter', viewer')
  BY <1>1, <1>4 DEF OrdersInv, Alike
<1> QED BY <1>5, <1>6 DEF OrdersInv

\* Orders are drawn as the server meant them, whatever it leaves out, caches and clips
\* (DecodeOrders, executeOrder, clipRect), as long as text and copies start on the screen
\* and lines, glyphs without a box and saved screens have no bounds.
THEOREM OrdersAlwaysFaithful ==
    ASSUME OrdersLegal
    PROVE  MCSpec => []OrdersFaithful
<1>1. MCInit => OrdersInv
  BY OrdersStart DEF MCInit
<1>2. OrdersInv /\ [MCNext]_mcVars => OrdersInv'
  <2> SUFFICES ASSUME OrdersInv, [MCNext]_mcVars PROVE OrdersInv'
    OBVIOUS
  <2>1. Orders!Next \/ UNCHANGED ordersVars
    BY DEF MCNext, mcVars
  <2>2. CASE UNCHANGED ordersVars
    BY <2>2 DEF ordersVars, OrdersInv
  <2>3. CASE Orders!Register
    BY <2>3 DEF Orders!Register, OrdersInv
  <2> QED BY <2>1, <2>2, <2>3, PrimarySent, SecondarySent, OrdersRestart DEF Orders!Next
<1>3. OrdersInv => OrdersFaithful
  BY DEF OrdersInv, OrderSides, Alike, OrdersFaithful, Orders!OrdersFaithful,
         Orders!StatesAgree, Orders!ScreensAgree
<1> QED BY <1>1, <1>2, <1>3, PTL DEF MCSpec

==============================================================================
