---------------------------- MODULE SecureStream ----------------------------
(***************************************************************************)
(* The encrypted streams of Standard RDP Security (protocol/sec/crypto.go, *)
(* sendDataPDU, sendChannelData and sendConfirmActive of client.go).  Each *)
(* direction is one stream cipher: a packet is only readable at the place  *)
(* in the stream, and under the key, it was encrypted at.  Keys are        *)
(* replaced after Threshold packets.  Several goroutines send: input, the  *)
(* channels, and the receive loop's answers.                               *)
(***************************************************************************)
EXTENDS Integers, Sequences, FiniteSets

CONSTANTS Senders,    \* goroutines that send on a channel or the I/O channel
          Chunks,     \* bound: chunks of a message of each (1: sendDataPDU)
          Threshold,  \* keyUpdateThreshold, 4096 in the code
          MaxMessages, MaxPackets  \* bounds: messages sent, packets received

VARIABLES lock,     \* the sender that holds writeMu, or None
          todo,     \* chunks each sender has still to send of its message
          packet,   \* what each sender encrypted and did not write: a
                    \* sequence of at most one packet
          encrypt,  \* [count, key]: encryptCount, which key
          wire,     \* the packets written
          messages, \* messages begun
          decrypt,  \* [count, key] of the other direction
          garbled,  \* a packet was decrypted at another place or key
          received  \* packets the server sent encrypted

vars == <<lock, todo, packet, encrypt, wire, messages, decrypt, garbled, received>>

None == "none"
Fresh == [count |-> 0, key |-> 0]

Init == /\ lock = None
        /\ todo = [s \in Senders |-> 0]
        /\ packet = [s \in Senders |-> <<>>]
        /\ encrypt = Fresh /\ wire = <<>> /\ messages = 0
        /\ decrypt = Fresh /\ garbled = FALSE /\ received = 0

\* The place and key of the n-th packet of a direction, from 0, as the
\* other side counts (MS-RDPBCGR 5.3.6, external).
Place(n) == [count |-> n % Threshold, key |-> n \div Threshold]

\* Encrypt and Decrypt: the key is updated when the last one was used
\* Threshold times, before the packet.
Updated_Late(c) == IF c.count > Threshold THEN [count |-> 0, key |-> c.key + 1] ELSE c
Updated(c) == IF c.count = Threshold THEN [count |-> 0, key |-> c.key + 1] ELSE c
Used(c) == [c EXCEPT !.count = @ + 1]

\* A sender has a message: all of sendDataPDU and sendChannelData runs
\* under writeMu.
CanLock(s) == lock = None
Lock(s) ==
    /\ messages < MaxMessages /\ todo[s] = 0 /\ packet[s] = <<>> /\ CanLock(s)
    /\ lock' = s
    /\ \E n \in 1 .. Chunks[s] : todo' = [todo EXCEPT ![s] = n]
    /\ messages' = messages + 1
    /\ UNCHANGED <<packet, encrypt, wire, decrypt, garbled, received>>

\* The next chunk is encrypted.
EncryptChunk(s) ==
    LET c == Updated(encrypt)
    IN  /\ todo[s] > 0 /\ packet[s] = <<>>
        /\ packet' = [packet EXCEPT ![s] = <<[from |-> s, left |-> todo[s], at |-> c]>>]
        /\ encrypt' = Used(c)
        /\ todo' = [todo EXCEPT ![s] = @ - 1]
        /\ UNCHANGED <<lock, wire, messages, decrypt, garbled, received>>

\* And written, the lock being let go after the last (tpkt Write).
WriteChunk(s) ==
    /\ packet[s] # <<>>
    /\ wire' = Append(wire, packet[s][1])
    /\ packet' = [packet EXCEPT ![s] = <<>>]
    /\ lock' = IF todo[s] = 0 THEN None ELSE lock
    /\ UNCHANGED <<todo, encrypt, messages, decrypt, garbled, received>>

\* A packet of the server.  Every one that is encrypted is decrypted, also
\* of a channel nobody reads and of the fast path, before it is looked at
\* (decryptSlowPath, handleFastPathPDU); one that is not does not count.
Decrypts(kind) == kind # "plain"
Receive(kind) ==
    LET c == Updated(decrypt)
    IN  /\ received < MaxPackets
        /\ received' = IF kind = "plain" THEN received ELSE received + 1
        /\ decrypt' = IF Decrypts(kind) THEN Used(c) ELSE decrypt
        /\ garbled' = (garbled \/ (Decrypts(kind) /\ c # Place(received)))
        /\ UNCHANGED <<lock, todo, packet, encrypt, wire, messages>>

Next == \/ \E s \in Senders : Lock(s) \/ EncryptChunk(s) \/ WriteChunk(s)
        \/ \E kind \in {"io", "channel", "unknown", "fast", "plain"} : Receive(kind)

Spec == Init /\ [][Next]_vars

-----------------------------------------------------------------------------
\* The server can read every packet: they are on the wire in the order,
\* and under the keys, they were encrypted with, whoever sent them
\* (writeMu around Encrypt and Write).
Readable == \A n \in 1 .. Len(wire) : wire[n].at = Place(n - 1)

\* Nothing comes between the chunks of a message (sendChannelData).
ChunksTogether ==
    \A n \in 1 .. Len(wire) - 1 :
        wire[n].left > 1 => /\ wire[n + 1].from = wire[n].from
                            /\ wire[n + 1].left = wire[n].left - 1

\* What the client decrypts it decrypts where the server encrypted it.
StreamFaithful == Readable /\ ChunksTogether /\ ~garbled
==============================================================================
