----------------------------- MODULE ZgfxHistory -----------------------------
(***************************************************************************)
(* The compression of the graphics channel (protocol/zgfx/zgfx.go,         *)
(* ProcessPDU of protocol/egfx/egfx.go).  A message is one segment or      *)
(* several; what comes out of every segment, compressed or not, goes into  *)
(* a ring, and a match names a distance back in it.  The decoder's Reset   *)
(* is never called: a server that starts its history again at a graphics   *)
(* reset meets a ring that did not.                                        *)
(*                                                                         *)
(* The server knows its history as the sequence of all it sent since it    *)
(* last started; the client has the ring of the code.                      *)
(***************************************************************************)
EXTENDS Integers, Sequences

CONSTANTS Bytes,      \* contents
          RingSize,   \* 2,500,000 in the code
          MaxLength,  \* bound: bytes of a match
          MaxTokens, MaxRestarts  \* bounds: segments sent, histories started again

VARIABLES history, \* all the server sent since it started its history
          ring, at, \* history and historyIdx
          message, \* the message as the server means it
          dst,     \* and what the client has of it
          token,   \* what is left of the token being decoded: [bytes, dist, len, src]
          left,    \* segments still to come of the message
          tokens, restarts

vars == <<history, ring, at, message, dst, token, left, tokens, restarts>>

NoToken == [bytes |-> <<>>, dist |-> 0, len |-> 0, src |-> 0]

Init == /\ history = <<>> /\ message = <<>> /\ dst = <<>> /\ token = NoToken
        /\ ring = [i \in 0 .. RingSize - 1 |-> 0] /\ at = 0
        /\ left = 0 /\ tokens = 0 /\ restarts = 0

\* The bytes of a segment that is not compressed, of a literal or of a run.
Runs == {<<b>> : b \in Bytes} \cup {<<b, c>> : b \in Bytes, c \in Bytes}

\* The place a match starts at.
SrcIdx(dist) == IF at < dist THEN at - dist + RingSize ELSE at - dist

\* What the server may send: bytes, or a match inside what it sent and the ring still
\* has.  A match may be longer than its distance.
Sendable ==
    {[bytes |-> r, dist |-> 0, len |-> 0, src |-> 0] : r \in Runs}
    \cup {[bytes |-> <<>>, dist |-> d, len |-> n, src |-> SrcIdx(d)] :
            d \in {e \in 1 .. RingSize : e <= Len(history)}, n \in 1 .. MaxLength}

\* historyWrite: a byte goes into the ring, whose index wraps.
Written(b) == [ring |-> [ring EXCEPT ![at] = b], at |-> (at + 1) % RingSize]

\* A byte goes out and into the ring; the server meant another, or the same.
Put(b, means) ==
    /\ ring' = Written(b).ring /\ at' = Written(b).at
    /\ dst' = Append(dst, b)
    /\ history' = Append(history, means) /\ message' = Append(message, means)

\* Decompress begins with an empty buffer.
Begin == /\ left = 0 /\ token = NoToken /\ left' \in {1, 2}
         /\ message' = <<>> /\ dst' = <<>>
         /\ UNCHANGED <<history, ring, at, token, tokens, restarts>>

\* decompressSegment: a segment, of one token; the next goes on where it
\* ended, as the next token of one segment would.
Segment ==
    /\ left > 0 /\ token = NoToken /\ tokens < MaxTokens
    /\ token' \in Sendable
    /\ left' = left - 1 /\ tokens' = tokens + 1
    /\ UNCHANGED <<history, ring, at, message, dst, restarts>>

\* A byte that is sent.
Literal ==
    /\ token.bytes # <<>>
    /\ Put(Head(token.bytes), Head(token.bytes))
    /\ token' = [token EXCEPT !.bytes = Tail(@)]
    /\ UNCHANGED <<left, tokens, restarts>>

\* A byte of a match, so that it may overlap what it writes.  The server
\* means the byte so far back in what it sent.
Copy ==
    /\ token.len > 0
    /\ Put(ring[token.src % RingSize], history[Len(history) - token.dist + 1])
    /\ token' = IF token.len = 1 THEN NoToken
                ELSE [token EXCEPT !.len = @ - 1, !.src = @ + 1]
    /\ UNCHANGED <<left, tokens, restarts>>

\* A graphics reset: the server's history starts again, the ring does not.
ResetGraphics ==
    /\ left = 0 /\ token = NoToken /\ restarts < MaxRestarts /\ restarts' = restarts + 1
    /\ history' = <<>>
    /\ UNCHANGED <<ring, at, message, dst, token, left, tokens>>

Next == Begin \/ Segment \/ Literal \/ Copy \/ ResetGraphics
Spec == Init /\ [][Next]_vars

-----------------------------------------------------------------------------
\* Every message comes out as the server meant it, and the ring ends with
\* the server's history: across segments of both kinds, the end of the
\* ring, matches that overlap, and a history the server started again
\* (Decompress; Reset: "as required by MS-RDPEGFX 3.1.8.1.1" and not
\* called).
ZgfxFaithful ==
    /\ dst = message
    /\ \A d \in 1 .. RingSize : d <= Len(history) =>
          ring[(at - d) % RingSize] = history[Len(history) - d + 1]
==============================================================================
