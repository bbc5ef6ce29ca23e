----------------------------- MODULE ReceivePath -----------------------------
(***************************************************************************)
(* Graphics updates, from the wire to the viewer (handleFastPathPDU,       *)
(* dispatchFastPathUpdate and handleSlowPathPDU of client.go, the MPPC     *)
(* decompressor of protocol/mppc, the pointer cache).  The server cuts an  *)
(* update into fragments, compresses each against a history both sides     *)
(* keep, and packs fragments into PDUs; the client has one history for     *)
(* both paths, one reassembly buffer, and one paint around each PDU.       *)
(*                                                                         *)
(* An update is a code and a sequence of blocks, a block what one fragment *)
(* carries.  PDUs are read by one goroutine in the order sent, so a        *)
(* fragment is sent and handled in one step.                               *)
(***************************************************************************)
EXTENDS Integers, Sequences

CONSTANTS Blocks,        \* contents of a fragment
          Codes,         \* codes of the updates
          HistSize,      \* blocks the history holds (64 KB in the code)
          MaxUpdates, MaxLength,  \* bounds: updates, fragments of one
          UncompressedFlush,  \* the server flushes in a packet not compressed
          SlowInFinalization  \* it sends slow-path updates while finalizing

VARIABLES server,   \* [hist, off, now, code, left, cache, cursor, frames, sent]
          client,   \* [hist, off, frag, code, cache, cursor, acks, done]
          pdu,      \* a fast-path PDU is being handled
          paint,    \* [flag, shown]: c.painting, a paint open at the viewer
          phase     \* "running", or "finalizing" a reactivation

vars == <<server, client, pdu, paint, phase>>

Places == 1 .. HistSize
None  == 0

\* `now' are the blocks of the current update that went out, `left' how
\* many are still to go.
Init ==
    /\ server = [hist |-> [s \in Places |-> None], off |-> 0, now |-> <<>>,
                 code |-> "none", left |-> 0, cache |-> [i \in Blocks |-> None],
                 cursor |-> None, frames |-> 0, sent |-> <<>>]
    /\ client = [hist |-> [s \in Places |-> None], off |-> 0, frag |-> <<>>,
                 code |-> "none", cache |-> [i \in Blocks |-> None],
                 cursor |-> None, acks |-> 0, done |-> <<>>]
    /\ pdu = FALSE
    /\ paint = [flag |-> FALSE, shown |-> FALSE]
    /\ phase = "running"

(***************************************************************************)
(* Compression.  A packet is plain, or a literal, or a match: a distance   *)
(* back in the history, which wraps.  A reset starts the history at its    *)
(* front, a flush empties it too.                                          *)
(***************************************************************************)
Start(h, p) == IF p.reset \/ p.flush THEN 0 ELSE h.off
Hist(h, p)  == IF p.flush THEN [s \in Places |-> None] ELSE h.hist
Behind(at, dist) == ((at - dist) % HistSize) + 1

\* Compressed forms of block b the server may choose; what its history is
\* afterwards (an external peer, as mppc.go reads it).
Packets(h, b) ==
    {p \in [form : {"plain", "literal", "match"}, reset : BOOLEAN, flush : BOOLEAN,
            dist : 0 .. HistSize, b : {b}] :
        /\ p.form = "plain" => ~p.reset /\ p.dist = 0 /\ (p.flush => UncompressedFlush)
        /\ p.form = "literal" => p.dist = 0
        /\ p.form # "plain" => Start(h, p) < HistSize
        /\ p.form = "match" =>
             /\ p.dist > 0 /\ ~p.flush
             /\ h.hist[Behind(Start(h, p), p.dist)] = b}
Sent(h, p) ==
    IF p.form = "plain"
    THEN IF p.flush THEN [h EXCEPT !.hist = Hist(h, p), !.off = 0] ELSE h
    ELSE [h EXCEPT !.hist = [Hist(h, p) EXCEPT ![Start(h, p) + 1] = p.b],
                   !.off = Start(h, p) + 1]

\* Decompressor.Decompress of a compressed packet: a literal or the copy of
\* what the client has at that distance.  [ok, out, hist, off]
Started(h, p) == IF p.reset \/ p.flush THEN 0 ELSE h.off
Decompress(h, p) ==
    LET at == Started(h, p)
        old == Hist(h, p)
        b == IF p.form = "literal" THEN p.b ELSE old[Behind(at, p.dist)]
    IN  IF at >= HistSize THEN [ok |-> FALSE, out |-> None, hist |-> old, off |-> at]
        ELSE [ok |-> TRUE, out |-> b, hist |-> [old EXCEPT ![at + 1] = b], off |-> at + 1]

\* A packet that is not compressed does not reach the decompressor,
\* whatever its flags.
Unpack(h, p) ==
    IF p.form = "plain" THEN [ok |-> TRUE, out |-> p.b, hist |-> h.hist, off |-> h.off]
    ELSE Decompress(h, p)

(***************************************************************************)
(* Dispatching.  A pointer update starts with its index in the cache; a    *)
(* new pointer ends with its shape.                                        *)
(***************************************************************************)
Shape(u) == u.blocks[Len(u.blocks)]
Index(u) == u.blocks[1]

\* cacheAndNotifyPointer: kept at its index, and shown.
Cached_First(u, cache) == [i \in Blocks |-> IF cache[i] = None THEN Shape(u) ELSE cache[i]]
Cached(u, cache) == [cache EXCEPT ![Index(u)] = Shape(u)]

\* dispatchFastPathUpdate and handleUpdatePDU, for a whole update;
\* handlePointerCached; the frame marker of handleSurfaceCommands.
Dispatch(c, u) ==
    [c EXCEPT !.done = Append(@, u),
              !.cache = IF u.code = "new" THEN Cached(u, @) ELSE @,
              !.cursor = IF u.code = "new" THEN Shape(u)
                         ELSE IF u.code = "cached" THEN c.cache[Index(u)] ELSE @,
              !.acks = IF u.code = "frame" THEN @ + 1 ELSE @]

\* Handlers that bracket what they do with a paint (handleOrders,
\* processBitmapRects).
Brackets == {"orders"}

\* beginPaint and endPaint: one flag, so that an inner endPaint ends the
\* paint of the whole PDU.
Begin(q) == [flag |-> TRUE, shown |-> q.shown \/ ~q.flag]
End(q) == [flag |-> FALSE, shown |-> q.shown /\ ~q.flag]

Bracketed(out) == IF out # <<>> /\ out[1].code \in Brackets THEN End(Begin(paint)) ELSE paint

\* handleFastPathPDU, for one fragment: the client, and the update that
\* is now whole, if one is.  Without a first, next and last are discarded.
Handle(c, kind, code, b) ==
    CASE kind = "single" -> [client |-> c, out |-> <<[code |-> code, blocks |-> <<b>>]>>]
      [] kind = "first" ->
            [client |-> [c EXCEPT !.code = code, !.frag = <<b>>], out |-> <<>>]
      [] kind = "next" /\ c.frag # <<>> ->
            [client |-> [c EXCEPT !.frag = Append(@, b)], out |-> <<>>]
      [] kind = "last" /\ c.frag # <<>> ->
            [client |-> [c EXCEPT !.frag = <<>>],
             out |-> <<[code |-> c.code, blocks |-> Append(c.frag, b)]>>]
      [] OTHER -> [client |-> c, out |-> <<>>]

(***************************************************************************)
(* The server.  It starts an update when the last is out; single updates   *)
(* may come between the fragments of another.                              *)
(***************************************************************************)
Whole(s, u) ==
    [s EXCEPT !.sent = Append(@, u), !.now = <<>>, !.left = 0,
              !.cache = IF u.code = "new" THEN [i \in Blocks |->
                            IF i = u.blocks[1] THEN Shape(u) ELSE @[i]] ELSE @,
              !.cursor = CASE u.code = "new" -> Shape(u)
                           [] u.code = "cached" -> s.cache[u.blocks[1]]
                           [] OTHER -> @,
              !.frames = IF u.code = "frame" THEN @ + 1 ELSE @]

\* A cached pointer is one the server sent.
MaySend(u) == u.code = "cached" => server.cache[u.blocks[1]] # None

\* The fragment the server sends next: a single update, or a piece of the
\* one it is cutting; and what it has then.
Pieces ==
    {x \in [kind : {"single", "first"}, code : Codes, b : Blocks, n : 1 .. MaxLength] :
        /\ Len(server.sent) < MaxUpdates
        /\ x.kind = "single" => x.n = 1 /\ MaySend([code |-> x.code, blocks |-> <<x.b>>])
        /\ x.kind = "first" => x.n > 1 /\ server.left = 0}
    \cup {[kind |-> IF server.left = 1 THEN "last" ELSE "next", code |-> server.code,
           b |-> b, n |-> server.left] : b \in IF server.left > 0 THEN Blocks ELSE {}}

AfterPiece(s, x) ==
    CASE x.kind = "single" ->
            [Whole(s, [code |-> x.code, blocks |-> <<x.b>>]) EXCEPT
                !.now = s.now, !.left = s.left]
      [] x.kind = "first" -> [s EXCEPT !.now = <<x.b>>, !.code = x.code, !.left = x.n - 1]
      [] x.kind = "next"  -> [s EXCEPT !.now = Append(@, x.b), !.left = @ - 1]
      [] x.kind = "last"  -> Whole(s, [code |-> s.code, blocks |-> Append(s.now, x.b)])

(***************************************************************************)
(* The actions.                                                            *)
(***************************************************************************)
BeginPdu ==
    /\ ~pdu /\ pdu' = TRUE
    /\ paint' = Begin(paint)
    /\ UNCHANGED <<server, client, phase>>

\* A fragment of the PDU.  One that does not decompress is skipped.
HandleUpdate ==
    /\ pdu
    /\ \E x \in Pieces : \E p \in Packets(server, x.b) :
         LET d == Unpack(client, p)
             c == [client EXCEPT !.hist = d.hist, !.off = d.off]
             r == Handle(c, x.kind, x.code, d.out)
         IN  /\ MaySend([code |-> x.code, blocks |-> Append(server.now, x.b)])
             /\ server' = AfterPiece(Sent(server, p), x)
             /\ IF ~d.ok THEN client' = c /\ UNCHANGED paint
                ELSE /\ client' = IF r.out = <<>> THEN r.client
                                  ELSE Dispatch(r.client, r.out[1])
                     /\ paint' = Bracketed(r.out)
    /\ UNCHANGED <<pdu, phase>>

EndPdu == pdu /\ pdu' = FALSE /\ paint' = End(paint) /\ UNCHANGED <<server, client, phase>>

\* handleSlowPathPDU: an update in one piece, the same history, no paint
\* but the handler's own.  While a session is finalized it is
\* decompressed, and ignored (handleFinalization).
SlowUpdate ==
    /\ ~pdu /\ Len(server.sent) < MaxUpdates
    /\ phase = "finalizing" => SlowInFinalization
    /\ \E code \in Codes \ {"frame"}, b \in Blocks : \E p \in Packets(server, b) :
         LET u == [code |-> code, blocks |-> <<b>>]
             d == Unpack(client, p)
             c == [client EXCEPT !.hist = d.hist, !.off = d.off]
         IN  /\ MaySend(u)
             /\ server' = [Whole(Sent(server, p), u) EXCEPT !.now = server.now, !.left = server.left]
             /\ IF ~d.ok \/ phase = "finalizing" THEN client' = c /\ UNCHANGED paint
                ELSE /\ client' = Dispatch(c, [code |-> code, blocks |-> <<d.out>>])
                     /\ paint' = Bracketed(<<u>>)
    /\ UNCHANGED <<pdu, phase>>

\* A reactivation keeps the history and the reassembly; fast-path PDUs are
\* handled while it is finalized (handleReactivation, readDecryptedPDU).
Reactivate ==
    /\ ~pdu /\ phase' = IF phase = "running" THEN "finalizing" ELSE "running"
    /\ UNCHANGED <<server, client, pdu, paint>>

Next == BeginPdu \/ HandleUpdate \/ EndPdu \/ SlowUpdate \/ Reactivate

Spec == Init /\ [][Next]_vars

-----------------------------------------------------------------------------
\* Every update is dispatched once, whole, in the order sent, with its own
\* code: across fragments, both paths, resets and flushes of the shared
\* history and a reactivation (mppcDecomp, fragBuf).
UpdatesWhole == client.done = server.sent

\* The pointer shown is the server's, whichever entry it was shown from
\* (cacheAndNotifyPointer, handlePointerCached).
PointerCurrent == client.cursor = server.cursor /\ client.cache = server.cache

\* Every frame that ended was acknowledged (handleSurfaceCommands).
FramesAcked == client.acks = server.frames

\* Outside a PDU nothing is being painted, and the flag and the viewer
\* agree: no paint is left open (beginPaint, endPaint).
PaintsPaired == paint.shown = paint.flag /\ (~pdu => ~paint.flag)

\* What the receive path owes the server and the viewer.
ReceiveFaithful == UpdatesWhole /\ PointerCurrent /\ FramesAcked /\ PaintsPaired

\* The viewer is shown a PDU at once: its paint ends with it
\* (client.go: "Wrap the entire PDU in a single paint so all updates are
\* atomic").  Violated: the handler's own endPaint ends it.
PduAtomic == pdu => paint.shown
==============================================================================
