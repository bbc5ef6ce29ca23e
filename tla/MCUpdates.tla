------------------------------ MODULE MCUpdates ------------------------------
(***************************************************************************)
(* What the client does with the bytes of a session, for TLC in one run:   *)
(* the encrypted stream, graphics updates up to their dispatch, drawing    *)
(* orders, and what decompresses and decodes the graphics channel.  Each   *)
(* hands the next finished data, so a behaviour runs one of them.          *)
(***************************************************************************)
EXTENDS Integers, TLC

CONSTANTS Parts, Senders, Chunked, MaxChunks, Threshold, MaxMessages, MaxPackets, Blocks, Codes,
          HistSize, MaxUpdates, MaxLength, UncompressedFlush, SlowInFinalization,
          Width, Wide, Slots, Kinds, OffScreen, Bounded, MaxOrders, Bytes,
          RingSize, MaxTokens, MaxRestarts, Tiles, Coarse, ParallelAt, Repeats,
          MaxBlocks, MaxClears, SeqMod, VBars, ShortVBars, Glyphs, Columns,
          MaxTiles, MaxColumns, MaxResets

VARIABLES part,
          lock, todo, packet, encrypt, wire, messages, decrypt, garbled, received,
          sender, receiver, pdu, paint, phase,
          drawer, painter, viewer, shown, early, orders,
          history, ring, ringAt, message, dst, token, segments, tokens, restarts,
          encoder, coeffs, jobs, results, rects, surface, meant, blocks, clears,
          clearEncoder, decoder, tile, taken, tiles, columns, resets

\* What the proofs need of the constants.
ASSUME UpdatesAssumption ==
    /\ Threshold \in Nat \ {0} /\ MaxChunks \in Nat /\ "none" \notin Senders
    /\ HistSize \in Nat /\ VBars \in Nat \ {0} /\ ShortVBars \in Nat \ {0}
    /\ RingSize \in Nat \ {0} /\ Coarse \subseteq Nat
    /\ Width \in Nat /\ Wide \in Nat \ {0} /\ Slots \in Nat

\* The messages of the channels are cut into chunks.
MCChunks == [s \in Senders |-> IF s \in Chunked THEN MaxChunks ELSE 1]

\* Coefficients with a bit in every place, of both signs.
MCValues == {<<-3, 2>>, <<1, 3>>}

\* What a fragment carries is compared and copied, and nothing else.
Symmetry == Permutations(Blocks)

Stream == INSTANCE SecureStream WITH
    Chunks <- MCChunks
Receive == INSTANCE ReceivePath WITH
    server <- sender, client <- receiver
Orders == INSTANCE DrawingOrders WITH
    server <- drawer, client <- painter
Zgfx == INSTANCE ZgfxHistory WITH
    left <- segments, at <- ringAt
Progressive == INSTANCE ProgressiveTiles WITH
    server <- encoder, Values <- MCValues
Clear == INSTANCE ClearTiles WITH
    server <- clearEncoder

streamVars == <<lock, todo, packet, encrypt, wire, messages, decrypt, garbled,
                received>>
receiveVars == <<sender, receiver, pdu, paint, phase>>
ordersVars == <<drawer, painter, viewer, shown, early, orders>>
zgfxVars == <<history, ring, ringAt, message, dst, token, segments, tokens, restarts>>
progressiveVars == <<encoder, coeffs, jobs, results, rects, surface, meant, blocks,
                     clears>>
clearVars == <<clearEncoder, decoder, tile, taken, tiles, columns, resets>>
mcVars == <<part, streamVars, receiveVars, ordersVars, zgfxVars, progressiveVars, clearVars>>

\* What is not run starts in one state.
MCInit ==
    /\ part \in Parts
    /\ Stream!Init
    /\ Receive!Init
    /\ Orders!Init
    /\ Zgfx!Init
    /\ Progressive!Init
    /\ Clear!Init
    /\ part # "orders" => shown

MCNext ==
    /\ UNCHANGED part
    /\ \/ part = "stream" /\ Stream!Next /\ UNCHANGED <<receiveVars, ordersVars, zgfxVars,
                            progressiveVars, clearVars>>
       \/ part = "receive" /\ Receive!Next /\ UNCHANGED <<streamVars, ordersVars,
                            zgfxVars, progressiveVars, clearVars>>
       \/ part = "orders" /\ Orders!Next /\ UNCHANGED <<streamVars, receiveVars, zgfxVars,
                            progressiveVars, clearVars>>
       \/ part = "zgfx" /\ Zgfx!Next /\ UNCHANGED <<streamVars, receiveVars, ordersVars,
                            progressiveVars, clearVars>>
       \/ part = "progressive" /\ Progressive!Next /\ UNCHANGED <<streamVars, receiveVars,
                            ordersVars, zgfxVars, clearVars>>
       \/ part = "clear" /\ Clear!Next /\ UNCHANGED <<streamVars, receiveVars, ordersVars,
                            zgfxVars, progressiveVars>>

MCSpec == MCInit /\ [][MCNext]_mcVars

\* The properties of the modules, under the names of this one: see there.
StreamFaithful == Stream!StreamFaithful
ReceiveFaithful == Receive!ReceiveFaithful
OrdersFaithful == Orders!OrdersFaithful
TilesFaithful == Progressive!TilesFaithful
ZgfxFaithful == Zgfx!ZgfxFaithful
ClearFaithful == Clear!ClearFaithful

\* The decoders that keep state from one update to the next show what the server meant.
DecodersFaithful == TilesFaithful /\ ZgfxFaithful /\ ClearFaithful
==============================================================================
