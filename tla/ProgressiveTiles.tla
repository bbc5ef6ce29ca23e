-------------------------- MODULE ProgressiveTiles --------------------------
(***************************************************************************)
(* Progressive tiles (protocol/rfx/progressive.go, handleWireToSurface2 of *)
(* protocol/egfx/egfx.go).  A tile is sent coarse and then refined: the    *)
(* client keeps its coefficients, their signs and how many bits are still  *)
(* to come, and the pixels it last showed.  The tiles of a region are      *)
(* decoded by parallel workers; then what the region's rectangles uncover  *)
(* is drawn, from the tiles decoded and from those kept.                   *)
(*                                                                         *)
(* A tile has two coefficients, one of the bands that are refined by sign  *)
(* (hl) and one of the band that is not (ll); its pixels are the pair.     *)
(* The screen has two cells for each tile.                                 *)
(***************************************************************************)
EXTENDS Integers, Sequences, FiniteSets

CONSTANTS Tiles,
          Values,      \* coefficient pairs <<hl, ll>> the server encodes
          Coarse,      \* bits left out of a first pass
          ParallelAt,  \* tiles from which a region is decoded in parallel (4)
          Repeats,     \* the server may send a tile twice in a region
          MaxBlocks, MaxClears  \* bounds: tile blocks sent, clearings

VARIABLES server,   \* each tile as the server means it: [base, diff, bits]
          coeffs,   \* each tile of the client: [hl, ll, sign, bits, pixels]
          jobs,     \* the blocks of the region being decoded
          results,  \* the pixels of each block decoded
          rects,    \* the cells the region uncovers
          surface,  \* the client's surface: pixels of each cell
          meant,    \* the server's
          blocks, clears

vars == <<server, coeffs, jobs, results, rects, surface, meant, blocks, clears>>

Absent == <<>>
Cells  == Tiles \X {"left", "right"}
NoPixels == <<0, 0>>

Init == /\ server = [t \in Tiles |-> Absent]
        /\ coeffs = [t \in Tiles |-> Absent]
        /\ jobs = <<>> /\ results = <<>> /\ rects = {}
        /\ surface = [c \in Cells |-> NoPixels]
        /\ meant = surface
        /\ blocks = 0 /\ clears = 0

Abs(v)  == IF v < 0 THEN -v ELSE v
Sign(v) == IF v < 0 THEN -1 ELSE IF v = 0 THEN 0 ELSE 1
\* What bit b weighs.
Weight[b \in Nat] == IF b = 0 THEN 1 ELSE 2 * Weight[b - 1]
\* v without its last b bits; the number of those bits left.
Kept(v, b)  == Sign(v) * (Abs(v) \div Weight[b])
Trunc(v, b) == Kept(v, b) * Weight[b]

(***************************************************************************)
(* The blocks of the wire, from what the server has (external encoder).    *)
(***************************************************************************)
\* What a tile looks like when the server sent it down to its bits.
Meaning(s) == <<s.base[1] + Trunc(s.diff[1], s.bits), s.base[2] + Trunc(s.diff[2], s.bits)>>

Whole(t) ==
    {[kind |-> "simple", tile |-> t, bits |-> 0, diff |-> FALSE, hl |-> v[1], ll |-> v[2],
      means |-> [base |-> NoPixels, diff |-> v, bits |-> 0]] : v \in Values}
    \cup
    {[kind |-> "first", tile |-> t, bits |-> b, diff |-> diff,
      hl |-> Kept(v[1], b), ll |-> Kept(v[2], b),
      means |-> [base |-> IF diff /\ server[t] # Absent THEN Meaning(server[t]) ELSE NoPixels,
                 diff |-> v, bits |-> b]] : v \in Values, b \in Coarse, diff \in BOOLEAN}

\* An upgrade of what the server last sent of a tile, s: the bits between,
\* with a sign where none was known.
Upgrades(t, s) ==
    IF s = Absent THEN {}
    ELSE {[kind |-> "upgrade", tile |-> t, bits |-> b, diff |-> FALSE,
           hl |-> IF Trunc(s.diff[1], s.bits) # 0
                  THEN (Abs(s.diff[1]) \div Weight[b]) % Weight[s.bits - b] ELSE Kept(s.diff[1], b),
           ll |-> (s.diff[2] \div Weight[b]) % Weight[s.bits - b],
           means |-> [s EXCEPT !.bits = b]] : b \in 0 .. s.bits - 1}

(***************************************************************************)
(* The decoder.                                                            *)
(***************************************************************************)
\* ensureTileCoeffs: a tile not seen before has no coefficients.
Ensured(tc) == IF tc # Absent THEN tc
               ELSE [hl |-> 0, ll |-> 0, sign |-> 0, bits |-> 0, pixels |-> Absent]

\* decodeTileData: the coefficients are set or, for a difference, added to
\* those kept; the signs are the block's own in both.
Base(tc, diff) == IF diff THEN <<tc.hl, tc.ll>> ELSE NoPixels
SignKept_Sum(b, hl) == Sign(hl)
SignKept(b, hl) == Sign(b.hl)
TileData(tc, b) ==
    LET base == Base(tc, b.diff)
        hl == base[1] + b.hl * Weight[b.bits]
        ll == base[2] + b.ll * Weight[b.bits]
    IN  [hl |-> hl, ll |-> ll, sign |-> SignKept(b, hl), bits |-> b.bits, pixels |-> <<hl, ll>>]

\* decodeTileUpgrade: as many bits as lie between the position kept and the
\* new one, with the sign kept or, where there was none, the block's.
TileUpgrade(tc, b) ==
    LET n  == IF tc.bits > b.bits THEN tc.bits - b.bits ELSE 0
        hl == IF n = 0 THEN tc.hl
              ELSE tc.hl + (IF tc.sign # 0 THEN tc.sign * b.hl ELSE b.hl) * Weight[b.bits]
        ll == IF n = 0 THEN tc.ll ELSE tc.ll + b.ll * Weight[b.bits]
    IN  [hl |-> hl, ll |-> ll,
         sign |-> IF n = 0 \/ tc.sign # 0 THEN tc.sign ELSE Sign(b.hl),
         bits |-> b.bits, pixels |-> <<hl, ll>>]

\* decodeTileJob.
Decoded(tc, b) == IF b.kind = "upgrade" THEN TileUpgrade(Ensured(tc), b)
                  ELSE TileData(Ensured(tc), b)

(***************************************************************************)
(* The actions.                                                            *)
(***************************************************************************)
\* The server sends a region: one block, or two, and the cells it uncovers,
\* those of the tile first named or the two in the middle.  An upgrade
\* without a base is no job (decodeRegion, phase 1).
Middle == {c \in Cells : (c[2] = "right") = (\A u \in Tiles : c[1] <= u)}

Region ==
    /\ jobs = <<>> /\ blocks < MaxBlocks
    /\ \E t \in Tiles : \E b \in Whole(t) \cup Upgrades(t, server[t]) :
       \E more \in {<<>>} \cup
            (IF blocks + 2 > MaxBlocks THEN {}
             ELSE {<<c>> : c \in UNION {IF u = t THEN IF Repeats THEN Upgrades(t, b.means) ELSE {}
                                        ELSE Whole(u) \cup Upgrades(u, server[u]) : u \in Tiles}}) :
       \E shown \in {{<<t, "left">>, <<t, "right">>}, Middle} :
         LET all == <<b>> \o more
         IN  /\ jobs' = all
             /\ results' = [j \in 1 .. Len(all) |-> Absent]
             /\ rects' = shown
             /\ server' = IF more = <<>> THEN [server EXCEPT ![t] = b.means]
                          ELSE [server EXCEPT ![t] = b.means, ![more[1].tile] = more[1].means]
             /\ meant' = [c \in Cells |->
                  IF c \in shown /\ server'[c[1]] # Absent THEN Meaning(server'[c[1]]) ELSE meant[c]]
             /\ blocks' = blocks + Len(all)
    /\ UNCHANGED <<coeffs, surface, clears>>

\* A worker decodes a block: in order when they are few, else in any
\* (decodeRegion, phase 2).
MayDecode(j) == Len(jobs) < ParallelAt => \A i \in 1 .. j - 1 : results[i] # Absent
Decode ==
    \E j \in DOMAIN jobs :
      /\ results[j] = Absent /\ MayDecode(j)
      /\ LET tc == Decoded(coeffs[jobs[j].tile], jobs[j])
         IN  /\ coeffs' = [coeffs EXCEPT ![jobs[j].tile] = tc]
             /\ results' = [results EXCEPT ![j] = tc.pixels]
      /\ UNCHANGED <<server, jobs, rects, surface, meant, blocks, clears>>

\* All are decoded: what the rectangles uncover of them, then of the tiles
\* kept that were not (phase 3, handleWireToSurface2, GetCachedTiles).
Last(t) == LET js == {j \in DOMAIN jobs : jobs[j].tile = t}
           IN  results[CHOOSE j \in js : \A i \in js : i <= j]
DecodedNow(t) == \E j \in DOMAIN jobs : jobs[j].tile = t
FromCache(t) == coeffs[t] # Absent
Blit ==
    /\ jobs # <<>> /\ \A j \in DOMAIN jobs : results[j] # Absent
    /\ surface' = [c \in Cells |->
         IF c \notin rects THEN surface[c]
         ELSE IF DecodedNow(c[1]) THEN Last(c[1])
         ELSE IF FromCache(c[1]) THEN coeffs[c[1]].pixels
         ELSE surface[c]]
    /\ jobs' = <<>> /\ results' = <<>> /\ rects' = {}
    /\ UNCHANGED <<server, coeffs, meant, blocks, clears>>

\* The surface is deleted and made again, or the graphics reset: the tiles
\* kept go with it (ClearContext, handleResetGraphics).  Deleting a codec
\* context forgets nothing, and is not modelled.
Cleared(cs) == [t \in Tiles |-> Absent]
Clear ==
    /\ jobs = <<>> /\ clears < MaxClears /\ clears' = clears + 1
    /\ coeffs' = Cleared(coeffs)
    /\ server' = [t \in Tiles |-> Absent]
    /\ surface' = [c \in Cells |-> NoPixels] /\ meant' = surface'
    /\ UNCHANGED <<jobs, results, rects, blocks>>

Next == Region \/ Decode \/ Blit \/ Clear
Spec == Init /\ [][Next]_vars

-----------------------------------------------------------------------------
\* Between regions every tile kept has the coefficients and the precision
\* the server refines it from (bitPos, the sign buffers).
CoefficientsAgree ==
    jobs = <<>> => \A t \in Tiles : server[t] # Absent =>
        /\ coeffs[t] # Absent /\ coeffs[t].bits = server[t].bits
        /\ <<coeffs[t].hl, coeffs[t].ll>> = Meaning(server[t])
        /\ coeffs[t].sign = Sign(Trunc(server[t].diff[1], server[t].bits))

\* And the surface shows what the server means it to, with tiles decoded
\* earlier where the region uncovers them (handleWireToSurface2).
TilesShown == jobs = <<>> => surface = meant

\* Progressive tiles are refined and drawn as the server meant.
TilesFaithful == CoefficientsAgree /\ TilesShown
==============================================================================
