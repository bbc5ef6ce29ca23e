------------------------------ MODULE ClearTiles ------------------------------
(***************************************************************************)
(* ClearCodec tiles (protocol/clearcodec/clearcodec.go).  A tile is built  *)
(* of columns the decoder keeps: each new one is stored at a cursor that   *)
(* wraps, in full and as the short piece it was sent as, and later tiles   *)
(* name entries instead of sending pixels.  Whole tiles are kept as        *)
(* glyphs.  Every tile has the next sequence number.                       *)
(*                                                                         *)
(* The server knows what it stored as histories since the last reset of    *)
(* the cursors; the client has the arrays of the code.                     *)
(***************************************************************************)
EXTENDS Integers, Sequences

CONSTANTS SeqMod,             \* sequence numbers (256 in the code)
          VBars, ShortVBars,  \* entries of the two caches (32768, 16384)
          Glyphs,             \* names of glyphs
          Columns,            \* columns of a tile
          MaxTiles, MaxColumns, MaxResets  \* bounds: sent in a session

VARIABLES server,  \* [seq, bars, shorts, glyphs, tile, shown]
          decoder, \* [seq, bars, at, shorts, shortAt, glyphs, tile, shown]
          tile,    \* the header of the tile being decoded, or Absent
          taken,   \* the decoder goes on with it
          tiles, columns, resets

vars == <<server, decoder, tile, taken, tiles, columns, resets>>

Absent == <<>>
Height == 2
Rows   == 1 .. Height
Bar(c) == [r \in Rows |-> c]           \* a column of one colour
Clear  == [x \in 1 .. Columns |-> Bar(0)]
Pieces == {<<>>, <<1, 2>>}              \* short columns
Ground == 2                            \* the background of a band
Overs  == {0, 3}                       \* a subcodec's pixel, 0 for none

Init ==
    /\ server = [seq |-> 0, bars |-> <<>>, shorts |-> <<>>,
                 glyphs |-> [g \in Glyphs |-> Absent], tile |-> Clear, shown |-> Clear]
    /\ decoder = [seq |-> 0, bars |-> [i \in 0 .. VBars - 1 |-> Absent], at |-> 0,
                  shorts |-> [i \in 0 .. ShortVBars - 1 |-> Absent], shortAt |-> 0,
                  glyphs |-> [g \in Glyphs |-> Absent], tile |-> Clear, shown |-> Clear]
    /\ tile = Absent /\ taken = FALSE
    /\ tiles = 0 /\ columns = 0 /\ resets = 0

\* The n-th column stored, from 1, is at (n - 1) % size: entry i, as the
\* server knows it (external).
Stored(h, size) == {(n - 1) % size : n \in 1 .. Len(h)}
Entry(h, size, i) == h[CHOOSE n \in 1 .. Len(h) : /\ (n - 1) % size = i
                                                  /\ n + size > Len(h)]

\* constructFullVBar: the piece from row `on', background around it; rows
\* under the band are cut.
FullVBar(on, piece) ==
    [r \in Rows |-> IF r - on \in 1 .. Len(piece) THEN piece[r - on] ELSE Ground]

(***************************************************************************)
(* The decoder.                                                            *)
(***************************************************************************)
\* The sequence number expected; zero expects any.
Accepts(seq) == decoder.seq = 0 \/ seq = decoder.seq

\* A stored column moves the cursor, which wraps.
NextAt(at, size) == (at + 1) % size

\* A glyph keeps the tile as it is when all layers are drawn.
GlyphOf(d) == d.tile

\* decodeBands, for one column: the decoder after it and the column drawn.
\* A short piece that is sent is stored, a full column that is made too.
Banded(d, c) ==
    LET piece == IF c.kind = "miss" THEN c.piece ELSE d.shorts[c.i]
        full  == FullVBar(c.on, piece)
        short == IF c.kind # "miss" THEN d
                 ELSE [d EXCEPT !.shorts[d.shortAt] = piece,
                                !.shortAt = NextAt(@, ShortVBars)]
    IN  IF c.kind = "hit" THEN [d EXCEPT !.tile[c.x] = IF d.bars[c.i] = Absent THEN Bar(0)
                                                       ELSE d.bars[c.i]]
        ELSE [short EXCEPT !.bars[d.at] = full, !.at = NextAt(@, VBars),
                           !.tile[c.x] = full]

\* decodeSubcodec: a pixel over the first column.
Over(t, p) == IF p = 0 THEN t ELSE [t EXCEPT ![1][1] = p]

(***************************************************************************)
(* The actions: a tile begins, has columns, and ends.                      *)
(***************************************************************************)
\* Decompress up to the bands: the number, the reset of the cursors (the
\* entries stay), a glyph hit, which is the whole tile, and the residual
\* layer, one colour here.
Begin ==
    /\ tile = Absent /\ tiles < MaxTiles
    /\ \E reset \in BOOLEAN, residual \in {0, 1}, g \in Glyphs,
          use \in {"none", "store", "hit"} :
         LET s == IF reset THEN [server EXCEPT !.bars = <<>>, !.shorts = <<>>] ELSE server
             d == IF ~Accepts(server.seq) THEN decoder
                  ELSE IF reset THEN [decoder EXCEPT !.at = 0, !.shortAt = 0] ELSE decoder
             next == (server.seq + 1) % SeqMod
             start == [x \in 1 .. Columns |-> Bar(residual)]
         IN  /\ use = "hit" => server.glyphs[g] # Absent
             /\ reset => resets < MaxResets
             /\ resets' = IF reset THEN resets + 1 ELSE resets
             /\ server' = IF use = "hit" THEN [s EXCEPT !.seq = next, !.shown = s.glyphs[g]]
                          ELSE [s EXCEPT !.seq = next, !.tile = start]
             /\ decoder' =
                  IF ~Accepts(server.seq) THEN [d EXCEPT !.seq = next]
                  ELSE IF use # "hit" THEN [d EXCEPT !.seq = next, !.tile = start]
                  ELSE IF d.glyphs[g] = Absent THEN [d EXCEPT !.seq = next]
                  ELSE [d EXCEPT !.seq = next, !.shown = d.glyphs[g]]
             /\ tile' = IF use = "hit" THEN Absent
                        ELSE [store |-> use = "store", glyph |-> g, left |-> Columns]
             /\ taken' = (Accepts(server.seq) /\ use # "hit")
    /\ tiles' = tiles + 1
    /\ UNCHANGED columns

\* A column of a band, as the server may send it.
Sendable(x) ==
    {[kind |-> "miss", x |-> x, on |-> on, piece |-> p, i |-> 0] : on \in {0, 1}, p \in Pieces}
    \cup {[kind |-> "short", x |-> x, on |-> on, piece |-> <<>>, i |-> i] :
            on \in {0, 1}, i \in Stored(server.shorts, ShortVBars)}
    \cup {[kind |-> "hit", x |-> x, on |-> 0, piece |-> <<>>, i |-> i] :
            i \in Stored(server.bars, VBars)}

Column ==
    /\ tile # Absent /\ tile.left > 0 /\ columns < MaxColumns
    /\ \E c \in Sendable(Columns + 1 - tile.left) :
         LET piece == IF c.kind = "miss" THEN c.piece
                      ELSE IF c.kind = "short" THEN Entry(server.shorts, ShortVBars, c.i) ELSE <<>>
             full == IF c.kind = "hit" THEN Entry(server.bars, VBars, c.i)
                     ELSE FullVBar(c.on, piece)
         IN  /\ server' = [server EXCEPT
                  !.bars = IF c.kind = "hit" THEN @ ELSE Append(@, full),
                  !.shorts = IF c.kind = "miss" THEN Append(@, piece) ELSE @,
                  !.tile[c.x] = full]
             /\ decoder' = IF taken THEN Banded(decoder, c) ELSE decoder
             /\ tile' = [tile EXCEPT !.left = @ - 1]
             /\ columns' = columns + 1
    /\ UNCHANGED <<taken, tiles, resets>>

\* The subcodec layer, and the glyph.
End ==
    /\ tile # Absent
    /\ \E p \in Overs :
         LET s == [server EXCEPT !.tile = Over(@, p)]
             d == [decoder EXCEPT !.tile = Over(@, p)]
         IN  /\ server' = [s EXCEPT !.shown = s.tile,
                  !.glyphs[tile.glyph] = IF tile.store THEN s.tile ELSE @]
             /\ decoder' = IF ~taken THEN decoder
                           ELSE [d EXCEPT !.shown = d.tile,
                                   !.glyphs[tile.glyph] = IF tile.store THEN GlyphOf(d) ELSE @]
    /\ tile' = Absent /\ taken' = FALSE
    /\ UNCHANGED <<tiles, columns, resets>>

\* ResetGraphics: the client expects any number, whether the server starts
\* its numbers again or goes on; the caches stay (ResetState).
ResetState(d) == [d EXCEPT !.seq = 0]
ResetGraphics ==
    /\ tile = Absent /\ resets < MaxResets /\ resets' = resets + 1
    /\ decoder' = ResetState(decoder)
    /\ \E seq \in {0, server.seq} : server' = [server EXCEPT !.seq = seq]
    /\ UNCHANGED <<tile, taken, tiles, columns>>

Next == Begin \/ Column \/ End \/ ResetGraphics
Spec == Init /\ [][Next]_vars

-----------------------------------------------------------------------------
\* The caches hold at every entry the server may name what the server
\* stored there: after the cursors wrapped or were reset, and after a
\* reset of the graphics (vbarCursor, shortVBarCursor, glyphCache).
CachesAgree ==
    /\ \A i \in Stored(server.bars, VBars) :
          decoder.bars[i] = Entry(server.bars, VBars, i)
    /\ \A i \in Stored(server.shorts, ShortVBars) :
          decoder.shorts[i] = Entry(server.shorts, ShortVBars, i)
    /\ decoder.glyphs = server.glyphs

\* And every tile shown is the one the server meant (Decompress).
ClearFaithful == CachesAgree /\ decoder.shown = server.shown
==============================================================================
