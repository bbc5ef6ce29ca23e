---------------------------- MODULE DrawingOrders ----------------------------
(***************************************************************************)
(* Drawing orders, from the server's screen to the viewer                  *)
(* (protocol/orders, executeOrder of client.go, framebuffer.go).  The      *)
(* server leaves out of an order what it shares with the last order of its *)
(* kind, so both sides keep the last of every kind; pictures, glyphs and   *)
(* brushes are sent once and drawn from caches.  The stream is reliable    *)
(* and read by one goroutine: an order is sent and executed in one step.   *)
(*                                                                         *)
(* The screen is one row of Width cells, every order Wide cells wide: the  *)
(* vertical axis repeats the horizontal one.  `server' is what the server  *)
(* believes the client holds, painted cell by cell; `client' is computed   *)
(* with the rectangle arithmetic of the code.                              *)
(***************************************************************************)
EXTENDS Integers, FiniteSets

CONSTANTS Width, Wide,  \* cells of the screen, of an order
          Slots,        \* entries of the bitmap cache, the waiting list apart
          Kinds,        \* the primary orders the server uses
          OffScreen,    \* the orders that may start left of the screen
          Bounded,      \* the orders the server sends with bounds
          MaxOrders     \* bound: orders in a session

VARIABLES server,  \* [last, f, bounds, screen, pics, glyphs, brush, saved]
          client,  \* the same, as the client has it
          viewer,  \* the cells of the viewer
          shown,   \* OnBitmap was called: the viewer is there
          early,   \* an order was executed before that
          orders   \* orders sent

vars == <<server, client, viewer, shown, early, orders>>

Cells  == 0 .. Width - 1
Steps  == 0 .. Wide - 1
Colour == {0, 1}
Waiting == 32767                                     \* WaitingListIndex
Pictures == {[i \in Steps |-> i % 2], [i \in Steps |-> 1]}
NoBounds == [lo |-> 0, hi |-> 0]
Ranges   == {[lo |-> 0, hi |-> 0], [lo |-> 1, hi |-> Width - 1]}
Absent   == <<>>

\* A fresh decoder state: every field of every kind is zero
\* (DecoderState{}).
FreshState == [last |-> "none", bounds |-> NoBounds,
               f |-> [k \in Kinds |-> [left |-> 0, arg |-> 0]]]

Fresh == [last |-> FreshState.last, f |-> FreshState.f,
          bounds |-> FreshState.bounds,
          screen |-> [p \in Cells |-> 0],
          pics |-> [i \in 0 .. Slots |-> Absent],
          glyphs |-> Absent, brush |-> Absent,
          saved |-> [i \in Steps |-> 0]]

Init == /\ server = Fresh /\ client = Fresh
        /\ viewer = [p \in Cells |-> 0]
        /\ shown \in BOOLEAN /\ early = FALSE /\ orders = 0

(***************************************************************************)
(* The wire.  An order names its kind only when it changed, carries the    *)
(* fields in `has', its coordinates absolute or as a difference, and its   *)
(* bounds: none, the last ones, or the edges that changed.                 *)
(***************************************************************************)
Wire(s, k, left, arg, range) ==
    LET needed == {x \in {"left", "arg"} :
                      (x = "left" /\ left # s.f[k].left) \/ (x = "arg" /\ arg # s.f[k].arg)}
        less(now, was, form) == IF form = "delta" THEN now - was ELSE now
    IN  {[typed  |-> form = "full" \/ s.last # k, kind |-> k, delta |-> form = "delta",
          has    |-> IF form = "full" THEN {"left", "arg"} ELSE needed,
          left   |-> less(left, s.f[k].left, form),
          arg    |-> IF k = "scr" THEN less(arg, s.f[k].arg, form) ELSE arg,
          bounds |-> IF range = Absent THEN "none"
                     ELSE IF range = s.bounds THEN "last" ELSE "new",
          edges  |-> IF range = Absent THEN {}
                     ELSE {e \in {"lo", "hi"} : range[e] # s.bounds[e]},
          range  |-> range] : form \in {"full", "terse", "delta"}}

\* The fields a decoder reads as coordinates, differences in a delta order:
\* those of the block transfers, with the source of a copy; of the texts;
\* of the lines, polygons, ellipses and saved screens.
BlitCoordinates(k) == IF k = "scr" THEN {"left", "arg"} ELSE {"left"}
TextCoordinates == {"left"}
ShapeCoordinates == {"left"}
Coordinates(k) == CASE k \in {"text", "label"} -> TextCoordinates
                    [] k \in {"line", "save"} -> ShapeCoordinates
                    [] OTHER -> BlitCoordinates(k)

\* A field the order carries, else what the last order of its kind had
\* (readU8 ... readBrush: the target is left alone).
Field(w, k, name, now) ==
    IF name \notin w.has THEN now
    ELSE IF w.delta /\ name \in Coordinates(k) THEN now + w[name] ELSE w[name]

\* decodeBounds: an edge the order leaves out is the last one.
DecodedBounds(w, now) ==
    IF w.bounds = "new"
    THEN [e \in {"lo", "hi"} |-> IF e \in w.edges THEN w.range[e] ELSE now[e]]
    ELSE now

\* The kind of an order: named, or the last one's.
KindOf(w, c) == IF w.typed THEN w.kind ELSE c.last

\* DecodeOrders, for one primary order.
Decoded(w, c) ==
    LET k == KindOf(w, c)
    IN  [c EXCEPT !.last = k, !.bounds = DecodedBounds(w, @),
                  !.f[k] = [left |-> Field(w, k, "left", @.left),
                            arg  |-> Field(w, k, "arg", @.arg)]]

(***************************************************************************)
(* Rectangles, as the code clips them: [x, w] and, for a source, where its *)
(* first cell moved to.                                                    *)
(***************************************************************************)
Rect(x, w) == [x |-> x, w |-> w]

\* Framebuffer.clipRect, and the same lines in the execute functions.
ClipFb(r) ==
    LET x == IF r.x < 0 THEN 0 ELSE r.x
        w == IF r.x < 0 THEN r.w + r.x ELSE r.w
    IN  Rect(x, IF x + w > Width THEN Width - x ELSE w)

\* Client.clipRect: the bounds' right edge is inside.
ClipTo_Exclusive(b, r) ==
    IF b = Absent THEN r
    ELSE LET x == IF r.x < b.lo THEN b.lo ELSE r.x
             w == r.w - (x - r.x)
         IN  Rect(x, IF x + w > b.hi THEN b.hi - x ELSE w)
ClipTo(b, r) ==
    IF b = Absent THEN r
    ELSE LET x == IF r.x < b.lo THEN b.lo ELSE r.x
             w == r.w - (x - r.x)
         IN  Rect(x, IF x + w > b.hi + 1 THEN b.hi + 1 - x ELSE w)

In(p, r) == r.x <= p /\ p < r.x + r.w

\* The source's cell for the first cell of a clipped rectangle.
Shift(r, was) == r.x - was

\* WriteRect: cells of src, from its first, at the clipped rectangle;
\* nothing moves in src when the left of r is off the screen.
WriteRect(screen, r, src) ==
    LET c == ClipFb(r) IN [p \in Cells |-> IF In(p, c) THEN src[p - c.x]
                                           ELSE screen[p]]

\* ReadRect: the cells of r on the screen, packed from the first.
ReadRect(screen, r) ==
    LET c == ClipFb(r) IN [i \in Steps |-> IF i < c.w THEN screen[c.x + i] ELSE 0]

\* A picture a viewer was given, at r; it draws what is on its screen.
ShowAt(cells, r, src) == [p \in Cells |-> IF In(p, r) THEN src[p - r.x] ELSE cells[p]]

\* emitDirtyRect, onBitmapFromFB: the viewer gets the framebuffer's cells.
ShowFb(cells, screen, r) == [p \in Cells |-> IF In(p, r) THEN screen[p] ELSE cells[p]]

(***************************************************************************)
(* The execute functions: [screen, viewer] after one order with fields     *)
(* f, clipped to b.                                                        *)
(***************************************************************************)
Picture(screen, cells) == [screen |-> screen, viewer |-> cells]
Whole(f) == Rect(f.left, Wide)

\* An opaque rectangle is rendered, clipped and written, by the common
\* path of executeOrder.
PaintOpaque(c, f, b, v) ==
    LET r == ClipTo(b, Whole(f))
        pixels == [i \in Steps |-> f.arg]
    IN  IF r.w <= 0 THEN Picture(c.screen, v)
        ELSE Picture(WriteRect(c.screen, r, pixels), ShowAt(v, r, pixels))

\* A glyph has cells that leave the screen as it is: it is laid over what
\* the screen has there, and the result is written and shown.
PaintText(c, f, b, v) ==
    LET r == ClipTo(b, Whole(f))
        under == ReadRect(c.screen, r)
        over == [i \in Steps |->
                   IF i + r.x - f.left \in Steps /\ c.glyphs[i + r.x - f.left] = 1
                   THEN f.arg ELSE under[i]]
    IN  IF c.glyphs = Absent \/ r.w <= 0 THEN Picture(c.screen, v)
        ELSE Picture(WriteRect(c.screen, r, over), ShowAt(v, r, over))

\* A glyph that comes with the order (FastGlyph) is cached when it is
\* drawn.
Inline(c, k, f) == IF k = "label" /\ f.arg = 1 THEN [i \in Steps |-> i % 2] ELSE c.glyphs

\* Text without a box behind it is drawn into the framebuffer, glyph by
\* glyph, the bounds not looked at, and read back for the viewer.
PaintLabel(c, f, b, v) ==
    LET glyph == Inline(c, "label", f)
        cells == [p \in Cells |-> IF In(p, Whole(f)) /\ glyph[p - f.left] = 1 THEN 1
                                  ELSE c.screen[p]]
    IN  IF glyph = Absent THEN Picture(c.screen, v)
        ELSE Picture(cells, ShowFb(v, cells, ClipFb(Whole(f))))

\* DstBlt: the destination through the raster operation, here inverted.
PaintDst(c, f, b, v) ==
    LET r == ClipTo(b, ClipFb(Whole(f)))
        cells == [p \in Cells |-> IF In(p, r) THEN 1 - c.screen[p] ELSE c.screen[p]]
    IN  Picture(cells, ShowFb(v, cells, r))

\* resolveBrush: a brush that was never sent is solid.
Brush(c) == IF c.brush = Absent THEN [i \in Steps |-> 1] ELSE c.brush

\* PatBlt: the brush, by the position of the cell and not of the order.
PaintPat(c, f, b, v) ==
    LET r == ClipTo(b, ClipFb(Whole(f)))
        cells == [p \in Cells |-> IF In(p, r) THEN Brush(c)[p % Wide] ELSE c.screen[p]]
    IN  Picture(cells, ShowFb(v, cells, r))

\* ScrBlt: the source moves with the clipped left edge; CopyRect reads all
\* of it before it writes.
PaintScr(c, f, b, v) ==
    LET r == ClipTo(b, Whole(f))
        scratch == ReadRect(c.screen, Rect(f.arg + Shift(r, f.left), r.w))
    IN  IF r.w <= 0 THEN Picture(c.screen, v)
        ELSE Picture(WriteRect(c.screen, r, scratch), ShowAt(v, r, scratch))

\* The entry of the bitmap cache an index names: the waiting list is the
\* one after the regular entries.
Slot(i) == IF i = Waiting THEN Slots ELSE i

\* What MemBlt and Mem3Blt do to r: clipped to the picture, the screen and
\* the bounds, the source moving along.
Placed(f, b) ==
    LET s == ClipFb(Whole(f))
        r == ClipTo(b, s)
    IN  [r |-> r, src |-> Shift(s, f.left) + Shift(r, s.x)]
Missing(c, f) == Slot(f.arg) \notin DOMAIN c.pics \/ c.pics[Slot(f.arg)] = Absent

PaintMem(c, f, b, v) ==
    LET at == Placed(f, b)
        cells == [p \in Cells |-> IF In(p, at.r) THEN c.pics[Slot(f.arg)][at.src + p - at.r.x]
                                  ELSE c.screen[p]]
    IN  IF Missing(c, f) \/ at.r.w <= 0 THEN Picture(c.screen, v)
        ELSE Picture(cells, ShowFb(v, cells, at.r))

\* Mem3Blt: the picture through the brush, here where the brush has ink.
PaintMem3(c, f, b, v) ==
    LET at == Placed(f, b)
        cells == [p \in Cells |-> IF In(p, at.r) /\ Brush(c)[p % Wide] = 1
                                  THEN c.pics[Slot(f.arg)][at.src + p - at.r.x]
                                  ELSE c.screen[p]]
    IN  IF Missing(c, f) \/ at.r.w <= 0 THEN Picture(c.screen, v)
        ELSE Picture(cells, ShowFb(v, cells, at.r))

\* Lines, polygons and ellipses: cell by cell into the framebuffer, the
\* bounds not looked at, and their box shown.
PaintLine(c, f, b, v) ==
    LET cells == [p \in Cells |-> IF In(p, Whole(f)) THEN f.arg ELSE c.screen[p]]
    IN  Picture(cells, ShowFb(v, cells, ClipFb(Whole(f))))

\* SaveBitmap, restoring (arg 1): cells of the save buffer on the screen.
PaintRestore(c, f, b, v) ==
    LET cells == [p \in Cells |-> IF In(p, Whole(f)) THEN c.saved[p - f.left]
                                  ELSE c.screen[p]]
    IN  IF f.arg = 0 THEN Picture(c.screen, v)
        ELSE Picture(cells, ShowFb(v, cells, ClipFb(Whole(f))))

\* SaveBitmap, saving (arg 0): cells off the screen keep what was there.
SavedBy(c, k, f) ==
    IF k # "save" \/ f.arg # 0 THEN c.saved
    ELSE [i \in Steps |-> IF f.left + i \in Cells THEN c.screen[f.left + i] ELSE c.saved[i]]

Painted(c, k, f, b, v) ==
    CASE k = "opaque" -> PaintOpaque(c, f, b, v) [] k = "text" -> PaintText(c, f, b, v)
      [] k = "label" -> PaintLabel(c, f, b, v)   [] k = "mem3" -> PaintMem3(c, f, b, v)
      [] k = "dst" -> PaintDst(c, f, b, v)       [] k = "pat" -> PaintPat(c, f, b, v)
      [] k = "scr" -> PaintScr(c, f, b, v)       [] k = "mem" -> PaintMem(c, f, b, v)
      [] k = "line" -> PaintLine(c, f, b, v)     [] k = "save" -> PaintRestore(c, f, b, v)

(***************************************************************************)
(* The server's own screen, cell by cell.                                  *)
(***************************************************************************)
Ink(s, k, left, arg, p) ==
    LET i == p - left
    IN  CASE k \in {"opaque", "line"} -> arg
          [] k = "text" -> IF s.glyphs[i] = 1 THEN arg ELSE s.screen[p]
          [] k = "dst" -> 1 - s.screen[p]
          [] k = "pat" -> s.brush[p % Wide]
          [] k = "scr" -> s.screen[arg + i]
          [] k = "label" -> IF s.glyphs[i] = 1 THEN 1 ELSE s.screen[p]
          [] k = "mem" -> s.pics[IF arg = Waiting THEN Slots ELSE arg][i]
          [] k = "mem3" -> IF s.brush[p % Wide] = 1
                           THEN s.pics[IF arg = Waiting THEN Slots ELSE arg][i] ELSE s.screen[p]
          [] k = "save" -> IF arg = 1 THEN s.saved[i] ELSE s.screen[p]

Drawn(s, k, left, arg, range) ==
    [p \in Cells |->
       IF p - left \in Steps /\ (range # Absent => p >= range.lo /\ p <= range.hi)
       THEN Ink(s, k, left, arg, p) ELSE s.screen[p]]

\* What the server may draw: with what it sent, from inside its screen.
Args(s, k) ==
    CASE k \in {"opaque", "line"} -> Colour
      [] k = "text" -> IF s.glyphs = Absent THEN {} ELSE {1}
      [] k = "dst"  -> {0}
      [] k = "pat"  -> IF s.brush = Absent THEN {} ELSE {0}
      [] k = "scr"  -> 0 .. Width - Wide
      [] k = "label" -> {1} \cup IF s.glyphs = Absent THEN {} ELSE {0}
      [] k \in {"mem", "mem3"} /\ (k = "mem3" => s.brush # Absent) ->
            {i \in (0 .. Slots - 1) \cup {Waiting} :
                s.pics[IF i = Waiting THEN Slots ELSE i] # Absent}
      [] k = "save" -> {0, 1}
      [] OTHER -> {}

Lefts(k) == (IF k \in OffScreen THEN -1 ELSE 0) ..
            (IF k \in {"text", "scr"} THEN Width - Wide ELSE Width - 1)

(***************************************************************************)
(* The actions.                                                            *)
(***************************************************************************)
\* A primary order.  Before OnBitmap it is decoded and not executed.
PrimaryOrder ==
    \E k \in Kinds : \E left \in Lefts(k), arg \in Args(server, k),
                        range \in {Absent} \cup (IF k \in Bounded THEN Ranges ELSE {}) :
      \E w \in Wire(server, k, left, arg, range) :
        LET c == Decoded(w, client)
            kind == KindOf(w, client)
            f == c.f[kind]
            b == IF w.bounds = "none" THEN Absent ELSE c.bounds
            p == Painted(client, kind, f, b, viewer)
            meant == [left |-> left, arg |-> arg]
            sent == [server EXCEPT !.glyphs = IF k = "label" /\ arg = 1
                                              THEN [i \in Steps |-> i % 2] ELSE @]
        IN  /\ orders < MaxOrders
            /\ orders' = orders + 1
            /\ server' = [sent EXCEPT
                 !.last = k, !.f[k] = meant,
                 !.bounds = IF range = Absent THEN @ ELSE range,
                 !.saved = SavedBy(server, k, meant),
                 !.screen = Drawn(sent, k, left, arg, range)]
            /\ IF shown
               THEN /\ client' = [c EXCEPT !.screen = p.screen,
                                           !.glyphs = Inline(client, kind, f),
                                           !.saved = SavedBy(client, kind, f)]
                    /\ viewer' = p.viewer
               ELSE client' = c /\ viewer' = viewer
            /\ early' = (early \/ ~shown)
            /\ UNCHANGED shown

\* A picture, a glyph, a brush is kept for later orders; a picture at an
\* index there is.
CacheBitmap(c, i, pic) ==
    IF Slot(i) \in DOMAIN c.pics THEN [c EXCEPT !.pics[Slot(i)] = pic] ELSE c
CacheGlyph(c, pic) == [c EXCEPT !.glyphs = pic]
CacheBrush(c, pic) == [c EXCEPT !.brush = pic]

\* A secondary order is executed whether or not the viewer is there.
SecondaryOrder ==
    /\ orders < MaxOrders
    /\ orders' = orders + 1
    /\ \E pic \in Pictures :
         \/ \E i \in (0 .. Slots - 1) \cup {Waiting} :
               /\ "mem" \in Kinds
               /\ server' = [server EXCEPT !.pics[IF i = Waiting THEN Slots ELSE i] = pic]
               /\ client' = CacheBitmap(client, i, pic)
         \/ /\ "text" \in Kinds
            /\ server' = [server EXCEPT !.glyphs = pic]
            /\ client' = CacheGlyph(client, pic)
         \/ /\ "pat" \in Kinds
            /\ server' = [server EXCEPT !.brush = pic]
            /\ client' = CacheBrush(client, pic)
    /\ UNCHANGED <<viewer, shown, early>>

\* The session is reactivated (handleReactivation): the decoder state and
\* the framebuffer start again, the caches stay.
Restarted(c) == [c EXCEPT !.last = FreshState.last, !.f = FreshState.f,
                          !.bounds = FreshState.bounds,
                          !.screen = [p \in Cells |-> 0]]
Reactivate ==
    /\ orders < MaxOrders
    /\ orders' = orders + 1
    /\ server' = [server EXCEPT !.last = FreshState.last, !.f = FreshState.f,
                     !.bounds = FreshState.bounds, !.screen = [p \in Cells |-> 0]]
    /\ client' = Restarted(client)
    /\ viewer' = [p \in Cells |-> 0]     \* OnResize
    /\ UNCHANGED <<shown, early>>

\* The viewer registers its callback.
Register == ~shown /\ shown' = TRUE /\ UNCHANGED <<server, client, viewer, early, orders>>

Next == PrimaryOrder \/ SecondaryOrder \/ Reactivate \/ Register

Spec == Init /\ [][Next]_vars

-----------------------------------------------------------------------------
\* What the server leaves out the client fills in: both sides' last
\* orders, bounds and caches agree whatever was left out and whenever the
\* session restarted (orders.DecoderState).  A glyph that came with an
\* order nobody drew is not kept.
StatesAgree ==
    /\ client.last = server.last /\ client.f = server.f
    /\ client.bounds = server.bounds /\ client.pics = server.pics
    /\ client.brush = server.brush
    /\ ~early => client.glyphs = server.glyphs

\* The framebuffer and the viewer hold the server's screen: clipping to
\* the screen, to the bounds and to a cached picture moves no cell.
ScreensAgree ==
    ~early => client.screen = server.screen /\ client.saved = server.saved
              /\ (shown => viewer = client.screen)

\* Orders are drawn as the server meant them.
OrdersFaithful == StatesAgree /\ ScreensAgree
==============================================================================
