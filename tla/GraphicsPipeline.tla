-------------------------- MODULE GraphicsPipeline ---------------------------
(***************************************************************************)
(* The graphics pipeline (protocol/egfx/egfx.go): surfaces, the bitmap     *)
(* cache, tiles of the progressive codec, frames, and what reaches the     *)
(* screen.  A surface is a column of cells, each a tile's place and colour.  *)
(* Beside the client's state runs the server's: what the surfaces and the  *)
(* cache hold by the meaning of the commands.  Acknowledgements go through *)
(* a queue that a goroutine empties, or around it when it is full.         *)
(***************************************************************************)
EXTENDS Integers, Sequences, FiniteSets

CONSTANTS
    Surfaces,      \* surface IDs
    Width,         \* cells of a surface
    AckCap,        \* capacity of ackCh, 32 in the code
    MaxCommands,   \* bound: commands of the server
    MaxFrameIds    \* bound: frames

Cells == 0..(Width - 1)
Colours == {"white", "ink"}   \* that a command sets; a tile is of ink
Cached == 0                   \* the cell that is put into the cache
Origins == {0, 1}
ScreenCells == 0..Width
None == "none"
White == [c \in Cells |-> "white"]
NoSurface == <<>>
NoTiles == [c \in Cells |-> None]

VARIABLES
    srvSurfaces, srvCache, srvTiles, commands,   \* the server's, and the bound
    surfaces, outputMap, cache, progressive,     \* fields of Handler
    inFrame, curFrameID, dirty, framesDecoded,   \* dirty: frameDirtyRects
    screen, owner, touched,   \* the screen, whose cell it shows, cells drawn on
    v10,                      \* QoE acks are negotiated
    ending,                   \* the rest of handleEndFrame: acks, flush, qoe
    ackCh, ackHand,           \* the queue, and what the goroutine holds
    acked, overflowed         \* what was sent, and whether it went around

srvVars == <<srvSurfaces, srvCache, srvTiles, commands>>
surfaceVars == <<surfaces, outputMap, cache, progressive>>
frameVars == <<inFrame, curFrameID, dirty, framesDecoded, ending>>
screenVars == <<screen, owner, touched>>
ackVars == <<ackCh, ackHand, acked, overflowed>>
vars == <<srvVars, surfaceVars, frameVars, screenVars, v10, ackVars>>

Nobody == [s |-> 0, at |-> 0]
Deleted == [s |-> -1, at |-> 0]

Init ==
    /\ srvSurfaces = [s \in Surfaces |-> NoSurface] /\ srvCache = None
    /\ srvTiles = [s \in Surfaces |-> NoTiles] /\ commands = 0
    /\ surfaces = [s \in Surfaces |-> NoSurface] /\ outputMap = [s \in Surfaces |-> -1]
    /\ cache = None /\ progressive = [s \in Surfaces |-> NoTiles]
    /\ inFrame = FALSE /\ curFrameID = 0 /\ dirty = <<>> /\ framesDecoded = 0 /\ ending = None
    /\ screen = [x \in ScreenCells |-> "white"] /\ owner = [x \in ScreenCells |-> Nobody]
    /\ touched = [s \in Surfaces |-> {}]
    /\ v10 \in BOOLEAN
    /\ ackCh = <<>> /\ ackHand = <<>> /\ acked = <<>> /\ overflowed = FALSE

Exists(s) == surfaces[s] # NoSurface
Command == ending = None /\ commands < MaxCommands /\ commands' = commands + 1

-----------------------------------------------------------------------------
(* What shows: emitBitmapRect copies cells of a surface to the screen, at  *)
(* the origin it is mapped to (0 for none); notifyBitmap defers that to    *)
(* the end of a frame.                                                     *)

Origin(s) == IF outputMap[s] = -1 THEN 0 ELSE outputMap[s]

\* In order, so the last rectangle over a cell of the screen is the one that shows;
\* one of a surface that was deleted is not drawn.
Emit(rects) ==
    LET over(x) == {i \in DOMAIN rects : /\ surfaces'[rects[i].s] # NoSurface
                                         /\ x - Origin(rects[i].s) \in rects[i].cells}
        shown(x) == rects[CHOOSE i \in over(x) : \A j \in over(x) : j <= i].s
    IN  /\ screen' = [x \in ScreenCells |-> IF over(x) = {} THEN screen[x]
                       ELSE surfaces'[shown(x)][x - Origin(shown(x))]]
        /\ owner' = [x \in ScreenCells |-> IF over(x) = {} THEN owner[x]
                      ELSE [s |-> shown(x), at |-> Origin(shown(x))]]

NotifyBitmap(s, cs) ==
    IF inFrame THEN dirty' = Append(dirty, [s |-> s, cells |-> cs]) /\ UNCHANGED <<screen, owner>>
    ELSE Emit(<<[s |-> s, cells |-> cs]>>) /\ UNCHANGED dirty

Paint(s, cs, content) ==
    /\ surfaces' = [surfaces EXCEPT ![s] = content]
    /\ NotifyBitmap(s, cs)
    /\ touched' = [touched EXCEPT ![s] = IF outputMap[s] = -1 THEN @ ELSE @ \cup cs]
    /\ UNCHANGED <<outputMap, inFrame, curFrameID, framesDecoded, ending, v10, ackVars>>

-----------------------------------------------------------------------------
(* The commands.                                                           *)

CreateSurface(s) ==
    /\ Command /\ ~Exists(s)
    /\ srvSurfaces' = [srvSurfaces EXCEPT ![s] = White]
    /\ srvTiles' = [srvTiles EXCEPT ![s] = NoTiles]
    /\ surfaces' = [surfaces EXCEPT ![s] = White]
    /\ UNCHANGED <<srvCache, outputMap, cache, progressive, frameVars, screenVars, v10, ackVars>>

ClearContext(s) == progressive' = [progressive EXCEPT ![s] = NoTiles]

DeleteSurface(s) ==
    /\ Command /\ Exists(s)
    /\ srvSurfaces' = [srvSurfaces EXCEPT ![s] = NoSurface]
    /\ surfaces' = [surfaces EXCEPT ![s] = NoSurface]
    /\ outputMap' = [outputMap EXCEPT ![s] = -1]
    /\ ClearContext(s)
    /\ touched' = [touched EXCEPT ![s] = {}]
    /\ owner' = [x \in ScreenCells |-> IF owner[x].s = s THEN Deleted ELSE owner[x]]
    /\ UNCHANGED <<srvCache, srvTiles, cache, frameVars, screen, v10, ackVars>>

\* Of both mappings, scaled or not: the surface is drawn at its origin.
MapSurfaceToOutput(s) ==
    /\ Command /\ Exists(s) /\ outputMap[s] = -1
    /\ \E o \in Origins : outputMap' = [outputMap EXCEPT ![s] = o]
    /\ UNCHANGED <<srvSurfaces, srvCache, srvTiles, surfaces, cache, progressive, frameVars,
                   screenVars, v10, ackVars>>

\* A run of cells gets a colour: a fill, or the pixels of a codec.
SolidFill(s, cs, colour) ==
    LET painted(f) == [c \in Cells |-> IF c \in cs THEN colour ELSE f[c]] IN
    /\ Command /\ Exists(s)
    /\ srvSurfaces' = [srvSurfaces EXCEPT ![s] = painted(@)]
    /\ Paint(s, cs, painted(surfaces[s]))
    /\ UNCHANGED <<srvCache, srvTiles, cache, progressive>>

\* Cell by cell, from a copy when a surface is copied onto itself.
CopyCells(from, to, src, dst, n) ==
    LET copied[i \in 0..n] ==
            IF i = 0 THEN surfaces[to]
            ELSE [copied[i - 1] EXCEPT ![dst + i - 1] = surfaces[from][src + i - 1]]
    IN  copied[n]

SurfaceToSurface(from, to, src, dst) ==
    LET n == Width - 1
        run == dst..(dst + n - 1)
    IN  /\ Command /\ Exists(from) /\ Exists(to) /\ src # dst
        /\ srvSurfaces' = [srvSurfaces EXCEPT ![to] =
               [c \in Cells |-> IF c \in run THEN srvSurfaces[from][c - dst + src] ELSE @[c]]]
        /\ Paint(to, run, CopyCells(from, to, src, dst, n))
        /\ UNCHANGED <<srvCache, srvTiles, cache, progressive>>

SurfaceToCache(s) ==
    /\ Command /\ Exists(s)
    /\ srvCache' = srvSurfaces[s][Cached] /\ cache' = surfaces[s][Cached]
    /\ UNCHANGED <<srvSurfaces, srvTiles, surfaces, outputMap, progressive, frameVars,
                   screenVars, v10, ackVars>>

CacheToSurface(s, c) ==
    /\ Command /\ Exists(s) /\ cache # None
    /\ srvSurfaces' = [srvSurfaces EXCEPT ![s][c] = srvCache]
    /\ Paint(s, {c}, [surfaces[s] EXCEPT ![c] = cache])
    /\ UNCHANGED <<srvCache, srvTiles, cache, progressive>>

EvictCacheEntry ==
    /\ Command /\ srvCache # None /\ srvCache' = None /\ cache' = None
    /\ UNCHANGED <<srvSurfaces, srvTiles, surfaces, outputMap, progressive, frameVars,
                   screenVars, v10, ackVars>>

\* Progressive: a tile is decoded; within the region every tile there is shows,
\* decoded now or before.
Blit(tiles, region, f) ==
    [c \in Cells |-> IF c \in region /\ tiles[c] # None THEN tiles[c] ELSE f[c]]
Region_DecodedOnly(tile, region) == {tile}
Region(tile, region) == region

WireToSurface2(s, tile) ==
    LET region == {tile, (tile + 1) % Width}
        kept == [progressive EXCEPT ![s][tile] = "ink"]
        srvKept == [srvTiles EXCEPT ![s][tile] = "ink"]
    IN  /\ Command /\ Exists(s)
        /\ srvTiles' = srvKept /\ progressive' = kept
        /\ srvSurfaces' = [srvSurfaces EXCEPT ![s] = Blit(srvKept[s], region, @)]
        /\ Paint(s, {c \in region : kept[s][c] # None},
                 Blit(kept[s], Region(tile, region), surfaces[s]))
        /\ UNCHANGED <<srvCache, cache>>

ResetCache == cache

ResetGraphics ==
    /\ Command
    /\ srvSurfaces' = [s \in Surfaces |-> NoSurface] /\ surfaces' = [s \in Surfaces |-> NoSurface]
    /\ outputMap' = [s \in Surfaces |-> -1] /\ progressive' = [s \in Surfaces |-> NoTiles]
    /\ cache' = ResetCache
    /\ inFrame' = FALSE /\ dirty' = <<>>
    /\ owner' = [x \in ScreenCells |-> Nobody] /\ touched' = [s \in Surfaces |-> {}]
    /\ UNCHANGED <<srvCache, srvTiles, curFrameID, framesDecoded, ending, screen, v10, ackVars>>

StartFrame ==
    /\ Command /\ ~inFrame /\ curFrameID < MaxFrameIds
    /\ curFrameID' = curFrameID + 1 /\ inFrame' = TRUE /\ dirty' = <<>>
    /\ UNCHANGED <<srvSurfaces, srvCache, srvTiles, surfaceVars, framesDecoded, ending,
                   screenVars, v10, ackVars>>

-----------------------------------------------------------------------------
(* handleEndFrame acknowledges, shows what is dirty, and acknowledges the  *)
(* quality if that is negotiated.                                          *)

\* An ack is queued, or sent by the receive loop itself.
Acknowledge(a) ==
    IF Len(ackCh) < AckCap
    THEN ackCh' = Append(ackCh, a) /\ UNCHANGED <<acked, overflowed>>
    ELSE acked' = Append(acked, a) /\ overflowed' = TRUE /\ UNCHANGED ackCh

EndFrame ==
    /\ ending = None /\ inFrame /\ inFrame' = FALSE
    /\ framesDecoded' = framesDecoded + 1 /\ ending' = "flush"
    /\ Acknowledge([kind |-> "frame", n |-> curFrameID])
    /\ UNCHANGED <<srvVars, surfaceVars, curFrameID, dirty, screenVars, v10, ackHand>>

FlushFrame ==
    /\ ending = "flush" /\ ending' = IF v10 THEN "qoe" ELSE None
    /\ UNCHANGED <<srvVars, surfaceVars, inFrame, curFrameID, framesDecoded, touched, v10,
                   ackVars>>
    /\ Emit(dirty) /\ dirty' = <<>>

SendQoEFrameAck ==
    /\ ending = "qoe" /\ ending' = None
    /\ Acknowledge([kind |-> "qoe", n |-> curFrameID])
    /\ UNCHANGED <<srvVars, surfaceVars, inFrame, curFrameID, dirty, framesDecoded, screenVars,
                   v10, ackHand>>

\* The goroutine of NewHandler.
TakeAck ==
    /\ ackHand = <<>> /\ ackCh # <<>> /\ ackHand' = <<Head(ackCh)>> /\ ackCh' = Tail(ackCh)
    /\ UNCHANGED <<srvVars, surfaceVars, frameVars, screenVars, v10, acked, overflowed>>
SendAck ==
    /\ ackHand # <<>> /\ ackHand' = <<>> /\ acked' = acked \o ackHand
    /\ UNCHANGED <<srvVars, surfaceVars, frameVars, screenVars, v10, ackCh, overflowed>>

Next ==
    \/ EvictCacheEntry \/ ResetGraphics \/ StartFrame
    \/ EndFrame \/ FlushFrame \/ SendQoEFrameAck \/ TakeAck \/ SendAck
    \/ \E s \in Surfaces :
           \/ CreateSurface(s) \/ DeleteSurface(s) \/ MapSurfaceToOutput(s)
           \/ SurfaceToCache(s)
           \/ \E c \in Cells : CacheToSurface(s, c) \/ WireToSurface2(s, c)
           \/ \E c \in Cells, k \in Colours : SolidFill(s, {c}, k)
           \/ \E t \in Surfaces, a, b \in {0, 1} : SurfaceToSurface(s, t, a, b)

Spec == Init /\ [][Next]_vars

-----------------------------------------------------------------------------
(* Properties.                                                             *)

\* The surfaces and the cache hold what the commands mean to the server, through
\* copies of a surface onto itself, tiles that are shown again from an earlier
\* decode, surface IDs used again and resets, which the cache survives.
SurfacesAgree == surfaces = srvSurfaces /\ cache = srvCache

\* Between frames the screen shows of each surface what is on it by now, and all
\* that was drawn on it since it was mapped.
ScreenCurrent ==
    ~inFrame /\ ending = None =>
        \A x \in ScreenCells :
            /\ owner[x].s > 0 /\ outputMap[owner[x].s] = owner[x].at
                   => screen[x] = surfaces[owner[x].s][x - owner[x].at]
            /\ \A s \in Surfaces :
                   outputMap[s] # -1 /\ (x - outputMap[s]) \in touched[s] => owner[x].s # 0

\* Every frame that ended is acknowledged once, and no two by one ID: sent, held or queued.
FrameAcks(q) == {i \in DOMAIN q : q[i].kind = "frame"}
FrameIDs(q) == {q[i].n : i \in FrameAcks(q)}
AckedOnce ==
    /\ Cardinality(FrameAcks(acked)) + Cardinality(FrameAcks(ackHand))
           + Cardinality(FrameAcks(ackCh)) = framesDecoded
    /\ Cardinality(FrameIDs(acked) \cup FrameIDs(ackHand) \cup FrameIDs(ackCh)) = framesDecoded

\* The server sees acknowledgements in the order of the frames, a frame's quality
\* after the frame, unless the queue was full once.
AcksInOrder ==
    LET rank(a) == 2 * a.n + (IF a.kind = "qoe" THEN 1 ELSE 0) IN
    \A i, j \in DOMAIN acked : i < j /\ ~overflowed => rank(acked[i]) < rank(acked[j])

\* The surfaces, the screen and the acknowledgements are what the commands mean.
GraphicsFaithful == SurfacesAgree /\ ScreenCurrent /\ AckedOnce /\ AcksInOrder
=============================================================================
