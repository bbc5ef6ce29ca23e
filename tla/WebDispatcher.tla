----------------------------- MODULE WebDispatcher -----------------------------
\* The web viewer with a browser tab for each monitor (display/web/dispatcher.go and
\* NewMultiMonitorHandler in web.go): one connection, whose bitmaps are cut to the
\* monitors and queued for the tab of each.  The desktop is one row of cells.
EXTENDS Sequences, FiniteSets, FiniteSetsExt, ViewerScreen

CONSTANTS Mons,          \* monitors, 1 .. n from left to right
          Tabs,          \* bound: tabs that ever open
          MaxWidth, MaxPaints, MaxResizes,   \* bounds
          QueueCap       \* bitmap batches a tab may be behind, 512 in the code

VARIABLES width,         \* Dispatcher.monitors[i].Width, 0 until a tab tells it
          posX,          \* Dispatcher.monitors[i].X
          layout,        \* opts.Monitors: what the server was told, <<>> before
          client,        \* "none", "connecting", "up" or "ended"
          lock,          \* Dispatcher.mu: the tab that connects under it, or None
          stuck,         \* a callback waits for the lock its own caller holds
          sessions,      \* Dispatcher.sessions: monitor -> tab or None
          tab,           \* the tabs and their Attach
          desktop,       \* the server's cells: how often each was painted
          todo,          \* cells the server has still to send
          inPaint, frameBatch,
          resizes

vars == <<width, posX, layout, client, lock, stuck, sessions, tab, desktop, todo, inPaint, frameBatch, resizes>>
topology == <<width, posX, layout>>
paint == <<inPaint, frameBatch>>

None == 0
Cells == 0..Cardinality(Mons) * MaxWidth - 1
NewTab == [mon |-> None, at |-> "new", done |-> FALSE, queue |-> <<>>, dropped |-> FALSE,
           rect |-> {}, pic |-> [c \in 0..MaxWidth - 1 |-> <<>>]]

\* repositionMonitors: those without a size take no room.
Repositioned(w) == [m \in Mons |-> LeftOf(w, m)]

\* A monitor of a size the options give stands where they put it.
Init ==
    /\ width \in [Mons -> 0..1]
    /\ posX = Repositioned(width)
    /\ layout = <<>> /\ client = "none" /\ lock = None /\ stuck = FALSE
    /\ sessions = [m \in Mons |-> None] /\ tab = [t \in Tabs |-> NewTab]
    /\ desktop = [c \in Cells |-> 0] /\ todo = {}
    /\ inPaint = FALSE /\ frameBatch = <<>> /\ resizes = 0

\* updateOpts: to the server they take as much as the first that has a size.
Effective(w) ==
    LET first == CHOOSE m \in Mons : w[m] > 0 /\ \A k \in Mons : w[k] > 0 => m <= k
    IN [m \in Mons |-> IF w[m] = 0 THEN w[first] ELSE w[m]]
UpdateOpts(w) == [m \in Mons |-> [x |-> LeftOf(Effective(w), m), w |-> Effective(w)[m]]]
Told(lay) == UNION {lay[m].x .. lay[m].x + lay[m].w - 1 : m \in DOMAIN lay}

Area(m) == posX[m] .. posX[m] + width[m] - 1

\* The new session takes the place of an older one of its monitor, which is closed.
Registered(t, m) ==
    /\ sessions' = [sessions EXCEPT ![m] = t]
    /\ tab' = [k \in Tabs |->
                 IF k = t THEN [NewTab EXCEPT !.mon = m, !.at = "refresh",
                                              !.rect = posX'[m] .. posX'[m] + width'[m] - 1]
                 ELSE IF k = sessions[m] THEN [tab[k] EXCEPT !.done = TRUE] ELSE tab[k]]

\* Attach, up to the request for a redraw; a new size moves the monitors and, when the
\* connection is up, goes to the server, which then sends everything again.
Attach(t, m, w) ==
    /\ lock = None /\ tab[t].at = "new" /\ \A k \in Tabs : k < t => tab[k].at # "new"
    /\ width' = IF width[m] = 0 THEN [width EXCEPT ![m] = w] ELSE width
    /\ posX' = IF width' # width THEN Repositioned(width') ELSE posX
    /\ UNCHANGED <<stuck, desktop, paint, resizes>>
    /\ IF client = "none"
       THEN /\ layout' = UpdateOpts(width') /\ client' = "connecting" /\ lock' = t
            /\ tab' = [tab EXCEPT ![t] = [tab[t] EXCEPT !.at = "connect", !.mon = m]]
            /\ UNCHANGED <<sessions, todo>>
       ELSE /\ layout' = IF width' # width THEN UpdateOpts(width') ELSE layout
            /\ todo' = IF width' # width /\ client = "up" THEN Told(layout') ELSE todo
            /\ Registered(t, m) /\ UNCHANGED <<client, lock>>

\* client.Connect under the lock of the dispatcher: what the server draws before it
\* ends is dispatched from Connect, and the callback waits for that lock.
Connected(t) ==
    /\ lock = t /\ ~stuck /\ lock' = None
    /\ UNCHANGED <<topology, stuck, desktop, paint, resizes>>
    /\ \/ client' = "up" /\ todo' = Told(layout) /\ Registered(t, tab[t].mon)
       \/ client' = "none" /\ tab' = [tab EXCEPT ![t].at = "gone"] /\ UNCHANGED <<sessions, todo>>
DrawnTooEarly ==
    /\ lock # None /\ ~stuck /\ stuck' = TRUE
    /\ UNCHANGED <<topology, client, lock, sessions, tab, desktop, todo, paint, resizes>>

\* RefreshRect for the area of the session
RefreshRect(t) == tab[t].rect \cap Told(layout)
Refresh(t) ==
    /\ tab[t].at = "refresh" /\ tab' = [tab EXCEPT ![t] = [tab[t] EXCEPT !.at = "run", !.rect = {}]]
    /\ todo' = IF client = "up" THEN todo \cup RefreshRect(t) ELSE todo
    /\ UNCHANGED <<topology, client, lock, stuck, sessions, desktop, paint, resizes>>

\* clipBitmapToMonitor and the queue of each tab; a batch is what its bitmaps show, the
\* later over the earlier, and a full queue drops it.
Clipped(batch, m) == [c \in {k - posX[m] : k \in DOMAIN batch \cap Area(m)} |-> batch[c + posX[m]]]
Route(batch) ==
    tab' = [t \in Tabs |->
              IF ~\E m \in Mons : sessions[m] = t /\ DOMAIN batch \cap Area(m) # {} THEN tab[t]
              ELSE IF Len(tab[t].queue) < QueueCap
              THEN [tab[t] EXCEPT !.queue = Append(@, Clipped(batch, tab[t].mon))]
              ELSE [tab[t] EXCEPT !.dropped = TRUE]]

\* The callbacks OnBitmap and OnStridedBitmap: kept for the end of a frame, or routed.
Bitmap(image) ==
    /\ lock = None
    /\ IF inPaint THEN frameBatch' = Over(image, frameBatch) /\ UNCHANGED tab
       ELSE Route(image) /\ UNCHANGED frameBatch
    /\ UNCHANGED <<topology, client, lock, stuck, sessions, inPaint, resizes>>
BeginPaint ==
    /\ lock = None /\ ~inPaint /\ client = "up" /\ inPaint' = TRUE /\ frameBatch' = <<>>
    /\ UNCHANGED <<topology, client, lock, stuck, sessions, tab, desktop, todo, resizes>>
EndPaint ==
    /\ lock = None /\ inPaint /\ inPaint' = FALSE /\ frameBatch' = <<>> /\ Route(frameBatch)
    /\ UNCHANGED <<topology, client, lock, stuck, sessions, desktop, todo, resizes>>

\* external: the server paints a cell, or sends an area it was asked for.
Painted == MapThenSumSet(LAMBDA c : desktop[c], Cells)
ServerPaints(c) ==
    /\ client = "up" /\ todo = {} /\ c \in Told(layout) /\ Painted < MaxPaints
    /\ desktop' = [desktop EXCEPT ![c] = @ + 1] /\ Bitmap([k \in {c} |-> desktop'[c]]) /\ UNCHANGED todo
ServerRepaints ==
    /\ client = "up" /\ todo # {} /\ todo' = {} /\ Bitmap([c \in todo |-> desktop[c]])
    /\ UNCHANGED desktop

\* The send loop of runSession, and the tab that shows what it gets.
SendLoop(t) ==
    /\ tab[t].at = "run" /\ ~tab[t].done /\ tab[t].queue # <<>>
    /\ tab' = [tab EXCEPT ![t] = [tab[t] EXCEPT
                   !.queue = Tail(@),
                   !.pic = [c \in DOMAIN @ |-> IF c \in DOMAIN Head(tab[t].queue)
                                               THEN <<Head(tab[t].queue)[c]>> ELSE @[c]]]]
    /\ UNCHANGED <<topology, client, lock, stuck, sessions, desktop, todo, paint, resizes>>

\* The tab is closed, or asks for another size; the receive loop of runSession.
TabCloses(t) ==
    /\ tab[t].at = "run" /\ ~tab[t].done /\ tab' = [tab EXCEPT ![t].done = TRUE]
    /\ UNCHANGED <<topology, client, lock, stuck, sessions, desktop, todo, paint, resizes>>
TabResizes(t, w) ==
    /\ tab[t].at = "run" /\ ~tab[t].done /\ lock = None /\ client = "up" /\ resizes < MaxResizes
    /\ width[tab[t].mon] # w
    /\ width' = [width EXCEPT ![tab[t].mon] = w] /\ posX' = Repositioned(width')
    /\ layout' = UpdateOpts(width') /\ todo' = Told(layout') /\ resizes' = resizes + 1
    /\ tab' = [tab EXCEPT ![t].pic = NewTab.pic]
    /\ UNCHANGED <<client, lock, stuck, sessions, desktop, paint>>

\* Attach returns: only a session that was not replaced is taken out.
Gives_Always(t) == TRUE
Gives(t) == sessions[tab[t].mon] = t
Detach(t) ==
    /\ tab[t].at = "run" /\ tab[t].done /\ lock = None
    /\ sessions' = IF Gives(t) THEN [sessions EXCEPT ![tab[t].mon] = None] ELSE sessions
    /\ tab' = [tab EXCEPT ![t] = [NewTab EXCEPT !.at = "gone"]]
    /\ UNCHANGED <<topology, client, lock, stuck, desktop, todo, paint, resizes>>

\* The connection ends, from either side: OnDisconnect closes every session, and the
\* watcher of a session that comes later closes that one.
Disconnected ==
    /\ client = "up" /\ lock = None /\ client' = "ended" /\ todo' = {}
    /\ tab' = [t \in Tabs |-> IF \E m \in Mons : sessions[m] = t THEN [tab[t] EXCEPT !.done = TRUE] ELSE tab[t]]
    /\ UNCHANGED <<topology, lock, stuck, sessions, desktop, paint, resizes>>
Watcher(t) ==
    /\ client = "ended" /\ tab[t].at = "run" /\ ~tab[t].done /\ tab' = [tab EXCEPT ![t].done = TRUE]
    /\ UNCHANGED <<topology, client, lock, stuck, sessions, desktop, todo, paint, resizes>>

Next ==
    \/ \E t \in Tabs : \/ Connected(t) \/ Refresh(t) \/ SendLoop(t) \/ TabCloses(t) \/ Detach(t) \/ Watcher(t)
                       \/ \E m \in Mons, w \in 1..MaxWidth : Attach(t, m, w)
                       \/ \E w \in 1..MaxWidth : TabResizes(t, w)
    \/ DrawnTooEarly \/ ServerRepaints \/ BeginPaint \/ EndPaint \/ Disconnected
    \/ \E c \in Cells : ServerPaints(c)

Spec == Init /\ [][Next]_vars

Running(t) == tab[t].at = "run" /\ ~tab[t].done
Resolved == \A m \in Mons : width[m] > 0

\* An open tab is the session of its monitor, whichever tabs of it came and went.
TabIsSession == \A t \in Tabs : Running(t) => sessions[tab[t].mon] = t

\* Once every monitor has a size, each is where the server was told it is.
PlacedAlike == Resolved /\ layout # <<>> => \A m \in Mons : posX[m] = layout[m].x /\ width[m] = layout[m].w

\* When everything is sent and delivered, a tab shows its part of the desktop, unless
\* an update was dropped because the tab was behind.
TabShowsDesktop ==
    \A t \in Tabs : Running(t) /\ Resolved /\ client = "up" /\ todo = {} /\ frameBatch = <<>>
                    /\ tab[t].queue = <<>> /\ ~tab[t].dropped =>
        \A c \in 0..width[tab[t].mon] - 1 : tab[t].pic[c] = <<desktop[posX[tab[t].mon] + c]>>

\* What the dispatcher owes the user: each tab is its monitor, in its place, and shows it.
TabsFaithful == TabIsSession /\ PlacedAlike /\ TabShowsDesktop

\* What the Dispatcher says of itself: updates go to the appropriate monitor.
PlacedAsTold == layout # <<>> => \A m \in Mons : width[m] > 0 => posX[m] = layout[m].x

\* The first tab's Connect cannot wait for itself.
ConnectReturns == ~stuck
================================================================================
