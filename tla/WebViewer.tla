------------------------------ MODULE WebViewer ------------------------------
\* The web viewer of one monitor (NewAutoWebHandler and handleWS in display/web/web.go):
\* the first tab connects, every tab registers its callbacks over those of the one before
\* while the receive loop calls them, and shows what its own queue holds.
EXTENDS Sequences, ViewerScreen

CONSTANTS Tabs,       \* bound: tabs that ever open
          MaxFrames,  \* bound
          QueueCap    \* batches a tab may be behind, 512 in the code

VARIABLES client,     \* "none", "up", "ended" or "failed"
          clientMu,   \* the tab that connects, or None
          cb,         \* the callbacks of the client: event -> tab or None
          tab,
          version,    \* the desktop: how often the server painted it
          wire,       \* 0, or inside a frame: 1 and the cells of it that are sent
          asked       \* redraws the server has still to answer

vars == <<client, clientMu, cb, tab, version, wire, asked>>

None == 0
Regions == {1, 2}       \* the desktop: the cells of a frame
NewTab == [at |-> "new", done |-> FALSE, inPaint |-> FALSE, frameBatch |-> <<>>, queue |-> <<>>,
           dropped |-> FALSE, whole |-> FALSE, pic |-> [p \in Regions |-> 0]]

Init ==
    /\ client = "none" /\ clientMu = None /\ tab = [t \in Tabs |-> NewTab]
    /\ cb = [begin |-> None, end |-> None, bitmap |-> None]
    /\ version = 1 /\ wire = 0 /\ asked = 0

Goes(t, from, to) == tab[t].at = from /\ tab' = [tab EXCEPT ![t].at = to]

\* The handler of /ws: the first tab connects, the others wait for the lock; an error
\* is for good.
Opens(t) ==
    /\ clientMu = None /\ UNCHANGED <<client, cb, version, wire, asked>>
    /\ IF client = "none" THEN clientMu' = t /\ Goes(t, "new", "connect")
       ELSE UNCHANGED clientMu /\ Goes(t, "new", IF client = "failed" THEN "gone" ELSE "refresh")
Connects(t) ==
    /\ clientMu' = None /\ UNCHANGED <<cb, version, wire, asked>>
    /\ \/ client' = "up" /\ Goes(t, "connect", "refresh")
       \/ client' = "failed" /\ Goes(t, "connect", "gone")

\* handleWS: the request for a redraw, then the callbacks one by one.
Refresh(t) ==
    /\ Goes(t, "refresh", "begin") /\ asked' = IF client = "up" THEN asked + 1 ELSE asked
    /\ UNCHANGED <<client, clientMu, cb, version, wire>>
NextOf == [begin |-> "end", end |-> "bitmap", bitmap |-> "run"]
Registers(t) ==
    /\ \E e \in DOMAIN cb :
          /\ tab[t].at = e /\ cb' = [cb EXCEPT ![e] = t]
          /\ tab' = [k \in Tabs |-> [tab[k] EXCEPT !.whole = FALSE, !.at = IF k = t THEN NextOf[e] ELSE @]]
    /\ UNCHANGED <<client, clientMu, version, wire, asked>>

\* sendBatch
Sent(s, batch) == IF Len(s.queue) < QueueCap THEN [s EXCEPT !.queue = Append(@, [cells |-> batch, whole |-> s.whole])]
                  ELSE [s EXCEPT !.dropped = TRUE]

\* OnBeginPaint, OnStridedBitmap and OnBitmap, OnEndPaint: each of the tab that was the
\* last to register that one.  "whole": all three were the tab's since the frame began.
BeginPaint(t, s) == [s EXCEPT !.whole = \A e \in DOMAIN cb : cb[e] = t,
                              !.inPaint = IF cb.begin = t THEN TRUE ELSE @,
                              !.frameBatch = IF cb.begin = t THEN <<>> ELSE @]
InFrame_Never(s) == FALSE
InFrame(s) == s.inPaint
Bitmap(s, image) == IF InFrame(s) THEN [s EXCEPT !.frameBatch = Over(image, @)] ELSE Sent(s, image)
EndPaint(s) == IF s.frameBatch = <<>> THEN [s EXCEPT !.inPaint = FALSE]
               ELSE [Sent(s, s.frameBatch) EXCEPT !.inPaint = FALSE]
Calls(e, after) == tab' = [t \in Tabs |-> IF cb[e] = t THEN after[t] ELSE tab[t]]

\* external: the server paints frames, and answers a request for a redraw with a bitmap
\* outside of any.
ServerBegins ==
    /\ client = "up" /\ wire = 0 /\ version < MaxFrames /\ version' = version + 1
    /\ wire' = 1 /\ tab' = [t \in Tabs |-> BeginPaint(t, tab[t])]
    /\ UNCHANGED <<client, clientMu, cb, asked>>
ServerPaints(p) ==
    /\ client = "up" /\ wire = p /\ wire' = p + 1
    /\ Calls("bitmap", [t \in Tabs |-> Bitmap(tab[t], [c \in {p} |-> version])])
    /\ UNCHANGED <<client, clientMu, cb, version, asked>>
ServerEnds ==
    /\ client = "up" /\ wire = 3 /\ wire' = 0 /\ Calls("end", [t \in Tabs |-> EndPaint(tab[t])])
    /\ UNCHANGED <<client, clientMu, cb, version, asked>>
ServerRedraws ==
    /\ client = "up" /\ wire = 0 /\ asked > 0 /\ asked' = asked - 1
    /\ Calls("bitmap", [t \in Tabs |-> Bitmap(tab[t], [p \in Regions |-> version])])
    /\ UNCHANGED <<client, clientMu, cb, version, wire>>

\* The send loop: one message for a batch.
SendLoop(t) ==
    /\ tab[t].at = "run" /\ ~tab[t].done /\ tab[t].queue # <<>>
    /\ tab' = [tab EXCEPT ![t] = [tab[t] EXCEPT
                   !.queue = Tail(@),
                   !.pic = [p \in Regions |-> IF p \in DOMAIN Head(tab[t].queue).cells
                                              THEN Head(tab[t].queue).cells[p] ELSE @[p]]]]
    /\ UNCHANGED <<client, clientMu, cb, version, wire, asked>>

\* The receive loop of a tab that is closed ends the session for all of them; the
\* watcher of each tab tells it.  The server may end it as well.
TabCloses(t) ==
    /\ tab[t].at = "run" /\ tab' = [tab EXCEPT ![t] = [@ EXCEPT !.at = "gone", !.done = TRUE]]
    /\ client' = "ended" /\ UNCHANGED <<clientMu, cb, version, wire, asked>>
ServerLeaves ==
    /\ client = "up" /\ client' = "ended" /\ UNCHANGED <<clientMu, cb, tab, version, wire, asked>>
Watcher(t) ==
    /\ client = "ended" /\ tab[t].at = "run" /\ ~tab[t].done
    /\ tab' = [tab EXCEPT ![t].done = TRUE]
    /\ UNCHANGED <<client, clientMu, cb, version, wire, asked>>

Next ==
    \/ \E t \in Tabs : \/ Opens(t) \/ Connects(t) \/ Refresh(t) \/ Registers(t)
                       \/ SendLoop(t) \/ TabCloses(t) \/ Watcher(t)
    \/ ServerBegins \/ (\E p \in Regions : ServerPaints(p)) \/ ServerEnds \/ ServerRedraws \/ ServerLeaves

Spec == Init /\ [][Next]_vars

\* "The browser paints them atomically": what was sent as one frame is in one batch, for
\* a tab whose callbacks none took during the frame, however far behind it is.
FramesWhole ==
    \A t \in Tabs : \A i \in DOMAIN tab[t].queue :
        tab[t].queue[i].whole => DOMAIN tab[t].queue[i].cells = Regions

\* Such a tab shows the desktop when it has received everything and dropped nothing.
ViewerCurrent ==
    \A t \in Tabs : tab[t].whole /\ wire = 0 /\ tab[t].queue = <<>> /\ ~tab[t].dropped
                    /\ tab[t].at = "run" /\ ~tab[t].done /\ (\A e \in DOMAIN cb : cb[e] = t) =>
        \A p \in Regions : tab[t].pic[p] = version

\* What the viewer of one monitor owes the user.
ViewerFaithful == FramesWhole /\ ViewerCurrent

\* "Request full screen redraw so the new viewer gets the current desktop."
NewViewerCurrent ==
    \A t \in Tabs : tab[t].at = "run" /\ ~tab[t].done /\ cb.bitmap = t /\ client = "up" /\ wire = 0
                    /\ asked = 0 /\ tab[t].queue = <<>> /\ ~tab[t].dropped =>
        \A p \in Regions : tab[t].pic[p] = version
==============================================================================
