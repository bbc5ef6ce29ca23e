------------------------------- MODULE GuiBroker -------------------------------
\* The native viewer with a window for each monitor (display/gui/broker.go, child.go): a
\* process for each window behind a queue and a pipe, the bitmaps cut to the monitors,
\* and no bitmaps to the other windows while one is resized.  The desktop is one row.
EXTENDS Sequences, FiniteSets, ViewerScreen

CONSTANTS Mons,                  \* monitors, 1 .. n from left to right
          MaxWidth, MaxPaints, MaxResizes,   \* bounds
          QueueCap               \* messages a window may be behind, 512 in the code

VARIABLES width,                 \* brokerState.monitors[i].Width; X follows from it
          resizing, resizingIdx, timers,   \* timers: AfterFunc calls that are to come
          asked,                 \* layouts on their way to the server
          told,                  \* the widths the server draws for
          desktop,               \* the server's content: monitor -> cell -> counter
          todo,                  \* monitors the server has to draw after a resize
          inPaint, frameBatch,
          child,                 \* the windows, and the queue (writeCh) to each
          skipped, lost,         \* cells of a window that were not sent, or dropped
          paints, resizes

vars == <<width, resizing, resizingIdx, timers, asked, told, desktop, todo, inPaint, frameBatch,
          child, skipped, lost, paints, resizes>>
suppress == <<resizing, resizingIdx, timers>>
server == <<asked, told, desktop, todo, paints>>
paint == <<inPaint, frameBatch>>

Local == 0..MaxWidth - 1
Size == MaxWidth      \* in lost: the confirmation of a resize
Black == [c \in Local |-> <<>>]

Init ==
    /\ width = [m \in Mons |-> 1] /\ told = width /\ asked = <<>>
    /\ resizing = FALSE /\ resizingIdx = 0 /\ timers = 0
    /\ desktop = [m \in Mons |-> [c \in Local |-> 0]] /\ todo = Mons
    /\ inPaint = FALSE /\ frameBatch = <<>>
    /\ child = [m \in Mons |-> [width |-> 1, pic |-> Black, queue |-> <<>>]]
    /\ skipped = [m \in Mons |-> {}] /\ lost = [m \in Mons |-> {}]
    /\ paints = 0 /\ resizes = 0

\* sendToChild: a full queue drops the message, whatever it says.
Room(m) == Len(child[m].queue) < QueueCap
Queued(m, msg) == IF Room(m) THEN [child[m] EXCEPT !.queue = Append(@, msg)] ELSE child[m]

\* resizeMonitor: the confirmation to the window, the others silenced, and the layout
\* to the server, which goes after the lock is free.
Confirmed(m, w) == [kind |-> "resize", width |-> w]
ResizeMonitor(m, w) ==
    /\ w # width[m] /\ resizes < MaxResizes /\ resizes' = resizes + 1
    /\ width' = [width EXCEPT ![m] = w] /\ asked' = Append(asked, width')
    /\ child' = [child EXCEPT ![m] = Queued(m, Confirmed(m, w))]
    /\ resizing' = TRUE /\ resizingIdx' = m
    /\ lost' = [lost EXCEPT ![m] = IF Room(m) THEN @ \ {Size} ELSE @ \cup {Size}]
    /\ UNCHANGED <<timers, told, desktop, todo, paint, skipped, paints>>

\* external: the server takes the layout and draws everything again.  OnResize: the
\* silence ends after two seconds, which may be before or after all is drawn.
ServerResizes ==
    /\ asked # <<>> /\ told' = Head(asked) /\ asked' = Tail(asked) /\ todo' = Mons
    /\ timers' = timers + 1
    /\ UNCHANGED <<width, resizing, resizingIdx, desktop, paint, child, skipped, lost, paints, resizes>>
TimerFires ==
    /\ timers > 0 /\ timers' = timers - 1 /\ resizing' = FALSE /\ resizingIdx' = 0
    /\ UNCHANGED <<width, server, paint, child, skipped, lost, resizes>>

\* routeBitmaps and clipBitmapToMonitor
Silenced(m) == resizing /\ m # resizingIdx
Clipped_Global(image, m) ==
    LET x == LeftOf(width, m) IN [c \in DOMAIN image \cap (x .. x + width[m] - 1) |-> image[c]]
Clipped(image, m) ==
    LET x == LeftOf(width, m)
    IN [c \in {k - x : k \in DOMAIN image \cap (x .. x + width[m] - 1)} |-> image[c + x]]
RouteBitmaps(image) ==
    LET cut == [m \in Mons |-> Clipped(image, m)]
        sends(m) == ~Silenced(m) /\ cut[m] # <<>>
    IN /\ child' = [m \in Mons |-> IF sends(m) THEN Queued(m, [kind |-> "bitmap", image |-> cut[m]]) ELSE child[m]]
       /\ skipped' = [m \in Mons |-> IF Silenced(m) THEN skipped[m] \cup DOMAIN cut[m]
                                     ELSE skipped[m] \ DOMAIN cut[m]]
       /\ lost' = [m \in Mons |-> IF ~sends(m) THEN lost[m]
                                  ELSE IF Room(m) THEN lost[m] \ DOMAIN cut[m]
                                  ELSE lost[m] \cup DOMAIN cut[m]]

\* The callbacks: inside a frame the bitmaps wait for its end.
Bitmap(image) ==
    /\ IF inPaint THEN frameBatch' = Over(image, frameBatch) /\ UNCHANGED <<child, skipped, lost>>
       ELSE RouteBitmaps(image) /\ UNCHANGED frameBatch
    /\ UNCHANGED <<width, suppress, inPaint, resizes, asked, told>>
BeginPaint ==
    /\ ~inPaint /\ inPaint' = TRUE /\ frameBatch' = <<>> /\ todo = {}
    /\ UNCHANGED <<width, suppress, server, child, skipped, lost, resizes>>
EndPaint ==
    /\ inPaint /\ inPaint' = FALSE /\ frameBatch' = <<>> /\ RouteBitmaps(frameBatch)
    /\ UNCHANGED <<width, suppress, server, resizes>>

\* external: the server draws a cell, or a monitor anew.
Drawn(m, cells) ==
    LET x == LeftOf(told, m) IN [k \in {x + c : c \in cells} |-> <<m, k - x, desktop'[m][k - x]>>]
ServerPaints(m, c) ==
    /\ todo = {} /\ c < told[m] /\ paints < MaxPaints /\ paints' = paints + 1
    /\ desktop' = [desktop EXCEPT ![m] = [desktop[m] EXCEPT ![c] = @ + 1]] /\ Bitmap(Drawn(m, {c})) /\ UNCHANGED todo
ServerRepaints(m) ==
    /\ m \in todo /\ todo' = todo \ {m} /\ UNCHANGED <<desktop, paints>>
    /\ Bitmap(Drawn(m, 0..told[m] - 1))

\* The window: handleResize makes it black, handleBitmap cuts what it does not hold.
Receives(s, msg) ==
    IF msg.kind = "resize"
    THEN [s EXCEPT !.width = msg.width, !.pic = IF s.width = msg.width THEN @ ELSE Black]
    ELSE [s EXCEPT !.pic = [c \in Local |-> IF c \in DOMAIN msg.image /\ c < s.width
                                            THEN msg.image[c] ELSE @[c]]]
RecvLoop(m) ==
    /\ child[m].queue # <<>>
    /\ child' = [child EXCEPT ![m] = [Receives(child[m], Head(child[m].queue)) EXCEPT !.queue = Tail(@)]]
    /\ UNCHANGED <<width, suppress, server, paint, skipped, lost, resizes>>

Next ==
    \/ ServerResizes \/ TimerFires \/ BeginPaint \/ EndPaint
    \/ \E m \in Mons : \/ \E w \in 1..MaxWidth : ResizeMonitor(m, w)
                       \/ \E c \in Local : ServerPaints(m, c)
                       \/ ServerRepaints(m) \/ RecvLoop(m)

Spec == Init /\ [][Next]_vars

Quiet == asked = <<>> /\ told = width /\ todo = {} /\ ~inPaint /\ \A m \in Mons : child[m].queue = <<>>
Wrong(m) == {c \in 0..width[m] - 1 : child[m].pic[c] # <<m, c, desktop[m][c]>>}

\* When all is drawn and delivered a window has the size of its monitor, and what it
\* shows wrongly was withheld during a resize or dropped because it was behind.
WindowsFaithful ==
    Quiet => \A m \in Mons : Size \notin lost[m] =>
        child[m].width = width[m] /\ Wrong(m) \subseteq skipped[m] \cup lost[m]

\* "Unchanged monitors already have correct content on screen", so that nothing is
\* missed by withholding their bitmaps.
UnchangedKept == Quiet => \A m \in Mons : Size \notin lost[m] => Wrong(m) \subseteq lost[m]
================================================================================
