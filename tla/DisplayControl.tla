--------------------------- MODULE DisplayControl ----------------------------
(***************************************************************************)
(* Display control: Client.Resize and ResizeMulti (client.go) and the      *)
(* handler of the dynamic channel (protocol/disp/disp.go), on a server     *)
(* that has display control.  The application resizes; the receive loop    *)
(* opens the channel, learns that it is ready, and sends what was queued.  *)
(* They share the handler and the queue without a lock.  A size is the     *)
(* number of its request.                                                  *)
(***************************************************************************)
EXTENDS Naturals, Sequences

CONSTANTS
    MaxAskedSizes,   \* bound: calls of Resize and ResizeMulti
    MaxSessions      \* bound: connections

None == "none"
Kinds == {"single", "multi", "noPrimary"}

VARIABLES
    session,         \* connections so far
    wanted, optsSize,    \* the last size asked for; opts.Width and Height
    dispHandler,     \* none, opened, ready
    onReady,         \* the callback is armed
    pendingResize, pendingMonitors,   \* the queued requests, 0 for none
    app,             \* the call of the application
    flush,           \* the receive loop: idle, fire, or the request it sends
    srvSize,         \* the size the server has been given last
    kindOf,          \* kind of each request
    early,           \* a resize reconnected a server with display control
    raced,           \* a call met the channel while it was becoming ready
    mixed            \* requests of both kinds were queued

queue == <<pendingResize, pendingMonitors>>
history == <<early, raced, mixed>>
vars == <<session, wanted, optsSize, dispHandler, onReady, queue, app, flush,
          srvSize, kindOf, history>>

Init ==
    /\ session = 1 /\ wanted = 0 /\ optsSize = 0
    /\ dispHandler = None /\ onReady = FALSE /\ pendingResize = 0 /\ pendingMonitors = 0
    /\ app = [at |-> "idle"] /\ flush = "idle" /\ srvSize = 0
    /\ kindOf = [n \in 1..MaxAskedSizes |-> None]
    /\ early = FALSE /\ raced = FALSE /\ mixed = FALSE

-----------------------------------------------------------------------------
(* The application.                                                        *)

Valid(n) == kindOf[n] # "noPrimary"
Sent(n) == srvSize' = IF Valid(n) THEN n ELSE srvSize

\* The first lines of both calls, in a connected client; ResizeMulti stores the
\* bounding box.
Resize(kind) ==
    /\ app.at = "idle" /\ wanted < MaxAskedSizes
    /\ wanted' = wanted + 1 /\ optsSize' = wanted'
    /\ kindOf' = [kindOf EXCEPT ![wanted'] = kind]
    /\ app' = [at |-> "checks"]
    /\ UNCHANGED <<session, dispHandler, onReady, queue, flush, srvSize, history>>

\* Without a handler: go resizeViaReconnect.
ResizeReconnects ==
    /\ app.at = "checks" /\ dispHandler = None
    /\ app' = [at |-> "reconnects"] /\ early' = TRUE
    /\ UNCHANGED <<session, wanted, optsSize, dispHandler, onReady, queue, flush,
                   srvSize, kindOf, raced, mixed>>

ResizeSeesReady ==
    /\ app.at = "checks" /\ dispHandler # None
    /\ app' = [at |-> IF dispHandler = "ready" THEN "sends" ELSE "queues"]
    /\ raced' = (raced \/ flush # "idle")
    /\ UNCHANGED <<session, wanted, optsSize, dispHandler, onReady, queue, flush,
                   srvSize, kindOf, early, mixed>>

Queue(n) ==
    IF kindOf[n] = "single" THEN pendingResize' = n /\ UNCHANGED pendingMonitors
                            ELSE pendingMonitors' = n /\ UNCHANGED pendingResize

ResizeQueues ==
    /\ app.at = "queues" /\ app' = [at |-> "idle"]
    /\ Queue(wanted)
    /\ raced' = (raced \/ dispHandler # "opened")
    /\ mixed' = (mixed \/ IF kindOf[wanted] = "single" THEN pendingMonitors # 0
                          ELSE pendingResize # 0)
    /\ UNCHANGED <<session, wanted, optsSize, dispHandler, onReady, flush,
                   srvSize, kindOf, early>>

\* A layout without exactly one primary monitor is refused, here and in a flush.
ResizeSends ==
    /\ app.at = "sends" /\ app' = [at |-> "idle"]
    /\ Sent(wanted)
    /\ UNCHANGED <<session, wanted, optsSize, dispHandler, onReady, queue, flush,
                   kindOf, history>>

\* resetForReconnect and Connect; the server is given opts.Width and Height.
ResetQueue == pendingResize' = 0 /\ pendingMonitors' = 0

ResizeViaReconnect ==
    /\ app.at = "reconnects" /\ flush = "idle" /\ session < MaxSessions
    /\ session' = session + 1 /\ app' = [at |-> "idle"]
    /\ ResetQueue
    /\ dispHandler' = None /\ onReady' = FALSE /\ srvSize' = optsSize
    /\ UNCHANGED <<wanted, optsSize, flush, kindOf, history>>

-----------------------------------------------------------------------------
(* The receive loop.                                                       *)

\* The channel is created: a new handler, its callback armed.
ArmCallback_Never == onReady' = FALSE
ArmCallback == onReady' = TRUE

HandleCreate ==
    /\ dispHandler = None /\ flush = "idle" /\ app.at # "reconnects"
    /\ dispHandler' = "opened" /\ ArmCallback
    /\ UNCHANGED <<session, wanted, optsSize, queue, app, flush, srvSize, kindOf,
                   history>>

\* The caps: ready, then the callback, then it is dropped.
ProcessCaps ==
    /\ dispHandler = "opened" /\ flush = "idle"
    /\ dispHandler' = "ready" /\ flush' = IF onReady THEN "fire" ELSE "idle"
    /\ UNCHANGED <<session, wanted, optsSize, onReady, queue, app, srvSize, kindOf,
                   history>>

\* The queued layout of several monitors goes first, and alone.
Flush ==
    /\ flush = "fire" /\ flush' = "drop"
    /\ IF pendingMonitors # 0
       THEN Sent(pendingMonitors) /\ pendingMonitors' = 0 /\ UNCHANGED pendingResize
       ELSE IF pendingResize # 0
       THEN Sent(pendingResize) /\ pendingResize' = 0 /\ UNCHANGED pendingMonitors
       ELSE UNCHANGED <<srvSize, queue>>
    /\ UNCHANGED <<session, wanted, optsSize, dispHandler, onReady, app, kindOf,
                   history>>

DropCallback ==
    /\ flush = "drop" /\ flush' = "idle" /\ onReady' = FALSE
    /\ UNCHANGED <<session, wanted, optsSize, dispHandler, queue, app, srvSize,
                   kindOf, history>>

\* The connection is lost, and the client reconnects by itself.
Reconnect ==
    /\ session < MaxSessions /\ app.at = "idle" /\ flush = "idle"
    /\ session' = session + 1
    /\ ResetQueue
    /\ dispHandler' = None /\ onReady' = FALSE /\ srvSize' = optsSize
    /\ UNCHANGED <<wanted, optsSize, app, flush, kindOf, history>>

Next ==
    \/ (\E k \in Kinds : Resize(k)) \/ ResizeReconnects \/ ResizeSeesReady \/ ResizeQueues
    \/ ResizeSends \/ ResizeViaReconnect
    \/ HandleCreate \/ ProcessCaps \/ Flush \/ DropCallback \/ Reconnect

Spec == Init /\ [][Next]_vars

-----------------------------------------------------------------------------
(* Properties.                                                             *)

\* With nothing under way on a ready channel, the server has been given the last
\* valid size that was asked for, whether it was sent, queued or taken along by a
\* reconnection; unless the call raced the channel becoming ready, or requests of
\* both kinds were queued, of which the flush sends one.
LastSizeWins ==
    dispHandler = "ready" /\ flush = "idle" /\ app.at = "idle" /\ ~raced /\ ~mixed
        => \/ srvSize = wanted
           \/ wanted # 0 /\ ~Valid(wanted)

\* No request outlives the connection it was queued for.
QueueOfSession ==
    dispHandler = None => pendingResize = 0 /\ pendingMonitors = 0

\* client.go:5534 says of a Resize that "If the display control channel isn't ready
\* yet, the resize is queued and sent automatically when the channel opens".
EarlyResizeQueued == ~early

\* The last size asked for is the one the server gets, on the connection it was meant for.
ResizesFaithful == LastSizeWins /\ QueueOfSession
=============================================================================
