--------------------------- MODULE ClientLifecycle ---------------------------
(***************************************************************************)
(* The lifecycle of an rdp.Client (client.go): Connect, the receive loop,  *)
(* the heartbeat, the loss of the connection, automatic reconnection, the  *)
(* reconnect-based resize, Close and the senders, as goroutines that share *)
(* the fields of the Client.                                               *)
(*                                                                         *)
(* What closeMu protects is one step.  A callback runs in the step that    *)
(* releases the lock when closed or reconnecting keeps every other         *)
(* goroutine out in between; where it does not (the end of                 *)
(* resizeViaReconnect) the callback is a step of its own.  The protocol    *)
(* phases of Connect are one "Handshake" here.                             *)
(***************************************************************************)
EXTENDS Naturals, FiniteSets

CONSTANTS
    AutoReconnect,         \* Options.AutoReconnect
    HeartbeatOn,           \* Options.HeartbeatTimeout > 0
    MaxReconnectAttempts,  \* Options.MaxReconnectAttempts, 0 is unlimited
    ServerEndsInHandler,   \* the server may redirect or break a reactivation
    Stalls,                \* a packet handler may outlive a sleep or a dial
    Goroutines,            \* runners of Connect, App and the reconnecting ones
    App,                   \* the goroutine that makes the first Connect
    Senders,               \* goroutines that call the Send functions
    MaxConns,              \* bound: TCP connections made in a behaviour
    MaxResizes             \* bound: calls of Resize without a DISP channel

ASSUME LifecycleAssumption ==
    /\ {AutoReconnect, HeartbeatOn, ServerEndsInHandler, Stalls} \subseteq BOOLEAN
    /\ {MaxReconnectAttempts, MaxConns, MaxResizes} \subseteq Nat
    /\ App \in Goroutines

VARIABLES
    closed, reconnecting,  \* Client.closed, Client.reconnecting (closeMu)
    doneOpen,              \* Client.done, the current channel, is not closed
    state,                 \* Client.state
    conn,                  \* Client.conn and tpktConn: a connection or NoConn
    socks,                 \* connections whose socket this side has open
    lost,                  \* connections on which I/O now fails
    recvDone,              \* Client.receiveLoopDone, named after its connection
    recvClosed,            \* the receiveLoopDone channels that are closed
    loop, loopOn,          \* receive loops: where they are, what they read
    hb,                    \* heartbeat loops
    pc, kind, attempt, await,  \* the goroutines that run Connect
    snd,                   \* the senders
    view,                  \* what the callbacks have told the application
    closeCalled,           \* Close has returned to the application
    dials, resizes,        \* counters for the bounds
    crash                  \* how the process panicked, if it did

lockVars == <<closed, reconnecting, doneOpen>>
loopVars == <<recvDone, recvClosed, loop, loopOn>>
goVars == <<pc, kind, attempt, await>>
bounds == <<dials, resizes>>
vars == <<lockVars, state, conn, socks, lost, loopVars, hb, goVars, snd,
          view, closeCalled, bounds, crash>>

NoConn == 0
Conns == 1 .. MaxConns
States == {"Disconnected", "Connecting", "Handshake", "Connected"}
LoopPcs == {"none", "reading", "handling", "exiting", "exited"}
Pcs == {"idle", "claim", "wait", "sleep", "resetClose", "resetClear",
        "resetArm", "dial", "handshake", "exhausted", "notify", "release",
        "announce"}
Kinds == {"none", "first", "loop", "resize"}
Views == {"up", "reconnecting", "ended"}   \* "up" while no callback has run

\* An unlimited reconnectLoop does not count in the model.
AttemptBound == IF MaxReconnectAttempts = 0 THEN 1 ELSE MaxReconnectAttempts

\* Between claiming c.reconnecting and releasing it.
OwnerPcs == Pcs \ {"idle", "claim", "announce"}
Owner(r) == kind[r] \in {"loop", "resize"} /\ pc[r] \in OwnerPcs

TypeOK ==
    /\ closed \in BOOLEAN /\ reconnecting \in BOOLEAN /\ doneOpen \in BOOLEAN
    /\ state \in States
    /\ conn \in Conns \cup {NoConn}
    /\ socks \subseteq Conns /\ lost \subseteq Conns
    /\ recvDone \in Conns \cup {NoConn} /\ recvClosed \subseteq Conns
    /\ loop \in [Conns -> LoopPcs] /\ loopOn \in [Conns -> Conns \cup {NoConn}]
    /\ hb \in [Conns -> {"off", "on", "told", "fired"}]
    /\ pc \in [Goroutines -> Pcs] /\ kind \in [Goroutines -> Kinds]
    /\ attempt \in [Goroutines -> 1 .. AttemptBound]
    /\ await \in [Goroutines -> Conns \cup {NoConn}]
    /\ snd \in [Senders -> {"idle", "checked"}]
    /\ view \in Views
    /\ closeCalled \in BOOLEAN
    /\ dials \in 0 .. MaxConns /\ resizes \in 0 .. MaxResizes
    /\ crash \in {"none", "closedDone", "closedRecvDone", "nilConn"}

Init ==
    /\ closed = FALSE /\ reconnecting = FALSE /\ doneOpen = TRUE
    /\ state = "Disconnected"
    /\ conn = NoConn /\ socks = {} /\ lost = {}
    /\ recvDone = NoConn /\ recvClosed = {}
    /\ loop = [k \in Conns |-> "none"] /\ loopOn = [k \in Conns |-> NoConn]
    /\ hb = [k \in Conns |-> "off"]
    /\ pc = [r \in Goroutines |-> IF r = App THEN "dial" ELSE "idle"]
    /\ kind = [r \in Goroutines |-> IF r = App THEN "first" ELSE "none"]
    /\ attempt = [r \in Goroutines |-> 1]
    /\ await = [r \in Goroutines |-> NoConn]
    /\ snd = [s \in Senders |-> "idle"]
    /\ view = "up" /\ closeCalled = FALSE
    /\ dials = 0 /\ resizes = 0
    /\ crash = "none"

Goto(r, where) == pc' = [pc EXCEPT ![r] = where]
Broken(k) == k \notin socks \/ k \in lost

(***************************************************************************)
(* A goroutine that is not blocked runs long before a sleep of seconds or  *)
(* a network round trip ends.  A packet handler is exempt when Stalls: it  *)
(* calls into the application and into local devices, which may block.     *)
(***************************************************************************)
Settled ==
    \A k \in Conns :
        /\ loop[k] # "exiting"
        /\ loop[k] = "reading" => ~Broken(loopOn[k])
        /\ loop[k] = "handling" => Stalls
        /\ hb[k] # "fired"

-----------------------------------------------------------------------------
(* Ending a session: the parts Close, handleDisconnect and                 *)
(* resizeViaReconnect share.                                               *)

Live_IgnoresReconnecting == ~closed
Live == ~closed /\ ~reconnecting

\* close(c.done): it panics if the channel is closed already, and it tells
\* the heartbeat loops, which hold the same channel.
CloseDone(fired) ==
    /\ doneOpen' = FALSE
    /\ crash' = IF doneOpen THEN crash ELSE "closedDone"
    /\ hb' = [k \in Conns |-> IF k \in fired THEN "off"
                              ELSE IF hb[k] = "on" THEN "told" ELSE hb[k]]

Spawn(r, what, where) ==
    /\ r # App /\ pc[r] = "idle"
    /\ pc' = [pc EXCEPT ![r] = where]
    /\ kind' = [kind EXCEPT ![r] = what]
    /\ attempt' = [attempt EXCEPT ![r] = 1]
    /\ UNCHANGED await

\* handleDisconnect: an error wraps ErrDisconnected iff ~retryable.  fired is
\* the heartbeat loop that makes the call and returns after it, if any.
HandleDisconnect(retryable, fired) ==
    \/ /\ ~Live
       /\ hb' = [k \in Conns |-> IF k \in fired THEN "off" ELSE hb[k]]
       /\ UNCHANGED <<lockVars, goVars, view, crash>>
    \/ /\ Live /\ AutoReconnect /\ retryable
       /\ CloseDone(fired)
       /\ reconnecting' = TRUE
       /\ view' = "reconnecting"
       /\ \E r \in Goroutines : Spawn(r, "loop", "sleep")
       /\ UNCHANGED closed
    \/ /\ Live /\ ~(AutoReconnect /\ retryable)
       /\ CloseDone(fired)
       /\ closed' = TRUE
       /\ view' = "ended"
       /\ UNCHANGED <<reconnecting, goVars>>

\* Close, from the application or from a Connect that fails: a no-op once the
\* client is closed and while a goroutine reconnects.
Close ==
    \/ /\ ~Live
       /\ UNCHANGED <<lockVars, state, socks, hb, crash>>
    \/ /\ Live
       /\ closed' = TRUE
       /\ CloseDone({})
       /\ state' = "Disconnected"
       /\ socks' = socks \ {conn}
       /\ UNCHANGED reconnecting

-----------------------------------------------------------------------------
(* Connect, run by App and by the goroutines that reconnect.               *)

ConnectFailed_OffByOne(r) ==
    /\ IF kind[r] = "loop" /\ attempt[r] <= MaxReconnectAttempts
       THEN Goto(r, "sleep") /\ attempt' = [attempt EXCEPT ![r] = @ + 1]
       ELSE Goto(r, "exhausted") /\ UNCHANGED attempt
    /\ UNCHANGED <<closed, reconnecting, view>>

ConnectFailed(r) ==
    CASE kind[r] = "first" -> Goto(r, "idle") /\ UNCHANGED <<closed, reconnecting, view, attempt>>
      [] kind[r] = "resize" ->     \* closed, then onDisconnect
            /\ Goto(r, "idle")
            /\ closed' = TRUE /\ reconnecting' = FALSE /\ view' = "ended"
            /\ UNCHANGED attempt
      [] OTHER ->                  \* the for statement of reconnectLoop
            /\ IF MaxReconnectAttempts # 0 /\ attempt[r] >= MaxReconnectAttempts
               THEN Goto(r, "exhausted") /\ UNCHANGED attempt
               ELSE /\ Goto(r, "sleep")
                    /\ attempt' = IF MaxReconnectAttempts = 0 THEN attempt
                                  ELSE [attempt EXCEPT ![r] = @ + 1]
            /\ UNCHANGED <<closed, reconnecting, view>>

DialFails(r) ==
    /\ pc[r] = "dial"
    /\ state' = "Connecting"
    /\ ConnectFailed(r)
    /\ UNCHANGED <<doneOpen, conn, socks, lost, loopVars, hb, kind, await, snd,
                   closeCalled, bounds, crash>>

DialSucceeds(r) ==
    /\ pc[r] = "dial" /\ dials < MaxConns /\ Settled
    /\ dials' = dials + 1
    /\ conn' = dials + 1
    /\ socks' = socks \cup {dials + 1}
    /\ state' = "Handshake"
    /\ Goto(r, "handshake")
    /\ UNCHANGED <<lockVars, lost, loopVars, hb, kind, attempt, await, snd, view,
                   closeCalled, resizes, crash>>

\* A failing phase calls c.Close() before it returns.  A reconnecting
\* goroutine makes that call a no-op, so the socket stays.
HandshakeFails(r) ==
    /\ pc[r] = "handshake" /\ Settled
    /\ IF kind[r] = "first"
       THEN Close /\ Goto(r, "idle") /\ UNCHANGED <<attempt, view>>
       ELSE ConnectFailed(r) /\ UNCHANGED <<doneOpen, state, socks, hb, crash>>
    /\ UNCHANGED <<conn, lost, loopVars, kind, await, snd, closeCalled, bounds>>

HandshakeSucceeds_Unannounced(r) ==
    /\ pc[r] = "handshake" /\ Settled /\ conn # NoConn
    /\ state' = "Connected"
    /\ recvDone' = conn
    /\ loop' = [loop EXCEPT ![conn] = "reading"]
    /\ loopOn' = [loopOn EXCEPT ![conn] = conn]
    /\ hb' = IF HeartbeatOn THEN [hb EXCEPT ![conn] = "on"] ELSE hb
    /\ Goto(r, IF kind[r] = "first" THEN "idle" ELSE "release")
    /\ UNCHANGED <<lockVars, conn, socks, lost, recvClosed, kind, attempt, await,
                   snd, view, closeCalled, bounds, crash>>

HandshakeSucceeds(r) ==
    /\ pc[r] = "handshake" /\ Settled /\ conn # NoConn
    /\ state' = "Connected"
    /\ recvDone' = conn
    /\ loop' = [loop EXCEPT ![conn] = "reading"]
    /\ loopOn' = [loopOn EXCEPT ![conn] = conn]
    /\ hb' = IF HeartbeatOn THEN [hb EXCEPT ![conn] = "on"] ELSE hb
    /\ Goto(r, CASE kind[r] = "first" -> "idle"
                 [] kind[r] = "loop" -> "notify"
                 [] OTHER -> "release")
    /\ UNCHANGED <<lockVars, conn, socks, lost, recvClosed, kind, attempt, await,
                   snd, view, closeCalled, bounds, crash>>

-----------------------------------------------------------------------------
(* reconnectLoop and resizeViaReconnect.                                   *)

SleepEnds(r) ==
    /\ pc[r] = "sleep" /\ Settled
    /\ Goto(r, "resetClose")
    /\ UNCHANGED <<lockVars, state, conn, socks, lost, loopVars, hb, kind, attempt,
                   await, snd, view, closeCalled, bounds, crash>>

ResetClose_KeepsSocket(r) ==
    /\ pc[r] = "resetClose"
    /\ state' = "Disconnected"
    /\ Goto(r, "resetClear")
    /\ UNCHANGED <<lockVars, conn, socks, lost, loopVars, hb, kind, attempt, await,
                   snd, view, closeCalled, bounds, crash>>

\* resetForReconnect: state first, then the sockets, ...
ResetClose(r) ==
    /\ pc[r] = "resetClose"
    /\ state' = "Disconnected"
    /\ socks' = socks \ {conn}
    /\ Goto(r, "resetClear")
    /\ UNCHANGED <<lockVars, conn, lost, loopVars, hb, kind, attempt, await, snd,
                   view, closeCalled, bounds, crash>>

\* ... then, under writeMu, the fields the senders read, ...
ResetClear(r) ==
    /\ pc[r] = "resetClear"
    /\ conn' = NoConn
    /\ recvDone' = NoConn
    /\ Goto(r, "resetArm")
    /\ UNCHANGED <<lockVars, state, socks, lost, recvClosed, loop, loopOn, hb, kind,
                   attempt, await, snd, view, closeCalled, bounds, crash>>

ResetArm_KeepsDone(r) ==
    /\ pc[r] = "resetArm"
    /\ closed' = FALSE
    /\ Goto(r, "dial")
    /\ UNCHANGED <<reconnecting, doneOpen, state, conn, socks, lost, loopVars, hb,
                   kind, attempt, await, snd, view, closeCalled, bounds, crash>>

\* ... and at the end, under closeMu, a new done channel.
ResetArm(r) ==
    /\ pc[r] = "resetArm"
    /\ closed' = FALSE
    /\ doneOpen' = TRUE
    /\ Goto(r, "dial")
    /\ UNCHANGED <<reconnecting, state, conn, socks, lost, loopVars, hb, kind,
                   attempt, await, snd, view, closeCalled, bounds, crash>>

\* onReconnected, which reconnectLoop calls while it still owns the client and
\* resizeViaReconnect calls after it has released it.
Notify(r) ==
    /\ pc[r] \in {"notify", "announce"}
    /\ view' = "up"
    /\ Goto(r, IF pc[r] = "notify" THEN "release" ELSE "idle")
    /\ UNCHANGED <<lockVars, state, conn, socks, lost, loopVars, hb, kind, attempt,
                   await, snd, closeCalled, bounds, crash>>

Exhausted_KeepsOwnership(r) ==
    /\ pc[r] = "exhausted"
    /\ closed' = TRUE
    /\ view' = "ended"
    /\ Goto(r, "idle")
    /\ UNCHANGED <<reconnecting, doneOpen, state, conn, socks, lost, loopVars, hb,
                   kind, attempt, await, snd, closeCalled, bounds, crash>>

Exhausted(r) ==
    /\ pc[r] = "exhausted"
    /\ closed' = TRUE
    /\ view' = "ended"
    /\ Goto(r, "release")
    /\ UNCHANGED <<reconnecting, doneOpen, state, conn, socks, lost, loopVars, hb,
                   kind, attempt, await, snd, closeCalled, bounds, crash>>

Release(r) ==
    /\ pc[r] = "release"
    /\ reconnecting' = FALSE
    /\ Goto(r, IF kind[r] = "resize" THEN "announce" ELSE "idle")
    /\ UNCHANGED <<closed, doneOpen, state, conn, socks, lost, loopVars, hb, kind,
                   attempt, await, snd, view, closeCalled, bounds, crash>>

ResizeClaim_IgnoresClosed(r) ==
    /\ pc[r] = "claim"
    /\ IF ~reconnecting
       THEN /\ reconnecting' = TRUE
            /\ CloseDone({})
            /\ socks' = socks \ {conn}
            /\ await' = [await EXCEPT ![r] = recvDone]
            /\ Goto(r, "wait")
       ELSE /\ Goto(r, "idle")
            /\ UNCHANGED <<reconnecting, doneOpen, crash, hb, socks, await>>
    /\ UNCHANGED <<closed, state, conn, lost, loopVars, kind, attempt, snd, view,
                   closeCalled, bounds>>

\* The first critical section of resizeViaReconnect.
ResizeClaim(r) ==
    /\ pc[r] = "claim"
    /\ IF Live
       THEN /\ reconnecting' = TRUE
            /\ CloseDone({})
            /\ socks' = socks \ {conn}
            /\ await' = [await EXCEPT ![r] = recvDone]
            /\ Goto(r, "wait")
       ELSE /\ Goto(r, "idle")
            /\ UNCHANGED <<reconnecting, doneOpen, crash, hb, socks, await>>
    /\ UNCHANGED <<closed, state, conn, lost, loopVars, kind, attempt, snd, view,
                   closeCalled, bounds>>

ResizeWait_NoWait(r) ==
    /\ pc[r] = "wait"
    /\ view' = "reconnecting"
    /\ Goto(r, "resetClose")
    /\ UNCHANGED <<lockVars, state, conn, socks, lost, loopVars, hb, kind, attempt,
                   await, snd, closeCalled, bounds, crash>>

\* <-recvDone, then onReconnecting.
ResizeWait(r) ==
    /\ pc[r] = "wait"
    /\ await[r] # NoConn => await[r] \in recvClosed
    /\ view' = "reconnecting"
    /\ Goto(r, "resetClose")
    /\ UNCHANGED <<lockVars, state, conn, socks, lost, loopVars, hb, kind, attempt,
                   await, snd, closeCalled, bounds, crash>>

-----------------------------------------------------------------------------
(* receiveLoop and heartbeatLoop.                                          *)

LoopPacket(k) ==
    /\ loop[k] = "reading" /\ ~Broken(loopOn[k])
    /\ loop' = [loop EXCEPT ![k] = "handling"]
    /\ UNCHANGED <<lockVars, state, conn, socks, lost, recvDone, recvClosed, loopOn,
                   hb, goVars, snd, view, closeCalled, bounds, crash>>

\* A handler has returned and the loop evaluates c.tpktConn again.
NextRead(k) ==
    IF conn = NoConn
    THEN crash' = "nilConn" /\ UNCHANGED <<loop, loopOn>>
    ELSE /\ loop' = [loop EXCEPT ![k] = "reading"]
         /\ loopOn' = [loopOn EXCEPT ![k] = conn]
         /\ UNCHANGED crash

LoopHandled(k) ==
    /\ loop[k] = "handling"
    /\ NextRead(k)
    /\ UNCHANGED <<lockVars, state, conn, socks, lost, recvDone, recvClosed, hb,
                   goVars, snd, view, closeCalled, bounds>>

\* handleRedirectPDU, and a handleReactivation that fails: the handler calls
\* handleDisconnect and returns, and the loop goes on.
LoopRedirected(k) ==
    /\ ServerEndsInHandler /\ conn # NoConn
    /\ loop[k] = "handling"
    /\ HandleDisconnect(TRUE, {})
    /\ loop' = [loop EXCEPT ![k] = "reading"]
    /\ loopOn' = [loopOn EXCEPT ![k] = conn]
    /\ UNCHANGED <<state, conn, socks, lost, recvDone, recvClosed, snd, closeCalled,
                   bounds>>

LoopError_Silent(k) ==
    /\ loop[k] = "reading" /\ Broken(loopOn[k])
    /\ loop' = [loop EXCEPT ![k] = "exiting"]
    /\ UNCHANGED <<lockVars, state, conn, socks, lost, recvDone, recvClosed, loopOn,
                   hb, goVars, snd, view, closeCalled, bounds, crash>>

LoopError(k) ==
    /\ loop[k] = "reading" /\ Broken(loopOn[k])
    /\ HandleDisconnect(TRUE, {})
    /\ loop' = [loop EXCEPT ![k] = "exiting"]
    /\ UNCHANGED <<state, conn, socks, lost, recvDone, recvClosed, loopOn, snd,
                   closeCalled, bounds>>

\* MCS Disconnect Provider Ultimatum: a logoff or an administrator's kick.
LoopUltimatum(k) ==
    /\ loop[k] = "reading" /\ ~Broken(loopOn[k])
    /\ HandleDisconnect(FALSE, {})
    /\ loop' = [loop EXCEPT ![k] = "exiting"]
    /\ UNCHANGED <<state, conn, socks, lost, recvDone, recvClosed, loopOn, snd,
                   closeCalled, bounds>>

\* The deferred close(c.receiveLoopDone), of the field's value at that time.
LoopExit(k) ==
    /\ loop[k] = "exiting"
    /\ loop' = [loop EXCEPT ![k] = "exited"]
    /\ recvClosed' = recvClosed \cup ({recvDone} \ {NoConn})
    /\ crash' = IF recvDone \in recvClosed THEN "closedRecvDone" ELSE crash
    /\ UNCHANGED <<lockVars, state, conn, socks, lost, recvDone, loopOn, hb, goVars,
                   snd, view, closeCalled, bounds>>

\* The ticker: lastReceived is too old.  A select whose channels are both
\* ready may take the ticker after done is closed.
HeartbeatExpires(k) ==
    /\ hb[k] \in {"on", "told"}
    /\ hb' = [hb EXCEPT ![k] = "fired"]
    /\ UNCHANGED <<lockVars, state, conn, socks, lost, loopVars, goVars, snd, view,
                   closeCalled, bounds, crash>>

HeartbeatDisconnects(k) ==
    /\ hb[k] = "fired"
    /\ HandleDisconnect(TRUE, {k})
    /\ UNCHANGED <<state, conn, socks, lost, loopVars, snd, closeCalled, bounds>>

HeartbeatStops(k) ==
    /\ hb[k] = "told"
    /\ hb' = [hb EXCEPT ![k] = "off"]
    /\ UNCHANGED <<lockVars, state, conn, socks, lost, loopVars, goVars, snd, view,
                   closeCalled, bounds, crash>>

-----------------------------------------------------------------------------
(* The application, the senders and the network.                           *)

Started == pc[App] = "idle"

AppCloses ==
    /\ Started /\ ~closeCalled
    /\ Close
    /\ closeCalled' = TRUE
    /\ UNCHANGED <<conn, lost, loopVars, goVars, snd, view, bounds>>

\* Resize and ResizeMulti when the server has opened no DISP channel.
AppResizes ==
    /\ Started /\ state = "Connected" /\ resizes < MaxResizes
    /\ resizes' = resizes + 1
    /\ \E r \in Goroutines : Spawn(r, "resize", "claim")
    /\ UNCHANGED <<lockVars, state, conn, socks, lost, loopVars, hb, snd, view,
                   closeCalled, dials, crash>>

\* SendKeyboard and the other senders, keepAliveLoop's RefreshRect included.
SendChecks(s) ==
    /\ snd[s] = "idle" /\ state = "Connected"
    /\ snd' = [snd EXCEPT ![s] = "checked"]
    /\ UNCHANGED <<lockVars, state, conn, socks, lost, loopVars, hb, goVars, view,
                   closeCalled, bounds, crash>>

\* sendDataPDU: writeMu, then c.tpktConn.WriteDirect.
SendWrites(s) ==
    /\ snd[s] = "checked"
    /\ IF conn = NoConn THEN crash' = "nilConn" /\ UNCHANGED snd
       ELSE snd' = [snd EXCEPT ![s] = "idle"] /\ UNCHANGED crash
    /\ UNCHANGED <<lockVars, state, conn, socks, lost, loopVars, hb, goVars, view,
                   closeCalled, bounds>>

NetworkFails ==
    /\ conn \in socks \ lost /\ state = "Connected"
    /\ lost' = lost \cup {conn}
    /\ UNCHANGED <<lockVars, state, conn, socks, loopVars, hb, goVars, snd, view,
                   closeCalled, bounds, crash>>

ConnectStep(r) ==
    \/ DialFails(r) \/ DialSucceeds(r) \/ HandshakeFails(r) \/ HandshakeSucceeds(r)
    \/ SleepEnds(r) \/ ResetClose(r) \/ ResetClear(r) \/ ResetArm(r)
    \/ Notify(r) \/ Exhausted(r) \/ Release(r)
    \/ ResizeClaim(r) \/ ResizeWait(r)
LoopRuns(k) == LoopHandled(k) \/ LoopError(k) \/ LoopExit(k)
HeartbeatStep(k) ==
    HeartbeatExpires(k) \/ HeartbeatDisconnects(k) \/ HeartbeatStops(k)
LoopStep(k) ==
    LoopPacket(k) \/ LoopRuns(k) \/ LoopRedirected(k) \/ LoopUltimatum(k)
AppStep == AppCloses \/ AppResizes

Next ==
    /\ crash = "none"
    /\ \/ \E r \in Goroutines : ConnectStep(r)
       \/ \E k \in Conns : LoopStep(k) \/ HeartbeatStep(k)
       \/ \E s \in Senders : SendChecks(s) \/ SendWrites(s)
       \/ AppStep
       \/ NetworkFails

\* Runnable goroutines run, and a dial ends, by its timeout of 10 seconds.  The
\* reads of a handshake have no deadline.  Nothing makes the application, the
\* network or the server act, and the heartbeat need not expire.
Fairness ==
    /\ \A r \in Goroutines :
          WF_vars(crash = "none" /\ pc[r] # "handshake" /\ ConnectStep(r))
    /\ \A k \in Conns : /\ WF_vars(crash = "none" /\ LoopRuns(k))
                        /\ WF_vars(crash = "none" /\ HeartbeatDisconnects(k))

Spec == Init /\ [][Next]_vars
FairSpec == Spec /\ Fairness
-----------------------------------------------------------------------------
(* Properties.                                                             *)

\* c.reconnecting is the ownership of the client: it is set exactly while one
\* goroutine is between claiming it and giving it up, so that no two ever run
\* resetForReconnect or Connect at the same time.
ReconnectExclusive ==
    /\ reconnecting <=> \E r \in Goroutines : Owner(r)
    /\ \A q, r \in Goroutines : Owner(q) /\ Owner(r) => q = r

\* Whenever closeMu admits a caller to close(c.done), in Close, handleDisconnect
\* or resizeViaReconnect, the channel is open: no session is ended twice.
DoneReady == (Live => doneOpen) /\ crash # "closedDone"

\* Nothing undoes a close: once the client is closed and no goroutine owns it,
\* it stays so and opens no connection, whatever was in flight (a resize that
\* waits for its lock, a heartbeat about to fire, a loop about to fail).
ClosedIsFinal ==
    [][closed /\ ~reconnecting => closed' /\ ~reconnecting' /\ dials' = dials]_vars

\* The panics the lifecycle could cause: closing a channel twice, or using
\* c.tpktConn after resetForReconnect.
NoPanic == crash = "none"

\* A connection is read by one goroutine at a time: by the receive loops that
\* hold it in c.tpktConn, or by the Connect whose handshake runs on it.
Readers(k) ==
    {l \in Conns : loop[l] \in {"reading", "handling"} /\ loopOn[l] = k}
ReaderExclusive ==
    \A k \in Conns :
        /\ Cardinality(Readers(k)) <= 1
        /\ conn = k /\ (\E r \in Goroutines : pc[r] = "handshake") => Readers(k) = {}

\* However often the client reconnects, its loops neither panic nor take each
\* other's packets.
LoopsSafe == NoPanic /\ ReaderExclusive

\* Every socket is within reach of the next Close or resetForReconnect, through
\* c.conn: one failed attempt after another leaks none.
NoSocketLeak == socks \subseteq {conn}

\* What the callbacks tell the application, see AppSession.
Phase == IF closed /\ ~reconnecting /\ view # "ended" THEN "closed" ELSE view
Session == INSTANCE AppSession WITH phase <- Phase
AppSession == Session!Spec

\* A goroutine that owns the client lets go of it, unless a server leaves a
\* handshake unanswered: the attempts end, and so does the resize's wait for the
\* receive loop.
ReconnectEnds ==
    []<>(\A r \in Goroutines : pc[r] # "handshake")
        => (reconnecting ~> ~reconnecting)

\* A receive loop whose connection breaks ends the session or starts to
\* reconnect, unless the client is already being closed or reconnected.
LossNoticed ==
    (\E k \in Conns : loop[k] = "reading" /\ loopOn[k] \in lost)
        ~> (~Live \/ crash # "none")

-----------------------------------------------------------------------------
(* The inductive invariant of ClientLifecycleProofs.                       *)

\* App only makes the first Connect, the others only reconnect, and before the
\* first Connect has returned nothing else is under way.
FirstConnect ==
    /\ pc[App] \in {"idle", "dial", "handshake"} /\ kind[App] = "first"
    /\ \A r \in Goroutines \ {App} :
          kind[r] # "first" /\ (pc[r] # "idle" => kind[r] \in {"loop", "resize"})
    /\ pc[App] # "idle" =>
          /\ Live
          /\ \A r \in Goroutines \ {App} : pc[r] = "idle"
          /\ \A k \in Conns : loop[k] = "none" /\ hb[k] = "off"

\* The owner arms done before it connects, and does not close the client before
\* it has given up.
OwnerArms ==
    \A r \in Goroutines : Owner(r) =>
        /\ pc[r] # "release" => ~closed
        /\ pc[r] \in {"dial", "handshake", "notify"} => doneOpen
        /\ pc[r] = "release" => closed \/ doneOpen

\* A connection is only dialled when the last one is closed.
DialsAfterClose ==
    \A r \in Goroutines : pc[r] \in {"resetClear", "resetArm", "dial"} => socks = {}

IInv ==
    /\ TypeOK /\ ReconnectExclusive /\ DoneReady /\ NoSocketLeak
    /\ FirstConnect /\ OwnerArms /\ DialsAfterClose

-----------------------------------------------------------------------------
(* What the repository says of the client and the code does not do.        *)

\* "Done returns a channel that is closed when the connection ends, whether by
\* explicit Close() or unexpected disconnect": also when it ends in onDisconnect
\* after attempts to reconnect.
DoneTellsTheEnd == view = "ended" => ~doneOpen

\* "Close closes the RDP connection": once it has returned and no goroutine
\* owns the client, the client is closed.
CloseCloses == closeCalled /\ ~reconnecting => closed

\* "Fully connected, receive loop running".
ConnectedReceives ==
    state = "Connected" /\ Live => \E k \in Conns : loop[k] \in {"reading", "handling"}

\* "Mark disconnected first so new Send* calls return ErrNotConnected. Take
\* writeMu to wait for any in-flight sendDataPDU": no sender meets the cleared
\* fields.
SendersAreSafe == \A s \in Senders : snd[s] = "checked" => conn # NoConn
=============================================================================
