------------------------ MODULE ClientLifecycleProofs ------------------------
(***************************************************************************)
(* Proofs about ClientLifecycle: the inductive invariant IInv and what     *)
(* follows from it, for every set of goroutines and senders and all        *)
(* options and bounds.                                                     *)
(***************************************************************************)
EXTENDS ClientLifecycle, FiniteSetTheorems, TLAPS

\* The constants' types, as the provers need them.
LEMMA ConstantTypes ==
    /\ App \in Goroutines
    /\ MaxReconnectAttempts \in Nat /\ MaxConns \in Nat /\ MaxResizes \in Nat
    /\ AttemptBound \in Nat /\ 1 \in 1 .. AttemptBound
BY LifecycleAssumption DEF LifecycleAssumption, AttemptBound

\* A fresh client has no goroutine but the application's, and all locks are free.
LEMMA InitIInv == Init => IInv
<1> SUFFICES ASSUME Init PROVE IInv
  OBVIOUS
<1> USE ConstantTypes
<1>1. TypeOK
  <2>1. closed \in BOOLEAN /\ reconnecting \in BOOLEAN /\ doneOpen \in BOOLEAN
    BY DEF Init
  <2>2. state \in States /\ view \in Views /\ closeCalled \in BOOLEAN /\ crash \in {"none", "closedDone", "closedRecvDone", "nilConn"}
    BY DEF Init, States, Views
  <2>3. conn \in Conns \cup {NoConn} /\ socks \subseteq Conns /\ lost \subseteq Conns
        /\ recvDone \in Conns \cup {NoConn} /\ recvClosed \subseteq Conns
    BY DEF Init, NoConn
  <2>4. loop \in [Conns -> LoopPcs] /\ loopOn \in [Conns -> Conns \cup {NoConn}]
     /\ hb \in [Conns -> {"off", "on", "told", "fired"}]
    BY DEF Init, LoopPcs, NoConn
  <2>5. pc \in [Goroutines -> Pcs] /\ kind \in [Goroutines -> Kinds]
    BY DEF Init, Pcs, Kinds
  <2>6. attempt \in [Goroutines -> 1 .. AttemptBound]
     /\ await \in [Goroutines -> Conns \cup {NoConn}]
    BY DEF Init, NoConn
  <2>7. snd \in [Senders -> {"idle", "checked"}]
    BY DEF Init
  <2>8. dials \in 0 .. MaxConns /\ resizes \in 0 .. MaxResizes
    BY DEF Init
  <2> QED BY <2>1, <2>2, <2>3, <2>4, <2>5, <2>6, <2>7, <2>8 DEF TypeOK
<1>2. ReconnectExclusive /\ OwnerArms
  BY DEF Init, ReconnectExclusive, OwnerArms, Owner
<1>3. DoneReady /\ NoSocketLeak /\ FirstConnect /\ DialsAfterClose
  BY DEF Init, DoneReady, Live, NoSocketLeak, FirstConnect, DialsAfterClose
<1> QED BY <1>1, <1>2, <1>3 DEF IInv

\* What the operations that several actions share preserve.
LockTypes ==
    /\ closed \in BOOLEAN /\ reconnecting \in BOOLEAN /\ doneOpen \in BOOLEAN
    /\ hb \in [Conns -> {"off", "on", "told", "fired"}]
    /\ crash \in {"none", "closedDone", "closedRecvDone", "nilConn"}
GoTypes ==
    /\ pc \in [Goroutines -> Pcs] /\ kind \in [Goroutines -> Kinds]
    /\ attempt \in [Goroutines -> 1 .. AttemptBound]
    /\ await \in [Goroutines -> Conns \cup {NoConn}]

\* The helpers of the actions keep the types.
LEMMA CloseDoneType ==
    ASSUME TypeOK, NEW fired, CloseDone(fired)
    PROVE  /\ doneOpen' \in BOOLEAN
           /\ hb' \in [Conns -> {"off", "on", "told", "fired"}]
           /\ crash' \in {"none", "closedDone", "closedRecvDone", "nilConn"}
BY DEF TypeOK, CloseDone

LEMMA GotoType ==
    ASSUME TypeOK, NEW r \in Goroutines, NEW where \in Pcs, Goto(r, where)
    PROVE  pc' \in [Goroutines -> Pcs]
BY DEF TypeOK, Goto

LEMMA SpawnType ==
    ASSUME TypeOK, NEW r \in Goroutines, NEW what \in Kinds, NEW where \in Pcs,
           Spawn(r, what, where)
    PROVE  GoTypes'
BY ConstantTypes DEF TypeOK, GoTypes, Spawn

LEMMA HandleDisconnectType ==
    ASSUME TypeOK, NEW retryable, NEW fired, HandleDisconnect(retryable, fired)
    PROVE  LockTypes' /\ GoTypes' /\ view' \in Views
<1>1. CASE ~Live
  <2>1. UNCHANGED <<lockVars, goVars, view, crash>>
        /\ hb' = [k \in Conns |-> IF k \in fired THEN "off" ELSE hb[k]]
    BY <1>1 DEF HandleDisconnect
  <2> QED BY <2>1 DEF TypeOK, LockTypes, GoTypes, lockVars, goVars
<1>2. CASE Live
  <2>1. CloseDone(fired)
    BY <1>2 DEF HandleDisconnect
  <2>2. GoTypes'
    <3>1. CASE \E r \in Goroutines : Spawn(r, "loop", "sleep")
      BY <3>1, SpawnType DEF Kinds, Pcs
    <3>2. CASE UNCHANGED goVars
      BY <3>2 DEF GoTypes, TypeOK, goVars
    <3> QED BY <3>1, <3>2, <1>2 DEF HandleDisconnect
  <2>3. closed' \in BOOLEAN /\ reconnecting' \in BOOLEAN /\ view' \in Views
    BY <1>2 DEF HandleDisconnect, TypeOK, Views
  <2> QED BY <2>1, <2>2, <2>3, CloseDoneType DEF LockTypes
<1> QED BY <1>1, <1>2

LEMMA ConnectFailedType ==
    ASSUME TypeOK, NEW r \in Goroutines, ConnectFailed(r)
    PROVE  /\ pc' \in [Goroutines -> Pcs]
           /\ attempt' \in [Goroutines -> 1 .. AttemptBound]
           /\ closed' \in BOOLEAN /\ reconnecting' \in BOOLEAN /\ view' \in Views
<1>1. CASE kind[r] \in {"first", "resize"}
  BY <1>1, GotoType DEF ConnectFailed, TypeOK, Pcs, Views
<1>2. CASE kind[r] \notin {"first", "resize"}
  <2>1. /\ UNCHANGED <<closed, reconnecting, view>>
        /\ Goto(r, "exhausted") \/ Goto(r, "sleep")
    BY <1>2 DEF ConnectFailed
  <2>2. attempt' \in [Goroutines -> 1 .. AttemptBound]
    <3>1. CASE UNCHANGED attempt
      BY <3>1 DEF TypeOK
    <3>2. CASE /\ MaxReconnectAttempts # 0
               /\ ~(attempt[r] >= MaxReconnectAttempts)
               /\ attempt' = [attempt EXCEPT ![r] = @ + 1]
      BY <3>2, ConstantTypes DEF TypeOK, AttemptBound
    <3> QED BY <1>2, <3>1, <3>2 DEF ConnectFailed
  <2> QED BY <2>1, <2>2, GotoType DEF TypeOK, Pcs
<1> QED BY <1>1, <1>2

\* TypeOK is inductive on its own.
LEMMA TypeStep == TypeOK /\ [Next]_vars => TypeOK'
<1> SUFFICES ASSUME TypeOK, [Next]_vars PROVE TypeOK'
  OBVIOUS
<1> USE ConstantTypes DEF TypeOK, lockVars, loopVars, goVars, bounds
<1>1. ASSUME NEW r \in Goroutines, DialFails(r) PROVE TypeOK'
  BY <1>1, ConnectFailedType DEF DialFails, States
<1>2. ASSUME NEW r \in Goroutines, DialSucceeds(r) PROVE TypeOK'
  <2>1. dials + 1 \in Conns
    BY <1>2 DEF DialSucceeds, Conns
  <2>2. pc' \in [Goroutines -> Pcs]
    BY <1>2, GotoType DEF DialSucceeds, Pcs
  <2>3. dials' \in 0 .. MaxConns
    BY <1>2 DEF DialSucceeds
  <2> QED BY <1>2, <2>1, <2>2, <2>3 DEF DialSucceeds, States
<1>3. ASSUME NEW r \in Goroutines, HandshakeFails(r) PROVE TypeOK'
  <2>1. CASE kind[r] = "first"
    <3>1. Close /\ Goto(r, "idle") /\ UNCHANGED <<attempt, view>>
      BY <1>3, <2>1 DEF HandshakeFails
    <3>2. /\ closed' \in BOOLEAN /\ reconnecting' \in BOOLEAN
          /\ doneOpen' \in BOOLEAN /\ state' \in States /\ socks' \subseteq Conns
          /\ hb' \in [Conns -> {"off", "on", "told", "fired"}]
          /\ crash' \in {"none", "closedDone", "closedRecvDone", "nilConn"}
      BY <3>1, CloseDoneType DEF Close, States
    <3>3. pc' \in [Goroutines -> Pcs]
      BY <3>1, GotoType DEF Pcs
    <3> QED BY <1>3, <3>1, <3>2, <3>3 DEF HandshakeFails
  <2>2. CASE kind[r] # "first"
    BY <1>3, <2>2, ConnectFailedType DEF HandshakeFails
  <2> QED BY <2>1, <2>2
<1>4. ASSUME NEW r \in Goroutines, HandshakeSucceeds(r) PROVE TypeOK'
  <2>1. pc' \in [Goroutines -> Pcs]
    BY <1>4, GotoType DEF HandshakeSucceeds, Pcs
  <2>2. hb' \in [Conns -> {"off", "on", "told", "fired"}]
    BY <1>4 DEF HandshakeSucceeds
  <2> QED BY <1>4, <2>1, <2>2 DEF HandshakeSucceeds, States, LoopPcs
<1>5. ASSUME NEW r \in Goroutines, SleepEnds(r) PROVE TypeOK'
  BY <1>5 DEF SleepEnds, Goto, States, Pcs, Views
<1>6. ASSUME NEW r \in Goroutines, ResetClose(r) PROVE TypeOK'
  BY <1>6 DEF ResetClose, Goto, States, Pcs, Views
<1>7. ASSUME NEW r \in Goroutines, ResetClear(r) PROVE TypeOK'
  BY <1>7 DEF ResetClear, Goto, States, Pcs, Views
<1>8. ASSUME NEW r \in Goroutines, ResetArm(r) PROVE TypeOK'
  <2>1. pc' \in [Goroutines -> Pcs]
    BY <1>8, GotoType DEF ResetArm, Pcs
  <2> QED BY <1>8, <2>1 DEF ResetArm
<1>9. ASSUME NEW r \in Goroutines, Notify(r) PROVE TypeOK'
  BY <1>9 DEF Notify, Goto, States, Pcs, Views
<1>10. ASSUME NEW r \in Goroutines, Exhausted(r) PROVE TypeOK'
  BY <1>10 DEF Exhausted, Goto, States, Pcs, Views
<1>11. ASSUME NEW r \in Goroutines, Release(r) PROVE TypeOK'
  <2>1. pc' \in [Goroutines -> Pcs]
    BY <1>11, GotoType DEF Release, Pcs
  <2> QED BY <1>11, <2>1 DEF Release
<1>12. ASSUME NEW r \in Goroutines, ResizeClaim(r) PROVE TypeOK'
  <2>1. pc' \in [Goroutines -> Pcs]
    BY <1>12, GotoType DEF ResizeClaim, Pcs
  <2>2. /\ doneOpen' \in BOOLEAN
        /\ hb' \in [Conns -> {"off", "on", "told", "fired"}]
        /\ crash' \in {"none", "closedDone", "closedRecvDone", "nilConn"}
    BY <1>12, CloseDoneType DEF ResizeClaim
  <2> QED BY <1>12, <2>1, <2>2 DEF ResizeClaim
<1>13. ASSUME NEW r \in Goroutines, ResizeWait(r) PROVE TypeOK'
  BY <1>13 DEF ResizeWait, Goto, States, Pcs, Views
<1>14. ASSUME NEW k \in Conns, LoopPacket(k) PROVE TypeOK'
  BY <1>14 DEF LoopPacket, LoopPcs, Pcs, Kinds, Views
<1>15. ASSUME NEW k \in Conns, LoopHandled(k) PROVE TypeOK'
  BY <1>15 DEF LoopHandled, NextRead, NoConn, LoopPcs, Pcs, Kinds, Views
<1>16. ASSUME NEW k \in Conns, LoopRedirected(k) PROVE TypeOK'
  <2>1. LockTypes' /\ GoTypes' /\ view' \in Views
    BY <1>16, HandleDisconnectType DEF LoopRedirected
  <2> QED BY <1>16, <2>1 DEF LoopRedirected, LockTypes, GoTypes, LoopPcs
<1>17. ASSUME NEW k \in Conns, LoopError(k) PROVE TypeOK'
  <2>1. LockTypes' /\ GoTypes' /\ view' \in Views
    BY <1>17, HandleDisconnectType DEF LoopError
  <2> QED BY <1>17, <2>1 DEF LoopError, LockTypes, GoTypes, LoopPcs
<1>18. ASSUME NEW k \in Conns, LoopUltimatum(k) PROVE TypeOK'
  <2>1. LockTypes' /\ GoTypes' /\ view' \in Views
    BY <1>18, HandleDisconnectType DEF LoopUltimatum
  <2> QED BY <1>18, <2>1 DEF LoopUltimatum, LockTypes, GoTypes, LoopPcs
<1>19. ASSUME NEW k \in Conns, LoopExit(k) PROVE TypeOK'
  BY <1>19 DEF LoopExit, NoConn, LoopPcs, Pcs, Kinds, Views
<1>20. ASSUME NEW k \in Conns, HeartbeatExpires(k) PROVE TypeOK'
  BY <1>20 DEF HeartbeatExpires, LoopPcs, Pcs, Kinds, Views
<1>21. ASSUME NEW k \in Conns, HeartbeatDisconnects(k) PROVE TypeOK'
  <2>1. LockTypes' /\ GoTypes' /\ view' \in Views
    BY <1>21, HandleDisconnectType DEF HeartbeatDisconnects
  <2> QED BY <1>21, <2>1 DEF HeartbeatDisconnects, LockTypes, GoTypes, LoopPcs
<1>22. ASSUME NEW k \in Conns, HeartbeatStops(k) PROVE TypeOK'
  BY <1>22 DEF HeartbeatStops, LoopPcs, Pcs, Kinds, Views
<1>23. ASSUME NEW s \in Senders, SendChecks(s) PROVE TypeOK'
  BY <1>23 DEF SendChecks
<1>24. ASSUME NEW s \in Senders, SendWrites(s) PROVE TypeOK'
  BY <1>24 DEF SendWrites
<1>25. CASE AppCloses
  <2>1. /\ doneOpen' \in BOOLEAN
        /\ hb' \in [Conns -> {"off", "on", "told", "fired"}]
        /\ crash' \in {"none", "closedDone", "closedRecvDone", "nilConn"}
    BY <1>25, CloseDoneType DEF AppCloses, Close
  <2>2. /\ closed' \in BOOLEAN /\ reconnecting' \in BOOLEAN
        /\ state' \in States /\ socks' \subseteq Conns
    BY <1>25 DEF AppCloses, Close, States
  <2> QED BY <1>25, <2>1, <2>2 DEF AppCloses
<1>26. CASE AppResizes
  BY <1>26 DEF AppResizes, Spawn, Started, States, Pcs, Kinds, Views
<1>27. CASE NetworkFails
  BY <1>27 DEF NetworkFails, States, Pcs, Kinds, Views
<1>28. CASE UNCHANGED vars
  BY <1>28 DEF vars
<1> QED
  BY <1>1, <1>2, <1>3, <1>4, <1>5, <1>6, <1>7, <1>8, <1>9, <1>10, <1>11, <1>12, <1>13, <1>14, <1>15, <1>16, <1>17, <1>18, <1>19, <1>20, <1>21, <1>22, <1>23, <1>24, <1>25, <1>26, <1>27, <1>28
  DEF Next, ConnectStep, LoopStep, LoopRuns, HeartbeatStep, AppStep

\* The variables of Client keep their types, whatever happens.
THEOREM TypeCorrect == Spec => []TypeOK
<1>1. Init => TypeOK
  BY InitIInv DEF IInv
<1> QED BY <1>1, TypeStep, PTL DEF Spec

\* The parts of IInv that are about who owns the client, and about what
\* closeMu protects.
Owned == ReconnectExclusive /\ OwnerArms /\ FirstConnect
Guarded == DoneReady /\ NoSocketLeak /\ DialsAfterClose

\* While the first Connect runs, there is no loop to disturb it.
LEMMA LoopsAfterConnect ==
    ASSUME IInv, NEW k \in Conns, loop[k] # "none" \/ hb[k] # "off"
    PROVE  pc[App] = "idle"
BY DEF IInv, FirstConnect

LEMMA HandleDisconnectStep ==
    ASSUME IInv, pc[App] = "idle", NEW retryable, NEW fired,
           HandleDisconnect(retryable, fired), UNCHANGED <<socks, conn>>
    PROVE  Owned' /\ Guarded'
<1> USE ConstantTypes DEF IInv, TypeOK
<1>1. CASE ~Live
  <2>1. UNCHANGED <<lockVars, goVars, crash>>
    BY <1>1 DEF HandleDisconnect
  <2>2. Owned'
    BY <2>1 DEF Owned, ReconnectExclusive, OwnerArms, FirstConnect, Owner, lockVars, goVars
  <2>3. Guarded'
    BY <2>1 DEF Guarded, DoneReady, Live, NoSocketLeak, DialsAfterClose, lockVars, goVars
  <2> QED BY <2>2, <2>3
<1>2. CASE Live
  <2>1. ~closed /\ ~reconnecting /\ ~doneOpen' /\ crash' # "closedDone"
    BY <1>2 DEF HandleDisconnect, CloseDone, DoneReady, Live
  <2>2. \A r \in Goroutines : ~Owner(r)
    BY <2>1 DEF ReconnectExclusive
  <2>3. CASE AutoReconnect /\ retryable
    <3>1. PICK q \in Goroutines : Spawn(q, "loop", "sleep")
      BY <1>2, <2>3 DEF HandleDisconnect
    <3>2. ~closed' /\ reconnecting'
      BY <1>2, <2>1, <2>3 DEF HandleDisconnect
    <3>3. \A r \in Goroutines : Owner(r)' <=> r = q
      BY <2>2, <3>1 DEF Owner, OwnerPcs, Pcs, Spawn
    <3>4. Owned'
      BY <3>1, <3>2, <3>3 DEF Owned, ReconnectExclusive, OwnerArms, FirstConnect, Spawn
    <3>5. Guarded'
      BY <2>1, <3>1, <3>2 DEF Guarded, DoneReady, Live, NoSocketLeak, DialsAfterClose, Spawn
    <3> QED BY <3>4, <3>5
  <2>4. CASE ~(AutoReconnect /\ retryable)
    <3>1. closed' /\ ~reconnecting' /\ UNCHANGED goVars
      BY <1>2, <2>1, <2>4 DEF HandleDisconnect
    <3>2. Owned'
      BY <2>2, <3>1 DEF Owned, ReconnectExclusive, OwnerArms, FirstConnect, Owner, goVars
    <3>3. Guarded'
      BY <2>1, <3>1 DEF Guarded, DoneReady, Live, NoSocketLeak, DialsAfterClose, goVars
    <3> QED BY <3>2, <3>3
  <2> QED BY <2>3, <2>4
<1> QED BY <1>1, <1>2

\* Every step keeps the invariant.
LEMMA IInvStep == IInv /\ [Next]_vars => IInv'
<1> SUFFICES ASSUME IInv, [Next]_vars PROVE Owned' /\ Guarded'
  BY TypeStep DEF IInv, Owned, Guarded
<1> USE ConstantTypes DEF IInv, TypeOK, lockVars, loopVars, goVars, bounds
<1>1. ASSUME NEW r \in Goroutines, DialFails(r) PROVE Owned' /\ Guarded'
  <2>1. ReconnectExclusive'
    BY <1>1 DEF DialFails, ConnectFailed, Goto, ReconnectExclusive, Owner, OwnerPcs, Pcs, FirstConnect, Live
  <2>2. OwnerArms'
    BY <1>1 DEF DialFails, ConnectFailed, Goto, ReconnectExclusive, OwnerArms, Owner, OwnerPcs, Pcs, FirstConnect, Live, DoneReady
  <2>3. FirstConnect'
    BY <1>1 DEF DialFails, ConnectFailed, Goto, ReconnectExclusive, FirstConnect, Live, Owner, OwnerPcs, Pcs
  <2>4. Guarded'
    BY <1>1 DEF DialFails, ConnectFailed, Goto, ReconnectExclusive, OwnerArms, Owner, OwnerPcs, Pcs, FirstConnect, Live, DoneReady, NoSocketLeak, DialsAfterClose, Guarded
  <2> QED BY <2>1, <2>2, <2>3, <2>4 DEF Owned
<1>2. ASSUME NEW r \in Goroutines, DialSucceeds(r) PROVE Owned' /\ Guarded'
  <2>1. ReconnectExclusive'
    BY <1>2 DEF DialSucceeds, Goto, ReconnectExclusive, Owner, OwnerPcs, Pcs, FirstConnect, Live
  <2>2. OwnerArms'
    BY <1>2 DEF DialSucceeds, Goto, ReconnectExclusive, OwnerArms, Owner, OwnerPcs, Pcs, FirstConnect, Live, DoneReady
  <2>3. FirstConnect'
    BY <1>2 DEF DialSucceeds, Goto, ReconnectExclusive, FirstConnect, Live, Owner, OwnerPcs, Pcs
  <2>4. Guarded'
    BY <1>2 DEF DialSucceeds, Goto, ReconnectExclusive, OwnerArms, Owner, OwnerPcs, Pcs, FirstConnect, Live, DoneReady, NoSocketLeak, DialsAfterClose, Guarded
  <2> QED BY <2>1, <2>2, <2>3, <2>4 DEF Owned
<1>3. ASSUME NEW r \in Goroutines, HandshakeFails(r) PROVE Owned' /\ Guarded'
  <2>1. ReconnectExclusive'
    BY <1>3 DEF HandshakeFails, Close, ConnectFailed, CloseDone, Goto, ReconnectExclusive, Owner, OwnerPcs, Pcs, FirstConnect, Live
  <2>2. OwnerArms'
    BY <1>3 DEF HandshakeFails, Close, ConnectFailed, CloseDone, Goto, ReconnectExclusive, OwnerArms, Owner, OwnerPcs, Pcs, FirstConnect, Live, DoneReady
  <2>3. FirstConnect'
    BY <1>3 DEF HandshakeFails, Close, ConnectFailed, CloseDone, Goto, ReconnectExclusive, FirstConnect, Live, Owner, OwnerPcs, Pcs
  <2>4. Guarded'
    BY <1>3 DEF HandshakeFails, Close, ConnectFailed, CloseDone, Goto, ReconnectExclusive, OwnerArms, Owner, OwnerPcs, Pcs, FirstConnect, Live, DoneReady, NoSocketLeak, DialsAfterClose, Guarded
  <2> QED BY <2>1, <2>2, <2>3, <2>4 DEF Owned
<1>4. ASSUME NEW r \in Goroutines, HandshakeSucceeds(r) PROVE Owned' /\ Guarded'
  <2>1. ReconnectExclusive'
    BY <1>4 DEF HandshakeSucceeds, Goto, ReconnectExclusive, Owner, OwnerPcs, Pcs, FirstConnect, Live
  <2>2. OwnerArms'
    BY <1>4 DEF HandshakeSucceeds, Goto, ReconnectExclusive, OwnerArms, Owner, OwnerPcs, Pcs, FirstConnect, Live, DoneReady
  <2>3. FirstConnect'
    BY <1>4 DEF HandshakeSucceeds, Goto, ReconnectExclusive, FirstConnect, Live, Owner, OwnerPcs, Pcs
  <2>4. Guarded'
    BY <1>4 DEF HandshakeSucceeds, Goto, ReconnectExclusive, OwnerArms, Owner, OwnerPcs, Pcs, FirstConnect, Live, DoneReady, NoSocketLeak, DialsAfterClose, Guarded
  <2> QED BY <2>1, <2>2, <2>3, <2>4 DEF Owned
<1>5. ASSUME NEW r \in Goroutines, SleepEnds(r) PROVE Owned' /\ Guarded'
  <2>1. ReconnectExclusive'
    BY <1>5 DEF SleepEnds, Goto, ReconnectExclusive, Owner, OwnerPcs, Pcs, FirstConnect, Live
  <2>2. OwnerArms'
    BY <1>5 DEF SleepEnds, Goto, ReconnectExclusive, OwnerArms, Owner, OwnerPcs, Pcs, FirstConnect, Live, DoneReady
  <2>3. FirstConnect'
    BY <1>5 DEF SleepEnds, Goto, ReconnectExclusive, FirstConnect, Live, Owner, OwnerPcs, Pcs
  <2>4. Guarded'
    BY <1>5 DEF SleepEnds, Goto, ReconnectExclusive, OwnerArms, Owner, OwnerPcs, Pcs, FirstConnect, Live, DoneReady, NoSocketLeak, DialsAfterClose, Guarded
  <2> QED BY <2>1, <2>2, <2>3, <2>4 DEF Owned
<1>6. ASSUME NEW r \in Goroutines, ResetClose(r) PROVE Owned' /\ Guarded'
  <2>1. ReconnectExclusive'
    BY <1>6 DEF ResetClose, Goto, ReconnectExclusive, Owner, OwnerPcs, Pcs, FirstConnect, Live
  <2>2. OwnerArms'
    BY <1>6 DEF ResetClose, Goto, ReconnectExclusive, OwnerArms, Owner, OwnerPcs, Pcs, FirstConnect, Live, DoneReady
  <2>3. FirstConnect'
    BY <1>6 DEF ResetClose, Goto, ReconnectExclusive, FirstConnect, Live, Owner, OwnerPcs, Pcs
  <2>4. Guarded'
    BY <1>6 DEF ResetClose, Goto, ReconnectExclusive, OwnerArms, Owner, OwnerPcs, Pcs, FirstConnect, Live, DoneReady, NoSocketLeak, DialsAfterClose, Guarded
  <2> QED BY <2>1, <2>2, <2>3, <2>4 DEF Owned
<1>7. ASSUME NEW r \in Goroutines, ResetClear(r) PROVE Owned' /\ Guarded'
  <2>1. ReconnectExclusive'
    BY <1>7 DEF ResetClear, Goto, ReconnectExclusive, Owner, OwnerPcs, Pcs, FirstConnect, Live
  <2>2. OwnerArms'
    BY <1>7 DEF ResetClear, Goto, ReconnectExclusive, OwnerArms, Owner, OwnerPcs, Pcs, FirstConnect, Live, DoneReady
  <2>3. FirstConnect'
    BY <1>7 DEF ResetClear, Goto, ReconnectExclusive, FirstConnect, Live, Owner, OwnerPcs, Pcs
  <2>4. Guarded'
    BY <1>7 DEF ResetClear, Goto, ReconnectExclusive, OwnerArms, Owner, OwnerPcs, Pcs, FirstConnect, Live, DoneReady, NoSocketLeak, DialsAfterClose, Guarded
  <2> QED BY <2>1, <2>2, <2>3, <2>4 DEF Owned
<1>8. ASSUME NEW r \in Goroutines, ResetArm(r) PROVE Owned' /\ Guarded'
  <2>1. ReconnectExclusive'
    BY <1>8 DEF ResetArm, Goto, ReconnectExclusive, Owner, OwnerPcs, Pcs, FirstConnect, Live
  <2>2. OwnerArms'
    BY <1>8 DEF ResetArm, Goto, ReconnectExclusive, OwnerArms, Owner, OwnerPcs, Pcs, FirstConnect, Live, DoneReady
  <2>3. FirstConnect'
    BY <1>8 DEF ResetArm, Goto, ReconnectExclusive, FirstConnect, Live, Owner, OwnerPcs, Pcs
  <2>4. Guarded'
    BY <1>8 DEF ResetArm, Goto, ReconnectExclusive, OwnerArms, Owner, OwnerPcs, Pcs, FirstConnect, Live, DoneReady, NoSocketLeak, DialsAfterClose, Guarded
  <2> QED BY <2>1, <2>2, <2>3, <2>4 DEF Owned
<1>9. ASSUME NEW r \in Goroutines, Notify(r) PROVE Owned' /\ Guarded'
  <2>1. ReconnectExclusive'
    BY <1>9 DEF Notify, Goto, ReconnectExclusive, Owner, OwnerPcs, Pcs, FirstConnect, Live
  <2>2. OwnerArms'
    BY <1>9 DEF Notify, Goto, ReconnectExclusive, OwnerArms, Owner, OwnerPcs, Pcs, FirstConnect, Live, DoneReady
  <2>3. FirstConnect'
    BY <1>9 DEF Notify, Goto, ReconnectExclusive, FirstConnect, Live, Owner, OwnerPcs, Pcs
  <2>4. Guarded'
    BY <1>9 DEF Notify, Goto, ReconnectExclusive, OwnerArms, Owner, OwnerPcs, Pcs, FirstConnect, Live, DoneReady, NoSocketLeak, DialsAfterClose, Guarded
  <2> QED BY <2>1, <2>2, <2>3, <2>4 DEF Owned
<1>10. ASSUME NEW r \in Goroutines, Exhausted(r) PROVE Owned' /\ Guarded'
  <2>1. ReconnectExclusive'
    BY <1>10 DEF Exhausted, Goto, ReconnectExclusive, Owner, OwnerPcs, Pcs, FirstConnect, Live
  <2>2. OwnerArms'
    BY <1>10 DEF Exhausted, Goto, ReconnectExclusive, OwnerArms, Owner, OwnerPcs, Pcs, FirstConnect, Live, DoneReady
  <2>3. FirstConnect'
    BY <1>10 DEF Exhausted, Goto, ReconnectExclusive, FirstConnect, Live, Owner, OwnerPcs, Pcs
  <2>4. Guarded'
    BY <1>10 DEF Exhausted, Goto, ReconnectExclusive, OwnerArms, Owner, OwnerPcs, Pcs, FirstConnect, Live, DoneReady, NoSocketLeak, DialsAfterClose, Guarded
  <2> QED BY <2>1, <2>2, <2>3, <2>4 DEF Owned
<1>11. ASSUME NEW r \in Goroutines, Release(r) PROVE Owned' /\ Guarded'
  <2>1. ReconnectExclusive'
    BY <1>11 DEF Release, Goto, ReconnectExclusive, Owner, OwnerPcs, Pcs, FirstConnect, Live
  <2>2. OwnerArms'
    BY <1>11 DEF Release, Goto, ReconnectExclusive, OwnerArms, Owner, OwnerPcs, Pcs, FirstConnect, Live, DoneReady
  <2>3. FirstConnect'
    BY <1>11 DEF Release, Goto, ReconnectExclusive, FirstConnect, Live, Owner, OwnerPcs, Pcs
  <2>4. Guarded'
    BY <1>11 DEF Release, Goto, ReconnectExclusive, OwnerArms, Owner, OwnerPcs, Pcs, FirstConnect, Live, DoneReady, NoSocketLeak, DialsAfterClose, Guarded
  <2> QED BY <2>1, <2>2, <2>3, <2>4 DEF Owned
<1>12. ASSUME NEW r \in Goroutines, ResizeClaim(r) PROVE Owned' /\ Guarded'
  <2>1. ReconnectExclusive'
    BY <1>12 DEF ResizeClaim, CloseDone, Goto, ReconnectExclusive, Owner, OwnerPcs, Pcs, FirstConnect, Live
  <2>2. OwnerArms'
    BY <1>12 DEF ResizeClaim, CloseDone, Goto, ReconnectExclusive, OwnerArms, Owner, OwnerPcs, Pcs, FirstConnect, Live, DoneReady
  <2>3. FirstConnect'
    BY <1>12 DEF ResizeClaim, CloseDone, Goto, ReconnectExclusive, FirstConnect, Live, Owner, OwnerPcs, Pcs
  <2>4. Guarded'
    BY <1>12 DEF ResizeClaim, CloseDone, Goto, ReconnectExclusive, OwnerArms, Owner, OwnerPcs, Pcs, FirstConnect, Live, DoneReady, NoSocketLeak, DialsAfterClose, Guarded
  <2> QED BY <2>1, <2>2, <2>3, <2>4 DEF Owned
<1>13. ASSUME NEW r \in Goroutines, ResizeWait(r) PROVE Owned' /\ Guarded'
  <2>1. ReconnectExclusive'
    BY <1>13 DEF ResizeWait, Goto, ReconnectExclusive, Owner, OwnerPcs, Pcs, FirstConnect, Live
  <2>2. OwnerArms'
    BY <1>13 DEF ResizeWait, Goto, ReconnectExclusive, OwnerArms, Owner, OwnerPcs, Pcs, FirstConnect, Live, DoneReady
  <2>3. FirstConnect'
    BY <1>13 DEF ResizeWait, Goto, ReconnectExclusive, FirstConnect, Live, Owner, OwnerPcs, Pcs
  <2>4. Guarded'
    BY <1>13 DEF ResizeWait, Goto, ReconnectExclusive, OwnerArms, Owner, OwnerPcs, Pcs, FirstConnect, Live, DoneReady, NoSocketLeak, DialsAfterClose, Guarded
  <2> QED BY <2>1, <2>2, <2>3, <2>4 DEF Owned
<1>14. ASSUME NEW k \in Conns, LoopPacket(k) PROVE Owned' /\ Guarded'
  <2>1. ReconnectExclusive'
    BY <1>14 DEF LoopPacket, ReconnectExclusive, Owner, OwnerPcs, Pcs, FirstConnect, Live
  <2>2. OwnerArms'
    BY <1>14 DEF LoopPacket, ReconnectExclusive, OwnerArms, Owner, OwnerPcs, Pcs, FirstConnect, Live, DoneReady
  <2>3. FirstConnect'
    BY <1>14 DEF LoopPacket, ReconnectExclusive, FirstConnect, Live, Owner, OwnerPcs, Pcs
  <2>4. Guarded'
    BY <1>14 DEF LoopPacket, ReconnectExclusive, OwnerArms, Owner, OwnerPcs, Pcs, FirstConnect, Live, DoneReady, NoSocketLeak, DialsAfterClose, Guarded
  <2> QED BY <2>1, <2>2, <2>3, <2>4 DEF Owned
<1>15. ASSUME NEW k \in Conns, LoopHandled(k) PROVE Owned' /\ Guarded'
  <2>1. ReconnectExclusive'
    BY <1>15 DEF LoopHandled, NextRead, ReconnectExclusive, Owner, OwnerPcs, Pcs, FirstConnect, Live
  <2>2. OwnerArms'
    BY <1>15 DEF LoopHandled, NextRead, ReconnectExclusive, OwnerArms, Owner, OwnerPcs, Pcs, FirstConnect, Live, DoneReady
  <2>3. FirstConnect'
    BY <1>15 DEF LoopHandled, NextRead, ReconnectExclusive, FirstConnect, Live, Owner, OwnerPcs, Pcs
  <2>4. Guarded'
    BY <1>15 DEF LoopHandled, NextRead, ReconnectExclusive, OwnerArms, Owner, OwnerPcs, Pcs, FirstConnect, Live, DoneReady, NoSocketLeak, DialsAfterClose, Guarded
  <2> QED BY <2>1, <2>2, <2>3, <2>4 DEF Owned
<1>16. ASSUME NEW k \in Conns, LoopRedirected(k) PROVE Owned' /\ Guarded'
  <2>1. pc[App] = "idle"
    BY <1>16, LoopsAfterConnect DEF LoopRedirected
  <2>2. HandleDisconnect(TRUE, {}) /\ UNCHANGED <<socks, conn>>
    BY <1>16 DEF LoopRedirected
  <2> QED BY <2>1, <2>2, HandleDisconnectStep
<1>17. ASSUME NEW k \in Conns, LoopError(k) PROVE Owned' /\ Guarded'
  <2>1. pc[App] = "idle"
    BY <1>17, LoopsAfterConnect DEF LoopError
  <2>2. HandleDisconnect(TRUE, {}) /\ UNCHANGED <<socks, conn>>
    BY <1>17 DEF LoopError
  <2> QED BY <2>1, <2>2, HandleDisconnectStep
<1>18. ASSUME NEW k \in Conns, LoopUltimatum(k) PROVE Owned' /\ Guarded'
  <2>1. pc[App] = "idle"
    BY <1>18, LoopsAfterConnect DEF LoopUltimatum
  <2>2. HandleDisconnect(FALSE, {}) /\ UNCHANGED <<socks, conn>>
    BY <1>18 DEF LoopUltimatum
  <2> QED BY <2>1, <2>2, HandleDisconnectStep
<1>19. ASSUME NEW k \in Conns, LoopExit(k) PROVE Owned' /\ Guarded'
  <2>1. ReconnectExclusive'
    BY <1>19 DEF LoopExit, ReconnectExclusive, Owner, OwnerPcs, Pcs, FirstConnect, Live
  <2>2. OwnerArms'
    BY <1>19 DEF LoopExit, ReconnectExclusive, OwnerArms, Owner, OwnerPcs, Pcs, FirstConnect, Live, DoneReady
  <2>3. FirstConnect'
    BY <1>19 DEF LoopExit, ReconnectExclusive, FirstConnect, Live, Owner, OwnerPcs, Pcs
  <2>4. Guarded'
    BY <1>19 DEF LoopExit, ReconnectExclusive, OwnerArms, Owner, OwnerPcs, Pcs, FirstConnect, Live, DoneReady, NoSocketLeak, DialsAfterClose, Guarded
  <2> QED BY <2>1, <2>2, <2>3, <2>4 DEF Owned
<1>20. ASSUME NEW k \in Conns, HeartbeatExpires(k) PROVE Owned' /\ Guarded'
  <2>1. ReconnectExclusive'
    BY <1>20 DEF HeartbeatExpires, ReconnectExclusive, Owner, OwnerPcs, Pcs, FirstConnect, Live
  <2>2. OwnerArms'
    BY <1>20 DEF HeartbeatExpires, ReconnectExclusive, OwnerArms, Owner, OwnerPcs, Pcs, FirstConnect, Live, DoneReady
  <2>3. FirstConnect'
    BY <1>20 DEF HeartbeatExpires, ReconnectExclusive, FirstConnect, Live, Owner, OwnerPcs, Pcs
  <2>4. Guarded'
    BY <1>20 DEF HeartbeatExpires, ReconnectExclusive, OwnerArms, Owner, OwnerPcs, Pcs, FirstConnect, Live, DoneReady, NoSocketLeak, DialsAfterClose, Guarded
  <2> QED BY <2>1, <2>2, <2>3, <2>4 DEF Owned
<1>21. ASSUME NEW k \in Conns, HeartbeatDisconnects(k) PROVE Owned' /\ Guarded'
  <2>1. pc[App] = "idle"
    BY <1>21, LoopsAfterConnect DEF HeartbeatDisconnects
  <2>2. HandleDisconnect(TRUE, {k}) /\ UNCHANGED <<socks, conn>>
    BY <1>21 DEF HeartbeatDisconnects
  <2> QED BY <2>1, <2>2, HandleDisconnectStep
<1>22. ASSUME NEW k \in Conns, HeartbeatStops(k) PROVE Owned' /\ Guarded'
  <2>1. ReconnectExclusive'
    BY <1>22 DEF HeartbeatStops, ReconnectExclusive, Owner, OwnerPcs, Pcs, FirstConnect, Live
  <2>2. OwnerArms'
    BY <1>22 DEF HeartbeatStops, ReconnectExclusive, OwnerArms, Owner, OwnerPcs, Pcs, FirstConnect, Live, DoneReady
  <2>3. FirstConnect'
    BY <1>22 DEF HeartbeatStops, ReconnectExclusive, FirstConnect, Live, Owner, OwnerPcs, Pcs
  <2>4. Guarded'
    BY <1>22 DEF HeartbeatStops, ReconnectExclusive, OwnerArms, Owner, OwnerPcs, Pcs, FirstConnect, Live, DoneReady, NoSocketLeak, DialsAfterClose, Guarded
  <2> QED BY <2>1, <2>2, <2>3, <2>4 DEF Owned
<1>23. ASSUME NEW s \in Senders, SendChecks(s) PROVE Owned' /\ Guarded'
  <2>1. ReconnectExclusive'
    BY <1>23 DEF SendChecks, ReconnectExclusive, Owner, OwnerPcs, Pcs, FirstConnect, Live
  <2>2. OwnerArms'
    BY <1>23 DEF SendChecks, ReconnectExclusive, OwnerArms, Owner, OwnerPcs, Pcs, FirstConnect, Live, DoneReady
  <2>3. FirstConnect'
    BY <1>23 DEF SendChecks, ReconnectExclusive, FirstConnect, Live, Owner, OwnerPcs, Pcs
  <2>4. Guarded'
    BY <1>23 DEF SendChecks, ReconnectExclusive, OwnerArms, Owner, OwnerPcs, Pcs, FirstConnect, Live, DoneReady, NoSocketLeak, DialsAfterClose, Guarded
  <2> QED BY <2>1, <2>2, <2>3, <2>4 DEF Owned
<1>24. ASSUME NEW s \in Senders, SendWrites(s) PROVE Owned' /\ Guarded'
  <2>1. ReconnectExclusive'
    BY <1>24 DEF SendWrites, ReconnectExclusive, Owner, OwnerPcs, Pcs, FirstConnect, Live
  <2>2. OwnerArms'
    BY <1>24 DEF SendWrites, ReconnectExclusive, OwnerArms, Owner, OwnerPcs, Pcs, FirstConnect, Live, DoneReady
  <2>3. FirstConnect'
    BY <1>24 DEF SendWrites, ReconnectExclusive, FirstConnect, Live, Owner, OwnerPcs, Pcs
  <2>4. Guarded'
    BY <1>24 DEF SendWrites, ReconnectExclusive, OwnerArms, Owner, OwnerPcs, Pcs, FirstConnect, Live, DoneReady, NoSocketLeak, DialsAfterClose, Guarded
  <2> QED BY <2>1, <2>2, <2>3, <2>4 DEF Owned
<1>25. CASE AppCloses
  <2>1. ReconnectExclusive'
    BY <1>25 DEF AppCloses, Close, CloseDone, Started, ReconnectExclusive, Owner, OwnerPcs, Pcs, FirstConnect, Live
  <2>2. OwnerArms'
    BY <1>25 DEF AppCloses, Close, CloseDone, Started, ReconnectExclusive, OwnerArms, Owner, OwnerPcs, Pcs, FirstConnect, Live, DoneReady
  <2>3. FirstConnect'
    BY <1>25 DEF AppCloses, Close, CloseDone, Started, ReconnectExclusive, FirstConnect, Live, Owner, OwnerPcs, Pcs
  <2>4. Guarded'
    BY <1>25 DEF AppCloses, Close, CloseDone, Started, ReconnectExclusive, OwnerArms, Owner, OwnerPcs, Pcs, FirstConnect, Live, DoneReady, NoSocketLeak, DialsAfterClose, Guarded
  <2> QED BY <2>1, <2>2, <2>3, <2>4 DEF Owned
<1>26. CASE AppResizes
  <2>1. ReconnectExclusive'
    BY <1>26 DEF AppResizes, Spawn, Started, ReconnectExclusive, Owner, OwnerPcs, Pcs, FirstConnect, Live
  <2>2. OwnerArms'
    BY <1>26 DEF AppResizes, Spawn, Started, ReconnectExclusive, OwnerArms, Owner, OwnerPcs, Pcs, FirstConnect, Live, DoneReady
  <2>3. FirstConnect'
    BY <1>26 DEF AppResizes, Spawn, Started, ReconnectExclusive, FirstConnect, Live, Owner, OwnerPcs, Pcs
  <2>4. Guarded'
    BY <1>26 DEF AppResizes, Spawn, Started, ReconnectExclusive, OwnerArms, Owner, OwnerPcs, Pcs, FirstConnect, Live, DoneReady, NoSocketLeak, DialsAfterClose, Guarded
  <2> QED BY <2>1, <2>2, <2>3, <2>4 DEF Owned
<1>27. CASE NetworkFails
  <2>1. ReconnectExclusive'
    BY <1>27 DEF NetworkFails, ReconnectExclusive, Owner, OwnerPcs, Pcs, FirstConnect, Live
  <2>2. OwnerArms'
    BY <1>27 DEF NetworkFails, ReconnectExclusive, OwnerArms, Owner, OwnerPcs, Pcs, FirstConnect, Live, DoneReady
  <2>3. FirstConnect'
    BY <1>27 DEF NetworkFails, ReconnectExclusive, FirstConnect, Live, Owner, OwnerPcs, Pcs
  <2>4. Guarded'
    BY <1>27 DEF NetworkFails, ReconnectExclusive, OwnerArms, Owner, OwnerPcs, Pcs, FirstConnect, Live, DoneReady, NoSocketLeak, DialsAfterClose, Guarded
  <2> QED BY <2>1, <2>2, <2>3, <2>4 DEF Owned
<1>28. CASE UNCHANGED vars
  <2>1. ReconnectExclusive'
    BY <1>28 DEF vars, ReconnectExclusive, Owner, OwnerPcs, Pcs, FirstConnect, Live
  <2>2. OwnerArms'
    BY <1>28 DEF vars, ReconnectExclusive, OwnerArms, Owner, OwnerPcs, Pcs, FirstConnect, Live, DoneReady
  <2>3. FirstConnect'
    BY <1>28 DEF vars, ReconnectExclusive, FirstConnect, Live, Owner, OwnerPcs, Pcs
  <2>4. Guarded'
    BY <1>28 DEF vars, ReconnectExclusive, OwnerArms, Owner, OwnerPcs, Pcs, FirstConnect, Live, DoneReady, NoSocketLeak, DialsAfterClose, Guarded
  <2> QED BY <2>1, <2>2, <2>3, <2>4 DEF Owned
<1> QED
  BY <1>1, <1>2, <1>3, <1>4, <1>5, <1>6, <1>7, <1>8, <1>9, <1>10, <1>11, <1>12, <1>13, <1>14, <1>15, <1>16, <1>17, <1>18, <1>19, <1>20, <1>21, <1>22, <1>23, <1>24, <1>25, <1>26, <1>27, <1>28
  DEF Next, ConnectStep, LoopStep, LoopRuns, HeartbeatStep, AppStep

LEMMA IInvAlways == Spec => []IInv
BY InitIInv, IInvStep, PTL DEF Spec

\* No two goroutines ever reset and connect the client at the same time, with
\* any number of receive loops, heartbeats and resizes that try.
THEOREM OneReconnects == Spec => []ReconnectExclusive
BY IInvAlways, PTL DEF IInv

\* close(c.done) never meets a closed channel.
THEOREM DoneClosesOnce == Spec => []DoneReady
BY IInvAlways, PTL DEF IInv

\* However many attempts fail, at most one socket is open, the current one.
THEOREM SocketsBounded == Spec => []NoSocketLeak
BY IInvAlways, PTL DEF IInv

\* Nothing that was in flight undoes a close.
LEMMA ClosedStep ==
    ASSUME IInv, [Next]_vars, closed, ~reconnecting
    PROVE  closed' /\ ~reconnecting' /\ dials' = dials
<1>1. ~Live /\ pc[App] = "idle"
  BY DEF Live, IInv, FirstConnect
<1>2. \A r \in Goroutines : ~Owner(r)
  BY DEF IInv, ReconnectExclusive
<1>3. \A r \in Goroutines : pc[r] \in {"idle", "claim", "announce"}
  BY <1>1, <1>2 DEF IInv, TypeOK, FirstConnect, Owner, OwnerPcs
<1> USE <1>1 DEF lockVars, loopVars, goVars, bounds
<1>4. ASSUME NEW r \in Goroutines, ConnectStep(r)
      PROVE  UNCHANGED <<closed, reconnecting, dials>>
  <2>1. ResizeClaim(r) \/ (Notify(r) /\ pc[r] = "announce")
    BY <1>3, <1>4 DEF ConnectStep, DialFails, DialSucceeds, HandshakeFails,
         HandshakeSucceeds, SleepEnds, ResetClose, ResetClear, ResetArm, Notify,
         Exhausted, Release, ResizeWait
  <2> QED BY <2>1 DEF ResizeClaim, Notify
<1>5. ASSUME NEW k \in Conns, LoopStep(k) \/ HeartbeatStep(k)
      PROVE  UNCHANGED <<closed, reconnecting, dials>>
  <2>1. ASSUME NEW b, NEW f, HandleDisconnect(b, f) PROVE UNCHANGED lockVars
    BY <2>1 DEF HandleDisconnect
  <2> QED
    BY <1>5, <2>1 DEF LoopStep, LoopRuns, HeartbeatStep, LoopPacket, LoopHandled,
      NextRead, LoopRedirected, LoopError, LoopUltimatum, LoopExit,
      HeartbeatExpires, HeartbeatDisconnects, HeartbeatStops
<1>6. ASSUME NEW s \in Senders, SendChecks(s) \/ SendWrites(s)
      PROVE  UNCHANGED <<closed, reconnecting, dials>>
  BY <1>6 DEF SendChecks, SendWrites
<1>7. ASSUME AppStep \/ NetworkFails PROVE UNCHANGED <<closed, reconnecting, dials>>
  BY <1>7 DEF AppStep, AppCloses, Close, AppResizes, NetworkFails
<1>8. ASSUME UNCHANGED vars PROVE UNCHANGED <<closed, reconnecting, dials>>
  BY <1>8 DEF vars
<1>9. UNCHANGED <<closed, reconnecting, dials>>
  BY <1>4, <1>5, <1>6, <1>7, <1>8 DEF Next
<1> QED BY <1>9, Zenon

\* Once Close has closed a client, no later dial, reconnection or event opens it again.
THEOREM CloseHolds == Spec => ClosedIsFinal
<1>1. IInv /\ [Next]_vars =>
        [closed /\ ~reconnecting => closed' /\ ~reconnecting' /\ dials' = dials]_vars
  BY ClosedStep
<1> QED BY <1>1, IInvAlways, PTL DEF Spec, ClosedIsFinal

(***************************************************************************)
(* The receive loops.  A heartbeat that fires while its loop reads, and a   *)
(* handler that ends the session, leave a loop behind that meets the next   *)
(* connection; without the two, every loop is gone when the fields it uses  *)
(* change.                                                                  *)
(***************************************************************************)
\* The loops that have not closed their receiveLoopDone.
Running(k) == loop[k] \in {"reading", "handling", "exiting"}

\* A running loop is that of the current connection and will close the current
\* channel; a loop that has closed one has ended, and what is not dialled has none.
LoopsCurrent ==
    /\ conn <= dials
    /\ \A k \in Conns : Running(k) => conn = k /\ recvDone = k
    /\ \A k \in recvClosed : loop[k] = "exited"
    /\ \A k \in Conns : k > dials => loop[k] = "none"

\* What the owner of the client knows of them: resizeViaReconnect waits for the
\* channel of the loop it interrupts, reconnectLoop was started by a loop that
\* had left its read, and none runs when either resets the fields and connects.
LoopsOut(r) ==
    /\ pc[r] = "wait" => await[r] = recvDone
    /\ pc[r] = "sleep" => \A k \in Conns : loop[k] \notin {"reading", "handling"}
    /\ pc[r] \in {"resetClose", "resetClear", "resetArm", "dial", "handshake"} =>
          \A k \in Conns : ~Running(k)
    /\ pc[r] = "handshake" => conn \in Conns /\ loop[conn] = "none"

LoopInv ==
    /\ \A k \in Conns : hb[k] = "off"
    /\ LoopsCurrent
    /\ \A r \in Goroutines : LoopsOut(r)
    /\ Senders = {} => crash = "none"

\* The client has one owner, or runs its first Connect.
LEMMA OneAtWork ==
    ASSUME IInv, NEW q \in Goroutines, NEW r \in Goroutines,
           pc[q] \in OwnerPcs, pc[r] \in OwnerPcs
    PROVE  q = r
<1>1. CASE pc[App] # "idle"
  BY <1>1 DEF IInv, FirstConnect, OwnerPcs
<1>2. CASE pc[App] = "idle"
  <2>1. q # App /\ r # App /\ pc[q] # "idle" /\ pc[r] # "idle"
    BY <1>2 DEF OwnerPcs
  <2>2. Owner(q) /\ Owner(r)
    BY <2>1 DEF IInv, FirstConnect, Owner
  <2> QED BY <2>2 DEF IInv, ReconnectExclusive
<1> QED BY <1>1, <1>2

\* While the client is live after its first Connect, nothing connects.
LEMMA NoneAtWork ==
    ASSUME IInv, Live, pc[App] = "idle", NEW r \in Goroutines
    PROVE  pc[r] \notin OwnerPcs
<1> SUFFICES ASSUME pc[r] \in OwnerPcs PROVE FALSE
  OBVIOUS
<1>1. r # App /\ pc[r] # "idle"
  BY DEF OwnerPcs
<1>2. Owner(r)
  BY <1>1 DEF IInv, FirstConnect, Owner
<1> QED BY <1>2 DEF IInv, ReconnectExclusive, Live

\* A goroutine that does not connect owes nothing to the loops.
LEMMA OutAtRest ==
    ASSUME NEW r \in Goroutines, pc[r] \notin OwnerPcs
    PROVE  LoopsOut(r)
BY DEF LoopsOut, OwnerPcs, Pcs

\* close(c.done) tells no heartbeat, and panics not.
LEMMA QuietClose ==
    ASSUME IInv, Live, NEW fired, CloseDone(fired), \A k \in Conns : hb[k] = "off"
    PROVE  (\A k \in Conns : hb'[k] = "off") /\ crash' = crash
BY DEF CloseDone, IInv, DoneReady

\* A loop that leaves its read, whatever handleDisconnect makes of it.
LEMMA LoopLeaves ==
    ASSUME IInv, LoopInv, NEW k \in Conns, NEW retryable, loop[k] = "reading",
           HandleDisconnect(retryable, {}), loop' = [loop EXCEPT ![k] = "exiting"],
           UNCHANGED <<conn, recvDone, recvClosed, dials>>
    PROVE  LoopInv'
<1> USE DEF IInv, TypeOK
<1>1. pc[App] = "idle"
  BY LoopsAfterConnect
<1>2. \A j \in Conns : loop'[j] = IF j = k THEN "exiting" ELSE loop[j]
  OBVIOUS
<1>3. LoopsCurrent'
  <2>1. k \notin recvClosed /\ k <= dials
    BY DEF LoopInv, LoopsCurrent, Conns
  <2>2. \A j \in Conns : Running(j)' => Running(j)
    BY <1>2 DEF Running
  <2>3. \A j \in recvClosed : j \in Conns /\ j # k
    BY <2>1
  <2>4. \A j \in Conns : j > dials => j # k
    BY <2>1 DEF Conns
  <2> QED BY <1>2, <2>2, <2>3, <2>4 DEF LoopInv, LoopsCurrent
<1>4. CASE ~Live
  <2>1. UNCHANGED <<pc, await, crash>> /\ hb' = [j \in Conns |-> IF j \in {} THEN "off" ELSE hb[j]]
    BY <1>4 DEF HandleDisconnect, goVars
  <2>2. ASSUME NEW r \in Goroutines PROVE LoopsOut(r)'
    <3>1. pc[r] \notin {"sleep", "resetClose", "resetClear", "resetArm", "dial", "handshake"}
      BY DEF LoopInv, LoopsOut, Running
    <3> QED BY <2>1, <3>1 DEF LoopInv, LoopsOut
  <2> QED BY <1>3, <2>1, <2>2 DEF LoopInv
<1>5. CASE Live
  <2>1. CloseDone({})
    BY <1>5 DEF HandleDisconnect
  <2>2. (\A j \in Conns : hb'[j] = "off") /\ crash' = crash
    BY <1>5, <2>1, QuietClose DEF LoopInv
  <2>3. ASSUME NEW r \in Goroutines PROVE LoopsOut(r)'
    <3>1. pc[r] \notin OwnerPcs
      BY <1>1, <1>5, NoneAtWork
    <3>2. pc'[r] = pc[r] \/ pc'[r] = "sleep"
      BY <1>5 DEF HandleDisconnect, Spawn, goVars
    <3>3. CASE pc'[r] = pc[r]
      BY <3>1, <3>3 DEF LoopsOut, OwnerPcs, Pcs
    <3>4. CASE pc'[r] = "sleep"
      <4>1. \A j \in Conns : Running(j) => j = k
        BY DEF LoopInv, LoopsCurrent, Running
      <4>2. \A j \in Conns : loop'[j] \notin {"reading", "handling"}
        BY <1>2, <4>1 DEF Running
      <4> QED BY <3>4, <4>2 DEF LoopsOut
    <3> QED BY <3>2, <3>3, <3>4
  <2> QED BY <1>3, <2>2, <2>3 DEF LoopInv
<1> QED BY <1>4, <1>5

\* The steps of a goroutine that connects, of which the loops see nothing.
LEMMA LoopsUntouched ==
    ASSUME IInv, LoopInv, NEW r \in Goroutines, NEW where \in Pcs, Goto(r, where),
           pc[r] \in OwnerPcs, LoopsOut(r)',
           UNCHANGED <<conn, recvDone, recvClosed, loop, dials, hb, crash>>
    PROVE  LoopInv'
<1> USE DEF IInv, TypeOK
<1>1. ASSUME NEW q \in Goroutines PROVE LoopsOut(q)'
  <2>1. CASE q # r
    <3>1. pc'[q] = pc[q] /\ pc[q] \notin OwnerPcs
      BY <2>1, OneAtWork DEF Goto
    <3> QED BY <3>1 DEF LoopsOut, OwnerPcs, Pcs
  <2> QED BY <2>1
<1> QED BY <1>1 DEF LoopInv, LoopsCurrent, Running

\* Nothing runs before the first Connect.
LEMMA LoopInvInit == Init => LoopInv
BY DEF Init, LoopInv, LoopsCurrent, LoopsOut, Running, NoConn, Conns

\* One step per action, as for IInv.
LEMMA LoopInvStep ==
    ASSUME ~HeartbeatOn, ~ServerEndsInHandler, IInv, LoopInv, [Next]_vars
    PROVE  LoopInv'
<1> USE ConstantTypes DEF IInv, TypeOK, lockVars, loopVars, goVars, bounds
<1>1. ASSUME NEW r \in Goroutines, DialFails(r) PROVE LoopInv'
  <2>1. pc[r] \in OwnerPcs /\ \A k \in Conns : ~Running(k)
    BY <1>1 DEF DialFails, OwnerPcs, Pcs, LoopInv, LoopsOut
  <2>2. PICK where \in Pcs : Goto(r, where) /\ where \in {"idle", "exhausted", "sleep"}
    BY <1>1 DEF DialFails, ConnectFailed, Pcs
  <2>3. UNCHANGED <<conn, recvDone, recvClosed, loop, dials, hb, crash>>
    BY <1>1 DEF DialFails
  <2>4. LoopsOut(r)'
    BY <2>1, <2>2, <2>3 DEF LoopsOut, Running, Goto
  <2> QED BY <2>1, <2>2, <2>3, <2>4, LoopsUntouched
<1>2. ASSUME NEW r \in Goroutines, DialSucceeds(r) PROVE LoopInv'
  <2>1. pc[r] \in OwnerPcs /\ \A k \in Conns : ~Running(k)
    BY <1>2 DEF DialSucceeds, OwnerPcs, Pcs, LoopInv, LoopsOut
  <2>2. /\ pc' = [pc EXCEPT ![r] = "handshake"] /\ conn' = dials + 1 /\ dials' = dials + 1
        /\ UNCHANGED <<loop, recvDone, recvClosed, hb, await, crash>>
    BY <1>2 DEF DialSucceeds, Goto
  <2>3. dials + 1 \in Conns /\ dials \in Nat
    BY <1>2 DEF DialSucceeds, Conns
  <2>4. LoopsCurrent'
    BY <2>1, <2>2, <2>3 DEF LoopInv, LoopsCurrent, Running, Conns
  <2>5. ASSUME NEW q \in Goroutines PROVE LoopsOut(q)'
    <3>1. CASE q # r
      <4>1. pc'[q] = pc[q] /\ pc[q] \notin OwnerPcs
        BY <2>1, <2>2, <3>1, OneAtWork
      <4> QED BY <4>1 DEF LoopsOut, OwnerPcs, Pcs
    <3>2. CASE q = r
      <4>1. pc'[r] = "handshake" /\ conn' = dials + 1
        BY <2>2
      <4>2. loop'[dials + 1] = "none"
        BY <2>2, <2>3 DEF LoopInv, LoopsCurrent
      <4> QED BY <2>1, <2>2, <2>3, <3>2, <4>1, <4>2 DEF LoopsOut, Running
    <3> QED BY <3>1, <3>2
  <2> QED BY <2>2, <2>4, <2>5 DEF LoopInv
<1>3. ASSUME NEW r \in Goroutines, HandshakeFails(r) PROVE LoopInv'
  <2>1. pc[r] \in OwnerPcs /\ \A k \in Conns : ~Running(k)
    BY <1>3 DEF HandshakeFails, OwnerPcs, Pcs, LoopInv, LoopsOut
  <2>2. PICK where \in Pcs : Goto(r, where) /\ where \in {"idle", "exhausted", "sleep"}
    BY <1>3 DEF HandshakeFails, ConnectFailed, Pcs
  <2>3. UNCHANGED <<conn, recvDone, recvClosed, loop, dials>>
    BY <1>3 DEF HandshakeFails
  <2>4. LoopsOut(r)'
    BY <2>1, <2>2, <2>3 DEF LoopsOut, Running, Goto
  <2>5. (\A k \in Conns : hb'[k] = "off") /\ crash' = crash
    <3>1. CASE kind[r] = "first"
      BY <1>3, <3>1, QuietClose DEF HandshakeFails, Close, LoopInv
    <3>2. CASE kind[r] # "first"
      BY <1>3, <3>2 DEF HandshakeFails, LoopInv
    <3> QED BY <3>1, <3>2
  <2>6. ASSUME NEW q \in Goroutines PROVE LoopsOut(q)'
    <3>1. CASE q # r
      <4>1. pc'[q] = pc[q] /\ pc[q] \notin OwnerPcs
        BY <2>1, <2>2, <3>1, OneAtWork DEF Goto
      <4> QED BY <4>1 DEF LoopsOut, OwnerPcs, Pcs
    <3> QED BY <2>4, <3>1
  <2> QED BY <2>3, <2>5, <2>6 DEF LoopInv, LoopsCurrent, Running
<1>4. ASSUME NEW r \in Goroutines, HandshakeSucceeds(r) PROVE LoopInv'
  <2>1. /\ pc[r] \in OwnerPcs /\ \A k \in Conns : ~Running(k)
        /\ conn \in Conns /\ loop[conn] = "none"
    BY <1>4 DEF HandshakeSucceeds, OwnerPcs, Pcs, LoopInv, LoopsOut
  <2>2. conn \notin recvClosed /\ conn <= dials
    <3>1. conn \notin recvClosed
      BY <2>1 DEF LoopInv, LoopsCurrent
    <3>2. conn <= dials
      BY DEF LoopInv, LoopsCurrent
    <3> QED BY <3>1, <3>2
  <2>3. /\ recvDone' = conn /\ loop' = [loop EXCEPT ![conn] = "reading"] /\ hb' = hb
        /\ UNCHANGED <<conn, recvClosed, dials, await, crash>>
    BY <1>4 DEF HandshakeSucceeds
  <2>4. pc'[r] \in {"idle", "notify", "release"} /\ \A q \in Goroutines \ {r} : pc'[q] = pc[q]
    BY <1>4 DEF HandshakeSucceeds, Goto
  <2>5. LoopsCurrent'
    <3>1. \A k \in Conns : loop'[k] = IF k = conn THEN "reading" ELSE loop[k]
      BY <2>1, <2>3
    <3>2. \A k \in Conns : Running(k)' => k = conn
      BY <2>1, <3>1 DEF Running
    <3>3. \A k \in recvClosed : k # conn /\ k \in Conns
      BY <2>2
    <3>4. \A k \in Conns : k > dials => k # conn
      BY <2>1, <2>2 DEF Conns
    <3> QED BY <2>3, <3>1, <3>2, <3>3, <3>4 DEF LoopInv, LoopsCurrent
  <2>6. ASSUME NEW q \in Goroutines PROVE LoopsOut(q)'
    <3>1. CASE q # r
      <4>1. pc'[q] = pc[q] /\ pc[q] \notin OwnerPcs
        BY <2>1, <2>4, <3>1, OneAtWork
      <4> QED BY <4>1 DEF LoopsOut, OwnerPcs, Pcs
    <3>2. CASE q = r
      BY <2>4, <3>2 DEF LoopsOut
    <3> QED BY <3>1, <3>2
  <2> QED BY <2>3, <2>5, <2>6 DEF LoopInv
<1>5. ASSUME NEW r \in Goroutines, SleepEnds(r) PROVE LoopInv'
  <2>1. pc[r] \in OwnerPcs /\ \A k \in Conns : ~Running(k)
    BY <1>5 DEF SleepEnds, OwnerPcs, Pcs, LoopInv, LoopsOut, Settled, Running
  <2>2. Goto(r, "resetClose") /\ UNCHANGED <<conn, recvDone, recvClosed, loop, dials, hb, crash>>
    BY <1>5 DEF SleepEnds
  <2>3. LoopsOut(r)'
    BY <2>1, <2>2 DEF LoopsOut, Running, Goto
  <2> QED BY <2>1, <2>2, <2>3, LoopsUntouched DEF Pcs
<1>6. ASSUME NEW r \in Goroutines, ResetClose(r) \/ ResetArm(r) PROVE LoopInv'
  <2>1. pc[r] \in OwnerPcs /\ \A k \in Conns : ~Running(k)
    BY <1>6 DEF ResetClose, ResetArm, OwnerPcs, Pcs, LoopInv, LoopsOut
  <2>2. PICK where \in {"resetClear", "dial"} : Goto(r, where)
    BY <1>6 DEF ResetClose, ResetArm
  <2>3. UNCHANGED <<conn, recvDone, recvClosed, loop, dials, hb, crash>>
    BY <1>6 DEF ResetClose, ResetArm
  <2>4. LoopsOut(r)'
    BY <2>1, <2>2, <2>3 DEF LoopsOut, Running, Goto
  <2> QED BY <2>1, <2>2, <2>3, <2>4, LoopsUntouched DEF Pcs
<1>7. ASSUME NEW r \in Goroutines, ResetClear(r) PROVE LoopInv'
  <2>1. pc[r] \in OwnerPcs /\ \A k \in Conns : ~Running(k)
    BY <1>7 DEF ResetClear, OwnerPcs, Pcs, LoopInv, LoopsOut
  <2>2. Goto(r, "resetArm") /\ UNCHANGED <<recvClosed, loop, dials, hb, crash>>
    BY <1>7 DEF ResetClear
  <2>3. ASSUME NEW q \in Goroutines PROVE LoopsOut(q)'
    <3>1. CASE q # r
      <4>1. pc'[q] = pc[q] /\ pc[q] \notin OwnerPcs
        BY <2>1, <2>2, <3>1, OneAtWork DEF Goto
      <4> QED BY <4>1 DEF LoopsOut, OwnerPcs, Pcs
    <3>2. CASE q = r
      BY <2>1, <2>2, <3>2 DEF LoopsOut, Running, Goto
    <3> QED BY <3>1, <3>2
  <2>4. conn' <= dials'
    BY <1>7, <2>2 DEF ResetClear, NoConn
  <2> QED BY <2>1, <2>2, <2>3, <2>4 DEF LoopInv, LoopsCurrent, Running
<1>8. ASSUME NEW r \in Goroutines, Notify(r) \/ Exhausted(r) \/ Release(r) PROVE LoopInv'
  <2>1. PICK where \in {"idle", "release", "announce"} : Goto(r, where)
    BY <1>8 DEF Notify, Exhausted, Release
  <2>2. UNCHANGED <<conn, recvDone, recvClosed, loop, dials, hb, await, crash>>
    BY <1>8 DEF Notify, Exhausted, Release
  <2>3. ASSUME NEW q \in Goroutines PROVE LoopsOut(q)'
    BY <2>1, <2>2 DEF LoopInv, LoopsOut, Running, Goto
  <2> QED BY <2>2, <2>3 DEF LoopInv, LoopsCurrent, Running
<1>9. ASSUME NEW r \in Goroutines, ResizeClaim(r) PROVE LoopInv'
  <2>1. CASE Live
    <3>1. pc[r] = "claim" /\ r # App /\ pc[App] = "idle"
      BY <1>9 DEF ResizeClaim, FirstConnect
    <3>2. /\ CloseDone({}) /\ await' = [await EXCEPT ![r] = recvDone] /\ Goto(r, "wait")
          /\ UNCHANGED <<conn, recvDone, recvClosed, loop, dials>>
      BY <1>9, <2>1 DEF ResizeClaim
    <3>3. (\A k \in Conns : hb'[k] = "off") /\ crash' = crash
      BY <2>1, <3>2, QuietClose DEF LoopInv
    <3>4. ASSUME NEW q \in Goroutines PROVE LoopsOut(q)'
      <4>1. CASE q # r
        <5>1. pc'[q] = pc[q] /\ pc[q] \notin OwnerPcs
          BY <2>1, <3>1, <3>2, <4>1, NoneAtWork DEF Goto
        <5> QED BY <5>1 DEF LoopsOut, OwnerPcs, Pcs
      <4>2. CASE q = r
        BY <3>2, <4>2 DEF LoopsOut, Goto
      <4> QED BY <4>1, <4>2
    <3> QED BY <3>2, <3>3, <3>4 DEF LoopInv, LoopsCurrent, Running
  <2>2. CASE ~Live
    <3>1. Goto(r, "idle") /\ UNCHANGED <<conn, recvDone, recvClosed, loop, dials, hb, await, crash>>
      BY <1>9, <2>2 DEF ResizeClaim
    <3>2. ASSUME NEW q \in Goroutines PROVE LoopsOut(q)'
      BY <3>1 DEF LoopInv, LoopsOut, Running, Goto
    <3> QED BY <3>1, <3>2 DEF LoopInv, LoopsCurrent, Running
  <2> QED BY <2>1, <2>2
<1>10. ASSUME NEW r \in Goroutines, ResizeWait(r) PROVE LoopInv'
  <2>1. pc[r] \in OwnerPcs /\ await[r] = recvDone
    BY <1>10 DEF ResizeWait, OwnerPcs, Pcs, LoopInv, LoopsOut
  <2>2. \A k \in Conns : ~Running(k)
    <3> SUFFICES ASSUME NEW k \in Conns, Running(k) PROVE FALSE
      OBVIOUS
    <3>1. recvDone = k /\ k # NoConn
      BY DEF LoopInv, LoopsCurrent, Conns, NoConn
    <3>2. k \in recvClosed
      BY <1>10, <2>1, <3>1 DEF ResizeWait
    <3> QED BY <3>2 DEF LoopInv, LoopsCurrent, Running
  <2>3. Goto(r, "resetClose") /\ UNCHANGED <<conn, recvDone, recvClosed, loop, dials, hb, crash>>
    BY <1>10 DEF ResizeWait
  <2>4. LoopsOut(r)'
    BY <2>2, <2>3 DEF LoopsOut, Running, Goto
  <2> QED BY <2>1, <2>3, <2>4, LoopsUntouched DEF Pcs
<1>11. ASSUME NEW k \in Conns, LoopPacket(k) \/ LoopHandled(k) PROVE LoopInv'
  <2>1. loop[k] \in {"reading", "handling"} /\ conn = k /\ recvDone = k /\ k # NoConn
    BY <1>11 DEF LoopPacket, LoopHandled, LoopInv, LoopsCurrent, Running, Conns, NoConn
  <2>2. PICK next \in {"reading", "handling"} : loop' = [loop EXCEPT ![k] = next]
    BY <1>11, <2>1 DEF LoopPacket, LoopHandled, NextRead
  <2>3. UNCHANGED <<conn, recvDone, recvClosed, dials, hb, pc, await, crash>>
    BY <1>11, <2>1 DEF LoopPacket, LoopHandled, NextRead
  <2>4. \A j \in Conns : loop'[j] = IF j = k THEN next ELSE loop[j]
    BY <2>2
  <2>5. LoopsCurrent'
    <3>1. k \notin recvClosed /\ ~(k > dials)
      BY <2>1 DEF LoopInv, LoopsCurrent
    <3>2. \A j \in Conns : Running(j)' <=> Running(j)
      BY <2>1, <2>4 DEF Running
    <3>3. \A j \in recvClosed : j # k /\ j \in Conns
      BY <3>1
    <3> QED BY <2>3, <2>4, <3>1, <3>2, <3>3 DEF LoopInv, LoopsCurrent
  <2>6. ASSUME NEW r \in Goroutines PROVE LoopsOut(r)'
    <3>1. pc[r] \notin {"sleep", "resetClose", "resetClear", "resetArm", "dial", "handshake"}
      BY <2>1 DEF LoopInv, LoopsOut, Running
    <3> QED BY <2>3, <3>1 DEF LoopInv, LoopsOut
  <2> QED BY <2>3, <2>5, <2>6 DEF LoopInv
<1>12. ASSUME NEW k \in Conns, LoopError(k) PROVE LoopInv'
  BY <1>12, LoopLeaves DEF LoopError
<1>13. ASSUME NEW k \in Conns, LoopUltimatum(k) PROVE LoopInv'
  BY <1>13, LoopLeaves DEF LoopUltimatum
<1>14. ASSUME NEW k \in Conns, LoopExit(k) PROVE LoopInv'
  <2>1. loop[k] = "exiting" /\ recvDone = k /\ k # NoConn /\ k \notin recvClosed
    BY <1>14 DEF LoopExit, LoopInv, LoopsCurrent, Running, Conns, NoConn
  <2>2. /\ loop' = [loop EXCEPT ![k] = "exited"] /\ recvClosed' = recvClosed \cup {k}
        /\ UNCHANGED <<conn, recvDone, dials, hb, pc, await, crash>>
    BY <1>14, <2>1 DEF LoopExit
  <2>3. \A j \in Conns : loop'[j] = IF j = k THEN "exited" ELSE loop[j]
    BY <2>2
  <2>4. LoopsCurrent'
    <3>1. ~(k > dials)
      BY <2>1 DEF LoopInv, LoopsCurrent
    <3>2. \A j \in Conns : Running(j)' => Running(j)
      BY <2>3 DEF Running
    <3>3. \A j \in recvClosed' : j = k \/ (j \in recvClosed /\ j \in Conns)
      BY <2>2
    <3> QED BY <2>2, <2>3, <3>1, <3>2, <3>3 DEF LoopInv, LoopsCurrent
  <2>5. ASSUME NEW r \in Goroutines PROVE LoopsOut(r)'
    <3>1. pc[r] = "handshake" => conn # k
      BY <2>1 DEF LoopInv, LoopsOut
    <3> QED BY <2>2, <2>3, <3>1 DEF LoopInv, LoopsOut, Running
  <2> QED BY <2>2, <2>4, <2>5 DEF LoopInv
<1>15. ASSUME NEW k \in Conns, HeartbeatStep(k) \/ LoopRedirected(k) PROVE FALSE
  BY <1>15 DEF HeartbeatStep, HeartbeatExpires, HeartbeatDisconnects, HeartbeatStops,
    LoopRedirected, LoopInv
<1>16. ASSUME NEW s \in Senders, SendChecks(s) \/ SendWrites(s) PROVE LoopInv'
  <2>1. UNCHANGED <<conn, recvDone, recvClosed, loop, dials, hb, pc, await>> /\ Senders # {}
    BY <1>16 DEF SendChecks, SendWrites
  <2> QED BY <2>1 DEF LoopInv, LoopsCurrent, LoopsOut, Running
<1>17. CASE AppCloses
  <2>1. UNCHANGED <<conn, recvDone, recvClosed, loop, dials, pc, await>>
    BY <1>17 DEF AppCloses
  <2>2. (\A k \in Conns : hb'[k] = "off") /\ crash' = crash
    BY <1>17, QuietClose DEF AppCloses, Close, LoopInv
  <2> QED BY <2>1, <2>2 DEF LoopInv, LoopsCurrent, LoopsOut, Running
<1>18. CASE AppResizes
  <2>1. PICK q \in Goroutines : Spawn(q, "resize", "claim")
    BY <1>18 DEF AppResizes
  <2>2. UNCHANGED <<conn, recvDone, recvClosed, loop, dials, hb, await, crash>>
    BY <1>18, <2>1 DEF AppResizes, Spawn
  <2>3. ASSUME NEW r \in Goroutines PROVE LoopsOut(r)'
    BY <2>1, <2>2 DEF LoopInv, LoopsOut, Running, Spawn
  <2> QED BY <2>2, <2>3 DEF LoopInv, LoopsCurrent, Running
<1>19. CASE NetworkFails \/ UNCHANGED vars
  <2>1. UNCHANGED <<conn, recvDone, recvClosed, loop, dials, hb, pc, await, crash>>
    BY <1>19 DEF NetworkFails, vars
  <2> QED BY <2>1 DEF LoopInv, LoopsCurrent, LoopsOut, Running
<1> QED
  BY <1>1, <1>2, <1>3, <1>4, <1>5, <1>6, <1>7, <1>8, <1>9, <1>10, <1>11, <1>12, <1>13, <1>14, <1>15, <1>16, <1>17, <1>18, <1>19
  DEF Next, ConnectStep, LoopStep, LoopRuns, AppStep

\* The loops' invariant, under the assumptions of ReadersStayExclusive.
LEMMA LoopInvAlways ==
    ASSUME ~HeartbeatOn, ~ServerEndsInHandler
    PROVE  Spec => []LoopInv
<1>1. IInv /\ LoopInv /\ [Next]_vars => LoopInv'
  BY LoopInvStep
<1> QED BY <1>1, LoopInvInit, IInvAlways, PTL DEF Spec

\* One loop at most reads, that of the connection, and none while another
\* goroutine's handshake does.
LEMMA OneReader == IInv /\ LoopInv => ReaderExclusive
<1> SUFFICES ASSUME IInv, LoopInv, NEW k \in Conns
             PROVE  /\ Cardinality(Readers(k)) <= 1
                    /\ conn = k /\ (\E r \in Goroutines : pc[r] = "handshake") => Readers(k) = {}
  BY DEF ReaderExclusive
<1>1. Readers(k) \subseteq {conn}
  BY DEF Readers, LoopInv, LoopsCurrent, Running
<1>2. Readers(k) = {} \/ Readers(k) = {conn}
  BY <1>1
<1>3. Cardinality({}) = 0 /\ Cardinality({conn}) = 1
  BY FS_EmptySet, FS_Singleton
<1>4. (\E r \in Goroutines : pc[r] = "handshake") => Readers(k) = {}
  BY DEF Readers, LoopInv, LoopsOut, Running
<1> QED BY <1>2, <1>3, <1>4

\* Without a heartbeat and without a server that redirects, no connection is ever
\* read by two goroutines, however often the client reconnects or is resized,
\* whatever the handlers and the senders do.
THEOREM ReadersStayExclusive ==
    ASSUME ~HeartbeatOn, ~ServerEndsInHandler
    PROVE  Spec => []ReaderExclusive
BY LoopInvAlways, IInvAlways, OneReader, PTL

\* Without senders either, nothing panics: neither a channel that is closed twice
\* nor a loop that meets the cleared fields.
THEOREM LoopsAlwaysSafe ==
    ASSUME ~HeartbeatOn, ~ServerEndsInHandler, Senders = {}
    PROVE  Spec => []LoopsSafe
<1>1. LoopInv => NoPanic
  BY DEF LoopInv, NoPanic
<1> QED BY <1>1, LoopInvAlways, IInvAlways, OneReader, PTL DEF LoopsSafe

(***************************************************************************)
(* Without the reconnect-based resize, the callbacks implement AppSession. *)
(***************************************************************************)
\* With no resize there is only reconnectLoop, and what the application has been
\* told follows from where its owner is.
Told ==
    /\ \A r \in Goroutines : pc[r] # "idle" => kind[r] # "resize"
    /\ \A r \in Goroutines : pc[r] \notin {"claim", "wait", "announce"}
    /\ Live => view = "up"
    /\ closed /\ ~reconnecting => view \in {"up", "ended"}
    /\ \A r \in Goroutines : Owner(r) =>
          view = IF pc[r] # "release" THEN "reconnecting"
                 ELSE IF closed THEN "ended" ELSE "up"

\* A step of a client that does not resize keeps Told and is a step, or a
\* stutter, of AppSession.
SessionStep == Told' /\ [Session!Next]_Phase

\* A step that leaves locks, goroutines and events alone leaves the session as it was.
LEMMA QuietStep ==
    ASSUME IInv, Told, UNCHANGED <<lockVars, goVars, view>>
    PROVE  SessionStep
BY DEF SessionStep, Told, Owner, Live, Phase, lockVars, goVars

\* The end of a connection is a step of the application's view of a session.
LEMMA DisconnectSession ==
    ASSUME IInv, Told, pc[App] = "idle", NEW retryable, NEW fired,
           HandleDisconnect(retryable, fired)
    PROVE  SessionStep
<1>1. CASE ~Live
  BY <1>1, QuietStep DEF HandleDisconnect
<1>2. CASE Live
  <2> USE ConstantTypes DEF IInv, TypeOK
  <2>1. view = "up" /\ ~closed /\ ~reconnecting /\ \A r \in Goroutines : ~Owner(r)
    BY <1>2 DEF Told, Live, ReconnectExclusive
  <2>2. CASE AutoReconnect /\ retryable
    <3>1. PICK q \in Goroutines : Spawn(q, "loop", "sleep")
      BY <1>2, <2>2 DEF HandleDisconnect
    <3>2. ~closed' /\ reconnecting' /\ view' = "reconnecting"
      BY <1>2, <2>1, <2>2 DEF HandleDisconnect
    <3>3. Told'
      BY <2>1, <3>1, <3>2 DEF Told, Live, Owner, OwnerPcs, Spawn
    <3> QED BY <2>1, <3>2, <3>3 DEF SessionStep, Phase, Session!Next, Session!Lose
  <2>3. CASE ~(AutoReconnect /\ retryable)
    <3>1. closed' /\ ~reconnecting' /\ view' = "ended" /\ UNCHANGED goVars
      BY <1>2, <2>1, <2>3 DEF HandleDisconnect
    <3>2. Told'
      BY <2>1, <3>1 DEF Told, Live, Owner, goVars
    <3> QED BY <2>1, <3>1, <3>2 DEF SessionStep, Phase, Session!Next, Session!Lose
  <2> QED BY <2>2, <2>3
<1> QED BY <1>1, <1>2

\* So is Close.
LEMMA CloseSession ==
    ASSUME IInv, Told, Close, UNCHANGED view,
           \A r \in Goroutines : pc'[r] # pc[r] => r = App /\ pc'[r] = "idle",
           pc' \in [Goroutines -> Pcs], UNCHANGED kind
    PROVE  SessionStep
<1> USE DEF IInv, TypeOK
<1>1. CASE ~Live
  <2>1. Told'
    BY <1>1 DEF Close, Told, Owner, Live, lockVars, FirstConnect
  <2> QED BY <1>1, <2>1 DEF SessionStep, Close, Phase, lockVars
<1>2. CASE Live
  <2>1. view = "up" /\ \A r \in Goroutines : ~Owner(r)
    BY <1>2 DEF Told, Live, ReconnectExclusive
  <2>2. closed' /\ ~reconnecting' /\ ~closed
    BY <1>2 DEF Close, Live
  <2>3. Told'
    BY <2>1, <2>2 DEF Told, Live, Owner, FirstConnect
  <2> QED BY <2>1, <2>2, <2>3 DEF SessionStep, Phase, Session!Next, Session!Close
<1> QED BY <1>1, <1>2

\* Every step is a step of AppSession or leaves its state alone.
LEMMA SessionNext ==
    ASSUME MaxResizes = 0, IInv, Told, [Next]_vars
    PROVE  SessionStep
<1> USE ConstantTypes DEF IInv, TypeOK, lockVars, loopVars, goVars, bounds
<1>1. ASSUME NEW r \in Goroutines, DialSucceeds(r) PROVE SessionStep
  <2>1. Told'
    BY <1>1 DEF DialSucceeds, Goto, Pcs, Told, Owner, OwnerPcs, Live, ReconnectExclusive, FirstConnect, OwnerArms
  <2>2. UNCHANGED Phase
    BY <1>1 DEF DialSucceeds, Phase, Told, Owner, OwnerPcs, Live, ReconnectExclusive, FirstConnect, OwnerArms
  <2> QED BY <2>1, <2>2 DEF SessionStep
<1>2. ASSUME NEW r \in Goroutines, SleepEnds(r) PROVE SessionStep
  <2>1. Told'
    BY <1>2 DEF SleepEnds, Goto, Pcs, Told, Owner, OwnerPcs, Live, ReconnectExclusive, FirstConnect, OwnerArms
  <2>2. UNCHANGED Phase
    BY <1>2 DEF SleepEnds, Phase, Told, Owner, OwnerPcs, Live, ReconnectExclusive, FirstConnect, OwnerArms
  <2> QED BY <2>1, <2>2 DEF SessionStep
<1>3. ASSUME NEW r \in Goroutines, ResetClose(r) PROVE SessionStep
  <2>1. Told'
    BY <1>3 DEF ResetClose, Goto, Pcs, Told, Owner, OwnerPcs, Live, ReconnectExclusive, FirstConnect, OwnerArms
  <2>2. UNCHANGED Phase
    BY <1>3 DEF ResetClose, Phase, Told, Owner, OwnerPcs, Live, ReconnectExclusive, FirstConnect, OwnerArms
  <2> QED BY <2>1, <2>2 DEF SessionStep
<1>4. ASSUME NEW r \in Goroutines, ResetClear(r) PROVE SessionStep
  <2>1. Told'
    BY <1>4 DEF ResetClear, Goto, Pcs, Told, Owner, OwnerPcs, Live, ReconnectExclusive, FirstConnect, OwnerArms
  <2>2. UNCHANGED Phase
    BY <1>4 DEF ResetClear, Phase, Told, Owner, OwnerPcs, Live, ReconnectExclusive, FirstConnect, OwnerArms
  <2> QED BY <2>1, <2>2 DEF SessionStep
<1>5. ASSUME NEW r \in Goroutines, ResetArm(r) PROVE SessionStep
  <2>1. Told'
    BY <1>5 DEF ResetArm, Goto, Pcs, Told, Owner, OwnerPcs, Live, ReconnectExclusive, FirstConnect, OwnerArms
  <2>2. UNCHANGED Phase
    BY <1>5 DEF ResetArm, Phase, Told, Owner, OwnerPcs, Live, ReconnectExclusive, FirstConnect, OwnerArms
  <2> QED BY <2>1, <2>2 DEF SessionStep
<1>6. ASSUME NEW r \in Goroutines, HandshakeSucceeds(r) PROVE SessionStep
  <2>1. Told'
    BY <1>6 DEF HandshakeSucceeds, Goto, Pcs, Told, Owner, OwnerPcs, Live, ReconnectExclusive, FirstConnect, OwnerArms
  <2>2. UNCHANGED Phase
    BY <1>6 DEF HandshakeSucceeds, Phase, Told, Owner, OwnerPcs, Live, ReconnectExclusive, FirstConnect, OwnerArms
  <2> QED BY <2>1, <2>2 DEF SessionStep
<1>7. ASSUME NEW r \in Goroutines, DialFails(r) PROVE SessionStep
  <2>1. Told'
    BY <1>7 DEF DialFails, ConnectFailed, Goto, Pcs, Told, Owner, OwnerPcs, Live, ReconnectExclusive, FirstConnect, OwnerArms
  <2>2. [Session!Next]_Phase
    BY <1>7 DEF DialFails, ConnectFailed, Goto, Phase, Session!Next, Session!Recover,
      Session!GiveUp, Told, Owner, OwnerPcs, Live, ReconnectExclusive, FirstConnect, OwnerArms
  <2> QED BY <2>1, <2>2 DEF SessionStep
<1>8. ASSUME NEW r \in Goroutines, Notify(r) PROVE SessionStep
  <2>1. Told'
    BY <1>8 DEF Notify, Goto, Pcs, Told, Owner, OwnerPcs, Live, ReconnectExclusive, FirstConnect, OwnerArms
  <2>2. [Session!Next]_Phase
    BY <1>8 DEF Notify, Goto, Phase, Session!Next, Session!Recover,
      Session!GiveUp, Told, Owner, OwnerPcs, Live, ReconnectExclusive, FirstConnect, OwnerArms
  <2> QED BY <2>1, <2>2 DEF SessionStep
<1>9. ASSUME NEW r \in Goroutines, Exhausted(r) PROVE SessionStep
  <2>1. Told'
    BY <1>9 DEF Exhausted, Goto, Pcs, Told, Owner, OwnerPcs, Live, ReconnectExclusive, FirstConnect, OwnerArms
  <2>2. [Session!Next]_Phase
    BY <1>9 DEF Exhausted, Goto, Phase, Session!Next, Session!Recover,
      Session!GiveUp, Told, Owner, OwnerPcs, Live, ReconnectExclusive, FirstConnect, OwnerArms
  <2> QED BY <2>1, <2>2 DEF SessionStep
<1>10. ASSUME NEW r \in Goroutines, Release(r) PROVE SessionStep
  <2>1. Told'
    BY <1>10 DEF Release, Goto, Pcs, Told, Owner, OwnerPcs, Live, ReconnectExclusive, FirstConnect, OwnerArms
  <2>2. [Session!Next]_Phase
    BY <1>10 DEF Release, Goto, Phase, Session!Next, Session!Recover,
      Session!GiveUp, Told, Owner, OwnerPcs, Live, ReconnectExclusive, FirstConnect, OwnerArms
  <2> QED BY <2>1, <2>2 DEF SessionStep
<1>11. ASSUME NEW r \in Goroutines, HandshakeFails(r) PROVE SessionStep
  <2>1. CASE kind[r] = "first"
    <3>1. r = App
      BY <1>11, <2>1 DEF HandshakeFails, FirstConnect
    <3>2. Close /\ Goto(r, "idle") /\ UNCHANGED <<view, kind>>
      BY <1>11, <2>1 DEF HandshakeFails
    <3>3. pc' \in [Goroutines -> Pcs]
      BY <3>2, GotoType DEF Pcs
    <3> QED BY <3>1, <3>2, <3>3, CloseSession DEF Goto
  <2>2. CASE kind[r] # "first"
    <3>1. Told'
      BY <1>11, <2>2 DEF HandshakeFails, ConnectFailed, Goto, Pcs, Told, Owner, OwnerPcs, Live, ReconnectExclusive, FirstConnect, OwnerArms
    <3>2. UNCHANGED Phase
      BY <1>11, <2>2 DEF HandshakeFails, ConnectFailed, Goto, Phase, Told, Owner, OwnerPcs, Live, ReconnectExclusive, FirstConnect, OwnerArms
    <3> QED BY <3>1, <3>2 DEF SessionStep
  <2> QED BY <2>1, <2>2
<1>12. ASSUME NEW r \in Goroutines, ResizeClaim(r) \/ ResizeWait(r) PROVE SessionStep
  BY <1>12 DEF ResizeClaim, ResizeWait, Told
<1>13. ASSUME NEW k \in Conns, LoopRedirected(k) PROVE SessionStep
  <2>1. pc[App] = "idle"
    BY <1>13, LoopsAfterConnect DEF LoopRedirected
  <2>2. HandleDisconnect(TRUE, {})
    BY <1>13 DEF LoopRedirected
  <2> QED BY <2>1, <2>2, DisconnectSession
<1>14. ASSUME NEW k \in Conns, LoopError(k) PROVE SessionStep
  <2>1. pc[App] = "idle"
    BY <1>14, LoopsAfterConnect DEF LoopError
  <2>2. HandleDisconnect(TRUE, {})
    BY <1>14 DEF LoopError
  <2> QED BY <2>1, <2>2, DisconnectSession
<1>15. ASSUME NEW k \in Conns, LoopUltimatum(k) PROVE SessionStep
  <2>1. pc[App] = "idle"
    BY <1>15, LoopsAfterConnect DEF LoopUltimatum
  <2>2. HandleDisconnect(FALSE, {})
    BY <1>15 DEF LoopUltimatum
  <2> QED BY <2>1, <2>2, DisconnectSession
<1>16. ASSUME NEW k \in Conns, HeartbeatDisconnects(k) PROVE SessionStep
  <2>1. pc[App] = "idle"
    BY <1>16, LoopsAfterConnect DEF HeartbeatDisconnects
  <2>2. HandleDisconnect(TRUE, {k})
    BY <1>16 DEF HeartbeatDisconnects
  <2> QED BY <2>1, <2>2, DisconnectSession
<1>17. ASSUME NEW k \in Conns,
          \/ LoopPacket(k) \/ LoopHandled(k) \/ LoopExit(k)
          \/ HeartbeatExpires(k) \/ HeartbeatStops(k)
      PROVE  SessionStep
  BY <1>17, QuietStep DEF LoopPacket, LoopHandled, NextRead, LoopExit, HeartbeatExpires, HeartbeatStops
<1>18. ASSUME NEW s \in Senders, SendChecks(s) \/ SendWrites(s) PROVE SessionStep
  BY <1>18, QuietStep DEF SendChecks, SendWrites
<1>19. CASE NetworkFails \/ UNCHANGED vars
  BY <1>19, QuietStep DEF NetworkFails, vars
<1>20. CASE AppCloses
  BY <1>20, CloseSession DEF AppCloses
<1>21. CASE AppResizes
  BY <1>21 DEF AppResizes
<1> QED
  BY <1>1, <1>2, <1>3, <1>4, <1>5, <1>6, <1>7, <1>8, <1>9, <1>10, <1>11, <1>12, <1>13, <1>14, <1>15, <1>16, <1>17, <1>18, <1>19, <1>20, <1>21
  DEF Next, ConnectStep, LoopStep, LoopRuns, HeartbeatStep, AppStep

\* A client that is never resized through a reconnect calls the callbacks in
\* the order AppSession allows, and none after Close has closed it.
THEOREM CallbacksInOrder == ASSUME MaxResizes = 0 PROVE Spec => AppSession
<1>1. Init => Told /\ Session!Init
  BY DEF Init, Told, Owner, Live, Phase, Session!Init
<1>2. IInv /\ Told /\ [Next]_vars => Told' /\ [Session!Next]_Phase
  BY SessionNext DEF SessionStep
<1> QED
  BY <1>1, <1>2, IInvAlways, PTL DEF Spec, AppSession, Session!Spec

=============================================================================
