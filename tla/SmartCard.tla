------------------------------- MODULE SmartCard -------------------------------
\* A redirected smart card (protocol/rdpdr/scard.go, SmartcardDevice, on
\* scard_pcsclite.go, PCSCLiteBackend): requests handled one by one on the receive
\* loop, GetStatusChange and Connect each on a goroutine of its own, one connection to
\* the daemon per context under that context's lock, and a reconnection of the session
\* that closes the device and makes a new one.  There is one reader with one card.
EXTENDS Integers, FiniteSets, Sequences

CONSTANTS Contexts, Handles,   \* numbers the daemon gives out, never one twice
          Ops,                 \* bound: GetStatusChange and Connect requests at a time
          CounterRange,        \* event counters a reader state can hold, 2^16 in the code
          MaxEvents,           \* bound: insertions and removals of the card
          MaxEpochs            \* bound: connections of the session

VARIABLES epoch,               \* connections of the session so far
          tracked,             \* SmartcardDevice.contexts
          contexts, cardCtx,   \* PCSCLiteBackend.contexts and cardCtx
          lock,                \* pcscContext.mu: who holds it
          loop,                \* the request the receive loop is in
          ops,                 \* the goroutines
          wire,                \* answers of the daemon on the connection of a context
          used, cards, owner,  \* the daemon: contexts and handles given out, open cards,
                               \* and the handle that has the transaction
          present, counter,    \* the reader: card present, events so far
          known,               \* the reader state the server was last given
          cancelled, skewed,   \* contexts cancelled; contexts that read another's answer
          foreign              \* requests answered on a later connection

vars == <<epoch, tracked, contexts, cardCtx, lock, loop, ops, wire, used, cards, owner,
          present, counter, known, cancelled, skewed, foreign>>
daemon == <<used, cards, owner>>
reader == <<present, counter, known>>

Idle == [op |-> "idle", ctx |-> 0, handle |-> 0, at |-> "idle"]
Without(f, S) == [x \in DOMAIN f \ S |-> f[x]]
With(f, x, y) == [z \in DOMAIN f \cup {x} |-> IF z = x THEN y ELSE f[z]]
Least(S) == CHOOSE x \in S : \A y \in S : x <= y

Init ==
    /\ epoch = 1 /\ tracked = {} /\ contexts = {} /\ cardCtx = <<>>
    /\ lock = [c \in Contexts |-> "free"] /\ wire = [c \in Contexts |-> <<>>]
    /\ loop = Idle /\ ops = <<>>
    /\ used = {} /\ cards = <<>> /\ owner = 0
    /\ present \in BOOLEAN /\ counter = 0 /\ known = [counter |-> 0, flag |-> "unaware"]
    /\ cancelled = {} /\ skewed = {} /\ foreign = {}

\* handleEstablishContext: a connection of its own for every context
EstablishContext ==
    /\ loop = Idle /\ Contexts \ used # {}
    /\ LET c == Least(Contexts \ used) IN
         /\ used' = used \cup {c} /\ contexts' = contexts \cup {c} /\ tracked' = tracked \cup {c}
    /\ UNCHANGED <<epoch, cardCtx, lock, loop, ops, wire, cards, owner, reader, cancelled, skewed, foreign>>

\* A request on the connection of a context: taken under its lock, answered in order.
Ask(c, who) == lock' = [lock EXCEPT ![c] = who] /\ wire' = [wire EXCEPT ![c] = Append(@, who)]
Reads(c, who) ==
    /\ wire[c] # <<>>
    /\ skewed' = IF Head(wire[c]) = who THEN skewed ELSE skewed \cup {c}
    /\ wire' = [wire EXCEPT ![c] = Tail(@)]
    /\ lock' = [lock EXCEPT ![c] = "free"]
LockFree(c) == lock[c] = "free"

\* handleReleaseContext: the context is forgotten before the daemon is told.
ReleaseContext(c) ==
    /\ loop = Idle /\ c \in tracked
    /\ contexts' = contexts \ {c} /\ cardCtx' = Without(cardCtx, {h \in DOMAIN cardCtx : cardCtx[h] = c})
    /\ loop' = [op |-> "release", ctx |-> c, handle |-> 0, at |-> "lock"]
    /\ UNCHANGED <<epoch, tracked, lock, ops, wire, daemon, reader, cancelled, skewed, foreign>>

\* handleDisconnect, handleBeginTransaction, handleEndTransaction, and handleTransmit
\* for what only talks to the card (Control, GetAttrib, Status and Reconnect too):
\* getCtxForCard, then the lock.  An unknown handle is answered at once.
UseCard(op, h) ==
    /\ loop = Idle /\ h \in DOMAIN cardCtx /\ cardCtx[h] \in contexts \cap tracked
    /\ loop' = [op |-> op, ctx |-> cardCtx[h], handle |-> h, at |-> "lock"]
    /\ UNCHANGED <<epoch, tracked, contexts, cardCtx, lock, ops, wire, daemon, reader, cancelled, skewed, foreign>>

\* external: the daemon does what it is told at once, except that a transaction is
\* granted only when no other card handle has one.
Told(op, c, h) ==
    CASE op = "release" -> /\ cards' = Without(cards, {x \in DOMAIN cards : cards[x] = c})
                           /\ owner' = IF owner \in DOMAIN cards /\ cards[owner] = c THEN 0 ELSE owner
      [] op = "disconnect" -> cards' = Without(cards, {h}) /\ owner' = IF owner = h THEN 0 ELSE owner
      [] op = "end" -> owner' = (IF owner = h THEN 0 ELSE owner) /\ UNCHANGED cards
      [] op = "begin" -> owner' = h /\ UNCHANGED cards
      [] OTHER -> UNCHANGED <<cards, owner>>

LoopLocks ==
    /\ loop.at = "lock" /\ LockFree(loop.ctx)
    /\ loop' = [loop EXCEPT !.at = "sent"]
    /\ IF loop.op = "begin"
       THEN lock' = [lock EXCEPT ![loop.ctx] = "loop"] /\ UNCHANGED <<wire, cards, owner>>
       ELSE Ask(loop.ctx, "loop") /\ Told(loop.op, loop.ctx, loop.handle)
    /\ UNCHANGED <<epoch, tracked, contexts, cardCtx, ops, used, reader, cancelled, skewed, foreign>>

\* external: the daemon grants the transaction the receive loop waits for
Grant ==
    /\ loop.at = "sent" /\ loop.op = "begin" /\ owner \in {0, loop.handle}
    /\ wire' = [wire EXCEPT ![loop.ctx] = Append(@, "loop")]
    /\ loop' = [loop EXCEPT !.at = "granted"] /\ Told("begin", loop.ctx, loop.handle)
    /\ UNCHANGED <<epoch, tracked, contexts, cardCtx, lock, ops, used, reader, cancelled, skewed, foreign>>

Forgets(op, h) == IF op = "disconnect" THEN Without(cardCtx, {h}) ELSE cardCtx

LoopReads ==
    /\ loop.at = (IF loop.op = "begin" THEN "granted" ELSE "sent")
    /\ Reads(loop.ctx, "loop")
    /\ cardCtx' = Forgets(loop.op, loop.handle)
    /\ tracked' = IF loop.op = "release" THEN tracked \ {loop.ctx} ELSE tracked
    /\ loop' = Idle
    /\ UNCHANGED <<epoch, contexts, ops, daemon, reader, cancelled, foreign>>

\* handleConnect and handleGetStatusChange: a goroutine for each request
Spawn(kind, c, timeout) ==
    /\ loop = Idle /\ c \in tracked /\ Ops \ DOMAIN ops # {}
    /\ ops' = With(ops, CHOOSE o \in Ops : o \notin DOMAIN ops,
                   [kind |-> kind, ctx |-> c, epoch |-> epoch, at |-> "start", timeout |-> timeout,
                    known |-> known, handle |-> 0])
    /\ UNCHANGED <<epoch, tracked, contexts, cardCtx, lock, loop, wire, daemon, reader, cancelled, skewed, foreign>>

\* sendIOCompletion goes out on the connection of the day.
Answer(o) ==
    /\ ops' = Without(ops, {o})
    /\ foreign' = IF ops[o].epoch = epoch THEN foreign ELSE foreign \cup {ops[o].kind}

ConnectLocks(o) ==
    /\ ops[o].kind = "connect" /\ ops[o].at = "start"
    /\ UNCHANGED <<epoch, tracked, contexts, cardCtx, loop, reader, cancelled, skewed>>
    /\ LET c == ops[o].ctx IN
       IF c \notin contexts \/ Handles \subseteq used
       THEN Answer(o) /\ UNCHANGED <<lock, wire, daemon>>
       ELSE /\ LockFree(c)
            /\ LET h == Least(Handles \ used) IN
                 /\ Ask(c, o) /\ used' = used \cup {h} /\ cards' = With(cards, h, c)
                 /\ ops' = [ops EXCEPT ![o].at = "sent", ![o].handle = h]
            /\ UNCHANGED <<owner, foreign>>

ConnectReads(o) ==
    /\ ops[o].kind = "connect" /\ ops[o].at = "sent"
    /\ Reads(ops[o].ctx, o)
    /\ cardCtx' = With(cardCtx, ops[o].handle, ops[o].ctx)
    /\ Answer(o)
    /\ UNCHANGED <<epoch, tracked, contexts, loop, daemon, reader, cancelled>>

\* compareReaderStates: the counter is compared when the server has one, the card
\* when the server has seen the reader.
Flag == IF present THEN "present" ELSE "empty"
CounterDiffers_Never(k) == FALSE
CounterDiffers(k) == k.counter # 0 /\ k.counter # counter
Changed(k) == CounterDiffers(k) \/ k.flag # Flag
Reported == [counter |-> counter % CounterRange, flag |-> Flag]

WaitLocks(c) == UNCHANGED lock

\* GetStatusChange, on a connection of its own that belongs to no context: told the
\* states now and of the next event; a timeout other than 0 is not looked at again.
WaitStarts(o) ==
    /\ ops[o].kind = "wait" /\ ops[o].at = "start"
    /\ UNCHANGED <<epoch, tracked, contexts, cardCtx, loop, wire, daemon, present, counter, cancelled, skewed>>
    /\ IF ops[o].ctx \notin contexts \/ (~Changed(ops[o].known) /\ ops[o].timeout = "zero")
       THEN Answer(o) /\ UNCHANGED <<known, lock>>
       ELSE IF Changed(ops[o].known)
       THEN Answer(o) /\ (known' = IF ops[o].epoch = epoch THEN Reported ELSE known) /\ UNCHANGED lock
       ELSE WaitLocks(ops[o].ctx) /\ ops' = [ops EXCEPT ![o].at = "waiting"] /\ UNCHANGED <<known, foreign>>

WaitEnds(o) ==
    /\ ops[o].kind = "wait" /\ ops[o].at = "notified"
    /\ Answer(o) /\ known' = IF ops[o].epoch = epoch THEN Reported ELSE known
    /\ UNCHANGED <<epoch, tracked, contexts, cardCtx, lock, loop, wire, daemon, present, counter, cancelled, skewed>>

\* external: the user inserts or removes the card; the daemon tells who waits
CardMoves ==
    /\ counter < MaxEvents
    /\ counter' = counter + 1 /\ present' = ~present
    /\ ops' = [o \in DOMAIN ops |-> IF ops[o].at = "waiting" THEN [ops[o] EXCEPT !.at = "notified"] ELSE ops[o]]
    /\ UNCHANGED <<epoch, tracked, contexts, cardCtx, lock, loop, wire, daemon, known, cancelled, skewed, foreign>>

\* Cancel, on a connection of its own: the daemon answers "cancelled" on the
\* connection of the context.
CancelAll(S) ==
    /\ wire' = [c \in Contexts |-> IF c \in S THEN Append(wire[c], "cancelled") ELSE wire[c]]
    /\ cancelled' = cancelled \cup S
HandleCancel(c) ==
    /\ loop = Idle /\ c \in (tracked \cap contexts) \ cancelled /\ CancelAll({c})
    /\ UNCHANGED <<epoch, tracked, contexts, cardCtx, lock, loop, ops, daemon, reader, skewed, foreign>>

\* SmartcardDevice.Close at a reconnection, and a new device with a new backend: the
\* old backend keeps its contexts.
Reconnect ==
    /\ loop = Idle /\ epoch < MaxEpochs
    /\ CancelAll(tracked \cap contexts)
    /\ epoch' = epoch + 1 /\ tracked' = {} /\ known' = [counter |-> 0, flag |-> "unaware"]
    /\ UNCHANGED <<contexts, cardCtx, lock, loop, ops, daemon, present, counter, skewed, foreign>>

Next ==
    \/ EstablishContext \/ LoopLocks \/ Grant \/ LoopReads \/ CardMoves \/ Reconnect
    \/ \E c \in Contexts : ReleaseContext(c) \/ HandleCancel(c) \/ Spawn("connect", c, "none")
         \/ \E t \in {"zero", "endless"} : Spawn("wait", c, t)
    \/ \E h \in Handles, op \in {"disconnect", "begin", "end", "transmit"} : UseCard(op, h)
    \/ \E o \in DOMAIN ops : ConnectLocks(o) \/ ConnectReads(o) \/ WaitStarts(o) \/ WaitEnds(o)

Spec == Init /\ [][Next]_vars

\* Both sides know the same cards: with nobody in the middle of a request on a context
\* that is open, the handles kept for it are those the daemon has open for it.
CardsAgree ==
    \A c \in contexts : lock[c] = "free" =>
        {h \in DOMAIN cardCtx : cardCtx[h] = c} = {h \in DOMAIN cards : cards[h] = c}

\* An answer goes to the request it answers, although the receive loop and the
\* goroutines of Connect use the connection of a context in turn, until the context is
\* cancelled: what the daemon then sends is read by nobody or as another's answer.
AnswersMatch == skewed \subseteq cancelled

\* No event is lost: who waits for the reader to change knows it as it is.
NoEventLost ==
    \A o \in DOMAIN ops : ops[o].at = "waiting" =>
        /\ ops[o].known.flag = Flag
        /\ ops[o].known.counter \in {0, counter}

\* Nobody keeps a context while waiting for the reader: its lock is held by a request
\* to the daemon that is under way.
LockedForRequests ==
    \A c \in Contexts : lock[c] # "free" =>
        \/ lock[c] = "loop" /\ loop.ctx = c /\ loop.at \in {"sent", "granted"}
        \/ lock[c] \in DOMAIN ops /\ ops[lock[c]].kind = "connect" /\ ops[lock[c]].at = "sent"

\* What Close promises: it ends the waits of its connection, so that none answers on
\* a later one.
AnsweredWhereAsked == foreign = {}

\* The server and the daemon agree on the cards, their states and who is told of them.
CardFaithful == CardsAgree /\ AnswersMatch /\ NoEventLost /\ LockedForRequests
==============================================================================
