--------------------------- MODULE DynamicChannels ---------------------------
(***************************************************************************)
(* Dynamic virtual channels (protocol/dvc/dvc.go) over the "drdynvc"       *)
(* static channel, a FIFO of whole PDUs: creation, closing from either     *)
(* side, the server's fragmented messages, and SendData of the goroutines  *)
(* behind the channels.  Lengths are counted in fragments.  What the       *)
(* client sends reaches the server in the step that sends it.              *)
(***************************************************************************)
EXTENDS Naturals, Sequences

CONSTANTS
    Ids,          \* channel IDs the server uses, again after a close
    Workers,      \* goroutines that send on the channels
    Serialised,   \* the IDs whose handler serialises SendData (audin's sendMu)
    Limit,        \* maxDVCReassembly
    MaxLen,       \* bound: length of a message
    MaxMsgs,      \* bound: messages on one incarnation of a channel, and the
                  \* messages of the client on an ID
    MaxIncs,      \* bound: times the server creates an ID
    MaxFlight     \* bound: PDUs on the way to the client

VARIABLES
    srv,          \* the server's side of each ID
    flight,       \* PDUs on the way to the client
    chan,         \* Handler.channels
    loop,         \* where the receive loop is in handleCreate
    opened,       \* IDs whose onOpen has run and whose channel is not closed
    got,          \* the last message each ID's handler was given
    snd, sent,    \* the senders, and the messages they have begun on an ID
    wire          \* the last fragment written on each ID

recvVars == <<srv, flight, chan, loop, opened, got>>
sendVars == <<snd, sent, wire>>
dvcVars == <<recvVars, sendVars>>

NoChan == [inc |-> 0, buf |-> <<>>, total |-> 0]
NoMsg == [inc |-> 0, n |-> 0, buf |-> <<>>]
Idle == [id |-> 0, k |-> 0, len |-> 0]
Ready == [at |-> "ready", id |-> 0, ok |-> FALSE]

Init ==
    /\ srv = [i \in Ids |-> [st |-> "none", inc |-> 0, n |-> 0, k |-> 0, len |-> 0]]
    /\ flight = <<>>
    /\ chan = [i \in Ids |-> NoChan]
    /\ loop = Ready /\ opened = {}
    /\ got = [i \in Ids |-> NoMsg]
    /\ snd = [w \in Workers |-> Idle] /\ sent = [i \in Ids |-> 0]
    /\ wire = [i \in Ids |-> [by |-> "none", k |-> 0, len |-> 0]]

-----------------------------------------------------------------------------
(* The server.  It creates an ID that is not in use, and sends on it once  *)
(* the client has accepted.                                                *)

Pdu(cmd, i) == [cmd |-> cmd, id |-> i, inc |-> srv'[i].inc,
                n |-> srv'[i].n, k |-> srv'[i].k, len |-> srv'[i].len]

ServerCreates(i) ==
    /\ srv[i].st = "none" /\ srv[i].inc < MaxIncs /\ Len(flight) < MaxFlight
    /\ srv' = [srv EXCEPT ![i] = [st |-> "asked", inc |-> @.inc + 1,
                                  n |-> 0, k |-> 0, len |-> 0]]
    /\ flight' = Append(flight, Pdu("create", i))
    /\ UNCHANGED <<chan, loop, opened, got, sendVars>>

ServerSends(i) ==
    /\ srv[i].st = "open" /\ Len(flight) < MaxFlight
    /\ \/ /\ srv[i].k = srv[i].len /\ srv[i].n < MaxMsgs
          /\ \E len \in 1 .. MaxLen :
                 srv' = [srv EXCEPT ![i].n = @ + 1, ![i].k = 1, ![i].len = len]
          /\ flight' = Append(flight, Pdu(IF srv'[i].len = 1 THEN "data" ELSE "first", i))
       \/ /\ srv[i].k < srv[i].len
          /\ srv' = [srv EXCEPT ![i].k = @ + 1]
          /\ flight' = Append(flight, Pdu("data", i))
    /\ UNCHANGED <<chan, loop, opened, got, sendVars>>

ServerCloses(i) ==
    /\ srv[i].st = "open" /\ Len(flight) < MaxFlight
    /\ srv' = [srv EXCEPT ![i].st = "none"]
    /\ flight' = Append(flight, Pdu("close", i))
    /\ UNCHANGED <<chan, loop, opened, got, sendVars>>

-----------------------------------------------------------------------------
(* ProcessPDU, in the receive loop.                                        *)

Receive(p, cmd) ==
    /\ loop = Ready
    /\ flight # <<>> /\ p = Head(flight) /\ p.cmd = cmd /\ flight' = Tail(flight)

Frag(p) == [inc |-> p.inc, n |-> p.n, k |-> p.k, len |-> p.len]

\* The handler of the channel is called with a buffer.
Deliver(i, buf) ==
    got' = [got EXCEPT ![i] = [inc |-> chan[i].inc, n |-> buf[1].n, buf |-> buf]]

\* onChannel has accepted or rejected; an accepted channel replaces what is
\* there, a rejected one leaves it.
HandleCreate(p) ==
    /\ Receive(p, "create")
    /\ \E ok \in BOOLEAN :
           /\ chan' = IF ok THEN [chan EXCEPT ![p.id] = [NoChan EXCEPT !.inc = p.inc]]
                            ELSE chan
           /\ loop' = [at |-> "respond", id |-> p.id, ok |-> ok]
    /\ UNCHANGED <<srv, opened, got, sendVars>>

Respond ==
    /\ loop.at = "respond"
    /\ srv' = [srv EXCEPT ![loop.id].st = IF loop.ok THEN "open" ELSE "none"]
    /\ loop' = IF loop.ok THEN [loop EXCEPT !.at = "open"] ELSE Ready
    /\ UNCHANGED <<flight, chan, opened, got, sendVars>>

Open ==
    /\ loop.at = "open"
    /\ opened' = opened \cup {loop.id}
    /\ loop' = Ready
    /\ UNCHANGED <<srv, flight, chan, got, sendVars>>

\* Data without a first fragment before it is a message of its own.
DeliverSingle(p) == Deliver(p.id, <<Frag(p)>>) /\ UNCHANGED chan

Gathered(p) == Append(chan[p.id].buf, Frag(p))

HandleData_NoReset(p) ==
    /\ Receive(p, "data")
    /\ LET c == chan[p.id] IN
       \/ c = NoChan /\ UNCHANGED <<chan, got>>
       \/ c # NoChan /\ c.total = 0 /\ DeliverSingle(p)
       \/ /\ c.total > 0 /\ chan' = [chan EXCEPT ![p.id].buf = Gathered(p)]
          /\ IF Len(Gathered(p)) >= c.total
             THEN Deliver(p.id, SubSeq(Gathered(p), 1, c.total)) ELSE UNCHANGED got
    /\ UNCHANGED <<srv, loop, opened, sendVars>>
HandleData_TooSoon(p) ==
    /\ Receive(p, "data")
    /\ LET c == chan[p.id] IN
       \/ c = NoChan /\ UNCHANGED <<chan, got>>
       \/ c # NoChan /\ c.total = 0 /\ DeliverSingle(p)
       \/ /\ c.total > 0
          /\ Deliver(p.id, Gathered(p))
          /\ chan' = [chan EXCEPT ![p.id].buf = <<>>, ![p.id].total = 0]
    /\ UNCHANGED <<srv, loop, opened, sendVars>>
HandleData(p) ==
    /\ Receive(p, "data")
    /\ LET c == chan[p.id] IN
       \/ c = NoChan /\ UNCHANGED <<chan, got>>
       \/ c # NoChan /\ c.total = 0 /\ DeliverSingle(p)
       \/ /\ c.total > Len(Gathered(p))
          /\ chan' = [chan EXCEPT ![p.id].buf = Gathered(p)] /\ UNCHANGED got
       \/ /\ c.total > 0 /\ c.total <= Len(Gathered(p))
          /\ Deliver(p.id, SubSeq(Gathered(p), 1, c.total))
          /\ chan' = [chan EXCEPT ![p.id].buf = <<>>, ![p.id].total = 0]
    /\ UNCHANGED <<srv, loop, opened, sendVars>>

\* A first fragment is shorter than its message (ServerSends), so that it
\* never completes it; a message over the limit clears the reassembly.
HandleDataFirst(p) ==
    /\ Receive(p, "first")
    /\ chan' = IF chan[p.id] = NoChan THEN chan
               ELSE [chan EXCEPT ![p.id].buf = IF p.len > Limit THEN <<>> ELSE <<Frag(p)>>,
                                 ![p.id].total = IF p.len > Limit THEN 0 ELSE p.len]
    /\ UNCHANGED <<srv, loop, opened, got, sendVars>>

HandleClose_KeepsChannel(p) ==
    /\ Receive(p, "close")
    /\ opened' = opened \ {p.id}
    /\ UNCHANGED <<srv, loop, chan, got, sendVars>>
HandleClose(p) ==
    /\ Receive(p, "close")
    /\ chan' = [chan EXCEPT ![p.id] = NoChan]
    /\ opened' = opened \ {p.id}
    /\ UNCHANGED <<srv, loop, got, sendVars>>

-----------------------------------------------------------------------------
(* The goroutines behind the channels.  A write that fails ends the        *)
(* session, and with it the channels: the model stops there.               *)

\* CloseChannel of an unplugged device.  A server that has closed and created
\* the ID again takes it for the channel that is gone.
CloseChannel(i) ==
    /\ i \in opened /\ chan[i] # NoChan
    /\ chan' = [chan EXCEPT ![i] = NoChan]
    /\ opened' = opened \ {i}
    /\ srv' = IF srv[i].inc = chan[i].inc THEN [srv EXCEPT ![i].st = "none"] ELSE srv
    /\ UNCHANGED <<flight, loop, got, sendVars>>

\* SendData writes its fragments one after the other and holds no lock.
SendBegins(w, i) ==
    /\ snd[w] = Idle /\ i \in opened /\ sent[i] < MaxMsgs
    /\ i \in Serialised => \A v \in Workers : snd[v] = Idle \/ snd[v].id # i
    /\ \E len \in 1 .. MaxLen : snd' = [snd EXCEPT ![w] = [id |-> i, k |-> 0, len |-> len]]
    /\ sent' = [sent EXCEPT ![i] = @ + 1]
    /\ UNCHANGED <<recvVars, wire>>

SendFragment(w) ==
    LET m == snd[w] IN
    /\ m # Idle
    /\ wire' = [wire EXCEPT ![m.id] = [by |-> w, k |-> m.k + 1, len |-> m.len]]
    /\ snd' = [snd EXCEPT ![w] = IF m.k + 1 = m.len THEN Idle ELSE [m EXCEPT !.k = @ + 1]]
    /\ UNCHANGED <<recvVars, sent>>

Next ==
    \/ \E i \in Ids : ServerCreates(i) \/ ServerSends(i) \/ ServerCloses(i)
                      \/ CloseChannel(i)
    \/ \E p \in {flight[j] : j \in DOMAIN flight \cap {1}} :
           HandleCreate(p) \/ HandleData(p) \/ HandleDataFirst(p) \/ HandleClose(p)
    \/ Respond \/ Open
    \/ \E w \in Workers : \/ \E i \in Ids : SendBegins(w, i)
                          \/ SendFragment(w)

Spec == Init /\ [][Next]_dvcVars

-----------------------------------------------------------------------------
(* Properties.                                                             *)

\* A handler is called with whole messages of its own channel, in spite of the
\* fragments of other channels, of closes in mid-message and of IDs used again.
HandlersGetWhole ==
    \A i \in Ids :
        LET m == got[i] IN
        m # NoMsg =>
            m.buf = [k \in 1 .. m.buf[1].len |->
                        [inc |-> m.inc, n |-> m.n, k |-> k, len |-> m.buf[1].len]]

\* Each incarnation of a channel hears its messages from the first one on, in
\* order and once, and nothing after a later one has been heard.
EveryMessageInOrder ==
    [][\A i \in Ids :
         got'[i] # got[i] =>
             \/ got'[i].inc = got[i].inc /\ got'[i].n = got[i].n + 1
             \/ got'[i].inc > got[i].inc /\ got'[i].n = 1]_dvcVars

\* When nothing is on the way, both sides agree on the channels that are open,
\* whoever has closed them and however often the ID was used.
SidesAgree ==
    flight = <<>> /\ loop = Ready =>
        \A i \in Ids : (chan[i] # NoChan) = (srv[i].st = "open")

\* When nothing is on the way, an open channel has heard the last message the
\* server has finished.
NothingMissed ==
    flight = <<>> /\ loop = Ready =>
        \A i \in Ids :
            chan[i] # NoChan /\ srv[i].n > 0 /\ srv[i].k = srv[i].len
            => got[i].inc = srv[i].inc /\ got[i].n = srv[i].n

\* A worker may send only on a channel whose create response is on its way.
OpenAfterResponse ==
    \A i \in opened : chan[i].inc = srv[i].inc => srv[i].st # "asked"

\* On a channel that serialises its senders a message is written whole before
\* the next begins.
FragmentsContiguous ==
    [][\A i \in Serialised :
         wire'[i] # wire[i] =>
             \/ wire'[i].k = 1 /\ wire[i].k = wire[i].len
             \/ wire'[i].by = wire[i].by /\ wire'[i].k = wire[i].k + 1]_dvcVars

\* A handler hears all of its channel and nothing else.
HandlersFaithful == HandlersGetWhole /\ NothingMissed

\* Both sides know the same channels, and a channel before anything is sent on it.
ChannelsAgree == SidesAgree /\ OpenAfterResponse
=============================================================================
