--------------------------- MODULE UsbRedirection ---------------------------
(***************************************************************************)
(* USB redirection (protocol/urbdrc): the devices in their ports, the      *)
(* hotplug monitor, the tables of a Handler, the channels the server opens *)
(* for its devices, and the transfers in goroutines.  What h.mu protects   *)
(* is one step.  The channels are those of DynamicChannels: a FIFO to the  *)
(* client; what the client sends reaches the server in the step that sends *)
(* it.  The control channel is opened once and stays.                      *)
(***************************************************************************)
EXTENDS Naturals, Sequences, FiniteSets, Functions

CONSTANTS
    Ports,       \* sysfs paths
    Explicit,    \* ports whose device an option names: opened by Connect
    Matching,    \* ports whose devices pass the hotplug filters and class
                 \* exclusion; {} starts no monitor
    Chans,       \* IDs the server uses for device channels, again after a close
    SemCap,      \* capacity of transferSem
    MaxPlugs,    \* bound: devices put in after the first ones
    MaxIncs,     \* bound: times the server opens an ID
    MaxReqs,     \* bound: transfer requests
    MaxFlight    \* bound: PDUs on the way to the client

ASSUME UsbAssumption ==
    /\ "none" \notin Ports /\ Matching \subseteq Ports
    /\ 0 \notin Chans /\ SemCap \in Nat

VARIABLES
    plug,        \* the device in each port by its number of insertion, or Nil
    plugs,       \* insertions, for the bound
    state,       \* Handler.state: "channelIn" or "channelOut"
    dev,         \* the deviceStates, by UsbDevice ID (counted from 1)
    devices, known, pending, byChannel,   \* Handler fields
    monitorOn,   \* monitorCancel is set
    mon,         \* the monitor goroutine
    asks,        \* ADD_VIRTUAL_CHANNEL PDUs the server has not answered
    srv,         \* the server's side of each ID
    flight,      \* PDUs on the way to the client
    chan,        \* dvc.Handler.channels: which opening of the ID, or Nil
    reqs,        \* the server's transfer requests, and their completions
    loop,        \* the request the receive loop works on, or Nil
    transfers,   \* requests that goroutines work on, with their device
    over         \* Close has run

portVars == <<plug, plugs>>
tables == <<dev, devices, known, pending, byChannel>>
monVars == <<monitorOn, mon>>
netVars == <<asks, srv, flight, chan>>
reqVars == <<reqs, loop, transfers>>
usbVars == <<portVars, state, tables, monVars, netVars, reqVars, over>>

Nil == 0
Known(p) == p \in DOMAIN known
NoPort == "none"   \* not a member of Ports
Waiting == [at |-> "wait", found |-> [p \in Ports |-> Nil], toAdd |-> {}, hand |-> NoPort]

Init ==
    /\ plug \in [Ports -> {Nil, 1}] /\ plugs = 1
    /\ state = "channelIn"
    /\ dev = <<>> /\ devices = <<>> /\ known = <<>> /\ pending = <<>> /\ byChannel = <<>>
    /\ monitorOn = FALSE /\ mon = [Waiting EXCEPT !.at = "off"]
    /\ asks = 0
    /\ srv = [c \in Chans |-> [st |-> "none", inc |-> 0, dev |-> Nil]]
    /\ flight = <<>> /\ chan = [c \in Chans |-> Nil]
    /\ reqs = <<>> /\ loop = Nil /\ transfers = {}
    /\ over = FALSE

-----------------------------------------------------------------------------
(* The user.  A device put in again has a new address.                     *)

PlugIn(p) ==
    /\ plug[p] = Nil /\ plugs <= MaxPlugs
    /\ plugs' = plugs + 1 /\ plug' = [plug EXCEPT ![p] = plugs']
    /\ UNCHANGED <<state, tables, monVars, netVars, reqVars, over>>

Unplug(p) ==
    /\ plug[p] # Nil
    /\ plug' = [plug EXCEPT ![p] = Nil]
    /\ UNCHANGED <<plugs, state, tables, monVars, netVars, reqVars, over>>

-----------------------------------------------------------------------------
(* Tables.                                                                 *)

Newest == Len(dev)
SetEntry(f, x, y) == [z \in DOMAIN f \cup {x} |-> IF z = x THEN y ELSE f[z]]

\* A deviceState for the device just opened in port p.
NewDevice(p) ==
    /\ dev' = Append(dev, [port |-> p, open |-> TRUE, ch |-> Nil, on |-> FALSE])
    /\ devices' = Append(devices, Newest + 1)
    /\ known' = SetEntry(known, p, Newest + 1)

\* Connect opens the devices the options name; one that cannot be opened is
\* left out.
AddDevice(p) ==
    /\ state = "channelIn" /\ ~over
    /\ p \in Explicit /\ ~Known(p) /\ plug[p] # Nil
    /\ NewDevice(p)
    /\ UNCHANGED <<portVars, state, pending, byChannel, monVars, netVars, reqVars, over>>

-----------------------------------------------------------------------------
(* The control channel: the first RIMCALL_RELEASE announces every device   *)
(* and starts the monitor, which takes what is plugged in by now for seen. *)

Announced == Len(devices)

Present == {p \in Matching : plug[p] # Nil}

ControlRelease ==
    /\ state = "channelIn" /\ ~over
    /\ state' = "channelOut"
    /\ pending' = pending \o devices
    /\ asks' = Announced
    /\ IF Matching = {} THEN UNCHANGED <<known, monVars>>
       ELSE /\ known' = [p \in DOMAIN known \cup Present |->
                             IF Known(p) THEN known[p] ELSE Nil]
            /\ monitorOn' = TRUE /\ mon' = Waiting
    /\ UNCHANGED <<portVars, dev, devices, byChannel, srv, flight, chan, reqVars, over>>

-----------------------------------------------------------------------------
(* The monitor, every two seconds: the scan and the opening of devices are *)
(* outside the lock.  A tick may still win over the cancelled context.     *)

Scan ==
    /\ mon.at = "wait"
    /\ mon' = [mon EXCEPT !.at = "scanned",
                          !.found = [p \in Ports |-> IF p \in Present THEN plug[p] ELSE Nil]]
    /\ UNCHANGED <<portVars, state, tables, monitorOn, netVars, reqVars, over>>

\* Devices whose port was empty in the scan.
\* Ports that are known and were empty in the scan, and what was known in them.
GonePorts_OnChannel ==
    {p \in DOMAIN known : mon.found[p] = Nil /\ (known[p] # Nil => dev[known[p]].on)}
GonePorts == {p \in DOMAIN known : mon.found[p] = Nil}
Gone == {known[p] : p \in GonePorts} \ {Nil}

\* s without the devices that are gone.
Without(s, gone) ==
    LET kept[n \in 0 .. Len(s)] == IF n = 0 THEN <<>>
                                   ELSE IF s[n] \in gone THEN kept[n - 1]
                                   ELSE Append(kept[n - 1], s[n])
    IN  kept[Len(s)]

StillPending_All(gone) == pending
StillPending(gone) == Without(pending, gone)

\* The channels removeDeviceLocked closes.
Closing(gone) == {dev[d].ch : d \in {e \in gone : dev[e].on}}

\* The first locked section of pollDevices.
Diff ==
    /\ mon.at = "scanned"
    /\ LET closing == Closing(Gone) IN
       /\ known' = Restrict(known, DOMAIN known \ GonePorts)
       /\ dev' = [d \in DOMAIN dev |-> IF d \in Gone THEN [dev[d] EXCEPT !.open = FALSE]
                                                     ELSE dev[d]]
       /\ devices' = Without(devices, Gone)
       /\ pending' = StillPending(Gone)
       /\ byChannel' = Restrict(byChannel, DOMAIN byChannel \ closing)
       /\ chan' = [c \in Chans |-> IF c \in closing THEN Nil ELSE chan[c]]
       /\ srv' = [c \in Chans |-> IF c \in closing /\ srv[c].inc = chan[c]
                                  THEN [srv[c] EXCEPT !.st = "none"] ELSE srv[c]]
    /\ mon' = [mon EXCEPT !.at = "open",
                          !.toAdd = {p \in Ports : mon.found[p] # Nil /\ ~Known(p)}]
    /\ UNCHANGED <<portVars, state, monitorOn, asks, flight, reqVars, over>>

\* It can be opened only while the device of the scan is in the port.
Open(p) ==
    /\ mon.at = "open" /\ mon.hand = NoPort /\ p \in mon.toAdd
    /\ \E h \in {NoPort} \cup (IF plug[p] = mon.found[p] THEN {p} ELSE {}) :
           mon' = [mon EXCEPT !.toAdd = @ \ {p}, !.hand = h]
    /\ UNCHANGED <<portVars, state, tables, monitorOn, netVars, reqVars, over>>

\* The second locked section; the port cannot have become known in between,
\* since the one monitor is the only goroutine that adds devices by now.
Register ==
    /\ mon.hand # NoPort
    /\ IF Known(mon.hand) THEN UNCHANGED <<tables, asks>>
       ELSE /\ NewDevice(mon.hand)
            /\ pending' = Append(pending, Newest + 1) /\ asks' = asks + 1
            /\ UNCHANGED byChannel
    /\ mon' = [mon EXCEPT !.hand = NoPort]
    /\ UNCHANGED <<portVars, state, monitorOn, srv, flight, chan, reqVars, over>>

PollEnds ==
    /\ mon.at = "open" /\ mon.toAdd = {} /\ mon.hand = NoPort
    /\ mon' = Waiting
    /\ UNCHANGED <<portVars, state, tables, monitorOn, netVars, reqVars, over>>

MonitorExits ==
    /\ mon.at = "wait" /\ ~monitorOn
    /\ mon' = [mon EXCEPT !.at = "off"]
    /\ UNCHANGED <<portVars, state, tables, monitorOn, netVars, reqVars, over>>

Monitor == Scan \/ Diff \/ (\E p \in Ports : Open(p)) \/ Register \/ PollEnds

-----------------------------------------------------------------------------
(* Device channels.  "open" stands for the creation of the channel, its    *)
(* capability exchange and RIMCALL_RELEASE.                                *)

Pdu(cmd, c, q) == [cmd |-> cmd, ch |-> c, inc |-> srv'[c].inc, req |-> q]
Room == Len(flight) < MaxFlight /\ ~over

ServerOpens(c) ==
    /\ Room /\ asks > 0 /\ srv[c].st = "none" /\ srv[c].inc < MaxIncs
    /\ asks' = asks - 1
    /\ srv' = [srv EXCEPT ![c] = [st |-> "opening", inc |-> @.inc + 1, dev |-> Nil]]
    /\ flight' = Append(flight, Pdu("open", c, Nil))
    /\ UNCHANGED <<portVars, state, tables, monVars, chan, reqVars, over>>

ServerCloses(c) ==
    /\ Room /\ srv[c].st = "open"
    /\ srv' = [srv EXCEPT ![c].st = "none"]
    /\ flight' = Append(flight, Pdu("close", c, Nil))
    /\ UNCHANGED <<portVars, state, tables, monVars, asks, chan, reqVars, over>>

\* A transfer that runs in a goroutine (bulk or interrupt) or one that the
\* receive loop carries out; those that ask for no completion are left out.
ServerRequests(c) ==
    /\ Room /\ srv[c].st = "open" /\ srv[c].dev # Nil /\ Len(reqs) < MaxReqs
    /\ \E bulk \in BOOLEAN :
           reqs' = Append(reqs, [dev |-> srv[c].dev, bulk |-> bulk, on |-> Nil, replies |-> 0])
    /\ UNCHANGED srv
    /\ flight' = Append(flight, Pdu("request", c, Len(reqs')))
    /\ UNCHANGED <<portVars, state, tables, monVars, asks, chan, loop, transfers, over>>

Receive(m, cmd) ==
    /\ loop = Nil /\ ~over
    /\ flight # <<>> /\ m = Head(flight) /\ m.cmd = cmd /\ flight' = Tail(flight)

\* RIMCALL_RELEASE on a device channel, and ADD_DEVICE.
AssignChannel_KeepsOld(c, d) ==
    IF c \in DOMAIN byChannel THEN byChannel ELSE SetEntry(byChannel, c, d)
AssignChannel(c, d) == SetEntry(byChannel, c, d)

ReceiveOpen(m) ==
    /\ Receive(m, "open")
    /\ chan' = [chan EXCEPT ![m.ch] = m.inc]
    /\ IF pending = <<>>
       THEN /\ srv' = [srv EXCEPT ![m.ch].st = "open"]
            /\ UNCHANGED <<dev, pending, byChannel>>
       ELSE LET d == Head(pending) IN
            /\ pending' = Tail(pending)
            /\ dev' = [dev EXCEPT ![d] = [@ EXCEPT !.ch = m.ch, !.on = TRUE]]
            /\ byChannel' = AssignChannel(m.ch, d)
            /\ srv' = [srv EXCEPT ![m.ch] = [@ EXCEPT !.st = "open", !.dev = d]]
    /\ UNCHANGED <<portVars, state, devices, known, monVars, asks, reqVars, over>>

\* handleClose of dvc, and OnChannelClose: the entry in byChannel stays.
ReceiveClose(m) ==
    /\ Receive(m, "close")
    /\ chan' = [chan EXCEPT ![m.ch] = Nil]
    /\ dev' = IF chan[m.ch] # Nil /\ m.ch \in DOMAIN byChannel
              THEN [dev EXCEPT ![byChannel[m.ch]].on = FALSE] ELSE dev
    /\ UNCHANGED <<portVars, state, devices, known, pending, byChannel, monVars,
                   asks, srv, reqVars, over>>

\* Data for a channel that is closed by now.
ReceiveStray(m) ==
    /\ Receive(m, "request") /\ (chan[m.ch] = Nil \/ m.ch \notin DOMAIN byChannel)
    /\ UNCHANGED <<portVars, state, tables, monVars, asks, srv, chan, reqVars, over>>

Taken(m) ==
    /\ Receive(m, "request") /\ chan[m.ch] # Nil /\ m.ch \in DOMAIN byChannel
    /\ UNCHANGED <<portVars, state, tables, monVars, asks, srv, chan, over>>

On(m) == [reqs EXCEPT ![m.req].on = byChannel[m.ch]]
Replied(rs, q) == [rs EXCEPT ![q].replies = @ + 1]

ReceiveSync(m) ==
    /\ Taken(m) /\ ~reqs[m.req].bulk
    /\ reqs' = On(m) /\ loop' = m.req /\ UNCHANGED transfers

SyncEnds ==
    /\ loop # Nil
    /\ reqs' = Replied(reqs, loop) /\ loop' = Nil
    /\ UNCHANGED <<portVars, state, tables, monVars, netVars, transfers, over>>

\* With the semaphore taken the request is rejected at once.
SemFree == Cardinality(transfers) < SemCap

ReceiveBulk(m) ==
    /\ Taken(m) /\ reqs[m.req].bulk /\ UNCHANGED loop
    /\ IF SemFree
       THEN reqs' = On(m) /\ transfers' = transfers \cup {m.req}
       ELSE reqs' = Replied(On(m), m.req) /\ UNCHANGED transfers

TransferEnds(q) ==
    /\ q \in transfers
    /\ reqs' = Replied(reqs, q) /\ transfers' = transfers \ {q}
    /\ UNCHANGED <<portVars, state, tables, monVars, netVars, loop, over>>

\* StopMonitor, then every device in the list.
Close ==
    /\ ~over /\ over' = TRUE
    /\ monitorOn' = FALSE
    /\ dev' = [d \in DOMAIN dev |-> IF d \in Range(devices) THEN [dev[d] EXCEPT !.open = FALSE]
                                                     ELSE dev[d]]
    /\ UNCHANGED <<portVars, state, devices, known, pending, byChannel, mon, netVars, reqVars>>

Next ==
    \/ \E p \in Ports : PlugIn(p) \/ Unplug(p) \/ AddDevice(p) \/ Open(p)
    \/ ControlRelease \/ Scan \/ Diff \/ Register \/ PollEnds \/ MonitorExits
    \/ \E c \in Chans : ServerOpens(c) \/ ServerCloses(c) \/ ServerRequests(c)
    \/ \E m \in {flight[i] : i \in DOMAIN flight \cap {1}} :
           \/ ReceiveOpen(m) \/ ReceiveClose(m) \/ ReceiveStray(m)
           \/ ReceiveSync(m) \/ ReceiveBulk(m)
    \/ SyncEnds \/ Close
    \/ \E q \in 1 .. MaxReqs : TransferEnds(q)

Spec == Init /\ [][Next]_usbVars

\* The ticker of the monitor.
FairSpec == Spec /\ WF_usbVars(Monitor)

-----------------------------------------------------------------------------
(* Properties.                                                             *)

\* The types of the handler's tables and of the server's view.
TypeOK ==
    /\ state \in {"channelIn", "channelOut"} /\ monitorOn \in BOOLEAN /\ over \in BOOLEAN
    /\ DOMAIN known \subseteq Ports /\ DOMAIN byChannel \subseteq Chans
    /\ Range(devices) \subseteq DOMAIN dev /\ Range(pending) \subseteq DOMAIN dev
    /\ mon.at \in {"off", "wait", "scanned", "open"} /\ mon.hand \in Ports \cup {NoPort}
    /\ asks \in Nat /\ transfers \subseteq DOMAIN reqs
    /\ loop \in {Nil} \cup DOMAIN reqs
    /\ \A c \in Chans : srv[c].st \in {"none", "opening", "open"}
    \* the semaphore bounds the goroutines (transfer.go:500)
    /\ Cardinality(transfers) <= SemCap

\* The tables of the handler agree while devices come and go, the server opens
\* and closes channels, and the monitor polls: a device is open as long as it
\* is listed and known, waits for a channel at most once, and never waits while
\* it has one.
TablesAgree ==
    /\ Range(devices) = Range(known) \ {Nil}
    /\ ~over => Range(devices) = {d \in DOMAIN dev : dev[d].open}
    /\ Range(pending) \subseteq Range(devices) /\ IsInjective(pending)
    /\ \A d \in Range(pending) : dev[d].ch = Nil

\* The server has no open channel to a device that is closed: it hears of the
\* removal, whatever it was doing with the channel.
NoGhosts ==
    ~over => \A c \in Chans :
                 srv[c].st = "open" /\ srv[c].dev # Nil => dev[srv[c].dev].open

\* Channels are matched with devices by order only; yet each device that waits
\* has a channel that the server was asked for or has begun to open.
NobodyStranded ==
    Len(pending) <= asks + Cardinality({i \in DOMAIN flight : flight[i].cmd = "open"})

\* A request runs on the device the server was told of when it sent it,
\* although the lookup goes by an ID that may have been used before.
RunsOnTold == \A q \in DOMAIN reqs : reqs[q].on \in {Nil, reqs[q].dev}

\* Every request that found its device is completed once, at the limit of the
\* semaphore and after the device is gone too.
CompletedOnce ==
    \A q \in DOMAIN reqs :
        reqs[q].replies = IF reqs[q].on = Nil \/ q = loop \/ q \in transfers THEN 0 ELSE 1

\* A device that an option names stays redirected while it is in its port, as
\* README.md:605 promises ("Redirect USB device by bus number and address").
ExplicitStays ==
    ~over => \A d \in DOMAIN dev :
                 dev[d].port \in Explicit /\ plug[dev[d].port] = 1 => dev[d].open

\* A device that is unplugged is closed, in whatever state it was, unless
\* another one takes the port before the next scan.
UnpluggedReleased ==
    \A p \in Ports :
        (Known(p) /\ plug[p] = Nil /\ monitorOn) ~> (~Known(p) \/ plug[p] # Nil \/ ~monitorOn)

\* Devices, tables, channels and the server's view of them stay in step while devices
\* come and go, and the transfers stay within the semaphore.
TablesFaithful == TypeOK /\ TablesAgree /\ NoGhosts /\ NobodyStranded

\* The server's requests are carried out once each, on the device they were meant for.
RequestsOnce == RunsOnTold /\ CompletedOnce
=============================================================================
