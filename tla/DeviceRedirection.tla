--------------------------- MODULE DeviceRedirection ---------------------------
\* The device redirection channel itself (protocol/rdpdr/rdpdr.go) with the devices
\* that work on the receive loop: the printer (printer.go), whose jobs are kept in
\* memory until they are closed, and the parallel port, whose reads block.
EXTENDS Naturals, Sequences, FiniteSets, Functions

CONSTANTS Printers,       \* printers shown to the server
          Chunks,         \* pieces of a print job
          MaxPrintJobs,   \* maxPrintJobs, 256 in the code
          MaxCreates, MaxChunks, MaxInbox, MaxHandshakes    \* bounds

VARIABLES use,            \* bound: what the server does in this behaviour
          inbox,          \* the channel, from the server
          gotServerCap, gotIDConfirm,     \* of Handler
          handshakes,     \* announcements of the server so far
          heard,          \* what of this handshake was handled
          sent,           \* what the client sent in this handshake
          repeated,       \* something of the handshake was sent twice or too soon
          loop,           \* the receive loop: <<>> or the request it is blocked in
          jobs, nextID,   \* PrinterDevice.jobs and nextID, of the first printer
          wrote,          \* by job, what the server was told is written
          printed,        \* the documents handed over, in order
          owed,           \* completion ids the server waits for
          stray,          \* a completion came that the server does not wait for
          cachedConfig,   \* by printer, the printer its stored configuration is of
          added           \* the server sent an add event of the printer cache

vars == <<use, inbox, gotServerCap, gotIDConfirm, handshakes, heard, sent, repeated, loop,
          jobs, nextID, wrote, printed, owed, stray, cachedConfig, added>>
handshakeVars == <<gotServerCap, gotIDConfirm, heard, sent, repeated>>
jobVars == <<jobs, nextID, wrote, printed>>
cacheVars == <<cachedConfig, added>>

Cids == 1..MaxInbox + 1
Init ==
    /\ use \in {"print", "port", "cache"}
    /\ inbox = <<>> /\ gotServerCap = FALSE /\ gotIDConfirm = FALSE
    /\ handshakes = 0 /\ heard = {} /\ sent = {} /\ repeated = {}
    /\ loop = <<>> /\ jobs = <<>> /\ nextID = 0 /\ wrote = <<>> /\ printed = <<>>
    /\ owed = {} /\ stray = FALSE
    /\ cachedConfig = [p \in Printers |-> {}] /\ added = FALSE

\* external: the server announces itself, again when another user takes the session over;
\* it sends its capabilities and the confirmation in either order once the client named
\* itself, and tells the logon when it has the client's capabilities.
Posts(m) == Len(inbox) < MaxInbox /\ inbox' = Append(inbox, m)
Unposted(t) == ~\E i \in DOMAIN inbox : inbox[i].t = t
ServerAnnounces ==
    /\ handshakes < MaxHandshakes /\ handshakes' = handshakes + 1
    /\ inbox = <<>> /\ loop = <<>> /\ owed = {}
    /\ handshakes > 0 => "late" \in sent
    /\ Posts([t |-> "announce"]) /\ heard' = {} /\ sent' = {}
    /\ UNCHANGED <<gotServerCap, gotIDConfirm, repeated, loop, jobVars, owed, stray, cacheVars>>
ServerProceeds(t) ==
    /\ t \notin heard /\ Unposted(t) /\ Posts([t |-> t])
    /\ IF t = "logon" THEN {"caps", "early"} \subseteq sent /\ {"caps", "confirm"} \subseteq heard
       ELSE "name" \in sent
    /\ UNCHANGED <<handshakes, handshakeVars, loop, jobVars, owed, stray, cacheVars>>

\* external: after the logon it asks the devices, prints, and keeps the settings of a
\* printer with the client.
NextCid == CHOOSE c \in Cids \ owed : \A d \in Cids \ owed : c <= d
Asks(m) ==
    /\ "late" \in sent /\ Cids \ owed # {} /\ Posts(m) /\ owed' = owed \cup {m.cid}
    /\ UNCHANGED <<handshakes, handshakeVars, loop, jobVars, stray, cacheVars>>
Written == Cardinality(UNION {{j} \X DOMAIN wrote[j] : j \in DOMAIN wrote})
ServerAsks ==
    \/ /\ use = "print"
       /\ \/ /\ nextID < MaxCreates /\ Unposted("create")
             /\ Asks([t |-> "create", cid |-> NextCid])
          \/ \E j \in DOMAIN wrote, c \in Chunks :
                 /\ Written < MaxChunks
                 /\ Asks([t |-> "write", job |-> j, data |-> c, cid |-> NextCid])
          \/ \E j \in DOMAIN wrote : Asks([t |-> "close", job |-> j, cid |-> NextCid])
    \/ use = "port" /\ \E t \in {"read", "unknown"} : Asks([t |-> t, cid |-> NextCid])
ServerCaches ==
    /\ use = "cache" /\ "late" \in sent
    /\ \E p \in Printers, t \in {"add", "update"} : Posts([t |-> t, of |-> p])
    /\ UNCHANGED <<handshakes, handshakeVars, loop, jobVars, owed, stray, cacheVars>>

Sends(msgs) ==
    /\ sent' = sent \cup msgs
    /\ repeated' = repeated \cup {<<handshakes, m>> : m \in sent \cap msgs}

\* handleServerAnnounce, sendClientName
HandleServerAnnounce == Sends({"reply", "name"}) /\ UNCHANGED <<gotServerCap, gotIDConfirm>>

\* trySendCapAndDeviceList, sendCoreCapResponse: the smart cards at once.
BothCame == gotServerCap' /\ gotIDConfirm'
TrySendCapAndDeviceList == Sends(IF BothCame THEN {"caps", "early"} ELSE {})
HandleServerCoreCap == gotServerCap' = TRUE /\ UNCHANGED gotIDConfirm /\ TrySendCapAndDeviceList
HandleClientIDConfirm == gotIDConfirm' = TRUE /\ UNCHANGED gotServerCap /\ TrySendCapAndDeviceList

\* handleUserLoggedOn: the other devices.
HandleUserLoggedOn == Sends({"late"}) /\ UNCHANGED <<gotServerCap, gotIDConfirm>>

Completed(cid) == owed' = owed \ {cid} /\ stray' = (stray \/ cid \notin owed)

\* PrinterDevice.handleCreate, handleWrite and handleClose
WithJob(f) == [j \in DOMAIN f \cup {nextID} |-> IF j = nextID THEN <<>> ELSE f[j]]
HandleCreate(m) ==
    /\ Completed(m.cid) /\ UNCHANGED <<printed, loop>>
    /\ IF Cardinality(DOMAIN jobs) >= MaxPrintJobs THEN UNCHANGED <<jobs, nextID, wrote>>
       ELSE jobs' = WithJob(jobs) /\ wrote' = WithJob(wrote) /\ nextID' = nextID + 1
Appended(m) == [jobs EXCEPT ![m.job] = Append(@, m.data)]
HandleWrite(m) ==
    /\ Completed(m.cid) /\ UNCHANGED <<nextID, printed, loop>>
    /\ IF m.job \in DOMAIN jobs
       THEN jobs' = Appended(m) /\ wrote' = [wrote EXCEPT ![m.job] = Append(@, m.data)]
       ELSE UNCHANGED <<jobs, wrote>>
Remaining_All(j) == jobs
Remaining(j) == Restrict(jobs, DOMAIN jobs \ {j})

\* The receive loop waits with the request.
Waits(m) == loop' = <<m>> /\ UNCHANGED <<owed, stray>>

\* A job with something in it is saved, or submitted to a network printer (submitIPP)
\* while the receive loop waits.
HandleClose(m) ==
    /\ jobs' = Remaining(m.job) /\ UNCHANGED <<nextID, wrote>>
    /\ IF m.job \in DOMAIN jobs /\ jobs[m.job] # <<>>
       THEN /\ printed' = Append(printed, [job |-> m.job, data |-> jobs[m.job]])
            /\ \/ Completed(m.cid) /\ UNCHANGED loop
               \/ Waits(m)
       ELSE Completed(m.cid) /\ UNCHANGED <<printed, loop>>

\* ParallelDevice.handleRead waits in the receive loop.
HandleRead(m) == Waits(m) /\ UNCHANGED jobVars

\* handlePrnCacheAdd stores the data with the first printer of the map, whatever the
\* name: its test of the port is of eight bytes and always true.  handlePrnCacheUpdate
\* goes by the name.
HandlePrnCacheAdd(m) ==
    /\ \E p \in Printers : cachedConfig' = [cachedConfig EXCEPT ![p] = {m.of}]
    /\ added' = TRUE
Named(p, m) == p = m.of
HandlePrnCacheUpdate(m) ==
    /\ \E p \in Printers : Named(p, m) /\ cachedConfig' = [cachedConfig EXCEPT ![p] = {m.of}]
    /\ UNCHANGED added

\* ProcessPDU, handleIORequest
Handshake(m) ==
    /\ m.t \in {"announce", "caps", "confirm", "logon"} /\ heard' = heard \cup {m.t}
    /\ CASE m.t = "announce" -> HandleServerAnnounce
         [] m.t = "caps" -> HandleServerCoreCap
         [] m.t = "confirm" -> HandleClientIDConfirm
         [] OTHER -> HandleUserLoggedOn
    /\ UNCHANGED <<loop, jobVars, owed, stray, cacheVars>>
Request(m) ==
    /\ \/ m.t = "create" /\ HandleCreate(m)
       \/ m.t = "write" /\ HandleWrite(m)
       \/ m.t = "close" /\ HandleClose(m)
       \/ m.t = "read" /\ HandleRead(m)
       \/ m.t = "unknown" /\ Completed(m.cid) /\ UNCHANGED <<loop, jobVars>>
    /\ UNCHANGED <<handshakeVars, cacheVars>>
Cache(m) ==
    /\ \/ m.t = "add" /\ HandlePrnCacheAdd(m)
       \/ m.t = "update" /\ HandlePrnCacheUpdate(m)
    /\ UNCHANGED <<handshakeVars, loop, jobVars, owed, stray>>
ProcessPDU ==
    /\ inbox # <<>> /\ loop = <<>> /\ inbox' = Tail(inbox)
    /\ Handshake(Head(inbox)) \/ Request(Head(inbox)) \/ Cache(Head(inbox))
    /\ UNCHANGED handshakes

\* external: the network printer answers, or the parallel port has data.
Returns ==
    /\ loop # <<>> /\ loop' = <<>> /\ Completed(loop[1].cid)
    /\ UNCHANGED <<inbox, handshakes, handshakeVars, jobVars, cacheVars>>

Next ==
    /\ UNCHANGED use
    /\ \/ ServerAnnounces \/ (\E t \in {"caps", "confirm", "logon"} : ServerProceeds(t))
       \/ ServerAsks \/ ServerCaches \/ ProcessPDU \/ Returns

Spec == Init /\ [][Next]_vars

\* In the first handshake the capabilities and each device are sent once, and not before
\* both messages they answer, in whatever order these came.
FirstHandshakeOnce ==
    /\ \A r \in repeated : r[1] > 1
    /\ handshakes = 1 /\ sent \cap {"caps", "early", "late"} # {} => {"caps", "confirm"} \subseteq heard

\* What the handlers say of themselves: the client's answer waits for both messages.
AnswersBoth == sent \cap {"caps", "early"} # {} => {"caps", "confirm"} \subseteq heard

\* A document is handed over once, and is what the server was told is written.
PrintedWhole ==
    /\ \A i \in DOMAIN printed : printed[i].data = wrote[printed[i].job]
    /\ \A i, k \in DOMAIN printed : printed[i].job = printed[k].job => i = k
    /\ \A j \in DOMAIN jobs : jobs[j] = wrote[j]

\* Each request is answered once: what is owed is queued, or holds the receive loop.
AnsweredOnce ==
    /\ ~stray
    /\ owed = {inbox[i].cid : i \in {k \in DOMAIN inbox : "cid" \in DOMAIN inbox[k]}}
              \cup {loop[i].cid : i \in DOMAIN loop}

\* A printer keeps the settings of another one only when an add event misplaced them.
MisplacedByAdd == ~added => \A p \in Printers : cachedConfig[p] \subseteq {p}

\* What handlePrnCacheAdd says of itself: the settings go to the matching printer.
SettingsMatch == \A p \in Printers : cachedConfig[p] \subseteq {p}

\* The server's devices and print jobs are what it was told of, through two handshakes.
RedirectionFaithful ==
    FirstHandshakeOnce /\ PrintedWhole /\ AnsweredOnce /\ MisplacedByAdd
================================================================================
