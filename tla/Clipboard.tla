------------------------------ MODULE Clipboard ------------------------------
(***************************************************************************)
(* Clipboard redirection (protocol/cliprdr/cliprdr.go) and what the two    *)
(* viewers do with it (display/gui/gui.go, display/web/dispatcher.go).     *)
(* The receive loop runs the handlers and, inside them, the callbacks of   *)
(* the viewer; the viewer's own goroutine sets the local clipboard and     *)
(* switches the redirection off and on.  They share the Handler without a  *)
(* lock.  A content is the number of its copy; PDUs keep their order in    *)
(* either direction (VirtualChannels).                                     *)
(***************************************************************************)
EXTENDS Naturals, Sequences, FiniteSets

CONSTANTS
    MaxCopies,   \* bound: copies on either side
    MaxToggles,  \* bound: calls of SetEnabled
    MaxAsks,     \* bound: data requests of the server
    MaxFlight    \* bound: PDUs on the way to the client

VARIABLES
    srvLong,                       \* the server announces long format names
    capsSent,                      \* what the server has sent: the handshake
    capsSeen,                      \* client caps have reached the server
    srvClip,                       \* the server's clipboard: copy and formats
    srvList,                       \* the last list the server read
    srvAsked,                      \* the request the server waits for
    answer,                        \* the last answer it got; n is 0 for a refusal
    toClient,                      \* PDUs on the way to the client
    serverCaps, useLongFormatNames, ready, enabled,
    localText, localImage, pendingFormat,      \* fields of Handler
    loop,                          \* the rest of the handler that runs
    viewer,                        \* the call the viewer is in
    copies, toggles, asks,         \* for the bounds
    delivered,                     \* the last callback with data
    outstanding,                   \* requests the server has not answered
    crossing,                      \* more than one request is under way
    early                          \* a list was begun before the handshake ended

serverVars == <<srvLong, capsSent, capsSeen, srvClip, srvList, srvAsked, answer>>
fields == <<serverCaps, useLongFormatNames, ready, enabled, localText, localImage,
            pendingFormat>>
history == <<delivered, outstanding, crossing, early>>
bounds == <<copies, toggles, asks>>
vars == <<serverVars, toClient, fields, loop, viewer, bounds, history>>

Formats == {"text", "image"}
None == "none"
Unread == [readable |-> TRUE, text |-> 0, image |-> 0, n |-> 0]

Init ==
    /\ srvLong \in BOOLEAN
    /\ capsSent = "nothing" /\ capsSeen = FALSE
    /\ srvClip = [n |-> 0, formats |-> {}] /\ srvList = Unread
    /\ srvAsked = None /\ answer = [on |-> FALSE, n |-> 0, least |-> 0]
    /\ toClient = <<>>
    /\ serverCaps = FALSE /\ useLongFormatNames = FALSE
    /\ ready = FALSE /\ enabled = TRUE
    /\ localText = 0 /\ localImage = 0 /\ pendingFormat = None
    /\ loop = <<>> /\ viewer = [at |-> "idle"]
    /\ copies = 0 /\ toggles = 0 /\ asks = 0
    /\ delivered = [as |-> None, format |-> None, crossed |-> FALSE]
    /\ outstanding = <<>> /\ crossing = FALSE /\ early = FALSE

-----------------------------------------------------------------------------
(* The server: caps, monitor ready, then format lists, requests, answers.  *)

Send(m) == Len(toClient) < MaxFlight /\ toClient' = Append(toClient, m)

ServerCaps ==
    /\ capsSent = "nothing" /\ capsSent' = "caps"
    /\ Send([cmd |-> "caps", long |-> srvLong])
    /\ UNCHANGED <<srvLong, capsSeen, srvClip, srvList, srvAsked, answer, fields, loop,
                   viewer, bounds, history>>

ServerReady ==
    /\ capsSent = "caps" /\ capsSent' = "ready"
    /\ Send([cmd |-> "ready"])
    /\ UNCHANGED <<srvLong, capsSeen, srvClip, srvList, srvAsked, answer, fields, loop,
                   viewer, bounds, history>>

ServerCopies ==
    /\ capsSeen /\ copies < MaxCopies /\ copies' = copies + 1
    /\ \E fs \in (SUBSET Formats) \ {{}} :
           /\ srvClip' = [n |-> copies', formats |-> fs]
           /\ Send([cmd |-> "list", formats |-> fs])
    /\ UNCHANGED <<srvLong, capsSent, capsSeen, srvList, srvAsked, answer, fields, loop,
                   viewer, toggles, asks, history>>

\* The first request of the client that waits is answered with what is on the
\* server's clipboard by now, or refused.
ServerAnswers ==
    /\ outstanding # <<>>
    /\ LET f == Head(outstanding) IN
       Send([cmd |-> "response", format |-> f, ok |-> f \in srvClip.formats])
    /\ outstanding' = Tail(outstanding)
    /\ UNCHANGED <<serverVars, fields, loop, viewer, bounds, delivered, crossing, early>>

\* A user pastes: the server asks for what the last list announces.
ServerAsks ==
    /\ srvAsked = None /\ srvList.n > 0 /\ srvList.readable /\ asks < MaxAsks
    /\ asks' = asks + 1
    /\ \E f \in Formats : srvAsked' = f /\ Send([cmd |-> "request", format |-> f,
                                                 least |-> srvList[f]])
    /\ UNCHANGED <<srvLong, capsSent, capsSeen, srvClip, srvList, answer, fields, loop,
                   viewer, copies, toggles, history>>

-----------------------------------------------------------------------------
(* What the client sends reaches the server in the step that sends it.     *)

\* Encoded by one form and read by the other a list is taken for nonsense.
FormatList(long) ==
    [long |-> long, text |-> localText, image |-> localImage]

ListArrives(l) ==
    srvList' = [readable |-> l.long = (srvLong /\ capsSeen), n |-> srvList.n + 1,
                text |-> l.text, image |-> l.image]

\* Requests sent and not seen answered.
UnderWay == Len(outstanding) + Cardinality({i \in DOMAIN toClient : toClient[i].cmd = "response"})

Requested(fs) ==
    /\ outstanding' = outstanding \o fs
    /\ crossing' = (crossing \/ UnderWay + Len(fs) > 1)

-----------------------------------------------------------------------------
(* ProcessPDU in the receive loop.                                         *)

Receive(cmd) ==
    /\ loop = <<>> /\ toClient # <<>> /\ Head(toClient).cmd = cmd
    /\ toClient' = Tail(toClient)
m == Head(toClient)

HandleCaps ==
    /\ Receive("caps") /\ serverCaps' = m.long
    /\ UNCHANGED <<serverVars, useLongFormatNames, ready, enabled, localText, localImage,
                   pendingFormat, loop, viewer, bounds, history>>

\* handleMonitorReady sets its fields, then sends the capabilities, then the list.
HandshakeSends == <<"caps", "list">>

HandleMonitorReady ==
    /\ Receive("ready")
    /\ ready' = TRUE /\ useLongFormatNames' = (useLongFormatNames \/ serverCaps)
    /\ loop' = HandshakeSends
    /\ UNCHANGED <<serverVars, serverCaps, enabled, localText, localImage,
                   pendingFormat, viewer, bounds, history>>

SendCaps ==
    /\ loop # <<>> /\ Head(loop) = "caps" /\ loop' = Tail(loop)
    /\ capsSeen' = TRUE
    /\ UNCHANGED <<srvLong, capsSent, srvClip, srvList, srvAsked, answer, toClient,
                   fields, viewer, bounds, history>>

SendFormatList ==
    /\ loop # <<>> /\ Head(loop) = "list" /\ loop' = Tail(loop)
    /\ ListArrives(FormatList(useLongFormatNames))
    /\ UNCHANGED <<srvLong, capsSent, capsSeen, srvClip, srvAsked, answer, toClient,
                   fields, viewer, bounds, history>>

\* The list is acknowledged; the callback of an enabled handler requests what
\* the viewers want, which is each format there is, text first.
Wanted(fs) == (IF "text" \in fs THEN <<"text">> ELSE <<>>)
                 \o (IF "image" \in fs THEN <<"image">> ELSE <<>>)

HandleFormatList ==
    /\ Receive("list")
    /\ IF enabled THEN /\ Requested(Wanted(m.formats))
                       /\ pendingFormat' = Wanted(m.formats)[Len(Wanted(m.formats))]
                  ELSE UNCHANGED <<outstanding, crossing, pendingFormat>>
    /\ UNCHANGED <<serverVars, serverCaps, useLongFormatNames, ready, enabled, localText,
                   localImage, loop, viewer, bounds, delivered, early>>

\* handleFormatDataRequest decides what to answer with the fields it sees.
Local(f) == IF f = "text" THEN localText ELSE localImage

HandleDataRequest ==
    /\ Receive("request")
    /\ answer' = [on |-> enabled, n |-> IF enabled THEN Local(m.format) ELSE 0,
                  least |-> m.least]
    /\ srvAsked' = None
    /\ UNCHANGED <<srvLong, capsSent, capsSeen, srvClip, srvList, fields, loop, viewer,
                   bounds, history>>

\* An answer is read as the format that was requested last, and as text when
\* none is pending; text that is read as an image does not decode.
ReadAs == IF pendingFormat = "image" THEN "image" ELSE "text"

HandleDataResponse ==
    /\ Receive("response")
    /\ pendingFormat' = None
    /\ delivered' = IF m.ok /\ enabled /\ (ReadAs = "image" => m.format = "image")
                    THEN [as |-> ReadAs, format |-> m.format, crossed |-> crossing]
                    ELSE delivered
    /\ crossing' = (crossing /\ UnderWay > 1)
    /\ UNCHANGED <<serverVars, serverCaps, useLongFormatNames, ready, enabled, localText,
                   localImage, loop, viewer, bounds, outstanding, early>>

-----------------------------------------------------------------------------
(* The viewer's goroutine.                                                 *)

Set_AlwaysText(f, n) == localText' = n /\ UNCHANGED localImage
Set(f, n) == /\ localText' = IF f = "text" THEN n ELSE localText
             /\ localImage' = IF f = "image" THEN n ELSE localImage

\* SetLocalClipboard and SetLocalImage: the field, the encoded list, the send.
SetLocal(f) ==
    /\ viewer.at = "idle" /\ copies < MaxCopies /\ copies' = copies + 1
    /\ enabled
    /\ Set(f, copies')
    /\ viewer' = [at |-> "send", list |-> [FormatList(useLongFormatNames) EXCEPT ![f] = copies'],
                  format |-> f]
    /\ early' = (early \/ ~ready \/ loop # <<>>)
    /\ UNCHANGED <<serverVars, toClient, serverCaps, useLongFormatNames, ready, enabled,
                   pendingFormat, loop, toggles, asks, delivered, outstanding, crossing>>

\* SetEnabled: a handler that was off announces its formats again.
SetEnabled ==
    /\ viewer.at = "idle" /\ toggles < MaxToggles /\ toggles' = toggles + 1
    /\ enabled' = ~enabled
    /\ viewer' = IF enabled' THEN [at |-> "reannounce"] ELSE viewer
    /\ UNCHANGED <<serverVars, toClient, serverCaps, useLongFormatNames, ready, localText,
                   localImage, pendingFormat, loop, copies, asks, history>>

Reannounce ==
    /\ viewer.at = "reannounce"
    /\ viewer' = IF ready THEN [at |-> "send", list |-> FormatList(useLongFormatNames),
                                format |-> None]
                 ELSE [at |-> "idle"]
    /\ early' = (early \/ (ready /\ loop # <<>>))
    /\ UNCHANGED <<serverVars, toClient, fields, loop, bounds, delivered, outstanding, crossing>>

ViewerSends ==
    /\ viewer.at = "send"
    /\ ListArrives(viewer.list) /\ viewer' = [at |-> "idle"]
    /\ UNCHANGED <<srvLong, capsSent, capsSeen, srvClip, srvAsked, answer, toClient,
                   fields, loop, bounds, history>>

Next ==
    \/ ServerCaps \/ ServerReady \/ ServerCopies \/ ServerAnswers \/ ServerAsks
    \/ HandleCaps \/ HandleMonitorReady \/ SendCaps \/ SendFormatList
    \/ HandleFormatList \/ HandleDataRequest \/ HandleDataResponse
    \/ (\E f \in Formats : SetLocal(f)) \/ SetEnabled \/ Reannounce \/ ViewerSends

Spec == Init /\ [][Next]_vars

-----------------------------------------------------------------------------
(* Properties.                                                             *)

Quiet == toClient = <<>> /\ loop = <<>> /\ viewer.at = "idle"

\* Once the handshake is over and nothing is on its way, the server has read the
\* last list in the form it was written in (a list that a viewer has begun to
\* send during the handshake can be in the other form: cliprdr.go:479).
ListsReadable == Quiet /\ ready /\ ~early => srvList.n > 0 /\ srvList.readable

\* An enabled handler answers with nothing older than what the list that the
\* server had read announced when it asked (0 is a refusal), although the field, the list and the request are
\* handled by two goroutines without a lock.
PasteIsCurrent == answer.on => answer.n >= answer.least

\* Every request of the server is answered, whatever the handler was switched to
\* meanwhile and whether or not there is something to paste.
AskedIsAnswered == Quiet => srvAsked = None

\* A callback gets the format it is for, unless requests were under way together:
\* one slot then stands for all of them.
MisreadOnlyCrossed ==
    delivered.as = delivered.format \/ delivered.crossed

\* client.go:5309 says that OnClipboardText is called "when clipboard text data
\* arrives from the server (in response to RequestClipboard)".
TextIsText == delivered.as = "text" => delivered.format = "text"

\* Both ends of the clipboard mean the same: the lists can be read, a paste gives what
\* was copied, every request is answered, and an answer read as another format is one of
\* two requests that crossed.
ClipboardFaithful ==
    ListsReadable /\ PasteIsCurrent /\ AskedIsAnswered /\ MisreadOnlyCrossed
=============================================================================
