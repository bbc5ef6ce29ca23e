------------------------------- MODULE SerialPort -------------------------------
\* A redirected serial port (protocol/rdpdr/serial.go and serial_unix.go): the one
\* descriptor all handles of the server share, the settings the requests read and
\* write in the terminal, and the reads, each blocked in a goroutine of its own.
\* protocol/rdpdr/parallel_unix.go opens and closes in the same way.
EXTENDS Integers, FiniteSets

CONSTANTS Fds,          \* descriptor numbers of this process
          Readers,      \* bound: reads at a time
          Bauds, Lines, Flows, Timeouts,   \* values the server sets
          MaxEpochs     \* bound: connections of the session

VARIABLES fd,           \* SerialDevice.fd, 0 when closed
          open,         \* descriptor -> "port", "other" (a file of a disk, a socket), "free"
          term,         \* the terminal: speed, line, flow control
          timeouts,     \* SerialDevice.timeouts, the settings only stored
          asked,        \* what the server set since the last reset
          reads,        \* the goroutines of handleRead
          misread,      \* a read took data of another file, and whether the port was
                        \* closed after the server asked
          epoch

vars == <<fd, open, term, timeouts, asked, reads, misread, epoch>>

Unset == [baud |-> {}, line |-> {}, flow |-> {}, timeouts |-> {}]
Free == {n \in Fds : open[n] = "free"}
Lowest == CHOOSE n \in Free : \A m \in Free : n <= m
Zero == CHOOSE t \in Timeouts : \A u \in Timeouts : t <= u

\* The terminal has a speed, stop bits, parity and word length, and four flags of flow
\* control: ctsrts, hupcl, ixon and ixoff.
Init ==
    /\ fd = 0 /\ open = [n \in Fds |-> "free"]
    /\ term = [baud |-> 9600, stop |-> 1, parity |-> "none", bits |-> 8, flow |-> {}]
    /\ timeouts = Zero /\ asked = Unset /\ reads = <<>>
    /\ misread = {} /\ epoch = 1

\* resetTermios: CSTOPB, CRTSCTS, HUPCL and IXOFF stay as they are.
Raw(t) == [t EXCEPT !.baud = 9600, !.parity = "none", !.bits = 8, !.flow = @ \ {"ixon"}]

\* handleCreate: the server's second handle is the first one.
AlreadyOpen == fd # 0
HandleCreate ==
    /\ IF AlreadyOpen THEN UNCHANGED <<fd, open, term, asked>>
       ELSE /\ Free # {}
            /\ fd' = Lowest /\ open' = [open EXCEPT ![Lowest] = "port"]
            /\ term' = Raw(term) /\ asked' = [Unset EXCEPT !.timeouts = asked.timeouts]
    /\ UNCHANGED <<timeouts, reads, misread, epoch>>

\* handleClose: also ends the server's other handles; a read under way goes on.
AfterClose_Stale == fd
AfterClose == 0
HandleClose ==
    /\ fd' = AfterClose /\ open' = IF fd = 0 THEN open ELSE [open EXCEPT ![fd] = "free"]
    /\ reads' = [r \in DOMAIN reads |-> [reads[r] EXCEPT !.closed = @ \/ fd # 0]]
    /\ UNCHANGED <<term, timeouts, asked, misread, epoch>>

\* handleRead copies the descriptor and starts a goroutine; the system call looks the
\* number up when the goroutine gets there, and then stays with that file.
HandleRead ==
    /\ fd # 0 /\ Readers \ DOMAIN reads # {}
    /\ LET r == CHOOSE r \in Readers : r \notin DOMAIN reads
       IN reads' = [x \in DOMAIN reads \cup {r} |-> IF x # r THEN reads[x]
                    ELSE [fd |-> fd, file |-> "none", closed |-> FALSE, epoch |-> epoch]]
    /\ UNCHANGED <<fd, open, term, timeouts, asked, misread, epoch>>

Done(r) == reads' = [x \in DOMAIN reads \ {r} |-> reads[x]]
ReadStarts(r) ==
    /\ reads[r].file = "none"
    /\ IF open[reads[r].fd] = "free" THEN Done(r)
       ELSE reads' = [reads EXCEPT ![r].file = open[reads[r].fd]]
    /\ UNCHANGED <<fd, open, term, timeouts, asked, misread, epoch>>

\* external: data arrives; the completion goes out on the connection of the day.
ReadEnds(r) ==
    /\ reads[r].file # "none" /\ Done(r)
    /\ misread' = IF reads[r].file = "other" THEN misread \cup {reads[r].closed} ELSE misread
    /\ UNCHANGED <<fd, open, term, timeouts, asked, epoch>>

\* ioctlSetBaudRate, ioctlSetLineControl, ioctlSetHandflow: read, change and write back
\* the terminal; one and a half stop bits become one.
WithLine(t, l) ==
    [t EXCEPT !.stop = IF l.stop = 2 THEN 2 ELSE 1, !.parity = l.parity, !.bits = l.bits]
Set(t, key, value) == term' = t /\ asked' = [asked EXCEPT ![key] = {value}]
SetBaudRate(b) == Set([term EXCEPT !.baud = b], "baud", b)
SetLineControl(l) == Set(WithLine(term, l), "line", l)
SetHandflow(f) == Set([term EXCEPT !.flow = f], "flow", f)

\* ioctlResetDevice
ResetDevice == term' = Raw(term) /\ timeouts' = Zero /\ asked' = Unset

\* handleDeviceControl
DeviceControl ==
    /\ fd # 0
    /\ \/ UNCHANGED timeouts /\ \/ \E b \in Bauds : SetBaudRate(b)
                                \/ \E l \in Lines : SetLineControl(l)
                                \/ \E f \in Flows : SetHandflow(f)
       \/ \E t \in Timeouts : timeouts' = t /\ asked' = [asked EXCEPT !.timeouts = {t}] /\ UNCHANGED term
       \/ ResetDevice
    /\ UNCHANGED <<fd, open, reads, misread, epoch>>

\* What ioctlGetBaudRate, ioctlGetLineControl, ioctlGetHandflow and ioctlGetTimeouts say.
Reported == [baud |-> term.baud, line |-> [stop |-> term.stop, parity |-> term.parity, bits |-> term.bits],
             flow |-> term.flow, timeouts |-> timeouts]
Kept(l) == [l EXCEPT !.stop = IF @ = 2 THEN 2 ELSE 1]

\* external: this process opens and closes another file, for which the system takes the
\* lowest free number.
OtherOpens == Free # {} /\ open' = [open EXCEPT ![Lowest] = "other"]
OtherCloses == \E n \in Fds : open[n] = "other" /\ open' = [open EXCEPT ![n] = "free"]

\* A reconnection makes a new device: Handler.Close closes smart cards only.
Reconnect ==
    /\ epoch < MaxEpochs /\ epoch' = epoch + 1
    /\ fd' = 0 /\ timeouts' = Zero /\ asked' = Unset
    /\ UNCHANGED <<open, term, reads, misread>>

Next ==
    \/ HandleCreate \/ HandleClose \/ HandleRead \/ DeviceControl \/ Reconnect
    \/ \E r \in DOMAIN reads : ReadStarts(r) \/ ReadEnds(r)
    \/ (OtherOpens \/ OtherCloses) /\ UNCHANGED <<fd, term, timeouts, asked, reads, misread, epoch>>

Spec == Init /\ [][Next]_vars

Ports == {n \in Fds : open[n] = "port"}

\* While the port is open each setting is reported as the server last set it, whatever
\* else was set in between: speed, line and flow control share words of the terminal.
SettingsKept ==
    fd # 0 =>
        /\ asked.baud # {} => Reported.baud \in asked.baud
        /\ asked.line # {} => Reported.line \in {Kept(l) : l \in asked.line}
        /\ asked.flow # {} => Reported.flow \in asked.flow
        /\ asked.timeouts # {} => Reported.timeouts \in asked.timeouts

\* A read gives data of the port; of another file only when the port was closed between
\* the request and the system call and its number was given out again.
ReadsThePort == misread \subseteq {TRUE}

\* In one connection the port is open at most once, and only while the server has it.
OpenOnce == Ports \ {fd} # {} => epoch > 1

\* What Handler.Close says of itself: it releases what the devices hold.
ReleasedAtClose == fd = 0 => Ports = {}

\* What handleCreate says of itself: it resets the port to 9600/8N1.
OpensWithDefaults ==
    [][fd = 0 /\ fd' # 0 => term' = [term' EXCEPT !.baud = 9600, !.stop = 1, !.parity = "none", !.bits = 8]]_vars

\* The server reads its own port, with its own settings.
SerialFaithful == SettingsKept /\ ReadsThePort /\ OpenOnce
==============================================================================
