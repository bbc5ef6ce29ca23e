# A TLA+ verification of gopher-rdp

gopher-rdp is a Remote Desktop client in Go: a library (package `rdp`, i.e.
`client.go` and `protocol/...`) and a program around it (`client/main.go`, with
native windows in `display/gui` and a browser viewer in `display/web`).  This
directory holds TLA+ models of its components, the TLC configurations that check
them on small instances, and TLAPS proofs about them.  `PROJECT.json` is the index:
components, runs, mutants, the source lines each definition models, findings,
hazards and theorems.

- [Inventory](#inventory): the system and what is hard about it
- [Modules](#modules): what models what
- [Runs](#runs): what is checked, with which bounds and fairness
- [Findings](#findings): where the code does not do what the repository says
- [Proofs](#proofs)
- [What is not modelled](#what-is-not-modelled)
- [Plan](#plan)

To repeat the work: `tlc -config Channels.cfg MCChannels.tla` and likewise for the
other configurations below; `tlapm ClientLifecycleProofs.tla` and likewise for
`ConnectSequenceProofs`, `ChannelsProofs`, `UsbProofs`, `EndpointsProofs`, `DevicesProofs`,
`ViewersProofs` and `UpdatesProofs` for the proofs (seconds to a few minutes each).

## Inventory

### How the parts interact

One `Client` owns one TCP connection.  `Connect` runs the handshake on the
caller's goroutine and then starts three more: `receiveLoop`, `heartbeatLoop`
(if configured) and `keepAliveLoop`.  The receive loop reads every PDU and *calls*
the handlers of updates and channels, which in turn call the application's
callbacks; so a handler that blocks holds up the session.  Anything that may block
for long (USB transfers, camera samples, serial reads, smart-card waits, frame
acknowledgements) runs in goroutines of its own, and these and the application
*send* on the same connection: `writeMu` orders single PDUs, and nothing orders
what spans several of them unless the channel has a lock of its own.  `closeMu`
protects `closed`, `reconnecting` and `done`; the other fields of `Client` are
handed from goroutine to goroutine by convention.  A lost connection starts
`reconnectLoop`, a resize without a display-control channel
`resizeViaReconnect`; both clear the connection's fields with
`resetForReconnect` and call `Connect` again.

### Components

| Component | State it keeps | Operations | What makes it correct | Hard because of |
|---|---|---|---|---|
| client lifecycle (`client.go`) | `closed`, `reconnecting`, `done`, `state`, `conn`, `receiveLoopDone`; one goroutine per loop | Connect, Close, Done, Resize, loss, reconnect, Send* | one goroutine owns the client; done closes once; no socket leaks; callbacks in order | goroutines that survive the connection they were started for; timeouts racing closes |
| connect sequence (`client.go`, `nla/credssp.go`) | selected protocol, TLS and NLA layers, crypto, channels joined | negotiate, fall back, probe versions, MCS, security, licensing, capabilities, finalization | one socket; credentials only over protection of the connection in use; bounded retries | nested retry loops, partial failure at each phase |
| static channels (`client.go`) | reassembly buffer per channel, byte count over all | receive chunk, send message | whole messages only; count equals the buffers | interleaved and abandoned messages, concurrent senders |
| dynamic channels (`dvc.go`) | channel map, reassembly | create, data-first, data, close (both sides), send | whole messages to the right incarnation | ID reuse, closes that cross, unserialised senders |
| USB redirection (`urbdrc`) | device tables by path, ID and channel, FIFO of devices that wait for a channel, semaphore | announce, assign channel, poll, open, remove, transfer, close | tables agree; a request runs once on its device; unplugged devices are released | monitor, receive loop and 64 transfer goroutines; devices opened outside the lock |
| receive path (`client.go`, `fastpath`, `tpkt`, `pdu`) | fragment buffer, painting flag, decompressor | dispatch updates, reassemble, reactivate | each update once, in order, within one paint | state that survives the connection; paint nesting across callbacks |
| clipboard (`cliprdr`) | formats of both sides, one pending request | format lists, requests, responses, toggle | a response is read as the format that was asked for | two requests under way, one slot |
| audio output (`rdpsnd`) | formats, pending WaveInfo | negotiate, wave, confirm, close | sample data belongs to its WaveInfo | two-PDU messages without framing |
| audio input (`audin`) | format, encoder, recording flag | open, format change, send | samples after the open reply, in its format | sender and receive loop under different locks |
| camera (`rdpecam`) | device channels, streams, shared sample queue | activate, start, sample request, stop | a sample goes to the request it answers | one goroutine per request that nothing cancels |
| display control (`disp`) | ready, queued resize | caps, resize | a queued resize is sent | one-shot callback against the resizing goroutine |
| graphics pipeline (`egfx`) | surfaces, caches, frame counter, queue of acks | frames, acks, reset | each frame acknowledged once, in order | queue that overflows to a direct send |
| device redirection (`rdpdr`: disk, printer, serial, parallel, scard) | handshake flags, open files and handles | announce, create, read, write, close, wait | one completion per request; handles valid | blocking devices, goroutines, delete-on-close |
| web viewer (`display/web`) | sessions by monitor, bounded queues, one lock | attach, route, broadcast, end | no callback waits for a browser; ends with the session | callbacks under the lock that Connect holds |
| native viewer (`display/gui`) | children, queues, resize suppression | start, route, resize, end | frames are suppressed only while a resize is under way | timers that outlive their resize |
| bulk decompression (`mppc`, `zgfx`), drawing orders, tile codecs (`rfx`, `clearcodec`) | histories, caches, last order of each kind, bounds, coefficients | decode | state as the server assumes it | state shared by all orders and both paths; caches that wrap |
| security (`sec`) | two RC4 streams, use counts, keys | encrypt, decrypt, update | a packet leaves at the place in the stream it was encrypted at | several senders, a key replaced between packets |
| framebuffer, pointers | one pixel array, 128 pointers | copy, clip | drawn as the server drew | copies onto themselves, clipped sources |
| encodings, options, command line | little or none | - | covered by unit tests | - |

### Behaviours that are hard to test

`PROJECT.json` lists the hazards with their lines and the properties that watch
them.  Not among them, and met while reading:

- egfx: the goroutine that sends acknowledgements ends at the first error
  (`egfx.go:205`); Close races the handlers.
- `handleDisconnect` ends the session without `setState` (`client.go:2568`); a
  `RedirectError` does not wrap `ErrDisconnected` (2560); the deferred close of a
  receive loop reads a field of the client when it exits (2281).
- A concurrent use of the channel map of `dvc.go` (319), and of the format of
  `audin.go` by a close: data races without a bounded set of outcomes.
- gui: the player paused at a close is never started again (`gui.go:500`).
- scard: contexts established while Close runs are not cancelled (`scard.go:302`);
  printer: an HTTP client without a timeout in the receive loop (`printer.go:269`).
- urbdrc: two completions longer than a fragment (1600 bytes) may mix on a channel,
  since transfer goroutines share no lock (`transfer.go:500`); a poll may open a
  device after StopMonitor and Close (`urbdrc.go:412`).
- static channels: a first chunk dropped for its length leaves the unfinished buffer
  before it in place (`client.go:4710`).
- "select on done, else close it" without a lock in `egfx.go:219`, `scard.go:303`
  and `dispatcher.go:128, 323, 413`: two callers close twice.

## Modules

| Module | Models | Used with |
|---|---|---|
| `ClientLifecycle` | the lifecycle, with `Connect` as dial + one handshake step | `AppSession`, `MCClientLifecycle` |
| `AppSession` | what the application may be told, in which order: the abstract specification of `ClientLifecycle` | |
| `ClientLifecycleProofs` | theorems about `ClientLifecycle` | |
| `ConnectSequence` | the inside of `Connect` | `ConnectOutcome`, `MCConnectSequence` |
| `ConnectOutcome` | one socket, up or failed: the abstract specification of `ConnectSequence` | |
| `ConnectSequenceProofs` | theorems about `ConnectSequence` | |
| `VirtualChannels` | static channels: `handleVirtualChannelData`, `sendChannelData` | `MCChannels` |
| `DynamicChannels` | `protocol/dvc` over a FIFO static channel | `MCChannels` |
| `ChannelsProofs` | theorems about both channel layers | |
| `UsbRedirection` | `protocol/urbdrc` over FIFO dynamic channels | |
| `UsbProofs` | theorems about `UsbRedirection` | |
| `Clipboard`, `AudioOutput`, `AudioInput`, `Camera`, `DisplayControl`, `GraphicsPipeline` | `cliprdr`, `rdpsnd`, `audin`, `rdpecam`, `disp` and `egfx`, each with the part of `client.go` and of the viewers that drives it | `MCEndpoints` |
| `EndpointsProofs` | theorems about the six endpoints | |
| `DeviceRedirection`, `DiskDevice`, `SmartCard`, `SerialPort` | `rdpdr`: the channel with its printers and parallel port, a shared directory, a card reader over pcscd, a serial port | `MCDevices` |
| `DevicesProofs` | theorems about the four device modules | |
| `WebViewer`, `WebDispatcher`, `GuiBroker` | `display/web` with one monitor and with several, `display/gui` | `MCViewers` |
| `ViewerScreen` | what the viewers share: monitors in a row, a picture drawn over another | `WebViewer`, `WebDispatcher`, `GuiBroker` |
| `ViewersProofs` | theorems about the three viewers | |
| `SecureStream` | the RC4 streams of standard security and who writes to them | `MCUpdates` |
| `ReceivePath` | fast-path and slow-path updates: fragments, MPPC, paints, pointers, frame markers | `MCUpdates` |
| `DrawingOrders` | `protocol/orders`, `executeOrder` and the framebuffer under them | `MCUpdates` |
| `ZgfxHistory`, `ProgressiveTiles`, `ClearTiles` | `zgfx`, `rfx/progressive` and `clearcodec`: what they keep between messages | `MCUpdates` |
| `UpdatesProofs` | theorems about `SecureStream`, `ReceivePath`, `DrawingOrders`, `ZgfxHistory`, `ClearTiles` and `ProgressiveTiles` | |

The modules form layers.  A layer takes from the one below only what that one is
shown to provide: `DynamicChannels` takes "drdynvc" for a FIFO of whole PDUs
(`VirtualChannels`: MessagesFaithful, ChunksContiguous);
`UsbRedirection` takes its channels for FIFOs that deliver to the right incarnation
(`DynamicChannels`: EveryMessageInOrder); `ClientLifecycle` takes Connect for a
step that ends up or failed with one socket (`ConnectSequence`: OneConnection).
The endpoints, devices, viewers and decoders share no state with each other, only the
connection below: an MC module holds several of them side by side and a behaviour
runs one (`part`), so that one run checks each from its own initial states.

**ClientLifecycle.**  Each goroutine is a program counter: `pc` for those that run
Connect (the application's, `reconnectLoop`, `resizeViaReconnect`; `kind` tells
which), `loop` for receive loops (one per connection, since each successful Connect
starts one), `hb` for heartbeats, `snd` for senders.  A critical section of
`closeMu` is one step.  `resetForReconnect` is three steps (ResetClose, ResetClear,
ResetArm), since senders and old loops run in between.  `loopOn` is what
`c.tpktConn` was when the loop began its read, and may be nil or a later connection
when the loop comes back: the code re-reads the field.  A panic (double close,
nil connection) sets `crash` and ends the behaviour.  One timing assumption,
`Settled`: a goroutine that is not blocked runs before a sleep of seconds or a round
trip of the network is over.  With `Stalls` packet handlers are exempt from it.

**ConnectSequence.**  `pc` is the step of Connect; a connection is named by the
call that dialled it and its number in that call, so that "TLS of an earlier
connection" is a state that can be seen.  `goal` says why a connection was dialled:
the first negotiation (with its three protocol sets), the probe of 4 TLS versions
by 3 CredSSP versions, or the TLS-only fallback.  Every answer of the server that
the code tells apart is a choice.

**VirtualChannels, DynamicChannels.**  Lengths are counted in chunks.  Messages
carry their number, length and position, which the code does not look at; the
properties compare them.  What receives and what sends are independent and are
checked one at a time.

**UsbRedirection.**  The tables have the names of the fields of `Handler`; a device
in a port is the number of its insertion, so that a handle to a device that left is
told from one to its successor.  The monitor's poll is Scan (no lock), Diff (first
locked section), Open (no lock, fails if the device has left), Register (second
locked section).  A bulk transfer is a member of `transfers` until its goroutine
ends; any other transfer holds the receive loop.

**Endpoints.**  Receive loop and viewer are two threads of actions over the handler's
fields, which the code shares without a lock: a call that sends or calls back in the
middle is several steps.  Contents (of a copy, an audio block, a camera frame, a size)
are numbers.  Next to the handler runs the *meaning*: what the server has, from what
was sent to it, and ghost variables that say which race an exception came from
(`crossed`, `raced`, `early`).  The properties say where both sides agree, and which
race alone can make them disagree.

**Devices.**  A request is one action (or begins and ends, where the code blocks or uses
a goroutine).  `DiskDevice` has the directory as names and objects and a user of this
machine who changes it too; `SmartCard` the connection of a context to the daemon as a
sequence of answers that threads read in turn; `SerialPort` the descriptor numbers of the
process, which are given out again.

**Viewers.**  The desktop is a row of cells, each with the number of times it was drawn.
A queue to a tab or window is bounded, and what is dropped is remembered.

**Updates.**  Client and server each have a copy of the state that the protocol leaves out
of its messages; an update is sent and handled in one step, since one goroutine reads a
reliable stream.  The server is a specification: `DrawingOrders` paints the server's
screen cell by cell, and the client's with the rectangle arithmetic of the code, in one
dimension; `ZgfxHistory` and `ClearTiles` give the server the whole history and the client
the ring.

## Runs

| Run | Properties | What it shows |
|---|---|---|
| `lifecycle_reconnect` | TypeOK, LoopsSafe, ReconnectEnds, ClosedIsFinal | a failing network and a resize by reconnection: no panic, one reader per connection, the reconnection ends, and a close is final |
| `lifecycle_session` | ReconnectExclusive, DoneReady, NoSocketLeak, AppSession, LossNoticed | every option on, handlers that stall, a server that redirects: one owner, one close of done, no leak; callbacks refine `AppSession`; a broken connection ends the session or starts to reconnect |
| `connect_sequence` | TypeOK, InfoProtected, NLAAuthenticated, SocketsOwned, OneConnection, ConnectEnds | two calls of Connect against any server |
| `channels` | MessagesFaithful, HandlersFaithful, ChannelsAgree, EveryMessageInOrder, SendsContiguous | both channel layers |
| `usb` | TablesFaithful, RequestsOnce, UnpluggedReleased | devices, monitor, channels, transfers and Close together |
| `endpoints` | ClipboardFaithful, PlaybackFaithful, MicrophoneFaithful, CameraFaithful, ResizesFaithful, GraphicsFaithful | what goes over each channel means the same to both ends |
| `devices` | RedirectionFaithful, DiskFaithful, CardFaithful, SerialFaithful | devices do for the server what their handles, settings and answers say |
| `viewers` | ViewerFaithful, TabsFaithful, WindowsFaithful | tabs and windows show the desktop, or it is known why not |
| `updates` | StreamFaithful, ReceiveFaithful, OrdersFaithful, DecodersFaithful | encrypted, fragmented, compressed and cached updates arrive as meant |
| `loss_during_reconnect`, `refused_credentials`, `paint_not_atomic` | one each | the [findings](#findings) |

A property `...Faithful` is the conjunction of named parts, each stated and explained in
the module: DiskFaithful, for example, is ReadOnlyKept, FailedCreateHarmless,
FilesAreHandles, PathIsHandle and ListedOnce.  Each property of a passing run is
accompanied by a mutant: a definition changed in the way of a plausible bug
(`X_Something` beside `X`), under which the run must fail.

**LoopsSafe.**  The nil connection a sender may meet is a finding of its own, so
`lifecycle_reconnect` runs without senders.  It runs as well without what ends a
connection while its receive loop is alive, a heartbeat that fires or a redirection by the
server from inside a handler: a loop that comes back from a stalled handler then reads
the next connection.  A stalled handler alone does no harm, as the proof shows; it is off
in this run for its size only.  `lifecycle_session` has all of these and checks what holds
in spite of them.  Resizes are in the first only: their callbacks are outside `AppSession`.

**What the parts say of the endpoints.**  With nothing on its way the server has the last
clipboard list in the form it was written in, every request is answered, and an answer
is decoded as another format only when two requests crossed; audio blocks are heard in
the format they were encoded in and confirmed once, in order; microphone pairs are not
parted and silence gives way; a camera request has a goroutine that answers it; the last
size asked for arrives, unless it raced the ready callback or both kinds of request were
queued; surfaces equal what the commands mean, the screen what is on them, and each frame
is acknowledged once, in order unless the queue was full.

**What they say of devices.**  One handshake announces devices once; a document is printed
once and whole; each request is answered once.  A directory shared read-only changes by
delete-on-close alone; a create that fails leaves the directory alone unless it fails for
the limit on open files, which is checked last; handle and path agree unless another
handle or user interfered; a listing gives each name once.  The daemon's cards are the
handler's; answers match requests until a context is cancelled; no card event is lost.
A port's settings are the last set, and a read gives another file's data only when its
number was given out again before the system call.

**What they say of viewers.**  Frames reach a browser whole; a tab that was not overtaken
and dropped nothing shows the desktop; a window shows wrongly only what was withheld
during a resize or dropped.

**What they say of updates.**  Every packet is readable where it was encrypted, chunks of a
message stay together through key updates; updates in pieces are dispatched whole, with
the pointers, acknowledgements and paints that belong to them; orders, progressive tiles
and ClearCodec tiles show what the server meant although they leave fields, coefficients
and columns to what was sent before.

### Bounds

| Bound | Value | Why it is enough |
|---|---|---|
| MaxConns | 2 or 3 | the first connection, one that a reconnection makes and, without Close and heartbeat, a third: a goroutine left from one connection meets the next, and a second one |
| Goroutines | app and two more | a reconnection and a resize at once; ReconnectExclusive is about two |
| MaxReconnectAttempts | 1 or 2 | the last attempt and one that is not; the proofs hold for every value, 0 (no limit) included |
| MaxResizes | 0 or 1 | a resize races each other event; two resizes exclude each other by `reconnecting` like a resize and a loss |
| NumTLS, NumCSSP, MaxReads | 4, 3, 10 | the code's own |
| MaxCalls | 2 | one reconnection: fields of the call before are all that can be stale |
| Limit, MaxLen (static) | 3, 4 | messages of one, two, the limit and one chunk more |
| GlobalLimit | 9 | not reached, as in the code: 4 channels of 64 MB reach no more than 256 MB |
| Limit, MaxLen (dynamic) | 3, 3 | first, middle and last fragment, no message over the limit |
| MaxFlight | 2 | a close or a creation crosses data |
| MaxIncs | 2 | an ID is used again once |
| Ports, MaxPlugs | 2, 1 | a device named by an option and one found by the monitor; one insertion more, so that a port and an ID meet a second device |
| SemCap, MaxReqs | 1, 2 | one transfer in flight and one rejected |
| MaxCopies, MaxToggles, MaxFlight (clipboard) | 2, 2, 2 | a list overtakes a request of the list before, switched off and on |
| MaxBlocks, MaxOffers, MaxOpens | 3, 3, 2 | a wave cut by a close, a format list in the middle |
| MaxTakes, MaxStarts, MaxSpeech | 2, 2, 2 | two fillers, two formats, and a speaker between them |
| QueueCap, MaxSamples, MaxFrames | 2, 3, 4 | a camera queue that overflows |
| AckCap, MaxFrameIds, MaxCommands | 1, 2, 5 | the queue is full; a surface is made, used, deleted and made again |
| MaxOpen, MaxObjects, MaxLocal (disk) | 2, 3, 1 | the limit is met; a name stands for another object |
| CounterRange, MaxEvents | 2, 3 | the card's counter passes what a state can hold |
| Fds, Readers | 2, 1 | a descriptor is given out again while a read is under way |
| Mons, Tabs, MaxWidth, MaxBehind | 2, 2, 2, 1 | an older tab detaches late; a queue that drops |
| Chunked, MaxChunks | {"channel"}, 2 | messages of one chunk and of two |
| Threshold | 2 | a key is replaced in the middle of a message; the code's 4096 only counts |
| HistSize, RingSize | 2, 2 | histories wrap |
| Width, Wide, MaxOrders | 3, 2, 3 | an order partly off either edge, copied onto itself, with bounds; three orders set a field, leave it out and use it |
| VBars, SeqMod, MaxTiles | 2, 3, 3 | cursors and sequence numbers wrap |
| ParallelAt | 2 (4 in the code) | both branches of `decodeRegion` |

The runs of composites assume a server that keeps to the protocol.  The constants
`Repeats`, `UncompressedFlush` and `SlowInFinalization` (all FALSE) and the
kinds left out of `OffScreen` and `Bounded` are what the code relies on beyond that; with
each of them the property is refuted:

- a tile twice in one region is decoded by two workers at once (`progressive.go:416`);
- flush and at-front flags of a packet that is not compressed never reach the
  decompressor (`client.go:2881`, `mppc.go:51`);
- slow-path updates during finalization are skipped, although they are in the history;
- text and a screen-to-screen copy ("text", "scr" in `OffScreen`) that start left of the
  screen are clipped at the destination without moving the source (`WriteRect`);
- lines, glyphs without a box and saved screens ("line", "label", "save" in `Bounded`)
  are drawn without a look at the bounds of the order (`executeLineTo`, `client.go:4113`).

### Fairness

- `ClientLifecycle`: weak fairness for each goroutine that is runnable, for a dial
  (which ends by its 10 s timeout), and for a receive loop whose read fails or whose handler
  returns.  None for the handshake, whose reads have no deadline: ReconnectEnds holds
  under the premise that no handshake stays unanswered, which is what the code
  justifies.  None for the application, the network or the server.
- `ConnectSequence`: weak fairness of its one goroutine; the premise is that a server
  answers or breaks off.  ConnectEnds is about the retries, which must not go on
  for ever against a server that keeps refusing.
- `UsbRedirection`: weak fairness of the monitor, which a ticker drives.

The composites state safety only: nothing fair is assumed of a server, a user or a daemon.

CHECK_DEADLOCK is off throughout: a session, a bounded server and a bounded user
may all be done.

## Findings

Three runs are refuted by TLC:

1. *A loss is lost* (`loss_during_reconnect`): a connection that breaks before
   `reconnectLoop` has released the client leaves it "Connected" without a receive
   loop, `client.go:2551`.
2. *Refused credentials are retried* (`refused_credentials`): the error is wrapped
   with `%v`, so `errors.Is` never sees ErrCredentialsFatal; up to 12 more
   attempts, then a fallback to TLS only, `client.go:681`.
3. *A PDU is not painted at once* (`paint_not_atomic`): the first handler that ends its
   own paint ends the paint of the PDU, and the updates after it are shown one by one,
   `client.go:5236`.

More statements of the repository that TLC refutes.  They are definitions at the end of
their modules, not runs: take the configuration in brackets, put the definition in place of
its properties (through the module's instance where it is a composite), and TLC shows how.

| Definition | What the repository says | What the code does |
|---|---|---|
| DoneTellsTheEnd (`LossDuringReconnect`) | Done is closed when the connection ends (`client.go:5452`) | after the last attempt to reconnect it stays open (2484) |
| CloseCloses (`LossDuringReconnect`) | "Close closes the RDP connection" (5651) | while the client reconnects Close does nothing, and the client connects again (5656) |
| SendersAreSafe (`LossDuringReconnect`, one sender) | new sends return ErrNotConnected (2381) | a sender between its check and `writeMu` meets the cleared connection (2022) |
| ExplicitStays (`Usb`, with Matching = {p2}) | a device named by bus and address is redirected (README.md:605) | with a filter of another option the first poll removes it (`urbdrc.go:374`) |
| TextIsText (`Endpoints`) | OnClipboardText is given text (`client.go:5309`) | two requests share one slot (`cliprdr.go:514`) |
| SamplesIntact (`Endpoints`) | SendSample delivers a frame (`rdpecam.go:191`) | its buffer is read after the unlock, when the next frame may be in it (406) |
| EarlyResizeQueued (`Endpoints`) | an early resize is queued (`client.go:5534`) | without a handler it reconnects (5548) |
| AnswersBoth (`Devices`) | the answer waits for both messages of the server | in a second handshake the flags are still set (`rdpdr.go:415, 537`) |
| SettingsMatch (`Devices`) | cached settings go to the matching printer | an add event goes to any printer |
| ReadOnlyStrict (`Devices`) | a read-only share is not changed | delete-on-close of a create is not excluded (`disk.go:411`) |
| AnsweredWhereAsked (`Devices`) | Close ends the waits of a connection (`scard.go:300`) | a wait that begins after it answers on the next connection |
| ReleasedAtClose (`Devices`) | Close releases what the devices hold | a serial port stays open |
| OpensWithDefaults (`Devices`) | a create resets the port to 9600/8N1 | settings of the terminal survive |
| PlacedAsTold (`Viewers`) | updates go to the monitor they are for (`dispatcher.go:27`) | a monitor resized after the connection is moved before the server knows |
| ConnectReturns (`Viewers`) | - | Attach holds the lock during Connect, whose updates take it (`dispatcher.go:374`) |
| NewViewerCurrent (`Viewers`) | a new viewer gets the current desktop (`web.go:252`) | the redraw is asked for before the callbacks are registered |
| UnchangedKept (`Viewers`) | unchanged monitors have correct content (`broker.go:48`) | what the server draws on them meanwhile is withheld and not asked for again |

Read from the code, not in a model:

- A dynamic-channel message over 64 MB is dropped at its first fragment only (`dvc.go:292`).
- The web viewer ends the program at the first loss of a connection, although the
  client reconnects (`web.go:198`); closing any tab ends the session for all (665).
- The USB handler of a connection is not closed when it is reset (`client.go:2380`), nor is
  `audinHandler` stopped, nor the card backend closed.
- SET_DESCRIPTOR is sent to the device as GET_DESCRIPTOR (`transfer.go:671`).
- A first fast-path fragment of zero length discards the rest, and a fragment that fails
  to decompress is skipped while its message goes on.
- A finite timeout of GetStatusChange is never honoured, and BeginTransaction blocks the
  receive loop (`scard_backend.go:26`).
- The comment at `zgfx.go:30` says Reset is required, and nothing calls it: ZgfxFaithful
  shows that no harm comes of it, since a match names a distance.

## Proofs

TLC shows a property for the bounds above; TLAPS shows it for every value of the
constants, on these assumptions, which TLC evaluates on every run:

| Assumption | What it asks, and why the code has it |
|---|---|
| `LifecycleAssumption`, `ConnectAssumption` | options are booleans, bounds natural numbers, App is one of the goroutines |
| `ChannelsAssumption` | finitely many channels, limits are natural numbers; against a server that abandons messages the buffers of all channels and one more message fit the global limit (4 channels of 64 MB reach no more than 256 MB); no dynamic message is over the limit; names of channels and senders do not collide |
| `UsbAssumption` | "none" is no port, 0 no channel, the filter selects ports, the semaphore counts |
| `EndpointsAssumption` | the numbers of sample requests and of silence goroutines, which are bounds of the model, are natural numbers; surfaces are named by positive numbers (0 and -1 stand for nobody and for a deleted one), and a surface has a cell |
| `ViewersAssumption` | finitely many monitors, numbered from 1, a width of at least one, 0 is no tab |
| `DevicesAssumption` | descriptors, card contexts and handles are positive numbers, and a context's lock is named differently from the goroutines; finitely many names in a shared directory; the root and a file can exist; limits are natural numbers |
| `UpdatesAssumption` | the threshold of a key update is positive, the history holds a number of blocks, the screen has a number of cells, an order at least one and the bitmap cache a number of entries, messages have a number of chunks, "none" is no sender, the ring of ZGFX and the caches of ClearCodec have entries, what a first pass leaves out is a number of bits |

**ClientLifecycle** (`ClientLifecycleProofs`).  TypeCorrect is inductive by itself.
OneReconnects, DoneClosesOnce and SocketsBounded are not, and share the invariant
`IInv`, which TLC finds invariant in the configuration of `lifecycle_session`.  Why each part is needed:

- *ReconnectExclusive* says that `reconnecting` is set iff exactly one goroutine
  stands between claiming it and giving it up; it is what makes the unlocked
  writes of resetForReconnect safe.
- *OwnerArms*: the owner has armed a new done channel before it dials, and gives the
  client back either closed or with done open.  Without it DoneReady (admitted by
  closeMu implies done open) fails at the step that releases `reconnecting`.
- *DialsAfterClose*: between the reset and the dial no socket is open, so that the
  one dialled is the only one (NoSocketLeak).
- *FirstConnect*: nothing else runs until the first Connect has returned, since it
  does not set `reconnecting`.

`IInvStep` has one step per action; `HandleDisconnectStep` covers the three callers
of handleDisconnect at once.  CloseHolds, an action property, follows from IInv.
CallbacksInOrder is the refinement of `AppSession`, for MaxResizes = 0: with a
resize, `onReconnected` is called after the client is released and later events may
overtake it, which is why the model gives it a step of its own (`announce`).

LoopsAlwaysSafe adds `LoopInv`: a receive loop that runs is that of the current
connection, and the one whose end the client waits for (`conn`, `recvDone`); a resize
waits for that loop before it resets the client, `reconnectLoop` was started by a
loop that had left its read, and none runs when either clears the fields.  Its hypotheses are options, no heartbeat and no redirection by
the server, since each ends a connection that a loop still reads; the third, no senders,
is needed only for the nil connection of the findings, and ReadersStayExclusive does
without it.  Resizes and stalled handlers are allowed.

**ConnectSequence** (`ConnectSequenceProofs`).  `IInv` adds to the properties: *Counted*
(the dials made are bounded by the place in the probe; `ProbeOrder` is the arithmetic
of it), *Asked* (only the first connection asks for anything but TLS and NLA),
*Layered* (which connection TLS and keys belong to at each step), *Joining*.  From
it OneSocket, InfoIsProtected, NLAIsAuthenticated, DialsAreBounded, ConnectTypeCorrect
and the refinement ConnectRefines.

**Channels** (`ChannelsProofs`).  What is received and what is sent are independent, and so
are the layers: four invariants.

- Receiving (`RecvInv`, `DynInv`) must relate what a handler got to what is still under way on
  the same channel, among the traffic of all others.  `Chain(s, key, R, x, p, c)` says
  that the members of the FIFO s with key x lead from p, handled last, to c, sent last, each in
  relation R to the next; receiving the head and sending a successor keep it (`ChainReceives`,
  `ChainSends`).  R is `Follows` for chunks (next of the same message, or the
  first of a later one), `Succeeds` for PDUs of a dynamic channel (which includes the closes and
  creations between two incarnations).
- The byte count over all channels is the size of the union of the buffers (`Held`), from which
  CountExact and, with the assumption on the limits, that no message of a
  server that keeps to the protocol is dropped.
- `DynInv` adds `Agreed`, which tells for each ID where a creation or a close may be under way,
  by the state of both sides.  ChannelsAgree and EveryMessageInOrder need it
  together: data finds its channel because the close that would remove it is behind it.
- Sending (`SendInv`, `DynSendInv`): between two chunks of a message the one who holds the lock
  is the last who wrote.  This is shown for the senders the code serialises (static channels;
  dynamic channels in `Serialised`), and gives SendsNeverMixed.

**UsbRedirection** (`UsbProofs`).  TablesAlwaysFaithful and RequestsAlwaysOnce share `UsbInv`:

- *TablesInv*: the tables by path, ID and channel name the same devices;
- *AskedInv*: the devices that wait for a channel are no more than the channels asked for or being
  opened, so that no device waits for ever for a channel nobody will open;
- *NetInv*, *FlightInv*: of each channel the client and the server know the same
  incarnation, or its opening or its close is under way, and a close is the last PDU of its incarnation;
- *RequestsInv*, *OnTheWayInv*: a request is on its way, running, or answered, and not two of
  these, and the device it runs on is that of its channel's incarnation.

The queue of waiting devices loses a member from the middle when a device leaves
(`Without`), which is a recursive function: `WithoutProperties` shows what it keeps.

**Viewers** (`ViewersProofs`).  "It is shown once nothing is on its way" is not inductive:
the invariants say where each cell is instead.

- `WebInv`: the frame of a tab that was attached at its start holds every cell painted so far,
  and what the tab shows after the last frame of its queue is the desktop, unless a frame was dropped.
- `DispInv`: each cell of a session's monitor is shown when the queue is empty, or is still to be
  drawn, in the frame, or in a redraw the session has asked for; the layout told to the
  server is that of the widths (`LayoutInv`); monitors in a row do not overlap
  and cover it (`PlacesApart`, `PlaceInRow`).
- `GuiInv`: while a layout is on its way to the server nothing is claimed; afterwards
  each drawn cell is shown, in the frame, or among those known to be withheld or dropped.

**Endpoints** (`EndpointsProofs`).  Here too a behaviour runs one endpoint.  Each invariant says
what is on its way, or what a thread will still do, so that "with nothing under way both
sides agree" follows:

- `ClipInv`: the server's capabilities are ahead of its readiness (`CapsFirst`) and the client's
  ahead of its lists (`Handshake`); no list and no request names more than the fields
  hold; as long as none crossed, of requests and answers there is one, and it is
  the one `pendingFormat` names (`OneUnderWay`).
- `PlayInv`: only what the server sent before the channel closes will be handled (`Live`,
  `Alive`); of this the blocks are those that follow the blocks read (`BlockOrder`), a
  continuation is right behind its WaveInfo (`PairOrder`), and no list of formats stands
  before a block (`FormatOrder`); all this only after the create that comes first
  (`ChannelOrder`), as a later channel is not served.
- `MikeInv`: whoever is between the two PDUs of a block holds sendMu (`CallsApart`), samples are
  left over from the format in use or from a call that was overtaken (`FormatsApart`),
  the goroutine that `silenceStop` stops is the one that runs (`FillersInv`), and late
  silence and the calls that will still send some are no more than the goroutines started
  (`SilenceInv`), which is how SilenceYields becomes inductive.
- `CameraInv`: the request of a channel belongs to a goroutine of that channel (`RequestOwned`), and
  frames leave the queue in order, so that one discarded is older than whatever is
  sent later (`FramesInOrder`).
- `DisplayInv`: between calls the server has the size, or the flush that will run has it
  (`WillApply`); `ChannelStages` ties the callback to the handler.
- `GfxInv`, in four parts.  `AckInv`: acknowledgements sent, held and queued follow one another
  and none is beyond `Top`, the last place the frames have reached, so a new one comes
  last wherever it goes.  `ScreenInv`: a cell of the screen shows its surface or a rectangle of
  the frame will draw it (`Shown`), what was drawn on a mapped surface is on the screen or
  will be (`Drawn`), and only a frame defers (`Deferred`).  `ContentInv`: surfaces, cache and the tiles
  kept of each surface that exists are the server's; `RunCopied` shows that the copy cell
  by cell is the copy of the run.

**Devices** (`DevicesProofs`).  A behaviour runs one device, so each has an invariant of its own:

- `RedirInv`: in the first handshake each message is queued or heard once, and what the client
  has sent is what the messages heard call for (`FirstHandshake`); completion ids
  that are queued or hold the loop are distinct and are those the server waits for
  (`CompletionInv`); a printed job is no longer open.
- `DiskInv`: the path of an open file means its object or the file is marked (`PathMeans`), which
  a rename, a delete-on-close and the user keep by marking the others; a listing has
  given the names before its index that match and stay, each once, and its
  entries hold every name that stays (`ListingInv`).  An outcome that changes the
  directory is a success and allowed (`Lawful`), from which ReadOnlyKept and FailedCreateHarmless.
- `CardInv`: a connection to the daemon carries the answer of whoever holds the context's lock and
  nothing else, unless it was cancelled (`LockInv`, `WireInv`); the tables of the client
  differ from the daemon's by the request under way (`Agree`), which is why handles
  that the daemon gave out and the client has not read are kept apart (`HandleInv`).
- `PortInv`: a read that the server has not closed under is on a descriptor that is still the
  port's (`DescriptorInv`); timeouts are kept beside the terminal, since they outlast a close.

**SecureStream** (`UpdatesProofs`).  `StreamInv`: the holder of writeMu alone has an encrypted
packet, and what is encrypted last or next is at the place of the stream where it is
written; `NextPlace` is the arithmetic of the key update.  StreamAlwaysFaithful follows.

**ReceivePath** (`UpdatesProofs`).  `ReceiveInv` relates the two sides field by field: one
history (`SameHistory`), the same outcome of what is whole (`SameUpdates`), and the client's
reassembly buffer is what the server sent of the update it cuts (`SamePieces`).  `BlockUnpacked`
shows that a packet comes out as it went in and moves both histories alike.  It needs
~UncompressedFlush, and the slow path needs ~SlowInFinalization: the theorem has both as
hypotheses, which the run's server satisfies.

**ZgfxHistory** (`UpdatesProofs`).  `ZgfxInv`: the ring ends with the history (`Ends`), and a match
under way is read as far back in the ring as the server meant it in what it sent
(`TokenInv`).  A byte written moves both ends alike (`RingGrows`): entries less than a round
apart differ (`EntriesDiffer`).

**ClearTiles** (`UpdatesProofs`).  `ClearInv`: each cache of the client is a window on what the
server stored since the cursor was last at the start (`Window`), its last round; so every entry
the server may name is there (`EntryInRound`, `EntryKept`), and the sequence number that is
expected is the server's or any, so that no tile is refused.

**ProgressiveTiles** (`UpdatesProofs`).  `ProgressiveInv`, checked by TLC first: a tile with no
block to come is `Known` (coefficients, precision and sign are those the server refines
from), the first block to come of a tile `Fits` what is kept, a second one fits what the first
will make of it, and what a tile's last block made is its meaning; a cell the region
uncovers is meant to be what its tile means, the others agree.  The arithmetic is in
`WholeFits` (a first pass, also as a difference) and `UpgradeFits`: the bits between two
precisions, with the sign kept or the block's own, take the coarse coefficient to the
finer (`BitsBetween`, from `FinerBits` and the weights of bits, `WeightsMultiply`).  The theorem has
one hypothesis, `Repeats => ParallelAt > 2`: the server names no tile twice in a
region, or such a region is decoded in order.  The run's server satisfies it.
DecodersAlwaysFaithful puts the three decoders together.

**DrawingOrders** (`UpdatesProofs`).  `OrdersInv`: what both sides keep of every kind of order,
of bounds, brush and bitmap cache agrees at all times (`OrderSides`); unless an order was
executed before the viewer's callback was there, so do both screens, the saved part, the glyphs
and what the viewer shows (`Alike`).  `OrderDecoded` shows that an order, whatever it leaves out, is filled in to what
the server meant.  One lemma for each kind then shows that its handler paints what the
server painted; all of them go through `Laid`, the screen with ink on the cells that the bounds
let through, since the handlers clip in different ways: to the bounds, to the
screen and the bounds, or to the screen alone.  The hypothesis is `OrdersLegal`: the kinds
above stay out of `OffScreen` and `Bounded`.  The run's server satisfies it, and TLC
refutes the property when one of the five is let in.

*Induction.*  The library's induction theorems cannot be used here, but that a nonempty set of
natural numbers has a least member can (`LeastNatural`), by its theorem on well-founded
relations.  It shows what "the lowest free descriptor", "the least unused id" and "the next
entry of a listing" mean, and gives induction over numbers: a recursive function exists and has a property if there is no least number at
which it fails.  That is how `Without`, the places of monitors in a row, the copied cells and the weights of bits are treated.

Model-checked only: liveness (ReconnectEnds, LossNoticed, ConnectEnds,
UnpluggedReleased), which the prover does not do.  Every safety invariant and every action
property of a run has a theorem.  DialsAreBounded is proved and checked by no run.

## What is not modelled

- *Below the models*: TCP (a connection works until it fails), TLS, CredSSP and RC4
  as cryptography, the layout of PDUs, the decoders of pixels, orders and audio.
- *Lifecycle*: the callbacks' own work; a callback that calls Close is the
  application calling Close at that moment.
- *Dynamic channels*: the client's PDUs reach the server in the step that sends
  them; a concurrent access to the channel map is taken for atomic, though Go
  promises nothing (hazard `dvc.go:319`).
- *USB*: a handler that survives a reconnection; a control channel that is closed
  and created again; completions on an ID that has changed hands; the URB functions
  one by one; the device files of Linux; concurrent reads and writes of
  `reqCompletion`.  Class exclusion is part of `Matching`: an excluded device is
  never opened, whether it is seeded or skipped.
- *Endpoints*: sample arithmetic (ADPCM); the codecs of WireToSurface1; scaled outputs;
  `resetForReconnect` dropping the microphone's handler without stopping it; the camera's
  property pages.
- *Devices*: parallel ports beyond their blocking read; directory change notification,
  locks, volume and security queries; the NDR structures of smart card calls.
- *Viewers*: input forwarding, audio and camera of the browser, child processes that die,
  F12 in a window.
- *Updates*: raster operations and pixel formats; parsing; deactivation and reactivation;
  polygons, ellipses and polylines beyond their bounds; the prefix codes of MPPC and ZGFX;
  RLE, planar, NSCodec, RLGR and the wavelet; orders that come before the framebuffer
  exists.
- Components with status `not_modelled` in `PROJECT.json`, with the reason there.

## Plan

Modelled in the order planned: lifecycle and connection, channels, USB, endpoints, devices,
viewers, updates.  Next: reactivation in `ReceivePath`, and `WebDispatcher` over the done
channels of `ClientLifecycle`.

No RECURSIVE operator stands in the modules that are to be proved about.  Abstract
specifications worth stating: one completion per request (devices), a FIFO with loss
(viewer queues).
