\* Two copies and two toggles of the clipboard, with two PDUs on the way: lists and
\* requests that cross; three blocks over two openings of the audio channel and
\* three offers; two openings of the microphone with two formats, one speaker and
\* two fillers; a camera with two device channels and a queue of two frames; three
\* sizes over three connections; two surfaces that overlap on the screen, with a
\* queue of one acknowledgement.  The bounds end the behaviours.
SPECIFICATION MCSpec
CONSTANTS
    Parts = {"clipboard", "playback", "microphone", "camera", "display", "graphics"}
    MaxCopies = 2
    MaxToggles = 2
    MaxAsks = 2
    MaxFlight = 2
    MaxBlocks = 3
    MaxOffers = 3
    MaxOpens = 2
    MaxPlayFlight = 2
    MaxTakes = 2
    MaxStarts = 2
    MaxSpeech = 2
    DevIds = {1, 2}
    QueueCap = 2
    MaxSamples = 3
    MaxFrames = 4
    MaxAskedSizes = 3
    MaxSessions = 3
    Surfaces = {1, 2}
    Width = 3
    AckCap = 1
    MaxCommands = 5
    MaxFrameIds = 2
INVARIANTS ClipboardFaithful PlaybackFaithful MicrophoneFaithful
             GraphicsFaithful
CHECK_DEADLOCK FALSE
