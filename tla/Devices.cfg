\* Two print jobs at a time of three, with two pieces of data between them, and a second
\* handshake; two names in a shared directory, two files open and one object made by the
\* local user; one card context, two connections of its reader and three insertions; a
\* port opened among two descriptors, with one read at a time.  The bounds end the
\* behaviours.
SPECIFICATION MCSpec
CONSTANTS
    Parts = {"redirection", "disk", "card", "serial"}
    Printers = {1, 2}
    Chunks = {"x", "y"}
    MaxPrintJobs = 2
    MaxJobs = 3
    MaxChunks = 2
    MaxInbox = 2
    MaxHandshakes = 2
    Names = {"a", "b"}
    Root = "root"
    MaxObjects = 3
    MaxCreates = 2
    MaxOpen = 2
    MaxLocal = 1
    Contexts = {1}
    Handles = {11, 12}
    Ops = {w1}
    CounterRange = 2
    MaxEvents = 3
    MaxEpochs = 2
    Fds = {3, 4}
    Readers = {g1}
    Bauds = {9600, 4800}
    Timeouts = {0, 1}
INVARIANTS RedirectionFaithful DiskFaithful CardFaithful 
CHECK_DEADLOCK FALSE
