\* Two static channels with messages of up to one chunk beyond the limit and a
\* global limit that is not reached (four channels of 64 MB reach no more than
\* 256 MB); two dynamic IDs, each created twice, with two goroutines behind them
\* that a mutex serialises.  The bounds end the behaviours.
SPECIFICATION MCSpec
CONSTANTS
    Layers = {"static", "dynamic"}
    Channels = {c1, c2}
    Senders = {s1, s2}
    Servers = {"long", "abandons"}
    Limit = 3
    GlobalLimit = 9
    MaxLen = 4
    DynLimit = 3
    DynMaxLen = 3
    MaxMsgs = 2
    MaxSent = 2
    MaxFlight = 2
    Ids = {i1, i2}
    Workers = {w1, w2}
    Serialised = {i1, i2}
    MaxIncs = 2
SYMMETRY MCSymmetry
CONSTRAINT OneDirection
INVARIANTS  HandlersFaithful ChannelsAgree
PROPERTIES EveryMessageInOrder SendsContiguous
CHECK_DEADLOCK FALSE
