\* One key update and a chunked message; pieces, both paths and the history's
\* end; every kind of order and three of them; a ring that wraps; two tiles;
\* both caches wrap.
CONSTANTS
    Parts = {"stream", "receive", "orders", "zgfx", "progressive", "clear"}
    Senders = {"input", "channel", "answer"}
    Chunked = {"channel"}
    MaxChunks = 2
    Threshold = 2
    MaxMessages = 3
    MaxPackets = 3
    Blocks = {b1, b2}
    Codes = {"orders", "new", "cached", "frame"}
    HistSize = 2
    MaxUpdates = 2
    MaxLength = 3
    UncompressedFlush = FALSE
    SlowInFinalization = FALSE
    Width = 3
    Wide = 2
    Slots = 1
    Kinds = {"opaque", "text", "label", "dst", "pat", "scr", "mem", "mem3", "line", "save"}
    OffScreen = {"opaque", "label", "pat", "mem", "line"}
    Bounded = {"text", "scr", "mem"}
    MaxOrders = 3
    Bytes = {1, 2}
    RingSize = 2
    MaxTokens = 4
    MaxRestarts = 1
    Tiles = {1, 2}
    Coarse = {1, 2}
    ParallelAt = 2
    Repeats = FALSE
    MaxBlocks = 3
    MaxClears = 1
    SeqMod = 3
    VBars = 2
    ShortVBars = 2
    Glyphs = {1}
    Columns = 2
    MaxTiles = 3
    MaxColumns = 3
    MaxResets = 1
SPECIFICATION MCSpec
SYMMETRY Symmetry
INVARIANTS StreamFaithful   DecodersFaithful
CHECK_DEADLOCK FALSE
