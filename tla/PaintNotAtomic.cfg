\* Two updates of one PDU, the first drawn by a handler with a paint of its own.
CONSTANTS
    Blocks = {1}
    Codes = {"orders", "new"}
    HistSize = 2
    MaxUpdates = 2
    MaxLength = 2
    UncompressedFlush = FALSE
    SlowInFinalization = FALSE
SPECIFICATION Spec
INVARIANT PduAtomic
CHECK_DEADLOCK FALSE
