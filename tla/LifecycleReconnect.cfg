\* Three connections and one resize.  A heartbeat that fires early, or a server that
\* redirects, lets an old receive loop meet the next connection, and then LoopsSafe
\* fails; without them a handler that stalls does no harm (see LoopsAlwaysSafe).
CONSTANTS
    AutoReconnect = TRUE
    HeartbeatOn = FALSE
    MaxReconnectAttempts = 2
    ServerEndsInHandler = FALSE
    Stalls = FALSE
    App = app
    Goroutines = {app, r1, r2}
    Senders = {}
    MaxConns = 3
    MaxResizes = 1
SPECIFICATION FairSpec
INVARIANTS TypeOK LoopsSafe
PROPERTIES ReconnectEnds ClosedIsFinal
CHECK_DEADLOCK FALSE
