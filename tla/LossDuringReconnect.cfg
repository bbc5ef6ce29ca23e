CONSTANTS
    AutoReconnect = TRUE
    HeartbeatOn = FALSE
    MaxReconnectAttempts = 2
    ServerEndsInHandler = FALSE
    Stalls = FALSE
    App = app
    Goroutines = {app, r1}
    Senders = {}
    MaxConns = 2
    MaxResizes = 0
SPECIFICATION Spec
INVARIANT ConnectedReceives
CHECK_DEADLOCK FALSE
