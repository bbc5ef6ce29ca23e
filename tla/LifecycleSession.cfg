\* Every option, packet handlers that stall and a server that redirects, without resizes:
\* the callbacks of a resize are outside AppSession.
CONSTANTS
    AutoReconnect = TRUE
    HeartbeatOn = TRUE
    MaxReconnectAttempts = 2
    ServerEndsInHandler = TRUE
    Stalls = TRUE
    App = app
    Goroutines = {app, r1, r2}
    Senders = {s1}
    MaxConns = 2
    MaxResizes = 0
SPECIFICATION FairSpec
INVARIANTS ReconnectExclusive DoneReady 
PROPERTIES AppSession LossNoticed
CHECK_DEADLOCK FALSE
