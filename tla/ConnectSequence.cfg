\* The versions and read limits of the code, four channels, one reconnection.
\* Connect returns and nothing may follow: the model stops there.
SPECIFICATION Spec
CONSTANTS
    NumTLS = 4
    NumCSSP = 3
    NumChannels = 4
    MaxReads = 10
    MaxCalls = 2
INVARIANTS TypeOK InfoProtected  SocketsOwned
PROPERTIES  ConnectEnds
CHECK_DEADLOCK FALSE
