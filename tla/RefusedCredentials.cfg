\* The versions of the code, a single Connect.
SPECIFICATION Spec
CONSTANTS
    NumTLS = 4
    NumCSSP = 3
    NumChannels = 2
    MaxReads = 2
    MaxCalls = 1
PROPERTIES RefusalStops
CHECK_DEADLOCK FALSE
