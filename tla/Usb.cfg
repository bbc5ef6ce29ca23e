\* One device named by an option and one port more, both watched by the monitor;
\* one insertion after the first ones, so that a port and a channel ID meet a
\* second device.  The bounds end the behaviours.
SPECIFICATION FairSpec
CONSTANTS
    Ports = {p1, p2}
    Explicit = {p1}
    Matching = {p1, p2}
    Chans = {c1, c2}
    SemCap = 1
    MaxPlugs = 1
    MaxIncs = 2
    MaxReqs = 2
    MaxFlight = 2
INVARIANTS TablesFaithful RequestsOnce
PROPERTY UnpluggedReleased
CHECK_DEADLOCK FALSE
