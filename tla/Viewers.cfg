SPECIFICATION MCSpec
CONSTANTS
    Parts = {"web", "dispatcher", "gui"}
    Tabs = {1, 2}
    MaxFrames = 2
    MaxBehind = 1
    Mons = {1, 2}
    MaxWidth = 2
    MaxPaints = 1
    MaxResizes = 1
    MaxGuiResizes = 2
INVARIANTS ViewerFaithful TabsFaithful WindowsFaithful
\* The bounds stop every part, and a program that ended does.
CHECK_DEADLOCK FALSE
