------------------------------ MODULE MCViewers ------------------------------
(***************************************************************************)
(* The viewers for TLC, in one run: the web viewer, with a tab for the     *)
(* whole desktop or for each monitor, and the native windows.  A program   *)
(* has one of them, so a behaviour runs one.                               *)
(***************************************************************************)
EXTENDS Naturals, FiniteSets

CONSTANTS Parts, MaxBehind, MaxGuiResizes, Tabs, MaxFrames, Mons, MaxWidth,
          MaxPaints, MaxResizes

ASSUME ViewersAssumption ==
    /\ IsFiniteSet(Mons) /\ Mons = 1 .. Cardinality(Mons)
    /\ MaxWidth \in Nat \ {0} /\ 0 \notin Tabs

VARIABLES part,
          webClient, clientMu, cb, webTab, version, wire, redraws,
          width, posX, layout, client, lock, stuck, sessions, tab, desktop, todo,
          inPaint, frameBatch, resizes,
          guiWidth, resizing, resizingIdx, timers, asked, told, guiDesktop,
          guiTodo, guiInPaint, guiBatch, child, skipped, lost, paints, guiResizes

Web == INSTANCE WebViewer WITH
    tab <- webTab, client <- webClient, asked <- redraws, QueueCap <- MaxBehind
Dispatcher == INSTANCE WebDispatcher WITH
    QueueCap <- MaxBehind
Gui == INSTANCE GuiBroker WITH
    width <- guiWidth, desktop <- guiDesktop, todo <- guiTodo,
    inPaint <- guiInPaint, frameBatch <- guiBatch, resizes <- guiResizes,
    MaxResizes <- MaxGuiResizes, QueueCap <- MaxBehind

webVars == <<webClient, clientMu, cb, webTab, version, wire, redraws>>
dispatcherVars == <<width, posX, layout, client, lock, stuck, sessions, tab,
                    desktop, todo, inPaint, frameBatch, resizes>>
guiVars == <<guiWidth, resizing, resizingIdx, timers, asked, told, guiDesktop,
             guiTodo, guiInPaint, guiBatch, child, skipped, lost, paints,
             guiResizes>>
mcVars == <<part, webVars, dispatcherVars, guiVars>>

\* What is not run starts in one state.
MCInit ==
    /\ part \in Parts
    /\ Web!Init
    /\ Dispatcher!Init
    /\ Gui!Init
    /\ part # "dispatcher" => width = [m \in Mons |-> 1]

MCNext ==
    /\ UNCHANGED part
    /\ \/ part = "web" /\ Web!Next /\ UNCHANGED <<dispatcherVars, guiVars>>
       \/ part = "dispatcher" /\ Dispatcher!Next /\ UNCHANGED <<webVars, guiVars>>
       \/ part = "gui" /\ Gui!Next /\ UNCHANGED <<webVars, dispatcherVars>>

MCSpec == MCInit /\ [][MCNext]_mcVars

\* The properties of the modules, under the names of this one: see there.
ViewerFaithful == Web!ViewerFaithful
TabsFaithful == Dispatcher!TabsFaithful
WindowsFaithful == Gui!WindowsFaithful
==============================================================================
