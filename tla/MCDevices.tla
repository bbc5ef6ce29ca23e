------------------------------ MODULE MCDevices ------------------------------
(***************************************************************************)
(* The redirected devices for TLC, in one run: the channel with the        *)
(* printers, a shared directory, a smart card reader and a serial port.    *)
(* The devices share the channel and nothing else, so a behaviour runs one *)
(* of them.                                                                *)
(***************************************************************************)
EXTENDS Naturals, FiniteSets

CONSTANTS Parts, MaxJobs, Printers, Chunks, MaxPrintJobs, MaxChunks, MaxInbox,
          MaxHandshakes, Names, Root, MaxObjects, MaxCreates, MaxOpen, MaxLocal,
          Contexts, Handles, Ops, CounterRange, MaxEvents, MaxEpochs, Fds, Readers,
          Bauds, Timeouts

ASSUME DevicesAssumption ==
    /\ Fds \subseteq Nat \ {0}
    /\ Contexts \subseteq Nat \ {0} /\ Handles \subseteq Nat \ {0}
    /\ {"free", "loop", "cancelled"} \cap Ops = {}
    /\ CounterRange \in Nat \ {0} /\ MaxInbox \in Nat
    /\ IsFiniteSet(Names) /\ MaxObjects \in Nat /\ MaxObjects > 1
    /\ MaxOpen \in Nat

VARIABLES part,
          use, inbox, gotServerCap, gotIDConfirm, handshakes, heard, sent,
          repeated, held, jobs, nextJob, wrote, printed, owed, stray, cachedConfig,
          added,
          readOnly, tree, kind, size, files, nextID, fds, astray, touched, refused,
          local,
          cardEpoch, tracked, contexts, cardCtx, lock, loop, ops, wire, used,
          cards, owner, present, counter, known, cancelled, skewed, foreign,
          fd, open, term, timeouts, asked, reads, misread, portEpoch

\* Line controls, one with the stop bits the terminal has not, and flow controls.
MCLines ==
    {[stop |-> 1, parity |-> "even", bits |-> 7], [stop |-> 2, parity |-> "none", bits |-> 8],
     [stop |-> 0, parity |-> "none", bits |-> 8]}
MCFlows == {{}, {"crtscts"}}

Redir == INSTANCE DeviceRedirection WITH
    loop <- held, nextID <- nextJob, MaxCreates <- MaxJobs
Disk == INSTANCE DiskDevice
Card == INSTANCE SmartCard WITH
    epoch <- cardEpoch
Port == INSTANCE SerialPort WITH
    epoch <- portEpoch, Lines <- MCLines, Flows <- MCFlows

redirectionVars == <<use, inbox, gotServerCap, gotIDConfirm, handshakes, heard,
                     sent, repeated, held, jobs, nextJob, wrote, printed, owed,
                     stray, cachedConfig, added>>
diskVars == <<readOnly, tree, kind, size, files, nextID, fds, astray, touched,
              refused, local>>
cardVars == <<cardEpoch, tracked, contexts, cardCtx, lock, loop, ops, wire, used,
              cards, owner, present, counter, known, cancelled, skewed, foreign>>
serialVars == <<fd, open, term, timeouts, asked, reads, misread, portEpoch>>
mcVars == <<part, redirectionVars, diskVars, cardVars, serialVars>>

\* What is not run starts in one state.
MCInit ==
    /\ part \in Parts
    /\ Redir!Init
    /\ Disk!Init
    /\ Card!Init
    /\ Port!Init
    /\ part # "redirection" => use = "print"
    /\ part # "disk" => readOnly = FALSE /\ tree["a"] # 0
    /\ part # "card" => ~present

MCNext ==
    /\ UNCHANGED part
    /\ \/ part = "redirection" /\ Redir!Next /\ UNCHANGED <<diskVars, cardVars, serialVars>>
       \/ part = "disk" /\ Disk!Next /\ UNCHANGED <<redirectionVars, cardVars, serialVars>>
       \/ part = "card" /\ Card!Next /\ UNCHANGED <<redirectionVars, diskVars, serialVars>>
       \/ part = "serial" /\ Port!Next /\ UNCHANGED <<redirectionVars, diskVars, cardVars>>

MCSpec == MCInit /\ [][MCNext]_mcVars

\* The properties of the modules, under the names of this one: see there.
RedirectionFaithful == Redir!RedirectionFaithful
DiskFaithful == Disk!DiskFaithful
CardFaithful == Card!CardFaithful
SerialFaithful == Port!SerialFaithful
==============================================================================
