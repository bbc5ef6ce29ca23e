------------------------------ MODULE MCChannels ------------------------------
(***************************************************************************)
(* The static and the dynamic channels for TLC, in one run.  They share no *)
(* variable (DynamicChannels takes the "drdynvc" channel for a FIFO, which *)
(* is what VirtualChannels shows), so a behaviour runs one of them.  In    *)
(* the same way the two directions of each are checked one at a time.      *)
(***************************************************************************)
EXTENDS Naturals, Sequences, FiniteSets, FiniteSetsExt, TLC

CONSTANTS Channels, Senders, Servers, Limit, GlobalLimit, MaxLen, MaxMsgs,
          MaxSent, MaxFlight, DynLimit, DynMaxLen, Ids, Workers, Serialised,
          MaxIncs, Layers

\* What the proofs need of the constants.  The global limit leaves room for a message
\* more than there are channels where a server leaves messages unfinished: what it drops
\* for that limit would leave the buffer before it in place.
ASSUME ChannelsAssumption ==
    /\ IsFiniteSet(Channels)
    /\ Limit \in Nat /\ GlobalLimit \in Nat /\ MaxLen \in Nat
    /\ "abandons" \in Servers => Cardinality(Channels) * Limit + Limit <= GlobalLimit
    /\ "free" \notin Senders
    /\ DynLimit \in Nat /\ DynMaxLen \in Nat /\ DynMaxLen <= DynLimit
    /\ Serialised \subseteq Ids

VARIABLES layer,
          server, cur, flight, vcReassembly, vcReassemblyTotal, got, dropped,
          writeMu, snd, sent, wire, down,
          srv, dflight, chan, loop, opened, dgot, dsnd, dsent, dwire

Static == INSTANCE VirtualChannels
Dynamic == INSTANCE DynamicChannels WITH
    Limit <- DynLimit, MaxLen <- DynMaxLen,
    flight <- dflight, got <- dgot, snd <- dsnd, sent <- dsent, wire <- dwire

staticVars == <<server, cur, flight, vcReassembly, vcReassemblyTotal, got,
                dropped, writeMu, snd, sent, wire, down>>
dynamicVars == <<srv, dflight, chan, loop, opened, dgot, dsnd, dsent, dwire>>
mcVars == <<layer, staticVars, dynamicVars>>

MCInit == layer \in Layers /\ Static!Init /\ Dynamic!Init

MCNext ==
    /\ UNCHANGED layer
    /\ \/ layer = "static" /\ Static!Next /\ UNCHANGED dynamicVars
       \/ layer = "dynamic" /\ Dynamic!Next /\ UNCHANGED staticVars

MCSpec == MCInit /\ [][MCNext]_mcVars

MCSymmetry == Permutations(Channels) \cup Permutations(Senders)
              \cup Permutations(Ids) \cup Permutations(Workers)

Creations == MapThenSumSet(LAMBDA i : srv[i].inc, Ids)

OneDirection ==
    /\ (\A s \in Senders : sent[s] = 0) \/ (\A ch \in Channels : cur[ch].n = 0)
    /\ \/ (\A i \in Ids : dsent[i] = 0) /\ Creations <= MaxIncs + 1
       \/ (\A i \in Ids : srv[i].n = 0) /\ Creations <= MaxIncs

\* The properties of the two modules, under the names of this one: see there.
MessagesFaithful == Static!MessagesFaithful
HandlersFaithful == Dynamic!HandlersFaithful
ChannelsAgree == Dynamic!ChannelsAgree
EveryMessageInOrder == Dynamic!EveryMessageInOrder

\* What several goroutines send on one channel is never mixed: neither the chunks of a
\* static channel nor the fragments of a dynamic one that serialises its senders.
SendsContiguous == Static!ChunksContiguous /\ Dynamic!FragmentsContiguous
=============================================================================
