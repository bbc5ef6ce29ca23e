----------------------------- MODULE MCEndpoints -----------------------------
(***************************************************************************)
(* The endpoints of the dynamic channels for TLC, in one run.  They share  *)
(* no state but the connection, which ClientLifecycle and DynamicChannels  *)
(* model, so a behaviour runs one of them.                                 *)
(***************************************************************************)
EXTENDS Naturals, Sequences

CONSTANTS Parts, MaxCopies, MaxToggles, MaxAsks, MaxFlight, MaxBlocks, MaxOffers,
          MaxOpens, MaxPlayFlight, MaxTakes, MaxStarts, MaxSpeech, DevIds,
          QueueCap, MaxSamples, MaxFrames, MaxAskedSizes, MaxSessions, Surfaces,
          Width, AckCap, MaxCommands, MaxFrameIds

ASSUME EndpointsAssumption ==
    /\ MaxSamples \in Nat /\ MaxStarts \in Nat
    /\ Surfaces \subseteq Nat \ {0} /\ Width \in Nat \ {0}

VARIABLES part,
          srvLong, capsSent, capsSeen, srvClip, srvList, srvAsked, answer,
          toClient, serverCaps, useLongFormatNames, ready, enabled, localText,
          localImage, pendingFormat, loop, viewer, copies, toggles, asks,
          delivered, outstanding, crossing, early,
          host, hostFormats, block, rest, offers, opens, playFlight, filter,
          handler, served, clientFormats, playReady, pendingWave, wave, confirmed,
          heard,
          asker, asking, take, recording, accepted, activeFormat, epoch, leftover,
          opening, filler, silenceStop, sendMu, call, speech, announced, torn,
          mixed, spoken, lateSilence,
          enum, devSendFns, srvStream, waits, starts, samples, frames, streaming,
          streamChID, sampleCh, sampleBuf, getter, stopped, capture, inHand,
          readBuf, discarded, response,
          session, wanted, optsSize, dispHandler, onReady, pendingResize,
          pendingMonitors, app, flush, srvSize, kindOf, earlyResize, raced,
          mixedKinds,
          srvSurfaces, srvCache, srvTiles, commands, surfaces, outputMap, cache,
          progressive, inFrame, curFrameID, dirty, framesDecoded, screen, owner,
          touched, v10, ending, ackCh, ackHand, acked, overflowed

Format(tag, channels, fast) == [tag |-> tag, channels |-> channels, fast |-> fast]

\* One server leads with a codec the client has not, and offers MS after IMA ADPCM.
MCOffers ==
    {<<Format("other", 2, TRUE), Format("pcm", 1, FALSE), Format("ima", 2, TRUE),
       Format("ms", 2, TRUE)>>,
     <<Format("ima", 2, FALSE), Format("pcm", 2, TRUE)>>}

Clip == INSTANCE Clipboard
Play == INSTANCE AudioOutput WITH
    ready <- playReady, Offers <- MCOffers
Mike == INSTANCE AudioInput
Cam == INSTANCE Camera WITH
    answer <- response
Disp == INSTANCE DisplayControl WITH
    early <- earlyResize, mixed <- mixedKinds
Gfx == INSTANCE GraphicsPipeline

clipboardVars == <<srvLong, capsSent, capsSeen, srvClip, srvList, srvAsked, answer,
                   toClient, serverCaps, useLongFormatNames, ready, enabled,
                   localText, localImage, pendingFormat, loop, viewer, copies,
                   toggles, asks, delivered, outstanding, crossing, early>>
playbackVars == <<host, hostFormats, block, rest, offers, opens, playFlight,
                  filter, handler, served, clientFormats, playReady, pendingWave,
                  wave, confirmed, heard>>
microphoneVars == <<asker, asking, take, recording, accepted, activeFormat, epoch,
                    leftover, opening, filler, silenceStop, sendMu, call, speech,
                    announced, torn, mixed, spoken, lateSilence>>
cameraVars == <<enum, devSendFns, srvStream, waits, starts, samples, frames,
                streaming, streamChID, sampleCh, sampleBuf, getter, stopped,
                capture, inHand, readBuf, discarded, response>>
displayVars == <<session, wanted, optsSize, dispHandler, onReady, pendingResize,
                 pendingMonitors, app, flush, srvSize, kindOf, earlyResize, raced,
                 mixedKinds>>
graphicsVars == <<srvSurfaces, srvCache, srvTiles, commands, surfaces, outputMap,
                  cache, progressive, inFrame, curFrameID, dirty, framesDecoded,
                  screen, owner, touched, v10, ending, ackCh, ackHand, acked,
                  overflowed>>
mcVars == <<part, clipboardVars, playbackVars, microphoneVars, cameraVars, displayVars, graphicsVars>>

\* What is not run starts in one state.
MCInit ==
    /\ part \in Parts
    /\ Clip!Init
    /\ Play!Init
    /\ Mike!Init
    /\ Cam!Init
    /\ Disp!Init
    /\ Gfx!Init
    /\ part # "clipboard" => srvLong = FALSE
    /\ part # "playback" => filter = [stereo |-> FALSE, fast |-> FALSE, pcmOnly |-> FALSE]
    /\ part # "graphics" => v10 = FALSE

MCNext ==
    /\ UNCHANGED part
    /\ \/ part = "clipboard" /\ Clip!Next /\ UNCHANGED <<playbackVars, microphoneVars,
                            cameraVars, displayVars, graphicsVars>>
       \/ part = "playback" /\ Play!Next /\ UNCHANGED <<clipboardVars, microphoneVars,
                            cameraVars, displayVars, graphicsVars>>
       \/ part = "microphone" /\ Mike!Next /\ UNCHANGED <<clipboardVars, playbackVars,
                            cameraVars, displayVars, graphicsVars>>
       \/ part = "camera" /\ Cam!Next /\ UNCHANGED <<clipboardVars, playbackVars,
                            microphoneVars, displayVars, graphicsVars>>
       \/ part = "display" /\ Disp!Next /\ UNCHANGED <<clipboardVars, playbackVars,
                            microphoneVars, cameraVars, graphicsVars>>
       \/ part = "graphics" /\ Gfx!Next /\ UNCHANGED <<clipboardVars, playbackVars,
                            microphoneVars, cameraVars, displayVars>>

MCSpec == MCInit /\ [][MCNext]_mcVars

\* The properties of the modules, under the names of this one: see there.
ClipboardFaithful == Clip!ClipboardFaithful
PlaybackFaithful == Play!PlaybackFaithful
MicrophoneFaithful == Mike!MicrophoneFaithful
CameraFaithful == Cam!CameraFaithful
ResizesFaithful == Disp!ResizesFaithful
GraphicsFaithful == Gfx!GraphicsFaithful
==============================================================================
