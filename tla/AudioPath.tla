----------------------------- MODULE AudioPath ------------------------------
(***************************************************************************)
(* The way of the samples from the PBX to RingRTC: the ring mic_buffer_    *)
(* inside the RingRtcSipBridge that owns it.  The conference clock pushes  *)
(* from PutFrameCallback() while it is in a resample port, the feeder pops *)
(* once per tick of FeederLoop(), and Start(), Stop() and the destructor   *)
(* run around both.  playout_buffer_ is the same ring with the two threads *)
(* exchanged.                                                              *)
(***************************************************************************)
EXTENDS RingBuffer, AudioBridge

VARIABLE due     \* what the clock ("frame", then "push") and the feeder
                 \* ("pop") have decided and not yet done

pathVars == <<vars, audioVars, due>>

PathInit == Init /\ AudioInit /\ due = {}

-----------------------------------------------------------------------------
(* The clock: PutFrameCallback()                                           *)

FrameBegins ==
    /\ ClockEnter
    /\ due' = due \cup {"frame"}
    /\ UNCHANGED vars

\* The frame holds audio and the port is active.
FrameAccepted ==
    /\ "frame" \in due
    /\ active
    /\ due' = (due \ {"frame"}) \cup {"push"}
    /\ UNCHANGED <<vars, audioVars>>

\* mic_buffer_->push() is entered.
FramePushed(samples) ==
    /\ "push" \in due
    /\ PushBegin(samples)
    /\ due' = due \ {"push"}
    /\ UNCHANGED audioVars

\* The callback returns: push() is through, or was not called because the
\* port is inactive or the frame without audio.
FrameEnds ==
    /\ "push" \notin due
    /\ ppc = "idle"
    /\ ClockFrame
    /\ due' = due \ {"frame"}
    /\ UNCHANGED vars

-----------------------------------------------------------------------------
(* The feeder: FeederLoop()                                                *)

\* feeder_running_ is set: sleep, whatever becomes of it meanwhile.
TickBegins ==
    /\ thread = "running"
    /\ running
    /\ "pop" \notin due
    /\ cpc = "idle"
    /\ due' = due \cup {"pop"}
    /\ UNCHANGED <<vars, audioVars>>

\* mic_buffer_->pop() is entered.
TickPops(samples) ==
    /\ "pop" \in due
    /\ PopBegin(samples)
    /\ due' = due \ {"pop"}
    /\ UNCHANGED audioVars

\* Between two ticks the loop finds feeder_running_ false.
FeederLeaves ==
    /\ "pop" \notin due
    /\ cpc = "idle"
    /\ FeederExit
    /\ UNCHANGED <<vars, due>>

-----------------------------------------------------------------------------
\* The copy loops of push() and pop().
Copying(step) == step /\ UNCHANGED <<audioVars, due>>

\* Start() on PJSIP's worker, Stop() and the destructor on RingRTC's thread.
Owner(step) == step /\ UNCHANGED <<vars, due>>

Clock ==
    \/ FrameEnds
    \/ \E n \in 0..MaxChunk : FramePushed(n)
    \/ Copying(PushCopy \/ PushStore)

Feeder ==
    \/ TickBegins \/ FeederLeaves
    \/ \E n \in 0..MaxChunk : TickPops(n)
    \/ Copying(PopCopy \/ PopStore)

PathNext ==
    \/ FrameBegins \/ FrameAccepted \/ Clock \/ Feeder
    \/ Owner(MediaState \/ StartNext \/ StopBegin \/ StopNext)

\* Every started thread keeps running: the feeder wakes every 10 ms, and the
\* clock leaves a port it has entered.  Destroying the bridge waits for the
\* ports to be idle, which the clock offers again and again.
PathSpec ==
    /\ PathInit
    /\ [][PathNext]_pathVars
    /\ WF_pathVars(Owner(StartNext))
    /\ SF_pathVars(Owner(StopNext))
    /\ WF_pathVars(Feeder)
    /\ WF_pathVars(Clock)
=============================================================================
