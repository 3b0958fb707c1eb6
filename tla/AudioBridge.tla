---------------------------- MODULE AudioBridge ----------------------------
(***************************************************************************)
(* The life of one voip::RingRtcSipBridge: PJSIP's worker P wires it to a  *)
(* call and starts it from onCallMediaState() (wireBridgeAudio() in        *)
(* daemon/main.cpp); RingRTC's callback thread R stops it, waits until the *)
(* leg is deleted, and destroys it; the feeder thread moves samples        *)
(* between PJSIP and RingRTC; PJMEDIA's clock thread drives the resample   *)
(* ports that lead into the bridge.                                        *)
(*                                                                         *)
(* The names carry the prefix Audio so that one module of proofs can       *)
(* extend this module and RingBuffer.                                      *)
(***************************************************************************)
EXTENDS Integers

CONSTANT MaxMediaEvents \* bound: onCallMediaState() firings of one call

ASSUME AudioAssumption == MaxMediaEvents \in Nat

VARIABLES
    running,       \* feeder_running_
    active,        \* active_ of both ports
    pairs,         \* resample port pairs registered in the conference bridge
    recorded,      \* resample_pool_ is set (HasResamplePorts())
    thread,        \* the feeder thread itself
    joinable,      \* feeder_thread_.joinable()
    media,         \* where P is in onCallMediaState()
    nMedia,        \* onCallMediaState() firings so far
    stop,          \* where R is in Stop() or the destructor
    inDtor,        \* Stop() was called by ~RingRtcSipBridge()
    clock,         \* the clock thread is inside a resample port
    faults,        \* fatal errors committed
    missed         \* history: Stop() found no thread to join, Start() not yet
                   \* having assigned it

audioVars == <<running, active, pairs, recorded, thread, joinable, media, nMedia,
               stop, inDtor, clock, faults, missed>>

AudioInit ==
    /\ running = FALSE
    /\ active = FALSE
    /\ pairs = 0
    /\ recorded = FALSE
    /\ thread = "none"
    /\ joinable = FALSE
    /\ media = "idle"
    /\ nMedia = 0
    /\ stop = "inUse"
    /\ inDtor = FALSE
    /\ clock = "idle"
    /\ faults = {}
    /\ missed = FALSE

-----------------------------------------------------------------------------
(* P: onCallMediaState() -> wireBridgeAudio() -> Start()                   *)

MediaAllowed ==
    /\ media = "idle"
    /\ nMedia < MaxMediaEvents
    /\ ~inDtor
    /\ stop /= "freed"

\* Plausible bug: a second firing wires a second pair of ports.
MediaStateUnguarded ==
    /\ MediaAllowed
    /\ nMedia' = nMedia + 1
    /\ media' = "wire"
    /\ UNCHANGED <<running, active, pairs, recorded, thread, joinable, stop, inDtor,
                   clock, faults, missed>>

\* The guard: only the first firing of a call wires its audio.
MediaState ==
    /\ MediaAllowed
    /\ nMedia' = nMedia + 1
    /\ media' = IF recorded THEN "idle" ELSE "wire"
    /\ UNCHANGED <<running, active, pairs, recorded, thread, joinable, stop, inDtor,
                   clock, faults, missed>>

\* Create the resample ports, connect them, SetResamplePorts().
Wire ==
    /\ media = "wire"
    /\ media' = "start"
    /\ pairs' = pairs + 1
    /\ recorded' = TRUE
    /\ UNCHANGED <<running, active, thread, joinable, nMedia, stop, inDtor, clock,
                   faults, missed>>

\* Start(): feeder_running_.exchange(true).
StartExchange ==
    /\ media = "start"
    /\ media' = IF running THEN "idle" ELSE "activate"
    /\ running' = TRUE
    /\ UNCHANGED <<active, pairs, recorded, thread, joinable, nMedia, stop, inDtor,
                   clock, faults, missed>>

\* Start(): activate both ports.
StartActivate ==
    /\ media = "activate"
    /\ media' = "spawn"
    /\ active' = TRUE
    /\ UNCHANGED <<running, pairs, recorded, thread, joinable, nMedia, stop, inDtor,
                   clock, faults, missed>>

\* Start(): feeder_thread_ = std::thread(...); assigning to a joinable
\* std::thread terminates the process.
StartSpawn ==
    /\ media = "spawn"
    /\ media' = "idle"
    /\ thread' = "running"
    /\ joinable' = TRUE
    /\ faults' = faults \cup (IF joinable THEN {"terminate"} ELSE {})
    /\ UNCHANGED <<running, active, pairs, recorded, nMedia, stop, inDtor, clock,
                   missed>>

-----------------------------------------------------------------------------
(* R: Stop() at the start of stopSipBridge(), then the destructor          *)

StopBegin ==
    /\ stop = "inUse"
    /\ stop' = "exchange"
    /\ UNCHANGED <<running, active, pairs, recorded, thread, joinable, media, nMedia,
                   inDtor, clock, faults, missed>>

\* The leg's DISCONNECTED callback was the last of its callbacks, the leg is
\* deleted, and bridge.reset() enters the destructor.
DestructorBegin ==
    /\ stop = "stopped"
    /\ media = "idle"
    /\ inDtor' = TRUE
    /\ stop' = "exchange"
    /\ UNCHANGED <<running, active, pairs, recorded, thread, joinable, media, nMedia,
                   clock, faults, missed>>

\* Where Stop() returns to.
StopReturn == IF inDtor THEN "remove" ELSE "stopped"

\* Stop(): feeder_running_.exchange(false); return if it was not running.
StopExchange ==
    /\ stop = "exchange"
    /\ stop' = IF running THEN "join" ELSE StopReturn
    /\ running' = FALSE
    /\ UNCHANGED <<active, pairs, recorded, thread, joinable, media, nMedia, inDtor,
                   clock, faults, missed>>

\* Plausible bug: the feeder thread is not joined.
StopNoJoin ==
    /\ stop = "join"
    /\ stop' = "deactivate"
    /\ UNCHANGED <<running, active, pairs, recorded, thread, joinable, media, nMedia,
                   inDtor, clock, faults, missed>>

\* Stop(): join the feeder, if there is a thread to join.
StopJoin ==
    /\ stop = "join"
    /\ joinable => thread = "exited"
    /\ stop' = "deactivate"
    /\ joinable' = FALSE
    /\ missed' = (missed \/ ~joinable)
    /\ UNCHANGED <<running, active, pairs, recorded, thread, media, nMedia, inDtor,
                   clock, faults>>

\* Stop(): deactivate both ports.
StopDeactivate ==
    /\ stop = "deactivate"
    /\ stop' = StopReturn
    /\ active' = FALSE
    /\ UNCHANGED <<running, pairs, recorded, thread, joinable, media, nMedia, inDtor,
                   clock, faults, missed>>

\* ~RingRtcSipBridge(): remove the recorded pair from the conference bridge,
\* which waits for the clock thread to leave it.
DestructorRemove ==
    /\ stop = "remove"
    /\ recorded => clock = "idle"
    /\ stop' = "free"
    /\ pairs' = IF recorded THEN pairs - 1 ELSE pairs
    /\ recorded' = FALSE
    /\ UNCHANGED <<running, active, thread, joinable, media, nMedia, inDtor, clock,
                   faults, missed>>

\* The members go: ports, buffers, feeder_thread_ - destroying a joinable
\* std::thread terminates the process.
DestructorFree ==
    /\ stop = "free"
    /\ stop' = "freed"
    /\ faults' = faults \cup (IF joinable THEN {"terminate"} ELSE {})
    /\ UNCHANGED <<running, active, pairs, recorded, thread, joinable, media, nMedia,
                   inDtor, clock, missed>>

-----------------------------------------------------------------------------
(* The feeder and the clock                                                *)

\* Plausible bug: the loop does not look at feeder_running_.
FeederNeverStops == FALSE /\ thread = "running" /\ UNCHANGED audioVars

\* FeederLoop(): a tick, while feeder_running_ holds, leaves this state
\* alone; the first tick that finds it false leaves the loop.
FeederExit ==
    /\ thread = "running"
    /\ ~running
    /\ thread' = "exited"
    /\ UNCHANGED <<running, active, pairs, recorded, joinable, media, nMedia, stop,
                   inDtor, clock, faults, missed>>

\* The clock thread enters a registered resample port ...
ClockEnter ==
    /\ clock = "idle"
    /\ pairs > 0
    /\ clock' = "frame"
    /\ UNCHANGED <<running, active, pairs, recorded, thread, joinable, media, nMedia,
                   stop, inDtor, faults, missed>>

\* ... and through it PutFrameCallback()/GetFrameCallback() of the bridge.
ClockFrame ==
    /\ clock = "frame"
    /\ clock' = "idle"
    /\ faults' = faults \cup (IF stop = "freed" THEN {"freed port"} ELSE {})
    /\ UNCHANGED <<running, active, pairs, recorded, thread, joinable, media, nMedia,
                   stop, inDtor, missed>>

-----------------------------------------------------------------------------
StartNext == Wire \/ StartExchange \/ StartActivate \/ StartSpawn

StopNext ==
    \/ DestructorBegin \/ StopExchange \/ StopJoin \/ StopDeactivate
    \/ DestructorRemove \/ DestructorFree

AudioNext ==
    \/ MediaState \/ StartNext \/ StopBegin \/ StopNext
    \/ FeederExit \/ ClockEnter \/ ClockFrame

AudioSpec == AudioInit /\ [][AudioNext]_audioVars

-----------------------------------------------------------------------------
(* Correctness                                                             *)

\* The variables stay in their domains.
AudioTypeOK ==
    /\ {running, active, recorded, joinable, inDtor, missed} \subseteq BOOLEAN
    /\ pairs \in Nat
    /\ thread \in {"none", "running", "exited"}
    /\ media \in {"idle", "wire", "start", "activate", "spawn"}
    /\ nMedia \in 0..MaxMediaEvents
    /\ stop \in {"inUse", "exchange", "join", "deactivate", "stopped", "remove",
                 "free", "freed"}
    /\ clock \in {"idle", "frame"}
    /\ faults \subseteq {"terminate", "freed port"}

\* "Stops the feeder loop ... Safe to call even if Start() was never called"
\* (ringrtc_sip_bridge.h:45-46): the bridge is never destroyed, nor started
\* again, over a feeder thread nobody joined - that would end the process.
\* One race is excepted: Stop() between feeder_running_.exchange(true) and the
\* assignment of feeder_thread_ has nothing to join, and the destructor finds
\* feeder_running_ false.  However Start(), Stop(), repeated media events and
\* the destructor interleave, there is no other way.
NeverTerminates == "terminate" \in faults => missed

\* The clock thread never reaches a freed port: the destructor unregisters
\* the resample ports before the ports they lead to are destroyed.  It knows
\* one pair, so a call has one, however often onCallMediaState() fires.
NoFreedPort == "freed port" \notin faults

\* Ending a call terminates: Stop() does not wait for a feeder that does not
\* stop, and the bridge is destroyed.
DestructionCompletes == (stop = "exchange") ~> (stop = "freed")
=============================================================================
