----------------------------- MODULE CallBridge -----------------------------
(***************************************************************************)
(* One account's call bridge (daemon/main.cpp): a Signal call, owned by    *)
(* RingRTC, joined to a SIP leg, owned by PJSIP.  Signal calls are bridged *)
(* OUT to the PBX by a dialled leg (BridgeCall); an INVITE from the PBX    *)
(* becomes an INVITE leg (IncomingSipCall) that places a Signal call.      *)
(*                                                                         *)
(* Threads: R, RingRTC's callback thread, running onCallState(); P, the    *)
(* PJSIP worker, running onIncomingCall() and the legs' callbacks; M, the  *)
(* main thread, running teardownAccount(); and the libsignal thread that   *)
(* forwards DTMF, whose whole step is under callHandoffMutex.  AccountState*)
(* is shared and, the mutex apart, unlocked.                               *)
(*                                                                         *)
(* RingRTC (one call at a time, events delivered in order) and PJSIP are   *)
(* external: they are modelled from how main.cpp uses them.                *)
(***************************************************************************)
EXTENDS Integers, Sequences, FiniteSets

CONSTANTS
    MaxCalls,      \* bound: Signal calls in one behaviour
    MaxLegs,       \* bound: SIP legs in one behaviour
    MaxInvites,    \* bound: INVITEs in one behaviour
    Directions,    \* which of "toSip", "toSignal" may happen
    Races,         \* bound: the kinds of races that may happen, see Race
    Teardown       \* may teardownAccount() run?

Kinds == {"call", "invite", "teardown", "late"}     \* of races, see Race

ASSUME BridgeAssumption ==
    /\ MaxCalls \in Nat
    /\ MaxLegs \in Nat
    /\ MaxInvites \in Nat
    /\ Directions \subseteq {"toSip", "toSignal"}
    /\ Races \subseteq Kinds
    /\ Teardown \in BOOLEAN

Calls == 1..MaxCalls
Legs == 1..MaxLegs
None == 0          \* nullptr, and RingRTC's "no call"
Threads == {"R", "P", "M"}

VARIABLES
    \* AccountState
    sipCall, incomingSipCall, bridge, isCallee, activeCallId,
    \* the heap: BridgeCall/IncomingSipCall objects and their RingRtcSipBridge
    leg, nLegs,
    \* RingRTC: its current call and the call_state events it still owes
    rtc, events, nCalls,
    \* the threads: program counter, local `call`, which stop function runs
    pc, held, stopping, callback,
    nInvites,
    \* history
    ended,         \* Signal calls that have ended
    bridged,       \* <<call, leg>> pairs joined by accept() or answer(200)
    dtmf,          \* the last touch-tone sent: who asked, which leg got it
    faults,        \* memory errors committed
    races          \* the races the handlers do not guard against, see Race

acctVars == <<sipCall, incomingSipCall, bridge, isCallee, activeCallId>>
heapVars == <<leg, nLegs>>
rtcVars == <<rtc, events, nCalls>>
threadVars == <<pc, held, stopping, callback>>
histVars == <<ended, bridged, dtmf, faults>>
vars == <<acctVars, heapVars, rtcVars, threadVars, nInvites, races, histVars>>

Events == {"INCOMING_AUDIO", "OUTGOING_AUDIO", "RINGING", "CONNECTED", "ENDED"}

NoLeg ==
    [kind |-> "none", alive |-> FALSE, bridgeLive |-> FALSE, dialog |-> "none",
     cb |-> {}, weHungUp |-> FALSE, acceptSent |-> FALSE,
     disconnected |-> FALSE, call |-> None]

NoCall == [call |-> None, dir |-> "none", st |-> "none"]

-----------------------------------------------------------------------------
(* RingRTC, as the C ABI of signal2sip_ringrtc.h shows it                  *)

Event(n, e) == [call |-> n, ev |-> e]

\* signal2sip_call_proceed(): the call starts ringing.
Proceed(n) ==
    IF rtc.call = n /\ rtc.st = "offered"
    THEN /\ rtc' = [rtc EXCEPT !.st = "ringing"]
         /\ events' = Append(Tail(events), Event(n, "RINGING"))
    ELSE /\ events' = Tail(events)
         /\ UNCHANGED rtc

\* ENDED and CONCLUDED arrive back to back and run the same handler; the
\* slot is free for the next call as soon as they are queued.
EndCurrentCall ==
    /\ events' = events \o <<Event(rtc.call, "ENDED"), Event(rtc.call, "ENDED")>>
    /\ ended' = ended \cup {rtc.call}
    /\ rtc' = NoCall

\* signal2sip_call_hangup(): ends whatever call is current.
Hangup ==
    IF rtc.call /= None
    THEN EndCurrentCall
    ELSE UNCHANGED <<rtc, events, ended>>

-----------------------------------------------------------------------------
(* Helpers of the handlers                                                 *)

\* Dereferencing a leg, or the bridge a leg refers to.
UseLeg(l) == IF leg[l].alive THEN {} ELSE {"leg used after delete"}
UseBridge(l) == IF leg[l].bridgeLive THEN {} ELSE {"bridge used after free"}

\* acct.bridge = make_unique<RingRtcSipBridge>(); new BridgeCall/Incoming...
\* The bridge a leg refers to has the leg's own index; assigning the
\* unique_ptr frees the bridge it held.
WithNewLeg(l, k, n, d) ==
    LET released == IF bridge = None THEN leg
                    ELSE [leg EXCEPT ![bridge].bridgeLive = FALSE]
    IN  [released EXCEPT ![l] = [NoLeg EXCEPT !.kind = k, !.alive = TRUE,
                                 !.bridgeLive = TRUE, !.call = n, !.dialog = d]]

\* What pj::Call::hangup() does to a dialog: an INVITE not answered yet is
\* rejected and reports DISCONNECTED before hangup() returns (the handler
\* finds weHungUp_ set); an established or outgoing dialog is closed by an
\* exchange with the PBX; on no dialog, or a dead one, hangup() throws.
HungUp(g) ==
    [g EXCEPT !.weHungUp = TRUE,
              !.dialog = CASE g.dialog = "ringing" -> "over"
                           [] g.dialog \in {"inviting", "confirmed"} -> "closing"
                           [] OTHER -> @,
              !.disconnected = @ \/ g.dialog = "ringing"]

Pointer(k) == IF k = "sip" THEN sipCall ELSE incomingSipCall

\* Nothing of an earlier call is left to do.
Quiet ==
    /\ rtc = NoCall
    /\ events = <<>>
    /\ \A t \in Threads : pc[t] = "idle"
    /\ sipCall = None
    /\ incomingSipCall = None
    /\ \A l \in Legs : leg[l].cb = {}

AccountUp == pc["M"] /= "gone"

\* What the handlers are not written for happens, and is remembered: a Signal
\* call ("call") or an INVITE that passes the busy check ("invite") comes
\* while something of another call, or a teardown, is under way; a teardown
\* begins in the middle of a call ("teardown"); the PBX takes longer than the
\* disconnect poll ("late").
Race(kind) ==
    /\ kind \in Races
    /\ races' = races \cup {kind}

RaceUnless(undisturbed, kind) ==
    IF undisturbed THEN UNCHANGED races ELSE Race(kind)

-----------------------------------------------------------------------------
Init ==
    /\ sipCall = None
    /\ incomingSipCall = None
    /\ bridge = None
    /\ isCallee = FALSE
    /\ activeCallId = None
    /\ leg = [l \in Legs |-> NoLeg]
    /\ nLegs = 0
    /\ rtc = NoCall
    /\ events = <<>>
    /\ nCalls = 0
    /\ pc = [t \in Threads |-> "idle"]
    /\ held = [t \in Threads |-> None]
    /\ stopping = [t \in Threads |-> "sip"]
    /\ callback = "none"
    /\ nInvites = 0
    /\ ended = {}
    /\ bridged = {}
    /\ dtmf = [from |-> None, leg |-> None]
    /\ faults = {}
    /\ races = {}

-----------------------------------------------------------------------------
(* The outside world                                                       *)

\* A Signal call arrives and RingRTC, having no call, reports it - also while
\* the last one is being cleared up.  After an INVITE, or during a teardown,
\* that is a race.
SignalCallArrives ==
    /\ "toSip" \in Directions
    /\ AccountUp
    /\ RaceUnless(Quiet \/ (nInvites = 0 /\ pc["M"] = "idle"), "call")
    /\ rtc.call = None
    /\ nCalls < MaxCalls
    /\ nCalls' = nCalls + 1
    /\ rtc' = [call |-> nCalls + 1, dir |-> "in", st |-> "offered"]
    /\ events' = Append(events, Event(nCalls + 1, "INCOMING_AUDIO"))
    /\ UNCHANGED <<acctVars, heapVars, threadVars, nInvites, histVars>>

\* The person called by an outgoing Signal call answers.
RemoteAnswers ==
    /\ rtc.dir = "out"
    /\ rtc.st = "ringing"
    /\ rtc' = [rtc EXCEPT !.st = "connected"]
    /\ events' = Append(events, Event(rtc.call, "CONNECTED"))
    /\ UNCHANGED <<acctVars, heapVars, nCalls, threadVars, nInvites, races,
                   histVars>>

\* The Signal call ends: remote hangup, another device answered, timeout.
SignalCallEnds ==
    /\ rtc.call /= None
    /\ EndCurrentCall
    /\ UNCHANGED <<acctVars, heapVars, nCalls, threadVars, nInvites, races,
                   bridged, dtmf, faults>>

\* The PBX answers a dialled leg - possibly crossing our CANCEL.
PbxAnswers(l) ==
    /\ leg[l].kind = "dialled"
    /\ leg[l].alive
    /\ leg[l].dialog = "inviting" \/ (leg[l].dialog = "closing" /\ ~leg[l].acceptSent)
    /\ "confirmed" \notin leg[l].cb
    /\ callback = "none" \/ held["P"] /= l
    /\ leg' = [leg EXCEPT ![l].dialog = IF @ = "inviting" THEN "confirmed" ELSE @,
                          ![l].cb = @ \cup {"confirmed", "media"}]
    /\ UNCHANGED <<acctVars, nLegs, rtcVars, threadVars, nInvites, races,
                   histVars>>

\* The PBX rejects, cancels or hangs up a leg.
PbxHangsUp(l) ==
    /\ leg[l].alive
    /\ leg[l].dialog \in {"inviting", "ringing", "confirmed"}
    /\ leg' = [leg EXCEPT ![l].dialog = "over", ![l].cb = @ \cup {"disconnected"}]
    /\ UNCHANGED <<acctVars, nLegs, rtcVars, threadVars, nInvites, races,
                   histVars>>

\* The PBX answers our BYE or CANCEL.
PbxConfirmsHangup(l) ==
    /\ leg[l].alive
    /\ leg[l].dialog = "closing"
    /\ leg' = [leg EXCEPT ![l].dialog = "over", ![l].cb = @ \cup {"disconnected"}]
    /\ UNCHANGED <<acctVars, nLegs, rtcVars, threadVars, nInvites, races,
                   histVars>>

-----------------------------------------------------------------------------
(* R: onCallState()                                                        *)

\* Every event first overwrites activeCallId and remotePeerId (a call has
\* one peer, so activeCallId stands for both).
Deliver(e) ==
    /\ pc["R"] = "idle"
    /\ events /= <<>>
    /\ Head(events).ev = e
    /\ activeCallId' = Head(events).call

OnOutgoingAudio ==
    /\ Deliver("OUTGOING_AUDIO")
    /\ Proceed(Head(events).call)
    /\ UNCHANGED <<sipCall, incomingSipCall, bridge, isCallee, heapVars,
                   nCalls, threadVars, nInvites, races, histVars>>

\* INCOMING_AUDIO: proceed only if canBridgeToSip() - the SIP registration
\* may be up or down.
OnIncomingAudio ==
    /\ Deliver("INCOMING_AUDIO")
    /\ \/ isCallee' = TRUE /\ Proceed(Head(events).call)
       \/ events' = Tail(events) /\ UNCHANGED <<isCallee, rtc>>
    /\ UNCHANGED <<sipCall, incomingSipCall, bridge, heapVars, nCalls,
                   threadVars, nInvites, races, histVars>>

\* RINGING on an incoming call: startSipDial() up to makeCall().
OnRingingDial ==
    /\ Deliver("RINGING")
    /\ isCallee
    /\ nLegs < MaxLegs
    /\ LET l == nLegs + 1 IN
       /\ leg' = WithNewLeg(l, "dialled", Head(events).call, "none")
       /\ nLegs' = l
       /\ bridge' = l
       /\ sipCall' = l
       /\ held' = [held EXCEPT !["R"] = l]
    /\ pc' = [pc EXCEPT !["R"] = "makeCall"]
    /\ events' = Tail(events)
    /\ UNCHANGED <<incomingSipCall, isCallee, rtc, nCalls, stopping, callback,
                   nInvites, races, histVars>>

\* RINGING on an outgoing call, or while the registration is down.
OnRingingIgnore ==
    /\ Deliver("RINGING")
    /\ events' = Tail(events)
    /\ UNCHANGED <<sipCall, incomingSipCall, bridge, isCallee, heapVars, rtc,
                   nCalls, threadVars, nInvites, races, histVars>>

\* startSipDial(): makeCall() sends the INVITE, or throws and is logged.
MakeCall ==
    /\ pc["R"] = "makeCall"
    /\ pc' = [pc EXCEPT !["R"] = "idle"]
    /\ \E d \in {"inviting", "none"} : leg' = [leg EXCEPT ![held["R"]].dialog = d]
    /\ faults' = faults \cup UseLeg(held["R"])
    /\ UNCHANGED <<acctVars, nLegs, rtcVars, held, stopping, callback,
                   nInvites, races, ended, bridged, dtmf>>

\* CONNECTED: answer the INVITE leg that was kept ringing for this moment.
OnConnected ==
    /\ Deliver("CONNECTED")
    /\ LET l == incomingSipCall
           answers == ~isCallee /\ l /= None
       IN  /\ faults' = faults \cup (IF answers THEN UseLeg(l) ELSE {})
           /\ IF answers /\ leg[l].dialog = "ringing"
              THEN /\ leg' = [leg EXCEPT ![l].dialog = "confirmed",
                                         ![l].cb = @ \cup {"media"}]
                   /\ bridged' = bridged \cup {<<Head(events).call, l>>}
              ELSE UNCHANGED <<leg, bridged>>
    /\ events' = Tail(events)
    /\ UNCHANGED <<sipCall, incomingSipCall, bridge, isCallee, nLegs, rtc,
                   nCalls, threadVars, nInvites, races, ended, dtmf>>

\* Plausible bug: the end of a call does not stop the dialled leg.
OnEndedSkipsDialled ==
    /\ Deliver("ENDED")
    /\ pc' = [pc EXCEPT !["R"] = "stop"]
    /\ stopping' = [stopping EXCEPT !["R"] = "inc"]
    /\ events' = Tail(events)
    /\ UNCHANGED <<sipCall, incomingSipCall, bridge, isCallee, heapVars, rtc,
                   nCalls, held, callback, nInvites, races, histVars>>

\* ENDED or CONCLUDED, of any call: stopSipBridge(), stopIncomingSipCall().
OnEnded ==
    /\ Deliver("ENDED")
    /\ pc' = [pc EXCEPT !["R"] = "stop"]
    /\ stopping' = [stopping EXCEPT !["R"] = "sip"]
    /\ events' = Tail(events)
    /\ UNCHANGED <<sipCall, incomingSipCall, bridge, isCallee, heapVars, rtc,
                   nCalls, held, callback, nInvites, races, histVars>>

-----------------------------------------------------------------------------
(* stopSipBridge() and stopIncomingSipCall(), on any of the threads        *)

\* Read the pointer without the lock, set weHungUp_, hangup().
StopHangup(t) ==
    /\ pc[t] = "stop"
    /\ LET l == Pointer(stopping[t]) IN
       IF l = None
       THEN /\ pc' = [pc EXCEPT ![t] = "reset"]
            /\ UNCHANGED <<leg, held, faults>>
       ELSE /\ pc' = [pc EXCEPT ![t] = "poll"]
            /\ held' = [held EXCEPT ![t] = l]
            /\ leg' = [leg EXCEPT ![l] = HungUp(@)]
            /\ faults' = faults \cup UseLeg(l)
    /\ UNCHANGED <<acctVars, nLegs, rtcVars, stopping, callback, nInvites,
                   races, ended, bridged, dtmf>>

\* Plausible bug: the leg is deleted without waiting for DISCONNECTED.
StopDoesNotPoll(t) ==
    /\ pc[t] = "poll"
    /\ pc' = [pc EXCEPT ![t] = "delete"]
    /\ UNCHANGED <<acctVars, heapVars, rtcVars, held, stopping, callback,
                   nInvites, races, histVars>>

\* The 50 x 100 ms poll of disconnected_ ends early ...
StopDisconnected(t) ==
    /\ pc[t] = "poll"
    /\ leg[held[t]].disconnected
    /\ pc' = [pc EXCEPT ![t] = "delete"]
    /\ faults' = faults \cup UseLeg(held[t])
    /\ UNCHANGED <<acctVars, heapVars, rtcVars, held, stopping, callback,
                   nInvites, races, ended, bridged, dtmf>>

\* Plausible bug: the poll has no deadline.
StopPollsForever(t) == FALSE /\ pc[t] = "poll" /\ UNCHANGED vars

\* ... or runs out: the PBX is slow, there is no dialog to disconnect, or the
\* polling thread is itself the one that would deliver the callback.
StopPollExpires(t) ==
    /\ pc[t] = "poll"
    /\ ~leg[held[t]].disconnected
    /\ RaceUnless(leg[held[t]].dialog = "none" \/ t = "P", "late")
    /\ pc' = [pc EXCEPT ![t] = "delete"]
    /\ faults' = faults \cup UseLeg(held[t])
    /\ UNCHANGED <<acctVars, heapVars, rtcVars, held, stopping, callback,
                   nInvites, ended, bridged, dtmf>>

\* delete call; acct.sipCall/incomingSipCall = nullptr - under the mutex.
\* ~Call() detaches the object from pjsua, so no later callback finds it.
StopDelete(t) ==
    /\ pc[t] = "delete"
    /\ pc' = [pc EXCEPT ![t] = "reset"]
    /\ faults' = faults \cup (IF leg[held[t]].alive THEN {} ELSE {"leg deleted twice"})
    /\ leg' = [leg EXCEPT ![held[t]].alive = FALSE, ![held[t]].cb = {}]
    /\ IF stopping[t] = "sip"
       THEN sipCall' = None /\ UNCHANGED incomingSipCall
       ELSE incomingSipCall' = None /\ UNCHANGED sipCall
    /\ UNCHANGED <<bridge, isCallee, activeCallId, nLegs, rtcVars, held,
                   stopping, callback, nInvites, races, ended, bridged, dtmf>>

\* acct.bridge.reset(), then on to the second stop function, or back to the
\* caller: onCallState() clears isCallee, teardownAccount() goes on.
StopReset(t) ==
    /\ pc[t] = "reset"
    /\ bridge' = None
    /\ leg' = IF bridge = None THEN leg ELSE [leg EXCEPT ![bridge].bridgeLive = FALSE]
    /\ held' = [held EXCEPT ![t] = None]
    /\ IF stopping[t] = "sip"
       THEN /\ pc' = [pc EXCEPT ![t] = "stop"]
            /\ stopping' = [stopping EXCEPT ![t] = "inc"]
            /\ UNCHANGED isCallee
       ELSE /\ pc' = [pc EXCEPT ![t] = IF t = "M" THEN "destroy" ELSE "idle"]
            /\ isCallee' = (isCallee /\ t /= "R")
            /\ UNCHANGED stopping
    /\ UNCHANGED <<sipCall, incomingSipCall, activeCallId, nLegs, rtcVars,
                   callback, nInvites, races, histVars>>

-----------------------------------------------------------------------------
(* P: BridgeAccount::onIncomingCall()                                      *)

\* PJSIP reports an INVITE whenever its worker is free and the account exists.
InviteArrives ==
    /\ "toSignal" \in Directions
    /\ AccountUp
    /\ pc["P"] = "idle"
    /\ nInvites < MaxInvites
    /\ nInvites' = nInvites + 1

\* 486 while either pointer is set, 404 without a destination.
InviteRejected ==
    /\ InviteArrives
    /\ UNCHANGED <<acctVars, heapVars, rtcVars, threadVars, races, histVars>>

\* Both pointers are null: go on, without a lock.
InviteChecked ==
    /\ InviteArrives
    /\ RaceUnless(Quiet, "invite")
    /\ sipCall = None
    /\ incomingSipCall = None
    /\ nLegs < MaxLegs
    /\ pc' = [pc EXCEPT !["P"] = "create"]
    /\ UNCHANGED <<acctVars, heapVars, rtcVars, held, stopping, callback,
                   histVars>>

\* A new bridge and a new IncomingSipCall, published in AccountState.
InviteCreate ==
    /\ pc["P"] = "create"
    /\ nLegs < MaxLegs
    /\ LET l == nLegs + 1 IN
       /\ leg' = WithNewLeg(l, "invite", None, "ringing")
       /\ nLegs' = l
       /\ bridge' = l
       /\ incomingSipCall' = l
       /\ held' = [held EXCEPT !["P"] = l]
    /\ pc' = [pc EXCEPT !["P"] = "ring"]
    /\ UNCHANGED <<sipCall, isCallee, activeCallId, rtcVars, stopping,
                   callback, nInvites, races, histVars>>

\* answer(180).
InviteRing ==
    /\ pc["P"] = "ring"
    /\ pc' = [pc EXCEPT !["P"] = "resolve"]
    /\ faults' = faults \cup UseLeg(held["P"])
    /\ UNCHANGED <<acctVars, heapVars, rtcVars, held, stopping, callback,
                   nInvites, races, ended, bridged, dtmf>>

\* resolveOutgoingTarget(): network, may fail - then stopIncomingSipCall().
InviteResolve ==
    /\ pc["P"] = "resolve"
    /\ \/ pc' = [pc EXCEPT !["P"] = "startCall"] /\ UNCHANGED stopping
       \/ /\ pc' = [pc EXCEPT !["P"] = "stop"]
          /\ stopping' = [stopping EXCEPT !["P"] = "inc"]
    /\ UNCHANGED <<acctVars, heapVars, rtcVars, held, callback, nInvites,
                   races, histVars>>

\* isCallee = false; signal2sip_call_start_outgoing() succeeds.
InviteStartCall ==
    /\ pc["P"] = "startCall"
    /\ rtc.call = None
    /\ nCalls < MaxCalls
    /\ isCallee' = FALSE
    /\ nCalls' = nCalls + 1
    /\ rtc' = [call |-> nCalls + 1, dir |-> "out", st |-> "offered"]
    /\ events' = Append(events, Event(nCalls + 1, "OUTGOING_AUDIO"))
    /\ leg' = [leg EXCEPT ![held["P"]].call = nCalls + 1]
    /\ pc' = [pc EXCEPT !["P"] = "idle"]
    /\ held' = [held EXCEPT !["P"] = None]
    /\ UNCHANGED <<sipCall, incomingSipCall, bridge, activeCallId, nLegs,
                   stopping, callback, nInvites, races, histVars>>

\* signal2sip_call_start_outgoing() returns 0: stopIncomingSipCall().
InviteStartFails ==
    /\ pc["P"] = "startCall"
    /\ isCallee' = FALSE
    /\ pc' = [pc EXCEPT !["P"] = "stop"]
    /\ stopping' = [stopping EXCEPT !["P"] = "inc"]
    /\ UNCHANGED <<sipCall, incomingSipCall, bridge, activeCallId, heapVars,
                   rtcVars, held, callback, nInvites, races, histVars>>

-----------------------------------------------------------------------------
(* P: BridgeCall and IncomingSipCall callbacks                             *)

\* PJSIP looks up the object of the call and enters its callback; the
\* disconnection of a call is reported after everything else.
CallbackEnter(l, c) ==
    /\ pc["P"] = "idle"
    /\ leg[l].alive
    /\ c \in leg[l].cb
    /\ c = "disconnected" => leg[l].cb = {"disconnected"}
    /\ leg' = [leg EXCEPT ![l].cb = @ \ {c}]
    /\ pc' = [pc EXCEPT !["P"] = "callback"]
    /\ held' = [held EXCEPT !["P"] = l]
    /\ callback' = c
    /\ UNCHANGED <<acctVars, nLegs, rtcVars, stopping, nInvites, races,
                   histVars>>

InCallback(c) ==
    /\ pc["P"] = "callback"
    /\ callback = c
    /\ faults' = faults \cup UseLeg(held["P"])

CallbackLeave ==
    /\ pc' = [pc EXCEPT !["P"] = "idle"]
    /\ held' = [held EXCEPT !["P"] = None]
    /\ callback' = "none"

\* CONFIRMED: the PBX answered - accept the Signal call, once per leg.
OnConfirmed ==
    /\ InCallback("confirmed")
    /\ LET l == held["P"]
           accepts == /\ ~leg[l].acceptSent
                      /\ rtc.call = activeCallId
                      /\ rtc.dir = "in"
                      /\ rtc.st = "ringing"
       IN  /\ leg' = [leg EXCEPT ![l].acceptSent = TRUE]
           /\ IF accepts
              THEN /\ rtc' = [rtc EXCEPT !.st = "connected"]
                   /\ events' = Append(events, Event(rtc.call, "CONNECTED"))
                   /\ bridged' = bridged \cup {<<rtc.call, l>>}
              ELSE UNCHANGED <<rtc, events, bridged>>
    /\ CallbackLeave
    /\ UNCHANGED <<acctVars, nLegs, nCalls, stopping, nInvites, races, ended,
                   dtmf>>

\* onCallMediaState: wireBridgeAudio() connects the leg to its bridge.
OnMedia ==
    /\ pc["P"] = "callback"
    /\ callback = "media"
    /\ faults' = faults \cup UseLeg(held["P"]) \cup UseBridge(held["P"])
    /\ CallbackLeave
    /\ UNCHANGED <<acctVars, heapVars, rtcVars, stopping, nInvites, races,
                   ended, bridged, dtmf>>

\* Plausible bug: a hangup by the PBX is not passed on.
OnDisconnectedSilent ==
    /\ InCallback("disconnected")
    /\ leg' = [leg EXCEPT ![held["P"]].weHungUp = @ \/ leg[held["P"]].kind = "invite"]
    /\ pc' = [pc EXCEPT !["P"] = "flag"]
    /\ UNCHANGED <<acctVars, nLegs, rtcVars, held, stopping, callback,
                   nInvites, races, ended, bridged, dtmf>>

\* DISCONNECTED not of our making ends the Signal call: for a dialled leg
\* once it has accepted one, for an INVITE leg always.
OnDisconnected ==
    /\ InCallback("disconnected")
    /\ LET l == held["P"]
           ours == leg[l].weHungUp
       IN  /\ IF ~ours /\ (leg[l].kind = "invite" \/ leg[l].acceptSent)
              THEN Hangup
              ELSE UNCHANGED <<rtc, events, ended>>
           /\ leg' = [leg EXCEPT ![l].weHungUp = ours \/ leg[l].kind = "invite"]
    /\ pc' = [pc EXCEPT !["P"] = "flag"]
    /\ UNCHANGED <<acctVars, nLegs, nCalls, held, stopping, callback, nInvites,
                   races, bridged, dtmf>>

\* disconnected_ = true, the callback's last access to the leg.
OnDisconnectedFlag ==
    /\ pc["P"] = "flag"
    /\ faults' = faults \cup UseLeg(held["P"])
    /\ leg' = [leg EXCEPT ![held["P"]].disconnected = TRUE]
    /\ CallbackLeave
    /\ UNCHANGED <<acctVars, nLegs, rtcVars, stopping, nInvites, races, ended,
                   bridged, dtmf>>

-----------------------------------------------------------------------------
(* DTMF over text, in onPush(): check and send under callHandoffMutex      *)

DtmfLeg == IF sipCall /= None THEN sipCall ELSE incomingSipCall

\* Plausible bug: the sender is not compared with remotePeerId.
DtmfFromAnyone ==
    /\ AccountUp
    /\ DtmfLeg /= None
    /\ leg[DtmfLeg].dialog = "confirmed"
    /\ \E n \in 1..nCalls : dtmf' = [from |-> n, leg |-> DtmfLeg]
    /\ UNCHANGED <<acctVars, heapVars, rtcVars, threadVars, nInvites, races,
                   ended, bridged, faults>>

\* The active peer sends digits. dialDtmf() throws unless media is up.
Dtmf ==
    /\ AccountUp
    /\ activeCallId /= None
    /\ DtmfLeg /= None
    /\ LET l == DtmfLeg IN
       /\ ~leg[l].alive \/ leg[l].dialog = "confirmed"
       /\ faults' = faults \cup UseLeg(l)
       /\ dtmf' = [from |-> activeCallId, leg |-> l]
    /\ UNCHANGED <<acctVars, heapVars, rtcVars, threadVars, nInvites, races,
                   ended, bridged>>

-----------------------------------------------------------------------------
(* M: teardownAccount()                                                    *)

TeardownBegin ==
    /\ Teardown
    /\ pc["M"] = "idle"
    /\ RaceUnless(Quiet, "teardown")
    /\ pc' = [pc EXCEPT !["M"] = "stop"]
    /\ stopping' = [stopping EXCEPT !["M"] = "sip"]
    /\ UNCHANGED <<acctVars, heapVars, rtcVars, held, callback, nInvites,
                   histVars>>

\* signal2sip_call_manager_destroy(): ends RingRTC's call and its callbacks.
TeardownDestroy ==
    /\ pc["M"] = "destroy"
    /\ pc["R"] = "idle"
    /\ pc' = [pc EXCEPT !["M"] = "erase"]
    /\ ended' = ended \cup ({rtc.call} \ {None})
    /\ rtc' = NoCall
    /\ events' = <<>>
    /\ UNCHANGED <<acctVars, heapVars, nCalls, held, stopping, callback,
                   nInvites, races, bridged, dtmf, faults>>

\* The AccountState goes; a leg or a thread still using it dangles.
TeardownErase ==
    /\ pc["M"] = "erase"
    /\ pc' = [pc EXCEPT !["M"] = "gone"]
    /\ faults' = faults \cup
           (IF pc["P"] /= "idle" \/ \E l \in Legs : leg[l].alive
            THEN {"account used after erase"} ELSE {})
    /\ UNCHANGED <<acctVars, heapVars, rtcVars, held, stopping, callback,
                   nInvites, races, ended, bridged, dtmf>>

-----------------------------------------------------------------------------
Stop(t) ==
    StopHangup(t) \/ StopDisconnected(t) \/ StopPollExpires(t) \/ StopDelete(t)
        \/ StopReset(t)

RNext ==
    OnOutgoingAudio \/ OnIncomingAudio \/ OnRingingDial \/ OnRingingIgnore
        \/ MakeCall \/ OnConnected \/ OnEnded \/ Stop("R")

Invite ==
    InviteCreate \/ InviteRing \/ InviteResolve \/ InviteStartCall
        \/ InviteStartFails

Callback ==
    \/ \E l \in Legs, c \in {"confirmed", "media", "disconnected"} : CallbackEnter(l, c)
    \/ OnConfirmed \/ OnMedia \/ OnDisconnected \/ OnDisconnectedFlag

PNext == Invite \/ Callback \/ Stop("P")

MNext == TeardownDestroy \/ TeardownErase \/ Stop("M")

Environment ==
    \/ SignalCallArrives \/ RemoteAnswers \/ SignalCallEnds
    \/ InviteRejected \/ InviteChecked \/ Dtmf \/ TeardownBegin
    \/ \E l \in Legs : PbxAnswers(l) \/ PbxHangsUp(l)

Next ==
    RNext \/ PNext \/ MNext \/ Environment \/ \E l \in Legs : PbxConfirmsHangup(l)

\* The threads run and RingRTC delivers its events. Nobody has to call,
\* answer or hang up.
ThreadFairness == WF_vars(RNext) /\ WF_vars(PNext) /\ WF_vars(MNext)

\* The PBX (or SIP's own transaction timeout) completes a hangup.
PbxFairness == \A l \in Legs : WF_vars(PbxConfirmsHangup(l))

Spec == Init /\ [][Next]_vars

FairSpec == Spec /\ ThreadFairness /\ PbxFairness

-----------------------------------------------------------------------------
(* Correctness                                                             *)

LegType ==
    [kind : {"none", "dialled", "invite"}, alive : BOOLEAN, bridgeLive : BOOLEAN,
     dialog : {"none", "inviting", "ringing", "confirmed", "closing", "over"},
     cb : SUBSET {"confirmed", "media", "disconnected"}, weHungUp : BOOLEAN,
     acceptSent : BOOLEAN, disconnected : BOOLEAN, call : Calls \cup {None}]

\* The variables stay in their domains.
TypeOK ==
    /\ sipCall \in Legs \cup {None}
    /\ incomingSipCall \in Legs \cup {None}
    /\ bridge \in Legs \cup {None}
    /\ isCallee \in BOOLEAN
    /\ activeCallId \in Calls \cup {None}
    /\ leg \in [Legs -> LegType]
    /\ nLegs \in Legs \cup {0}
    /\ rtc \in [call : Calls \cup {None}, dir : {"none", "in", "out"},
                st : {"none", "offered", "ringing", "connected"}]
    /\ events \in Seq([call : Calls, ev : Events])
    /\ nCalls \in Calls \cup {0}
    /\ pc \in [Threads -> {"idle", "makeCall", "stop", "poll", "delete", "reset",
                           "create", "ring", "resolve", "startCall", "callback",
                           "flag", "destroy", "erase", "gone"}]
    /\ held \in [Threads -> Legs \cup {None}]
    /\ stopping \in [Threads -> {"sip", "inc"}]
    /\ callback \in {"none", "confirmed", "media", "disconnected"}
    /\ nInvites \in 0..MaxInvites
    /\ ended \subseteq Calls
    /\ bridged \subseteq Calls \X Legs
    /\ dtmf \in [from : Calls \cup {None}, leg : Legs \cup {None}]
    /\ races \subseteq Kinds
    /\ faults \subseteq {"leg used after delete", "leg deleted twice",
                         "bridge used after free", "account used after erase"}

\* No thread touches a deleted leg, a RingRtcSipBridge that was reset or an
\* erased AccountState, and no leg is deleted twice, however Signal calls
\* follow one another and until the first race.  (After an INVITE
\* stopSipBridge() frees the bridge of the INVITE leg, which its media
\* callback may then use: NoFreedBridgeUsed.)
NoUseAfterFree ==
    races = {} =>
        faults \subseteq IF nInvites = 0 THEN {} ELSE {"bridge used after free"}

\* No leg is deleted twice: stopSipBridge() and stopIncomingSipCall() read the
\* pointer outside callHandoffMutex and delete inside it.
NoDoubleDelete == "leg deleted twice" \notin faults

\* wireBridgeAudio() never runs on a RingRtcSipBridge that was freed.
NoFreedBridgeUsed == "bridge used after free" \notin faults

\* "Only ever one of these is non-null at a time" (main.cpp:320-322): an
\* account never has a dialled and an INVITE leg at once.
OneLegAtATime == sipCall = None \/ incomingSipCall = None

\* accept() and answer(200) only ever join a Signal call with the SIP leg that
\* was made for it, so nobody is put through to another call's audio - until
\* the first race.
BridgedTogether == races = {} => \A p \in bridged : leg[p[2]].call = p[1]

\* Touch-tones reach the SIP leg of the call their sender is in, also when a
\* teardown meets the call or the PBX is late; only a call or an INVITE that
\* meets another call may misdirect them.
DtmfReachesOwnCall ==
    races \cap {"call", "invite"} = {} =>
        (dtmf.leg /= None => leg[dtmf.leg].call = dtmf.from)

\* When a Signal call ends, its SIP leg is hung up and deleted - unless a race
\* comes in between.
EndedCallReleasesLeg ==
    \A l \in Legs :
        (leg[l].alive /\ leg[l].call \in ended /\ races = {})
            ~> (~leg[l].alive \/ races /= {})

\* When the PBX hangs up a leg that is bridged, or an INVITE leg whose Signal
\* call was placed, that Signal call ends - it is not left ringing forever,
\* unless a race comes in between.
SipHangupEndsCall ==
    \A l \in Legs, c \in Calls :
        (/\ leg[l].dialog = "over"
         /\ leg[l].call = c
         /\ leg[l].kind = "invite" \/ <<c, l>> \in bridged
         /\ races = {})
            ~> (c \in ended \/ races /= {})

\* teardownAccount() always comes to its end, whatever it meets: a call being
\* set up or cleared by the other threads, the same leg stopped by another
\* one, a PBX that never confirms the hangup.
TeardownEnds == (pc["M"] = "stop") ~> (pc["M"] = "gone")
=============================================================================
