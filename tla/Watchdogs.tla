----------------------------- MODULE Watchdogs ------------------------------
(***************************************************************************)
(* The two watchdogs in main()'s loop, for one account: the registration   *)
(* watchdog, which forces a fresh REGISTER when SIP stays unregistered,    *)
(* and the websocket watchdog, which takes SIP down with the Signal        *)
(* connection and brings both back.  PJSIP's worker reports the end of a   *)
(* registration transaction through BridgeAccount::onRegState().           *)
(*                                                                         *)
(* The socket is what module AuthSocket shows of it: up, and deauthorized. *)
(* Timers are untimed: once started they expire at some later point.       *)
(* PJSIP is external: one registration transaction at a time; another      *)
(* setRegistration() meanwhile throws, and the loop only logs that.        *)
(* deauthorizedAlerted, which keeps a message from repeating, is left out. *)
(***************************************************************************)
EXTENDS Integers

VARIABLES
    up, deauth,          \* isConnected(), isDeauthorized()
    live,                \* the listener has not reported a loss
    revoking,            \* ... or has yet to store deauthorized
    seen, now,           \* socketConnected, nowConnected
    retryDue,            \* kSocketReconnectIntervalMs have passed
    registered,          \* BridgeAccount::registered
    since,               \* unregisteredSinceMs: off, on, or due
    tx,                  \* the registration transaction in progress
    auto,                \* PJSIP will retry a failed REGISTER by itself
    loop                 \* where the main loop is

socketVars == <<up, deauth, live, revoking>>
loopVars == <<seen, now, retryDue, loop>>
sipVars == <<registered, since, tx, auto>>
vars == <<socketVars, loopVars, sipVars>>

\* After setupAccount(): connected, and the first REGISTER is on its way.
Init ==
    /\ up = TRUE /\ deauth = FALSE /\ live = TRUE /\ revoking = FALSE
    /\ seen = TRUE /\ now = TRUE /\ retryDue = TRUE /\ loop = "registration"
    /\ registered = FALSE /\ since = "off" /\ tx = "register" /\ auto = FALSE

-----------------------------------------------------------------------------
(* PJSIP                                                                   *)

\* setRegistration(): start a transaction, or throw and change nothing.
SetRegistration(kind) ==
    IF tx = "none"
    THEN tx' = kind /\ auto' = FALSE
    ELSE UNCHANGED <<tx, auto>>

\* Plausible bug: an inactive registration is not timestamped.
RegStateUnstamped(active) ==
    /\ tx /= "none"
    /\ active => tx = "register"
    /\ tx' = "none"
    /\ registered' = active
    /\ since' = IF active THEN "off" ELSE since
    /\ auto' \in {FALSE, tx = "register" /\ ~active}
    /\ UNCHANGED <<socketVars, loopVars>>

\* The transaction ends; onRegState() mirrors the outcome.
RegState(active) ==
    /\ tx /= "none"
    /\ active => tx = "register"
    /\ tx' = "none"
    /\ registered' = active
    /\ since' = IF active THEN "off" ELSE IF since = "off" THEN "on" ELSE since
    /\ auto' \in {FALSE, tx = "register" /\ ~active}
    /\ UNCHANGED <<socketVars, loopVars>>

\* PJSIP renews a registration, or retries a failed one, on its own.
Refresh ==
    /\ registered \/ auto
    /\ tx = "none"
    /\ tx' = "register"
    /\ UNCHANGED <<socketVars, loopVars, registered, since, auto>>

\* sipRegWatchdogSec have passed since unregisteredSinceMs.
SinceDue ==
    /\ since = "on"
    /\ since' = "due"
    /\ UNCHANGED <<socketVars, loopVars, registered, tx, auto>>

-----------------------------------------------------------------------------
(* The loop                                                                *)

\* Plausible bug: the deauthorized account is not left alone.
RegWatchdogIgnoresRevocation ==
    /\ loop = "registration"
    /\ loop' = "since"
    /\ UNCHANGED <<socketVars, seen, now, retryDue, sipVars>>

\* Registration watchdog: isDeauthorized() is asked first ...
RegWatchdogCheck ==
    /\ loop = "registration"
    /\ loop' = IF deauth THEN "socket" ELSE "since"
    /\ UNCHANGED <<socketVars, seen, now, retryDue, sipVars>>

\* ... then unregisteredSinceMs: nothing to do, or the time is up ...
RegWatchdogLoad ==
    /\ loop = "since"
    /\ loop' = IF since = "due" THEN "force" ELSE "socket"
    /\ UNCHANGED <<socketVars, seen, now, retryDue, sipVars>>

\* ... in which case it forces a fresh attempt ...
RegWatchdogForce ==
    /\ loop = "force"
    /\ SetRegistration("register")
    /\ loop' = "stamp"
    /\ UNCHANGED <<socketVars, seen, now, retryDue, registered, since>>

\* ... and restart the clock, whatever came of it.
RegWatchdogStamp ==
    /\ loop = "stamp"
    /\ since' = "on"
    /\ loop' = "socket"
    /\ UNCHANGED <<socketVars, seen, now, retryDue, registered, tx, auto>>

\* Websocket watchdog: sample isConnected(), bring SIP down on a fresh drop.
SocketSample ==
    /\ loop = "socket"
    /\ now' = up
    /\ seen' = up
    /\ IF seen /\ ~up THEN SetRegistration("unregister") ELSE UNCHANGED <<tx, auto>>
    /\ loop' = "decide"
    /\ UNCHANGED <<socketVars, retryDue, registered, since>>

\* Connected, given up on, or not yet time to try again: next pass.
SocketPass ==
    /\ loop = "decide"
    /\ now \/ deauth \/ ~retryDue
    /\ loop' = "registration"
    /\ UNCHANGED <<socketVars, seen, now, retryDue, sipVars>>

\* Plausible bug: an account that PJSIP is registering has to wait.
ReconnectUnlessBusy ==
    /\ loop = "decide"
    /\ ~now /\ ~deauth /\ retryDue
    /\ retryDue' = FALSE
    /\ loop' = IF tx = "none" THEN "reconnect" ELSE "registration"
    /\ UNCHANGED <<socketVars, seen, now, sipVars>>

\* Down, not deauthorized, and time to try: call reconnect().
SocketReconnect ==
    /\ loop = "decide"
    /\ ~now /\ ~deauth /\ retryDue
    /\ retryDue' = FALSE
    /\ loop' = "reconnect"
    /\ UNCHANGED <<socketVars, seen, now, sipVars>>

\* reconnect() succeeds: the new connection gets its listener ...
ReconnectListens ==
    /\ loop = "reconnect"
    /\ live' = TRUE
    /\ loop' = "clear"
    /\ UNCHANGED <<up, deauth, revoking, seen, now, retryDue, sipVars>>

\* ... deauthorized is cleared ...
ReconnectClears ==
    /\ loop = "clear"
    /\ deauth' = FALSE
    /\ loop' = "connected"
    /\ UNCHANGED <<up, live, revoking, seen, now, retryDue, sipVars>>

\* ... connected is set ...
ReconnectSucceeds ==
    /\ loop = "connected"
    /\ up' = TRUE
    /\ loop' = "raise"
    /\ UNCHANGED <<deauth, live, revoking, seen, now, retryDue, sipVars>>

\* ... and SIP is brought back up.
RaiseSip ==
    /\ loop = "raise"
    /\ seen' = TRUE
    /\ SetRegistration("register")
    /\ loop' = "registration"
    /\ UNCHANGED <<socketVars, now, retryDue, registered, since>>

\* reconnect() throws; a 403 also sets deauthorized.
ReconnectFails(rejected) ==
    /\ loop = "reconnect"
    /\ deauth' = (deauth \/ rejected)
    /\ loop' = "registration"
    /\ UNCHANGED <<up, live, revoking, seen, now, retryDue, sipVars>>

\* kSocketReconnectIntervalMs have passed.
RetryDue ==
    /\ ~retryDue
    /\ retryDue' = TRUE
    /\ UNCHANGED <<socketVars, seen, now, loop, sipVars>>

\* The connection is lost: the listener, once, clears connected ...
Drop(revoked) ==
    /\ live
    /\ live' = FALSE
    /\ up' = FALSE
    /\ revoking' = (revoking \/ revoked)
    /\ UNCHANGED <<deauth, loopVars, sipVars>>

\* ... and then, after a revocation (4401), sets deauthorized.
DropRevoked ==
    /\ revoking
    /\ revoking' = FALSE
    /\ deauth' = TRUE
    /\ UNCHANGED <<up, live, loopVars, sipVars>>

-----------------------------------------------------------------------------
Reconnected(rejected) == ReconnectListens \/ ReconnectFails(rejected)

Loop ==
    \/ RegWatchdogCheck \/ RegWatchdogLoad \/ RegWatchdogForce \/ RegWatchdogStamp
    \/ SocketSample \/ SocketPass \/ SocketReconnect
    \/ ReconnectClears \/ ReconnectSucceeds \/ RaiseSip
    \/ \E rejected \in BOOLEAN : Reconnected(rejected)

Timers == SinceDue \/ RetryDue

Next ==
    \/ Loop \/ Timers \/ Refresh
    \/ \E active \in BOOLEAN : RegState(active)
    \/ \E revoked \in BOOLEAN : Drop(revoked)
    \/ DropRevoked

Spec == Init /\ [][Next]_vars

\* The loop turns, timers expire, PJSIP ends every transaction.
LoopFair ==
    /\ SF_vars(Loop)
    /\ WF_vars(SinceDue)
    /\ WF_vars(RetryDue)
    /\ WF_vars(DropRevoked)
    /\ SF_vars(\E active \in BOOLEAN : RegState(active))

FairSpec == Spec /\ LoopFair

\* In addition the PBX and the Signal server do not refuse for ever.
RecoverySpec == FairSpec /\ SF_vars(RegState(TRUE)) /\ SF_vars(ReconnectListens)

-----------------------------------------------------------------------------
(* Correctness                                                             *)

\* The variables stay in their domains.
TypeOK ==
    /\ {up, deauth, live, revoking, seen, now, retryDue, registered, auto} \subseteq BOOLEAN
    /\ since \in {"off", "on", "due"}
    /\ tx \in {"none", "register", "unregister"}
    /\ loop \in {"registration", "since", "force", "stamp", "socket", "decide",
                "reconnect", "clear", "connected", "raise"}

\* A drop that isConnected() shows is made good, unless Signal rejects the
\* credentials.  (A loss reported before reconnect() stores connected = true
\* is not shown.)
SocketRecovers == []<>(up \/ deauth)

\* While the socket stays up, SIP comes back by itself, whatever the PBX
\* answered before and whichever setRegistration() threw: this is what the
\* registration watchdog is for.
SipRecovers == <>[](up /\ ~deauth) => []<>registered

\* The loop is between a look at the flags and the setRegistration(true)
\* that follows from it.
Committed == loop \in {"since", "force", "reconnect", "clear", "connected", "raise"}

\* An account that Signal has revoked and whose unregistration is under way
\* ends up unregistered for good, at whatever speed the PBX answers, unless
\* the revocation came between the loop's look at the flags and what it does
\* about them: later passes of neither watchdog, nor PJSIP's own retries,
\* bring it up again.
RevokedEndsUnregistered ==
    [](deauth /\ ~up /\ tx = "unregister" /\ ~Committed => <>[]~registered)

\* "Bring SIP down the moment the socket drops - an honest "Unregistered"
\* beats a stale "Registered" nothing can actually route to"
\* (main.cpp:2140-2142): the pass that sees the drop starts to unregister.
DropTakesSipDown == [][seen /\ ~seen' => tx' = "unregister"]_vars

\* "forcing SIP back up here would just recreate exactly the "stale
\* Registered nothing can actually route to" problem the two watchdogs were
\* built to prevent" (main.cpp:2106-2109): an account that stays
\* deauthorized ends up unregistered.
DeauthorizedEndsUnregistered == <>[](deauth /\ ~up) => <>[]~registered
=============================================================================
