----------------------------- MODULE AuthSocket -----------------------------
(***************************************************************************)
(* One account's chat.signal.org connection (signal/AuthSocket.cpp) and    *)
(* the thread that owns it: connect() during setup, reconnect() from the   *)
(* websocket watchdog of main(), close() at teardown.  Around that thread  *)
(* run libsignal's completion callback of every connect attempt, its       *)
(* listener callback for a lost connection, the keepalive thread, and the  *)
(* threads that call request().                                            *)
(*                                                                         *)
(* Attempts are numbered; attempt i owns one ConnectState and, when it     *)
(* succeeds, one session and its handle.  0 is the null handle.  libsignal *)
(* itself is external: a connect call completes at most once, a lost       *)
(* session is reported at most once and never after its handle is gone.    *)
(***************************************************************************)
EXTENDS Integers

CONSTANT MaxAttempts   \* bound: doConnect() calls

ASSUME SocketAssumption == MaxAttempts \in Nat \ {0}

Attempts == 1..MaxAttempts
Callers == {"keepalive", "sender"}     \* threads that end up in doRequest()

VARIABLES
    mpc,          \* where the owner is in doConnect() or close()
    cur,          \* the latest attempt
    chat,         \* the handle doRequest() sends on
    connected, deauthorized, stopping,
    state,        \* each attempt's ConnectState
    outcome,      \* what its completion reported
    complete,     \* where its completion callback is
    session,      \* the session, as the server sees it
    revoked,      \* sessions lost because the credentials were revoked
    listening,    \* sessions with a listener
    reported,     \* sessions whose loss the listener has reported
    destroyed,    \* handles destroyed
    coding,       \* onConnectionInterrupted() has yet to look at the code
    rpc, rchat,   \* the callers: where they are, and the handle they read
    faults

ownerVars == <<mpc, cur, chat>>
flagVars == <<connected, deauthorized, stopping>>
attemptVars == <<state, outcome, complete>>
sessionVars == <<session, revoked, listening, reported, destroyed, coding>>
callerVars == <<rpc, rchat>>
vars == <<ownerVars, flagVars, attemptVars, sessionVars, callerVars, faults>>

Init ==
    /\ mpc = "new" /\ cur = 0 /\ chat = 0
    /\ connected = FALSE /\ deauthorized = FALSE /\ stopping = FALSE
    /\ state = [i \in Attempts |-> "none"]
    /\ outcome = [i \in Attempts |-> "none"]
    /\ complete = [i \in Attempts |-> "none"]
    /\ session = [i \in Attempts |-> "none"]
    /\ revoked = {} /\ listening = {} /\ reported = {} /\ destroyed = {}
    /\ coding = {}
    /\ rpc = [c \in Callers |-> "none"]
    /\ rchat = [c \in Callers |-> 0]
    /\ faults = {}

-----------------------------------------------------------------------------
(* doConnect()                                                             *)

\* An exception leaves doConnect(): setupAccount() gives the account up, and
\* the watchdog tries again later.
Failed == IF rpc["keepalive"] = "none" THEN "destroyAtClose" ELSE "idle"

\* connect(), from setupAccount().
Connect ==
    /\ mpc = "new"
    /\ mpc' = "destroy"
    /\ connected' = FALSE
    /\ UNCHANGED <<cur, chat, deauthorized, stopping, attemptVars, sessionVars,
                   callerVars, faults>>

\* Plausible bug: the watchdog reconnects a socket that is still connected.
ReconnectAlways ==
    /\ mpc = "idle"
    /\ ~deauthorized
    /\ cur < MaxAttempts
    /\ mpc' = "destroy"
    /\ connected' = FALSE
    /\ UNCHANGED <<cur, chat, deauthorized, stopping, attemptVars, sessionVars,
                   callerVars, faults>>

\* The watchdog: reconnect() a socket that is down and not deauthorized.
Reconnect ==
    /\ mpc = "idle"
    /\ ~connected
    /\ ~deauthorized
    /\ cur < MaxAttempts
    /\ mpc' = "destroy"
    /\ connected' = FALSE
    /\ UNCHANGED <<cur, chat, deauthorized, stopping, attemptVars, sessionVars,
                   callerVars, faults>>

\* disconnectAndDestroyBestEffort() of a handle, which ends its session.
Destroyed(i) ==
    /\ destroyed' = IF i = 0 THEN destroyed ELSE destroyed \cup {i}
    /\ session' = IF i = 0 THEN session ELSE [session EXCEPT ![i] = "down"]

\* Destroy what is left of the previous connection; chat keeps the handle.
DestroyOld ==
    /\ mpc = "destroy"
    /\ mpc' = "call"
    /\ Destroyed(chat)
    /\ UNCHANGED <<cur, chat, flagVars, attemptVars, revoked, listening, reported,
                   coding, callerVars, faults>>

\* Forget the handle, make a ConnectState and start the connect attempt.
StartAttempt ==
    /\ mpc = "call"
    /\ chat' = 0
    /\ cur' = cur + 1
    /\ mpc' = "wait"
    /\ state' = [state EXCEPT ![cur + 1] = "waiting"]
    /\ session' = [session EXCEPT ![cur + 1] = "pending"]
    /\ UNCHANGED <<flagVars, outcome, complete, revoked, listening, reported,
                   destroyed, coding, callerVars, faults>>

\* ... or libsignal refuses the call, and the ConnectState goes at once.
StartRefused ==
    /\ mpc = "call"
    /\ chat' = 0
    /\ cur' = cur + 1
    /\ mpc' = Failed
    /\ state' = [state EXCEPT ![cur + 1] = "freed"]
    /\ UNCHANGED <<flagVars, outcome, complete, sessionVars, callerVars, faults>>

\* wait_for(): the predicate holds.
WaitDone ==
    /\ mpc = "wait"
    /\ state[cur] = "done"
    /\ mpc' = "take"
    /\ UNCHANGED <<cur, chat, flagVars, attemptVars, sessionVars, callerVars, faults>>

\* wait_for(): 20 s are over; leave the ConnectState to the completion.
WaitTimeout ==
    /\ mpc = "wait"
    /\ state[cur] = "waiting"
    /\ state' = [state EXCEPT ![cur] = "abandoned"]
    /\ mpc' = Failed
    /\ UNCHANGED <<cur, chat, flagVars, outcome, complete, sessionVars, callerVars,
                   faults>>

\* delete of attempt i's ConnectState.
Freed(i) ==
    /\ state' = [state EXCEPT ![i] = "freed"]
    /\ faults' = faults \cup (IF state[i] = "freed" THEN {"double free"} ELSE {})

\* Take error and result out of the ConnectState and delete it.
TakeResult ==
    /\ mpc = "take"
    /\ Freed(cur)
    /\ mpc' = IF outcome[cur] = "ok" THEN "listen" ELSE Failed
    /\ chat' = IF outcome[cur] = "ok" THEN cur ELSE chat
    /\ deauthorized' = (deauthorized \/ outcome[cur] = "rejected")
    /\ UNCHANGED <<cur, connected, stopping, outcome, complete, sessionVars,
                   callerVars>>

\* init_listener(): from here on the loss of the session is reported.
InitListener ==
    /\ mpc = "listen"
    /\ mpc' = "clear"
    /\ listening' = listening \cup {cur}
    /\ UNCHANGED <<cur, chat, flagVars, attemptVars, session, revoked, reported,
                   destroyed, coding, callerVars, faults>>

\* ... or it fails; the handle stays in chat until the next doConnect().
InitListenerFails ==
    /\ mpc = "listen"
    /\ mpc' = Failed
    /\ UNCHANGED <<cur, chat, flagVars, attemptVars, sessionVars, callerVars, faults>>

\* deauthorized.store(false)
ClearDeauthorized ==
    /\ mpc = "clear"
    /\ mpc' = "set"
    /\ deauthorized' = FALSE
    /\ UNCHANGED <<cur, chat, connected, stopping, attemptVars, sessionVars,
                   callerVars, faults>>

\* connected = true; connect() then starts the keepalive thread.
SetConnected ==
    /\ mpc = "set"
    /\ mpc' = "idle"
    /\ connected' = TRUE
    /\ rpc' = [c \in Callers |-> IF rpc[c] = "none" THEN "idle" ELSE rpc[c]]
    /\ UNCHANGED <<cur, chat, deauthorized, stopping, attemptVars, sessionVars, rchat,
                   faults>>

-----------------------------------------------------------------------------
(* libsignal's threads                                                     *)

Outcomes == {"ok", "error", "rejected"}

\* Plausible bug: a late success is stored for a waiter that is not there.
CompleteIgnoresAbandoned(i, o) ==
    /\ session[i] = "pending"
    /\ session' = [session EXCEPT ![i] = IF o = "ok" THEN "up" ELSE "down"]
    /\ outcome' = [outcome EXCEPT ![i] = o]
    /\ state' = [state EXCEPT ![i] = "done"]
    /\ complete' = [complete EXCEPT ![i] = "notify"]
    /\ UNCHANGED <<ownerVars, flagVars, revoked, listening, reported, destroyed, coding,
                   callerVars, faults>>

\* promise.complete, under the ConnectState's lock: hand the outcome to the
\* waiter, or find that nobody waits any more.
Complete(i, o) ==
    /\ session[i] = "pending"
    /\ session' = [session EXCEPT ![i] = IF o = "ok" THEN "up" ELSE "down"]
    /\ outcome' = [outcome EXCEPT ![i] = o]
    /\ IF state[i] = "abandoned"
       THEN /\ complete' = [complete EXCEPT ![i] = "cleanup"]
            /\ UNCHANGED state
       ELSE /\ complete' = [complete EXCEPT ![i] = "notify"]
            /\ state' = [state EXCEPT ![i] = "done"]
    /\ UNCHANGED <<ownerVars, flagVars, revoked, listening, reported, destroyed, coding,
                   callerVars, faults>>

\* cv.notify_all(), after the lock is released.
CompleteNotify(i) ==
    /\ complete[i] = "notify"
    /\ complete' = [complete EXCEPT ![i] = "returned"]
    /\ faults' = faults \cup (IF state[i] = "freed" THEN {"freed state"} ELSE {})
    /\ UNCHANGED <<ownerVars, flagVars, state, outcome, sessionVars, callerVars>>

\* The abandoned attempt cleans up after itself: destroy the late session,
\* delete the ConnectState.
CompleteCleanup(i) ==
    /\ complete[i] = "cleanup"
    /\ complete' = [complete EXCEPT ![i] = "returned"]
    /\ Destroyed(IF outcome[i] = "ok" THEN i ELSE 0)
    /\ Freed(i)
    /\ UNCHANGED <<ownerVars, flagVars, outcome, revoked, listening, reported, coding,
                   callerVars>>

\* The network or the server ends a session.
Lose(i, invalidated) ==
    /\ session[i] = "up"
    /\ session' = [session EXCEPT ![i] = "down"]
    /\ revoked' = IF invalidated THEN revoked \cup {i} ELSE revoked
    /\ UNCHANGED <<ownerVars, flagVars, attemptVars, listening, reported, destroyed,
                   coding, callerVars, faults>>

\* A loss is reported once, at any time from init_listener() on, also before
\* doConnect() has stored connected = true.
Reportable(i) ==
    /\ i \in (listening \ reported) \ destroyed
    /\ session[i] = "down"

\* onConnectionInterrupted(): connected = false, under the lock ...
Interrupted(i) ==
    /\ Reportable(i)
    /\ reported' = reported \cup {i}
    /\ connected' = FALSE
    /\ coding' = IF i \in revoked THEN coding \cup {i} ELSE coding
    /\ UNCHANGED <<ownerVars, deauthorized, stopping, attemptVars, session, revoked,
                   listening, destroyed, callerVars, faults>>

\* ... then deauthorized, when the error says so.
InterruptedCode(i) ==
    /\ i \in coding
    /\ coding' = coding \ {i}
    /\ deauthorized' = TRUE
    /\ UNCHANGED <<ownerVars, connected, stopping, attemptVars, session, revoked,
                   listening, reported, destroyed, callerVars, faults>>

-----------------------------------------------------------------------------
(* request(), and the keepalive thread                                     *)

\* A request begins; the keepalive thread asks only while connected.
RequestBegin(c) ==
    /\ rpc[c] = "idle"
    /\ c = "keepalive" => connected /\ ~stopping
    /\ rpc' = [rpc EXCEPT ![c] = "begun"]
    /\ UNCHANGED <<ownerVars, flagVars, attemptVars, sessionVars, rchat, faults>>

\* doRequest(): read chat without a lock; a null handle answers status 0.
RequestRead(c) ==
    /\ rpc[c] = "begun"
    /\ rpc' = [rpc EXCEPT ![c] = IF chat = 0 THEN "idle" ELSE "send"]
    /\ rchat' = [rchat EXCEPT ![c] = chat]
    /\ UNCHANGED <<ownerVars, flagVars, attemptVars, sessionVars, faults>>

\* doRequest(): send on the handle and wait for the answer.
RequestSend(c) ==
    /\ rpc[c] = "send"
    /\ rpc' = [rpc EXCEPT ![c] = "idle"]
    /\ faults' = faults \cup (IF rchat[c] \in destroyed THEN {"freed chat"} ELSE {})
    /\ UNCHANGED <<ownerVars, flagVars, attemptVars, sessionVars, rchat>>

\* Plausible bug: the thread looks at stopping only behind the test of
\* connected that sends the keepalive.
KeepaliveExitConnected ==
    /\ rpc["keepalive"] = "idle"
    /\ stopping
    /\ connected
    /\ rpc' = [rpc EXCEPT !["keepalive"] = "exited"]
    /\ UNCHANGED <<ownerVars, flagVars, attemptVars, sessionVars, rchat, faults>>

\* The keepalive thread sees stopping after its sleep, connected or not.
KeepaliveExit ==
    /\ rpc["keepalive"] = "idle"
    /\ stopping
    /\ rpc' = [rpc EXCEPT !["keepalive"] = "exited"]
    /\ UNCHANGED <<ownerVars, flagVars, attemptVars, sessionVars, rchat, faults>>

-----------------------------------------------------------------------------
(* close()                                                                 *)

\* Teardown. A dispatch worker whose join was abandoned may still be sending.
Close ==
    /\ mpc = "idle"
    /\ mpc' = "join"
    /\ stopping' = TRUE
    /\ UNCHANGED <<cur, chat, connected, deauthorized, attemptVars, sessionVars,
                   callerVars, faults>>

\* Join the keepalive thread.
CloseJoin ==
    /\ mpc = "join"
    /\ rpc["keepalive"] = "exited"
    /\ mpc' = "destroyAtClose"
    /\ UNCHANGED <<cur, chat, flagVars, attemptVars, sessionVars, callerVars, faults>>

\* Disconnect and destroy the handle (a failed connect() comes here too).
CloseDestroy ==
    /\ mpc = "destroyAtClose"
    /\ mpc' = "forget"
    /\ stopping' = TRUE
    /\ Destroyed(chat)
    /\ UNCHANGED <<cur, chat, connected, deauthorized, attemptVars, revoked, listening,
                   reported, coding, callerVars, faults>>

\* Forget it and clear connected.
CloseForget ==
    /\ mpc = "forget"
    /\ mpc' = "closed"
    /\ chat' = 0
    /\ connected' = FALSE
    /\ UNCHANGED <<cur, deauthorized, stopping, attemptVars, sessionVars, callerVars,
                   faults>>

-----------------------------------------------------------------------------
DoConnect ==
    \/ DestroyOld \/ StartAttempt \/ WaitDone \/ WaitTimeout
    \/ TakeResult \/ InitListener \/ ClearDeauthorized \/ SetConnected

DoClose == CloseJoin \/ CloseDestroy \/ CloseForget

Completion(i) == CompleteNotify(i) \/ CompleteCleanup(i)

Listener(i) == Interrupted(i) \/ InterruptedCode(i)

Requests ==
    \/ \E c \in Callers : RequestBegin(c) \/ RequestRead(c) \/ RequestSend(c)
    \/ KeepaliveExit

Next ==
    \/ Connect \/ Reconnect \/ DoConnect \/ StartRefused \/ InitListenerFails
    \/ Close \/ DoClose \/ Requests
    \/ \E i \in Attempts :
        \/ \E o \in Outcomes : Complete(i, o)
        \/ Completion(i)
        \/ \E invalidated \in BOOLEAN : Lose(i, invalidated)
        \/ Listener(i)

Spec == Init /\ [][Next]_vars

\* The threads that close() waits for keep running: the keepalive thread
\* wakes from its sleep, and libsignal answers or times out its request.
Fairness ==
    /\ WF_vars(DoClose)
    /\ WF_vars(KeepaliveExit)
    /\ \A c \in Callers : WF_vars(RequestRead(c) \/ RequestSend(c))

FairSpec == Spec /\ Fairness

-----------------------------------------------------------------------------
(* Correctness                                                             *)

\* The variables stay in their domains.
TypeOK ==
    /\ mpc \in {"new", "destroy", "call", "wait", "take", "listen", "clear", "set",
                "idle", "join", "destroyAtClose", "forget", "closed"}
    /\ cur \in 0..MaxAttempts
    /\ chat \in 0..cur
    /\ connected \in BOOLEAN /\ deauthorized \in BOOLEAN /\ stopping \in BOOLEAN
    /\ state \in [Attempts -> {"none", "waiting", "done", "abandoned", "freed"}]
    /\ outcome \in [Attempts -> Outcomes \cup {"none"}]
    /\ complete \in [Attempts -> {"none", "notify", "cleanup", "returned"}]
    /\ session \in [Attempts -> {"none", "pending", "up", "down"}]
    /\ revoked \subseteq Attempts /\ coding \subseteq reported
    /\ reported \subseteq listening /\ listening \subseteq Attempts
    /\ destroyed \subseteq Attempts
    /\ rpc \in [Callers -> {"none", "idle", "begun", "send", "exited"}]
    /\ rchat \in [Callers -> 0..cur]
    /\ faults \subseteq {"double free", "freed state", "freed chat"}

\* "the old handle is already dead (connection_interrupted already fired to
\* get us here)" (AuthSocket.cpp:248-249): doConnect() destroys a connection
\* with a listener only after its loss was reported, so that no late report
\* of an old session can clear the connected flag of the new one.
DestroysOnlyLostConnection ==
    mpc = "destroy" /\ chat \in listening => chat \in reported

\* No second live session for the device: a session that is up is the one
\* in chat, the one doConnect() is about to take, or one whose late
\* completion is about to destroy it (the 4409 flap loop of the comment at
\* the top of AuthSocket.cpp).  A socket that was closed keeps none.
NoSecondSession ==
    \A i \in Attempts : session[i] = "up" =>
        \/ i = chat /\ mpc /= "closed"
        \/ i = cur /\ state[i] = "done" /\ mpc \in {"wait", "take"}
        \/ complete[i] = "cleanup"

\* The ConnectState is deleted once: never twice, and not left behind when
\* both the waiter and the completion are through with it.
StateFreedOnce ==
    /\ "double free" \notin faults
    /\ \A i \in Attempts :
        complete[i] = "returned" /\ ~(i = cur /\ mpc \in {"wait", "take"})
            => state[i] = "freed"

\* "self-destructs from whichever side (the timeout or the late completion)
\* loses the race" (AuthSocket.cpp:38-41): of an attempt that timed out, and
\* whose completion comes whenever it likes, neither a live session nor a
\* ConnectState is left, and none is freed twice.
LoserCleansUp == NoSecondSession /\ StateFreedOnce

\* close() returns: whatever became of the connection, the keepalive thread
\* that it joins is not left in its loop, nor in a request of its own on a
\* handle that reconnect() replaced.
CloseReturns == (mpc = "join") ~> (mpc = "closed")

\* isConnected(): "True once the connection has completed and hasn't been
\* closed since" (AuthSocket.h:64-65): the loss the listener reported for
\* the current connection is not forgotten.  It is, when the report comes
\* before doConnect() stores connected = true.
ConnectedIsCurrent == connected /\ mpc = "idle" => chat \notin reported

\* Neither the waiter nor the completion touches a ConnectState that the
\* other has deleted.
NoFreedStateUsed == "freed state" \notin faults

\* reconnect() is "safe to call repeatedly from a watchdog loop"
\* (AuthSocket.h:73-74): no request is sent on a destroyed handle.
NoFreedChatUsed == "freed chat" \notin faults
=============================================================================
