-------------------------- MODULE AuthSocketProofs --------------------------
(***************************************************************************)
(* Proofs about AuthSocket, for any number of connect attempts.            *)
(*                                                                         *)
(* SocketInv ties the three parties that share an attempt together: where  *)
(* the owner is, how far the completion callback got, and what became of   *)
(* the ConnectState and the session.  Its AttemptInv is the ownership rule *)
(* of the code: a ConnectState is the waiter's until the waiter gives up,  *)
(* and from then on the completion's.                                      *)
(***************************************************************************)
EXTENDS AuthSocket, TLAPS

\* The owner is in wait_for() of attempt i, or about to take its result.
AwaitedBy(i) == i = cur /\ mpc \in {"wait", "take"}

\* Attempt i, by the state of its ConnectState.
AttemptInv(i) ==
    /\ i > cur <=> state[i] = "none"
    /\ state[i] = "none" => complete[i] = "none" /\ session[i] = "none"
    /\ state[i] = "waiting" =>
         i = cur /\ mpc = "wait" /\ complete[i] = "none" /\ session[i] = "pending"
    /\ state[i] = "done" =>
         /\ AwaitedBy(i)
         /\ complete[i] \in {"notify", "returned"}
         /\ session[i] \in {"up", "down"}
    /\ state[i] = "abandoned" =>
         /\ ~AwaitedBy(i)
         /\ \/ complete[i] = "none" /\ session[i] = "pending"
            \/ complete[i] = "cleanup" /\ session[i] \in {"up", "down"}
    /\ state[i] = "freed" =>
         /\ ~AwaitedBy(i)
         /\ complete[i] /= "cleanup"
         /\ session[i] /= "pending"
         /\ session[i] = "up" => i = chat
    /\ session[i] = "up" => outcome[i] = "ok"

\* What the owner may rely on where it stands.
OwnerInv ==
    /\ mpc \in {"new", "destroy", "call"} => cur < MaxAttempts
    /\ mpc \in {"new", "wait", "take", "closed"} => chat = 0
    /\ mpc \in {"call", "forget"} /\ chat /= 0 =>
         session[chat] = "down" /\ chat \in destroyed
    /\ mpc \in {"wait", "take", "listen", "clear", "set"} => cur /= 0
    /\ mpc = "wait" => state[cur] \in {"waiting", "done"}
    /\ mpc = "take" => state[cur] = "done"
    /\ mpc \in {"listen", "clear", "set"} => chat = cur
    /\ chat /= 0 => state[chat] = "freed"

\* Only the handle in chat can still report a loss.
ListenerInv ==
    /\ \A i \in listening : state[i] = "freed" /\ (i = chat \/ i \in destroyed)
    /\ mpc = "listen" => cur \notin listening
    /\ mpc = "destroy" /\ chat \in listening => chat \in reported
    /\ mpc = "idle" /\ ~connected /\ chat \in listening => chat \in reported

SocketInv ==
    /\ TypeOK
    /\ "double free" \notin faults
    /\ \A i \in Attempts : AttemptInv(i)
    /\ OwnerInv
    /\ ListenerInv

-----------------------------------------------------------------------------
(* Facts used everywhere                                                   *)

\* Handles and attempts are numbered from one; 0 is the null handle.
LEMMA Numbers ==
    ASSUME SocketInv
    PROVE  /\ cur \in Nat /\ cur <= MaxAttempts /\ MaxAttempts \in Nat
           /\ chat \in Nat /\ chat <= cur
           /\ chat = 0 \/ chat \in Attempts
           /\ cur /= 0 => cur \in Attempts
           /\ 0 \notin Attempts /\ 0 \notin listening /\ 0 \notin reported
<1>1. /\ MaxAttempts \in Nat /\ cur \in 0..MaxAttempts /\ chat \in 0..cur
      /\ listening \subseteq Attempts /\ reported \subseteq listening
  BY SocketAssumption DEF SocketInv, TypeOK
<1>2. 0 \notin Attempts
  BY SocketAssumption DEF Attempts
<1>3. /\ cur \in Nat /\ cur <= MaxAttempts /\ chat \in Nat /\ chat <= cur
  BY <1>1
<1>4. (chat = 0 \/ chat \in Attempts) /\ (cur /= 0 => cur \in Attempts)
  BY <1>1, <1>3 DEF Attempts
<1> QED
  BY <1>1, <1>2, <1>3, <1>4

\* The next attempt is one that nothing is known of yet.
LEMMA NextAttempt ==
    ASSUME SocketInv, mpc = "call"
    PROVE  /\ cur + 1 \in Attempts /\ cur + 1 /= chat
           /\ state[cur + 1] = "none" /\ complete[cur + 1] = "none"
           /\ session[cur + 1] = "none"
<1>1. cur + 1 \in Attempts /\ cur + 1 > cur /\ cur + 1 /= chat
  <2>1. cur < MaxAttempts
    BY DEF SocketInv, OwnerInv
  <2>2. cur \in Nat /\ MaxAttempts \in Nat /\ chat \in Nat /\ chat <= cur
    BY Numbers
  <2> QED
    BY <2>1, <2>2 DEF Attempts
<1>2. AttemptInv(cur + 1)
  BY <1>1 DEF SocketInv
<1> QED
  BY <1>1, <1>2 DEF AttemptInv

\* A doConnect() that fails leaves the owner idle, or closing.
LEMMA FailedValue == Failed \in {"destroyAtClose", "idle"}
  BY DEF Failed

\* What disconnectAndDestroyBestEffort() does to the null or another handle.
LEMMA DestroyedEffect ==
    ASSUME TypeOK, NEW i, i = 0 \/ i \in Attempts, Destroyed(i)
    PROVE  /\ session' \in [Attempts -> {"none", "pending", "up", "down"}]
           /\ destroyed' \subseteq Attempts
           /\ destroyed \subseteq destroyed'
           /\ i /= 0 => i \in destroyed'
           /\ \A k \in Attempts :
                session'[k] = IF k = i THEN "down" ELSE session[k]
<1>0. 0 \notin Attempts
  BY SocketAssumption DEF Attempts
<1>1. CASE i = 0
  BY <1>0, <1>1 DEF Destroyed, TypeOK
<1>2. CASE i \in Attempts
  BY <1>0, <1>2 DEF Destroyed, TypeOK
<1> QED
  BY <1>1, <1>2

-----------------------------------------------------------------------------
(* The owner: connect(), reconnect() and doConnect()                       *)

\* connect() begins the first attempt.
LEMMA ConnectInv ==
    ASSUME SocketInv, Connect
    PROVE  SocketInv'
<1> USE SocketAssumption DEF Connect,
      ownerVars, flagVars, attemptVars, sessionVars, callerVars, Attempts
<1>1. TypeOK' /\ "double free" \notin faults'
  BY DEF SocketInv, TypeOK, AttemptInv, OwnerInv, Outcomes, Callers
<1>2. ASSUME NEW k \in Attempts PROVE AttemptInv(k)'
  BY DEF SocketInv, TypeOK, AttemptInv, AwaitedBy, OwnerInv
<1>3. OwnerInv'
  BY DEF SocketInv, TypeOK, AttemptInv, AwaitedBy, OwnerInv
<1>4. ListenerInv'
  BY Numbers DEF SocketInv, OwnerInv, ListenerInv
<1> QED
  BY <1>1, <1>2, <1>3, <1>4 DEF SocketInv

\* A handle with a listener is given up only after its loss was reported.
LEMMA ReconnectInv ==
    ASSUME SocketInv, Reconnect
    PROVE  SocketInv'
<1> USE SocketAssumption DEF Reconnect,
      ownerVars, flagVars, attemptVars, sessionVars, callerVars, Attempts
<1>1. TypeOK' /\ "double free" \notin faults'
  BY DEF SocketInv, TypeOK, AttemptInv, OwnerInv, Outcomes, Callers
<1>2. ASSUME NEW k \in Attempts PROVE AttemptInv(k)'
  BY DEF SocketInv, TypeOK, AttemptInv, AwaitedBy, OwnerInv
<1>3. OwnerInv'
  BY DEF SocketInv, TypeOK, AttemptInv, AwaitedBy, OwnerInv
<1>4. ListenerInv'
  BY DEF SocketInv, TypeOK, AttemptInv, AwaitedBy, OwnerInv, ListenerInv
<1> QED
  BY <1>1, <1>2, <1>3, <1>4 DEF SocketInv

\* doConnect() destroys the handle before.
LEMMA DestroyOldInv ==
    ASSUME SocketInv, DestroyOld
    PROVE  SocketInv'
<1> USE DEF ownerVars, flagVars, attemptVars, sessionVars, callerVars
<1>0. /\ mpc = "destroy" /\ mpc' = "call"
      /\ UNCHANGED <<cur, chat, flagVars, attemptVars, revoked, listening, reported,
                     coding, callerVars, faults>>
  BY DEF DestroyOld
<1>d. /\ session' \in [Attempts -> {"none", "pending", "up", "down"}]
      /\ destroyed' \subseteq Attempts
      /\ destroyed \subseteq destroyed'
      /\ chat /= 0 => chat \in destroyed'
      /\ \A k \in Attempts :
           session'[k] = IF k = chat THEN "down" ELSE session[k]
  BY Numbers, DestroyedEffect DEF DestroyOld, SocketInv
<1>1. TypeOK' /\ "double free" \notin faults'
  BY <1>0, <1>d DEF SocketInv, TypeOK
<1>2. ASSUME NEW k \in Attempts PROVE AttemptInv(k)'
  BY ZenonT(40), <1>0, <1>d, Numbers DEF SocketInv, AttemptInv, AwaitedBy, OwnerInv
<1>3. OwnerInv'
  BY <1>0, <1>d, Numbers DEF SocketInv, OwnerInv
<1>4. ListenerInv'
  BY <1>0, <1>d DEF SocketInv, ListenerInv
<1> QED
  BY <1>1, <1>2, <1>3, <1>4 DEF SocketInv

\* The old handle is destroyed by now: forgetting it loses no session.
LEMMA StartAttemptInv ==
    ASSUME SocketInv, StartAttempt
    PROVE  SocketInv'
<1> USE DEF ownerVars, flagVars, attemptVars, sessionVars, callerVars
<1>0. /\ mpc = "call" /\ mpc' = "wait" /\ chat' = 0 /\ cur' = cur + 1
      /\ state' = [state EXCEPT ![cur + 1] = "waiting"]
      /\ session' = [session EXCEPT ![cur + 1] = "pending"]
      /\ UNCHANGED <<flagVars, outcome, complete, revoked, listening, reported,
                     destroyed, coding, callerVars, faults>>
  BY DEF StartAttempt
<1>n. /\ cur + 1 \in Attempts /\ cur + 1 /= chat
      /\ state[cur + 1] = "none" /\ complete[cur + 1] = "none"
  BY <1>0, NextAttempt
<1>e. \A k \in Attempts :
        /\ state'[k] = IF k = cur + 1 THEN "waiting" ELSE state[k]
        /\ session'[k] = IF k = cur + 1 THEN "pending" ELSE session[k]
  BY <1>0 DEF SocketInv, TypeOK
<1>1. TypeOK' /\ "double free" \notin faults'
  <2>1. cur' \in 0..MaxAttempts /\ chat' \in 0..cur' /\ 0..cur \subseteq 0..cur'
    BY <1>0, <1>n, Numbers DEF Attempts
  <2>2. rchat' \in [Callers -> 0..cur']
    BY <1>0, <2>1 DEF SocketInv, TypeOK
  <2> QED
    BY <1>0, <1>n, <2>1, <2>2 DEF SocketInv, TypeOK
<1>2. ASSUME NEW k \in Attempts PROVE AttemptInv(k)'
  <2>1. AttemptInv(k)
    BY DEF SocketInv
  <2>2. chat /= 0 => session[chat] = "down"
    BY <1>0 DEF SocketInv, OwnerInv
  <2>3. CASE k = cur + 1
    BY <1>0, <1>n, <1>e, <2>1, <2>3, Numbers DEF AttemptInv, AwaitedBy
  <2>4. CASE k /= cur + 1
    <3>1. k > cur' <=> k > cur
      BY <1>0, <2>4, Numbers DEF Attempts
    <3>2. k /= cur' /\ ~AwaitedBy(k)
      BY <1>0, <2>4 DEF AwaitedBy
    <3>3. ~AwaitedBy(k)'
      BY <1>0, <2>4 DEF AwaitedBy
    <3>4. session[k] = "up" => k /= chat
      BY <2>2, Numbers
    <3>5. state[k] /= "waiting" /\ state[k] /= "done"
      BY <1>0, <2>1, <3>2 DEF AttemptInv
    <3> QED
      BY <1>0, <1>e, <2>1, <2>4, <3>1, <3>2, <3>3, <3>4, <3>5 DEF AttemptInv
  <2> QED
    BY <2>3, <2>4
<1>3. OwnerInv'
  BY <1>0, <1>n, <1>e, Numbers DEF OwnerInv
<1>4. ListenerInv'
  <2>1. \A k \in listening : k \in Attempts /\ k /= cur + 1 /\ k \in destroyed
    BY ZenonT(40), <1>0, <1>n, Numbers DEF SocketInv, TypeOK, ListenerInv, OwnerInv
  <2> QED
    BY <1>0, <1>e, <2>1 DEF SocketInv, ListenerInv
<1> QED
  BY <1>1, <1>2, <1>3, <1>4 DEF SocketInv

\* The connect could not be begun: nothing is left of the attempt.
LEMMA StartRefusedInv ==
    ASSUME SocketInv, StartRefused
    PROVE  SocketInv'
<1> USE DEF ownerVars, flagVars, attemptVars, sessionVars, callerVars
<1>0. /\ mpc = "call" /\ mpc' \in {"destroyAtClose", "idle"}
      /\ chat' = 0 /\ cur' = cur + 1
      /\ state' = [state EXCEPT ![cur + 1] = "freed"]
      /\ UNCHANGED <<flagVars, outcome, complete, sessionVars, callerVars, faults>>
  BY FailedValue DEF StartRefused
<1>n. /\ cur + 1 \in Attempts /\ cur + 1 /= chat
      /\ state[cur + 1] = "none" /\ complete[cur + 1] = "none"
      /\ session[cur + 1] = "none"
  BY <1>0, NextAttempt
<1>e. \A k \in Attempts : state'[k] = IF k = cur + 1 THEN "freed" ELSE state[k]
  BY <1>0 DEF SocketInv, TypeOK
<1>1. TypeOK' /\ "double free" \notin faults'
  <2>1. cur' \in 0..MaxAttempts /\ chat' \in 0..cur' /\ 0..cur \subseteq 0..cur'
    BY <1>0, <1>n, Numbers DEF Attempts
  <2>2. rchat' \in [Callers -> 0..cur']
    BY <1>0, <2>1 DEF SocketInv, TypeOK
  <2>3. state' \in [Attempts -> {"none", "waiting", "done", "abandoned", "freed"}]
    BY <1>0, <1>n DEF SocketInv, TypeOK
  <2>4. mpc' \in {"new", "destroy", "call", "wait", "take", "listen", "clear", "set",
                  "idle", "join", "destroyAtClose", "forget", "closed"}
    BY <1>0
  <2> QED
    BY <1>0, <2>1, <2>2, <2>3, <2>4 DEF SocketInv, TypeOK
<1>2. ASSUME NEW k \in Attempts PROVE AttemptInv(k)'
  <2>1. AttemptInv(k)
    BY DEF SocketInv
  <2>2. chat /= 0 => session[chat] = "down"
    BY <1>0 DEF SocketInv, OwnerInv
  <2>3. ~AwaitedBy(k) /\ ~AwaitedBy(k)'
    BY <1>0 DEF AwaitedBy
  <2>4. CASE k = cur + 1
    BY <1>0, <1>n, <1>e, <2>1, <2>3, <2>4, Numbers DEF AttemptInv
  <2>5. CASE k /= cur + 1
    <3>1. k > cur' <=> k > cur
      BY <1>0, <2>5, Numbers DEF Attempts
    <3>2. session[k] = "up" => k /= chat
      BY <2>2, Numbers
    <3>3. state[k] /= "waiting" /\ state[k] /= "done"
      BY <1>0, <2>1, <2>3 DEF AttemptInv
    <3> QED
      BY <1>0, <1>e, <2>1, <2>3, <2>5, <3>1, <3>2, <3>3 DEF AttemptInv
  <2> QED
    BY <2>4, <2>5
<1>3. OwnerInv'
  BY <1>0 DEF OwnerInv
<1>4. ListenerInv'
  <2>1. \A k \in listening : k \in Attempts /\ k /= cur + 1 /\ k \in destroyed
    BY ZenonT(40), <1>0, <1>n, Numbers DEF SocketInv, TypeOK, ListenerInv, OwnerInv
  <2> QED
    BY <1>0, <1>e, <2>1, Numbers DEF SocketInv, ListenerInv
<1> QED
  BY <1>1, <1>2, <1>3, <1>4 DEF SocketInv

\* The wait sees that its attempt is done.
LEMMA WaitDoneInv ==
    ASSUME SocketInv, WaitDone
    PROVE  SocketInv'
<1> USE SocketAssumption DEF WaitDone,
      ownerVars, flagVars, attemptVars, sessionVars, callerVars, Attempts
<1>1. TypeOK' /\ "double free" \notin faults'
  BY DEF SocketInv, TypeOK, AttemptInv, OwnerInv, Outcomes, Callers
<1>2. ASSUME NEW k \in Attempts PROVE AttemptInv(k)'
  BY DEF SocketInv, TypeOK, AttemptInv, AwaitedBy, OwnerInv
<1>3. OwnerInv'
  BY DEF SocketInv, TypeOK, AttemptInv, AwaitedBy, OwnerInv
<1>4. ListenerInv'
  BY DEF SocketInv, TypeOK, AttemptInv, AwaitedBy, OwnerInv, ListenerInv
<1> QED
  BY <1>1, <1>2, <1>3, <1>4 DEF SocketInv

\* From here on the ConnectState belongs to the completion.
LEMMA WaitTimeoutInv ==
    ASSUME SocketInv, WaitTimeout
    PROVE  SocketInv'
<1> USE SocketAssumption DEF WaitTimeout, Failed,
      ownerVars, flagVars, attemptVars, sessionVars, callerVars, Attempts
<1>1. TypeOK' /\ "double free" \notin faults'
  BY DEF SocketInv, TypeOK, AttemptInv, OwnerInv, Outcomes, Callers
<1>2. ASSUME NEW k \in Attempts PROVE AttemptInv(k)'
  BY DEF SocketInv, TypeOK, AttemptInv, AwaitedBy, OwnerInv
<1>3. OwnerInv'
  BY DEF SocketInv, TypeOK, AttemptInv, AwaitedBy, OwnerInv
<1>4. ListenerInv'
  BY ZenonT(40), Numbers, FailedValue DEF SocketInv, TypeOK, OwnerInv, ListenerInv
<1> QED
  BY <1>1, <1>2, <1>3, <1>4 DEF SocketInv

\* A session that came up goes into chat, where there was no handle.
LEMMA TakeResultInv ==
    ASSUME SocketInv, TakeResult
    PROVE  SocketInv'
<1> USE DEF ownerVars, flagVars, attemptVars, sessionVars, callerVars
<1>0. /\ mpc = "take" /\ chat = 0 /\ cur \in Attempts /\ state[cur] = "done"
  BY Numbers DEF TakeResult, SocketInv, OwnerInv
<1>s. /\ state' = [state EXCEPT ![cur] = "freed"]
      /\ \/ outcome[cur] = "ok" /\ mpc' = "listen" /\ chat' = cur
         \/ /\ outcome[cur] /= "ok" /\ mpc' \in {"destroyAtClose", "idle"}
            /\ chat' = 0
      /\ deauthorized' \in BOOLEAN
      /\ faults' = faults
      /\ UNCHANGED <<cur, connected, stopping, outcome, complete, sessionVars,
                     callerVars>>
  BY <1>0, FailedValue DEF TakeResult, Freed, SocketInv, TypeOK
<1>e. \A k \in Attempts : state'[k] = IF k = cur THEN "freed" ELSE state[k]
  BY <1>s DEF SocketInv, TypeOK
<1>1. TypeOK' /\ "double free" \notin faults'
  <2>1. chat' \in 0..cur'
    BY <1>s, Numbers
  <2>2. mpc' \in {"new", "destroy", "call", "wait", "take", "listen", "clear", "set",
                  "idle", "join", "destroyAtClose", "forget", "closed"}
    BY <1>s
  <2>3. state' \in [Attempts -> {"none", "waiting", "done", "abandoned", "freed"}]
    BY <1>0, <1>s DEF SocketInv, TypeOK
  <2> QED
    BY <1>s, <2>1, <2>2, <2>3 DEF SocketInv, TypeOK
<1>2. ASSUME NEW k \in Attempts PROVE AttemptInv(k)'
  <2>1. AttemptInv(k) /\ ~AwaitedBy(k)'
    BY <1>s DEF SocketInv, AwaitedBy
  <2>2. CASE k = cur
    BY <1>0, <1>s, <1>e, <2>1, <2>2, Numbers DEF AttemptInv
  <2>3. CASE k /= cur
    <3>1. ~AwaitedBy(k) /\ k /= 0
      BY <2>3, Numbers DEF AwaitedBy
    <3> QED
      BY <1>0, <1>s, <1>e, <2>1, <2>3, <3>1 DEF AttemptInv
  <2> QED
    BY <2>2, <2>3
<1>3. OwnerInv'
  BY <1>0, <1>s, <1>e, Numbers DEF OwnerInv
<1>4. ListenerInv'
  <2>1. \A k \in listening : k \in Attempts /\ k /= cur /\ k \in destroyed
    BY <1>0, Numbers DEF SocketInv, TypeOK, ListenerInv
  <2> QED
    BY <1>0, <1>s, <1>e, <2>1, Numbers DEF SocketInv, ListenerInv
<1> QED
  BY <1>1, <1>2, <1>3, <1>4 DEF SocketInv

\* The listener is installed on the new handle.
LEMMA InitListenerInv ==
    ASSUME SocketInv, InitListener
    PROVE  SocketInv'
<1> USE SocketAssumption DEF InitListener,
      ownerVars, flagVars, attemptVars, sessionVars, callerVars, Attempts
<1>1. TypeOK' /\ "double free" \notin faults'
  BY Numbers DEF SocketInv, TypeOK, OwnerInv
<1>2. ASSUME NEW k \in Attempts PROVE AttemptInv(k)'
  BY DEF SocketInv, TypeOK, AttemptInv, AwaitedBy, OwnerInv
<1>3. OwnerInv'
  BY DEF SocketInv, TypeOK, AttemptInv, AwaitedBy, OwnerInv
<1>4. ListenerInv'
  BY DEF SocketInv, TypeOK, AttemptInv, AwaitedBy, OwnerInv, ListenerInv
<1> QED
  BY <1>1, <1>2, <1>3, <1>4 DEF SocketInv

\* It cannot be installed: the handle stays without one.
LEMMA InitListenerFailsInv ==
    ASSUME SocketInv, InitListenerFails
    PROVE  SocketInv'
<1> USE SocketAssumption DEF InitListenerFails, Failed,
      ownerVars, flagVars, attemptVars, sessionVars, callerVars, Attempts
<1>1. TypeOK' /\ "double free" \notin faults'
  BY DEF SocketInv, TypeOK, AttemptInv, OwnerInv, Outcomes, Callers
<1>2. ASSUME NEW k \in Attempts PROVE AttemptInv(k)'
  BY DEF SocketInv, TypeOK, AttemptInv, AwaitedBy, OwnerInv
<1>3. OwnerInv'
  BY DEF SocketInv, TypeOK, AttemptInv, AwaitedBy, OwnerInv
<1>4. ListenerInv'
  BY DEF SocketInv, TypeOK, AttemptInv, AwaitedBy, OwnerInv, ListenerInv
<1> QED
  BY <1>1, <1>2, <1>3, <1>4 DEF SocketInv

\* The flag of an earlier rejection is cleared.
LEMMA ClearDeauthorizedInv ==
    ASSUME SocketInv, ClearDeauthorized
    PROVE  SocketInv'
<1> USE SocketAssumption DEF ClearDeauthorized,
      ownerVars, flagVars, attemptVars, sessionVars, callerVars, Attempts
<1>1. TypeOK' /\ "double free" \notin faults'
  BY DEF SocketInv, TypeOK, AttemptInv, OwnerInv, Outcomes, Callers
<1>2. ASSUME NEW k \in Attempts PROVE AttemptInv(k)'
  BY DEF SocketInv, TypeOK, AttemptInv, AwaitedBy, OwnerInv
<1>3. OwnerInv'
  BY DEF SocketInv, TypeOK, AttemptInv, AwaitedBy, OwnerInv
<1>4. ListenerInv'
  BY DEF SocketInv, TypeOK, AttemptInv, AwaitedBy, OwnerInv, ListenerInv
<1> QED
  BY <1>1, <1>2, <1>3, <1>4 DEF SocketInv

\* doConnect() reports the connection as up.
LEMMA SetConnectedInv ==
    ASSUME SocketInv, SetConnected
    PROVE  SocketInv'
<1> USE SocketAssumption DEF SetConnected,
      ownerVars, flagVars, attemptVars, sessionVars, callerVars, Attempts
<1>1. TypeOK' /\ "double free" \notin faults'
  BY DEF SocketInv, TypeOK, AttemptInv, OwnerInv, Outcomes, Callers
<1>2. ASSUME NEW k \in Attempts PROVE AttemptInv(k)'
  BY DEF SocketInv, TypeOK, AttemptInv, AwaitedBy, OwnerInv
<1>3. OwnerInv'
  BY DEF SocketInv, TypeOK, AttemptInv, AwaitedBy, OwnerInv
<1>4. ListenerInv'
  BY DEF SocketInv, TypeOK, AttemptInv, AwaitedBy, OwnerInv, ListenerInv
<1> QED
  BY <1>1, <1>2, <1>3, <1>4 DEF SocketInv

-----------------------------------------------------------------------------
(* libsignal's threads                                                     *)

\* The outcome goes to whoever owns the ConnectState.
LEMMA CompleteInv ==
    ASSUME SocketInv, NEW i \in Attempts, NEW o \in Outcomes, Complete(i, o)
    PROVE  SocketInv'
<1> USE DEF ownerVars, flagVars, attemptVars, sessionVars, callerVars
<1>0. /\ session[i] = "pending"
      /\ outcome' = [outcome EXCEPT ![i] = o]
      /\ UNCHANGED <<ownerVars, flagVars, revoked, listening, reported, destroyed,
                     coding, callerVars, faults>>
  BY DEF Complete
<1>i. /\ AttemptInv(i)
      /\ state[i] \in {"waiting", "abandoned"}
      /\ i /= chat /\ i \notin listening
  <2>1. AttemptInv(i) /\ state[i] \in {"none", "waiting", "done", "abandoned", "freed"}
    BY DEF SocketInv, TypeOK
  <2>2. state[i] \in {"waiting", "abandoned"}
    BY <1>0, <2>1 DEF AttemptInv
  <2>3. i /= chat
    BY <2>2, Numbers DEF SocketInv, OwnerInv
  <2>4. i \notin listening
    BY <2>2 DEF SocketInv, ListenerInv
  <2> QED
    BY <2>1, <2>2, <2>3, <2>4
<1>o. /\ session' \in [Attempts -> {"none", "pending", "up", "down"}]
      /\ session'[i] \in {"up", "down"} /\ (session'[i] = "up" => o = "ok")
      /\ \A k \in Attempts : k /= i => session'[k] = session[k]
  BY DEF Complete, SocketInv, TypeOK
<1>c. /\ state' \in [Attempts -> {"none", "waiting", "done", "abandoned", "freed"}]
      /\ complete' \in [Attempts -> {"none", "notify", "cleanup", "returned"}]
      /\ \/ /\ state[i] = "abandoned" /\ state'[i] = "abandoned"
            /\ complete'[i] = "cleanup"
         \/ /\ state[i] = "waiting" /\ state'[i] = "done"
            /\ complete'[i] = "notify"
      /\ \A k \in Attempts : k /= i =>
           state'[k] = state[k] /\ complete'[k] = complete[k]
  <2>1. CASE state[i] = "abandoned"
    BY <2>1 DEF Complete, SocketInv, TypeOK
  <2>2. CASE state[i] = "waiting"
    BY <2>2 DEF Complete, SocketInv, TypeOK
  <2> QED
    BY <1>i, <2>1, <2>2
<1>1. TypeOK' /\ "double free" \notin faults'
  BY <1>0, <1>o, <1>c DEF SocketInv, TypeOK
<1>2. ASSUME NEW k \in Attempts PROVE AttemptInv(k)'
  <2>1. AttemptInv(k) /\ (AwaitedBy(k)' <=> AwaitedBy(k))
    BY <1>0 DEF SocketInv, AwaitedBy
  <2>2. CASE k = i
    <3>1. outcome'[i] = o
      BY <1>0 DEF SocketInv, TypeOK
    <3>2. state[i] = "waiting" => AwaitedBy(i)
      BY <1>i DEF AttemptInv, AwaitedBy
    <3> QED
      BY <1>0, <1>i, <1>o, <1>c, <2>1, <2>2, <3>1, <3>2 DEF AttemptInv
  <2>3. CASE k /= i
    <3>1. outcome'[k] = outcome[k]
      BY <1>0, <2>3 DEF SocketInv, TypeOK
    <3> QED
      BY <1>0, <1>o, <1>c, <2>1, <2>3, <3>1 DEF AttemptInv
  <2> QED
    BY <2>2, <2>3
<1>3. OwnerInv'
  <2>1. mpc = "take" => cur /= i
    BY <1>i DEF SocketInv, OwnerInv
  <2> QED
    BY <1>0, <1>i, <1>o, <1>c, <2>1, Numbers DEF SocketInv, OwnerInv
<1>4. ListenerInv'
  BY <1>0, <1>i, <1>c DEF SocketInv, TypeOK, ListenerInv
<1> QED
  BY <1>1, <1>2, <1>3, <1>4 DEF SocketInv

\* The completion wakes a waiter; what the attempt left is unchanged.
LEMMA CompleteNotifyInv ==
    ASSUME SocketInv, NEW i \in Attempts, CompleteNotify(i)
    PROVE  SocketInv'
<1> USE SocketAssumption DEF CompleteNotify,
      ownerVars, flagVars, attemptVars, sessionVars, callerVars, Attempts
<1>1. TypeOK' /\ "double free" \notin faults'
  BY DEF SocketInv, TypeOK, AttemptInv, OwnerInv, Outcomes, Callers
<1>2. ASSUME NEW k \in Attempts PROVE AttemptInv(k)'
  BY DEF SocketInv, TypeOK, AttemptInv, AwaitedBy, OwnerInv
<1>3. OwnerInv'
  BY DEF SocketInv, TypeOK, AttemptInv, AwaitedBy, OwnerInv
<1>4. ListenerInv'
  BY DEF SocketInv, TypeOK, AttemptInv, AwaitedBy, OwnerInv, ListenerInv
<1> QED
  BY <1>1, <1>2, <1>3, <1>4 DEF SocketInv

\* Nobody waits: the late completion leaves neither session nor state.
LEMMA CompleteCleanupInv ==
    ASSUME SocketInv, NEW i \in Attempts, CompleteCleanup(i)
    PROVE  SocketInv'
<1> USE DEF ownerVars, flagVars, attemptVars, sessionVars, callerVars
<1> DEFINE handle == IF outcome[i] = "ok" THEN i ELSE 0
<1>0. /\ complete[i] = "cleanup"
      /\ complete' = [complete EXCEPT ![i] = "returned"]
      /\ state' = [state EXCEPT ![i] = "freed"]
      /\ UNCHANGED <<ownerVars, flagVars, outcome, revoked, listening, reported,
                     coding, callerVars>>
  BY DEF CompleteCleanup, Freed
<1>i. /\ AttemptInv(i) /\ state[i] = "abandoned" /\ i /= chat /\ ~AwaitedBy(i)
      /\ session[i] \in {"up", "down"}
      /\ i \notin listening
  <2>1. AttemptInv(i) /\ state[i] \in {"none", "waiting", "done", "abandoned", "freed"}
    BY DEF SocketInv, TypeOK
  <2>2. state[i] = "abandoned" /\ ~AwaitedBy(i) /\ session[i] \in {"up", "down"}
    BY <1>0, <2>1 DEF AttemptInv
  <2>3. i /= chat
    BY <2>2, Numbers DEF SocketInv, OwnerInv
  <2>4. i \notin listening
    BY <2>2 DEF SocketInv, ListenerInv
  <2> QED
    BY <2>1, <2>2, <2>3, <2>4
<1>f. faults' = faults
  BY <1>i DEF CompleteCleanup, Freed
<1>d. /\ session' \in [Attempts -> {"none", "pending", "up", "down"}]
      /\ destroyed' \subseteq Attempts
      /\ destroyed \subseteq destroyed'
      /\ \A k \in Attempts :
           session'[k] = IF k = handle THEN "down" ELSE session[k]
  <2>1. handle = 0 \/ handle \in Attempts
    OBVIOUS
  <2>2. TypeOK /\ Destroyed(handle)
    BY DEF CompleteCleanup, SocketInv
  <2> HIDE DEF handle
  <2> QED
    BY <2>1, <2>2, DestroyedEffect
<1>u. /\ session'[i] = "down"
      /\ \A k \in Attempts : k /= i => session'[k] = session[k]
  <2>1. session[i] \in {"up", "down"} /\ (session[i] = "up" => outcome[i] = "ok")
    BY <1>i DEF AttemptInv
  <2>2. outcome[i] = "ok" => session'[i] = "down"
    BY <1>d
  <2>3. outcome[i] /= "ok" => session'[i] = session[i]
    BY <1>d, Numbers
  <2> QED
    BY <1>d, <2>1, <2>2, <2>3, Numbers
<1> HIDE DEF handle
<1>e. \A k \in Attempts :
        /\ state'[k] = IF k = i THEN "freed" ELSE state[k]
        /\ complete'[k] = IF k = i THEN "returned" ELSE complete[k]
  BY <1>0 DEF SocketInv, TypeOK
<1>1. TypeOK' /\ "double free" \notin faults'
  BY <1>0, <1>f, <1>d DEF SocketInv, TypeOK
<1>2. ASSUME NEW k \in Attempts PROVE AttemptInv(k)'
  <2>1. AttemptInv(k) /\ (AwaitedBy(k)' <=> AwaitedBy(k))
    BY <1>0 DEF SocketInv, AwaitedBy
  <2>2. CASE k = i
    BY <1>0, <1>i, <1>u, <1>e, <2>1, <2>2 DEF AttemptInv
  <2>3. CASE k /= i
    BY <1>0, <1>u, <1>e, <2>1, <2>3 DEF AttemptInv
  <2> QED
    BY <2>2, <2>3
<1>3. OwnerInv'
  <2>1. mpc \in {"wait", "take"} => cur /= i
    BY <1>i DEF AwaitedBy
  <2> QED
    BY <1>0, <1>i, <1>d, <1>u, <1>e, <2>1, Numbers DEF SocketInv, OwnerInv
<1>4. ListenerInv'
  BY <1>0, <1>i, <1>d, <1>e DEF SocketInv, TypeOK, ListenerInv
<1> QED
  BY <1>1, <1>2, <1>3, <1>4 DEF SocketInv

\* The connection of a handle with a listener is lost.
LEMMA LoseInv ==
    ASSUME SocketInv, NEW i \in Attempts, NEW invalidated \in BOOLEAN, Lose(i, invalidated)
    PROVE  SocketInv'
<1> USE SocketAssumption DEF Lose,
      ownerVars, flagVars, attemptVars, sessionVars, callerVars, Attempts
<1>1. TypeOK' /\ "double free" \notin faults'
  BY DEF SocketInv, TypeOK, AttemptInv, OwnerInv, Outcomes, Callers
<1>2. ASSUME NEW k \in Attempts PROVE AttemptInv(k)'
  BY DEF SocketInv, TypeOK, AttemptInv, AwaitedBy, OwnerInv
<1>3. OwnerInv'
  BY DEF SocketInv, TypeOK, AttemptInv, AwaitedBy, OwnerInv
<1>4. ListenerInv'
  BY DEF SocketInv, TypeOK, AttemptInv, AwaitedBy, OwnerInv, ListenerInv
<1> QED
  BY <1>1, <1>2, <1>3, <1>4 DEF SocketInv

\* Only the handle in chat has a listener and is not destroyed.
LEMMA InterruptedInv ==
    ASSUME SocketInv, NEW i \in Attempts, Interrupted(i)
    PROVE  SocketInv'
<1> USE SocketAssumption DEF Interrupted, Reportable,
      ownerVars, flagVars, attemptVars, sessionVars, callerVars, Attempts
<1>1. TypeOK' /\ "double free" \notin faults'
  BY ZenonT(40) DEF SocketInv, TypeOK, AttemptInv, OwnerInv, Outcomes, Callers
<1>2. ASSUME NEW k \in Attempts PROVE AttemptInv(k)'
  BY DEF SocketInv, TypeOK, AttemptInv, AwaitedBy, OwnerInv
<1>3. OwnerInv'
  BY DEF SocketInv, TypeOK, AttemptInv, AwaitedBy, OwnerInv
<1>4. ListenerInv'
  BY DEF SocketInv, TypeOK, AttemptInv, AwaitedBy, OwnerInv, ListenerInv
<1> QED
  BY <1>1, <1>2, <1>3, <1>4 DEF SocketInv

\* The listener's callback runs after the loss.
LEMMA InterruptedCodeInv ==
    ASSUME SocketInv, NEW i \in Attempts, InterruptedCode(i)
    PROVE  SocketInv'
<1> USE SocketAssumption DEF InterruptedCode,
      ownerVars, flagVars, attemptVars, sessionVars, callerVars, Attempts
<1>1. TypeOK' /\ "double free" \notin faults'
  BY DEF SocketInv, TypeOK, AttemptInv, OwnerInv, Outcomes, Callers
<1>2. ASSUME NEW k \in Attempts PROVE AttemptInv(k)'
  BY DEF SocketInv, TypeOK, AttemptInv, AwaitedBy, OwnerInv
<1>3. OwnerInv'
  BY DEF SocketInv, TypeOK, AttemptInv, AwaitedBy, OwnerInv
<1>4. ListenerInv'
  BY DEF SocketInv, TypeOK, AttemptInv, AwaitedBy, OwnerInv, ListenerInv
<1> QED
  BY <1>1, <1>2, <1>3, <1>4 DEF SocketInv

-----------------------------------------------------------------------------
(* The callers and close()                                                 *)

\* The threads in request() change only what is theirs.
LEMMA CallersInv ==
    ASSUME SocketInv, UNCHANGED <<ownerVars, flagVars, attemptVars, sessionVars>>,
           rpc' \in [Callers -> {"none", "idle", "begun", "send", "exited"}],
           rchat' \in [Callers -> 0..cur],
           faults' \subseteq faults \cup {"freed chat"}
    PROVE  SocketInv'
<1> USE DEF ownerVars, flagVars, attemptVars, sessionVars
<1>1. TypeOK' /\ "double free" \notin faults'
  BY DEF SocketInv, TypeOK
<1>2. ASSUME NEW k \in Attempts PROVE AttemptInv(k)'
  BY DEF SocketInv, AttemptInv, AwaitedBy
<1>3. OwnerInv' /\ ListenerInv'
  BY DEF SocketInv, OwnerInv, ListenerInv
<1> QED
  BY <1>1, <1>2, <1>3 DEF SocketInv

\* Requests and the keepalive read the handle and leave it.
LEMMA RequestsInv ==
    ASSUME SocketInv, Requests
    PROVE  SocketInv'
<1>0. /\ rpc \in [Callers -> {"none", "idle", "begun", "send", "exited"}]
      /\ rchat \in [Callers -> 0..cur] /\ chat \in 0..cur
  BY DEF SocketInv, TypeOK
<1>1. ASSUME NEW c \in Callers, RequestBegin(c) PROVE SocketInv'
  BY <1>0, <1>1, CallersInv DEF RequestBegin
<1>2. ASSUME NEW c \in Callers, RequestRead(c) PROVE SocketInv'
  BY <1>0, <1>2, CallersInv DEF RequestRead
<1>3. ASSUME NEW c \in Callers, RequestSend(c) PROVE SocketInv'
  BY <1>0, <1>3, CallersInv DEF RequestSend
<1>4. CASE KeepaliveExit
  BY <1>0, <1>4, CallersInv DEF KeepaliveExit
<1> QED
  BY <1>1, <1>2, <1>3, <1>4 DEF Requests

\* close() begins.
LEMMA CloseInv ==
    ASSUME SocketInv, Close
    PROVE  SocketInv'
<1> USE SocketAssumption DEF Close,
      ownerVars, flagVars, attemptVars, sessionVars, callerVars, Attempts
<1>1. TypeOK' /\ "double free" \notin faults'
  BY DEF SocketInv, TypeOK, AttemptInv, OwnerInv, Outcomes, Callers
<1>2. ASSUME NEW k \in Attempts PROVE AttemptInv(k)'
  BY DEF SocketInv, TypeOK, AttemptInv, AwaitedBy, OwnerInv
<1>3. OwnerInv'
  BY DEF SocketInv, TypeOK, AttemptInv, AwaitedBy, OwnerInv
<1>4. ListenerInv'
  BY DEF SocketInv, TypeOK, AttemptInv, AwaitedBy, OwnerInv, ListenerInv
<1> QED
  BY <1>1, <1>2, <1>3, <1>4 DEF SocketInv

\* close() waits for the keepalive.
LEMMA CloseJoinInv ==
    ASSUME SocketInv, CloseJoin
    PROVE  SocketInv'
<1> USE SocketAssumption DEF CloseJoin,
      ownerVars, flagVars, attemptVars, sessionVars, callerVars, Attempts
<1>1. TypeOK' /\ "double free" \notin faults'
  BY DEF SocketInv, TypeOK, AttemptInv, OwnerInv, Outcomes, Callers
<1>2. ASSUME NEW k \in Attempts PROVE AttemptInv(k)'
  BY DEF SocketInv, TypeOK, AttemptInv, AwaitedBy, OwnerInv
<1>3. OwnerInv'
  BY DEF SocketInv, TypeOK, AttemptInv, AwaitedBy, OwnerInv
<1>4. ListenerInv'
  BY DEF SocketInv, TypeOK, AttemptInv, AwaitedBy, OwnerInv, ListenerInv
<1> QED
  BY <1>1, <1>2, <1>3, <1>4 DEF SocketInv

\* close() destroys the handle.
LEMMA CloseDestroyInv ==
    ASSUME SocketInv, CloseDestroy
    PROVE  SocketInv'
<1> USE DEF ownerVars, flagVars, attemptVars, sessionVars, callerVars
<1>0. /\ mpc = "destroyAtClose" /\ mpc' = "forget" /\ stopping' = TRUE
      /\ UNCHANGED <<cur, chat, connected, deauthorized, attemptVars, revoked,
                     listening, reported, coding, callerVars, faults>>
  BY DEF CloseDestroy
<1>d. /\ session' \in [Attempts -> {"none", "pending", "up", "down"}]
      /\ destroyed' \subseteq Attempts
      /\ destroyed \subseteq destroyed'
      /\ chat /= 0 => chat \in destroyed'
      /\ \A k \in Attempts :
           session'[k] = IF k = chat THEN "down" ELSE session[k]
  BY Numbers, DestroyedEffect DEF CloseDestroy, SocketInv
<1>1. TypeOK' /\ "double free" \notin faults'
  BY <1>0, <1>d DEF SocketInv, TypeOK
<1>2. ASSUME NEW k \in Attempts PROVE AttemptInv(k)'
  BY ZenonT(40), <1>0, <1>d, Numbers DEF SocketInv, AttemptInv, AwaitedBy, OwnerInv
<1>3. OwnerInv'
  BY <1>0, <1>d, Numbers DEF SocketInv, OwnerInv
<1>4. ListenerInv'
  BY <1>0, <1>d DEF SocketInv, ListenerInv
<1> QED
  BY <1>1, <1>2, <1>3, <1>4 DEF SocketInv

\* close() forgets the handle.
LEMMA CloseForgetInv ==
    ASSUME SocketInv, CloseForget
    PROVE  SocketInv'
<1> USE SocketAssumption DEF CloseForget,
      ownerVars, flagVars, attemptVars, sessionVars, callerVars, Attempts
<1>1. TypeOK' /\ "double free" \notin faults'
  <2>1. chat' \in 0..cur'
    BY Numbers
  <2> QED
    BY <2>1 DEF SocketInv, TypeOK
<1>2. ASSUME NEW k \in Attempts PROVE AttemptInv(k)'
  BY DEF SocketInv, TypeOK, AttemptInv, AwaitedBy, OwnerInv
<1>3. OwnerInv'
  BY DEF SocketInv, TypeOK, AttemptInv, AwaitedBy, OwnerInv
<1>4. ListenerInv'
  BY ZenonT(40) DEF SocketInv, TypeOK, AttemptInv, AwaitedBy, OwnerInv, ListenerInv
<1> QED
  BY <1>1, <1>2, <1>3, <1>4 DEF SocketInv

-----------------------------------------------------------------------------
(* The theorems                                                            *)

\* Before the first attempt there is nothing to clean up.
LEMMA InitSocketInv == Init => SocketInv
<1> SUFFICES ASSUME Init PROVE SocketInv
  OBVIOUS
<1>1. TypeOK /\ "double free" \notin faults
  <2>1. cur \in 0..MaxAttempts /\ chat \in 0..cur /\ rchat \in [Callers -> 0..cur]
    BY SocketAssumption DEF Init
  <2>2. /\ state \in [Attempts -> {"none", "waiting", "done", "abandoned", "freed"}]
        /\ outcome \in [Attempts -> Outcomes \cup {"none"}]
        /\ complete \in [Attempts -> {"none", "notify", "cleanup", "returned"}]
        /\ session \in [Attempts -> {"none", "pending", "up", "down"}]
        /\ rpc \in [Callers -> {"none", "idle", "begun", "send", "exited"}]
    BY DEF Init
  <2> QED
    BY <2>1, <2>2 DEF Init, TypeOK
<1>2. ASSUME NEW i \in Attempts PROVE AttemptInv(i)
  BY SocketAssumption DEF Init, AttemptInv, Attempts
<1>3. OwnerInv /\ ListenerInv
  BY SocketAssumption DEF Init, OwnerInv, ListenerInv
<1> QED
  BY <1>1, <1>2, <1>3 DEF SocketInv

\* Every step keeps the invariant.
LEMMA NextSocketInv == SocketInv /\ [Next]_vars => SocketInv'
<1> SUFFICES ASSUME SocketInv, [Next]_vars PROVE SocketInv'
  OBVIOUS
<1>1. CASE UNCHANGED vars
  <2>1. /\ rpc \in [Callers -> {"none", "idle", "begun", "send", "exited"}]
        /\ rchat \in [Callers -> 0..cur]
    BY DEF SocketInv, TypeOK
  <2> QED
    BY <1>1, <2>1, CallersInv DEF vars, callerVars
<1>2. CASE Connect \/ Reconnect \/ DoConnect \/ StartRefused \/ InitListenerFails
  BY <1>2, ConnectInv, ReconnectInv, DestroyOldInv, StartAttemptInv, StartRefusedInv,
     WaitDoneInv, WaitTimeoutInv, TakeResultInv, InitListenerInv, InitListenerFailsInv,
     ClearDeauthorizedInv, SetConnectedInv DEF DoConnect
<1>3. CASE Close \/ DoClose \/ Requests
  BY <1>3, CloseInv, CloseJoinInv, CloseDestroyInv, CloseForgetInv, RequestsInv
  DEF DoClose
<1>4. ASSUME NEW i \in Attempts,
             \/ \E o \in Outcomes : Complete(i, o)
             \/ Completion(i)
             \/ \E invalidated \in BOOLEAN : Lose(i, invalidated)
             \/ Listener(i)
      PROVE  SocketInv'
  BY <1>4, CompleteInv, CompleteNotifyInv, CompleteCleanupInv, LoseInv, InterruptedInv,
     InterruptedCodeInv DEF Completion, Listener
<1> QED
  BY <1>1, <1>2, <1>3, <1>4 DEF Next

\* The invariant holds in every state of the socket.
LEMMA SocketInvariant == Spec => []SocketInv
  BY InitSocketInv, NextSocketInv, PTL DEF Spec

\* The domains of the socket's variables.
THEOREM SocketTypeOK == Spec => []TypeOK
<1>1. SocketInv => TypeOK
  BY DEF SocketInv
<1> QED
  BY <1>1, SocketInvariant, PTL

\* Of a connect attempt that timed out in wait_for(), however late its
\* completion comes and however many attempts the watchdog makes meanwhile,
\* neither a live session nor a ConnectState stays behind, and no
\* ConnectState is deleted twice.
THEOREM LoserTheorem == Spec => []LoserCleansUp
<1>1. SocketInv => NoSecondSession
  <2> SUFFICES ASSUME SocketInv, NEW i \in Attempts, session[i] = "up"
               PROVE  \/ i = chat /\ mpc /= "closed"
                      \/ i = cur /\ state[i] = "done" /\ mpc \in {"wait", "take"}
                      \/ complete[i] = "cleanup"
    BY DEF NoSecondSession
  <2>1. /\ AttemptInv(i)
        /\ state[i] \in {"none", "waiting", "done", "abandoned", "freed"}
    BY DEF SocketInv, TypeOK
  <2>2. i = chat => mpc /= "closed"
    BY Numbers DEF SocketInv, OwnerInv
  <2> QED
    BY <2>1, <2>2 DEF AttemptInv, AwaitedBy
<1>2. SocketInv => StateFreedOnce
  <2> SUFFICES ASSUME SocketInv, NEW i \in Attempts, complete[i] = "returned",
                      ~AwaitedBy(i)
               PROVE  state[i] = "freed"
    BY DEF SocketInv, StateFreedOnce, AwaitedBy
  <2>1. /\ AttemptInv(i)
        /\ state[i] \in {"none", "waiting", "done", "abandoned", "freed"}
    BY DEF SocketInv, TypeOK
  <2> QED
    BY <2>1 DEF AttemptInv
<1>3. SocketInv => LoserCleansUp
  BY <1>1, <1>2 DEF LoserCleansUp
<1> QED
  BY <1>3, SocketInvariant, PTL

\* doConnect() destroys a handle with a listener only after the listener
\* reported its loss, so no late report can clear the connected flag of the
\* connection that follows.
THEOREM LostConnectionTheorem == Spec => []DestroysOnlyLostConnection
<1>1. SocketInv => DestroysOnlyLostConnection
  BY DEF SocketInv, ListenerInv, DestroysOnlyLostConnection
<1> QED
  BY <1>1, SocketInvariant, PTL
=============================================================================
