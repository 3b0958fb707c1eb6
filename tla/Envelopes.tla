----------------------------- MODULE Envelopes ------------------------------
(***************************************************************************)
(* The sessions of one account with one remote device: onPush() of         *)
(* daemon/main.cpp decrypting what arrives ("push"), the senders of        *)
(* daemon/CallSignaling.cpp encrypting what leaves ("call", RingRTC's      *)
(* thread, and "worker", the dispatch worker), the session record that     *)
(* both read, change and write back (signal/Crypto.cpp,                    *)
(* signal/ProtocolStores.cpp), the mutex around that, and the recovery of  *)
(* a session the two sides no longer share.                                *)
(*                                                                         *)
(* External: a session is a name.  libsignal's record holds the current    *)
(* session, that we encrypt in, and forty earlier ones, that we can still  *)
(* decrypt in: all those are Shared here, and the fortieth is not reached. *)
(* Other names are sessions that only the peer has.  The peer sends a      *)
(* prekey message, which begins a session, until it has heard from us, and *)
(* starts afresh after a DecryptionErrorMessage about its current session. *)
(* libsignal's thread that delivers pushes also completes requests.  The   *)
(* device list is CallSignaling's; here it is in the cache or not.         *)
(***************************************************************************)
EXTENDS Integers, Sequences, FiniteSets

CONSTANTS
    Sessions,      \* names of sessions that only the peer has
    Shared,        \* one that is in our record
    NoSession,
    MaxQueue,      \* bound: work in the dispatch queue
    MaxCrashes     \* bound: restarts of the daemon

ASSUME EnvelopesAssumption ==
    /\ NoSession /= Shared /\ Sessions \cap {Shared, NoSession} = {}
    /\ Cardinality(Sessions) > 1 + MaxQueue
    /\ MaxQueue \in Nat \ {0} /\ MaxCrashes \in Nat

Senders == {"call", "worker"}
Threads == Senders \cup {"push"}
Identities == {1, 2}            \* the peer's key is 2 if it reinstalled since
None == 0                       \* key 1 was stored

VARIABLES
    identity,      \* the stored identity key of the peer, or None
    mutex,         \* who holds ProtocolStores::mutex(), or "free"
    pc,            \* where the threads are
    stale,         \* whose copy of the session record is out of date
    work,          \* what a sender is at: a message, or a reply about a session
    queue,         \* the dispatch queue
    cached,        \* the device list is in the cache
    envelope,      \* the envelope at the server or at onPush(), or Nothing
    peer,          \* its session, whether it heard from us in it, its key
    crashes

threadVars == <<mutex, pc, stale, work>>
vars == <<identity, threadVars, queue, cached, envelope, peer, crashes>>

Nothing == [kind |-> "nothing", session |-> NoSession]
Reply(s) == [kind |-> "reply", session |-> s]
CallWork == [kind |-> "call", session |-> NoSession]

Init ==
    /\ LET lost == CHOOSE s \in Sessions : TRUE IN
         peer \in [session : {lost, Shared}, heard : {TRUE}, key : Identities]
    /\ identity \in {None, 1}
    /\ peer.session = Shared => identity = peer.key
    /\ mutex = "free"
    /\ pc = [t \in Threads |-> "idle"]
    /\ stale = {}
    /\ work = [t \in Senders |-> Nothing]
    /\ queue = <<>>
    /\ cached = FALSE
    /\ envelope = Nothing
    /\ crashes = 0

Replies == {work[t].session : t \in Senders}
             \cup {queue[i].session : i \in DOMAIN queue}
NewSession == CHOOSE s \in Sessions \ Replies : TRUE

Trusts(key) == identity \in {None, key}     \* is_trusted_identity

-----------------------------------------------------------------------------
(* The mutex, and the record between load_session and store_session        *)

Sections == {"decrypt", "establish", "encrypt"}

Goto(t, place) == pc' = [pc EXCEPT ![t] = place]

\* Plausible bug: a section that does not take the mutex.
LoadUnlocked(t, from, to) ==
    /\ pc[t] = from
    /\ Goto(t, to)
    /\ UNCHANGED <<identity, mutex, stale, work, queue, cached, envelope,
                   peer, crashes>>

Load(t, from, to) ==
    /\ pc[t] = from
    /\ mutex = "free"
    /\ mutex' = t
    /\ Goto(t, to)
    /\ UNCHANGED <<identity, stale, work, queue, cached, envelope, peer,
                   crashes>>

\* What was loaded is written back, changed: copies of others are old now.
Store(t) ==
    /\ mutex' = IF mutex = t THEN "free" ELSE mutex
    /\ stale' = (stale \cup {u \in Threads : pc[u] \in Sections}) \ {t}

-----------------------------------------------------------------------------
(* The peer and the network                                                *)

PeerSends(sealed) ==
    /\ envelope = Nothing
    /\ LET s == IF peer.session = NoSession THEN NewSession ELSE peer.session IN
       /\ peer' = [peer EXCEPT !.session = s]
       /\ envelope' = [kind |-> IF peer.heard THEN "whisper" ELSE "prekey",
                       session |-> s, sealed |-> sealed]
    /\ UNCHANGED <<identity, threadVars, queue, cached, crashes>>

\* An encrypted message of ours arrives: the peer goes on in its session,
\* unless it is one of an installation that is gone.
PeerHears ==
    IF peer.key = identity
    THEN [peer EXCEPT !.session = Shared, !.heard = TRUE] ELSE peer

PeerHearsError(s) ==
    IF peer.session = s
    THEN [peer EXCEPT !.session = NoSession, !.heard = FALSE] ELSE peer

-----------------------------------------------------------------------------
(* onPush()                                                                *)

\* The envelope, which was acknowledged already, is handed over; libsignal's
\* thread is in the callback from here.  (Bound: room for what it may push.)
PushBegin ==
    /\ pc["push"] = "idle"
    /\ envelope /= Nothing
    /\ Len(queue) < MaxQueue
    /\ Goto("push", "lock")
    /\ UNCHANGED <<identity, mutex, stale, work, queue, cached, envelope,
                   peer, crashes>>

PushLock == Load("push", "lock", "decrypt")

\* decryptCiphertext(): a session we hold, or a prekey message under an
\* identity key we trust.
Decrypts(e) == Trusts(peer.key) /\ (e.kind = "prekey" \/ e.session = Shared)

PushDecrypted ==
    /\ pc["push"] = "decrypt"
    /\ Decrypts(envelope)
    /\ Store("push")
    /\ queue' \in {queue, Append(queue, CallWork)}
    /\ identity' = peer.key
    /\ peer' = IF peer.session = envelope.session
               THEN [peer EXCEPT !.session = Shared] ELSE peer
    /\ envelope' = Nothing
    /\ Goto("push", "idle")
    /\ UNCHANGED <<work, cached, crashes>>

\* Plausible bug: an envelope that does not decrypt is only logged.
PushFailedQuietly ==
    /\ pc["push"] = "decrypt"
    /\ ~Decrypts(envelope)
    /\ Store("push")
    /\ envelope' = Nothing
    /\ Goto("push", "idle")
    /\ UNCHANGED <<identity, work, queue, cached, peer, crashes>>

\* The sender of a sealed envelope is not answered.
PushFailed ==
    /\ pc["push"] = "decrypt"
    /\ ~Decrypts(envelope)
    /\ Store("push")
    /\ queue' = IF envelope.sealed THEN queue
                ELSE Append(queue, Reply(envelope.session))
    /\ envelope' = Nothing
    /\ Goto("push", "idle")
    /\ UNCHANGED <<identity, work, cached, peer, crashes>>

-----------------------------------------------------------------------------
(* Senders                                                                 *)

\* resolveDeviceList(): from the cache, or GET /v2/keys.
Resolved(w) == CASE ~cached -> "get"
                 [] cached /\ w = CallWork -> "send"
                 [] OTHER -> "put"

\* RingRTC's thread has a message of a call to send.
CallSends ==
    /\ pc["call"] = "idle"
    /\ work' = [work EXCEPT !["call"] = CallWork]
    /\ Goto("call", Resolved(CallWork))
    /\ UNCHANGED <<identity, mutex, stale, queue, cached, envelope, peer,
                   crashes>>

\* The dispatch worker: sendDecryptionErrorReply(), or handleCallMessage(),
\* which reads the identity keys under the mutex and goes into RingRTC, which
\* may have something to send in return.
WorkerTakes ==
    /\ pc["worker"] = "idle"
    /\ queue /= <<>>
    /\ Head(queue).kind = "call" => mutex = "free"
    /\ \/ /\ work' = [work EXCEPT !["worker"] = Head(queue)]
          /\ Goto("worker", Resolved(Head(queue)))
       \/ Head(queue) = CallWork /\ UNCHANGED <<work, pc>>
    /\ queue' = Tail(queue)
    /\ UNCHANGED <<identity, mutex, stale, cached, envelope, peer, crashes>>

Finish(t) ==
    /\ Goto(t, "idle")
    /\ work' = [work EXCEPT ![t] = Nothing]

\* The request failed, timed out or was refused: the caller logs it.
SendEnds(t) ==
    /\ pc[t] \in {"get", "put"}
    /\ Finish(t)
    /\ UNCHANGED <<identity, mutex, stale, queue, cached, envelope, peer,
                   crashes>>

\* libsignal's thread is needed to complete a request.
Answered(t, place) == pc[t] = place /\ pc["push"] = "idle"

KeysArrive(t) ==
    /\ Answered(t, "get")
    /\ Goto(t, "keys")
    /\ UNCHANGED <<identity, mutex, stale, work, queue, cached, envelope,
                   peer, crashes>>

EstablishLock(t) == Load(t, "keys", "establish")

\* establishSession(): a new session, if we trust the key; the list is cached.
Establish(t) ==
    /\ pc[t] = "establish"
    /\ Store(t)
    /\ \/ /\ Trusts(peer.key)
          /\ identity' = peer.key
          /\ cached' = TRUE
          /\ Goto(t, IF work[t] = CallWork THEN "send" ELSE "put")
          /\ UNCHANGED work
       \/ /\ ~Trusts(peer.key)
          /\ Finish(t)
          /\ UNCHANGED <<identity, cached>>
    /\ UNCHANGED <<queue, envelope, peer, crashes>>

EncryptLock(t) == Load(t, "send", "encrypt")

\* Plausible bug: the mutex is kept until the request is answered.
EncryptKeepsLock(t) ==
    /\ pc[t] = "encrypt"
    /\ Goto(t, "put")
    /\ UNCHANGED <<identity, mutex, stale, work, queue, cached, envelope, peer,
                   crashes>>

\* encryptForDevice() moves the chain of the current session on.
Encrypt(t) ==
    /\ pc[t] = "encrypt"
    /\ Store(t)
    /\ Goto(t, "put")
    /\ UNCHANGED <<identity, work, queue, cached, envelope, peer, crashes>>

\* PUT /v1/messages is accepted, and the message delivered.
PutAccepted(t) ==
    /\ Answered(t, "put")
    /\ peer' = IF work[t].kind = "call" THEN PeerHears
                                       ELSE PeerHearsError(work[t].session)
    /\ Finish(t)
    /\ UNCHANGED <<identity, mutex, stale, queue, cached, envelope, crashes>>

\* kDeviceListCacheTtl is over, or a refused call message erased the list.
CacheExpires ==
    /\ cached
    /\ cached' = FALSE
    /\ UNCHANGED <<identity, threadVars, queue, envelope, peer, crashes>>

-----------------------------------------------------------------------------
\* The daemon restarts: only the database is left.
Crash ==
    /\ crashes < MaxCrashes
    /\ crashes' = crashes + 1
    /\ mutex' = "free"
    /\ pc' = [t \in Threads |-> "idle"]
    /\ stale' = {}
    /\ work' = [t \in Senders |-> Nothing]
    /\ queue' = <<>>
    /\ cached' = FALSE
    /\ envelope' = IF pc["push"] = "idle" THEN envelope ELSE Nothing
    /\ UNCHANGED <<identity, peer>>

Push == PushBegin \/ PushLock \/ PushDecrypted \/ PushFailed

Send(t) ==
    \/ KeysArrive(t) \/ EstablishLock(t) \/ Establish(t)
    \/ EncryptLock(t) \/ Encrypt(t) \/ PutAccepted(t)

Next ==
    \/ \E sealed \in BOOLEAN : PeerSends(sealed)
    \/ CacheExpires \/ Crash
    \/ Push \/ CallSends \/ WorkerTakes
    \/ \E t \in Senders : Send(t) \/ SendEnds(t)

Spec == Init /\ [][Next]_vars

\* The threads go on, and one that waits for the mutex gets it.  The peer goes
\* on sending, and not only sealed envelopes; neither key fetches nor replies
\* fail for ever.
FairSpec ==
    /\ Spec
    /\ WF_vars(Push) /\ SF_vars(PushLock) /\ SF_vars(WorkerTakes)
    /\ \A t \in Senders :
         /\ WF_vars(Send(t))
         /\ SF_vars(EstablishLock(t)) /\ SF_vars(EncryptLock(t))
    /\ SF_vars(PeerSends(FALSE))
    /\ []<>(pc["worker"] = "get") => []<><<KeysArrive("worker")>>_vars
    /\ []<>(pc["worker"] = "put") => []<><<PutAccepted("worker")>>_vars

-----------------------------------------------------------------------------
(* Correctness                                                             *)

Names == Sessions \cup {Shared, NoSession}
Works == [kind : {"nothing", "reply", "call"}, session : Names]

\* The variables stay in their domains.
TypeOK ==
    /\ identity \in Identities \cup {None}
    /\ mutex \in Threads \cup {"free"}
    /\ pc \in [Threads -> {"idle", "lock", "decrypt", "get", "keys",
                            "establish", "send", "encrypt", "put"}]
    /\ stale \subseteq Threads
    /\ work \in [Senders -> Works]
    /\ queue \in Seq(Works)
    /\ cached \in BOOLEAN
    /\ envelope = Nothing \/
         envelope \in [kind : {"whisper", "prekey"}, sealed : BOOLEAN,
                       session : Names]
    /\ peer \in [session : Names, heard : BOOLEAN,
                 key : Identities]
    /\ crashes \in 0..MaxCrashes

\* "can interleave read-modify-write session updates and corrupt the chain"
\* (ProtocolStores.h:40-48): the record a thread has loaded and will write back
\* is never out of date, so no chain step and no session of another thread
\* is undone.
NoLostUpdate == stale = {}

\* "can then never return to servicing the socket" (ProtocolStores.h:50-62):
\* libsignal's thread, in the callback for a push, never waits for a thread
\* that waits for an answer only it can deliver.
NoWaitCycle ==
    pc["push"] = "lock" =>
      \A t \in Senders : pc[t] \in {"get", "put"} => mutex /= t

\* "instead of failing silently forever" (CallSignaling.h:118-123): a session
\* that the two sides do not share is replaced by one they share, again and
\* again, whatever the senders, a restart and lost requests do - as long as
\* the peer has the identity key it had first.
DesyncHeals ==
    []<>(peer.session = Shared \/ ~Trusts(peer.key))
=============================================================================
