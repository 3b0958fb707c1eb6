--------------------------- MODULE CallSignaling ---------------------------
(***************************************************************************)
(* The send side of call signaling, for one remote peer: RingRTC's queue   *)
(* of outgoing messages, the send callbacks of daemon/main.cpp, and        *)
(* CallMessageSender (daemon/CallSignaling.cpp) with its device list       *)
(* cache, shared by RingRTC's callback thread ("call") and the dispatch    *)
(* worker answering an undecryptable envelope ("reply").                   *)
(*                                                                         *)
(* External: RingRTC hands over one message of a call at a time and the    *)
(* next only after call_message_sent(); it ends a stalled call by its own  *)
(* timeout.  Signal's server accepts a message addressed to exactly the    *)
(* devices of the account, answers any other one with 409 and the          *)
(* difference, and one with an old registration id with 410.  What is      *)
(* encrypted, and how, is left out.                                        *)
(***************************************************************************)
EXTENDS Integers, FiniteSets

CONSTANTS
    Devices,       \* device ids the peer's account can have
    MaxQueue       \* bound: messages waiting in RingRTC's queue

ASSUME SignalingAssumption ==
    MaxQueue \in Nat \ {0} /\ IsFiniteSet(Devices)

NoList == {}       \* no entry in deviceListCache_; an account has a device

Threads == {"call", "reply"}

VARIABLES
    devices,       \* the account's devices, at the server
    cache,         \* deviceListCache_[peer]
    outdated,      \* may a session hold a registration id that is not valid?
    pc, list,      \* the threads: where they are, the list they use
    current,       \* and: are the keys they fetched, or the registration ids
                   \* of the message they encrypted, those of the server?
    queued,        \* messages of the call RingRTC still holds
    busy,          \* RingRTC waits for call_message_sent()
    refused        \* history: the last message was refused, and since then the
                   \* devices are the same and no reply has stored anything

queueVars == <<queued, busy>>
sendVars == <<queueVars, refused>>
peerVars == <<devices, outdated>>
vars == <<peerVars, cache, pc, list, current, sendVars>>

Accounts == SUBSET Devices \ {{}}

Init ==
    /\ devices \in Accounts
    /\ cache = NoList
    /\ outdated = TRUE
    /\ pc = [t \in Threads |-> "idle"]
    /\ list = [t \in Threads |-> NoList]
    /\ current = [t \in Threads |-> FALSE]
    /\ queued = 0
    /\ busy = FALSE
    /\ refused = FALSE

Goto(t, place) == pc' = [pc EXCEPT ![t] = place]

\* The same, with the list and the message no longer needed.
Leave(t, place) ==
    /\ Goto(t, place)
    /\ list' = [list EXCEPT ![t] = NoList]
    /\ current' = [current EXCEPT ![t] = FALSE]

-----------------------------------------------------------------------------
(* The environment                                                         *)

\* The peer links, unlinks or registers devices anew.
DevicesChange ==
    /\ devices' \in Accounts
    /\ outdated' = TRUE
    /\ current' = [t \in Threads |-> FALSE]
    /\ refused' = FALSE
    /\ UNCHANGED <<cache, pc, list, queueVars>>

\* kDeviceListCacheTtl is over.
CacheExpires ==
    /\ cache /= NoList
    /\ cache' = NoList
    /\ UNCHANGED <<peerVars, pc, list, current, sendVars>>

\* RingRTC has an offer, an answer, a candidate or a hangup to send.
QueueMessage ==
    /\ queued < MaxQueue
    /\ queued' = queued + 1
    /\ UNCHANGED <<peerVars, cache, pc, list, current, busy, refused>>

\* RingRTC gives up on a call whose queue does not move, and drops it.
CallTimeout ==
    /\ busy /\ pc["call"] = "idle"
    /\ busy' = FALSE
    /\ queued' = 0
    /\ UNCHANGED <<peerVars, cache, pc, list, current, refused>>

-----------------------------------------------------------------------------
(* The callbacks                                                           *)

\* onSendOffer/Answer/Ice/Hangup(): RingRTC hands over its next message.
OnSend ==
    /\ pc["call"] = "idle"
    /\ ~busy /\ queued > 0
    /\ busy' = TRUE
    /\ queued' = queued - 1
    /\ Goto("call", "resolve")
    /\ UNCHANGED <<peerVars, cache, list, current, refused>>

\* signal2sip_call_message_sent(), once sendX() returned.
MessageSent ==
    /\ pc["call"] = "sent"
    /\ busy' = FALSE
    /\ Goto("call", "idle")
    /\ UNCHANGED <<peerVars, cache, list, current, queued, refused>>

\* sendDecryptionErrorReply() begins.
ReplyBegin ==
    /\ pc["reply"] = "idle"
    /\ Goto("reply", "resolve")
    /\ UNCHANGED <<peerVars, cache, list, current, sendVars>>

\* Where sendX() and sendDecryptionErrorReply() return to.
Done(t) == IF t = "call" THEN "sent" ELSE "idle"

-----------------------------------------------------------------------------
(* resolveDeviceList()                                                     *)

\* Under the lock: use the cached list, or else fetch.
Lookup(t) ==
    /\ pc[t] = "resolve"
    /\ Goto(t, IF cache = NoList THEN "fetch" ELSE "encrypt")
    /\ list' = [list EXCEPT ![t] = cache]
    /\ UNCHANGED <<peerVars, cache, current, sendVars>>

\* fetchAndEstablishSessions(), without the lock: GET /v2/keys answers, at
\* times with keys of a device the account has no longer.
Fetch(t) ==
    /\ pc[t] = "fetch"
    /\ \E extra \in SUBSET Devices :
         list' = [list EXCEPT ![t] = devices \cup extra]
    /\ current' = [current EXCEPT ![t] = TRUE]
    /\ Goto(t, "establish")
    /\ UNCHANGED <<peerVars, cache, sendVars>>

\* Under the lock: establishSession() with every device of the answer.
Establish(t) ==
    /\ pc[t] = "establish"
    /\ outdated' = ~current[t]
    /\ refused' = (refused /\ t = "call")
    /\ Goto(t, "store")
    /\ UNCHANGED <<devices, cache, list, current, queueVars>>

\* It throws, after some of them.
EstablishThrows(t) ==
    /\ pc[t] = "establish"
    /\ outdated' = (outdated \/ ~current[t])
    /\ refused' = (refused /\ t = "call")
    /\ Leave(t, "idle")
    /\ UNCHANGED <<devices, cache, queueVars>>

\* A request throws (GET not 200, a timeout), or a device cannot be encrypted
\* for, and the exception leaves the callback: safeCallback() swallows it,
\* call_message_sent() is not called.
SendThrows(t) ==
    /\ pc[t] \in {"fetch", "encrypt", "put"}
    /\ Leave(t, "idle")
    /\ UNCHANGED <<peerVars, cache, sendVars>>

\* Under the lock again: remember the list.
Store(t) ==
    /\ pc[t] = "store"
    /\ cache' = list[t]
    /\ refused' = (refused /\ t = "call")
    /\ Goto(t, "encrypt")
    /\ UNCHANGED <<peerVars, list, current, queueVars>>

-----------------------------------------------------------------------------
(* sendContent() and putMessages()                                         *)

\* Under the lock: the message for each device of the list, with the
\* registration id that its session has.
Encrypt(t) ==
    /\ pc[t] = "encrypt"
    /\ current' = [current EXCEPT ![t] = ~outdated]
    /\ Goto(t, "put")
    /\ UNCHANGED <<peerVars, cache, list, sendVars>>

\* PUT /v1/messages to the whole current device list: accepted.
PutAccepted(t) ==
    /\ pc[t] \in {"put", "retry"}
    /\ list[t] = devices
    /\ Leave(t, Done(t))
    /\ refused' = (refused /\ t /= "call")
    /\ UNCHANGED <<peerVars, cache, queueVars>>

\* The connection is lost or the server fails: whether the message got
\* through is unknown; it is only logged and the cache is left alone.
PutLost(t) ==
    /\ pc[t] \in {"put", "retry"}
    /\ Leave(t, Done(t))
    /\ UNCHANGED <<peerVars, cache, sendVars>>

\* 409: a call message drops the extra devices and tries once more.
PutExtra ==
    /\ pc["call"] = "put"
    /\ list["call"] \ devices /= {}
    /\ list["call"] \cap devices /= {}
    /\ list' = [list EXCEPT !["call"] = @ \cap devices]
    /\ Goto("call", "retry")
    /\ UNCHANGED <<peerVars, cache, current, sendVars>>

\* 409 with nothing to retry, or 410, or the retry refused as well.
PutRefused ==
    /\ pc["call"] \in {"put", "retry"}
    /\ \/ list["call"] = devices /\ ~current["call"]
       \/ /\ list["call"] /= devices
          /\ \/ pc["call"] = "retry"
             \/ list["call"] \subseteq devices
             \/ list["call"] \cap devices = {}
    /\ Leave("call", "erase")
    /\ refused' = TRUE
    /\ UNCHANGED <<peerVars, cache, queueVars>>

\* An exception of the retry is swallowed on the spot; the 409 stands.
RetryThrows ==
    /\ pc["call"] = "retry"
    /\ Leave("call", "erase")
    /\ UNCHANGED <<peerVars, cache, sendVars>>

\* Plausible bug: the refused list stays in the cache.
EraseNothing ==
    /\ pc["call"] = "erase"
    /\ Goto("call", "sent")
    /\ UNCHANGED <<peerVars, cache, list, current, sendVars>>

\* 409 or 410: forget the cached list.
Erase ==
    /\ pc["call"] = "erase"
    /\ cache' = NoList
    /\ Goto("call", "sent")
    /\ UNCHANGED <<peerVars, list, current, sendVars>>

\* A reply that is refused is only logged.
ReplyRefused ==
    /\ pc["reply"] = "put"
    /\ list["reply"] /= devices \/ ~current["reply"]
    /\ Leave("reply", "idle")
    /\ UNCHANGED <<peerVars, cache, sendVars>>

-----------------------------------------------------------------------------
Resolve(t) ==
    \/ Lookup(t) \/ Fetch(t) \/ Establish(t) \/ EstablishThrows(t) \/ Store(t)
    \/ SendThrows(t)

Put(t) == Encrypt(t) \/ PutAccepted(t) \/ PutLost(t)

Call ==
    \/ Resolve("call") \/ Put("call")
    \/ PutExtra \/ PutRefused \/ RetryThrows \/ Erase \/ MessageSent

Reply == Resolve("reply") \/ Put("reply") \/ ReplyRefused

Next ==
    \/ DevicesChange \/ CacheExpires \/ QueueMessage \/ CallTimeout
    \/ OnSend \/ ReplyBegin \/ Call \/ Reply

Spec == Init /\ [][Next]_vars

\* Every request is answered or times out, and RingRTC keeps calling.  The
\* last conjuncts: messages keep coming, and key fetches, sessions, encryption,
\* first requests and retries do not fail for ever.
FairSpec ==
    /\ Spec
    /\ WF_vars(Call) /\ WF_vars(Reply) /\ WF_vars(OnSend) /\ WF_vars(CallTimeout)
    /\ WF_vars(QueueMessage)
    /\ SF_vars(Fetch("call")) /\ SF_vars(Establish("call")) /\ SF_vars(Encrypt("call"))
    /\ SF_vars(pc["call"] = "put" /\ (PutAccepted("call") \/ PutExtra \/ PutRefused))
    /\ SF_vars(pc["call"] = "retry" /\ (PutAccepted("call") \/ PutRefused))

-----------------------------------------------------------------------------
(* Correctness                                                             *)

\* The variables stay in their domains.
TypeOK ==
    /\ devices \in Accounts
    /\ cache \in SUBSET Devices
    /\ pc \in [Threads -> {"idle", "resolve", "fetch", "establish", "store",
                            "encrypt", "put", "retry", "erase", "sent"}]
    /\ list \in [Threads -> SUBSET Devices]
    /\ current \in [Threads -> BOOLEAN]
    /\ queued \in 0..MaxQueue
    /\ {outdated, busy, refused} \subseteq BOOLEAN

\* "drop it so the next send fetches fresh instead of repeating the same
\* failure" (CallSignaling.cpp:333-335): two messages in a row are not
\* refused while the account's devices stay the same, also when the server's
\* key rows name a device too many, unless a reply stored the list or the
\* keys it had fetched before the refusal meanwhile.
NoRepeatedFailure == [][PutRefused => ~refused]_vars

\* The cache cannot lock a device out: while the devices stay the same,
\* a cached list that lacks one is dropped or replaced by itself, whatever
\* becomes of single requests - the 30 minutes are not needed for it.
MissingDeviceIsFound ==
    <>[][UNCHANGED devices]_devices =>
        []<>(cache = NoList \/ devices \subseteq cache)
=============================================================================
