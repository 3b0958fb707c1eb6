-------------------------- MODULE CallBridgeProofs --------------------------
(***************************************************************************)
(* Proofs about CallBridge, for any number of Signal calls, SIP legs and   *)
(* INVITEs, with or without a teardown: until a call, an INVITE or a       *)
(* teardown meets another call, or the PBX takes longer than the           *)
(* disconnect poll (races = {}), no thread uses a freed object and nobody  *)
(* is joined to, or sends touch-tones into, another call.  Types stay      *)
(* right after a race, too.                                                *)
(*                                                                         *)
(* BridgeInv says why.  RingRTC's events come in the order of the calls    *)
(* (QueueInv), so the ENDED of a call is handled, and its leg deleted,     *)
(* before the next call can dial (SipInv); R deletes a leg only after the  *)
(* leg's last callback (LegInv, ThreadInv); an INVITE that gets past the   *)
(* busy check has the account to itself until it is over (InviteInv,       *)
(* IncomingInv), and so has a teardown (TeardownInv).                      *)
(***************************************************************************)
EXTENDS CallBridge, SequenceTheorems, TLAPS

-----------------------------------------------------------------------------
(* The inductive invariant                                                 *)

\* onIncomingCall() is under way on P.
Inviting == pc["P"] \in {"create", "ring", "resolve", "startCall", "stop", "poll",
                         "delete", "reset"}

\* P is inside a callback of leg l.
InCallbackOf(l) == pc["P"] \in {"callback", "flag"} /\ held["P"] = l

\* R is in stopSipBridge() and has not deleted the leg.
StopsSip == pc["R"] \in {"stop", "poll", "delete"} /\ stopping["R"] = "sip"

EventType == [call : Calls, ev : Events]

\* The events RingRTC still owes, as a set.
Elements(q) == {q[i] : i \in 1..Len(q)}

\* No event of a call comes after one of a later call.
Ordered(q) == \A i, j \in 1..Len(q) : i <= j => q[i].call <= q[j].call

\* A call starts ringing once.
RingsOnce(q) ==
    \A i, j \in 1..Len(q) :
        /\ q[i].ev = "RINGING" /\ q[j].ev = "RINGING"
        /\ q[i].call = q[j].call
        => i = j

\* The last event of a call other than n, which is not over, is its ENDED.
EndComes(q, n) ==
    \A i \in 1..Len(q) :
        \/ q[i].ev = "ENDED"
        \/ q[i].call = n
        \/ \E j \in 1..Len(q) : i < j /\ q[j] = Event(q[i].call, "ENDED")

\* Events come in order, none is of a call older than the active one, and
\* a call that is yet to ring has not been dialled.
QueueInv ==
    /\ Ordered(events)
    /\ RingsOnce(events)
    /\ EndComes(events, rtc.call)
    /\ \A e \in Elements(events) :
         /\ e.call <= nCalls
         /\ activeCallId <= e.call
         /\ e.ev = "RINGING" =>
              \A l \in Legs : leg[l].kind = "dialled" => leg[l].call /= e.call

\* RingRTC's call is the latest one; before it is proceeded with it neither
\* rings nor has a leg.
RtcInv ==
    /\ activeCallId <= nCalls
    /\ rtc.call /= None => rtc.call = nCalls
    /\ rtc.call = None => rtc = NoCall
    /\ rtc.st = "offered" =>
         /\ Event(rtc.call, "RINGING") \notin Elements(events)
         /\ \A l \in Legs : leg[l].kind = "dialled" => leg[l].call /= rtc.call

\* A leg lives exactly as long as AccountState points to it; disconnected_
\* means that its last callback is over.
LegInv(l) ==
    /\ l > nLegs => leg[l].kind = "none"
    /\ leg[l].kind = "none" => leg[l].call = None
    /\ leg[l].call <= nCalls
    /\ leg[l].kind = "dialled" => leg[l].call /= None
    /\ leg[l].alive <=> l \in {sipCall, incomingSipCall}
    /\ leg[l].alive /\ nInvites = 0 => leg[l].bridgeLive
    /\ leg[l].dialog \in {"none", "ringing"} => leg[l].cb = {} /\ ~InCallbackOf(l)
    /\ leg[l].disconnected =>
         leg[l].dialog = "over" /\ leg[l].cb = {} /\ ~InCallbackOf(l)
    /\ "disconnected" \in leg[l].cb => leg[l].dialog = "over"
    /\ "confirmed" \in leg[l].cb => leg[l].kind = "dialled"
    /\ InCallbackOf(l) =>
         /\ leg[l].alive
         /\ callback = "confirmed" => leg[l].kind = "dialled"
         /\ callback = "disconnected" \/ pc["P"] = "flag" =>
              leg[l].dialog = "over" /\ leg[l].cb = {}

\* The dialled leg belongs to the active call, whose end, once it is over,
\* R has yet to handle.
SipInv ==
    sipCall /= None =>
      /\ leg[sipCall].kind = "dialled"
      /\ incomingSipCall = None
      /\ leg[sipCall].call = activeCallId
      /\ \/ rtc.call = activeCallId
         \/ Event(activeCallId, "ENDED") \in Elements(events)
         \/ StopsSip
      /\ ~Inviting

\* The INVITE leg belongs to the latest call, and nothing of an earlier one
\* is left.
IncomingInv ==
    incomingSipCall /= None =>
      /\ leg[incomingSipCall].kind = "invite"
      /\ nInvites > 0
      /\ ~Inviting =>
           /\ leg[incomingSipCall].call = nCalls
           /\ nCalls /= 0
           /\ ~isCallee
           /\ \A e \in Elements(events) : e.call = nCalls /\ e.ev /= "INCOMING_AUDIO"
           /\ leg[incomingSipCall].dialog = "confirmed" => activeCallId = nCalls

\* While onIncomingCall() is past its busy check, nothing else moves.
InviteInv ==
    Inviting =>
      /\ rtc = NoCall /\ events = <<>> /\ pc["R"] = "idle" /\ pc["M"] = "idle"
      /\ nInvites > 0
      /\ pc["P"] \in {"create", "reset"} => incomingSipCall = None
      /\ pc["P"] \in {"ring", "resolve", "startCall", "stop", "poll", "delete"} =>
           /\ held["P"] = incomingSipCall /\ incomingSipCall /= None
           /\ leg[incomingSipCall].call = None
           /\ leg[incomingSipCall].dialog /= "confirmed"
      /\ pc["P"] \in {"stop", "poll", "delete", "reset"} => stopping["P"] = "inc"

\* What the threads' locals point to, and that R deletes a leg after its last
\* callback.
ThreadInv ==
    /\ pc["R"] \in {"idle", "makeCall", "stop", "poll", "delete", "reset"}
    /\ pc["P"] \in {"idle", "callback", "flag"} \/ Inviting
    /\ pc["P"] \in {"callback", "flag"} => held["P"] /= None
    /\ pc["R"] = "makeCall" =>
         /\ held["R"] = sipCall /\ sipCall /= None
         /\ leg[sipCall].dialog = "none"
    /\ pc["R"] \in {"stop", "poll", "delete", "reset"} /\ stopping["R"] = "inc"
         => sipCall = None
    /\ pc["R"] \in {"poll", "delete"} =>
         held["R"] = Pointer(stopping["R"]) /\ held["R"] /= None
    /\ pc["R"] = "reset" => Pointer(stopping["R"]) = None
    /\ pc["R"] = "delete" =>
         leg[held["R"]].disconnected \/ leg[held["R"]].dialog = "none"

\* While teardownAccount() runs, and after it, nothing else does.
TeardownInv ==
    /\ pc["M"] \in {"idle", "stop", "reset", "destroy", "erase", "gone"}
    /\ pc["M"] /= "idle" =>
         /\ rtc = NoCall /\ events = <<>> /\ pc["R"] = "idle" /\ pc["P"] = "idle"
         /\ sipCall = None /\ incomingSipCall = None

\* TypeOK by groups of variables, the races apart.
AcctType ==
    /\ sipCall \in Legs \cup {None}
    /\ incomingSipCall \in Legs \cup {None}
    /\ bridge \in Legs \cup {None}
    /\ isCallee \in BOOLEAN
    /\ activeCallId \in Calls \cup {None}

HeapType == leg \in [Legs -> LegType] /\ nLegs \in Legs \cup {0}

RtcType ==
    /\ rtc \in [call : Calls \cup {None}, dir : {"none", "in", "out"},
                st : {"none", "offered", "ringing", "connected"}]
    /\ events \in Seq([call : Calls, ev : Events])
    /\ nCalls \in Calls \cup {0}

ThreadType ==
    /\ pc \in [Threads -> {"idle", "makeCall", "stop", "poll", "delete", "reset",
                           "create", "ring", "resolve", "startCall", "callback",
                           "flag", "destroy", "erase", "gone"}]
    /\ held \in [Threads -> Legs \cup {None}]
    /\ stopping \in [Threads -> {"sip", "inc"}]
    /\ callback \in {"none", "confirmed", "media", "disconnected"}

HistType ==
    /\ ended \subseteq Calls
    /\ bridged \subseteq Calls \X Legs
    /\ dtmf \in [from : Calls \cup {None}, leg : Legs \cup {None}]
    /\ faults \subseteq {"leg used after delete", "leg deleted twice",
                         "bridge used after free", "account used after erase"}

StateType ==
    /\ AcctType /\ HeapType /\ RtcType /\ ThreadType /\ HistType
    /\ nInvites \in 0..MaxInvites

\* No memory error so far, but for the bridge of an INVITE leg.
NoFault ==
    faults \subseteq IF nInvites = 0 THEN {} ELSE {"bridge used after free"}

\* What the history has recorded.
HistoryInv ==
    /\ NoFault
    /\ \A p \in bridged : p[1] /= None /\ leg[p[2]].call = p[1]
    /\ dtmf.leg /= None => dtmf.from /= None /\ leg[dtmf.leg].call = dtmf.from

BridgeInv ==
    /\ StateType
    /\ QueueInv
    /\ RtcInv
    /\ \A l \in Legs : LegInv(l)
    /\ SipInv
    /\ IncomingInv
    /\ InviteInv
    /\ ThreadInv
    /\ TeardownInv
    /\ HistoryInv

-----------------------------------------------------------------------------
(* Queues of events                                                        *)

\* An event is a call and an event code.
LEMMA EventInType ==
    ASSUME NEW n \in Calls, NEW k \in Events
    PROVE  Event(n, k) \in EventType
  BY DEF Event, EventType

\* Taking the first event off.
LEMMA TailQueue ==
    ASSUME NEW q \in Seq(EventType), q /= <<>>
    PROVE  /\ Head(q) \in Elements(q)
           /\ Head(q) \in EventType
           /\ Tail(q) \in Seq(EventType)
           /\ Elements(Tail(q)) \subseteq Elements(q)
           /\ Elements(q) \subseteq Elements(Tail(q)) \cup {Head(q)}
           /\ Ordered(q) =>
                /\ Ordered(Tail(q))
                /\ \A e \in Elements(q) : Head(q).call <= e.call
           /\ RingsOnce(q) =>
                /\ RingsOnce(Tail(q))
                /\ Head(q).ev = "RINGING" =>
                     \A e \in Elements(Tail(q)) :
                        ~(e.ev = "RINGING" /\ e.call = Head(q).call)
<1>1. /\ Len(q) \in Nat /\ Len(q) >= 1 /\ 1 \in 1..Len(q)
      /\ Head(q) = q[1]
      /\ Tail(q) \in Seq(EventType) /\ Len(Tail(q)) = Len(q) - 1
      /\ \A i \in 1..(Len(q) - 1) : Tail(q)[i] = q[i + 1]
      /\ \A i \in 1..Len(q) : q[i] \in EventType
  OBVIOUS
<1>2. ASSUME NEW i \in 1..Len(Tail(q))
      PROVE  /\ i + 1 \in 1..Len(q) /\ i + 1 /= 1 /\ Tail(q)[i] = q[i + 1]
  BY <1>1
<1>3. ASSUME NEW i \in 1..Len(q), i /= 1
      PROVE  i - 1 \in 1..Len(Tail(q)) /\ Tail(q)[i - 1] = q[i]
  <2>1. i - 1 \in 1..(Len(q) - 1) /\ (i - 1) + 1 = i
    BY <1>1, <1>3
  <2>2. Tail(q)[i - 1] = q[(i - 1) + 1]
    BY <1>1, <2>1
  <2> QED
    BY <1>1, <2>1, <2>2
<1>4. Head(q) \in Elements(q) /\ Head(q) \in EventType
  BY <1>1 DEF Elements
<1>5. Elements(Tail(q)) \subseteq Elements(q)
  BY <1>2 DEF Elements
<1>6. Elements(q) \subseteq Elements(Tail(q)) \cup {Head(q)}
  BY <1>1, <1>3 DEF Elements
<1>7. ASSUME Ordered(q)
      PROVE  /\ Ordered(Tail(q))
             /\ \A e \in Elements(q) : Head(q).call <= e.call
  <2>1. ASSUME NEW i \in 1..Len(Tail(q)), NEW j \in 1..Len(Tail(q)), i <= j
        PROVE  Tail(q)[i].call <= Tail(q)[j].call
    <3>1. /\ i + 1 \in 1..Len(q) /\ Tail(q)[i] = q[i + 1]
          /\ j + 1 \in 1..Len(q) /\ Tail(q)[j] = q[j + 1]
      BY <1>2
    <3>2. i + 1 <= j + 1
      BY <1>1, <2>1
    <3> QED
      BY <1>7, <3>1, <3>2 DEF Ordered
  <2>2. ASSUME NEW i \in 1..Len(q)
        PROVE  q[1].call <= q[i].call
    BY <1>1, <1>7 DEF Ordered
  <2> QED
    BY <1>1, <2>1, <2>2 DEF Ordered, Elements
<1>8. ASSUME RingsOnce(q)
      PROVE  /\ RingsOnce(Tail(q))
             /\ Head(q).ev = "RINGING" =>
                  \A e \in Elements(Tail(q)) :
                     ~(e.ev = "RINGING" /\ e.call = Head(q).call)
  <2>1. ASSUME NEW i \in 1..Len(Tail(q)), NEW j \in 1..Len(Tail(q)),
               Tail(q)[i].ev = "RINGING", Tail(q)[j].ev = "RINGING",
               Tail(q)[i].call = Tail(q)[j].call
        PROVE  i = j
    <3>1. /\ i + 1 \in 1..Len(q) /\ Tail(q)[i] = q[i + 1]
          /\ j + 1 \in 1..Len(q) /\ Tail(q)[j] = q[j + 1]
      BY <1>2
    <3>2. i + 1 = j + 1
      BY <1>8, <2>1, <3>1 DEF RingsOnce
    <3> QED
      BY <1>1, <3>2
  <2>2. ASSUME NEW i \in 1..Len(Tail(q)), q[1].ev = "RINGING",
               Tail(q)[i].ev = "RINGING", Tail(q)[i].call = q[1].call
        PROVE  FALSE
    BY <1>1, <1>2, <1>8, <2>2 DEF RingsOnce
  <2> QED
    BY <1>1, <2>1, <2>2 DEF RingsOnce, Elements
<1> QED
  BY <1>1, <1>4, <1>5, <1>6, <1>7, <1>8

\* Adding an event of the latest call.
LEMMA AppendQueue ==
    ASSUME NEW q \in Seq(EventType), NEW e \in EventType
    PROVE  /\ Append(q, e) \in Seq(EventType)
           /\ Elements(Append(q, e)) = Elements(q) \cup {e}
           /\ Ordered(q) /\ (\A f \in Elements(q) : f.call <= e.call)
                => Ordered(Append(q, e))
           /\ RingsOnce(q) /\ (e.ev = "RINGING" =>
                \A f \in Elements(q) : ~(f.ev = "RINGING" /\ f.call = e.call))
                => RingsOnce(Append(q, e))
<1> DEFINE a == Append(q, e)
<1>1. /\ Len(q) \in Nat /\ a \in Seq(EventType) /\ Len(a) = Len(q) + 1
      /\ \A i \in 1..Len(q) : a[i] = q[i]
      /\ a[Len(q) + 1] = e
      /\ e.call \in Int
  BY DEF EventType, Calls
<1> HIDE DEF a
<1>2. ASSUME NEW i \in 1..Len(a)
      PROVE  \/ i \in 1..Len(q) /\ a[i] = q[i] /\ a[i] \in Elements(q)
             \/ i = Len(q) + 1 /\ a[i] = e
  BY <1>1 DEF Elements
<1>3. Elements(a) = Elements(q) \cup {e}
  <2>1. Elements(a) \subseteq Elements(q) \cup {e}
    BY <1>2 DEF Elements
  <2>2. e \in Elements(a)
    BY <1>1 DEF Elements
  <2>3. ASSUME NEW i \in 1..Len(q) PROVE q[i] \in Elements(a)
    <3>1. i \in 1..Len(a) /\ a[i] = q[i]
      BY <1>1
    <3> QED
      BY <3>1 DEF Elements
  <2> QED
    BY <2>1, <2>2, <2>3 DEF Elements
<1>4. ASSUME Ordered(q), \A f \in Elements(q) : f.call <= e.call
      PROVE  Ordered(a)
  <2> SUFFICES ASSUME NEW i \in 1..Len(a), NEW j \in 1..Len(a), i <= j
               PROVE  a[i].call <= a[j].call
    BY DEF Ordered
  <2>1. CASE j = Len(q) + 1
    BY <1>1, <1>2, <1>4, <2>1
  <2>2. CASE j /= Len(q) + 1
    <3>1. i \in 1..Len(q) /\ j \in 1..Len(q)
      BY <1>1, <2>2
    <3> QED
      BY <1>1, <1>4, <3>1 DEF Ordered
  <2> QED
    BY <2>1, <2>2
<1>5. ASSUME RingsOnce(q),
             e.ev = "RINGING" =>
               \A f \in Elements(q) : ~(f.ev = "RINGING" /\ f.call = e.call)
      PROVE  RingsOnce(a)
  <2> SUFFICES ASSUME NEW i \in 1..Len(a), NEW j \in 1..Len(a),
                      a[i].ev = "RINGING", a[j].ev = "RINGING",
                      a[i].call = a[j].call
               PROVE  i = j
    BY DEF RingsOnce
  <2>1. CASE i \in 1..Len(q) /\ j \in 1..Len(q)
    BY <1>1, <1>5, <2>1 DEF RingsOnce
  <2>2. CASE ~(i \in 1..Len(q) /\ j \in 1..Len(q))
    BY <1>2, <1>5, <2>2
  <2> QED
    BY <2>1, <2>2
<1> QED
  BY <1>1, <1>3, <1>4, <1>5 DEF a

\* EndComes, when an event is taken off and when one is added.
LEMMA TailEnds ==
    ASSUME NEW q \in Seq(EventType), q /= <<>>, NEW n, EndComes(q, n)
    PROVE  /\ EndComes(Tail(q), n)
           /\ \/ Head(q).ev = "ENDED"
              \/ Head(q).call = n
              \/ Event(Head(q).call, "ENDED") \in Elements(Tail(q))
<1>1. /\ Len(q) \in Nat /\ Len(q) >= 1 /\ 1 \in 1..Len(q)
      /\ Head(q) = q[1] /\ Len(Tail(q)) = Len(q) - 1
      /\ \A i \in 1..(Len(q) - 1) : Tail(q)[i] = q[i + 1]
  OBVIOUS
<1>2. ASSUME NEW i \in 1..Len(q), NEW j \in 1..Len(q), i < j
      PROVE  j - 1 \in 1..Len(Tail(q)) /\ Tail(q)[j - 1] = q[j] /\ i <= j - 1
  <2>1. j - 1 \in 1..(Len(q) - 1) /\ (j - 1) + 1 = j /\ i <= j - 1
    BY <1>1, <1>2
  <2>2. Tail(q)[j - 1] = q[(j - 1) + 1]
    BY <1>1, <2>1
  <2> QED
    BY <1>1, <2>1, <2>2
<1>3. ASSUME NEW i \in 1..Len(Tail(q)), Tail(q)[i].ev /= "ENDED", Tail(q)[i].call /= n
      PROVE  \E j \in 1..Len(Tail(q)) :
               i < j /\ Tail(q)[j] = Event(Tail(q)[i].call, "ENDED")
  <2>1. i + 1 \in 1..Len(q) /\ Tail(q)[i] = q[i + 1]
    BY <1>1
  <2>2. PICK j \in 1..Len(q) : i + 1 < j /\ q[j] = Event(q[i + 1].call, "ENDED")
    BY <1>3, <2>1 DEF EndComes
  <2>3. j - 1 \in 1..Len(Tail(q)) /\ Tail(q)[j - 1] = q[j] /\ i + 1 <= j - 1
    BY <1>2, <2>1, <2>2
  <2>4. i < j - 1
    BY <1>1, <2>3
  <2> QED
    BY <2>1, <2>2, <2>3, <2>4
<1>4. ASSUME q[1].ev /= "ENDED", q[1].call /= n
      PROVE  Event(q[1].call, "ENDED") \in Elements(Tail(q))
  <2>1. PICK j \in 1..Len(q) : 1 < j /\ q[j] = Event(q[1].call, "ENDED")
    BY <1>1, <1>4 DEF EndComes
  <2>2. j - 1 \in 1..Len(Tail(q)) /\ Tail(q)[j - 1] = q[j]
    BY <1>1, <1>2, <2>1
  <2> QED
    BY <2>1, <2>2 DEF Elements
<1> QED
  BY <1>1, <1>3, <1>4 DEF EndComes

\* Appended to the queue, the ENDED of the current call, or an event of the
\* next one, leaves every earlier call ending.
LEMMA AppendEnds ==
    ASSUME NEW q \in Seq(EventType), NEW e \in EventType, NEW n, NEW m,
           EndComes(q, n), n \notin Calls \/ e = Event(n, "ENDED") \/ n = m,
           e.ev = "ENDED" \/ e.call = m
    PROVE  EndComes(Append(q, e), m)
<1> DEFINE a == Append(q, e)
<1>0. /\ Len(q) \in Nat /\ Len(a) = Len(q) + 1
      /\ \A i \in 1..Len(q) : a[i] = q[i] /\ i \in 1..Len(a) /\ q[i] \in EventType
      /\ a[Len(q) + 1] = e /\ Len(q) + 1 \in 1..Len(a)
  OBVIOUS
<1> HIDE DEF a
<1>1. /\ Len(q) \in Nat /\ Len(a) = Len(q) + 1
      /\ \A i \in 1..Len(q) : a[i] = q[i] /\ i \in 1..Len(a) /\ q[i].call \in Calls
      /\ a[Len(q) + 1] = e /\ Len(q) + 1 \in 1..Len(a)
  BY <1>0 DEF EventType
<1>2. ASSUME NEW i \in 1..Len(a), a[i].ev /= "ENDED", a[i].call /= m
      PROVE  \E j \in 1..Len(a) : i < j /\ a[j] = Event(a[i].call, "ENDED")
  <2>1. i \in 1..Len(q) /\ a[i] = q[i] /\ q[i].call \in Calls
    BY <1>1, <1>2
  <2>2. CASE q[i].call = n
    <3>1. a[Len(q) + 1] = Event(a[i].call, "ENDED")
      BY <1>1, <1>2, <2>1, <2>2
    <3>2. i < Len(q) + 1
      BY <1>1, <2>1
    <3> QED
      BY <1>1, <3>1, <3>2
  <2>3. CASE q[i].call /= n
    <3>1. PICK j \in 1..Len(q) : i < j /\ q[j] = Event(q[i].call, "ENDED")
      BY <1>2, <2>1, <2>3 DEF EndComes
    <3> QED
      BY <1>1, <2>1, <3>1
  <2> QED
    BY <2>2, <2>3
<1> QED
  BY <1>2 DEF EndComes, a

\* A call that ends adds ENDED and CONCLUDED.
LEMMA EndQueue ==
    ASSUME NEW q \in Seq(EventType), NEW n \in Calls,
           \A f \in Elements(q) : f.call <= n
    PROVE  LET e == Event(n, "ENDED")
               r == q \o <<e, e>>
           IN  /\ r \in Seq(EventType)
               /\ Elements(r) = Elements(q) \cup {e}
               /\ Ordered(q) => Ordered(r)
               /\ RingsOnce(q) => RingsOnce(r)
               /\ EndComes(q, n) => EndComes(r, None)
<1> DEFINE e == Event(n, "ENDED")
           a == Append(q, e)
<1>1. e \in EventType /\ e.call = n /\ e.ev = "ENDED" /\ n \in Int
  <2>1. "ENDED" \in Events
    BY DEF Events
  <2>2. e \in EventType
    BY <2>1, EventInType
  <2> QED
    BY <2>2 DEF Event, Calls
<1>2. q \o <<e, e>> = Append(a, e)
  BY <1>1
<1> HIDE DEF e
<1>3. /\ a \in Seq(EventType) /\ Elements(a) = Elements(q) \cup {e}
      /\ Ordered(q) => Ordered(a)
      /\ RingsOnce(q) => RingsOnce(a)
  BY <1>1, AppendQueue
<1>4. \A f \in Elements(a) : f.call <= e.call
  BY <1>1, <1>3
<1>6. EndComes(q, n) => EndComes(a, None)
  BY <1>1, AppendEnds DEF e
<1> HIDE DEF a
<1>7. EndComes(a, None) => EndComes(Append(a, e), None)
  BY <1>1, <1>3, AppendEnds
<1>5. /\ Append(a, e) \in Seq(EventType)
      /\ Elements(Append(a, e)) = Elements(a) \cup {e}
      /\ Ordered(a) => Ordered(Append(a, e))
      /\ RingsOnce(a) => RingsOnce(Append(a, e))
  BY <1>1, <1>3, <1>4, AppendQueue
<1> QED
  BY <1>2, <1>3, <1>5, <1>6, <1>7 DEF e

-----------------------------------------------------------------------------
(* What the handlers do to a leg                                           *)

\* Only leg l changes.
OnlyLeg(l) ==
    /\ leg' \in [Legs -> LegType]
    /\ \A k \in Legs : k /= l => leg'[k] = leg[k]

\* Changing one leg within its type leaves the others alone.
LEMMA LegSet ==
    ASSUME leg \in [Legs -> LegType], NEW l \in Legs, NEW h \in LegType,
           leg' = [leg EXCEPT ![l] = h]
    PROVE  OnlyLeg(l) /\ leg'[l] = h
  BY DEF OnlyLeg

\* makeCall(): the INVITE is sent, or not.
LEMMA DialogEffect ==
    ASSUME leg \in [Legs -> LegType], NEW l \in Legs, NEW d \in {"inviting", "none"},
           leg' = [leg EXCEPT ![l].dialog = d]
    PROVE  /\ OnlyLeg(l)
           /\ leg'[l].kind = leg[l].kind /\ leg'[l].alive = leg[l].alive
           /\ leg'[l].bridgeLive = leg[l].bridgeLive /\ leg'[l].dialog = d
           /\ leg'[l].cb = leg[l].cb /\ leg'[l].call = leg[l].call
           /\ leg'[l].disconnected = leg[l].disconnected
<1> DEFINE h == [leg[l] EXCEPT !.dialog = d]
<1>1. leg' = [leg EXCEPT ![l] = h]
  BY DEF LegType
<1>2. /\ h \in LegType
      /\ h.kind = leg[l].kind /\ h.alive = leg[l].alive
      /\ h.bridgeLive = leg[l].bridgeLive /\ h.dialog = d /\ h.cb = leg[l].cb
      /\ h.call = leg[l].call /\ h.disconnected = leg[l].disconnected
  BY DEF LegType
<1> HIDE DEF h
<1> QED
  BY <1>1, <1>2, LegSet

\* The PBX answers a dialled leg.
LEMMA AnswerEffect ==
    ASSUME leg \in [Legs -> LegType], NEW l \in Legs,
           leg' = [leg EXCEPT ![l].dialog = IF @ = "inviting" THEN "confirmed" ELSE @,
                               ![l].cb = @ \cup {"confirmed", "media"}]
    PROVE  /\ OnlyLeg(l)
           /\ leg'[l].kind = leg[l].kind /\ leg'[l].alive = leg[l].alive
           /\ leg'[l].bridgeLive = leg[l].bridgeLive
           /\ leg'[l].dialog = (IF leg[l].dialog = "inviting" THEN "confirmed"
                              ELSE leg[l].dialog)
           /\ leg'[l].cb = leg[l].cb \cup {"confirmed", "media"}
           /\ leg'[l].call = leg[l].call
           /\ leg'[l].disconnected = leg[l].disconnected
<1> DEFINE h == [leg[l] EXCEPT !.dialog = IF @ = "inviting" THEN "confirmed" ELSE @,
                                 !.cb = @ \cup {"confirmed", "media"}]
<1>1. leg' = [leg EXCEPT ![l] = h]
  BY DEF LegType
<1>2. /\ h \in LegType
      /\ h.kind = leg[l].kind /\ h.alive = leg[l].alive
      /\ h.bridgeLive = leg[l].bridgeLive
      /\ h.dialog = (IF leg[l].dialog = "inviting" THEN "confirmed"
                              ELSE leg[l].dialog)
      /\ h.cb = leg[l].cb \cup {"confirmed", "media"} /\ h.call = leg[l].call
      /\ h.disconnected = leg[l].disconnected
  BY ZenonT(40) DEF LegType
<1> HIDE DEF h
<1>3. leg \in [Legs -> LegType] /\ l \in Legs
  OBVIOUS
<1>4. OnlyLeg(l) /\ leg'[l] = h
  BY <1>1, <1>2, <1>3, LegSet
<1> QED
  BY <1>2, <1>4

\* A dialog is over, and the leg will be told.
LEMMA OverEffect ==
    ASSUME leg \in [Legs -> LegType], NEW l \in Legs,
           leg' = [leg EXCEPT ![l].dialog = "over", ![l].cb = @ \cup {"disconnected"}]
    PROVE  /\ OnlyLeg(l)
           /\ leg'[l].kind = leg[l].kind /\ leg'[l].alive = leg[l].alive
           /\ leg'[l].bridgeLive = leg[l].bridgeLive /\ leg'[l].dialog = "over"
           /\ leg'[l].cb = leg[l].cb \cup {"disconnected"}
           /\ leg'[l].call = leg[l].call
           /\ leg'[l].disconnected = leg[l].disconnected
<1> DEFINE h == [leg[l] EXCEPT !.dialog = "over",
                                 !.cb = @ \cup {"disconnected"}]
<1>1. leg' = [leg EXCEPT ![l] = h]
  BY DEF LegType
<1>2. /\ h \in LegType
      /\ h.kind = leg[l].kind /\ h.alive = leg[l].alive
      /\ h.bridgeLive = leg[l].bridgeLive /\ h.dialog = "over"
      /\ h.cb = leg[l].cb \cup {"disconnected"} /\ h.call = leg[l].call
      /\ h.disconnected = leg[l].disconnected
  BY ZenonT(40) DEF LegType
<1> HIDE DEF h
<1> QED
  BY <1>1, <1>2, LegSet

\* answer(200).
LEMMA ConfirmEffect ==
    ASSUME leg \in [Legs -> LegType], NEW l \in Legs,
           leg' = [leg EXCEPT ![l].dialog = "confirmed", ![l].cb = @ \cup {"media"}]
    PROVE  /\ OnlyLeg(l)
           /\ leg'[l].kind = leg[l].kind /\ leg'[l].alive = leg[l].alive
           /\ leg'[l].bridgeLive = leg[l].bridgeLive
           /\ leg'[l].dialog = "confirmed"
           /\ leg'[l].cb = leg[l].cb \cup {"media"}
           /\ leg'[l].call = leg[l].call
           /\ leg'[l].disconnected = leg[l].disconnected
<1> DEFINE h == [leg[l] EXCEPT !.dialog = "confirmed", !.cb = @ \cup {"media"}]
<1>1. leg' = [leg EXCEPT ![l] = h]
  BY DEF LegType
<1>2. /\ h \in LegType
      /\ h.kind = leg[l].kind /\ h.alive = leg[l].alive
      /\ h.bridgeLive = leg[l].bridgeLive /\ h.dialog = "confirmed"
      /\ h.cb = leg[l].cb \cup {"media"} /\ h.call = leg[l].call
      /\ h.disconnected = leg[l].disconnected
  BY ZenonT(40) DEF LegType
<1> HIDE DEF h
<1> QED
  BY <1>1, <1>2, LegSet

\* delete call.
LEMMA DeleteEffect ==
    ASSUME leg \in [Legs -> LegType], NEW l \in Legs,
           leg' = [leg EXCEPT ![l].alive = FALSE, ![l].cb = {}]
    PROVE  /\ OnlyLeg(l)
           /\ leg'[l].kind = leg[l].kind /\ leg'[l].alive = FALSE
           /\ leg'[l].bridgeLive = leg[l].bridgeLive
           /\ leg'[l].dialog = leg[l].dialog /\ leg'[l].cb = {}
           /\ leg'[l].call = leg[l].call
           /\ leg'[l].disconnected = leg[l].disconnected
<1> DEFINE h == [leg[l] EXCEPT !.alive = FALSE, !.cb = {}]
<1>1. leg' = [leg EXCEPT ![l] = h]
  BY DEF LegType
<1>2. /\ h \in LegType
      /\ h.kind = leg[l].kind /\ h.alive = FALSE
      /\ h.bridgeLive = leg[l].bridgeLive /\ h.dialog = leg[l].dialog
      /\ h.cb = {} /\ h.call = leg[l].call
      /\ h.disconnected = leg[l].disconnected
  BY ZenonT(40) DEF LegType
<1> HIDE DEF h
<1> QED
  BY <1>1, <1>2, LegSet

\* acct.bridge.reset().
LEMMA FreeEffect ==
    ASSUME leg \in [Legs -> LegType], NEW l \in Legs,
           leg' = [leg EXCEPT ![l].bridgeLive = FALSE]
    PROVE  /\ OnlyLeg(l)
           /\ leg'[l].kind = leg[l].kind /\ leg'[l].alive = leg[l].alive
           /\ leg'[l].bridgeLive = FALSE /\ leg'[l].dialog = leg[l].dialog
           /\ leg'[l].cb = leg[l].cb /\ leg'[l].call = leg[l].call
           /\ leg'[l].disconnected = leg[l].disconnected
<1> DEFINE h == [leg[l] EXCEPT !.bridgeLive = FALSE]
<1>1. leg' = [leg EXCEPT ![l] = h]
  BY DEF LegType
<1>2. /\ h \in LegType
      /\ h.kind = leg[l].kind /\ h.alive = leg[l].alive /\ h.bridgeLive = FALSE
      /\ h.dialog = leg[l].dialog /\ h.cb = leg[l].cb /\ h.call = leg[l].call
      /\ h.disconnected = leg[l].disconnected
  BY ZenonT(40) DEF LegType
<1> HIDE DEF h
<1> QED
  BY <1>1, <1>2, LegSet

\* The Signal call of an INVITE leg is placed.
LEMMA CallEffect ==
    ASSUME leg \in [Legs -> LegType], NEW l \in Legs, NEW n \in Calls,
           leg' = [leg EXCEPT ![l].call = n]
    PROVE  /\ OnlyLeg(l)
           /\ leg'[l].kind = leg[l].kind /\ leg'[l].alive = leg[l].alive
           /\ leg'[l].bridgeLive = leg[l].bridgeLive
           /\ leg'[l].dialog = leg[l].dialog /\ leg'[l].cb = leg[l].cb
           /\ leg'[l].call = n /\ leg'[l].disconnected = leg[l].disconnected
<1> DEFINE h == [leg[l] EXCEPT !.call = n]
<1>1. leg' = [leg EXCEPT ![l] = h]
  BY DEF LegType
<1>2. /\ h \in LegType
      /\ h.kind = leg[l].kind /\ h.alive = leg[l].alive
      /\ h.bridgeLive = leg[l].bridgeLive /\ h.dialog = leg[l].dialog
      /\ h.cb = leg[l].cb /\ h.call = n /\ h.disconnected = leg[l].disconnected
  BY DEF LegType
<1> HIDE DEF h
<1> QED
  BY <1>1, <1>2, LegSet

\* A callback is entered.
LEMMA EnterEffect ==
    ASSUME leg \in [Legs -> LegType], NEW l \in Legs, NEW c,
           leg' = [leg EXCEPT ![l].cb = @ \ {c}]
    PROVE  /\ OnlyLeg(l)
           /\ leg'[l].kind = leg[l].kind /\ leg'[l].alive = leg[l].alive
           /\ leg'[l].bridgeLive = leg[l].bridgeLive
           /\ leg'[l].dialog = leg[l].dialog /\ leg'[l].cb = leg[l].cb \ {c}
           /\ leg'[l].call = leg[l].call
           /\ leg'[l].disconnected = leg[l].disconnected
<1> DEFINE h == [leg[l] EXCEPT !.cb = @ \ {c}]
<1>1. leg' = [leg EXCEPT ![l] = h]
  BY DEF LegType
<1>2. /\ h \in LegType
      /\ h.kind = leg[l].kind /\ h.alive = leg[l].alive
      /\ h.bridgeLive = leg[l].bridgeLive /\ h.dialog = leg[l].dialog
      /\ h.cb = leg[l].cb \ {c} /\ h.call = leg[l].call
      /\ h.disconnected = leg[l].disconnected
  BY DEF LegType
<1> HIDE DEF h
<1> QED
  BY <1>1, <1>2, LegSet

\* The Signal call was accepted for this leg.
LEMMA AcceptEffect ==
    ASSUME leg \in [Legs -> LegType], NEW l \in Legs,
           leg' = [leg EXCEPT ![l].acceptSent = TRUE]
    PROVE  /\ OnlyLeg(l)
           /\ leg'[l].kind = leg[l].kind /\ leg'[l].alive = leg[l].alive
           /\ leg'[l].bridgeLive = leg[l].bridgeLive
           /\ leg'[l].dialog = leg[l].dialog /\ leg'[l].cb = leg[l].cb
           /\ leg'[l].call = leg[l].call
           /\ leg'[l].disconnected = leg[l].disconnected
<1> DEFINE h == [leg[l] EXCEPT !.acceptSent = TRUE]
<1>1. leg' = [leg EXCEPT ![l] = h]
  BY DEF LegType
<1>2. /\ h \in LegType
      /\ h.kind = leg[l].kind /\ h.alive = leg[l].alive
      /\ h.bridgeLive = leg[l].bridgeLive /\ h.dialog = leg[l].dialog
      /\ h.cb = leg[l].cb /\ h.call = leg[l].call
      /\ h.disconnected = leg[l].disconnected
  BY ZenonT(40) DEF LegType
<1> HIDE DEF h
<1> QED
  BY <1>1, <1>2, LegSet

\* weHungUp_ is set.
LEMMA HungUpFlagEffect ==
    ASSUME leg \in [Legs -> LegType], NEW l \in Legs, NEW b \in BOOLEAN,
           leg' = [leg EXCEPT ![l].weHungUp = b]
    PROVE  /\ OnlyLeg(l)
           /\ leg'[l].kind = leg[l].kind /\ leg'[l].alive = leg[l].alive
           /\ leg'[l].bridgeLive = leg[l].bridgeLive
           /\ leg'[l].dialog = leg[l].dialog /\ leg'[l].cb = leg[l].cb
           /\ leg'[l].call = leg[l].call
           /\ leg'[l].disconnected = leg[l].disconnected
<1> DEFINE h == [leg[l] EXCEPT !.weHungUp = b]
<1>1. leg' = [leg EXCEPT ![l] = h]
  BY DEF LegType
<1>2. /\ h \in LegType
      /\ h.kind = leg[l].kind /\ h.alive = leg[l].alive
      /\ h.bridgeLive = leg[l].bridgeLive /\ h.dialog = leg[l].dialog
      /\ h.cb = leg[l].cb /\ h.call = leg[l].call
      /\ h.disconnected = leg[l].disconnected
  BY DEF LegType
<1> HIDE DEF h
<1> QED
  BY <1>1, <1>2, LegSet

\* disconnected_ is set.
LEMMA FlagEffect ==
    ASSUME leg \in [Legs -> LegType], NEW l \in Legs,
           leg' = [leg EXCEPT ![l].disconnected = TRUE]
    PROVE  /\ OnlyLeg(l)
           /\ leg'[l].kind = leg[l].kind /\ leg'[l].alive = leg[l].alive
           /\ leg'[l].bridgeLive = leg[l].bridgeLive
           /\ leg'[l].dialog = leg[l].dialog /\ leg'[l].cb = leg[l].cb
           /\ leg'[l].call = leg[l].call /\ leg'[l].disconnected = TRUE
<1> DEFINE h == [leg[l] EXCEPT !.disconnected = TRUE]
<1>1. leg' = [leg EXCEPT ![l] = h]
  BY DEF LegType
<1>2. /\ h \in LegType
      /\ h.kind = leg[l].kind /\ h.alive = leg[l].alive
      /\ h.bridgeLive = leg[l].bridgeLive /\ h.dialog = leg[l].dialog
      /\ h.cb = leg[l].cb /\ h.call = leg[l].call /\ h.disconnected = TRUE
  BY ZenonT(40) DEF LegType
<1> HIDE DEF h
<1> QED
  BY <1>1, <1>2, LegSet

\* The dialog after a hangup().
HungDialog(d) ==
    IF d = "ringing" THEN "over"
    ELSE IF d \in {"inviting", "confirmed"} THEN "closing" ELSE d

\* pj::Call::hangup().
LEMMA HangupEffect ==
    ASSUME leg \in [Legs -> LegType], NEW l \in Legs,
           leg' = [leg EXCEPT ![l] = HungUp(@)]
    PROVE  /\ OnlyLeg(l)
           /\ leg'[l].kind = leg[l].kind /\ leg'[l].alive = leg[l].alive
           /\ leg'[l].bridgeLive = leg[l].bridgeLive
           /\ leg'[l].dialog = HungDialog(leg[l].dialog)
           /\ leg'[l].cb = leg[l].cb /\ leg'[l].call = leg[l].call
           /\ leg'[l].disconnected <=> leg[l].disconnected \/ leg[l].dialog = "ringing"
<1> DEFINE h == HungUp(leg[l])
<1>1. leg' = [leg EXCEPT ![l] = h]
  OBVIOUS
<1>2. /\ h \in LegType
      /\ h.kind = leg[l].kind /\ h.alive = leg[l].alive
      /\ h.bridgeLive = leg[l].bridgeLive
      /\ h.dialog = HungDialog(leg[l].dialog) /\ h.cb = leg[l].cb
      /\ h.call = leg[l].call
      /\ h.disconnected <=> leg[l].disconnected \/ leg[l].dialog = "ringing"
  <2>1. CASE leg[l].dialog = "ringing"
    BY ZenonT(40), <2>1 DEF LegType, HungUp, HungDialog
  <2>2. CASE leg[l].dialog \in {"inviting", "confirmed"}
    BY ZenonT(40), <2>2 DEF LegType, HungUp, HungDialog
  <2>3. CASE leg[l].dialog \notin {"ringing", "inviting", "confirmed"}
    BY ZenonT(40), <2>3 DEF LegType, HungUp, HungDialog
  <2> QED
    BY <2>1, <2>2, <2>3
<1> HIDE DEF h
<1> QED
  BY <1>1, <1>2, LegSet

\* A new bridge and a new leg; a bridge that was there is freed.
LEMMA NewLegEffect ==
    ASSUME leg \in [Legs -> LegType], bridge \in Legs \cup {None}, NEW l \in Legs,
           NEW k \in {"dialled", "invite"}, NEW n \in Calls \cup {None},
           NEW d \in {"none", "ringing"}, leg' = WithNewLeg(l, k, n, d)
    PROVE  /\ leg' \in [Legs -> LegType]
           /\ leg'[l].kind = k /\ leg'[l].alive = TRUE /\ leg'[l].bridgeLive = TRUE
           /\ leg'[l].dialog = d /\ leg'[l].cb = {} /\ leg'[l].call = n
           /\ leg'[l].disconnected = FALSE
           /\ \A j \in Legs : j /= l =>
                /\ leg'[j].kind = leg[j].kind /\ leg'[j].alive = leg[j].alive
                /\ leg'[j].dialog = leg[j].dialog /\ leg'[j].cb = leg[j].cb
                /\ leg'[j].call = leg[j].call
                /\ leg'[j].disconnected = leg[j].disconnected
<1> DEFINE old == IF bridge = None THEN leg
                  ELSE [leg EXCEPT ![bridge].bridgeLive = FALSE]
           h == [NoLeg EXCEPT !.kind = k, !.alive = TRUE, !.bridgeLive = TRUE,
                              !.call = n, !.dialog = d]
<1>1. leg' = [old EXCEPT ![l] = h]
  BY DEF WithNewLeg
<1>2. /\ h \in LegType /\ h.kind = k /\ h.alive = TRUE /\ h.bridgeLive = TRUE
      /\ h.dialog = d /\ h.cb = {} /\ h.call = n /\ h.disconnected = FALSE
  BY DEF LegType, NoLeg
<1>3. /\ old \in [Legs -> LegType]
      /\ \A j \in Legs :
           /\ old[j].kind = leg[j].kind /\ old[j].alive = leg[j].alive
           /\ old[j].dialog = leg[j].dialog /\ old[j].cb = leg[j].cb
           /\ old[j].call = leg[j].call
           /\ old[j].disconnected = leg[j].disconnected
  <2>1. CASE bridge = None
    BY <2>1
  <2>2. CASE bridge /= None
    <3> DEFINE g == [leg[bridge] EXCEPT !.bridgeLive = FALSE]
    <3>1. bridge \in Legs /\ old = [leg EXCEPT ![bridge] = g]
      BY <2>2 DEF LegType
    <3>2. /\ g \in LegType /\ g.kind = leg[bridge].kind /\ g.alive = leg[bridge].alive
          /\ g.dialog = leg[bridge].dialog /\ g.cb = leg[bridge].cb
          /\ g.call = leg[bridge].call
          /\ g.disconnected = leg[bridge].disconnected
      BY ZenonT(40), <3>1 DEF LegType
    <3> HIDE DEF g
    <3> QED
      BY <3>1, <3>2
  <2> QED
    BY <2>1, <2>2
<1> HIDE DEF old, h
<1> QED
  BY <1>1, <1>2, <1>3

-----------------------------------------------------------------------------
(* Facts used everywhere                                                   *)

\* Calls and legs are numbered from one.
LEMMA Domains ==
    ASSUME BridgeInv
    PROVE  /\ leg \in [Legs -> LegType] /\ events \in Seq(EventType)
           /\ \A e \in Elements(events) :
                e \in EventType /\ e.call \in Calls /\ e.call <= nCalls
           /\ nCalls \in Nat /\ MaxCalls \in Nat /\ nCalls <= MaxCalls
           /\ nLegs \in Nat /\ MaxLegs \in Nat /\ nLegs <= MaxLegs
           /\ None \notin Calls /\ None \notin Legs /\ None = 0
           /\ \A n \in Calls : n \in Nat /\ n > 0
           /\ \A l \in Legs : l \in Nat /\ l > 0
           /\ activeCallId \in Nat /\ rtc.call \in Calls \cup {None}
           /\ sipCall \in Legs \cup {None} /\ incomingSipCall \in Legs \cup {None}
           /\ \A l \in Legs : leg[l].call \in Nat
           /\ sipCall /= None => activeCallId /= None
<1>1. /\ leg \in [Legs -> LegType] /\ events \in Seq(EventType)
      /\ rtc.call \in Calls \cup {None} /\ activeCallId \in Calls \cup {None}
      /\ nCalls \in Calls \cup {0} /\ nLegs \in Legs \cup {0}
      /\ sipCall \in Legs \cup {None} /\ incomingSipCall \in Legs \cup {None}
  BY DEF BridgeInv, StateType, AcctType, HeapType, RtcType,
      ThreadType, HistType, EventType
<1>2. /\ MaxCalls \in Nat /\ MaxLegs \in Nat
      /\ None \notin Calls /\ None \notin Legs /\ None = 0
      /\ \A n \in Calls : n \in Nat /\ n > 0 /\ n <= MaxCalls
      /\ \A l \in Legs : l \in Nat /\ l > 0 /\ l <= MaxLegs
  BY BridgeAssumption DEF Calls, Legs, None
<1>3. \A e \in Elements(events) : e \in EventType
  BY <1>1 DEF Elements
<1>4. \A e \in Elements(events) : e.call \in Calls /\ e.call <= nCalls
  BY <1>3 DEF BridgeInv, QueueInv, EventType
<1>5. \A l \in Legs : leg[l].call \in Nat
  BY <1>1, <1>2 DEF LegType
<1>6. sipCall /= None => activeCallId /= None
  BY <1>1 DEF BridgeInv, SipInv, LegInv
<1> QED
  BY <1>1, <1>2, <1>3, <1>4, <1>5, <1>6

\* Nothing is alive when all is quiet.
LEMMA QuietLegs ==
    ASSUME BridgeInv, sipCall = None, incomingSipCall = None
    PROVE  \A l \in Legs : ~leg[l].alive /\ ~InCallbackOf(l)
  BY Domains DEF BridgeInv, LegInv

\* A group that does not change keeps its type.
LEMMA TypeFrame ==
    ASSUME BridgeInv
    PROVE  /\ UNCHANGED acctVars => AcctType'
           /\ UNCHANGED heapVars => HeapType'
           /\ UNCHANGED rtcVars => RtcType'
           /\ UNCHANGED threadVars => ThreadType'
           /\ UNCHANGED histVars => HistType'
           /\ AcctType /\ HeapType /\ RtcType /\ ThreadType /\ HistType
           /\ nInvites \in 0..MaxInvites
<1>1. AcctType /\ HeapType /\ RtcType /\ ThreadType /\ HistType
      /\ nInvites \in 0..MaxInvites
  BY DEF BridgeInv, StateType
<1>2. UNCHANGED acctVars => AcctType'
  BY <1>1 DEF acctVars, AcctType
<1>3. UNCHANGED heapVars => HeapType'
  BY <1>1 DEF heapVars, HeapType
<1>4. UNCHANGED rtcVars => RtcType'
  BY <1>1 DEF rtcVars, RtcType
<1>5. UNCHANGED threadVars => ThreadType'
  BY <1>1 DEF threadVars, ThreadType
<1>6. UNCHANGED histVars => HistType'
  BY <1>1 DEF histVars, HistType
<1> QED
  BY <1>1, <1>2, <1>3, <1>4, <1>5, <1>6

\* StateType is the conjunction of its parts.
LEMMA TypeParts ==
    ASSUME AcctType', HeapType', RtcType', ThreadType', HistType',
           nInvites' \in 0..MaxInvites
    PROVE  StateType'
  BY DEF StateType

\* R's locals stay right while R does not move.
LEMMA ThreadFrame ==
    ASSUME BridgeInv, sipCall' = sipCall, incomingSipCall' = incomingSipCall,
           pc'["R"] = pc["R"], held'["R"] = held["R"],
           stopping'["R"] = stopping["R"],
           pc'["P"] \in {"idle", "callback", "flag", "create", "ring", "resolve",
                        "startCall", "stop", "poll", "delete", "reset"},
           pc'["P"] \in {"callback", "flag"} => held'["P"] /= None,
           \A k \in Legs : /\ leg[k].dialog = "none" => leg'[k].dialog = "none"
                           /\ leg[k].disconnected => leg'[k].disconnected
    PROVE  ThreadInv'
<1>1. /\ sipCall \in Legs \cup {None} /\ held["R"] \in Legs \cup {None}
      /\ None \notin Legs
  BY TypeFrame, Domains DEF AcctType, ThreadType, Threads
<1>2. Pointer(stopping["R"])' = Pointer(stopping["R"])
  BY DEF Pointer
<1>3. pc["R"] = "makeCall" => leg'[sipCall].dialog = "none"
  BY <1>1 DEF BridgeInv, ThreadInv
<1>4. pc["R"] = "delete" => leg'[held["R"]].disconnected \/ leg'[held["R"]].dialog = "none"
  BY <1>1 DEF BridgeInv, ThreadInv
<1> QED
  BY <1>2, <1>3, <1>4 DEF BridgeInv, ThreadInv, Inviting

\* The history stays true while no leg that has a call gets another.
LEMMA HistoryFrame ==
    ASSUME BridgeInv,
           bridged' = bridged, dtmf' = dtmf, NoFault',
           \A k \in Legs : leg[k].call /= None => leg'[k].call = leg[k].call
    PROVE  HistoryInv'
<1>1. \A p \in bridged : p[2] \in Legs
  BY DEF BridgeInv, StateType, AcctType, HeapType, RtcType,
      ThreadType, HistType
<1>2. ASSUME NEW p \in bridged' PROVE p[1] /= None /\ leg'[p[2]].call = p[1]
  <2>1. p \in bridged
    OBVIOUS
  <2> QED
    BY <1>1, <2>1 DEF BridgeInv, HistoryInv
<1>3. dtmf'.leg /= None => dtmf'.from /= None /\ leg'[dtmf'.leg].call = dtmf'.from
  <2>1. dtmf.leg /= None => dtmf.leg \in Legs
    BY DEF BridgeInv, StateType, AcctType, HeapType, RtcType,
      ThreadType, HistType
  <2> QED
    BY <2>1 DEF BridgeInv, HistoryInv
<1> QED
  BY <1>2, <1>3 DEF HistoryInv

\* While the dialled leg exists, every event R can handle is of its call.
LEMMA SipHead ==
    ASSUME BridgeInv, pc["R"] = "idle", events /= <<>>, sipCall /= None
    PROVE  Head(events).call = activeCallId
<1>1. /\ Head(events) \in Elements(events)
      /\ \A e \in Elements(events) : Head(events).call <= e.call
  BY Domains, TailQueue DEF BridgeInv, QueueInv
<1>2. /\ activeCallId <= Head(events).call /\ Head(events).call <= nCalls
      /\ Head(events).call \in Nat
  BY <1>1, Domains DEF BridgeInv, QueueInv
<1>3. \/ rtc.call = activeCallId
      \/ Event(activeCallId, "ENDED") \in Elements(events)
  BY DEF BridgeInv, SipInv, StopsSip
<1>4. CASE rtc.call = activeCallId
  <2>1. activeCallId = nCalls
    <3>1. leg[sipCall].call = activeCallId /\ leg[sipCall].kind = "dialled"
      BY DEF BridgeInv, SipInv
    <3>2. activeCallId /= None
      BY <3>1, Domains DEF BridgeInv, LegInv
    <3> QED
      BY <1>4, <3>2 DEF BridgeInv, RtcInv
  <2> QED
    BY <1>2, <2>1, Domains
<1>5. CASE Event(activeCallId, "ENDED") \in Elements(events)
  <2>1. Head(events).call <= activeCallId
    BY <1>1, <1>5 DEF Event
  <2> QED
    BY <1>2, <2>1, Domains
<1> QED
  BY <1>3, <1>4, <1>5

\* A new event of RingRTC's call that is not RINGING.
LEMMA CurrentEvent ==
    ASSUME BridgeInv, rtc.call /= None, NEW k \in Events, k /= "RINGING",
           events' = Append(events, Event(rtc.call, k))
    PROVE  /\ events' \in Seq(EventType) /\ Ordered(events') /\ RingsOnce(events')
           /\ Elements(events') = Elements(events) \cup {Event(rtc.call, k)}
           /\ Event(rtc.call, k).call = nCalls /\ Event(rtc.call, k).ev = k
           /\ EndComes(events', rtc.call)
<1>1. rtc.call \in Calls /\ rtc.call = nCalls
  BY Domains DEF BridgeInv, RtcInv
<1>2. Event(rtc.call, k) \in EventType
  BY <1>1, EventInType
<1>3. Event(rtc.call, k).call = nCalls /\ Event(rtc.call, k).ev = k
  BY <1>1 DEF Event
<1>4. \A e \in Elements(events) : e.call <= Event(rtc.call, k).call
  BY <1>3, Domains
<1>5. EndComes(events', rtc.call)
  BY <1>1, <1>2, <1>3, Domains, AppendEnds DEF BridgeInv, QueueInv
<1> QED
  BY <1>2, <1>3, <1>4, <1>5, Domains, AppendQueue DEF BridgeInv, QueueInv

\* RingRTC's call ends.
LEMMA EndEffect ==
    ASSUME BridgeInv, rtc.call /= None, EndCurrentCall
    PROVE  /\ rtc' = NoCall /\ ended' \subseteq Calls
           /\ events' \in Seq(EventType) /\ Ordered(events') /\ RingsOnce(events')
           /\ EndComes(events', None)
           /\ Elements(events') = Elements(events) \cup {Event(nCalls, "ENDED")}
           /\ Event(nCalls, "ENDED").call = nCalls
           /\ Event(nCalls, "ENDED").ev = "ENDED"
           /\ rtc.call = nCalls
<1>1. rtc.call \in Calls /\ rtc.call = nCalls
  BY Domains DEF BridgeInv, RtcInv
<1>2. \A e \in Elements(events) : e.call <= nCalls
  BY Domains
<1>3. events' = events \o <<Event(nCalls, "ENDED"), Event(nCalls, "ENDED")>>
  BY <1>1 DEF EndCurrentCall
<1>4. /\ events' \in Seq(EventType) /\ Ordered(events') /\ RingsOnce(events')
      /\ EndComes(events', None)
      /\ Elements(events') = Elements(events) \cup {Event(nCalls, "ENDED")}
  BY <1>1, <1>2, <1>3, Domains, EndQueue DEF BridgeInv, QueueInv
<1> QED
  BY <1>1, <1>4
    DEF EndCurrentCall, Event, BridgeInv, StateType, AcctType, HeapType, RtcType,
      ThreadType, HistType

\* R takes an event off the queue.
LEMMA DeliverEffect ==
    ASSUME BridgeInv, NEW k, Deliver(k)
    PROVE  LET n == Head(events).call IN
           /\ pc["R"] = "idle" /\ events /= <<>> /\ activeCallId' = n
           /\ n \in Calls /\ n <= nCalls /\ activeCallId <= n
           /\ Head(events) \in Elements(events) /\ Head(events).ev = k
           /\ Tail(events) \in Seq(EventType)
           /\ Ordered(Tail(events)) /\ RingsOnce(Tail(events))
           /\ Elements(Tail(events)) \subseteq Elements(events)
           /\ Elements(events) \subseteq Elements(Tail(events)) \cup {Head(events)}
           /\ \A e \in Elements(Tail(events)) :
                /\ n <= e.call
                /\ k = "RINGING" => ~(e.ev = "RINGING" /\ e.call = n)
           /\ sipCall /= None => n = activeCallId
           /\ ~Inviting /\ pc["M"] = "idle"
           /\ incomingSipCall /= None =>
                n = nCalls /\ ~isCallee /\ k /= "INCOMING_AUDIO"
           /\ EndComes(Tail(events), rtc.call)
           /\ \/ k = "ENDED"
              \/ rtc.call = n
              \/ Event(n, "ENDED") \in Elements(Tail(events))
<1>1. /\ pc["R"] = "idle" /\ events /= <<>> /\ Head(events).ev = k
      /\ activeCallId' = Head(events).call
  BY DEF Deliver
<1>2. /\ Head(events) \in Elements(events)
      /\ Tail(events) \in Seq(EventType)
      /\ Ordered(Tail(events)) /\ RingsOnce(Tail(events))
      /\ Elements(Tail(events)) \subseteq Elements(events)
      /\ Elements(events) \subseteq Elements(Tail(events)) \cup {Head(events)}
      /\ \A e \in Elements(events) : Head(events).call <= e.call
      /\ k = "RINGING" => \A e \in Elements(Tail(events)) :
           ~(e.ev = "RINGING" /\ e.call = Head(events).call)
  BY <1>1, Domains, TailQueue DEF BridgeInv, QueueInv
<1>3. /\ Head(events).call \in Calls /\ Head(events).call <= nCalls
      /\ activeCallId <= Head(events).call
  BY <1>2, Domains DEF BridgeInv, QueueInv
<1>4. sipCall /= None => Head(events).call = activeCallId
  BY <1>1, SipHead
<1>5. ~Inviting /\ pc["M"] = "idle"
  BY <1>1 DEF BridgeInv, InviteInv, TeardownInv
<1>6. incomingSipCall /= None =>
        Head(events).call = nCalls /\ ~isCallee /\ k /= "INCOMING_AUDIO"
  BY <1>1, <1>2, <1>5 DEF BridgeInv, IncomingInv
<1>7. /\ EndComes(Tail(events), rtc.call)
      /\ \/ k = "ENDED"
         \/ rtc.call = Head(events).call
         \/ Event(Head(events).call, "ENDED") \in Elements(Tail(events))
  BY <1>1, Domains, TailEnds DEF BridgeInv, QueueInv
<1> QED
  BY <1>1, <1>2, <1>3, <1>4, <1>5, <1>6, <1>7

\* R takes an event off the queue, and may have the call proceed.
LEMMA TakeEffect ==
    ASSUME BridgeInv, NEW k, Deliver(k),
           \/ k /= "RINGING" /\ Proceed(Head(events).call)
           \/ events' = Tail(events) /\ rtc' = rtc
    PROVE  LET n == Head(events).call IN
           /\ rtc' \in [call : Calls \cup {None}, dir : {"none", "in", "out"},
                        st : {"none", "offered", "ringing", "connected"}]
           /\ rtc'.call = rtc.call
           /\ rtc.call = None => rtc' = NoCall
           /\ rtc'.st = "offered" =>
                rtc' = rtc /\ Elements(events') \subseteq Elements(events)
           /\ events' \in Seq(EventType)
           /\ Ordered(events') /\ RingsOnce(events') /\ EndComes(events', rtc'.call)
           /\ \A e \in Elements(events) : e = Head(events) \/ e \in Elements(events')
           /\ \A e \in Elements(events') :
                /\ n <= e.call /\ e.call <= nCalls
                /\ \/ e \in Elements(events)
                   \/ e.ev = "RINGING" /\ e.call = nCalls
                /\ e.ev = "RINGING" =>
                     \A l \in Legs : leg[l].kind = "dialled" => leg[l].call /= e.call
<1> DEFINE n == Head(events).call
<1>1. /\ n \in Calls /\ n <= nCalls /\ Head(events) \in Elements(events)
      /\ Tail(events) \in Seq(EventType)
      /\ Ordered(Tail(events)) /\ RingsOnce(Tail(events))
      /\ EndComes(Tail(events), rtc.call)
      /\ Elements(Tail(events)) \subseteq Elements(events)
      /\ Elements(events) \subseteq Elements(Tail(events)) \cup {Head(events)}
      /\ \A e \in Elements(Tail(events)) : n <= e.call
  BY DeliverEffect
<1>2. \A e \in Elements(Tail(events)) :
        /\ n <= e.call /\ e.call <= nCalls /\ e \in Elements(events)
        /\ e.ev = "RINGING" =>
             \A l \in Legs : leg[l].kind = "dialled" => leg[l].call /= e.call
  BY <1>1 DEF BridgeInv, QueueInv
<1>3. /\ rtc \in [call : Calls \cup {None}, dir : {"none", "in", "out"},
                  st : {"none", "offered", "ringing", "connected"}]
      /\ rtc.call = None => rtc = NoCall
  BY DEF BridgeInv, StateType, AcctType, HeapType, RtcType,
      ThreadType, HistType, RtcInv
<1>4. CASE events' = Tail(events) /\ rtc' = rtc
  BY <1>1, <1>2, <1>3, <1>4
<1>5. CASE /\ rtc.call = n /\ rtc.st = "offered"
           /\ rtc' = [rtc EXCEPT !.st = "ringing"]
           /\ events' = Append(Tail(events), Event(n, "RINGING"))
  <2> DEFINE r == Event(n, "RINGING")
  <2>1. /\ rtc' \in [call : Calls \cup {None}, dir : {"none", "in", "out"},
                     st : {"none", "offered", "ringing", "connected"}]
        /\ rtc'.call = n /\ rtc'.st = "ringing" /\ n = nCalls /\ rtc.call /= None
    BY <1>1, <1>3, <1>5, Domains DEF BridgeInv, RtcInv
  <2>2. r \in EventType /\ r.call = n /\ r.ev = "RINGING"
    BY <1>1, EventInType DEF Event, Events
  <2>3. r \notin Elements(events) /\ \A l \in Legs : leg[l].kind = "dialled" => leg[l].call /= n
    BY <1>5 DEF BridgeInv, RtcInv
  <2>4. \A e \in Elements(Tail(events)) : ~(e.ev = "RINGING" /\ e.call = n)
    BY <1>1, <2>3, Domains DEF Event, EventType
  <2>5. \A e \in Elements(Tail(events)) : e.call <= r.call
    BY <1>2, <2>1, <2>2
  <2> HIDE DEF r
  <2>6. /\ events' \in Seq(EventType) /\ Ordered(events') /\ RingsOnce(events')
        /\ Elements(events') = Elements(Tail(events)) \cup {r}
    BY <1>1, <1>5, <2>2, <2>4, <2>5, AppendQueue DEF r
  <2>7. EndComes(events', n)
    BY <1>1, <1>5, <2>2, AppendEnds DEF r
  <2> QED
    BY <1>1, <1>2, <1>5, <2>1, <2>2, <2>3, <2>6, <2>7, Domains
<1> QED
  BY <1>4, <1>5 DEF Proceed

-----------------------------------------------------------------------------
(* The outside world                                                       *)

\* A call arrives when RingRTC has none; without a race nothing of an
\* INVITE is left.
LEMMA SignalCallArrivesInv ==
    ASSUME BridgeInv, races' = {}, SignalCallArrives
    PROVE  BridgeInv'
<1>a. /\ rtc.call = None /\ rtc = NoCall /\ nCalls + 1 \in Calls /\ nCalls' = nCalls + 1
      /\ rtc' = [call |-> nCalls + 1, dir |-> "in", st |-> "offered"]
      /\ events' = Append(events, Event(nCalls + 1, "INCOMING_AUDIO"))
      /\ UNCHANGED <<acctVars, heapVars, threadVars, nInvites, histVars>>
  BY Domains DEF SignalCallArrives, BridgeInv, RtcInv, Calls
<1>b. /\ pc["M"] = "idle" /\ ~Inviting /\ incomingSipCall = None
  <2>1. Quiet \/ (nInvites = 0 /\ pc["M"] = "idle")
    BY DEF SignalCallArrives, RaceUnless, Race
  <2>2. CASE Quiet
    BY <2>2 DEF Quiet, Threads, Inviting
  <2>3. CASE nInvites = 0 /\ pc["M"] = "idle"
    BY <2>3 DEF BridgeInv, InviteInv, IncomingInv
  <2> QED
    BY <2>1, <2>2, <2>3
<1>c. /\ Event(nCalls + 1, "INCOMING_AUDIO") \in EventType
      /\ Event(nCalls + 1, "INCOMING_AUDIO").call = nCalls + 1
      /\ Event(nCalls + 1, "INCOMING_AUDIO").ev = "INCOMING_AUDIO"
  BY <1>a DEF Event, EventType, Events
<1>d. /\ events' \in Seq(EventType)
      /\ Elements(events') = Elements(events) \cup {Event(nCalls + 1, "INCOMING_AUDIO")}
      /\ Ordered(events') /\ RingsOnce(events')
      /\ EndComes(events', rtc'.call)
  <2>1. \A e \in Elements(events) : e.call <= nCalls + 1
    BY Domains
  <2>2. EndComes(events', nCalls + 1)
    BY <1>a, <1>c, Domains, AppendEnds DEF BridgeInv, QueueInv
  <2> QED
    BY <1>a, <1>c, <2>1, <2>2, Domains, AppendQueue DEF BridgeInv, QueueInv
<1>1. StateType'
  <2>1. rtc' \in [call : Calls \cup {None}, dir : {"none", "in", "out"},
                    st : {"none", "offered", "ringing", "connected"}]
    BY <1>a
  <2>2. nCalls' \in Calls \cup {0} /\ events' \in Seq([call : Calls, ev : Events])
    BY <1>a, <1>d DEF EventType
  <2> QED
    BY ZenonT(40), <1>a, <2>1, <2>2
      DEF acctVars, heapVars, threadVars, histVars, BridgeInv, StateType,
          AcctType, HeapType, RtcType,
      ThreadType, HistType
<1>2. QueueInv'
  BY <1>a, <1>b, <1>c, <1>d, Domains DEF BridgeInv, QueueInv, acctVars, heapVars,
      LegInv, RtcInv
<1>3. RtcInv'
  BY <1>a, <1>b, <1>c, <1>d, Domains DEF BridgeInv, RtcInv, acctVars, heapVars,
      LegInv, Event, QueueInv
<1>4. ASSUME NEW k \in Legs PROVE LegInv(k)'
  BY SMTT(20), <1>a, <1>b, <1>c, <1>d, Domains
    DEF BridgeInv, LegInv, InCallbackOf, acctVars,
      heapVars, threadVars
<1>5. SipInv'
  BY <1>a, <1>b, <1>c, <1>d, Domains DEF BridgeInv, SipInv, StopsSip, Inviting,
      acctVars, heapVars, threadVars
<1>6. IncomingInv'
  BY <1>a, <1>b, <1>c, <1>d DEF BridgeInv, IncomingInv, Inviting, acctVars
<1>7. InviteInv'
  BY <1>a, <1>b, <1>c, <1>d DEF BridgeInv, InviteInv, Inviting, threadVars
<1>8. ThreadInv'
  BY <1>a, <1>b, <1>c, <1>d DEF BridgeInv, ThreadInv, Inviting, Pointer, acctVars,
      heapVars, threadVars
<1>9. TeardownInv'
  BY <1>a, <1>b, <1>c, <1>d DEF BridgeInv, TeardownInv, threadVars
<1>10. HistoryInv'
  BY <1>a, <1>b, <1>c, <1>d DEF BridgeInv, HistoryInv, NoFault, heapVars,
      histVars
<1> QED
  BY <1>1, <1>2, <1>3, <1>4, <1>5, <1>6, <1>7, <1>8, <1>9, <1>10 DEF BridgeInv

\* The remote end answers an outgoing call that rings.
LEMMA RemoteAnswersInv ==
    ASSUME BridgeInv, RemoteAnswers
    PROVE  BridgeInv'
<1>a. /\ rtc.dir = "out" /\ rtc.st = "ringing" /\ rtc.call /= None
      /\ rtc' = [rtc EXCEPT !.st = "connected"]
      /\ events' = Append(events, Event(rtc.call, "CONNECTED"))
      /\ UNCHANGED <<acctVars, heapVars, nCalls, threadVars, nInvites, histVars>>
  BY DEF RemoteAnswers, BridgeInv, RtcInv, NoCall
<1>b. rtc'.call = rtc.call /\ rtc'.st = "connected" /\ rtc' /= NoCall
  BY <1>a DEF BridgeInv, StateType, AcctType, HeapType, RtcType,
      ThreadType, HistType, NoCall
<1>c. /\ events' \in Seq(EventType) /\ Ordered(events') /\ RingsOnce(events')
      /\ EndComes(events', rtc.call)
      /\ Elements(events') = Elements(events) \cup {Event(rtc.call, "CONNECTED")}
      /\ Event(rtc.call, "CONNECTED").call = nCalls
      /\ Event(rtc.call, "CONNECTED").ev = "CONNECTED"
  BY <1>a, CurrentEvent DEF Events
<1>d. ~Inviting /\ pc["M"] = "idle"
  BY <1>a DEF BridgeInv, InviteInv, TeardownInv, NoCall
<1>1. StateType'
  <2>1. rtc' \in [call : Calls \cup {None}, dir : {"none", "in", "out"},
                    st : {"none", "offered", "ringing", "connected"}]
    BY <1>a DEF BridgeInv, StateType, AcctType, HeapType, RtcType,
      ThreadType, HistType
  <2>2. events' \in Seq([call : Calls, ev : Events])
    BY <1>c DEF EventType
  <2> QED
    BY ZenonT(40), <1>a, <2>1, <2>2
    DEF acctVars, heapVars, rtcVars, threadVars, histVars, BridgeInv, StateType, AcctType, HeapType, RtcType,
      ThreadType, HistType
<1>2. QueueInv'
  BY <1>a, <1>b, <1>c, <1>d, Domains DEF BridgeInv, QueueInv, acctVars, heapVars,
      LegInv, RtcInv
<1>3. RtcInv'
  BY <1>a, <1>b, <1>c, <1>d, Domains DEF BridgeInv, RtcInv, acctVars, heapVars
<1>4. ASSUME NEW k \in Legs PROVE LegInv(k)'
  BY <1>a, <1>b, <1>c, <1>d, Domains DEF BridgeInv, LegInv, InCallbackOf, acctVars,
      heapVars, threadVars
<1>5. SipInv'
  BY <1>a, <1>b, <1>c, <1>d, Domains DEF BridgeInv, SipInv, StopsSip, Inviting,
      acctVars, heapVars, threadVars
<1>6. IncomingInv'
  BY <1>a, <1>b, <1>c, <1>d DEF BridgeInv, IncomingInv, Inviting, acctVars,
      heapVars, threadVars
<1>7. InviteInv'
  BY <1>a, <1>b, <1>c, <1>d DEF BridgeInv, InviteInv, Inviting, threadVars
<1>8. ThreadInv'
  BY <1>a, <1>b, <1>c, <1>d DEF BridgeInv, ThreadInv, Inviting, Pointer, acctVars,
      heapVars, threadVars
<1>9. TeardownInv'
  BY <1>a, <1>b, <1>c, <1>d DEF BridgeInv, TeardownInv, threadVars
<1>10. HistoryInv'
  BY <1>a, <1>b, <1>c, <1>d DEF BridgeInv, HistoryInv, NoFault, heapVars,
      histVars
<1> QED
  BY <1>1, <1>2, <1>3, <1>4, <1>5, <1>6, <1>7, <1>8, <1>9, <1>10 DEF BridgeInv

\* The call ends: its ENDED is queued last.
LEMMA SignalCallEndsInv ==
    ASSUME BridgeInv, SignalCallEnds
    PROVE  BridgeInv'
<1>a. /\ rtc.call /= None /\ EndCurrentCall
      /\ UNCHANGED <<acctVars, heapVars, nCalls, threadVars, nInvites, bridged, dtmf,
                     faults>>
  BY DEF SignalCallEnds
<1>b. /\ rtc' = NoCall /\ ended' \subseteq Calls /\ rtc.call = nCalls
      /\ events' \in Seq(EventType) /\ Ordered(events') /\ RingsOnce(events')
      /\ EndComes(events', None)
      /\ Elements(events') = Elements(events) \cup {Event(nCalls, "ENDED")}
      /\ Event(nCalls, "ENDED").call = nCalls /\ Event(nCalls, "ENDED").ev = "ENDED"
  BY <1>a, EndEffect
<1>c. ~Inviting /\ pc["M"] = "idle"
  BY <1>a DEF BridgeInv, InviteInv, TeardownInv, NoCall
<1>1. StateType'
  <2>1. rtc' \in [call : Calls \cup {None}, dir : {"none", "in", "out"},
                    st : {"none", "offered", "ringing", "connected"}]
    BY <1>b DEF NoCall
  <2>2. events' \in Seq([call : Calls, ev : Events])
    BY <1>b DEF EventType
  <2> QED
    BY ZenonT(40), <1>a, <1>b, <2>1, <2>2
    DEF acctVars, heapVars, rtcVars, threadVars, histVars, BridgeInv, StateType, AcctType, HeapType, RtcType,
      ThreadType, HistType
<1>2. QueueInv'
  BY <1>a, <1>b, <1>c, Domains DEF BridgeInv, QueueInv, acctVars, heapVars, LegInv,
      RtcInv, NoCall
<1>3. RtcInv'
  BY <1>a, <1>b, <1>c, Domains DEF BridgeInv, RtcInv, acctVars, heapVars, NoCall
<1>4. ASSUME NEW k \in Legs PROVE LegInv(k)'
  BY <1>a, <1>b, <1>c, Domains DEF BridgeInv, LegInv, InCallbackOf, acctVars,
      heapVars, threadVars
<1>5. SipInv'
  BY <1>a, <1>b, <1>c, Domains DEF BridgeInv, SipInv, StopsSip, Inviting, acctVars,
      heapVars, threadVars
<1>6. IncomingInv'
  BY <1>a, <1>b, <1>c DEF BridgeInv, IncomingInv, Inviting, acctVars, heapVars,
      threadVars
<1>7. InviteInv'
  BY <1>a, <1>b, <1>c DEF BridgeInv, InviteInv, Inviting, threadVars
<1>8. ThreadInv'
  BY <1>a, <1>b, <1>c DEF BridgeInv, ThreadInv, Inviting, Pointer, acctVars,
      heapVars, threadVars
<1>9. TeardownInv'
  BY <1>a, <1>b, <1>c DEF BridgeInv, TeardownInv, threadVars
<1>10. HistoryInv'
  BY <1>a, <1>b, <1>c DEF BridgeInv, HistoryInv, NoFault, heapVars, histVars
<1> QED
  BY <1>1, <1>2, <1>3, <1>4, <1>5, <1>6, <1>7, <1>8, <1>9, <1>10 DEF BridgeInv

\* The PBX answers a leg or ends it.
LEMMA PbxStepInv ==
    ASSUME BridgeInv, NEW l \in Legs, UNCHANGED <<sipCall, incomingSipCall, bridge, isCallee, activeCallId, nLegs, rtc,
                       events, nCalls, pc, held, stopping, callback, nInvites,
                       ended, bridged, dtmf, faults>>,
           OnlyLeg(l), leg'[l].kind = leg[l].kind, leg'[l].alive = leg[l].alive,
           leg'[l].bridgeLive = leg[l].bridgeLive, leg'[l].call = leg[l].call,
           leg'[l].disconnected = leg[l].disconnected,
           \/ /\ leg[l].kind = "dialled" /\ leg[l].dialog \in {"inviting", "closing"}
              /\ leg'[l].dialog \in {"confirmed", "closing"}
              /\ leg'[l].cb = leg[l].cb \cup {"confirmed", "media"}
           \/ /\ leg[l].dialog \in {"inviting", "ringing", "confirmed", "closing"}
              /\ leg'[l].dialog = "over"
              /\ leg'[l].cb = leg[l].cb \cup {"disconnected"}
    PROVE  BridgeInv'
<1>u. UNCHANGED <<sipCall, incomingSipCall, bridge, isCallee, activeCallId, nLegs,
                 rtc, events, nCalls, pc, held, stopping, callback, nInvites,
                 ended, bridged, dtmf, faults>>
  OBVIOUS
<1>a. \/ /\ leg[l].kind = "dialled" /\ leg[l].dialog \in {"inviting", "closing"}
         /\ leg'[l].dialog \in {"confirmed", "closing"}
         /\ leg'[l].cb = leg[l].cb \cup {"confirmed", "media"}
      \/ /\ leg[l].dialog \in {"inviting", "ringing", "confirmed", "closing"}
         /\ leg'[l].dialog = "over" /\ leg'[l].cb = leg[l].cb \cup {"disconnected"}
  OBVIOUS
<1>b. /\ leg' \in [Legs -> LegType] /\ \A k \in Legs : k /= l => leg'[k] = leg[k]
      /\ leg'[l].kind = leg[l].kind /\ leg'[l].alive = leg[l].alive
      /\ leg'[l].bridgeLive = leg[l].bridgeLive /\ leg'[l].call = leg[l].call
      /\ leg'[l].disconnected = leg[l].disconnected
  BY DEF OnlyLeg
<1>c. \A k \in Legs : leg'[k].kind = leg[k].kind /\ leg'[k].call = leg[k].call
  BY <1>b
<1>d. \A k \in Legs : /\ leg[k].dialog = "none" => leg'[k].dialog = "none"
                      /\ leg[k].disconnected => leg'[k].disconnected
  BY <1>a, <1>b
<1>1. StateType'
  <2>1. HeapType'
    BY <1>b, <1>u, TypeFrame DEF HeapType
  <2> QED
    BY <1>u, <2>1, TypeFrame, TypeParts DEF acctVars, rtcVars, threadVars, histVars
<1>2. QueueInv'
  BY <1>u, <1>c DEF BridgeInv, QueueInv
<1>3. RtcInv'
  BY <1>u, <1>c DEF BridgeInv, RtcInv
<1>4. ASSUME NEW k \in Legs PROVE LegInv(k)'
  <2>1. LegInv(k)
    BY DEF BridgeInv
  <2>2. InCallbackOf(k)' <=> InCallbackOf(k)
    BY <1>u DEF InCallbackOf
  <2>3. CASE k = l
    BY <1>u, <1>a, <1>b, <2>1, <2>2, <2>3 DEF LegInv
  <2>4. CASE k /= l
    <3>1. leg'[k] = leg[k]
      BY <1>b, <2>4
    <3> QED
      BY <1>u, <2>1, <2>2, <3>1 DEF LegInv
  <2> QED
    BY <2>3, <2>4
<1>5. SipInv'
  BY <1>u, <1>c, Domains DEF BridgeInv, SipInv, StopsSip, Inviting
<1>6. IncomingInv'
  BY SMTT(30), <1>u, <1>a, <1>b, <1>c, Domains DEF BridgeInv, IncomingInv, Inviting
<1>7. InviteInv'
  BY <1>u, <1>a, <1>b, <1>c, Domains DEF BridgeInv, InviteInv, IncomingInv, Inviting
<1>8. ThreadInv'
  <2>1. /\ pc'["P"] \in {"idle", "callback", "flag", "create", "ring", "resolve",
                        "startCall", "stop", "poll", "delete", "reset"}
        /\ pc'["P"] \in {"callback", "flag"} => held'["P"] /= None
    BY <1>u DEF BridgeInv, ThreadInv, Inviting
  <2>2. /\ sipCall' = sipCall /\ incomingSipCall' = incomingSipCall
        /\ pc'["R"] = pc["R"] /\ held'["R"] = held["R"]
        /\ stopping'["R"] = stopping["R"]
    BY <1>u
  <2> QED
    BY <1>d, <2>1, <2>2, ThreadFrame
<1>9. TeardownInv'
  BY <1>u DEF BridgeInv, TeardownInv
<1>10. HistoryInv'
  <2>1. NoFault'
    BY <1>u DEF BridgeInv, HistoryInv, NoFault
  <2> QED
    BY <1>u, <1>c, <2>1, HistoryFrame
<1> QED
  BY <1>1, <1>2, <1>3, <1>4, <1>5, <1>6, <1>7, <1>8, <1>9, <1>10 DEF BridgeInv

\* The PBX answers a dialled leg.
LEMMA PbxAnswersInv ==
    ASSUME BridgeInv, NEW l \in Legs, PbxAnswers(l)
    PROVE  BridgeInv'
<1>1. OnlyLeg(l) /\ leg'[l].kind = leg[l].kind /\ leg'[l].alive = leg[l].alive
      /\ leg'[l].bridgeLive = leg[l].bridgeLive /\ leg'[l].call = leg[l].call
      /\ leg'[l].disconnected = leg[l].disconnected
      /\ leg'[l].dialog = (IF leg[l].dialog = "inviting" THEN "confirmed"
                           ELSE leg[l].dialog)
      /\ leg'[l].cb = leg[l].cb \cup {"confirmed", "media"}
  BY Domains, AnswerEffect DEF PbxAnswers
<1> QED
  BY <1>1, PbxStepInv DEF PbxAnswers, acctVars, rtcVars, threadVars, histVars

\* The PBX ends a dialog, or confirms that we ended it.
LEMMA PbxEndsInv ==
    ASSUME BridgeInv, NEW l \in Legs, PbxHangsUp(l) \/ PbxConfirmsHangup(l)
    PROVE  BridgeInv'
<1>1. OnlyLeg(l) /\ leg'[l].kind = leg[l].kind /\ leg'[l].alive = leg[l].alive
      /\ leg'[l].bridgeLive = leg[l].bridgeLive /\ leg'[l].call = leg[l].call
      /\ leg'[l].disconnected = leg[l].disconnected
      /\ leg'[l].dialog = "over" /\ leg'[l].cb = leg[l].cb \cup {"disconnected"}
  BY Domains, OverEffect DEF PbxHangsUp, PbxConfirmsHangup
<1> QED
  BY <1>1, PbxStepInv DEF PbxHangsUp, PbxConfirmsHangup, acctVars, rtcVars,
      threadVars, histVars

-----------------------------------------------------------------------------
(* R: onCallState()                                                        *)

\* R handles an event that is not the end of a call, and touches no leg.
LEMMA TakeStepInv ==
    ASSUME BridgeInv, NEW ev, Deliver(ev), ev /= "ENDED",
           \/ ev /= "RINGING" /\ Proceed(Head(events).call)
           \/ events' = Tail(events) /\ rtc' = rtc,
           isCallee' \in BOOLEAN, isCallee' = isCallee \/ ev = "INCOMING_AUDIO",
           UNCHANGED <<sipCall, incomingSipCall, bridge, leg, nLegs, nCalls, pc, held,
                       stopping, callback, nInvites, ended, bridged, dtmf, faults>>
    PROVE  BridgeInv'
<1> DEFINE n == Head(events).call
<1>u. /\ isCallee' \in BOOLEAN /\ (isCallee' = isCallee \/ ev = "INCOMING_AUDIO")
      /\ ev /= "ENDED" /\ UNCHANGED <<sipCall, incomingSipCall, bridge, leg, nLegs, nCalls, pc, held,
                 stopping, callback, nInvites, ended, bridged, dtmf, faults>>
  OBVIOUS
<1>d. /\ pc["R"] = "idle" /\ activeCallId' = n /\ Head(events).ev = ev
      /\ n \in Calls /\ n <= nCalls /\ activeCallId <= n
      /\ sipCall /= None => n = activeCallId
      /\ ~Inviting /\ pc["M"] = "idle"
      /\ incomingSipCall /= None => n = nCalls /\ ~isCallee /\ ev /= "INCOMING_AUDIO"
  BY DeliverEffect
<1>t. /\ rtc' \in [call : Calls \cup {None}, dir : {"none", "in", "out"},
                  st : {"none", "offered", "ringing", "connected"}]
      /\ rtc'.call = rtc.call
      /\ rtc.call = None => rtc' = NoCall
      /\ rtc'.st = "offered" =>
           rtc' = rtc /\ Elements(events') \subseteq Elements(events)
      /\ events' \in Seq(EventType)
      /\ Ordered(events') /\ RingsOnce(events') /\ EndComes(events', rtc'.call)
      /\ \A e \in Elements(events) : e = Head(events) \/ e \in Elements(events')
      /\ \A e \in Elements(events') :
           /\ n <= e.call /\ e.call <= nCalls
           /\ e \in Elements(events) \/ (e.ev = "RINGING" /\ e.call = nCalls)
           /\ e.ev = "RINGING" =>
                \A j \in Legs : leg[j].kind = "dialled" => leg[j].call /= e.call
  BY TakeEffect
<1>1. StateType'
  <2>1. AcctType'
    BY <1>u, <1>d, TypeFrame DEF AcctType
  <2>2. RtcType'
    BY <1>t, <1>u, TypeFrame DEF RtcType, EventType
  <2> QED
    BY <1>u, <2>1, <2>2, TypeFrame, TypeParts DEF heapVars, threadVars, histVars
<1>2. QueueInv'
  BY <1>u, <1>d, <1>t DEF QueueInv
<1>3. RtcInv'
  BY <1>u, <1>d, <1>t DEF BridgeInv, RtcInv
<1>4. ASSUME NEW k \in Legs PROVE LegInv(k)'
  <2>1. LegInv(k)
    BY DEF BridgeInv
  <2> QED
    BY <1>u, <2>1 DEF LegInv, InCallbackOf
<1>5. SipInv'
  <2>1. \A e \in Elements(events) : e.ev = "ENDED" => e \in Elements(events')
    BY <1>u, <1>d, <1>t
  <2>2. Event(activeCallId, "ENDED").ev = "ENDED"
    BY DEF Event
  <2> QED
    BY <1>u, <1>d, <1>t, <2>1, <2>2 DEF BridgeInv, SipInv, StopsSip, Inviting
<1>6. IncomingInv'
  BY <1>u, <1>d, <1>t DEF BridgeInv, IncomingInv, Inviting
<1>7. InviteInv'
  BY <1>u, <1>d DEF Inviting, InviteInv
<1>8. ThreadInv'
  BY <1>u DEF BridgeInv, ThreadInv, Inviting, Pointer
<1>9. TeardownInv'
  BY <1>u, <1>d DEF BridgeInv, TeardownInv
<1>10. HistoryInv'
  <2>1. NoFault'
    BY <1>u DEF BridgeInv, HistoryInv, NoFault
  <2> QED
    BY <1>u, <2>1, HistoryFrame
<1> QED
  BY <1>1, <1>2, <1>3, <1>4, <1>5, <1>6, <1>7, <1>8, <1>9, <1>10 DEF BridgeInv

\* The events that only record the active call.
LEMMA OnEventInv ==
    ASSUME BridgeInv, OnOutgoingAudio \/ OnIncomingAudio \/ OnRingingIgnore
    PROVE  BridgeInv'
<1>1. isCallee \in BOOLEAN
  BY DEF BridgeInv, StateType, AcctType, HeapType, RtcType,
      ThreadType, HistType
<1>2. CASE OnOutgoingAudio
  BY <1>1, <1>2, TakeStepInv DEF OnOutgoingAudio, heapVars, threadVars, histVars
<1>3. CASE OnIncomingAudio
  BY <1>1, <1>3, TakeStepInv DEF OnIncomingAudio, heapVars, threadVars, histVars
<1>4. CASE OnRingingIgnore
  BY <1>1, <1>4, TakeStepInv DEF OnRingingIgnore, heapVars, threadVars, histVars
<1> QED
  BY <1>2, <1>3, <1>4

\* RINGING comes once per call, so the call has no leg yet: no leg is alive.
LEMMA OnRingingDialInv ==
    ASSUME BridgeInv, OnRingingDial
    PROVE  BridgeInv'
<1> DEFINE n == Head(events).call
           l == nLegs + 1
<1>u. /\ leg' = WithNewLeg(l, "dialled", n, "none") /\ nLegs' = l /\ bridge' = l
      /\ sipCall' = l /\ held' = [held EXCEPT !["R"] = l] /\ activeCallId' = n
      /\ pc' = [pc EXCEPT !["R"] = "makeCall"] /\ isCallee /\ nLegs < MaxLegs
      /\ events' = Tail(events) /\ rtc' = rtc /\ Deliver("RINGING")
      /\ UNCHANGED <<incomingSipCall, isCallee, nCalls, stopping, callback, nInvites,
                    ended, bridged, dtmf, faults>>
  BY DEF OnRingingDial, Deliver, histVars
<1>d. /\ pc["R"] = "idle" /\ activeCallId' = n /\ Head(events).ev = "RINGING"
      /\ n \in Calls /\ n <= nCalls /\ activeCallId <= n
      /\ sipCall /= None => n = activeCallId
      /\ ~Inviting /\ pc["M"] = "idle"
      /\ incomingSipCall /= None => n = nCalls /\ ~isCallee
      /\ Head(events) \in Elements(events)
      /\ \A e \in Elements(events') : ~(e.ev = "RINGING" /\ e.call = n)
      /\ rtc.call = n \/ Event(n, "ENDED") \in Elements(events')
  BY <1>u, DeliverEffect
<1>t. /\ rtc' \in [call : Calls \cup {None}, dir : {"none", "in", "out"},
                  st : {"none", "offered", "ringing", "connected"}]
      /\ rtc'.call = rtc.call
      /\ rtc.call = None => rtc' = NoCall
      /\ rtc'.st = "offered" =>
           rtc' = rtc /\ Elements(events') \subseteq Elements(events)
      /\ events' \in Seq(EventType)
      /\ Ordered(events') /\ RingsOnce(events') /\ EndComes(events', rtc'.call)
      /\ \A e \in Elements(events) : e = Head(events) \/ e \in Elements(events')
      /\ \A e \in Elements(events') :
           /\ n <= e.call /\ e.call <= nCalls
           /\ e \in Elements(events) \/ (e.ev = "RINGING" /\ e.call = nCalls)
           /\ e.ev = "RINGING" =>
                \A j \in Legs : leg[j].kind = "dialled" => leg[j].call /= e.call
  BY <1>u, TakeEffect
<1>a. /\ l \in Legs /\ l \in Nat /\ leg[l].kind = "none" /\ leg[l].call = None
      /\ sipCall = None /\ incomingSipCall = None
      /\ \A j \in Legs : ~leg[j].alive /\ ~InCallbackOf(j)
  <2>1. l \in Legs /\ l \in Nat /\ l > nLegs
    BY <1>u, Domains DEF Legs
  <2>2. leg[l].kind = "none" /\ leg[l].call = None
    BY <2>1 DEF BridgeInv, LegInv
  <2>3. incomingSipCall = None
    BY <1>u, <1>d
  <2>4. sipCall = None
    <3>1. sipCall /= None => sipCall \in Legs /\ leg[sipCall].kind = "dialled"
                             /\ leg[sipCall].call = n
      BY <1>d, Domains DEF BridgeInv, SipInv
    <3> QED
      BY <1>d, <3>1 DEF BridgeInv, QueueInv
  <2> QED
    BY <2>1, <2>2, <2>3, <2>4, QuietLegs
<1>b. /\ leg' \in [Legs -> LegType]
      /\ leg'[l].kind = "dialled" /\ leg'[l].alive = TRUE
      /\ leg'[l].bridgeLive = TRUE /\ leg'[l].dialog = "none" /\ leg'[l].cb = {}
      /\ leg'[l].call = n /\ leg'[l].disconnected = FALSE
      /\ \A j \in Legs : j /= l =>
           /\ leg'[j].kind = leg[j].kind /\ leg'[j].alive = leg[j].alive
           /\ leg'[j].dialog = leg[j].dialog /\ leg'[j].cb = leg[j].cb
           /\ leg'[j].call = leg[j].call
           /\ leg'[j].disconnected = leg[j].disconnected
  <2>1. /\ leg \in [Legs -> LegType] /\ bridge \in Legs \cup {None}
        /\ n \in Calls \cup {None} /\ l \in Legs /\ leg' = WithNewLeg(l, "dialled", n, "none")
    BY <1>u, <1>a, <1>d, Domains, TypeFrame DEF AcctType
  <2> HIDE DEF n, l
  <2> QED
    BY <2>1, NewLegEffect
<1>c. /\ pc'["R"] = "makeCall" /\ pc'["P"] = pc["P"] /\ pc'["M"] = "idle"
      /\ held'["R"] = l /\ held'["P"] = held["P"]
  BY <1>u, <1>d, TypeFrame DEF ThreadType, Threads
<1>1. StateType'
  <2>1. AcctType'
    BY <1>u, <1>a, <1>d, TypeFrame DEF AcctType
  <2>2. HeapType'
    BY <1>u, <1>a, <1>b DEF HeapType
  <2>3. RtcType'
    BY <1>t, <1>u, TypeFrame DEF RtcType, EventType
  <2>4. ThreadType'
    BY <1>u, <1>a, TypeFrame DEF ThreadType, Threads
  <2> QED
    BY <1>u, <2>1, <2>2, <2>3, <2>4, TypeFrame, TypeParts DEF histVars
<1>2. QueueInv'
  BY <1>u, <1>a, <1>b, <1>d, <1>t DEF QueueInv
<1>3. RtcInv'
  <2>1. Head(events) = Event(n, "RINGING")
    BY <1>d, Domains DEF EventType, Event
  <2>2. rtc.st = "offered" => rtc.call /= n
    BY <1>d, <2>1 DEF BridgeInv, RtcInv
  <2>3. rtc.st = "offered" => \A j \in Legs : leg'[j].kind = "dialled" => leg'[j].call /= rtc.call
    BY <1>a, <1>b, <2>2 DEF BridgeInv, RtcInv
  <2> QED
    BY <1>u, <1>d, <1>t, <2>3 DEF BridgeInv, RtcInv
<1>4. ASSUME NEW k \in Legs PROVE LegInv(k)'
  <2>1. LegInv(k)
    BY DEF BridgeInv
  <2>2. ~InCallbackOf(k)'
    BY <1>a, <1>c DEF InCallbackOf
  <2>3. nLegs \in Nat /\ nCalls \in Nat /\ k \in Nat /\ None \notin Calls
    BY Domains
  <2>4. CASE k = l
    BY <1>u, <1>a, <1>b, <1>d, <2>2, <2>3, <2>4 DEF LegInv
  <2>5. CASE k /= l
    <3>1. k > nLegs' => leg'[k].kind = "none"
      BY <1>u, <1>b, <2>1, <2>3, <2>5 DEF LegInv
    <3>2. ~leg'[k].alive /\ k \notin {sipCall, incomingSipCall}'
      BY <1>u, <1>a, <1>b, <2>5, Domains
    <3> QED
      BY <1>u, <1>b, <2>1, <2>2, <2>5, <3>1, <3>2 DEF LegInv
  <2> QED
    BY <2>4, <2>5
<1>5. SipInv'
  BY <1>u, <1>a, <1>b, <1>c, <1>d DEF SipInv, Inviting
<1>6. IncomingInv'
  BY <1>u, <1>a DEF IncomingInv
<1>7. InviteInv'
  BY <1>c, <1>d DEF Inviting, InviteInv
<1>8. ThreadInv'
  BY <1>u, <1>a, <1>b, <1>c, Domains DEF BridgeInv, ThreadInv, Inviting
<1>9. TeardownInv'
  BY <1>c DEF TeardownInv
<1>10. HistoryInv'
  <2>1. NoFault'
    BY <1>u DEF BridgeInv, HistoryInv, NoFault
  <2>2. \A j \in Legs : leg[j].call /= None => leg'[j].call = leg[j].call
    BY <1>a, <1>b
  <2> QED
    BY <1>u, <2>1, <2>2, HistoryFrame
<1> QED
  BY <1>1, <1>2, <1>3, <1>4, <1>5, <1>6, <1>7, <1>8, <1>9, <1>10 DEF BridgeInv

\* makeCall() on the leg just created.
LEMMA MakeCallInv ==
    ASSUME BridgeInv, MakeCall
    PROVE  BridgeInv'
<1> DEFINE l == sipCall
<1>u. /\ pc["R"] = "makeCall" /\ pc' = [pc EXCEPT !["R"] = "idle"]
      /\ UNCHANGED <<sipCall, incomingSipCall, bridge, isCallee, activeCallId, nLegs,
                    rtc, events, nCalls, held, stopping, callback, nInvites, ended,
                    bridged, dtmf>>
  BY DEF MakeCall, acctVars, rtcVars
<1>a. /\ held["R"] = l /\ l \in Legs /\ leg[l].alive /\ leg[l].dialog = "none"
      /\ incomingSipCall = None /\ ~Inviting /\ leg[l].cb = {} /\ ~InCallbackOf(l)
      /\ ~leg[l].disconnected /\ pc["M"] = "idle"
  <2>1. held["R"] = l /\ l /= None /\ leg[l].dialog = "none"
    BY <1>u DEF BridgeInv, ThreadInv
  <2>2. l \in Legs /\ incomingSipCall = None /\ ~Inviting
    BY <2>1, Domains DEF BridgeInv, SipInv
  <2> QED
    BY <1>u, <2>1, <2>2 DEF BridgeInv, LegInv, TeardownInv
<1>b. /\ leg' \in [Legs -> LegType] /\ \A k \in Legs : k /= l => leg'[k] = leg[k]
      /\ leg'[l].kind = leg[l].kind /\ leg'[l].alive = leg[l].alive
      /\ leg'[l].bridgeLive = leg[l].bridgeLive /\ leg'[l].call = leg[l].call
      /\ leg'[l].disconnected = leg[l].disconnected
      /\ leg'[l].dialog \in {"inviting", "none"} /\ leg'[l].cb = leg[l].cb
  <2>1. PICK d \in {"inviting", "none"} : leg' = [leg EXCEPT ![l].dialog = d]
    BY <1>a DEF MakeCall
  <2> HIDE DEF l
  <2> QED
    BY ZenonT(40), <1>a, <2>1, Domains, DialogEffect DEF OnlyLeg
<1>c. /\ faults' = faults
      /\ \A k \in Legs : leg'[k].kind = leg[k].kind /\ leg'[k].call = leg[k].call
  BY <1>a, <1>b DEF MakeCall, UseLeg
<1>e. pc'["R"] = "idle" /\ pc'["P"] = pc["P"] /\ pc'["M"] = "idle"
  BY <1>a, <1>u, TypeFrame DEF ThreadType, Threads
<1>1. StateType'
  <2>1. HeapType'
    BY <1>u, <1>b, TypeFrame DEF HeapType
  <2>2. ThreadType'
    BY <1>u, TypeFrame DEF ThreadType, Threads
  <2>3. HistType'
    BY <1>c, <1>u, TypeFrame DEF HistType
  <2> QED
    BY <1>u, <2>1, <2>2, <2>3, TypeFrame, TypeParts DEF acctVars, rtcVars
<1>2. QueueInv'
  BY <1>u, <1>c DEF BridgeInv, QueueInv
<1>3. RtcInv'
  BY <1>u, <1>c DEF BridgeInv, RtcInv
<1>4. ASSUME NEW k \in Legs PROVE LegInv(k)'
  <2>1. LegInv(k)
    BY DEF BridgeInv
  <2>2. InCallbackOf(k)' <=> InCallbackOf(k)
    BY <1>e, <1>u DEF InCallbackOf
  <2>3. CASE k = l
    BY <1>u, <1>a, <1>b, <2>1, <2>2, <2>3 DEF LegInv
  <2>4. CASE k /= l
    <3>1. leg'[k] = leg[k]
      BY <1>b, <2>4
    <3> QED
      BY <1>u, <2>1, <2>2, <3>1 DEF LegInv
  <2> QED
    BY <2>3, <2>4
<1>5. SipInv'
  BY <1>u, <1>a, <1>c, <1>e DEF BridgeInv, SipInv, StopsSip, Inviting
<1>6. IncomingInv'
  BY <1>u, <1>a DEF IncomingInv
<1>7. InviteInv'
  BY <1>a, <1>e DEF Inviting, InviteInv
<1>8. ThreadInv'
  BY <1>e, <1>u DEF BridgeInv, ThreadInv, Inviting
<1>9. TeardownInv'
  BY <1>e DEF TeardownInv
<1>10. HistoryInv'
  <2>1. NoFault'
    BY <1>u, <1>c DEF BridgeInv, HistoryInv, NoFault
  <2> QED
    BY <1>u, <1>c, <2>1, HistoryFrame
<1> QED
  BY <1>1, <1>2, <1>3, <1>4, <1>5, <1>6, <1>7, <1>8, <1>9, <1>10 DEF BridgeInv

\* The INVITE leg that CONNECTED finds was made for the call.
LEMMA OnConnectedInv ==
    ASSUME BridgeInv, OnConnected
    PROVE  BridgeInv'
<1> DEFINE n == Head(events).call
           l == incomingSipCall
<1>u. /\ Deliver("CONNECTED") /\ events' = Tail(events) /\ rtc' = rtc
      /\ UNCHANGED <<sipCall, incomingSipCall, bridge, isCallee, nLegs, nCalls, pc,
                    held, stopping, callback, nInvites, ended, dtmf>>
  BY DEF OnConnected, threadVars
<1>0. isCallee \in BOOLEAN
  BY DEF BridgeInv, StateType, AcctType, HeapType, RtcType,
      ThreadType, HistType
<1>d. /\ pc["R"] = "idle" /\ activeCallId' = n /\ Head(events).ev = "CONNECTED"
      /\ n \in Calls /\ n <= nCalls /\ activeCallId <= n
      /\ sipCall /= None => n = activeCallId
      /\ ~Inviting /\ pc["M"] = "idle"
      /\ incomingSipCall /= None => n = nCalls /\ ~isCallee
  BY <1>u, DeliverEffect
<1>t. /\ rtc' \in [call : Calls \cup {None}, dir : {"none", "in", "out"},
                  st : {"none", "offered", "ringing", "connected"}]
      /\ rtc'.call = rtc.call
      /\ rtc.call = None => rtc' = NoCall
      /\ rtc'.st = "offered" =>
           rtc' = rtc /\ Elements(events') \subseteq Elements(events)
      /\ events' \in Seq(EventType)
      /\ Ordered(events') /\ RingsOnce(events') /\ EndComes(events', rtc'.call)
      /\ \A e \in Elements(events) : e = Head(events) \/ e \in Elements(events')
      /\ \A e \in Elements(events') :
           /\ n <= e.call /\ e.call <= nCalls
           /\ e \in Elements(events) \/ (e.ev = "RINGING" /\ e.call = nCalls)
           /\ e.ev = "RINGING" =>
                \A j \in Legs : leg[j].kind = "dialled" => leg[j].call /= e.call
  BY <1>u, TakeEffect
<1>x. l /= None => l \in Legs /\ leg[l].alive
  BY Domains DEF BridgeInv, LegInv
<1>y. faults' = faults
  BY <1>x DEF OnConnected, UseLeg
<1>A. CASE leg' = leg /\ bridged' = bridged
  BY <1>A, <1>u, <1>y, <1>0, TakeStepInv
<1>B. CASE /\ l /= None /\ leg[l].dialog = "ringing"
           /\ leg' = [leg EXCEPT ![l].dialog = "confirmed", ![l].cb = @ \cup {"media"}]
           /\ bridged' = bridged \cup {<<n, l>>}
  <2>a. /\ l \in Legs /\ sipCall = None /\ leg[l].call = n /\ n = nCalls /\ n /= None
        /\ leg[l].cb = {} /\ ~InCallbackOf(l) /\ ~leg[l].disconnected
        /\ leg[l].dialog = "ringing"
    <3>1. l \in Legs /\ sipCall = None /\ n /= None
      BY <1>B, <1>d, <1>x, Domains DEF BridgeInv, SipInv
    <3> QED
      BY <1>B, <1>d, <3>1 DEF BridgeInv, IncomingInv, LegInv
  <2>b. /\ leg' \in [Legs -> LegType] /\ \A k \in Legs : k /= l => leg'[k] = leg[k]
        /\ leg'[l].kind = leg[l].kind /\ leg'[l].alive = leg[l].alive
        /\ leg'[l].bridgeLive = leg[l].bridgeLive /\ leg'[l].call = leg[l].call
        /\ leg'[l].disconnected = leg[l].disconnected
        /\ leg'[l].dialog = "confirmed" /\ leg'[l].cb = leg[l].cb \cup {"media"}
    <3> HIDE DEF l
    <3> QED
      BY <1>B, <2>a, Domains, ConfirmEffect DEF OnlyLeg
  <2>c. \A k \in Legs : leg'[k].kind = leg[k].kind /\ leg'[k].call = leg[k].call
    BY <2>b
  <2>e. \A k \in Legs : /\ leg[k].dialog = "none" => leg'[k].dialog = "none"
                        /\ leg[k].disconnected => leg'[k].disconnected
    BY <2>a, <2>b
  <2>1. StateType'
    <3>1. AcctType'
      BY <1>u, <1>d, TypeFrame DEF AcctType
    <3>2. HeapType'
      BY <1>u, <2>b, TypeFrame DEF HeapType
    <3>3. RtcType'
      BY <1>t, <1>u, TypeFrame DEF RtcType, EventType
    <3>4. HistType'
      <4>1. <<n, l>> \in Calls \X Legs
        BY <2>a, <1>d
      <4> QED
        BY <1>B, <1>u, <1>y, <4>1, TypeFrame DEF HistType
    <3> QED
      BY <1>u, <3>1, <3>2, <3>3, <3>4, TypeFrame, TypeParts DEF threadVars
  <2>2. QueueInv'
    BY <1>u, <2>c, <1>d, <1>t DEF QueueInv
  <2>3. RtcInv'
    BY <1>u, <2>c, <1>d, <1>t DEF BridgeInv, RtcInv
  <2>4. ASSUME NEW k \in Legs PROVE LegInv(k)'
    <3>1. LegInv(k)
      BY DEF BridgeInv
    <3>2. InCallbackOf(k)' <=> InCallbackOf(k)
      BY <1>u DEF InCallbackOf
    <3>3. CASE k = l
      BY <1>u, <2>a, <2>b, <3>1, <3>2, <3>3 DEF LegInv
    <3>4. CASE k /= l
      <4>1. leg'[k] = leg[k]
        BY <2>b, <3>4
      <4> QED
        BY <1>u, <3>1, <3>2, <4>1 DEF LegInv
    <3> QED
      BY <3>3, <3>4
  <2>5. SipInv'
    BY <1>u, <2>a DEF SipInv
  <2>6. IncomingInv'
    BY <1>u, <2>a, <2>c, <1>d, <1>t DEF BridgeInv, IncomingInv, Inviting
  <2>7. InviteInv'
    BY <1>u, <1>d DEF Inviting, InviteInv
  <2>8. ThreadInv'
    <3>1. /\ pc'["P"] \in {"idle", "callback", "flag", "create", "ring", "resolve",
                          "startCall", "stop", "poll", "delete", "reset"}
          /\ pc'["P"] \in {"callback", "flag"} => held'["P"] /= None
      BY <1>u DEF BridgeInv, ThreadInv, Inviting
    <3>2. /\ sipCall' = sipCall /\ incomingSipCall' = incomingSipCall
          /\ pc'["R"] = pc["R"] /\ held'["R"] = held["R"]
          /\ stopping'["R"] = stopping["R"]
      BY <1>u
    <3> QED
      BY <2>e, <3>1, <3>2, ThreadFrame
  <2>9. TeardownInv'
    BY <1>u, <1>d DEF BridgeInv, TeardownInv
  <2>10. HistoryInv'
    <3>1. NoFault'
      BY <1>u, <1>y DEF BridgeInv, HistoryInv, NoFault
    <3>2. ASSUME NEW p \in bridged' PROVE p[1] /= None /\ leg'[p[2]].call = p[1]
      <4>1. CASE p = <<n, l>>
        BY <2>a, <2>c, <4>1
      <4>2. CASE p \in bridged
        <5>1. p[2] \in Legs
          BY <4>2, TypeFrame DEF HistType
        <5> QED
          BY <2>c, <4>2, <5>1 DEF BridgeInv, HistoryInv
      <4> QED
        BY <1>B, <4>1, <4>2
    <3>3. dtmf'.leg /= None => dtmf'.from /= None /\ leg'[dtmf'.leg].call = dtmf'.from
      <4>1. dtmf.leg /= None => dtmf.leg \in Legs
        BY TypeFrame DEF HistType
      <4> QED
        BY <1>u, <2>c, <4>1 DEF BridgeInv, HistoryInv
    <3> QED
      BY <3>1, <3>2, <3>3 DEF HistoryInv
  <2> QED
    BY <2>1, <2>2, <2>3, <2>4, <2>5, <2>6, <2>7, <2>8, <2>9, <2>10 DEF BridgeInv
<1> QED
  BY <1>A, <1>B DEF OnConnected

\* ENDED starts the two stop functions.
LEMMA OnEndedInv ==
    ASSUME BridgeInv, OnEnded
    PROVE  BridgeInv'
<1> DEFINE n == Head(events).call
<1>u. /\ Deliver("ENDED") /\ events' = Tail(events) /\ rtc' = rtc
      /\ pc' = [pc EXCEPT !["R"] = "stop"] /\ stopping' = [stopping EXCEPT !["R"] = "sip"]
      /\ UNCHANGED <<sipCall, incomingSipCall, bridge, isCallee, leg, nLegs, nCalls,
                    held, callback, nInvites, ended, bridged, dtmf, faults>>
  BY DEF OnEnded, heapVars, histVars
<1>d. /\ pc["R"] = "idle" /\ activeCallId' = n /\ Head(events).ev = "ENDED"
      /\ n \in Calls /\ n <= nCalls /\ activeCallId <= n
      /\ sipCall /= None => n = activeCallId
      /\ ~Inviting /\ pc["M"] = "idle"
      /\ incomingSipCall /= None => n = nCalls /\ ~isCallee
  BY <1>u, DeliverEffect
<1>t. /\ rtc' \in [call : Calls \cup {None}, dir : {"none", "in", "out"},
                  st : {"none", "offered", "ringing", "connected"}]
      /\ rtc'.call = rtc.call
      /\ rtc.call = None => rtc' = NoCall
      /\ rtc'.st = "offered" =>
           rtc' = rtc /\ Elements(events') \subseteq Elements(events)
      /\ events' \in Seq(EventType)
      /\ Ordered(events') /\ RingsOnce(events') /\ EndComes(events', rtc'.call)
      /\ \A e \in Elements(events) : e = Head(events) \/ e \in Elements(events')
      /\ \A e \in Elements(events') :
           /\ n <= e.call /\ e.call <= nCalls
           /\ e \in Elements(events) \/ (e.ev = "RINGING" /\ e.call = nCalls)
           /\ e.ev = "RINGING" =>
                \A j \in Legs : leg[j].kind = "dialled" => leg[j].call /= e.call
  BY <1>u, TakeEffect
<1>e. /\ pc'["R"] = "stop" /\ pc'["P"] = pc["P"] /\ pc'["M"] = "idle"
      /\ stopping'["R"] = "sip"
  BY <1>d, <1>u, TypeFrame DEF ThreadType, Threads
<1>1. StateType'
  <2>1. AcctType'
    BY <1>u, <1>d, TypeFrame DEF AcctType
  <2>2. RtcType'
    BY <1>t, <1>u, TypeFrame DEF RtcType, EventType
  <2>3. ThreadType'
    BY <1>u, TypeFrame DEF ThreadType, Threads
  <2> QED
    BY <1>u, <2>1, <2>2, <2>3, TypeFrame, TypeParts DEF heapVars, histVars
<1>2. QueueInv'
  BY <1>u, <1>d, <1>t DEF QueueInv
<1>3. RtcInv'
  BY <1>u, <1>d, <1>t DEF BridgeInv, RtcInv
<1>4. ASSUME NEW k \in Legs PROVE LegInv(k)'
  <2>1. LegInv(k)
    BY DEF BridgeInv
  <2> QED
    BY <1>e, <1>u, <2>1 DEF LegInv, InCallbackOf
<1>5. SipInv'
  BY <1>u, <1>d, <1>e DEF BridgeInv, SipInv, StopsSip, Inviting
<1>6. IncomingInv'
  BY <1>u, <1>d, <1>e, <1>t DEF BridgeInv, IncomingInv, Inviting
<1>7. InviteInv'
  BY <1>d, <1>e DEF Inviting, InviteInv
<1>8. ThreadInv'
  BY <1>e, <1>u DEF BridgeInv, ThreadInv, Inviting
<1>9. TeardownInv'
  BY <1>e DEF TeardownInv
<1>10. HistoryInv'
  <2>1. NoFault'
    BY <1>u DEF BridgeInv, HistoryInv, NoFault
  <2> QED
    BY <1>u, <2>1, HistoryFrame
<1> QED
  BY <1>1, <1>2, <1>3, <1>4, <1>5, <1>6, <1>7, <1>8, <1>9, <1>10 DEF BridgeInv

-----------------------------------------------------------------------------
(* stopSipBridge() and stopIncomingSipCall(), on R                         *)

\* hangup() on one leg at most.
HungLegs ==
    /\ leg' \in [Legs -> LegType]
    /\ \A k \in Legs :
         /\ leg'[k].kind = leg[k].kind /\ leg'[k].alive = leg[k].alive
         /\ leg'[k].bridgeLive = leg[k].bridgeLive
         /\ leg'[k].cb = leg[k].cb /\ leg'[k].call = leg[k].call
         /\ \/ leg'[k].dialog = leg[k].dialog
            \/ leg[k].dialog = "ringing" /\ leg'[k].dialog = "over"
            \/ leg[k].dialog \in {"inviting", "confirmed"} /\ leg'[k].dialog = "closing"
         /\ leg[k].disconnected => leg'[k].disconnected
         /\ leg'[k].disconnected =>
              \/ leg[k].disconnected
              \/ leg[k].dialog = "ringing" /\ leg'[k].dialog = "over"

\* What hangup() on one leg leaves alone.
LEMMA HangupLegs ==
    ASSUME leg \in [Legs -> LegType],
           \/ leg' = leg
           \/ \E l \in Legs : leg' = [leg EXCEPT ![l] = HungUp(@)]
    PROVE  HungLegs
<1>1. CASE leg' = leg
  BY <1>1 DEF HungLegs
<1>2. ASSUME NEW l \in Legs, leg' = [leg EXCEPT ![l] = HungUp(@)]
      PROVE  HungLegs
  <2>1. /\ OnlyLeg(l)
        /\ leg'[l].kind = leg[l].kind /\ leg'[l].alive = leg[l].alive
        /\ leg'[l].bridgeLive = leg[l].bridgeLive
        /\ leg'[l].dialog = HungDialog(leg[l].dialog)
        /\ leg'[l].cb = leg[l].cb /\ leg'[l].call = leg[l].call
        /\ leg'[l].disconnected <=> leg[l].disconnected \/ leg[l].dialog = "ringing"
    BY <1>2, HangupEffect
  <2> QED
    BY <2>1 DEF OnlyLeg, HungLegs, HungDialog
<1> QED
  BY <1>1, <1>2

\* acct.bridge.reset().
FreedLegs ==
    /\ leg' \in [Legs -> LegType]
    /\ \A k \in Legs :
         /\ leg'[k].kind = leg[k].kind /\ leg'[k].alive = leg[k].alive
         /\ leg'[k].dialog = leg[k].dialog /\ leg'[k].cb = leg[k].cb
         /\ leg'[k].call = leg[k].call
         /\ leg'[k].disconnected = leg[k].disconnected

\* What freeing a bridge leaves alone.
LEMMA FreeLegs ==
    ASSUME leg \in [Legs -> LegType], bridge \in Legs \cup {None},
           leg' = IF bridge = None THEN leg
                  ELSE [leg EXCEPT ![bridge].bridgeLive = FALSE]
    PROVE  FreedLegs
<1>1. CASE bridge = None
  BY <1>1 DEF FreedLegs
<1>2. CASE bridge /= None
  <2>1. bridge \in Legs /\ leg' = [leg EXCEPT ![bridge].bridgeLive = FALSE]
    BY <1>2
  <2> QED
    BY <2>1, FreeEffect DEF OnlyLeg, FreedLegs
<1> QED
  BY <1>1, <1>2

\* What R knows in stopSipBridge() and stopIncomingSipCall().
LEMMA StopFacts ==
    ASSUME BridgeInv, pc["R"] \in {"stop", "poll", "delete", "reset"}
    PROVE  LET l == Pointer(stopping["R"]) IN
           /\ ~Inviting /\ pc["M"] = "idle" /\ stopping["R"] \in {"sip", "inc"}
           /\ l /= None => l \in Legs /\ leg[l].alive
           /\ pc["R"] \in {"poll", "delete"} => held["R"] = l /\ l /= None
           /\ stopping["R"] = "inc" => sipCall = None
           /\ stopping["R"] = "sip" /\ l /= None => incomingSipCall = None
<1>1. ~Inviting /\ pc["M"] = "idle"
  BY DEF BridgeInv, InviteInv, TeardownInv
<1>2. stopping["R"] \in {"sip", "inc"}
  BY TypeFrame DEF ThreadType, Threads
<1>3. Pointer(stopping["R"]) /= None =>
        Pointer(stopping["R"]) \in Legs /\ leg[Pointer(stopping["R"])].alive
  BY Domains DEF Pointer, BridgeInv, LegInv
<1> QED
  BY <1>1, <1>2, <1>3 DEF BridgeInv, ThreadInv, SipInv, Pointer

\* R reads the pointer and hangs the leg up.
LEMMA StopHangupRInv ==
    ASSUME BridgeInv, StopHangup("R")
    PROVE  BridgeInv'
<1> DEFINE l == Pointer(stopping["R"])
<1>u. /\ pc["R"] = "stop"
      /\ UNCHANGED <<sipCall, incomingSipCall, bridge, isCallee, activeCallId, nLegs,
                    rtc, events, nCalls, stopping, callback, nInvites, ended,
                    bridged, dtmf>>
  BY DEF StopHangup, acctVars, rtcVars
<1>s. /\ ~Inviting /\ pc["M"] = "idle" /\ stopping["R"] \in {"sip", "inc"}
      /\ l /= None => l \in Legs /\ leg[l].alive
      /\ pc["R"] \in {"poll", "delete"} => held["R"] = l /\ l /= None
      /\ stopping["R"] = "inc" => sipCall = None
      /\ stopping["R"] = "sip" /\ l /= None => incomingSipCall = None
  BY <1>u, StopFacts
<1>a. \/ /\ l = None /\ pc' = [pc EXCEPT !["R"] = "reset"]
         /\ leg' = leg /\ held' = held /\ faults' = faults
      \/ /\ l /= None /\ pc' = [pc EXCEPT !["R"] = "poll"]
         /\ held' = [held EXCEPT !["R"] = l]
         /\ leg' = [leg EXCEPT ![l] = HungUp(@)] /\ faults' = faults
  BY <1>s DEF StopHangup, UseLeg
<1>b. HungLegs
  BY <1>a, <1>s, Domains, HangupLegs
<1>c. \A k \in Legs : leg'[k].kind = leg[k].kind /\ leg'[k].call = leg[k].call
  BY <1>b DEF HungLegs
<1>e. /\ pc'["P"] = pc["P"] /\ pc'["M"] = "idle" /\ held'["P"] = held["P"]
      /\ \/ l = None /\ pc'["R"] = "reset"
         \/ l /= None /\ pc'["R"] = "poll" /\ held'["R"] = l
  BY <1>a, <1>s, TypeFrame DEF ThreadType, Threads
<1>1. StateType'
  <2>1. HeapType'
    BY <1>b, <1>u, TypeFrame DEF HeapType, HungLegs
  <2>2. ThreadType'
    BY <1>a, <1>s, <1>u, TypeFrame DEF ThreadType, Threads
  <2>3. HistType'
    BY <1>a, <1>u, TypeFrame DEF HistType
  <2> QED
    BY <1>u, <2>1, <2>2, <2>3, TypeFrame, TypeParts DEF acctVars, rtcVars
<1>2. QueueInv'
  BY <1>u, <1>c DEF BridgeInv, QueueInv
<1>3. RtcInv'
  BY <1>u, <1>c DEF BridgeInv, RtcInv
<1>4. ASSUME NEW k \in Legs PROVE LegInv(k)'
  <2>1. LegInv(k)
    BY DEF BridgeInv
  <2>2. InCallbackOf(k)' <=> InCallbackOf(k)
    BY <1>e DEF InCallbackOf
  <2> QED
    BY <1>b, <1>e, <1>u, <2>1, <2>2 DEF HungLegs, LegInv
<1>5. SipInv'
  <2>1. sipCall /= None => StopsSip'
    BY <1>e, <1>s, <1>u DEF StopsSip, Pointer
  <2> QED
    BY <1>c, <1>e, <1>u, <2>1, Domains DEF BridgeInv, SipInv, Inviting
<1>6. IncomingInv'
  BY <1>b, <1>e, <1>s, <1>u, Domains DEF BridgeInv, IncomingInv, Inviting, HungLegs
<1>7. InviteInv'
  BY <1>e, <1>s DEF Inviting, InviteInv
<1>8. ThreadInv'
  BY <1>e, <1>s, <1>u DEF BridgeInv, ThreadInv, Inviting, Pointer
<1>9. TeardownInv'
  BY <1>e DEF TeardownInv
<1>10. HistoryInv'
  <2>1. NoFault'
    BY <1>a, <1>u DEF BridgeInv, HistoryInv, NoFault
  <2> QED
    BY <1>u, <1>c, <2>1, HistoryFrame
<1> QED
  BY <1>1, <1>2, <1>3, <1>4, <1>5, <1>6, <1>7, <1>8, <1>9, <1>10 DEF BridgeInv

\* R's poll ends: the leg's last callback is over, or it never had a dialog.
LEMMA StopPolledRInv ==
    ASSUME BridgeInv, races' = {}, StopDisconnected("R") \/ StopPollExpires("R")
    PROVE  BridgeInv'
<1> DEFINE l == Pointer(stopping["R"])
<1>u. /\ pc["R"] = "poll" /\ pc' = [pc EXCEPT !["R"] = "delete"]
      /\ UNCHANGED <<sipCall, incomingSipCall, bridge, isCallee, activeCallId, leg,
                    nLegs, rtc, events, nCalls, held, stopping, callback, nInvites,
                    ended, bridged, dtmf>>
  BY DEF StopDisconnected, StopPollExpires, acctVars, heapVars, rtcVars
<1>s. /\ ~Inviting /\ pc["M"] = "idle" /\ stopping["R"] \in {"sip", "inc"}
      /\ l /= None => l \in Legs /\ leg[l].alive
      /\ pc["R"] \in {"poll", "delete"} => held["R"] = l /\ l /= None
      /\ stopping["R"] = "inc" => sipCall = None
      /\ stopping["R"] = "sip" /\ l /= None => incomingSipCall = None
  BY <1>u, StopFacts
<1>a. /\ leg[l].disconnected \/ leg[l].dialog = "none"
      /\ faults' = faults
  BY <1>s, <1>u DEF StopDisconnected, StopPollExpires, UseLeg, RaceUnless, Race
<1>e. pc'["P"] = pc["P"] /\ pc'["M"] = "idle" /\ pc'["R"] = "delete"
  BY <1>u, <1>s, TypeFrame DEF ThreadType, Threads
<1>1. StateType'
  <2>1. ThreadType'
    BY <1>u, TypeFrame DEF ThreadType, Threads
  <2>2. HistType'
    BY <1>a, <1>u, TypeFrame DEF HistType
  <2> QED
    BY <1>u, <2>1, <2>2, TypeFrame, TypeParts DEF acctVars, heapVars, rtcVars
<1>2. QueueInv'
  BY <1>u DEF BridgeInv, QueueInv
<1>3. RtcInv'
  BY <1>u DEF BridgeInv, RtcInv
<1>4. ASSUME NEW k \in Legs PROVE LegInv(k)'
  <2>1. LegInv(k)
    BY DEF BridgeInv
  <2> QED
    BY <1>e, <1>u, <2>1 DEF LegInv, InCallbackOf
<1>5. SipInv'
  BY <1>e, <1>u DEF BridgeInv, SipInv, StopsSip, Inviting
<1>6. IncomingInv'
  BY <1>e, <1>u DEF BridgeInv, IncomingInv, Inviting
<1>7. InviteInv'
  BY <1>e, <1>s DEF Inviting, InviteInv
<1>8. ThreadInv'
  BY <1>a, <1>e, <1>s, <1>u DEF BridgeInv, ThreadInv, Inviting, Pointer
<1>9. TeardownInv'
  BY <1>e DEF TeardownInv
<1>10. HistoryInv'
  <2>1. NoFault'
    BY <1>a, <1>u DEF BridgeInv, HistoryInv, NoFault
  <2> QED
    BY <1>u, <2>1, HistoryFrame
<1> QED
  BY <1>1, <1>2, <1>3, <1>4, <1>5, <1>6, <1>7, <1>8, <1>9, <1>10 DEF BridgeInv

\* R deletes a leg that no callback is in.
LEMMA StopDeleteRInv ==
    ASSUME BridgeInv, StopDelete("R")
    PROVE  BridgeInv'
<1> DEFINE l == Pointer(stopping["R"])
<1>u. /\ pc["R"] = "delete" /\ pc' = [pc EXCEPT !["R"] = "reset"]
      /\ leg' = [leg EXCEPT ![held["R"]].alive = FALSE, ![held["R"]].cb = {}]
      /\ IF stopping["R"] = "sip"
         THEN sipCall' = None /\ incomingSipCall' = incomingSipCall
         ELSE incomingSipCall' = None /\ sipCall' = sipCall
      /\ UNCHANGED <<bridge, isCallee, activeCallId, nLegs, rtc, events, nCalls, held,
                    stopping, callback, nInvites, ended, bridged, dtmf>>
  BY DEF StopDelete, rtcVars
<1>s. /\ ~Inviting /\ pc["M"] = "idle" /\ stopping["R"] \in {"sip", "inc"}
      /\ l /= None => l \in Legs /\ leg[l].alive
      /\ pc["R"] \in {"poll", "delete"} => held["R"] = l /\ l /= None
      /\ stopping["R"] = "inc" => sipCall = None
      /\ stopping["R"] = "sip" /\ l /= None => incomingSipCall = None
  BY <1>u, StopFacts
<1>a. /\ l \in Legs /\ held["R"] = l /\ leg[l].alive /\ ~InCallbackOf(l)
      /\ sipCall' = None /\ (incomingSipCall' = incomingSipCall \/ incomingSipCall' = None)
      /\ l \notin {sipCall', incomingSipCall'} /\ l \in {sipCall, incomingSipCall}
      /\ stopping["R"] = "sip" \/ incomingSipCall' = None
      /\ \A k \in Legs : k /= l /\ k \in {sipCall, incomingSipCall} => k = incomingSipCall'
      /\ faults' = faults
  <2>1. l \in Legs /\ held["R"] = l /\ leg[l].alive
    BY <1>s, <1>u
  <2>2. ~InCallbackOf(l)
    BY <1>u, <2>1 DEF BridgeInv, ThreadInv, LegInv
  <2>3. faults' = faults
    BY <2>1 DEF StopDelete
  <2> QED
    BY <1>s, <1>u, <2>1, <2>2, <2>3, Domains DEF Pointer
<1>b. /\ leg' \in [Legs -> LegType] /\ \A k \in Legs : k /= l => leg'[k] = leg[k]
      /\ leg'[l].kind = leg[l].kind /\ ~leg'[l].alive /\ leg'[l].cb = {}
      /\ leg'[l].bridgeLive = leg[l].bridgeLive /\ leg'[l].call = leg[l].call
      /\ leg'[l].dialog = leg[l].dialog
      /\ leg'[l].disconnected = leg[l].disconnected
  <2>1. leg' = [leg EXCEPT ![l].alive = FALSE, ![l].cb = {}]
    BY <1>a, <1>u
  <2> HIDE DEF l
  <2> QED
    BY ZenonT(40), <1>a, <2>1, Domains, DeleteEffect DEF OnlyLeg
<1>c. \A k \in Legs : leg'[k].kind = leg[k].kind /\ leg'[k].call = leg[k].call
  BY <1>b
<1>e. pc'["P"] = pc["P"] /\ pc'["M"] = "idle" /\ pc'["R"] = "reset"
  BY <1>u, <1>s, TypeFrame DEF ThreadType, Threads
<1>1. StateType'
  <2>1. AcctType'
    BY <1>a, <1>u, TypeFrame DEF AcctType
  <2>2. HeapType'
    BY <1>b, <1>u, TypeFrame DEF HeapType
  <2>3. ThreadType'
    BY <1>u, TypeFrame DEF ThreadType, Threads
  <2>4. HistType'
    BY <1>a, <1>u, TypeFrame DEF HistType
  <2> QED
    BY <1>u, <2>1, <2>2, <2>3, <2>4, TypeFrame, TypeParts DEF rtcVars
<1>2. QueueInv'
  BY <1>u, <1>c DEF BridgeInv, QueueInv
<1>3. RtcInv'
  BY <1>u, <1>c DEF BridgeInv, RtcInv
<1>4. ASSUME NEW k \in Legs PROVE LegInv(k)'
  <2>1. LegInv(k)
    BY DEF BridgeInv
  <2>2. InCallbackOf(k)' <=> InCallbackOf(k)
    BY <1>e, <1>u DEF InCallbackOf
  <2>3. CASE k = l
    BY <1>u, <1>a, <1>b, <2>1, <2>2, <2>3 DEF LegInv
  <2>4. CASE k /= l
    <3>1. /\ leg'[k] = leg[k]
          /\ k \in {sipCall', incomingSipCall'} <=> k \in {sipCall, incomingSipCall}
      BY <1>a, <1>b, <2>4, Domains
    <3> QED
      BY <1>e, <1>u, <2>1, <2>2, <3>1 DEF LegInv
  <2> QED
    BY <2>3, <2>4
<1>5. SipInv'
  BY <1>a DEF SipInv
<1>6. IncomingInv'
  <2> SUFFICES ASSUME incomingSipCall' /= None PROVE IncomingInv'
    BY DEF IncomingInv
  <2>1. /\ incomingSipCall' = incomingSipCall /\ incomingSipCall /= l
        /\ incomingSipCall \in Legs
    BY <1>a, Domains
  <2>2. leg'[incomingSipCall] = leg[incomingSipCall]
    BY <1>b, <2>1
  <2> QED
    BY <1>e, <1>u, <2>1, <2>2 DEF BridgeInv, IncomingInv, Inviting
<1>7. InviteInv'
  BY <1>e, <1>s DEF Inviting, InviteInv
<1>8. ThreadInv'
  BY <1>a, <1>e, <1>s, <1>u DEF BridgeInv, ThreadInv, Inviting, Pointer
<1>9. TeardownInv'
  BY <1>e DEF TeardownInv
<1>10. HistoryInv'
  <2>1. NoFault'
    BY <1>a, <1>u DEF BridgeInv, HistoryInv, NoFault
  <2> QED
    BY <1>u, <1>c, <2>1, HistoryFrame
<1> QED
  BY <1>1, <1>2, <1>3, <1>4, <1>5, <1>6, <1>7, <1>8, <1>9, <1>10 DEF BridgeInv

\* R resets the bridge and goes on, or returns.
LEMMA StopResetRInv ==
    ASSUME BridgeInv, StopReset("R")
    PROVE  BridgeInv'
<1>u. /\ pc["R"] = "reset" /\ bridge' = None
      /\ leg' = IF bridge = None THEN leg ELSE [leg EXCEPT ![bridge].bridgeLive = FALSE]
      /\ held' = [held EXCEPT !["R"] = None]
      /\ \/ /\ stopping["R"] = "sip" /\ pc' = [pc EXCEPT !["R"] = "stop"]
            /\ stopping' = [stopping EXCEPT !["R"] = "inc"] /\ isCallee' = isCallee
         \/ /\ stopping["R"] = "inc" /\ pc' = [pc EXCEPT !["R"] = "idle"]
            /\ stopping' = stopping /\ isCallee' = FALSE
      /\ UNCHANGED <<sipCall, incomingSipCall, activeCallId, nLegs, rtc, events,
                    nCalls, callback, nInvites, ended, bridged, dtmf, faults>>
  <2>1. pc["R"] = "reset" /\ stopping["R"] \in {"sip", "inc"}
    BY StopFacts DEF StopReset
  <2> QED
    BY <2>1 DEF StopReset, rtcVars, histVars
<1>s. /\ ~Inviting /\ pc["M"] = "idle" /\ sipCall = None
      /\ stopping["R"] = "inc" => incomingSipCall = None
      /\ nInvites = 0 => \A k \in Legs : ~leg[k].alive
  <2>1. /\ ~Inviting /\ pc["M"] = "idle" /\ sipCall = None
        /\ stopping["R"] = "inc" => incomingSipCall = None
    BY <1>u, StopFacts DEF BridgeInv, ThreadInv, Pointer
  <2>2. nInvites = 0 => incomingSipCall = None
    BY DEF BridgeInv, IncomingInv
  <2> QED
    BY <2>1, <2>2, QuietLegs
<1>b. FreedLegs
  BY <1>u, Domains, TypeFrame, FreeLegs DEF AcctType
<1>c. \A k \in Legs : leg'[k].kind = leg[k].kind /\ leg'[k].call = leg[k].call
  BY <1>b DEF FreedLegs
<1>e. /\ pc'["P"] = pc["P"] /\ pc'["M"] = "idle" /\ pc'["R"] \in {"stop", "idle"}
      /\ held'["P"] = held["P"]
  BY <1>u, <1>s, TypeFrame DEF ThreadType, Threads
<1>1. StateType'
  <2>1. AcctType'
    BY <1>u, TypeFrame DEF AcctType
  <2>2. HeapType'
    BY <1>b, <1>u, TypeFrame DEF HeapType, FreedLegs
  <2>3. ThreadType'
    BY <1>u, TypeFrame DEF ThreadType, Threads
  <2> QED
    BY <1>u, <2>1, <2>2, <2>3, TypeFrame, TypeParts DEF rtcVars, histVars
<1>2. QueueInv'
  BY <1>u, <1>c DEF BridgeInv, QueueInv
<1>3. RtcInv'
  BY <1>u, <1>c DEF BridgeInv, RtcInv
<1>4. ASSUME NEW k \in Legs PROVE LegInv(k)'
  <2>1. LegInv(k)
    BY DEF BridgeInv
  <2>2. InCallbackOf(k)' <=> InCallbackOf(k)
    BY <1>e DEF InCallbackOf
  <2> QED
    BY <1>b, <1>e, <1>s, <1>u, <2>1, <2>2 DEF FreedLegs, LegInv
<1>5. SipInv'
  BY <1>s, <1>u DEF SipInv
<1>6. IncomingInv'
  BY <1>b, <1>e, <1>s, <1>u, Domains DEF BridgeInv, IncomingInv, Inviting, FreedLegs
<1>7. InviteInv'
  BY <1>e, <1>s DEF Inviting, InviteInv
<1>8. ThreadInv'
  BY <1>e, <1>s, <1>u DEF BridgeInv, ThreadInv, Inviting
<1>9. TeardownInv'
  BY <1>e DEF TeardownInv
<1>10. HistoryInv'
  <2>1. NoFault'
    BY <1>u DEF BridgeInv, HistoryInv, NoFault
  <2> QED
    BY <1>u, <1>c, <2>1, HistoryFrame
<1> QED
  BY <1>1, <1>2, <1>3, <1>4, <1>5, <1>6, <1>7, <1>8, <1>9, <1>10 DEF BridgeInv

-----------------------------------------------------------------------------
(* P: onIncomingCall()                                                     *)

\* What holds while onIncomingCall() is past its busy check.
LEMMA InviteFacts ==
    ASSUME BridgeInv, Inviting
    PROVE  /\ rtc = NoCall /\ rtc.call = None /\ events = <<>> /\ Elements(events) = {}
           /\ pc["R"] = "idle" /\ pc["M"] = "idle" /\ sipCall = None /\ nInvites > 0
           /\ \A k \in Legs : ~InCallbackOf(k)
           /\ pc["P"] \in {"ring", "resolve", "startCall", "stop", "poll", "delete"} =>
                /\ held["P"] = incomingSipCall /\ incomingSipCall \in Legs
                /\ leg[incomingSipCall].alive /\ leg[incomingSipCall].call = None
<1>1. /\ rtc = NoCall /\ events = <<>> /\ pc["R"] = "idle" /\ pc["M"] = "idle"
      /\ nInvites > 0 /\ sipCall = None
  BY DEF BridgeInv, InviteInv, SipInv
<1>2. Elements(events) = {} /\ rtc.call = None
  BY <1>1 DEF Elements, NoCall
<1>3. \A k \in Legs : ~InCallbackOf(k)
  BY DEF Inviting, InCallbackOf
<1>4. pc["P"] \in {"ring", "resolve", "startCall", "stop", "poll", "delete"} =>
        /\ held["P"] = incomingSipCall /\ incomingSipCall \in Legs
        /\ leg[incomingSipCall].alive /\ leg[incomingSipCall].call = None
  BY Domains DEF BridgeInv, InviteInv, LegInv
<1> QED
  BY <1>1, <1>2, <1>3, <1>4

\* An INVITE that is not refused finds everything quiet.
LEMMA InviteArrivesInv ==
    ASSUME BridgeInv, races' = {}, InviteRejected \/ InviteChecked
    PROVE  BridgeInv'
<1>u. /\ nInvites' = nInvites + 1 /\ nInvites < MaxInvites /\ pc["P"] = "idle"
      /\ UNCHANGED <<sipCall, incomingSipCall, bridge, isCallee, activeCallId, leg,
                    nLegs, rtc, events, nCalls, held, stopping, callback, ended,
                    bridged, dtmf, faults>>
  BY DEF InviteRejected, InviteChecked, InviteArrives, acctVars, heapVars, rtcVars,
    threadVars, histVars
<1>n. nInvites \in Nat /\ nInvites' \in 0..MaxInvites /\ nInvites' > 0 /\ nInvites' /= 0
  BY <1>u, TypeFrame, BridgeAssumption
<1>a. \/ pc' = pc
      \/ /\ pc' = [pc EXCEPT !["P"] = "create"]
         /\ rtc = NoCall /\ events = <<>> /\ pc["R"] = "idle" /\ pc["M"] = "idle"
         /\ sipCall = None /\ incomingSipCall = None
  <2>1. CASE InviteRejected
    BY <2>1 DEF InviteRejected, threadVars
  <2>2. CASE InviteChecked
    <3>1. sipCall = None /\ incomingSipCall = None /\ pc' = [pc EXCEPT !["P"] = "create"]
      BY <2>2 DEF InviteChecked
    <3>2. Quiet
      BY <2>2 DEF InviteChecked, RaceUnless, Race
    <3> QED
      BY <3>1, <3>2 DEF Quiet, Threads
  <2> QED
    BY <2>1, <2>2
<1>e. /\ pc'["R"] = pc["R"] /\ pc'["M"] = pc["M"] /\ pc'["P"] \in {"idle", "create"}
      /\ pc' = pc \/ pc'["P"] = "create"
      /\ \A k \in Legs : InCallbackOf(k)' <=> InCallbackOf(k)
  <2>1. pc'["R"] = pc["R"] /\ pc'["M"] = pc["M"] /\ pc'["P"] \in {"idle", "create"}
        /\ (pc' = pc \/ pc'["P"] = "create")
    BY <1>a, <1>u, TypeFrame DEF ThreadType, Threads
  <2> QED
    BY <1>u, <2>1 DEF InCallbackOf
<1>1. StateType'
  <2>1. ThreadType'
    BY <1>a, <1>u, TypeFrame DEF ThreadType, Threads
  <2>2. nInvites' \in 0..MaxInvites
    BY <1>n
  <2> QED
    BY <1>u, <2>1, <2>2, TypeFrame, TypeParts DEF acctVars, heapVars, rtcVars, histVars
<1>2. QueueInv'
  BY <1>u DEF BridgeInv, QueueInv
<1>3. RtcInv'
  BY <1>u DEF BridgeInv, RtcInv
<1>4. ASSUME NEW k \in Legs PROVE LegInv(k)'
  <2>1. LegInv(k) /\ ~InCallbackOf(k)
    BY <1>u DEF BridgeInv, InCallbackOf
  <2> QED
    BY <1>e, <1>n, <1>u, <2>1 DEF LegInv
<1>5. SipInv'
  BY <1>a, <1>e, <1>u DEF BridgeInv, SipInv, StopsSip, Inviting
<1>6. IncomingInv'
  BY <1>a, <1>e, <1>n, <1>u DEF BridgeInv, IncomingInv, Inviting
<1>7. InviteInv'
  BY <1>a, <1>e, <1>n, <1>u DEF InviteInv, Inviting
<1>8. ThreadInv'
  BY <1>e, <1>u DEF BridgeInv, ThreadInv, Inviting, Pointer
<1>9. TeardownInv'
  BY <1>a, <1>e, <1>u DEF BridgeInv, TeardownInv
<1>10. HistoryInv'
  <2>1. NoFault'
    BY <1>n, <1>u DEF BridgeInv, HistoryInv, NoFault
  <2> QED
    BY <1>u, <2>1, HistoryFrame
<1> QED
  BY <1>1, <1>2, <1>3, <1>4, <1>5, <1>6, <1>7, <1>8, <1>9, <1>10 DEF BridgeInv

\* onIncomingCall() creates the leg.
LEMMA InviteCreateInv ==
    ASSUME BridgeInv, InviteCreate
    PROVE  BridgeInv'
<1> DEFINE l == nLegs + 1
<1>u. /\ pc["P"] = "create" /\ nLegs < MaxLegs
      /\ leg' = WithNewLeg(l, "invite", None, "ringing") /\ nLegs' = l /\ bridge' = l
      /\ incomingSipCall' = l /\ held' = [held EXCEPT !["P"] = l]
      /\ pc' = [pc EXCEPT !["P"] = "ring"]
      /\ UNCHANGED <<sipCall, isCallee, activeCallId, rtc, events, nCalls, stopping,
                    callback, nInvites, ended, bridged, dtmf, faults>>
  BY DEF InviteCreate, rtcVars, histVars
<1>s. /\ rtc = NoCall /\ rtc.call = None /\ events = <<>> /\ Elements(events) = {}
      /\ pc["R"] = "idle" /\ pc["M"] = "idle" /\ sipCall = None /\ nInvites > 0
      /\ \A k \in Legs : ~InCallbackOf(k)
      /\ incomingSipCall = None
  <2>1. Inviting
    BY <1>u DEF Inviting
  <2>2. incomingSipCall = None
    BY <1>u, <2>1 DEF BridgeInv, InviteInv
  <2> QED
    BY <2>1, <2>2, InviteFacts
<1>a. /\ l \in Legs /\ l \in Nat /\ leg[l].kind = "none" /\ leg[l].call = None
      /\ \A j \in Legs : ~leg[j].alive
  <2>1. l \in Legs /\ l \in Nat /\ l > nLegs
    BY <1>u, Domains DEF Legs
  <2> QED
    BY <1>s, <2>1, QuietLegs DEF BridgeInv, LegInv
<1>b. /\ leg' \in [Legs -> LegType]
      /\ leg'[l].kind = "invite" /\ leg'[l].alive = TRUE
      /\ leg'[l].bridgeLive = TRUE /\ leg'[l].dialog = "ringing" /\ leg'[l].cb = {}
      /\ leg'[l].call = None /\ leg'[l].disconnected = FALSE
      /\ \A j \in Legs : j /= l =>
           /\ leg'[j].kind = leg[j].kind /\ leg'[j].alive = leg[j].alive
           /\ leg'[j].dialog = leg[j].dialog /\ leg'[j].cb = leg[j].cb
           /\ leg'[j].call = leg[j].call
           /\ leg'[j].disconnected = leg[j].disconnected
  <2>1. /\ leg \in [Legs -> LegType] /\ bridge \in Legs \cup {None} /\ l \in Legs
        /\ leg' = WithNewLeg(l, "invite", None, "ringing")
    BY <1>u, <1>a, Domains, TypeFrame DEF AcctType
  <2> HIDE DEF l
  <2> QED
    BY ZenonT(40), <2>1, NewLegEffect
<1>e. /\ pc'["R"] = "idle" /\ pc'["M"] = "idle" /\ pc'["P"] = "ring" /\ held'["P"] = l
      /\ \A k \in Legs : ~InCallbackOf(k)' 
  <2>1. pc'["R"] = "idle" /\ pc'["M"] = "idle" /\ pc'["P"] = "ring" /\ held'["P"] = l
    BY <1>s, <1>u, TypeFrame DEF ThreadType, Threads
  <2> QED
    BY <2>1 DEF InCallbackOf
<1>1. StateType'
  <2>1. AcctType'
    BY <1>a, <1>u, TypeFrame DEF AcctType
  <2>2. HeapType'
    BY <1>a, <1>b, <1>u DEF HeapType
  <2>3. ThreadType'
    BY <1>a, <1>u, TypeFrame DEF ThreadType, Threads
  <2> QED
    BY <1>u, <2>1, <2>2, <2>3, TypeFrame, TypeParts DEF rtcVars, histVars
<1>2. QueueInv'
  BY <1>s, <1>u DEF BridgeInv, QueueInv
<1>3. RtcInv'
  BY <1>s, <1>u DEF BridgeInv, RtcInv, NoCall
<1>4. ASSUME NEW k \in Legs PROVE LegInv(k)'
  <2>1. LegInv(k)
    BY DEF BridgeInv
  <2>3. nLegs \in Nat /\ nCalls \in Nat /\ k \in Nat /\ None = 0
    BY Domains
  <2>4. CASE k = l
    BY <1>u, <1>a, <1>b, <1>e, <2>3, <2>4 DEF LegInv
  <2>5. CASE k /= l
    <3>1. k > nLegs' => leg'[k].kind = "none"
      BY <1>u, <1>b, <2>1, <2>3, <2>5 DEF LegInv
    <3>2. ~leg'[k].alive /\ k \notin {sipCall, incomingSipCall}'
      BY <1>u, <1>a, <1>b, <1>s, <2>5, Domains
    <3> QED
      BY <1>u, <1>b, <1>e, <2>1, <2>5, <3>1, <3>2 DEF LegInv
  <2> QED
    BY <2>4, <2>5
<1>5. SipInv'
  BY <1>s, <1>u DEF SipInv
<1>6. IncomingInv'
  BY <1>b, <1>e, <1>s, <1>u DEF IncomingInv, Inviting
<1>7. InviteInv'
  BY <1>a, <1>b, <1>e, <1>s, <1>u, Domains DEF InviteInv
<1>8. ThreadInv'
  BY <1>e, <1>s, <1>u DEF ThreadInv, Inviting
<1>9. TeardownInv'
  BY <1>e DEF TeardownInv
<1>10. HistoryInv'
  <2>1. NoFault'
    BY <1>u DEF BridgeInv, HistoryInv, NoFault
  <2>2. \A j \in Legs : leg[j].call /= None => leg'[j].call = leg[j].call
    BY <1>a, <1>b
  <2> QED
    BY <1>u, <2>1, <2>2, HistoryFrame
<1> QED
  BY <1>1, <1>2, <1>3, <1>4, <1>5, <1>6, <1>7, <1>8, <1>9, <1>10 DEF BridgeInv

\* onIncomingCall() moves on without touching a leg.
LEMMA InviteMovesInv ==
    ASSUME BridgeInv, pc["P"] \in {"ring", "resolve", "startCall", "poll"},
           \E x \in {"resolve", "startCall", "stop", "delete"} :
               pc' = [pc EXCEPT !["P"] = x],
           pc'["P"] \in {"stop", "delete"} => stopping'["P"] = "inc",
           stopping' \in [Threads -> {"sip", "inc"}], isCallee' \in BOOLEAN,
           UNCHANGED <<sipCall, incomingSipCall, bridge, activeCallId, leg, nLegs,
                       rtc, events, nCalls, held, callback, nInvites, ended, bridged,
                       dtmf, faults>>
    PROVE  BridgeInv'
<1> DEFINE l == incomingSipCall
<1>u. /\ isCallee' \in BOOLEAN
      /\ pc'["P"] \in {"stop", "delete"} => stopping'["P"] = "inc"
      /\ UNCHANGED <<sipCall, incomingSipCall, bridge, activeCallId, leg, nLegs, rtc,
                    events, nCalls, held, callback, nInvites, ended, bridged, dtmf,
                    faults>>
  OBVIOUS
<1>v. Inviting /\ pc["P"] \in {"ring", "resolve", "startCall", "poll"}
  BY DEF Inviting
<1>s. /\ rtc = NoCall /\ rtc.call = None /\ events = <<>> /\ Elements(events) = {}
      /\ pc["R"] = "idle" /\ pc["M"] = "idle" /\ sipCall = None /\ nInvites > 0
      /\ \A k \in Legs : ~InCallbackOf(k)
      /\ held["P"] = l /\ l \in Legs /\ leg[l].alive /\ leg[l].call = None
  BY <1>v, InviteFacts
<1>e. /\ pc'["R"] = "idle" /\ pc'["M"] = "idle"
      /\ pc'["P"] \in {"resolve", "startCall", "stop", "delete"}
      /\ \A k \in Legs : ~InCallbackOf(k)' 
  <2>1. pc'["R"] = "idle" /\ pc'["M"] = "idle"
        /\ pc'["P"] \in {"resolve", "startCall", "stop", "delete"}
    BY <1>s, TypeFrame DEF ThreadType, Threads
  <2> QED
    BY <1>u, <2>1 DEF InCallbackOf
<1>1. StateType'
  <2>1. AcctType'
    BY <1>u, TypeFrame DEF AcctType
  <2>2. ThreadType'
    BY <1>u, TypeFrame DEF ThreadType, Threads
  <2> QED
    BY <1>u, <2>1, <2>2, TypeFrame, TypeParts DEF heapVars, rtcVars, histVars
<1>2. QueueInv'
  BY <1>u DEF BridgeInv, QueueInv
<1>3. RtcInv'
  BY <1>u DEF BridgeInv, RtcInv
<1>4. ASSUME NEW k \in Legs PROVE LegInv(k)'
  <2>1. LegInv(k)
    BY DEF BridgeInv
  <2> QED
    BY <1>e, <1>s, <1>u, <2>1 DEF LegInv
<1>5. SipInv'
  BY <1>s, <1>u DEF SipInv
<1>6. IncomingInv'
  BY <1>e, <1>s, <1>u DEF BridgeInv, IncomingInv, Inviting
<1>7. InviteInv'
  BY <1>e, <1>s, <1>u, <1>v DEF BridgeInv, InviteInv
<1>8. ThreadInv'
  BY <1>e, <1>s, <1>u DEF ThreadInv, Inviting
<1>9. TeardownInv'
  BY <1>e DEF TeardownInv
<1>10. HistoryInv'
  <2>1. NoFault'
    BY <1>u DEF BridgeInv, HistoryInv, NoFault
  <2> QED
    BY <1>u, <2>1, HistoryFrame
<1> QED
  BY <1>1, <1>2, <1>3, <1>4, <1>5, <1>6, <1>7, <1>8, <1>9, <1>10 DEF BridgeInv

\* The steps of onIncomingCall() that change no leg.
LEMMA InviteMovesOnInv ==
    ASSUME BridgeInv,
           \/ InviteRing \/ InviteResolve \/ InviteStartFails
           \/ StopDisconnected("P") \/ StopPollExpires("P")
    PROVE  BridgeInv'
<1>1. /\ isCallee \in BOOLEAN /\ stopping \in [Threads -> {"sip", "inc"}] /\ "P" \in Threads
      /\ \A x : [pc EXCEPT !["P"] = x]["P"] = x
  BY TypeFrame DEF AcctType, ThreadType, Threads
<1>2. pc["P"] \in {"ring", "poll"} =>
        leg[held["P"]].alive /\ (pc["P"] = "poll" => stopping["P"] = "inc")
  BY InviteFacts DEF Inviting, BridgeInv, InviteInv
<1> DEFINE Same == UNCHANGED <<sipCall, incomingSipCall, bridge, activeCallId, leg,
                               nLegs, rtc, events, nCalls, held, callback, nInvites,
                               ended, bridged, dtmf, faults>>
           Moves == \E x \in {"resolve", "startCall", "stop", "delete"} :
                        pc' = [pc EXCEPT !["P"] = x]
<1>3. CASE InviteRing
  <2>1. Same /\ isCallee' = isCallee /\ stopping' = stopping /\ pc["P"] = "ring"
        /\ pc' = [pc EXCEPT !["P"] = "resolve"]
    BY <1>2, <1>3 DEF InviteRing, UseLeg, acctVars, heapVars, rtcVars
  <2>2. Moves /\ pc'["P"] = "resolve"
    BY <1>1, <2>1
  <2> QED
    BY <1>1, <2>1, <2>2, InviteMovesInv
<1>4. CASE InviteResolve
  <2>1. Same /\ isCallee' = isCallee /\ pc["P"] = "resolve"
    BY <1>4 DEF InviteResolve, acctVars, heapVars, rtcVars, histVars
  <2>2. /\ Moves /\ stopping' \in [Threads -> {"sip", "inc"}]
        /\ pc'["P"] \in {"stop", "delete"} => stopping'["P"] = "inc"
    BY <1>1, <1>4 DEF InviteResolve
  <2> QED
    BY <1>1, <2>1, <2>2, InviteMovesInv
<1>5. CASE InviteStartFails
  <2>1. Same /\ isCallee' \in BOOLEAN /\ pc["P"] = "startCall"
    BY <1>5 DEF InviteStartFails, heapVars, rtcVars, histVars
  <2>2. /\ Moves /\ stopping' \in [Threads -> {"sip", "inc"}]
        /\ stopping'["P"] = "inc"
    BY <1>1, <1>5 DEF InviteStartFails
  <2> QED
    BY <2>1, <2>2, InviteMovesInv
<1>6. CASE StopDisconnected("P") \/ StopPollExpires("P")
  <2>1. Same /\ isCallee' = isCallee /\ stopping' = stopping /\ pc["P"] = "poll"
        /\ pc' = [pc EXCEPT !["P"] = "delete"]
    BY <1>2, <1>6 DEF StopDisconnected, StopPollExpires, UseLeg, acctVars, heapVars,
        rtcVars
  <2>2. Moves
    BY <2>1
  <2> QED
    BY <1>1, <1>2, <2>1, <2>2, InviteMovesInv
<1> QED
  BY <1>3, <1>4, <1>5, <1>6

\* onIncomingCall() places the Signal call and returns.
LEMMA InviteStartCallInv ==
    ASSUME BridgeInv, InviteStartCall
    PROVE  BridgeInv'
<1> DEFINE l == incomingSipCall
           n == nCalls + 1
<1>u. /\ pc["P"] = "startCall" /\ nCalls < MaxCalls /\ isCallee' = FALSE /\ nCalls' = n
      /\ rtc' = [call |-> n, dir |-> "out", st |-> "offered"]
      /\ events' = Append(events, Event(n, "OUTGOING_AUDIO"))
      /\ leg' = [leg EXCEPT ![held["P"]].call = n]
      /\ pc' = [pc EXCEPT !["P"] = "idle"] /\ held' = [held EXCEPT !["P"] = None]
      /\ UNCHANGED <<sipCall, incomingSipCall, bridge, activeCallId, nLegs, stopping,
                    callback, nInvites, ended, bridged, dtmf, faults>>
  BY DEF InviteStartCall, histVars
<1>s. /\ rtc = NoCall /\ rtc.call = None /\ events = <<>> /\ Elements(events) = {}
      /\ pc["R"] = "idle" /\ pc["M"] = "idle" /\ sipCall = None /\ nInvites > 0
      /\ \A k \in Legs : ~InCallbackOf(k)
      /\ held["P"] = l /\ l \in Legs /\ leg[l].alive /\ leg[l].call = None
      /\ leg[l].kind = "invite" /\ leg[l].dialog /= "confirmed"
  <2>1. Inviting
    BY <1>u DEF Inviting
  <2> QED
    BY <1>u, <2>1, InviteFacts, Domains DEF BridgeInv, InviteInv, IncomingInv
<1>n. n \in Calls /\ n \in Nat /\ nCalls \in Nat /\ n > nCalls /\ None = 0
  BY <1>u, Domains DEF Calls
<1>q. /\ events' \in Seq(EventType) /\ Elements(events') = {Event(n, "OUTGOING_AUDIO")}
      /\ Event(n, "OUTGOING_AUDIO").call = n
      /\ Event(n, "OUTGOING_AUDIO").ev = "OUTGOING_AUDIO"
      /\ Ordered(events') /\ RingsOnce(events') /\ EndComes(events', n)
  <2>1. /\ Event(n, "OUTGOING_AUDIO") \in EventType
        /\ Event(n, "OUTGOING_AUDIO").call = n
        /\ Event(n, "OUTGOING_AUDIO").ev = "OUTGOING_AUDIO"
    BY <1>n, EventInType DEF Event, Events
  <2> HIDE DEF n
  <2>4. /\ events' = Append(events, Event(n, "OUTGOING_AUDIO")) /\ events \in Seq(EventType)
        /\ Ordered(events) /\ RingsOnce(events) /\ EndComes(events, None)
        /\ Elements(events) = {} /\ None \notin Calls
    BY <1>s, <1>u, Domains DEF BridgeInv, QueueInv, n
  <2>2. /\ events' \in Seq(EventType) /\ Elements(events') = {Event(n, "OUTGOING_AUDIO")}
        /\ Ordered(events') /\ RingsOnce(events')
    BY <2>1, <2>4, AppendQueue
  <2>3. EndComes(events', n)
    BY <2>1, <2>4, AppendEnds
  <2> QED
    BY <2>1, <2>2, <2>3
<1>b. /\ leg' \in [Legs -> LegType] /\ \A k \in Legs : k /= l => leg'[k] = leg[k]
      /\ leg'[l].kind = leg[l].kind /\ leg'[l].alive = leg[l].alive
      /\ leg'[l].bridgeLive = leg[l].bridgeLive /\ leg'[l].call = n
      /\ leg'[l].dialog = leg[l].dialog /\ leg'[l].cb = leg[l].cb
      /\ leg'[l].disconnected = leg[l].disconnected
  <2>1. leg' = [leg EXCEPT ![l].call = n]
    BY <1>s, <1>u
  <2> HIDE DEF l, n
  <2> QED
    BY <1>n, <1>s, <2>1, Domains, CallEffect DEF OnlyLeg
<1>e. /\ pc'["R"] = "idle" /\ pc'["M"] = "idle" /\ pc'["P"] = "idle"
      /\ \A k \in Legs : ~InCallbackOf(k)' 
  <2>1. pc'["R"] = "idle" /\ pc'["M"] = "idle" /\ pc'["P"] = "idle"
    BY <1>s, <1>u, TypeFrame DEF ThreadType, Threads
  <2> QED
    BY <2>1 DEF InCallbackOf
<1>1. StateType'
  <2>1. AcctType'
    BY <1>u, TypeFrame DEF AcctType
  <2>2. HeapType'
    BY <1>b, <1>u, TypeFrame DEF HeapType
  <2>3. RtcType'
    BY <1>n, <1>q, <1>u DEF RtcType, EventType
  <2>4. ThreadType'
    BY <1>u, TypeFrame DEF ThreadType, Threads
  <2> QED
    BY <1>u, <2>1, <2>2, <2>3, <2>4, TypeFrame, TypeParts DEF histVars
<1>2. QueueInv'
  <2>1. activeCallId <= nCalls /\ activeCallId \in Nat
    BY Domains DEF BridgeInv, RtcInv
  <2> QED
    BY <1>n, <1>q, <1>u, <2>1 DEF QueueInv
<1>3. RtcInv'
  <2>1. activeCallId <= nCalls /\ activeCallId \in Nat
    BY Domains DEF BridgeInv, RtcInv
  <2>2. rtc'.call = n /\ rtc'.st = "offered" /\ n /= None
    BY <1>n, <1>u
  <2>3. Event(n, "RINGING") \notin Elements(events')
    BY <1>q DEF Event
  <2>4. \A k \in Legs : leg'[k].kind = "dialled" => leg'[k].call /= n
    <3>1. \A k \in Legs : leg[k].call <= nCalls /\ leg[k].call \in Nat
      BY Domains DEF BridgeInv, LegInv
    <3> QED
      BY <1>b, <1>n, <1>s, <3>1
  <2> QED
    BY <1>n, <1>u, <2>1, <2>2, <2>3, <2>4 DEF RtcInv
<1>4. ASSUME NEW k \in Legs PROVE LegInv(k)'
  <2>1. LegInv(k)
    BY DEF BridgeInv
  <2>3. CASE k = l
    BY <1>b, <1>e, <1>n, <1>s, <1>u, <2>1, <2>3 DEF LegInv
  <2>4. CASE k /= l
    <3>1. leg'[k] = leg[k] /\ leg[k].call \in Nat
      BY <1>b, <2>4, Domains
    <3> QED
      BY <1>e, <1>n, <1>s, <1>u, <2>1, <3>1 DEF LegInv
  <2> QED
    BY <2>3, <2>4
<1>5. SipInv'
  BY <1>s, <1>u DEF SipInv
<1>6. IncomingInv'
  BY <1>b, <1>e, <1>n, <1>q, <1>s, <1>u DEF IncomingInv
<1>7. InviteInv'
  BY <1>e DEF InviteInv, Inviting
<1>8. ThreadInv'
  BY <1>e, <1>s, <1>u DEF ThreadInv, Inviting
<1>9. TeardownInv'
  BY <1>e DEF TeardownInv
<1>10. HistoryInv'
  <2>1. NoFault'
    BY <1>u DEF BridgeInv, HistoryInv, NoFault
  <2>2. \A j \in Legs : leg[j].call /= None => leg'[j].call = leg[j].call
    BY <1>b, <1>s
  <2> QED
    BY <1>u, <2>1, <2>2, HistoryFrame
<1> QED
  BY <1>1, <1>2, <1>3, <1>4, <1>5, <1>6, <1>7, <1>8, <1>9, <1>10 DEF BridgeInv

-----------------------------------------------------------------------------
(* stopIncomingSipCall(), on P                                             *)

\* P gives an INVITE up: hang up,
LEMMA StopHangupPInv ==
    ASSUME BridgeInv, StopHangup("P")
    PROVE  BridgeInv'
<1> DEFINE l == incomingSipCall
<1>u. /\ pc["P"] = "stop"
      /\ UNCHANGED <<sipCall, incomingSipCall, bridge, isCallee, activeCallId, nLegs,
                    rtc, events, nCalls, stopping, callback, nInvites, ended,
                    bridged, dtmf>>
  BY DEF StopHangup, acctVars, rtcVars
<1>s. /\ rtc = NoCall /\ rtc.call = None /\ events = <<>> /\ Elements(events) = {}
      /\ pc["R"] = "idle" /\ pc["M"] = "idle" /\ sipCall = None /\ nInvites > 0
      /\ \A k \in Legs : ~InCallbackOf(k)
      /\ held["P"] = l /\ l \in Legs /\ leg[l].alive /\ leg[l].call = None
      /\ Pointer(stopping["P"]) = l /\ l /= None /\ leg[l].dialog /= "confirmed"
  <2>1. Inviting
    BY <1>u DEF Inviting
  <2>2. stopping["P"] = "inc" /\ l /= None /\ leg[l].dialog /= "confirmed"
    BY <1>u, <2>1 DEF BridgeInv, InviteInv
  <2> QED
    BY <1>u, <2>1, <2>2, InviteFacts DEF Pointer
<1>a. /\ pc' = [pc EXCEPT !["P"] = "poll"] /\ held' = [held EXCEPT !["P"] = l]
      /\ leg' = [leg EXCEPT ![l] = HungUp(@)] /\ faults' = faults
  BY <1>s DEF StopHangup, UseLeg
<1>b. HungLegs
  BY <1>a, <1>s, Domains, HangupLegs
<1>c. \A k \in Legs : leg'[k].kind = leg[k].kind /\ leg'[k].call = leg[k].call
  BY <1>b DEF HungLegs
<1>e. /\ pc'["R"] = "idle" /\ pc'["M"] = "idle" /\ pc'["P"] = "poll" /\ held'["P"] = l
      /\ \A k \in Legs : ~InCallbackOf(k)' 
  <2>1. pc'["R"] = "idle" /\ pc'["M"] = "idle" /\ pc'["P"] = "poll" /\ held'["P"] = l
    BY <1>a, <1>s, TypeFrame DEF ThreadType, Threads
  <2> QED
    BY <2>1 DEF InCallbackOf
<1>1. StateType'
  <2>1. HeapType'
    BY <1>b, <1>u, TypeFrame DEF HeapType, HungLegs
  <2>2. ThreadType'
    BY <1>a, <1>s, <1>u, TypeFrame DEF ThreadType, Threads
  <2>3. HistType'
    BY <1>a, <1>u, TypeFrame DEF HistType
  <2> QED
    BY <1>u, <2>1, <2>2, <2>3, TypeFrame, TypeParts DEF acctVars, rtcVars
<1>2. QueueInv'
  BY <1>u, <1>c DEF BridgeInv, QueueInv
<1>3. RtcInv'
  BY <1>u, <1>c DEF BridgeInv, RtcInv
<1>4. ASSUME NEW k \in Legs PROVE LegInv(k)'
  <2>1. LegInv(k)
    BY DEF BridgeInv
  <2> QED
    BY <1>b, <1>e, <1>s, <1>u, <2>1 DEF HungLegs, LegInv
<1>5. SipInv'
  BY <1>s, <1>u DEF SipInv
<1>6. IncomingInv'
  BY <1>c, <1>e, <1>s, <1>u DEF BridgeInv, IncomingInv, Inviting
<1>7. InviteInv'
  <2>1. leg'[l].dialog /= "confirmed" /\ leg'[l].call = None
    BY <1>b, <1>s DEF HungLegs
  <2>2. stopping["P"] = "inc"
    BY <1>u DEF BridgeInv, InviteInv, Inviting
  <2> QED
    BY <1>e, <1>s, <1>u, <2>1, <2>2 DEF InviteInv
<1>8. ThreadInv'
  BY <1>e, <1>s, <1>u DEF ThreadInv, Inviting
<1>9. TeardownInv'
  BY <1>e DEF TeardownInv
<1>10. HistoryInv'
  <2>1. NoFault'
    BY <1>a, <1>u DEF BridgeInv, HistoryInv, NoFault
  <2> QED
    BY <1>u, <1>c, <2>1, HistoryFrame
<1> QED
  BY <1>1, <1>2, <1>3, <1>4, <1>5, <1>6, <1>7, <1>8, <1>9, <1>10 DEF BridgeInv

\* delete,
LEMMA StopDeletePInv ==
    ASSUME BridgeInv, StopDelete("P")
    PROVE  BridgeInv'
<1> DEFINE l == incomingSipCall
<1>u. /\ pc["P"] = "delete" /\ pc' = [pc EXCEPT !["P"] = "reset"]
      /\ leg' = [leg EXCEPT ![held["P"]].alive = FALSE, ![held["P"]].cb = {}]
      /\ UNCHANGED <<bridge, isCallee, activeCallId, nLegs, rtc, events, nCalls, held,
                    stopping, callback, nInvites, ended, bridged, dtmf>>
  BY DEF StopDelete, rtcVars
<1>s. /\ rtc = NoCall /\ rtc.call = None /\ events = <<>> /\ Elements(events) = {}
      /\ pc["R"] = "idle" /\ pc["M"] = "idle" /\ sipCall = None /\ nInvites > 0
      /\ \A k \in Legs : ~InCallbackOf(k)
      /\ held["P"] = l /\ l \in Legs /\ leg[l].alive /\ leg[l].call = None
      /\ stopping["P"] = "inc"
  <2>1. Inviting
    BY <1>u DEF Inviting
  <2> QED
    BY <1>u, <2>1, InviteFacts DEF BridgeInv, InviteInv
<1>a. incomingSipCall' = None /\ sipCall' = None /\ faults' = faults
  BY <1>s DEF StopDelete
<1>b. /\ leg' \in [Legs -> LegType] /\ \A k \in Legs : k /= l => leg'[k] = leg[k]
      /\ leg'[l].kind = leg[l].kind /\ ~leg'[l].alive /\ leg'[l].cb = {}
      /\ leg'[l].bridgeLive = leg[l].bridgeLive /\ leg'[l].call = leg[l].call
      /\ leg'[l].dialog = leg[l].dialog
      /\ leg'[l].disconnected = leg[l].disconnected
  <2>1. leg' = [leg EXCEPT ![l].alive = FALSE, ![l].cb = {}]
    BY <1>s, <1>u
  <2> HIDE DEF l
  <2> QED
    BY <1>s, <2>1, Domains, DeleteEffect DEF OnlyLeg
<1>c. \A k \in Legs : leg'[k].kind = leg[k].kind /\ leg'[k].call = leg[k].call
  BY <1>b
<1>e. /\ pc'["R"] = "idle" /\ pc'["M"] = "idle" /\ pc'["P"] = "reset"
      /\ \A k \in Legs : ~InCallbackOf(k)' 
  <2>1. pc'["R"] = "idle" /\ pc'["M"] = "idle" /\ pc'["P"] = "reset"
    BY <1>s, <1>u, TypeFrame DEF ThreadType, Threads
  <2> QED
    BY <2>1 DEF InCallbackOf
<1>1. StateType'
  <2>1. AcctType'
    BY <1>a, <1>u, TypeFrame DEF AcctType
  <2>2. HeapType'
    BY <1>b, <1>u, TypeFrame DEF HeapType
  <2>3. ThreadType'
    BY <1>u, TypeFrame DEF ThreadType, Threads
  <2>4. HistType'
    BY <1>a, <1>u, TypeFrame DEF HistType
  <2> QED
    BY <1>u, <2>1, <2>2, <2>3, <2>4, TypeFrame, TypeParts DEF rtcVars
<1>2. QueueInv'
  BY ZenonT(40), <1>u, <1>c DEF BridgeInv, QueueInv
<1>3. RtcInv'
  BY <1>u, <1>c DEF BridgeInv, RtcInv
<1>4. ASSUME NEW k \in Legs PROVE LegInv(k)'
  <2>1. LegInv(k) /\ k /= None
    BY Domains DEF BridgeInv
  <2>3. CASE k = l
    BY SMTT(30), <1>a, <1>b, <1>e, <1>u, <2>1, <2>3 DEF LegInv
  <2>4. CASE k /= l
    <3>1. leg'[k] = leg[k] /\ ~leg[k].alive
      BY <1>b, <1>s, <2>1, <2>4 DEF LegInv
    <3> QED
      BY <1>a, <1>e, <1>u, <2>1, <3>1 DEF LegInv
  <2> QED
    BY <2>3, <2>4
<1>5. SipInv'
  BY <1>a DEF SipInv
<1>6. IncomingInv'
  BY <1>a DEF IncomingInv
<1>7. InviteInv'
  BY <1>a, <1>e, <1>s, <1>u DEF InviteInv
<1>8. ThreadInv'
  BY <1>a, <1>e DEF ThreadInv, Inviting
<1>9. TeardownInv'
  BY <1>e DEF TeardownInv
<1>10. HistoryInv'
  <2>1. NoFault'
    BY <1>a, <1>u DEF BridgeInv, HistoryInv, NoFault
  <2> QED
    BY <1>u, <1>c, <2>1, HistoryFrame
<1> QED
  BY <1>1, <1>2, <1>3, <1>4, <1>5, <1>6, <1>7, <1>8, <1>9, <1>10 DEF BridgeInv

\* and reset.
LEMMA StopResetPInv ==
    ASSUME BridgeInv, StopReset("P")
    PROVE  BridgeInv'
<1>s. /\ rtc = NoCall /\ rtc.call = None /\ events = <<>> /\ Elements(events) = {}
      /\ pc["R"] = "idle" /\ pc["M"] = "idle" /\ sipCall = None /\ nInvites > 0
      /\ \A k \in Legs : ~InCallbackOf(k)
      /\ incomingSipCall = None /\ stopping["P"] = "inc" /\ pc["P"] = "reset"
  <2>1. Inviting /\ pc["P"] = "reset"
    BY DEF StopReset, Inviting
  <2> QED
    BY <2>1, InviteFacts DEF BridgeInv, InviteInv
<1>u. /\ bridge' = None /\ isCallee' \in BOOLEAN
      /\ leg' = IF bridge = None THEN leg ELSE [leg EXCEPT ![bridge].bridgeLive = FALSE]
      /\ held' = [held EXCEPT !["P"] = None] /\ pc' = [pc EXCEPT !["P"] = "idle"]
      /\ UNCHANGED <<sipCall, incomingSipCall, activeCallId, nLegs, rtc, events,
                    nCalls, stopping, callback, nInvites, ended, bridged, dtmf,
                    faults>>
  BY <1>s DEF StopReset, rtcVars, histVars
<1>b. FreedLegs
  BY <1>u, Domains, TypeFrame, FreeLegs DEF AcctType
<1>c. \A k \in Legs : leg'[k].kind = leg[k].kind /\ leg'[k].call = leg[k].call
  BY <1>b DEF FreedLegs
<1>e. /\ pc'["R"] = "idle" /\ pc'["M"] = "idle" /\ pc'["P"] = "idle"
      /\ \A k \in Legs : ~InCallbackOf(k)' 
  <2>1. pc'["R"] = "idle" /\ pc'["M"] = "idle" /\ pc'["P"] = "idle"
    BY <1>s, <1>u, TypeFrame DEF ThreadType, Threads
  <2> QED
    BY <2>1 DEF InCallbackOf
<1>1. StateType'
  <2>1. AcctType'
    BY <1>u, TypeFrame DEF AcctType
  <2>2. HeapType'
    BY <1>b, <1>u, TypeFrame DEF HeapType, FreedLegs
  <2>3. ThreadType'
    BY <1>u, TypeFrame DEF ThreadType, Threads
  <2> QED
    BY <1>u, <2>1, <2>2, <2>3, TypeFrame, TypeParts DEF rtcVars, histVars
<1>2. QueueInv'
  BY <1>u, <1>c DEF BridgeInv, QueueInv
<1>3. RtcInv'
  BY <1>u, <1>c DEF BridgeInv, RtcInv
<1>4. ASSUME NEW k \in Legs PROVE LegInv(k)'
  <2>1. LegInv(k) /\ ~leg[k].alive
    BY <1>s, QuietLegs DEF BridgeInv
  <2> QED
    BY <1>b, <1>e, <1>s, <1>u, <2>1 DEF FreedLegs, LegInv
<1>5. SipInv'
  BY <1>s, <1>u DEF SipInv
<1>6. IncomingInv'
  BY <1>s, <1>u DEF IncomingInv
<1>7. InviteInv'
  BY <1>e DEF Inviting, InviteInv
<1>8. ThreadInv'
  BY <1>e, <1>s, <1>u DEF ThreadInv, Inviting
<1>9. TeardownInv'
  BY <1>e DEF TeardownInv
<1>10. HistoryInv'
  <2>1. NoFault'
    BY <1>u DEF BridgeInv, HistoryInv, NoFault
  <2> QED
    BY <1>u, <1>c, <2>1, HistoryFrame
<1> QED
  BY <1>1, <1>2, <1>3, <1>4, <1>5, <1>6, <1>7, <1>8, <1>9, <1>10 DEF BridgeInv

-----------------------------------------------------------------------------
(* P: the callbacks of a leg                                               *)

\* What holds in a callback.
LEMMA CallbackFacts ==
    ASSUME BridgeInv, pc["P"] \in {"callback", "flag"}
    PROVE  LET l == held["P"] IN
           /\ l \in Legs /\ leg[l].alive /\ InCallbackOf(l)
           /\ ~Inviting /\ pc["M"] = "idle"
           /\ nInvites = 0 => leg[l].bridgeLive
           /\ callback = "confirmed" =>
                l = sipCall /\ incomingSipCall = None /\ leg[l].call = activeCallId
           /\ callback = "disconnected" \/ pc["P"] = "flag" =>
                leg[l].dialog = "over" /\ leg[l].cb = {}
<1> DEFINE l == held["P"]
<1>1. l \in Legs
  BY TypeFrame DEF ThreadType, Threads, BridgeInv, ThreadInv
<1>2. InCallbackOf(l) /\ ~Inviting /\ pc["M"] = "idle"
  BY DEF InCallbackOf, Inviting, BridgeInv, TeardownInv
<1>3. LegInv(l)
  BY <1>1 DEF BridgeInv
<1>4. /\ leg[l].alive /\ (nInvites = 0 => leg[l].bridgeLive)
      /\ callback = "confirmed" => leg[l].kind = "dialled"
      /\ callback = "disconnected" \/ pc["P"] = "flag" =>
           leg[l].dialog = "over" /\ leg[l].cb = {}
      /\ l \in {sipCall, incomingSipCall}
  BY <1>2, <1>3 DEF LegInv
<1>5. callback = "confirmed" =>
        l = sipCall /\ incomingSipCall = None /\ leg[l].call = activeCallId
  BY <1>1, <1>4, Domains DEF BridgeInv, SipInv, IncomingInv
<1> QED
  BY <1>1, <1>2, <1>4, <1>5

\* A callback changes nothing else of the legs than weHungUp_, acceptSent_ and,
\* last, its own disconnected_.
SameLegs ==
    /\ leg' \in [Legs -> LegType]
    /\ \A k \in Legs :
         /\ leg'[k].kind = leg[k].kind /\ leg'[k].alive = leg[k].alive
         /\ leg'[k].bridgeLive = leg[k].bridgeLive
         /\ leg'[k].dialog = leg[k].dialog /\ leg'[k].cb = leg[k].cb
         /\ leg'[k].call = leg[k].call
         /\ leg[k].disconnected => leg'[k].disconnected
         /\ leg'[k].disconnected =>
              leg[k].disconnected \/ (pc["P"] = "flag" /\ k = held["P"])

\* It leaves RingRTC alone, accepts its call or ends it.
RtcSteps ==
    /\ rtc' \in [call : Calls \cup {None}, dir : {"none", "in", "out"},
                 st : {"none", "offered", "ringing", "connected"}]
    /\ rtc'.call = None => rtc' = NoCall
    /\ rtc'.st = "offered" => rtc' = rtc /\ events' = events
    /\ events' \in Seq(EventType)
    /\ Ordered(events') /\ RingsOnce(events') /\ EndComes(events', rtc'.call)
    /\ Elements(events) \subseteq Elements(events')
    /\ \A e \in Elements(events') :
         e \in Elements(events) \/ (e.call = nCalls /\ e.ev \in {"CONNECTED", "ENDED"})
    /\ \/ rtc'.call = rtc.call
       \/ rtc'.call = None /\ Event(rtc.call, "ENDED") \in Elements(events')
    /\ ended' \subseteq Calls

\* It returns, or goes on to set disconnected_.
CallbackMoves ==
    \/ /\ pc' = [pc EXCEPT !["P"] = "idle"]
       /\ held' = [held EXCEPT !["P"] = None]
       /\ callback' \in {"none", "confirmed", "media", "disconnected"}
    \/ /\ pc' = [pc EXCEPT !["P"] = "flag"]
       /\ callback = "disconnected" /\ pc["P"] = "callback"
       /\ held' = held /\ callback' = callback

\* If it joins the leg to a Signal call, the leg was made for that call.
JoinsOwnCall ==
    \/ bridged' = bridged
    \/ /\ bridged' = bridged \cup {<<rtc.call, held["P"]>>}
       /\ rtc.call /= None /\ leg[held["P"]].call = rtc.call

\* RingRTC's part of the invariant when a callback leaves it alone,
LEMMA RtcKept ==
    ASSUME BridgeInv, UNCHANGED <<rtc, events, ended>>
    PROVE  RtcSteps
<1>1. rtc.call = None => rtc = NoCall
  BY DEF BridgeInv, RtcInv
<1>2. Ordered(events) /\ RingsOnce(events) /\ EndComes(events, rtc.call)
  BY DEF BridgeInv, QueueInv
<1>3. ended \subseteq Calls /\ RtcType
  BY TypeFrame DEF HistType
<1> QED
  BY <1>1, <1>2, <1>3, Domains DEF RtcSteps, RtcType

\* hangs the call up,
LEMMA RtcHangup ==
    ASSUME BridgeInv, Hangup
    PROVE  RtcSteps
<1>1. CASE rtc.call = None
  BY <1>1, RtcKept DEF Hangup
<1>2. CASE rtc.call /= None
  <2>1. EndCurrentCall
    BY <1>2 DEF Hangup
  <2>2. /\ rtc' = NoCall /\ ended' \subseteq Calls
        /\ events' \in Seq(EventType) /\ Ordered(events') /\ RingsOnce(events')
        /\ EndComes(events', None)
        /\ Elements(events') = Elements(events) \cup {Event(nCalls, "ENDED")}
        /\ Event(nCalls, "ENDED").call = nCalls /\ Event(nCalls, "ENDED").ev = "ENDED"
        /\ rtc.call = nCalls
    BY <1>2, <2>1, EndEffect
  <2> QED
    BY <2>2 DEF RtcSteps, NoCall
<1> QED
  BY <1>1, <1>2

\* or accepts it.
LEMMA RtcAccept ==
    ASSUME BridgeInv, rtc.call /= None, rtc' = [rtc EXCEPT !.st = "connected"],
           events' = Append(events, Event(rtc.call, "CONNECTED")), ended' = ended
    PROVE  RtcSteps
<1>1. /\ rtc' \in [call : Calls \cup {None}, dir : {"none", "in", "out"},
                   st : {"none", "offered", "ringing", "connected"}]
      /\ rtc'.call = rtc.call /\ rtc'.st = "connected" /\ ended \subseteq Calls
  BY DEF BridgeInv, StateType, AcctType, HeapType, RtcType,
      ThreadType, HistType
<1>2. /\ events' \in Seq(EventType) /\ Ordered(events') /\ RingsOnce(events')
      /\ EndComes(events', rtc.call)
      /\ Elements(events') = Elements(events) \cup {Event(rtc.call, "CONNECTED")}
      /\ Event(rtc.call, "CONNECTED").call = nCalls
      /\ Event(rtc.call, "CONNECTED").ev = "CONNECTED"
  BY CurrentEvent DEF Events
<1> QED
  BY <1>1, <1>2 DEF RtcSteps

\* PJSIP enters a callback of a live leg.
LEMMA CallbackEnterInv ==
    ASSUME BridgeInv, NEW l \in Legs, NEW c \in {"confirmed", "media", "disconnected"}, CallbackEnter(l, c)
    PROVE  BridgeInv'
<1>u. /\ pc["P"] = "idle" /\ leg[l].alive /\ c \in leg[l].cb
      /\ c = "disconnected" => leg[l].cb = {"disconnected"}
      /\ pc' = [pc EXCEPT !["P"] = "callback"] /\ held' = [held EXCEPT !["P"] = l]
      /\ callback' = c
      /\ UNCHANGED <<sipCall, incomingSipCall, bridge, isCallee, activeCallId, nLegs,
                    rtc, events, nCalls, stopping, nInvites, ended, bridged, dtmf,
                    faults>>
  BY DEF CallbackEnter, acctVars, rtcVars, histVars
<1>b. /\ leg' \in [Legs -> LegType] /\ \A k \in Legs : k /= l => leg'[k] = leg[k]
      /\ leg'[l].kind = leg[l].kind /\ leg'[l].alive = leg[l].alive
      /\ leg'[l].bridgeLive = leg[l].bridgeLive /\ leg'[l].call = leg[l].call
      /\ leg'[l].disconnected = leg[l].disconnected
      /\ leg'[l].dialog = leg[l].dialog /\ leg'[l].cb = leg[l].cb \ {c}
  <2>1. leg' = [leg EXCEPT ![l].cb = @ \ {c}]
    BY DEF CallbackEnter
  <2> QED
    BY <2>1, Domains, EnterEffect DEF OnlyLeg
<1>c. \A k \in Legs : leg'[k].kind = leg[k].kind /\ leg'[k].call = leg[k].call
  BY <1>b
<1>d. \A k \in Legs : /\ leg[k].dialog = "none" => leg'[k].dialog = "none"
                      /\ leg[k].disconnected => leg'[k].disconnected
                      /\ leg'[k].dialog = leg[k].dialog
  BY <1>b
<1>e. /\ pc'["R"] = pc["R"] /\ pc'["M"] = pc["M"] /\ pc'["P"] = "callback"
      /\ held'["P"] = l /\ held'["R"] = held["R"]
      /\ ~Inviting /\ ~Inviting' /\ pc["M"] = "idle"
      /\ \A k \in Legs : InCallbackOf(k)' <=> k = l
  <2>1. pc'["R"] = pc["R"] /\ pc'["M"] = pc["M"] /\ pc'["P"] = "callback"
        /\ held'["P"] = l /\ held'["R"] = held["R"]
    BY <1>u, TypeFrame DEF ThreadType, Threads
  <2>2. pc["M"] = "idle"
    BY <1>u, QuietLegs DEF BridgeInv, TeardownInv
  <2> QED
    BY <1>u, <2>1, <2>2 DEF InCallbackOf, Inviting
<1>1. StateType'
  <2>1. HeapType'
    BY <1>u, <1>b, TypeFrame DEF HeapType
  <2>2. ThreadType'
    BY <1>u, TypeFrame DEF ThreadType, Threads
  <2> QED
    BY <1>u, <2>1, <2>2, TypeFrame, TypeParts DEF acctVars, rtcVars, histVars
<1>2. QueueInv'
  BY <1>u, <1>c DEF BridgeInv, QueueInv
<1>3. RtcInv'
  BY <1>u, <1>c DEF BridgeInv, RtcInv
<1>4. ASSUME NEW k \in Legs PROVE LegInv(k)'
  <2>1. LegInv(k)
    BY DEF BridgeInv
  <2>2. CASE k = l
    BY ZenonT(40), <1>b, <1>e, <1>u, <2>1, <2>2 DEF LegInv
  <2>3. CASE k /= l
    <3>1. leg'[k] = leg[k] /\ ~InCallbackOf(k)'
      BY <1>b, <1>e, <2>3
    <3> QED
      BY <1>u, <2>1, <3>1 DEF LegInv
  <2> QED
    BY <2>2, <2>3
<1>5. SipInv'
  BY <1>u, <1>c, <1>e, Domains DEF BridgeInv, SipInv, StopsSip
<1>6. IncomingInv'
  BY <1>u, <1>c, <1>d, <1>e, Domains DEF BridgeInv, IncomingInv
<1>7. InviteInv'
  BY <1>e DEF InviteInv
<1>8. ThreadInv'
  <2>1. l /= None
    BY Domains
  <2> QED
    BY <1>d, <1>e, <1>u, <2>1, ThreadFrame
<1>9. TeardownInv'
  BY <1>e DEF TeardownInv
<1>10. HistoryInv'
  <2>1. NoFault'
    BY <1>u DEF BridgeInv, HistoryInv, NoFault
  <2> QED
    BY <1>u, <1>c, <2>1, HistoryFrame
<1> QED
  BY <1>1, <1>2, <1>3, <1>4, <1>5, <1>6, <1>7, <1>8, <1>9, <1>10 DEF BridgeInv

\* A callback runs, up to its end or to the setting of disconnected_.
LEMMA CallbackStepInv ==
    ASSUME BridgeInv, pc["P"] \in {"callback", "flag"}, SameLegs, RtcSteps, NoFault',
           CallbackMoves, JoinsOwnCall,
           UNCHANGED <<sipCall, incomingSipCall, bridge, isCallee, activeCallId, nLegs,
                       nCalls, stopping, nInvites, dtmf>>
    PROVE  BridgeInv'
<1> DEFINE l == held["P"]
<1>u. UNCHANGED <<sipCall, incomingSipCall, bridge, isCallee, activeCallId, nLegs,
                 nCalls, stopping, nInvites, dtmf>>
  OBVIOUS
<1>s. /\ l \in Legs /\ leg[l].alive /\ InCallbackOf(l)
      /\ ~Inviting /\ pc["M"] = "idle"
      /\ callback = "disconnected" \/ pc["P"] = "flag" =>
           leg[l].dialog = "over" /\ leg[l].cb = {}
  BY CallbackFacts
<1>b. SameLegs
  OBVIOUS
<1>r. RtcSteps
  OBVIOUS
<1>c. \A k \in Legs : leg'[k].kind = leg[k].kind /\ leg'[k].call = leg[k].call
  BY <1>b DEF SameLegs
<1>e. /\ pc'["R"] = pc["R"] /\ pc'["M"] = "idle" /\ held'["R"] = held["R"]
      /\ ~Inviting'
      /\ \/ pc'["P"] = "idle"
         \/ /\ pc'["P"] = "flag" /\ held'["P"] = l /\ callback = "disconnected"
            /\ pc["P"] = "callback" /\ callback' = callback
  <2>1. /\ pc'["R"] = pc["R"] /\ pc'["M"] = "idle" /\ held'["R"] = held["R"]
        /\ \/ pc'["P"] = "idle"
           \/ /\ pc'["P"] = "flag" /\ held'["P"] = l /\ callback = "disconnected"
              /\ pc["P"] = "callback" /\ callback' = callback
    BY <1>s, TypeFrame DEF CallbackMoves, ThreadType, Threads
  <2> QED
    BY <2>1 DEF Inviting
<1>f. \A k \in Legs : /\ InCallbackOf(k)' => k = l /\ InCallbackOf(k) /\ pc["P"] = "callback"
                      /\ InCallbackOf(k) => k = l
  BY <1>e, <1>s DEF InCallbackOf
<1>1. StateType'
  <2>1. HeapType'
    BY <1>b, <1>u, TypeFrame DEF HeapType, SameLegs
  <2>2. RtcType'
    BY <1>r, <1>u, TypeFrame DEF RtcSteps, RtcType, EventType
  <2>3. ThreadType'
    <3>1. /\ pc \in [Threads -> {"idle", "makeCall", "stop", "poll", "delete", "reset",
                               "create", "ring", "resolve", "startCall", "callback",
                               "flag", "destroy", "erase", "gone"}]
          /\ held \in [Threads -> Legs \cup {None}]
          /\ stopping \in [Threads -> {"sip", "inc"}]
          /\ callback \in {"none", "confirmed", "media", "disconnected"}
      BY TypeFrame DEF ThreadType
    <3>2. CASE pc' = [pc EXCEPT !["P"] = "idle"] /\ held' = [held EXCEPT !["P"] = None]
               /\ callback' \in {"none", "confirmed", "media", "disconnected"}
      BY <1>u, <3>1, <3>2 DEF ThreadType
    <3>3. CASE pc' = [pc EXCEPT !["P"] = "flag"] /\ held' = held /\ callback' = callback
      BY <1>u, <3>1, <3>3 DEF ThreadType
    <3> QED
      BY <3>2, <3>3 DEF CallbackMoves
  <2>4. HistType'
    <3>1. rtc.call /= None => <<rtc.call, l>> \in Calls \X Legs
      BY <1>s, Domains
    <3> QED
      BY <1>r, <1>u, <3>1, TypeFrame DEF HistType, RtcSteps, JoinsOwnCall,
          NoFault
  <2> QED
    BY <1>u, <2>1, <2>2, <2>3, <2>4, TypeFrame, TypeParts DEF acctVars
<1>2. QueueInv'
  <2>1. \A e \in Elements(events') :
          /\ e.call <= nCalls /\ activeCallId <= e.call
          /\ e.ev = "RINGING" => e \in Elements(events)
    <3>1. \A e \in Elements(events') :
            e \in Elements(events) \/ (e.call = nCalls /\ e.ev \in {"CONNECTED", "ENDED"})
      BY <1>r DEF RtcSteps
    <3>2. activeCallId <= nCalls /\ nCalls \in Nat
      BY Domains DEF BridgeInv, RtcInv
    <3>3. \A e \in Elements(events) : e.call <= nCalls /\ activeCallId <= e.call
      BY DEF BridgeInv, QueueInv
    <3>4. ASSUME NEW e \in Elements(events') PROVE e.call <= nCalls /\ activeCallId <= e.call
      <4>1. CASE e \in Elements(events)
        BY <3>3, <4>1
      <4>2. CASE e.call = nCalls
        BY <3>2, <4>2
      <4> QED
        BY <3>1, <4>1, <4>2
    <3> QED
      BY <3>1, <3>4
  <2>2. Ordered(events') /\ RingsOnce(events') /\ EndComes(events', rtc'.call)
    BY <1>r DEF RtcSteps
  <2>3. ASSUME NEW e \in Elements(events'), e.ev = "RINGING", NEW k \in Legs,
               leg'[k].kind = "dialled"
        PROVE  leg'[k].call /= e.call
    <3>1. e \in Elements(events) /\ leg[k].kind = "dialled"
      BY <1>c, <2>1, <2>3
    <3>2. leg[k].call /= e.call
      BY <2>3, <3>1 DEF BridgeInv, QueueInv
    <3> QED
      BY <1>c, <3>2
  <2> QED
    BY <1>u, <2>1, <2>2, <2>3 DEF QueueInv
<1>3. RtcInv'
  BY <1>c, <1>r, <1>u DEF RtcSteps, BridgeInv, RtcInv
<1>4. ASSUME NEW k \in Legs PROVE LegInv(k)'
  <2>1. LegInv(k)
    BY DEF BridgeInv
  <2>2. /\ leg'[k].kind = leg[k].kind /\ leg'[k].alive = leg[k].alive
        /\ leg'[k].bridgeLive = leg[k].bridgeLive
        /\ leg'[k].dialog = leg[k].dialog /\ leg'[k].cb = leg[k].cb
        /\ leg'[k].call = leg[k].call
        /\ leg'[k].disconnected => leg[k].disconnected \/ (pc["P"] = "flag" /\ k = l)
    BY <1>b DEF SameLegs
  <2>3. leg'[k].disconnected =>
          leg[k].dialog = "over" /\ leg[k].cb = {} /\ ~InCallbackOf(k)'
    BY <1>f, <1>s, <2>1, <2>2 DEF LegInv
  <2>4. InCallbackOf(k)' =>
          /\ leg[k].alive /\ leg[k].dialog = "over" /\ leg[k].cb = {}
          /\ callback' = "disconnected"
    BY <1>e, <1>f, <1>s DEF InCallbackOf
  <2> QED
    BY <1>f, <1>u, <2>1, <2>2, <2>3, <2>4 DEF LegInv
<1>5. SipInv'
  <2>1. \/ rtc'.call = rtc.call
        \/ Event(rtc.call, "ENDED") \in Elements(events')
    BY <1>r DEF RtcSteps
  <2>2. Elements(events) \subseteq Elements(events')
    BY <1>r DEF RtcSteps
  <2> QED
    BY <1>c, <1>e, <1>u, <2>1, <2>2, Domains DEF BridgeInv, SipInv, StopsSip
<1>6. IncomingInv'
  <2>1. \A e \in Elements(events') :
          e \in Elements(events) \/ (e.call = nCalls /\ e.ev /= "INCOMING_AUDIO")
    BY <1>r DEF RtcSteps
  <2>2. incomingSipCall /= None =>
          /\ leg'[incomingSipCall].kind = leg[incomingSipCall].kind
          /\ leg'[incomingSipCall].call = leg[incomingSipCall].call
          /\ leg'[incomingSipCall].dialog = leg[incomingSipCall].dialog
    BY <1>b, Domains DEF SameLegs
  <2>3. \A e \in Elements(events') : ~Inviting /\ incomingSipCall /= None =>
          e.call = nCalls /\ e.ev /= "INCOMING_AUDIO"
    BY <2>1 DEF BridgeInv, IncomingInv
  <2> QED
    BY <1>s, <1>u, <2>2, <2>3 DEF BridgeInv, IncomingInv
<1>7. InviteInv'
  BY <1>e DEF InviteInv
<1>8. ThreadInv'
  <2>1. \A k \in Legs : /\ leg[k].dialog = "none" => leg'[k].dialog = "none"
                        /\ leg[k].disconnected => leg'[k].disconnected
    BY <1>b DEF SameLegs
  <2>2. /\ sipCall' = sipCall /\ incomingSipCall' = incomingSipCall
        /\ pc'["R"] = pc["R"] /\ held'["R"] = held["R"]
        /\ stopping'["R"] = stopping["R"]
        /\ pc'["P"] \in {"idle", "callback", "flag", "create", "ring", "resolve",
                        "startCall", "stop", "poll", "delete", "reset"}
        /\ pc'["P"] \in {"callback", "flag"} => held'["P"] /= None
    BY <1>e, <1>s, <1>u, Domains
  <2> QED
    BY <2>1, <2>2, ThreadFrame
<1>9. TeardownInv'
  BY <1>e DEF TeardownInv
<1>10. HistoryInv'
  <2>2. ASSUME NEW p \in bridged' PROVE p[1] /= None /\ leg'[p[2]].call = p[1]
    <3>1. CASE p \in bridged
      <4>1. p[2] \in Legs
        BY <3>1, TypeFrame DEF HistType
      <4> QED
        BY <1>c, <3>1, <4>1 DEF BridgeInv, HistoryInv
    <3>2. CASE p = <<rtc.call, l>> /\ rtc.call /= None /\ leg[l].call = rtc.call
      BY <1>c, <1>s, <3>2
    <3> QED
      BY <3>1, <3>2 DEF JoinsOwnCall
  <2>3. dtmf'.leg /= None => dtmf'.from /= None /\ leg'[dtmf'.leg].call = dtmf'.from
    <3>1. dtmf.leg /= None => dtmf.leg \in Legs
      BY TypeFrame DEF HistType
    <3> QED
      BY <1>u, <1>c, <3>1 DEF BridgeInv, HistoryInv
  <2> QED
    BY <2>2, <2>3 DEF HistoryInv
<1> QED
  BY <1>1, <1>2, <1>3, <1>4, <1>5, <1>6, <1>7, <1>8, <1>9, <1>10 DEF BridgeInv

\* The leg part of a callback: one flag of its own leg changes.
LEMMA CallbackLegs ==
    ASSUME BridgeInv, pc["P"] \in {"callback", "flag"},
           \/ leg' = leg
           \/ leg' = [leg EXCEPT ![held["P"]].acceptSent = TRUE]
           \/ \E b \in BOOLEAN : leg' = [leg EXCEPT ![held["P"]].weHungUp = b]
           \/ pc["P"] = "flag" /\ leg' = [leg EXCEPT ![held["P"]].disconnected = TRUE]
    PROVE  SameLegs
<1> DEFINE l == held["P"]
<1>1. l \in Legs /\ leg \in [Legs -> LegType]
  BY CallbackFacts, Domains
<1>2. CASE leg' = leg
  BY <1>1, <1>2 DEF SameLegs
<1>3. CASE leg' = [leg EXCEPT ![l].acceptSent = TRUE]
  <2> HIDE DEF l
  <2>1. /\ OnlyLeg(l)
        /\ leg'[l].kind = leg[l].kind /\ leg'[l].alive = leg[l].alive
        /\ leg'[l].bridgeLive = leg[l].bridgeLive
        /\ leg'[l].dialog = leg[l].dialog /\ leg'[l].cb = leg[l].cb
        /\ leg'[l].call = leg[l].call
        /\ leg'[l].disconnected = leg[l].disconnected
    BY <1>1, <1>3, AcceptEffect
  <2> QED
    BY <2>1 DEF OnlyLeg, SameLegs
<1>4. ASSUME NEW b \in BOOLEAN, leg' = [leg EXCEPT ![l].weHungUp = b]
      PROVE  SameLegs
  <2> HIDE DEF l
  <2>1. /\ OnlyLeg(l)
        /\ leg'[l].kind = leg[l].kind /\ leg'[l].alive = leg[l].alive
        /\ leg'[l].bridgeLive = leg[l].bridgeLive
        /\ leg'[l].dialog = leg[l].dialog /\ leg'[l].cb = leg[l].cb
        /\ leg'[l].call = leg[l].call
        /\ leg'[l].disconnected = leg[l].disconnected
    BY <1>1, <1>4, HungUpFlagEffect
  <2> QED
    BY <2>1 DEF OnlyLeg, SameLegs
<1>5. CASE pc["P"] = "flag" /\ leg' = [leg EXCEPT ![l].disconnected = TRUE]
  <2>1. l = held["P"]
    OBVIOUS
  <2> HIDE DEF l
  <2>2. /\ OnlyLeg(l)
        /\ leg'[l].kind = leg[l].kind /\ leg'[l].alive = leg[l].alive
        /\ leg'[l].bridgeLive = leg[l].bridgeLive
        /\ leg'[l].dialog = leg[l].dialog /\ leg'[l].cb = leg[l].cb
        /\ leg'[l].call = leg[l].call /\ leg'[l].disconnected = TRUE
    BY <1>1, <1>5, FlagEffect
  <2> QED
    BY <1>5, <2>1, <2>2 DEF OnlyLeg, SameLegs
<1> QED
  BY <1>2, <1>3, <1>4, <1>5

\* The legs' fault-free use in a callback.
LEMMA CallbackFaults ==
    ASSUME BridgeInv, pc["P"] \in {"callback", "flag"}, nInvites' = nInvites,
           \/ faults' = faults \cup UseLeg(held["P"])
           \/ faults' = faults \cup UseLeg(held["P"]) \cup UseBridge(held["P"])
    PROVE  NoFault'
<1>1. /\ UseLeg(held["P"]) = {}
      /\ UseBridge(held["P"]) \subseteq IF nInvites = 0 THEN {}
                                        ELSE {"bridge used after free"}
  BY CallbackFacts DEF UseLeg, UseBridge
<1> QED
  BY <1>1 DEF BridgeInv, HistoryInv, NoFault

\* onCallState(CONFIRMED): accept the call, or hang up what has none.
LEMMA OnConfirmedInv ==
    ASSUME BridgeInv, OnConfirmed
    PROVE  BridgeInv'
<1> DEFINE l == held["P"]
<1>1. /\ pc["P"] = "callback" /\ callback = "confirmed"
      /\ faults' = faults \cup UseLeg(l)
      /\ leg' = [leg EXCEPT ![l].acceptSent = TRUE]
      /\ UNCHANGED <<sipCall, incomingSipCall, bridge, isCallee, activeCallId, nLegs,
                     nCalls, stopping, nInvites, ended, dtmf>>
  BY DEF OnConfirmed, InCallback, acctVars
<1>2. \/ UNCHANGED <<rtc, events, bridged>>
      \/ /\ rtc.call = activeCallId /\ rtc.st = "ringing"
         /\ rtc' = [rtc EXCEPT !.st = "connected"]
         /\ events' = Append(events, Event(rtc.call, "CONNECTED"))
         /\ bridged' = bridged \cup {<<rtc.call, l>>}
  BY DEF OnConfirmed
<1>3. SameLegs /\ NoFault'
  BY <1>1, CallbackLegs, CallbackFaults
<1>4. CallbackMoves
  BY DEF OnConfirmed, CallbackLeave, CallbackMoves
<1>5. CASE UNCHANGED <<rtc, events, bridged>>
  <2>1. RtcSteps /\ JoinsOwnCall
    BY <1>1, <1>5, RtcKept DEF JoinsOwnCall
  <2> QED
    BY <1>1, <1>3, <1>4, <2>1, CallbackStepInv
<1>6. CASE /\ rtc.call = activeCallId /\ rtc.st = "ringing"
           /\ rtc' = [rtc EXCEPT !.st = "connected"]
           /\ events' = Append(events, Event(rtc.call, "CONNECTED"))
           /\ bridged' = bridged \cup {<<rtc.call, l>>}
  <2>1. rtc.call /= None
    BY <1>6 DEF BridgeInv, RtcInv, NoCall
  <2>2. leg[l].call = activeCallId
    BY <1>1, CallbackFacts
  <2>3. RtcSteps
    BY <1>1, <1>6, <2>1, RtcAccept
  <2>4. JoinsOwnCall
    BY <1>6, <2>1, <2>2 DEF JoinsOwnCall
  <2> QED
    BY <1>1, <1>3, <1>4, <2>3, <2>4, CallbackStepInv
<1> QED
  BY <1>2, <1>5, <1>6

\* onCallMediaState().
LEMMA OnMediaInv ==
    ASSUME BridgeInv, OnMedia
    PROVE  BridgeInv'
<1>1. /\ pc["P"] = "callback"
      /\ faults' = faults \cup UseLeg(held["P"]) \cup UseBridge(held["P"])
      /\ UNCHANGED <<sipCall, incomingSipCall, bridge, isCallee, activeCallId, leg,
                     nLegs, rtc, events, nCalls, stopping, nInvites, ended, bridged,
                     dtmf>>
  BY DEF OnMedia, acctVars, heapVars, rtcVars
<1>2. SameLegs /\ NoFault'
  BY <1>1, CallbackLegs, CallbackFaults
<1>3. CallbackMoves
  BY DEF OnMedia, CallbackLeave, CallbackMoves
<1>4. RtcSteps /\ JoinsOwnCall
  BY <1>1, RtcKept DEF JoinsOwnCall
<1> QED
  BY <1>1, <1>2, <1>3, <1>4, CallbackStepInv

\* onCallState(DISCONNECTED): hang the Signal call up.
LEMMA OnDisconnectedInv ==
    ASSUME BridgeInv, OnDisconnected
    PROVE  BridgeInv'
<1> DEFINE l == held["P"]
<1>1. /\ pc["P"] = "callback" /\ callback = "disconnected"
      /\ faults' = faults \cup UseLeg(l)
      /\ pc' = [pc EXCEPT !["P"] = "flag"]
      /\ leg' = [leg EXCEPT ![l].weHungUp = leg[l].weHungUp \/ leg[l].kind = "invite"]
      /\ UNCHANGED <<sipCall, incomingSipCall, bridge, isCallee, activeCallId, nLegs,
                     nCalls, held, stopping, callback, nInvites, bridged, dtmf>>
  BY DEF OnDisconnected, InCallback, acctVars
<1>2. RtcSteps
  BY RtcKept, RtcHangup DEF OnDisconnected
<1>3. \E b \in BOOLEAN : leg' = [leg EXCEPT ![l].weHungUp = b]
  BY <1>1
<1>4. SameLegs /\ NoFault'
  BY <1>1, <1>3, CallbackLegs, CallbackFaults
<1>5. CallbackMoves /\ JoinsOwnCall
  BY <1>1 DEF CallbackMoves, JoinsOwnCall
<1> QED
  BY <1>1, <1>2, <1>4, <1>5, CallbackStepInv

\* disconnected_ = true, the last thing a leg's callbacks do.
LEMMA OnDisconnectedFlagInv ==
    ASSUME BridgeInv, OnDisconnectedFlag
    PROVE  BridgeInv'
<1>1. /\ pc["P"] = "flag" /\ faults' = faults \cup UseLeg(held["P"])
      /\ leg' = [leg EXCEPT ![held["P"]].disconnected = TRUE]
      /\ UNCHANGED <<sipCall, incomingSipCall, bridge, isCallee, activeCallId,
                     nLegs, rtc, events, nCalls, stopping, nInvites, ended, bridged,
                     dtmf>>
  BY DEF OnDisconnectedFlag, acctVars, rtcVars
<1>2. SameLegs /\ NoFault'
  BY <1>1, CallbackLegs, CallbackFaults
<1>3. CallbackMoves
  BY DEF OnDisconnectedFlag, CallbackLeave, CallbackMoves
<1>4. RtcSteps /\ JoinsOwnCall
  BY <1>1, RtcKept DEF JoinsOwnCall
<1> QED
  BY <1>1, <1>2, <1>3, <1>4, CallbackStepInv

-----------------------------------------------------------------------------
(* DTMF and teardownAccount()                                              *)

\* The leg that DTMF finds belongs to the active call.
LEMMA DtmfInv ==
    ASSUME BridgeInv, Dtmf
    PROVE  BridgeInv'
<1> DEFINE l == DtmfLeg
<1>u. /\ activeCallId /= None /\ l /= None /\ (~leg[l].alive \/ leg[l].dialog = "confirmed")
      /\ faults' = faults \cup UseLeg(l) /\ dtmf' = [from |-> activeCallId, leg |-> l]
      /\ UNCHANGED <<sipCall, incomingSipCall, bridge, isCallee, activeCallId, leg,
                    nLegs, rtc, events, nCalls, pc, held, stopping, callback,
                    nInvites, ended, bridged>>
  BY DEF Dtmf, acctVars, heapVars, rtcVars, threadVars
<1>a. /\ l \in Legs /\ leg[l].call = activeCallId /\ faults' = faults
  <2>1. l \in Legs /\ leg[l].alive
    BY <1>u, Domains DEF DtmfLeg, BridgeInv, LegInv
  <2>2. faults' = faults
    BY <1>u, <2>1 DEF UseLeg
  <2>3. CASE sipCall /= None
    BY <2>1, <2>2, <2>3 DEF DtmfLeg, BridgeInv, SipInv
  <2>4. CASE sipCall = None
    <3>1. l = incomingSipCall /\ leg[incomingSipCall].dialog = "confirmed"
      BY <1>u, <2>1, <2>4 DEF DtmfLeg
    <3>2. ~Inviting
      BY <1>u, <3>1 DEF BridgeInv, InviteInv, Inviting
    <3> QED
      BY <1>u, <2>1, <2>2, <3>1, <3>2 DEF BridgeInv, IncomingInv
  <2> QED
    BY <2>3, <2>4
<1>1. StateType'
  <2>1. HistType'
    BY <1>a, <1>u, TypeFrame DEF AcctType, HistType
  <2> QED
    BY <1>u, <2>1, TypeFrame, TypeParts DEF acctVars, heapVars, rtcVars, threadVars
<1>2. QueueInv'
  BY <1>u DEF BridgeInv, QueueInv
<1>3. RtcInv'
  BY <1>u DEF BridgeInv, RtcInv
<1>4. ASSUME NEW k \in Legs PROVE LegInv(k)'
  <2>1. LegInv(k)
    BY DEF BridgeInv
  <2> QED
    BY <1>u, <2>1 DEF LegInv, InCallbackOf
<1>5. SipInv'
  BY <1>u DEF BridgeInv, SipInv, StopsSip, Inviting
<1>6. IncomingInv'
  BY <1>u DEF BridgeInv, IncomingInv, Inviting
<1>7. InviteInv'
  BY <1>u DEF BridgeInv, InviteInv, Inviting
<1>8. ThreadInv'
  BY <1>u DEF BridgeInv, ThreadInv, Inviting, Pointer
<1>9. TeardownInv'
  BY <1>u DEF BridgeInv, TeardownInv
<1>10. HistoryInv'
  BY <1>a, <1>u DEF BridgeInv, HistoryInv, NoFault
<1> QED
  BY <1>1, <1>2, <1>3, <1>4, <1>5, <1>6, <1>7, <1>8, <1>9, <1>10 DEF BridgeInv

\* teardownAccount() moves on when nothing else does.
LEMMA TeardownStepInv ==
    ASSUME BridgeInv, rtc = NoCall, events = <<>>, pc["R"] = "idle", pc["P"] = "idle",
           sipCall = None, incomingSipCall = None,
           \E x \in {"stop", "reset", "destroy", "erase", "gone"} :
               pc' = [pc EXCEPT !["M"] = x],
           FreedLegs, bridge' \in Legs \cup {None}, isCallee' \in BOOLEAN,
           held' \in [Threads -> Legs \cup {None}],
           stopping' \in [Threads -> {"sip", "inc"}], ended' \subseteq Calls,
           UNCHANGED <<sipCall, incomingSipCall, activeCallId, nLegs, rtc, events, nCalls,
                       callback, nInvites, bridged, dtmf, faults>>
    PROVE  BridgeInv'
<1>u. /\ rtc = NoCall /\ events = <<>> /\ sipCall = None /\ incomingSipCall = None
      /\ ended' \subseteq Calls
      /\ UNCHANGED <<sipCall, incomingSipCall, activeCallId, nLegs, rtc, events,
                    nCalls, callback, nInvites, bridged, dtmf, faults>>
  OBVIOUS
<1>b. FreedLegs
  OBVIOUS
<1>c. \A k \in Legs : leg'[k].kind = leg[k].kind /\ leg'[k].call = leg[k].call
  BY <1>b DEF FreedLegs
<1>e. /\ pc'["R"] = "idle" /\ pc'["P"] = "idle"
      /\ pc'["M"] \in {"stop", "reset", "destroy", "erase", "gone"}
      /\ \A k \in Legs : ~InCallbackOf(k)' 
  <2>1. /\ pc'["R"] = "idle" /\ pc'["P"] = "idle"
        /\ pc'["M"] \in {"stop", "reset", "destroy", "erase", "gone"}
    BY TypeFrame DEF ThreadType, Threads
  <2> QED
    BY <2>1 DEF InCallbackOf
<1>1. StateType'
  <2>1. AcctType'
    BY <1>u, TypeFrame DEF AcctType
  <2>2. HeapType'
    BY <1>b, <1>u, TypeFrame DEF HeapType, FreedLegs
  <2>3. ThreadType'
    BY <1>u, TypeFrame DEF ThreadType, Threads
  <2>4. HistType'
    BY <1>u, TypeFrame DEF HistType
  <2> QED
    BY <1>u, <2>1, <2>2, <2>3, <2>4, TypeFrame, TypeParts DEF rtcVars
<1>2. QueueInv'
  BY <1>u, <1>c DEF BridgeInv, QueueInv
<1>3. RtcInv'
  BY <1>u, <1>c DEF BridgeInv, RtcInv
<1>4. ASSUME NEW k \in Legs PROVE LegInv(k)'
  <2>1. LegInv(k) /\ ~leg[k].alive
    BY <1>u, QuietLegs DEF BridgeInv
  <2> QED
    BY <1>b, <1>e, <1>u, <2>1 DEF FreedLegs, LegInv
<1>5. SipInv'
  BY <1>u DEF SipInv
<1>6. IncomingInv'
  BY <1>u DEF IncomingInv
<1>7. InviteInv'
  BY <1>e DEF InviteInv, Inviting
<1>8. ThreadInv'
  BY <1>e DEF ThreadInv
<1>9. TeardownInv'
  BY <1>e, <1>u DEF TeardownInv
<1>10. HistoryInv'
  <2>1. NoFault'
    BY <1>u DEF BridgeInv, HistoryInv, NoFault
  <2> QED
    BY <1>u, <1>c, <2>1, HistoryFrame
<1> QED
  BY <1>1, <1>2, <1>3, <1>4, <1>5, <1>6, <1>7, <1>8, <1>9, <1>10 DEF BridgeInv

\* teardownAccount(): without a race it finds no leg.
LEMMA TeardownInvs ==
    ASSUME BridgeInv, races' = {},
           \/ TeardownBegin \/ TeardownDestroy \/ TeardownErase \/ Stop("M")
    PROVE  BridgeInv'
<1> DEFINE Moves == \E x \in {"stop", "reset", "destroy", "erase", "gone"} :
                        pc' = [pc EXCEPT !["M"] = x]
           Same == UNCHANGED <<sipCall, incomingSipCall, activeCallId, nLegs, rtc,
                               events, nCalls, callback, nInvites, bridged, dtmf, faults>>
<1>1. /\ leg \in [Legs -> LegType] /\ bridge \in Legs \cup {None}
      /\ isCallee \in BOOLEAN /\ held \in [Threads -> Legs \cup {None}]
      /\ stopping \in [Threads -> {"sip", "inc"}] /\ ended \subseteq Calls
      /\ "M" \in Threads /\ stopping["M"] \in {"sip", "inc"}
  BY TypeFrame, Domains DEF AcctType, ThreadType, HistType, Threads
<1>2. /\ rtc = NoCall /\ events = <<>> /\ pc["R"] = "idle" /\ pc["P"] = "idle"
      /\ sipCall = None /\ incomingSipCall = None
  <2>1. CASE TeardownBegin
    BY <2>1 DEF TeardownBegin, RaceUnless, Race, Quiet, Threads
  <2>2. CASE TeardownDestroy \/ TeardownErase \/ Stop("M")
    BY <2>2 DEF TeardownDestroy, TeardownErase, Stop, StopHangup, StopDisconnected,
        StopPollExpires, StopDelete, StopReset, BridgeInv, TeardownInv
  <2> QED
    BY <2>1, <2>2
<1>3. leg' = leg => FreedLegs
  BY <1>1 DEF FreedLegs
<1>4. CASE TeardownBegin
  <2>1. /\ Moves /\ Same /\ leg' = leg /\ bridge' = bridge /\ isCallee' = isCallee
        /\ held' = held /\ stopping' \in [Threads -> {"sip", "inc"}] /\ ended' = ended
    BY <1>1, <1>4 DEF TeardownBegin, acctVars, heapVars, rtcVars, histVars
  <2> HIDE DEF Moves, Same
  <2>2. /\ FreedLegs /\ bridge' \in Legs \cup {None} /\ isCallee' \in BOOLEAN
        /\ held' \in [Threads -> Legs \cup {None}] /\ ended' \subseteq Calls
    BY <1>1, <1>3, <2>1
  <2> QED
    BY <1>2, <2>1, <2>2, TeardownStepInv DEF Moves, Same
<1>5. CASE TeardownDestroy
  <2>1. rtc.call = None
    BY <1>2 DEF NoCall
  <2>2. /\ Moves /\ Same /\ leg' = leg /\ bridge' = bridge /\ isCallee' = isCallee
        /\ held' = held /\ stopping' = stopping /\ ended' = ended
    BY <1>2, <1>5, <2>1 DEF TeardownDestroy, acctVars, heapVars
  <2> HIDE DEF Moves, Same
  <2>3. /\ FreedLegs /\ bridge' \in Legs \cup {None} /\ isCallee' \in BOOLEAN
        /\ held' \in [Threads -> Legs \cup {None}] /\ ended' \subseteq Calls
        /\ stopping' \in [Threads -> {"sip", "inc"}]
    BY <1>1, <1>3, <2>2
  <2> QED
    BY <1>2, <2>2, <2>3, TeardownStepInv DEF Moves, Same
<1>6. CASE TeardownErase
  <2>1. \A l \in Legs : ~leg[l].alive
    BY <1>2, QuietLegs
  <2>2. /\ Moves /\ Same /\ leg' = leg /\ bridge' = bridge /\ isCallee' = isCallee
        /\ held' = held /\ stopping' = stopping /\ ended' = ended
    BY <1>2, <1>6, <2>1 DEF TeardownErase, acctVars, heapVars, rtcVars
  <2> HIDE DEF Moves, Same
  <2>3. /\ FreedLegs /\ bridge' \in Legs \cup {None} /\ isCallee' \in BOOLEAN
        /\ held' \in [Threads -> Legs \cup {None}] /\ ended' \subseteq Calls
        /\ stopping' \in [Threads -> {"sip", "inc"}]
    BY <1>1, <1>3, <2>2
  <2> QED
    BY <1>2, <2>2, <2>3, TeardownStepInv DEF Moves, Same
<1>7. CASE Stop("M")
  <2>1. pc["M"] \notin {"poll", "delete"}
    BY DEF BridgeInv, TeardownInv
  <2>2. StopHangup("M") \/ StopReset("M")
    BY <1>7, <2>1 DEF Stop, StopDisconnected, StopPollExpires, StopDelete
  <2>3. CASE StopHangup("M")
    <3>1. Pointer(stopping["M"]) = None
      BY <1>2 DEF Pointer
    <3>2. /\ Moves /\ Same /\ leg' = leg /\ bridge' = bridge /\ isCallee' = isCallee
          /\ held' = held /\ stopping' = stopping /\ ended' = ended
      BY <2>3, <3>1 DEF StopHangup, acctVars, rtcVars
    <3> HIDE DEF Moves, Same
    <3>3. /\ FreedLegs /\ bridge' \in Legs \cup {None} /\ isCallee' \in BOOLEAN
          /\ held' \in [Threads -> Legs \cup {None}] /\ ended' \subseteq Calls
          /\ stopping' \in [Threads -> {"sip", "inc"}]
      BY <1>1, <1>3, <3>2
    <3> QED
      BY <1>2, <3>2, <3>3, TeardownStepInv DEF Moves, Same
  <2>4. CASE StopReset("M")
    <3>1. /\ Same /\ bridge' = None /\ held' = [held EXCEPT !["M"] = None]
          /\ leg' = IF bridge = None THEN leg
                    ELSE [leg EXCEPT ![bridge].bridgeLive = FALSE]
          /\ ended' = ended
      BY <2>4 DEF StopReset, rtcVars, histVars
    <3>2. Moves /\ isCallee' \in BOOLEAN /\ stopping' \in [Threads -> {"sip", "inc"}]
      BY <1>1, <2>4 DEF StopReset
    <3> HIDE DEF Moves, Same
    <3>3. /\ FreedLegs /\ bridge' \in Legs \cup {None}
          /\ held' \in [Threads -> Legs \cup {None}] /\ ended' \subseteq Calls
      BY <1>1, <3>1, FreeLegs
    <3> QED
      BY <1>2, <3>1, <3>2, <3>3, TeardownStepInv DEF Moves, Same
  <2> QED
    BY <2>2, <2>3, <2>4
<1> QED
  BY <1>4, <1>5, <1>6, <1>7

-----------------------------------------------------------------------------
(* The invariant holds                                                     *)

\* Before the first call nothing is queued, live or running.
LEMMA InitBridgeInv == Init => BridgeInv
<1> SUFFICES ASSUME Init PROVE BridgeInv
  OBVIOUS
<1>1. /\ Elements(events) = {} /\ Len(events) = 0 /\ events = <<>>
      /\ rtc = NoCall /\ nCalls = 0 /\ nLegs = 0 /\ nInvites = 0
      /\ sipCall = None /\ incomingSipCall = None /\ activeCallId = None
      /\ bridged = {} /\ dtmf.leg = None /\ faults = {}
  BY DEF Init, Elements
<1>2. \A k \in Legs : leg[k] = NoLeg
  BY DEF Init
<1>3. pc["R"] = "idle" /\ pc["P"] = "idle" /\ pc["M"] = "idle"
  BY DEF Init, Threads
<1>4. NoLeg \in LegType
  BY DEF NoLeg, LegType
<1>5. StateType
  <2>1. leg \in [Legs -> LegType]
    BY <1>4 DEF Init
  <2>2. rtc \in [call : Calls \cup {None}, dir : {"none", "in", "out"},
                 st : {"none", "offered", "ringing", "connected"}]
    BY <1>1 DEF NoCall
  <2>3. /\ events \in Seq([call : Calls, ev : Events])
        /\ dtmf \in [from : Calls \cup {None}, leg : Legs \cup {None}]
    BY DEF Init
  <2>4. /\ pc \in [Threads -> {"idle", "makeCall", "stop", "poll", "delete", "reset",
                           "create", "ring", "resolve", "startCall", "callback",
                           "flag", "destroy", "erase", "gone"}]
        /\ held \in [Threads -> Legs \cup {None}]
        /\ stopping \in [Threads -> {"sip", "inc"}]
    BY DEF Init
  <2>5. nInvites \in 0..MaxInvites
    BY <1>1, BridgeAssumption
  <2> QED
    BY <2>1, <2>2, <2>3, <2>4, <2>5 DEF Init, StateType, AcctType, HeapType, RtcType,
      ThreadType, HistType
<1>6. QueueInv
  BY <1>1 DEF QueueInv, Ordered, RingsOnce, EndComes
<1>7. RtcInv
  BY <1>1, <1>2 DEF RtcInv, NoCall, None
<1>8. ASSUME NEW k \in Legs PROVE LegInv(k)
  BY <1>1, <1>2, <1>3 DEF LegInv, NoLeg, InCallbackOf, Legs, None
<1>9. SipInv /\ IncomingInv
  BY <1>1 DEF SipInv, IncomingInv
<1>10. InviteInv /\ ThreadInv /\ TeardownInv
  BY <1>1, <1>3 DEF InviteInv, ThreadInv, TeardownInv, Inviting
<1>11. HistoryInv
  BY <1>1 DEF HistoryInv, NoFault
<1> QED
  BY <1>5, <1>6, <1>7, <1>8, <1>9, <1>10, <1>11 DEF BridgeInv

\* A step of another component, or none, changes nothing here.
LEMMA StutterInv ==
    ASSUME BridgeInv, UNCHANGED vars
    PROVE  BridgeInv'
<1>1. UNCHANGED <<sipCall, incomingSipCall, bridge, isCallee, activeCallId, leg, nLegs,
                  rtc, events, nCalls, pc, held, stopping, callback, nInvites, ended,
                  bridged, dtmf, faults>>
  BY DEF vars, acctVars, heapVars, rtcVars, threadVars, histVars
<1>2. StateType'
  BY <1>1, TypeFrame, TypeParts DEF vars
<1>3. QueueInv' /\ RtcInv'
  BY <1>1 DEF BridgeInv, QueueInv, RtcInv
<1>4. ASSUME NEW k \in Legs PROVE LegInv(k)'
  BY <1>1 DEF BridgeInv, LegInv, InCallbackOf
<1>5. SipInv' /\ IncomingInv'
  BY <1>1 DEF BridgeInv, SipInv, IncomingInv, StopsSip, Inviting
<1>6. InviteInv' /\ ThreadInv' /\ TeardownInv'
  BY <1>1 DEF BridgeInv, InviteInv, ThreadInv, TeardownInv, Inviting, Pointer
<1>7. HistoryInv'
  BY <1>1 DEF BridgeInv, HistoryInv, NoFault
<1> QED
  BY <1>2, <1>3, <1>4, <1>5, <1>6, <1>7 DEF BridgeInv

\* Every step of every thread keeps the invariant.
LEMMA NextBridgeInv ==
    ASSUME BridgeInv, races' = {}, Next
    PROVE  BridgeInv'
<1>1. CASE RNext
  <2>1. CASE OnOutgoingAudio \/ OnIncomingAudio \/ OnRingingIgnore
    BY <2>1, OnEventInv
  <2>2. CASE OnRingingDial
    BY <2>2, OnRingingDialInv
  <2>3. CASE MakeCall
    BY <2>3, MakeCallInv
  <2>4. CASE OnConnected
    BY <2>4, OnConnectedInv
  <2>5. CASE OnEnded
    BY <2>5, OnEndedInv
  <2>6. CASE StopHangup("R")
    BY <2>6, StopHangupRInv
  <2>7. CASE StopDisconnected("R") \/ StopPollExpires("R")
    BY <2>7, StopPolledRInv
  <2>8. CASE StopDelete("R")
    BY <2>8, StopDeleteRInv
  <2>9. CASE StopReset("R")
    BY <2>9, StopResetRInv
  <2> QED
    BY <1>1, <2>1, <2>2, <2>3, <2>4, <2>5, <2>6, <2>7, <2>8, <2>9 DEF RNext, Stop
<1>2. CASE Invite \/ Stop("P")
  <2>1. CASE InviteCreate
    BY <2>1, InviteCreateInv
  <2>2. CASE \/ InviteRing \/ InviteResolve \/ InviteStartFails
             \/ StopDisconnected("P") \/ StopPollExpires("P")
    BY <2>2, InviteMovesOnInv
  <2>3. CASE InviteStartCall
    BY <2>3, InviteStartCallInv
  <2>4. CASE StopHangup("P")
    BY <2>4, StopHangupPInv
  <2>5. CASE StopDelete("P")
    BY <2>5, StopDeletePInv
  <2>6. CASE StopReset("P")
    BY <2>6, StopResetPInv
  <2> QED
    BY <1>2, <2>1, <2>2, <2>3, <2>4, <2>5, <2>6 DEF Invite, Stop
<1>3. CASE Callback
  <2>1. ASSUME NEW l \in Legs, NEW c \in {"confirmed", "media", "disconnected"},
               CallbackEnter(l, c)
        PROVE  BridgeInv'
    BY <2>1, CallbackEnterInv
  <2>2. CASE OnConfirmed
    BY <2>2, OnConfirmedInv
  <2>3. CASE OnMedia
    BY <2>3, OnMediaInv
  <2>4. CASE OnDisconnected
    BY <2>4, OnDisconnectedInv
  <2>5. CASE OnDisconnectedFlag
    BY <2>5, OnDisconnectedFlagInv
  <2> QED
    BY <1>3, <2>1, <2>2, <2>3, <2>4, <2>5 DEF Callback
<1>4. CASE MNext \/ TeardownBegin
  BY <1>4, TeardownInvs DEF MNext
<1>5. ASSUME NEW l \in Legs, PbxAnswers(l) \/ PbxHangsUp(l) \/ PbxConfirmsHangup(l)
      PROVE  BridgeInv'
  BY <1>5, PbxAnswersInv, PbxEndsInv
<1>6. CASE SignalCallArrives
  BY <1>6, SignalCallArrivesInv
<1>7. CASE RemoteAnswers
  BY <1>7, RemoteAnswersInv
<1>8. CASE SignalCallEnds
  BY <1>8, SignalCallEndsInv
<1>9. CASE InviteRejected \/ InviteChecked
  BY <1>9, InviteArrivesInv
<1>10. CASE Dtmf
  BY <1>10, DtmfInv
<1> QED
  BY <1>1, <1>2, <1>3, <1>4, <1>5, <1>6, <1>7, <1>8, <1>9, <1>10
  DEF Next, PNext, Environment

\* A race, once it happened, is remembered.
LEMMA RacesGrow ==
    ASSUME Next
    PROVE  races \subseteq races'
<1>1. ASSUME NEW t \in Threads, Stop(t) PROVE races \subseteq races'
  BY <1>1 DEF Stop, StopHangup, StopDisconnected, StopPollExpires, StopDelete,
      StopReset, RaceUnless, Race
<1>2. CASE RNext
  <2>1. "R" \in Threads
    BY DEF Threads
  <2> QED
    BY <1>1, <1>2, <2>1 DEF RNext, OnOutgoingAudio, OnIncomingAudio, OnRingingDial,
        OnRingingIgnore, MakeCall, OnConnected, OnEnded
<1>3. CASE PNext
  <2>1. "P" \in Threads
    BY DEF Threads
  <2>2. CASE Invite
    BY <2>2 DEF Invite, InviteCreate, InviteRing, InviteResolve, InviteStartCall,
        InviteStartFails
  <2>3. CASE Callback
    BY <2>3 DEF Callback, CallbackEnter, OnConfirmed, OnMedia, OnDisconnected,
        OnDisconnectedFlag
  <2> QED
    BY <1>1, <1>3, <2>1, <2>2, <2>3 DEF PNext
<1>4. CASE MNext
  <2>1. "M" \in Threads
    BY DEF Threads
  <2> QED
    BY <1>1, <1>4, <2>1 DEF MNext, TeardownDestroy, TeardownErase
<1>5. CASE Environment
  BY <1>5 DEF Environment, SignalCallArrives, RemoteAnswers, SignalCallEnds,
      InviteRejected, InviteChecked, Dtmf, TeardownBegin, PbxAnswers, PbxHangsUp,
      RaceUnless, Race
<1>6. ASSUME NEW l \in Legs, PbxConfirmsHangup(l) PROVE races \subseteq races'
  BY <1>6 DEF PbxConfirmsHangup
<1> QED
  BY <1>2, <1>3, <1>4, <1>5, <1>6 DEF Next

\* The invariant holds until the first race.
LEMMA BridgeInvariant == Spec => [](races = {} => BridgeInv)
<1>1. Init => (races = {} => BridgeInv)
  BY InitBridgeInv
<1>2. ASSUME races = {} => BridgeInv, [Next]_vars, races' = {}
      PROVE  BridgeInv'
  <2>1. CASE Next
    <3>1. races = {}
      BY <1>2, <2>1, RacesGrow
    <3> QED
      BY <1>2, <2>1, <3>1, NextBridgeInv
  <2>2. CASE UNCHANGED vars
    <3>1. races' = races
      BY <2>2 DEF vars
    <3> QED
      BY <1>2, <2>2, <3>1, StutterInv
  <2> QED
    BY <1>2, <2>1, <2>2
<1>3. (races = {} => BridgeInv) /\ [Next]_vars => (races = {} => BridgeInv)'
  BY <1>2
<1> QED
  BY <1>1, <1>3, PTL DEF Spec

-----------------------------------------------------------------------------
(* Type correctness, races included                                        *)

\* The type invariant with the two facts about the locals that it needs:
\* RingRTC's call has a direction only while there is one, and a callback has
\* a leg.
TypeInv ==
    /\ StateType
    /\ races \subseteq Kinds
    /\ rtc.call = None => rtc.dir = "none"
    /\ pc["P"] = "callback" => held["P"] /= None

\* Taking an event off the queue, and adding one, keeps the queue's type.
LEMMA QueueType ==
    ASSUME NEW q \in Seq([call : Calls, ev : Events])
    PROVE  /\ q /= <<>> =>
                /\ Head(q).call \in Calls
                /\ Tail(q) \in Seq([call : Calls, ev : Events])
           /\ \A n \in Calls, e \in Events :
                Append(q, Event(n, e)) \in Seq([call : Calls, ev : Events])
<1>1. q /= <<>> => Head(q) \in [call : Calls, ev : Events]
  BY HeadTailProperties
<1>2. q /= <<>> => Tail(q) \in Seq([call : Calls, ev : Events])
  BY HeadTailProperties
<1>3. ASSUME NEW n \in Calls, NEW e \in Events
      PROVE  Append(q, Event(n, e)) \in Seq([call : Calls, ev : Events])
  <2>1. Event(n, e) \in [call : Calls, ev : Events]
    BY DEF Event
  <2> QED
    BY <2>1, AppendProperties
<1> QED
  BY <1>1, <1>2, <1>3

\* A field of the leg a thread holds, or of none, changes within its type.
LEMMA HeldLegType ==
    ASSUME leg \in [Legs -> LegType], NEW l \in Legs \cup {None},
           \/ \E d \in {"inviting", "none"} : leg' = [leg EXCEPT ![l].dialog = d]
           \/ leg' = [leg EXCEPT ![l].alive = FALSE, ![l].cb = {}]
           \/ \E n \in Calls : leg' = [leg EXCEPT ![l].call = n]
           \/ leg' = [leg EXCEPT ![l].acceptSent = TRUE]
           \/ \E b \in BOOLEAN : leg' = [leg EXCEPT ![l].weHungUp = b]
           \/ leg' = [leg EXCEPT ![l].disconnected = TRUE]
    PROVE  leg' \in [Legs -> LegType]
<1>1. CASE l \in Legs
  BY <1>1, DialogEffect, DeleteEffect, CallEffect, AcceptEffect, HungUpFlagEffect,
      FlagEffect DEF OnlyLeg
<1>2. CASE l \notin Legs
  BY <1>2
<1> QED
  BY <1>1, <1>2

\* The parts of TypeInv and what they say about numbers.
LEMMA TypeFacts ==
    ASSUME TypeInv
    PROVE  /\ AcctType /\ HeapType /\ RtcType /\ ThreadType /\ HistType
           /\ nInvites \in 0..MaxInvites /\ races \subseteq Kinds
           /\ None \notin Calls /\ None \notin Legs
           /\ nCalls < MaxCalls => nCalls + 1 \in Calls
           /\ nLegs < MaxLegs => nLegs + 1 \in Legs
           /\ {"R", "P", "M"} = Threads
  BY BridgeAssumption DEF TypeInv, StateType, RtcType, HeapType, Calls, Legs, None,
      Threads

\* A step keeps TypeInv if it keeps each part.
LEMMA TypeStep ==
    ASSUME TypeInv,
           UNCHANGED acctVars \/ AcctType',
           UNCHANGED heapVars \/ HeapType',
           UNCHANGED rtcVars \/ (RtcType' /\ (rtc'.call = None => rtc'.dir = "none")),
           UNCHANGED threadVars
             \/ (ThreadType' /\ (pc'["P"] = "callback" => held'["P"] /= None)),
           UNCHANGED histVars \/ HistType',
           UNCHANGED nInvites \/ nInvites' \in 0..MaxInvites,
           UNCHANGED races \/ \E kind \in Kinds : Race(kind)
    PROVE  TypeInv'
<1>1. AcctType'
  BY TypeFacts DEF acctVars, AcctType
<1>2. HeapType'
  BY TypeFacts DEF heapVars, HeapType
<1>3. RtcType' /\ (rtc'.call = None => rtc'.dir = "none")
  BY TypeFacts DEF rtcVars, RtcType, TypeInv
<1>4. ThreadType' /\ (pc'["P"] = "callback" => held'["P"] /= None)
  BY TypeFacts DEF threadVars, ThreadType, TypeInv
<1>5. HistType'
  BY TypeFacts DEF histVars, HistType
<1>6. nInvites' \in 0..MaxInvites /\ races' \subseteq Kinds
  BY TypeFacts DEF Race
<1> QED
  BY <1>1, <1>2, <1>3, <1>4, <1>5, <1>6 DEF TypeInv, StateType

\* RingRTC ends its call.
LEMMA EndType ==
    ASSUME TypeInv, rtc.call /= None, EndCurrentCall, nCalls' = nCalls
    PROVE  RtcType' /\ (rtc'.call = None => rtc'.dir = "none") /\ ended' \subseteq Calls
<1> DEFINE S == Seq([call : Calls, ev : Events])
           e == Event(rtc.call, "ENDED")
<1>1. rtc.call \in Calls /\ events \in S /\ ended \subseteq Calls /\ nCalls \in Calls \cup {0}
  BY TypeFacts DEF RtcType, HistType
<1>2. e \in [call : Calls, ev : Events]
  BY <1>1 DEF Event, Events
<1> HIDE DEF e
<1>3. events \o <<e, e>> \in S
  BY <1>1, <1>2, ConcatProperties
<1>4. rtc' = NoCall /\ events' = events \o <<e, e>> /\ ended' = ended \cup {rtc.call}
  BY DEF EndCurrentCall, e
<1>5. NoCall \in [call : Calls \cup {None}, dir : {"none", "in", "out"},
                  st : {"none", "offered", "ringing", "connected"}]
      /\ NoCall.dir = "none"
  BY DEF NoCall
<1> QED
  BY <1>1, <1>3, <1>4, <1>5 DEF RtcType

\* The outside world.
LEMMA EnvironmentType ==
    ASSUME TypeInv, Environment \/ \E l \in Legs : PbxConfirmsHangup(l)
    PROVE  TypeInv'
<1>0. /\ leg \in [Legs -> LegType] /\ events \in Seq([call : Calls, ev : Events])
      /\ rtc \in [call : Calls \cup {None}, dir : {"none", "in", "out"},
                  st : {"none", "offered", "ringing", "connected"}]
      /\ {"R", "P", "M"} = Threads /\ {"INCOMING_AUDIO", "CONNECTED", "ENDED"} \subseteq Events
  BY TypeFacts DEF HeapType, RtcType, Events
<1>r. ASSUME NEW b \in BOOLEAN, NEW kind \in Kinds, RaceUnless(b, kind)
      PROVE  UNCHANGED races \/ \E k \in Kinds : Race(k)
  BY <1>r DEF RaceUnless
<1>1. CASE SignalCallArrives
  <2>1. /\ nCalls' \in Calls /\ rtc'.call /= None
        /\ rtc' \in [call : Calls \cup {None}, dir : {"none", "in", "out"},
                     st : {"none", "offered", "ringing", "connected"}]
        /\ events' \in Seq([call : Calls, ev : Events])
    BY <1>0, <1>1, TypeFacts, QueueType DEF SignalCallArrives
  <2>2. UNCHANGED races \/ \E k \in Kinds : Race(k)
    BY <1>1 DEF SignalCallArrives, RaceUnless, Kinds
  <2>3. RtcType' /\ (rtc'.call = None => rtc'.dir = "none")
    BY <2>1 DEF RtcType
  <2> QED
    BY <1>1, <2>2, <2>3, TypeStep DEF SignalCallArrives
<1>2. CASE RemoteAnswers
  <2>1. rtc.call \in Calls
    BY <1>0, <1>2 DEF RemoteAnswers, TypeInv
  <2>2. /\ rtc' \in [call : Calls \cup {None}, dir : {"none", "in", "out"},
                     st : {"none", "offered", "ringing", "connected"}]
        /\ rtc'.call = rtc.call
    BY <1>0, <1>2 DEF RemoteAnswers
  <2>3. events' \in Seq([call : Calls, ev : Events])
    BY <1>0, <1>2, <2>1, QueueType DEF RemoteAnswers
  <2>4. RtcType' /\ (rtc'.call = None => rtc'.dir = "none")
    BY <1>2, <2>1, <2>2, <2>3, TypeFacts DEF RtcType, RemoteAnswers
  <2> QED
    BY <1>2, <2>4, TypeStep DEF RemoteAnswers
<1>3. CASE SignalCallEnds
  <2>1. RtcType' /\ (rtc'.call = None => rtc'.dir = "none") /\ ended' \subseteq Calls
    BY <1>3, EndType DEF SignalCallEnds
  <2>2. HistType'
    BY <1>3, <2>1, TypeFacts DEF SignalCallEnds, HistType
  <2> QED
    BY <1>3, <2>1, <2>2, TypeStep DEF SignalCallEnds
<1>4. CASE InviteRejected \/ InviteChecked
  <2>1. nInvites' \in 0..MaxInvites
    BY <1>4, TypeFacts, BridgeAssumption DEF InviteRejected, InviteChecked, InviteArrives
  <2>2. UNCHANGED races \/ \E k \in Kinds : Race(k)
    BY <1>4 DEF InviteRejected, InviteChecked, RaceUnless, Kinds
  <2>3. CASE InviteRejected
    BY <2>1, <2>3, TypeStep DEF InviteRejected
  <2>4. CASE InviteChecked
    <3>1. ThreadType' /\ (pc'["P"] = "callback" => held'["P"] /= None)
      BY <2>4, TypeFacts DEF InviteChecked, ThreadType
    <3> QED
      BY <2>1, <2>2, <2>4, <3>1, TypeStep DEF InviteChecked
  <2> QED
    BY <1>4, <2>3, <2>4
<1>5. CASE Dtmf
  <2>1. HistType'
    BY <1>5, TypeFacts DEF Dtmf, DtmfLeg, AcctType, HistType, UseLeg
  <2> QED
    BY <1>5, <2>1, TypeStep DEF Dtmf
<1>6. CASE TeardownBegin
  <2>1. ThreadType' /\ (pc'["P"] = "callback" => held'["P"] /= None)
    BY <1>6, TypeFacts DEF TeardownBegin, ThreadType, TypeInv
  <2>2. UNCHANGED races \/ \E k \in Kinds : Race(k)
    BY <1>6 DEF TeardownBegin, RaceUnless, Kinds
  <2> QED
    BY <1>6, <2>1, <2>2, TypeStep DEF TeardownBegin
<1>7. ASSUME NEW l \in Legs, PbxAnswers(l) \/ PbxHangsUp(l) \/ PbxConfirmsHangup(l)
      PROVE  TypeInv'
  <2>1. leg' \in [Legs -> LegType]
    BY <1>0, <1>7, AnswerEffect, OverEffect
    DEF PbxAnswers, PbxHangsUp, PbxConfirmsHangup, OnlyLeg
  <2>2. HeapType'
    BY <1>7, <2>1, TypeFacts DEF PbxAnswers, PbxHangsUp, PbxConfirmsHangup, HeapType
  <2> QED
    BY <1>7, <2>2, TypeStep DEF PbxAnswers, PbxHangsUp, PbxConfirmsHangup
<1> QED
  BY <1>1, <1>2, <1>3, <1>4, <1>5, <1>6, <1>7 DEF Environment

\* The stop functions, on any thread.
LEMMA StopType ==
    ASSUME TypeInv, NEW t \in Threads, Stop(t)
    PROVE  TypeInv'
<1>0. /\ leg \in [Legs -> LegType] /\ bridge \in Legs \cup {None}
      /\ held[t] \in Legs \cup {None} /\ stopping[t] \in {"sip", "inc"}
      /\ Pointer(stopping[t]) \in Legs \cup {None}
  BY TypeFacts DEF HeapType, AcctType, ThreadType, Pointer
<1>h. ASSUME NEW x \in {"stop", "delete", "reset", "poll", "destroy", "idle"},
             pc' = [pc EXCEPT ![t] = x]
      PROVE  /\ pc' \in [Threads -> {"idle", "makeCall", "stop", "poll", "delete", "reset",
                           "create", "ring", "resolve", "startCall", "callback",
                           "flag", "destroy", "erase", "gone"}]
             /\ t = "P" => pc'["P"] /= "callback"
             /\ t /= "P" => pc'["P"] = pc["P"]
  BY <1>h, TypeFacts DEF ThreadType
<1>1. CASE StopHangup(t)
  <2>1. leg' \in [Legs -> LegType]
    BY <1>0, <1>1, HangupEffect DEF StopHangup, OnlyLeg
  <2>2. HeapType'
    BY <1>1, <2>1, TypeFacts DEF StopHangup, HeapType
  <2>3. \E x \in {"reset", "poll"} : pc' = [pc EXCEPT ![t] = x]
    BY <1>1 DEF StopHangup
  <2>4. held' \in [Threads -> Legs \cup {None}] /\ (t /= "P" => held'["P"] = held["P"])
    BY <1>0, <1>1, TypeFacts DEF StopHangup, ThreadType
  <2>5. ThreadType' /\ (pc'["P"] = "callback" => held'["P"] /= None)
    BY <1>1, <1>h, <2>3, <2>4, TypeFacts DEF StopHangup, ThreadType, TypeInv
  <2>6. HistType'
    BY <1>1, TypeFacts DEF StopHangup, HistType, UseLeg
  <2> QED
    BY <1>1, <2>2, <2>5, <2>6, TypeStep DEF StopHangup
<1>2. CASE StopDisconnected(t) \/ StopPollExpires(t)
  <2>1. ThreadType' /\ (pc'["P"] = "callback" => held'["P"] /= None)
    BY <1>2, <1>h, TypeFacts DEF StopDisconnected, StopPollExpires, ThreadType, TypeInv
  <2>2. HistType'
    BY <1>2, TypeFacts DEF StopDisconnected, StopPollExpires, HistType, UseLeg
  <2>3. UNCHANGED races \/ \E k \in Kinds : Race(k)
    BY <1>2 DEF StopDisconnected, StopPollExpires, RaceUnless, Kinds
  <2> QED
    BY <1>2, <2>1, <2>2, <2>3, TypeStep DEF StopDisconnected, StopPollExpires
<1>3. CASE StopDelete(t)
  <2>1. leg' \in [Legs -> LegType]
    BY <1>0, <1>3, HeldLegType DEF StopDelete
  <2>2. HeapType'
    BY <1>3, <2>1, TypeFacts DEF StopDelete, HeapType
  <2>3. AcctType'
    BY <1>3, TypeFacts DEF StopDelete, AcctType
  <2>4. ThreadType' /\ (pc'["P"] = "callback" => held'["P"] /= None)
    BY <1>3, <1>h, TypeFacts DEF StopDelete, ThreadType, TypeInv
  <2>5. HistType'
    BY <1>3, TypeFacts DEF StopDelete, HistType
  <2> QED
    BY <1>3, <2>2, <2>3, <2>4, <2>5, TypeStep DEF StopDelete
<1>4. CASE StopReset(t)
  <2>1. leg' \in [Legs -> LegType]
    BY <1>0, <1>4, FreeEffect DEF StopReset, OnlyLeg
  <2>2. HeapType'
    BY <1>4, <2>1, TypeFacts DEF StopReset, HeapType
  <2>3. isCallee' \in BOOLEAN
    BY <1>4, TypeFacts DEF StopReset, AcctType
  <2>4. AcctType'
    BY <1>4, <2>3, TypeFacts DEF StopReset, AcctType
  <2>5. \E x \in {"stop", "destroy", "idle"} : pc' = [pc EXCEPT ![t] = x]
    BY <1>4 DEF StopReset
  <2>6. /\ held' \in [Threads -> Legs \cup {None}] /\ (t /= "P" => held'["P"] = held["P"])
        /\ stopping' \in [Threads -> {"sip", "inc"}]
    BY <1>4, TypeFacts DEF StopReset, ThreadType
  <2>7. ThreadType' /\ (pc'["P"] = "callback" => held'["P"] /= None)
    BY <1>4, <1>h, <2>5, <2>6, TypeFacts DEF StopReset, ThreadType, TypeInv
  <2> QED
    BY <1>4, <2>2, <2>4, <2>7, TypeStep DEF StopReset
<1> QED
  BY <1>1, <1>2, <1>3, <1>4 DEF Stop

\* onCallState().
LEMMA RType ==
    ASSUME TypeInv, RNext
    PROVE  TypeInv'
<1>0. /\ leg \in [Legs -> LegType] /\ bridge \in Legs \cup {None}
      /\ events \in Seq([call : Calls, ev : Events]) /\ "R" \in Threads /\ "P" \in Threads
      /\ rtc \in [call : Calls \cup {None}, dir : {"none", "in", "out"},
                  st : {"none", "offered", "ringing", "connected"}]
      /\ "RINGING" \in Events /\ None \notin Legs /\ None \notin Calls
  BY TypeFacts DEF HeapType, AcctType, RtcType, Events
<1>d. ASSUME NEW e, Deliver(e)
      PROVE  /\ activeCallId' \in Calls /\ Head(events).call = activeCallId'
             /\ Tail(events) \in Seq([call : Calls, ev : Events])
  BY <1>0, <1>d, QueueType DEF Deliver
<1>p. ASSUME NEW e, Deliver(e), nCalls' = nCalls,
             Proceed(Head(events).call) \/ (events' = Tail(events) /\ UNCHANGED rtc)
      PROVE  RtcType' /\ (rtc'.call = None => rtc'.dir = "none")
  <2>1. /\ Head(events).call \in Calls
        /\ Tail(events) \in Seq([call : Calls, ev : Events])
    BY <1>d, <1>p
  <2>2. Append(Tail(events), Event(Head(events).call, "RINGING"))
          \in Seq([call : Calls, ev : Events])
    BY <1>0, <2>1, QueueType
  <2>3. events' \in Seq([call : Calls, ev : Events])
    BY <1>p, <2>1, <2>2 DEF Proceed
  <2>4. /\ rtc' \in [call : Calls \cup {None}, dir : {"none", "in", "out"},
                     st : {"none", "offered", "ringing", "connected"}]
        /\ rtc'.call = rtc.call /\ rtc'.dir = rtc.dir
    BY <1>0, <1>p DEF Proceed
  <2> QED
    BY <1>p, <2>3, <2>4, TypeFacts DEF RtcType, TypeInv
<1>1. CASE OnOutgoingAudio
  <2>1. RtcType' /\ (rtc'.call = None => rtc'.dir = "none")
    BY <1>1, <1>p DEF OnOutgoingAudio
  <2>2. AcctType'
    BY <1>1, <1>d, TypeFacts DEF OnOutgoingAudio, AcctType
  <2> QED
    BY <1>1, <2>1, <2>2, TypeStep DEF OnOutgoingAudio
<1>2. CASE OnIncomingAudio
  <2>1. RtcType' /\ (rtc'.call = None => rtc'.dir = "none")
    BY <1>2, <1>p DEF OnIncomingAudio
  <2>2. isCallee' \in BOOLEAN
    BY <1>2, TypeFacts DEF OnIncomingAudio, AcctType
  <2>3. AcctType'
    BY <1>2, <1>d, <2>2, TypeFacts DEF OnIncomingAudio, AcctType
  <2> QED
    BY <1>2, <2>1, <2>3, TypeStep DEF OnIncomingAudio
<1>3. CASE OnRingingIgnore
  <2>1. RtcType' /\ (rtc'.call = None => rtc'.dir = "none")
    BY <1>3, <1>p DEF OnRingingIgnore
  <2>2. AcctType'
    BY <1>3, <1>d, TypeFacts DEF OnRingingIgnore, AcctType
  <2> QED
    BY <1>3, <2>1, <2>2, TypeStep DEF OnRingingIgnore
<1>4. CASE OnRingingDial
  <2>1. RtcType' /\ (rtc'.call = None => rtc'.dir = "none")
    BY <1>4, <1>p DEF OnRingingDial
  <2>2. nLegs + 1 \in Legs /\ Head(events).call \in Calls
    BY <1>4, <1>d, TypeFacts DEF OnRingingDial
  <2>3. AcctType'
    BY <1>4, <1>d, <2>2, TypeFacts DEF OnRingingDial, AcctType
  <2>4. leg' \in [Legs -> LegType]
    BY <1>0, <1>4, <2>2, NewLegEffect DEF OnRingingDial
  <2>5. HeapType'
    BY <1>4, <2>2, <2>4 DEF OnRingingDial, HeapType
  <2>6. ThreadType' /\ (pc'["P"] = "callback" => held'["P"] /= None)
    BY <1>0, <1>4, <2>2, TypeFacts DEF OnRingingDial, ThreadType, TypeInv
  <2> QED
    BY <1>4, <2>1, <2>3, <2>5, <2>6, TypeStep DEF OnRingingDial
<1>5. CASE MakeCall
  <2>1. held["R"] \in Legs \cup {None}
    BY <1>0, TypeFacts DEF ThreadType
  <2>2. leg' \in [Legs -> LegType]
    BY <1>0, <1>5, <2>1, HeldLegType DEF MakeCall
  <2>3. HeapType'
    BY <1>5, <2>2, TypeFacts DEF MakeCall, HeapType
  <2>4. ThreadType' /\ (pc'["P"] = "callback" => held'["P"] /= None)
    BY <1>0, <1>5, TypeFacts DEF MakeCall, ThreadType, TypeInv
  <2>5. HistType'
    BY <1>5, TypeFacts DEF MakeCall, HistType, UseLeg
  <2> QED
    BY <1>5, <2>3, <2>4, <2>5, TypeStep DEF MakeCall
<1>6. CASE OnConnected
  <2>1. RtcType' /\ (rtc'.call = None => rtc'.dir = "none")
    BY <1>6, <1>p DEF OnConnected
  <2>2. AcctType' /\ incomingSipCall \in Legs \cup {None} /\ Head(events).call \in Calls
    BY <1>6, <1>d, TypeFacts DEF OnConnected, AcctType
  <2>3. leg' \in [Legs -> LegType]
    BY <1>0, <1>6, <2>2, ConfirmEffect DEF OnConnected, OnlyLeg
  <2>4. HeapType'
    BY <1>6, <2>3, TypeFacts DEF OnConnected, HeapType
  <2>5. bridged' \subseteq Calls \X Legs
    <3>1. \/ bridged' = bridged
          \/ /\ bridged' = bridged \cup {<<Head(events).call, incomingSipCall>>}
             /\ incomingSipCall /= None
      BY <1>6 DEF OnConnected
    <3>2. bridged \subseteq Calls \X Legs
      BY TypeFacts DEF HistType
    <3>3. incomingSipCall /= None => <<Head(events).call, incomingSipCall>> \in Calls \X Legs
      BY <2>2
    <3> QED
      BY Zenon, <3>1, <3>2, <3>3
  <2>6. HistType'
    BY <1>6, <2>5, TypeFacts DEF OnConnected, HistType, UseLeg
  <2> QED
    BY <1>6, <2>1, <2>2, <2>4, <2>6, TypeStep DEF OnConnected
<1>7. CASE OnEnded
  <2>1. RtcType' /\ (rtc'.call = None => rtc'.dir = "none")
    BY <1>7, <1>p DEF OnEnded
  <2>2. AcctType'
    BY <1>7, <1>d, TypeFacts DEF OnEnded, AcctType
  <2>3. ThreadType' /\ (pc'["P"] = "callback" => held'["P"] /= None)
    BY <1>0, <1>7, TypeFacts DEF OnEnded, ThreadType, TypeInv
  <2> QED
    BY <1>7, <2>1, <2>2, <2>3, TypeStep DEF OnEnded
<1> QED
  BY <1>0, <1>1, <1>2, <1>3, <1>4, <1>5, <1>6, <1>7, StopType DEF RNext

\* onIncomingCall() and the callbacks.
LEMMA PType ==
    ASSUME TypeInv, PNext
    PROVE  TypeInv'
<1>0. /\ leg \in [Legs -> LegType] /\ bridge \in Legs \cup {None}
      /\ events \in Seq([call : Calls, ev : Events]) /\ "P" \in Threads
      /\ rtc \in [call : Calls \cup {None}, dir : {"none", "in", "out"},
                  st : {"none", "offered", "ringing", "connected"}]
      /\ {"OUTGOING_AUDIO", "CONNECTED"} \subseteq Events
      /\ None \notin Legs /\ None \notin Calls /\ held["P"] \in Legs \cup {None}
  BY TypeFacts DEF HeapType, AcctType, RtcType, ThreadType, Events
<1>1. CASE InviteCreate
  <2>1. nLegs + 1 \in Legs
    BY <1>1, TypeFacts DEF InviteCreate
  <2>2. AcctType'
    BY <1>1, <2>1, TypeFacts DEF InviteCreate, AcctType
  <2>3. leg' \in [Legs -> LegType]
    BY <1>0, <1>1, <2>1, NewLegEffect DEF InviteCreate
  <2>4. HeapType'
    BY <1>1, <2>1, <2>3 DEF InviteCreate, HeapType
  <2>5. ThreadType' /\ (pc'["P"] = "callback" => held'["P"] /= None)
    BY <1>0, <1>1, <2>1, TypeFacts DEF InviteCreate, ThreadType
  <2> QED
    BY <1>1, <2>2, <2>4, <2>5, TypeStep DEF InviteCreate
<1>2. CASE InviteRing
  <2>1. ThreadType' /\ (pc'["P"] = "callback" => held'["P"] /= None)
    BY <1>0, <1>2, TypeFacts DEF InviteRing, ThreadType
  <2>2. HistType'
    BY <1>2, TypeFacts DEF InviteRing, HistType, UseLeg
  <2> QED
    BY <1>2, <2>1, <2>2, TypeStep DEF InviteRing
<1>3. CASE InviteResolve
  <2>1. ThreadType' /\ (pc'["P"] = "callback" => held'["P"] /= None)
    BY <1>0, <1>3, TypeFacts DEF InviteResolve, ThreadType
  <2> QED
    BY <1>3, <2>1, TypeStep DEF InviteResolve
<1>4. CASE InviteStartCall
  <2>1. nCalls + 1 \in Calls
    BY <1>4, TypeFacts DEF InviteStartCall
  <2>2. /\ rtc' \in [call : Calls \cup {None}, dir : {"none", "in", "out"},
                     st : {"none", "offered", "ringing", "connected"}]
        /\ rtc'.call /= None /\ events' \in Seq([call : Calls, ev : Events])
    BY <1>0, <1>4, <2>1, QueueType DEF InviteStartCall
  <2>3. RtcType' /\ (rtc'.call = None => rtc'.dir = "none")
    BY <1>4, <2>1, <2>2 DEF InviteStartCall, RtcType
  <2>4. leg' \in [Legs -> LegType]
    BY <1>0, <1>4, <2>1, HeldLegType DEF InviteStartCall
  <2>5. HeapType'
    BY <1>4, <2>4, TypeFacts DEF InviteStartCall, HeapType
  <2>6. ThreadType' /\ (pc'["P"] = "callback" => held'["P"] /= None)
    BY <1>0, <1>4, TypeFacts DEF InviteStartCall, ThreadType
  <2>7. AcctType'
    BY <1>4, TypeFacts DEF InviteStartCall, AcctType
  <2> QED
    BY <1>4, <2>3, <2>5, <2>6, <2>7, TypeStep DEF InviteStartCall
<1>5. CASE InviteStartFails
  <2>1. ThreadType' /\ (pc'["P"] = "callback" => held'["P"] /= None)
    BY <1>0, <1>5, TypeFacts DEF InviteStartFails, ThreadType
  <2>2. AcctType'
    BY <1>5, TypeFacts DEF InviteStartFails, AcctType
  <2> QED
    BY <1>5, <2>1, <2>2, TypeStep DEF InviteStartFails
<1>6. ASSUME NEW l \in Legs, NEW c \in {"confirmed", "media", "disconnected"},
             CallbackEnter(l, c)
      PROVE  TypeInv'
  <2>1. leg' \in [Legs -> LegType]
    BY <1>0, <1>6, EnterEffect DEF CallbackEnter, OnlyLeg
  <2>2. HeapType'
    BY <1>6, <2>1, TypeFacts DEF CallbackEnter, HeapType
  <2>3. ThreadType' /\ (pc'["P"] = "callback" => held'["P"] /= None)
    BY <1>0, <1>6, TypeFacts DEF CallbackEnter, ThreadType
  <2> QED
    BY <1>6, <2>2, <2>3, TypeStep DEF CallbackEnter
<1>c. ASSUME CallbackLeave, UNCHANGED stopping
      PROVE  ThreadType' /\ (pc'["P"] = "callback" => held'["P"] /= None)
  BY <1>0, <1>c, TypeFacts DEF CallbackLeave, ThreadType
<1>7. CASE OnConfirmed
  <2>1. leg' \in [Legs -> LegType]
    BY <1>0, <1>7, HeldLegType DEF OnConfirmed
  <2>2. HeapType'
    BY <1>7, <2>1, TypeFacts DEF OnConfirmed, HeapType
  <2>3. ThreadType' /\ (pc'["P"] = "callback" => held'["P"] /= None)
    BY <1>7, <1>c DEF OnConfirmed
  <2>4. held["P"] \in Legs
    BY <1>0, <1>7 DEF OnConfirmed, InCallback, TypeInv
  <2>5. faults' = faults \cup UseLeg(held["P"]) /\ ended' = ended /\ dtmf' = dtmf
        /\ nCalls' = nCalls
    BY <1>7 DEF OnConfirmed, InCallback
  <2>6. CASE UNCHANGED <<rtc, events, bridged>>
    <3>1. HistType'
      BY <2>5, <2>6, TypeFacts DEF HistType, UseLeg
    <3>2. UNCHANGED rtcVars
      BY <2>5, <2>6 DEF rtcVars
    <3> QED
      BY <1>7, <2>2, <2>3, <3>1, <3>2, TypeStep DEF OnConfirmed
  <2>7. CASE /\ rtc.dir = "in" /\ rtc' = [rtc EXCEPT !.st = "connected"]
             /\ events' = Append(events, Event(rtc.call, "CONNECTED"))
             /\ bridged' = bridged \cup {<<rtc.call, held["P"]>>}
    <3>1. rtc.call \in Calls
      BY <1>0, <2>7 DEF TypeInv
    <3>2. bridged' \subseteq Calls \X Legs
      <4>1. bridged \subseteq Calls \X Legs
        BY TypeFacts DEF HistType
      <4>2. <<rtc.call, held["P"]>> \in Calls \X Legs
        BY <2>4, <3>1
      <4> QED
        BY Zenon, <2>7, <4>1, <4>2
    <3>3. HistType'
      BY <2>5, <3>2, TypeFacts DEF HistType, UseLeg
    <3>4. /\ rtc' \in [call : Calls \cup {None}, dir : {"none", "in", "out"},
                       st : {"none", "offered", "ringing", "connected"}]
          /\ rtc'.call = rtc.call
      BY <1>0, <2>7
    <3>5. events' \in Seq([call : Calls, ev : Events])
      BY <1>0, <2>7, <3>1, QueueType
    <3>6. RtcType' /\ (rtc'.call = None => rtc'.dir = "none")
      BY <1>0, <2>5, <3>1, <3>4, <3>5, TypeFacts DEF RtcType
    <3> QED
      BY <1>7, <2>2, <2>3, <3>3, <3>6, TypeStep DEF OnConfirmed
  <2> QED
    BY <1>7, <2>6, <2>7 DEF OnConfirmed
<1>8. CASE OnMedia
  <2>1. ThreadType' /\ (pc'["P"] = "callback" => held'["P"] /= None)
    BY <1>8, <1>c DEF OnMedia
  <2>2. HistType'
    BY <1>8, TypeFacts DEF OnMedia, HistType, UseLeg, UseBridge
  <2> QED
    BY <1>8, <2>1, <2>2, TypeStep DEF OnMedia
<1>9. CASE OnDisconnected
  <2>1. held["P"] \in Legs
    BY <1>0, <1>9 DEF OnDisconnected, InCallback, TypeInv
  <2>2. (leg[held["P"]].weHungUp \/ leg[held["P"]].kind = "invite") \in BOOLEAN
    BY <1>0, <2>1 DEF LegType
  <2>3. leg' \in [Legs -> LegType]
    BY <1>0, <1>9, <2>2, HeldLegType DEF OnDisconnected
  <2>4. HeapType'
    BY <1>9, <2>3, TypeFacts DEF OnDisconnected, HeapType
  <2>5. ThreadType' /\ (pc'["P"] = "callback" => held'["P"] /= None)
    BY <1>0, <1>9, TypeFacts DEF OnDisconnected, ThreadType
  <2>6. \/ UNCHANGED <<rtc, events, ended>>
        \/ rtc.call /= None /\ EndCurrentCall
    BY <1>9 DEF OnDisconnected, Hangup
  <2>7. /\ RtcType' /\ (rtc'.call = None => rtc'.dir = "none")
        /\ ended' \subseteq Calls
    <3>1. CASE UNCHANGED <<rtc, events, ended>>
      BY <1>9, <3>1, TypeFacts DEF OnDisconnected, RtcType, HistType, TypeInv
    <3>2. CASE rtc.call /= None /\ EndCurrentCall
      BY <1>9, <3>2, EndType DEF OnDisconnected
    <3> QED
      BY <2>6, <3>1, <3>2
  <2>8. HistType'
    BY <1>9, <2>7, TypeFacts DEF OnDisconnected, InCallback, HistType, UseLeg
  <2> QED
    BY <1>9, <2>4, <2>5, <2>7, <2>8, TypeStep DEF OnDisconnected
<1>10. CASE OnDisconnectedFlag
  <2>1. leg' \in [Legs -> LegType]
    BY <1>0, <1>10, HeldLegType DEF OnDisconnectedFlag
  <2>2. HeapType'
    BY <1>10, <2>1, TypeFacts DEF OnDisconnectedFlag, HeapType
  <2>3. ThreadType' /\ (pc'["P"] = "callback" => held'["P"] /= None)
    BY <1>10, <1>c DEF OnDisconnectedFlag
  <2>4. HistType'
    BY <1>10, TypeFacts DEF OnDisconnectedFlag, HistType, UseLeg
  <2> QED
    BY <1>10, <2>2, <2>3, <2>4, TypeStep DEF OnDisconnectedFlag
<1> QED
  BY <1>0, <1>1, <1>2, <1>3, <1>4, <1>5, <1>6, <1>7, <1>8, <1>9, <1>10, StopType
  DEF PNext, Invite, Callback

\* teardownAccount().
LEMMA MType ==
    ASSUME TypeInv, MNext
    PROVE  TypeInv'
<1>0. "M" \in Threads /\ "P" \in Threads
  BY DEF Threads
<1>1. CASE TeardownDestroy
  <2>1. ThreadType' /\ (pc'["P"] = "callback" => held'["P"] /= None)
    BY <1>0, <1>1, TypeFacts DEF TeardownDestroy, ThreadType, TypeInv
  <2>2. HistType'
    BY <1>1, TypeFacts DEF TeardownDestroy, RtcType, HistType
  <2>3. RtcType' /\ (rtc'.call = None => rtc'.dir = "none")
    <3>1. /\ NoCall \in [call : Calls \cup {None}, dir : {"none", "in", "out"},
                         st : {"none", "offered", "ringing", "connected"}]
          /\ NoCall.dir = "none"
          /\ <<>> \in Seq([call : Calls, ev : Events])
      BY DEF NoCall
    <3> QED
      BY <1>1, <3>1, TypeFacts DEF TeardownDestroy, RtcType
  <2> QED
    BY <1>1, <2>1, <2>2, <2>3, TypeStep DEF TeardownDestroy
<1>2. CASE TeardownErase
  <2>1. ThreadType' /\ (pc'["P"] = "callback" => held'["P"] /= None)
    BY <1>0, <1>2, TypeFacts DEF TeardownErase, ThreadType, TypeInv
  <2>2. HistType'
    BY <1>2, TypeFacts DEF TeardownErase, HistType
  <2> QED
    BY <1>2, <2>1, <2>2, TypeStep DEF TeardownErase
<1> QED
  BY <1>0, <1>1, <1>2, StopType DEF MNext

-----------------------------------------------------------------------------
(* The theorems                                                            *)

\* AccountState, the legs, RingRTC's call and queue and the threads' locals
\* stay in their domains, whatever the number of calls, legs and INVITEs and
\* whatever races there are: a leg is only reached through the pointers
\* main.cpp keeps, and a call that ends leaves no half of its state behind.
THEOREM BridgeTypeOK == Spec => []TypeOK
<1>1. Init => TypeInv
  <2>1. Init => StateType
    BY InitBridgeInv DEF BridgeInv
  <2> QED
    BY <2>1 DEF Init, TypeInv, NoCall, Threads
<1>2. TypeInv /\ [Next]_vars => TypeInv'
  <2>1. ASSUME TypeInv, UNCHANGED vars PROVE TypeInv'
    BY <2>1, TypeStep DEF vars
  <2> QED
    BY <2>1, RType, PType, MType, EnvironmentType DEF Next
<1>3. TypeInv => TypeOK
  BY DEF TypeInv, StateType, AcctType, HeapType, RtcType, ThreadType, HistType, TypeOK
<1> QED
  BY <1>1, <1>2, <1>3, PTL DEF Spec

\* stopSipBridge() and stopIncomingSipCall() poll disconnected_ before they
\* delete, so that until the first race no callback of a leg, no makeCall()
\* and no DTMF forward uses a leg after its delete, no leg is deleted twice,
\* no AccountState is used after teardownAccount() erased it and, as long as
\* no INVITE came, no media callback uses a RingRtcSipBridge that was reset.
THEOREM NoUseAfterFreeTheorem == Spec => []NoUseAfterFree
<1>1. (races = {} => BridgeInv) => NoUseAfterFree
  BY DEF BridgeInv, HistoryInv, NoUseAfterFree, NoFault
<1> QED
  BY <1>1, BridgeInvariant, PTL

\* Until the first race, accept(activeCallId) in onCallState(CONNECTED) of the
\* SIP leg and answer(200) of an INVITE leg only join a Signal call with the
\* leg made for it: the leg of an earlier call is gone before activeCallId
\* moves on.
THEOREM BridgedTogetherTheorem == Spec => []BridgedTogether
<1>1. (races = {} => BridgeInv) => BridgedTogether
  BY DEF BridgeInv, HistoryInv, BridgedTogether
<1> QED
  BY <1>1, BridgeInvariant, PTL

\* The DTMF forward picks sipCall or incomingSipCall under callHandoffMutex
\* without naming a call; until the first race the leg it finds is that of
\* the sender's call.
THEOREM DtmfTheorem == Spec => [](races = {} => DtmfReachesOwnCall)
<1>1. (races = {} => BridgeInv) => (races = {} => DtmfReachesOwnCall)
  BY DEF BridgeInv, HistoryInv, DtmfReachesOwnCall
<1> QED
  BY <1>1, BridgeInvariant, PTL
=============================================================================
