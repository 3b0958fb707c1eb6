-------------------------- MODULE EnvelopesProofs ---------------------------
(***************************************************************************)
(* Proofs about Envelopes.  Both results rest on one invariant, MutexInv:  *)
(* a thread is between the load and the store of the session record        *)
(* exactly when it holds ProtocolStores::mutex(), and so no two are.       *)
(***************************************************************************)
EXTENDS Envelopes, TLAPS

Places == {"idle", "lock", "decrypt", "get", "keys", "establish", "send",
           "encrypt", "put"}

\* The mutex is held by the thread that is in a section, and by no other.
Exclusive == \A t \in Threads : pc[t] \in Sections <=> mutex = t

MutexInv ==
    /\ pc \in [Threads -> Places]
    /\ mutex \in Threads \cup {"free"}
    /\ Exclusive
    /\ stale = {}

-----------------------------------------------------------------------------
\* Taking the mutex and loading the record (Load): the mutex was free, so
\* nobody was in a section, and the thread is the only one that is in one now.
LEMMA LoadKeeps ==
    ASSUME NEW t \in Threads, NEW from \in Places, NEW to \in Sections,
           MutexInv, Load(t, from, to)
    PROVE  MutexInv'
<1>1. /\ pc' = [pc EXCEPT ![t] = to]
      /\ mutex = "free" /\ mutex' = t
      /\ stale' = stale
  BY DEF Load, Goto
<1>2. to \in Places
  BY DEF Sections, Places
<1>3. \A u \in Threads : pc[u] \notin Sections
  BY <1>1 DEF MutexInv, Exclusive, Threads, Senders
<1>4. Exclusive'
  BY <1>1, <1>3 DEF MutexInv, Exclusive
<1> QED
  BY <1>1, <1>2, <1>4 DEF MutexInv

\* Storing the record and giving the mutex back (Store, with the thread
\* leaving its section): no other thread has loaded a record it could overtake.
LEMMA StoreKeeps ==
    ASSUME NEW t \in Threads, NEW place \in Places \ Sections,
           MutexInv, pc[t] \in Sections, Store(t), Goto(t, place)
    PROVE  MutexInv'
<1>1. /\ pc' = [pc EXCEPT ![t] = place]
      /\ mutex = t
  BY DEF Goto, MutexInv, Exclusive
<1>2. mutex' = "free"
  BY <1>1 DEF Store
<1>3. {u \in Threads : pc[u] \in Sections} \subseteq {t}
  BY <1>1 DEF MutexInv, Exclusive
<1>4. stale' = {}
  BY <1>3 DEF Store, MutexInv
<1>5. Exclusive'
  BY <1>1, <1>2, <1>3 DEF MutexInv, Exclusive, Threads, Senders
<1> QED
  BY <1>1, <1>2, <1>4, <1>5 DEF MutexInv

\* Any other step of a thread: outside the sections before and after.
LEMMA GotoKeeps ==
    ASSUME NEW t \in Threads, NEW place \in Places \ Sections,
           MutexInv, pc[t] \notin Sections, Goto(t, place),
           UNCHANGED <<mutex, stale>>
    PROVE  MutexInv'
BY DEF MutexInv, Exclusive, Goto

\* A step that moves no thread.
LEMMA StillKeeps ==
    ASSUME MutexInv, UNCHANGED <<mutex, pc, stale>>
    PROVE  MutexInv'
BY DEF MutexInv, Exclusive

\* The steps of onPush() on libsignal's thread.
LEMMA PushKeeps ==
    ASSUME MutexInv, Push
    PROVE  MutexInv'
<1> "push" \in Threads
  BY DEF Threads
<1>1. CASE PushBegin
  BY <1>1, GotoKeeps DEF PushBegin, Places, Sections
<1>2. CASE PushLock
  BY <1>2, LoadKeeps DEF PushLock, Places, Sections
<1>3. CASE PushDecrypted
  BY <1>3, StoreKeeps DEF PushDecrypted, Places, Sections
<1>4. CASE PushFailed
  BY <1>4, StoreKeeps DEF PushFailed, Places, Sections
<1> QED
  BY <1>1, <1>2, <1>3, <1>4 DEF Push

\* What a sender goes to from "idle" is outside the sections.
LEMMA ResolvedPlaces ==
    ASSUME NEW w
    PROVE  Resolved(w) \in Places \ Sections
<1>1. CASE ~cached
  BY <1>1 DEF Resolved, Places, Sections
<1>2. CASE cached /\ w = CallWork
  BY <1>2 DEF Resolved, Places, Sections
<1>3. CASE cached /\ w /= CallWork
  BY <1>3 DEF Resolved, Places, Sections
<1> QED
  BY <1>1, <1>2, <1>3

\* The steps of the senders, from having something to send to the answer.
LEMMA SendKeeps ==
    ASSUME MutexInv, NEW t \in Senders, Send(t) \/ SendEnds(t)
    PROVE  MutexInv'
<1> t \in Threads
  BY DEF Threads
<1>1. CASE KeysArrive(t)
  BY <1>1, GotoKeeps DEF KeysArrive, Answered, Places, Sections
<1>2. CASE EstablishLock(t)
  BY <1>2, LoadKeeps DEF EstablishLock, Places, Sections
<1>3. CASE Establish(t)
  <2>1. /\ pc[t] \in Sections /\ Store(t)
        /\ \E place \in Places \ Sections : Goto(t, place)
    BY <1>3 DEF Establish, Finish, Places, Sections
  <2> QED
    BY <2>1, StoreKeeps
<1>4. CASE EncryptLock(t)
  BY <1>4, LoadKeeps DEF EncryptLock, Places, Sections
<1>5. CASE Encrypt(t)
  BY <1>5, StoreKeeps DEF Encrypt, Places, Sections
<1>6. CASE PutAccepted(t)
  BY <1>6, GotoKeeps DEF PutAccepted, Answered, Finish, Places, Sections
<1>7. CASE SendEnds(t)
  BY <1>7, GotoKeeps DEF SendEnds, Finish, Places, Sections
<1> QED
  BY <1>1, <1>2, <1>3, <1>4, <1>5, <1>6, <1>7 DEF Send

\* Every step of the daemon, the peer and a restart keeps the invariant.
LEMMA NextKeeps ==
    ASSUME MutexInv, [Next]_vars
    PROVE  MutexInv'
<1>1. ASSUME NEW sealed \in BOOLEAN, PeerSends(sealed)
      PROVE  MutexInv'
  BY <1>1, StillKeeps DEF PeerSends, threadVars
<1>2. CASE CacheExpires
  BY <1>2, StillKeeps DEF CacheExpires, threadVars
<1>3. CASE Crash
  BY <1>3 DEF Crash, MutexInv, Exclusive, Places, Sections, Threads, Senders
<1>4. CASE Push
  BY <1>4, PushKeeps
<1>5. CASE CallSends
  <2>1. "call" \in Threads /\ pc["call"] \notin Sections
    BY <1>5 DEF CallSends, Threads, Senders, Sections
  <2> QED
    BY <1>5, <2>1, GotoKeeps, ResolvedPlaces DEF CallSends
<1>6. CASE WorkerTakes
  <2>1. "worker" \in Threads /\ pc["worker"] \notin Sections
    BY <1>6 DEF WorkerTakes, Threads, Senders, Sections
  <2>2. CASE Goto("worker", Resolved(Head(queue)))
    BY <1>6, <2>1, <2>2, GotoKeeps, ResolvedPlaces DEF WorkerTakes
  <2>3. CASE UNCHANGED pc
    BY <1>6, <2>3, StillKeeps DEF WorkerTakes
  <2> QED
    BY <1>6, <2>2, <2>3 DEF WorkerTakes
<1>7. ASSUME NEW t \in Senders, Send(t) \/ SendEnds(t)
      PROVE  MutexInv'
  BY <1>7, SendKeeps
<1>8. CASE UNCHANGED vars
  BY <1>8, StillKeeps DEF vars, threadVars
<1> QED
  BY <1>1, <1>2, <1>3, <1>4, <1>5, <1>6, <1>7, <1>8 DEF Next

\* Initially nobody has the mutex and everybody is idle.
LEMMA InitMutexInv == Init => MutexInv
BY DEF Init, MutexInv, Exclusive, Places, Sections, Threads, Senders

\* In every behaviour a thread is in a section exactly when it has the mutex.
THEOREM MutexTheorem == Spec => []MutexInv
<1>1. MutexInv /\ [Next]_vars => MutexInv'
  BY NextKeeps
<1> QED
  BY <1>1, InitMutexInv, PTL DEF Spec

\* ProtocolStores::mutex() serves its purpose for any number of queued work,
\* sessions and restarts: nobody writes back a session record that another
\* thread has changed since it was loaded.
THEOREM NoLostUpdateTheorem == Spec => []NoLostUpdate
<1>1. MutexInv => NoLostUpdate
  BY DEF MutexInv, NoLostUpdate
<1> QED
  BY <1>1, MutexTheorem, PTL

\* The senders give the mutex back before every request, so libsignal's thread
\* never waits in onPush() for a sender that waits for libsignal's thread.
THEOREM NoWaitCycleTheorem == Spec => []NoWaitCycle
<1>1. MutexInv => NoWaitCycle
  BY DEF MutexInv, Exclusive, NoWaitCycle, Sections, Threads
<1> QED
  BY <1>1, MutexTheorem, PTL
=============================================================================
