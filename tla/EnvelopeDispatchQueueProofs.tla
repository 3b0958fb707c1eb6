--------------------- MODULE EnvelopeDispatchQueueProofs ---------------------
(***************************************************************************)
(* Proofs about EnvelopeDispatchQueue, for every set of work items, every  *)
(* number of pushes, and whether or not setup may fail early.              *)
(*                                                                         *)
(* FifoExactlyOnce and NoLostWakeup are inductive together with TypeOK.    *)
(* CleanStopDrains also needs how the stop protocol is synchronised, which *)
(* StopProtocol states.                                                    *)
(***************************************************************************)
EXTENDS EnvelopeDispatchQueue, SequenceTheorems, TLAPS

AfterStopSet == {"stopNotify", "joining", "stopped", "closed", "gone"}

\* How far worker, waiter and owner can be from one another during a stop.
StopProtocol ==
    /\ stopping <=> owner \in AfterStopSet
    /\ owner \in {"setup", "crashed"} => worker = "none"
    /\ worker = "exited" => stopping /\ Len(done) >= pushedAtStop
    /\ waiter = "joined" => worker = "exited"
    /\ owner \in {"stopped", "closed", "gone"} /\ ~timedOut => waiter = "joined"

IInv == TypeOK /\ FifoExactlyOnce /\ NoLostWakeup /\ StopProtocol

-----------------------------------------------------------------------------
\* Moving the front of a queue into the worker's hands keeps the order.
LEMMA TakeKeepsOrder ==
    ASSUME NEW S, NEW d \in Seq(S), NEW q \in Seq(S), q /= <<>>
    PROVE  d \o <<>> \o q = d \o <<Head(q)>> \o Tail(q)
<1>1. q = <<Head(q)>> \o Tail(q) /\ Head(q) \in S /\ Tail(q) \in Seq(S)
  BY SMT
<1>2. d \o <<>> = d
  BY ConcatEmptySeq
<1>3. d \o (<<Head(q)>> \o Tail(q)) = (d \o <<Head(q)>>) \o Tail(q)
  BY <1>1, ConcatAssociative
<1> QED  BY <1>1, <1>2, <1>3

\* Recording the finished item keeps the order.
LEMMA FinishKeepsOrder ==
    ASSUME NEW S, NEW d \in Seq(S), NEW x \in S, NEW q \in Seq(S)
    PROVE  d \o <<x>> \o q = Append(d, x) \o <<>> \o q
<1>1. Append(d, x) = d \o <<x>> /\ Append(d, x) \in Seq(S)
  BY AppendIsConcat, AppendProperties
<1>2. Append(d, x) \o <<>> = Append(d, x)
  BY <1>1, ConcatEmptySeq
<1> QED  BY <1>1, <1>2

\* Appending to the queue appends to the whole history.
LEMMA PushKeepsOrder ==
    \A a, q \in Seq(Work), w \in Work : Append(a \o q, w) = a \o Append(q, w)
<1> TAKE a, q \in Seq(Work), w \in Work
<1>1. a \o q \in Seq(Work)
  BY ConcatProperties
<1>2. Append(a \o q, w) = (a \o q) \o <<w>>
  BY <1>1, AppendIsConcat
<1>3. Append(q, w) = q \o <<w>>
  BY AppendIsConcat
<1>4. (a \o q) \o <<w>> = a \o (q \o <<w>>)
  BY ConcatAssociative
<1> QED  BY <1>2, <1>3, <1>4

-----------------------------------------------------------------------------
\* The initial state satisfies the inductive invariant.
LEMMA InitIInv == Init => IInv
<1> SUFFICES ASSUME Init  PROVE IInv
  OBVIOUS
<1> USE DEF Init
<1>1. TypeOK
  <2>1. <<>> \in Seq(Work) /\ Len(<<>>) = 0
    BY EmptySeq
  <2>2. pushedAtStop \in 0..Len(pushed)
    BY <2>1
  <2> QED  BY <2>1, <2>2 DEF TypeOK, OwnerStates, WorkerStates, NoWork
<1>2. FifoExactlyOnce
  <2>1. InFlight = <<>>
    BY DEF InFlight
  <2>2. <<>> \o <<>> \o <<>> = <<>>
    BY ConcatEmptySeq, EmptySeq
  <2> QED  BY <2>1, <2>2 DEF FifoExactlyOnce
<1>3. NoLostWakeup /\ StopProtocol
  BY DEF NoLostWakeup, StopProtocol, AfterStopSet
<1> QED  BY <1>1, <1>2, <1>3 DEF IInv

\* Every step preserves the domains.
LEMMA TypeStep == TypeOK /\ [Next]_vars => TypeOK'
<1> SUFFICES ASSUME TypeOK, [Next]_vars  PROVE TypeOK'
  OBVIOUS
<1> USE DEF TypeOK, OwnerStates, WorkerStates
<1>1. ASSUME NEW w \in Work, PushAppend(w)  PROVE TypeOK'
  <2>1. /\ Append(queue, w) \in Seq(Work)
        /\ Append(pushed, w) \in Seq(Work)
        /\ Len(Append(pushed, w)) = Len(pushed) + 1
    BY AppendProperties
  <2> QED  BY <1>1, <2>1 DEF PushAppend
<1>2. CASE PushNotify
  BY <1>2 DEF PushNotify, Woken
<1>3. CASE WorkerTake
  BY <1>3 DEF WorkerTake
<1>4. CASE WorkerFinish
  BY <1>4, AppendProperties DEF WorkerFinish
<1>5. CASE WorkerBlock \/ SpuriousWakeup \/ WorkerExit
  BY <1>5 DEF WorkerBlock, SpuriousWakeup, WorkerExit
<1>6. CASE Start \/ FailBeforeStart
  BY <1>6 DEF Start, FailBeforeStart
<1>7. CASE StopSet
  <2>1. Len(pushed) \in Nat
    OBVIOUS
  <2> QED  BY <1>7, <2>1 DEF StopSet
<1>8. CASE StopNotify
  BY <1>8 DEF StopNotify, Woken
<1>9. CASE StopJoined \/ StopTimeout \/ CloseSocket \/ EraseAccount \/ WaiterJoin
  BY <1>9 DEF StopJoined, StopTimeout, CloseSocket, EraseAccount, WaiterJoin
<1>10. CASE UNCHANGED vars
  BY <1>10 DEF vars
<1> QED
  BY <1>1, <1>2, <1>3, <1>4, <1>5, <1>6, <1>7, <1>8, <1>9, <1>10
     DEF Next, ServiceNext, WorkerNext, OwnerNext, StopNext

\* Every step preserves the arrival order.
LEMMA FifoStep == IInv /\ [Next]_vars => FifoExactlyOnce'
<1> SUFFICES ASSUME TypeOK, FifoExactlyOnce, StopProtocol, [Next]_vars
             PROVE  FifoExactlyOnce'
  BY DEF IInv
<1> USE DEF FifoExactlyOnce, InFlight
<1>1. ASSUME NEW w \in Work, PushAppend(w)  PROVE FifoExactlyOnce'
  <2>1. done \o InFlight \in Seq(Work)
    BY ConcatProperties DEF TypeOK
  <2>2. Append((done \o InFlight) \o queue, w) = (done \o InFlight) \o Append(queue, w)
    <3> HIDE DEF FifoExactlyOnce, InFlight
    <3>1. queue \in Seq(Work) /\ w \in Work
      BY <1>1 DEF TypeOK
    <3> QED  BY <2>1, <3>1, PushKeepsOrder, Zenon
  <2>3. InFlight' = InFlight
    BY <1>1 DEF PushAppend
  <2> QED  BY <1>1, <2>2, <2>3 DEF PushAppend
<1>2. CASE WorkerTake
  <2>1. done \o <<>> \o queue = done \o <<Head(queue)>> \o Tail(queue)
    BY <1>2, TakeKeepsOrder DEF WorkerTake, TypeOK
  <2> QED  BY <1>2, <2>1 DEF WorkerTake
<1>3. CASE WorkerFinish
  <2>1. done \o <<item>> \o queue = Append(done, item) \o <<>> \o queue
    BY <1>3, FinishKeepsOrder DEF WorkerFinish, TypeOK
  <2> QED  BY <1>3, <2>1 DEF WorkerFinish
<1>4. CASE PushNotify \/ StopNotify
  BY <1>4 DEF PushNotify, StopNotify, Woken
<1>5. CASE WorkerBlock \/ SpuriousWakeup \/ WorkerExit
  BY <1>5 DEF WorkerBlock, SpuriousWakeup, WorkerExit
<1>6. CASE Start \/ FailBeforeStart \/ StopSet
  <2>1. ASSUME Start  PROVE FifoExactlyOnce'
    BY <2>1 DEF Start, StopProtocol
  <2>2. ASSUME FailBeforeStart \/ StopSet  PROVE FifoExactlyOnce'
    BY <2>2 DEF FailBeforeStart, StopSet
  <2> QED  BY <1>6, <2>1, <2>2
<1>7. CASE StopJoined \/ StopTimeout \/ CloseSocket \/ EraseAccount \/ WaiterJoin
  BY <1>7 DEF StopJoined, StopTimeout, CloseSocket, EraseAccount, WaiterJoin
<1>8. CASE UNCHANGED vars
  BY <1>8 DEF vars
<1> QED
  BY <1>1, <1>2, <1>3, <1>4, <1>5, <1>6, <1>7, <1>8
     DEF Next, ServiceNext, WorkerNext, OwnerNext, StopNext

\* Every step preserves the wakeup discipline and the stop protocol.
LEMMA StopStep == IInv /\ [Next]_vars => NoLostWakeup' /\ StopProtocol'
<1> SUFFICES ASSUME IInv, [Next]_vars  PROVE NoLostWakeup' /\ StopProtocol'
  OBVIOUS
<1> USE DEF IInv, TypeOK, OwnerStates, WorkerStates, NoLostWakeup, StopProtocol,
            AfterStopSet
<1>1. ASSUME NEW w \in Work, PushAppend(w)
      PROVE  NoLostWakeup' /\ StopProtocol'
  BY <1>1 DEF PushAppend, SocketOpen
<1>2. CASE PushNotify
  BY <1>2 DEF PushNotify, Woken
<1>3. CASE WorkerTake
  BY <1>3 DEF WorkerTake
<1>4. CASE WorkerFinish
  <2>1. Len(Append(done, item)) = Len(done) + 1
    BY <1>4, AppendProperties DEF WorkerFinish
  <2> QED  BY <1>4, <2>1 DEF WorkerFinish
<1>5. CASE WorkerBlock \/ SpuriousWakeup
  BY <1>5 DEF WorkerBlock, SpuriousWakeup
<1>6. CASE WorkerExit
  <2>1. pushed = done
    <3>1. pushed = done \o <<>> \o <<>>
      BY <1>6 DEF WorkerExit, FifoExactlyOnce, InFlight
    <3> QED  BY <3>1, ConcatEmptySeq
  <2> QED  BY <1>6, <2>1 DEF WorkerExit
<1>7. CASE Start \/ FailBeforeStart
  BY <1>7 DEF Start, FailBeforeStart
<1>8. CASE StopSet
  BY <1>8 DEF StopSet
<1>9. CASE StopNotify
  BY <1>9 DEF StopNotify, Woken
<1>10. CASE StopJoined \/ StopTimeout
  BY <1>10 DEF StopJoined, StopTimeout
<1>11. CASE CloseSocket \/ EraseAccount \/ WaiterJoin
  BY <1>11 DEF CloseSocket, EraseAccount, WaiterJoin
<1>12. CASE UNCHANGED vars
  BY <1>12 DEF vars
<1> QED
  BY <1>1, <1>2, <1>3, <1>4, <1>5, <1>6, <1>7, <1>8, <1>9, <1>10, <1>11, <1>12
     DEF Next, ServiceNext, WorkerNext, OwnerNext, StopNext

-----------------------------------------------------------------------------
\* The inductive invariant holds in every behaviour of the queue.
THEOREM QueueInvariant == Spec => []IInv
<1>1. IInv /\ [Next]_vars => IInv'
  BY TypeStep, FifoStep, StopStep DEF IInv
<1> QED  BY InitIInv, <1>1, PTL DEF Spec

\* The variables of the queue stay in their domains (main.cpp:194-296).
THEOREM QueueTypeOK == Spec => []TypeOK
<1>1. IInv => TypeOK
  BY DEF IInv
<1> QED  BY QueueInvariant, <1>1, PTL

\* Envelopes are executed exactly once and in arrival order, for any number
\* of envelopes and any timing of push(), run() and stopAndJoin().
THEOREM FifoTheorem == Spec => []FifoExactlyOnce
<1>1. IInv => FifoExactlyOnce
  BY DEF IInv
<1> QED  BY QueueInvariant, <1>1, PTL

\* Notifying after the mutex is released never loses a wakeup.
THEOREM WakeupTheorem == Spec => []NoLostWakeup
<1>1. IInv => NoLostWakeup
  BY DEF IInv
<1> QED  BY QueueInvariant, <1>1, PTL

\* A stopAndJoin() that does not time out has executed everything that was
\* pushed before it.
THEOREM DrainTheorem == Spec => []CleanStopDrains
<1>1. IInv => CleanStopDrains
  BY DEF IInv, StopProtocol, CleanStopDrains
<1> QED  BY QueueInvariant, <1>1, PTL
=============================================================================
