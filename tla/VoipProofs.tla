----------------------------- MODULE VoipProofs -----------------------------
(***************************************************************************)
(* Proofs about the audio path (src/voip): the sample ring RingBuffer and, *)
(* at the end, AudioBridge, the bridge that owns two such rings.           *)
(*                                                                         *)
(* The ring, for any capacity, chunk sizes and number of samples: the two  *)
(* threads never copy one slot at once, and the ring implements the        *)
(* bounded FIFO SampleQueue.  Both rest on one picture, RingInv.  Counted  *)
(* from tail_, the slots are first the Used published ones, of which pop() *)
(* copies a prefix, then those push() has clipped its count to, of which a *)
(* prefix is written, and at least one more that stays empty.  Each side   *)
(* has read the other's index once; the other side has only ever made more *)
(* room since.                                                             *)
(*                                                                         *)
(* The bridge: PortInv says where the resample ports are, FeederInv when   *)
(* there is a feeder thread to join.                                       *)
(***************************************************************************)
EXTENDS RingBuffer, AudioBridge, SequenceTheorems, TLAPS

\* The i-th slot after slot s, as both copy loops compute it.
At(s, i) == (s + i) % Capacity

\* push() works from the published head_, on slots that were free, and the
\* first pDone of them hold the samples offered.
ProducerInv ==
    ppc = "copy" =>
      /\ pHead = head
      /\ pCount + Used < Capacity
      /\ pCount <= offered
      /\ next + offered <= MaxSamples + 1
      /\ \A i \in 0..(pDone - 1) : buffer[At(pHead, i)] = next + i

\* pop() works from the published tail_, on samples that were published, and
\* has copied the first ones.
ConsumerInv ==
    cpc = "copy" =>
      /\ cTail = tail
      /\ cCount <= Used
      /\ \A i \in 1..Len(data) : data[i] = buffer[At(cTail, i - 1)]

RingInv == TypeOK /\ ProducerInv /\ ConsumerInv

-----------------------------------------------------------------------------
(* Arithmetic of the ring                                                  *)

\* The slot i places after s: the modulo wraps at most once.
LEMMA AtValue ==
    ASSUME NEW s \in Slots, NEW i \in 0..Capacity
    PROVE  /\ At(s, i) = IF s + i < Capacity THEN s + i ELSE s + i - Capacity
           /\ At(s, i) \in Slots
  BY RingAssumption DEF At, Slots

\* Different distances below the capacity lead to different slots.
LEMMA AtInjective ==
    ASSUME NEW s \in Slots, NEW i \in 0..(Capacity - 1),
           NEW j \in 0..(Capacity - 1), At(s, i) = At(s, j)
    PROVE  i = j
  BY RingAssumption DEF At, Slots

\* Distances add up.
LEMMA AtAt ==
    ASSUME NEW s \in Slots, NEW i \in 0..Capacity, NEW j \in 0..Capacity,
           i + j <= Capacity
    PROVE  At(At(s, i), j) = At(s, i + j)
<1>1. /\ At(s, i) \in Slots
      /\ At(s, i) = IF s + i < Capacity THEN s + i ELSE s + i - Capacity
  BY AtValue
<1>2. At(At(s, i), j) = IF At(s, i) + j < Capacity THEN At(s, i) + j
                        ELSE At(s, i) + j - Capacity
  BY <1>1, AtValue
<1>3. i + j \in 0..Capacity
  BY RingAssumption
<1>4. At(s, i + j) = IF s + (i + j) < Capacity THEN s + (i + j)
                     ELSE s + (i + j) - Capacity
  BY <1>3, AtValue
<1> QED
  BY <1>1, <1>2, <1>4, RingAssumption DEF Slots

\* Used is how far head_ is ahead of tail_, and short of the capacity.
LEMMA UsedValue ==
    ASSUME head \in Slots, tail \in Slots
    PROVE  /\ Used = IF head >= tail THEN head - tail
                     ELSE head - tail + Capacity
           /\ Used \in 0..(Capacity - 1)
           /\ At(tail, Used) = head
<1>1. /\ Used = IF head >= tail THEN head - tail ELSE head - tail + Capacity
      /\ Used \in 0..(Capacity - 1)
  BY RingAssumption DEF Used, Slots
<1>2. Used \in 0..Capacity
  BY <1>1, RingAssumption
<1>3. At(tail, Used) = IF tail + Used < Capacity THEN tail + Used
                       ELSE tail + Used - Capacity
  BY <1>2, AtValue
<1> QED
  BY <1>1, <1>3, RingAssumption DEF Slots

\* The distance head_ - tail_, as Used computes it, is the number of places
\* from the one to the other.
LEMMA DistanceValue ==
    ASSUME NEW h \in Slots, NEW t \in Slots, NEW n \in 0..(Capacity - 1),
           h = At(t, n)
    PROVE  (h - t + Capacity) % Capacity = n
<1>1. n \in 0..Capacity
  BY RingAssumption
<1>2. h = IF t + n < Capacity THEN t + n ELSE t + n - Capacity
  BY <1>1, AtValue
<1>3. CASE t + n < Capacity
  BY <1>2, <1>3, RingAssumption DEF Slots
<1>4. CASE ~(t + n < Capacity)
  BY <1>2, <1>4, RingAssumption DEF Slots
<1> QED
  BY <1>3, <1>4

-----------------------------------------------------------------------------
(* The slots of the two sides                                              *)

\* What push() still has to fill lies beyond what is published.
LEMMA ProducerSlots ==
    ASSUME RingInv, ppc = "copy", NEW i \in 0..pCount, i + Used < Capacity
    PROVE  /\ Used + i \in 0..(Capacity - 1)
           /\ At(pHead, i) = At(tail, Used + i)
           /\ At(pHead, i) \in Slots
<1>1. /\ head \in Slots /\ tail \in Slots /\ pHead = head /\ pCount \in Nat
  BY DEF RingInv, TypeOK, ProducerInv
<1>2. Used \in 0..(Capacity - 1) /\ At(tail, Used) = head
  BY <1>1, UsedValue
<1>3. /\ Used \in 0..Capacity /\ i \in 0..Capacity /\ Used + i <= Capacity
      /\ Used + i \in 0..(Capacity - 1)
  BY <1>1, <1>2, RingAssumption
<1>4. At(At(tail, Used), i) = At(tail, Used + i)
  BY <1>1, <1>3, AtAt
<1>5. At(head, i) \in Slots
  BY <1>1, <1>3, AtValue
<1> QED
  BY <1>1, <1>2, <1>3, <1>4, <1>5

\* So no published slot is among them.
LEMMA SidesDisjoint ==
    ASSUME RingInv, ppc = "copy", NEW i \in 0..(pCount - 1),
           NEW j \in 0..(Used - 1)
    PROVE  At(pHead, i) # At(tail, j)
<1>1. /\ head \in Slots /\ tail \in Slots /\ pHead = head /\ pCount \in Nat
      /\ pCount + Used < Capacity
  BY DEF RingInv, TypeOK, ProducerInv
<1>2. Used \in 0..(Capacity - 1)
  BY <1>1, UsedValue
<1>3. i \in 0..pCount /\ i + Used < Capacity
  BY <1>1, <1>2, RingAssumption
<1>4. Used + i \in 0..(Capacity - 1) /\ At(pHead, i) = At(tail, Used + i)
  BY <1>3, ProducerSlots
<1>5. j \in 0..(Capacity - 1) /\ j # Used + i
  BY <1>2, <1>4, RingAssumption
<1> QED
  BY <1>1, <1>4, <1>5, AtInjective

-----------------------------------------------------------------------------
(* RingInv is inductive                                                    *)

\* An empty ring.
LEMMA InitRingInv == Init => RingInv
  BY RingAssumption DEF Init, RingInv, TypeOK, ProducerInv, ConsumerInv, Slots

\* push() clips its count to the room it has read.
LEMMA PushBeginInv ==
    ASSUME RingInv, NEW samples \in 0..MaxChunk, PushBegin(samples)
    PROVE  RingInv'
<1>1. Used \in 0..(Capacity - 1)
  BY UsedValue DEF RingInv, TypeOK
<1>2. Used' = Used
  BY DEF PushBegin, ringVars, Used
<1>3. CASE Least(samples, Free) = 0
  <2>1. UNCHANGED <<ringVars, consumerVars, ppc, pHead, pCount, pDone, offered>>
    BY <1>3 DEF PushBegin
  <2>2. next' \in Nat
    BY <1>3, RingAssumption DEF PushBegin, RingInv, TypeOK
  <2>3. ppc' = "idle"
    BY <2>1 DEF PushBegin
  <2> QED
    BY <1>2, <2>1, <2>2, <2>3
    DEF RingInv, TypeOK, ProducerInv, ConsumerInv, ringVars, consumerVars, At
<1>4. CASE Least(samples, Free) # 0
  <2>1. /\ UNCHANGED <<ringVars, consumerVars, next>>
        /\ ppc' = "copy" /\ pHead' = head /\ pDone' = 0 /\ offered' = samples
        /\ pCount' = Least(samples, Free)
        /\ next + samples <= MaxSamples + 1
    BY <1>4 DEF PushBegin
  <2>2. /\ pCount' \in Nat /\ pCount' <= offered' /\ pCount' + Used' < Capacity
        /\ offered' \in Nat /\ pDone' \in 0..pCount'
    BY <1>1, <1>2, <2>1, RingAssumption DEF Least, Free
  <2>3. TypeOK'
    BY <2>1, <2>2 DEF RingInv, TypeOK, ringVars, consumerVars
  <2>4. ProducerInv'
    BY <2>1, <2>2 DEF ProducerInv, ringVars
  <2>5. ConsumerInv'
    BY <1>2, <2>1 DEF RingInv, ConsumerInv, ringVars, consumerVars, At
  <2> QED
    BY <2>3, <2>4, <2>5 DEF RingInv
<1> QED
  BY <1>3, <1>4

\* One more sample in a slot that neither side has in use.
LEMMA PushCopyInv ==
    ASSUME RingInv, PushCopy
    PROVE  RingInv'
<1> DEFINE slot == At(pHead, pDone)
<1>1. /\ ppc = "copy" /\ pDone < pCount /\ pDone' = pDone + 1
      /\ buffer' = [buffer EXCEPT ![slot] = next + pDone]
      /\ UNCHANGED <<head, tail, ppc, pHead, pCount, next, offered, consumerVars>>
  BY DEF PushCopy, At
<1>2. /\ head \in Slots /\ tail \in Slots /\ pHead \in Slots /\ pCount \in Nat
      /\ pDone \in 0..pCount /\ next \in Nat /\ buffer \in [Slots -> Nat]
      /\ pCount + Used < Capacity
  BY <1>1 DEF RingInv, TypeOK, ProducerInv
<1>3. Used \in 0..(Capacity - 1) /\ Used' = Used
  BY <1>1, <1>2, UsedValue DEF Used
<1>4. pDone \in 0..(pCount - 1) /\ pDone \in 0..pCount /\ pDone + Used < Capacity
  BY <1>1, <1>2, <1>3, RingAssumption
<1>5. slot \in Slots
  BY <1>1, <1>4, ProducerSlots
<1> HIDE DEF slot
<1>6. TypeOK'
  <2>1. buffer' \in [Slots -> Nat]
    BY <1>1, <1>2, <1>5
  <2>2. pDone' \in 0..pCount'
    BY <1>1, <1>2
  <2> QED
    BY <1>1, <2>1, <2>2 DEF RingInv, TypeOK, consumerVars
<1>7. ProducerInv'
  <2>1. ASSUME NEW i \in 0..(pDone' - 1)
        PROVE  buffer'[At(pHead', i)] = next' + i
    <3>1. i \in 0..pDone /\ i \in 0..(Capacity - 1) /\ i \in 0..Capacity
          /\ pDone \in 0..(Capacity - 1)
      BY <1>1, <1>2, <1>3, <2>1, RingAssumption
    <3>2. At(pHead, i) \in Slots
      BY <1>2, <3>1, AtValue
    <3>3. CASE i = pDone
      BY <1>1, <1>2, <1>5, <3>3 DEF slot
    <3>4. CASE i # pDone
      <4>1. i \in 0..(pDone - 1)
        BY <1>2, <3>1, <3>4
      <4>2. buffer[At(pHead, i)] = next + i
        BY <1>1, <4>1 DEF RingInv, ProducerInv
      <4>3. At(pHead, i) # slot
        BY <1>2, <3>1, <3>4, AtInjective DEF slot
      <4> QED
        BY <1>1, <1>2, <3>2, <4>2, <4>3
    <3> QED
      BY <3>3, <3>4
  <2> QED
    BY <1>1, <1>3, <2>1 DEF RingInv, ProducerInv
<1>8. ConsumerInv'
  <2>1. SUFFICES ASSUME cpc' = "copy"
                 PROVE  /\ cTail' = tail' /\ cCount' <= Used'
                        /\ \A i \in 1..Len(data') :
                              data'[i] = buffer'[At(cTail', i - 1)]
    BY DEF ConsumerInv
  <2>2. /\ cpc = "copy" /\ data' = data /\ cTail' = cTail /\ cCount' = cCount
    BY <1>1, <2>1 DEF consumerVars
  <2>3. /\ cTail = tail /\ cCount <= Used /\ cCount \in Nat
        /\ Len(data) <= cCount /\ data \in Seq(Nat)
    BY <2>2 DEF RingInv, TypeOK, ConsumerInv
  <2>4. ASSUME NEW i \in 1..Len(data)
        PROVE  data[i] = buffer'[At(cTail, i - 1)]
    <3>1. i - 1 \in 0..(Used - 1) /\ i - 1 \in 0..Capacity
      BY <1>3, <2>3, <2>4, RingAssumption
    <3>2. At(tail, i - 1) # slot
      BY <1>1, <1>4, <3>1, SidesDisjoint DEF slot
    <3>3. At(tail, i - 1) \in Slots
      BY <1>2, <3>1, AtValue
    <3>4. data[i] = buffer[At(cTail, i - 1)]
      BY <2>2, <2>4 DEF RingInv, ConsumerInv
    <3> QED
      BY <1>1, <1>2, <2>3, <3>2, <3>3, <3>4
  <2> QED
    BY <1>1, <1>3, <2>2, <2>3, <2>4
<1> QED
  BY <1>6, <1>7, <1>8 DEF RingInv

\* Publishing what was copied lengthens the published stretch by pCount.
LEMMA PushStoreUsed ==
    ASSUME RingInv, PushStore
    PROVE  Used' = Used + pCount /\ head' \in Slots
<1>1. /\ ppc = "copy" /\ head' = At(pHead, pCount) /\ tail' = tail
  BY DEF PushStore, At
<1>2. /\ head \in Slots /\ tail \in Slots /\ pCount \in Nat
      /\ pCount + Used < Capacity
  BY <1>1 DEF RingInv, TypeOK, ProducerInv
<1>3. Used \in 0..(Capacity - 1) /\ pCount \in 0..pCount
  BY <1>2, UsedValue
<1>4. /\ Used + pCount \in 0..(Capacity - 1)
      /\ head' = At(tail, Used + pCount) /\ head' \in Slots
  BY <1>1, <1>2, <1>3, ProducerSlots
<1> QED
  BY <1>1, <1>2, <1>4, DistanceValue DEF Used

\* head_.store(): what was written is published, and room for it was there.
LEMMA PushStoreInv ==
    ASSUME RingInv, PushStore
    PROVE  RingInv'
<1>1. /\ ppc' = "idle" /\ next' = next + offered
      /\ UNCHANGED <<buffer, tail, pHead, pCount, pDone, offered, consumerVars>>
  BY DEF PushStore
<1>2. Used' = Used + pCount /\ head' \in Slots
  BY PushStoreUsed
<1>3. Used \in 0..(Capacity - 1) /\ pCount \in Nat
  BY UsedValue DEF RingInv, TypeOK
<1>4. TypeOK'
  BY <1>1, <1>2 DEF RingInv, TypeOK, consumerVars
<1>5. ProducerInv'
  BY <1>1 DEF ProducerInv
<1>6. cpc = "copy" => cCount <= Used'
  BY <1>2, <1>3 DEF RingInv, TypeOK, ConsumerInv
<1>7. ConsumerInv'
  BY <1>1, <1>6 DEF RingInv, ConsumerInv, consumerVars, At
<1> QED
  BY <1>4, <1>5, <1>7 DEF RingInv

\* pop() reads head_ and clips its count to what is published.
LEMMA PopBeginInv ==
    ASSUME RingInv, NEW samples \in 0..MaxChunk, PopBegin(samples)
    PROVE  RingInv'
<1>1. /\ cpc' = "copy" /\ cTail' = tail /\ data' = <<>>
      /\ cCount' = Least(samples, Used)
      /\ UNCHANGED <<ringVars, producerVars, out>>
  BY DEF PopBegin
<1>2. Used \in 0..(Capacity - 1) /\ Used' = Used
  BY <1>1, UsedValue DEF RingInv, TypeOK, ringVars, Used
<1>3. cCount' \in Nat /\ cCount' <= Used'
  BY <1>1, <1>2, RingAssumption DEF Least
<1>4. data' \in Seq(Nat) /\ Len(data') = 0
  BY <1>1
<1>5. TypeOK'
  BY <1>1, <1>3, <1>4 DEF RingInv, TypeOK, ringVars, producerVars
<1>6. ProducerInv'
  BY <1>1, <1>2 DEF RingInv, ProducerInv, ringVars, producerVars, At
<1>7. ConsumerInv'
  BY <1>1, <1>3, <1>4 DEF ConsumerInv, ringVars
<1> QED
  BY <1>5, <1>6, <1>7 DEF RingInv

\* pop() copies a slot that push() cannot reach.
LEMMA PopCopyInv ==
    ASSUME RingInv, PopCopy
    PROVE  RingInv'
<1> DEFINE sample == buffer[At(cTail, Len(data))]
<1>1. /\ cpc = "copy" /\ Len(data) < cCount /\ data' = Append(data, sample)
      /\ UNCHANGED <<ringVars, producerVars, cpc, cTail, cCount, out>>
  BY DEF PopCopy, At
<1>2. /\ head \in Slots /\ tail \in Slots /\ cTail \in Slots /\ cCount \in Nat
      /\ data \in Seq(Nat) /\ buffer \in [Slots -> Nat] /\ cCount <= Used
  BY <1>1 DEF RingInv, TypeOK, ConsumerInv
<1>3. Used \in 0..(Capacity - 1) /\ Used' = Used
  BY <1>1, <1>2, UsedValue DEF ringVars, Used
<1>4. Len(data) \in 0..Capacity
  BY <1>1, <1>2, <1>3, RingAssumption
<1>5. sample \in Nat
  BY <1>2, <1>4, AtValue
<1> HIDE DEF sample
<1>6. /\ data' \in Seq(Nat) /\ Len(data') = Len(data) + 1
      /\ data'[Len(data) + 1] = sample
      /\ \A i \in 1..Len(data) : data'[i] = data[i]
  BY <1>1, <1>2, <1>5
<1>7. TypeOK'
  BY <1>1, <1>2, <1>6 DEF RingInv, TypeOK, ringVars, producerVars
<1>8. ProducerInv'
  BY <1>1, <1>3 DEF RingInv, ProducerInv, ringVars, producerVars, At
<1>9. ASSUME NEW i \in 1..Len(data')
      PROVE  data'[i] = buffer[At(cTail, i - 1)]
  <2>1. CASE i = Len(data) + 1
    BY <1>2, <1>6, <2>1 DEF sample
  <2>2. CASE i \in 1..Len(data)
    BY <1>1, <1>6, <2>2 DEF RingInv, ConsumerInv
  <2> QED
    BY <1>2, <1>6, <1>9, <2>1, <2>2
<1>10. ConsumerInv'
  BY <1>1, <1>2, <1>3, <1>9 DEF RingInv, ConsumerInv, ringVars, At
<1> QED
  BY <1>7, <1>8, <1>10 DEF RingInv

\* Releasing what was copied moves tail_ along the published stretch.
LEMMA PopStoreUsed ==
    ASSUME RingInv, PopStore
    PROVE  /\ cCount \in 0..Used
           /\ Used' = Used - cCount
           /\ tail' = At(tail, cCount)
           /\ tail' \in Slots
<1>1. /\ cpc = "copy" /\ tail' = At(cTail, cCount) /\ head' = head
  BY DEF PopStore, At
<1>2. /\ head \in Slots /\ tail \in Slots /\ cTail = tail /\ cCount \in Nat
      /\ cCount <= Used
  BY <1>1 DEF RingInv, TypeOK, ConsumerInv
<1>3. Used \in 0..(Capacity - 1) /\ At(tail, Used) = head
  BY <1>2, UsedValue
<1>4. /\ cCount \in 0..Capacity /\ cCount \in 0..Used
      /\ Used - cCount \in 0..(Capacity - 1) /\ Used - cCount \in 0..Capacity
      /\ cCount + (Used - cCount) = Used /\ Used <= Capacity
  BY <1>2, <1>3, RingAssumption
<1>5. tail' = At(tail, cCount) /\ tail' \in Slots
  BY <1>1, <1>2, <1>4, AtValue
<1>6. At(tail', Used - cCount) = At(tail, Used)
  BY <1>2, <1>4, <1>5, AtAt
<1> QED
  BY <1>1, <1>2, <1>3, <1>4, <1>5, <1>6, DistanceValue DEF Used

\* tail_.store(): only what was copied is freed.
LEMMA PopStoreInv ==
    ASSUME RingInv, PopStore
    PROVE  RingInv'
<1>1. /\ cpc' = "idle" /\ out' = data /\ data' = <<>>
      /\ UNCHANGED <<buffer, head, producerVars, cTail, cCount>>
  BY DEF PopStore
<1>2. cCount \in 0..Used /\ Used' = Used - cCount /\ tail' \in Slots
  BY PopStoreUsed
<1>3. Used \in 0..(Capacity - 1) /\ pCount \in Nat
  BY UsedValue DEF RingInv, TypeOK
<1>4. data' \in Seq(Nat) /\ Len(data') = 0
  BY <1>1
<1>5. TypeOK'
  BY <1>1, <1>2, <1>4 DEF RingInv, TypeOK, producerVars
<1>6. ppc = "copy" => pCount + Used' < Capacity
  BY <1>2, <1>3, RingAssumption DEF RingInv, ProducerInv
<1>7. ProducerInv'
  BY <1>1, <1>6 DEF RingInv, ProducerInv, producerVars, At
<1>8. ConsumerInv'
  BY <1>1 DEF ConsumerInv
<1> QED
  BY <1>5, <1>7, <1>8 DEF RingInv

\* Every step of either thread keeps the invariant.
LEMMA NextRingInv == RingInv /\ [Next]_vars => RingInv'
<1> SUFFICES ASSUME RingInv, [Next]_vars PROVE RingInv'
  OBVIOUS
<1>1. CASE UNCHANGED vars
  BY <1>1 DEF vars, ringVars, producerVars, consumerVars, RingInv, TypeOK,
              ProducerInv, ConsumerInv, Used, At
<1>2. CASE Next
  BY <1>2, PushBeginInv, PushCopyInv, PushStoreInv, PopBeginInv, PopCopyInv,
     PopStoreInv DEF Next, Producer, Consumer
<1> QED
  BY <1>1, <1>2

\* The invariant holds in every state of the ring.
LEMMA RingInvariant == Spec => []RingInv
  BY InitRingInv, NextRingInv, PTL DEF Spec

\* The domains of the ring's variables: indices stay in the buffer, and
\* neither side copies more than it claimed.
THEOREM RingTypeOK == Spec => []TypeOK
<1>1. RingInv => TypeOK
  BY DEF RingInv
<1> QED
  BY <1>1, RingInvariant, PTL

-----------------------------------------------------------------------------
(* The copy loops do not meet                                              *)

\* While both threads are in their copy loops, push() fills slots beyond
\* head_ and pop() reads slots before it, so the plain int16_t accesses of
\* buffer_ are no data race, whatever the two threads' speeds.
THEOREM NoDataRace == Spec => []DataRaceFree
<1>1. RingInv => DataRaceFree
  <2> SUFFICES ASSUME RingInv, ppc = "copy", cpc = "copy",
                      NEW slot \in Writing, slot \in Reading
               PROVE  FALSE
    BY DEF DataRaceFree
  <2>1. /\ pDone \in 0..pCount /\ pCount \in Nat /\ cTail = tail
        /\ cCount \in Nat /\ cCount <= Used /\ Len(data) \in Nat
        /\ head \in Slots /\ tail \in Slots
    BY DEF RingInv, TypeOK, ConsumerInv
  <2>2. Used \in 0..(Capacity - 1)
    BY <2>1, UsedValue
  <2>3. PICK i \in pDone..(pCount - 1) : slot = At(pHead, i)
    BY DEF Writing, At
  <2>4. PICK j \in Len(data)..(cCount - 1) : slot = At(cTail, j)
    BY DEF Reading, At
  <2>5. i \in 0..(pCount - 1) /\ j \in 0..(Used - 1)
    BY <2>1, <2>2, <2>3, <2>4
  <2> QED
    BY <2>1, <2>3, <2>4, <2>5, SidesDisjoint
<1> QED
  BY <1>1, RingInvariant, PTL

-----------------------------------------------------------------------------
(* The ring implements SampleQueue                                         *)

\* The published slots as a sequence.
ContentsShape ==
    /\ Contents \in Seq(Nat)
    /\ Len(Contents) = Used
    /\ Used \in 0..(Capacity - 1)
    /\ \A i \in 1..Used : Contents[i] = buffer[At(tail, i - 1)]

\* What the abstract queue holds, slot by slot.
LEMMA ContentsProperties == RingInv => ContentsShape
<1> SUFFICES ASSUME RingInv PROVE ContentsShape
  OBVIOUS
<1>1. head \in Slots /\ tail \in Slots /\ buffer \in [Slots -> Nat]
  BY DEF RingInv, TypeOK
<1>2. Used \in 0..(Capacity - 1)
  BY <1>1, UsedValue
<1>3. ASSUME NEW i \in 1..Used
      PROVE  /\ (tail + i - 1) % Capacity = At(tail, i - 1)
             /\ buffer[At(tail, i - 1)] \in Nat
  <2>1. i - 1 \in 0..Capacity /\ tail + i - 1 = tail + (i - 1)
    BY <1>1, <1>2, RingAssumption DEF Slots
  <2> QED
    BY <1>1, <2>1, AtValue DEF At
<1> QED
  BY <1>2, <1>3 DEF Contents, ContentsShape

\* ... before a step and after it.
LEMMA ContentsPropertiesAfter == RingInv' => ContentsShape'
  BY ContentsProperties, PTL

\* An empty ring is an empty queue.
LEMMA InitRefines == Init => Abstract!QueueInit
<1> SUFFICES ASSUME Init PROVE Abstract!QueueInit
  OBVIOUS
<1>1. RingInv
  BY InitRingInv
<1>2. Used = 0
  BY RingAssumption DEF Init, Used
<1>3. Contents = <<>>
  BY <1>1, <1>2, ContentsProperties DEF ContentsShape
<1> QED
  BY <1>3 DEF Init, Abstract!QueueInit

\* A push() that finds no room, or is given nothing, is a Push of nothing;
\* otherwise its first step is invisible.
LEMMA PushBeginRefines ==
    ASSUME RingInv, NEW samples \in 0..MaxChunk, PushBegin(samples)
    PROVE  Abstract!Push \/ UNCHANGED Abstract!queueVars
<1>1. Contents' = Contents /\ out' = out
  BY DEF PushBegin, ringVars, consumerVars, Contents, Used
<1>2. CASE Least(samples, Free) = 0
  <2>1. /\ samples \in 0..(MaxSamples + 1 - next) /\ next' = next + samples
        /\ 0 \in 0..samples
    BY <1>2, RingAssumption DEF PushBegin, RingInv, TypeOK
  <2>2. Contents \in Seq(Nat) /\ Len(Contents) + 0 < Capacity
    BY ContentsProperties, RingAssumption DEF ContentsShape
  <2>3. Abstract!Samples(next, 0) = <<>>
    BY DEF Abstract!Samples
  <2>4. Contents' = Contents \o Abstract!Samples(next, 0)
    BY <1>1, <2>2, <2>3
  <2> QED
    BY <1>1, <2>1, <2>2, <2>4 DEF Abstract!Push
<1>3. CASE Least(samples, Free) # 0
  BY <1>1, <1>3 DEF PushBegin, Abstract!queueVars
<1> QED
  BY <1>2, <1>3

\* Copying into a slot that is not published changes nothing the consumer
\* can see.
LEMMA PushCopyRefines ==
    ASSUME RingInv, PushCopy
    PROVE  UNCHANGED Abstract!queueVars
<1>1. /\ ppc = "copy" /\ pDone < pCount
      /\ buffer' = [buffer EXCEPT ![At(pHead, pDone)] = next + pDone]
      /\ UNCHANGED <<head, tail, next, out>>
  BY DEF PushCopy, At, consumerVars
<1>2. /\ pDone \in 0..(pCount - 1) /\ tail \in Slots
      /\ buffer \in [Slots -> Nat]
  BY <1>1 DEF RingInv, TypeOK
<1>3. Used' = Used
  BY <1>1 DEF Used
<1>4. RingInv'
  BY PushCopyInv
<1>5. /\ Contents \in Seq(Nat) /\ Len(Contents) = Used /\ Used \in 0..(Capacity - 1)
      /\ \A i \in 1..Used : Contents[i] = buffer[At(tail, i - 1)]
  BY ContentsProperties DEF ContentsShape
<1>6. /\ Contents' \in Seq(Nat) /\ Len(Contents') = Used'
      /\ \A i \in 1..Used' : Contents'[i] = buffer'[At(tail', i - 1)]
  BY <1>4, ContentsPropertiesAfter DEF ContentsShape
<1>7. ASSUME NEW i \in 1..Used
      PROVE  Contents'[i] = Contents[i]
  <2>1. i - 1 \in 0..(Used - 1) /\ i - 1 \in 0..Capacity
    BY <1>5, RingAssumption
  <2>2. At(tail, i - 1) # At(pHead, pDone) /\ At(tail, i - 1) \in Slots
    BY <1>1, <1>2, <2>1, SidesDisjoint, AtValue
  <2>3. buffer'[At(tail, i - 1)] = buffer[At(tail, i - 1)]
    BY <1>1, <1>2, <2>2
  <2> QED
    BY <1>1, <1>3, <1>5, <1>6, <2>3
<1>8. Contents' = Contents
  BY <1>3, <1>5, <1>6, <1>7, SeqEqual
<1> QED
  BY <1>1, <1>8 DEF Abstract!queueVars

\* Two sequences one after the other: the queue after a Push.
LEMMA Joined ==
    ASSUME NEW s \in Seq(Nat), NEW t \in Seq(Nat)
    PROVE  /\ s \o t \in Seq(Nat) /\ Len(s \o t) = Len(s) + Len(t)
           /\ \A i \in 1..(Len(s) + Len(t)) :
                (s \o t)[i] = IF i <= Len(s) THEN s[i] ELSE t[i - Len(s)]
  OBVIOUS

\* A sequence without its first n elements: the queue after a Pop.
LEMMA Remainder ==
    ASSUME NEW s \in Seq(Nat), NEW n \in 0..Len(s)
    PROVE  /\ SubSeq(s, n + 1, Len(s)) \in Seq(Nat)
           /\ Len(SubSeq(s, n + 1, Len(s))) = Len(s) - n
           /\ \A i \in 1..(Len(s) - n) : SubSeq(s, n + 1, Len(s))[i] = s[n + i]
<1>1. /\ n + 1 \in Int /\ Len(s) \in Int
      /\ \A i \in (n + 1)..Len(s) : s[i] \in Nat
  OBVIOUS
<1>2. SubSeq(s, n + 1, Len(s)) \in Seq(Nat)
  BY <1>1, SubSeqProperties
<1>3. Len(SubSeq(s, n + 1, Len(s))) = Len(s) - n
  OBVIOUS
<1>4. \A i \in 1..(Len(s) - n) : SubSeq(s, n + 1, Len(s))[i] = s[n + i]
  OBVIOUS
<1> QED
  BY <1>2, <1>3, <1>4

\* The store of head_ is the Push: all samples copied appear at once, in
\* order, behind those already there.
LEMMA PushStoreRefines ==
    ASSUME RingInv, PushStore
    PROVE  Abstract!Push
<1> DEFINE new == Abstract!Samples(next, pCount)
<1>1. /\ ppc = "copy" /\ pDone = pCount /\ next' = next + offered
      /\ UNCHANGED <<buffer, tail, out>>
  BY DEF PushStore, consumerVars
<1>2. /\ pCount \in Nat /\ offered \in Nat /\ next \in Nat
      /\ pCount <= offered /\ next + offered <= MaxSamples + 1
      /\ pCount + Used < Capacity /\ tail \in Slots
      /\ \A i \in 0..(pCount - 1) : buffer[At(pHead, i)] = next + i
  BY <1>1 DEF RingInv, TypeOK, ProducerInv
<1>3. Used' = Used + pCount
  BY PushStoreUsed
<1>4. RingInv'
  BY PushStoreInv
<1>5. /\ Contents \in Seq(Nat) /\ Len(Contents) = Used /\ Used \in 0..(Capacity - 1)
      /\ \A i \in 1..Used : Contents[i] = buffer[At(tail, i - 1)]
  BY ContentsProperties DEF ContentsShape
<1>6. /\ Contents' \in Seq(Nat) /\ Len(Contents') = Used'
      /\ \A i \in 1..Used' : Contents'[i] = buffer'[At(tail', i - 1)]
  BY <1>4, ContentsPropertiesAfter DEF ContentsShape
<1>7. /\ new \in Seq(Nat) /\ Len(new) = pCount
      /\ \A i \in 1..pCount : new[i] = next + i - 1
  BY <1>2 DEF Abstract!Samples
<1> HIDE DEF new
<1>8. /\ Contents \o new \in Seq(Nat) /\ Len(Contents \o new) = Used + pCount
      /\ \A i \in 1..(Used + pCount) : (Contents \o new)[i] =
            IF i <= Used THEN Contents[i] ELSE new[i - Used]
  BY <1>2, <1>5, <1>7, Joined
<1>9. ASSUME NEW i \in 1..(Used + pCount)
      PROVE  Contents'[i] = (Contents \o new)[i]
  <2>1. Contents'[i] = buffer[At(tail, i - 1)]
    BY <1>1, <1>3, <1>6
  <2>2. CASE i <= Used
    <3>1. i \in 1..Used
      BY <1>2, <1>5, <2>2
    <3> QED
      BY <1>5, <1>8, <2>1, <2>2, <3>1
  <2>3. CASE ~(i <= Used)
    <3>1. /\ i - Used - 1 \in 0..(pCount - 1) /\ i - Used - 1 \in 0..pCount
          /\ (i - Used - 1) + Used < Capacity
          /\ Used + (i - Used - 1) = i - 1 /\ i - Used \in 1..pCount
      BY <1>2, <1>5, <2>3, RingAssumption
    <3>2. At(pHead, i - Used - 1) = At(tail, i - 1)
      BY <1>1, <3>1, ProducerSlots
    <3>3. buffer[At(tail, i - 1)] = next + (i - Used - 1)
      BY <1>2, <3>1, <3>2
    <3>4. new[i - Used] = next + (i - Used) - 1
      BY <1>7, <3>1
    <3> QED
      BY <1>2, <1>5, <1>8, <2>1, <2>3, <3>3, <3>4
  <2> QED
    BY <2>2, <2>3
<1>10. Contents' = Contents \o new
  BY <1>3, <1>6, <1>8, <1>9, SeqEqual
<1>11. /\ offered \in 0..(MaxSamples + 1 - next) /\ pCount \in 0..offered
       /\ Len(Contents) + pCount < Capacity
  BY <1>2, <1>5, RingAssumption
<1> QED
  BY <1>1, <1>10, <1>11 DEF Abstract!Push, new

\* Reading the indices is no step of the queue.
LEMMA PopBeginRefines ==
    ASSUME NEW samples \in 0..MaxChunk, PopBegin(samples)
    PROVE  UNCHANGED Abstract!queueVars
  BY DEF PopBegin, ringVars, producerVars, Contents, Used, Abstract!queueVars

\* Neither is copying a slot out.
LEMMA PopCopyRefines ==
    ASSUME PopCopy
    PROVE  UNCHANGED Abstract!queueVars
  BY DEF PopCopy, ringVars, producerVars, Contents, Used, Abstract!queueVars

\* The store of tail_ is the Pop: what was copied is the head of the queue,
\* and no longer in it.
LEMMA PopStoreRefines ==
    ASSUME RingInv, PopStore
    PROVE  Abstract!Pop
<1>1. /\ cpc = "copy" /\ Len(data) = cCount /\ out' = data
      /\ UNCHANGED <<buffer, head, next>>
  BY DEF PopStore, producerVars
<1>2. /\ cTail = tail /\ tail \in Slots /\ data \in Seq(Nat)
      /\ \A i \in 1..cCount : data[i] = buffer[At(tail, i - 1)]
  BY <1>1 DEF RingInv, TypeOK, ConsumerInv
<1>3. /\ cCount \in 0..Used /\ Used' = Used - cCount /\ tail' = At(tail, cCount)
  BY PopStoreUsed
<1>4. RingInv'
  BY PopStoreInv
<1>5. /\ Contents \in Seq(Nat) /\ Len(Contents) = Used /\ Used \in 0..(Capacity - 1)
      /\ \A i \in 1..Used : Contents[i] = buffer[At(tail, i - 1)]
  BY ContentsProperties DEF ContentsShape
<1>6. /\ Contents' \in Seq(Nat) /\ Len(Contents') = Used'
      /\ \A i \in 1..Used' : Contents'[i] = buffer'[At(tail', i - 1)]
  BY <1>4, ContentsPropertiesAfter DEF ContentsShape
<1>7. out' = SubSeq(Contents, 1, cCount)
  <2>1. /\ SubSeq(Contents, 1, cCount) \in Seq(Nat)
        /\ Len(SubSeq(Contents, 1, cCount)) = cCount
        /\ \A i \in 1..cCount : SubSeq(Contents, 1, cCount)[i] = Contents[i]
    <3>1. /\ 1 \in 1..(Len(Contents) + 1) /\ cCount \in 0..Len(Contents)
          /\ Len(Contents) \in Nat
      BY <1>3, <1>5
    <3>2. /\ SubSeq(Contents, 1, cCount) \in Seq(Nat)
          /\ Len(SubSeq(Contents, 1, cCount)) = IF 1 <= cCount THEN cCount - 1 + 1 ELSE 0
          /\ \A i \in 1..(cCount - 1 + 1) :
                SubSeq(Contents, 1, cCount)[i] = Contents[1 + i - 1]
      BY <1>5, <3>1, SubSeqProperties
    <3>3. \A i \in 1..cCount : SubSeq(Contents, 1, cCount)[i] = Contents[i]
      BY <3>1, <3>2
    <3> QED
      BY <3>1, <3>2, <3>3
  <2>2. ASSUME NEW i \in 1..cCount
        PROVE  data[i] = Contents[i]
    <3>1. i \in 1..Used
      BY <1>3, <1>5
    <3> QED
      BY <1>2, <1>5, <3>1
  <2> QED
    BY <1>1, <1>2, <2>1, <2>2, SeqEqual
<1>8. Contents' = SubSeq(Contents, cCount + 1, Len(Contents))
  <2> DEFINE rest == SubSeq(Contents, cCount + 1, Len(Contents))
  <2>1. /\ rest \in Seq(Nat) /\ Len(rest) = Used - cCount
        /\ \A i \in 1..(Used - cCount) : rest[i] = Contents[cCount + i]
    BY <1>3, <1>5, Remainder
  <2> HIDE DEF rest
  <2>2. ASSUME NEW i \in 1..(Used - cCount)
        PROVE  Contents'[i] = rest[i]
    <3>1. /\ i - 1 \in 0..Capacity /\ cCount \in 0..Capacity
          /\ cCount + (i - 1) <= Capacity /\ cCount + i \in 1..Used
          /\ cCount + (i - 1) = (cCount + i) - 1
      BY <1>3, <1>5, RingAssumption
    <3>2. At(tail', i - 1) = At(tail, (cCount + i) - 1)
      BY <1>2, <1>3, <3>1, AtAt
    <3>3. Contents'[i] = buffer[At(tail', i - 1)]
      BY <1>1, <1>3, <1>6
    <3>4. rest[i] = Contents[cCount + i]
      BY <2>1
    <3> QED
      BY <1>5, <3>1, <3>2, <3>3, <3>4
  <2>3. Contents' = rest
    BY <1>3, <1>6, <2>1, <2>2, SeqEqual
  <2> QED
    BY <2>3 DEF rest
<1> QED
  BY <1>1, <1>3, <1>5, <1>7, <1>8 DEF Abstract!Pop

\* Every step of the ring is a step of the queue, or none.
LEMMA StepRefines ==
    RingInv /\ [Next]_vars => [Abstract!Push \/ Abstract!Pop]_(Abstract!queueVars)
<1> SUFFICES ASSUME RingInv, [Next]_vars
             PROVE  [Abstract!Push \/ Abstract!Pop]_(Abstract!queueVars)
  OBVIOUS
<1>1. CASE UNCHANGED vars
  BY <1>1 DEF vars, ringVars, producerVars, consumerVars, Contents, Used,
              Abstract!queueVars
<1>2. CASE Next
  BY <1>2, PushBeginRefines, PushCopyRefines, PushStoreRefines, PopBeginRefines,
     PopCopyRefines, PopStoreRefines DEF Next, Producer, Consumer
<1> QED
  BY <1>1, <1>2

\* The lock-free ring is the atomic bounded FIFO: samples reach pop() in the
\* order they were pushed, none twice, none overwritten, and a full buffer
\* drops only the newest.
THEOREM RingImplementsQueue == Spec => ImplementsQueue
<1> QED
  BY InitRefines, StepRefines, RingInvariant, PTL
  DEF Spec, ImplementsQueue, Abstract!QueueSpec

-----------------------------------------------------------------------------
(* The bridge that owns the two rings                                      *)

\* The types of AudioBridge, flags and other values apart.
Flags ==
    /\ running \in BOOLEAN /\ active \in BOOLEAN /\ recorded \in BOOLEAN
    /\ joinable \in BOOLEAN /\ inDtor \in BOOLEAN /\ missed \in BOOLEAN

Values ==
    /\ pairs \in Nat
    /\ thread \in {"none", "running", "exited"}
    /\ media \in {"idle", "wire", "start", "activate", "spawn"}
    /\ nMedia \in 0..MaxMediaEvents
    /\ stop \in {"inUse", "exchange", "join", "deactivate", "stopped", "remove",
                 "free", "freed"}
    /\ clock \in {"idle", "frame"}
    /\ faults \subseteq {"terminate", "freed port"}

\* The pair of ports that is recorded is the only one in the conference, the
\* clock is only ever inside it, and the destructor, during which no media
\* callback runs, gives it up before the members go.
PortInv ==
    /\ inDtor => media = "idle" /\ stop \notin {"inUse", "stopped"}
    /\ stop \in {"remove", "free", "freed"} => inDtor
    /\ media = "wire" => ~recorded
    /\ recorded => pairs = 1
    /\ ~recorded => pairs = 0
    /\ clock = "frame" => recorded
    /\ stop \in {"free", "freed"} => ~recorded
    /\ "freed port" \notin faults

PortsInv == Flags /\ Values /\ PortInv

\* A thread to join is there only outside Start(), after it was wired, and, as
\* long as Stop() missed none, while feeder_running_ is set or Stop() joins.
FeederInv ==
    /\ media \in {"start", "activate", "spawn"} => recorded
    /\ media /= "idle" \/ (~recorded /\ ~inDtor) => ~joinable
    /\ media \in {"activate", "spawn"} => running \/ stop = "join" \/ missed
    /\ joinable /\ ~missed => running \/ stop = "join"
    /\ inDtor /\ stop /= "exchange" => ~running
    /\ "terminate" \in faults => missed

\* These are the types of the model.
LEMMA BridgeTypes == Flags /\ Values <=> AudioTypeOK
  BY Zenon DEF Flags, Values, AudioTypeOK

\* A bridge that was just made.
LEMMA InitBridge ==
    ASSUME MaxMediaEvents \in Nat, AudioInit
    PROVE  PortsInv /\ FeederInv
<1>1. Flags
  BY DEF AudioInit, Flags
<1>2. Values
  BY DEF AudioInit, Values
<1>3. PortInv
  BY DEF AudioInit, PortInv
<1>4. FeederInv
  BY DEF AudioInit, FeederInv
<1> QED
  BY <1>1, <1>2, <1>3, <1>4 DEF PortsInv

\* The firing of onCallMediaState() is counted, and wires only what is not
\* wired yet.
LEMMA MediaPorts ==
    ASSUME MaxMediaEvents \in Nat, PortsInv, MediaState
    PROVE  PortsInv'
<1>1. nMedia \in 0..MaxMediaEvents /\ nMedia' = nMedia + 1 /\ nMedia < MaxMediaEvents
  BY Zenon DEF PortsInv, Values, MediaState, MediaAllowed
<1>2. nMedia' \in 0..MaxMediaEvents
  BY <1>1
<1> QED
  BY Zenon, <1>2 DEF PortsInv, Flags, Values, PortInv, MediaState, MediaAllowed

\* SetResamplePorts() records the pair it connects.
LEMMA WirePorts ==
    ASSUME PortsInv, Wire
    PROVE  PortsInv'
<1>1. pairs = 0 /\ pairs' = pairs + 1
  BY Zenon DEF PortsInv, PortInv, Wire
<1>2. pairs' = 1 /\ pairs' \in Nat
  BY <1>1
<1> QED
  BY Zenon, <1>2 DEF PortsInv, Flags, Values, PortInv, Wire

\* The destructor removes the pair, and the clock is not inside it.
LEMMA RemovePorts ==
    ASSUME PortsInv, DestructorRemove
    PROVE  PortsInv'
<1>1. \/ pairs = 1 /\ pairs' = pairs - 1
      \/ pairs = 0 /\ pairs' = pairs
  BY Zenon DEF PortsInv, Flags, PortInv, DestructorRemove
<1>2. pairs' = 0 /\ pairs' \in Nat
  BY <1>1
<1>3. inDtor /\ clock = "idle"
  BY Zenon DEF PortsInv, Values, PortInv, DestructorRemove
<1> QED
  BY Zenon, <1>2, <1>3 DEF PortsInv, Flags, Values, PortInv, DestructorRemove

\* The clock enters a pair that is in the conference.
LEMMA EnterPorts ==
    ASSUME PortsInv, ClockEnter
    PROVE  PortsInv'
<1>1. pairs > 0
  BY Zenon DEF ClockEnter
<1>2. pairs /= 0
  BY <1>1
<1>3. recorded
  BY Zenon, <1>2 DEF PortsInv, Flags, PortInv
<1> QED
  BY Zenon, <1>3 DEF PortsInv, Flags, Values, PortInv, ClockEnter

\* Every step keeps the ports in order, whether or not Start() and Stop()
\* overlap.
LEMMA NextPorts ==
    ASSUME MaxMediaEvents \in Nat, PortsInv, [AudioNext]_audioVars
    PROVE  PortsInv'
<1> USE DEF PortsInv, Flags, Values, PortInv
<1>1. CASE StartExchange
  BY <1>1 DEF StartExchange
<1>2. CASE StartActivate
  BY <1>2 DEF StartActivate
<1>3. CASE StartSpawn
  BY <1>3 DEF StartSpawn
<1>4. CASE StopBegin
  BY <1>4 DEF StopBegin
<1>5. CASE DestructorBegin
  BY <1>5 DEF DestructorBegin
<1>6. CASE StopExchange
  BY <1>6 DEF StopExchange, StopReturn
<1>7. CASE StopJoin
  BY <1>7 DEF StopJoin
<1>8. CASE StopDeactivate
  BY <1>8 DEF StopDeactivate, StopReturn
<1>9. CASE DestructorFree
  BY <1>9 DEF DestructorFree
<1>10. CASE FeederExit
  BY <1>10 DEF FeederExit
<1>11. CASE ClockFrame
  BY <1>11 DEF ClockFrame
<1>12. CASE UNCHANGED audioVars
  BY ZenonT(40), <1>12 DEF audioVars
<1> QED
  BY <1>1, <1>2, <1>3, <1>4, <1>5, <1>6, <1>7, <1>8, <1>9, <1>10, <1>11, <1>12,
     MediaPorts, WirePorts, RemovePorts, EnterPorts
     DEF AudioNext, StartNext, StopNext

\* Every step keeps track of the feeder thread.
LEMMA NextFeeder ==
    ASSUME PortsInv, FeederInv, [AudioNext]_audioVars
    PROVE  FeederInv'
<1> USE DEF PortsInv, Flags, Values, PortInv, FeederInv
<1>1. CASE MediaState
  BY <1>1 DEF MediaState, MediaAllowed
<1>2. CASE Wire
  BY <1>2 DEF Wire
<1>3. CASE StartExchange
  BY <1>3 DEF StartExchange
<1>4. CASE StartActivate
  BY <1>4 DEF StartActivate
<1>5. CASE StartSpawn
  BY <1>5 DEF StartSpawn
<1>6. CASE StopBegin
  BY <1>6 DEF StopBegin
<1>7. CASE DestructorBegin
  BY <1>7 DEF DestructorBegin
<1>8. CASE StopExchange
  BY <1>8 DEF StopExchange, StopReturn
<1>9. CASE StopJoin
  BY <1>9 DEF StopJoin
<1>10. CASE StopDeactivate
  BY <1>10 DEF StopDeactivate, StopReturn
<1>11. CASE DestructorRemove
  BY <1>11 DEF DestructorRemove
<1>12. CASE DestructorFree
  BY <1>12 DEF DestructorFree
<1>13. CASE FeederExit
  BY <1>13 DEF FeederExit
<1>14. CASE ClockEnter
  BY <1>14 DEF ClockEnter
<1>15. CASE ClockFrame
  BY <1>15 DEF ClockFrame
<1>16. CASE UNCHANGED audioVars
  BY <1>16 DEF audioVars
<1> QED
  BY <1>1, <1>2, <1>3, <1>4, <1>5, <1>6, <1>7, <1>8, <1>9, <1>10, <1>11, <1>12, <1>13,
     <1>14, <1>15, <1>16 DEF AudioNext, StartNext, StopNext

\* The bridge's flags, threads and ports stay in their domains, whether or not
\* Start() and Stop() overlap.
THEOREM AudioTypes == AudioSpec => []AudioTypeOK
<1>1. PortsInv /\ [AudioNext]_audioVars => PortsInv'
  BY AudioAssumption, NextPorts
<1>2. AudioInit => PortsInv
  BY AudioAssumption, InitBridge
<1>3. PortsInv => AudioTypeOK
  BY BridgeTypes DEF PortsInv
<1> QED
  BY <1>1, <1>2, <1>3, PTL DEF AudioSpec

\* However often onCallMediaState() fires, and also when it overlaps Stop():
\* ~RingRtcSipBridge() takes the resample ports out of the conference before
\* the ports they lead to are freed, and has no second pair to forget.
THEOREM FreedPortTheorem == AudioSpec => []NoFreedPort
<1>1. PortsInv /\ [AudioNext]_audioVars => PortsInv'
  BY AudioAssumption, NextPorts
<1>2. AudioInit => PortsInv
  BY AudioAssumption, InitBridge
<1>3. PortsInv => NoFreedPort
  BY DEF PortsInv, PortInv, NoFreedPort
<1> QED
  BY <1>1, <1>2, <1>3, PTL DEF AudioSpec

\* However Start(), Stop(), the media events and the destructor interleave, a
\* joinable std::thread is assigned over or destroyed only after a Stop() that
\* came between feeder_running_.exchange(true) and the assignment of the thread.
THEOREM TerminateTheorem == AudioSpec => []NeverTerminates
<1>1. PortsInv /\ FeederInv /\ [AudioNext]_audioVars => PortsInv' /\ FeederInv'
  BY AudioAssumption, NextPorts, NextFeeder
<1>2. AudioInit => PortsInv /\ FeederInv
  BY AudioAssumption, InitBridge
<1>3. FeederInv => NeverTerminates
  BY DEF FeederInv, NeverTerminates
<1> QED
  BY <1>1, <1>2, <1>3, PTL DEF AudioSpec
=============================================================================
