----------------------------- MODULE RingBuffer -----------------------------
(***************************************************************************)
(* voip::RingBuffer (voip/ring_buffer.h): the lock-free single-producer,   *)
(* single-consumer buffer between PJSIP's media clock and RingRTC's audio. *)
(* push() and pop() load both indices once, copy sample by sample, and     *)
(* publish their own index at the end; every load, copy and store is a     *)
(* step, so the two threads interleave anywhere.  The acquire/release      *)
(* pairs on head_ and tail_ make this interleaving semantics the right one *)
(* as long as no slot is copied by both threads at once (DataRaceFree).    *)
(*                                                                         *)
(* Samples are numbered in the order they are offered, so that a lost,     *)
(* doubled or overwritten sample shows.  head - tail + capacity_ is never  *)
(* negative, so size_t does not wrap and Integers are faithful.            *)
(***************************************************************************)
EXTENDS Integers, Sequences

CONSTANTS
    Capacity,      \* capacity_
    MaxChunk,      \* bound: samples in one call of push() or pop()
    MaxSamples     \* bound: samples ever offered

ASSUME RingAssumption ==
    /\ Capacity \in Nat \ {0}
    /\ MaxChunk \in Nat
    /\ MaxSamples \in Nat

Slots == 0..(Capacity - 1)

VARIABLES
    buffer, head, tail,           \* buffer_, head_, tail_
    ppc, pHead, pCount, pDone,    \* push(): its locals and samples copied
    cpc, cTail, cCount, data,     \* pop(): its locals and samples copied
    next,                         \* history: number of the next sample offered
    offered,                      \* samples in the push() in progress
    out                           \* what the last pop() handed over

ringVars == <<buffer, head, tail>>
producerVars == <<ppc, pHead, pCount, pDone, next, offered>>
consumerVars == <<cpc, cTail, cCount, data, out>>
vars == <<ringVars, producerVars, consumerVars>>

Init ==
    /\ buffer = [s \in Slots |-> 0]
    /\ head = 0
    /\ tail = 0
    /\ ppc = "idle" /\ pHead = 0 /\ pCount = 0 /\ pDone = 0
    /\ cpc = "idle" /\ cTail = 0 /\ cCount = 0 /\ data = <<>>
    /\ next = 1
    /\ offered = 0
    /\ out = <<>>

\* Samples published and not yet released.
Used == (head - tail + Capacity) % Capacity

Least(a, b) == IF a < b THEN a ELSE b

-----------------------------------------------------------------------------
\* push(): the room it computes, one slot short of the capacity.
Free == Capacity - 1 - Used

\* push(): load head_ and tail_, clip the count, give up when it is zero.
PushBegin(samples) ==
    /\ ppc = "idle"
    /\ next + samples <= MaxSamples + 1
    /\ IF Least(samples, Free) = 0
       THEN /\ next' = next + samples
            /\ UNCHANGED <<ppc, pHead, pCount, pDone, offered>>
       ELSE /\ ppc' = "copy"
            /\ pHead' = head
            /\ pCount' = Least(samples, Free)
            /\ pDone' = 0
            /\ offered' = samples
            /\ UNCHANGED next
    /\ UNCHANGED <<ringVars, consumerVars>>

\* push(): one iteration of the copy loop.
PushCopy ==
    /\ ppc = "copy"
    /\ pDone < pCount
    /\ buffer' = [buffer EXCEPT ![(pHead + pDone) % Capacity] = next + pDone]
    /\ pDone' = pDone + 1
    /\ UNCHANGED <<head, tail, ppc, pHead, pCount, next, offered, consumerVars>>

\* Plausible bug: the samples are published before the last one is copied.
PushStoreEarly ==
    /\ ppc = "copy"
    /\ pDone + 1 >= pCount
    /\ head' = (pHead + pCount) % Capacity
    /\ ppc' = "idle"
    /\ next' = next + offered
    /\ UNCHANGED <<buffer, tail, pHead, pCount, pDone, offered, consumerVars>>

\* push(): publish the new head_.
PushStore ==
    /\ ppc = "copy"
    /\ pDone = pCount
    /\ head' = (pHead + pCount) % Capacity
    /\ ppc' = "idle"
    /\ next' = next + offered
    /\ UNCHANGED <<buffer, tail, pHead, pCount, pDone, offered, consumerVars>>

-----------------------------------------------------------------------------
\* Plausible bug: the samples are released before they are copied.
PopBeginReleases(samples) ==
    /\ cpc = "idle"
    /\ cpc' = "copy"
    /\ cTail' = tail
    /\ cCount' = Least(samples, Used)
    /\ data' = <<>>
    /\ tail' = (tail + Least(samples, Used)) % Capacity
    /\ UNCHANGED <<buffer, head, producerVars, out>>

\* pop(): load head_ and tail_, take what is there.
PopBegin(samples) ==
    /\ cpc = "idle"
    /\ cpc' = "copy"
    /\ cTail' = tail
    /\ cCount' = Least(samples, Used)
    /\ data' = <<>>
    /\ UNCHANGED <<ringVars, producerVars, out>>

\* pop(): one iteration of the copy loop.
PopCopy ==
    /\ cpc = "copy"
    /\ Len(data) < cCount
    /\ data' = Append(data, buffer[(cTail + Len(data)) % Capacity])
    /\ UNCHANGED <<ringVars, producerVars, cpc, cTail, cCount, out>>

\* pop(): the silence after the samples is left out; publish the new tail_.
PopStore ==
    /\ cpc = "copy"
    /\ Len(data) = cCount
    /\ tail' = (cTail + cCount) % Capacity
    /\ cpc' = "idle"
    /\ out' = data
    /\ data' = <<>>
    /\ UNCHANGED <<buffer, head, producerVars, cTail, cCount>>

-----------------------------------------------------------------------------
Producer == PushCopy \/ PushStore \/ \E n \in 0..MaxChunk : PushBegin(n)

Consumer == PopCopy \/ PopStore \/ \E n \in 0..MaxChunk : PopBegin(n)

Next == Producer \/ Consumer

Spec == Init /\ [][Next]_vars

-----------------------------------------------------------------------------
(* Correctness                                                             *)

\* The variables stay in their domains: indices in the buffer, counts short
\* of the capacity.
TypeOK ==
    /\ buffer \in [Slots -> Nat]
    /\ head \in Slots
    /\ tail \in Slots
    /\ ppc \in {"idle", "copy"}
    /\ pHead \in Slots
    /\ pCount \in Nat
    /\ pDone \in 0..pCount
    /\ cpc \in {"idle", "copy"}
    /\ cTail \in Slots
    /\ cCount \in Nat
    /\ data \in Seq(Nat)
    /\ Len(data) <= cCount
    /\ next \in Nat
    /\ offered \in Nat
    /\ out \in Seq(Nat)

\* The slots each side has yet to copy.
Writing == {(pHead + i) % Capacity : i \in pDone..(pCount - 1)}
Reading == {(cTail + i) % Capacity : i \in Len(data)..(cCount - 1)}

\* push() and pop() never copy the same slot at the same time: without it
\* the plain int16_t accesses of the two threads would be a data race.
DataRaceFree ==
    ppc = "copy" /\ cpc = "copy" => Writing \cap Reading = {}

\* The slots between tail_ and head_, oldest first.
Contents == [i \in 1..Used |-> buffer[(tail + i - 1) % Capacity]]

Abstract == INSTANCE SampleQueue WITH fifo <- Contents

\* The buffer is the bounded FIFO SampleQueue: samples are handed over in
\* order, none twice, none overwritten; a full buffer drops the newest.
ImplementsQueue == Abstract!QueueSpec
=============================================================================
