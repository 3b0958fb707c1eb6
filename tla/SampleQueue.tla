---------------------------- MODULE SampleQueue ----------------------------
(***************************************************************************)
(* What voip::RingBuffer promises its producer and its consumer: a bounded *)
(* FIFO of samples.  A push appends a prefix of the samples offered and    *)
(* drops the rest, a pop hands over the oldest samples; both are atomic.   *)
(***************************************************************************)
EXTENDS Integers, Sequences

CONSTANTS
    Capacity,      \* capacity_samples; one slot always stays empty
    MaxSamples     \* bound: samples ever offered

VARIABLES
    fifo,          \* the samples accepted and not yet handed over
    next,          \* the number of the next sample offered
    out            \* the samples handed over by the last pop

queueVars == <<fifo, next, out>>

\* The samples numbered from..from+n-1.
Samples(from, n) == [i \in 1..n |-> from + i - 1]

QueueInit ==
    /\ fifo = <<>>
    /\ next = 1
    /\ out = <<>>

\* push(data, samples): the first n of them are accepted.
Push ==
    \E samples \in 0..(MaxSamples + 1 - next) :
        \E n \in 0..samples :
            /\ Len(fifo) + n < Capacity
            /\ fifo' = fifo \o Samples(next, n)
            /\ next' = next + samples
            /\ UNCHANGED out

\* pop(data, samples): the n oldest samples, before the silence.
Pop ==
    \E n \in 0..Len(fifo) :
        /\ out' = SubSeq(fifo, 1, n)
        /\ fifo' = SubSeq(fifo, n + 1, Len(fifo))
        /\ UNCHANGED next

QueueSpec == QueueInit /\ [][Push \/ Pop]_queueVars
=============================================================================
