------------------------ MODULE EnvelopeDispatchQueue ------------------------
(***************************************************************************)
(* The per-account envelope dispatch queue of daemon/main.cpp: a single    *)
(* worker thread executing, in arrival order, the work that onPush() hands *)
(* over from AuthSocket's listener, and the bounded stopAndJoin()          *)
(* that setupAccount()'s failure path and teardownAccount() call before    *)
(* they destroy what the queued work refers to.                            *)
(*                                                                         *)
(* These threads interleave:                                               *)
(*   service   the libsignal-net-chat threads that run onPush(), in push() *)
(*   worker    the thread started by start(), in run()                     *)
(*   owner     the main thread, in setupAccount()/teardownAccount()        *)
(*   waiter    the detached thread inside stopAndJoin() that joins worker  *)
(* push() and stopAndJoin() release the mutex before notify_one(), so each *)
(* of them is two steps: that window is where a wakeup could be lost.      *)
(***************************************************************************)
EXTENDS Integers, Sequences

CONSTANTS
    Work,          \* the work items onPush() can hand over
    Stuck,         \* the ones that may block forever in a network call
    MaxPushes,     \* bound: envelopes pushed in one life of the account
    EarlyFailure   \* may setupAccount() throw before start() is reached?

ASSUME QueueAssumption ==
    /\ Stuck \subseteq Work
    /\ MaxPushes \in Nat
    /\ EarlyFailure \in BOOLEAN

VARIABLES
    owner,         \* where the main thread is in the account's life
    notifying,     \* push() calls between their locked block and notify_one()
    worker,        \* where the worker thread is in run()
    waiter,        \* the helper thread that joins the worker
    queue,         \* State::queue
    stopping,      \* State::stopping
    item,          \* the work the worker has taken out of the queue
    pushed,        \* history: every item ever pushed, in order
    done,          \* history: every item whose work() has returned
    pushedAtStop,  \* history: how many had been pushed when stopping was set
    timedOut       \* history: wait_for(kJoinTimeout) gave up

vars == <<owner, notifying, worker, waiter, queue, stopping, item,
          pushed, done, pushedAtStop, timedOut>>

\* std::function<void()>() - the worker holds no work.
NoWork == <<>>

OwnerStates ==
    {"setup",      \* setupAccount() before dispatchQueue.start()
     "running",    \* started; pushes may arrive
     "stopNotify", \* stopAndJoin(): stopping set, cv not yet notified
     "joining",    \* stopAndJoin(): in joinedFuture.wait_for(kJoinTimeout)
     "stopped",    \* stopAndJoin() has returned
     "closed",     \* socket->close() done: no further push
     "gone",       \* g_accounts.erase(): AccountState is destroyed
     "crashed"}    \* stopAndJoin() dereferenced a null state_

WorkerStates ==
    {"none",       \* thread not created
     "check",      \* awake, about to lock the mutex and test the predicate
     "waiting",    \* blocked in cv.wait
     "working",    \* inside work(), mutex released
     "exited"}     \* run() has returned

InFlight == IF worker = "working" THEN <<item>> ELSE <<>>

-----------------------------------------------------------------------------
(* Plausible bugs: mutated forms of the definitions below, one per property. *)

PushInFront(w) ==
    /\ owner \in {"running", "stopNotify", "joining", "stopped"}
    /\ Len(pushed) < MaxPushes
    /\ notifying' = notifying + 1
    /\ queue' = <<w>> \o queue
    /\ pushed' = Append(pushed, w)
    /\ UNCHANGED <<owner, worker, waiter, stopping, item, done,
                   pushedAtStop, timedOut>>

NotifyNobody(w) == w

ExitWithoutDraining ==
    /\ worker = "check"
    /\ stopping
    /\ worker' = "exited"
    /\ UNCHANGED <<owner, notifying, waiter, queue, stopping, item, pushed,
                   done, pushedAtStop, timedOut>>

UnboundedJoin == FALSE /\ UNCHANGED vars

-----------------------------------------------------------------------------
Init ==
    /\ owner = "setup"
    /\ notifying = 0
    /\ worker = "none"
    /\ waiter = "none"
    /\ queue = <<>>
    /\ stopping = FALSE
    /\ item = NoWork
    /\ pushed = <<>>
    /\ done = <<>>
    /\ pushedAtStop = 0
    /\ timedOut = FALSE

\* start(): allocate State and create the worker thread.
Start ==
    /\ owner = "setup"
    /\ owner' = "running"
    /\ worker' = "check"
    /\ UNCHANGED <<notifying, waiter, queue, stopping, item, pushed, done,
                   pushedAtStop, timedOut>>

\* setupAccount() throws before start(): its handler calls stopAndJoin() on
\* a queue whose state_ is still null, and locks state_->mutex.
FailBeforeStart ==
    /\ EarlyFailure
    /\ owner = "setup"
    /\ owner' = "crashed"
    /\ UNCHANGED <<notifying, worker, waiter, queue, stopping, item, pushed,
                   done, pushedAtStop, timedOut>>

\* The socket delivers until close(): setupAccount() and teardownAccount()
\* both stop the queue first and close the socket afterwards.
SocketOpen == owner \in {"running", "stopNotify", "joining", "stopped"}

\* push(): the locked block.
PushAppend(w) ==
    /\ SocketOpen
    /\ Len(pushed) < MaxPushes
    /\ notifying' = notifying + 1
    /\ queue' = Append(queue, w)
    /\ pushed' = Append(pushed, w)
    /\ UNCHANGED <<owner, worker, waiter, stopping, item, done,
                   pushedAtStop, timedOut>>

\* cv.notify_one(): wakes the worker if it is blocked, otherwise lost.
Woken(w) == IF w = "waiting" THEN "check" ELSE w

\* push(): notify_one() after the mutex is released.
PushNotify ==
    /\ notifying > 0
    /\ notifying' = notifying - 1
    /\ worker' = Woken(worker)
    /\ UNCHANGED <<owner, waiter, queue, stopping, item, pushed, done,
                   pushedAtStop, timedOut>>

-----------------------------------------------------------------------------
\* run(): cv.wait's predicate is false - the worker blocks.
WorkerBlock ==
    /\ worker = "check"
    /\ ~stopping
    /\ queue = <<>>
    /\ worker' = "waiting"
    /\ UNCHANGED <<owner, notifying, waiter, queue, stopping, item, pushed,
                   done, pushedAtStop, timedOut>>

\* A condition variable may wake without a notification.
SpuriousWakeup ==
    /\ worker = "waiting"
    /\ worker' = "check"
    /\ UNCHANGED <<owner, notifying, waiter, queue, stopping, item, pushed,
                   done, pushedAtStop, timedOut>>

\* run(): the queue is not empty - take its front and leave the lock.
WorkerTake ==
    /\ worker = "check"
    /\ queue /= <<>>
    /\ worker' = "working"
    /\ item' = Head(queue)
    /\ queue' = Tail(queue)
    /\ UNCHANGED <<owner, notifying, waiter, stopping, pushed, done,
                   pushedAtStop, timedOut>>

\* work() returns, or throws and is caught: either way the loop goes on.
WorkerFinish ==
    /\ worker = "working"
    /\ worker' = "check"
    /\ item' = NoWork
    /\ done' = Append(done, item)
    /\ UNCHANGED <<owner, notifying, waiter, queue, stopping, pushed,
                   pushedAtStop, timedOut>>

\* run(): stopping and nothing left - return.
WorkerExit ==
    /\ worker = "check"
    /\ queue = <<>>
    /\ stopping
    /\ worker' = "exited"
    /\ UNCHANGED <<owner, notifying, waiter, queue, stopping, item, pushed,
                   done, pushedAtStop, timedOut>>

-----------------------------------------------------------------------------
\* stopAndJoin(): set stopping under the mutex.
StopSet ==
    /\ owner = "running"
    /\ owner' = "stopNotify"
    /\ stopping' = TRUE
    /\ pushedAtStop' = Len(pushed)
    /\ UNCHANGED <<notifying, worker, waiter, queue, item, pushed, done,
                   timedOut>>

\* stopAndJoin(): notify_one(), then move worker_ into the waiter thread.
StopNotify ==
    /\ owner = "stopNotify"
    /\ owner' = "joining"
    /\ worker' = Woken(worker)
    /\ waiter' = "joining"
    /\ UNCHANGED <<notifying, queue, stopping, item, pushed, done,
                   pushedAtStop, timedOut>>

\* The waiter: w.join() returns, joined.set_value().
WaiterJoin ==
    /\ waiter = "joining"
    /\ worker = "exited"
    /\ waiter' = "joined"
    /\ UNCHANGED <<owner, notifying, worker, queue, stopping, item, pushed,
                   done, pushedAtStop, timedOut>>

\* wait_for() finds the future ready.
StopJoined ==
    /\ owner = "joining"
    /\ waiter = "joined"
    /\ owner' = "stopped"
    /\ UNCHANGED <<notifying, worker, waiter, queue, stopping, item, pushed,
                   done, pushedAtStop, timedOut>>

\* wait_for() times out after kJoinTimeout: the join is abandoned.
StopTimeout ==
    /\ owner = "joining"
    /\ waiter /= "joined"
    /\ owner' = "stopped"
    /\ timedOut' = TRUE
    /\ UNCHANGED <<notifying, worker, waiter, queue, stopping, item, pushed,
                   done, pushedAtStop>>

\* RingRTC is destroyed and the socket closed, after stopAndJoin().
CloseSocket ==
    /\ owner = "stopped"
    /\ owner' = "closed"
    /\ UNCHANGED <<notifying, worker, waiter, queue, stopping, item, pushed,
                   done, pushedAtStop, timedOut>>

\* g_accounts.erase(): the AccountState the work refers to is destroyed.
EraseAccount ==
    /\ owner = "closed"
    /\ owner' = "gone"
    /\ UNCHANGED <<notifying, worker, waiter, queue, stopping, item, pushed,
                   done, pushedAtStop, timedOut>>

-----------------------------------------------------------------------------
ServiceNext == PushNotify \/ \E w \in Work : PushAppend(w)

WorkerNext ==
    WorkerBlock \/ SpuriousWakeup \/ WorkerTake \/ WorkerFinish \/ WorkerExit

StopNext == StopNotify \/ StopJoined \/ StopTimeout \/ CloseSocket \/ EraseAccount

OwnerNext == Start \/ FailBeforeStart \/ StopSet \/ StopNext

Next == ServiceNext \/ WorkerNext \/ OwnerNext \/ WaiterJoin

\* The operating system runs every runnable thread, and wait_for() returns
\* at its deadline. Nothing makes an envelope arrive or an account stop, and
\* nothing makes the work in Stuck return.
Fairness ==
    /\ WF_vars(PushNotify)
    /\ WF_vars(WorkerBlock \/ WorkerTake \/ WorkerExit)
    /\ WF_vars(item \notin Stuck /\ WorkerFinish)
    /\ WF_vars(StopNext)
    /\ WF_vars(WaiterJoin)

Spec == Init /\ [][Next]_vars

FairSpec == Spec /\ Fairness

-----------------------------------------------------------------------------
(* Correctness                                                             *)

\* The variables stay in their domains.
TypeOK ==
    /\ owner \in OwnerStates
    /\ notifying \in Nat
    /\ worker \in WorkerStates
    /\ waiter \in {"none", "joining", "joined"}
    /\ queue \in Seq(Work)
    /\ stopping \in BOOLEAN
    /\ item \in Work \cup {NoWork}
    /\ worker = "working" => item \in Work
    /\ pushed \in Seq(Work)
    /\ done \in Seq(Work)
    /\ pushedAtStop \in 0..Len(pushed)
    /\ timedOut \in BOOLEAN

\* "strict arrival order": what has run, then what is running, then what is
\* queued, is exactly what onPush() pushed - nothing lost, doubled, reordered.
FifoExactlyOnce == pushed = done \o InFlight \o queue

\* A blocked worker with a reason to run always has a notify_one() on its
\* way: neither push() nor stopAndJoin() can lose the wakeup, although both
\* notify after releasing the mutex.
NoLostWakeup ==
    /\ worker = "waiting" /\ queue /= <<>> => notifying > 0
    /\ worker = "waiting" /\ stopping => owner = "stopNotify"

\* stopAndJoin() "drains whatever's queued": when it returns without timing
\* out, everything pushed before stopping was set has been executed and the
\* worker is gone.  So the accepted residual risk is the only one: work runs
\* on a destroyed AccountState only after a join abandoned at kJoinTimeout.
CleanStopDrains ==
    owner \in {"stopped", "closed", "gone"} /\ ~timedOut
        => Len(done) >= pushedAtStop /\ worker = "exited"

\* stopAndJoin() returns and the account is destroyed, even when the item in
\* flight never returns.
StopTerminates == (owner = "stopNotify") ~> (owner = "gone")

\* Every envelope pushed before the stop is eventually executed, unless the
\* worker is held up for ever by work that never returns.
PushedIsExecuted ==
    \A n \in 1..MaxPushes :
        (Len(pushed) >= n /\ ~stopping) ~> (Len(done) >= n \/ item \in Stuck)

\* main.cpp:1849 says stopAndJoin() is safe even if start() was never
\* reached: setupAccount()'s failure path never crashes the daemon.
StopSafeWithoutStart == owner /= "crashed"

\* main.cpp:220-221 says that after an abandoned join the worker "will still
\* exit whenever its stuck call eventually returns": when that call returns
\* on a destroyed account, nothing is left for the worker to run on it.
ExitsWhenStuckCallReturns ==
    [][owner = "gone" /\ WorkerFinish => queue = <<>>]_vars
=============================================================================
