------------------------------ MODULE ThreadPool ------------------------------
(***************************************************************************)
(* The fixed-size worker pool of src/threadpool: one mutex, a bounded ring *)
(* buffer of tasks, and three condition variables (not_empty, not_full,    *)
(* idle).                                                                  *)
(*                                                                         *)
(* Every access to the pool's fields except the atomic counter `completed` *)
(* is made with the mutex held, and no code blocks on anything but a       *)
(* condition variable while holding it.  A critical section, from the lock *)
(* to the unlock or to the cond_wait that releases it, is therefore one    *)
(* action.  A thread inside hbi_cond_wait is in its *_wait location until  *)
(* a signal, a broadcast or a spurious wakeup moves it back to the test of *)
(* its loop.                                                               *)
(***************************************************************************)
EXTENDS Naturals, Sequences, FiniteSets

CONSTANTS
    Workers,          \* the threads the pool tries to start
    Clients,          \* the threads that submit and wait
    Tasks,            \* the (fn, arg) pairs submitted, each at most once
    Capacity,         \* queue_capacity, after the clamp to >= 1
    OwnerSerializes,  \* whether callers respect "do not submit concurrently
                      \* with destroy" (threadpool.h:54)
    NoTask            \* an empty ring slot, or a thread without a task

ASSUME PoolAssumption ==
    /\ Workers # {} /\ IsFiniteSet(Workers)
    /\ Capacity \in Nat \ {0}
    /\ OwnerSerializes \in BOOLEAN
    /\ NoTask \notin Tasks

VARIABLES
    life,             \* "creating", "up", "unwinding", "closing", "freed", "failed"
    queue,            \* the ring buffer
    head,             \* next slot to dequeue
    count,            \* occupied slots
    pending,          \* enqueued and not yet finished
    shutting_down,
    completed,        \* atomic counter of finished tasks
    wpc, wtask,       \* per worker: location, task held
    cpc, ctask,       \* per client: location, task being submitted
    accepted,         \* history: tasks in the order enqueue stored them
    started,          \* history: tasks in the order workers dequeued them
    finished,         \* history: tasks whose function has returned
    before            \* per client in wait: the tasks accepted when it called

poolVars == <<queue, head, count, pending, shutting_down>>
vars == <<life, queue, head, count, pending, shutting_down, completed,
          wpc, wtask, cpc, ctask, accepted, started, finished, before>>

WorkerLocations == {"absent", "loop", "not_empty_wait", "run", "finish", "exited"}
ClientLocations == {"ready", "submit", "not_full_wait", "wait", "idle_wait"}

\* The tasks in the ring, oldest first.
Ring == [i \in 1..count |-> queue[(head + i - 1) % Capacity]]

Elements(s) == {s[i] : i \in DOMAIN s}

-----------------------------------------------------------------------------
(* Condition variables.                                                    *)

\* hbi_cond_signal: one waiter returns to its loop test, if there is one.
Signalled(pc, waiting, test) ==
    LET W == {x \in DOMAIN pc : pc[x] = waiting}
    IN  IF W = {} THEN {pc} ELSE {[pc EXCEPT ![x] = test] : x \in W}

\* hbi_cond_broadcast: every waiter does.
Broadcast(pc, waiting, test) ==
    [x \in DOMAIN pc |-> IF pc[x] = waiting THEN test ELSE pc[x]]

\* "Spurious wakeups are possible" (platform.h:121).
SpuriousWakeup ==
    /\ \/ /\ \E w \in Workers : wpc[w] = "not_empty_wait"
          /\ wpc' \in Signalled(wpc, "not_empty_wait", "loop")
          /\ UNCHANGED cpc
       \/ /\ \E c \in Clients : cpc[c] = "not_full_wait"
          /\ cpc' \in Signalled(cpc, "not_full_wait", "submit")
          /\ UNCHANGED wpc
       \/ /\ \E c \in Clients : cpc[c] = "idle_wait"
          /\ cpc' \in Signalled(cpc, "idle_wait", "wait")
          /\ UNCHANGED wpc
    /\ UNCHANGED <<life, poolVars, completed, wtask, ctask,
                   accepted, started, finished, before>>

-----------------------------------------------------------------------------
(* Creation and destruction.                                               *)

Init ==
    /\ life = "creating"
    /\ queue = [i \in 0..Capacity-1 |-> NoTask]
    /\ head = 0 /\ count = 0 /\ pending = 0 /\ completed = 0
    /\ shutting_down = FALSE
    /\ wpc = [w \in Workers |-> "absent"]
    /\ wtask = [w \in Workers |-> NoTask]
    /\ cpc = [c \in Clients |-> "ready"]
    /\ ctask = [c \in Clients |-> NoTask]
    /\ accepted = <<>> /\ started = <<>> /\ finished = {}
    /\ before = [c \in Clients |-> {}]

\* hbi_thread_create succeeds for the next worker; the last one completes
\* hbi_threadpool_create.
CreateWorker ==
    /\ life = "creating"
    /\ \E w \in Workers :
          /\ wpc[w] = "absent"
          /\ wpc' = [wpc EXCEPT ![w] = "loop"]
    /\ life' = IF \E w \in Workers : wpc'[w] = "absent" THEN "creating" ELSE "up"
    /\ UNCHANGED <<poolVars, completed, wtask, cpc, ctask,
                   accepted, started, finished, before>>

\* An allocation fails before the first thread is created.
CreateOutOfMemory ==
    /\ life = "creating"
    /\ \A w \in Workers : wpc[w] = "absent"
    /\ life' = "failed"
    /\ UNCHANGED <<poolVars, completed, wpc, wtask, cpc, ctask,
                   accepted, started, finished, before>>

\* hbi_thread_create fails: the workers already started are told to exit.
CreateFails ==
    /\ life = "creating"
    /\ life' = "unwinding"
    /\ shutting_down' = TRUE
    /\ wpc' = Broadcast(wpc, "not_empty_wait", "loop")
    /\ UNCHANGED <<queue, head, count, pending, completed, wtask, cpc, ctask,
                   accepted, started, finished, before>>

\* hbi_threadpool_destroy up to the unlock.  not_full is not broadcast.
DestroyBegin ==
    /\ life = "up"
    /\ OwnerSerializes => \A c \in Clients : cpc[c] = "ready"
    /\ life' = "closing"
    /\ shutting_down' = TRUE
    /\ wpc' = Broadcast(wpc, "not_empty_wait", "loop")
    /\ UNCHANGED <<queue, head, count, pending, completed, wtask, cpc, ctask,
                   accepted, started, finished, before>>

\* Every started worker has been joined; the pool is freed.
JoinAndFree ==
    /\ life \in {"closing", "unwinding"}
    /\ \A w \in Workers : wpc[w] \in {"absent", "exited"}
    /\ life' = IF life = "closing" THEN "freed" ELSE "failed"
    /\ UNCHANGED <<poolVars, completed, wpc, wtask, cpc, ctask,
                   accepted, started, finished, before>>

-----------------------------------------------------------------------------
(* worker_main.                                                            *)

\* The wait loop is entered (or re-entered) with nothing to do.
WorkerWait(w) ==
    /\ wpc[w] = "loop"
    /\ count = 0 /\ ~shutting_down
    /\ wpc' = [wpc EXCEPT ![w] = "not_empty_wait"]
    /\ UNCHANGED <<life, poolVars, completed, wtask, cpc, ctask,
                   accepted, started, finished, before>>

\* Mutant: a worker leaves at shutdown with tasks still queued.
WorkerExitUndrained(w) ==
    /\ wpc[w] = "loop"
    /\ shutting_down
    /\ wpc' = [wpc EXCEPT ![w] = "exited"]
    /\ UNCHANGED <<life, poolVars, completed, wtask, cpc, ctask,
                   accepted, started, finished, before>>

WorkerExit(w) ==
    /\ wpc[w] = "loop"
    /\ count = 0 /\ shutting_down
    /\ wpc' = [wpc EXCEPT ![w] = "exited"]
    /\ UNCHANGED <<life, poolVars, completed, wtask, cpc, ctask,
                   accepted, started, finished, before>>

WorkerDequeue(w) ==
    /\ wpc[w] = "loop"
    /\ count > 0
    /\ wtask' = [wtask EXCEPT ![w] = queue[head]]
    /\ started' = Append(started, queue[head])
    /\ head' = (head + 1) % Capacity
    /\ count' = count - 1
    /\ cpc' \in Signalled(cpc, "not_full_wait", "submit")
    /\ wpc' = [wpc EXCEPT ![w] = "run"]
    /\ UNCHANGED <<life, queue, pending, shutting_down, completed, ctask,
                   accepted, finished, before>>

\* Mutant: the completed task is not counted.
WorkerRunUncounted(w) ==
    /\ wpc[w] = "run"
    /\ finished' = finished \cup {wtask[w]}
    /\ wpc' = [wpc EXCEPT ![w] = "finish"]
    /\ UNCHANGED <<life, poolVars, completed, wtask, cpc, ctask, accepted, started, before>>

\* t.fn(t.arg) returns and the atomic counter is bumped, outside the lock.
WorkerRun(w) ==
    /\ wpc[w] = "run"
    /\ finished' = finished \cup {wtask[w]}
    /\ completed' = completed + 1
    /\ wpc' = [wpc EXCEPT ![w] = "finish"]
    /\ UNCHANGED <<life, poolVars, wtask, cpc, ctask, accepted, started, before>>

\* Mutant: the last task to finish wakes one waiter instead of all.
WorkerFinishSignals(w) ==
    /\ wpc[w] = "finish"
    /\ pending' = pending - 1
    /\ cpc' \in IF pending' = 0 THEN Signalled(cpc, "idle_wait", "wait") ELSE {cpc}
    /\ wpc' = [wpc EXCEPT ![w] = "loop"]
    /\ wtask' = [wtask EXCEPT ![w] = NoTask]
    /\ UNCHANGED <<life, queue, head, count, shutting_down, completed, ctask,
                   accepted, started, finished, before>>

WorkerFinish(w) ==
    /\ wpc[w] = "finish"
    /\ pending' = pending - 1
    /\ cpc' = IF pending' = 0 THEN Broadcast(cpc, "idle_wait", "wait") ELSE cpc
    /\ wpc' = [wpc EXCEPT ![w] = "loop"]
    /\ wtask' = [wtask EXCEPT ![w] = NoTask]
    /\ UNCHANGED <<life, queue, head, count, shutting_down, completed, ctask,
                   accepted, started, finished, before>>

Worker(w) ==
    WorkerWait(w) \/ WorkerExit(w) \/ WorkerDequeue(w) \/ WorkerRun(w) \/ WorkerFinish(w)

-----------------------------------------------------------------------------
(* Clients: submit, try_submit and wait.                                   *)

MayCall == life = "up" \/ (life = "closing" /\ ~OwnerSerializes)

\* A client calls submit with a task nobody has submitted.
Submit(c, t) ==
    /\ cpc[c] = "ready" /\ MayCall
    /\ t \notin Elements(accepted) /\ \A d \in Clients : ctask[d] # t
    /\ cpc' = [cpc EXCEPT ![c] = "submit"]
    /\ ctask' = [ctask EXCEPT ![c] = t]
    /\ UNCHANGED <<life, poolVars, completed, wpc, wtask,
                   accepted, started, finished, before>>

\* Mutant: the tail ignores the head.
StoreAtCount(t) ==
    /\ queue' = [queue EXCEPT ![count % Capacity] = t]
    /\ count' = count + 1
    /\ pending' = pending + 1
    /\ accepted' = Append(accepted, t)
    /\ wpc' \in Signalled(wpc, "not_empty_wait", "loop")
    /\ UNCHANGED <<head, shutting_down>>

\* Mutant: a stored task wakes no worker.
StoreSilent(t) ==
    /\ queue' = [queue EXCEPT ![(head + count) % Capacity] = t]
    /\ count' = count + 1
    /\ pending' = pending + 1
    /\ accepted' = Append(accepted, t)
    /\ UNCHANGED <<wpc, head, shutting_down>>

\* The store at the tail of the ring and the signal that follow the tests of
\* enqueue.
Store(t) ==
    /\ queue' = [queue EXCEPT ![(head + count) % Capacity] = t]
    /\ count' = count + 1
    /\ pending' = pending + 1
    /\ accepted' = Append(accepted, t)
    /\ wpc' \in Signalled(wpc, "not_empty_wait", "loop")
    /\ UNCHANGED <<head, shutting_down>>

\* enqueue(block): reached on entry and after every wakeup on not_full, with
\* the same tests in the same order.
EnqueueRefused(c) ==
    /\ cpc[c] = "submit"
    /\ shutting_down
    /\ cpc' = [cpc EXCEPT ![c] = "ready"]
    /\ ctask' = [ctask EXCEPT ![c] = NoTask]
    /\ UNCHANGED <<life, poolVars, completed, wpc, wtask,
                   accepted, started, finished, before>>

EnqueueWait(c) ==
    /\ cpc[c] = "submit"
    /\ ~shutting_down /\ count = Capacity
    /\ cpc' = [cpc EXCEPT ![c] = "not_full_wait"]
    /\ UNCHANGED <<life, poolVars, completed, wpc, wtask, ctask,
                   accepted, started, finished, before>>

EnqueueStore(c) ==
    /\ cpc[c] = "submit"
    /\ ~shutting_down /\ count # Capacity
    /\ Store(ctask[c])
    /\ cpc' = [cpc EXCEPT ![c] = "ready"]
    /\ ctask' = [ctask EXCEPT ![c] = NoTask]
    /\ UNCHANGED <<life, completed, wtask, started, finished, before>>

\* try_submit never waits, so the whole call is one critical section.  Its
\* HBI_ERR_STATE and HBI_ERR_AGAIN returns change nothing.
TrySubmit(c, t) ==
    /\ cpc[c] = "ready" /\ MayCall
    /\ t \notin Elements(accepted) /\ \A d \in Clients : ctask[d] # t
    /\ ~shutting_down /\ count # Capacity
    /\ Store(t)
    /\ UNCHANGED <<life, completed, wtask, cpc, ctask, started, finished, before>>

\* hbi_threadpool_wait.
Wait(c) ==
    /\ cpc[c] = "ready" /\ MayCall
    /\ cpc' = [cpc EXCEPT ![c] = "wait"]
    /\ before' = [before EXCEPT ![c] = Elements(accepted)]
    /\ UNCHANGED <<life, poolVars, completed, wpc, wtask, ctask,
                   accepted, started, finished>>

WaitBlocks(c) ==
    /\ cpc[c] = "wait"
    /\ pending > 0
    /\ cpc' = [cpc EXCEPT ![c] = "idle_wait"]
    /\ UNCHANGED <<life, poolVars, completed, wpc, wtask, ctask,
                   accepted, started, finished, before>>

\* Mutant: an empty queue is taken for idleness.
WaitReturnsQueueEmpty(c) ==
    /\ cpc[c] = "wait"
    /\ count = 0
    /\ cpc' = [cpc EXCEPT ![c] = "ready"]
    /\ before' = [before EXCEPT ![c] = {}]
    /\ UNCHANGED <<life, poolVars, completed, wpc, wtask, ctask,
                   accepted, started, finished>>

WaitReturns(c) ==
    /\ cpc[c] = "wait"
    /\ pending = 0
    /\ cpc' = [cpc EXCEPT ![c] = "ready"]
    /\ before' = [before EXCEPT ![c] = {}]
    /\ UNCHANGED <<life, poolVars, completed, wpc, wtask, ctask,
                   accepted, started, finished>>

\* The steps a client takes inside a call, once it is awake.
\* Touching a freed pool is outside every contract and is not modelled.
Client(c) ==
    /\ life # "freed"
    /\ \/ EnqueueRefused(c) \/ EnqueueWait(c) \/ EnqueueStore(c)
       \/ WaitBlocks(c) \/ WaitReturns(c)

\* The pool is gone: the only state in which nothing is left to happen.
Terminated ==
    /\ life \in {"freed", "failed"}
    /\ UNCHANGED vars

Next ==
    \/ CreateWorker \/ CreateOutOfMemory \/ CreateFails \/ DestroyBegin \/ JoinAndFree
    \/ \E w \in Workers : Worker(w)
    \/ \E c \in Clients : Client(c) \/ Wait(c)
    \/ \E c \in Clients, t \in Tasks : Submit(c, t) \/ TrySubmit(c, t)
    \/ SpuriousWakeup
    \/ Terminated

Spec == Init /\ [][Next]_vars

\* Every thread that can move keeps moving: the mutex is granted to each
\* requester eventually and every task function returns.  Nothing obliges a
\* client to call, the owner to destroy, or a wakeup to be spurious.
Fairness ==
    /\ WF_vars(CreateWorker \/ CreateOutOfMemory \/ CreateFails)
    /\ WF_vars(JoinAndFree)
    /\ \A w \in Workers : WF_vars(Worker(w))
    /\ \A c \in Clients : WF_vars(Client(c))

FairSpec == Spec /\ Fairness

-----------------------------------------------------------------------------
(* Properties.                                                             *)

TypeOK ==
    /\ life \in {"creating", "up", "unwinding", "closing", "freed", "failed"}
    /\ queue \in [0..Capacity-1 -> Tasks \cup {NoTask}]
    /\ head \in 0..Capacity-1 /\ count \in 0..Capacity
    /\ pending \in Nat /\ completed \in Nat
    /\ shutting_down \in BOOLEAN
    /\ wpc \in [Workers -> WorkerLocations]
    /\ wtask \in [Workers -> Tasks \cup {NoTask}]
    /\ cpc \in [Clients -> ClientLocations]
    /\ ctask \in [Clients -> Tasks \cup {NoTask}]
    /\ accepted \in Seq(Tasks) /\ started \in Seq(Tasks)
    /\ finished \subseteq Tasks
    /\ before \in [Clients -> SUBSET Tasks]

\* "Every submitted task runs exactly once (queue is FIFO, single dequeue
\* point under the lock)" (threadpool.c:13): what the workers have dequeued,
\* followed by what is still in the ring, is what enqueue stored, in order
\* and without repetition.
Fifo ==
    /\ accepted = started \o Ring
    /\ \A i, j \in DOMAIN accepted : accepted[i] = accepted[j] => i = j

Finishing == {w \in Workers : wpc[w] = "finish"}
Busy == {w \in Workers : wpc[w] = "run"} \cup Finishing

\* `pending` counts what is queued plus what workers hold (threadpool.c:42),
\* and the atomic `completed` runs ahead of it by the workers that have
\* counted their task and not yet retaken the lock.
Accounting ==
    /\ pending = count + Cardinality(Busy)
    /\ completed + pending = Len(accepted) + Cardinality(Finishing)

\* "destroy drains first so no submitted task is dropped" (threadpool.c:10):
\* when the pool is freed, every task that submit accepted has run, even one
\* whose submit raced with destroy.
DrainedBeforeFree ==
    life = "freed" => Elements(accepted) = finished

\* "Block until every task submitted before this call has completed"
\* (threadpool.h): hbi_threadpool_wait does not return earlier, whatever
\* other clients submit meanwhile and however often it is woken.
WaitSeesAllDone ==
    [][\A c \in Clients :
          cpc[c] = "wait" /\ cpc'[c] = "ready" => before[c] \subseteq finished]_vars

\* The pool implements the FIFO of TaskQueue, its liveness included: every
\* accepted task is started and returns, across shutdown.
Abstract == INSTANCE TaskQueue WITH
    todo <- Ring,
    active <- {wtask[w] : w \in {v \in Workers : wpc[v] = "run"}},
    done <- finished,
    open <- ~shutting_down

ImplementsTaskQueue == Abstract!Spec

\* A blocked submit returns: no wakeup on not_full is lost, although each
\* dequeue signals only one of the submitters.
SubmitReturns ==
    \A c \in Clients : cpc[c] = "submit" ~> cpc[c] = "ready"

\* A wait returns: the last worker to finish wakes every waiter.
WaitTerminates ==
    \A c \in Clients : cpc[c] = "wait" ~> cpc[c] = "ready"

\* hbi_threadpool_destroy, and the unwinding of a failed create, join every
\* worker: none sleeps through the shutdown.
DestroyTerminates ==
    life \in {"closing", "unwinding"} ~> life \in {"freed", "failed"}

\* No call sleeps for ever: submit, wait and destroy all return, although
\* signals go to one waiter and wakeups may be spurious.
CallsReturn == SubmitReturns /\ WaitTerminates /\ DestroyTerminates
=============================================================================
