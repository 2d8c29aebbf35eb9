--------------------------- MODULE ThreadPoolProofs ---------------------------
(***************************************************************************)
(* Proofs, for every set of workers, clients and tasks and every capacity, *)
(* of the safety properties of ThreadPool.                                 *)
(***************************************************************************)
EXTENDS ThreadPool, Integers, TLAPS, FiniteSetTheorems, SequenceTheorems

\* The ring as enqueue and worker_main index it: slot by slot, the tasks that
\* follow the dequeued ones.
RingMatches ==
    /\ Len(accepted) = Len(started) + count
    /\ \A i \in 1..Len(started) : accepted[i] = started[i]
    /\ \A i \in 1..count : accepted[Len(started) + i] = queue[(head + i - 1) % Capacity]

\* A client inside submit holds a task that is neither stored nor held by
\* another client.
RequestsFresh ==
    \A c \in Clients :
       /\ cpc[c] \in {"submit", "not_full_wait"} => ctask[c] # NoTask
       /\ ctask[c] # NoTask =>
             /\ \A i \in 1..Len(accepted) : accepted[i] # ctask[c]
             /\ \A d \in Clients : d # c => ctask[d] # ctask[c]

NoRepetition ==
    \A i, j \in 1..Len(accepted) : accepted[i] = accepted[j] => i = j

\* A dequeued task has returned or is in the hands of a running worker.
StartedSettled ==
    /\ \A i \in 1..Len(started) :
          \/ started[i] \in finished
          \/ \E w \in Workers : wpc[w] = "run" /\ wtask[w] = started[i]
    /\ \A t \in finished : \E i \in 1..Len(started) : started[i] = t
    /\ \A w \in Workers : wpc[w] = "run" =>
          \E i \in 1..Len(started) : started[i] = wtask[w]

\* A worker exits only from a drained, closed queue, and a pool that is freed
\* has had all its workers.
ExitsAfterDrain ==
    /\ (\E w \in Workers : wpc[w] = "exited") => count = 0 /\ shutting_down
    /\ life \in {"up", "closing", "freed"} => \A w \in Workers : wpc[w] # "absent"
    /\ life = "freed" => \A w \in Workers : wpc[w] = "exited"

\* What a waiter waits for was accepted.
BeforeAccepted ==
    \A c \in Clients : \A t \in before[c] : \E i \in 1..Len(accepted) : accepted[i] = t

IInv ==
    /\ TypeOK
    /\ RingMatches
    /\ RequestsFresh
    /\ NoRepetition
    /\ StartedSettled
    /\ ExitsAfterDrain
    /\ BeforeAccepted
    /\ Accounting

-----------------------------------------------------------------------------
\* Indices of the ring stay below twice the capacity, so that the modulus of
\* worker_main and enqueue is one conditional subtraction.
LEMMA ModWrap ==
    ASSUME NEW C \in Nat \ {0}, NEW a \in 0..C-1, NEW k \in 0..C
    PROVE  (a + k) % C = IF a + k < C THEN a + k ELSE a + k - C
  OBVIOUS

\* The worker sets that Accounting counts are finite.
LEMMA WorkerSetsFinite ==
    /\ IsFiniteSet(Busy)
    /\ IsFiniteSet(Finishing)
    /\ Cardinality(Busy) \in Nat
    /\ Cardinality(Finishing) \in Nat
  BY PoolAssumption, FS_Subset, FS_CardinalityType DEF Busy, Finishing

\* The initial state satisfies the invariant.
LEMMA InitInv == Init => IInv
  <1> SUFFICES ASSUME Init PROVE IInv
    OBVIOUS
  <1> USE PoolAssumption DEF Init
  <1>1. TypeOK
    <2>1. queue \in [0..Capacity-1 -> Tasks \cup {NoTask}] /\ head \in 0..Capacity-1
      OBVIOUS
    <2>2. count \in 0..Capacity /\ pending \in Nat /\ completed \in Nat
      OBVIOUS
    <2>3. wpc \in [Workers -> WorkerLocations] /\ cpc \in [Clients -> ClientLocations]
      BY DEF WorkerLocations, ClientLocations
    <2>4. shutting_down \in BOOLEAN
      BY Zenon
    <2> QED BY <2>1, <2>2, <2>3, <2>4 DEF TypeOK
  <1>2. RingMatches /\ RequestsFresh /\ NoRepetition /\ StartedSettled
    BY DEF RingMatches, RequestsFresh, NoRepetition, StartedSettled
  <1>3. ExitsAfterDrain /\ BeforeAccepted
    BY DEF ExitsAfterDrain, BeforeAccepted
  <1>4. Accounting
    <2>1. Busy = {} /\ Finishing = {}
      BY DEF Busy, Finishing
    <2>2. Cardinality(Busy) = 0 /\ Cardinality(Finishing) = 0
      BY <2>1, FS_EmptySet, Zenon
    <2>3. Len(accepted) = 0
      OBVIOUS
    <2> QED BY <2>2, <2>3 DEF Accounting
  <1> QED BY <1>1, <1>2, <1>3, <1>4 DEF IInv

-----------------------------------------------------------------------------
\* The state components that enqueue, dequeue, run and finish change, left
\* alone by every other step: the creation and destruction steps, the waits,
\* the refusals and the wakeups.
Quiet ==
    /\ UNCHANGED <<queue, head, count, pending, completed, wtask,
                   accepted, started, finished>>
    /\ wpc' \in [Workers -> WorkerLocations]
    /\ cpc' \in [Clients -> ClientLocations]
    /\ \A w \in Workers : wpc'[w] = wpc[w]
          \/ (wpc[w] \notin {"run", "finish"} /\ wpc'[w] \notin {"run", "finish"})

\* Those steps.
QuietStep ==
    \/ CreateWorker \/ CreateOutOfMemory \/ CreateFails \/ DestroyBegin \/ JoinAndFree
    \/ \E w \in Workers : WorkerWait(w) \/ WorkerExit(w)
    \/ \E c \in Clients : EnqueueRefused(c) \/ EnqueueWait(c) \/ Wait(c)
                          \/ WaitBlocks(c) \/ WaitReturns(c)
    \/ \E c \in Clients, t \in Tasks : Submit(c, t)
    \/ SpuriousWakeup
    \/ UNCHANGED vars

\* Every step is a quiet one or one of the five that move tasks.
LEMMA StepCases ==
    [Next]_vars =>
       \/ QuietStep
       \/ \E w \in Workers : WorkerDequeue(w) \/ WorkerRun(w) \/ WorkerFinish(w)
       \/ \E c \in Clients : EnqueueStore(c)
       \/ \E c \in Clients, t \in Tasks : TrySubmit(c, t)
  BY DEF Next, QuietStep, Worker, Client, Terminated

LEMMA QuietStepIsQuiet ==
    ASSUME TypeOK, QuietStep
    PROVE  Quiet
  <1> USE DEF TypeOK, Quiet, poolVars, WorkerLocations, ClientLocations
  <1>1. CASE CreateWorker
    BY <1>1 DEF CreateWorker
  <1>2. CASE CreateOutOfMemory \/ JoinAndFree \/ UNCHANGED vars
    BY <1>2 DEF CreateOutOfMemory, JoinAndFree, vars
  <1>3. CASE CreateFails \/ DestroyBegin
    BY <1>3 DEF CreateFails, DestroyBegin, Broadcast
  <1>4. ASSUME NEW w \in Workers, WorkerWait(w) \/ WorkerExit(w)
        PROVE  Quiet
    BY <1>4 DEF WorkerWait, WorkerExit
  <1>5. ASSUME NEW c \in Clients,
               EnqueueRefused(c) \/ EnqueueWait(c) \/ Wait(c) \/ WaitBlocks(c) \/ WaitReturns(c)
        PROVE  Quiet
    BY <1>5, Zenon DEF EnqueueRefused, EnqueueWait, Wait, WaitBlocks, WaitReturns
  <1>6. ASSUME NEW c \in Clients, NEW t \in Tasks, Submit(c, t)
        PROVE  Quiet
    BY <1>6 DEF Submit
  <1>7. CASE SpuriousWakeup
    <2>1. wpc \in [Workers -> WorkerLocations] /\ cpc \in [Clients -> ClientLocations]
      OBVIOUS
    <2>2. \/ wpc' \in Signalled(wpc, "not_empty_wait", "loop") /\ cpc' = cpc
          \/ cpc' \in Signalled(cpc, "not_full_wait", "submit") /\ wpc' = wpc
          \/ cpc' \in Signalled(cpc, "idle_wait", "wait") /\ wpc' = wpc
      BY ONLY <1>7 DEF SpuriousWakeup
    <2>3. /\ wpc' \in [Workers -> WorkerLocations]
          /\ \A w \in Workers : wpc'[w] = wpc[w] \/ (wpc[w] = "not_empty_wait" /\ wpc'[w] = "loop")
      BY ONLY <2>1, <2>2 DEF Signalled, WorkerLocations
    <2>4. cpc' \in [Clients -> ClientLocations]
      BY ONLY <2>1, <2>2 DEF Signalled, ClientLocations
    <2>5. UNCHANGED <<queue, head, count, pending, completed, wtask, accepted, started, finished>>
      BY ONLY <1>7 DEF SpuriousWakeup, poolVars
    <2> QED BY ONLY <2>3, <2>4, <2>5 DEF Quiet
  <1> QED BY <1>1, <1>2, <1>3, <1>4, <1>5, <1>6, <1>7 DEF QuietStep

\* A quiet step keeps what is said of tasks and counters.
LEMMA QuietKeeps ==
    ASSUME IInv, Quiet
    PROVE  RingMatches' /\ NoRepetition' /\ StartedSettled' /\ Accounting'
  <1>1. RingMatches' /\ NoRepetition'
    BY DEF IInv, Quiet, RingMatches, NoRepetition
  <1>2. StartedSettled'
    BY DEF IInv, Quiet, StartedSettled, TypeOK
  <1>3. Accounting'
    <2>1. Busy' = Busy /\ Finishing' = Finishing
      BY DEF Quiet, Busy, Finishing
    <2> QED BY <2>1 DEF IInv, Quiet, Accounting
  <1> QED BY <1>1, <1>2, <1>3

\* enqueue's store extends the ring at its end, whichever submit reached it.
LEMMA StoreKeeps ==
    ASSUME IInv, NEW t \in Tasks, Store(t), count # Capacity,
           \A i \in 1..Len(accepted) : accepted[i] # t,
           UNCHANGED <<started, finished, wtask, completed>>
    PROVE  /\ queue' \in [0..Capacity-1 -> Tasks \cup {NoTask}]
           /\ head' \in 0..Capacity-1 /\ count' \in 0..Capacity
           /\ pending' \in Nat /\ wpc' \in [Workers -> WorkerLocations]
           /\ accepted' \in Seq(Tasks) /\ Len(accepted') = Len(accepted) + 1
           /\ \A i \in 1..Len(accepted) : accepted'[i] = accepted[i]
           /\ accepted'[Len(accepted) + 1] = t
           /\ \A w \in Workers : wpc'[w] = wpc[w]
                 \/ (wpc[w] = "not_empty_wait" /\ wpc'[w] = "loop")
           /\ RingMatches' /\ NoRepetition' /\ StartedSettled' /\ Accounting'
  <1> USE DEF IInv
  <1>1. /\ accepted' \in Seq(Tasks) /\ Len(accepted') = Len(accepted) + 1
        /\ \A i \in 1..Len(accepted) : accepted'[i] = accepted[i]
        /\ accepted'[Len(accepted) + 1] = t
    BY DEF Store, TypeOK
  <1>2. (head + count) % Capacity \in 0..Capacity-1
    <2>1. Capacity \in Nat \ {0}
      BY PoolAssumption
    <2>2. head + count \in Nat
      BY <2>1 DEF TypeOK
    <2> HIDE DEF IInv
    <2>3. \A n \in Nat : n % Capacity \in 0..Capacity-1
      BY <2>1
    <2> QED BY ONLY <2>2, <2>3
  <1>3. queue' \in [0..Capacity-1 -> Tasks \cup {NoTask}]
    BY <1>2 DEF Store, TypeOK
  <1>4. head' \in 0..Capacity-1 /\ count' \in 0..Capacity /\ pending' \in Nat
    BY PoolAssumption DEF Store, TypeOK
  <1>5. /\ wpc' \in [Workers -> WorkerLocations]
        /\ \A w \in Workers : wpc'[w] = wpc[w]
              \/ (wpc[w] = "not_empty_wait" /\ wpc'[w] = "loop")
    <2>1. wpc \in [Workers -> WorkerLocations] /\ "loop" \in WorkerLocations
      BY DEF TypeOK, WorkerLocations
    <2>2. wpc' \in Signalled(wpc, "not_empty_wait", "loop")
      BY DEF Store
    <2> QED BY <2>1, <2>2 DEF Signalled
  <1>6. RingMatches'
    <2>1. Len(accepted') = Len(started') + count'
      BY <1>1 DEF RingMatches, Store, TypeOK
    <2>2. \A i \in 1..Len(started') : accepted'[i] = started'[i]
      BY <1>1 DEF RingMatches, TypeOK
    <2>3. ASSUME NEW i \in 1..count'
          PROVE  accepted'[Len(started') + i] = queue'[(head' + i - 1) % Capacity]
      <3>1. CASE i = count + 1
        <4>1. (head' + i - 1) % Capacity = (head + count) % Capacity
          BY <3>1 DEF Store, TypeOK
        <4>2. queue'[(head + count) % Capacity] = t
          BY <1>2 DEF Store, TypeOK
        <4> QED BY <3>1, <4>1, <4>2, <1>1 DEF RingMatches, TypeOK
      <3>2. CASE i \in 1..count
        <4>0. /\ Capacity \in Nat \ {0} /\ head \in 0..Capacity-1 /\ count \in 0..Capacity
              /\ i - 1 \in 0..Capacity /\ i - 1 < count /\ count < Capacity
          BY <3>2, PoolAssumption DEF TypeOK
        <4>a. (head + (i - 1)) % Capacity =
                 IF head + (i - 1) < Capacity THEN head + (i - 1) ELSE head + (i - 1) - Capacity
          BY <4>0, ModWrap, Zenon
        <4>b. (head + count) % Capacity =
                 IF head + count < Capacity THEN head + count ELSE head + count - Capacity
          BY <4>0, ModWrap, Zenon
        <4>1. (head + (i - 1)) % Capacity # (head + count) % Capacity
          BY ONLY <4>0, <4>a, <4>b
        <4>2. (head + (i - 1)) % Capacity \in 0..Capacity-1
          BY ONLY <4>0, <4>a
        <4>3. queue'[(head + (i - 1)) % Capacity] = queue[(head + (i - 1)) % Capacity]
          BY <4>1, <4>2, <1>2 DEF Store, TypeOK
        <4>4. head' + i - 1 = head + (i - 1) /\ head + i - 1 = head + (i - 1)
          BY <3>2 DEF Store, TypeOK
        <4>5. accepted'[Len(started') + i] = accepted[Len(started) + i]
          <5>1. /\ Len(accepted) = Len(started) + count /\ Len(started) \in Nat
                /\ count \in Nat /\ started' = started
            BY PoolAssumption DEF RingMatches, TypeOK
          <5>2. Len(started) + i \in 1..Len(accepted)
            BY ONLY <5>1, <3>2
          <5> QED BY ONLY <5>1, <5>2, <1>1
        <4> QED BY <3>2, <4>3, <4>4, <4>5, Zenon DEF RingMatches
      <3>3. count' = count + 1 /\ count \in Nat
        BY DEF Store, TypeOK
      <3> QED BY <3>1, <3>2, <3>3
    <2> QED BY <2>1, <2>2, <2>3 DEF RingMatches
  <1>7. NoRepetition'
    <2>1. Len(accepted) \in Nat /\ NoRepetition
      BY DEF TypeOK
    <2> QED BY <2>1, <1>1 DEF NoRepetition
  <1>8. StartedSettled'
    BY <1>5 DEF StartedSettled
  <1>9. Accounting'
    <2>1. Busy' = Busy /\ Finishing' = Finishing
      BY <1>5 DEF Busy, Finishing
    <2>2. count' = count + 1 /\ pending' = pending + 1 /\ completed' = completed
      BY DEF Store
    <2>3. /\ count \in Nat /\ pending \in Nat /\ completed \in Nat /\ Len(accepted) \in Nat
          /\ Accounting
      BY DEF TypeOK
    <2>4. /\ Cardinality(Busy)' = Cardinality(Busy)
          /\ Cardinality(Finishing)' = Cardinality(Finishing)
      BY <2>1
    <2>5. pending' = count' + Cardinality(Busy)'
      BY <2>2, <2>3, <2>4, WorkerSetsFinite DEF Accounting
    <2>6. completed' + pending' = Len(accepted') + Cardinality(Finishing)'
      <3>1. Len(accepted') = Len(accepted) + 1
        BY <1>1
      <3>2. completed + pending = Len(accepted) + Cardinality(Finishing)
        BY <2>3 DEF Accounting
      <3>3. Cardinality(Finishing) \in Nat
        BY WorkerSetsFinite
      <3>4. completed' + pending' = (completed + pending) + 1
        BY <2>2, <2>3
      <3>5. Len(accepted') + Cardinality(Finishing)' = (Len(accepted) + Cardinality(Finishing)) + 1
        BY <3>1, <3>3, <2>3, <2>4
      <3> QED BY <3>2, <3>4, <3>5
    <2> QED BY <2>5, <2>6 DEF Accounting
  <1> QED BY <1>1, <1>3, <1>4, <1>5, <1>6, <1>7, <1>8, <1>9

\* A worker's dequeue moves the oldest slot of the ring to `started`.
LEMMA DequeueKeeps ==
    ASSUME IInv, NEW w \in Workers, WorkerDequeue(w)
    PROVE  IInv'
  <1> USE DEF IInv
  <1>1. /\ count \in 1..Capacity /\ head \in 0..Capacity-1 /\ Capacity \in Nat \ {0}
        /\ count' = count - 1 /\ queue' = queue /\ accepted' = accepted
        /\ started' = Append(started, queue[head])
        /\ Len(started) \in Nat /\ Len(accepted) = Len(started) + count
    <2>1. Capacity \in Nat \ {0}
      BY PoolAssumption
    <2>2. /\ count > 0 /\ count' = count - 1 /\ queue' = queue /\ accepted' = accepted
          /\ started' = Append(started, queue[head])
      BY DEF WorkerDequeue
    <2>3. count \in 0..Capacity /\ head \in 0..Capacity-1 /\ started \in Seq(Tasks)
      BY DEF TypeOK
    <2>4. Len(accepted) = Len(started) + count
      BY DEF RingMatches
    <2>5. Len(started) \in Nat
      BY ONLY <2>3
    <2>6. count \in 1..Capacity
      BY ONLY <2>1, <2>2, <2>3
    <2> QED BY ONLY <2>1, <2>2, <2>3, <2>4, <2>5, <2>6
  <1>2. queue[head] = accepted[Len(started) + 1] /\ queue[head] \in Tasks
    <2>0. head \in 0..Capacity-1 /\ Capacity \in Nat \ {0} /\ 0 \in 0..Capacity
          /\ head + 1 - 1 = head + 0
      BY <1>1
    <2>1. (head + 1 - 1) % Capacity = head
      BY <2>0, ModWrap
    <2>2. accepted[Len(started) + 1] = queue[(head + 1 - 1) % Capacity]
      BY <1>1 DEF RingMatches
    <2>3. accepted[Len(started) + 1] \in Tasks
      BY <1>1 DEF TypeOK
    <2> QED BY <2>1, <2>2, <2>3
  <1>3. /\ started' \in Seq(Tasks) /\ Len(started') = Len(started) + 1
        /\ \A i \in 1..Len(started) : started'[i] = started[i]
        /\ started'[Len(started) + 1] = queue[head]
    BY <1>1, <1>2 DEF TypeOK
  <1>3a. Len(started) \in Nat /\ Len(started') = Len(started) + 1
    BY ONLY <1>1, <1>3
  <1>4. head' = (head + 1) % Capacity /\ head' \in 0..Capacity-1
    BY <1>1, ModWrap DEF WorkerDequeue
  <1>5. /\ cpc' \in [Clients -> ClientLocations]
        /\ \A c \in Clients : cpc'[c] = cpc[c] \/ (cpc[c] = "not_full_wait" /\ cpc'[c] = "submit")
    <2>1. cpc \in [Clients -> ClientLocations] /\ "submit" \in ClientLocations
      BY DEF TypeOK, ClientLocations
    <2>2. cpc' \in Signalled(cpc, "not_full_wait", "submit")
      BY DEF WorkerDequeue
    <2> QED BY <2>1, <2>2 DEF Signalled
  <1>6. /\ wpc' = [wpc EXCEPT ![w] = "run"] /\ wtask' = [wtask EXCEPT ![w] = queue[head]]
        /\ wpc[w] = "loop" /\ wpc' \in [Workers -> WorkerLocations]
        /\ wtask' \in [Workers -> Tasks \cup {NoTask}]
    BY <1>2 DEF WorkerDequeue, TypeOK, WorkerLocations
  <1>7. TypeOK'
    <2>1. count' \in 0..Capacity
      BY <1>1
    <2> QED BY <2>1, <1>1, <1>3, <1>4, <1>5, <1>6 DEF TypeOK, WorkerDequeue
  <1>8. RingMatches'
    <2>1. Len(accepted') = Len(started') + count'
      BY <1>1, <1>3
    <2>2. ASSUME NEW i \in 1..Len(started') PROVE accepted'[i] = started'[i]
      <3>1. CASE i = Len(started) + 1
        BY <3>1, <1>1, <1>2, <1>3
      <3>2. CASE i \in 1..Len(started)
        BY <3>2, <1>1, <1>3 DEF RingMatches
      <3>3. i = Len(started) + 1 \/ i \in 1..Len(started)
        BY ONLY <1>3a, <2>2
      <3> QED BY ONLY <3>1, <3>2, <3>3
    <2>3. ASSUME NEW i \in 1..count'
          PROVE  accepted'[Len(started') + i] = queue'[(head' + i - 1) % Capacity]
      <3>1. /\ Capacity \in Nat \ {0} /\ head \in 0..Capacity-1 /\ head' \in 0..Capacity-1
            /\ i + 1 \in 1..count /\ i \in 0..Capacity /\ i - 1 \in 0..Capacity
            /\ 1 \in 0..Capacity /\ i \in Nat \ {0} /\ i < Capacity
        BY <1>1, <1>4
      <3>2. accepted[Len(started) + (i + 1)] = queue[(head + (i + 1) - 1) % Capacity]
        BY <3>1 DEF RingMatches
      <3>3. (head + i) % Capacity = IF head + i < Capacity THEN head + i ELSE head + i - Capacity
        BY <3>1, ModWrap, Zenon
      <3>4. head' = IF head + 1 < Capacity THEN head + 1 ELSE head + 1 - Capacity
        BY <3>1, <1>4, ModWrap, Zenon
      <3>5. (head' + (i - 1)) % Capacity =
               IF head' + (i - 1) < Capacity THEN head' + (i - 1) ELSE head' + (i - 1) - Capacity
        BY <3>1, ModWrap, Zenon
      <3>6. (head' + (i - 1)) % Capacity = (head + i) % Capacity
        BY <3>1, <3>3, <3>4, <3>5
      <3>7. head' + i - 1 = head' + (i - 1) /\ head + (i + 1) - 1 = head + i
        BY <3>1
      <3>8. Len(started') + i = Len(started) + (i + 1)
        <4>1. Len(started) \in Nat /\ Len(started') = Len(started) + 1
          BY <1>1, <1>3
        <4> QED BY <4>1, <3>1
      <3> QED BY <3>2, <3>6, <3>7, <3>8, <1>1
    <2> QED BY <2>1, <2>2, <2>3 DEF RingMatches
  <1>9. RequestsFresh' /\ NoRepetition' /\ BeforeAccepted'
    <2>1. accepted' = accepted /\ ctask' = ctask /\ before' = before
      BY DEF WorkerDequeue
    <2>2. RequestsFresh'
      BY ONLY RequestsFresh, <2>1, <1>5 DEF RequestsFresh
    <2>3. NoRepetition'
      BY ONLY NoRepetition, <2>1 DEF NoRepetition
    <2>4. BeforeAccepted'
      BY ONLY BeforeAccepted, <2>1 DEF BeforeAccepted
    <2> QED BY ONLY <2>2, <2>3, <2>4
  <1>10. StartedSettled'
    <2>1. wpc'[w] = "run" /\ wtask'[w] = queue[head] /\ finished' = finished
      BY <1>6 DEF TypeOK, WorkerDequeue
    <2>2. \A v \in Workers : v # w => wpc'[v] = wpc[v] /\ wtask'[v] = wtask[v]
      BY <1>6 DEF TypeOK
    <2>3. ASSUME NEW i \in 1..Len(started')
          PROVE  \/ started'[i] \in finished'
                 \/ \E v \in Workers : wpc'[v] = "run" /\ wtask'[v] = started'[i]
      <3>1. CASE i = Len(started) + 1
        BY <3>1, <2>1, <1>3
      <3>2. CASE i \in 1..Len(started)
        BY <3>2, <2>1, <2>2, <1>3, <1>6 DEF StartedSettled
      <3>3. i = Len(started) + 1 \/ i \in 1..Len(started)
        BY ONLY <1>3a, <2>3
      <3> QED BY ONLY <3>1, <3>2, <3>3
    <2>4. ASSUME NEW t \in finished' PROVE \E i \in 1..Len(started') : started'[i] = t
      <3>1. \E i \in 1..Len(started) : started[i] = t
        BY ONLY StartedSettled, <2>1, <2>4 DEF StartedSettled
      <3>2. \A i \in 1..Len(started) : i \in 1..Len(started') /\ started'[i] = started[i]
        BY ONLY <1>3a, <1>3
      <3> QED BY ONLY <3>1, <3>2
    <2>5. ASSUME NEW v \in Workers, wpc'[v] = "run"
          PROVE  \E i \in 1..Len(started') : started'[i] = wtask'[v]
      BY <2>1, <2>2, <2>5, <1>1, <1>3 DEF StartedSettled
    <2> QED BY <2>3, <2>4, <2>5 DEF StartedSettled
  <1>11. ExitsAfterDrain'
    <2>1. \A v \in Workers : wpc[v] # "exited"
      BY <1>1 DEF ExitsAfterDrain
    <2> QED BY <2>1, <1>6 DEF ExitsAfterDrain, WorkerDequeue, TypeOK
  <1>12. Accounting'
    <2>1. Busy' = Busy \cup {w} /\ Finishing' = Finishing /\ w \notin Busy
      BY <1>6 DEF Busy, Finishing, TypeOK
    <2>2. Cardinality(Busy)' = Cardinality(Busy) + 1 /\ Cardinality(Finishing)' = Cardinality(Finishing)
      BY <2>1, WorkerSetsFinite, FS_AddElement, Zenon
    <2>3. pending' = pending /\ completed' = completed /\ accepted' = accepted
      BY DEF WorkerDequeue
    <2> QED BY <2>2, <2>3, <1>1, WorkerSetsFinite DEF Accounting
  <1> QED BY <1>7, <1>8, <1>9, <1>10, <1>11, <1>12

\* The task function returns.
LEMMA RunKeeps ==
    ASSUME IInv, NEW w \in Workers, WorkerRun(w)
    PROVE  IInv'
  <1> USE DEF IInv
  <1>1. wtask[w] \in Tasks /\ \E i \in 1..Len(started) : started[i] = wtask[w]
    BY DEF WorkerRun, StartedSettled, TypeOK
  <1>2. /\ wpc' = [wpc EXCEPT ![w] = "finish"] /\ wpc' \in [Workers -> WorkerLocations]
        /\ wpc[w] = "run" /\ finished' = finished \cup {wtask[w]}
        /\ UNCHANGED <<queue, head, count, pending, shutting_down, life, wtask, cpc, ctask,
                       accepted, started, before>>
    BY DEF WorkerRun, poolVars, TypeOK, WorkerLocations
  <1>3. TypeOK'
    <2>1. completed' \in Nat
      BY DEF WorkerRun, TypeOK
    <2>2. finished' \subseteq Tasks
      BY <1>1, <1>2 DEF TypeOK
    <2> QED BY <2>1, <2>2, <1>2, Zenon DEF TypeOK
  <1>4. RingMatches' /\ RequestsFresh' /\ NoRepetition' /\ BeforeAccepted'
    <2>1. RingMatches'
      BY ONLY RingMatches, <1>2 DEF RingMatches
    <2>2. RequestsFresh'
      BY ONLY RequestsFresh, <1>2 DEF RequestsFresh
    <2>3. NoRepetition' /\ BeforeAccepted'
      BY ONLY NoRepetition, BeforeAccepted, <1>2 DEF NoRepetition, BeforeAccepted
    <2> QED BY ONLY <2>1, <2>2, <2>3
  <1>5. StartedSettled'
    <2>1. \A v \in Workers : /\ v # w => wpc'[v] = wpc[v]
                             /\ wpc'[v] = "run" => wpc[v] = "run"
      <3>1. wpc \in [Workers -> WorkerLocations]
        BY Zenon DEF TypeOK
      <3>2. wpc' = [wpc EXCEPT ![w] = "finish"] /\ wpc[w] = "run"
        BY ONLY <1>2
      <3> QED BY ONLY <3>1, <3>2
    <2>2. ASSUME NEW i \in 1..Len(started)
          PROVE  \/ started[i] \in finished'
                 \/ \E v \in Workers : wpc'[v] = "run" /\ wtask[v] = started[i]
      BY ONLY StartedSettled, <1>2, <2>1 DEF StartedSettled
    <2>3. ASSUME NEW t \in finished' PROVE \E i \in 1..Len(started) : started[i] = t
      BY ONLY StartedSettled, <1>1, <1>2 DEF StartedSettled
    <2>4. ASSUME NEW v \in Workers, wpc'[v] = "run"
          PROVE  \E i \in 1..Len(started) : started[i] = wtask[v]
      BY ONLY StartedSettled, <2>1, <2>4 DEF StartedSettled
    <2> QED BY ONLY <1>2, <2>2, <2>3, <2>4 DEF StartedSettled
  <1>6. ExitsAfterDrain'
    BY <1>2 DEF ExitsAfterDrain, TypeOK
  <1>7. Accounting'
    <2>1. Busy' = Busy /\ Finishing' = Finishing \cup {w} /\ w \notin Finishing
      BY <1>2 DEF Busy, Finishing, TypeOK
    <2>2. Cardinality(Busy)' = Cardinality(Busy) /\ Cardinality(Finishing)' = Cardinality(Finishing) + 1
      BY <2>1, WorkerSetsFinite, FS_AddElement, Zenon
    <2>3. /\ completed' = completed + 1 /\ pending' = pending /\ accepted' = accepted /\ count' = count
          /\ completed \in Nat /\ pending \in Nat /\ Len(accepted) \in Nat
      <3>1. completed' = completed + 1
        BY DEF WorkerRun
      <3>2. completed \in Nat /\ pending \in Nat /\ accepted \in Seq(Tasks)
        BY DEF TypeOK
      <3>3. Len(accepted) \in Nat
        BY ONLY <3>2
      <3> QED BY ONLY <1>2, <3>1, <3>2, <3>3
    <2>4. pending = count + Cardinality(Busy) /\ completed + pending = Len(accepted) + Cardinality(Finishing)
      BY DEF Accounting
    <2>5. completed' + pending' = Len(accepted') + Cardinality(Finishing)'
      <3>1. completed' + pending' = (completed + pending) + 1
        BY <2>3
      <3>2. Len(accepted') + Cardinality(Finishing)' = (Len(accepted) + Cardinality(Finishing)) + 1
        BY <2>2, <2>3, WorkerSetsFinite
      <3> QED BY <3>1, <3>2, <2>4
    <2> QED BY <2>2, <2>3, <2>4, <2>5 DEF Accounting
  <1> QED BY <1>3, <1>4, <1>5, <1>6, <1>7

\* A worker retakes the lock and gives up its share of `pending`.
LEMMA FinishKeeps ==
    ASSUME IInv, NEW w \in Workers, WorkerFinish(w)
    PROVE  IInv'
  <1> USE DEF IInv
  <1>1. /\ wpc' = [wpc EXCEPT ![w] = "loop"] /\ wpc' \in [Workers -> WorkerLocations]
        /\ wtask' = [wtask EXCEPT ![w] = NoTask] /\ wpc[w] = "finish"
        /\ wtask' \in [Workers -> Tasks \cup {NoTask}]
        /\ UNCHANGED <<queue, head, count, shutting_down, life, completed, ctask,
                       accepted, started, finished, before>>
    BY DEF WorkerFinish, TypeOK, WorkerLocations
  <1>2. /\ cpc' \in [Clients -> ClientLocations]
        /\ \A c \in Clients : cpc'[c] = cpc[c] \/ (cpc[c] = "idle_wait" /\ cpc'[c] = "wait")
    <2>1. cpc \in [Clients -> ClientLocations] /\ "wait" \in ClientLocations
      BY DEF TypeOK, ClientLocations
    <2>2. cpc' = Broadcast(cpc, "idle_wait", "wait") \/ cpc' = cpc
      BY DEF WorkerFinish
    <2> QED BY ONLY <2>1, <2>2 DEF Broadcast
  <1>3. /\ Busy' = Busy \ {w} /\ w \in Busy
        /\ Finishing' = Finishing \ {w} /\ w \in Finishing
    BY <1>1 DEF Busy, Finishing, TypeOK
  <1>4. /\ Cardinality(Busy)' = Cardinality(Busy) - 1 /\ Cardinality(Busy) > 0
        /\ Cardinality(Finishing)' = Cardinality(Finishing) - 1
    <2>1. Cardinality(Busy)' = Cardinality(Busy) - 1 /\ Cardinality(Finishing)' = Cardinality(Finishing) - 1
      BY <1>3, WorkerSetsFinite, FS_RemoveElement, Zenon
    <2>2. Cardinality(Busy) # 0
      BY <1>3, WorkerSetsFinite, FS_EmptySet
    <2> QED BY <2>1, <2>2, WorkerSetsFinite
  <1>5. /\ pending' = pending - 1 /\ pending \in Nat /\ pending = count + Cardinality(Busy)
        /\ count \in Nat /\ completed \in Nat /\ Len(accepted) \in Nat
    BY DEF WorkerFinish, TypeOK, Accounting
  <1>6. TypeOK'
    <2>1. pending' \in Nat
      BY <1>4, <1>5, WorkerSetsFinite
    <2> QED BY <2>1, <1>1, <1>2, Zenon DEF TypeOK
  <1>7. RingMatches' /\ RequestsFresh' /\ NoRepetition' /\ BeforeAccepted'
    <2>1. RingMatches'
      BY ONLY RingMatches, <1>1 DEF RingMatches
    <2>2. RequestsFresh'
      BY ONLY RequestsFresh, <1>1, <1>2 DEF RequestsFresh
    <2>3. NoRepetition' /\ BeforeAccepted'
      BY ONLY NoRepetition, BeforeAccepted, <1>1 DEF NoRepetition, BeforeAccepted
    <2> QED BY ONLY <2>1, <2>2, <2>3
  <1>8. StartedSettled' /\ ExitsAfterDrain'
    <2>1. /\ \A v \in Workers : v # w => wpc'[v] = wpc[v] /\ wtask'[v] = wtask[v]
          /\ wpc[w] = "finish" /\ wpc'[w] = "loop"
      BY <1>1 DEF TypeOK
    <2>2. \A v \in Workers : wpc'[v] = "run" <=> wpc[v] = "run"
      BY ONLY <2>1
    <2>3. \A v \in Workers : wpc[v] = "run" => wtask'[v] = wtask[v]
      BY ONLY <2>1
    <2>4. started' = started /\ finished' = finished
      BY ONLY <1>1
    <2>5. StartedSettled'
      <3>1. \A i \in 1..Len(started) :
               \/ started[i] \in finished
               \/ \E v \in Workers : wpc'[v] = "run" /\ wtask'[v] = started[i]
        BY ONLY StartedSettled, <2>2, <2>3 DEF StartedSettled
      <3>2. \A t \in finished : \E i \in 1..Len(started) : started[i] = t
        BY ONLY StartedSettled DEF StartedSettled
      <3>3. ASSUME NEW v \in Workers, wpc'[v] = "run"
            PROVE  \E i \in 1..Len(started) : started[i] = wtask'[v]
        BY ONLY StartedSettled, <2>2, <2>3, <3>3 DEF StartedSettled
      <3> QED BY ONLY <3>1, <3>2, <3>3, <2>4 DEF StartedSettled
    <2>6. count' = count /\ shutting_down' = shutting_down /\ life' = life
      BY ONLY <1>1
    <2>7. ExitsAfterDrain'
      BY ONLY ExitsAfterDrain, <2>1, <2>6 DEF ExitsAfterDrain
    <2> QED BY ONLY <2>5, <2>7
  <1>9. Accounting'
    <2>1. completed + pending = Len(accepted) + Cardinality(Finishing)
      BY DEF Accounting
    <2>2. completed' + pending' = (completed + pending) - 1
      BY <1>1, <1>5
    <2>3. Len(accepted') + Cardinality(Finishing)' = (Len(accepted) + Cardinality(Finishing)) - 1
      BY <1>1, <1>4, <1>5, WorkerSetsFinite
    <2>4. pending' = count' + Cardinality(Busy)'
      BY <1>1, <1>4, <1>5, WorkerSetsFinite
    <2> QED BY <2>1, <2>2, <2>3, <2>4 DEF Accounting
  <1> QED BY <1>6, <1>7, <1>8, <1>9

\* The blocking and the non-blocking submit store a task.
LEMMA EnqueueKeeps ==
    ASSUME IInv,
           \/ \E c \in Clients : EnqueueStore(c)
           \/ \E c \in Clients, t \in Tasks : TrySubmit(c, t)
    PROVE  IInv'
  <1>1. ASSUME NEW c \in Clients, EnqueueStore(c)
        PROVE  IInv'
    <2> DEFINE t == ctask[c]
    <2>f. /\ RequestsFresh /\ cpc[c] = "submit" /\ accepted \in Seq(Tasks)
          /\ ctask \in [Clients -> Tasks \cup {NoTask}] /\ cpc \in [Clients -> ClientLocations]
      BY <1>1, Zenon DEF IInv, TypeOK, EnqueueStore
    <2>1. t \in Tasks /\ \A i \in 1..Len(accepted) : accepted[i] # t
      BY ONLY <2>f DEF RequestsFresh
    <2>2. /\ Store(t) /\ count # Capacity /\ UNCHANGED <<started, finished, wtask, completed, life, before>>
          /\ cpc' = [cpc EXCEPT ![c] = "ready"] /\ ctask' = [ctask EXCEPT ![c] = NoTask]
          /\ shutting_down' = shutting_down /\ ~shutting_down
      BY <1>1 DEF EnqueueStore, Store
    <2> HIDE DEF t
    <2>3. /\ queue' \in [0..Capacity-1 -> Tasks \cup {NoTask}]
          /\ head' \in 0..Capacity-1 /\ count' \in 0..Capacity
          /\ pending' \in Nat /\ wpc' \in [Workers -> WorkerLocations]
          /\ accepted' \in Seq(Tasks) /\ Len(accepted') = Len(accepted) + 1
          /\ \A i \in 1..Len(accepted) : accepted'[i] = accepted[i]
          /\ accepted'[Len(accepted) + 1] = t
          /\ \A w \in Workers : wpc'[w] = wpc[w]
                \/ (wpc[w] = "not_empty_wait" /\ wpc'[w] = "loop")
          /\ RingMatches' /\ NoRepetition' /\ StartedSettled' /\ Accounting'
      BY <2>1, <2>2, StoreKeeps, Zenon
    <2>a. /\ Len(accepted') = Len(accepted) + 1
          /\ \A i \in 1..Len(accepted) : accepted'[i] = accepted[i]
          /\ accepted'[Len(accepted) + 1] = t
      BY ONLY <2>3, Zenon
    <2>4. TypeOK'
      <3>1. cpc' \in [Clients -> ClientLocations] /\ ctask' \in [Clients -> Tasks \cup {NoTask}]
        BY ONLY <2>2, <2>f DEF ClientLocations
      <3> QED BY <2>2, <2>3, <3>1, Zenon DEF IInv, TypeOK
    <2>5. Len(accepted) \in Nat
      BY DEF IInv, TypeOK
    <2>n. Len(accepted) \in Nat /\ Len(accepted') = Len(accepted) + 1
      BY ONLY <2>5, <2>a, Zenon
    <2>6. RequestsFresh'
      <3>1. \A d \in Clients : /\ d # c => ctask'[d] = ctask[d] /\ cpc'[d] = cpc[d]
                               /\ ctask'[c] = NoTask /\ cpc'[c] = "ready"
        BY ONLY <2>2, <2>f
      <3>2. \A d \in Clients : d # c => ctask[d] # t
        <4>1. t # NoTask
          BY ONLY <2>1, PoolAssumption
        <4> QED BY ONLY <2>f, <4>1, Zenon DEF RequestsFresh, t
      <3>3. ASSUME NEW d \in Clients, ctask'[d] # NoTask, NEW i \in 1..Len(accepted')
            PROVE  accepted'[i] # ctask'[d]
        <4>1. d # c /\ ctask'[d] = ctask[d] /\ ctask[d] # t
          BY <3>1, <3>2, <3>3
        <4>2. i \in 1..Len(accepted) \/ i = Len(accepted) + 1
          BY ONLY <2>n
        <4>3. \A j \in 1..Len(accepted) : accepted[j] # ctask[d]
          BY ONLY <4>1, <3>3, <2>f, Zenon DEF RequestsFresh
        <4> QED BY ONLY <4>1, <4>2, <4>3, <2>a, Zenon
      <3>4. ASSUME NEW d \in Clients PROVE cpc'[d] \in {"submit", "not_full_wait"} => ctask'[d] # NoTask
        BY ONLY <3>1, <2>f DEF RequestsFresh
      <3>5. ASSUME NEW d \in Clients, ctask'[d] # NoTask, NEW e \in Clients, e # d
            PROVE  ctask'[e] # ctask'[d]
        BY ONLY <3>1, <3>5, <2>f DEF RequestsFresh
      <3> QED BY ONLY <3>3, <3>4, <3>5, Zenon DEF RequestsFresh
    <2>7. ExitsAfterDrain'
      <3>1. /\ ExitsAfterDrain /\ life' = life /\ ~shutting_down
            /\ \A w \in Workers : wpc'[w] = wpc[w]
                  \/ (wpc[w] = "not_empty_wait" /\ wpc'[w] = "loop")
        BY <2>2, <2>3, Zenon DEF IInv
      <3> QED BY ONLY <3>1 DEF ExitsAfterDrain
    <2>8. BeforeAccepted'
      <3>1. before' = before /\ BeforeAccepted
        BY <2>2, Zenon DEF IInv
      <3>2. \A i \in 1..Len(accepted) : i \in 1..Len(accepted') /\ accepted'[i] = accepted[i]
        BY ONLY <2>a, <2>5
      <3> QED BY ONLY <3>1, <3>2 DEF BeforeAccepted
    <2> QED BY <2>3, <2>4, <2>6, <2>7, <2>8 DEF IInv
  <1>2. ASSUME NEW c \in Clients, NEW t \in Tasks, TrySubmit(c, t)
        PROVE  IInv'
    <2>1. \A i \in 1..Len(accepted) : accepted[i] # t
      <3>1. accepted \in Seq(Tasks)
        BY DEF IInv, TypeOK
      <3>2. t \notin Elements(accepted)
        BY ONLY <1>2 DEF TrySubmit
      <3> QED BY ONLY <3>1, <3>2 DEF Elements
    <2>2. /\ Store(t) /\ count # Capacity /\ UNCHANGED <<started, finished, wtask, completed, life, before, cpc, ctask>>
          /\ shutting_down' = shutting_down /\ ~shutting_down /\ \A d \in Clients : ctask[d] # t
      BY <1>2 DEF TrySubmit, Store
    <2>3. /\ queue' \in [0..Capacity-1 -> Tasks \cup {NoTask}]
          /\ head' \in 0..Capacity-1 /\ count' \in 0..Capacity
          /\ pending' \in Nat /\ wpc' \in [Workers -> WorkerLocations]
          /\ accepted' \in Seq(Tasks) /\ Len(accepted') = Len(accepted) + 1
          /\ \A i \in 1..Len(accepted) : accepted'[i] = accepted[i]
          /\ accepted'[Len(accepted) + 1] = t
          /\ \A w \in Workers : wpc'[w] = wpc[w]
                \/ (wpc[w] = "not_empty_wait" /\ wpc'[w] = "loop")
          /\ RingMatches' /\ NoRepetition' /\ StartedSettled' /\ Accounting'
      BY <2>1, <2>2, StoreKeeps, Zenon
    <2>a. /\ Len(accepted') = Len(accepted) + 1
          /\ \A i \in 1..Len(accepted) : accepted'[i] = accepted[i]
          /\ accepted'[Len(accepted) + 1] = t
      BY ONLY <2>3, Zenon
    <2>4. TypeOK'
      BY <2>2, <2>3, Zenon DEF IInv, TypeOK
    <2>5. Len(accepted) \in Nat
      BY DEF IInv, TypeOK
    <2>n. Len(accepted) \in Nat /\ Len(accepted') = Len(accepted) + 1
      BY ONLY <2>5, <2>a, Zenon
    <2>6. RequestsFresh'
      <3> SUFFICES ASSUME NEW d \in Clients, ctask[d] # NoTask, NEW i \in 1..Len(accepted')
                   PROVE  accepted'[i] # ctask[d]
        BY <2>2, Zenon DEF IInv, RequestsFresh
      <3>1. \A j \in 1..Len(accepted) : accepted[j] # ctask[d]
        BY Zenon DEF IInv, RequestsFresh
      <3>2. i \in 1..Len(accepted) \/ i = Len(accepted) + 1
        BY ONLY <2>n
      <3>3. ctask[d] # t
        BY ONLY <2>2, Zenon
      <3> QED BY ONLY <3>1, <3>2, <3>3, <2>a, Zenon
    <2>7. ExitsAfterDrain'
      <3>1. /\ ExitsAfterDrain /\ life' = life /\ ~shutting_down
            /\ \A w \in Workers : wpc'[w] = wpc[w]
                  \/ (wpc[w] = "not_empty_wait" /\ wpc'[w] = "loop")
        BY <2>2, <2>3, Zenon DEF IInv
      <3> QED BY ONLY <3>1 DEF ExitsAfterDrain
    <2>8. BeforeAccepted'
      <3>1. before' = before /\ BeforeAccepted
        BY <2>2, Zenon DEF IInv
      <3>2. \A i \in 1..Len(accepted) : i \in 1..Len(accepted') /\ accepted'[i] = accepted[i]
        BY ONLY <2>a, <2>5
      <3> QED BY ONLY <3>1, <3>2 DEF BeforeAccepted
    <2> QED BY <2>3, <2>4, <2>6, <2>7, <2>8 DEF IInv
  <1> QED BY <1>1, <1>2

\* What a quiet step does to types, requests, the lifecycle and the waiters.
LEMMA QuietKeepsControl ==
    ASSUME IInv, QuietStep
    PROVE  TypeOK' /\ RequestsFresh' /\ ExitsAfterDrain' /\ BeforeAccepted'
  <1>q. Quiet
    BY QuietStepIsQuiet DEF IInv
  <1>u. /\ UNCHANGED <<queue, head, count, pending, completed, wtask, accepted, started, finished>>
        /\ wpc' \in [Workers -> WorkerLocations] /\ cpc' \in [Clients -> ClientLocations]
        /\ wpc \in [Workers -> WorkerLocations] /\ cpc \in [Clients -> ClientLocations]
        /\ accepted \in Seq(Tasks) /\ Len(accepted) \in Nat
    BY <1>q DEF Quiet, IInv, TypeOK
  <1>t. /\ TypeOK
        /\ life \in {"creating", "up", "unwinding", "closing", "freed", "failed"}
        /\ ctask \in [Clients -> Tasks \cup {NoTask}] /\ before \in [Clients -> SUBSET Tasks]
    BY Zenon DEF IInv, TypeOK
  <1>i. RequestsFresh /\ ExitsAfterDrain /\ BeforeAccepted
    BY DEF IInv
  <1>a. accepted' = accepted /\ count' = count
    BY ONLY <1>u
  <1> DEFINE Same == UNCHANGED <<ctask, before, shutting_down>>
  <1>1. CASE CreateWorker
    <2>1. Same /\ cpc' = cpc
      BY <1>1 DEF CreateWorker, poolVars
    <2>2. TypeOK'
      <3>1. life' \in {"creating", "up", "unwinding", "closing", "freed", "failed"}
        BY ONLY <1>1, <1>t DEF CreateWorker
      <3> QED BY ONLY <1>t, <1>u, <2>1, <3>1, Zenon DEF TypeOK
    <2>3. RequestsFresh' /\ BeforeAccepted'
      BY ONLY <1>i, <1>a, <2>1, Zenon DEF RequestsFresh, BeforeAccepted
    <2>4. ExitsAfterDrain'
      <3>1. PICK w \in Workers : wpc' = [wpc EXCEPT ![w] = "loop"]
        BY ONLY <1>1, Zenon DEF CreateWorker
      <3>2. life' = "creating" \/ (life' = "up" /\ \A v \in Workers : wpc'[v] # "absent")
        BY ONLY <1>1 DEF CreateWorker
      <3>3. \A v \in Workers : wpc'[v] = "exited" => wpc[v] = "exited"
        BY ONLY <3>1, <1>u
      <3> QED BY ONLY <1>i, <1>a, <2>1, <3>2, <3>3 DEF ExitsAfterDrain
    <2> QED BY <2>2, <2>3, <2>4
  <1>2. CASE CreateOutOfMemory \/ JoinAndFree \/ UNCHANGED vars
    <2>1. Same /\ cpc' = cpc /\ wpc' = wpc
      BY <1>2 DEF CreateOutOfMemory, JoinAndFree, poolVars, vars
    <2>2. TypeOK'
      <3>1. life' \in {"creating", "up", "unwinding", "closing", "freed", "failed"}
        BY ONLY <1>2, <1>t DEF CreateOutOfMemory, JoinAndFree, vars
      <3> QED BY ONLY <1>t, <1>u, <2>1, <3>1, Zenon DEF TypeOK
    <2>3. RequestsFresh' /\ BeforeAccepted'
      BY ONLY <1>i, <1>a, <2>1, Zenon DEF RequestsFresh, BeforeAccepted
    <2>4. ExitsAfterDrain'
      BY ONLY <1>i, <1>a, <2>1, <1>2 DEF CreateOutOfMemory, JoinAndFree, vars, ExitsAfterDrain
    <2> QED BY <2>2, <2>3, <2>4
  <1>3. CASE CreateFails \/ DestroyBegin
    <2>1. /\ UNCHANGED <<ctask, before, cpc>> /\ shutting_down' = TRUE
          /\ wpc' = Broadcast(wpc, "not_empty_wait", "loop")
          /\ (life = "creating" /\ life' = "unwinding") \/ (life = "up" /\ life' = "closing")
      BY <1>3 DEF CreateFails, DestroyBegin
    <2>2. TypeOK'
      <3>1. /\ life' \in {"creating", "up", "unwinding", "closing", "freed", "failed"}
            /\ shutting_down' \in BOOLEAN
        BY ONLY <2>1
      <3> QED BY ONLY <1>t, <1>u, <2>1, <3>1, Zenon DEF TypeOK
    <2>3. RequestsFresh' /\ BeforeAccepted'
      BY ONLY <1>i, <1>a, <2>1, Zenon DEF RequestsFresh, BeforeAccepted
    <2>4. \A w \in Workers : wpc'[w] = wpc[w] \/ (wpc[w] = "not_empty_wait" /\ wpc'[w] = "loop")
      BY <1>u, <2>1 DEF Broadcast
    <2>5. ExitsAfterDrain'
      BY ONLY <1>i, <1>a, <2>1, <2>4 DEF ExitsAfterDrain
    <2> QED BY <2>2, <2>3, <2>5
  <1>4. ASSUME NEW w \in Workers, WorkerWait(w) \/ WorkerExit(w)
        PROVE  TypeOK' /\ RequestsFresh' /\ ExitsAfterDrain' /\ BeforeAccepted'
    <2>1. Same /\ cpc' = cpc /\ life' = life
      BY <1>4 DEF WorkerWait, WorkerExit, poolVars
    <2>2. TypeOK'
      BY ONLY <1>t, <1>u, <2>1, Zenon DEF TypeOK
    <2>3. RequestsFresh' /\ BeforeAccepted'
      BY ONLY <1>i, <1>a, <2>1, Zenon DEF RequestsFresh, BeforeAccepted
    <2>4. ExitsAfterDrain'
      BY ONLY <1>i, <1>a, <1>u, <2>1, <1>4 DEF WorkerWait, WorkerExit, ExitsAfterDrain
    <2> QED BY <2>2, <2>3, <2>4
  <1>5. ASSUME NEW c \in Clients, EnqueueRefused(c) \/ EnqueueWait(c) \/ WaitBlocks(c)
        PROVE  TypeOK' /\ RequestsFresh' /\ ExitsAfterDrain' /\ BeforeAccepted'
    <2>1. UNCHANGED <<wpc, life, before, shutting_down>>
      BY <1>5 DEF EnqueueRefused, EnqueueWait, WaitBlocks, poolVars
    <2>2. TypeOK'
      <3>1. ctask' \in [Clients -> Tasks \cup {NoTask}]
        BY ONLY <1>5, <1>t DEF EnqueueRefused, EnqueueWait, WaitBlocks
      <3> QED BY ONLY <1>t, <1>u, <2>1, <3>1, Zenon DEF TypeOK
    <2>3. RequestsFresh'
      <3>1. RequestsFresh /\ accepted' = accepted
            /\ cpc \in [Clients -> ClientLocations] /\ ctask \in [Clients -> Tasks \cup {NoTask}]
        BY <1>u DEF IInv, TypeOK
      <3>2. CASE EnqueueRefused(c)
        BY ONLY <3>1, <3>2, Zenon DEF EnqueueRefused, RequestsFresh
      <3>3. CASE EnqueueWait(c)
        BY ONLY <3>1, <3>3, Zenon DEF EnqueueWait, RequestsFresh
      <3>4. CASE WaitBlocks(c)
        BY ONLY <3>1, <3>4, Zenon DEF WaitBlocks, RequestsFresh
      <3> QED BY ONLY <1>5, <3>2, <3>3, <3>4
    <2>4. ExitsAfterDrain' /\ BeforeAccepted'
      BY ONLY <1>i, <1>a, <2>1, Zenon DEF ExitsAfterDrain, BeforeAccepted
    <2> QED BY <2>2, <2>3, <2>4
  <1>6. ASSUME NEW c \in Clients, Wait(c) \/ WaitReturns(c)
        PROVE  TypeOK' /\ RequestsFresh' /\ ExitsAfterDrain' /\ BeforeAccepted'
    <2>1. /\ UNCHANGED <<wpc, life, ctask, shutting_down>>
          /\ \/ before' = [before EXCEPT ![c] = Elements(accepted)]
             \/ before' = [before EXCEPT ![c] = {}]
      BY <1>6 DEF Wait, WaitReturns, poolVars
    <2>2. Elements(accepted) \subseteq Tasks /\ \A t \in Elements(accepted) : \E i \in 1..Len(accepted) : accepted[i] = t
      <3>1. accepted \in Seq(Tasks)
        BY <1>u
      <3> QED BY ONLY <3>1 DEF Elements
    <2>3. TypeOK'
      <3>1. before' \in [Clients -> SUBSET Tasks]
        BY ONLY <2>1, <2>2, <1>t
      <3> QED BY ONLY <1>t, <1>u, <2>1, <3>1, Zenon DEF TypeOK
    <2>4. RequestsFresh'
      <3>1. \A d \in Clients : cpc'[d] = cpc[d] \/ cpc'[d] = "wait" \/ cpc'[d] = "ready"
        BY ONLY <1>6, <1>u DEF Wait, WaitReturns
      <3> QED BY ONLY <1>i, <1>a, <2>1, <3>1 DEF RequestsFresh
    <2>5. ExitsAfterDrain'
      BY ONLY <1>i, <1>a, <2>1, Zenon DEF ExitsAfterDrain
    <2>6. BeforeAccepted'
      BY ONLY <1>i, <1>t, <1>a, <2>1, <2>2, Zenon DEF BeforeAccepted
    <2> QED BY <2>3, <2>4, <2>5, <2>6
  <1>7. ASSUME NEW c \in Clients, NEW t \in Tasks, Submit(c, t)
        PROVE  TypeOK' /\ RequestsFresh' /\ ExitsAfterDrain' /\ BeforeAccepted'
    <2>1. UNCHANGED <<wpc, life, before, shutting_down>> /\ ctask' = [ctask EXCEPT ![c] = t]
      BY ONLY <1>7 DEF Submit, poolVars
    <2>2. TypeOK'
      <3>1. ctask' \in [Clients -> Tasks \cup {NoTask}]
        BY ONLY <2>1, <1>t, t \in Tasks
      <3> QED BY ONLY <1>t, <1>u, <2>1, <3>1, Zenon DEF TypeOK
    <2>3. /\ \A i \in 1..Len(accepted) : accepted[i] # t
          /\ \A d \in Clients : ctask[d] # t
      <3>1. accepted \in Seq(Tasks)
        BY <1>u
      <3>2. t \notin Elements(accepted) /\ \A d \in Clients : ctask[d] # t
        BY ONLY <1>7 DEF Submit
      <3> QED BY ONLY <3>1, <3>2 DEF Elements
    <2>4. RequestsFresh'
      <3>1. /\ ctask \in [Clients -> Tasks \cup {NoTask}] /\ RequestsFresh
            /\ t # NoTask /\ accepted' = accepted
        <4>1. ctask \in [Clients -> Tasks \cup {NoTask}]
          BY DEF IInv, TypeOK
        <4>2. t # NoTask
          BY ONLY PoolAssumption, t \in Tasks
        <4> QED BY ONLY <4>1, <4>2, <1>i, <1>a
      <3>2. \A d \in Clients : cpc'[d] = cpc[d] \/ d = c
        BY <1>u, <1>7, Zenon DEF Submit, IInv, TypeOK
      <3> QED BY <2>1, <2>3, <3>1, <3>2 DEF RequestsFresh
    <2>5. ExitsAfterDrain' /\ BeforeAccepted'
      BY ONLY <1>i, <1>a, <2>1, Zenon DEF ExitsAfterDrain, BeforeAccepted
    <2> QED BY <2>2, <2>4, <2>5
  <1>8. CASE SpuriousWakeup
    <2>1. Same /\ life' = life
      BY <1>8 DEF SpuriousWakeup, poolVars
    <2>2. TypeOK'
      BY ONLY <1>t, <1>u, <2>1, Zenon DEF TypeOK
    <2>3. /\ \A c \in Clients : cpc'[c] = cpc[c] \/ (cpc[c] = "not_full_wait" /\ cpc'[c] = "submit")
                                 \/ (cpc[c] = "idle_wait" /\ cpc'[c] = "wait")
          /\ \A w \in Workers : wpc'[w] = wpc[w] \/ (wpc[w] = "not_empty_wait" /\ wpc'[w] = "loop")
      BY <1>u, <1>8 DEF SpuriousWakeup, Signalled
    <2>4. RequestsFresh'
      BY ONLY <1>i, <1>a, <2>1, <2>3, Zenon DEF RequestsFresh
    <2>5. ExitsAfterDrain'
      BY ONLY <1>i, <1>a, <2>1, <2>3 DEF ExitsAfterDrain
    <2>6. BeforeAccepted'
      BY ONLY <1>i, <1>a, <2>1, Zenon DEF BeforeAccepted
    <2> QED BY <2>2, <2>4, <2>5, <2>6
  <1> QED BY <1>1, <1>2, <1>3, <1>4, <1>5, <1>6, <1>7, <1>8 DEF QuietStep

-----------------------------------------------------------------------------
\* IInv is an invariant of the pool, whatever the number of workers, clients
\* and tasks and the capacity of the ring.
THEOREM Inductive == Spec => []IInv
  <1>1. Init => IInv
    BY InitInv
  <1>2. IInv /\ [Next]_vars => IInv'
    <2> SUFFICES ASSUME IInv, [Next]_vars PROVE IInv'
      OBVIOUS
    <2>1. CASE QuietStep
      BY <2>1, QuietStepIsQuiet, QuietKeeps, QuietKeepsControl DEF IInv
    <2>2. ASSUME NEW w \in Workers, WorkerDequeue(w) \/ WorkerRun(w) \/ WorkerFinish(w)
          PROVE  IInv'
      BY <2>2, DequeueKeeps, RunKeeps, FinishKeeps
    <2>3. CASE \/ \E c \in Clients : EnqueueStore(c)
               \/ \E c \in Clients, t \in Tasks : TrySubmit(c, t)
      BY <2>3, EnqueueKeeps
    <2> QED BY <2>1, <2>2, <2>3, StepCases
  <1> QED BY <1>1, <1>2, PTL DEF Spec

\* The pool's fields stay in range: head and count within the ring, every
\* thread at a location of its code.
THEOREM TypeCorrect == Spec => []TypeOK
  BY Inductive, PTL DEF IInv

\* Every task that submit or try_submit accepts is dequeued once, in the order
\* of acceptance.
THEOREM FifoCorrect == Spec => []Fifo
  <1>1. IInv => Fifo
    <2> SUFFICES ASSUME IInv PROVE Fifo
      OBVIOUS
    <2>1. /\ accepted \in Seq(Tasks) /\ started \in Seq(Tasks) /\ count \in Nat
          /\ Len(accepted) = Len(started) + count
          /\ Len(accepted) \in Nat /\ Len(started) \in Nat
          /\ DOMAIN accepted = 1..Len(accepted)
      <3>1. accepted \in Seq(Tasks) /\ started \in Seq(Tasks)
        BY DEF IInv, TypeOK
      <3>2. count \in Nat
        BY PoolAssumption DEF IInv, TypeOK
      <3>3. Len(accepted) = Len(started) + count
        BY DEF IInv, RingMatches
      <3>4. /\ Len(accepted) \in Nat /\ Len(started) \in Nat
            /\ DOMAIN accepted = 1..Len(accepted)
        BY ONLY <3>1
      <3> QED BY ONLY <3>1, <3>2, <3>3, <3>4
    <2>2. ASSUME NEW i \in 1..count
          PROVE  Ring[i] = accepted[Len(started) + i] /\ Ring[i] \in Tasks
      <3>1. Ring[i] = accepted[Len(started) + i]
        BY DEF Ring, IInv, RingMatches
      <3>2. Len(started) + i \in 1..Len(accepted)
        BY <2>1
      <3> QED BY <3>1, <3>2, <2>1
    <2>3. Ring \in Seq(Tasks) /\ Len(Ring) = count
      <3>1. DOMAIN Ring = 1..count
        BY DEF Ring
      <3> HIDE DEF Ring
      <3>2. Ring \in [1..count -> Tasks]
        <4>1. Ring = [i \in 1..count |-> Ring[i]]
          BY DEF Ring
        <4> QED BY <4>1, <2>2
      <3> QED BY <3>2, <2>1
    <2>4. /\ started \o Ring \in Seq(Tasks) /\ Len(started \o Ring) = Len(started) + count
          /\ \A i \in 1..Len(started) + count :
                (started \o Ring)[i] = IF i <= Len(started) THEN started[i] ELSE Ring[i - Len(started)]
      BY <2>1, <2>3, ConcatProperties, Zenon
    <2>5. ASSUME NEW i \in 1..Len(accepted) PROVE accepted[i] = (started \o Ring)[i]
      <3>1. CASE i <= Len(started)
        <4>1. i \in 1..Len(started)
          BY <3>1, <2>1
        <4>2. accepted[i] = started[i]
          BY <4>1 DEF IInv, RingMatches
        <4> QED BY <4>2, <3>1, <2>1, <2>4
      <3>2. CASE ~(i <= Len(started))
        <4>1. i - Len(started) \in 1..count /\ Len(started) + (i - Len(started)) = i
          BY <3>2, <2>1
        <4>2. Ring[i - Len(started)] = accepted[i]
          BY <4>1, <2>2
        <4> QED BY <4>2, <3>2, <2>1, <2>4
      <3> QED BY <3>1, <3>2, Zenon
    <2>6. accepted = started \o Ring
      BY <2>1, <2>4, <2>5, SeqEqual, Zenon
    <2> QED BY <2>1, <2>6 DEF Fifo, IInv, NoRepetition
  <1> QED BY <1>1, Inductive, PTL

\* `pending` and `completed` agree with what is queued and what workers hold.
THEOREM AccountingCorrect == Spec => []Accounting
  BY Inductive, PTL DEF IInv

\* A freed pool has run every task it accepted.
THEOREM DrainCorrect == Spec => []DrainedBeforeFree
  <1>1. IInv => DrainedBeforeFree
    <2> SUFFICES ASSUME IInv, life = "freed" PROVE Elements(accepted) = finished
      BY DEF DrainedBeforeFree
    <2>1. \A w \in Workers : wpc[w] = "exited"
      BY DEF IInv, ExitsAfterDrain
    <2>2. count = 0
      BY <2>1, PoolAssumption DEF IInv, ExitsAfterDrain
    <2>3. /\ DOMAIN accepted = 1..Len(started)
          /\ \A i \in 1..Len(started) : accepted[i] = started[i]
      <3>1. accepted \in Seq(Tasks) /\ started \in Seq(Tasks)
        BY DEF IInv, TypeOK
      <3>2. /\ Len(accepted) = Len(started) + count
            /\ \A i \in 1..Len(started) : accepted[i] = started[i]
        BY DEF IInv, RingMatches
      <3>a. Len(started) \in Nat
        BY ONLY <3>1
      <3>3. Len(accepted) = Len(started)
        BY ONLY <3>2, <3>a, <2>2
      <3>4. \A i \in 1..Len(started) : accepted[i] = started[i]
        BY ONLY <3>2
      <3> QED BY ONLY <3>1, <3>3, <3>4
    <2>4. \A i \in 1..Len(started) : started[i] \in finished
      BY <2>1 DEF IInv, StartedSettled
    <2>5. \A t \in finished : \E i \in 1..Len(started) : started[i] = t
      BY DEF IInv, StartedSettled
    <2> QED BY <2>3, <2>4, <2>5 DEF Elements
  <1> QED BY <1>1, Inductive, PTL

\* hbi_threadpool_wait returns only after every task accepted before the call.
THEOREM WaitCorrect == Spec => WaitSeesAllDone
  <1>1. IInv /\ [Next]_vars =>
           [\A c \in Clients : cpc[c] = "wait" /\ cpc'[c] = "ready" => before[c] \subseteq finished]_vars
    <2> SUFFICES ASSUME IInv, [Next]_vars, NEW c \in Clients, cpc[c] = "wait", cpc'[c] = "ready"
                 PROVE  before[c] \subseteq finished
      OBVIOUS
    <2>0. cpc \in [Clients -> ClientLocations]
      BY Zenon DEF IInv, TypeOK
    <2>1. pending = 0
      <3>1. CASE CreateWorker \/ CreateOutOfMemory \/ CreateFails \/ DestroyBegin \/ JoinAndFree \/ UNCHANGED vars
        BY <3>1 DEF CreateWorker, CreateOutOfMemory, CreateFails, DestroyBegin, JoinAndFree, vars
      <3>2. CASE SpuriousWakeup
        BY <3>2, <2>0 DEF SpuriousWakeup, Signalled
      <3>3. ASSUME NEW w \in Workers, Worker(w) PROVE FALSE
        BY <3>3, <2>0 DEF Worker, WorkerWait, WorkerExit, WorkerDequeue, WorkerRun, WorkerFinish,
                          Signalled, Broadcast
      <3>4. ASSUME NEW d \in Clients, EnqueueRefused(d) \/ EnqueueWait(d) \/ EnqueueStore(d)
                                       \/ WaitBlocks(d) \/ Wait(d)
            PROVE  FALSE
        BY <3>4, <2>0 DEF EnqueueRefused, EnqueueWait, EnqueueStore, WaitBlocks, Wait
      <3>5. ASSUME NEW d \in Clients, NEW t \in Tasks, Submit(d, t) \/ TrySubmit(d, t)
            PROVE  FALSE
        BY <3>5, <2>0 DEF Submit, TrySubmit
      <3>6. ASSUME NEW d \in Clients, WaitReturns(d) PROVE pending = 0
        BY <3>6 DEF WaitReturns
      <3> QED BY <3>1, <3>2, <3>3, <3>4, <3>5, <3>6 DEF Next, Client, Terminated
    <2>2. count = 0 /\ Cardinality(Busy) = 0
      <3>0. pending = count + Cardinality(Busy)
        BY DEF IInv, Accounting
      <3>a. count \in 0..Capacity /\ Capacity \in Nat
        BY PoolAssumption DEF IInv, TypeOK
      <3>1. pending = count + Cardinality(Busy) /\ count \in Nat
        BY ONLY <3>0, <3>a
      <3> QED BY <3>1, <2>1, WorkerSetsFinite
    <2>3. Busy = {}
      BY <2>2, WorkerSetsFinite, FS_EmptySet
    <2>4. \A w \in Workers : wpc[w] # "run"
      BY <2>3 DEF Busy
    <2>5. \A i \in 1..Len(accepted) : accepted[i] \in finished
      <3>1. RingMatches /\ StartedSettled /\ started \in Seq(Tasks)
        BY DEF IInv, TypeOK
      <3>2. Len(accepted) = Len(started)
        <4>1. Len(accepted) = Len(started) + count
          BY DEF IInv, RingMatches
        <4>2. Len(started) \in Nat
          BY ONLY <3>1
        <4> QED BY ONLY <4>1, <4>2, <2>2
      <3>3. \A i \in 1..Len(started) : accepted[i] = started[i]
        BY ONLY <3>1 DEF RingMatches
      <3>4. \A i \in 1..Len(started) : started[i] \in finished
        BY ONLY <3>1, <2>4 DEF StartedSettled
      <3> QED BY ONLY <3>2, <3>3, <3>4
    <2> QED BY <2>5 DEF IInv, BeforeAccepted
  <1> QED BY <1>1, Inductive, PTL DEF Spec, WaitSeesAllDone
=============================================================================
