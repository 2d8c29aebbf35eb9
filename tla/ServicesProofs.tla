--------------------------- MODULE ServicesProofs ---------------------------
(***************************************************************************)
(* Proofs about the services the engine stands on, one component at a      *)
(* time: events and the kernel registry.  A theorem is about the           *)
(* behaviours of one component, whose variables it takes from those below  *)
(* by their names.                                                         *)
(***************************************************************************)
EXTENDS Naturals, FiniteSetTheorems, SequencesExt, TLAPS

CONSTANTS Threads, NoThread,
          Dtypes, Flags, MaxKernels, Graphs

VARIABLES life, is_set, owner, pc, op, saw,
          kernels, dispatched, executor, status, cleared

Evt == INSTANCE Event
Ker == INSTANCE Kernel

-----------------------------------------------------------------------------
(* Event, for any number of threads.  Neither property is inductive: that  *)
(* the sleepers are woken rests on the flag changing only under the mutex, *)
(* so the invariant says who holds it, that a thread before its broadcast  *)
(* left the flag set, and what a thread in wait saw.                       *)

ThreadsAssumption == NoThread \notin Threads

EventHolding == {"body", "broadcast", "unlock"}
EventLocations == EventHolding \cup {"idle", "lock", "asleep", "relock"}

EventTyped ==
    /\ life \in {"none", "mutex", "up"}
    /\ is_set \in BOOLEAN
    /\ owner \in Threads \cup {NoThread}
    /\ pc \in [Threads -> EventLocations]
    /\ op \in [Threads -> Evt!Operations]
    /\ saw \in [Threads -> BOOLEAN]

\* The mutex is held by the one thread inside a critical section.
MutexExact == \A t \in Threads : pc[t] \in EventHolding <=> owner = t

BroadcastAfterSet == \A t \in Threads : pc[t] = "broadcast" => is_set /\ op[t] = "set"

\* Only a thread in hbi_event_wait is ever asleep.
SleepersWait == \A t \in Threads : pc[t] \in {"asleep", "relock"} => op[t] = "wait"

EventIInv == EventTyped /\ MutexExact /\ BroadcastAfterSet /\ SleepersWait /\ Evt!NoLostWakeup /\ Evt!WaitSawSet

-----------------------------------------------------------------------------
LEMMA EventInit == ThreadsAssumption /\ Evt!Init => EventIInv
BY DEF ThreadsAssumption, Evt!Init, EventIInv, EventTyped, MutexExact, BroadcastAfterSet, SleepersWait,
       Evt!NoLostWakeup, Evt!WaitSawSet, EventHolding, EventLocations, Evt!Operations

LEMMA EventStep == ThreadsAssumption /\ EventIInv /\ [Evt!Next]_(Evt!vars) => EventIInv'
<1> SUFFICES ASSUME ThreadsAssumption, EventIInv, [Evt!Next]_(Evt!vars) PROVE EventIInv'
    OBVIOUS
<1> USE DEF ThreadsAssumption, EventIInv, EventTyped, MutexExact, BroadcastAfterSet, SleepersWait,
            Evt!NoLostWakeup, Evt!WaitSawSet, EventHolding, EventLocations, Evt!Operations
<1>1. CASE Evt!InitMutex \/ Evt!InitCond
    BY <1>1 DEF Evt!InitMutex, Evt!InitCond
<1>2. CASE Evt!Destroy
    BY <1>2 DEF Evt!Destroy
<1>3. ASSUME NEW t \in Threads, NEW o \in Evt!Operations, Evt!Call(t, o)
      PROVE  EventIInv'
    BY <1>3 DEF Evt!Call
<1>4. ASSUME NEW t \in Threads, Evt!Lock(t)
      PROVE  EventIInv'
    BY <1>4 DEF Evt!Lock
<1>5. ASSUME NEW t \in Threads, Evt!Set(t)
      PROVE  EventIInv'
    BY <1>5 DEF Evt!Set
<1>6. ASSUME NEW t \in Threads, Evt!Broadcast(t)
      PROVE  EventIInv'
    BY <1>6 DEF Evt!Broadcast
<1>7. ASSUME NEW t \in Threads, Evt!Reset(t)
      PROVE  EventIInv'
    BY <1>7 DEF Evt!Reset
<1>8. ASSUME NEW t \in Threads, Evt!IsSet(t)
      PROVE  EventIInv'
    BY <1>8 DEF Evt!IsSet
<1>9. ASSUME NEW t \in Threads, Evt!Wait(t)
      PROVE  EventIInv'
    BY <1>9 DEF Evt!Wait
<1>10. ASSUME NEW t \in Threads, Evt!SpuriousWakeup(t)
       PROVE  EventIInv'
    BY <1>10 DEF Evt!SpuriousWakeup
<1>11. ASSUME NEW t \in Threads, Evt!Unlock(t)
       PROVE  EventIInv'
    BY <1>11 DEF Evt!Unlock
<1>12. CASE UNCHANGED Evt!vars
    BY <1>12 DEF Evt!vars
<1> QED
    BY <1>1, <1>2, <1>3, <1>4, <1>5, <1>6, <1>7, <1>8, <1>9, <1>10, <1>11, <1>12 DEF Evt!Next

(* No wake-up is lost, for any number of threads: hbi_event_wait tests the *)
(* flag and goes to sleep under the mutex under which hbi_event_set stores *)
(* it and broadcasts.                                                      *)
THEOREM WakeupsArrive ==
    ASSUME ThreadsAssumption
    PROVE  Evt!Spec => []Evt!NoLostWakeup
<1>1. Evt!Init => EventIInv
    BY EventInit
<1>2. EventIInv /\ [Evt!Next]_(Evt!vars) => EventIInv'
    BY EventStep
<1>3. EventIInv => Evt!NoLostWakeup
    BY DEF EventIInv
<1> QED
    BY <1>1, <1>2, <1>3, PTL DEF Evt!Spec

(* A wait that returns saw the event set, for any number of threads.       *)
THEOREM WaitsSee ==
    ASSUME ThreadsAssumption
    PROVE  Evt!Spec => []Evt!WaitSawSet
<1>1. Evt!Init => EventIInv
    BY EventInit
<1>2. EventIInv /\ [Evt!Next]_(Evt!vars) => EventIInv'
    BY EventStep
<1>3. EventIInv => Evt!WaitSawSet
    BY DEF EventIInv
<1> QED
    BY <1>1, <1>2, <1>3, PTL DEF Evt!Spec

(* Both together: what hbi_event_wait and hbi_event_set promise each other. *)
THEOREM WaitsAndSetsMeet ==
    ASSUME ThreadsAssumption
    PROVE  Evt!Spec => []Evt!WaitsMeetSets
<1>1. Evt!NoLostWakeup /\ Evt!WaitSawSet => Evt!WaitsMeetSets
    BY DEF Evt!WaitsMeetSets
<1> QED
    BY <1>1, WakeupsArrive, WaitsSee, PTL

-----------------------------------------------------------------------------
(* Kernel, for any types, layouts, graphs and registry size.  The registry *)
(* never holds two kernels with the same flags and a common type; an       *)
(* executor with nodes has set the flag that freezes it, unless it was     *)
(* cleared since.                                                          *)

KernelTyped ==
    /\ kernels \in Seq(Ker!Kernels)
    /\ dispatched \in BOOLEAN /\ cleared \in BOOLEAN
    /\ executor = Ker!NoExecutor => ~cleared

Separate ==
    \A i, j \in DOMAIN kernels :
        /\ kernels[i].layout = kernels[j].layout
        /\ kernels[i].dtypes \intersect kernels[j].dtypes # {}
        => i = j

\* The executor's kernels answer its nodes' keys; while the registry is the
\* one they were resolved in, it is frozen and still gives them.
Frozen ==
    \A n \in DOMAIN executor.graph :
        /\ Ker!Serves(executor.node_kernels[n], executor.graph[n], {})
        /\ ~cleared => dispatched /\ Ker!Resolved(executor.graph[n], {}) = executor.node_kernels[n]

KernelIInv == KernelTyped /\ Separate /\ Frozen

-----------------------------------------------------------------------------
LEMMA NoExecutorHasNoNodes ==
    ASSUME executor = Ker!NoExecutor
    PROVE  DOMAIN executor.graph = {}
BY DEF Ker!NoExecutor

LEMMA KernelInit == Ker!Init => KernelIInv
<1> SUFFICES ASSUME Ker!Init PROVE KernelIInv
    OBVIOUS
<1>1. KernelTyped
  <2>1. kernels \in Seq(Ker!Kernels)
    BY DEF Ker!Init
  <2> QED
    BY <2>1, Zenon DEF Ker!Init, KernelTyped
<1>2. Separate
    BY DEF Ker!Init, Separate
<1>3. Frozen
    BY NoExecutorHasNoNodes DEF Ker!Init, Frozen
<1> QED
    BY <1>1, <1>2, <1>3 DEF KernelIInv

\* At most one kernel answers a key without flags.
LEMMA OneMatch ==
    ASSUME Separate, NEW d
    PROVE  \A i, j \in Ker!Matching(d, {}) : i = j
<1>1. \A i \in Ker!Matching(d, {}) : i \in DOMAIN kernels /\ d \in kernels[i].dtypes /\ kernels[i].layout = {}
    BY DEF Ker!Matching, Ker!Serves
<1> QED
    BY <1>1 DEF Separate

\* So what a key resolves to serves it.
LEMMA ResolvedServes ==
    ASSUME KernelTyped, Separate, NEW d, Ker!Resolved(d, {}) # Ker!None
    PROVE  Ker!Serves(Ker!Resolved(d, {}), d, {})
<1>1. Ker!Matching(d, {}) # {}
    BY DEF Ker!Resolved
<1>2. PICK i \in Ker!Matching(d, {}) : Ker!Matching(d, {}) = {i}
    BY <1>1, OneMatch
<1>3. i \in Nat
    BY <1>2 DEF Ker!Matching, KernelTyped
<1>4. Ker!Min({i}) = i
    BY ONLY <1>3 DEF Ker!Min
<1>5. Ker!Resolved(d, {}) = kernels[i]
    BY <1>1, <1>2, <1>4 DEF Ker!Resolved
<1> QED
    BY <1>2, <1>5 DEF Ker!Matching

\* A step that leaves registry, executor and flags, or sets dispatched.
LEMMA FrozenKept ==
    ASSUME Frozen, UNCHANGED <<kernels, executor, cleared>>, dispatched => dispatched'
    PROVE  Frozen'
<1>1. \A d : Ker!Resolved(d, {})' = Ker!Resolved(d, {})
    BY Zenon DEF Ker!Resolved, Ker!Matching, Ker!Serves
<1>2. \A k, d : Ker!Serves(k, d, {})' <=> Ker!Serves(k, d, {})
    BY Zenon DEF Ker!Serves
<1> QED
    BY <1>1, <1>2 DEF Frozen

LEMMA RegisterInv ==
    ASSUME KernelIInv, NEW k \in Ker!Kernels, Ker!Register(k)
    PROVE  KernelIInv'
<1>0. UNCHANGED <<dispatched, executor, cleared>>
    BY DEF Ker!Register
<1>1. CASE kernels' = kernels
  <2>1. KernelTyped' /\ Separate'
    BY <1>0, <1>1, Zenon DEF KernelIInv, KernelTyped, Separate
  <2>2. Frozen'
    BY <1>0, <1>1, FrozenKept DEF KernelIInv
  <2> QED
    BY <2>1, <2>2 DEF KernelIInv
<1>2. CASE ~dispatched /\ ~Ker!Collides(k) /\ kernels' = Append(kernels, k)
  <2>1. kernels \in Seq(Ker!Kernels)
    BY DEF KernelIInv, KernelTyped
  <2>2. /\ kernels' \in Seq(Ker!Kernels)
        /\ \A i \in DOMAIN kernels' : \/ i \in DOMAIN kernels /\ kernels'[i] = kernels[i]
                                      \/ i = Len(kernels) + 1 /\ kernels'[i] = k
    BY ONLY <2>1, <1>2, k \in Ker!Kernels
  <2>3. KernelTyped'
    BY ONLY <1>0, <2>2, KernelIInv, Zenon DEF KernelIInv, KernelTyped
  <2>4. Separate'
    BY ONLY <1>2, <2>2, KernelIInv DEF KernelIInv, Separate, Ker!Collides
  <2>5. Frozen'
    BY <1>0, <1>2 DEF KernelIInv, Frozen, Ker!Serves
  <2> QED
    BY <2>3, <2>4, <2>5 DEF KernelIInv
<1> QED
    BY <1>1, <1>2 DEF Ker!Register

LEMMA ClearInv ==
    ASSUME KernelIInv, Ker!Clear
    PROVE  KernelIInv'
<1>1. KernelTyped'
  <2>1. kernels' \in Seq(Ker!Kernels)
    BY DEF Ker!Clear
  <2>2. dispatched' \in BOOLEAN /\ cleared' \in BOOLEAN /\ (executor' = Ker!NoExecutor => ~cleared')
    BY Zenon DEF Ker!Clear
  <2> QED
    BY <2>1, <2>2, Zenon DEF KernelTyped
<1>2. Separate'
    BY DEF Ker!Clear, Separate
<1>3. Frozen'
  <2>1. CASE executor = Ker!NoExecutor
    BY <2>1, NoExecutorHasNoNodes DEF Ker!Clear, Frozen
  <2>2. CASE executor # Ker!NoExecutor
    BY <2>2 DEF KernelIInv, Ker!Clear, Frozen, Ker!Serves
  <2> QED
    BY <2>1, <2>2
<1> QED
    BY <1>1, <1>2, <1>3 DEF KernelIInv

LEMMA DispatchInv ==
    ASSUME KernelIInv, NEW d \in Dtypes, Ker!Dispatch(d)
    PROVE  KernelIInv'
<1>1. UNCHANGED <<kernels, executor, cleared>> /\ dispatched' = TRUE
    BY DEF Ker!Dispatch
<1>2. KernelTyped' /\ Separate'
    BY <1>1 DEF KernelIInv, KernelTyped, Separate
<1>3. Frozen'
    BY <1>1, FrozenKept DEF KernelIInv
<1> QED
    BY <1>2, <1>3 DEF KernelIInv

LEMMA CreateExecutorInv ==
    ASSUME KernelIInv, NEW g \in Graphs, Ker!CreateExecutor(g)
    PROVE  KernelIInv'
<1> DEFINE found == [n \in DOMAIN g |-> Ker!Resolved(g[n], {})]
<1>1. UNCHANGED <<kernels, cleared>> /\ executor = Ker!NoExecutor
      /\ dispatched' = (dispatched \/ g # <<>>)
    BY DEF Ker!CreateExecutor
<1>2. \/ executor' = executor
      \/ Ker!None \notin Ker!ToSet(found) /\ executor' = [graph |-> g, node_kernels |-> found]
    BY DEF Ker!CreateExecutor
<1>3. KernelTyped' /\ Separate'
  <2>1. dispatched' \in BOOLEAN
    BY ONLY <1>1, Zenon
  <2>2. cleared = FALSE
    BY <1>1 DEF KernelIInv, KernelTyped
  <2> QED
    BY <1>1, <2>1, <2>2, Zenon DEF KernelIInv, KernelTyped, Separate
<1>4. \A d : Ker!Resolved(d, {})' = Ker!Resolved(d, {})
    BY <1>1, Zenon DEF Ker!Resolved, Ker!Matching, Ker!Serves
<1>5. Frozen'
  <2>1. CASE executor' = executor
    BY <1>1, <2>1, NoExecutorHasNoNodes DEF Frozen
  <2>2. CASE Ker!None \notin Ker!ToSet(found) /\ executor' = [graph |-> g, node_kernels |-> found]
    <3>1. executor'.graph = g /\ executor'.node_kernels = found
      BY <2>2
    <3> SUFFICES ASSUME NEW n \in DOMAIN g
                 PROVE  /\ Ker!Serves(found[n], g[n], {})
                        /\ dispatched' /\ Ker!Resolved(g[n], {})' = found[n]
      BY <3>1, Zenon DEF Frozen, Ker!Serves
    <3>2. found[n] = Ker!Resolved(g[n], {}) /\ found[n] # Ker!None
      BY <2>2 DEF Ker!ToSet
    <3>3. Ker!Serves(found[n], g[n], {})
      BY <3>2, ResolvedServes DEF KernelIInv
    <3>4. dispatched'
      <4>1. g # <<>>
        OBVIOUS
      <4> QED
        BY <1>1, <4>1
    <3> QED
      BY <1>4, <3>2, <3>3, <3>4
  <2> QED
    BY <1>2, <2>1, <2>2
<1> QED
    BY <1>3, <1>5 DEF KernelIInv

LEMMA KernelStep == KernelIInv /\ [Ker!Next]_(Ker!vars) => KernelIInv'
<1> SUFFICES ASSUME KernelIInv, [Ker!Next]_(Ker!vars) PROVE KernelIInv'
    OBVIOUS
<1>1. CASE Ker!DestroyExecutor
  <2>1. KernelTyped' /\ Separate'
    BY <1>1 DEF KernelIInv, Ker!DestroyExecutor, KernelTyped, Separate
  <2>2. Frozen'
    BY <1>1 DEF Ker!DestroyExecutor, Ker!NoExecutor, Frozen
  <2> QED
    BY <2>1, <2>2 DEF KernelIInv
<1>2. CASE UNCHANGED Ker!vars
  <2>1. UNCHANGED <<kernels, dispatched, executor, cleared>>
    BY <1>2 DEF Ker!vars
  <2>2. KernelTyped' /\ Separate'
    BY <2>1, Zenon DEF KernelIInv, KernelTyped, Separate
  <2>3. Frozen'
    BY <2>1, FrozenKept DEF KernelIInv
  <2> QED
    BY <2>2, <2>3 DEF KernelIInv
<1> QED
    BY <1>1, <1>2, RegisterInv, ClearInv, DispatchInv, CreateExecutorInv DEF Ker!Next

LEMMA SeparateUnambiguous ==
    ASSUME Separate
    PROVE  Ker!DispatchUnambiguous
<1> SUFFICES ASSUME NEW d \in Dtypes PROVE Cardinality(Ker!Matching(d, {})) <= 1
  <2>1. \A S : Ker!Cardinality(S) = Cardinality(S)
    BY DEF Ker!Cardinality, Cardinality
  <2> QED
    BY <2>1 DEF Ker!DispatchUnambiguous
<1>1. CASE Ker!Matching(d, {}) = {}
    BY <1>1, FS_EmptySet
<1>2. CASE Ker!Matching(d, {}) # {}
  <2>1. PICK i : Ker!Matching(d, {}) = {i}
    BY <1>2, OneMatch
  <2> QED
    BY <2>1, FS_Singleton
<1> QED
    BY <1>1, <1>2

\* At most one registered kernel answers the keys that hbi_kernel_dispatch
\* and hbi_executor_create make, in whatever order kernels were registered.
THEOREM ResolutionUnambiguous == Ker!Spec => []Ker!DispatchUnambiguous
<1>1. KernelIInv => Ker!DispatchUnambiguous
    BY SeparateUnambiguous DEF KernelIInv
<1> QED
    BY <1>1, KernelInit, KernelStep, PTL DEF Ker!Spec

\* What hbi_executor_create resolved is what hbi_kernel_dispatch resolves
\* later, as long as the registry is not cleared.
THEOREM AheadOfTimeIsDispatch == Ker!Spec => []Ker!AheadOfTimeAgrees
<1>1. KernelIInv => Ker!AheadOfTimeAgrees
    BY Zenon DEF KernelIInv, Frozen, Ker!AheadOfTimeAgrees
<1> QED
    BY <1>1, KernelInit, KernelStep, PTL DEF Ker!Spec

\* Every kernel an executor holds takes its node's type and requires no
\* contiguity, also after the registry was cleared.
THEOREM ExecutorKernelsAreSound == Ker!Spec => []Ker!ExecutorKernelsServe
<1>1. KernelIInv => Ker!ExecutorKernelsServe
    BY DEF KernelIInv, Frozen, Ker!ExecutorKernelsServe, Ker!Serves
<1> QED
    BY <1>1, KernelInit, KernelStep, PTL DEF Ker!Spec

\* The three together: what a node is run with is what its type asks for.
THEOREM ResolutionIsSound == Ker!Spec => []Ker!ResolutionSound
<1>1. Ker!DispatchUnambiguous /\ Ker!AheadOfTimeAgrees /\ Ker!ExecutorKernelsServe => Ker!ResolutionSound
    BY DEF Ker!ResolutionSound
<1> QED
    BY <1>1, ResolutionUnambiguous, AheadOfTimeIsDispatch, ExecutorKernelsAreSound, PTL
=============================================================================
