------------------------------ MODULE KvManager ------------------------------
(***************************************************************************)
(* The context table and the statistics of src/kv/kv.c: a fixed array of   *)
(* context pointers with a count, from which contexts are removed by       *)
(* moving the last one into the hole, and manager_destroy, which walks     *)
(* the array while each step of the walk rearranges it.                    *)
(*                                                                         *)
(* Threads create, resize and destroy contexts concurrently, as            *)
(* test_concurrent_contexts of kv_test.c does; a section under the         *)
(* manager's mutex is one action.  total_allocations and total_frees,       *)
(* which only count calls, are left out.  What a context holds is the      *)
(* subject of KvContext.                                                   *)
(***************************************************************************)
EXTENDS Integers, FiniteSets, FiniteSetsExt

CONSTANTS
    Threads,
    Handles,          \* the addresses a context may have
    MaxContexts,      \* HBI_KV_MAX_CONTEXTS
    Sizes,            \* bytes of the K and V tensors of a context
    NoHandle          \* a slot never written, a thread without a context

KvAssumption ==
    /\ MaxContexts \in Nat \ {0}
    /\ Sizes \subseteq Nat
    /\ NoHandle \notin Handles

VARIABLES
    life,             \* "up", "destroying", "freed"; "overrun" after a write
                      \* past the end of the array
    contexts,         \* the array
    num_contexts,
    active, peak,     \* stats.active_contexts, stats.peak_contexts
    memory, peak_memory,
    live,             \* the contexts allocated and not freed
    bytes,            \* per context: the size of its tensors
    pc, held,         \* per thread: location, and the context in its call
    walk, count       \* manager_destroy: the loop index and its bound

tableVars == <<contexts, num_contexts, active, peak, memory, peak_memory>>
vars == <<life, tableVars, live, bytes, pc, held, walk, count>>

Slots == 0..MaxContexts-1

\* The contexts the table lists.
Listed == {contexts[i] : i \in 0..num_contexts-1}

AtLeast(x, y) == IF x > y THEN x ELSE y

-----------------------------------------------------------------------------
Init ==
    /\ life = "up"
    /\ contexts = [i \in Slots |-> NoHandle] /\ num_contexts = 0
    /\ active = 0 /\ peak = 0 /\ memory = 0 /\ peak_memory = 0
    /\ live = {} /\ bytes = [h \in Handles |-> 0]
    /\ pc = [t \in Threads |-> "ready"] /\ held = [t \in Threads |-> NoHandle]
    /\ walk = 0 /\ count = 0

\* context_create (also under clone): the limit is tested under the mutex,
\* which is then released for the allocations.  Its error returns, a full
\* table or a failed allocation, change nothing.
CreateCheck(t) ==
    /\ life = "up" /\ pc[t] = "ready"
    /\ num_contexts < MaxContexts
    /\ pc' = [pc EXCEPT ![t] = "allocate"]
    /\ UNCHANGED <<life, tableVars, live, bytes, held, walk, count>>

CreateAllocate(t) ==
    /\ pc[t] = "allocate"
    /\ \/ \E h \in Handles \ live, size \in Sizes :
            /\ live' = live \cup {h}
            /\ bytes' = [bytes EXCEPT ![h] = size]
            /\ held' = [held EXCEPT ![t] = h]
            /\ pc' = [pc EXCEPT ![t] = "register"]
       \/ /\ pc' = [pc EXCEPT ![t] = "ready"]
          /\ UNCHANGED <<live, bytes, held>>
    /\ UNCHANGED <<life, tableVars, walk, count>>

\* The mutex is taken again and the context is stored without a second test.
CreateRegister(t) ==
    /\ life = "up" /\ pc[t] = "register"
    /\ IF num_contexts < MaxContexts
       THEN /\ contexts' = [contexts EXCEPT ![num_contexts] = held[t]]
            /\ UNCHANGED life
       ELSE life' = "overrun" /\ UNCHANGED contexts
    /\ num_contexts' = num_contexts + 1
    /\ active' = active + 1
    /\ peak' = AtLeast(active', peak)
    /\ memory' = memory + bytes[held[t]]
    /\ peak_memory' = AtLeast(memory', peak_memory)
    /\ pc' = [pc EXCEPT ![t] = "ready"]
    /\ held' = [held EXCEPT ![t] = NoHandle]
    /\ UNCHANGED <<live, bytes, walk, count>>

\* Mutant: the entry is dropped from the end whatever slot it is in.
RemoveLast(h) ==
    /\ memory' = memory - bytes[h]
    /\ active' = active - 1
    /\ num_contexts' = num_contexts - 1
    /\ UNCHANGED <<contexts, peak, peak_memory>>

\* Mutant: the entries after the removed one move down.
RemoveShift(h) ==
    /\ memory' = memory - bytes[h]
    /\ active' = active - 1
    /\ \E i \in 0..num_contexts-1 :
          /\ contexts[i] = h
          /\ contexts' = [j \in Slots |-> IF j >= i /\ j < num_contexts - 1
                                         THEN contexts[j + 1] ELSE contexts[j]]
    /\ num_contexts' = num_contexts - 1
    /\ UNCHANGED <<peak, peak_memory>>

\* The locked part of context_destroy: statistics, then the first slot that
\* holds the context takes the last entry.
Remove(h) ==
    /\ memory' = memory - bytes[h]
    /\ active' = active - 1
    /\ LET hits == {i \in 0..num_contexts-1 : contexts[i] = h} IN
       IF hits = {}
       THEN UNCHANGED <<contexts, num_contexts>>
       ELSE \E i \in hits :
              /\ \A j \in hits : i <= j
              /\ contexts' = [contexts EXCEPT ![i] = contexts[num_contexts - 1]]
              /\ num_contexts' = num_contexts - 1
    /\ UNCHANGED <<peak, peak_memory>>

\* A caller destroys a context that is registered and in nobody's call.
DestroyRemove(t) ==
    /\ life = "up" /\ pc[t] = "ready"
    /\ \E h \in Listed :
          /\ Remove(h)
          /\ held' = [held EXCEPT ![t] = h]
    /\ pc' = [pc EXCEPT ![t] = "free"]
    /\ UNCHANGED <<life, live, bytes, walk, count>>

DestroyFree(t) ==
    /\ pc[t] = "free"
    /\ live' = live \ {held[t]}
    /\ held' = [held EXCEPT ![t] = NoHandle]
    /\ pc' = [pc EXCEPT ![t] = "ready"]
    /\ UNCHANGED <<life, tableVars, bytes, walk, count>>

\* Mutant: the old size stays in the statistics.
ResizeAdds(t) ==
    /\ life = "up" /\ pc[t] = "ready"
    /\ \E h \in Listed, size \in Sizes :
          /\ memory' = memory + size
          /\ bytes' = [bytes EXCEPT ![h] = size]
    /\ peak_memory' = AtLeast(memory', peak_memory)
    /\ UNCHANGED <<life, contexts, num_contexts, active, peak, live, pc, held, walk, count>>

\* context_resize that grows: reallocation, copy and statistics are one
\* critical section.  Shrinking, and a failed reallocation, change neither
\* the tensors nor the statistics.
Resize(t) ==
    /\ life = "up" /\ pc[t] = "ready"
    /\ \E h \in Listed, size \in Sizes :
          /\ memory' = memory - bytes[h] + size
          /\ bytes' = [bytes EXCEPT ![h] = size]
    /\ peak_memory' = AtLeast(memory', peak_memory)
    /\ UNCHANGED <<life, contexts, num_contexts, active, peak, live, pc, held, walk, count>>

\* manager_destroy, called by the owner when no other call is in progress.
DestroyBegin ==
    /\ life = "up" /\ \A t \in Threads : pc[t] = "ready"
    /\ life' = "destroying"
    /\ count' = num_contexts /\ walk' = 0
    /\ UNCHANGED <<tableVars, live, bytes, pc, held>>

\* One turn of its loop: context_destroy of whatever the slot holds now.
DestroyContext ==
    /\ life = "destroying" /\ walk < count
    /\ IF contexts[walk] = NoHandle
       THEN UNCHANGED <<tableVars, live>>
       ELSE Remove(contexts[walk]) /\ live' = live \ {contexts[walk]}
    /\ walk' = walk + 1
    /\ UNCHANGED <<life, bytes, pc, held, count>>

DestroyEnd ==
    /\ life = "destroying" /\ walk = count
    /\ life' = "freed"
    /\ UNCHANGED <<tableVars, live, bytes, pc, held, walk, count>>

\* The manager is gone, or its memory is corrupted.
Terminated == life \in {"freed", "overrun"} /\ UNCHANGED vars

Next ==
    \/ \E t \in Threads :
          \/ CreateCheck(t) \/ CreateAllocate(t) \/ CreateRegister(t)
          \/ DestroyRemove(t) \/ DestroyFree(t) \/ Resize(t)
    \/ DestroyBegin \/ DestroyContext \/ DestroyEnd
    \/ Terminated

Spec == Init /\ [][Next]_vars

-----------------------------------------------------------------------------
(* Properties.                                                             *)

InCall == {held[t] : t \in {u \in Threads : pc[u] \in {"register", "free"}}}

\* Removal by moving the last entry keeps the table exact: it lists every
\* allocated context that is not inside a create or a destroy, each once.
TableExact ==
    life = "up" =>
       /\ Listed = live \ InCall
       /\ \A i, j \in 0..num_contexts-1 : contexts[i] = contexts[j] => i = j

\* The statistics under concurrent creates, resizes and destroys: active
\* contexts and current bytes are those of the table, and no peak is below
\* its current value.  test_concurrent_contexts asserts the first.
StatsExact ==
    life # "overrun" =>
       /\ active = num_contexts /\ peak >= active
       /\ memory = MapThenSumSet(LAMBDA h : bytes[h], Listed)
       /\ peak_memory >= memory

\* "Destroy the manager and forcefully free all active contexts" (kv.h:94):
\* although each turn of the loop rearranges the array, the slot it reads
\* next holds a context that is still allocated (no double free) ...
DestroyReadsLive ==
    life = "destroying" /\ walk < count => contexts[walk] \in live

\* ... and none is left when the manager itself is freed.
DestroyFreesAll == life = "freed" => live = {}

\* "context create: max contexts reached" (kv.c:128): the table never
\* exceeds its limit.
WithinLimit == num_contexts <= MaxContexts

\* The teardown frees every context once, and the manager last.
DestroySound == DestroyReadsLive /\ DestroyFreesAll
=============================================================================
