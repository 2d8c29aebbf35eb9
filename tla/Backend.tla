------------------------------ MODULE Backend ------------------------------
(***************************************************************************)
(* The backend registry and the backend managers of src/backend/backend.c, *)
(* with the contexts the CPU backend (backends/cpu/backend_cpu.c) makes    *)
(* for them.  Nothing unregisters a backend; a backend may be registered   *)
(* twice, and a manager keeps its contexts by index of the registry.       *)
(***************************************************************************)
EXTENDS Naturals, SequencesExt

CONSTANTS
    Backends,         \* the backends, by address
    Contextless,      \* those without create_context
    OldAbi,           \* those built against another ABI version
    Managers,
    MaxBackends,      \* HBI_BACKEND_MAX
    MaxContexts       \* bound on the contexts ever made

VARIABLES
    registry,         \* g_backends[0..g_backend_count)
    slots,            \* manager -> contexts[]: slot -> context or 0; <<>> if none
    made,             \* context -> [backend, manager], in order of creation
    live,             \* contexts not destroyed
    status

vars == <<registry, slots, made, live, status>>

Slots == 1..MaxBackends
NoManager == <<>>

Init ==
    /\ registry = <<>>
    /\ slots = [m \in Managers |-> NoManager]
    /\ made = <<>>
    /\ live = {}
    /\ status = "OK"

\* hbi_backend_register.
Register(b) ==
    /\ IF b \in OldAbi
       THEN status' = "UNSUPPORTED" /\ UNCHANGED registry
       ELSE IF Len(registry) >= MaxBackends
            THEN status' = "STATE" /\ UNCHANGED registry
            ELSE status' = "OK" /\ registry' = Append(registry, b)
    /\ UNCHANGED <<slots, made, live>>

\* hbi_backend_manager_create.
CreateManager(m) ==
    /\ slots[m] = NoManager
    /\ slots' = [slots EXCEPT ![m] = [i \in Slots |-> 0]]
    /\ status' = "OK"
    /\ UNCHANGED <<registry, made, live>>

\* Mutant: the loop stops one backend early.
DestroyManagerFull(m) ==
    /\ slots[m] # NoManager
    /\ live' = live \ {slots[m][i] : i \in {j \in Slots : j < Len(registry)}}
    /\ slots' = [slots EXCEPT ![m] = NoManager]
    /\ status' = "OK"
    /\ UNCHANGED <<registry, made>>

\* hbi_backend_manager_destroy: the contexts of the backends registered now.
DestroyManager(m) ==
    /\ slots[m] # NoManager
    /\ live' = live \ {slots[m][i] : i \in DOMAIN registry}
    /\ slots' = [slots EXCEPT ![m] = NoManager]
    /\ status' = "OK"
    /\ UNCHANGED <<registry, made>>

\* The first entry with the address of b.
Index(b) == CHOOSE i \in DOMAIN registry :
                registry[i] = b /\ \A j \in DOMAIN registry : registry[j] = b => i <= j

\* hbi_backend_manager_get_context, with cpu_create_context when the slot is
\* empty; the allocation may fail.
GetContext(m, b) ==
    /\ slots[m] # NoManager
    /\ IF b \notin ToSet(registry)
       THEN status' = "NOT_FOUND" /\ UNCHANGED <<slots, made, live>>
       ELSE IF slots[m][Index(b)] # 0
       THEN status' = "OK" /\ UNCHANGED <<slots, made, live>>
       ELSE IF b \in Contextless
       THEN status' = "UNSUPPORTED" /\ UNCHANGED <<slots, made, live>>
       ELSE \/ status' = "OOM" /\ UNCHANGED <<slots, made, live>>
            \/ /\ Len(made) < MaxContexts
               /\ made' = Append(made, [backend |-> b, manager |-> m])
               /\ live' = live \union {Len(made')}
               /\ slots' = [slots EXCEPT ![m][Index(b)] = Len(made')]
               /\ status' = "OK"
    /\ UNCHANGED registry

Next ==
    \/ \E b \in Backends : Register(b)
    \/ \E m \in Managers :
          \/ CreateManager(m)
          \/ DestroyManager(m)
          \/ \E b \in Backends : GetContext(m, b)

Spec == Init /\ [][Next]_vars

-----------------------------------------------------------------------------
\* The places a context is kept in.
Homes(c) == {<<m, i>> \in Managers \X Slots :
                slots[m] # NoManager /\ slots[m][i] = c}

(* Every live context is kept by exactly one manager, the one it was made  *)
(* for, at an index whose backend made it; every context kept is live.     *)
(* Backends registered meanwhile, or twice, do not displace one.           *)
ContextsBelong ==
    /\ \A c \in live : Cardinality(Homes(c)) = 1
    /\ \A m \in Managers, i \in Slots :
          slots[m] # NoManager /\ slots[m][i] # 0 =>
              /\ slots[m][i] \in live
              /\ i \in DOMAIN registry
              /\ made[slots[m][i]] = [backend |-> registry[i], manager |-> m]

(* "The manager owns the context lifecycle" (backend.h:154): as long as a  *)
(* manager lives, a backend has at most one context in it, a backend       *)
(* registered a second time in between included.                           *)
OneContextPerBackend ==
    \A c, d \in live : made[c] = made[d] => c = d

\* Every context has one place, in the manager and at the backend it is of.
ContextsPlaced == ContextsBelong /\ OneContextPerBackend
=============================================================================
