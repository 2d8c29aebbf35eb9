------------------------------- MODULE Kernel -------------------------------
(***************************************************************************)
(* The kernel registry of src/kernel/kernel.c and the executor that        *)
(* resolves the kernels of its graph ahead of time                         *)
(* (hbi_executor_create, src/executor/executor.c).  One operation on one   *)
(* device; what tells kernels apart is the types they take and whether     *)
(* they require contiguous operands.                                       *)
(***************************************************************************)
EXTENDS Naturals, SequencesExt

CONSTANTS
    Dtypes,           \* the element types
    Flags,            \* sets of layout flags: {} is HBI_KERNEL_LAYOUT_ANY
    MaxKernels,       \* HBI_KERNEL_REGISTRY_MAX
    Graphs            \* the graphs: sequences of node types

Kernels == [dtypes : SUBSET Dtypes, layout : Flags]
None == [dtypes |-> {}, layout |-> {}]

VARIABLES
    kernels,          \* g_kernels[0..g_kernel_count)
    dispatched,       \* g_kernel_dispatched
    executor,         \* [graph, node_kernels], or NoExecutor
    status,           \* of the last call
    cleared           \* history: the registry was cleared under the executor

vars == <<kernels, dispatched, executor, status, cleared>>

NoExecutor == [graph |-> <<>>, node_kernels |-> <<>>]

Init ==
    /\ kernels = <<>>
    /\ dispatched = FALSE
    /\ executor = NoExecutor
    /\ status = "OK"
    /\ cleared = FALSE

\* collides: a registered kernel with the same flags takes one of k's types.
Collides(k) ==
    \E i \in DOMAIN kernels :
        /\ kernels[i].dtypes \intersect k.dtypes # {}
        /\ kernels[i].layout = k.layout

\* hbi_kernel_register.
Register(k) ==
    /\ IF dispatched
       THEN status' = "STATE" /\ UNCHANGED kernels
       ELSE IF k.dtypes = {}
       THEN status' = "INVALID_ARG" /\ UNCHANGED kernels
       ELSE IF Len(kernels) >= MaxKernels \/ Collides(k)
            THEN status' = "STATE" /\ UNCHANGED kernels
            ELSE status' = "OK" /\ kernels' = Append(kernels, k)
    /\ UNCHANGED <<dispatched, executor, cleared>>

\* hbi_kernel_registry_clear.
Clear ==
    /\ kernels' = <<>>
    /\ dispatched' = FALSE
    /\ status' = "OK"
    /\ cleared' = (executor # NoExecutor)
    /\ UNCHANGED executor

\* The kernel takes the type and requires no more than the key promises.
Serves(k, dtype, layout) ==
    /\ dtype \in k.dtypes
    /\ k.layout \subseteq layout

Matching(dtype, layout) ==
    {i \in DOMAIN kernels : Serves(kernels[i], dtype, layout)}

\* hbi_kernel_resolve: the first in the order of registration.
Resolved(dtype, layout) ==
    IF Matching(dtype, layout) = {} THEN None
    ELSE kernels[Min(Matching(dtype, layout))]

\* hbi_kernel_dispatch: resolve for any layout and run; the flag is set first.
Dispatch(dtype) ==
    /\ dispatched' = TRUE
    /\ status' = IF Resolved(dtype, {}) = None THEN "NOT_FOUND" ELSE "OK"
    /\ UNCHANGED <<kernels, executor, cleared>>

\* Mutant: the executor asks for contiguous operands, dispatch does not.
CreateExecutorContiguous(graph) ==
    /\ executor = NoExecutor
    /\ dispatched' = (dispatched \/ graph # <<>>)
    /\ LET found == [n \in DOMAIN graph |-> Resolved(graph[n], UNION Flags)]
       IN  IF None \in ToSet(found)
           THEN status' = "NOT_FOUND" /\ UNCHANGED executor
           ELSE /\ status' = "OK"
                /\ executor' = [graph |-> graph, node_kernels |-> found]
    /\ UNCHANGED <<kernels, cleared>>

\* hbi_executor_create: every node has a kernel or there is no executor.  An
\* empty graph resolves nothing.
CreateExecutor(graph) ==
    /\ executor = NoExecutor
    /\ dispatched' = (dispatched \/ graph # <<>>)
    /\ LET found == [n \in DOMAIN graph |-> Resolved(graph[n], {})]
       IN  IF None \in ToSet(found)
           THEN status' = "NOT_FOUND" /\ UNCHANGED executor
           ELSE /\ status' = "OK"
                /\ executor' = [graph |-> graph, node_kernels |-> found]
    /\ UNCHANGED <<kernels, cleared>>

\* hbi_executor_destroy.
DestroyExecutor ==
    /\ executor # NoExecutor
    /\ executor' = NoExecutor
    /\ status' = "OK"
    /\ cleared' = FALSE
    /\ UNCHANGED <<kernels, dispatched>>

Next ==
    \/ \E k \in Kernels : Register(k)
    \/ Clear
    \/ \E d \in Dtypes : Dispatch(d)
    \/ \E g \in Graphs : CreateExecutor(g)
    \/ DestroyExecutor

Spec == Init /\ [][Next]_vars

-----------------------------------------------------------------------------
(* "Two kernels for the same op+device must not both claim the same dtype  *)
(* - that would make resolution order-dependent" (kernel.c:166): whatever  *)
(* was registered in whatever order, at most one kernel can answer the     *)
(* keys hbi_kernel_dispatch and hbi_executor_create make.                  *)
DispatchUnambiguous ==
    \A d \in Dtypes : Cardinality(Matching(d, {})) <= 1

(* What hbi_executor_create resolved ahead of time is what                 *)
(* hbi_kernel_dispatch resolves later for the same type, whatever is tried *)
(* to be registered in between, as long as the registry is not cleared.    *)
AheadOfTimeAgrees ==
    ~cleared =>
        \A n \in DOMAIN executor.graph :
            Resolved(executor.graph[n], {}) = executor.node_kernels[n]

(* Every kernel an executor holds takes its node's type and requires no    *)
(* contiguity, which nothing about the operands has established.           *)
ExecutorKernelsServe ==
    \A n \in DOMAIN executor.graph :
        /\ executor.graph[n] \in executor.node_kernels[n].dtypes
        /\ executor.node_kernels[n].layout = {}

\* Resolution gives one answer, the same ahead of time and at dispatch, and
\* one that serves the node.
ResolutionSound == DispatchUnambiguous /\ AheadOfTimeAgrees /\ ExecutorKernelsServe
=============================================================================
