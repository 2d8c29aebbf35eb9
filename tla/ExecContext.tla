---------------------------- MODULE ExecContext ----------------------------
(***************************************************************************)
(* The execution context of src/executor/executor.c: the tensors bound to  *)
(* the values of a graph, the pool the memory plan asks for, the workspace *)
(* kernels share (src/kernel/kernel.c), and the run that uses all of them. *)
(* A block of memory is a number, handed out in order; the planner makes   *)
(* plans with exactly one pool.                                            *)
(***************************************************************************)
EXTENDS Integers, SequencesExt

CONSTANTS
    NumValues,        \* values of the graph, 1..NumValues
    Constant,         \* the values bound to a constant tensor
    Planned,          \* the values the memory plan has an allocation for
    Nodes,            \* the execution order: [operands, need], need in bytes
    MaxBlocks         \* bound on the blocks handed out

Null == 0
Caller == -1          \* a tensor the caller owns

Values == 1..NumValues

VARIABLES
    life,             \* "none", "open", "destroyed"
    blocks,           \* blocks handed out so far
    heap,             \* the live ones
    base,             \* <<ctx, ctx->values>>
    values,           \* ctx->values: [tensor, is_owned]
    buffer,           \* tensor struct of the context -> the pool it points into
    pools, pool,      \* ctx->pools and its only entry
    workspace,        \* ctx->workspace: [buffer, capacity]
    node,             \* index in Nodes a run has reached; 0 outside a run
    badFree           \* history: a block was freed that was not live

vars == <<life, blocks, heap, base, values, buffer, pools, pool, workspace,
          node, badFree>>

Unbound == [tensor |-> Null, is_owned |-> FALSE]
NoWorkspace == [buffer |-> Null, capacity |-> 0]

\* Free the blocks of the sequence s, NULL entries skipped.
Free(s) ==
    LET real == SelectSeq(s, LAMBDA b : b # Null)
    IN  /\ heap' = heap \ ToSet(real)
        /\ badFree' = (badFree \/ ~ToSet(real) \subseteq heap
                               \/ Cardinality(ToSet(real)) # Len(real))

Init ==
    /\ life = "none"
    /\ blocks = 0
    /\ heap = {}
    /\ base = <<Null, Null>>
    /\ values = [v \in Values |-> Unbound]
    /\ buffer = <<>>
    /\ pools = Null
    /\ pool = Null
    /\ workspace = NoWorkspace
    /\ node = 0
    /\ badFree = FALSE

-----------------------------------------------------------------------------
(* hbi_exec_context_create; a failed call gives back what it had.          *)
Create ==
    /\ life = "none"
    /\ life' = "open"
    /\ blocks' = 2
    /\ heap' = {1, 2}
    /\ base' = <<1, 2>>
    /\ values' = [v \in Values |->
                    IF v \in Constant THEN [tensor |-> Caller, is_owned |-> FALSE]
                                      ELSE Unbound]
    /\ UNCHANGED <<buffer, pools, pool, workspace, node, badFree>>

\* hbi_exec_context_bind: a tensor of the context is emptied, its struct stays.
Bind(v) ==
    /\ life = "open" /\ node = 0
    /\ buffer' = IF values[v].is_owned /\ values[v].tensor # Null
                 THEN [buffer EXCEPT ![values[v].tensor] = Null]
                 ELSE buffer
    /\ values' = [values EXCEPT ![v] = [tensor |-> Caller, is_owned |-> FALSE]]
    /\ UNCHANGED <<life, blocks, heap, base, pools, pool, workspace, node, badFree>>

\* What allocate_internals leaves when it has bound the values of bound: the
\* array of pools, its pool and a tensor struct for each.
Allocated(bound) ==
    LET id(v) == blocks + 2 + Cardinality({u \in bound : u <= v})
        structs == {id(v) : v \in bound}
    IN  /\ blocks' = blocks + 2 + Cardinality(bound)
        /\ pools' = blocks + 1
        /\ pool' = blocks + 2
        /\ values' = [v \in Values |->
                        IF v \in bound THEN [tensor |-> id(v), is_owned |-> TRUE]
                                       ELSE values[v]]
        /\ buffer' = [t \in DOMAIN buffer \union structs |->
                        IF t \in structs THEN blocks + 2 ELSE buffer[t]]

\* The values a call binds, up to the n-th, where it may run out of memory.
Todo(n) == {v \in Planned : values[v].tensor = Null /\ v <= n}

\* Mutant: a second call frees the pool the tensors of the first lie in.
AllocateInternalsAgain ==
    /\ life = "open" /\ node = 0
    /\ blocks + 2 + NumValues <= MaxBlocks
    /\ \E n \in 0..NumValues :
           /\ Allocated(Todo(n))
           /\ heap' = (heap \ {pools, pool}) \union (blocks + 1)..blocks'
    /\ UNCHANGED <<life, base, workspace, node, badFree>>

\* hbi_exec_context_allocate_internals: no memory for the array, none for the
\* pool, or for the struct of some value, or all is bound.
AllocateInternals ==
    /\ life = "open" /\ node = 0
    /\ blocks + 2 + NumValues <= MaxBlocks
    /\ \/ /\ pools' = Null
          /\ pool' = Null
          /\ UNCHANGED <<blocks, heap, values, buffer>>
       \/ /\ blocks' = blocks + 1
          /\ heap' = heap \union {blocks'}
          /\ pools' = blocks'
          /\ pool' = Null
          /\ UNCHANGED <<values, buffer>>
       \/ \E n \in 0..NumValues :
              /\ Allocated(Todo(n))
              /\ heap' = heap \union (blocks + 1)..blocks'
    /\ UNCHANGED <<life, base, workspace, node, badFree>>

\* hbi_exec_context_destroy.
Destroy ==
    /\ life = "open" /\ node = 0
    /\ life' = "destroyed"
    /\ LET owned == SelectSeq([v \in Values |-> IF values[v].is_owned
                                                THEN values[v].tensor ELSE Null],
                              LAMBDA t : t # Null)
           pooled == IF pools # Null THEN <<pool, pools>> ELSE <<>>
       IN  Free(<<workspace.buffer>> \o owned \o <<base[2]>> \o pooled \o <<base[1]>>)
    /\ UNCHANGED <<blocks, base, values, buffer, pools, pool, workspace, node>>

-----------------------------------------------------------------------------
(* hbi_executor_run: the nodes in order, each with its operands and the    *)
(* workspace it asks for; the first that fails ends the run.               *)
RunBegin ==
    /\ life = "open" /\ node = 0 /\ Nodes # <<>>
    /\ node' = 1
    /\ UNCHANGED <<life, blocks, heap, base, values, buffer, pools, pool, workspace, badFree>>

Ready(n) == \A v \in Nodes[n].operands : values[v].tensor # Null

\* hbi_kernel_workspace_reserve: a buffer that is large enough stays, else a
\* new one is taken before the old one is given back.
Reserve(bytes) ==
    IF workspace.buffer # Null /\ workspace.capacity >= bytes
    THEN UNCHANGED <<blocks, heap, workspace, badFree>>
    ELSE /\ blocks < MaxBlocks
         /\ blocks' = blocks + 1
         /\ workspace' = [buffer |-> blocks', capacity |-> bytes]
         /\ heap' = (heap \ {workspace.buffer}) \union {blocks'}
         /\ badFree' = (badFree \/ ~{workspace.buffer} \ {Null} \subseteq heap)

NodeRuns ==
    /\ node > 0 /\ Ready(node)
    /\ IF Nodes[node].need > 0
       THEN Reserve(Nodes[node].need)
       ELSE UNCHANGED <<blocks, heap, workspace, badFree>>
    /\ node' = IF node = Len(Nodes) THEN 0 ELSE node + 1
    /\ UNCHANGED <<life, base, values, buffer, pools, pool>>

\* An unbound operand, a reservation that fails, or a kernel that does.
NodeFails ==
    /\ node > 0
    /\ \/ UNCHANGED <<blocks, heap, workspace, badFree>>
       \/ Ready(node) /\ Nodes[node].need > 0 /\ Reserve(Nodes[node].need)
    /\ node' = 0
    /\ UNCHANGED <<life, base, values, buffer, pools, pool>>

Next ==
    \/ Create
    \/ \E v \in Values : Bind(v)
    \/ AllocateInternals
    \/ Destroy
    \/ RunBegin
    \/ NodeRuns
    \/ NodeFails

Spec == Init /\ [][Next]_vars

-----------------------------------------------------------------------------
(* Every tensor struct bound in an open context is live, owned, and points *)
(* into a live pool, through repeated and half-failed calls of             *)
(* allocate_internals: hbi_executor_run hands kernels nothing that dangles.*)
OperandsLive ==
    life = "open" =>
        \A v \in Values :
            values[v].tensor > Null =>
                /\ values[v].is_owned
                /\ values[v].tensor \in heap
                /\ buffer[values[v].tensor] \in heap

(* hbi_exec_context_destroy and hbi_kernel_workspace_reserve free live     *)
(* blocks of the context only, each once, and never a tensor of the caller.*)
FreesOnlyLive == ~badFree

(* When a run has passed a node, the workspace in the context is a live    *)
(* buffer of at least the bytes that node's kernel asked for, whatever the *)
(* earlier nodes, and earlier runs, had asked for.                         *)
WorkspaceFits ==
    node > 1 /\ Nodes[node - 1].need > 0 =>
        /\ workspace.buffer \in heap
        /\ workspace.capacity >= Nodes[node - 1].need

(* "Destroy the context and free any tensors it allocated (but not         *)
(* borrowed ones)" (executor.h:42): no tensor struct that                  *)
(* allocate_internals made outlives the context.                           *)
DestroyFreesItsTensors == life = "destroyed" => heap \intersect DOMAIN buffer = {}

(* Nothing of a context dangles, is freed twice or is too small, in any    *)
(* order of binds, allocations and runs.                                   *)
ContextSound == OperandsLive /\ FreesOnlyLive /\ WorkspaceFits
=============================================================================
