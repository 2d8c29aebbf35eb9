------------------------------- MODULE Planner -------------------------------
(***************************************************************************)
(* hbi_memory_planner_plan (src/planner/planner.c): live ranges over the   *)
(* execution order of the graph, then greedy first-fit placement of the    *)
(* values the graph computes, in one pool.                                 *)
(*                                                                         *)
(* Nodes and their topological index coincide here (order[i] = i, which is *)
(* the order graph_build gives a graph of the builder without failed       *)
(* nodes).  A value no node produces (input, constant) is not placed.  The *)
(* dtype of a value appears as its size and its alignment, a power of two  *)
(* in the code; the arithmetic below needs only that it is positive.       *)
(***************************************************************************)
EXTENDS Integers, Sequences, FiniteSets, Functions

CONSTANTS Sizes,       \* sizes of values, in bytes
          Alignments,  \* alignments of values
          MaxNodes,    \* HBI_GRAPH_MAX_NODES
          MaxValues,   \* HBI_GRAPH_MAX_VALUES
          Graphs,      \* the graphs to plan: [inputs, outputs], node -> sequence of values
          Unset        \* UINT32_MAX in first_use

(* The nodes are numbered from 0, and inputs and outputs are values of the graph. *)
IsGraph(g) ==
    \E n \in 0 .. MaxNodes :
        /\ DOMAIN g.inputs = 0 .. n - 1 /\ DOMAIN g.outputs = 0 .. n - 1
        /\ \A m \in 0 .. n - 1 : /\ Range(g.inputs[m]) \subseteq 0 .. MaxValues - 1
                                 /\ Range(g.outputs[m]) \subseteq 0 .. MaxValues - 1

ASSUME PlannerAssumption == /\ Sizes \subseteq Nat /\ Alignments \subseteq Nat \ {0}
                            /\ MaxNodes \in Nat /\ MaxValues \in Nat
                            /\ \A g \in Graphs : IsGraph(g)
                            /\ Unset \notin Nat

VARIABLES graph,
          size_bytes, alignment,   \* of each value a node produces
          first_use, last_use,     \* the live ranges
          topo_idx,                \* next node of the liveness pass
          active,                  \* sorted sequence of the values to place
          i, best_offset,          \* the value being placed (index in active), the offset tried
          offset,                  \* value -> offset, of the values placed
          peak_pool_size,
          pc

vars == <<graph, size_bytes, alignment, first_use, last_use, topo_idx, active, i,
          best_offset, offset, peak_pool_size, pc>>

Nodes == DOMAIN graph.inputs
Outputs(n) == Range(graph.outputs[n])
Produced == UNION {Outputs(n) : n \in Nodes}
Values == Produced \cup UNION {Range(graph.inputs[n]) : n \in Nodes}

-----------------------------------------------------------------------------

Init ==
    /\ graph \in Graphs
    /\ size_bytes \in [Produced -> Sizes] /\ alignment \in [Produced -> Alignments]
    /\ first_use = [v \in Values |-> Unset] /\ last_use = [v \in Values |-> 0]
    /\ topo_idx = 0 /\ active = <<>> /\ i = 1 /\ best_offset = 0 /\ offset = [v \in {} |-> 0]
    /\ peak_pool_size = 0
    /\ pc = "liveness"

(* Mutant: only the outputs of a node extend live ranges. *)
LivenessOutputsOnly ==
    /\ pc = "liveness" /\ topo_idx \in Nodes
    /\ LET used == Outputs(topo_idx)
       IN  /\ first_use' = [v \in Values |-> IF v \in used /\ first_use[v] = Unset
                                             THEN topo_idx ELSE first_use[v]]
           /\ last_use' = [v \in Values |-> IF v \in used THEN topo_idx ELSE last_use[v]]
    /\ topo_idx' = topo_idx + 1
    /\ UNCHANGED <<graph, size_bytes, alignment, active, i, best_offset, offset, peak_pool_size, pc>>

(* The node at topo_idx uses its inputs and its outputs; topo_idx grows, so that it
   is the last use so far. *)
Liveness ==
    /\ pc = "liveness" /\ topo_idx \in Nodes
    /\ LET used == Range(graph.inputs[topo_idx]) \cup Outputs(topo_idx)
       IN  /\ first_use' = [v \in Values |-> IF v \in used /\ first_use[v] = Unset
                                             THEN topo_idx ELSE first_use[v]]
           /\ last_use' = [v \in Values |-> IF v \in used THEN topo_idx ELSE last_use[v]]
    /\ topo_idx' = topo_idx + 1
    /\ UNCHANGED <<graph, size_bytes, alignment, active, i, best_offset, offset, peak_pool_size, pc>>

(* compare_live_ranges: a does not come after b. *)
NotAfter(a, b) == \/ first_use[a] < first_use[b]
                  \/ first_use[a] = first_use[b] /\ size_bytes[a] >= size_bytes[b]

(* The produced values are collected and sorted; qsort leaves the order of equal
   ranges open. *)
Collect ==
    /\ pc = "liveness" /\ topo_idx \notin Nodes
    /\ LET live == {v \in Produced : first_use[v] # Unset}
       IN  \E s \in Bijection(1 .. Cardinality(live), live) :
              /\ \A j, k \in DOMAIN s : j < k => NotAfter(s[j], s[k])
              /\ active' = s
    /\ pc' = "place"
    /\ UNCHANGED <<graph, size_bytes, alignment, first_use, last_use, topo_idx, i, best_offset,
                   offset, peak_pool_size>>

AlignUp(x, align) == ((x + align - 1) \div align) * align

TimeOverlap(v, w) == first_use[v] <= last_use[w] /\ last_use[v] >= first_use[w]

(* Mutant: the end of the earlier buffer counts as free one byte early. *)
MemoryOverlapShort(v, at, w) == at < offset[w] + size_bytes[w] - 1 /\ at + size_bytes[v] > offset[w]

(* v at offset at would overlap the buffer of w. *)
MemoryOverlap(v, at, w) == at < offset[w] + size_bytes[w] /\ at + size_bytes[v] > offset[w]

Conflicts(v, at) == {j \in 1 .. i - 1 : TimeOverlap(v, active[j]) /\ MemoryOverlap(v, at, active[j])}

(* Mutant: the offset is pushed to the start of the buffer in conflict. *)
ConflictStays ==
    /\ pc = "place" /\ i \in DOMAIN active
    /\ LET v == active[i]
           at == AlignUp(best_offset, alignment[v])
       IN  /\ Conflicts(v, at) # {}
           /\ best_offset' = offset[active[CHOOSE j \in Conflicts(v, at) : TRUE]]
    /\ UNCHANGED <<graph, size_bytes, alignment, first_use, last_use, topo_idx, active, i, offset,
                   peak_pool_size, pc>>

(* One turn of the placement loop: the offset is aligned, and pushed past the first
   earlier buffer in conflict. *)
Conflict ==
    /\ pc = "place" /\ i \in DOMAIN active
    /\ LET v == active[i]
           at == AlignUp(best_offset, alignment[v])
       IN  \E j \in Conflicts(v, at) :
              /\ \A k \in Conflicts(v, at) : j <= k
              /\ best_offset' = offset[active[j]] + size_bytes[active[j]]
    /\ UNCHANGED <<graph, size_bytes, alignment, first_use, last_use, topo_idx, active, i, offset,
                   peak_pool_size, pc>>

(* The aligned offset conflicts with no earlier buffer: it is the value's. *)
Place ==
    /\ pc = "place" /\ i \in DOMAIN active
    /\ LET v == active[i]
           at == AlignUp(best_offset, alignment[v])
       IN  /\ Conflicts(v, at) = {}
           /\ offset' = [w \in DOMAIN offset \cup {v} |-> IF w = v THEN at ELSE offset[w]]
           /\ peak_pool_size' = IF at + size_bytes[v] > peak_pool_size THEN at + size_bytes[v]
                                                                      ELSE peak_pool_size
    /\ i' = i + 1 /\ best_offset' = 0
    /\ UNCHANGED <<graph, size_bytes, alignment, first_use, last_use, topo_idx, active, pc>>

Finalize ==
    /\ pc = "place" /\ i \notin DOMAIN active
    /\ pc' = "planned"
    /\ UNCHANGED <<graph, size_bytes, alignment, first_use, last_use, topo_idx, active, i,
                   best_offset, offset, peak_pool_size>>

Next == Liveness \/ Collect \/ Conflict \/ Place \/ Finalize

Spec == Init /\ [][Next]_vars

-----------------------------------------------------------------------------

(* Buffers of two values that are live at a common node do not overlap. *)
NoAliasing ==
    \A v, w \in DOMAIN offset :
        v # w /\ TimeOverlap(v, w) => \/ offset[v] + size_bytes[v] <= offset[w]
                                      \/ offset[w] + size_bytes[w] <= offset[v]

(* Every buffer is aligned as its dtype requires and lies in the pool. *)
WithinPool ==
    \A v \in DOMAIN offset : /\ \E k \in 0 .. offset[v] : offset[v] = k * alignment[v]
                             /\ offset[v] + size_bytes[v] <= peak_pool_size

(* A planned value is live at the node that writes it and at every node that reads it,
   and every value a node produces has a buffer: executed in the order the plan was
   made for, no node writes over an operand that a later node, or itself, still reads. *)
ReadersSeeTheirInputs ==
    pc = "planned" =>
        /\ DOMAIN offset = Produced
        /\ \A v \in Produced, r, n \in Nodes, w \in Produced :
              /\ v \in Range(graph.inputs[r])
              /\ w \in Outputs(n) /\ w # v
              /\ \E p \in Nodes : v \in Outputs(p) /\ p <= n /\ n <= r
              => \/ offset[v] + size_bytes[v] <= offset[w]
                 \/ offset[w] + size_bytes[w] <= offset[v]

(* The placement is sound: buffers live together are disjoint, all are aligned and in
   the pool, and no operand is overwritten before its last reader. *)
PlacementSound == NoAliasing /\ WithinPool /\ ReadersSeeTheirInputs
=============================================================================
