-------------------------------- MODULE Graph --------------------------------
(***************************************************************************)
(* The graph builder (src/graph/graph.c): add_input and add_constant,      *)
(* add_node with each of its failures, and graph_build with its depth-     *)
(* first search, one step of topo_visit at a time.                         *)
(*                                                                         *)
(* Node and value ids count from 0, as in the code.  Shapes and dtypes are *)
(* abstracted to whether infer_output_shape accepts the node.  The node    *)
(* array is not zeroed (builder_create), and add_node counts the node      *)
(* before it validates it, so a node whose add_node failed is part of the  *)
(* graph, with whatever its slot held: an input that was never written is  *)
(* any id, in range or not (Junk), an output never written is Junk.        *)
(***************************************************************************)
EXTENDS Integers, Sequences, FiniteSets, Functions

CONSTANTS MaxNodes,     \* HBI_GRAPH_MAX_NODES
          MaxValues,    \* HBI_GRAPH_MAX_VALUES
          MaxInputs,    \* HBI_KERNEL_MAX_INPUTS
          MaxOutputs,   \* HBI_KERNEL_MAX_OUTPUTS
          MaxFailures,  \* bound on the failed calls of add_node
          NoNode,       \* UINT32_MAX, the producer of inputs and constants
          Junk          \* an id out of range

GraphAssumption == /\ MaxNodes \in Nat /\ MaxValues \in Nat
                          /\ MaxInputs \in Nat /\ MaxOutputs \in Nat
                          /\ MaxFailures \in Nat
                          /\ NoNode \notin Nat /\ Junk \notin Nat

VARIABLES nodes,     \* Sequence of [inputs, outputs]; node id is index - 1
          producer,  \* Sequence of producer_node_id; value id is index - 1
          visited,   \* topo_visit's marks, node id -> 0, 1 or 2
          stack,     \* active calls of topo_visit: <<node id, next input>>
          order,     \* execution_order as filled so far
          phase      \* what the builder, or the graph, is

vars == <<nodes, producer, visited, stack, order, phase>>

NodeIds == 0 .. Len(nodes) - 1
ValueIds == 0 .. Len(producer) - 1
Producer(v) == producer[v + 1]
Inputs(n) == nodes[n + 1].inputs

SeqsUpTo(S, k) == UNION {[1 .. m -> S] : m \in 0 .. k}

Init == /\ nodes = <<>> /\ producer = <<>>
        /\ visited = <<>> /\ stack = <<>> /\ order = <<>>
        /\ phase = "building"

-----------------------------------------------------------------------------

Building == phase = "building" /\ UNCHANGED <<visited, stack, order, phase>>

(* add_input and add_constant: a value no node produces. *)
AddExternal ==
    /\ Building
    /\ Len(producer) < MaxValues
    /\ producer' = Append(producer, NoNode)
    /\ UNCHANGED nodes

(* The k outputs of the node being added are new values, until the table is full. *)
AddOutputs(ins, k) ==
    LET room == MaxValues - Len(producer)
        made == IF k <= room THEN k ELSE room
    IN  /\ producer' = producer \o [i \in 1 .. made |-> Len(nodes)]
        /\ nodes' = Append(nodes, [inputs  |-> ins,
                                   outputs |-> [i \in 1 .. k |-> IF i <= made THEN Len(producer) + i - 1
                                                                             ELSE Junk]])

(* add_node with valid inputs that infer_output_shape accepts. *)
AddNode(ins, k) ==
    /\ Building
    /\ Len(nodes) < MaxNodes
    /\ \A i \in DOMAIN ins : ins[i] \in ValueIds
    /\ AddOutputs(ins, k)

MayFail == Cardinality({n \in NodeIds : Junk \in Range(nodes[n + 1].outputs)}) < MaxFailures

(* add_node whose shape inference fails for its first output: the node stays,
   with its inputs and without values for its outputs. *)
AddNodeBadShape(ins, k) ==
    /\ Building /\ MayFail
    /\ Len(nodes) < MaxNodes
    /\ k > 0
    /\ \A i \in DOMAIN ins : ins[i] \in ValueIds
    /\ nodes' = Append(nodes, [inputs |-> ins, outputs |-> [i \in 1 .. k |-> Junk]])
    /\ UNCHANGED producer

(* add_node whose input number bad is not a value: the node stays, the inputs from
   there on are what the slot held (slots), and num_outputs is not written either. *)
AddNodeBadInput(slots, bad) ==
    /\ Building /\ MayFail
    /\ Len(nodes) < MaxNodes
    /\ \A i \in 1 .. bad - 1 : slots[i] \in ValueIds
    /\ nodes' = Append(nodes, [inputs |-> slots, outputs |-> <<Junk>>])
    /\ UNCHANGED producer

-----------------------------------------------------------------------------

(* graph_build: the marks are cleared. *)
BuildBegin ==
    /\ phase = "building"
    /\ visited' = [n \in NodeIds |-> 0]
    /\ phase' = "sorting"
    /\ UNCHANGED <<nodes, producer, stack, order>>

(* The loop of graph_build calls topo_visit for the next unvisited node. *)
BuildVisit ==
    /\ phase = "sorting" /\ stack = <<>>
    /\ \E n \in NodeIds : /\ visited[n] = 0
                          /\ \A m \in 0 .. n - 1 : visited[m] # 0
                          /\ visited' = [visited EXCEPT ![n] = 1]
                          /\ stack' = <<<<n, 1>>>>
    /\ UNCHANGED <<nodes, producer, order, phase>>

Top == stack[Len(stack)]
Advanced == [stack EXCEPT ![Len(stack)] = <<Top[1], Top[2] + 1>>]

(* topo_visit looks at the next input: a value without producer or with a finished
   one is passed over, an unvisited producer is visited, a producer being visited is
   a cycle: the builder is kept and the order freed.  An id out of range reads outside
   the value array. *)
VisitInput ==
    /\ phase = "sorting" /\ stack # <<>>
    /\ Top[2] <= Len(Inputs(Top[1]))
    /\ LET v == Inputs(Top[1])[Top[2]]
           p == IF v \in ValueIds THEN Producer(v) ELSE Junk
           mark == IF p \in NodeIds THEN visited[p] ELSE 2
       IN  /\ phase' = IF p = Junk THEN "undefined" ELSE IF mark = 1 THEN "cycle" ELSE phase
           /\ stack' = IF mark = 0 THEN Append(Advanced, <<p, 1>>) ELSE Advanced
           /\ visited' = IF mark = 0 THEN [visited EXCEPT ![p] = 1] ELSE visited
    /\ UNCHANGED <<nodes, producer, order>>

(* Mutant: the node enters the order before its inputs are visited. *)
VisitLeaveEarly ==
    /\ phase = "sorting" /\ stack # <<>>
    /\ visited' = [visited EXCEPT ![Top[1]] = 2]
    /\ order' = Append(order, Top[1])
    /\ stack' = SubSeq(stack, 1, Len(stack) - 1)
    /\ UNCHANGED <<nodes, producer, phase>>

(* topo_visit is past the last input: the node enters the order. *)
VisitLeave ==
    /\ phase = "sorting" /\ stack # <<>>
    /\ Top[2] > Len(Inputs(Top[1]))
    /\ visited' = [visited EXCEPT ![Top[1]] = 2]
    /\ order' = Append(order, Top[1])
    /\ stack' = SubSeq(stack, 1, Len(stack) - 1)
    /\ UNCHANGED <<nodes, producer, phase>>

(* Every node is visited: the graph takes over the arrays. *)
BuildEnd ==
    /\ phase = "sorting" /\ stack = <<>>
    /\ \A n \in NodeIds : visited[n] # 0
    /\ phase' = "built"
    /\ UNCHANGED <<nodes, producer, visited, stack, order>>

Ids == (0 .. MaxValues - 1) \cup {Junk}

Next == \/ AddExternal
        \/ \E ins \in SeqsUpTo(Ids, MaxInputs) :
              \/ \E k \in 0 .. MaxOutputs : AddNode(ins, k)
              \/ \E k \in 0 .. MaxOutputs : AddNodeBadShape(ins, k)
              \/ \E bad \in DOMAIN ins : AddNodeBadInput(ins, bad)
        \/ BuildBegin \/ BuildVisit \/ VisitInput \/ VisitLeave \/ BuildEnd

Spec == Init /\ [][Next]_vars

-----------------------------------------------------------------------------

(* The arrays stay within their limits and every value of the table was produced by a
   node of the table or by none. *)
TypeOK ==
    /\ Len(nodes) \in 0 .. MaxNodes
    /\ Len(producer) \in 0 .. MaxValues /\ Range(producer) \subseteq NodeIds \cup {NoNode}
    /\ \A n \in NodeIds : /\ Len(Inputs(n)) <= MaxInputs
                          /\ \A i \in DOMAIN Inputs(n) : Inputs(n)[i] \in Ids
    /\ DOMAIN visited \in {{}, NodeIds} /\ \A n \in DOMAIN visited : visited[n] \in 0 .. 2
    /\ \A i \in DOMAIN stack : stack[i][1] \in NodeIds /\ stack[i][2] >= 1
    /\ \A i \in DOMAIN order : order[i] \in NodeIds
    /\ phase \in {"building", "sorting", "built", "cycle", "undefined"}

(* The search of graph_build never meets a node it is still visiting: no sequence of
   builder calls makes a cycle, failed calls and their unwritten inputs included (a
   node whose inputs were not validated produces no value). *)
NoCycle == phase # "cycle"

(* The execution order of a built graph lists every node once, each after the
   producers of its inputs. *)
OrderIsTopological ==
    phase = "built" =>
        /\ Len(order) = Len(nodes)
        /\ {order[i] : i \in DOMAIN order} = NodeIds
        /\ \A i, j \in DOMAIN order : \A k \in DOMAIN Inputs(order[j]) :
              LET v == Inputs(order[j])[k] IN v \in ValueIds /\ Producer(v) = order[i] => i < j

(* Whatever calls preceded it, failed ones included, hbi_graph_build finds an order,
   and the order is topological. *)
BuildSucceeds == TypeOK /\ NoCycle /\ OrderIsTopological
=============================================================================
