--------------------------- MODULE ExecutionProofs ---------------------------
(***************************************************************************)
(* For every graph, every size and every alignment of its values: the plan *)
(* never gives one byte to two values that are live together, a node never *)
(* overwrites an operand that it or a later node reads, and the graph      *)
(* executor runs every task on its operands as their producers wrote them. *)
(***************************************************************************)
EXTENDS Execution, FiniteSetTheorems, TLAPS

(* The values node n touches. *)
Used(n) == Range(graph.inputs[n]) \cup Outputs(n)

Typed ==
    /\ graph \in Graphs
    /\ size_bytes \in [Produced -> Nat] /\ alignment \in [Produced -> Nat \ {0}]
    /\ first_use \in [Values -> Nat \cup {Unset}] /\ last_use \in [Values -> Nat]
    /\ topo_idx \in Nat /\ best_offset \in Nat /\ peak_pool_size \in Nat
    /\ i \in Nat \ {0}
    /\ pc \in {"liveness", "place", "planned"}

(* No live range begins at a node not passed yet, and the nodes passed so far use
   their values within the live ranges. *)
Covered ==
    /\ \A v \in Values : first_use[v] # Unset => first_use[v] < topo_idx
    /\ \A n \in Nodes : n < topo_idx =>
          \A v \in Used(n) : first_use[v] \in Nat /\ first_use[v] <= n /\ n <= last_use[v]

(* Once collected, the values to place are the produced ones, each once, and the
   liveness pass is over. *)
Collected ==
    IF pc = "liveness"
    THEN i = 1
    ELSE /\ topo_idx \notin Nodes
         /\ \E m \in Nat : active \in Bijection(1 .. m, Produced)

(* The values before i are placed, the others not yet. *)
Placed ==
    /\ offset \in [{active[j] : j \in 1 .. i - 1} -> Nat]
    /\ DOMAIN offset \subseteq Produced
    /\ pc = "planned" => i \notin DOMAIN active
    /\ \A j \in 1 .. i - 1 : j \in DOMAIN active

IInv == Typed /\ Covered /\ Collected /\ Placed /\ NoAliasing /\ WithinPool

-----------------------------------------------------------------------------

(* align_up returns a multiple of the alignment. *)
LEMMA AlignUpMultiple ==
    ASSUME NEW x \in Nat, NEW a \in Nat \ {0}
    PROVE  /\ AlignUp(x, a) \in Nat
           /\ \E k \in 0 .. AlignUp(x, a) : AlignUp(x, a) = k * a
<1> DEFINE q == (x + a - 1) \div a
<1>1. q \in Nat
  BY SMT
<1>2. q * a \in Nat /\ q <= q * a
  <2> HIDE DEF q
  <2> QED  BY <1>1, SMT
<1>3. AlignUp(x, a) = q * a
  BY DEF AlignUp
<1> HIDE DEF q
<1> QED  BY <1>1, <1>2, <1>3, SMT

(* The nodes of a graph are an initial segment of the naturals, its values finitely many. *)
LEMMA GraphFacts ==
    ASSUME graph \in Graphs
    PROVE  /\ \E n \in Nat : Nodes = 0 .. n - 1 /\ DOMAIN graph.outputs = Nodes
           /\ Produced \subseteq Values
           /\ IsFiniteSet(Produced)
<1>1. PICK n \in 0 .. MaxNodes :
         /\ DOMAIN graph.inputs = 0 .. n - 1 /\ DOMAIN graph.outputs = 0 .. n - 1
         /\ \A m \in 0 .. n - 1 : Range(graph.outputs[m]) \subseteq 0 .. MaxValues - 1
  BY PlannerAssumption DEF IsGraph
<1>2. Nodes = 0 .. n - 1 /\ DOMAIN graph.outputs = Nodes /\ n \in Nat
  BY <1>1, PlannerAssumption DEF Nodes
<1>3. Produced \subseteq 0 .. MaxValues - 1
  BY <1>1, <1>2 DEF Produced, Outputs
<1>4. IsFiniteSet(0 .. MaxValues - 1)
  BY FS_Interval, PlannerAssumption
<1>5. IsFiniteSet(Produced)
  BY <1>3, <1>4, FS_Subset, Zenon
<1> QED  BY <1>2, <1>5 DEF Values

-----------------------------------------------------------------------------

LEMMA InitIInv == Init => IInv
<1> SUFFICES ASSUME Init PROVE IInv
  OBVIOUS
<1> USE DEF Init
<1>1. Typed
  <2>1. size_bytes \in [Produced -> Nat] /\ alignment \in [Produced -> Nat \ {0}]
    BY PlannerAssumption, Zenon
  <2>2. first_use \in [Values -> Nat \cup {Unset}] /\ last_use \in [Values -> Nat]
    OBVIOUS
  <2>3. 0 \in Nat /\ 1 \in Nat \ {0}
    OBVIOUS
  <2> QED  BY <2>1, <2>2, <2>3, Zenon DEF Typed
<1>2. Covered
  <2>1. PICK n \in Nat : Nodes = 0 .. n - 1
    BY GraphFacts
  <2> QED  BY <2>1 DEF Covered
<1>3. Collected
  BY DEF Collected
<1>4. Placed
  BY DEF Placed
<1>5. NoAliasing /\ WithinPool
  BY DEF NoAliasing, WithinPool
<1> QED  BY <1>1, <1>2, <1>3, <1>4, <1>5 DEF IInv

LEMMA LivenessIInv == IInv /\ Liveness => IInv'
<1> SUFFICES ASSUME IInv, Liveness PROVE IInv'
  OBVIOUS
<1> USE DEF IInv
<1>1. /\ Nodes' = Nodes /\ Values' = Values /\ Produced' = Produced
      /\ \A n : Used(n)' = Used(n)
      /\ \A n : Outputs(n)' = Outputs(n)
  BY DEF Liveness, Nodes, Values, Produced, Outputs, Used
<1>2. PICK N \in Nat : Nodes = 0 .. N - 1
  BY GraphFacts DEF Typed
<1>3. /\ first_use' = [v \in Values |-> IF v \in Used(topo_idx) /\ first_use[v] = Unset
                                         THEN topo_idx ELSE first_use[v]]
      /\ last_use' = [v \in Values |-> IF v \in Used(topo_idx) THEN topo_idx ELSE last_use[v]]
      /\ topo_idx' = topo_idx + 1 /\ topo_idx \in Nodes
  BY DEF Liveness, Used
<1>4. Typed'
  BY <1>1, <1>3 DEF Typed, Liveness
<1>5. \A n \in Nodes : Used(n) \subseteq Values
  BY DEF Used, Values, Produced
<1>6. \A v \in Values : /\ first_use[v] \in Nat \cup {Unset} /\ last_use[v] \in Nat
                         /\ topo_idx \in Nat /\ Unset \notin Nat
  BY PlannerAssumption DEF Typed
<1>7. ASSUME NEW v \in Values, first_use'[v] # Unset
      PROVE  first_use'[v] < topo_idx + 1
  <2>1. first_use'[v] = topo_idx \/ first_use'[v] = first_use[v]
    BY <1>3
  <2>2. first_use[v] # Unset => first_use[v] \in Nat /\ first_use[v] < topo_idx
    BY <1>6 DEF Covered
  <2> QED  BY <1>6, <1>7, <2>1, <2>2
<1>8. ASSUME NEW n \in Nodes, n < topo_idx + 1, NEW v \in Used(n)
      PROVE  first_use'[v] \in Nat /\ first_use'[v] <= n /\ n <= last_use'[v]
  <2>1. v \in Values /\ n \in Nat
    BY <1>2, <1>5
  <2>2. CASE n = topo_idx
    <3>1. last_use'[v] = n /\ first_use'[v] = IF first_use[v] = Unset THEN n ELSE first_use[v]
      BY <1>3, <2>1, <2>2
    <3>2. first_use[v] # Unset => first_use[v] \in Nat /\ first_use[v] < n
      BY <1>6, <2>1, <2>2 DEF Covered
    <3> QED  BY <3>1, <3>2, <2>1
  <2>3. CASE n < topo_idx
    <3>1. first_use[v] \in Nat /\ first_use[v] <= n /\ n <= last_use[v]
      BY <2>3 DEF Covered
    <3>2. first_use'[v] = first_use[v]
      BY <1>3, <1>6, <2>1, <3>1
    <3>3. last_use'[v] = topo_idx \/ last_use'[v] = last_use[v]
      BY <1>3, <2>1
    <3> QED  BY <3>1, <3>2, <3>3, <2>1, <2>3, <1>6
  <2> QED  BY <2>1, <2>2, <2>3, <1>6, <1>8
<1>9. Covered'
  BY <1>1, <1>3, <1>7, <1>8 DEF Covered
<1>10. Collected' /\ Placed'
  BY <1>1 DEF Liveness, Collected, Placed
<1>11. offset' = offset /\ DOMAIN offset = {}
  <2>1. i = 1 /\ offset' = offset
    BY DEF Liveness, Collected
  <2>2. 1 .. i - 1 = {}
    BY <2>1
  <2>3. DOMAIN offset = {active[j] : j \in 1 .. i - 1}
    BY Zenon DEF Placed
  <2> QED  BY <2>1, <2>2, <2>3
<1>12. NoAliasing' /\ WithinPool'
  BY <1>11 DEF NoAliasing, WithinPool
<1> QED  BY <1>4, <1>9, <1>10, <1>12

(* After the liveness pass every produced value has a live range. *)
LEMMA ProducedLive ==
    ASSUME Typed, Covered, topo_idx \notin Nodes
    PROVE  /\ \A n \in Nodes : n \in Nat /\ n < topo_idx
           /\ \A v \in Produced : v \in Values /\ first_use[v] \in Nat /\ last_use[v] \in Nat
<1>1. PICK N \in Nat : Nodes = 0 .. N - 1
  BY GraphFacts DEF Typed
<1>2. \A n \in Nodes : n \in Nat /\ n < topo_idx
  BY <1>1 DEF Typed
<1>3. ASSUME NEW v \in Produced
      PROVE  v \in Values /\ first_use[v] \in Nat /\ last_use[v] \in Nat
  <2>1. PICK n \in Nodes : v \in Used(n)
    BY DEF Produced, Used
  <2>2. first_use[v] \in Nat
    BY <2>1, <1>2 DEF Covered
  <2> QED  BY <2>2 DEF Typed, Values
<1> QED  BY <1>2, <1>3

(* What Collect, Conflict, Place and Finalize leave alone. *)
LEMMA SameRanges ==
    ASSUME Typed, Covered,
           graph' = graph, first_use' = first_use, last_use' = last_use, topo_idx' = topo_idx
    PROVE  /\ Covered'
           /\ Nodes' = Nodes /\ Produced' = Produced /\ Values' = Values
BY DEF Covered, Nodes, Produced, Values, Outputs, Used

LEMMA CollectIInv == IInv /\ Collect => IInv'
<1> SUFFICES ASSUME IInv, Collect PROVE IInv'
  OBVIOUS
<1> USE DEF IInv
<1>1. /\ Covered' /\ Nodes' = Nodes /\ Produced' = Produced /\ Values' = Values
  BY SameRanges DEF Collect
<1>2. Typed'
  BY <1>1 DEF Typed, Collect
<1>3. topo_idx \notin Nodes /\ i = 1
  BY DEF Collect, Collected
<1>4. {v \in Produced : first_use[v] # Unset} = Produced
  BY ProducedLive, <1>3, PlannerAssumption
<1>5. active' \in Bijection(1 .. Cardinality(Produced), Produced)
  BY <1>4, Zenon DEF Collect
<1>6. Cardinality(Produced) \in Nat
  BY GraphFacts, FS_CardinalityType DEF Typed
<1>7. Collected'
  BY <1>1, <1>3, <1>5, <1>6 DEF Collect, Collected
<1>8. 1 .. i - 1 = {} /\ 1 .. i' - 1 = {}
  BY <1>3 DEF Collect
<1>9. offset' = offset /\ offset \in [{} -> Nat]
  <2>1. {active[j] : j \in 1 .. i - 1} = {}
    BY <1>8
  <2> QED  BY <2>1, Zenon DEF Placed, Collect
<1>10. Placed'
  <2>1. {active'[j] : j \in 1 .. i' - 1} = {}
    BY <1>8
  <2>2. pc' = "place"
    BY DEF Collect
  <2> QED  BY <1>8, <1>9, <2>1, <2>2 DEF Placed
<1>11. NoAliasing' /\ WithinPool'
  BY <1>9 DEF NoAliasing, WithinPool
<1> QED  BY <1>1, <1>2, <1>7, <1>10, <1>11

LEMMA ConflictIInv == IInv /\ Conflict => IInv'
<1> SUFFICES ASSUME IInv, Conflict PROVE IInv'
  OBVIOUS
<1> USE DEF IInv
<1>1. /\ Covered' /\ Nodes' = Nodes /\ Produced' = Produced /\ Values' = Values
  BY SameRanges DEF Conflict
<1>2. best_offset' \in Nat
  <2>1. PICK j \in 1 .. i - 1 : best_offset' = offset[active[j]] + size_bytes[active[j]]
    BY DEF Conflict, Conflicts
  <2>2. active[j] \in DOMAIN offset /\ offset[active[j]] \in Nat
    BY DEF Placed
  <2>3. size_bytes[active[j]] \in Nat
    BY <2>2 DEF Placed, Typed
  <2> QED  BY <2>1, <2>2, <2>3
<1>3. Typed'
  BY <1>1, <1>2 DEF Typed, Conflict
<1>4. Collected' /\ Placed'
  BY <1>1 DEF Conflict, Collected, Placed
<1>5. NoAliasing' /\ WithinPool'
  BY DEF Conflict, NoAliasing, WithinPool, TimeOverlap
<1> QED  BY <1>1, <1>3, <1>4, <1>5

LEMMA FinalizeIInv == IInv /\ Finalize => IInv'
<1> SUFFICES ASSUME IInv, Finalize PROVE IInv'
  OBVIOUS
<1> USE DEF IInv
<1>1. /\ Covered' /\ Nodes' = Nodes /\ Produced' = Produced /\ Values' = Values
  BY SameRanges DEF Finalize
<1>2. Typed'
  BY <1>1 DEF Typed, Finalize
<1>3. Collected' /\ Placed'
  BY <1>1 DEF Finalize, Collected, Placed
<1>4. NoAliasing' /\ WithinPool'
  BY DEF Finalize, NoAliasing, WithinPool, TimeOverlap
<1> QED  BY <1>1, <1>2, <1>3, <1>4

LEMMA PlaceIInv == IInv /\ Place => IInv'
<1> SUFFICES ASSUME IInv, Place PROVE IInv'
  OBVIOUS
<1> USE DEF IInv
<1> DEFINE v == active[i]
           at == AlignUp(best_offset, alignment[v])
<1>1. /\ Covered' /\ Nodes' = Nodes /\ Produced' = Produced /\ Values' = Values
  BY SameRanges DEF Place
<1>2. /\ i \in DOMAIN active /\ i' = i + 1 /\ best_offset' = 0 /\ active' = active
      /\ size_bytes' = size_bytes /\ alignment' = alignment
      /\ first_use' = first_use /\ last_use' = last_use /\ pc' = pc /\ pc = "place"
      /\ Conflicts(v, at) = {}
      /\ offset' = [w \in DOMAIN offset \cup {v} |-> IF w = v THEN at ELSE offset[w]]
      /\ peak_pool_size' = IF at + size_bytes[v] > peak_pool_size THEN at + size_bytes[v]
                                                                   ELSE peak_pool_size
  BY DEF Place
<1>3. PICK m \in Nat : active \in Bijection(1 .. m, Produced)
  BY <1>2 DEF Collected
<1>4. v \in Produced /\ topo_idx \notin Nodes
  BY <1>2, <1>3 DEF Bijection, Injection, Collected
<1>5. size_bytes[v] \in Nat /\ alignment[v] \in Nat \ {0} /\ best_offset \in Nat
  BY <1>4 DEF Typed
<1>6. at \in Nat /\ \E k \in 0 .. at : at = k * alignment[v]
  BY <1>5, AlignUpMultiple, Zenon
<1> HIDE DEF v, at
<1>7. peak_pool_size' \in Nat /\ peak_pool_size <= peak_pool_size' /\ at + size_bytes[v] <= peak_pool_size'
  BY <1>2, <1>5, <1>6 DEF Typed
<1>8. i \in Nat \ {0} /\ i' \in Nat \ {0} /\ 1 .. i' - 1 = (1 .. i - 1) \cup {i}
  BY <1>2 DEF Typed
<1>9. Typed'
  <2>1. UNCHANGED <<graph, size_bytes, alignment, first_use, last_use, topo_idx>>
    BY DEF Place
  <2>2. best_offset' \in Nat /\ pc' \in {"liveness", "place", "planned"}
    BY ONLY <1>2
  <2> QED BY ONLY Typed, <2>1, <2>2, <1>1, <1>7, <1>8 DEF Typed
<1>10. Collected'
  BY <1>1, <1>2 DEF Collected, Place
<1>11. \A w \in DOMAIN offset : w \in Produced /\ offset[w] \in Nat /\ size_bytes[w] \in Nat
  BY DEF Placed, Typed
<1>12. DOMAIN offset' = DOMAIN offset \cup {v} /\ offset'[v] = at
  BY <1>2
<1>13. \A w \in DOMAIN offset : w # v => offset'[w] = offset[w]
  BY <1>2
<1>14. Placed'
  <2>1. {active[j] : j \in 1 .. i' - 1} = DOMAIN offset \cup {v}
    BY <1>8, Zenon DEF Placed, v
  <2>2. offset' \in [DOMAIN offset \cup {v} -> Nat]
    BY <1>2, <1>6, <1>11
  <2>3. DOMAIN offset \cup {v} \subseteq Produced
    BY <1>4, <1>11
  <2>4. \A j \in 1 .. i' - 1 : j \in DOMAIN active
    BY <1>2, <1>8 DEF Placed
  <2>5. offset' \in [{active'[j] : j \in 1 .. i' - 1} -> Nat]
    <3>1. active' = active
      BY ONLY <1>2
    <3>2. {active'[j] : j \in 1 .. i' - 1} = {active[j] : j \in 1 .. i' - 1}
      BY ONLY <3>1, Zenon
    <3> QED BY ONLY <2>1, <2>2, <3>2, Zenon
  <2>6. DOMAIN offset' \subseteq Produced'
    BY <1>1, <1>12, <2>3, Zenon
  <2>7. pc' # "planned"
    BY <1>2
  <2>8. \A j \in 1 .. i' - 1 : j \in DOMAIN active'
    BY <1>2, <2>4, Zenon
  <2> QED  BY <2>5, <2>6, <2>7, <2>8, Zenon DEF Placed
<1>15. ASSUME NEW w \in DOMAIN offset, TimeOverlap(v, w) \/ TimeOverlap(w, v)
       PROVE  at + size_bytes[v] <= offset[w] \/ offset[w] + size_bytes[w] <= at
  <2>1. PICK j \in 1 .. i - 1 : w = active[j]
    BY DEF Placed
  <2>2. /\ first_use[v] \in Nat /\ last_use[v] \in Nat
        /\ first_use[w] \in Nat /\ last_use[w] \in Nat
    BY ProducedLive, <1>4, <1>11
  <2>3. TimeOverlap(v, w)
    BY <1>15, <2>2 DEF TimeOverlap
  <2>4. ~ MemoryOverlap(v, at, w)
    BY <1>2, <2>1, <2>3 DEF Conflicts
  <2> QED  BY <2>4, <1>5, <1>6, <1>11 DEF MemoryOverlap
<1>16. NoAliasing'
  <2> SUFFICES ASSUME NEW x \in DOMAIN offset \cup {v}, NEW y \in DOMAIN offset \cup {v},
                      x # y, TimeOverlap(x, y)
               PROVE  \/ offset'[x] + size_bytes[x] <= offset'[y]
                      \/ offset'[y] + size_bytes[y] <= offset'[x]
    BY <1>2, <1>12 DEF NoAliasing, TimeOverlap
  <2>1. CASE x = v
    BY <2>1, <1>12, <1>13, <1>15
  <2>2. CASE y = v
    BY <2>2, <1>12, <1>13, <1>15
  <2>3. CASE x # v /\ y # v
    BY <2>3, <1>13 DEF NoAliasing
  <2> QED  BY <2>1, <2>2, <2>3
<1>17. WithinPool'
  <2> SUFFICES ASSUME NEW x \in DOMAIN offset \cup {v}
               PROVE  /\ \E k \in 0 .. offset'[x] : offset'[x] = k * alignment[x]
                      /\ offset'[x] + size_bytes[x] <= peak_pool_size'
    BY <1>2, <1>12, Zenon DEF WithinPool
  <2>1. CASE x = v
    BY <2>1, <1>6, <1>7, <1>12
  <2>2. CASE x # v
    <3>1. offset'[x] = offset[x] /\ x \in DOMAIN offset
      BY <2>2, <1>13
    <3>2. \E k \in 0 .. offset[x] : offset[x] = k * alignment[x]
      BY <3>1 DEF WithinPool
    <3>3. offset[x] + size_bytes[x] <= peak_pool_size
      BY <3>1 DEF WithinPool
    <3>4. offset[x] + size_bytes[x] \in Nat /\ peak_pool_size \in Nat
      BY <3>1, <1>11 DEF Typed
    <3> QED  BY <3>1, <3>2, <3>3, <3>4, <1>7
  <2> QED  BY <2>1, <2>2
<1> QED  BY <1>1, <1>9, <1>10, <1>14, <1>16, <1>17

-----------------------------------------------------------------------------

LEMMA Inductive == IInv /\ [Next]_vars => IInv'
<1> SUFFICES ASSUME IInv, [Next]_vars PROVE IInv'
  OBVIOUS
<1>1. CASE Liveness
  BY <1>1, LivenessIInv
<1>2. CASE Collect
  BY <1>2, CollectIInv
<1>3. CASE Conflict
  BY <1>3, ConflictIInv
<1>4. CASE Place
  BY <1>4, PlaceIInv
<1>5. CASE Finalize
  BY <1>5, FinalizeIInv
<1>6. CASE UNCHANGED vars
  <2> USE <1>6 DEF vars
  <2>1. Typed' /\ Covered'
    BY SameRanges DEF IInv, Typed
  <2>2. Nodes' = Nodes /\ Produced' = Produced
    BY DEF Nodes, Produced, Outputs
  <2>3. Collected' /\ Placed'
    BY <2>2 DEF IInv, Collected, Placed
  <2>4. NoAliasing' /\ WithinPool'
    BY DEF IInv, NoAliasing, WithinPool, TimeOverlap
  <2> QED  BY <2>1, <2>3, <2>4 DEF IInv
<1> QED  BY <1>1, <1>2, <1>3, <1>4, <1>5, <1>6 DEF Next

(* No reader of a planned value finds it overwritten, in the order of the plan. *)
LEMMA IInvReaders == IInv => ReadersSeeTheirInputs
<1> SUFFICES ASSUME IInv, pc = "planned" PROVE ReadersSeeTheirInputs
  BY DEF ReadersSeeTheirInputs
<1> USE DEF IInv
<1>1. PICK m \in Nat : active \in Bijection(1 .. m, Produced)
  BY DEF Collected
<1>2. /\ DOMAIN active = 1 .. m
      /\ \A x \in Produced : \E j \in 1 .. m : active[j] = x
  BY <1>1 DEF Bijection, Injection, Surjection
<1>3. i \notin 1 .. m /\ (\A j \in 1 .. i - 1 : j \in 1 .. m) /\ i \in Nat \ {0}
  BY <1>2 DEF Placed, Typed
<1>4. i = m + 1
  BY <1>3
<1>5. DOMAIN offset = Produced
  BY <1>2, <1>4 DEF Placed
<1>6. ASSUME NEW v \in Produced, NEW r \in Nodes, NEW n \in Nodes, NEW w \in Produced,
             v \in Range(graph.inputs[r]), w \in Outputs(n), w # v,
             NEW p \in Nodes, v \in Outputs(p), p <= n, n <= r
      PROVE  \/ offset[v] + size_bytes[v] <= offset[w]
             \/ offset[w] + size_bytes[w] <= offset[v]
  <2>1. topo_idx \notin Nodes
    BY DEF Collected
  <2>2. p \in Nat /\ n \in Nat /\ r \in Nat /\ p < topo_idx /\ n < topo_idx /\ r < topo_idx
    BY <2>1, ProducedLive
  <2>3. /\ first_use[v] \in Nat /\ last_use[v] \in Nat
        /\ first_use[w] \in Nat /\ last_use[w] \in Nat
    BY <2>1, ProducedLive
  <2>4. first_use[v] <= p
    BY <1>6, <2>2 DEF Covered, Used
  <2>5. r <= last_use[v]
    BY <1>6, <2>2 DEF Covered, Used
  <2>6. first_use[w] <= n /\ n <= last_use[w]
    BY <1>6, <2>2 DEF Covered, Used
  <2>7. TimeOverlap(v, w)
    BY <1>6, <2>2, <2>3, <2>4, <2>5, <2>6 DEF TimeOverlap
  <2> QED  BY <1>5, <1>6, <2>7 DEF NoAliasing
<1> QED  BY <1>5, <1>6 DEF ReadersSeeTheirInputs

(* The first-fit placement never gives overlapping buffers to two values that are live
   together, at any moment of planning. *)
THEOREM PlanNeverAliases == Spec => []NoAliasing
<1>1. IInv => NoAliasing
  BY DEF IInv
<1> QED  BY <1>1, InitIInv, Inductive, PTL DEF Spec

(* Every buffer the planner places is aligned and inside the pool it asks for. *)
THEOREM PlanWithinPool == Spec => []WithinPool
<1>1. IInv => WithinPool
  BY DEF IInv
<1> QED  BY <1>1, InitIInv, Inductive, PTL DEF Spec

(* A finished plan places every produced value, and a node run in the order the plan
   was made for overwrites no operand that it or a later node reads. *)
THEOREM PlanKeepsOperands == Spec => []ReadersSeeTheirInputs
BY IInvReaders, InitIInv, Inductive, PTL DEF Spec

(* The plan as a whole, for every graph, size and alignment: what the planner has
   placed never overlaps while both are live, lies in the pool, and reaches its
   readers. *)
THEOREM PlanIsSound == Spec => []PlacementSound
<1>1. IInv => PlacementSound
  BY IInvReaders DEF IInv, PlacementSound
<1> QED  BY <1>1, InitIInv, Inductive, PTL DEF Spec

-----------------------------------------------------------------------------

(* A value that a node reads and some node produces is produced by an earlier node. *)
Topological ==
    \A r \in Nodes : \A k \in DOMAIN graph.inputs[r] :
        graph.inputs[r][k] \in Produced =>
            \E p \in Nodes : graph.inputs[r][k] \in Outputs(p) /\ p < r

(* What the tasks run so far have written and a task to come reads is intact, and so
   is everything that no task writes. *)
RunKept ==
    /\ ran \in Nat
    /\ pc # "planned" => ran = 0
    /\ Values \ Produced \subseteq intact
    /\ \A p, r \in Nodes : \A v \in Outputs(p) :
          p < ran /\ ran <= r /\ v \in Range(graph.inputs[r]) => v \in intact

ExecIInv == IInv /\ Topological /\ RunKept

LEMMA InitTopological == ExecInit => Topological
<1> SUFFICES ASSUME ExecInit, NEW r \in Nodes, NEW k \in DOMAIN graph.inputs[r],
                    graph.inputs[r][k] \in Produced
             PROVE  \E p \in Nodes : graph.inputs[r][k] \in Outputs(p) /\ p < r
  BY DEF Topological
<1> DEFINE v == graph.inputs[r][k]
<1>1. deps = [n \in Nodes |-> Dependencies(n)] /\ SchedInit /\ graph \in Graphs
  BY DEF ExecInit, Init
<1>2. PICK n \in Nat : Nodes = 0 .. n - 1
  BY <1>1, GraphFacts
<1>3. ProducerOf(v) \in Nodes /\ v \in Outputs(ProducerOf(v))
  <2>1. \E p \in Nodes : v \in Outputs(p)
    BY DEF Produced
  <2> QED  BY <2>1, Zenon DEF ProducerOf
<1>4. k \in DOMAIN deps[r] /\ deps[r][k] = ProducerOf(v)
  BY <1>1 DEF Dependencies
<1>5. DOMAIN deps = 0 .. n - 1
  BY <1>1, <1>2
<1>6. num_tasks = n
  BY <1>5, FS_Interval DEF num_tasks
<1>7. Range(deps[r]) \subseteq 0 .. r - 1
  BY <1>1, <1>2, <1>6 DEF SchedInit, Tasks
<1>8. ProducerOf(v) \in 0 .. r - 1
  BY <1>4, <1>7 DEF Range
<1>9. ProducerOf(v) < r
  BY <1>2, <1>8
<1> QED  BY <1>3, <1>9

(* The task that runs next overwrites nothing that it or a later one reads. *)
LEMMA NotOverwritten ==
    ASSUME IInv, pc = "planned",
           NEW p \in Nodes, NEW n \in Nodes, NEW r \in Nodes, NEW v \in Outputs(p),
           v \in Range(graph.inputs[r]), p <= n, n <= r
    PROVE  v \notin Overwritten(n)
<1> SUFFICES ASSUME v \in Overwritten(n) PROVE FALSE
  OBVIOUS
<1>1. PICK w \in Outputs(n) : v # w /\ offset[v] < offset[w] + size_bytes[w]
                                   /\ offset[w] < offset[v] + size_bytes[v]
  BY DEF Overwritten
<1>2. v \in Produced /\ w \in Produced
  BY DEF Produced
<1>3. /\ DOMAIN offset = Produced
      /\ \/ offset[v] + size_bytes[v] <= offset[w]
         \/ offset[w] + size_bytes[w] <= offset[v]
  BY <1>1, <1>2, IInvReaders DEF ReadersSeeTheirInputs
<1>4. /\ offset[v] \in Nat /\ offset[w] \in Nat
      /\ size_bytes[v] \in Nat /\ size_bytes[w] \in Nat
  BY <1>2, <1>3 DEF IInv, Typed, Placed
<1> QED  BY <1>1, <1>3, <1>4

LEMMA RunTaskKept ==
    ASSUME ExecIInv, RunTask, Executor = "graph"
    PROVE  RunKept'
<1> USE DEF ExecIInv
<1>1. PICK n \in Nat : Nodes = 0 .. n - 1
  BY GraphFacts DEF IInv, Typed
<1>2. Cardinality(Nodes) = n
  BY <1>1, FS_Interval
<1>3. /\ ran \in Nodes /\ Order[ran + 1] = ran /\ ran \in Nat
      /\ pc = "planned" /\ UNCHANGED vars /\ ran' = ran + 1
      /\ intact' = (intact \ Overwritten(ran)) \cup Outputs(ran)
  <2>1. ran \in Nat /\ ran < n /\ pc = "planned" /\ UNCHANGED vars /\ ran' = ran + 1
    BY <1>2 DEF RunTask, Ready, RunKept
  <2>2. ran + 1 \in 1 .. n
    BY <2>1
  <2>3. Order[ran + 1] = ran
    BY <1>2, <2>1, <2>2 DEF Order
  <2> QED  BY <1>1, <2>1, <2>3 DEF RunTask
<1>4. Nodes' = Nodes /\ Produced' = Produced /\ Values' = Values /\ graph' = graph /\ pc' = pc
  BY <1>3 DEF vars, Nodes, Produced, Values, Outputs
<1>5. DOMAIN offset \subseteq Produced
  BY DEF IInv, Placed
<1>6. Values \ Produced \subseteq intact'
  BY <1>3, <1>5 DEF Overwritten, RunKept
<1>7. ASSUME NEW p \in Nodes, NEW r \in Nodes, NEW v \in Outputs(p),
             p < ran + 1, ran + 1 <= r, v \in Range(graph.inputs[r])
      PROVE  v \in intact'
  <2>1. p \in Nat /\ r \in Nat /\ ran <= r /\ p <= ran
    BY <1>1, <1>3, <1>7
  <2>2. CASE v \in Outputs(ran)
    BY <1>3, <2>2
  <2>3. CASE v \notin Outputs(ran)
    <3>1. p # ran
      BY <2>3
    <3>2. v \in intact
      BY <1>3, <1>7, <2>1, <3>1 DEF RunKept
    <3>3. v \notin Overwritten(ran)
      BY <1>3, <1>7, <2>1, NotOverwritten
    <3> QED  BY <1>3, <3>2, <3>3
  <2> QED  BY <2>2, <2>3
<1> QED  BY <1>3, <1>4, <1>6, <1>7 DEF RunKept, Outputs

(* Every step of the planners and of the graph executor keeps the operands to come. *)
LEMMA ExecInductive == Executor = "graph" /\ ExecIInv /\ [ExecNext]_execVars => ExecIInv'
<1> SUFFICES ASSUME Executor = "graph", ExecIInv, [ExecNext]_execVars PROVE ExecIInv'
  OBVIOUS
<1> USE DEF ExecIInv
<1>1. Next \/ UNCHANGED vars
  <2>1. CASE PlanMemory
    BY <2>1, Zenon DEF PlanMemory
  <2>2. CASE PlanTasks \/ RunTask \/ RunFails \/ RunEnd \/ RunAgain
    BY <2>2 DEF PlanTasks, RunTask, RunFails, RunEnd, RunAgain
  <2>3. CASE UNCHANGED execVars
    BY <2>3 DEF execVars
  <2> QED  BY <2>1, <2>2, <2>3, Zenon DEF ExecNext
<1>2. IInv'
  BY <1>1, Inductive
<1>3. graph' = graph
  BY <1>1 DEF Next, vars, Liveness, Collect, Conflict, Place, Finalize
<1>4. Nodes' = Nodes /\ Produced' = Produced /\ Values' = Values
  BY <1>3 DEF Nodes, Produced, Values, Outputs
<1>5. Topological'
  BY <1>3, <1>4 DEF Topological, Outputs
<1> SUFFICES RunKept'
  BY <1>2, <1>5
<1>6. CASE UNCHANGED runVars /\ (pc' = pc \/ pc # "planned")
  BY <1>3, <1>4, <1>6 DEF RunKept, Outputs, runVars
<1>7. CASE RunAgain
  <2>1. ran' = 0 /\ intact' = intact
    BY <1>7 DEF RunAgain
  <2>2. PICK n \in Nat : Nodes = 0 .. n - 1
    BY GraphFacts DEF IInv, Typed
  <2> QED  BY <1>3, <1>4, <2>1, <2>2 DEF RunKept, Outputs
<1>8. CASE RunFails \/ RunEnd
  BY <1>3, <1>4, <1>8 DEF RunKept, Outputs, RunFails, RunEnd, vars
<1>9. CASE PlanTasks \/ UNCHANGED execVars
  BY <1>6, <1>9 DEF PlanTasks, execVars, vars
<1>10. CASE PlanMemory
  <2>1. pc # "planned"
    BY <1>10 DEF PlanMemory, Next, Liveness, Collect, Conflict, Place, Finalize
  <2> QED  BY <1>6, <1>10, <2>1 DEF PlanMemory
<1>11. CASE RunTask
  BY <1>11, RunTaskKept
<1> QED  BY <1>7, <1>8, <1>9, <1>10, <1>11 DEF ExecNext

(* The graph executor gives every task its operands as their producers wrote them, in
   every run of every graph, whatever the sizes and alignments: the memory plan is made
   for the very order this executor walks. *)
THEOREM GraphExecutorKeepsOperands == Executor = "graph" /\ ExecSpec => []OperandsIntact
<1> SUFFICES ASSUME Executor = "graph" PROVE ExecSpec => []OperandsIntact
  OBVIOUS
<1>1. ExecInit => ExecIInv
  <2> SUFFICES ASSUME ExecInit PROVE RunKept
    BY InitIInv, InitTopological DEF ExecIInv, ExecInit
  <2>1. graph \in Graphs /\ ran = 0 /\ intact = Values \ Produced
    BY DEF ExecInit, Init
  <2>2. PICK n \in Nat : Nodes = 0 .. n - 1
    BY <2>1, GraphFacts
  <2> QED  BY ONLY <2>1, <2>2 DEF RunKept
<1>2. ExecIInv => OperandsIntact
  <2> SUFFICES ASSUME ExecIInv, pc = "planned", ran < Cardinality(Nodes),
                      NEW k \in DOMAIN graph.inputs[Order[ran + 1]]
               PROVE  graph.inputs[Order[ran + 1]][k] \in intact
    BY DEF OperandsIntact, Ready
  <2> USE DEF ExecIInv
  <2>1. PICK n \in Nat : Nodes = 0 .. n - 1
    BY GraphFacts DEF IInv, Typed
  <2>2. Cardinality(Nodes) = n
    BY <2>1, FS_Interval
  <2>3. ran \in Nat /\ ran < n /\ ran \in Nodes /\ Cardinality(Nodes) = n
    BY <2>1, <2>2 DEF RunKept
  <2>4. ran + 1 \in 1 .. n
    BY <2>3
  <2>5. Order[ran + 1] = ran
    BY <2>3, <2>4 DEF Order
  <2> DEFINE v == graph.inputs[ran][k]
  <2>6. v \in Range(graph.inputs[ran]) /\ k \in DOMAIN graph.inputs[ran]
    BY <2>5 DEF Range
  <2>7. CASE v \in Produced
    <3>1. PICK p \in Nodes : v \in Outputs(p) /\ p < ran
      BY <2>3, <2>6, <2>7 DEF Topological
    <3> QED  BY <2>3, <2>5, <2>6, <3>1 DEF RunKept
  <2>8. CASE v \notin Produced
    <3>1. v \in Values
      BY <2>3, <2>6 DEF Values
    <3> QED  BY <2>5, <2>8, <3>1 DEF RunKept
  <2> QED  BY <2>7, <2>8
<1>3. ExecIInv /\ [ExecNext]_execVars => ExecIInv'
  BY ExecInductive
<1> QED  BY <1>1, <1>2, <1>3, PTL DEF ExecSpec

(* Planning and running make both plans, as the modules of the planners say: what the
   theorems about them state holds of every execution. *)
THEOREM ExecutionMakesBothPlans == ExecSpec => Spec /\ SchedSpec
<1>1. ExecInit => Init /\ SchedInit
  BY DEF ExecInit
<1>2. [ExecNext]_execVars => [Next]_vars
  <2> SUFFICES ASSUME [ExecNext]_execVars PROVE [Next]_vars
    OBVIOUS
  <2>1. CASE PlanMemory
    BY <2>1 DEF PlanMemory
  <2>2. CASE PlanTasks \/ RunTask \/ RunFails \/ RunEnd \/ RunAgain
    BY <2>2 DEF PlanTasks, RunTask, RunFails, RunEnd, RunAgain
  <2>3. CASE UNCHANGED execVars
    BY <2>3 DEF execVars
  <2> QED  BY <2>1, <2>2, <2>3, Zenon DEF ExecNext
<1>3. [ExecNext]_execVars => [SchedNext]_schedulerVars
  <2> SUFFICES ASSUME [ExecNext]_execVars PROVE [SchedNext]_schedulerVars
    OBVIOUS
  <2>1. CASE PlanTasks
    BY <2>1 DEF PlanTasks
  <2>2. CASE PlanMemory \/ RunTask \/ RunFails \/ RunEnd \/ RunAgain
    BY <2>2 DEF PlanMemory, RunTask, RunFails, RunEnd, RunAgain
  <2>3. CASE UNCHANGED execVars
    BY <2>3 DEF execVars
  <2> QED  BY <2>1, <2>2, <2>3, Zenon DEF ExecNext
<1> QED  BY <1>1, <1>2, <1>3, PTL DEF ExecSpec, Spec, SchedSpec
=============================================================================
