--------------------------- MODULE SchedulerProofs ---------------------------
(***************************************************************************)
(* The execution plan of every graph of the builder is its levels: Kahn's  *)
(* algorithm over the ring loses no task, puts every task in the stage of  *)
(* its depth, and never ends in "Cycle detected".                          *)
(***************************************************************************)
EXTENDS Scheduler, FiniteSetTheorems, WellFoundedInduction, TLAPS

(* The place in the ring k places after its head. *)
Slot(k) == (head + k) % num_tasks

(* The k-th task in the ring, oldest first. *)
At(k) == task_ids[(head + k - 1) % num_tasks]

Popped(t) == execution_stage[t] # NoStage

(* The edge from p to t has been taken off t's in-degree. *)
Relaxed(p, t) == Popped(p) /\ (spc = "relax" /\ p = u => t < edge)

(* The inputs of t whose edges are not relaxed. *)
Open(t) == {k \in DOMAIN deps[t] : ~Relaxed(deps[t][k], t)}

(* The dependencies of t are in the stages below s, and one of them just below. *)
LevelIs(t, s) ==
    /\ \A k \in DOMAIN deps[t] : execution_stage[deps[t][k]] \in 0 .. s - 1
    /\ s > 0 => \E k \in DOMAIN deps[t] : execution_stage[deps[t][k]] = s - 1

InLevel == spc \in {"pop", "relax"}

(* The graph of the tasks: edges lead from smaller to larger ids. *)
DepsTyped ==
    /\ num_tasks \in Nat \ {0} /\ DOMAIN deps = Tasks
    /\ \A t \in Tasks : IsFiniteSet(DOMAIN deps[t])
    /\ \A t \in Tasks : \A k \in DOMAIN deps[t] : deps[t][k] \in 0 .. t - 1

SchedTyped ==
    /\ in_degree \in [Tasks -> Nat]
    /\ task_ids \in [Tasks -> Tasks] /\ head \in Tasks /\ tail \in Tasks /\ count \in 0 .. num_tasks
    /\ tail = Slot(count)
    /\ execution_stage \in [Tasks -> Nat \cup {NoStage}]
    /\ num_stages \in Nat /\ left \in 0 .. count /\ u \in Tasks /\ edge \in Tasks
    /\ sorted_order \in Seq(Tasks)
    /\ spc \in {"seed", "level", "pop", "relax", "planned", "cycle"}

(* The ring holds the tasks that are ready, each once. *)
Holds ==
    /\ \A j, k \in 1 .. count : At(j) = At(k) => j = k
    /\ \A k \in 1 .. count : in_degree[At(k)] = 0 /\ ~Popped(At(k))
    /\ \A k \in 1 .. count : spc = "seed" => At(k) < edge
    /\ \A t \in Tasks : in_degree[t] = 0 /\ ~Popped(t) /\ (spc = "seed" => t < edge)
                           => \E k \in 1 .. count : At(k) = t

(* The in-degree of a task counts its open edges, and a popped task has none. *)
Counted ==
    /\ \A t \in Tasks : in_degree[t] = Cardinality(Open(t))
    /\ \A t \in Tasks : Popped(t) => in_degree[t] = 0

(* Where the loops are. *)
Phases ==
    /\ spc = "seed" => num_stages = 0 /\ \A t \in Tasks : ~Popped(t)
    /\ ~InLevel => left = 0
    /\ spc \in {"level", "pop"} => edge = 0
    /\ spc = "relax" => Popped(u) /\ execution_stage[u] = num_stages
    /\ spc \in {"planned", "cycle"} => spc = "planned" /\ count = 0 /\ \A t \in Tasks : Popped(t)

(* Popped tasks are in the stage of their level, the tasks in the ring belong to the
   current level or, when pushed while it is popped, to the next. *)
Levelled ==
    /\ \A t \in Tasks : Popped(t) =>
          /\ LevelIs(t, execution_stage[t])
          /\ execution_stage[t] < num_stages \/ (InLevel /\ execution_stage[t] = num_stages)
    /\ \A k \in 1 .. count :
          LevelIs(At(k), IF InLevel /\ k > left THEN num_stages + 1 ELSE num_stages)

(* No stage is empty. *)
Filled ==
    IF InLevel THEN left > 0 \/ \E t \in Tasks : execution_stage[t] = num_stages
               ELSE num_stages > 0 => \E t \in Tasks : execution_stage[t] = num_stages - 1

(* The order lists the popped tasks, each once. *)
Listed ==
    /\ \A j, k \in 1 .. Len(sorted_order) : sorted_order[j] = sorted_order[k] => j = k
    /\ \A k \in 1 .. Len(sorted_order) : Popped(sorted_order[k])
    /\ \A t \in Tasks : Popped(t) => \E k \in 1 .. Len(sorted_order) : sorted_order[k] = t

SchedIInv ==
    /\ DepsTyped /\ SchedTyped
    /\ Holds /\ Counted /\ Phases /\ Levelled /\ Filled /\ Listed

-----------------------------------------------------------------------------

(* A position in the ring, written without the remainder. *)
LEMMA RingSlot ==
    ASSUME NEW c \in Nat \ {0}, NEW a \in 0 .. c - 1, NEW k \in 0 .. c
    PROVE  /\ (a + k) % c = IF a + k < c THEN a + k ELSE a + k - c
           /\ (a + k) % c \in 0 .. c - 1
  OBVIOUS

(* A non-empty set of naturals has a least element. *)
LEMMA LeastNatural ==
    ASSUME NEW T \in SUBSET Nat, T # {}
    PROVE  \E x \in T : \A y \in T : x <= y
<1> DEFINE R == OpToRel(<, Nat)
<1>1. IsWellFoundedOn(R, Nat)
  BY NatLessThanWellFounded
<1>2. \A x, y \in Nat : <<y, x>> \in R <=> y < x
  BY DEF OpToRel
<1> HIDE DEF R
<1>3. PICK x \in T : \A y \in T : ~ (<<y, x>> \in R)
  BY <1>1, WFMin, Zenon
<1>4. \A y \in T : ~ (y < x)
  BY <1>2, <1>3, Zenon
<1> QED  BY ONLY <1>4, T \in SUBSET Nat, x \in T

(* No step changes the graph of the tasks. *)
LEMMA SameDeps ==
    ASSUME DepsTyped, UNCHANGED deps
    PROVE  num_tasks' = num_tasks /\ Tasks' = Tasks /\ DepsTyped'
<1>1. num_tasks' = num_tasks
  BY DEF num_tasks
<1>2. Tasks' = Tasks
  BY <1>1 DEF Tasks
<1> QED  BY <1>1, <1>2 DEF DepsTyped

LEMMA AtTask ==
    ASSUME DepsTyped, SchedTyped, NEW k \in 1 .. count
    PROVE  At(k) \in Tasks
<1>1. num_tasks \in Nat \ {0} /\ head \in 0 .. num_tasks - 1 /\ k - 1 \in 0 .. num_tasks /\ count \in 0 .. num_tasks
  BY DEF DepsTyped, SchedTyped, Tasks
<1>2. (head + (k - 1)) % num_tasks \in 0 .. num_tasks - 1
  BY <1>1, RingSlot, Zenon
<1>3. head + k - 1 = head + (k - 1)
  BY <1>1
<1> QED  BY <1>2, <1>3 DEF At, SchedTyped, Tasks

(* A task that the ring does not hold finds room in it: no push is dropped. *)
LEMMA RoomFor ==
    ASSUME DepsTyped, SchedTyped, Holds, NEW t \in Tasks, \A k \in 1 .. count : At(k) # t
    PROVE  count < num_tasks
<1> DEFINE f == [k \in 1 .. count |-> At(k)]
<1>1. num_tasks \in Nat \ {0} /\ count \in 0 .. num_tasks
  BY DEF DepsTyped, SchedTyped
<1>2. f \in Injection(1 .. count, Tasks \ {t})
  BY AtTask DEF Injection, IsInjective, Holds
<1>3. IsFiniteSet(Tasks) /\ Cardinality(Tasks) = num_tasks
  BY <1>1, FS_Interval DEF Tasks
<1>4. IsFiniteSet(Tasks \ {t}) /\ Cardinality(Tasks \ {t}) = num_tasks - 1
  BY <1>3, FS_RemoveElement
<1>5. Cardinality(1 .. count) = count
  BY <1>1, FS_Interval
<1>6. Cardinality(1 .. count) <= Cardinality(Tasks \ {t})
  BY <1>2, <1>4, FS_Injection, Zenon
<1> QED  BY <1>1, <1>4, <1>5, <1>6

(* A push with room appends to the ring. *)
LEMMA PushAppends ==
    ASSUME DepsTyped, SchedTyped, NEW t \in Tasks, count < num_tasks,
           Push(t), UNCHANGED <<deps, head>>
    PROVE  /\ count' = count + 1 /\ count' \in 0 .. num_tasks
           /\ task_ids' \in [Tasks -> Tasks] /\ tail' \in Tasks
           /\ tail' = Slot(count)'
           /\ \A k \in 1 .. count : At(k)' = At(k)
           /\ \A k \in Nat : k = count + 1 => At(k)' = t
<1>1. /\ num_tasks \in Nat \ {0} /\ head \in 0 .. num_tasks - 1 /\ count \in 0 .. num_tasks /\ tail \in 0 .. num_tasks - 1
      /\ tail = (head + count) % num_tasks /\ head' = head /\ num_tasks' = num_tasks
      /\ task_ids \in [0 .. num_tasks - 1 -> Tasks] /\ Tasks = 0 .. num_tasks - 1
  BY SameDeps DEF DepsTyped, SchedTyped, Tasks, Slot
<1>2. /\ task_ids' = [task_ids EXCEPT ![tail] = t] /\ count' = count + 1
      /\ tail' = (tail + 1) % num_tasks
  BY DEF Push
<1>3. tail = IF head + count < num_tasks THEN head + count ELSE head + count - num_tasks
  BY <1>1, RingSlot, Zenon
<1>4. tail' = IF tail + 1 < num_tasks THEN tail + 1 ELSE tail + 1 - num_tasks
  <2>1. 1 \in 0 .. num_tasks
    BY <1>1
  <2> QED  BY <1>1, <1>2, <2>1, RingSlot, Zenon
<1>5. (head + count') % num_tasks = IF head + count' < num_tasks THEN head + count' ELSE head + count' - num_tasks
  <2>1. count' \in 0 .. num_tasks
    BY <1>1, <1>2
  <2> QED  BY <1>1, <2>1, RingSlot, Zenon
<1>6. tail' = (head + count') % num_tasks
  <2> DEFINE q == (head + count') % num_tasks
  <2>1. /\ num_tasks \in Nat \ {0} /\ head \in 0 .. num_tasks - 1 /\ count \in 0 .. num_tasks - 1 /\ tail \in 0 .. num_tasks - 1
        /\ count' = count + 1
    BY <1>1, <1>2
  <2>2. q = IF head + count' < num_tasks THEN head + count' ELSE head + count' - num_tasks
    BY <1>5
  <2> HIDE DEF q
  <2>3. tail' = q
    BY ONLY <1>3, <1>4, <2>1, <2>2
  <2> QED  BY <2>3 DEF q
<1>7. ASSUME NEW k \in 1 .. count PROVE At(k)' = At(k)
  <2>1. head + k - 1 = head + (k - 1) /\ k - 1 \in 0 .. num_tasks /\ k - 1 < count
    BY <1>1
  <2>2. (head + (k - 1)) % num_tasks = IF head + (k - 1) < num_tasks THEN head + (k - 1) ELSE head + (k - 1) - num_tasks
    BY <1>1, <2>1, RingSlot, Zenon
  <2>3. (head + (k - 1)) % num_tasks # tail
    <3> DEFINE q == (head + (k - 1)) % num_tasks
    <3>1. num_tasks \in Nat \ {0} /\ head \in 0 .. num_tasks - 1 /\ count \in 0 .. num_tasks - 1 /\ k \in 1 .. count
      BY <1>1
    <3>2. q = IF head + (k - 1) < num_tasks THEN head + (k - 1) ELSE head + (k - 1) - num_tasks
      BY <2>2
    <3> HIDE DEF q
    <3>3. q # tail
      BY ONLY <1>3, <3>1, <3>2
    <3> QED  BY <3>3 DEF q
  <2>4. At(k)' = task_ids'[(head + (k - 1)) % num_tasks] /\ At(k) = task_ids[(head + (k - 1)) % num_tasks]
    BY <1>1, <2>1 DEF At
  <2> QED  BY <1>1, <1>2, <2>3, <2>4
<1>8. ASSUME NEW k \in Nat, k = count + 1 PROVE At(k)' = t
  <2>1. head + k - 1 = head + count
    BY <1>1, <1>8
  <2>2. At(k)' = task_ids'[tail]
    BY <1>1, <2>1 DEF At
  <2> QED  BY <1>1, <1>2, <2>2
<1>9. count' \in 0 .. num_tasks /\ tail' \in 0 .. num_tasks - 1
  BY ONLY <1>1, <1>2, <1>4, count < num_tasks
<1>10. task_ids' \in [Tasks -> Tasks]
  BY <1>1, <1>2
<1>11. tail' = Slot(count)'
  BY <1>1, <1>6 DEF Slot
<1> QED  BY <1>1, <1>2, <1>7, <1>8, <1>9, <1>10, <1>11

(* A pop takes the oldest task. *)
LEMMA PopShifts ==
    ASSUME DepsTyped, SchedTyped, count > 0,
           head' = (head + 1) % num_tasks, count' = count - 1, UNCHANGED <<deps, task_ids, tail>>
    PROVE  /\ task_ids[head] = At(1) /\ head' \in Tasks /\ count' \in 0 .. num_tasks
           /\ tail' = Slot(count)'
           /\ \A k \in 1 .. count' : At(k)' = At(k + 1)
<1>1. /\ num_tasks \in Nat \ {0} /\ head \in 0 .. num_tasks - 1 /\ count \in 0 .. num_tasks /\ tail \in 0 .. num_tasks - 1
      /\ tail = (head + count) % num_tasks /\ num_tasks' = num_tasks /\ Tasks = 0 .. num_tasks - 1
  BY SameDeps DEF DepsTyped, SchedTyped, Tasks, Slot
<1>2. head' = IF head + 1 < num_tasks THEN head + 1 ELSE head + 1 - num_tasks
  <2>1. 1 \in 0 .. num_tasks
    BY <1>1
  <2> QED  BY <1>1, <2>1, RingSlot, Zenon
<1>3. task_ids[head] = At(1)
  <2>1. head + 1 - 1 = head + 0 /\ head + 0 = head
    BY <1>1
  <2>2. (head + 0) % num_tasks = head
    <3>1. 0 \in 0 .. num_tasks
      BY <1>1
    <3>2. (head + 0) % num_tasks = IF head + 0 < num_tasks THEN head + 0 ELSE head + 0 - num_tasks
      BY <1>1, <3>1, RingSlot, Zenon
    <3> QED  BY ONLY <1>1, <3>2
  <2> QED  BY <2>1, <2>2 DEF At
<1>4. \A k \in 0 .. num_tasks - 1 : (head' + k) % num_tasks = (head + (k + 1)) % num_tasks
  <2> TAKE k \in 0 .. num_tasks - 1
  <2>1. (head + (k + 1)) % num_tasks = IF head + (k + 1) < num_tasks THEN head + (k + 1) ELSE head + (k + 1) - num_tasks
    <3>1. k + 1 \in 0 .. num_tasks
      BY <1>1
    <3> QED  BY <1>1, <3>1, RingSlot, Zenon
  <2>2. (head' + k) % num_tasks = IF head' + k < num_tasks THEN head' + k ELSE head' + k - num_tasks
    <3>1. k \in 0 .. num_tasks /\ head' \in 0 .. num_tasks - 1
      BY <1>1, <1>2
    <3> QED  BY <1>1, <3>1, RingSlot, Zenon
  <2> QED  BY ONLY <1>1, <1>2, <2>1, <2>2, k \in 0 .. num_tasks - 1
<1>5. tail' = (head' + count') % num_tasks
  <2>1. count - 1 \in 0 .. num_tasks - 1 /\ (count - 1) + 1 = count
    BY <1>1
  <2> QED  BY <1>1, <1>4, <2>1
<1>6. ASSUME NEW k \in 1 .. count' PROVE At(k)' = At(k + 1)
  <2>1. k - 1 \in 0 .. num_tasks - 1 /\ (k - 1) + 1 = k
    BY <1>1
  <2>2. (head' + (k - 1)) % num_tasks = (head + k) % num_tasks
    BY <1>4, <2>1
  <2>3. head' + k - 1 = head' + (k - 1) /\ head + (k + 1) - 1 = head + k
    BY <1>1, <1>2, <2>1
  <2> QED  BY <1>1, <2>2, <2>3 DEF At
<1>7. head' \in Tasks /\ count' \in 0 .. num_tasks
  BY <1>1, <1>2
<1>8. tail' = Slot(count)'
  BY <1>1, <1>5 DEF Slot
<1> QED  BY <1>3, <1>6, <1>7, <1>8

(* The stages of a task's level do not change when another task is popped. *)
LEMMA LevelStable ==
    ASSUME DepsTyped, SchedTyped, UNCHANGED deps, NEW x \in Tasks, NEW s \in Nat, LevelIs(x, s),
           \A p \in Tasks : Popped(p) => execution_stage'[p] = execution_stage[p]
    PROVE  LevelIs(x, s)'
<1>1. \A k \in DOMAIN deps[x] : deps[x][k] \in Tasks
  BY DEF DepsTyped, Tasks
<1>2. \A k \in DOMAIN deps[x] : Popped(deps[x][k])
  BY SchedulerAssumption DEF LevelIs, Popped
<1>3. \A k \in DOMAIN deps[x] : execution_stage'[deps[x][k]] = execution_stage[deps[x][k]]
  BY <1>1, <1>2
<1> QED  BY <1>3 DEF LevelIs

(* The index of the loops over the tasks runs to the last one and back to 0. *)
LEMMA NextEdge ==
    ASSUME DepsTyped, SchedTyped, edge' = (edge + 1) % num_tasks
    PROVE  \/ edge + 1 = num_tasks /\ edge' = 0
           \/ edge + 1 < num_tasks /\ edge' = edge + 1
<1>1. num_tasks \in Nat \ {0} /\ edge \in 0 .. num_tasks - 1 /\ 1 \in 0 .. num_tasks
  BY DEF DepsTyped, SchedTyped, Tasks
<1>2. edge' = IF edge + 1 < num_tasks THEN edge + 1 ELSE edge + 1 - num_tasks
  BY <1>1, RingSlot, Zenon
<1> QED  BY ONLY <1>1, <1>2

LEMMA SeedIInv ==
    ASSUME SchedIInv, Seed
    PROVE  SchedIInv'
<1> USE DEF SchedIInv
<1>1. /\ UNCHANGED <<deps, in_degree, head, execution_stage, num_stages, left, u, sorted_order>>
      /\ num_tasks' = num_tasks /\ Tasks' = Tasks /\ DepsTyped' /\ num_tasks \in Nat \ {0} /\ edge \in Tasks
  <2>1. UNCHANGED <<deps, in_degree, head, execution_stage, num_stages, left, u, sorted_order>>
    BY DEF Seed
  <2> QED  BY <2>1, SameDeps DEF SchedTyped, DepsTyped
<1>2. /\ spc = "seed" /\ num_stages = 0 /\ left = 0 /\ ~InLevel
      /\ \A t \in Tasks : ~Popped(t)
  BY DEF Seed, Phases, InLevel
<1>3. \/ edge + 1 = num_tasks /\ edge' = 0 /\ spc' = "level"
      \/ edge + 1 < num_tasks /\ edge' = edge + 1 /\ spc' = "seed"
  <2>1. edge' = (edge + 1) % num_tasks /\ spc' = IF edge + 1 = num_tasks THEN "level" ELSE spc
    BY DEF Seed
  <2>2. num_tasks \in Nat /\ edge \in 0 .. num_tasks - 1
    BY <1>1 DEF Tasks
  <2> QED  BY <1>2, <2>1, <2>2, NextEdge
<1>4. /\ edge' \in Tasks /\ ~InLevel'
      /\ \A t \in Tasks : (spc' = "seed" => t < edge') <=> t <= edge
  BY <1>1, <1>3 DEF Tasks, InLevel
<1>5. \A t \in Tasks : ~Popped(t)'
  BY <1>1, <1>2 DEF Popped
<1>6. \A t \in Tasks : Open(t) = DOMAIN deps[t] /\ Open(t)' = DOMAIN deps[t]
  <2>1. \A t \in Tasks : \A k \in DOMAIN deps[t] : deps[t][k] \in Tasks
    BY <1>1 DEF DepsTyped, Tasks
  <2> QED  BY <1>1, <1>2, <1>5, <2>1 DEF Open, Relaxed
<1>7. Counted'
  BY <1>1, <1>5, <1>6 DEF Counted
<1>8. Phases' /\ Filled' /\ Listed'
  <2>1. Phases'
    BY <1>1, <1>2, <1>3, <1>4, <1>5 DEF Phases
  <2>2. Filled'
    BY <1>1, <1>2, <1>4 DEF Filled
  <2>3. Listed'
    BY <1>1, <1>2, <1>5 DEF Listed, Popped
  <2> QED  BY <2>1, <2>2, <2>3
<1>9. \A x \in Tasks : LevelIs(x, 0) => LevelIs(x, 0)'
  BY <1>1 DEF LevelIs
<1>10. CASE in_degree[edge] = 0
  <2>1. \A k \in 1 .. count : At(k) # edge /\ At(k) \in Tasks /\ At(k) < edge
    BY <1>1, <1>2, AtTask DEF Holds, Tasks
  <2>2. count < num_tasks
    BY <1>1, <2>1, RoomFor
  <2>3. Push(edge)
    BY <1>10 DEF Seed
  <2>4. /\ count' = count + 1 /\ count' \in 0 .. num_tasks
        /\ task_ids' \in [Tasks -> Tasks] /\ tail' \in Tasks
        /\ tail' = Slot(count)'
        /\ \A k \in 1 .. count : At(k)' = At(k)
        /\ \A k \in Nat : k = count + 1 => At(k)' = edge
    BY <1>1, <2>2, <2>3, PushAppends
  <2>5. /\ count \in Nat
        /\ \A k \in 1 .. count' : k \in 1 .. count \/ (k = count + 1 /\ At(k)' = edge)
    BY <2>4 DEF SchedTyped
  <2>6. SchedTyped'
    BY <1>1, <1>2, <1>3, <1>4, <2>4 DEF SchedTyped
  <2>7. Holds'
    <3>1. \A j, k \in 1 .. count' : At(j)' = At(k)' => j = k
      BY <2>1, <2>4, <2>5 DEF Holds
    <3>2. \A k \in 1 .. count' : in_degree'[At(k)'] = 0 /\ ~Popped(At(k))'
      BY <1>1, <1>2, <1>10, <2>1, <2>4, <2>5 DEF Holds, Popped
    <3>3. \A k \in 1 .. count' : spc' = "seed" => At(k)' < edge'
      <4>1. \A k \in 1 .. count' : At(k)' \in Tasks /\ At(k)' <= edge
        <5>1. \A t \in Tasks : t < edge \/ t = edge => t <= edge
          BY <1>1 DEF Tasks
        <5> QED  BY <1>1, <2>1, <2>4, <2>5, <5>1
      <4> QED  BY <1>4, <4>1
    <3>4. \A t \in Tasks : in_degree'[t] = 0 /\ t <= edge => \E k \in 1 .. count' : At(k)' = t
      <4> TAKE t \in Tasks
      <4>1. CASE t = edge
        <5>1. count + 1 \in 1 .. count' /\ count + 1 \in Nat
          BY <2>4, <2>5
        <5> QED  BY <2>4, <4>1, <5>1
      <4>2. ASSUME in_degree'[t] = 0, t <= edge, t # edge PROVE \E k \in 1 .. count' : At(k)' = t
        <5>1. t < edge
          BY <1>1, <4>2 DEF Tasks
        <5>2. PICK k \in 1 .. count : At(k) = t
          BY <1>1, <1>2, <4>2, <5>1 DEF Holds
        <5> QED  BY <2>4, <2>5, <5>2
      <4> QED  BY <4>1, <4>2
    <3> QED  BY <1>1, <1>4, <3>1, <3>2, <3>3, <3>4 DEF Holds
  <2>8. Levelled'
    <3>1. LevelIs(edge, 0)
      <4>1. DOMAIN deps[edge] = {}
        BY <1>1, <1>6, <1>10, FS_EmptySet DEF Counted, DepsTyped
      <4> QED  BY <4>1 DEF LevelIs
    <3>2. \A k \in 1 .. count : LevelIs(At(k), 0)
      BY <1>2 DEF Levelled
    <3>3. \A k \in 1 .. count' : LevelIs(At(k), 0)' 
      BY <1>1, <1>9, <2>1, <2>4, <2>5, <3>1, <3>2
    <3> QED  BY <1>1, <1>2, <1>4, <1>5, <3>3 DEF Levelled
  <2> QED  BY <1>1, <1>7, <1>8, <2>6, <2>7, <2>8
<1>11. CASE in_degree[edge] # 0
  <2>1. UNCHANGED <<task_ids, tail, count>>
    BY <1>11 DEF Seed
  <2>2. \A k \in 1 .. count : At(k)' = At(k)
    BY <1>1, <2>1 DEF At
  <2>3. \A k \in 1 .. count : At(k) \in Tasks
    BY AtTask
  <2>4. SchedTyped'
    <3>1. Slot(count)' = Slot(count)
      BY <1>1, <2>1 DEF Slot
    <3> QED  BY <1>1, <1>2, <1>3, <1>4, <2>1, <3>1 DEF SchedTyped
  <2>5. Holds'
    <3>1. \A k \in 1 .. count : At(k) <= edge
      BY <1>1, <1>2, <2>3 DEF Holds, Tasks
    <3>2. \A t \in Tasks : t <= edge /\ in_degree[t] = 0 => t < edge
      BY <1>1, <1>11 DEF Tasks
    <3> QED  BY <1>1, <1>2, <1>4, <1>5, <2>1, <2>2, <2>3, <3>1, <3>2 DEF Holds
  <2>6. Levelled'
    BY <1>1, <1>2, <1>4, <1>5, <1>9, <2>1, <2>2, <2>3 DEF Levelled
  <2> QED  BY <1>1, <1>7, <1>8, <2>4, <2>5, <2>6
<1> QED  BY <1>10, <1>11

LEMMA LevelBeginIInv ==
    ASSUME SchedIInv, LevelBegin
    PROVE  SchedIInv'
<1> USE DEF SchedIInv
<1>1. /\ UNCHANGED <<deps, in_degree, task_ids, head, tail, count, execution_stage, num_stages, u, edge, sorted_order>>
      /\ spc = "level" /\ spc' = "pop" /\ count > 0 /\ left' = count
  BY DEF LevelBegin, ring
<1>2. num_tasks' = num_tasks /\ Tasks' = Tasks /\ DepsTyped' /\ count \in Nat
  BY <1>1, SameDeps DEF SchedTyped
<1>3. \A k \in 1 .. count : At(k)' = At(k) /\ At(k) \in Tasks
  BY <1>1, <1>2, AtTask DEF At
<1>4. \A t \in Tasks : Popped(t)' = Popped(t) /\ Open(t)' = Open(t)
  BY <1>1 DEF Popped, Open, Relaxed
<1>5. SchedTyped'
  <2>1. Slot(count)' = Slot(count)
    BY <1>1, <1>2 DEF Slot
  <2> QED  BY <1>1, <1>2, <2>1 DEF SchedTyped
<1>6. Holds'
  BY <1>1, <1>2, <1>3 DEF Holds, Popped
<1>7. Counted'
  BY <1>1, <1>2, <1>4 DEF Counted
<1>8. Phases' /\ Filled' /\ Listed'
  BY <1>1, <1>2 DEF Phases, Filled, Listed, InLevel, Popped
<1>9. Levelled'
  <2>1. \A t \in Tasks : \A s \in Nat : LevelIs(t, s)' = LevelIs(t, s)
    BY <1>1 DEF LevelIs
  <2>2. ~InLevel /\ InLevel'
    BY <1>1 DEF InLevel
  <2>3. \A t \in Tasks : Popped(t) => execution_stage[t] \in Nat
    BY DEF SchedTyped, Popped
  <2>4. ASSUME NEW t \in Tasks, Popped(t)
        PROVE  LevelIs(t, execution_stage[t]) /\ execution_stage[t] < num_stages
    BY <2>2, <2>4 DEF Levelled
  <2>5. ASSUME NEW t \in Tasks, Popped(t)' PROVE LevelIs(t, execution_stage[t])'
    BY <1>1, <1>4, <2>5, <2>3, <2>4 DEF LevelIs
  <2>6. ASSUME NEW k \in 1 .. count PROVE LevelIs(At(k), num_stages)'
    <3>1. LevelIs(At(k), num_stages)
      BY <2>2 DEF Levelled
    <3> QED  BY <1>1, <1>3, <3>1 DEF LevelIs
  <2>7. \A k \in 1 .. count : ~(k > left')
    BY <1>1, <1>2
  <2> QED  BY <1>1, <1>2, <1>4, <2>2, <2>4, <2>5, <2>6, <2>7 DEF Levelled
<1> QED  BY <1>2, <1>5, <1>6, <1>7, <1>8, <1>9

LEMMA LevelEndIInv ==
    ASSUME SchedIInv, LevelEnd
    PROVE  SchedIInv'
<1> USE DEF SchedIInv
<1>1. /\ UNCHANGED <<deps, in_degree, task_ids, head, tail, count, execution_stage, left, u, edge, sorted_order>>
      /\ spc = "pop" /\ spc' = "level" /\ left = 0 /\ num_stages' = num_stages + 1
  BY DEF LevelEnd, ring
<1>2. num_tasks' = num_tasks /\ Tasks' = Tasks /\ DepsTyped' /\ count \in Nat /\ num_stages \in Nat
  BY <1>1, SameDeps DEF SchedTyped
<1>3. \A k \in 1 .. count : At(k)' = At(k) /\ At(k) \in Tasks
  BY <1>1, <1>2, AtTask DEF At
<1>4. \A t \in Tasks : Popped(t)' = Popped(t) /\ Open(t)' = Open(t)
  BY <1>1 DEF Popped, Open, Relaxed
<1>5. SchedTyped'
  <2>1. Slot(count)' = Slot(count)
    BY <1>1, <1>2 DEF Slot
  <2> QED  BY <1>1, <1>2, <2>1 DEF SchedTyped
<1>6. Holds'
  BY <1>1, <1>2, <1>3 DEF Holds, Popped
<1>7. Counted'
  BY <1>1, <1>2, <1>4 DEF Counted
<1>8. Phases' /\ Filled' /\ Listed'
  BY <1>1, <1>2 DEF Phases, Filled, Listed, InLevel, Popped
<1>9. Levelled'
  <2>1. InLevel /\ ~InLevel'
    BY <1>1 DEF InLevel
  <2>2. \A t \in Tasks : Popped(t) => execution_stage[t] \in Nat
    BY DEF SchedTyped, Popped
  <2>3. ASSUME NEW t \in Tasks, Popped(t)
        PROVE  LevelIs(t, execution_stage[t]) /\ execution_stage[t] < num_stages'
    BY <1>1, <1>2, <2>2, <2>3 DEF Levelled
  <2>4. ASSUME NEW t \in Tasks, Popped(t)' PROVE LevelIs(t, execution_stage[t])'
    BY <1>1, <1>4, <2>3, <2>4 DEF LevelIs
  <2>5. ASSUME NEW k \in 1 .. count PROVE LevelIs(At(k), num_stages)'
    <3>1. k > left
      BY <1>1, <1>2
    <3>2. LevelIs(At(k), num_stages + 1)
      BY <2>1, <3>1 DEF Levelled
    <3> QED  BY <1>1, <1>3, <3>2 DEF LevelIs
  <2> QED  BY <1>1, <1>2, <1>4, <2>1, <2>3, <2>4, <2>5 DEF Levelled
<1> QED  BY <1>2, <1>5, <1>6, <1>7, <1>8, <1>9

LEMMA PopIInv ==
    ASSUME SchedIInv, Pop
    PROVE  SchedIInv'
<1> USE DEF SchedIInv
<1> DEFINE t == At(1)
<1>1. /\ UNCHANGED <<deps, in_degree, task_ids, tail, num_stages, edge>>
      /\ spc = "pop" /\ spc' = "relax" /\ left > 0 /\ left' = left - 1
      /\ head' = (head + 1) % num_tasks /\ count' = count - 1
      /\ u' = task_ids[head]
      /\ sorted_order' = Append(sorted_order, u')
      /\ execution_stage' = [execution_stage EXCEPT ![u'] = num_stages]
  BY DEF Pop
<1>2. /\ num_tasks' = num_tasks /\ Tasks' = Tasks /\ DepsTyped' /\ count \in Nat /\ num_stages \in Nat
      /\ left \in 1 .. count /\ count > 0 /\ 1 \in 1 .. count /\ edge = 0 /\ InLevel /\ InLevel'
  <2>1. num_tasks' = num_tasks /\ Tasks' = Tasks /\ DepsTyped'
    BY <1>1, SameDeps
  <2>2. num_tasks \in Nat /\ count \in 0 .. num_tasks /\ left \in 0 .. count /\ num_stages \in Nat
    BY DEF SchedTyped, DepsTyped
  <2>3. edge = 0 /\ InLevel /\ InLevel'
    BY <1>1 DEF Phases, InLevel
  <2>4. left > 0
    BY <1>1
  <2>5. left \in 1 .. count /\ count > 0 /\ 1 \in 1 .. count /\ count \in Nat
    BY ONLY <2>2, <2>4
  <2> QED  BY <2>1, <2>2, <2>3, <2>5
<1>3. /\ u' = t /\ head' \in Tasks /\ count' \in 0 .. num_tasks
      /\ tail' = Slot(count)'
      /\ \A k \in 1 .. count' : At(k)' = At(k + 1)
  <2>1. /\ DepsTyped /\ SchedTyped /\ count > 0 /\ head' = (head + 1) % num_tasks /\ count' = count - 1
        /\ UNCHANGED <<deps, task_ids, tail>>
    BY <1>1, <1>2
  <2>2. /\ task_ids[head] = At(1) /\ head' \in Tasks /\ count' \in 0 .. num_tasks
        /\ tail' = Slot(count)'
        /\ \A k \in 1 .. count' : At(k)' = At(k + 1)
    BY ONLY <2>1, PopShifts
  <2> QED  BY <1>1, <2>2
<1>4. \A k \in 1 .. count : At(k) \in Tasks
  BY AtTask
<1>5. t \in Tasks /\ ~Popped(t) /\ in_degree[t] = 0
  BY <1>2, <1>4 DEF Holds
<1> HIDE DEF t
<1>6. /\ execution_stage' \in [Tasks -> Nat \cup {NoStage}] /\ execution_stage'[t] = num_stages
      /\ \A s \in Tasks : s # t => execution_stage'[s] = execution_stage[s]
  BY <1>1, <1>2, <1>3, <1>5 DEF SchedTyped
<1>7. \A s \in Tasks : Popped(s)' <=> Popped(s) \/ s = t
  BY <1>2, <1>6, SchedulerAssumption DEF Popped
<1>8. \A s \in Tasks : Popped(s) => s # t
  BY <1>5
<1>9. SchedTyped'
  <2>1. sorted_order' \in Seq(Tasks)
    BY <1>1, <1>3, <1>5 DEF SchedTyped
  <2>2. left' \in 0 .. count'
    BY <1>1, <1>2
  <2>3. SchedTyped /\ UNCHANGED <<in_degree, task_ids, tail, num_stages, edge>> /\ spc' = "relax"
    BY <1>1
  <2>4. u' \in Tasks
    BY <1>3, <1>5
  <2> QED  BY ONLY <1>2, <1>3, <1>6, <2>1, <2>2, <2>3, <2>4 DEF SchedTyped
<1>10. \A k \in 1 .. count' : k \in 1 .. count /\ k + 1 \in 1 .. count /\ At(k + 1) # t
  BY <1>1, <1>2 DEF Holds, t
<1>11. Holds'
  <2>1. \A j, k \in 1 .. count' : At(j)' = At(k)' => j = k
    <3> TAKE j, k \in 1 .. count'
    <3>1. j + 1 \in 1 .. count /\ k + 1 \in 1 .. count /\ At(j)' = At(j + 1) /\ At(k)' = At(k + 1)
      BY <1>3, <1>10
    <3>2. At(j + 1) = At(k + 1) => j + 1 = k + 1
      BY <3>1 DEF Holds
    <3>3. j \in Nat /\ k \in Nat
      BY <1>3
    <3> QED  BY <3>1, <3>2, <3>3
  <2>2. \A k \in 1 .. count' : in_degree'[At(k)'] = 0 /\ ~Popped(At(k))'
    <3> TAKE k \in 1 .. count'
    <3>1. k + 1 \in 1 .. count /\ At(k)' = At(k + 1) /\ At(k + 1) \in Tasks /\ At(k + 1) # t
      BY <1>3, <1>4, <1>10
    <3>2. in_degree[At(k + 1)] = 0 /\ ~Popped(At(k + 1))
      BY <3>1 DEF Holds
    <3> QED  BY <1>1, <1>6, <3>1, <3>2 DEF Popped
  <2>3. ASSUME NEW s \in Tasks, in_degree[s] = 0, ~Popped(s), s # t
        PROVE  \E k \in 1 .. count' : At(k)' = s
    <3>1. PICK k \in 1 .. count : At(k) = s
      BY <1>1, <2>3 DEF Holds
    <3>2. k # 1
      BY <2>3, <3>1 DEF t
    <3>3. k - 1 \in 1 .. count' /\ (k - 1) + 1 = k
      BY <1>1, <1>2, <3>2
    <3> QED  BY <1>3, <3>1, <3>3
  <2> QED  BY <1>1, <1>2, <1>7, <2>1, <2>2, <2>3 DEF Holds
<1>12. Counted'
  <2>1. \A s \in Tasks : Open(s)' = Open(s)
    <3>1. ASSUME NEW s \in Tasks, NEW p \in Tasks PROVE Relaxed(p, s)' <=> Relaxed(p, s)
      <4>1. ~(s < 0)
        BY <1>2 DEF DepsTyped, Tasks
      <4>2. Relaxed(p, s) <=> Popped(p)
        BY <1>1 DEF Relaxed
      <4>3. Relaxed(p, s)' <=> Popped(p)' /\ p # t
        BY <1>1, <1>2, <1>3, <4>1 DEF Relaxed
      <4> QED  BY <1>7, <1>8, <4>2, <4>3
    <3>2. \A s \in Tasks : \A k \in DOMAIN deps[s] : deps[s][k] \in Tasks
      BY <1>2 DEF DepsTyped, Tasks
    <3> QED  BY <1>1, <3>1, <3>2 DEF Open
  <2> QED  BY <1>1, <1>2, <1>5, <1>7, <2>1 DEF Counted
<1>13. Phases'
  <2>1. Popped(u)' /\ execution_stage'[u'] = num_stages'
    BY <1>1, <1>2, <1>3, <1>6, SchedulerAssumption DEF Popped
  <2> QED  BY <1>1, <1>2, <2>1 DEF Phases
<1>14. Filled'
  BY <1>1, <1>2, <1>5, <1>6 DEF Filled
<1>15. Levelled'
  <2>1. ASSUME NEW x \in Tasks, NEW s \in Nat, LevelIs(x, s) PROVE LevelIs(x, s)'
    BY <1>1, <1>6, <1>8, <2>1, LevelStable
  <2>2. LevelIs(t, num_stages)
    <3>1. ~(1 > left)
      BY <1>2
    <3> QED  BY <1>2, <3>1 DEF Levelled, t
  <2>3. ASSUME NEW x \in Tasks, Popped(x)', NEW s \in Nat, execution_stage'[x] = s
        PROVE  LevelIs(x, s)' /\ s <= num_stages
    <3>1. CASE x = t
      BY <1>2, <1>6, <2>1, <2>2, <2>3, <3>1
    <3>2. CASE x # t
      <4>1. Popped(x) /\ execution_stage[x] = s
        BY <1>6, <1>7, <2>3, <3>2
      <4>2. LevelIs(x, s) /\ s <= num_stages
        BY <1>2, <2>3, <4>1 DEF Levelled
      <4> QED  BY <2>1, <2>3, <4>2
    <3> QED  BY <3>1, <3>2
  <2>4. ASSUME NEW x \in Tasks, Popped(x)'
        PROVE  /\ LevelIs(x, execution_stage[x])'
               /\ (execution_stage[x] < num_stages \/ (InLevel /\ execution_stage[x] = num_stages))'
    <3>1. execution_stage'[x] \in Nat
      BY <1>6, <2>4 DEF Popped
    <3>2. PICK s \in Nat : execution_stage'[x] = s
      BY <3>1
    <3>3. LevelIs(x, s)' /\ s <= num_stages
      BY <2>3, <2>4, <3>2
    <3> QED  BY <1>1, <1>2, <3>2, <3>3 DEF LevelIs
  <2>5. ASSUME NEW k \in 1 .. count'
        PROVE  LevelIs(At(k), IF InLevel /\ k > left THEN num_stages + 1 ELSE num_stages)'
    <3> DEFINE s == IF k > left' THEN num_stages + 1 ELSE num_stages
    <3>1. k + 1 \in 1 .. count /\ At(k)' = At(k + 1) /\ At(k + 1) \in Tasks /\ s \in Nat
      BY <1>2, <1>3, <1>4, <1>10
    <3>2. k + 1 > left <=> k > left'
      BY <1>1, <1>2, <3>1
    <3>3. LevelIs(At(k + 1), s)
      BY <1>2, <3>1, <3>2 DEF Levelled
    <3>4. PICK y \in Tasks, z \in Nat : y = At(k + 1) /\ z = s
      BY <3>1
    <3>5. LevelIs(y, z)'
      BY <2>1, <3>3, <3>4
    <3>6. /\ (IF InLevel /\ k > left THEN num_stages + 1 ELSE num_stages)' = z
          /\ At(k)' = y
      BY <1>1, <1>2, <3>1, <3>4
    <3> HIDE DEF s
    <3> QED  BY <3>5, <3>6 DEF LevelIs
  <2> QED  BY <1>2, <2>4, <2>5 DEF Levelled
<1>16. Listed'
  <2> DEFINE n == Len(sorted_order)
  <2>1. /\ n \in Nat /\ Len(sorted_order') = n + 1 /\ sorted_order'[n + 1] = t
        /\ \A k \in 1 .. n : sorted_order'[k] = sorted_order[k] /\ sorted_order[k] \in Tasks
    BY <1>1, <1>3, <1>5 DEF SchedTyped
  <2>2. \A k \in 1 .. n : Popped(sorted_order[k]) /\ sorted_order[k] # t
    BY <1>8, <2>1 DEF Listed
  <2>3. \A k \in 1 .. n + 1 : k \in 1 .. n \/ k = n + 1
    BY <2>1
  <2>4. \A j, k \in 1 .. n : sorted_order[j] = sorted_order[k] => j = k
    BY DEF Listed
  <2>5. \A s \in Tasks : Popped(s) => \E k \in 1 .. n : sorted_order[k] = s
    BY DEF Listed
  <2> HIDE DEF n
  <2>6. \A j, k \in 1 .. n + 1 : sorted_order'[j] = sorted_order'[k] => j = k
    BY ONLY <2>1, <2>2, <2>3, <2>4
  <2>7. \A k \in 1 .. n + 1 : Popped(sorted_order[k])'
    <3>1. \A k \in 1 .. n + 1 : /\ sorted_order'[k] \in Tasks
                                /\ Popped(sorted_order'[k]) \/ sorted_order'[k] = t
      BY <1>5, <2>1, <2>2, <2>3
    <3> QED  BY <1>2, <1>6, <1>8, <3>1, SchedulerAssumption DEF Popped
  <2>8. \A s \in Tasks : Popped(s) \/ s = t => \E k \in 1 .. n + 1 : sorted_order'[k] = s
    <3>1. n + 1 \in 1 .. n + 1 /\ \A k \in 1 .. n : k \in 1 .. n + 1
      BY <2>1
    <3> QED  BY <2>1, <2>5, <3>1
  <2> QED  BY <1>2, <1>7, <2>1, <2>6, <2>7, <2>8 DEF Listed
<1> QED  BY <1>2, <1>9, <1>11, <1>12, <1>13, <1>14, <1>15, <1>16

(* What relaxing the edges from u to the task at edge does to the in-degrees. *)
LEMMA RelaxCounts ==
    ASSUME SchedIInv, Relax
    PROVE  LET D == {k \in DOMAIN deps[edge] : deps[edge][k] = u}
           IN  /\ UNCHANGED <<deps, head, execution_stage, num_stages, left, u, sorted_order>>
               /\ spc = "relax" /\ InLevel /\ InLevel'
               /\ \/ edge + 1 = num_tasks /\ edge' = 0 /\ spc' = "pop"
                  \/ edge + 1 < num_tasks /\ edge' = edge + 1 /\ spc' = "relax"
               /\ \A t \in Tasks : t # edge => in_degree'[t] = in_degree[t] /\ Open(t)' = Open(t)
               /\ Open(edge) \ D = {k \in DOMAIN deps[edge] : ~Popped(deps[edge][k])}
               /\ \A t \in Tasks : t = edge => Open(t)' = Open(t) \ D
               /\ in_degree' \in [Tasks -> Nat]
               /\ in_degree'[edge] = Cardinality(Open(edge) \ D)
               /\ D # {} => in_degree[edge] > 0
               /\ D = {} => in_degree' = in_degree
               /\ IF D # {} /\ in_degree'[edge] = 0
                  THEN Push(edge) ELSE UNCHANGED <<task_ids, tail, count>>
<1> USE DEF SchedIInv
<1> DEFINE D == {k \in DOMAIN deps[edge] : deps[edge][k] = u}
<1>1. /\ UNCHANGED <<deps, head, execution_stage, num_stages, left, u, sorted_order>>
      /\ spc = "relax" /\ spc' = (IF edge + 1 = num_tasks THEN "pop" ELSE spc) /\ edge' = (edge + 1) % num_tasks
      /\ in_degree' = [in_degree EXCEPT ![edge] = @ - Edges(u, edge)]
      /\ IF Edges(u, edge) > 0 /\ in_degree'[edge] = 0
         THEN Push(edge) ELSE UNCHANGED <<task_ids, tail, count>>
  BY DEF Relax
<1>2. num_tasks \in Nat \ {0} /\ edge \in 0 .. num_tasks - 1 /\ edge \in Tasks /\ u \in Tasks /\ Popped(u)
  BY <1>1 DEF DepsTyped, SchedTyped, Phases, Tasks
<1>3. \/ edge + 1 = num_tasks /\ edge' = 0 /\ spc' = "pop"
      \/ edge + 1 < num_tasks /\ edge' = edge + 1 /\ spc' = "relax"
  BY <1>1, <1>2, NextEdge
<1>4. InLevel /\ InLevel'
  BY <1>1, <1>3 DEF InLevel
<1>5. IsFiniteSet(DOMAIN deps[edge]) /\ Edges(u, edge) = Cardinality(D)
  BY <1>2 DEF DepsTyped, Edges
<1>6. \A p \in Tasks : Popped(p)' <=> Popped(p)
  BY <1>1 DEF Popped
<1>7. \A t \in Tasks : \A k \in DOMAIN deps[t] : deps[t][k] \in Tasks
  BY <1>2 DEF DepsTyped, Tasks
<1>8. ASSUME NEW t \in Tasks, NEW p \in Tasks
      PROVE  Relaxed(p, t)' <=> Relaxed(p, t) \/ (p = u /\ t = edge)
  <2>1. CASE p # u
    BY <1>1, <1>6, <2>1 DEF Relaxed
  <2>2. CASE p = u
    <3>1. Relaxed(p, t) <=> t < edge
      BY <1>1, <1>2, <2>2 DEF Relaxed
    <3>2. Relaxed(p, t)' <=> (spc' = "relax" => t < edge')
      BY <1>1, <1>2, <1>6, <2>2 DEF Relaxed
    <3>3. t \in 0 .. num_tasks - 1
      BY DEF Tasks
    <3>4. (spc' = "relax" => t < edge') <=> t < edge \/ t = edge
      BY <1>2, <1>3, <3>3
    <3> QED  BY <2>2, <3>1, <3>2, <3>4
  <2> QED  BY <2>1, <2>2
<1>9. \A t \in Tasks : t # edge => Open(t)' = Open(t)
  BY <1>1, <1>7, <1>8 DEF Open
<1>10. \A t \in Tasks : t = edge => Open(t)' = Open(t) \ D
  BY <1>1, <1>7, <1>8 DEF Open
<1>11. D \subseteq Open(edge)
  <2>1. ~Relaxed(u, edge)
    BY <1>1, <1>2 DEF Relaxed
  <2> QED  BY <2>1 DEF Open
<1>12. Open(edge) \ D = {k \in DOMAIN deps[edge] : ~Popped(deps[edge][k])}
  <2>1. \A p \in Tasks : p # u => (Relaxed(p, edge) <=> Popped(p))
    BY DEF Relaxed
  <2>2. \A p \in Tasks : Relaxed(p, edge) => Popped(p)
    BY DEF Relaxed
  <2> QED  BY <1>2, <1>7, <2>1, <2>2 DEF Open
<1>13. IsFiniteSet(Open(edge)) /\ IsFiniteSet(D)
  <2>1. Open(edge) \subseteq DOMAIN deps[edge] /\ D \subseteq DOMAIN deps[edge]
    BY DEF Open
  <2> QED  BY <1>5, <2>1, FS_Subset, Zenon
<1>14. in_degree[edge] = Cardinality(Open(edge))
  BY <1>2 DEF Counted
<1> HIDE DEF D
<1>15. Open(edge) \cap D = D
  BY <1>11
<1>16. Cardinality(Open(edge) \ D) = Cardinality(Open(edge)) - Cardinality(D)
  BY <1>13, <1>15, FS_Difference
<1>17. /\ Cardinality(D) \in Nat /\ Cardinality(Open(edge)) \in Nat
       /\ Cardinality(Open(edge) \ D) \in Nat
       /\ Cardinality(D) = 0 <=> D = {}
  BY <1>13, FS_CardinalityType, FS_EmptySet, FS_Difference
<1>18. in_degree' = [in_degree EXCEPT ![edge] = Cardinality(Open(edge) \ D)]
  BY <1>1, <1>5, <1>14, <1>16
<1>19. in_degree \in [Tasks -> Nat]
  BY DEF SchedTyped
<1>20. /\ in_degree' \in [Tasks -> Nat]
       /\ in_degree'[edge] = Cardinality(Open(edge) \ D)
       /\ \A t \in Tasks : t # edge => in_degree'[t] = in_degree[t]
  BY <1>2, <1>17, <1>18, <1>19
<1>21. D # {} => in_degree[edge] > 0
  BY <1>14, <1>16, <1>17
<1>22. D = {} => in_degree' = in_degree
  <2>1. D = {} => in_degree'[edge] = in_degree[edge]
    BY <1>14, <1>16, <1>17, <1>20
  <2> QED  BY <1>2, <1>18, <1>19, <1>20, <2>1
<1>23. Edges(u, edge) > 0 <=> D # {}
  BY <1>5, <1>17
<1> QED  BY <1>1, <1>3, <1>4, <1>9, <1>10, <1>12, <1>20, <1>21, <1>22, <1>23 DEF D

LEMMA RelaxIInv ==
    ASSUME SchedIInv, Relax
    PROVE  SchedIInv'
<1> USE DEF SchedIInv
<1> DEFINE D == {k \in DOMAIN deps[edge] : deps[edge][k] = u}
<1> DEFINE pushed == D # {} /\ in_degree'[edge] = 0
<1>1. /\ UNCHANGED <<deps, head, execution_stage, num_stages, left, u, sorted_order>>
      /\ spc = "relax" /\ InLevel /\ InLevel'
      /\ \/ edge + 1 = num_tasks /\ edge' = 0 /\ spc' = "pop"
         \/ edge + 1 < num_tasks /\ edge' = edge + 1 /\ spc' = "relax"
      /\ in_degree' \in [Tasks -> Nat]
      /\ D # {} => in_degree[edge] > 0
      /\ D = {} => in_degree' = in_degree
      /\ IF pushed THEN Push(edge) ELSE UNCHANGED <<task_ids, tail, count>>
  BY RelaxCounts
<1>2. /\ \A t \in Tasks : t # edge => in_degree'[t] = in_degree[t] /\ Open(t)' = Open(t)
      /\ Open(edge) \ D = {k \in DOMAIN deps[edge] : ~Popped(deps[edge][k])}
      /\ \A t \in Tasks : t = edge => Open(t)' = Open(t) \ D
      /\ in_degree'[edge] = Cardinality(Open(edge) \ D)
  BY RelaxCounts
<1>3. /\ num_tasks' = num_tasks /\ Tasks' = Tasks /\ DepsTyped' /\ num_tasks \in Nat \ {0} /\ edge \in 0 .. num_tasks - 1
      /\ edge \in Tasks /\ edge' \in Tasks /\ count \in 0 .. num_tasks /\ left \in 0 .. count
      /\ num_stages \in Nat /\ in_degree \in [Tasks -> Nat]
  <2>1. num_tasks' = num_tasks /\ Tasks' = Tasks /\ DepsTyped'
    BY <1>1, SameDeps
  <2>2. /\ num_tasks \in Nat \ {0} /\ edge \in 0 .. num_tasks - 1 /\ count \in 0 .. num_tasks /\ left \in 0 .. count
        /\ num_stages \in Nat /\ in_degree \in [Tasks -> Nat]
    BY DEF SchedTyped, DepsTyped, Tasks
  <2> QED  BY <1>1, <2>1, <2>2 DEF Tasks
<1>4. \A t \in Tasks : Popped(t)' <=> Popped(t)
  BY <1>1 DEF Popped
<1>5. D # {} => ~Popped(edge) /\ \A k \in 1 .. count : At(k) # edge
  BY <1>1, <1>3 DEF Counted, Holds
<1> HIDE DEF D
<1>6. Counted'
  <2>1. \A t \in Tasks : in_degree'[t] = Cardinality(Open(t)')
    BY <1>2, <1>3 DEF Counted
  <2>2. \A t \in Tasks : Popped(t) => in_degree'[t] = 0
    BY <1>1, <1>2, <1>3, <1>5 DEF Counted
  <2> QED  BY <1>3, <1>4, <2>1, <2>2 DEF Counted
<1>7. Phases'
  <2>1. Popped(u) /\ execution_stage[u] = num_stages
    BY <1>1 DEF Phases
  <2> QED  BY <1>1, <2>1 DEF Phases, Popped
<1>8. Filled' /\ Listed'
  BY <1>1, <1>3 DEF Filled, Listed, Popped
<1>9. ASSUME NEW t \in Tasks, Popped(t)'
      PROVE  /\ LevelIs(t, execution_stage[t])'
             /\ (execution_stage[t] < num_stages \/ (InLevel /\ execution_stage[t] = num_stages))'
  <2>1. LevelIs(t, execution_stage[t])
    BY <1>4, <1>9 DEF Levelled
  <2>2. execution_stage[t] < num_stages \/ execution_stage[t] = num_stages
    BY <1>4, <1>9 DEF Levelled
  <2> QED  BY <1>1, <2>1, <2>2 DEF LevelIs
<1>10. \A k \in 1 .. count : At(k) \in Tasks
  BY AtTask
<1>11. \A k \in 1 .. count : LevelIs(At(k), IF k > left THEN num_stages + 1 ELSE num_stages)
  BY <1>1 DEF Levelled
<1>12. CASE pushed
  <2>1. count < num_tasks
    BY <1>3, <1>5, <1>12, RoomFor
  <2>2. /\ count' = count + 1 /\ count' \in 0 .. num_tasks
        /\ task_ids' \in [Tasks -> Tasks] /\ tail' \in Tasks
        /\ tail' = Slot(count)'
        /\ \A k \in 1 .. count : At(k)' = At(k)
        /\ \A k \in Nat : k = count + 1 => At(k)' = edge
    <3>1. Push(edge) /\ UNCHANGED <<deps, head>>
      BY <1>1, <1>12
    <3> QED  BY <1>3, <2>1, <3>1, PushAppends
  <2>3. /\ count \in Nat /\ left \in 0 .. count' /\ count + 1 > left
        /\ \A k \in 1 .. count' : k \in 1 .. count \/ (k = count + 1 /\ At(k)' = edge)
    BY <1>3, <2>2
  <2>4. SchedTyped'
    BY <1>1, <1>3, <2>2, <2>3 DEF SchedTyped
  <2>5. Holds'
    <3>1. \A j, k \in 1 .. count' : At(j)' = At(k)' => j = k
      BY <1>5, <1>12, <2>2, <2>3 DEF Holds
    <3>2. \A k \in 1 .. count' : in_degree'[At(k)'] = 0 /\ ~Popped(At(k))'
      <4>1. \A k \in 1 .. count : in_degree'[At(k)] = 0 /\ ~Popped(At(k))
        BY <1>2, <1>5, <1>10, <1>12 DEF Holds
      <4> QED  BY <1>1, <1>5, <1>12, <2>2, <2>3, <4>1 DEF Popped
    <3>3. ASSUME NEW t \in Tasks, in_degree'[t] = 0, ~Popped(t)
          PROVE  \E k \in 1 .. count' : At(k)' = t
      <4>1. CASE t = edge
        <5>1. count + 1 \in 1 .. count' /\ count + 1 \in Nat
          BY <2>2, <2>3
        <5> QED  BY <2>2, <4>1, <5>1
      <4>2. CASE t # edge
        <5>1. PICK k \in 1 .. count : At(k) = t
          BY <1>1, <1>2, <3>3, <4>2 DEF Holds
        <5> QED  BY <2>2, <2>3, <5>1
      <4> QED  BY <4>1, <4>2
    <3> QED  BY <1>1, <1>3, <1>4, <3>1, <3>2, <3>3 DEF Holds
  <2>6. Levelled'
    <3>1. LevelIs(edge, num_stages + 1)
      <4>1. {k \in DOMAIN deps[edge] : ~Popped(deps[edge][k])} = {}
        <5>1. IsFiniteSet({k \in DOMAIN deps[edge] : ~Popped(deps[edge][k])})
          BY <1>3, FS_Subset DEF DepsTyped
        <5> QED  BY <1>2, <1>12, <5>1, FS_EmptySet
      <4>2. \A k \in DOMAIN deps[edge] : deps[edge][k] \in Tasks
        BY <1>3 DEF DepsTyped, Tasks
      <4>3. \A p \in Tasks : Popped(p) => execution_stage[p] \in Nat /\ execution_stage[p] <= num_stages
        <5> SUFFICES ASSUME NEW p \in Tasks, Popped(p)
                     PROVE  execution_stage[p] \in Nat /\ execution_stage[p] <= num_stages
          OBVIOUS
        <5>1. execution_stage[p] \in Nat
          BY DEF SchedTyped, Popped
        <5>2. execution_stage[p] < num_stages \/ execution_stage[p] = num_stages
          BY DEF Levelled
        <5> QED  BY <1>3, <5>1, <5>2
      <4>4. \A k \in DOMAIN deps[edge] : execution_stage[deps[edge][k]] \in 0 .. num_stages
        BY <1>3, <4>1, <4>2, <4>3
      <4>5. \E k \in DOMAIN deps[edge] : execution_stage[deps[edge][k]] = num_stages
        <5>1. PICK k \in DOMAIN deps[edge] : deps[edge][k] = u
          BY <1>12 DEF D
        <5> QED  BY <1>1, <5>1 DEF Phases
      <4>6. (num_stages + 1) - 1 = num_stages
        BY <1>3
      <4> QED  BY <4>4, <4>5, <4>6 DEF LevelIs
    <3>2. ASSUME NEW k \in 1 .. count'
          PROVE  LevelIs(At(k), IF InLevel /\ k > left THEN num_stages + 1 ELSE num_stages)'
      <4>1. CASE k \in 1 .. count
        <5>1. LevelIs(At(k), IF k > left THEN num_stages + 1 ELSE num_stages) /\ At(k)' = At(k)
          BY <1>11, <2>2, <4>1
        <5> QED  BY <1>1, <5>1 DEF LevelIs
      <4>2. CASE k = count + 1
        <5>1. At(k)' = edge /\ k > left
          BY <2>2, <2>3, <4>2
        <5> QED  BY <1>1, <3>1, <5>1 DEF LevelIs
      <4> QED  BY <2>3, <4>1, <4>2
    <3> QED  BY <1>3, <1>9, <3>2 DEF Levelled
  <2> QED  BY <1>3, <1>6, <1>7, <1>8, <2>4, <2>5, <2>6
<1>13. CASE ~pushed
  <2>1. UNCHANGED <<task_ids, tail, count>>
    BY <1>1, <1>13
  <2>2. \A k \in 1 .. count : At(k)' = At(k)
    BY <1>1, <1>3, <2>1 DEF At
  <2>3. SchedTyped'
    <3>1. Slot(count)' = Slot(count)
      BY <1>1, <1>3, <2>1 DEF Slot
    <3> QED  BY <1>1, <1>3, <2>1, <3>1 DEF SchedTyped
  <2>4. \A t \in Tasks : in_degree'[t] = 0 <=> in_degree[t] = 0
    <3>1. CASE D = {}
      BY <1>1, <3>1
    <3>2. CASE D # {}
      <4>1. in_degree[edge] # 0 /\ in_degree'[edge] # 0
        BY <1>1, <1>13, <3>2
      <4> QED  BY <1>2, <4>1
    <3> QED  BY <3>1, <3>2
  <2>5. Holds'
    <3>1. \A k \in 1 .. count : in_degree'[At(k)'] = 0 /\ ~Popped(At(k))'
      <4>1. \A k \in 1 .. count : in_degree'[At(k)] = 0 /\ ~Popped(At(k))
        BY <1>10, <2>4 DEF Holds
      <4> QED  BY <1>1, <2>2, <4>1 DEF Popped
    <3>2. \A t \in Tasks : in_degree'[t] = 0 /\ ~Popped(t) => \E k \in 1 .. count : At(k)' = t
      BY <1>1, <2>2, <2>4 DEF Holds
    <3>3. \A j, k \in 1 .. count : At(j)' = At(k)' => j = k
      BY <2>2 DEF Holds
    <3> QED  BY <1>1, <1>3, <1>4, <2>1, <3>1, <3>2, <3>3 DEF Holds
  <2>6. Levelled'
    <3>1. ASSUME NEW k \in 1 .. count
          PROVE  LevelIs(At(k), IF InLevel /\ k > left THEN num_stages + 1 ELSE num_stages)'
      <4>1. LevelIs(At(k), IF k > left THEN num_stages + 1 ELSE num_stages) /\ At(k)' = At(k)
        BY <1>11, <2>2
      <4> QED  BY <1>1, <4>1 DEF LevelIs
    <3> QED  BY <1>3, <1>9, <2>1, <3>1 DEF Levelled
  <2> QED  BY <1>3, <1>6, <1>7, <1>8, <2>3, <2>5, <2>6
<1> QED  BY <1>12, <1>13

LEMMA FinishIInv ==
    ASSUME SchedIInv, Finish
    PROVE  SchedIInv'
<1> USE DEF SchedIInv
<1>1. /\ UNCHANGED <<deps, in_degree, task_ids, head, tail, count, execution_stage, num_stages, left, u, edge, sorted_order>>
      /\ spc = "level" /\ count = 0 /\ ~InLevel
      /\ spc' = IF Len(sorted_order) = num_tasks THEN "planned" ELSE "cycle"
  BY DEF Finish, ring, InLevel
<1>2. num_tasks' = num_tasks /\ Tasks' = Tasks /\ DepsTyped' /\ num_tasks \in Nat \ {0} /\ ~InLevel'
  BY <1>1, SameDeps DEF DepsTyped, InLevel
<1>3. \A t \in Tasks : Popped(t)
  <2> SUFFICES ASSUME NEW x \in Tasks, ~Popped(x) PROVE FALSE
    OBVIOUS
  <2> DEFINE T == {t \in Tasks : ~Popped(t)}
  <2>1. T \in SUBSET Nat /\ T # {}
    BY DEF Tasks
  <2>2. PICK t \in T : \A y \in T : t <= y
    BY <2>1, LeastNatural
  <2>3. \A k \in DOMAIN deps[t] : deps[t][k] \in Tasks /\ Popped(deps[t][k])
    <3> SUFFICES ASSUME NEW k \in DOMAIN deps[t] PROVE deps[t][k] \in Tasks /\ Popped(deps[t][k])
      OBVIOUS
    <3>1. t \in 0 .. num_tasks - 1 /\ deps[t][k] \in 0 .. t - 1
      BY <2>2 DEF DepsTyped, Tasks
    <3>2. deps[t][k] \in Tasks /\ ~(t <= deps[t][k])
      BY <1>2, <3>1 DEF Tasks
    <3> QED  BY <2>2, <3>2
  <2>4. Open(t) = {}
    BY <1>1, <2>3 DEF Open, Relaxed
  <2>5. in_degree[t] = 0
    BY <2>2, <2>4, FS_EmptySet DEF Counted
  <2>6. \E k \in 1 .. count : At(k) = t
    BY <1>1, <2>2, <2>5 DEF Holds
  <2> QED  BY <1>1, <2>6
<1>4. Len(sorted_order) = num_tasks
  <2> DEFINE n == Len(sorted_order)
  <2>1. n \in Nat /\ sorted_order \in [1 .. n -> Tasks]
    BY DEF SchedTyped
  <2>2. sorted_order \in Injection(1 .. n, Tasks)
    BY <2>1 DEF Injection, IsInjective, Listed
  <2>3. sorted_order \in Surjection(1 .. n, Tasks)
    BY <1>3, <2>1 DEF Surjection, Listed
  <2> HIDE DEF n
  <2>4. IsFiniteSet(Tasks) /\ Cardinality(Tasks) = num_tasks
    BY <1>2, FS_Interval DEF Tasks
  <2>5. Cardinality(1 .. n) = n
    BY <2>1, FS_Interval
  <2>6. n = num_tasks
    BY <2>2, <2>3, <2>4, <2>5, FS_Injection
  <2> QED  BY <2>6 DEF n
<1>5. Phases'
  BY <1>1, <1>2, <1>3, <1>4 DEF Phases, Popped
<1>6. SchedTyped'
  <2>1. Slot(count)' = Slot(count)
    BY <1>1, <1>2 DEF Slot
  <2> QED  BY <1>1, <1>2, <2>1 DEF SchedTyped
<1>7. Holds'
  BY <1>1, <1>2, <1>3, <1>4 DEF Holds, Popped
<1>8. Counted'
  BY <1>1, <1>2, <1>4 DEF Counted, Popped, Open, Relaxed
<1>9. Levelled'
  <2>1. 1 .. count' = {}
    BY <1>1, <1>2
  <2>2. \A t \in Tasks : Popped(t)' =>
           LevelIs(t, execution_stage[t])' /\ execution_stage[t] < num_stages
    <3>1. \A t \in Tasks : Popped(t)' => LevelIs(t, execution_stage[t]) /\ execution_stage[t] < num_stages
      BY <1>1, <1>2 DEF Levelled, Popped
    <3> QED  BY <1>1, <3>1 DEF LevelIs
  <2> QED  BY <1>1, <1>2, <2>1, <2>2 DEF Levelled
<1>10. Filled' /\ Listed'
  BY <1>1, <1>2 DEF Filled, Listed, Popped
<1> QED  BY <1>2, <1>5, <1>6, <1>7, <1>8, <1>9, <1>10

LEMMA InitSched == SchedInit => SchedIInv
<1> SUFFICES ASSUME SchedInit PROVE SchedIInv
  OBVIOUS
<1>1. SchedInit
  OBVIOUS
<1>2. PICK n \in 1 .. MaxTasks :
         deps \in [0 .. n - 1 -> UNION {[D -> 0 .. n - 1] : D \in SUBSET (1 .. MaxDeps)}]
  BY <1>1 DEF SchedInit
<1>3. n \in Nat \ {0} /\ DOMAIN deps = 0 .. n - 1
  BY <1>2, SchedulerAssumption
<1>4. num_tasks = n /\ Tasks = 0 .. n - 1
  BY <1>3, FS_Interval DEF num_tasks, Tasks
<1>5. ASSUME NEW t \in Tasks
      PROVE  /\ IsFiniteSet(DOMAIN deps[t])
             /\ \A k \in DOMAIN deps[t] : deps[t][k] \in 0 .. t - 1
  <2>1. PICK D \in SUBSET (1 .. MaxDeps) : deps[t] \in [D -> 0 .. n - 1]
    BY <1>2, <1>4
  <2>2. IsFiniteSet(1 .. MaxDeps)
    BY SchedulerAssumption, FS_Interval
  <2>3. IsFiniteSet(D)
    BY <2>1, <2>2, FS_Subset, Zenon
  <2>4. Range(deps[t]) \subseteq 0 .. t - 1
    BY <1>1, <1>4 DEF SchedInit
  <2> QED  BY <2>1, <2>3, <2>4 DEF Range
<1>6. DepsTyped
  BY <1>3, <1>4, <1>5 DEF DepsTyped
<1>7. /\ in_degree = [t \in Tasks |-> Cardinality(DOMAIN deps[t])]
      /\ task_ids = [t \in Tasks |-> 0] /\ head = 0 /\ tail = 0 /\ count = 0
      /\ execution_stage = [t \in Tasks |-> NoStage]
      /\ num_stages = 0 /\ left = 0 /\ u = 0 /\ edge = 0 /\ sorted_order = <<>>
      /\ spc = "seed"
  BY <1>1, <1>4 DEF SchedInit
<1>8. \A t \in Tasks : ~Popped(t) /\ Open(t) = DOMAIN deps[t]
  <2>1. \A t \in Tasks : ~Popped(t)
    BY <1>7 DEF Popped
  <2>2. \A t \in Tasks : \A k \in DOMAIN deps[t] : deps[t][k] \in Tasks
    BY <1>3, <1>4, <1>5
  <2> QED  BY <2>1, <2>2 DEF Open, Relaxed
<1>9. SchedTyped
  <2>1. in_degree \in [Tasks -> Nat]
    BY <1>5, <1>7, FS_CardinalityType
  <2>2. 0 \in Tasks /\ (0 + 0) % n = 0
    BY <1>3, <1>4
  <2>3. Slot(count) = 0
    BY <1>4, <1>7, <2>2 DEF Slot
  <2> QED  BY <1>3, <1>4, <1>7, <2>1, <2>2, <2>3 DEF SchedTyped
<1>10. Holds /\ Phases /\ Levelled /\ Filled /\ Listed
  <2>1. \A t \in Tasks : ~(t < 0)
    BY <1>3, <1>4
  <2>2. 1 .. count = {}
    BY <1>7
  <2>3. ~InLevel
    BY <1>7 DEF InLevel
  <2> QED  BY <1>7, <1>8, <2>1, <2>2, <2>3 DEF Holds, Phases, Levelled, Filled, Listed
<1>11. Counted
  BY <1>7, <1>8 DEF Counted
<1> QED  BY <1>6, <1>9, <1>10, <1>11 DEF SchedIInv

LEMMA SchedInductive == SchedIInv /\ [SchedNext]_schedulerVars => SchedIInv'
<1> SUFFICES ASSUME SchedIInv, [SchedNext]_schedulerVars PROVE SchedIInv'
  OBVIOUS
<1>2. CASE SchedNext
  BY <1>2, SeedIInv, LevelBeginIInv, PopIInv, RelaxIInv, LevelEndIInv, FinishIInv DEF SchedNext
<1>3. CASE UNCHANGED schedulerVars
  <2> USE <1>3 DEF SchedIInv, schedulerVars, ring
  <2>1. DepsTyped' /\ Tasks' = Tasks /\ num_tasks' = num_tasks
    BY SameDeps
  <2>2. SchedTyped'
    <3>1. Slot(count)' = Slot(count)
      BY <2>1 DEF Slot
    <3> QED  BY <2>1, <3>1 DEF SchedTyped
  <2>3. Holds'
    BY <2>1 DEF Holds, At, Popped
  <2>4. Counted'
    BY <2>1 DEF Counted, Open, Relaxed, Popped
  <2>5. Phases' /\ Filled' /\ Listed'
    BY <2>1 DEF Phases, Filled, Listed, Popped, InLevel
  <2>6. Levelled'
    <3>1. \A k \in 1 .. count : LevelIs(At(k), IF InLevel /\ k > left THEN num_stages + 1
                                                                  ELSE num_stages)'
      BY <2>1 DEF Levelled, LevelIs, InLevel, At
    <3>2. \A t \in Tasks : Popped(t)' =>
             /\ LevelIs(t, execution_stage[t])'
             /\ (execution_stage[t] < num_stages \/ (InLevel /\ execution_stage[t] = num_stages))'
      BY DEF Levelled, LevelIs, InLevel, Popped
    <3> QED  BY <2>1, <3>1, <3>2 DEF Levelled
  <2> QED  BY <2>1, <2>2, <2>3, <2>4, <2>5, <2>6
<1> QED  BY <1>2, <1>3

-----------------------------------------------------------------------------

(* The greatest element of a set, when it is known to be one. *)
LEMMA MaxIs ==
    ASSUME NEW S \in SUBSET Nat, NEW m \in S, \A x \in S : x <= m
    PROVE  Max(S) = m
<1> DEFINE P(x) == x \in S /\ \A y \in S : x >= y
<1>1. P(m)
  OBVIOUS
<1>2. \A x \in S : P(x) => x = m
  OBVIOUS
<1>3. Max(S) = CHOOSE x \in S : \A y \in S : x >= y
  BY DEF Max
<1> QED  BY <1>1, <1>2, <1>3

(* A function that satisfies the equation of Depth is Depth: the edges lead from
   smaller to larger ids, so that the equation has one solution. *)
LEMMA DepthIs ==
    ASSUME DepsTyped, NEW f \in [Tasks -> Nat],
           \A t \in Tasks : f[t] = IF DOMAIN deps[t] = {} THEN 0
                                   ELSE 1 + Max({f[k] : k \in Range(deps[t])})
    PROVE  Depth = f
<1> DEFINE Body(g) == [j \in Tasks |-> IF DOMAIN deps[j] = {} THEN 0
                                    ELSE 1 + Max({g[k] : k \in Range(deps[j])})]
<1>1. f = Body(f)
  OBVIOUS
<1>2. ASSUME NEW g, g = Body(g) PROVE g = f
  <2> DEFINE T == {t \in Tasks : g[t] # f[t]}
  <2>1. \A t \in Tasks : g[t] = IF DOMAIN deps[t] = {} THEN 0
                                ELSE 1 + Max({g[k] : k \in Range(deps[t])})
    BY <1>2
  <2>2. DOMAIN g = Tasks /\ g = [t \in Tasks |-> g[t]]
    BY <1>2
  <2>3. T = {}
    <3> SUFFICES ASSUME T # {} PROVE FALSE
      OBVIOUS
    <3>1. T \in SUBSET Nat
      BY DEF DepsTyped, Tasks
    <3>2. PICK t \in T : \A y \in T : t <= y
      BY <3>1, LeastNatural
    <3>3. \A k \in Range(deps[t]) : g[k] = f[k]
      <4> SUFFICES ASSUME NEW k \in Range(deps[t]) PROVE g[k] = f[k]
        OBVIOUS
      <4>1. t \in 0 .. num_tasks - 1 /\ k \in 0 .. t - 1 /\ num_tasks \in Nat
        BY <3>2 DEF DepsTyped, Tasks, Range
      <4>2. k \in Tasks /\ ~(t <= k)
        BY <4>1 DEF Tasks
      <4> QED  BY <3>2, <4>2
    <3>4. {g[k] : k \in Range(deps[t])} = {f[k] : k \in Range(deps[t])}
      BY <3>3
    <3>5. g[t] = f[t]
      BY <2>1, <3>2, <3>4
    <3> QED  BY <3>2, <3>5
  <2> QED  BY <2>2, <2>3
<1>3. (CHOOSE d : d = Body(d)) = f
  BY <1>1, <1>2
<1>4. Depth = [j \in Tasks |-> (CHOOSE d : d = Body(d))[j]]
  BY DEF Depth
<1> QED  BY <1>3, <1>4

(* What the invariant says of the plan, at any moment and at its end. *)
LEMMA SchedPlan == SchedIInv => PlanExact
<1> SUFFICES ASSUME SchedIInv
             PROVE  RingExact /\ DependenciesInEarlierStages /\ PlanIsLevels
  BY DEF PlanExact
<1> USE DEF SchedIInv
<1>1. num_tasks \in Nat \ {0}
  BY DEF DepsTyped
<1>2. \A t \in Tasks : \A k \in DOMAIN deps[t] : deps[t][k] \in Tasks
  BY <1>1 DEF DepsTyped, Tasks
<1>3. RingExact
  <2> DEFINE ready == {t \in Tasks : in_degree[t] = 0 /\ execution_stage[t] = NoStage}
  <2>1. Queue = [k \in 1 .. count |-> At(k)]
    BY DEF Queue, At
  <2>2. IsInjective(Queue)
    BY <2>1 DEF IsInjective, Holds
  <2>3. Range(Queue) = {At(k) : k \in 1 .. count}
    BY <2>1 DEF Range
  <2>4. \A k \in 1 .. count : At(k) \in Tasks
    BY AtTask
  <2>5. CASE spc = "seed"
    <3>1. edge \in 0 .. num_tasks - 1
      BY DEF SchedTyped, Tasks
    <3>2. \A t \in Tasks : t \in 0 .. edge - 1 <=> t < edge
      BY <1>1, <3>1 DEF Tasks
    <3>3. {At(k) : k \in 1 .. count} = ready \cap (0 .. edge - 1)
      BY <2>4, <2>5, <3>2 DEF Holds, Popped
    <3> QED  BY <1>1, <2>2, <2>3, <2>5, <3>3 DEF RingExact
  <2>6. CASE spc # "seed"
    <3>1. {At(k) : k \in 1 .. count} = ready
      BY <2>4, <2>6 DEF Holds, Popped
    <3> QED  BY <1>1, <2>2, <2>3, <2>6, <3>1 DEF RingExact
  <2> QED  BY <2>5, <2>6
<1>4. DependenciesInEarlierStages
  <2> SUFFICES ASSUME NEW t \in Tasks, Popped(t), NEW k \in DOMAIN deps[t]
               PROVE  Popped(deps[t][k]) /\ execution_stage[deps[t][k]] < execution_stage[t]
    BY <1>1 DEF DependenciesInEarlierStages, Popped
  <2>1. execution_stage[t] \in Nat
    BY DEF SchedTyped, Popped
  <2>2. execution_stage[deps[t][k]] \in 0 .. execution_stage[t] - 1
    BY DEF Levelled, LevelIs
  <2> QED  BY <2>1, <2>2, SchedulerAssumption DEF Popped
<1>5. PlanIsLevels
  <2> SUFFICES ASSUME spc \in {"planned", "cycle"}
               PROVE  /\ spc = "planned" /\ execution_stage = Depth
                      /\ num_stages = 1 + Max(Range(Depth))
    BY DEF PlanIsLevels
  <2>1. spc = "planned" /\ ~InLevel /\ \A t \in Tasks : Popped(t)
    BY DEF Phases, InLevel
  <2>2. execution_stage \in [Tasks -> Nat]
    BY <2>1 DEF SchedTyped, Popped
  <2>3. ASSUME NEW t \in Tasks
        PROVE  execution_stage[t] = IF DOMAIN deps[t] = {} THEN 0
                 ELSE 1 + Max({execution_stage[k] : k \in Range(deps[t])})
    <3>1. LevelIs(t, execution_stage[t]) /\ execution_stage[t] \in Nat
      BY <2>1, <2>2 DEF Levelled
    <3>2. CASE DOMAIN deps[t] = {}
      BY <3>1, <3>2 DEF LevelIs
    <3>3. CASE DOMAIN deps[t] # {}
      <4> DEFINE S == {execution_stage[k] : k \in Range(deps[t])}
      <4>1. S = {execution_stage[deps[t][k]] : k \in DOMAIN deps[t]}
        BY DEF Range
      <4>2. execution_stage[t] > 0
        BY <3>1, <3>3 DEF LevelIs
      <4>3. PICK k \in DOMAIN deps[t] : execution_stage[deps[t][k]] = execution_stage[t] - 1
        BY <3>1, <4>2 DEF LevelIs
      <4>4. \A j \in DOMAIN deps[t] : execution_stage[deps[t][j]] \in 0 .. execution_stage[t] - 1
        BY <3>1 DEF LevelIs
      <4> HIDE DEF S
      <4>5. execution_stage[t] - 1 \in S
        BY <4>1, <4>3
      <4>6. \A x \in S : x \in 0 .. execution_stage[t] - 1
        BY <4>1, <4>4
      <4>7. Max(S) = execution_stage[t] - 1
        <5>1. S \in SUBSET Nat /\ \A x \in S : x <= execution_stage[t] - 1
          BY <3>1, <4>6
        <5> QED  BY <4>5, <5>1, MaxIs
      <4> QED  BY <3>1, <3>3, <4>7 DEF S
    <3> QED  BY <3>2, <3>3
  <2>4. Depth = execution_stage
    BY <2>2, <2>3, DepthIs
  <2>5. num_stages = 1 + Max(Range(execution_stage))
    <3> DEFINE S == Range(execution_stage)
    <3>1. S = {execution_stage[t] : t \in Tasks}
      BY <2>2 DEF Range
    <3>2. \A t \in Tasks : execution_stage[t] < num_stages /\ execution_stage[t] \in Nat
      BY <2>1, <2>2 DEF Levelled
    <3>3. num_stages \in Nat /\ 0 \in Tasks
      BY <1>1 DEF SchedTyped, Tasks
    <3>4. num_stages > 0
      BY <3>2, <3>3
    <3>5. PICK t \in Tasks : execution_stage[t] = num_stages - 1
      BY <2>1, <3>4 DEF Filled
    <3>6. num_stages - 1 \in S /\ \A x \in S : x \in Nat /\ x <= num_stages - 1
      BY <3>1, <3>2, <3>3, <3>5
    <3> HIDE DEF S
    <3>7. Max(S) = num_stages - 1
      BY <3>6, MaxIs
    <3> QED  BY <3>3, <3>7 DEF S
  <2> QED  BY <2>1, <2>4, <2>5
<1> QED  BY <1>3, <1>4, <1>5

(* The execution plan of every graph of the builder is its levels: the ring never drops
   a task, dependencies are in earlier stages, every task is in the stage of its depth,
   and planning never ends in "Cycle detected". *)
THEOREM PlansAreLevels == SchedSpec => []PlanExact
BY InitSched, SchedInductive, SchedPlan, PTL DEF SchedSpec
=============================================================================
