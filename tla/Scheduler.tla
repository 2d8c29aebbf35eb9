------------------------------ MODULE Scheduler ------------------------------
(***************************************************************************)
(* hbi_scheduler_create_plan (src/scheduler/scheduler.c): Kahn's algorithm *)
(* over the task ring, one level of tasks per execution stage.             *)
(*                                                                         *)
(* deps[i] maps each input of task i that has a producer to this producer: *)
(* an edge is counted as often as it occurs.  Graphs come from the         *)
(* builder, whose nodes only read values that exist already, so that       *)
(* deps[i] names tasks before i (Graph!OrderIsTopological).                *)
(***************************************************************************)
EXTENDS Integers, Sequences, FiniteSets, Functions, FiniteSetsExt

CONSTANTS MaxTasks,     \* bound on the tasks of a plan
          MaxDeps,      \* bound on the inputs of a task
          NoStage       \* execution_stage of a task no stage holds

ASSUME SchedulerAssumption == MaxTasks \in Nat /\ MaxDeps \in Nat /\ NoStage \notin Nat

VARIABLES deps,        \* the graph: task -> (input -> the task that produces it)
          in_degree,   \* task -> edges into it not relaxed yet
          task_ids, head, tail, count,   \* the ring, of capacity num_tasks
          execution_stage,               \* task -> stage
          num_stages,
          left,        \* tasks of the current level still to pop
          u, edge,     \* the task popped last and the next consumer to relax
          sorted_order,  \* the tasks popped so far; the tasks of a stage are consecutive
          spc

ring == <<task_ids, head, tail, count>>
schedulerVars == <<deps, in_degree, ring, execution_stage, num_stages, left, u, edge, sorted_order,
                   spc>>

num_tasks == Cardinality(DOMAIN deps)
Tasks == 0 .. num_tasks - 1

(* The number of edges from task p to task i. *)
Edges(p, i) == Cardinality({k \in DOMAIN deps[i] : deps[i][k] = p})

(* The ids in the ring, oldest first. *)
Queue == [k \in 1 .. count |-> task_ids[(head + k - 1) % num_tasks]]

-----------------------------------------------------------------------------

(* Both passes over the edges are done: in_degree counts them. *)
SchedInit ==
    /\ \E n \in 1 .. MaxTasks :
          deps \in [0 .. n - 1 -> UNION {[D -> 0 .. n - 1] : D \in SUBSET (1 .. MaxDeps)}]
    /\ \A i \in Tasks : Range(deps[i]) \subseteq 0 .. i - 1
    /\ in_degree = [i \in Tasks |-> Cardinality(DOMAIN deps[i])]
    /\ task_ids = [i \in Tasks |-> 0] /\ head = 0 /\ tail = 0 /\ count = 0
    /\ execution_stage = [i \in Tasks |-> NoStage]
    /\ num_stages = 0 /\ left = 0 /\ u = 0 /\ edge = 0 /\ sorted_order = <<>>
    /\ spc = "seed"

(* task_queue_push: a full ring drops the task without a word. *)
Push(i) ==
    IF count < num_tasks
    THEN /\ task_ids' = [task_ids EXCEPT ![tail] = i]
         /\ tail' = (tail + 1) % num_tasks
         /\ count' = count + 1
    ELSE UNCHANGED <<task_ids, tail, count>>

(* The tasks without dependencies are pushed, in the order of their ids (edge is the
   loop's index). *)
Seed ==
    /\ spc = "seed"
    /\ IF in_degree[edge] = 0 THEN Push(edge) ELSE UNCHANGED <<task_ids, tail, count>>
    /\ edge' = (edge + 1) % num_tasks
    /\ spc' = IF edge + 1 = num_tasks THEN "level" ELSE spc
    /\ UNCHANGED <<deps, in_degree, head, execution_stage, num_stages, left, u, sorted_order>>

(* The next level holds what the ring holds now. *)
LevelBegin ==
    /\ spc = "level" /\ count > 0
    /\ left' = count
    /\ spc' = "pop"
    /\ UNCHANGED <<deps, in_degree, ring, execution_stage, num_stages, u, edge, sorted_order>>

(* A task of the level is popped and enters the stage. *)
Pop ==
    /\ spc = "pop" /\ left > 0
    /\ u' = task_ids[head]
    /\ head' = (head + 1) % num_tasks
    /\ count' = count - 1
    /\ left' = left - 1
    /\ sorted_order' = Append(sorted_order, u')
    /\ execution_stage' = [execution_stage EXCEPT ![u'] = num_stages]
    /\ spc' = "relax"
    /\ UNCHANGED <<deps, in_degree, task_ids, tail, num_stages, edge>>

(* Mutant: an edge that occurs twice is relaxed once. *)
RelaxOnce ==
    /\ spc = "relax"
    /\ LET d == IF Edges(u, edge) > 0 THEN 1 ELSE 0
       IN  /\ in_degree' = [in_degree EXCEPT ![edge] = @ - d]
           /\ IF d > 0 /\ in_degree'[edge] = 0 THEN Push(edge) ELSE UNCHANGED <<task_ids, tail, count>>
    /\ edge' = (edge + 1) % num_tasks
    /\ spc' = IF edge + 1 = num_tasks THEN "pop" ELSE spc
    /\ UNCHANGED <<deps, head, execution_stage, num_stages, left, u, sorted_order>>

(* The edges from the popped task to one consumer are relaxed; out_edges lists the
   consumers in the order of their ids. *)
Relax ==
    /\ spc = "relax"
    /\ in_degree' = [in_degree EXCEPT ![edge] = @ - Edges(u, edge)]
    /\ IF Edges(u, edge) > 0 /\ in_degree'[edge] = 0
       THEN Push(edge) ELSE UNCHANGED <<task_ids, tail, count>>
    /\ edge' = (edge + 1) % num_tasks
    /\ spc' = IF edge + 1 = num_tasks THEN "pop" ELSE spc
    /\ UNCHANGED <<deps, head, execution_stage, num_stages, left, u, sorted_order>>

(* The level is popped: the next stage begins. *)
LevelEnd ==
    /\ spc = "pop" /\ left = 0
    /\ num_stages' = num_stages + 1
    /\ spc' = "level"
    /\ UNCHANGED <<deps, in_degree, ring, execution_stage, left, u, edge, sorted_order>>

(* The ring is empty: the plan is complete, or tasks are missing ("Cycle detected"). *)
Finish ==
    /\ spc = "level" /\ count = 0
    /\ spc' = IF Len(sorted_order) = num_tasks THEN "planned" ELSE "cycle"
    /\ UNCHANGED <<deps, in_degree, ring, execution_stage, num_stages, left, u, edge, sorted_order>>

SchedNext == Seed \/ LevelBegin \/ Pop \/ Relax \/ LevelEnd \/ Finish

SchedSpec == SchedInit /\ [][SchedNext]_schedulerVars

-----------------------------------------------------------------------------

(* The ring never drops a task and never holds one twice: it holds exactly the tasks
   without unrelaxed edges that no stage holds yet. *)
RingExact ==
    LET ready == {i \in Tasks : in_degree[i] = 0 /\ execution_stage[i] = NoStage}
    IN  /\ IsInjective(Queue)
        /\ Range(Queue) = IF spc = "seed" THEN ready \cap (0 .. edge - 1) ELSE ready

(* A task in a stage has all its dependencies in earlier stages: the tasks of a stage
   may run in parallel behind the barrier of the stage before. *)
DependenciesInEarlierStages ==
    \A i \in Tasks : execution_stage[i] # NoStage =>
        \A k \in DOMAIN deps[i] : /\ execution_stage[deps[i][k]] # NoStage
                                  /\ execution_stage[deps[i][k]] < execution_stage[i]

(* The length of the longest chain of dependencies below a task. *)
Depth == [i \in Tasks |-> LET d[j \in Tasks] == IF DOMAIN deps[j] = {} THEN 0
                                               ELSE 1 + Max({d[k] : k \in Range(deps[j])})
                          IN  d[i]]

(* Every graph of the builder is planned: each task is in the stage of its depth, no
   later than its dependencies require, and the critical path length in the statistics
   (the number of stages) is that of the longest chain. *)
PlanIsLevels ==
    spc \in {"planned", "cycle"} =>
        /\ spc = "planned"
        /\ execution_stage = Depth
        /\ num_stages = 1 + Max(Range(Depth))

(* The plan of every graph of the builder is its levels: the ring drops no task and
   holds none twice, dependencies are in earlier stages, each task is in the stage of
   its depth, and critical_path_length is that of the longest chain. *)
PlanExact == RingExact /\ DependenciesInEarlierStages /\ PlanIsLevels
=============================================================================
