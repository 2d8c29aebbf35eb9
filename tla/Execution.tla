------------------------------ MODULE Execution ------------------------------
(***************************************************************************)
(* The memory plan and the execution plan of one graph, and the executors  *)
(* that run the graph in the pool the memory plan lays out:                *)
(*                                                                         *)
(*   "graph"    hbi_executor_run (src/executor/executor.c), in the         *)
(*              execution order of the graph;                              *)
(*   "runtime"  hbi_runtime_executor_run (src/runtime/executor.c), in the  *)
(*              order of the scheduler's stages.                           *)
(*                                                                         *)
(* Data is abstracted to whether a value's bytes are still those its       *)
(* producer wrote: a node that writes its outputs destroys the values      *)
(* whose buffers overlap them.                                             *)
(***************************************************************************)
EXTENDS Planner, Scheduler

CONSTANT Executor   \* "graph" or "runtime"

ASSUME ExecutionAssumption == Executor \in {"graph", "runtime"}

VARIABLES intact,   \* values whose bytes are what their producer wrote
          ran,      \* number of tasks run
          result    \* what the run returned

runVars == <<intact, ran, result>>
execVars == <<vars, schedulerVars, runVars>>

(* The node that produces a value. *)
ProducerOf(v) == CHOOSE n \in Nodes : v \in Outputs(n)

(* Pass 2 of create_plan: the producers of those inputs of a node that have one. *)
Dependencies(n) ==
    [k \in {j \in DOMAIN graph.inputs[n] : graph.inputs[n][j] \in Produced} |->
        ProducerOf(graph.inputs[n][k])]

ExecInit ==
    /\ Init
    /\ deps = [n \in Nodes |-> Dependencies(n)]
    /\ SchedInit
    /\ intact = Values \ Produced /\ ran = 0 /\ result = "running"

-----------------------------------------------------------------------------

(* pipeline_build compiles the execution plan first, ... *)
PlanTasks ==
    /\ spc # "planned"
    /\ SchedNext
    /\ UNCHANGED <<vars, runVars>>

(* ... then the memory plan. *)
PlanMemory ==
    /\ spc = "planned"
    /\ Next
    /\ UNCHANGED <<schedulerVars, runVars>>

Ready == pc = "planned" /\ spc = "planned"

(* The walk over stages and their tasks, or over the graph's order. *)
Order == IF Executor = "runtime" THEN sorted_order ELSE [k \in 1 .. Cardinality(Nodes) |-> k - 1]

Overwritten(n) ==
    {v \in DOMAIN offset : \E w \in Outputs(n) : v # w /\ offset[v] < offset[w] + size_bytes[w]
                                                       /\ offset[w] < offset[v] + size_bytes[v]}

(* The next task runs: its kernel reads its inputs and writes its outputs. *)
RunTask ==
    /\ Ready /\ result = "running" /\ ran < Cardinality(Nodes)
    /\ intact' = (intact \ Overwritten(Order[ran + 1])) \cup Outputs(Order[ran + 1])
    /\ ran' = ran + 1
    /\ UNCHANGED <<vars, schedulerVars, result>>

(* A kernel is missing or fails: the run returns its error. *)
RunFails ==
    /\ Ready /\ result = "running" /\ ran < Cardinality(Nodes)
    /\ result' = "error"
    /\ UNCHANGED <<vars, schedulerVars, intact, ran>>

RunEnd ==
    /\ Ready /\ result = "running" /\ ran = Cardinality(Nodes)
    /\ result' = "ok"
    /\ UNCHANGED <<vars, schedulerVars, intact, ran>>

(* The session runs the same plans again, for the next token, with new inputs. *)
RunAgain ==
    /\ Ready /\ result # "running"
    /\ ran' = 0 /\ result' = "running"
    /\ UNCHANGED <<vars, schedulerVars, intact>>

ExecNext == PlanTasks \/ PlanMemory \/ RunTask \/ RunFails \/ RunEnd \/ RunAgain

(* One thread runs create_plan and memory_planner_plan to their ends. *)
ExecSpec == ExecInit /\ [][ExecNext]_execVars /\ WF_execVars(PlanTasks \/ PlanMemory)

-----------------------------------------------------------------------------

(* Both planning loops end: the scheduler's, and the placement loop, which starts over
   at every conflict. *)
PlanningEnds == <>Ready

(* A task that is about to run finds every operand as its producer left it: no task
   run in between was given the operand's buffer. *)
OperandsIntact ==
    Ready /\ result = "running" /\ ran < Cardinality(Nodes) =>
        \A k \in DOMAIN graph.inputs[Order[ran + 1]] : graph.inputs[Order[ran + 1]][k] \in intact
=============================================================================
