---------------------------- MODULE SessionProofs ----------------------------
(***************************************************************************)
(* Proofs about Session, for any prompts, limits and numbers of stages:    *)
(* the ownership of the pipeline, the KV cursor, and what a cancellation   *)
(* still lets through.                                                     *)
(*                                                                         *)
(* Each property speaks of a few locations; the invariant says, for every  *)
(* location of generate, which parts of the pipeline exist, how cursor and *)
(* counters stand, and where a raised flag can no longer find the thread.  *)
(***************************************************************************)
EXTENDS Session, TLAPS

Locations == {"none", "idle", "graph", "plan", "memory", "prefetch", "stage", "backend",
              "run", "kv", "check", "sample", "append"}
Building == {"graph", "plan", "memory", "prefetch", "stage", "backend", "run"}
Parts == {"graph", "scheduler", "plan", "backend_mgr"}
Losable == {"planner", "stream_engine", "partial_plan"}

\* The parts of the pipeline that exist at each location.
Ownership ==
    /\ have \subseteq Kinds /\ lost \subseteq Losable
    /\ given \subseteq {"model", "adapter"} /\ exec_ctx \in BOOLEAN
    /\ pc \in Locations
    /\ pc = "none" => have \cap Parts = {}
    /\ pc = "idle" => have \cap Parts = {} \/ Parts \subseteq have
    /\ pc = "graph" => have \cap Parts = {}
    /\ pc = "plan" => have \cap Parts = {"graph"}
    /\ pc \in {"memory", "prefetch", "stage", "backend"} =>
         have \cap Parts = {"graph", "scheduler", "plan"}
    /\ pc \in {"run", "kv", "check", "sample", "append"} => Parts \subseteq have

\* The cursor and the counters of the loop.
Cursor ==
    /\ kv \in [max : Nat, total : Nat] /\ kv.total <= kv.max
    /\ n_prompt \in Prompts \cup {0} /\ generated \in 0..MaxNew /\ texts \in 0..MaxNew
    /\ phase \in {"prefill", "decode"}
    /\ pc = "kv" => phase = "prefill"
    /\ pc \in {"sample", "append"} => phase = "decode"
    /\ phase = "prefill" /\ pc \in Building \cup {"kv"} => generated = 0 /\ texts = 0
    /\ phase = "decode" /\ pc \in Building \cup {"sample", "append"} =>
         generated < MaxNew /\ kv.total = n_prompt + generated
    /\ phase = "decode" /\ pc \in Building \cup {"sample"} => texts <= generated
    /\ pc = "append" => texts <= generated + 1
    /\ pc = "check" => kv.total = n_prompt + generated /\ texts <= generated

\* A raised flag that has let a stage, or a text, through finds the thread
\* past the place that would let the next one through.
Cancelled ==
    /\ cancel_flag \in BOOLEAN /\ stage \in 0..NumStages /\ result \in {"none", "ok", "error"}
    /\ pc = "stage" => stage < NumStages
    /\ late \in [stages : Nat, texts : Nat]
    /\ late.stages <= 1 /\ late.texts <= 1
    /\ cancel_flag /\ late.stages > 0 => pc # "stage"
    /\ cancel_flag /\ late.texts > 0 => pc \in {"none", "idle", "check", "append"}

IInv == Ownership /\ Cursor /\ Cancelled

-----------------------------------------------------------------------------
LEMMA InitInv == SessionAssumption /\ Init => IInv
<1> SUFFICES ASSUME SessionAssumption, Init PROVE IInv
    OBVIOUS
<1>1. Ownership
    BY DEF Init, Ownership, Locations
<1>2. Cursor
    BY DEF SessionAssumption, Init, Cursor, Building
<1>3. Cancelled
  <2>1. late \in [stages : Nat, texts : Nat] /\ late.stages = 0 /\ late.texts = 0
    BY DEF Init
  <2>2. stage \in 0..NumStages /\ pc = "none"
    BY DEF SessionAssumption, Init
  <2>3. cancel_flag \in BOOLEAN /\ ~cancel_flag /\ result = "none"
    BY DEF Init
  <2>4. late.stages <= 1 /\ late.texts <= 1 /\ (pc = "stage" => stage < NumStages)
    BY ONLY <2>1, <2>2
  <2>5. result \in {"none", "ok", "error"}
    BY ONLY <2>3
  <2> QED
    BY ONLY <2>1, <2>2, <2>3, <2>4, <2>5, Zenon DEF Cancelled
<1> QED
    BY <1>1, <1>2, <1>3 DEF IInv

\* Creation, destruction, the flag and the guards of generate.
LEMMA OutsideInv ==
    ASSUME SessionAssumption, IInv,
           \/ \E g \in SUBSET {"model", "adapter"} : Create(g) \/ CreateFails(g)
           \/ Destroy \/ BindExecContext \/ Cancel \/ ResetFlag \/ GenerateRefused
    PROVE  IInv'
<1> USE DEF owned, tokens, control, Return
<1>1. CASE \E g \in SUBSET {"model", "adapter"} : Create(g)
  <2>1. PICK g \in SUBSET {"model", "adapter"} : Create(g)
    BY <1>1
  <2>2. Made(g) \subseteq Kinds /\ Made(g) \cap Parts = {}
    BY DEF Made, Kinds, LongLived, Pipeline, Parts
  <2>3. Ownership'
    BY <2>1, <2>2 DEF IInv, Create, Ownership, Locations
  <2>4. Cursor'
    BY <2>1 DEF IInv, Create, Cursor, Building
  <2>5. Cancelled'
    BY <2>1 DEF IInv, Create, Cancelled
  <2> QED
    BY <2>3, <2>4, <2>5 DEF IInv
<1>2. CASE \E g \in SUBSET {"model", "adapter"} : CreateFails(g)
  <2>1. Ownership'
    BY <1>2 DEF IInv, CreateFails, Ownership, Losable
  <2>2. Cursor'
    BY <1>2 DEF IInv, CreateFails, Cursor
  <2>3. Cancelled'
    BY <1>2 DEF IInv, CreateFails, Cancelled
  <2> QED
    BY <2>1, <2>2, <2>3 DEF IInv
<1>3. CASE Destroy
  <2>1. Ownership'
    BY <1>3 DEF IInv, Destroy, Ownership, Losable, Locations
  <2>2. Cursor'
    BY <1>3 DEF IInv, Destroy, Cursor, Building
  <2>3. Cancelled'
    BY <1>3 DEF IInv, Destroy, Cancelled
  <2> QED
    BY <2>1, <2>2, <2>3 DEF IInv
<1>4. CASE BindExecContext \/ Cancel \/ ResetFlag
  <2>1. Ownership'
    BY <1>4 DEF IInv, BindExecContext, Cancel, ResetFlag, Ownership
  <2>2. Cursor'
    BY <1>4 DEF IInv, BindExecContext, Cancel, ResetFlag, Cursor
  <2>3. Cancelled'
    <3>1. UNCHANGED <<pc, stage, result>> /\ Cancelled
      BY <1>4 DEF IInv, BindExecContext, Cancel, ResetFlag
    <3>2. CASE cancel_flag' = cancel_flag /\ late' = late
      BY ONLY <3>1, <3>2, Zenon DEF Cancelled
    <3>3. CASE cancel_flag' = FALSE /\ late' = late
      BY ONLY <3>1, <3>3 DEF Cancelled
    <3>4. CASE cancel_flag' = TRUE /\ late' = [stages |-> 0, texts |-> 0]
      BY ONLY <3>1, <3>4 DEF Cancelled
    <3>5. CASE Cancel /\ cancel_flag
      BY <3>1, <3>2, <3>5, cancel_flag' = cancel_flag DEF Cancel, Cancelled
    <3> QED
      BY <1>4, <3>2, <3>3, <3>4, <3>5 DEF BindExecContext, Cancel, ResetFlag
  <2> QED
    BY <2>1, <2>2, <2>3 DEF IInv
<1>5. CASE GenerateRefused
  <2>1. Ownership'
    BY <1>5 DEF IInv, GenerateRefused, Ownership, Locations
  <2>2. Cursor'
    BY <1>5 DEF IInv, GenerateRefused, Cursor, Building
  <2>3. Cancelled'
    BY <1>5 DEF IInv, GenerateRefused, Cancelled
  <2> QED
    BY <2>1, <2>2, <2>3 DEF IInv
<1> QED
    BY <1>1, <1>2, <1>3, <1>4, <1>5

\* Where the pipeline is whole or absent, resetting it leaves no part and
\* loses none.
LEMMA PipelineResets ==
    ASSUME Ownership, pc \in {"idle", "check"}, PipelineReset
    PROVE  have' \subseteq Kinds /\ have' \cap Parts = {} /\ lost' \subseteq Losable
BY DEF Ownership, PipelineReset, Parts

LEMMA GenerateBeginInv ==
    ASSUME SessionAssumption, IInv, NEW n \in Prompts, GenerateBegin(n)
    PROVE  IInv'
<1>1. have' \subseteq Kinds /\ have' \cap Parts = {} /\ lost' \subseteq Losable
    BY PipelineResets DEF IInv, GenerateBegin
<1>2. Ownership'
    BY <1>1 DEF IInv, GenerateBegin, Return, Ownership, Locations
<1>3. Cursor'
    BY DEF SessionAssumption, IInv, GenerateBegin, Return, Cursor, Building
<1>4. Cancelled'
    BY DEF IInv, GenerateBegin, Return, Cancelled
<1> QED
    BY <1>2, <1>3, <1>4 DEF IInv

LEMMA LoopCheckInv ==
    ASSUME SessionAssumption, IInv, LoopCheck
    PROVE  IInv'
<1>1. Ownership'
  <2>1. CASE PipelineReset /\ pc' = "graph"
    BY <2>1, PipelineResets DEF IInv, LoopCheck, Ownership, Locations
  <2>2. CASE Return("ok") /\ UNCHANGED <<have, lost>>
    BY <2>2 DEF IInv, LoopCheck, Return, Ownership, Locations
  <2> QED
    BY <2>1, <2>2 DEF LoopCheck
<1>2. Cursor'
    BY DEF IInv, LoopCheck, Return, tokens, Cursor, Building, SessionAssumption
<1>3. Cancelled'
    BY DEF IInv, LoopCheck, Return, Cancelled
<1> QED
    BY <1>1, <1>2, <1>3 DEF IInv

\* The steps of pipeline_build move on or return, and leave the loop's state.
LEMMA BuildLeaves ==
    ASSUME SessionAssumption, Cursor, Cancelled,
           UNCHANGED <<tokens, phase, cancel_flag, late>>,
           stage' \in 0..NumStages, result' \in {"none", "ok", "error"},
           \/ pc' = "idle"
           \/ /\ pc \in Building /\ pc' \in Building \ {"stage"}
              /\ cancel_flag /\ late.texts > 0 => FALSE
    PROVE  Cursor' /\ Cancelled'
<1>1. Cursor'
    BY DEF tokens, Cursor, Building
<1>2. Cancelled'
    BY DEF Cancelled, Building
<1> QED
    BY <1>1, <1>2

LEMMA BuildInv ==
    ASSUME SessionAssumption, IInv, BuildGraph \/ BuildPlan \/ BuildMemory \/ BuildBackend
    PROVE  IInv'
<1>1. /\ UNCHANGED <<tokens, phase, cancel_flag, late, given, exec_ctx>>
      /\ stage' = 0 \/ stage' = stage
      /\ result' = "error" \/ result' = result
      /\ pc \in {"graph", "plan", "memory", "backend"}
      /\ pc' = "idle" \/ pc' \in {"plan", "memory", "prefetch", "run"}
    BY DEF BuildGraph, BuildPlan, BuildMemory, BuildBackend, BuildStep, Return
<1>2. Cursor' /\ Cancelled'
  <2>1. stage' \in 0..NumStages /\ result' \in {"none", "ok", "error"}
    BY <1>1 DEF IInv, Cancelled, SessionAssumption
  <2>2. ~(cancel_flag /\ late.texts > 0)
    BY <1>1 DEF IInv, Cancelled
  <2>3. pc \in Building /\ (pc' = "idle" \/ pc' \in Building \ {"stage"})
    BY ONLY <1>1 DEF Building
  <2> QED
    BY <1>1, <2>1, <2>2, <2>3, BuildLeaves DEF IInv
<1>3. Ownership'
  <2>1. CASE BuildGraph
    BY <1>1, <2>1 DEF IInv, BuildGraph, BuildStep, Put, Return, Ownership, Locations, Parts, Kinds, Pipeline
  <2>2. CASE BuildPlan
    BY <1>1, <2>2 DEF IInv, BuildPlan, BuildStep, Put, Return, Ownership, Locations, Parts, Losable,
                      Kinds, Pipeline
  <2>3. CASE BuildMemory
    BY <1>1, <2>3 DEF IInv, BuildMemory, BuildStep, Put, Return, Ownership, Locations, Parts, Losable,
                      Kinds, Pipeline
  <2>4. CASE BuildBackend
    BY <1>1, <2>4 DEF IInv, BuildBackend, BuildStep, Put, Return, Ownership, Locations, Parts,
                      Kinds, Pipeline
  <2> QED
    BY <2>1, <2>2, <2>3, <2>4
<1> QED
    BY <1>2, <1>3 DEF IInv

LEMMA PrefetchInv ==
    ASSUME SessionAssumption, IInv, PrefetchCheck \/ PrefetchStage
    PROVE  IInv'
<1>1. UNCHANGED <<owned, tokens, phase, cancel_flag, result>>
      /\ pc \in {"prefetch", "stage"} /\ pc' \in {"prefetch", "stage", "backend"}
    BY DEF PrefetchCheck, PrefetchStage
<1>2. Ownership'
    BY <1>1 DEF IInv, owned, Ownership, Locations
<1>3. Cursor'
    BY <1>1 DEF IInv, tokens, Cursor, Building
<1>4. Cancelled'
  <2>1. CASE PrefetchCheck
    BY <2>1 DEF IInv, PrefetchCheck, Cancelled
  <2>2. CASE PrefetchStage
    BY <2>2 DEF IInv, PrefetchStage, Cancelled, SessionAssumption
  <2> QED
    BY <2>1, <2>2
<1> QED
    BY <1>2, <1>3, <1>4 DEF IInv

LEMMA RunInv ==
    ASSUME SessionAssumption, IInv, Run
    PROVE  IInv'
<1>1. Ownership'
    BY DEF IInv, Run, Return, owned, Ownership, Locations
<1>2. Cursor'
    BY DEF IInv, Run, Return, tokens, Cursor, Building
<1>3. Cancelled'
    BY DEF IInv, Run, Return, Cancelled
<1> QED
    BY <1>1, <1>2, <1>3 DEF IInv

\* The prompt enters a cursor that starts at 0.
LEMMA KvInv ==
    ASSUME SessionAssumption, IInv, KvInit \/ KvInitFails
    PROVE  IInv'
<1>0. Ownership /\ Cursor /\ Cancelled
    BY DEF IInv
<1>1. /\ pc = "kv" /\ pc' \in {"check", "idle"}
      /\ UNCHANGED <<given, exec_ctx, n_prompt, generated, texts, phase, stage, cancel_flag, late>>
      /\ result' = result \/ result' = "error"
    BY DEF KvInit, KvInitFails, Return, owned
<1>2. lost' = lost /\ (have' = have \/ have' = have \cup {"kv_ctx"})
    BY DEF KvInit, KvInitFails, Put, owned
<1>3. /\ kv' \in [max : Nat, total : Nat] /\ kv'.total <= kv'.max
      /\ pc' = "check" => kv'.total = n_prompt
  <2>1. /\ kv \in [max : Nat, total : Nat] /\ kv.total <= kv.max /\ n_prompt \in Nat /\ MaxNew \in Nat
    BY DEF IInv, Cursor, SessionAssumption
  <2>2. PICK c \in {KvReset, KvFresh} :
            \/ Fits(c, n_prompt) /\ kv' = [c EXCEPT !.total = @ + n_prompt]
            \/ pc' = "idle" /\ (kv' = c \/ kv' = kv)
    BY DEF KvInit, KvInitFails, Return
  <2>3. c \in [max : Nat, total : Nat] /\ c.total = 0
    BY ONLY <2>1, <2>2 DEF KvReset, KvFresh
  <2> QED
    BY ONLY <2>1, <2>2, <2>3 DEF Fits
<1>4. Ownership'
    BY ONLY <1>1, <1>2, <1>0 DEF Ownership, Locations, Parts, Kinds
<1>5. Cursor'
    BY ONLY <1>1, <1>3, <1>0, SessionAssumption DEF SessionAssumption, Cursor, Building
<1>6. Cancelled'
    BY ONLY <1>1, <1>0 DEF Cancelled
<1> QED
    BY <1>4, <1>5, <1>6 DEF IInv

LEMMA SampleInv ==
    ASSUME SessionAssumption, IInv, Sample
    PROVE  IInv'
<1>1. Ownership'
    BY DEF IInv, Sample, Return, owned, Ownership, Locations
<1>2. Cursor'
    BY DEF IInv, Sample, Return, Cursor, Building, SessionAssumption
<1>3. Cancelled'
    BY DEF IInv, Sample, Return, Cancelled
<1> QED
    BY <1>1, <1>2, <1>3 DEF IInv

LEMMA AppendInv ==
    ASSUME SessionAssumption, IInv, Append
    PROVE  IInv'
<1>1. Ownership'
    BY DEF IInv, Append, Return, owned, Ownership, Locations
<1>2. Cursor'
    BY DEF IInv, Append, Fits, Return, Cursor, Building, SessionAssumption
<1>3. Cancelled'
    BY DEF IInv, Append, Return, Cancelled
<1> QED
    BY <1>1, <1>2, <1>3 DEF IInv

LEMMA Inductive ==
    ASSUME SessionAssumption
    PROVE  IInv /\ [Next]_vars => IInv'
<1> SUFFICES ASSUME IInv, [Next]_vars PROVE IInv'
    OBVIOUS
<1>1. CASE GenerateStep
    BY <1>1, BuildInv, PrefetchInv, RunInv, KvInv, LoopCheckInv, SampleInv, AppendInv DEF GenerateStep
<1>2. CASE UNCHANGED vars
  <2>1. UNCHANGED <<have, lost, given, exec_ctx, kv, n_prompt, generated, texts, pc, phase, stage,
                    result, cancel_flag, late>>
    BY <1>2 DEF vars, owned, tokens, control
  <2>2. Ownership'
    BY <2>1, Zenon DEF IInv, Ownership
  <2>3. Cursor'
    BY <2>1, Zenon DEF IInv, Cursor
  <2>4. Cancelled'
    BY <2>1, Zenon DEF IInv, Cancelled
  <2> QED
    BY <2>2, <2>3, <2>4 DEF IInv
<1> QED
    BY <1>1, <1>2, OutsideInv, GenerateBeginInv DEF Next

-----------------------------------------------------------------------------
(* The theorems.                                                           *)

\* Neither a failed build nor a reset loses a graph, a plan, a scheduler or a
\* backend manager, and outside a build they exist together (pipeline_build,
\* hbi_session_pipeline_reset).
THEOREM PipelineStaysOwned ==
    ASSUME SessionAssumption
    PROVE  Spec => []PipelineOwned
<1>1. Init => IInv
    BY InitInv
<1>2. IInv /\ [Next]_vars => IInv'
    BY Inductive
<1>3. IInv => PipelineOwned
    BY DEF IInv, Ownership, PipelineOwned, Parts, Losable
<1> QED
    BY <1>1, <1>2, <1>3, PTL DEF Spec

\* While generate decodes, the KV cursor counts the prompt and the tokens
\* generated and stays within its context (hbi_runtime_generate).
THEOREM CursorStaysExact ==
    ASSUME SessionAssumption
    PROVE  Spec => []CursorFollowsTokens
<1>1. Init => IInv
    BY InitInv
<1>2. IInv /\ [Next]_vars => IInv'
    BY Inductive
<1>3. IInv => CursorFollowsTokens
    BY DEF IInv, Cursor, CursorFollowsTokens, SessionAssumption
<1> QED
    BY <1>1, <1>2, <1>3, PTL DEF Spec

\* A raised cancel flag lets at most one more stage and one more text through,
\* for any number of stages and tokens (hbi_session_cancel).
THEOREM CancelIsPrompt ==
    ASSUME SessionAssumption
    PROVE  Spec => []CancelStopsWork
<1>1. Init => IInv
    BY InitInv
<1>2. IInv /\ [Next]_vars => IInv'
    BY Inductive
<1>3. IInv => CancelStopsWork
    BY DEF IInv, Cancelled, CancelStopsWork
<1> QED
    BY <1>1, <1>2, <1>3, PTL DEF Spec
=============================================================================
