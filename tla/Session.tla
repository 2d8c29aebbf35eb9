------------------------------ MODULE Session ------------------------------
(***************************************************************************)
(* A runtime session (src/runtime): the objects it owns, pipeline_build    *)
(* with its cleanup lists, and generate, the prefill and decode loop.  The *)
(* session belongs to one thread; only the cancel flag is shared, and any  *)
(* thread may cancel or reset it between two steps of generate.            *)
(* The memory plan lives inside the planner object.                        *)
(***************************************************************************)
EXTENDS Naturals

CONSTANTS
    Prompts,      \* lengths of prompts
    MaxNew,       \* config.max_new_tokens
    NumStages     \* stages of every plan

SessionAssumption ==
    Prompts \subseteq Nat /\ MaxNew \in Nat \ {0} /\ NumStages \in Nat

VARIABLES
    have,         \* the kinds of object a field of the session points to
    lost,         \* the kinds of which an object is allocated and unreachable
    given,        \* which of model and adapter the caller passed to create
    exec_ctx,     \* the execution context is set
    kv,           \* max_tokens and total_tokens of the session's KV context
    cancel_flag,
    pc,           \* where the owning thread is
    phase,        \* generate is in its prefill or in its decode loop
    n_prompt, generated,
    texts,        \* calls of on_text
    stage,        \* the stage prefetched next
    result,       \* how the last generate ended
    late          \* ghost: stages and texts since the flag was last raised

owned == <<have, lost, given, exec_ctx>>
tokens == <<kv, n_prompt, generated, texts>>
control == <<pc, phase, stage, result>>
vars == <<owned, tokens, control, cancel_flag, late>>

LongLived == {"session", "kv_manager", "model_ctx", "stream_engine"}
Pipeline == {"graph", "scheduler", "plan", "planner", "backend_mgr"}
Kinds == LongLived \cup Pipeline \cup {"kv_ctx", "partial_plan"}

Init ==
    /\ have = {} /\ lost = {} /\ given = {} /\ exec_ctx = FALSE
    /\ kv = [max |-> 0, total |-> 0]
    /\ cancel_flag = FALSE
    /\ pc = "none" /\ phase = "prefill" /\ stage = 0 /\ result = "none"
    /\ n_prompt = 0 /\ generated = 0 /\ texts = 0
    /\ late = [stages |-> 0, texts |-> 0]

Put(K) == have' = have \cup K /\ lost' = lost \cup (have \cap K)

\* Mutant: the scheduler goes before its plan, which is lost.
ResetSchedulerFirst ==
    /\ have' = have \ {"plan", "scheduler", "graph", "backend_mgr"}
    /\ lost' = IF "plan" \in have THEN lost \cup {"plan"} ELSE lost

\* A plan is destroyed through its scheduler, so it goes first.  The planner
\* stays, and the next build overwrites the pointer to it.
PipelineReset ==
    /\ have' = have \ {"plan", "scheduler", "graph", "backend_mgr"}
    /\ lost' = IF "plan" \in have /\ "scheduler" \notin have THEN lost \cup {"plan"} ELSE lost

Return(r) == pc' = "idle" /\ result' = r

-----------------------------------------------------------------------------
\* Creation, with the unwinding of every failure.  A failure after the stream
\* engine was made goes through session_destroy, which forgets the engine.
Made(g) ==
    {"session", "kv_manager"} \cup (IF g = {"model", "adapter"} THEN {"model_ctx"} ELSE {})
                              \cup (IF "model" \in g THEN {"stream_engine"} ELSE {})

Create(g) ==
    /\ pc = "none"
    /\ have' = Made(g) /\ given' = g /\ pc' = "idle" /\ result' = "none"
    /\ cancel_flag' = FALSE
    /\ UNCHANGED <<lost, exec_ctx, tokens, phase, stage, late>>

CreateFails(g) ==
    /\ pc = "none"
    /\ \/ lost' = lost
       \/ "model" \in g /\ lost' = lost \cup {"stream_engine"}
    /\ UNCHANGED <<have, given, exec_ctx, tokens, control, cancel_flag, late>>

\* session_destroy: what is not in its list is lost with the session.
Destroy ==
    /\ pc = "idle"
    /\ have' = {}
    /\ lost' = lost \cup (have \cap {"planner", "stream_engine"})
    /\ given' = {} /\ exec_ctx' = FALSE
    /\ kv' = [max |-> 0, total |-> 0]
    /\ pc' = "none" /\ result' = "none"
    /\ UNCHANGED <<n_prompt, generated, texts, phase, stage, cancel_flag, late>>

\* No code of the library sets exec_ctx; its end-to-end test does.
BindExecContext ==
    /\ pc = "idle" /\ ~exec_ctx
    /\ exec_ctx' = TRUE
    /\ UNCHANGED <<have, lost, given, tokens, control, cancel_flag, late>>

-----------------------------------------------------------------------------
\* Any thread, at any time while the session exists.
Cancel ==
    /\ pc # "none"
    /\ cancel_flag' = TRUE
    /\ late' = IF cancel_flag THEN late ELSE [stages |-> 0, texts |-> 0]
    /\ UNCHANGED <<owned, tokens, control>>

ResetFlag ==
    /\ pc # "none"
    /\ cancel_flag' = FALSE
    /\ UNCHANGED <<owned, tokens, control, late>>

-----------------------------------------------------------------------------
\* generate up to its prefill: the guards, the reset of the pipeline, the prompt.
GenerateRefused ==
    /\ pc = "idle"
    /\ cancel_flag \/ given # {"model", "adapter"}
    /\ Return("error")
    /\ UNCHANGED <<owned, tokens, phase, stage, cancel_flag, late>>

GenerateBegin(n) ==
    /\ pc = "idle"
    /\ ~cancel_flag /\ given = {"model", "adapter"}
    /\ PipelineReset
    /\ \/ Return("error") /\ UNCHANGED <<phase, n_prompt, generated, texts>>
       \/ /\ pc' = "graph" /\ phase' = "prefill" /\ UNCHANGED result
          /\ n_prompt' = n /\ generated' = 0 /\ texts' = 0
    /\ UNCHANGED <<given, exec_ctx, kv, stage, cancel_flag, late>>

\* pipeline_build.  Each step fails, dropping what the steps before it made, or
\* goes on to the next.
BuildStep(at, next, made, dropped) ==
    /\ pc = at
    /\ \/ /\ have' = have \ dropped /\ lost' = lost
          /\ Return("error")
       \/ Put(made) /\ pc' = next /\ UNCHANGED result
    /\ stage' = 0
    /\ UNCHANGED <<given, exec_ctx, tokens, phase, cancel_flag, late>>

BuildGraph == BuildStep("graph", "plan", {"graph"}, {})

\* The scheduler and its plan.  create_plan drops a plan it built in part, and
\* destroying the scheduler does not free it.
BuildPlan ==
    \/ BuildStep("plan", "memory", {"scheduler", "plan"}, {"graph"})
    \/ /\ pc = "plan"
       /\ have' = have \ {"graph"} /\ lost' = lost \cup {"partial_plan"}
       /\ Return("error")
       /\ UNCHANGED <<given, exec_ctx, tokens, phase, stage, cancel_flag, late>>

\* planner_create, which fails without touching the planner of an earlier step,
\* then memory_planner_plan, whose failure destroys the planner just made.
BuildMemory ==
    \/ BuildStep("memory", "prefetch", {"planner"}, {"plan", "scheduler", "graph"})
    \/ /\ pc = "memory"
       /\ have' = have \ {"planner", "plan", "scheduler", "graph"}
       /\ lost' = lost \cup (have \cap {"planner"})
       /\ Return("error")
       /\ UNCHANGED <<given, exec_ctx, tokens, phase, stage, cancel_flag, late>>

\* Mutant: the cancel flag is not tested before a stage.
PrefetchUnchecked ==
    /\ pc = "prefetch"
    /\ pc' = IF stage < NumStages THEN "stage" ELSE "backend"
    /\ UNCHANGED <<owned, tokens, phase, stage, result, cancel_flag, late>>

\* The prefetch loop looks at the flag before every stage.
PrefetchCheck ==
    /\ pc = "prefetch"
    /\ pc' = IF stage < NumStages /\ ~cancel_flag THEN "stage" ELSE "backend"
    /\ UNCHANGED <<owned, tokens, phase, stage, result, cancel_flag, late>>

PrefetchStage ==
    /\ pc = "stage"
    /\ stage' = stage + 1
    /\ late' = IF cancel_flag THEN [late EXCEPT !.stages = @ + 1] ELSE late
    /\ pc' = "prefetch"
    /\ UNCHANGED <<owned, tokens, phase, result, cancel_flag>>

BuildBackend == BuildStep("backend", "run", {"backend_mgr"}, {"planner", "plan", "scheduler", "graph"})

\* executor_run, which fails without an execution context.
Run ==
    /\ pc = "run"
    /\ \/ Return("error")
       \/ exec_ctx /\ pc' = (IF phase = "prefill" THEN "kv" ELSE "sample") /\ UNCHANGED result
    /\ UNCHANGED <<owned, tokens, phase, stage, cancel_flag, late>>

-----------------------------------------------------------------------------
\* append_tokens on a cursor.
Fits(c, n) == c.total + n <= c.max

KvReset == [kv EXCEPT !.total = 0]
KvFresh == [max |-> n_prompt + MaxNew, total |-> 0]

\* Mutant: the cursor of the last generation is kept.
KvKeepsCursor ==
    LET c == IF "kv_ctx" \in have THEN kv ELSE KvFresh
    IN  /\ pc = "kv"
        /\ Put({"kv_ctx"} \ have)
        /\ IF Fits(c, n_prompt) THEN /\ kv' = [c EXCEPT !.total = @ + n_prompt]
                                     /\ pc' = "check" /\ UNCHANGED result
                                ELSE kv' = c /\ Return("error")
        /\ UNCHANGED <<given, exec_ctx, n_prompt, generated, texts, phase, stage, cancel_flag, late>>

\* The KV context is created for the first prompt and reset for later ones, and
\* its cursor moves by the prompt's length.
KvInit ==
    LET c == IF "kv_ctx" \in have THEN KvReset ELSE KvFresh
    IN  /\ pc = "kv"
        /\ Put({"kv_ctx"} \ have)
        /\ IF Fits(c, n_prompt) THEN /\ kv' = [c EXCEPT !.total = @ + n_prompt]
                                     /\ pc' = "check" /\ UNCHANGED result
                                ELSE kv' = c /\ Return("error")
        /\ UNCHANGED <<given, exec_ctx, n_prompt, generated, texts, phase, stage, cancel_flag, late>>

\* context_create or, later, decode_state_create fails.
KvInitFails ==
    /\ pc = "kv"
    /\ \/ "kv_ctx" \notin have /\ UNCHANGED <<owned, kv>>
       \/ /\ Put({"kv_ctx"} \ have) /\ UNCHANGED <<given, exec_ctx>>
          /\ LET c == IF "kv_ctx" \in have THEN KvReset ELSE KvFresh
             IN  Fits(c, n_prompt) /\ kv' = [c EXCEPT !.total = @ + n_prompt]
    /\ Return("error")
    /\ UNCHANGED <<n_prompt, generated, texts, phase, stage, cancel_flag, late>>

\* The top of the decode loop: the flag, the limit, then a new pipeline.
LoopCheck ==
    /\ pc = "check"
    /\ IF cancel_flag \/ generated >= MaxNew
         THEN Return("ok") /\ UNCHANGED <<have, lost, phase>>
         ELSE PipelineReset /\ pc' = "graph" /\ phase' = "decode" /\ UNCHANGED result
    /\ UNCHANGED <<given, exec_ctx, tokens, stage, cancel_flag, late>>

\* The next token: the end of the sequence, a token that does not decode, or one
\* whose text (possibly empty so far) goes to the caller.
Sample ==
    /\ pc = "sample"
    /\ \/ Return("ok") /\ UNCHANGED <<texts, late>>
       \/ Return("error") /\ UNCHANGED <<texts, late>>
       \/ pc' = "append" /\ UNCHANGED <<texts, late, result>>
       \/ /\ texts' = texts + 1
          /\ late' = IF cancel_flag THEN [late EXCEPT !.texts = @ + 1] ELSE late
          /\ pc' = "append" /\ UNCHANGED result
    /\ UNCHANGED <<owned, kv, n_prompt, generated, phase, stage, cancel_flag>>

\* Mutant: a full cache is no error.
AppendRetries ==
    /\ pc = "append" /\ pc' = "check" /\ UNCHANGED result
    /\ IF Fits(kv, 1) THEN kv' = [kv EXCEPT !.total = @ + 1] /\ generated' = generated + 1
                      ELSE UNCHANGED <<kv, generated>>
    /\ UNCHANGED <<owned, n_prompt, texts, phase, stage, cancel_flag, late>>

\* The KV cursor follows the token the caller has already seen.
Append ==
    /\ pc = "append"
    /\ IF Fits(kv, 1)
         THEN /\ kv' = [kv EXCEPT !.total = @ + 1] /\ generated' = generated + 1
              /\ pc' = "check" /\ UNCHANGED result
         ELSE Return("error") /\ UNCHANGED <<kv, generated>>
    /\ UNCHANGED <<owned, n_prompt, texts, phase, stage, cancel_flag, late>>

-----------------------------------------------------------------------------
\* The steps of a call of generate.
GenerateStep ==
    \/ BuildGraph \/ BuildPlan \/ BuildMemory
    \/ PrefetchCheck \/ PrefetchStage \/ BuildBackend
    \/ Run \/ KvInit \/ KvInitFails \/ LoopCheck \/ Sample \/ Append

Next ==
    \/ \E g \in SUBSET {"model", "adapter"} : Create(g) \/ CreateFails(g)
    \/ Destroy \/ BindExecContext
    \/ Cancel \/ ResetFlag
    \/ GenerateRefused \/ \E n \in Prompts : GenerateBegin(n)
    \/ GenerateStep

Spec == Init /\ [][Next]_vars

\* The owning thread goes on once it is in generate; nothing makes it call, and
\* nothing is assumed of the threads that cancel and reset.
FairSpec == Spec /\ WF_vars(GenerateStep)

-----------------------------------------------------------------------------

\* session.h:13 and pipeline.h:25: the teardown frees graph, plan, scheduler and
\* backend manager, and a failed build leaves none of them behind.  So none is
\* ever lost, and outside a build they exist together.  (What the code does lose
\* is in no such list: planners, the stream engine, plans built in part.)
PipelineOwned ==
    /\ lost \subseteq {"planner", "stream_engine", "partial_plan"}
    /\ pc \in {"none", "idle", "check", "run"} =>
         \/ {"graph", "scheduler", "plan", "backend_mgr"} \subseteq have
         \/ {"graph", "scheduler", "plan", "backend_mgr"} \cap have = {}

\* While generate decodes, the KV cursor is the prompt plus the tokens generated,
\* it stays within what the context was made for, and the caller has been given
\* at most one token that the cursor does not count.
CursorFollowsTokens ==
    /\ kv.total <= kv.max
    /\ pc \in {"check", "append", "sample"} =>
         /\ kv.total = n_prompt + generated
         /\ texts <= generated + (IF pc = "append" THEN 1 ELSE 0)

\* Once the flag is raised, and until it is lowered, at most the stage and the
\* token under way get through (RFC-019-runtime-orchestrator.md:228, "The
\* generation loop checks this atomic flag at the start of every decode
\* iteration").
CancelStopsWork == late.stages <= 1 /\ late.texts <= 1

\* The owning thread is in a call of generate, or between calls.
Generating == pc \notin {"none", "idle"}
Idle == pc = "idle"

\* A call of generate returns, whatever the order of cancels and resets.
GenerateReturns == Generating ~> Idle
=============================================================================
