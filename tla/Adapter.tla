------------------------------ MODULE Adapter ------------------------------
(***************************************************************************)
(* src/adapter/adapter.c (hbi_adapter_init_model) driving the callbacks of *)
(* src/adapter/adapter_gpt_oss.c for several loaded models: initialise,    *)
(* validate the metadata, build the descriptor, verify the tensors, create *)
(* and destroy contexts.  The adapter keeps its constants in a global that *)
(* every initialisation overwrites.  Any allocation may fail.              *)
(***************************************************************************)
EXTENDS Integers, Sequences, FiniteSets, SequencesExt

CONSTANTS
    Sessions,       \* loaded models: [metadata, manifest, constant]
    Ids,            \* the models being set up at the same time
    Word,           \* 2^32: numbers of the metadata are reduced modulo it
    MaxLayers,      \* HBI_GPT_OSS_MAX_LAYERS
    None

Missing == -2           \* the value of a key that is not in the metadata

VARIABLES
    session,        \* of each model
    stage,          \* last callback of hbi_adapter_init_model that succeeded
    descriptor,
    global,         \* g_gpt_oss_state: rms_norm_eps and rope_theta as one constant
    context,        \* of each model: None, or the constants copied into it
    live,           \* allocations of each context
    status

vars == <<session, stage, descriptor, global, context, live, status>>

Required == <<"hidden_size", "intermediate_size", "num_attention_heads",
              "num_key_value_heads", "num_hidden_layers", "vocab_size",
              "max_position_embeddings">>

Init ==
    /\ session \in [Ids -> Sessions]
    /\ stage = [m \in Ids |-> "loaded"] /\ descriptor = [m \in Ids |-> None]
    /\ global = None
    /\ context = [m \in Ids |-> None] /\ live = [m \in Ids |-> {}]
    /\ status = "OK"

-----------------------------------------------------------------------------
(* The callbacks.                                                          *)

\* parse_uint32: a negative number or a word (-1) is rejected, a number
\* that is too large is truncated
Parses(v) == v >= 0
Value(v) == v % Word

\* gpt_oss_validate_metadata: the first required key that is wrong
KeyStatus(v) ==
    IF v = Missing THEN "NOT_FOUND"
    ELSE IF ~Parses(v) \/ Value(v) = 0 THEN "CORRUPT"
    ELSE "OK"

ValidateMetadata(md) ==
    IF md.architecture # "gpt_oss" THEN "NOT_FOUND"
    ELSE LET wrong == SelectSeq(Required, LAMBDA k : KeyStatus(md[k]) # "OK")
         IN  IF wrong = <<>> THEN "OK" ELSE KeyStatus(md[wrong[1]])

\* gpt_oss_build_descriptor
Descriptor(md) == [k \in Range(Required) |-> Value(md[k])]

HeadDim(d) == d.hidden_size \div d.num_attention_heads

\* The shapes gpt_oss_register_tensors requires; every layer has the same.
ExpectedShapes(d) ==
    LET H == d.hidden_size
        Q == d.num_attention_heads * HeadDim(d)
        K == d.num_key_value_heads * HeadDim(d)
        I == d.intermediate_size
    IN  [embed_tokens |-> <<d.vocab_size, H>>, norm |-> <<H>>, lm_head |-> <<d.vocab_size, H>>,
         input_layernorm |-> <<H>>, post_attention_layernorm |-> <<H>>,
         q_proj |-> <<Q, H>>, k_proj |-> <<K, H>>, v_proj |-> <<K, H>>, o_proj |-> <<H, Q>>,
         gate_proj |-> <<I, H>>, up_proj |-> <<I, H>>, down_proj |-> <<H, I>>]

Globals == {"embed_tokens", "norm", "lm_head"}
LayersOf(d, name) == IF name \in Globals THEN {0} ELSE 0..d.num_hidden_layers - 1

\* gpt_oss_register_tensors: every tensor is there, with its shape
RegisterTensors(manifest, d) ==
    LET expected == ExpectedShapes(d)
        wanted == UNION {LayersOf(d, n) \X {n} : n \in DOMAIN expected}
    IN  IF \E t \in wanted : t \notin DOMAIN manifest THEN "NOT_FOUND"
        ELSE IF \E t \in wanted : manifest[t] # expected[t[2]] THEN "CORRUPT"
        ELSE "OK"

-----------------------------------------------------------------------------
(* hbi_adapter_init_model, one callback at a time: the set-ups of two      *)
(* models may interleave.                                                  *)

Step(m, from, to, st) ==
    /\ stage[m] = from
    /\ stage' = [stage EXCEPT ![m] = IF st = "OK" THEN to ELSE "failed"]
    /\ status' = st

InitAdapter(m) ==
    /\ Step(m, "loaded", "initialized", "OK")
    /\ global' = session[m].constant
    /\ UNCHANGED <<session, descriptor, context, live>>

Validate(m) ==
    /\ Step(m, "initialized", "validated", ValidateMetadata(session[m].metadata))
    /\ UNCHANGED <<session, descriptor, global, context, live>>

BuildDescriptor(m) ==
    LET d == Descriptor(session[m].metadata)
        st == IF d.num_hidden_layers > MaxLayers THEN "CORRUPT" ELSE "OK"
    IN  /\ Step(m, "validated", "described", st)
        /\ descriptor' = IF st = "OK" THEN [descriptor EXCEPT ![m] = d] ELSE descriptor
        /\ UNCHANGED <<session, global, context, live>>

Register(m) ==
    /\ stage[m] = "described"
    /\ Step(m, "described", "ready", RegisterTensors(session[m].manifest, descriptor[m]))
    /\ UNCHANGED <<session, descriptor, global, context, live>>

-----------------------------------------------------------------------------
(* Contexts.                                                               *)

Scratch == {"scratch_a", "scratch_b", "scratch_c", "scratch_d",
            "attn_q", "attn_k", "attn_v", "attn_out", "logits"}
Order == <<"outer", "ctx", "scratch_a", "scratch_b", "scratch_c", "scratch_d", "attn_q",
           "attn_k", "attn_v", "attn_out", "logits", "layers", "kv_manager", "kv_handle">>
Objects == Range(Order)

\* Mutant: the cleanup forgets the manager of the cache.
FreedByCleanupForgets == {"outer", "ctx", "layers", "kv_handle"} \cup Scratch

\* What the cleanup of gpt_oss_create_context, and gpt_oss_destroy_context,
\* free of what there is
FreedByCleanup == {"outer", "ctx", "layers", "kv_manager", "kv_handle"} \cup Scratch

CreateContext(m) ==
    /\ stage[m] = "ready" /\ context[m] = None
    /\ context' = [context EXCEPT ![m] = [constant |-> global]]
    /\ live' = [live EXCEPT ![m] = Objects]
    /\ status' = "OK"
    /\ UNCHANGED <<session, stage, descriptor, global>>

\* The i-th allocation fails: before the private context there is, only
\* the outer one is freed, after it the cleanup runs.
CreateContextFails(m) ==
    /\ stage[m] = "ready" /\ context[m] = None
    /\ \E i \in DOMAIN Order :
          LET there == {Order[j] : j \in 1..i - 1}
          IN  live' = [live EXCEPT ![m] =
                          there \ (IF i <= 2 THEN {"outer"} ELSE FreedByCleanup)]
    /\ status' = "OOM"
    /\ UNCHANGED <<session, stage, descriptor, global, context>>

DestroyContext(m) ==
    /\ context[m] # None
    /\ context' = [context EXCEPT ![m] = None]
    /\ live' = [live EXCEPT ![m] = live[m] \ FreedByCleanup]
    /\ status' = "OK"
    /\ UNCHANGED <<session, stage, descriptor, global>>

Shutdown ==
    /\ global # None /\ \A m \in Ids : context[m] = None
    /\ global' = None
    /\ UNCHANGED <<session, stage, descriptor, context, live, status>>

Next ==
    \/ \E m \in Ids :
          \/ InitAdapter(m) \/ Validate(m) \/ BuildDescriptor(m) \/ Register(m)
          \/ CreateContext(m) \/ CreateContextFails(m) \/ DestroyContext(m)
    \/ Shutdown

Spec == Init /\ [][Next]_vars

-----------------------------------------------------------------------------
\* A context owns all of its buffers or, whichever allocation of its
\* creation fails, and after its destruction, nothing of it is left.
ContextAllOrNothing ==
    \A m \in Ids : live[m] = IF context[m] = None THEN {} ELSE Objects

\* A model that is accepted has heads of at least one element and no empty
\* dimension, although nothing compares the number of heads with the hidden
\* size: the shapes of its projections, which are never empty, rule it out.
ReadyIsComputable ==
    \A m \in Ids : stage[m] = "ready" =>
        /\ HeadDim(descriptor[m]) > 0
        /\ \A k \in DOMAIN descriptor[m] : descriptor[m][k] > 0
        /\ descriptor[m].num_hidden_layers <= MaxLayers

\* What the adapter accepts can be computed with, and its contexts are whole.
AcceptedIsWhole == ContextAllOrNothing /\ ReadyIsComputable
=============================================================================
