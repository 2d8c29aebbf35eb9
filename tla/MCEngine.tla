------------------------------ MODULE MCEngine ------------------------------
(* What a model is loaded from and computed with, each part checked on     *)
(* its own: the streaming engine, the tokenizer, JSON, model files,        *)
(* decoded weights, the adapter and its forward pass, graphs, kernels and  *)
(* their backends, execution contexts, the KV cache of a sequence and      *)
(* arenas.  A behaviour is one of one component; the slots hold the        *)
(* variables of any but Stream.                                            *)
EXTENDS Stream, Integers, TLC

CONSTANTS
    cpu1, cpu2, gpu, dated, m1, m2, p1, p2, w1, Nothing, Junk

VARIABLES
    part,     \* the component of the behaviour
    s1, s2, s3, s4, s5, s6, s7, s8, s9, s10, s11, s12, s13, s14, s15, s16, s17

slots == <<s1, s2, s3, s4, s5, s6, s7, s8, s9, s10, s11, s12, s13, s14, s15, s16,
           s17>>
engineVars == <<part, vars, slots>>

\* "ab", an e with an acute accent, the same cut short, and the empty text
MCInputTexts == {<<97, 98>>, <<195, 169>>, <<195>>, <<>>}
MCBatches == {<<2>>, <<2, 3, 97 + 5, 3, 2>>}
MCCodePoints ==
    {0, 1, 127, 128, 2047, 2048, 55295, 55296, 57343, 57344, 65533, 65535, 65536, 1114111, 1114112}

\* A pair of surrogates, each half alone, both out of order, and the
\* numbers at which the length of an encoding changes.  -1 is a plain
\* character, -2 an escape, -4 a control character.
MCStrings ==
    {<<-1, -2>>, <<55357, 56832>>, <<55357>>, <<-4>>, <<56832, 55357>>,
     <<127, 128, 2047, 2048, 65535>>}

\* Model files.
TensorMember(name, dtype, count, begin, end) ==
    [kind |-> "tensor", name |-> name, dtype |-> dtype, count |-> count,
     begin |-> begin, end |-> end, length |-> 1]
MetadataMember(key, value) == [kind |-> "metadata", key |-> key, value |-> value]

Safetensors(size, members) ==
    [format |-> "safetensors", header |-> 10, size |-> size, members |-> members]

\* Two tensors and metadata; a tensor that ends past the file; one too
\* small for its elements; a duplicate; an unknown dtype, a bad shape, an
\* empty tensor, an empty name; other formats and a file without a header.
MCFiles ==
    {Safetensors(14, <<TensorMember("a", "F32", 1, 0, 2), MetadataMember("k", 1), TensorMember("b", "U8", 2, 2, 4),
                       MetadataMember("k", 2), MetadataMember("l", 1)>>),
     Safetensors(13, <<TensorMember("a", "U8", 1, 0, 1), TensorMember("b", "U8", 1, 3, 4)>>),
     Safetensors(12, <<TensorMember("a", "F32", 2, 0, 2)>>),
     Safetensors(12, <<TensorMember("a", "U8", 1, 0, 1), TensorMember("a", "U8", 1, 1, 2)>>),
     Safetensors(11, <<TensorMember("a", "I64", 1, 0, 1)>>),
     Safetensors(11, <<TensorMember("a", "U8", 0, 0, 1)>>),
     Safetensors(11, <<TensorMember("a", "U8", 1, 1, 1)>>),
     Safetensors(11, <<[TensorMember("a", "U8", 1, 0, 1) EXCEPT !.length = 9]>>),
     Safetensors(11, <<[kind |-> "other"], [TensorMember("a", "U8", 1, 0, 1) EXCEPT !.length = 0]>>),
     [format |-> "safetensors", header |-> 10, size |-> 9, members |-> <<>>],
     [format |-> "gguf", header |-> 0, size |-> 4, members |-> <<>>],
     [format |-> "onnx", header |-> 0, size |-> 4, members |-> <<>>],
     [format |-> "unknown", header |-> 0, size |-> 4, members |-> <<>>]}
MCWidth == [F32 |-> 2, U8 |-> 1]

\* Models for the adapter.
Metadata(hidden, heads, kvHeads, layers) ==
    [architecture |-> "gpt_oss", hidden_size |-> hidden, intermediate_size |-> 3,
     num_attention_heads |-> heads, num_key_value_heads |-> kvHeads,
     num_hidden_layers |-> layers, vocab_size |-> 5, max_position_embeddings |-> 2]

\* The manifest of a model with heads of n elements.
Manifest(md, n) ==
    LET H == md.hidden_size
        Q == md.num_attention_heads * n
        K == md.num_key_value_heads * n
        shapes ==
           [embed_tokens |-> <<5, H>>, norm |-> <<H>>, lm_head |-> <<5, H>>,
            input_layernorm |-> <<H>>, post_attention_layernorm |-> <<H>>,
            q_proj |-> <<Q, H>>, k_proj |-> <<K, H>>, v_proj |-> <<K, H>>, o_proj |-> <<H, Q>>,
            gate_proj |-> <<3, H>>, up_proj |-> <<3, H>>, down_proj |-> <<H, 3>>]
    IN  [t \in (0..1) \X DOMAIN shapes |-> shapes[t[2]]]

Loaded(md, n, constant) ==
    [metadata |-> md, manifest |-> Manifest(md, n), constant |-> constant]
Good == Metadata(4, 2, 1, 2)

\* Two good models, one with fewer elements than heads, one with a layer
\* without tensors, and metadata with a wrong number or key.
MCSessions ==
    {Loaded(Good, 2, 1), Loaded([Good EXCEPT !.num_hidden_layers = 1], 2, 2),
     Loaded(Metadata(2, 4, 2, 1), 1, 1), Loaded(Metadata(4, 2, 1, 3), 2, 1),
     Loaded(Metadata(4, 2, 1, 7), 2, 1),
     Loaded([Good EXCEPT !.vocab_size = -1], 2, 1),
     Loaded([Good EXCEPT !.vocab_size = -2], 2, 1),
     Loaded([Good EXCEPT !.num_key_value_heads = 0], 2, 1),
     Loaded([Good EXCEPT !.architecture = "llama"], 2, 1)}

\* Kernels, the graphs they serve, and the graph of an execution context.
KernelGraphs == {<<>>, <<"fp32">>, <<"fp32", "int8">>, <<"int8", "int8">>}
KernelFlags == {{}, {"contiguous"}}
GraphNodes == <<[operands |-> {1, 2}, need |-> 1], [operands |-> {2, 3}, need |-> 3],
                [operands |-> {3}, need |-> 2]>>

\* Interchangeable: the clients of the streaming engine, the KV contexts, the
\* models being set up.
Symmetry == Permutations({p1, p2})

-----------------------------------------------------------------------------
Tok == INSTANCE Tokenizer WITH
    InputTexts <- MCInputTexts, Batches <- MCBatches,
    CodePoints <- MCCodePoints, InitialCap <- 2,
    OutCapacities <- {0, 1, 3, 9}, Offset <- 5, MaxTokens <- 5, data <- s1,
    count <- s2, context <- s3, call <- s4, text <- s5, index <- s6,
    status <- s7, decoded <- s8, written <- s9

Jsn == INSTANCE Json WITH
    Strings <- MCStrings, MaxSymbols <- 7, MaxDepth <- 3, InitialItems <- 1,
    text <- s1, ahead <- s2, stack <- s3, mode <- s4, value <- s5,
    depth <- s6, live <- s7, result <- s8

Mod == INSTANCE Model WITH
    Files <- MCFiles, Handlers <- {"safetensors", "gguf"}, Width <- MCWidth,
    MaxNameLength <- 4, InitialEntries <- 1, InitialPairs <- 1, None <- Nothing,
    file <- s1, fileSize <- s2, strict <- s3, hint <- s4, step <- s5,
    member <- s6, live <- s7, entries <- s8, entriesCap <- s9, pairs <- s10,
    pairsCap <- s11, state <- s12, errors <- s13, warnings <- s14, out <- s15,
    status <- s16, read <- s17

Ada == INSTANCE Adapter WITH
    Sessions <- MCSessions, Ids <- {p1, p2}, Word <- 16, MaxLayers <- 4,
    None <- Nothing, session <- s1, stage <- s2, descriptor <- s3, global <- s4,
    context <- s5, live <- s6, status <- s7

Qua == INSTANCE Quant WITH
    Halves <- 0..65535, Bytes <- {18, 59, 127, 244},
    Exponents <- {0, 1, 126, 128, 255}, BlockElems <- 2, dtype <- s1,
    input <- s2, status <- s3, output <- s4

Fwd == INSTANCE GptOssForward WITH
    NumLayers <- 2, MaxSeq <- 2, Tokens <- {0, 2}, VocabSize <- 2,
    None <- Nothing, bound <- s1, pos <- s2, layer <- s3, scratch <- s4,
    cache <- s5, scores <- s6, made <- s7, keys <- s8, status <- s9

Gra == INSTANCE Graph WITH
    MaxNodes <- 3, MaxValues <- 2, MaxInputs <- 2, MaxOutputs <- 1,
    MaxFailures <- 1, NoNode <- Nothing, Junk <- Junk, nodes <- s1,
    producer <- s2, visited <- s3, stack <- s4, order <- s5, phase <- s6

Ker == INSTANCE Kernel WITH
    Dtypes <- {"fp32", "int8"}, Flags <- KernelFlags, MaxKernels <- 3,
    Graphs <- KernelGraphs, kernels <- s1, dispatched <- s2, executor <- s3,
    status <- s4, cleared <- s5

Exe == INSTANCE ExecContext WITH
    NumValues <- 3, Constant <- {1}, Planned <- {2, 3}, Nodes <- GraphNodes,
    MaxBlocks <- 14, life <- s1, blocks <- s2, heap <- s3, base <- s4,
    values <- s5, buffer <- s6, pools <- s7, pool <- s8, workspace <- s9,
    node <- s10, badFree <- s11

Kvc == INSTANCE KvContext WITH
    Handles <- {p1, p2}, Limits <- {2, 3, 4}, Counts <- {0, 1, 2, 3},
    Outer <- 1, SeqAxis <- 1, Word <- 16,
    Operations <- {"shrink", "grow", "clone"}, ctx <- s1

Are == INSTANCE Arena WITH
    Capacity <- 8, Bases <- {2, 4, 22}, Natural <- 2, Sizes <- {0, 1, 3},
    Alignments <- {0, 1, 3, 4}, Word <- 32, MaxSlices <- 3, base <- s1,
    offset <- s2, last_offset <- s3, slices <- s4, cells <- s5, next <- s6

Bac == INSTANCE Backend WITH
    Backends <- {cpu1, cpu2, gpu, dated}, Contextless <- {gpu}, OldAbi <- {dated},
    Managers <- {m1, m2}, MaxBackends <- 3, MaxContexts <- 3, registry <- s1,
    slots <- s2, made <- s3, live <- s4, status <- s5

ASSUME EngineAssumptions ==
    /\ StreamAssumption
    /\ Gra!GraphAssumption
    /\ Kvc!ContextAssumption
    /\ Are!ArenaAssumption

-----------------------------------------------------------------------------
\* The components that may stop: their bounds end a behaviour, or a thread
\* sleeps for good.
Bounded == {"json", "model", "adapter", "quant", "graph", "context",
            "arena", "stream"}

EngineInit ==
    /\ Init
    /\ \/ part = "tokenizer" /\ Tok!Init
            /\ s10 = 0 /\ s11 = 0 /\ s12 = 0 /\ s13 = 0 /\ s14 = 0 /\ s15 = 0
            /\ s16 = 0 /\ s17 = 0
       \/ part = "json" /\ Jsn!Init
            /\ s9 = 0 /\ s10 = 0 /\ s11 = 0 /\ s12 = 0 /\ s13 = 0 /\ s14 = 0
            /\ s15 = 0 /\ s16 = 0 /\ s17 = 0
       \/ part = "model" /\ Mod!Init
       \/ part = "adapter" /\ Ada!Init
            /\ s8 = 0 /\ s9 = 0 /\ s10 = 0 /\ s11 = 0 /\ s12 = 0 /\ s13 = 0
            /\ s14 = 0 /\ s15 = 0 /\ s16 = 0 /\ s17 = 0
       \/ part = "quant" /\ Qua!Init
            /\ s5 = 0 /\ s6 = 0 /\ s7 = 0 /\ s8 = 0 /\ s9 = 0 /\ s10 = 0
            /\ s11 = 0 /\ s12 = 0 /\ s13 = 0 /\ s14 = 0 /\ s15 = 0 /\ s16 = 0
            /\ s17 = 0
       \/ part = "forward" /\ Fwd!Init
            /\ s10 = 0 /\ s11 = 0 /\ s12 = 0 /\ s13 = 0 /\ s14 = 0 /\ s15 = 0
            /\ s16 = 0 /\ s17 = 0
       \/ part = "graph" /\ Gra!Init
            /\ s7 = 0 /\ s8 = 0 /\ s9 = 0 /\ s10 = 0 /\ s11 = 0 /\ s12 = 0
            /\ s13 = 0 /\ s14 = 0 /\ s15 = 0 /\ s16 = 0 /\ s17 = 0
       \/ part = "kernel" /\ Ker!Init
            /\ s6 = 0 /\ s7 = 0 /\ s8 = 0 /\ s9 = 0 /\ s10 = 0 /\ s11 = 0
            /\ s12 = 0 /\ s13 = 0 /\ s14 = 0 /\ s15 = 0 /\ s16 = 0 /\ s17 = 0
       \/ part = "context" /\ Exe!Init
            /\ s12 = 0 /\ s13 = 0 /\ s14 = 0 /\ s15 = 0 /\ s16 = 0 /\ s17 = 0
       \/ part = "kv_context" /\ Kvc!Init
            /\ s2 = 0 /\ s3 = 0 /\ s4 = 0 /\ s5 = 0 /\ s6 = 0 /\ s7 = 0
            /\ s8 = 0 /\ s9 = 0 /\ s10 = 0 /\ s11 = 0 /\ s12 = 0 /\ s13 = 0
            /\ s14 = 0 /\ s15 = 0 /\ s16 = 0 /\ s17 = 0
       \/ part = "arena" /\ Are!Init
            /\ s7 = 0 /\ s8 = 0 /\ s9 = 0 /\ s10 = 0 /\ s11 = 0 /\ s12 = 0
            /\ s13 = 0 /\ s14 = 0 /\ s15 = 0 /\ s16 = 0 /\ s17 = 0
       \/ part = "backend" /\ Bac!Init
            /\ s6 = 0 /\ s7 = 0 /\ s8 = 0 /\ s9 = 0 /\ s10 = 0 /\ s11 = 0
            /\ s12 = 0 /\ s13 = 0 /\ s14 = 0 /\ s15 = 0 /\ s16 = 0 /\ s17 = 0
       \/ part = "stream"
            /\ s1 = 0 /\ s2 = 0 /\ s3 = 0 /\ s4 = 0 /\ s5 = 0 /\ s6 = 0
            /\ s7 = 0 /\ s8 = 0 /\ s9 = 0 /\ s10 = 0 /\ s11 = 0 /\ s12 = 0
            /\ s13 = 0 /\ s14 = 0 /\ s15 = 0 /\ s16 = 0 /\ s17 = 0

EngineNext ==
    \/ part = "tokenizer" /\ Tok!Next
         /\ UNCHANGED <<part, vars, s10, s11, s12, s13, s14, s15, s16, s17>>
    \/ part = "json" /\ Jsn!Next
         /\ UNCHANGED <<part, vars, s9, s10, s11, s12, s13, s14, s15, s16,
            s17>>
    \/ part = "model" /\ Mod!Next
         /\ UNCHANGED <<part, vars>>
    \/ part = "adapter" /\ Ada!Next
         /\ UNCHANGED <<part, vars, s8, s9, s10, s11, s12, s13, s14, s15, s16,
            s17>>
    \/ part = "quant" /\ Qua!Next
         /\ UNCHANGED <<part, vars, s5, s6, s7, s8, s9, s10, s11, s12, s13,
            s14, s15, s16, s17>>
    \/ part = "forward" /\ Fwd!Next
         /\ UNCHANGED <<part, vars, s10, s11, s12, s13, s14, s15, s16, s17>>
    \/ part = "graph" /\ Gra!Next
         /\ UNCHANGED <<part, vars, s7, s8, s9, s10, s11, s12, s13, s14, s15,
            s16, s17>>
    \/ part = "kernel" /\ Ker!Next
         /\ UNCHANGED <<part, vars, s6, s7, s8, s9, s10, s11, s12, s13, s14,
            s15, s16, s17>>
    \/ part = "context" /\ Exe!Next
         /\ UNCHANGED <<part, vars, s12, s13, s14, s15, s16, s17>>
    \/ part = "kv_context" /\ Kvc!Next
         /\ UNCHANGED <<part, vars, s2, s3, s4, s5, s6, s7, s8, s9, s10, s11,
            s12, s13, s14, s15, s16, s17>>
    \/ part = "arena" /\ Are!Next
         /\ UNCHANGED <<part, vars, s7, s8, s9, s10, s11, s12, s13, s14, s15,
            s16, s17>>
    \/ part = "backend" /\ Bac!Next
         /\ UNCHANGED <<part, vars, s6, s7, s8, s9, s10, s11, s12, s13, s14,
            s15, s16, s17>>
    \/ part = "stream" /\ Next /\ UNCHANGED <<part, slots>>
    \/ part \in Bounded /\ UNCHANGED engineVars

EngineSpec == EngineInit /\ [][EngineNext]_engineVars

\* The behaviours of an execution context alone.
ContextSpec == EngineInit /\ part = "context" /\ [][EngineNext]_engineVars

-----------------------------------------------------------------------------
\* Tokenizer: a sequence holds what was appended, an encoding that stops left
\* a prefix, and decoding undoes encoding.
TextSurvives == part = "tokenizer" => Tok!TextSurvives

\* Json: the tree and its strings are those of the input, its nesting is
\* bounded, and what is not in it was freed.
ParseExact == part = "json" => Jsn!ParseExact

\* Model: a failed load leaves nothing, entries lie in the file, a strict load
\* is valid, and a read fills its buffer.
LoadReliable == part = "model" => Mod!LoadReliable

\* Adapter: a context is whole or nothing is left, and a ready one can compute.
AcceptedIsWhole == part = "adapter" => Ada!AcceptedIsWhole

\* Quant: decoded numbers are those of their codes.
DecodesToValue == part = "quant" => Qua!DecodesToValue

\* Forward: the graph of a layer computes what the layer does, and the scores
\* are freed.
PassComputesGraph == part = "forward" => Fwd!PassComputesGraph

\* Graph: a graph that was built has no cycle and its order puts producers
\* first.
BuildSucceeds == part = "graph" => Gra!BuildSucceeds

\* Kernel: a dispatch has one kernel, resolving ahead of time gives the same
\* one, and an executor's kernels serve its nodes.
ResolutionSound == part = "kernel" => Ker!ResolutionSound

\* ExecContext: a node runs on live operands, nothing is freed twice, and the
\* scratch of a node fits the workspace.
ContextSound == part = "context" => Exe!ContextSound

\* ExecContext: destroying a context frees the tensors it made.
DestroyFreesItsTensors == part = "context" => Exe!DestroyFreesItsTensors

\* Arena: a slice keeps what its owner wrote and the alignment asked for.
SlicesKept == part = "arena" => Are!SlicesKept

\* Backend: a context has one manager and the backend that made it, and a
\* backend has one context in a manager.
ContextsPlaced == part = "backend" => Bac!ContextsPlaced

\* KvContext: the cursors of a context agree, and growing and cloning keep
\* what the tokens wrote.
CacheKept ==
    /\ [](part = "kv_context" => Kvc!TypeOK /\ Kvc!CursorsAgree)
    /\ [][part = "kv_context" => Kvc!KeepsData]_engineVars
=============================================================================
