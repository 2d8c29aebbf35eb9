---------------------------- MODULE GptOssForward ----------------------------
(***************************************************************************)
(* The forward pass of src/adapter/adapter_gpt_oss.c, for one token at a   *)
(* time, next to the graph the same adapter builds for its layers.         *)
(* Numbers are abstracted to the expressions that compute them: a scratch  *)
(* buffer holds the expression last written to it, and the residual stream *)
(* that enters a layer is named by the layer and the position.  Weights    *)
(* are named by the tensor they were bound from.                           *)
(***************************************************************************)
EXTENDS Integers, Sequences, FiniteSets, SequencesExt

CONSTANTS
    NumLayers,
    MaxSeq,         \* positions of the cache page
    Tokens, VocabSize,
    None

VARIABLES
    bound,          \* weight slots bound: slot -> name of the tensor
    pos,            \* of the next token: every earlier one succeeded
    layer,          \* of the running pass; None between passes
    scratch,        \* buffers: name -> expression
    cache,          \* the page: position -> [k, v]
    scores,         \* the score buffer is allocated
    made,           \* expression of the residual stream the last layer left
    keys,           \* history: <<layer, position>> -> the [k, v] the layer computed
    status

vars == <<bound, pos, layer, scratch, cache, scores, made, keys, status>>

Layers == 0..NumLayers - 1
LayerTensors == {"input_layernorm", "post_attention_layernorm", "q_proj", "k_proj", "v_proj",
             "o_proj", "gate_proj", "up_proj", "down_proj"}
Globals == {"embed_tokens", "norm", "lm_head"}

\* The names of tensors: a global one, or a layer and a suffix.
LayerNames == Layers \X LayerTensors
Name(l, suffix) == <<l, suffix>>

\* The slot hbi_adapter_gpt_oss_bind_weights puts a tensor in.
SlotOfSuffix ==
    [input_layernorm |-> "input_norm", post_attention_layernorm |-> "post_norm",
     q_proj |-> "q_proj", k_proj |-> "k_proj", v_proj |-> "v_proj", o_proj |-> "o_proj",
     gate_proj |-> "gate_proj", up_proj |-> "up_proj", down_proj |-> "down_proj"]

\* Mutant: two suffixes take each other's slot.
SlotSwapped(name) ==
    IF name[2] = "gate_proj" THEN <<name[1], "up_proj">>
    ELSE IF name[2] = "up_proj" THEN <<name[1], "gate_proj">>
    ELSE IF name[1] \in Layers THEN <<name[1], SlotOfSuffix[name[2]]>> ELSE name

Slot(name) == IF name[1] \in Layers THEN <<name[1], SlotOfSuffix[name[2]]>> ELSE name

GlobalName(g) == <<-1, g>>
Names == LayerNames \cup {GlobalName(g) : g \in Globals}

BoundTo(names) == [s \in {Slot(n) : n \in names} |-> CHOOSE n \in names : Slot(n) = s]

\* All weights are bound, or all but one.
Init ==
    /\ \E missing \in {{}} \cup {{n} : n \in Names} : bound = BoundTo(Names \ missing)
    /\ pos = 0 /\ layer = None /\ scratch = <<>> /\ scores = FALSE /\ made = None
    /\ cache = [p \in 0..MaxSeq - 1 |-> None] /\ keys = <<>>
    /\ status = "OK"

\* hbi_adapter_gpt_oss_bind_weights
Bind(name) ==
    /\ layer = None /\ Slot(name) \notin DOMAIN bound
    /\ bound' = [s \in DOMAIN bound \cup {Slot(name)} |->
                    IF s = Slot(name) THEN name ELSE bound[s]]
    /\ status' = "OK"
    /\ UNCHANGED <<pos, layer, scratch, cache, scores, made, keys>>

\* A name of no layer of the model, or with no known suffix
BindUnknown(name) ==
    /\ layer = None /\ name \notin Names
    /\ status' = IF name[1] >= NumLayers THEN "INVALID_ARG" ELSE "NOT_FOUND"
    /\ UNCHANGED <<bound, pos, layer, scratch, cache, scores, made, keys>>

-----------------------------------------------------------------------------
(* The forward pass.                                                       *)

Hidden(l, p) == <<"hidden", l, p>>
Norm(x, w) == <<"rmsnorm", w, x>>
Linear(x, w) == <<"linear", w, x>>
Rope(x, p) == <<"rope", p, x>>
Sum(x, y) == <<"add", x, y>>
Product(x, y) == <<"mul", x, y>>
Silu(x) == <<"silu", x>>
Attention(q, ks, vs) == <<"attention", q, ks, vs>>

Weight(slot) == bound[slot]
BoundGlobal(g) == GlobalName(g) \in DOMAIN bound

\* The checks at the start, the embedding and the allocation of the scores.
\* The code leaves pos < MaxSeq to the caller.
Begin(token) ==
    /\ layer = None /\ pos < MaxSeq
    /\ IF token >= VocabSize
       THEN status' = "INVALID_ARG" /\ UNCHANGED <<layer, scratch, scores>>
       ELSE IF ~BoundGlobal("embed_tokens")
       THEN status' = "STATE" /\ UNCHANGED <<layer, scratch, scores>>
       ELSE /\ scratch' = [a |-> Hidden(0, pos), b |-> None, c |-> None, d |-> None]
            /\ \/ layer' = 0 /\ scores' = TRUE /\ status' = "OK"
               \/ status' = "OOM" /\ UNCHANGED <<layer, scores>>
    /\ UNCHANGED <<bound, pos, cache, made, keys>>

LayerBound(l) == \A suffix \in LayerTensors : Slot(Name(l, suffix)) \in DOMAIN bound

UnboundLayer ==
    /\ layer \in Layers /\ ~LayerBound(layer)
    /\ status' = "STATE" /\ layer' = None /\ scores' = FALSE
    /\ UNCHANGED <<bound, pos, scratch, cache, made, keys>>

\* One iteration of the loop over the layers.  The buffers are written in
\* the order of the code; the name after each is the buffer's.
Layer ==
    /\ layer \in Layers /\ LayerBound(layer)
    /\ LET w(slot) == Weight(<<layer, slot>>)
           a1 == scratch.a
           b1 == Norm(a1, w("input_norm"))
           q == Rope(Linear(b1, w("q_proj")), pos)
           k == Rope(Linear(b1, w("k_proj")), pos)
           v == Linear(b1, w("v_proj"))
           page == [cache EXCEPT ![pos] = [k |-> k, v |-> v]]
           attn == Attention(q, [t \in 1..pos + 1 |-> page[t - 1].k],
                                [t \in 1..pos + 1 |-> page[t - 1].v])
           b2 == Linear(attn, w("o_proj"))
           a2 == Sum(a1, b2)
           b3 == Norm(a2, w("post_norm"))
           c1 == Linear(b3, w("gate_proj"))
           d1 == Linear(b3, w("up_proj"))
           c2 == Product(Silu(c1), d1)
           b4 == Linear(c2, w("down_proj"))
           a3 == Sum(a2, b4)
       IN  /\ cache' = page
           /\ scratch' = [a |-> Hidden(layer + 1, pos), b |-> b4, c |-> c2, d |-> d1]
           /\ made' = a3
           /\ keys' = [x \in DOMAIN keys \cup {<<layer, pos>>} |->
                          IF x = <<layer, pos>> THEN [k |-> k, v |-> v] ELSE keys[x]]
    /\ layer' = layer + 1
    /\ UNCHANGED <<bound, pos, scores, status>>

\* The final norm and lm_head
Finish ==
    /\ layer = NumLayers
    /\ scores' = FALSE /\ layer' = None
    /\ IF BoundGlobal("norm") /\ BoundGlobal("lm_head")
       THEN status' = "OK" /\ pos' = pos + 1
       ELSE status' = "STATE" /\ UNCHANGED pos
    /\ UNCHANGED <<bound, scratch, cache, made, keys>>

Next ==
    \/ \E name \in Names : Bind(name)
    \/ \E name \in {<<NumLayers, "q_proj">>, <<-1, "bias">>, <<0, "bias">>} : BindUnknown(name)
    \/ \E token \in Tokens : Begin(token)
    \/ UnboundLayer \/ Layer \/ Finish

Spec == Init /\ [][Next]_vars

-----------------------------------------------------------------------------
(* The graph of a layer (build_layer_graph): the nodes in the order they   *)
(* are added, each with its operation and the nodes it reads.              *)

LayerNodes ==
    <<[name |-> "pre_norm",  op |-> "rmsnorm",   ins |-> <<"in">>],
      [name |-> "q_proj",    op |-> "linear",    ins |-> <<"pre_norm">>],
      [name |-> "k_proj",    op |-> "linear",    ins |-> <<"pre_norm">>],
      [name |-> "v_proj",    op |-> "linear",    ins |-> <<"pre_norm">>],
      [name |-> "rope_q",    op |-> "rope",      ins |-> <<"q_proj">>],
      [name |-> "rope_k",    op |-> "rope",      ins |-> <<"k_proj">>],
      [name |-> "attn",      op |-> "attention", ins |-> <<"rope_q", "rope_k", "v_proj">>],
      [name |-> "o_proj",    op |-> "linear",    ins |-> <<"attn">>],
      [name |-> "res1",      op |-> "add",       ins |-> <<"in", "o_proj">>],
      [name |-> "post_norm", op |-> "rmsnorm",   ins |-> <<"res1">>],
      [name |-> "gate_proj", op |-> "linear",    ins |-> <<"post_norm">>],
      [name |-> "up_proj",   op |-> "linear",    ins |-> <<"post_norm">>],
      [name |-> "silu",      op |-> "silu",      ins |-> <<"gate_proj">>],
      [name |-> "swiglu",    op |-> "mul",       ins |-> <<"silu", "up_proj">>],
      [name |-> "down_proj", op |-> "linear",    ins |-> <<"swiglu">>],
      [name |-> "res2",      op |-> "add",       ins |-> <<"res1", "down_proj">>]>>

\* The tensor a node of layer l computes with.
TensorOf(l, node) ==
    Name(l, CASE node = "pre_norm" -> "input_layernorm"
              [] node = "post_norm" -> "post_attention_layernorm"
              [] OTHER -> node)

\* The values of the nodes of layer l at position p, in which the keys and
\* values of the positions before p are ks and vs.
GraphValue(l, p, ks, vs) ==
    LET apply(n, x) ==
            CASE n.op \in {"rmsnorm", "linear"} -> <<n.op, TensorOf(l, n.name), x[1]>>
              [] n.op = "rope" -> Rope(x[1], p)
              [] n.op = "attention" -> Attention(x[1], Append(ks, x[2]), Append(vs, x[3]))
              [] n.op \in {"add", "mul"} -> <<n.op, x[1], x[2]>>
              [] n.op = "silu" -> Silu(x[1])
        add(values, n) ==
            [y \in DOMAIN values \cup {n.name} |->
                IF y = n.name THEN apply(n, [i \in DOMAIN n.ins |-> values[n.ins[i]]])
                ELSE values[y]]
    IN  FoldLeft(add, [y \in {"in"} |-> Hidden(l, p)], LayerNodes)

\* The earlier positions as the cache holds them when layer l ran.
CachedKeys == [t \in 1..pos |-> cache[t - 1].k]
CachedValues == [t \in 1..pos |-> cache[t - 1].v]

\* Each layer of the forward pass leaves in the residual stream what the
\* graph of the layer computes, although it reuses four scratch buffers and
\* gets its weights by name, and also after a pass that failed halfway.
GraphComputesLayer ==
    layer # None /\ layer > 0 =>
        made = GraphValue(layer - 1, pos, CachedKeys, CachedValues)["res2"]

\* The score buffer is freed on every return of the pass.
ScoresFreed == layer = None => ~scores

\* "The KV cache in `ctx` holds keys and values for positions [0, pos)": what
\* a layer attends to at an earlier position are the keys and values this
\* layer computed there.
AttendsToOwnKeys ==
    layer \in Layers => \A p \in 0..pos - 1 : cache[p] = keys[<<layer, p>>]

\* The forward pass computes the graph's layers and returns with its score
\* buffer freed.
PassComputesGraph == GraphComputesLayer /\ ScoresFreed
=============================================================================
