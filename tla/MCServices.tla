----------------------------- MODULE MCServices -----------------------------
(* The services every other part of the engine stands on, each checked on  *)
(* its own: the registries, memory, tensors, the profiler, logging,        *)
(* configuration, the core context and events.  A behaviour is one of one  *)
(* component; the slots hold the variables of any but Registry.            *)
EXTENDS Registry, Integers, TLC

CONSTANTS
    c1, c2, e1, e2, e3, n1, n2, n3, p1, p2, t1, t2, t3, x1, x2, x3,
    None, Unset, NoEnv

VARIABLES
    part,     \* the component of the behaviour
    s1, s2, s3, s4, s5, s6, s7, s8, s9, s10, s11, s12, s13, s14, s15, s16, s17

slots == <<s1, s2, s3, s4, s5, s6, s7, s8, s9, s10, s11, s12, s13, s14, s15, s16,
           s17>>
servicesVars == <<part, vars, slots>>

\* Configuration schemas, files and environments.
Numeral(n) == [word |-> "", number |-> n, blank |-> FALSE]
Letters(w) == [word |-> w, number |-> 0, blank |-> FALSE]
Blank(text) == [text EXCEPT !.blank = TRUE]

Desc(key, type, env, def, min, max) ==
    [key |-> key, type |-> type, env |-> env, def |-> def, min |-> min, max |-> max]

CoreLike == <<Desc("s", "string", "E_S", Letters("off"), 0, 0), Desc("n", "int", "E_N", 1, 0, 2),
              Desc("u", "uint", NoEnv, 0, 0, 0), Desc("b", "bool", "E_B", 0, 0, 0)>>
Duplicate == <<Desc("n", "int", NoEnv, 1, 0, 2), Desc("n", "uint", NoEnv, 1, 0, 2)>>
Strings == <<Desc("s", "string", "E_S", Letters("off"), 0, 0), Desc("t", "string", NoEnv, Letters("no"), 0, 0)>>
MCSchemas == {CoreLike, Duplicate, Strings, <<>>}

Pair(key, text) == [kind |-> "pair", key |-> key, text |-> text]
Line(kind) == [kind |-> kind, key |-> "", text |-> Letters("")]
MCFiles == {<<Line("blank"), Pair("n", Blank(Numeral(2))), Pair("s", Letters("on")),
              Line("malformed"), Pair("n", Numeral(0))>>,
            <<Pair("u", Numeral(9)), Pair("n", Numeral(9)), Pair("b", Letters("on"))>>,
            <<Pair("x", Numeral(1))>>, <<Pair("b", Letters("maybe"))>>}
MCEnvironments == {("E_S" :> w @@ "E_N" :> n @@ "E_B" :> w) :
                      n \in {Unset, Numeral(2), Numeral(-1)},
                      w \in {Unset, Letters("yes"), Letters("maybe")}}
MCTexts == {Letters("on"), Numeral(0), Blank(Numeral(-1)), Numeral(-9)}

\* A tensor of four elements, and one too large to have a size; buffers of
\* callers.
TensorRoots == {<<2, 2>>, <<9, 9>>}
TensorWraps == {[spare |-> 0, readOnly |-> FALSE, address |-> 0], [spare |-> 1, readOnly |-> TRUE, address |-> 1]}

\* Interchangeable: the threads and names of the profiler, the blocks of memory,
\* tensors and their buffers.
Symmetry == Permutations({p1, p2}) \cup Permutations({x1, x2, x3})

-----------------------------------------------------------------------------
Mem == INSTANCE Memory WITH
    Threads <- {t1, t2}, Enablers <- {t1}, Blocks <- {x1, x2, x3},
    Sizes <- {0, 2}, Tags <- {"general", "kv"}, MaxCalls <- 3,
    NoBlock <- None, heap <- s1, live_bytes <- s2, peak_bytes <- s3,
    live_blocks <- s4, bytes_by_tag <- s5, total_alloc_calls <- s6,
    total_free_calls <- s7, dbg_list <- s8, dbg_live_blocks <- s9,
    debug_enabled <- s10, mtx_ready <- s11, dbg_mtx <- s12, pc <- s13,
    call <- s14, max_live <- s15

Ten == INSTANCE Tensor WITH
    Slots <- {x1, x2, x3}, Buffers <- {p1, p2},
    Dtypes <- {"fp16", "int4"}, Roots <- TensorRoots, Dims <- {1, 2},
    MaxRank <- 3, IntMax <- 120, Alignments <- {4}, Wraps <- TensorWraps,
    MinAlignment <- 4, MaxCalls <- 4, tensor <- s1, buffer <- s2, skew <- s3,
    where <- s4, copied <- s5, calls <- s6

Pro == INSTANCE Profiler WITH
    Threads <- {p1, p2}, Names <- {x1, x2, x3}, MaxNames <- 2,
    Durations <- {1, 2}, Deltas <- {1}, Infinity <- 9, MaxCalls <- 3,
    NoThread <- NoThread, NoName <- NoName, enabled <- s1, slots <- s2,
    claimed <- s3, overflow <- s4, claimMx <- s5, ready <- s6, creating <- s7,
    created <- s8, destroyed <- s9, holder <- s10, pc <- s11, op <- s12,
    slot <- s13, cur <- s14, mine <- s15, recorded <- s16, calls <- s17

Log == INSTANCE Logging WITH
    Threads <- {t1, t2, t3}, Main <- t1, Levels <- {0, 2, 5}, Profiling <- 5,
    MaxFields <- 2, FieldCounts <- {0, 1, 3}, NoThread <- NoThread,
    level <- s1, sink <- s2, mutex <- s3, ready <- s4, created <- s5,
    holder <- s6, pc <- s7, left <- s8, mine <- s9, line <- s10

Cfg == INSTANCE Config WITH
    Schemas <- MCSchemas, Files <- MCFiles, Environments <- MCEnvironments,
    Texts <- MCTexts, Keys <- {"s", "n", "u", "b", "x"}, Numbers <- {-1, 2},
    IntMax <- 3, UintMax <- 7, Unset <- Unset, NoEnv <- NoEnv, MaxCalls <- 4,
    schema <- s1, entries <- s2, objects <- s3, strings <- s4, call <- s5,
    at <- s6, lines <- s7, environment <- s8, status <- s9, offers <- s10,
    calls <- s11

Cor == INSTANCE Core WITH
    Cores <- {c1, c2}, Configs <- [level : {0, 3}, profiling : BOOLEAN],
    Names <- {n1, n2, n3}, MaxSubsystems <- 2, MaxCalls <- 6, state <- s1,
    owned <- s2, profilingOn <- s3, subsystems <- s4, profiler <- s5,
    logLevel <- s6, call <- s7, finalized <- s8, calls <- s9

Evt == INSTANCE Event WITH
    Threads <- {e1, e2, e3}, NoThread <- NoThread, life <- s1, is_set <- s2,
    owner <- s3, pc <- s4, op <- s5, saw <- s6

ASSUME ServicesAssumptions ==
    /\ RegistryAssumption
    /\ Mem!MemoryAssumption
    /\ Pro!ProfilerAssumption
    /\ Cfg!ConfigAssumption

-----------------------------------------------------------------------------
\* The components that may stop: their bounds end a behaviour.
Bounded == {"memory", "tensor", "profiler", "config", "core"}

\* The registry of a behaviour of another component stays empty.
ServicesInit ==
    /\ Init
    /\ \/ part = "memory" /\ Mem!Init
            /\ s16 = 0 /\ s17 = 0
       \/ part = "tensor" /\ Ten!Init
            /\ s7 = 0 /\ s8 = 0 /\ s9 = 0 /\ s10 = 0 /\ s11 = 0 /\ s12 = 0
            /\ s13 = 0 /\ s14 = 0 /\ s15 = 0 /\ s16 = 0 /\ s17 = 0
       \/ part = "profiler" /\ Pro!Init
       \/ part = "logging" /\ Log!Init
            /\ s11 = 0 /\ s12 = 0 /\ s13 = 0 /\ s14 = 0 /\ s15 = 0 /\ s16 = 0
            /\ s17 = 0
       \/ part = "config" /\ Cfg!Init
            /\ s12 = 0 /\ s13 = 0 /\ s14 = 0 /\ s15 = 0 /\ s16 = 0 /\ s17 = 0
       \/ part = "core" /\ Cor!Init
            /\ s10 = 0 /\ s11 = 0 /\ s12 = 0 /\ s13 = 0 /\ s14 = 0 /\ s15 = 0
            /\ s16 = 0 /\ s17 = 0
       \/ part = "event" /\ Evt!Init
            /\ s7 = 0 /\ s8 = 0 /\ s9 = 0 /\ s10 = 0 /\ s11 = 0 /\ s12 = 0
            /\ s13 = 0 /\ s14 = 0 /\ s15 = 0 /\ s16 = 0 /\ s17 = 0
       \/ part = "registry"
            /\ s1 = 0 /\ s2 = 0 /\ s3 = 0 /\ s4 = 0 /\ s5 = 0 /\ s6 = 0
            /\ s7 = 0 /\ s8 = 0 /\ s9 = 0 /\ s10 = 0 /\ s11 = 0 /\ s12 = 0
            /\ s13 = 0 /\ s14 = 0 /\ s15 = 0 /\ s16 = 0 /\ s17 = 0
    /\ part # "registry" => protocol = "flag"

ServicesNext ==
    \/ part = "memory" /\ Mem!Next
         /\ UNCHANGED <<part, vars, s16, s17>>
    \/ part = "tensor" /\ Ten!Next
         /\ UNCHANGED <<part, vars, s7, s8, s9, s10, s11, s12, s13, s14, s15,
            s16, s17>>
    \/ part = "profiler" /\ Pro!Next
         /\ UNCHANGED <<part, vars>>
    \/ part = "logging" /\ Log!Next
         /\ UNCHANGED <<part, vars, s11, s12, s13, s14, s15, s16, s17>>
    \/ part = "config" /\ Cfg!Next
         /\ UNCHANGED <<part, vars, s12, s13, s14, s15, s16, s17>>
    \/ part = "core" /\ Cor!Next
         /\ UNCHANGED <<part, vars, s10, s11, s12, s13, s14, s15, s16, s17>>
    \/ part = "event" /\ Evt!Next
         /\ UNCHANGED <<part, vars, s7, s8, s9, s10, s11, s12, s13, s14, s15,
            s16, s17>>
    \/ part = "registry" /\ Next /\ UNCHANGED <<part, slots>>
    \/ part \in Bounded /\ UNCHANGED servicesVars

ServicesSpec == ServicesInit /\ [][ServicesNext]_servicesVars

-----------------------------------------------------------------------------
\* Memory: the counters are those of the blocks outstanding, the peak is the
\* most bytes ever outstanding, the leak list is the tracked blocks in use.
AccountsExact == part = "memory" => Mem!AccountsExact

\* Tensor: a view means the elements of its parent it was asked for, a
\* tensor's fields agree, a buffer has one owner, and a copy holds its
\* source's elements.
TensorsExact == part = "tensor" => Ten!TensorsExact

\* Profiler: a name has one slot, claimers share a mutex, a spinning thread
\* has somebody to wait for, and the totals are those of the records.
RecordsExact == part = "profiler" => Pro!RecordsExact

\* Logging: records do not mix on the stream.
LinesWhole == part = "logging" => Log!LinesWhole

\* Config: a value is the last one of its highest source and in the bounds
\* of its schema, and every string copied is freed once.
ValuesInForce == part = "config" => Cfg!ValuesInForce

\* Core: a context has all its services or nothing is left, profiling does
\* not outlive its context, subsystems are finalized once, in reverse order.
LifecycleOrdered == part = "core" => Cor!LifecycleOrdered

\* Event: no wake-up of hbi_event_wait is lost, and a wait that returns has
\* seen the event set.
WaitsMeetSets == part = "event" => Evt!WaitsMeetSets

=============================================================================
