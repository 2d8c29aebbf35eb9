-------------------------------- MODULE Core --------------------------------
(***************************************************************************)
(* src/core/core.c: the Runtime Context.  hbi_core_create brings up the    *)
(* foundation services one after the other and unwinds when one fails,     *)
(* hbi_core_destroy runs the subsystems' finalizers and tears the services *)
(* down.  The log level and the profiler switch are global to the process, *)
(* whichever of its contexts sets them.                                    *)
(***************************************************************************)
EXTENDS Naturals, Sequences, SequencesExt

CONSTANTS
    Cores,          \* contexts of the process
    Configs,        \* hbi_core_config: the log level, and whether to profile
    Names,          \* of subsystems
    MaxSubsystems,  \* HBI_CORE_MAX_SUBSYSTEMS
    MaxCalls        \* bound on the calls of a behaviour

VARIABLES
    state,          \* "UNINIT", "READY" or "DEAD" for each context
    owned,          \* what is allocated for it: "context", "config", "pool"
    profilingOn,    \* profiling_on
    subsystems,     \* the registered entries
    profiler, logLevel, \* the globals
    call,           \* the call under way: its kind, its context, its step
    finalized,      \* history: the entries the running destroy has finalized
    calls

registry == <<subsystems, finalized>>
vars == <<state, owned, profilingOn, registry, profiler, logLevel, call, calls>>

NoCall == [kind |-> "none"]
Idle == call = NoCall

Init ==
    /\ state = [c \in Cores |-> "UNINIT"] /\ owned = [c \in Cores |-> {}]
    /\ profilingOn = [c \in Cores |-> FALSE]
    /\ subsystems = [c \in Cores |-> <<>>]
    /\ profiler = FALSE /\ logLevel = 2
    /\ call = NoCall /\ finalized = <<>> /\ calls = 0

Called == Idle /\ calls < MaxCalls /\ calls' = calls + 1

-----------------------------------------------------------------------------
(* hbi_core_create.                                                        *)

\* The context object, the log level, the device report and the profiler: only
\* the first can fail.
CreateContext(c, cfg) ==
    /\ Called /\ owned[c] = {}
    /\ \/ UNCHANGED <<state, owned, profilingOn, profiler, logLevel, call>>
       \/ /\ owned' = [owned EXCEPT ![c] = {"context"}]
          /\ state' = [state EXCEPT ![c] = "UNINIT"]
          /\ logLevel' = cfg.level
          /\ profilingOn' = [profilingOn EXCEPT ![c] = cfg.profiling]
          /\ profiler' = (profiler \/ cfg.profiling)
          /\ call' = [kind |-> "create", core |-> c, step |-> "config"]
    /\ UNCHANGED registry

Release(c) ==
    /\ profiler' = (profiler /\ ~profilingOn[c])
    /\ profilingOn' = [profilingOn EXCEPT ![c] = FALSE]
    /\ owned' = [owned EXCEPT ![c] = {}]
    /\ call' = NoCall

CreateConfig ==
    /\ call.kind = "create" /\ call.step = "config"
    /\ LET c == call.core
       IN  \/ Release(c)
           \/ /\ owned' = [owned EXCEPT ![c] = @ \cup {"config"}]
              /\ call' = [call EXCEPT !.step = "pool"]
              /\ UNCHANGED <<profilingOn, profiler>>
    /\ UNCHANGED <<state, registry, logLevel, calls>>

\* The pool runs, and its shape is stored in the configuration.
StartPool(c) ==
    /\ owned' = [owned EXCEPT ![c] = @ \cup {"pool"}]
    /\ state' = [state EXCEPT ![c] = "READY"]
    /\ call' = NoCall
    /\ UNCHANGED <<profilingOn, profiler>>

\* Mutant: the pool's failure leaves through the wrong label.
CreatePoolKeeps ==
    /\ call.kind = "create" /\ call.step = "pool"
    /\ \/ /\ owned' = [owned EXCEPT ![call.core] = @ \ {"context"}]
          /\ profiler' = (profiler /\ ~profilingOn[call.core])
          /\ profilingOn' = [profilingOn EXCEPT ![call.core] = FALSE]
          /\ call' = NoCall /\ UNCHANGED state
       \/ StartPool(call.core)
    /\ UNCHANGED <<registry, logLevel, calls>>

\* The pool may fail, and then the configuration, the profiler and the context
\* are given back.
CreatePool ==
    /\ call.kind = "create" /\ call.step = "pool"
    /\ \/ Release(call.core) /\ UNCHANGED state
       \/ StartPool(call.core)
    /\ UNCHANGED <<registry, logLevel, calls>>

-----------------------------------------------------------------------------
(* The registry of subsystems.                                             *)

Accepts(c, name) ==
    /\ state[c] = "READY"
    /\ \A i \in DOMAIN subsystems[c] : subsystems[c][i].name # name
    /\ Len(subsystems[c]) < MaxSubsystems

\* hbi_core_register; what it does not accept it leaves alone.
Register(c, name, fini) ==
    /\ Called /\ owned[c] # {} /\ Accepts(c, name)
    /\ subsystems' = [subsystems EXCEPT ![c] = Append(@, [name |-> name, fini |-> fini])]
    /\ UNCHANGED <<state, owned, profilingOn, profiler, logLevel, call, finalized>>

-----------------------------------------------------------------------------
(* hbi_core_destroy.                                                       *)

DestroyBegin(c) ==
    /\ Called /\ state[c] = "READY"
    /\ state' = [state EXCEPT ![c] = "DEAD"]
    /\ call' = [kind |-> "destroy", core |-> c, step |-> "finalize", left |-> Len(subsystems[c])]
    /\ finalized' = <<>>
    /\ UNCHANGED <<owned, profilingOn, subsystems, profiler, logLevel>>

\* The finalizer of the last entry that is left.  It may call back: a lookup
\* or a registration finds the context not READY, and changes nothing.
Finalize ==
    /\ call.kind = "destroy" /\ call.step = "finalize" /\ call.left > 0
    /\ LET e == subsystems[call.core][call.left]
       IN  finalized' = IF e.fini THEN Append(finalized, e.name) ELSE finalized
    /\ call' = [call EXCEPT !.left = @ - 1]
    /\ UNCHANGED <<state, owned, profilingOn, subsystems, profiler, logLevel, calls>>

\* The pool is stopped and joined, the configuration destroyed, the profiler
\* switched off, the context freed.
DestroyEnd ==
    /\ call.kind = "destroy" /\ call.left = 0
    /\ subsystems' = [subsystems EXCEPT ![call.core] = <<>>]
    /\ state' = [state EXCEPT ![call.core] = "UNINIT"]
    /\ Release(call.core)
    /\ UNCHANGED <<finalized, logLevel, calls>>

Next ==
    \/ \E c \in Cores, cfg \in Configs : CreateContext(c, cfg)
    \/ CreateConfig \/ CreatePool
    \/ \E c \in Cores, name \in Names, fini \in BOOLEAN : Register(c, name, fini)
    \/ \E c \in Cores : DestroyBegin(c)
    \/ Finalize \/ DestroyEnd

Spec == Init /\ [][Next]_vars

-----------------------------------------------------------------------------
(* Properties.                                                             *)

TypeOK ==
    /\ state \in [Cores -> {"UNINIT", "READY", "DEAD"}]
    /\ \A c \in Cores : owned[c] \subseteq {"context", "config", "pool"}
    /\ profilingOn \in [Cores -> BOOLEAN] /\ profiler \in BOOLEAN
    /\ \A c \in Cores : Len(subsystems[c]) <= MaxSubsystems

\* Whichever service fails, a create leaves all or nothing: between calls a
\* context is READY and owns everything, or owns nothing, and a context being
\* destroyed keeps its services until its finalizers have run.
AllOrNothing ==
    \A c \in Cores :
        /\ state[c] \in {"READY", "DEAD"} => owned[c] = {"context", "config", "pool"}
        /\ Idle /\ state[c] = "UNINIT" => owned[c] = {}

\* The global profiler is not left on by a create that failed, nor by the last
\* context to be destroyed.
ProfilerOffWithoutContext == (\A c \in Cores : owned[c] = {}) => ~profiler

\* "finalized in reverse registration order", once each, and all of them
\* before the services go.
FinalizersReverse ==
    call.kind = "destroy" =>
        LET entries == subsystems[call.core]
            done == SubSeq(entries, call.left + 1, Len(entries))
        IN  /\ finalized = Reverse([i \in 1..Len(SelectSeq(done, LAMBDA e : e.fini)) |->
                                        SelectSeq(done, LAMBDA e : e.fini)[i].name])
            /\ state[call.core] = "DEAD"

\* A context's life: services all or none, a profiler that is not left on,
\* finalizers in reverse and before the services.
LifecycleOrdered == TypeOK /\ AllOrNothing /\ ProfilerOffWithoutContext /\ FinalizersReverse
=============================================================================
