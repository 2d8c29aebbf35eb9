------------------------------ MODULE Registry ------------------------------
(***************************************************************************)
(* The registries of src/adapter, src/model and src/tokenizer: an array    *)
(* and a count, guarded by a mutex that the first call creates.  There are *)
(* two protocols for that.  The adapters publish the mutex with a compare- *)
(* exchange, and the loser destroys its own; the format handlers and the   *)
(* tokenizers store the pointer and then set a flag, relying on being      *)
(* "populated at init time (before workers)" (model.h:29,                  *)
(* tokenizer.h:34): there the first call is that of the main thread.       *)
(***************************************************************************)
EXTENDS Naturals, Sequences

CONSTANTS
    Threads, Main,  \* the callers; the thread that initialises the engine
    Protocols,      \* a subset of {"exchange", "flag"}
    Names,          \* of the entries
    MaxEntries,     \* HBI_ADAPTER_REGISTRY_MAX, HBI_FORMAT_HANDLER_MAX, ...
    NoName,         \* an empty place of the array
    NoThread        \* the holder of a free mutex

RegistryAssumption ==
    /\ Main \in Threads /\ NoThread \notin Threads /\ NoName \notin Names
    /\ MaxEntries \in Nat /\ Protocols \subseteq {"exchange", "flag"}

VARIABLES
    protocol,
    mutex, ready,   \* the published mutex, 0 for NULL; the ready flag
    created, destroyed, holder,     \* mutexes, numbered as created
    entries, count, \* the array and the count
    pc, op, mine    \* per thread: location, operation, its mutex

lazy == <<protocol, mutex, ready, created, destroyed>>
vars == <<lazy, holder, entries, count, pc, op, mine>>

NoOp == [kind |-> "none", name |-> NoName]

Init ==
    /\ protocol \in Protocols
    /\ mutex = 0 /\ ready = FALSE /\ created = 0 /\ destroyed = {}
    /\ holder = <<>>
    /\ entries = [i \in 1..MaxEntries |-> NoName] /\ count = 0
    /\ pc = [t \in Threads |-> "idle"] /\ op = [t \in Threads |-> NoOp]
    /\ mine = [t \in Threads |-> 0]

Goes(t, location) == pc' = [pc EXCEPT ![t] = location]

\* A call of register, find or clear.
Begin(t, kind, name) ==
    /\ pc[t] = "idle"
    /\ protocol = "flag" /\ ~ready => t = Main
    /\ op' = [op EXCEPT ![t] = [kind |-> kind, name |-> name]]
    /\ Goes(t, "load")
    /\ UNCHANGED <<lazy, holder, entries, count, mine>>

-----------------------------------------------------------------------------
(* The lazy mutex.                                                         *)

\* adapter_mutex loads the pointer; handler_mutex and tokenizer_mutex load the
\* flag, and then test the pointer.
Load(t) ==
    /\ pc[t] = "load"
    /\ LET known == IF protocol = "exchange" THEN mutex # 0 ELSE ready
           create == ~known /\ mutex = 0
       IN  /\ created' = IF create THEN created + 1 ELSE created
           /\ holder' = IF create THEN Append(holder, NoThread) ELSE holder
           /\ mine' = [mine EXCEPT ![t] = IF create THEN created + 1 ELSE mutex]
           /\ Goes(t, IF known THEN "lock" ELSE IF create THEN "publish" ELSE "set_ready")
    /\ UNCHANGED <<protocol, mutex, ready, destroyed, entries, count, op>>

\* The compare-exchange, whose loser destroys its mutex and takes the one it
\* found; or the plain store.
Publish(t) ==
    /\ pc[t] = "publish"
    /\ IF protocol = "exchange" /\ mutex # 0
       THEN /\ destroyed' = destroyed \cup {mine[t]}
            /\ mine' = [mine EXCEPT ![t] = mutex]
            /\ UNCHANGED mutex
       ELSE mutex' = mine[t] /\ UNCHANGED <<destroyed, mine>>
    /\ Goes(t, IF protocol = "exchange" THEN "lock" ELSE "set_ready")
    /\ UNCHANGED <<protocol, ready, created, holder, entries, count, op>>

SetReady(t) ==
    /\ pc[t] = "set_ready"
    /\ ready' = TRUE
    /\ mine' = [mine EXCEPT ![t] = mutex]
    /\ Goes(t, "lock")
    /\ UNCHANGED <<protocol, mutex, created, destroyed, holder, entries, count, op>>

-----------------------------------------------------------------------------
(* The critical sections.                                                  *)

Lock(t) ==
    /\ pc[t] = "lock" /\ holder[mine[t]] = NoThread
    /\ holder' = [holder EXCEPT ![mine[t]] = t]
    /\ Goes(t, "scan")
    /\ UNCHANGED <<lazy, entries, count, op, mine>>

Registered(name) == \E i \in 1..count : entries[i] = name
Full == count >= MaxEntries

\* A register whose name is new, in a table that has room, goes on to append;
\* find reads; clear resets the count (the adapters' and the handlers' arrays
\* are zeroed too, the tokenizers' is not: what lies beyond the count is never
\* read).
Scan(t) ==
    /\ pc[t] = "scan"
    /\ count' = IF op[t].kind = "clear" THEN 0 ELSE count
    /\ Goes(t, IF op[t].kind = "register" /\ ~Full /\ ~Registered(op[t].name)
               THEN "append" ELSE "unlock")
    /\ UNCHANGED <<lazy, holder, entries, op, mine>>

\* Mutant: the entry is stored one place too low.
AppendBelow(t) ==
    /\ pc[t] = "append"
    /\ entries' = [entries EXCEPT ![count] = op[t].name]
    /\ Goes(t, "bump")
    /\ UNCHANGED <<lazy, holder, count, op, mine>>

\* The store, and then the new count.
AppendEntry(t) ==
    /\ pc[t] = "append"
    /\ entries' = [entries EXCEPT ![count + 1] = op[t].name]
    /\ Goes(t, "bump")
    /\ UNCHANGED <<lazy, holder, count, op, mine>>

Bump(t) ==
    /\ pc[t] = "bump"
    /\ count' = count + 1
    /\ Goes(t, "unlock")
    /\ UNCHANGED <<lazy, holder, entries, op, mine>>

Unlock(t) ==
    /\ pc[t] = "unlock"
    /\ holder' = [holder EXCEPT ![mine[t]] = NoThread]
    /\ Goes(t, "idle")
    /\ op' = [op EXCEPT ![t] = NoOp] /\ mine' = [mine EXCEPT ![t] = 0]
    /\ UNCHANGED <<lazy, entries, count>>

Step(t) ==
    \/ Load(t) \/ Publish(t) \/ SetReady(t)
    \/ Lock(t) \/ Scan(t) \/ AppendEntry(t) \/ Bump(t) \/ Unlock(t)

Call(t) ==
    \/ Begin(t, "clear", NoName)
    \/ \E name \in Names : Begin(t, "register", name) \/ Begin(t, "find", name)

Next == \E t \in Threads : Step(t) \/ Call(t)

Spec == Init /\ [][Next]_vars

-----------------------------------------------------------------------------
(* Properties.                                                             *)

Locations == {"idle", "load", "publish", "set_ready", "lock", "scan", "append", "bump", "unlock"}

\* Whoever creates the mutex first, at most one thread at a time is between
\* its lock and its unlock.
Critical == {"scan", "append", "bump", "unlock"}
MutualExclusion ==
    \A t, u \in Threads : pc[t] \in Critical /\ pc[u] \in Critical => t = u

\* Of the mutexes racing first calls create, one survives: a thread never
\* locks a destroyed one, and none is leaked.
OneMutex ==
    /\ \A t \in Threads : pc[t] \in Critical \cup {"lock"} => mine[t] = mutex /\ mutex \notin destroyed
    /\ (\A t \in Threads : pc[t] # "publish") => destroyed = (1..created) \ {mutex}

\* Concurrent calls have the effect of one atomic registration after the
\* other: distinct names, at most MaxEntries, in the order of their
\* registration, and none lost but by clear.
Abstraction == [i \in 1..count |-> entries[i]]
Abstract == INSTANCE BoundedRegistry WITH table <- Abstraction
ImplementsRegistry == Abstract!Spec
=============================================================================
