------------------------------ MODULE Profiler ------------------------------
(***************************************************************************)
(* src/profiler/profiler.c: a table of named slots that any thread records *)
(* into without a lock.  A name's first record claims a slot under a mutex *)
(* that is itself created by the first claim; the statistics are atomics,  *)
(* the extremes kept with compare-exchange loops.  hbi_mutex_init is taken *)
(* to succeed (when it fails the code claims without a lock).              *)
(***************************************************************************)
EXTENDS Naturals, Sequences, FiniteSets, FiniteSetsExt

CONSTANTS
    Threads, Names,
    MaxNames,       \* HBI_PROF_MAX_NAMES
    Durations,      \* of scopes
    Deltas,         \* of counters and events
    Infinity,       \* UINT64_MAX, the minimum of a slot without scopes
    MaxCalls,       \* bound on the records of a behaviour
    NoThread, NoName

ProfilerAssumption ==
    /\ Durations \cup Deltas \subseteq Nat
    /\ Infinity \in Nat /\ \A d \in Durations : d < Infinity
    /\ MaxNames \in Nat /\ NoThread \notin Threads /\ NoName \notin Names

VARIABLES
    enabled,        \* g_enabled
    slots, claimed, \* g_slots, g_slot_count
    overflow,       \* g_overflow
    claimMx, ready, creating,   \* g_claim_mx (0: NULL), g_mx_ready, the flag
    created, destroyed, holder, \* mutexes, numbered as created
    pc, op, slot, cur, mine,    \* per thread: location, record, slot, loop variable, mutex
    recorded,       \* history: the records begun since the last reset
    calls           \* the records begun, for the bound

mutexes == <<claimMx, ready, creating, created, destroyed, holder>>
history == <<recorded, calls>>
table == <<slots, claimed, overflow>>
vars == <<enabled, table, mutexes, pc, op, slot, cur, mine, history>>

EmptySlot == [name |-> NoName, kind |-> "scope", count |-> 0, total |-> 0,
              totalNs |-> 0, min |-> Infinity, max |-> 0]
NoOp == [kind |-> "none", name |-> NoName, value |-> 0]

Init ==
    /\ enabled = FALSE
    /\ slots = [i \in 1..MaxNames |-> EmptySlot] /\ claimed = 0 /\ overflow = 0
    /\ claimMx = 0 /\ ready = FALSE /\ creating = FALSE
    /\ created = 0 /\ destroyed = {}
    /\ holder = [m \in 1..Cardinality(Threads) |-> NoThread]
    /\ pc = [t \in Threads |-> "idle"] /\ op = [t \in Threads |-> NoOp]
    /\ slot = [t \in Threads |-> 0] /\ cur = [t \in Threads |-> 0]
    /\ mine = [t \in Threads |-> 0] /\ recorded = <<>> /\ calls = 0

Goes(t, location) == pc' = [pc EXCEPT ![t] = location]

\* Switching is "meant for single-threaded startup/teardown boundaries", as is
\* hbi_prof_reset below.
Quiet == \A t \in Threads : pc[t] \in {"idle", "active"}

SetEnabled(on) ==
    /\ Quiet /\ enabled # on /\ enabled' = on
    /\ UNCHANGED <<table, mutexes, pc, op, slot, cur, mine, history>>

\* scope_begin reads the switch and, when it is on, the scope is active.
ScopeBegin(t, name) ==
    /\ pc[t] = "idle" /\ enabled
    /\ op' = [op EXCEPT ![t] = [kind |-> "scope", name |-> name, value |-> 0]]
    /\ Goes(t, "active")
    /\ UNCHANGED <<enabled, table, mutexes, slot, cur, mine, history>>

Record(t, record) ==
    /\ calls < MaxCalls /\ calls' = calls + 1
    /\ op' = [op EXCEPT ![t] = record]
    /\ recorded' = Append(recorded, record)
    /\ Goes(t, "find")
    /\ UNCHANGED <<enabled, table, mutexes, slot, cur, mine>>

\* scope_end does not read the switch again.
ScopeEnd(t, duration) == pc[t] = "active" /\ Record(t, [op[t] EXCEPT !.value = duration])

\* hbi_prof_counter_add and hbi_prof_event, which differ in the kind only.
CounterAdd(t, name, delta) ==
    pc[t] = "idle" /\ enabled /\ Record(t, [kind |-> "counter", name |-> name, value |-> delta])

-----------------------------------------------------------------------------
(* slot_for.                                                               *)

SlotsOf(name) == {i \in 1..claimed : slots[i].name = name}

\* The unlocked scan of the claimed prefix.
FindSlot(t) ==
    /\ pc[t] = "find"
    /\ \/ \E i \in SlotsOf(op[t].name) :
            slot' = [slot EXCEPT ![t] = i] /\ Goes(t, "add_count")
       \/ SlotsOf(op[t].name) = {} /\ Goes(t, "ensure") /\ UNCHANGED slot
    /\ UNCHANGED <<enabled, table, mutexes, op, cur, mine, history>>

\* ensure_mutex: the flag is set, or a mutex is created in case it is needed.
EnsureMutex(t) ==
    /\ pc[t] = "ensure"
    /\ IF ready THEN Goes(t, "lock") /\ UNCHANGED <<created, mine>>
       ELSE /\ created' = created + 1 /\ mine' = [mine EXCEPT ![t] = created + 1]
            /\ Goes(t, "elect")
    /\ UNCHANGED <<enabled, table, claimMx, ready, creating, destroyed, holder, op, slot, cur, history>>

\* The test-and-set of `creating`; who finds it set waits for the flag.
Elect(t) ==
    /\ pc[t] = "elect"
    /\ creating' = TRUE
    /\ Goes(t, IF creating THEN "spin" ELSE "publish")
    /\ UNCHANGED <<enabled, table, claimMx, ready, created, destroyed, holder, op, slot, cur, mine, history>>

\* Mutant: the published mutex is still taken for a spare one.
PublishKeepsMine(t) ==
    /\ pc[t] = "publish"
    /\ IF ready THEN UNCHANGED <<claimMx, ready>>
       ELSE claimMx' = mine[t] /\ ready' = TRUE
    /\ Goes(t, "clear_creating")
    /\ UNCHANGED <<enabled, table, creating, created, destroyed, holder, op, slot, cur, mine, history>>

Publish(t) ==
    /\ pc[t] = "publish"
    /\ IF ready THEN UNCHANGED <<claimMx, ready, mine>>
       ELSE claimMx' = mine[t] /\ ready' = TRUE /\ mine' = [mine EXCEPT ![t] = 0]
    /\ Goes(t, "clear_creating")
    /\ UNCHANGED <<enabled, table, creating, created, destroyed, holder, op, slot, cur, history>>

ClearCreating(t) ==
    /\ pc[t] = "clear_creating"
    /\ creating' = FALSE
    /\ Goes(t, "discard")
    /\ UNCHANGED <<enabled, table, claimMx, ready, created, destroyed, holder, op, slot, cur, mine, history>>

Spin(t) ==
    /\ pc[t] = "spin" /\ ready
    /\ Goes(t, "discard")
    /\ UNCHANGED <<enabled, table, mutexes, op, slot, cur, mine, history>>

\* The mutex that was not published is destroyed.
Discard(t) ==
    /\ pc[t] = "discard"
    /\ destroyed' = destroyed \cup ({mine[t]} \ {0})
    /\ mine' = [mine EXCEPT ![t] = 0]
    /\ Goes(t, "lock")
    /\ UNCHANGED <<enabled, table, claimMx, ready, creating, created, holder, op, slot, cur, history>>

Lock(t) ==
    /\ pc[t] = "lock" /\ holder[claimMx] = NoThread
    /\ holder' = [holder EXCEPT ![claimMx] = t] /\ mine' = [mine EXCEPT ![t] = claimMx]
    /\ Goes(t, "claim")
    /\ UNCHANGED <<enabled, table, claimMx, ready, creating, created, destroyed, op, slot, cur, history>>

\* Under the lock the name is looked for again, and then a slot is initialised
\* or, in a full table, the record dropped and counted.
Claim(t) ==
    /\ pc[t] = "claim"
    /\ \/ /\ \E i \in SlotsOf(op[t].name) : slot' = [slot EXCEPT ![t] = i]
          /\ Goes(t, "unlock") /\ UNCHANGED <<slots, overflow>>
       \/ /\ SlotsOf(op[t].name) = {} /\ claimed < MaxNames
          /\ slots' = [slots EXCEPT ![claimed + 1] =
                    [EmptySlot EXCEPT !.name = op[t].name, !.kind = op[t].kind]]
          /\ slot' = [slot EXCEPT ![t] = claimed + 1]
          /\ Goes(t, "bump") /\ UNCHANGED overflow
       \/ /\ SlotsOf(op[t].name) = {} /\ claimed >= MaxNames
          /\ slot' = [slot EXCEPT ![t] = 0] /\ overflow' = overflow + 1
          /\ Goes(t, "unlock") /\ UNCHANGED slots
    /\ UNCHANGED <<enabled, claimed, mutexes, op, cur, mine, history>>

\* The store of the count makes the slot visible to the unlocked scans.
Bump(t) ==
    /\ pc[t] = "bump"
    /\ claimed' = claimed + 1
    /\ Goes(t, "unlock")
    /\ UNCHANGED <<enabled, slots, overflow, mutexes, op, slot, cur, mine, history>>

Unlock(t) ==
    /\ pc[t] = "unlock"
    /\ holder' = [holder EXCEPT ![claimMx] = NoThread] /\ mine' = [mine EXCEPT ![t] = 0]
    /\ Goes(t, IF slot[t] = 0 THEN "return" ELSE "add_count")
    /\ UNCHANGED <<enabled, table, claimMx, ready, creating, created, destroyed, op, slot, cur, history>>

-----------------------------------------------------------------------------
(* The updates of a slot, one atomic operation each.                       *)

Updates(t, values, location) ==
    /\ slots' = [slots EXCEPT ![slot[t]] = values]
    /\ Goes(t, location)
    /\ UNCHANGED <<enabled, claimed, overflow, mutexes, op, slot, mine, history>>

AddCount(t) ==
    /\ pc[t] = "add_count"
    /\ Updates(t, [slots[slot[t]] EXCEPT !.count = @ + 1], "add_total")
    /\ UNCHANGED cur

\* fetch_add on total or total_ns; a scope goes on to load the minimum.
AddTotal(t) ==
    /\ pc[t] = "add_total"
    /\ LET s == slots[slot[t]]
       IN  IF op[t].kind = "scope"
           THEN /\ Updates(t, [s EXCEPT !.totalNs = @ + op[t].value], "cas_min")
                /\ cur' = [cur EXCEPT ![t] = s.min]
           ELSE Updates(t, [s EXCEPT !.total = @ + op[t].value], "return") /\ UNCHANGED cur

\* One turn of the loop: done when the duration is no improvement or the
\* exchange succeeds (then the maximum is loaded), else the value is reloaded.
CasMin(t) ==
    /\ pc[t] = "cas_min"
    /\ LET s == slots[slot[t]]
           better == op[t].value < cur[t]
       IN  IF better /\ s.min # cur[t]
           THEN Updates(t, s, "cas_min") /\ cur' = [cur EXCEPT ![t] = s.min]
           ELSE /\ Updates(t, IF better THEN [s EXCEPT !.min = op[t].value] ELSE s, "cas_max")
                /\ cur' = [cur EXCEPT ![t] = s.max]

CasMax(t) ==
    /\ pc[t] = "cas_max"
    /\ LET s == slots[slot[t]]
           better == op[t].value > cur[t]
       IN  IF better /\ s.max # cur[t]
           THEN Updates(t, s, "cas_max") /\ cur' = [cur EXCEPT ![t] = s.max]
           ELSE /\ Updates(t, IF better THEN [s EXCEPT !.max = op[t].value] ELSE s, "return")
                /\ cur' = [cur EXCEPT ![t] = 0]

Return(t) ==
    /\ pc[t] = "return"
    /\ op' = [op EXCEPT ![t] = NoOp] /\ slot' = [slot EXCEPT ![t] = 0]
    /\ cur' = [cur EXCEPT ![t] = 0]
    /\ Goes(t, "idle")
    /\ UNCHANGED <<enabled, table, mutexes, mine, history>>

\* A slot's statistics are initialised when it is claimed again.
Reset ==
    /\ Quiet
    /\ slots' = [i \in 1..MaxNames |->
                    IF i <= claimed THEN [slots[i] EXCEPT !.name = NoName] ELSE slots[i]]
    /\ claimed' = 0 /\ overflow' = 0 /\ recorded' = <<>>
    /\ UNCHANGED <<enabled, mutexes, pc, op, slot, cur, mine, calls>>

Step(t) ==
    \/ FindSlot(t) \/ EnsureMutex(t) \/ Elect(t) \/ Publish(t) \/ ClearCreating(t)
    \/ Spin(t) \/ Discard(t) \/ Lock(t) \/ Claim(t) \/ Bump(t) \/ Unlock(t)
    \/ AddCount(t) \/ AddTotal(t) \/ CasMin(t) \/ CasMax(t) \/ Return(t)

Call(t) ==
    \/ \E name \in Names : ScopeBegin(t, name)
    \/ \E duration \in Durations : ScopeEnd(t, duration)
    \/ \E name \in Names, delta \in Deltas : CounterAdd(t, name, delta)

Next ==
    \/ \E t \in Threads : Step(t) \/ Call(t)
    \/ Reset
    \/ \E on \in BOOLEAN : SetEnabled(on)

Spec == Init /\ [][Next]_vars

-----------------------------------------------------------------------------
(* Properties.                                                             *)

TypeOK ==
    /\ enabled \in BOOLEAN /\ ready \in BOOLEAN /\ creating \in BOOLEAN
    /\ claimed \in 0..MaxNames /\ overflow \in Nat
    /\ DOMAIN slots = 1..MaxNames
    /\ \A i \in 1..claimed : slots[i].name \in Names
    /\ claimMx \in 0..created /\ destroyed \subseteq 1..created
    /\ \A t \in Threads : slot[t] \in 0..MaxNames

\* Threads that record a new name at once claim one slot for it.
OneSlotPerName == \A i, j \in 1..claimed : slots[i].name = slots[j].name => i = j

\* Racing first claims leave one mutex, which is never destroyed, and a thread
\* that claims holds it.
ClaimMutexShared ==
    /\ claimMx \notin destroyed
    /\ \A t \in Threads : pc[t] \in {"lock", "claim", "bump", "unlock"} =>
            ready /\ claimMx # 0 /\ (pc[t] # "lock" => holder[claimMx] = t)

\* When no record is under way, every record begun since the reset is in its
\* name's slot (count, totals, extremes) or counted as dropped.
Of(name) == {k \in DOMAIN recorded : recorded[k].name = name}
Scopes(name) == {k \in Of(name) : recorded[k].kind = "scope"}
StatsExact ==
    Quiet =>
        /\ overflow = Cardinality({k \in DOMAIN recorded : SlotsOf(recorded[k].name) = {}})
        /\ \A i \in 1..claimed :
            LET name == slots[i].name
                durations == {recorded[k].value : k \in Scopes(name)}
            IN  /\ slots[i].count = Cardinality(Of(name))
                /\ slots[i].totalNs = MapThenSumSet(LAMBDA k : recorded[k].value, Scopes(name))
                /\ slots[i].total = MapThenSumSet(LAMBDA k : recorded[k].value, Of(name) \ Scopes(name))
                /\ slots[i].min = Min(durations \cup {Infinity})
                /\ slots[i].max = Max(durations \cup {0})

\* A thread that spins on the flag is not left to spin: the flag is set, or
\* the thread that was elected to set it is about to.
SpinEnds ==
    \A t \in Threads : pc[t] = "spin" => ready \/ \E u \in Threads : pc[u] = "publish"

\* No record is lost, however the claims and updates of slots interleave,
\* and no thread waits for a mutex that nobody makes.
RecordsExact == TypeOK /\ OneSlotPerName /\ ClaimMutexShared /\ StatsExact /\ SpinEnds
=============================================================================
