------------------------------- MODULE Memory -------------------------------
(***************************************************************************)
(* The system allocator of src/memory: blocks with a header, statistics    *)
(* kept in atomics without a lock, and the debug list of live blocks,      *)
(* which a lazily created mutex guards.  Threads allocate, reallocate and  *)
(* free; each atomic operation on a shared word is a step of its own       *)
(* where another thread could tell.                                        *)
(***************************************************************************)
EXTENDS Naturals, Sequences, FiniteSets, FiniteSetsExt, SequencesExt

CONSTANTS
    Threads,
    Enablers,       \* the threads that may call hbi_mem_debug_set_enabled(true)
    Blocks,         \* addresses the platform may hand out, reused after a free
    Sizes, Tags,    \* the requests: sizes, 0 included, and valid tags
    MaxCalls,       \* bound: calls of sys_alloc
    NoBlock         \* NULL

MemoryAssumption ==
    /\ Enablers \subseteq Threads /\ NoBlock \notin Blocks
    /\ Sizes \subseteq Nat /\ MaxCalls \in Nat

VARIABLES
    heap,                           \* block -> its header, or Unused
    live_bytes, peak_bytes, live_blocks, bytes_by_tag,
    total_alloc_calls, total_free_calls,
    dbg_list,                       \* the leak list, dbg_head first
    dbg_live_blocks,
    debug_enabled, mtx_ready,       \* g_debug_enabled, g_debug_mtx_ready
    dbg_mtx,                        \* whether g_sys_ctx.dbg_mtx is stored
    pc, call,                       \* per thread: location, and the operation
    max_live                        \* observed: the most bytes ever outstanding

heapVars == <<heap, max_live>>
stats == <<live_bytes, peak_bytes, live_blocks, bytes_by_tag, total_alloc_calls, total_free_calls>>
debugVars == <<dbg_list, dbg_live_blocks, debug_enabled, mtx_ready, dbg_mtx>>
vars == <<heapVars, stats, debugVars, pc, call>>

Unused == [size |-> 0]
Header(size, tag, debug) == [size |-> size, tag |-> tag, canary |-> debug]
Live(b) == heap[b] # Unused

\* block is being allocated or freed; old is the block a realloc will free;
\* live and peak are the locals of stats_add; then is where debug_mutex returns.
NoCall == [block |-> NoBlock, old |-> NoBlock, live |-> 0, peak |-> 0, then |-> "idle"]

Init ==
    /\ heap = [b \in Blocks |-> Unused] /\ max_live = 0
    /\ live_bytes = 0 /\ peak_bytes = 0 /\ live_blocks = 0
    /\ bytes_by_tag = [t \in Tags |-> 0]
    /\ total_alloc_calls = 0 /\ total_free_calls = 0
    /\ dbg_list = <<>> /\ dbg_live_blocks = 0
    /\ debug_enabled = FALSE /\ mtx_ready = FALSE /\ dbg_mtx = FALSE
    /\ pc = [t \in Threads |-> "idle"] /\ call = [t \in Threads |-> NoCall]

Goes(t, location) == pc' = [pc EXCEPT ![t] = location]

\* A block some thread is working on is not passed to another call.
InUse == UNION {{call[t].block, call[t].old} : t \in Threads}

-----------------------------------------------------------------------------
(* debug_mutex: create a mutex, claim the ready flag, then store it.       *)

TestReady(t) ==
    /\ pc[t] = "mutex"
    /\ Goes(t, IF mtx_ready THEN call[t].then ELSE "claim")
    /\ UNCHANGED <<heapVars, stats, debugVars, call>>

ClaimReady(t) ==
    /\ pc[t] = "claim"
    /\ mtx_ready' = TRUE
    /\ Goes(t, IF mtx_ready THEN call[t].then ELSE "store")
    /\ UNCHANGED <<heapVars, stats, dbg_list, dbg_live_blocks, debug_enabled, dbg_mtx, call>>

StoreMutex(t) ==
    /\ pc[t] = "store"
    /\ dbg_mtx' = TRUE
    /\ Goes(t, call[t].then)
    /\ UNCHANGED <<heapVars, stats, dbg_list, dbg_live_blocks, debug_enabled, mtx_ready, call>>

\* hbi_mem_debug_set_enabled(true).
EnableBegin(t) ==
    /\ t \in Enablers /\ pc[t] = "idle" /\ ~debug_enabled
    /\ call' = [call EXCEPT ![t].then = "enable"]
    /\ Goes(t, "mutex")
    /\ UNCHANGED <<heapVars, stats, debugVars>>

EnableEnd(t) ==
    /\ pc[t] = "enable"
    /\ debug_enabled' = TRUE
    /\ call' = [call EXCEPT ![t] = NoCall]
    /\ Goes(t, "idle")
    /\ UNCHANGED <<heapVars, stats, dbg_list, dbg_live_blocks, mtx_ready, dbg_mtx>>

-----------------------------------------------------------------------------
(* sys_alloc, and sys_realloc, which allocates and then frees.             *)

\* A size of 0 becomes 1.  The debug flag is read once, first; the platform
\* allocation may fail, and then nothing has changed.
Allocate(t, b, size, tag, old) ==
    /\ total_alloc_calls + Cardinality({u \in Threads : pc[u] # "idle"}) < MaxCalls
    /\ ~Live(b)
    /\ heap' = [heap EXCEPT ![b] = Header(Max({size, 1}), tag, debug_enabled)]
    /\ call' = [call EXCEPT ![t] = [NoCall EXCEPT !.block = b, !.old = old, !.then = "link"]]
    /\ Goes(t, IF debug_enabled THEN "mutex" ELSE "add")
    /\ UNCHANGED <<max_live, stats, debugVars>>

Alloc(t, b, size, tag) ==
    /\ pc[t] = "idle"
    /\ Allocate(t, b, size, tag, NoBlock)

\* A NULL pointer makes it Alloc, a size of 0 makes it Free.
Realloc(t, p, b, size, tag) ==
    /\ pc[t] = "idle" /\ Live(p) /\ p \notin InUse
    /\ size > 0
    /\ Allocate(t, b, size, tag, p)

\* debug_link, one critical section; without the mutex it does nothing, and
\* the block is not counted either.
Link(t) ==
    /\ pc[t] = "link"
    /\ dbg_list' = IF dbg_mtx THEN <<call[t].block>> \o dbg_list ELSE dbg_list
    /\ Goes(t, IF dbg_mtx THEN "count_link" ELSE "add")
    /\ UNCHANGED <<heapVars, stats, dbg_live_blocks, debug_enabled, mtx_ready, dbg_mtx, call>>

CountLink(t) ==
    /\ pc[t] = "count_link"
    /\ dbg_live_blocks' = dbg_live_blocks + 1
    /\ Goes(t, "add")
    /\ UNCHANGED <<heapVars, stats, dbg_list, debug_enabled, mtx_ready, dbg_mtx, call>>

\* stats_add: first the bytes, whose new total the thread keeps.
AddBytes(t) ==
    /\ pc[t] = "add"
    /\ live_bytes' = live_bytes + heap[call[t].block].size
    /\ max_live' = Max({max_live, live_bytes'})
    /\ call' = [call EXCEPT ![t].live = live_bytes']
    /\ Goes(t, "add_counts")
    /\ UNCHANGED <<heap, peak_bytes, live_blocks, bytes_by_tag, total_alloc_calls,
                   total_free_calls, debugVars>>

\* The other counters, and the first load of the peak.
AddCounts(t) ==
    /\ pc[t] = "add_counts"
    /\ total_alloc_calls' = total_alloc_calls + 1
    /\ live_blocks' = live_blocks + 1
    /\ LET h == heap[call[t].block]
       IN  bytes_by_tag' = [bytes_by_tag EXCEPT ![h.tag] = @ + h.size]
    /\ call' = [call EXCEPT ![t].peak = peak_bytes]
    /\ Goes(t, "raise")
    /\ UNCHANGED <<heapVars, live_bytes, peak_bytes, total_free_calls, debugVars>>

\* The operation continues with the free of a realloc, or returns.
AllocDone(t) ==
    IF call[t].old = NoBlock
    THEN Goes(t, "idle") /\ call' = [call EXCEPT ![t] = NoCall]
    ELSE /\ Goes(t, "free")
         /\ call' = [call EXCEPT ![t] = [NoCall EXCEPT !.block = call[t].old]]

\* Mutant: an exchange that fails is not tried again.
RaisePeakOnce(t) ==
    /\ pc[t] = "raise"
    /\ AllocDone(t)
    /\ peak_bytes' = IF call[t].live > call[t].peak /\ peak_bytes = call[t].peak
                     THEN call[t].live ELSE peak_bytes
    /\ UNCHANGED <<heapVars, live_bytes, live_blocks, bytes_by_tag, total_alloc_calls,
                   total_free_calls, debugVars>>

\* One turn of the compare-exchange loop: a peak that has changed is loaded
\* again.
RaisePeak(t) ==
    /\ pc[t] = "raise"
    /\ IF call[t].live <= call[t].peak
       THEN AllocDone(t) /\ UNCHANGED peak_bytes
       ELSE IF peak_bytes = call[t].peak
       THEN AllocDone(t) /\ peak_bytes' = call[t].live
       ELSE /\ call' = [call EXCEPT ![t].peak = peak_bytes]
            /\ UNCHANGED <<peak_bytes, pc>>
    /\ UNCHANGED <<heapVars, live_bytes, live_blocks, bytes_by_tag, total_alloc_calls,
                   total_free_calls, debugVars>>

-----------------------------------------------------------------------------
(* sys_free.                                                               *)

FreeBegin(t, p) ==
    /\ pc[t] = "idle" /\ Live(p) /\ p \notin InUse
    /\ call' = [call EXCEPT ![t] = [NoCall EXCEPT !.block = p]]
    /\ Goes(t, "free")
    /\ UNCHANGED <<heapVars, stats, debugVars>>

\* Only a block that was allocated in debug mode has the canary, and only if
\* debug mode is on now is it unlinked.
FreeTest(t) ==
    /\ pc[t] = "free"
    /\ call' = [call EXCEPT ![t].then = "unlink"]
    /\ Goes(t, IF debug_enabled /\ heap[call[t].block].canary THEN "mutex" ELSE "sub")
    /\ UNCHANGED <<heapVars, stats, debugVars>>

Unlink(t) ==
    /\ pc[t] = "unlink"
    /\ dbg_list' = IF dbg_mtx THEN SelectSeq(dbg_list, LAMBDA b : b # call[t].block) ELSE dbg_list
    /\ Goes(t, IF dbg_mtx THEN "count_unlink" ELSE "sub")
    /\ UNCHANGED <<heapVars, stats, dbg_live_blocks, debug_enabled, mtx_ready, dbg_mtx, call>>

CountUnlink(t) ==
    /\ pc[t] = "count_unlink"
    /\ dbg_live_blocks' = dbg_live_blocks - 1
    /\ Goes(t, "sub")
    /\ UNCHANGED <<heapVars, stats, dbg_list, debug_enabled, mtx_ready, dbg_mtx, call>>

SubBytes(t) ==
    /\ pc[t] = "sub"
    /\ live_bytes' = live_bytes - heap[call[t].block].size
    /\ Goes(t, "release")
    /\ UNCHANGED <<heapVars, peak_bytes, live_blocks, bytes_by_tag, total_alloc_calls,
                   total_free_calls, debugVars, call>>

\* The other counters of stats_sub; the header is read for the last time and
\* the address goes back to the platform.
Release(t) ==
    /\ pc[t] = "release"
    /\ total_free_calls' = total_free_calls + 1
    /\ live_blocks' = live_blocks - 1
    /\ LET h == heap[call[t].block]
       IN  bytes_by_tag' = [bytes_by_tag EXCEPT ![h.tag] = @ - h.size]
    /\ heap' = [heap EXCEPT ![call[t].block] = Unused]
    /\ Goes(t, "idle")
    /\ call' = [call EXCEPT ![t] = NoCall]
    /\ UNCHANGED <<max_live, live_bytes, peak_bytes, total_alloc_calls, debugVars>>

Step(t) ==
    \/ TestReady(t) \/ ClaimReady(t) \/ StoreMutex(t) \/ EnableEnd(t)
    \/ Link(t) \/ CountLink(t) \/ AddBytes(t) \/ AddCounts(t) \/ RaisePeak(t)
    \/ FreeTest(t) \/ Unlink(t) \/ CountUnlink(t) \/ SubBytes(t) \/ Release(t)

Call(t) ==
    \/ EnableBegin(t)
    \/ \E b \in Blocks, size \in Sizes, tag \in Tags :
          Alloc(t, b, size, tag) \/ \E p \in Blocks : Realloc(t, p, b, size, tag)
    \/ \E p \in Blocks : FreeBegin(t, p)

Next == \E t \in Threads : Step(t) \/ Call(t)

Spec == Init /\ [][Next]_vars

-----------------------------------------------------------------------------
(* Properties.                                                             *)

Locations == {"idle", "mutex", "claim", "store", "enable", "link", "count_link", "add",
              "add_counts", "raise", "free", "unlink", "count_unlink", "sub", "release"}

TypeOK ==
    /\ \A b \in Blocks : Live(b) => heap[b] \in [size : Nat \ {0}, tag : Tags, canary : BOOLEAN]
    /\ {live_bytes, peak_bytes, live_blocks, dbg_live_blocks} \subseteq Nat
    /\ bytes_by_tag \in [Tags -> Nat]
    /\ dbg_list \in Seq(Blocks)
    /\ pc \in [Threads -> Locations]

\* The blocks whose bytes, or counts, are in the statistics.
At(locations) == {call[t].block : t \in {u \in Threads : pc[u] \in locations}}
Counted(unlisted) == {b \in Blocks : Live(b)} \ At(unlisted)
Bytes(S) == MapThenSumSet(LAMBDA b : heap[b].size, S)
Allocating(t) == pc[t] \in {"mutex", "claim", "store", "link", "count_link"} /\ call[t].then = "link"
NotAdded == {call[t].block : t \in {u \in Threads : Allocating(u)}}

\* Each statistic is exact for the operations that have passed its update, and
\* none is lost or counted twice: "Exact accounting ...: every allocator can
\* report live/peak bytes and counts" (memory.h:77).
StatsExact ==
    LET bytes == Counted({"add", "release"}) \ NotAdded
        counts == Counted({"add", "add_counts"}) \ NotAdded
    IN  /\ live_bytes = Bytes(bytes)
        /\ live_blocks = Cardinality(counts)
        /\ total_alloc_calls - total_free_calls = live_blocks
        /\ \A tag \in Tags : bytes_by_tag[tag] = Bytes({b \in counts : heap[b].tag = tag})

\* The high-water mark: whatever the compare-exchange loops interleave with,
\* when no thread is about to raise it the peak is the largest number of bytes
\* that were ever outstanding.
PeakExact ==
    (\A t \in Threads : pc[t] \notin {"add_counts", "raise"}) => peak_bytes = max_live

\* With one thread that turns debug mode on, at any moment, the list holds
\* the live blocks that were allocated in debug mode, each once, and never a
\* freed one; hbi_mem_check_leaks reads their number.
Tracked ==
    {b \in Blocks : Live(b) /\ heap[b].canary}
      \ ({b \in NotAdded : \A i \in DOMAIN dbg_list : dbg_list[i] # b}
         \cup At({"count_unlink", "sub", "release"}))
LeakListExact ==
    /\ IsInjective(dbg_list) /\ ToSet(dbg_list) = Tracked
    /\ dbg_live_blocks = Len(dbg_list) - Cardinality({t \in Threads : pc[t] = "count_link"})
                         + Cardinality({t \in Threads : pc[t] = "count_unlink"})

\* The allocator's books: the statistics, the peak and the debug list agree
\* with the heap at every moment, whatever the threads interleave.
AccountsExact == TypeOK /\ StatsExact /\ PeakExact /\ LeakListExact
=============================================================================
