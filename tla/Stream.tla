------------------------------- MODULE Stream -------------------------------
(***************************************************************************)
(* The weight streaming engine of src/stream: blocks that a pool of I/O    *)
(* workers loads into RAM, an LRU eviction that makes room, and the calls  *)
(* of client threads (prefetch, await, pin, unpin, evict).                 *)
(*                                                                         *)
(* Mutexes are explicit, because the code locks them in several ways.  A   *)
(* critical section that calls nothing that can block is one step, taken   *)
(* when its mutex is free; a call that can block inside one                *)
(* (hbi_threadpool_submit, hbi_cond_wait, a nested lock) ends the step     *)
(* with the mutex held.  The mutexes are those of the POSIX build: not     *)
(* recursive, and unlocking one that another thread holds frees it.  All   *)
(* blocks have size 1.                                                     *)
(***************************************************************************)
EXTENDS Naturals, Sequences, FiniteSets

CONSTANTS
    Workers,        \* threads of the I/O pool
    Clients,        \* threads that call the engine
    MaxBlocks,      \* bound: blocks registered
    RamCapacity,    \* ram_capacity, in blocks
    HasPool,        \* whether engine_create was given an io_pool
    IoCapacity,     \* queue capacity of that pool
    Faults,         \* whether allocations and reads may fail
    Tiers,          \* the target tiers prefetch is called with
    Operations,     \* the operations the clients call
    MaxPins,        \* bound: pins of one block
    MaxTicks,       \* bound: accesses recorded
    MaxUsage,       \* bound: ram_usage at which no more loads are requested
    NoThread        \* the owner of a free mutex

StreamAssumption ==
    /\ MaxBlocks \in Nat /\ RamCapacity \in Nat /\ IoCapacity \in Nat \ {0}
    /\ MaxPins \in Nat /\ MaxTicks \in Nat /\ MaxUsage \in Nat
    /\ HasPool \in BOOLEAN /\ Faults \in BOOLEAN
    /\ Operations \subseteq {"prefetch", "await", "pin", "unpin", "evict"}
    /\ Tiers \subseteq {"VRAM", "RAM"}
    /\ NoThread \notin Workers \cup Clients

Blocks == 1..MaxBlocks
NoBlock == 0

VARIABLES
    num_blocks,     \* blocks registered so far, in array order
    status, tier,   \* per block: residency status, current_tier
    ram,            \* per block: whether ram_ptr is allocated
    loaded,         \* per block: whether the read into ram_ptr succeeded
    pin_count,      \* per block
    tick, clock,    \* last_access_tick of each block, and the monotonic clock
    owner,          \* per block: the thread that holds its mutex
    global_owner,   \* the thread that holds the engine's mutex
    ram_usage,
    jobs,           \* the pool's queue: blocks to be read
    wpc, wblock,    \* per worker: location and the block of its job
    scan, lru,      \* per worker in evict_lru: next index, and the
                    \* [block, oldest] chosen so far
    cpc, cblock     \* per client: location and the block of its call

blockVars == <<status, tier, ram, loaded, pin_count, tick, clock>>
workerVars == <<wpc, wblock, scan, lru>>
clientVars == <<cpc, cblock>>
vars == <<num_blocks, blockVars, owner, global_owner, ram_usage, jobs,
          workerVars, clientVars>>

NoLru == [block |-> NoBlock, oldest |-> MaxTicks + 1]

Init ==
    /\ num_blocks = 0
    /\ status = [b \in Blocks |-> "EVICTED"] /\ tier = [b \in Blocks |-> "DISK"]
    /\ ram = [b \in Blocks |-> FALSE] /\ loaded = [b \in Blocks |-> FALSE]
    /\ pin_count = [b \in Blocks |-> 0]
    /\ tick = [b \in Blocks |-> 0] /\ clock = 0
    /\ owner = [b \in Blocks |-> NoThread] /\ global_owner = NoThread
    /\ ram_usage = 0 /\ jobs = <<>>
    /\ wpc = [w \in Workers |-> "idle"] /\ wblock = [w \in Workers |-> NoBlock]
    /\ scan = [w \in Workers |-> 0] /\ lru = [w \in Workers |-> NoLru]
    /\ cpc = [c \in Clients |-> "ready"] /\ cblock = [c \in Clients |-> NoBlock]

\* hbi_stream_register_block, on a clean engine: EVICTED, on disk.
RegisterBlock ==
    /\ global_owner = NoThread
    /\ num_blocks < MaxBlocks
    /\ num_blocks' = num_blocks + 1
    /\ UNCHANGED <<blockVars, owner, global_owner, ram_usage, jobs, workerVars, clientVars>>

-----------------------------------------------------------------------------
(* hbi_stream_io_worker_read, run by a pool worker.                        *)

WorkerGoes(w, location) == wpc' = [wpc EXCEPT ![w] = location]

\* The pool hands over the oldest job; ram_ptr is read without a lock.
TakeJob(w) ==
    /\ wpc[w] = "idle" /\ jobs # <<>>
    /\ wblock' = [wblock EXCEPT ![w] = Head(jobs)]
    /\ jobs' = Tail(jobs)
    /\ WorkerGoes(w, IF ram[Head(jobs)] THEN "read" ELSE "lock_global")
    /\ UNCHANGED <<num_blocks, blockVars, owner, global_owner, ram_usage, scan, lru, clientVars>>

\* The test of the eviction loop, with the engine's mutex held: a full budget
\* starts a scan of the blocks.
TestBudget(w, usage) ==
    IF usage + 1 > RamCapacity
    THEN WorkerGoes(w, "scan") /\ scan' = [scan EXCEPT ![w] = 1]
    ELSE WorkerGoes(w, "alloc") /\ UNCHANGED scan

LockGlobal(w) ==
    /\ wpc[w] = "lock_global" /\ global_owner = NoThread
    /\ global_owner' = w
    /\ TestBudget(w, ram_usage)
    /\ UNCHANGED <<num_blocks, blockVars, owner, ram_usage, jobs, wblock, lru, clientVars>>

Evictable(b) == status[b] = "RESIDENT" /\ pin_count[b] = 0

\* One block of evict_lru's scan.  The code compares hbi_mutex_trylock, which
\* is true (1) when it acquires the mutex, with HBI_OK, which is 0: a mutex
\* that was free is acquired and kept, and a block whose mutex another thread
\* holds is examined and its mutex released.  After the last block, without a
\* candidate, evict_lru fails and the loop breaks to the allocation.
ScanBlock(w) ==
    /\ wpc[w] = "scan"
    /\ LET b == scan[w]
           acquired == owner[b] = NoThread
           better == Evictable(b) /\ tier[b] = "RAM" /\ tick[b] < lru[w].oldest
           best == IF ~acquired /\ better THEN [block |-> b, oldest |-> tick[b]] ELSE lru[w]
       IN  /\ owner' = [owner EXCEPT ![b] = IF acquired THEN w ELSE NoThread]
           /\ lru' = [lru EXCEPT ![w] = best]
           /\ IF b < num_blocks
              THEN scan' = [scan EXCEPT ![w] = b + 1] /\ UNCHANGED wpc
              ELSE /\ scan' = [scan EXCEPT ![w] = 0]
                   /\ WorkerGoes(w, IF best = NoLru THEN "alloc" ELSE "evict")
    /\ UNCHANGED <<num_blocks, blockVars, global_owner, ram_usage, jobs, wblock, clientVars>>

\* Mutant: the candidate is not checked again.
EvictLruUnchecked(w) ==
    /\ wpc[w] = "evict" /\ owner[lru[w].block] = NoThread
    /\ LET b == lru[w].block
       IN  /\ status' = [status EXCEPT ![b] = "EVICTED"]
           /\ ram' = [ram EXCEPT ![b] = FALSE]
           /\ loaded' = [loaded EXCEPT ![b] = FALSE]
           /\ ram_usage' = IF ram[b] THEN ram_usage - 1 ELSE ram_usage
    /\ lru' = [lru EXCEPT ![w] = NoLru]
    /\ TestBudget(w, ram_usage')
    /\ UNCHANGED <<num_blocks, tier, pin_count, tick, clock, owner, global_owner, jobs,
                   wblock, clientVars>>

\* The candidate is checked again under its own mutex; evict_lru reports
\* success either way.
EvictLru(w) ==
    /\ wpc[w] = "evict" /\ owner[lru[w].block] = NoThread
    /\ LET b == lru[w].block IN
       IF Evictable(b)
       THEN /\ status' = [status EXCEPT ![b] = "EVICTED"]
            /\ ram' = [ram EXCEPT ![b] = FALSE]
            /\ loaded' = [loaded EXCEPT ![b] = FALSE]
            /\ ram_usage' = IF ram[b] THEN ram_usage - 1 ELSE ram_usage
       ELSE UNCHANGED <<status, ram, loaded, ram_usage>>
    /\ lru' = [lru EXCEPT ![w] = NoLru]
    /\ TestBudget(w, ram_usage')
    /\ UNCHANGED <<num_blocks, tier, pin_count, tick, clock, owner, global_owner, jobs,
                   wblock, clientVars>>

\* The allocation, whether or not the budget has room; the engine's mutex is
\* released.
Allocate(w) ==
    /\ wpc[w] = "alloc"
    /\ \/ /\ ram' = [ram EXCEPT ![wblock[w]] = TRUE]
          /\ ram_usage' = ram_usage + 1
       \/ /\ Faults
          /\ UNCHANGED <<ram, ram_usage>>
    /\ global_owner' = NoThread
    /\ WorkerGoes(w, "read")
    /\ UNCHANGED <<num_blocks, status, tier, loaded, pin_count, tick, clock, owner, jobs,
                   wblock, scan, lru, clientVars>>

\* read_tensor_data, whose status is ignored.
Read(w) ==
    /\ wpc[w] = "read"
    /\ \E ok \in IF Faults THEN BOOLEAN ELSE {TRUE} :
          loaded' = [loaded EXCEPT ![wblock[w]] = ram[wblock[w]] /\ ok]
    /\ WorkerGoes(w, "publish")
    /\ UNCHANGED <<num_blocks, status, tier, ram, pin_count, tick, clock, owner, global_owner,
                   ram_usage, jobs, wblock, scan, lru, clientVars>>

\* Mutant: the job ends without publishing the block.
PublishNothing(w) ==
    /\ wpc[w] = "publish" /\ owner[wblock[w]] = NoThread
    /\ WorkerGoes(w, "idle")
    /\ wblock' = [wblock EXCEPT ![w] = NoBlock]
    /\ UNCHANGED <<num_blocks, blockVars, owner, global_owner, ram_usage, jobs, scan, lru,
                   clientVars>>

\* The status is set and the waiters are woken under the block's mutex.
Publish(w) ==
    /\ wpc[w] = "publish" /\ owner[wblock[w]] = NoThread
    /\ status' = [status EXCEPT ![wblock[w]] = "RESIDENT"]
    /\ cpc' = [c \in Clients |->
                 IF cpc[c] = "cond_wait" /\ cblock[c] = wblock[w] THEN "await" ELSE cpc[c]]
    /\ WorkerGoes(w, "idle")
    /\ wblock' = [wblock EXCEPT ![w] = NoBlock]
    /\ UNCHANGED <<num_blocks, tier, ram, loaded, pin_count, tick, clock, owner, global_owner,
                   ram_usage, jobs, scan, lru, cblock>>

Worker(w) ==
    \/ TakeJob(w) \/ LockGlobal(w) \/ ScanBlock(w) \/ EvictLru(w) \/ Allocate(w)
    \/ Read(w) \/ Publish(w)

-----------------------------------------------------------------------------
(* The client operations.                                                  *)

ClientGoes(c, location) == cpc' = [cpc EXCEPT ![c] = location]

\* The call ends.
Return(c) ==
    /\ ClientGoes(c, "ready")
    /\ cblock' = [cblock EXCEPT ![c] = NoBlock]

\* A call on a registered block, found by get_block.
Calls(c, b) == cpc[c] = "ready" /\ b <= num_blocks

\* hbi_stream_prefetch of a block that is not EVICTED changes nothing.  Of an
\* EVICTED one, it marks the block, and submits with the block's mutex held.
Prefetch(c, b) ==
    /\ "prefetch" \in Operations /\ Calls(c, b) /\ ram_usage < MaxUsage
    /\ owner[b] = NoThread /\ status[b] = "EVICTED"
    /\ owner' = [owner EXCEPT ![b] = c]
    /\ status' = [status EXCEPT ![b] = "IN_TRANSIT"]
    /\ \E target \in Tiers : tier' = [tier EXCEPT ![b] = target]
    /\ ClientGoes(c, "submit")
    /\ cblock' = [cblock EXCEPT ![c] = b]
    /\ UNCHANGED <<num_blocks, ram, loaded, pin_count, tick, clock, global_owner,
                   ram_usage, jobs, workerVars>>

\* hbi_threadpool_submit waits for room in the pool's queue, or fails at once
\* without a pool.  Its status is ignored.
SubmitJob(c) ==
    /\ cpc[c] = "submit"
    /\ HasPool => Len(jobs) < IoCapacity
    /\ jobs' = IF HasPool THEN Append(jobs, cblock[c]) ELSE jobs
    /\ ClientGoes(c, "unlock")
    /\ UNCHANGED <<num_blocks, blockVars, owner, global_owner, ram_usage, workerVars, cblock>>

PrefetchReturns(c) ==
    /\ cpc[c] = "unlock"
    /\ owner' = [owner EXCEPT ![cblock[c]] = NoThread]
    /\ Return(c)
    /\ UNCHANGED <<num_blocks, blockVars, global_owner, ram_usage, jobs, workerVars>>

AwaitCall(c, b) ==
    /\ "await" \in Operations /\ Calls(c, b) /\ clock < MaxTicks
    /\ ClientGoes(c, "await")
    /\ cblock' = [cblock EXCEPT ![c] = b]
    /\ UNCHANGED <<num_blocks, blockVars, owner, global_owner, ram_usage, jobs, workerVars>>

\* hbi_stream_await takes the mutex, on entry and after each wakeup, and tests
\* the status: it waits, fails on an EVICTED block, or goes on with the mutex
\* held.
Await(c) ==
    /\ cpc[c] = "await" /\ owner[cblock[c]] = NoThread
    /\ LET s == status[cblock[c]] IN
       CASE s = "IN_TRANSIT" -> ClientGoes(c, "cond_wait") /\ UNCHANGED <<owner, cblock>>
         [] s = "EVICTED" -> Return(c) /\ UNCHANGED owner
         [] OTHER -> /\ ClientGoes(c, "record_access")
                     /\ owner' = [owner EXCEPT ![cblock[c]] = c]
                     /\ UNCHANGED cblock
    /\ UNCHANGED <<num_blocks, blockVars, global_owner, ram_usage, jobs, workerVars>>

SpuriousWakeup(c) ==
    /\ cpc[c] = "cond_wait"
    /\ ClientGoes(c, "await")
    /\ UNCHANGED <<num_blocks, blockVars, owner, global_owner, ram_usage, jobs, workerVars, cblock>>

\* hbi_stream_cache_record_access locks the mutex that await already holds.
RecordAccess(c) ==
    /\ cpc[c] = "record_access" /\ owner[cblock[c]] = NoThread
    /\ clock' = clock + 1
    /\ tick' = [tick EXCEPT ![cblock[c]] = clock']
    /\ ClientGoes(c, "wrap")
    /\ UNCHANGED <<num_blocks, status, tier, ram, loaded, pin_count, owner, global_owner,
                   ram_usage, jobs, workerVars, cblock>>

\* hbi_tensor_wrap fails on a NULL ram_ptr; then the unlock.
Wrap(c) ==
    /\ cpc[c] = "wrap"
    /\ owner' = [owner EXCEPT ![cblock[c]] = NoThread]
    /\ IF ram[cblock[c]]
       THEN ClientGoes(c, "count_hit") /\ UNCHANGED cblock
       ELSE Return(c)
    /\ UNCHANGED <<num_blocks, blockVars, global_owner, ram_usage, jobs, workerVars>>

\* cache_hits is bumped under the engine's mutex.
CountHit(c) ==
    /\ cpc[c] = "count_hit" /\ global_owner = NoThread
    /\ Return(c)
    /\ UNCHANGED <<num_blocks, blockVars, owner, global_owner, ram_usage, jobs, workerVars>>

Pin(c, b) ==
    /\ "pin" \in Operations /\ Calls(c, b) /\ pin_count[b] < MaxPins
    /\ owner[b] = NoThread
    /\ status' = IF status[b] = "RESIDENT" THEN [status EXCEPT ![b] = "PINNED"] ELSE status
    /\ pin_count' = [pin_count EXCEPT ![b] = @ + 1]
    /\ UNCHANGED <<num_blocks, tier, ram, loaded, tick, clock, owner, global_owner, ram_usage,
                   jobs, workerVars, clientVars>>

Unpin(c, b) ==
    /\ "unpin" \in Operations /\ Calls(c, b)
    /\ owner[b] = NoThread /\ pin_count[b] > 0
    /\ pin_count' = [pin_count EXCEPT ![b] = @ - 1]
    /\ status' = IF pin_count'[b] = 0 /\ status[b] = "PINNED"
                 THEN [status EXCEPT ![b] = "RESIDENT"] ELSE status
    /\ UNCHANGED <<num_blocks, tier, ram, loaded, tick, clock, owner, global_owner, ram_usage,
                   jobs, workerVars, clientVars>>

\* hbi_stream_evict: ram_usage is left alone.
Evict(c, b) ==
    /\ "evict" \in Operations /\ Calls(c, b)
    /\ owner[b] = NoThread /\ Evictable(b)
    /\ status' = [status EXCEPT ![b] = "EVICTED"]
    /\ ram' = [ram EXCEPT ![b] = FALSE]
    /\ loaded' = [loaded EXCEPT ![b] = FALSE]
    /\ UNCHANGED <<num_blocks, tier, pin_count, tick, clock, owner, global_owner, ram_usage,
                   jobs, workerVars, clientVars>>

\* The steps of a call in progress.
Client(c) ==
    \/ SubmitJob(c) \/ PrefetchReturns(c) \/ Await(c) \/ RecordAccess(c) \/ Wrap(c) \/ CountHit(c)

Call(c, b) == Prefetch(c, b) \/ AwaitCall(c, b) \/ Pin(c, b) \/ Unpin(c, b) \/ Evict(c, b)

Next ==
    \/ RegisterBlock
    \/ \E w \in Workers : Worker(w)
    \/ \E c \in Clients : Client(c) \/ SpuriousWakeup(c)
    \/ \E c \in Clients, b \in Blocks : Call(c, b)

\* The pool's workers and a client inside a call are scheduled again and
\* again; a mutex that is free over and over is eventually granted.
Spec == Init /\ [][Next]_vars
FairSpec ==
    /\ Spec
    /\ \A w \in Workers : SF_vars(Worker(w))
    /\ \A c \in Clients : SF_vars(Client(c))

-----------------------------------------------------------------------------
(* Properties.                                                             *)

Allocated == Cardinality({b \in Blocks : ram[b]})

\* A block is being loaded by at most one job, from the moment prefetch marks
\* it until the worker publishes it: two workers never read into one buffer.
\* Prefetch's check of EVICTED under the block's mutex guarantees it.
LoadsInFlight(b) ==
    Cardinality({w \in Workers : wblock[w] = b}) + Cardinality({i \in DOMAIN jobs : jobs[i] = b})
      + Cardinality({c \in Clients : cpc[c] = "submit" /\ cblock[c] = b})
OneLoadPerBlock ==
    \A b \in Blocks :
       LoadsInFlight(b) <= 1 /\ (LoadsInFlight(b) = 1 => status[b] = "IN_TRANSIT")

\* "Pin a block so it won't be evicted" (stream.h:98): no step frees the
\* buffer of a block with a pin, not even an eviction that chose the block
\* before it was pinned.
KeepsPinned == \A b \in Blocks : pin_count[b] > 0 /\ ram[b] => ram'[b]
PinnedKeepsBuffer == [][KeepsPinned]_vars

\* ram_usage never falls below what is allocated, so that the subtraction of
\* evict_lru never wraps the size_t.
UsageCoversAllocated == ram_usage >= Allocated

InTransit(b) == status[b] = "IN_TRANSIT"

\* A requested load completes: the block leaves IN_TRANSIT.  ("Request a
\* block to be loaded asynchronously", stream.h:89.)
LoadCompletes ==
    \A b \in Blocks : InTransit(b) ~> ~InTransit(b)

\* "Block the current thread until the block is fully resident" (stream.h:93):
\* await returns.
AwaitReturns ==
    \A c \in Clients : cpc[c] = "await" ~> cpc[c] = "ready"

\* Loads are safe: one per block, counted, and never over a pinned buffer.
LoadsSafe == []OneLoadPerBlock /\ []UsageCoversAllocated /\ PinnedKeepsBuffer
=============================================================================
