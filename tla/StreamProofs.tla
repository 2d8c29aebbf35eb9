---------------------------- MODULE StreamProofs ----------------------------
(***************************************************************************)
(* Proofs about Stream, for any blocks, threads, capacities and faults:    *)
(* one load per block, the accounting of RAM, and what a pin protects.     *)
(*                                                                         *)
(* A load is at any moment in one place: the client that submits it, the   *)
(* pool's queue, or a worker.  Loads says that the places of a block do    *)
(* not coexist and that its status tells; it rests on Prefetch testing     *)
(* EVICTED under the block's mutex, whatever the trylock of evict_lru does *)
(* to the other mutexes.                                                   *)
(***************************************************************************)
EXTENDS Stream, FiniteSetTheorems, TLAPS

Statuses == {"EVICTED", "IN_TRANSIT", "RESIDENT", "PINNED"}
WorkerLocations == {"idle", "lock_global", "scan", "evict", "alloc", "read", "publish"}
ClientLocations == {"ready", "submit", "unlock", "await", "cond_wait", "record_access", "wrap", "count_hit"}

Lrus == [block : Blocks \cup {NoBlock}, oldest : Nat]

EngineTyped ==
    /\ num_blocks \in 0..MaxBlocks /\ ram_usage \in Nat /\ jobs \in Seq(Blocks)

BlocksTyped ==
    /\ status \in [Blocks -> Statuses] /\ ram \in [Blocks -> BOOLEAN]
    /\ pin_count \in [Blocks -> Nat] /\ tick \in [Blocks -> Nat] /\ clock \in Nat

WorkersTyped ==
    /\ wpc \in [Workers -> WorkerLocations] /\ wblock \in [Workers -> Blocks \cup {NoBlock}]
    /\ scan \in [Workers -> Nat] /\ lru \in [Workers -> Lrus]

ClientsTyped ==
    /\ cpc \in [Clients -> ClientLocations] /\ cblock \in [Clients -> Blocks \cup {NoBlock}]

Typed == EngineTyped /\ BlocksTyped /\ WorkersTyped /\ ClientsTyped

\* Where a thread is tells which of its variables name a block.
Local ==
    /\ \A w \in Workers : wpc[w] = "idle" <=> wblock[w] = NoBlock
    /\ \A w \in Workers : wpc[w] = "scan" => scan[w] \in Blocks
    /\ \A w \in Workers : lru[w] = NoLru \/ lru[w].block \in Blocks
    /\ \A w \in Workers : wpc[w] = "evict" => lru[w] # NoLru
    /\ \A c \in Clients : cpc[c] # "ready" => cblock[c] \in Blocks

Submits(c) == cpc[c] = "submit"

OneWorker == \A w, v \in Workers : wblock[w] = wblock[v] /\ wblock[w] # NoBlock => w = v
OneJob == \A i, j \in DOMAIN jobs : jobs[i] = jobs[j] => i = j
OneSubmit == \A c, d \in Clients : Submits(c) /\ Submits(d) /\ cblock[c] = cblock[d] => c = d
WorkerOrJob == \A w \in Workers, i \in DOMAIN jobs : wblock[w] # jobs[i]
WorkerOrSubmit == \A w \in Workers, c \in Clients : Submits(c) => cblock[c] # wblock[w]
SubmitOrJob == \A c \in Clients, i \in DOMAIN jobs : Submits(c) => cblock[c] # jobs[i]
WorkerMarked == \A w \in Workers : wblock[w] # NoBlock => status[wblock[w]] = "IN_TRANSIT"
JobMarked == \A i \in DOMAIN jobs : status[jobs[i]] = "IN_TRANSIT"
SubmitMarked == \A c \in Clients : Submits(c) => status[cblock[c]] = "IN_TRANSIT"

Loads ==
    /\ OneWorker /\ OneJob /\ OneSubmit
    /\ WorkerOrJob /\ WorkerOrSubmit /\ SubmitOrJob
    /\ WorkerMarked /\ JobMarked /\ SubmitMarked

Buffers == {b \in Blocks : ram[b]}

IInv == Typed /\ Local /\ Loads /\ UsageCoversAllocated

-----------------------------------------------------------------------------
\* The buffers are finitely many.
LEMMA BuffersFinite ==
    ASSUME StreamAssumption
    PROVE  IsFiniteSet(Buffers) /\ Cardinality(Buffers) \in Nat
<1>1. IsFiniteSet(Blocks)
    BY FS_Interval DEF StreamAssumption, Blocks
<1> QED
    BY <1>1, FS_Subset, FS_CardinalityType DEF Buffers

LEMMA AllocatedBuffers == Allocated = Cardinality(Buffers)
BY Zenon DEF Allocated, Buffers

LEMMA InitInv == StreamAssumption /\ Init => IInv
<1> SUFFICES ASSUME StreamAssumption, Init PROVE IInv
    OBVIOUS
<1>1. EngineTyped
    BY DEF StreamAssumption, Init, EngineTyped
<1>2. BlocksTyped
    BY DEF Init, BlocksTyped, Statuses
<1>3. WorkersTyped
  <2>1. NoLru \in Lrus
    BY DEF NoLru, Lrus, StreamAssumption
  <2> QED
    BY <2>1 DEF Init, WorkersTyped, WorkerLocations
<1>4. ClientsTyped
    BY DEF Init, ClientsTyped, ClientLocations
<1>5. Local
    BY DEF Init, Local
<1>6. Loads
    BY DEF Init, Loads, Submits, NoBlock, OneWorker, OneJob, OneSubmit, WorkerOrJob, WorkerOrSubmit,
           SubmitOrJob, WorkerMarked, JobMarked, SubmitMarked
<1>7. UsageCoversAllocated
  <2>1. Buffers = {}
    BY DEF Init, Buffers
  <2> QED
    BY <2>1, FS_EmptySet, AllocatedBuffers DEF Init, UsageCoversAllocated
<1> QED
    BY <1>1, <1>2, <1>3, <1>4, <1>5, <1>6, <1>7 DEF IInv, Typed

\* Loads are kept by a step that changes none of them and submits none.
LEMMA LoadsKept ==
    ASSUME Loads, UNCHANGED <<status, wblock, jobs>>,
           \A c \in Clients : Submits(c)' => Submits(c) /\ cblock'[c] = cblock[c]
    PROVE  Loads'
<1>1. OneWorker' /\ OneJob' /\ WorkerOrJob'
    BY Zenon DEF Loads, OneWorker, OneJob, WorkerOrJob
<1>2. WorkerMarked' /\ JobMarked'
    BY Zenon DEF Loads, WorkerMarked, JobMarked
<1>3. OneSubmit'
    BY DEF Loads, OneSubmit
<1>4. WorkerOrSubmit' /\ SubmitOrJob'
    BY DEF Loads, WorkerOrSubmit, SubmitOrJob
<1>5. SubmitMarked'
    BY DEF Loads, SubmitMarked
<1> QED
    BY ONLY <1>1, <1>2, <1>3, <1>4, <1>5 DEF Loads

\* A step that leaves loads, buffers and clients alone.
Plain ==
    UNCHANGED <<num_blocks, status, ram, pin_count, tick, clock, ram_usage, jobs, wblock, cpc, cblock>>

LEMMA PlainKeeps ==
    ASSUME Typed, Loads, UsageCoversAllocated, Plain
    PROVE  EngineTyped' /\ BlocksTyped' /\ ClientsTyped' /\ Loads' /\ UsageCoversAllocated'
<1>1. EngineTyped' /\ BlocksTyped' /\ ClientsTyped'
    BY Zenon DEF Plain, Typed, EngineTyped, BlocksTyped, ClientsTyped
<1>2. UsageCoversAllocated'
    BY Zenon DEF Plain, UsageCoversAllocated, Allocated
<1>3. Loads'
  <2>1. \A c \in Clients : Submits(c)' => Submits(c) /\ cblock'[c] = cblock[c]
    BY Zenon DEF Plain, Submits
  <2> QED
    BY <2>1, LoadsKept DEF Plain
<1> QED
    BY <1>1, <1>2, <1>3

LEMMA LockGlobalInv ==
    ASSUME StreamAssumption, IInv, NEW w \in Workers, LockGlobal(w)
    PROVE  IInv'
<1> USE DEF IInv, LockGlobal, TestBudget, WorkerGoes
<1>0. Plain /\ lru' = lru
    BY DEF Plain, blockVars, clientVars
<1>1. wblock[w] # NoBlock /\ 1 \in Blocks
  <2>1. wblock[w] # NoBlock
    BY DEF Local
  <2> QED
    BY <2>1 DEF Typed, WorkersTyped, Blocks, NoBlock, StreamAssumption
<1>2. \/ wpc' = [wpc EXCEPT ![w] = "scan"] /\ scan' = [scan EXCEPT ![w] = 1]
      \/ wpc' = [wpc EXCEPT ![w] = "alloc"] /\ scan' = scan
    OBVIOUS
<1>3. WorkersTyped'
    BY ONLY <1>0, <1>2, Typed DEF Typed, WorkersTyped, Plain, WorkerLocations
<1>4. Local'
    BY ONLY <1>0, <1>1, <1>2, Typed, Local DEF Typed, WorkersTyped, Plain, Local
<1> QED
    BY <1>0, <1>3, <1>4, PlainKeeps DEF Typed

LEMMA ScanBlockInv ==
    ASSUME StreamAssumption, IInv, NEW w \in Workers, ScanBlock(w)
    PROVE  IInv'
<1> USE DEF IInv, ScanBlock, WorkerGoes
<1>0. Plain
    BY DEF Plain, blockVars, clientVars
<1>1. scan[w] \in Blocks /\ wblock[w] # NoBlock /\ wpc[w] = "scan"
    BY DEF Local
<1> DEFINE b == scan[w]
           better == Evictable(b) /\ tier[b] = "RAM" /\ tick[b] < lru[w].oldest
           best == IF ~(owner[b] = NoThread) /\ better
                   THEN [block |-> b, oldest |-> tick[b]] ELSE lru[w]
<1>2. /\ lru' = [lru EXCEPT ![w] = best]
      /\ \/ b < num_blocks /\ scan' = [scan EXCEPT ![w] = b + 1] /\ wpc' = wpc
         \/ best = NoLru /\ scan' = [scan EXCEPT ![w] = 0] /\ wpc' = [wpc EXCEPT ![w] = "alloc"]
         \/ best # NoLru /\ scan' = [scan EXCEPT ![w] = 0] /\ wpc' = [wpc EXCEPT ![w] = "evict"]
    BY Zenon
<1>3. b \in Nat /\ (b < num_blocks => b + 1 \in Blocks)
    BY <1>1 DEF Typed, EngineTyped, Blocks, StreamAssumption
<1>4. best = NoLru \/ best.block \in Blocks
    BY <1>1 DEF Local
<1>5. best \in Lrus
  <2>1. [block |-> b, oldest |-> tick[b]] \in Lrus
    BY ONLY <1>1, Typed DEF Typed, BlocksTyped, Lrus
  <2> QED
    BY <2>1 DEF Typed, WorkersTyped
<1> HIDE DEF best, b
<1>6. WorkersTyped'
    BY ONLY <1>0, <1>2, <1>3, <1>5, Typed DEF Typed, WorkersTyped, WorkerLocations, Plain
<1>7. Local'
  <2>1. \A v \in Workers : wpc'[v] = "idle" <=> wblock'[v] = NoBlock
    BY ONLY <1>0, <1>1, <1>2, Typed, Local DEF Typed, WorkersTyped, Plain, Local
  <2>2. \A v \in Workers : wpc'[v] = "scan" => scan'[v] \in Blocks
    BY ONLY <1>1, <1>2, <1>3, Typed, Local DEF Typed, WorkersTyped, Local
  <2>3. \A v \in Workers : lru'[v] = NoLru \/ lru'[v].block \in Blocks
    BY ONLY <1>2, <1>4, Typed, Local DEF Typed, WorkersTyped, Local
  <2>4. \A v \in Workers : wpc'[v] = "evict" => lru'[v] # NoLru
    BY ONLY <1>1, <1>2, Typed, Local DEF Typed, WorkersTyped, Local
  <2> QED
    BY ONLY <1>0, <2>1, <2>2, <2>3, <2>4, Local, Zenon DEF Plain, Local
<1> QED
    BY <1>0, <1>6, <1>7, PlainKeeps DEF Typed

LEMMA ReadInv ==
    ASSUME StreamAssumption, IInv, NEW w \in Workers, Read(w)
    PROVE  IInv'
<1> USE DEF IInv, Read, WorkerGoes
<1>0. Plain /\ lru' = lru /\ scan' = scan /\ wpc[w] = "read" /\ wpc' = [wpc EXCEPT ![w] = "publish"]
    BY DEF Plain, clientVars
<1>1. WorkersTyped'
    BY ONLY <1>0, Typed DEF Typed, WorkersTyped, Plain, WorkerLocations
<1>2. Local'
    BY ONLY <1>0, Typed, Local, Zenon DEF Typed, WorkersTyped, Plain, Local
<1> QED
    BY <1>0, <1>1, <1>2, PlainKeeps DEF Typed

\* A step that leaves the engine's counters, the blocks and the workers alone.
Quiet ==
    UNCHANGED <<num_blocks, status, ram, pin_count, tick, clock, ram_usage, wpc, wblock, scan, lru>>

LEMMA QuietKeeps ==
    ASSUME Typed, UsageCoversAllocated, Quiet
    PROVE  num_blocks' \in 0..MaxBlocks /\ ram_usage' \in Nat /\ BlocksTyped' /\ WorkersTyped'
           /\ UsageCoversAllocated'
BY Zenon DEF Quiet, Typed, EngineTyped, BlocksTyped, WorkersTyped, UsageCoversAllocated, Allocated

\* A client that moves between locations other than submit disturbs no load.
LEMMA ClientMoves ==
    ASSUME IInv, NEW c \in Clients, Quiet, UNCHANGED jobs,
           NEW location \in ClientLocations \ {"submit"}, NEW block \in Blocks \cup {NoBlock},
           location # "ready" => block \in Blocks,
           cpc' = [cpc EXCEPT ![c] = location], cblock' = [cblock EXCEPT ![c] = block]
    PROVE  IInv'
<1> USE DEF IInv
<1>1. ClientsTyped'
    BY DEF Typed, ClientsTyped
<1>2. Local'
    BY ONLY Quiet, Typed, Local, c \in Clients, cpc' = [cpc EXCEPT ![c] = location],
            cblock' = [cblock EXCEPT ![c] = block], location # "ready" => block \in Blocks
       DEF Typed, ClientsTyped, Quiet, Local
<1>3. \A d \in Clients : Submits(d)' => Submits(d) /\ cblock'[d] = cblock[d]
    BY DEF Typed, ClientsTyped, Submits
<1>4. Loads'
    BY <1>3, LoadsKept DEF Quiet
<1> QED
    BY <1>1, <1>2, <1>4, QuietKeeps DEF Typed, EngineTyped

LEMMA CallStepsInv ==
    ASSUME StreamAssumption, IInv, NEW c \in Clients,
           \/ PrefetchReturns(c) \/ Await(c) \/ SpuriousWakeup(c) \/ Wrap(c) \/ CountHit(c)
    PROVE  IInv'
<1> USE DEF blockVars, workerVars, ClientGoes, Return, Quiet
<1>0. Quiet /\ jobs' = jobs
    BY DEF PrefetchReturns, Await, SpuriousWakeup, Wrap, CountHit
<1>1. cpc[c] # "ready" /\ cblock[c] \in Blocks /\ cblock = [cblock EXCEPT ![c] = cblock[c]]
  <2>1. cpc[c] # "ready"
    BY DEF PrefetchReturns, Await, SpuriousWakeup, Wrap, CountHit
  <2> QED
    BY ONLY <2>1, IInv, c \in Clients DEF IInv, Local, Typed, ClientsTyped
<1>2. \E location \in ClientLocations \ {"submit"} :
         /\ cpc' = [cpc EXCEPT ![c] = location]
         /\ \/ location = "ready" /\ cblock' = [cblock EXCEPT ![c] = NoBlock]
            \/ cblock' = [cblock EXCEPT ![c] = cblock[c]]
  <2>1. CASE PrefetchReturns(c)
    BY <2>1, Zenon DEF PrefetchReturns, ClientLocations
  <2>2. CASE Await(c)
    BY <1>1, <2>2 DEF Await, ClientLocations
  <2>3. CASE SpuriousWakeup(c)
    BY <1>1, <2>3, Zenon DEF SpuriousWakeup, ClientLocations
  <2>4. CASE Wrap(c)
    BY <1>1, <2>4 DEF Wrap, ClientLocations
  <2>5. CASE CountHit(c)
    BY <2>5, Zenon DEF CountHit, ClientLocations
  <2> QED
    BY <2>1, <2>2, <2>3, <2>4, <2>5
<1> HIDE DEF Quiet
<1>3. PICK location \in ClientLocations \ {"submit"} :
         /\ cpc' = [cpc EXCEPT ![c] = location]
         /\ \/ location = "ready" /\ cblock' = [cblock EXCEPT ![c] = NoBlock]
            \/ cblock' = [cblock EXCEPT ![c] = cblock[c]]
    BY ONLY <1>2, Zenon
<1>4. CASE location = "ready" /\ cblock' = [cblock EXCEPT ![c] = NoBlock]
    BY <1>0, <1>3, <1>4, ClientMoves, Zenon
<1>5. CASE cblock' = [cblock EXCEPT ![c] = cblock[c]]
    BY <1>0, <1>1, <1>3, <1>5, ClientMoves, Zenon
<1> QED
    BY ONLY <1>3, <1>4, <1>5

LEMMA AwaitCallInv ==
    ASSUME StreamAssumption, IInv, NEW c \in Clients, NEW b \in Blocks, AwaitCall(c, b)
    PROVE  IInv'
<1>1. Quiet /\ jobs' = jobs /\ cpc' = [cpc EXCEPT ![c] = "await"]
      /\ cblock' = [cblock EXCEPT ![c] = b]
    BY DEF AwaitCall, Quiet, blockVars, workerVars, ClientGoes
<1> QED
    BY <1>1, ClientMoves, Zenon DEF ClientLocations

-----------------------------------------------------------------------------
(* Buffers and the accounting of RAM.                                      *)

\* Freeing and allocating one buffer, in the count of buffers.
LEMMA BufferFreed ==
    ASSUME StreamAssumption, Typed, NEW b \in Blocks, ram' = [ram EXCEPT ![b] = FALSE]
    PROVE  Allocated' = IF ram[b] THEN Allocated - 1 ELSE Allocated
<1>1. Buffers' = Buffers \ {b}
    BY DEF Buffers, Typed, BlocksTyped
<1>2. Cardinality(Buffers') = IF b \in Buffers THEN Cardinality(Buffers) - 1 ELSE Cardinality(Buffers)
    BY <1>1, BuffersFinite, FS_RemoveElement, Zenon
<1>3. Allocated' = Cardinality(Buffers')
    BY Zenon DEF Allocated, Buffers
<1> QED
    BY <1>2, <1>3, AllocatedBuffers DEF Buffers

LEMMA BufferAllocated ==
    ASSUME StreamAssumption, Typed, NEW b \in Blocks, ram' = [ram EXCEPT ![b] = TRUE]
    PROVE  Allocated' \in Nat /\ Allocated' <= Allocated + 1
<1>1. Buffers' = Buffers \cup {b}
    BY DEF Buffers, Typed, BlocksTyped
<1>2. Cardinality(Buffers') = IF b \in Buffers THEN Cardinality(Buffers) ELSE Cardinality(Buffers) + 1
    BY <1>1, BuffersFinite, FS_AddElement, Zenon
<1>3. Allocated' = Cardinality(Buffers')
    BY Zenon DEF Allocated, Buffers
<1> QED
    BY <1>2, <1>3, AllocatedBuffers, BuffersFinite

LEMMA AllocatedNat ==
    ASSUME StreamAssumption
    PROVE  Allocated \in Nat
BY AllocatedBuffers, BuffersFinite

\* A buffer that is allocated is counted.
LEMMA BufferCounts ==
    ASSUME StreamAssumption, NEW b \in Blocks, ram[b]
    PROVE  Allocated >= 1
<1>1. Buffers # {}
    BY DEF Buffers
<1> QED
    BY <1>1, FS_EmptySet, BuffersFinite, AllocatedBuffers

\* The status of a block that is in no transit may change.
LEMMA StatusChanges ==
    ASSUME Typed, Local, Loads, NEW b \in Blocks, status[b] # "IN_TRANSIT", NEW s \in Statuses,
           status' = [status EXCEPT ![b] = s], UNCHANGED <<wblock, jobs, cpc, cblock>>
    PROVE  Loads'
<1>1. \A d \in Blocks : status[d] = "IN_TRANSIT" => status'[d] = "IN_TRANSIT"
    BY DEF Typed, BlocksTyped
<1>2. /\ \A w \in Workers : wblock[w] # NoBlock => wblock[w] \in Blocks
      /\ \A i \in DOMAIN jobs : jobs[i] \in Blocks
      /\ \A c \in Clients : Submits(c) => cblock[c] \in Blocks
    BY DEF Typed, WorkersTyped, EngineTyped, Local, Submits
<1>3. WorkerMarked' /\ JobMarked'
    BY ONLY <1>1, <1>2, Loads, UNCHANGED <<wblock, jobs>> DEF Loads, WorkerMarked, JobMarked
<1>4. SubmitMarked'
    BY ONLY <1>1, <1>2, Loads, UNCHANGED <<cpc, cblock>> DEF Loads, SubmitMarked, Submits
<1>5. OneWorker' /\ OneJob' /\ WorkerOrJob'
    BY Zenon DEF Loads, OneWorker, OneJob, WorkerOrJob
<1>6. OneSubmit' /\ WorkerOrSubmit' /\ SubmitOrJob'
    BY Zenon DEF Loads, OneSubmit, WorkerOrSubmit, SubmitOrJob, Submits
<1> QED
    BY ONLY <1>3, <1>4, <1>5, <1>6 DEF Loads

-----------------------------------------------------------------------------
(* The steps that change blocks, loads or the accounting.                  *)

LEMMA RegisterBlockInv ==
    ASSUME StreamAssumption, IInv, RegisterBlock
    PROVE  IInv'
<1>1. UNCHANGED <<status, ram, pin_count, tick, clock, ram_usage, jobs, wpc, wblock, scan, lru, cpc, cblock>>
    BY DEF RegisterBlock, blockVars, workerVars, clientVars
<1>2. num_blocks' \in 0..MaxBlocks
    BY DEF RegisterBlock, IInv, Typed, EngineTyped, StreamAssumption
<1>3. Typed'
    BY <1>1, <1>2, Zenon DEF IInv, Typed, EngineTyped, BlocksTyped, WorkersTyped, ClientsTyped
<1>4. Local' /\ UsageCoversAllocated'
    BY <1>1, Zenon DEF IInv, Local, UsageCoversAllocated, Allocated
<1>5. Loads'
    BY <1>1, LoadsKept DEF IInv, Submits
<1> QED
    BY ONLY <1>3, <1>4, <1>5 DEF IInv

LEMMA TailShifts ==
    ASSUME NEW S, NEW s \in Seq(S), s # <<>>
    PROVE  /\ Head(s) = s[1] /\ 1 \in DOMAIN s /\ Head(s) \in S /\ Tail(s) \in Seq(S)
           /\ \A i \in DOMAIN Tail(s) : i + 1 \in DOMAIN s /\ i + 1 # 1 /\ Tail(s)[i] = s[i + 1]
           /\ \A i, j \in DOMAIN Tail(s) : i + 1 = j + 1 => i = j
<1>1. Head(s) = s[1] /\ 1 \in DOMAIN s /\ Head(s) \in S /\ Tail(s) \in Seq(S)
    OBVIOUS
<1>2. Len(s) \in Nat \ {0} /\ DOMAIN s = 1..Len(s) /\ DOMAIN Tail(s) = 1..(Len(s) - 1)
    OBVIOUS
<1>3. \A i \in 1..(Len(s) - 1) : Tail(s)[i] = s[i + 1]
    BY <1>2
<1> QED
    BY ONLY <1>1, <1>2, <1>3

LEMMA TakeJobInv ==
    ASSUME StreamAssumption, IInv, NEW w \in Workers, TakeJob(w)
    PROVE  IInv'
<1> DEFINE b == Head(jobs)
<1>0. UNCHANGED <<num_blocks, status, ram, pin_count, tick, clock, ram_usage, scan, lru, cpc, cblock>>
    BY DEF TakeJob, blockVars, clientVars
<1>1. /\ wblock' = [wblock EXCEPT ![w] = b] /\ jobs' = Tail(jobs) /\ wpc[w] = "idle"
      /\ \/ wpc' = [wpc EXCEPT ![w] = "read"]
         \/ wpc' = [wpc EXCEPT ![w] = "lock_global"]
    BY Zenon DEF TakeJob, WorkerGoes
<1>2. jobs \in Seq(Blocks) /\ jobs # <<>>
    BY DEF TakeJob, IInv, Typed, EngineTyped
<1>8. NoBlock \notin Blocks
    BY DEF NoBlock, Blocks
<1>3. /\ b = jobs[1] /\ 1 \in DOMAIN jobs /\ b \in Blocks /\ b # NoBlock
      /\ jobs' \in Seq(Blocks)
      /\ \A i \in DOMAIN jobs' : i + 1 \in DOMAIN jobs /\ i + 1 # 1 /\ jobs'[i] = jobs[i + 1]
      /\ \A i, j \in DOMAIN jobs' : i + 1 = j + 1 => i = j
    BY ONLY <1>1, <1>2, <1>8, TailShifts
<1> HIDE DEF b
<1>4. EngineTyped' /\ BlocksTyped' /\ ClientsTyped' /\ UsageCoversAllocated'
    BY ONLY <1>0, <1>3, IInv, Zenon DEF IInv, Typed, EngineTyped, BlocksTyped, ClientsTyped,
                                       UsageCoversAllocated, Allocated
<1>5. WorkersTyped'
    BY ONLY <1>0, <1>1, <1>3, IInv DEF IInv, Typed, WorkersTyped, WorkerLocations
<1>6. Local'
    BY ONLY <1>0, <1>1, <1>3, IInv, w \in Workers DEF IInv, Typed, WorkersTyped, Local
<1>7. Loads'
  <2>1. \A v \in Workers : wblock'[v] = IF v = w THEN b ELSE wblock[v]
    BY ONLY <1>1, IInv DEF IInv, Typed, WorkersTyped
  <2>2. Loads
    BY DEF IInv
  <2>3. OneWorker'
    BY ONLY <2>1, <2>2, <1>3 DEF Loads, OneWorker, WorkerOrJob
  <2>4. OneJob'
    <3>1. \A i, j \in DOMAIN jobs : jobs[i] = jobs[j] => i = j
      BY ONLY <2>2, Zenon DEF Loads, OneJob
    <3> QED
      BY ONLY <3>1, <1>3 DEF OneJob
  <2>5. WorkerOrJob'
    BY ONLY <2>1, <2>2, <1>3 DEF Loads, OneJob, WorkerOrJob
  <2>6. WorkerOrSubmit'
    BY ONLY <2>1, <2>2, <1>0, <1>3 DEF Loads, WorkerOrSubmit, SubmitOrJob, Submits
  <2>7. SubmitOrJob'
    BY ONLY <2>2, <1>0, <1>3 DEF Loads, SubmitOrJob, Submits
  <2>8. WorkerMarked'
    BY ONLY <2>1, <2>2, <1>0, <1>3 DEF Loads, WorkerMarked, JobMarked
  <2>9. JobMarked'
    BY ONLY <2>2, <1>0, <1>3 DEF Loads, JobMarked
  <2>10. OneSubmit' /\ SubmitMarked'
    BY ONLY <2>2, <1>0, Zenon DEF Loads, OneSubmit, SubmitMarked, Submits
  <2> QED
    BY ONLY <2>3, <2>4, <2>5, <2>6, <2>7, <2>8, <2>9, <2>10 DEF Loads
<1> QED
    BY <1>4, <1>5, <1>6, <1>7 DEF IInv, Typed

\* The steps of a worker inside the eviction loop that follow TestBudget.
LEMMA TestBudgetTyped ==
    ASSUME StreamAssumption, Typed, Local, NEW w \in Workers, wpc[w] # "idle", wblock' = wblock,
           NEW best \in Lrus, lru' = [lru EXCEPT ![w] = best], best = NoLru,
           \/ wpc' = [wpc EXCEPT ![w] = "scan"] /\ scan' = [scan EXCEPT ![w] = 1]
           \/ wpc' = [wpc EXCEPT ![w] = "alloc"] /\ scan' = scan,
           UNCHANGED <<cpc, cblock>>
    PROVE  WorkersTyped' /\ Local'
<1>1. 1 \in Blocks
  <2>1. wblock[w] \in Blocks
    BY DEF Typed, WorkersTyped, Local
  <2> QED
    BY <2>1 DEF Blocks, StreamAssumption
<1>2. WorkersTyped'
    BY DEF Typed, WorkersTyped, WorkerLocations
<1>3. Local'
  <2>1. \A v \in Workers : wpc'[v] = "idle" <=> wblock'[v] = NoBlock
    BY DEF Typed, WorkersTyped, Local
  <2>2. \A v \in Workers : wpc'[v] = "scan" => scan'[v] \in Blocks
    BY <1>1 DEF Typed, WorkersTyped, Local
  <2>3. \A v \in Workers : lru'[v] = NoLru \/ lru'[v].block \in Blocks
    BY DEF Typed, WorkersTyped, Local
  <2>4. \A v \in Workers : wpc'[v] = "evict" => lru'[v] # NoLru
    BY DEF Typed, WorkersTyped, Local
  <2> QED
    BY <2>1, <2>2, <2>3, <2>4, Zenon DEF Local
<1> QED
    BY <1>2, <1>3

LEMMA EvictLruInv ==
    ASSUME StreamAssumption, IInv, NEW w \in Workers, EvictLru(w)
    PROVE  IInv'
<1> DEFINE b == lru[w].block
<1>0. UNCHANGED <<num_blocks, pin_count, tick, clock, jobs, wblock, cpc, cblock>>
    BY DEF EvictLru, clientVars
<1>1. /\ wpc[w] = "evict" /\ lru' = [lru EXCEPT ![w] = NoLru]
      /\ \/ /\ status[b] = "RESIDENT" /\ status' = [status EXCEPT ![b] = "EVICTED"]
            /\ ram' = [ram EXCEPT ![b] = FALSE]
            /\ ram_usage' = IF ram[b] THEN ram_usage - 1 ELSE ram_usage
         \/ UNCHANGED <<status, ram, ram_usage>>
    BY DEF EvictLru, Evictable
<1>2. \/ wpc' = [wpc EXCEPT ![w] = "scan"] /\ scan' = [scan EXCEPT ![w] = 1]
      \/ wpc' = [wpc EXCEPT ![w] = "alloc"] /\ scan' = scan
    BY DEF EvictLru, TestBudget, WorkerGoes
<1>3. b \in Blocks
    BY <1>1 DEF IInv, Local
<1>4. Typed /\ Local /\ Loads /\ UsageCoversAllocated
    BY DEF IInv
<1> HIDE DEF b
<1>5. NoLru \in Lrus
    BY DEF NoLru, Lrus, StreamAssumption
<1>6. WorkersTyped' /\ Local'
    BY <1>0, <1>1, <1>2, <1>4, <1>5, TestBudgetTyped, Zenon
<1>7. BlocksTyped'
    BY ONLY <1>0, <1>1, <1>4, Zenon DEF Typed, BlocksTyped, Statuses
<1>8. Loads'
  <2>1. CASE UNCHANGED <<status, ram, ram_usage>>
    BY <2>1, <1>0, <1>4, LoadsKept DEF Submits
  <2>2. CASE status[b] = "RESIDENT" /\ status' = [status EXCEPT ![b] = "EVICTED"]
    BY <2>2, <1>0, <1>3, <1>4, StatusChanges, Zenon DEF Statuses
  <2> QED
    BY <1>1, <2>1, <2>2
<1>9. ram_usage' \in Nat /\ UsageCoversAllocated'
  <2>1. CASE UNCHANGED <<status, ram, ram_usage>>
    BY ONLY <2>1, <1>4, Zenon DEF Typed, EngineTyped, UsageCoversAllocated, Allocated
  <2>2. CASE /\ ram' = [ram EXCEPT ![b] = FALSE]
             /\ ram_usage' = IF ram[b] THEN ram_usage - 1 ELSE ram_usage
    <3>1. Allocated' = IF ram[b] THEN Allocated - 1 ELSE Allocated
      BY <2>2, <1>3, <1>4, BufferFreed, Zenon
    <3>2. ram[b] => Allocated >= 1
      BY <1>3, BufferCounts
    <3>3. ram_usage \in Nat /\ Allocated \in Nat /\ ram_usage >= Allocated
      BY <1>4, AllocatedNat DEF Typed, EngineTyped, UsageCoversAllocated
    <3>4. ram_usage' \in Nat /\ ram_usage' >= Allocated'
      BY ONLY <3>1, <3>2, <3>3, <2>2
    <3> QED
      BY ONLY <3>4, Zenon DEF UsageCoversAllocated
  <2> QED
    BY <1>1, <2>1, <2>2
<1>10. EngineTyped' /\ ClientsTyped'
    BY ONLY <1>0, <1>4, <1>9, Zenon DEF Typed, EngineTyped, ClientsTyped
<1> QED
    BY ONLY <1>6, <1>7, <1>8, <1>9, <1>10 DEF IInv, Typed

LEMMA AllocateInv ==
    ASSUME StreamAssumption, IInv, NEW w \in Workers, Allocate(w)
    PROVE  IInv'
<1> DEFINE b == wblock[w]
<1>0. UNCHANGED <<num_blocks, status, pin_count, tick, clock, jobs, wblock, scan, lru, cpc, cblock>>
    BY DEF Allocate, clientVars
<1>1. /\ wpc[w] = "alloc" /\ wpc' = [wpc EXCEPT ![w] = "read"]
      /\ \/ ram' = [ram EXCEPT ![b] = TRUE] /\ ram_usage' = ram_usage + 1
         \/ ram' = ram /\ ram_usage' = ram_usage
    BY DEF Allocate, WorkerGoes
<1>2. Typed /\ Local /\ Loads /\ UsageCoversAllocated
    BY DEF IInv
<1>3. b \in Blocks
    BY ONLY <1>1, <1>2, w \in Workers DEF Typed, WorkersTyped, Local
<1> HIDE DEF b
<1>4. WorkersTyped'
    BY ONLY <1>0, <1>1, <1>2 DEF Typed, WorkersTyped, WorkerLocations
<1>5. Local'
    BY ONLY <1>0, <1>1, <1>2, w \in Workers DEF Typed, WorkersTyped, Local
<1>6. BlocksTyped'
    BY ONLY <1>0, <1>1, <1>2, Zenon DEF Typed, BlocksTyped
<1>7. Loads'
    BY <1>0, <1>2, LoadsKept DEF Submits
<1>8. ram_usage' \in Nat /\ UsageCoversAllocated'
  <2>1. CASE ram' = ram /\ ram_usage' = ram_usage
    BY ONLY <2>1, <1>2, Zenon DEF Typed, EngineTyped, UsageCoversAllocated, Allocated
  <2>2. CASE ram' = [ram EXCEPT ![b] = TRUE] /\ ram_usage' = ram_usage + 1
    <3>1. Allocated' \in Nat /\ Allocated' <= Allocated + 1
      BY <2>2, <1>2, <1>3, BufferAllocated, Zenon
    <3>2. ram_usage \in Nat /\ Allocated \in Nat /\ ram_usage >= Allocated
      BY <1>2, AllocatedNat DEF Typed, EngineTyped, UsageCoversAllocated
    <3>3. ram_usage' \in Nat /\ ram_usage' >= Allocated'
      BY ONLY <3>1, <3>2, <2>2
    <3> QED
      BY ONLY <3>3, Zenon DEF UsageCoversAllocated
  <2> QED
    BY <1>1, <2>1, <2>2
<1>9. EngineTyped' /\ ClientsTyped'
    BY ONLY <1>0, <1>2, <1>8, Zenon DEF Typed, EngineTyped, ClientsTyped
<1> QED
    BY ONLY <1>4, <1>5, <1>6, <1>7, <1>8, <1>9 DEF IInv, Typed

LEMMA PublishInv ==
    ASSUME StreamAssumption, IInv, NEW w \in Workers, Publish(w)
    PROVE  IInv'
<1> DEFINE b == wblock[w]
<1>0. UNCHANGED <<num_blocks, ram, pin_count, tick, clock, ram_usage, jobs, scan, lru, cblock>>
    BY Zenon DEF Publish
<1>1. /\ wpc[w] = "publish" /\ wpc' = [wpc EXCEPT ![w] = "idle"]
      /\ wblock' = [wblock EXCEPT ![w] = NoBlock]
      /\ status' = [status EXCEPT ![b] = "RESIDENT"]
    BY DEF Publish, WorkerGoes
<1>2. cpc' = [c \in Clients |-> IF cpc[c] = "cond_wait" /\ cblock[c] = b THEN "await" ELSE cpc[c]]
    BY DEF Publish
<1>3. Typed /\ Local /\ Loads /\ UsageCoversAllocated
    BY DEF IInv
<1>4. b \in Blocks /\ b # NoBlock
    BY ONLY <1>1, <1>3, w \in Workers DEF Typed, WorkersTyped, Local
<1>5. \A v \in Workers : wblock'[v] = IF v = w THEN NoBlock ELSE wblock[v]
    BY ONLY <1>1, <1>3 DEF Typed, WorkersTyped
<1>6. \A d \in Blocks : status'[d] = IF d = b THEN "RESIDENT" ELSE status[d]
    BY ONLY <1>1, <1>3 DEF Typed, BlocksTyped
<1>7. \A c \in Clients : (Submits(c)' <=> Submits(c)) /\ (cpc'[c] # "ready" => cpc[c] # "ready")
    BY ONLY <1>2 DEF Submits
<1>8. b = wblock[w]
    OBVIOUS
<1> HIDE DEF b
<1>9. WorkersTyped'
    BY ONLY <1>0, <1>1, <1>3 DEF Typed, WorkersTyped, WorkerLocations
<1>10. BlocksTyped'
    BY ONLY <1>0, <1>1, <1>3, Zenon DEF Typed, BlocksTyped, Statuses
<1>11. ClientsTyped'
    BY ONLY <1>0, <1>2, <1>3 DEF Typed, ClientsTyped, ClientLocations
<1>12. Local'
    BY ONLY <1>0, <1>1, <1>3, <1>5, <1>7, w \in Workers, Zenon DEF Typed, WorkersTyped, Local
<1>13. Loads'
  <2>0. Loads
    BY ONLY <1>3
  <2>1. \A v \in Workers : wblock[v] # NoBlock => wblock[v] \in Blocks
    BY ONLY <1>3 DEF Typed, WorkersTyped
  <2>2. \A i \in DOMAIN jobs : jobs[i] \in Blocks
    BY ONLY <1>3 DEF Typed, EngineTyped
  <2>3. \A c \in Clients : Submits(c) => cblock[c] \in Blocks
    BY ONLY <1>3 DEF Local, Submits
  <2>4. NoBlock \notin Blocks
    BY DEF NoBlock, Blocks
  <2>5. WorkerMarked'
    <3>1. \A v \in Workers : v # w /\ wblock[v] # NoBlock => wblock[v] # b
      BY ONLY <2>0, <1>4, <1>8, w \in Workers DEF Loads, OneWorker
    <3> QED
      BY ONLY <3>1, <2>0, <2>1, <1>5, <1>6 DEF Loads, WorkerMarked
  <2>6. JobMarked'
    <3>1. \A i \in DOMAIN jobs : jobs[i] # b
      BY ONLY <2>0, <1>8, w \in Workers DEF Loads, WorkerOrJob
    <3> QED
      BY ONLY <3>1, <2>0, <2>2, <1>0, <1>6 DEF Loads, JobMarked
  <2>7. SubmitMarked'
    <3>1. \A c \in Clients : Submits(c) => cblock[c] # b
      BY ONLY <2>0, <1>8, w \in Workers DEF Loads, WorkerOrSubmit
    <3> QED
      BY ONLY <3>1, <2>0, <2>3, <1>0, <1>6, <1>7 DEF Loads, SubmitMarked
  <2>8. OneWorker'
    BY ONLY <2>0, <1>5 DEF Loads, OneWorker
  <2>9. WorkerOrJob'
    BY ONLY <2>0, <2>2, <2>4, <1>0, <1>5 DEF Loads, WorkerOrJob
  <2>10. WorkerOrSubmit'
    BY ONLY <2>0, <2>3, <2>4, <1>0, <1>5, <1>7 DEF Loads, WorkerOrSubmit
  <2>11. OneJob' /\ OneSubmit' /\ SubmitOrJob'
    BY ONLY <2>0, <1>0, <1>7 DEF Loads, OneJob, OneSubmit, SubmitOrJob
  <2> QED
    BY ONLY <2>5, <2>6, <2>7, <2>8, <2>9, <2>10, <2>11 DEF Loads
<1>14. EngineTyped' /\ UsageCoversAllocated'
    BY ONLY <1>0, <1>3, Zenon DEF Typed, EngineTyped, UsageCoversAllocated, Allocated
<1> QED
    BY ONLY <1>9, <1>10, <1>11, <1>12, <1>13, <1>14 DEF IInv, Typed

\* A block that is EVICTED is in none of the three places of a load.
LEMMA PrefetchInv ==
    ASSUME StreamAssumption, IInv, NEW c \in Clients, NEW b \in Blocks, Prefetch(c, b)
    PROVE  IInv'
<1>0. UNCHANGED <<num_blocks, ram, pin_count, tick, clock, ram_usage, jobs, wpc, wblock, scan, lru>>
    BY DEF Prefetch, workerVars
<1>1. /\ status[b] = "EVICTED" /\ status' = [status EXCEPT ![b] = "IN_TRANSIT"]
      /\ cpc' = [cpc EXCEPT ![c] = "submit"] /\ cblock' = [cblock EXCEPT ![c] = b]
    BY DEF Prefetch, ClientGoes
<1>2. Typed /\ Local /\ Loads /\ UsageCoversAllocated
    BY DEF IInv
<1>3. \A d \in Clients : /\ Submits(d)' <=> d = c \/ Submits(d)
                         /\ cblock'[d] = IF d = c THEN b ELSE cblock[d]
    BY ONLY <1>1, <1>2 DEF Typed, ClientsTyped, Submits
<1>4. \A d \in Blocks : status'[d] = IF d = b THEN "IN_TRANSIT" ELSE status[d]
    BY ONLY <1>1, <1>2 DEF Typed, BlocksTyped
<1>5. BlocksTyped'
    BY ONLY <1>0, <1>1, <1>2 DEF Typed, BlocksTyped, Statuses
<1>6. ClientsTyped'
    BY ONLY <1>1, <1>2, b \in Blocks DEF Typed, ClientsTyped, ClientLocations
<1>7. Local'
    BY ONLY <1>0, <1>1, <1>2, b \in Blocks DEF Typed, ClientsTyped, Local
<1>8. Loads'
  <2>0. Loads
    BY ONLY <1>2
  <2>1. \A v \in Workers : wblock[v] # NoBlock => wblock[v] \in Blocks
    BY ONLY <1>2 DEF Typed, WorkersTyped
  <2>2. \A i \in DOMAIN jobs : jobs[i] \in Blocks
    BY ONLY <1>2 DEF Typed, EngineTyped
  <2>3. \A d \in Clients : Submits(d) => cblock[d] \in Blocks
    BY ONLY <1>2 DEF Local, Submits
  <2>4. b # NoBlock
    BY DEF Blocks, NoBlock
  <2>5. \A v \in Workers : wblock[v] # b
    BY ONLY <2>0, <2>4, <1>1 DEF Loads, WorkerMarked
  <2>6. \A i \in DOMAIN jobs : jobs[i] # b
    BY ONLY <2>0, <1>1 DEF Loads, JobMarked
  <2>7. \A d \in Clients : Submits(d) => cblock[d] # b
    BY ONLY <2>0, <1>1 DEF Loads, SubmitMarked
  <2>8. OneSubmit'
    BY ONLY <2>0, <2>7, <1>3 DEF Loads, OneSubmit
  <2>9. WorkerOrSubmit'
    BY ONLY <2>0, <2>5, <1>0, <1>3 DEF Loads, WorkerOrSubmit
  <2>10. SubmitOrJob'
    BY ONLY <2>0, <2>6, <1>0, <1>3 DEF Loads, SubmitOrJob
  <2>11. WorkerMarked'
    BY ONLY <2>0, <2>1, <1>0, <1>4 DEF Loads, WorkerMarked
  <2>12. JobMarked'
    BY ONLY <2>0, <2>2, <1>0, <1>4 DEF Loads, JobMarked
  <2>13. SubmitMarked'
    BY ONLY <2>0, <2>3, <1>3, <1>4, b \in Blocks DEF Loads, SubmitMarked
  <2>14. OneWorker' /\ OneJob' /\ WorkerOrJob'
    BY ONLY <2>0, <1>0, Zenon DEF Loads, OneWorker, OneJob, WorkerOrJob
  <2> QED
    BY ONLY <2>8, <2>9, <2>10, <2>11, <2>12, <2>13, <2>14 DEF Loads
<1>9. EngineTyped' /\ WorkersTyped' /\ UsageCoversAllocated'
    BY ONLY <1>0, <1>2, Zenon DEF Typed, EngineTyped, WorkersTyped, UsageCoversAllocated, Allocated
<1> QED
    BY ONLY <1>5, <1>6, <1>7, <1>8, <1>9 DEF IInv, Typed

LEMMA SubmitJobInv ==
    ASSUME StreamAssumption, IInv, NEW c \in Clients, SubmitJob(c)
    PROVE  IInv'
<1> DEFINE b == cblock[c]
<1>0. Quiet /\ cblock' = cblock
    BY DEF SubmitJob, Quiet, blockVars, workerVars
<1>1. /\ cpc[c] = "submit" /\ cpc' = [cpc EXCEPT ![c] = "unlock"]
      /\ jobs' = jobs \/ jobs' = Append(jobs, b)
    BY DEF SubmitJob, ClientGoes
<1>2. Typed /\ Local /\ Loads /\ UsageCoversAllocated
    BY DEF IInv
<1>3. Submits(c) /\ b \in Blocks /\ b = cblock[c]
    BY ONLY <1>1, <1>2, c \in Clients DEF Local, Submits
<1> HIDE DEF b
<1>4. \A d \in Clients : Submits(d)' <=> Submits(d) /\ d # c
    BY ONLY <1>1, <1>2 DEF Typed, ClientsTyped, Submits
<1>5. jobs' \in Seq(Blocks) /\ \A i \in DOMAIN jobs' :
         (i \in DOMAIN jobs /\ jobs'[i] = jobs[i]) \/ (i = Len(jobs) + 1 /\ jobs'[i] = b)
  <2>1. jobs \in Seq(Blocks)
    BY ONLY <1>2 DEF Typed, EngineTyped
  <2> QED
    BY ONLY <2>1, <1>1, <1>3
<1>6. ClientsTyped'
    BY ONLY <1>0, <1>1, <1>2 DEF Typed, ClientsTyped, ClientLocations
<1>7. Local'
    BY ONLY <1>0, <1>1, <1>2, <1>3 DEF Typed, ClientsTyped, Quiet, Local
<1>8. Loads'
  <2>0. Loads
    BY ONLY <1>2
  <2>1. OneJob'
    <3>1. \A i, j \in DOMAIN jobs : jobs[i] = jobs[j] => i = j
      BY ONLY <2>0, Zenon DEF Loads, OneJob
    <3>2. \A i \in DOMAIN jobs : jobs[i] # b
      BY ONLY <2>0, <1>3, c \in Clients DEF Loads, SubmitOrJob
    <3> QED
      BY ONLY <3>1, <3>2, <1>5 DEF OneJob
  <2>2. WorkerOrJob'
    <3>1. \A v \in Workers : wblock[v] # b
      BY ONLY <2>0, <1>3, c \in Clients DEF Loads, WorkerOrSubmit
    <3> QED
      BY ONLY <3>1, <2>0, <1>0, <1>5 DEF Loads, WorkerOrJob, Quiet
  <2>3. SubmitOrJob'
    <3>1. \A d \in Clients : Submits(d) /\ d # c => cblock[d] # b
      BY ONLY <2>0, <1>3, c \in Clients DEF Loads, OneSubmit
    <3> QED
      BY ONLY <3>1, <2>0, <1>0, <1>4, <1>5, Zenon DEF Loads, SubmitOrJob
  <2>4. JobMarked'
    <3>1. status[b] = "IN_TRANSIT"
      BY ONLY <2>0, <1>3, c \in Clients DEF Loads, SubmitMarked
    <3> QED
      BY ONLY <3>1, <2>0, <1>0, <1>5 DEF Loads, JobMarked, Quiet
  <2>5. OneSubmit' /\ WorkerOrSubmit' /\ SubmitMarked'
    BY ONLY <2>0, <1>0, <1>4 DEF Loads, OneSubmit, WorkerOrSubmit, SubmitMarked, Quiet
  <2>6. OneWorker' /\ WorkerMarked'
    BY ONLY <2>0, <1>0, Zenon DEF Loads, OneWorker, WorkerMarked, Quiet
  <2> QED
    BY ONLY <2>1, <2>2, <2>3, <2>4, <2>5, <2>6 DEF Loads
<1> QED
    BY <1>0, <1>2, <1>5, <1>6, <1>7, <1>8, QuietKeeps, Zenon DEF IInv, Typed, EngineTyped

LEMMA RecordAccessInv ==
    ASSUME StreamAssumption, IInv, NEW c \in Clients, RecordAccess(c)
    PROVE  IInv'
<1>0. UNCHANGED <<num_blocks, status, ram, pin_count, ram_usage, jobs, wpc, wblock, scan, lru, cblock>>
    BY DEF RecordAccess, workerVars
<1>1. /\ cpc[c] = "record_access" /\ cpc' = [cpc EXCEPT ![c] = "wrap"]
      /\ clock' = clock + 1 /\ tick' = [tick EXCEPT ![cblock[c]] = clock']
    BY DEF RecordAccess, ClientGoes
<1>2. Typed /\ Local /\ Loads /\ UsageCoversAllocated
    BY DEF IInv
<1>3. BlocksTyped'
  <2>1. clock' \in Nat
    BY ONLY <1>1, <1>2 DEF Typed, BlocksTyped
  <2>2. tick' \in [Blocks -> Nat]
    BY ONLY <2>1, <1>1, <1>2, Zenon DEF Typed, BlocksTyped
  <2> QED
    BY ONLY <2>1, <2>2, <1>0, <1>2, Zenon DEF Typed, BlocksTyped
<1>4. ClientsTyped'
    BY ONLY <1>0, <1>1, <1>2 DEF Typed, ClientsTyped, ClientLocations
<1>5. Local'
    BY ONLY <1>0, <1>1, <1>2 DEF Typed, ClientsTyped, Local
<1>6. \A d \in Clients : Submits(d)' <=> Submits(d)
    BY ONLY <1>1, <1>2 DEF Typed, ClientsTyped, Submits
<1>7. Loads'
    BY <1>0, <1>2, <1>6, LoadsKept
<1>8. EngineTyped' /\ WorkersTyped' /\ UsageCoversAllocated'
    BY ONLY <1>0, <1>2, Zenon DEF Typed, EngineTyped, WorkersTyped, UsageCoversAllocated, Allocated
<1> QED
    BY ONLY <1>2, <1>3, <1>4, <1>5, <1>7, <1>8 DEF IInv, Typed

\* What the steps that change one block's status, pins or buffer leave alone.
LEMMA BlockStep ==
    ASSUME StreamAssumption, IInv, BlocksTyped', UsageCoversAllocated', NEW b \in Blocks,
           \/ status' = status
           \/ status[b] # "IN_TRANSIT" /\ \E s \in Statuses : status' = [status EXCEPT ![b] = s],
           UNCHANGED <<num_blocks, ram_usage, jobs, wpc, wblock, scan, lru, cpc, cblock>>
    PROVE  IInv'
<1>1. Typed /\ Local /\ Loads
    BY DEF IInv
<1>2. EngineTyped' /\ WorkersTyped' /\ ClientsTyped' /\ Local'
    BY <1>1, Zenon DEF Typed, EngineTyped, WorkersTyped, ClientsTyped, Local
<1>3. Loads'
  <2>1. CASE status' = status
    BY <2>1, <1>1, LoadsKept DEF Submits
  <2>2. CASE status[b] # "IN_TRANSIT" /\ \E s \in Statuses : status' = [status EXCEPT ![b] = s]
    BY <2>2, <1>1, StatusChanges, Zenon
  <2> QED
    BY <2>1, <2>2
<1> QED
    BY <1>2, <1>3 DEF IInv, Typed

LEMMA PinInv ==
    ASSUME StreamAssumption, IInv, NEW c \in Clients, NEW b \in Blocks, Pin(c, b) \/ Unpin(c, b)
    PROVE  IInv'
<1>0. UNCHANGED <<num_blocks, ram, tick, clock, ram_usage, jobs, wpc, wblock, scan, lru, cpc, cblock>>
    BY DEF Pin, Unpin, workerVars, clientVars
<1>1. \/ status' = status
      \/ status[b] # "IN_TRANSIT" /\ \E s \in Statuses : status' = [status EXCEPT ![b] = s]
    BY DEF Pin, Unpin, Statuses
<1>2. \/ pin_count' = [pin_count EXCEPT ![b] = @ + 1]
      \/ pin_count[b] > 0 /\ pin_count' = [pin_count EXCEPT ![b] = @ - 1]
    BY DEF Pin, Unpin
<1>3. BlocksTyped'
    BY ONLY <1>0, <1>1, <1>2, IInv DEF IInv, Typed, BlocksTyped
<1>4. UsageCoversAllocated'
    BY ONLY <1>0, IInv, Zenon DEF IInv, UsageCoversAllocated, Allocated
<1> QED
    BY <1>0, <1>1, <1>3, <1>4, BlockStep

LEMMA EvictInv ==
    ASSUME StreamAssumption, IInv, NEW c \in Clients, NEW b \in Blocks, Evict(c, b)
    PROVE  IInv'
<1>0. UNCHANGED <<num_blocks, pin_count, tick, clock, ram_usage, jobs, wpc, wblock, scan, lru, cpc, cblock>>
    BY DEF Evict, workerVars, clientVars
<1>1. /\ status[b] = "RESIDENT" /\ status' = [status EXCEPT ![b] = "EVICTED"]
      /\ ram' = [ram EXCEPT ![b] = FALSE]
    BY DEF Evict, Evictable
<1>2. BlocksTyped'
    BY ONLY <1>0, <1>1, IInv DEF IInv, Typed, BlocksTyped, Statuses
<1>3. UsageCoversAllocated'
  <2>1. Allocated' = IF ram[b] THEN Allocated - 1 ELSE Allocated
    BY <1>1, BufferFreed, Zenon DEF IInv
  <2>2. ram_usage \in Nat /\ Allocated \in Nat /\ ram_usage >= Allocated
    BY AllocatedNat DEF IInv, Typed, EngineTyped, UsageCoversAllocated
  <2>3. ram_usage' >= Allocated'
    BY ONLY <1>0, <2>1, <2>2
  <2> QED
    BY ONLY <2>3, Zenon DEF UsageCoversAllocated
<1> QED
    BY <1>0, <1>1, <1>2, <1>3, BlockStep, Zenon DEF Statuses

LEMMA Inductive ==
    ASSUME StreamAssumption
    PROVE  IInv /\ [Next]_vars => IInv'
<1> SUFFICES ASSUME IInv, [Next]_vars PROVE IInv'
    OBVIOUS
<1>1. CASE RegisterBlock
    BY <1>1, RegisterBlockInv
<1>2. ASSUME NEW w \in Workers, Worker(w) PROVE IInv'
    BY <1>2, TakeJobInv, LockGlobalInv, ScanBlockInv, EvictLruInv, AllocateInv, ReadInv, PublishInv
       DEF Worker
<1>3. ASSUME NEW c \in Clients, Client(c) \/ SpuriousWakeup(c) PROVE IInv'
    BY <1>3, SubmitJobInv, RecordAccessInv, CallStepsInv DEF Client
<1>4. ASSUME NEW c \in Clients, NEW b \in Blocks, Call(c, b) PROVE IInv'
    BY <1>4, PrefetchInv, AwaitCallInv, PinInv, EvictInv DEF Call
<1>5. CASE UNCHANGED vars
  <2>1. Plain /\ UNCHANGED <<wpc, scan, lru>>
    BY <1>5 DEF vars, blockVars, workerVars, clientVars, Plain
  <2>2. WorkersTyped' /\ Local'
    BY <2>1, Zenon DEF IInv, Typed, WorkersTyped, Local, Plain
  <2> QED
    BY <2>1, <2>2, PlainKeeps DEF IInv, Typed
<1> QED
    BY <1>1, <1>2, <1>3, <1>4, <1>5 DEF Next

-----------------------------------------------------------------------------
(* The theorems.                                                           *)

\* A set that never holds two different elements has at most one.
LEMMA AtMostOne ==
    ASSUME NEW S, \A x, y \in S : x = y
    PROVE  Cardinality(S) = IF S = {} THEN 0 ELSE 1
<1>1. CASE S = {}
    BY <1>1, FS_EmptySet
<1>2. CASE S # {}
  <2>1. PICK x \in S : TRUE
    BY <1>2
  <2>2. S = {x}
    BY <2>1
  <2> QED
    BY <1>2, <2>2, FS_Singleton
<1> QED
    BY <1>1, <1>2

LEMMA LoadsExclude ==
    ASSUME IInv
    PROVE  OneLoadPerBlock
<1> SUFFICES ASSUME NEW b \in Blocks
             PROVE  LoadsInFlight(b) <= 1 /\ (LoadsInFlight(b) = 1 => status[b] = "IN_TRANSIT")
    BY DEF OneLoadPerBlock
<1> DEFINE W == {w \in Workers : wblock[w] = b}
           J == {i \in DOMAIN jobs : jobs[i] = b}
           C == {c \in Clients : cpc[c] = "submit" /\ cblock[c] = b}
<1>1. Loads /\ b # NoBlock
    BY DEF IInv, Blocks, NoBlock
<1>2. /\ \A x, y \in W : x = y
      /\ \A x, y \in J : x = y
      /\ \A x, y \in C : x = y
  <2>1. \A x, y \in W : x = y
    BY ONLY <1>1 DEF Loads, OneWorker
  <2>2. \A x, y \in J : x = y
    BY ONLY <1>1 DEF Loads, OneJob
  <2>3. \A x, y \in C : x = y
    BY ONLY <1>1 DEF Loads, OneSubmit, Submits
  <2> QED
    BY ONLY <2>1, <2>2, <2>3
<1>3. /\ W # {} => J = {} /\ C = {}
      /\ J # {} => C = {}
    BY <1>1 DEF Loads, WorkerOrJob, WorkerOrSubmit, SubmitOrJob, Submits
<1>4. W # {} \/ J # {} \/ C # {} => status[b] = "IN_TRANSIT"
    BY <1>1 DEF Loads, WorkerMarked, JobMarked, SubmitMarked, Submits
<1>5. LoadsInFlight(b) = Cardinality(W) + Cardinality(J) + Cardinality(C)
    BY Zenon DEF LoadsInFlight
<1> HIDE DEF W, J, C
<1>6. /\ Cardinality(W) = IF W = {} THEN 0 ELSE 1
      /\ Cardinality(J) = IF J = {} THEN 0 ELSE 1
      /\ Cardinality(C) = IF C = {} THEN 0 ELSE 1
    BY <1>2, AtMostOne
<1> QED
    BY ONLY <1>3, <1>4, <1>5, <1>6

\* However the threads interleave, whatever fails and however many blocks,
\* workers and clients there are, a block is being loaded by at most one job,
\* and is IN_TRANSIT while it is (hbi_stream_prefetch, io_worker_read).
THEOREM LoadsAreUnique ==
    ASSUME StreamAssumption
    PROVE  Spec => []OneLoadPerBlock
<1>1. Init => IInv
    BY InitInv
<1>2. IInv /\ [Next]_vars => IInv'
    BY Inductive
<1>3. IInv => OneLoadPerBlock
    BY LoadsExclude
<1> QED
    BY <1>1, <1>2, <1>3, PTL DEF Spec

\* ram_usage never falls below the buffers allocated: the subtraction of
\* hbi_stream_evict_lru never wraps, although hbi_stream_evict frees
\* buffers without subtracting and a reload allocates again.
THEOREM UsageNeverWraps ==
    ASSUME StreamAssumption
    PROVE  Spec => []UsageCoversAllocated
<1>1. Init => IInv
    BY InitInv
<1>2. IInv /\ [Next]_vars => IInv'
    BY Inductive
<1>3. IInv => UsageCoversAllocated
    BY DEF IInv
<1> QED
    BY <1>1, <1>2, <1>3, PTL DEF Spec

LEMMA StepKeepsPinned ==
    ASSUME StreamAssumption, IInv, [Next]_vars
    PROVE  KeepsPinned
<1> SUFFICES ASSUME NEW d \in Blocks, pin_count[d] > 0, ram[d] PROVE ram'[d]
    BY DEF KeepsPinned
<1>1. BlocksTyped
    BY DEF IInv, Typed
<1>2. \/ ram' = ram
      \/ \E b \in Blocks : pin_count[b] = 0 /\ ram' = [ram EXCEPT ![b] = FALSE]
      \/ \E b \in Blocks : ram' = [ram EXCEPT ![b] = TRUE]
  <2>1. CASE RegisterBlock \/ UNCHANGED vars
    BY <2>1 DEF RegisterBlock, vars, blockVars
  <2>2. ASSUME NEW w \in Workers, EvictLru(w)
        PROVE  ram' = ram \/ \E b \in Blocks : pin_count[b] = 0 /\ ram' = [ram EXCEPT ![b] = FALSE]
    <3>1. lru[w].block \in Blocks
      BY <2>2, Zenon DEF EvictLru, IInv, Local
    <3> QED
      BY <2>2, <3>1 DEF EvictLru, Evictable
  <2>3. ASSUME NEW w \in Workers, Allocate(w)
        PROVE  ram' = ram \/ \E b \in Blocks : ram' = [ram EXCEPT ![b] = TRUE]
    <3>1. wblock[w] \in Blocks
      BY <2>3, Zenon DEF Allocate, IInv, Typed, WorkersTyped, Local
    <3> QED
      BY <2>3, <3>1, Zenon DEF Allocate
  <2>4. ASSUME NEW w \in Workers,
               TakeJob(w) \/ LockGlobal(w) \/ ScanBlock(w) \/ Read(w) \/ Publish(w)
        PROVE  ram' = ram
    BY <2>4, Zenon DEF TakeJob, LockGlobal, ScanBlock, Read, Publish, blockVars
  <2>5. ASSUME NEW c \in Clients, Client(c) \/ SpuriousWakeup(c)
        PROVE  ram' = ram
    BY <2>5 DEF Client, SubmitJob, PrefetchReturns, Await, RecordAccess, Wrap, CountHit,
                SpuriousWakeup, blockVars
  <2>6. ASSUME NEW c \in Clients, NEW b \in Blocks, Prefetch(c, b) \/ AwaitCall(c, b) \/ Pin(c, b) \/ Unpin(c, b)
        PROVE  ram' = ram
    BY <2>6, Zenon DEF Prefetch, AwaitCall, Pin, Unpin, blockVars
  <2>7. ASSUME NEW c \in Clients, NEW b \in Blocks, Evict(c, b)
        PROVE  pin_count[b] = 0 /\ ram' = [ram EXCEPT ![b] = FALSE]
    BY <2>7, Zenon DEF Evict, Evictable
  <2> QED
    BY <2>1, <2>2, <2>3, <2>4, <2>5, <2>6, <2>7 DEF Next, Worker, Call
<1> QED
    BY ONLY <1>1, <1>2, d \in Blocks, pin_count[d] > 0, ram[d] DEF BlocksTyped

\* No step frees the buffer of a pinned block, not even an eviction that chose
\* the block before it was pinned: evict_lru and hbi_stream_evict test the
\* pins again under the block's mutex.
THEOREM PinsProtect ==
    ASSUME StreamAssumption
    PROVE  Spec => PinnedKeepsBuffer
<1>1. Init => IInv
    BY InitInv
<1>2. IInv /\ [Next]_vars => IInv'
    BY Inductive
<1>3. IInv /\ [Next]_vars => [KeepsPinned]_vars
    BY StepKeepsPinned
<1> QED
    BY <1>1, <1>2, <1>3, PTL DEF Spec, PinnedKeepsBuffer

\* The promises of the loads together, for any number of workers, clients and
\* blocks and with failing allocations and reads: one load per block, a usage
\* that covers what is allocated, and no pinned block freed.
THEOREM LoadsStaySafe ==
    ASSUME StreamAssumption
    PROVE  Spec => LoadsSafe
BY LoadsAreUnique, UsageNeverWraps, PinsProtect, PTL DEF LoadsSafe
=============================================================================
