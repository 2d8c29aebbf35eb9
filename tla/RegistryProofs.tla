--------------------------- MODULE RegistryProofs ---------------------------
(***************************************************************************)
(* Proofs about Registry, for any threads, names and size of the table:    *)
(* the racing first calls settle on one mutex, it excludes, and under it   *)
(* the table implements BoundedRegistry.                                   *)
(*                                                                         *)
(* The invariant has three layers.  Lazy accounts for every mutex ever     *)
(* created: published, destroyed, or about to be published by the thread   *)
(* that made it.  Excludes says who holds the published one.  Table says   *)
(* what the holder may rely on between its scan and its new count.         *)
(***************************************************************************)
EXTENDS Registry, TLAPS

Kinds == {"none", "register", "find", "clear"}

Typed ==
    /\ protocol \in {"exchange", "flag"} /\ ready \in BOOLEAN
    /\ created \in Nat /\ mutex \in 0..created /\ destroyed \subseteq 1..created
    /\ holder \in Seq(Threads \cup {NoThread}) /\ Len(holder) = created
    /\ entries \in [1..MaxEntries -> Names \cup {NoName}] /\ count \in 0..MaxEntries
    /\ pc \in [Threads -> Locations]
    /\ op \in [Threads -> [kind : Kinds, name : Names \cup {NoName}]]
    /\ mine \in [Threads -> 0..created]

Publishes(t) == pc[t] = "publish"

\* Every mutex is the published one, destroyed, or in the hands of one thread.
Lazy ==
    /\ mutex \notin destroyed
    /\ \A m \in 1..created : m = mutex \/ m \in destroyed \/ \E t \in Threads : Publishes(t) /\ mine[t] = m
    /\ \A t \in Threads : Publishes(t) => mine[t] \in (1..created) \ (destroyed \cup {mutex})
    /\ \A t, u \in Threads : Publishes(t) /\ Publishes(u) /\ mine[t] = mine[u] => t = u

\* Under the flag protocol the main thread is alone until the flag is set.
FlagFirst ==
    /\ protocol = "flag" /\ ~ready => \A t \in Threads \ {Main} : pc[t] = "idle"
    /\ protocol = "flag" => \A t \in Threads : Publishes(t) => mutex = 0 /\ ~ready
    /\ protocol = "exchange" => ~ready /\ \A t \in Threads : pc[t] # "set_ready"
    /\ ready => mutex # 0

\* Whoever has loaded the mutex has the published one.
Loaded == \A t \in Threads : pc[t] \in Critical \cup {"lock", "set_ready"} => mine[t] = mutex /\ mutex # 0

Excludes ==
    /\ \A t \in Threads : pc[t] \in Critical => holder[mutex] = t
    /\ \A m \in 1..created : m # mutex => holder[m] = NoThread

Table ==
    /\ \A i \in 1..count : entries[i] \in Names
    /\ \A t \in Threads : pc[t] \in {"append", "bump"} =>
           /\ op[t].name \in Names /\ count < MaxEntries /\ ~Registered(op[t].name)
    /\ \A t \in Threads : pc[t] = "bump" => entries[count + 1] = op[t].name
    /\ \A t \in Threads : op[t].kind = "register" => op[t].name \in Names

IInv == Typed /\ Lazy /\ FlagFirst /\ Loaded /\ Excludes /\ Table

-----------------------------------------------------------------------------
LEMMA InitInv == RegistryAssumption /\ Init => IInv
<1> SUFFICES ASSUME RegistryAssumption, Init PROVE IInv
    OBVIOUS
<1> USE DEF RegistryAssumption, Init
<1>1. Typed
  <2>1. holder \in Seq(Threads \cup {NoThread}) /\ Len(holder) = created
    OBVIOUS
  <2>2. op \in [Threads -> [kind : Kinds, name : Names \cup {NoName}]]
    BY DEF Kinds, NoOp
  <2>3. pc \in [Threads -> Locations] /\ mine \in [Threads -> 0..created]
    BY DEF Locations
  <2>4. entries \in [1..MaxEntries -> Names \cup {NoName}]
    OBVIOUS
  <2>5. protocol \in {"exchange", "flag"} /\ ready \in BOOLEAN
    OBVIOUS
  <2>6. created \in Nat /\ mutex \in 0..created /\ destroyed \subseteq 1..created /\ count \in 0..MaxEntries
    OBVIOUS
  <2> QED
    BY ONLY <2>1, <2>2, <2>3, <2>4, <2>5, <2>6, Zenon DEF Typed
<1>2. Lazy /\ FlagFirst /\ Loaded /\ Excludes
    BY DEF Lazy, FlagFirst, Loaded, Excludes, Publishes, Critical
<1>3. Table
    BY DEF Table, NoOp, Registered
<1> QED
    BY <1>1, <1>2, <1>3 DEF IInv

LEMMA BeginInv ==
    ASSUME RegistryAssumption, IInv, NEW t \in Threads, Call(t)
    PROVE  IInv'
<1>1. PICK kind \in Kinds \ {"none"}, name \in Names \cup {NoName} :
          Begin(t, kind, name) /\ (kind = "register" => name \in Names)
    BY DEF Call, Kinds
<1> USE <1>1 DEF Begin, Goes, IInv, Typed, lazy
<1>2. Typed'
    BY DEF Locations, Kinds
<1>3. Lazy'
    BY DEF Lazy, Publishes
<1>4. FlagFirst'
    BY DEF FlagFirst, Publishes
<1>5. Loaded' /\ Excludes'
    BY DEF Loaded, Excludes, Critical
<1>6. Table'
    BY DEF Table, Registered, Kinds
<1> QED
    BY <1>2, <1>3, <1>4, <1>5, <1>6

LEMMA LoadInv ==
    ASSUME RegistryAssumption, IInv, NEW t \in Threads, Load(t)
    PROVE  IInv'
<1> USE DEF Load, Goes, IInv, Typed
<1>1. CASE IF protocol = "exchange" THEN mutex # 0 ELSE ready
  <2>1. /\ created' = created /\ holder' = holder /\ mine' = [mine EXCEPT ![t] = mutex]
        /\ pc' = [pc EXCEPT ![t] = "lock"]
    BY <1>1
  <2>2. Typed'
    BY <2>1 DEF Locations
  <2>3. Lazy' /\ FlagFirst' /\ Loaded' /\ Excludes'
    BY <1>1, <2>1 DEF Lazy, FlagFirst, Loaded, Excludes, Publishes, Critical
  <2>4. Table'
    BY <2>1 DEF Table, Registered
  <2> QED
    BY <2>2, <2>3, <2>4
<1>2. CASE ~(IF protocol = "exchange" THEN mutex # 0 ELSE ready) /\ mutex # 0
  <2>1. /\ created' = created /\ holder' = holder /\ mine' = [mine EXCEPT ![t] = mutex]
        /\ pc' = [pc EXCEPT ![t] = "set_ready"] /\ protocol = "flag"
    BY <1>2
  <2>2. Typed'
    BY <2>1 DEF Locations
  <2>3. Lazy' /\ FlagFirst' /\ Loaded' /\ Excludes'
    BY <1>2, <2>1 DEF Lazy, FlagFirst, Loaded, Excludes, Publishes, Critical
  <2>4. Table'
    BY <2>1 DEF Table, Registered
  <2> QED
    BY <2>2, <2>3, <2>4
<1>3. CASE ~(IF protocol = "exchange" THEN mutex # 0 ELSE ready) /\ mutex = 0
  <2>1. /\ created' = created + 1 /\ holder' = Append(holder, NoThread)
        /\ mine' = [mine EXCEPT ![t] = created + 1] /\ pc' = [pc EXCEPT ![t] = "publish"]
    BY <1>3
  <2>2. /\ holder' \in Seq(Threads \cup {NoThread}) /\ Len(holder') = created'
        /\ holder'[created + 1] = NoThread /\ \A m \in 1..created : holder'[m] = holder[m]
    BY <2>1
  <2>3. Typed'
    BY <2>1, <2>2 DEF Locations
  <2>4. Lazy'
    BY <1>3, <2>1 DEF Lazy, Publishes
  <2>5. FlagFirst' /\ Loaded' /\ Excludes'
    BY <1>3, <2>1, <2>2 DEF FlagFirst, Loaded, Excludes, Publishes, Critical
  <2>6. Table'
    BY <2>1 DEF Table, Registered
  <2> QED
    BY <2>3, <2>4, <2>5, <2>6
<1> QED
    BY <1>1, <1>2, <1>3

LEMMA PublishInv ==
    ASSUME RegistryAssumption, IInv, NEW t \in Threads, Publish(t)
    PROVE  IInv'
<1> USE DEF Publish, Goes, IInv, Typed
<1>1. CASE protocol = "exchange" /\ mutex # 0
  <2>1. /\ destroyed' = destroyed \cup {mine[t]} /\ mine' = [mine EXCEPT ![t] = mutex]
        /\ mutex' = mutex /\ pc' = [pc EXCEPT ![t] = "lock"]
    BY <1>1
  <2>2. mine[t] \in (1..created) \ (destroyed \cup {mutex})
    BY DEF Lazy, Publishes
  <2>3. Typed'
    BY <2>1, <2>2 DEF Locations
  <2>4. Lazy'
    BY <2>1, <2>2 DEF Lazy, Publishes
  <2>5. FlagFirst' /\ Loaded' /\ Excludes'
    BY <1>1, <2>1 DEF FlagFirst, Loaded, Excludes, Publishes, Critical
  <2>6. Table'
    BY <2>1 DEF Table, Registered
  <2> QED
    BY <2>3, <2>4, <2>5, <2>6
<1>2. CASE ~(protocol = "exchange" /\ mutex # 0)
  <2>1. /\ mutex = 0 /\ mutex' = mine[t] /\ destroyed' = destroyed /\ mine' = mine
        /\ pc' = [pc EXCEPT ![t] = IF protocol = "exchange" THEN "lock" ELSE "set_ready"]
    BY <1>2 DEF FlagFirst, Publishes
  <2>2. mine[t] \in (1..created) \ destroyed
    BY DEF Lazy, Publishes
  <2>3. \A u \in Threads : pc[u] \notin Critical \cup {"lock", "set_ready"}
    BY <2>1 DEF Loaded
  <2>4. holder[mine[t]] = NoThread
    BY <2>1, <2>2 DEF Excludes
  <2>5. Typed'
    BY <2>1, <2>2 DEF Locations
  <2>6. Lazy'
    BY <2>1, <2>2 DEF Lazy, Publishes
  <2>7. FlagFirst'
    <3>1. protocol = "flag" => ~ready /\ \A u \in Threads \ {t} : pc[u] = "idle"
      BY DEF FlagFirst, Publishes
    <3>2. mutex' # 0
      BY <2>1, <2>2
    <3>3. ready => FALSE
      BY <2>1 DEF FlagFirst
    <3> QED
      BY <2>1, <3>1, <3>2, <3>3 DEF FlagFirst, Publishes
  <2>8. Loaded' /\ Excludes'
    BY <2>1, <2>2, <2>3, <2>4 DEF Loaded, Excludes, Critical
  <2>9. Table'
    BY <2>1 DEF Table, Registered
  <2> QED
    BY <2>5, <2>6, <2>7, <2>8, <2>9
<1> QED
    BY <1>1, <1>2

LEMMA SetReadyInv ==
    ASSUME RegistryAssumption, IInv, NEW t \in Threads, SetReady(t)
    PROVE  IInv'
<1> USE DEF SetReady, Goes, IInv, Typed
<1>1. Typed'
    BY DEF Locations
<1>2. protocol = "flag" /\ mutex # 0 /\ \A u \in Threads : ~Publishes(u)
    BY DEF FlagFirst, Loaded, Publishes, RegistryAssumption
<1>3. Lazy'
    BY <1>2 DEF Lazy, Publishes
<1>4. FlagFirst' /\ Loaded' /\ Excludes'
    BY <1>2 DEF FlagFirst, Loaded, Excludes, Publishes, Critical
<1>5. Table'
    BY DEF Table, Registered
<1> QED
    BY <1>1, <1>3, <1>4, <1>5

LEMMA LockInv ==
    ASSUME RegistryAssumption, IInv, NEW t \in Threads, Lock(t)
    PROVE  IInv'
<1> USE DEF Lock, Goes, IInv, Typed, lazy
<1>1. mine[t] = mutex /\ mutex \in 1..created
    BY DEF Loaded
<1>2. Typed'
    BY <1>1 DEF Locations
<1>3. Lazy' /\ FlagFirst' /\ Loaded'
    BY DEF Lazy, FlagFirst, Loaded, Publishes, Critical
<1>4. Excludes'
    BY <1>1 DEF Excludes, Critical, RegistryAssumption
<1>5. Table'
    BY DEF Table, Registered
<1> QED
    BY <1>2, <1>3, <1>4, <1>5

\* Only one thread is in the critical section.
LEMMA Alone == IInv => MutualExclusion
BY DEF IInv, Excludes, MutualExclusion

LEMMA ScanInv ==
    ASSUME RegistryAssumption, IInv, NEW t \in Threads, Scan(t)
    PROVE  IInv'
<1> USE DEF Scan, Goes, IInv, Typed, lazy
<1>1. Typed'
    BY DEF Locations, RegistryAssumption
<1>2. Lazy' /\ FlagFirst' /\ Loaded' /\ Excludes'
    BY DEF Lazy, FlagFirst, Loaded, Excludes, Publishes, Critical
<1>3. \A u \in Threads \ {t} : pc[u] \notin Critical
    BY Alone DEF MutualExclusion, Critical
<1>4. Table'
    BY <1>3 DEF Table, Registered, Full, Critical, RegistryAssumption
<1> QED
    BY <1>1, <1>2, <1>4

LEMMA AppendInv ==
    ASSUME RegistryAssumption, IInv, NEW t \in Threads, AppendEntry(t)
    PROVE  IInv'
<1> USE DEF AppendEntry, Goes, IInv, Typed, lazy
<1>1. op[t].name \in Names /\ count < MaxEntries /\ ~Registered(op[t].name)
    BY DEF Table
<1>2. Typed'
    BY <1>1 DEF Locations, RegistryAssumption
<1>3. Lazy' /\ FlagFirst' /\ Loaded' /\ Excludes'
    BY DEF Lazy, FlagFirst, Loaded, Excludes, Publishes, Critical
<1>4. \A u \in Threads \ {t} : pc[u] \notin Critical
    BY Alone DEF MutualExclusion, Critical
<1>5. /\ \A i \in 1..count : entries'[i] = entries[i]
      /\ entries'[count + 1] = op[t].name
    BY <1>1 DEF RegistryAssumption
<1>6. Table'
    BY <1>1, <1>4, <1>5 DEF Table, Registered, Critical
<1> QED
    BY <1>2, <1>3, <1>6

LEMMA BumpInv ==
    ASSUME RegistryAssumption, IInv, NEW t \in Threads, Bump(t)
    PROVE  IInv'
<1> USE DEF Bump, Goes, IInv, Typed, lazy
<1>1. op[t].name \in Names /\ count < MaxEntries /\ entries[count + 1] = op[t].name
    BY DEF Table
<1>2. Typed'
    BY <1>1 DEF Locations, RegistryAssumption
<1>3. Lazy' /\ FlagFirst' /\ Loaded' /\ Excludes'
    BY DEF Lazy, FlagFirst, Loaded, Excludes, Publishes, Critical
<1>4. \A u \in Threads \ {t} : pc[u] \notin Critical
    BY Alone DEF MutualExclusion, Critical
<1>5. Table'
    BY <1>1, <1>4 DEF Table, Critical, Registered
<1> QED
    BY <1>2, <1>3, <1>5

LEMMA UnlockInv ==
    ASSUME RegistryAssumption, IInv, NEW t \in Threads, Unlock(t)
    PROVE  IInv'
<1> USE DEF Unlock, Goes, IInv, Typed, lazy
<1>1. mine[t] = mutex /\ mutex \in 1..created
    BY DEF Loaded, Critical
<1>2. Typed'
    BY <1>1 DEF Locations, NoOp, Kinds
<1>3. \A u \in Threads \ {t} : pc[u] \notin Critical
    BY Alone DEF MutualExclusion, Critical
<1>4. Lazy' /\ FlagFirst' /\ Loaded'
    BY DEF Lazy, FlagFirst, Loaded, Publishes, Critical
<1>5. Excludes'
    BY <1>1, <1>3 DEF Excludes, Critical
<1>6. Table'
    BY DEF Table, Registered, NoOp
<1> QED
    BY <1>2, <1>4, <1>5, <1>6

LEMMA Inductive == RegistryAssumption /\ IInv /\ [Next]_vars => IInv'
<1> SUFFICES ASSUME RegistryAssumption, IInv, [Next]_vars PROVE IInv'
    OBVIOUS
<1>1. CASE UNCHANGED vars
    BY <1>1 DEF vars, lazy, IInv, Typed, Lazy, FlagFirst, Loaded, Excludes, Table, Publishes, Registered
<1>2. ASSUME NEW t \in Threads, Step(t)
      PROVE  IInv'
    BY <1>2, LoadInv, PublishInv, SetReadyInv, LockInv, ScanInv, AppendInv, BumpInv, UnlockInv DEF Step
<1> QED
    BY <1>1, <1>2, BeginInv DEF Next

(* At most one thread is in a registry's table, whichever of racing first  *)
(* calls made the mutex, for any number of threads and both protocols.     *)
THEOREM RegistryExcludes ==
    ASSUME RegistryAssumption
    PROVE  Spec => []MutualExclusion
<1>1. Init => IInv
    BY InitInv
<1>2. IInv /\ [Next]_vars => IInv'
    BY Inductive
<1> QED
    BY <1>1, <1>2, Alone, PTL DEF Spec

(* No thread locks a destroyed mutex, and the mutexes of the losers are    *)
(* all destroyed.                                                          *)
THEOREM RegistryKeepsOneMutex ==
    ASSUME RegistryAssumption
    PROVE  Spec => []OneMutex
<1>1. Init => IInv
    BY InitInv
<1>2. IInv /\ [Next]_vars => IInv'
    BY Inductive
<1>3. IInv => OneMutex
    BY DEF IInv, Typed, Lazy, Loaded, OneMutex, Publishes
<1> QED
    BY <1>1, <1>2, <1>3, PTL DEF Spec

-----------------------------------------------------------------------------
(* The refinement: the new count is the registration, clear's scan the     *)
(* clearing, and every other step leaves the entries before the count.     *)
LEMMA AbstractionTyped == RegistryAssumption /\ IInv => Abstraction \in Seq(Names) /\ Len(Abstraction) = count
<1> SUFFICES ASSUME RegistryAssumption, IInv
             PROVE  Abstraction \in Seq(Names) /\ Len(Abstraction) = count
    OBVIOUS
<1>1. count \in Nat /\ count <= MaxEntries /\ \A i \in 1..count : entries[i] \in Names
    BY DEF IInv, Typed, Table, RegistryAssumption
<1> QED
    BY <1>1 DEF Abstraction

LEMMA StepRefines ==
    ASSUME RegistryAssumption, IInv, IInv', [Next]_vars
    PROVE  [Abstract!Next]_Abstraction
<1>0. count \in Nat /\ count <= MaxEntries
    BY DEF IInv, Typed, RegistryAssumption
<1>1. ASSUME count' = count, \A i \in 1..count : entries'[i] = entries[i]
      PROVE  Abstraction' = Abstraction
    BY <1>1 DEF Abstraction
<1>2. CASE UNCHANGED vars
    BY <1>1, <1>2 DEF vars
<1>3. ASSUME NEW t \in Threads,
             Call(t) \/ Load(t) \/ Publish(t) \/ SetReady(t) \/ Lock(t) \/ Unlock(t)
      PROVE  Abstraction' = Abstraction
  <2>1. count' = count /\ entries' = entries
    BY <1>3 DEF Call, Begin, Load, Publish, SetReady, Lock, Unlock
  <2> QED
    BY <1>1, <2>1
<1>4. ASSUME NEW t \in Threads, Scan(t)
      PROVE  [Abstract!Next]_Abstraction
  <2>1. CASE op[t].kind = "clear"
    <3>1. count' = 0
      BY <1>4, <2>1 DEF Scan
    <3>2. Abstraction' = <<>>
      BY <3>1 DEF Abstraction
    <3> QED
      BY <3>2 DEF Abstract!Next, Abstract!Clear
  <2>2. CASE op[t].kind # "clear"
    BY <1>1, <1>4, <2>2 DEF Scan
  <2> QED
    BY <2>1, <2>2
<1>5. ASSUME NEW t \in Threads, AppendEntry(t)
      PROVE  Abstraction' = Abstraction
  <2>1. \A i \in 1..count : entries'[i] = entries[i]
    BY <1>0, <1>5 DEF AppendEntry, IInv, Typed
  <2> QED
    BY <1>1, <1>5, <2>1 DEF AppendEntry
<1>6. ASSUME NEW t \in Threads, Bump(t)
      PROVE  [Abstract!Next]_Abstraction
  <2> DEFINE name == op[t].name
  <2>1. /\ name \in Names /\ count < MaxEntries /\ entries[count + 1] = name
        /\ \A i \in 1..count : entries[i] # name
    BY <1>6 DEF Bump, IInv, Table, Registered
  <2>2. count' = count + 1 /\ entries' = entries
    BY <1>6 DEF Bump
  <2>3. Abstraction' = Append(Abstraction, name)
    BY <1>0, <2>1, <2>2, AbstractionTyped DEF Abstraction
  <2>4. Len(Abstraction) = count /\ \A i \in DOMAIN Abstraction : Abstraction[i] # name
    BY <2>1, AbstractionTyped DEF Abstraction
  <2>5. Abstract!Register(name)
    BY <2>1, <2>3, <2>4 DEF Abstract!Register
  <2> QED
    BY <2>1, <2>5 DEF Abstract!Next
<1> QED
    BY <1>2, <1>3, <1>4, <1>5, <1>6 DEF Next, Step

(* Concurrent calls on a registry have the effect of atomic registrations  *)
(* and clearings of a bounded table of distinct names.                     *)
THEOREM RegistryImplements ==
    ASSUME RegistryAssumption
    PROVE  Spec => ImplementsRegistry
<1>1. Init => IInv
    BY InitInv
<1>2. IInv /\ [Next]_vars => IInv'
    BY Inductive
<1>3. Init => Abstract!Init
    BY DEF Init, Abstract!Init, Abstraction
<1>4. IInv /\ IInv' /\ [Next]_vars => [Abstract!Next]_Abstraction
    BY StepRefines
<1> QED
    BY <1>1, <1>2, <1>3, <1>4, PTL DEF Spec, ImplementsRegistry, Abstract!Spec
=============================================================================
