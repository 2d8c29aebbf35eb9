-------------------------- MODULE KvManagerProofs --------------------------
(***************************************************************************)
(* Proofs about KvManager, for any number of threads, contexts and slots.  *)
(*                                                                         *)
(* The table is exact because every allocated context is in exactly one    *)
(* place: a slot before the count, or the call of one thread.  The walk of *)
(* manager_destroy is safe although it rearranges the array: a step        *)
(* overwrites no slot after its own, since the contexts there are          *)
(* distinct, so those slots still hold what they held when it began, and   *)
(* that is all that is still allocated.                                    *)
(*                                                                         *)
(* The statistics follow from the table: what a call adds to the bytes or  *)
(* takes off them is what it adds to the sum over the entries.             *)
(***************************************************************************)
EXTENDS KvManager, FiniteSetTheorems, WellFoundedInduction, TLAPS

Typed ==
    /\ life \in {"up", "destroying", "freed", "overrun"}
    /\ contexts \in [Slots -> Handles \cup {NoHandle}]
    /\ num_contexts \in Nat
    /\ life # "overrun" => num_contexts <= MaxContexts
    /\ live \subseteq Handles
    /\ pc \in [Threads -> {"ready", "allocate", "register", "free"}]
    /\ held \in [Threads -> Handles \cup {NoHandle}]
    /\ walk \in Nat /\ count \in Nat

\* The thread is in a call with a context of its own.
Inside(t) == pc[t] \in {"register", "free"}

\* The slots from a up to, not including, b hold distinct allocated contexts.
Holds(a, b) ==
    /\ \A i \in a..b-1 : contexts[i] \in live
    /\ \A i, j \in a..b-1 : contexts[i] = contexts[j] => i = j

Up ==
    /\ Holds(0, num_contexts)
    /\ \A t \in Threads : Inside(t) =>
          held[t] \in live /\ \A i \in 0..num_contexts-1 : contexts[i] # held[t]
    /\ \A t, u \in Threads : Inside(t) /\ Inside(u) /\ held[t] = held[u] => t = u
    /\ \A h \in live : \/ \E i \in 0..num_contexts-1 : contexts[i] = h
                       \/ \E t \in Threads : Inside(t) /\ held[t] = h

Destroying ==
    /\ \A t \in Threads : pc[t] = "ready"
    /\ walk <= count /\ count <= MaxContexts
    /\ Holds(walk, count)
    /\ \A h \in live : \E i \in walk..count-1 : contexts[i] = h
    /\ Holds(0, num_contexts)
    /\ \A h \in live : \E i \in 0..num_contexts-1 : contexts[i] = h

IInv ==
    /\ Typed
    /\ life = "up" => Up
    /\ life \in {"destroying", "freed"} => Destroying
    /\ life = "freed" => walk = count

(* The sum of f over S. *)
Total(f, S) == MapThenSumSet(LAMBDA x : f[x], S)

(* The statistics are those of the table. *)
Stats ==
    /\ bytes \in [Handles -> Nat]
    /\ active = num_contexts
    /\ peak \in Nat /\ peak >= active
    /\ memory = Total(bytes, Listed)
    /\ peak_memory \in Nat /\ peak_memory >= memory

StatsInv == life # "overrun" => Stats

(* g gives the subsets of U the sums of f over them. *)
IsSum(f, g, U) ==
    /\ g \in [SUBSET U -> Nat] /\ g[{}] = 0
    /\ \A s \in SUBSET U : \A x \in s : g[s] = f[x] + g[s \ {x}]

-----------------------------------------------------------------------------
LEMMA InitInv == KvAssumption /\ Init => IInv
BY DEF KvAssumption, Init, IInv, Typed, Up, Holds, Inside, Slots

LEMMA CreateInv ==
    ASSUME KvAssumption, IInv, NEW t \in Threads,
           CreateCheck(t) \/ CreateAllocate(t) \/ CreateRegister(t)
    PROVE  IInv'
<1> USE DEF KvAssumption, IInv, tableVars
<1>1. CASE CreateCheck(t)
    BY <1>1 DEF CreateCheck, Typed, Up, Holds, Inside
<1>2. CASE CreateAllocate(t)
  <2>1. life # "destroying" /\ life # "freed"
    BY <1>2 DEF CreateAllocate, Destroying
  <2>2. CASE pc' = [pc EXCEPT ![t] = "ready"] /\ UNCHANGED <<live, bytes, held>>
    BY <1>2, <2>1, <2>2 DEF CreateAllocate, Typed, Up, Holds, Inside
  <2>3. ASSUME NEW h \in Handles \ live,
               live' = live \cup {h}, held' = [held EXCEPT ![t] = h],
               pc' = [pc EXCEPT ![t] = "register"]
        PROVE  IInv'
    <3>1. Typed'
      BY <1>2, <2>3 DEF CreateAllocate, Typed
    <3>2. life = "up" => Up'
      BY <1>2, <2>3 DEF CreateAllocate, Typed, Up, Holds, Inside
    <3> QED
      BY <1>2, <2>1, <3>1, <3>2 DEF CreateAllocate
  <2> QED
    BY <1>2, <2>2, <2>3 DEF CreateAllocate
<1>3. CASE CreateRegister(t)
  <2>1. CASE num_contexts < MaxContexts
    <3>1. /\ contexts' = [contexts EXCEPT ![num_contexts] = held[t]]
          /\ num_contexts' = num_contexts + 1 /\ life' = life /\ life = "up" /\ live' = live
          /\ num_contexts \in Slots /\ held[t] \in live
          /\ pc' = [pc EXCEPT ![t] = "ready"] /\ held' = [held EXCEPT ![t] = NoHandle]
      BY <1>3, <2>1 DEF CreateRegister, Typed, Slots, Up, Inside
    <3>2. Typed'
      BY <1>3, <2>1, <3>1 DEF CreateRegister, Typed
    <3>3. /\ \A i \in 0..num_contexts-1 : contexts'[i] = contexts[i]
          /\ contexts'[num_contexts] = held[t]
      BY <3>1 DEF Typed, Slots
    <3>4. Up'
      <4>1. Holds(0, num_contexts)'
        BY <1>3, <3>1, <3>3 DEF CreateRegister, Up, Holds, Typed, Inside
      <4>2. (\A u \in Threads : Inside(u) =>
               held[u] \in live /\ \A i \in 0..num_contexts-1 : contexts[i] # held[u])'
        BY <1>3, <3>1, <3>3 DEF CreateRegister, Up, Typed, Inside
      <4>3. (\A u, v \in Threads : Inside(u) /\ Inside(v) /\ held[u] = held[v] => u = v)'
        BY <3>1 DEF Up, Typed, Inside
      <4>4. (\A h \in live : \/ \E i \in 0..num_contexts-1 : contexts[i] = h
                             \/ \E u \in Threads : Inside(u) /\ held[u] = h)'
        BY <3>1, <3>3 DEF Up, Typed, Inside
      <4> QED
        BY <4>1, <4>2, <4>3, <4>4 DEF Up
    <3> QED
      BY <3>1, <3>2, <3>4
  <2>2. CASE ~(num_contexts < MaxContexts)
    BY <1>3, <2>2 DEF CreateRegister, Typed
  <2> QED
    BY <2>1, <2>2
<1> QED
    BY <1>1, <1>2, <1>3

\* What Remove does to the table when the slot of h is known: the last entry
\* moves there.
LEMMA RemoveKnown ==
    ASSUME KvAssumption, Typed, NEW h, Remove(h), num_contexts <= MaxContexts,
           NEW k \in 0..num_contexts-1, contexts[k] = h,
           \A i, j \in 0..num_contexts-1 : contexts[i] = contexts[j] => i = j
    PROVE  /\ contexts' = [contexts EXCEPT ![k] = contexts[num_contexts - 1]]
           /\ num_contexts' = num_contexts - 1
<1>1. {i \in 0..num_contexts-1 : contexts[i] = h} = {k}
    OBVIOUS
<1> QED
    BY <1>1 DEF Remove

LEMMA DestroyContextInv ==
    ASSUME KvAssumption, IInv, NEW t \in Threads, DestroyRemove(t) \/ DestroyFree(t)
    PROVE  IInv'
<1> USE DEF KvAssumption, IInv, tableVars
<1>1. CASE DestroyRemove(t)
  <2>1. life = "up" /\ pc[t] = "ready" /\ num_contexts <= MaxContexts
    BY <1>1 DEF DestroyRemove, Typed
  <2>2. PICK k \in 0..num_contexts-1 : Remove(contexts[k]) /\ held' = [held EXCEPT ![t] = contexts[k]]
    BY <1>1 DEF DestroyRemove, Listed
  <2> DEFINE h == contexts[k]
             last == num_contexts - 1
  <2>3. /\ contexts' = [contexts EXCEPT ![k] = contexts[last]] /\ num_contexts' = last
        /\ last \in Nat /\ k \in Slots /\ last \in Slots
    BY <2>1, <2>2, RemoveKnown DEF Typed, Up, Holds, Slots
  <2>4. h \in live /\ live' = live /\ life' = life /\ pc' = [pc EXCEPT ![t] = "free"]
    BY <1>1, <2>1 DEF DestroyRemove, Up, Holds
  <2>5. Typed'
    BY <1>1, <2>2, <2>3, <2>4 DEF DestroyRemove, Typed
  <2>6. \A i \in 0..last-1 : contexts'[i] = IF i = k THEN contexts[last] ELSE contexts[i]
    BY <2>3 DEF Typed, Slots
  <2>7. \A i \in 0..last-1 : contexts'[i] # h
    BY <2>1, <2>3, <2>6 DEF Up, Holds
  <2>8. Up'
    <3>1. Holds(0, num_contexts)'
      BY <2>1, <2>3, <2>4, <2>6 DEF Up, Holds, Typed
    <3>2. (\A u \in Threads : Inside(u) =>
             held[u] \in live /\ \A i \in 0..num_contexts-1 : contexts[i] # held[u])'
      <4> SUFFICES ASSUME NEW u \in Threads, Inside(u)'
                   PROVE  held'[u] \in live /\ \A i \in 0..last-1 : contexts'[i] # held'[u]
        BY <2>3, <2>4
      <4>1. CASE u = t
        BY <2>2, <2>4, <2>7, <4>1 DEF Typed
      <4>2. CASE u # t
        BY <2>1, <2>2, <2>3, <2>4, <2>6, <4>2 DEF Up, Inside, Typed
      <4> QED
        BY <4>1, <4>2
    <3>3. (\A u, v \in Threads : Inside(u) /\ Inside(v) /\ held[u] = held[v] => u = v)'
      BY <2>1, <2>2, <2>4 DEF Up, Inside, Typed
    <3>4. (\A g \in live : \/ \E i \in 0..num_contexts-1 : contexts[i] = g
                           \/ \E u \in Threads : Inside(u) /\ held[u] = g)'
      <4> SUFFICES ASSUME NEW g \in live
                   PROVE  \/ \E i \in 0..last-1 : contexts'[i] = g
                          \/ \E u \in Threads : Inside(u)' /\ held'[u] = g
        BY <2>3, <2>4
      <4>1. CASE g = h
        BY <2>2, <2>4, <4>1 DEF Inside, Typed
      <4>2. ASSUME NEW i \in 0..num_contexts-1, contexts[i] = g, g # h
            PROVE  \E j \in 0..last-1 : contexts'[j] = g
        <5>1. CASE i = last
          BY <2>3, <2>6, <4>2, <5>1
        <5>2. CASE i # last
          BY <2>3, <2>6, <4>2, <5>2
        <5> QED
          BY <5>1, <5>2
      <4>3. ASSUME NEW u \in Threads, Inside(u), held[u] = g
            PROVE  Inside(u)' /\ held'[u] = g
        BY <2>1, <2>2, <2>4, <4>3 DEF Inside, Typed
      <4> QED
        BY <2>1, <4>1, <4>2, <4>3 DEF Up
    <3> QED
      BY <3>1, <3>2, <3>3, <3>4 DEF Up
  <2> QED
    BY <2>1, <2>4, <2>5, <2>8
<1>2. CASE DestroyFree(t)
  <2>1. life # "destroying" /\ life # "freed"
    BY <1>2 DEF DestroyFree, Destroying
  <2>2. Typed'
    BY <1>2 DEF DestroyFree, Typed
  <2>3. life = "up" => Up'
    BY <1>2 DEF DestroyFree, Typed, Up, Holds, Inside
  <2> QED
    BY <1>2, <2>1, <2>2, <2>3 DEF DestroyFree
<1> QED
    BY <1>1, <1>2

LEMMA ManagerDestroyInv ==
    ASSUME KvAssumption, IInv, DestroyBegin \/ DestroyContext \/ DestroyEnd
    PROVE  IInv'
<1> USE DEF KvAssumption, IInv, tableVars
<1>1. CASE DestroyBegin
    BY <1>1 DEF DestroyBegin, Typed, Up, Destroying, Holds, Inside
<1>2. CASE DestroyContext
  <2> DEFINE h == contexts[walk]
  <2>1. /\ life = "destroying" /\ walk < count /\ walk' = walk + 1 /\ count' = count
        /\ life' = life /\ pc' = pc /\ held' = held /\ num_contexts <= MaxContexts
    BY <1>2 DEF DestroyContext, Typed
  <2>2. h \in live /\ h # NoHandle
    BY <2>1 DEF Destroying, Holds, Typed
  <2>3. Remove(h) /\ live' = live \ {h}
    BY <1>2, <2>2 DEF DestroyContext
  <2> DEFINE last == num_contexts - 1
  <2>4. PICK k \in 0..last : contexts[k] = h
    BY <2>1, <2>2 DEF Destroying
  <2>5. /\ contexts' = [contexts EXCEPT ![k] = contexts[last]] /\ num_contexts' = last
        /\ last \in Nat /\ k \in Slots /\ last \in Slots
    BY <2>1, <2>3, <2>4, RemoveKnown DEF Typed, Destroying, Holds, Slots
  <2>6. Typed'
    BY <2>1, <2>3, <2>5 DEF Typed
  <2>7. /\ \A i \in walk+1..count-1 : contexts'[i] = contexts[i]
        /\ \A i \in 0..last-1 : contexts'[i] = IF i = k THEN contexts[last] ELSE contexts[i]
    <3>1. k \notin walk+1..count-1
      BY <2>1, <2>4 DEF Destroying, Holds, Typed
    <3> QED
      BY <2>1, <2>5, <3>1 DEF Typed, Destroying, Slots
  <2>8. Destroying'
    <3>1. Holds(walk, count)' /\ \A g \in live' : \E i \in walk'..count'-1 : contexts'[i] = g
      BY <2>1, <2>2, <2>3, <2>7 DEF Destroying, Holds, Typed
    <3>2. Holds(0, num_contexts)'
      BY <2>1, <2>3, <2>4, <2>5, <2>7 DEF Destroying, Holds, Typed
    <3>3. ASSUME NEW g \in live' PROVE \E j \in 0..last-1 : contexts'[j] = g
      <4>1. PICK i \in 0..last : contexts[i] = g
        BY <2>1, <2>3, <3>3 DEF Destroying
      <4>2. CASE i = last
        BY <2>3, <2>4, <2>5, <2>7, <3>3, <4>1, <4>2
      <4>3. CASE i # last
        BY <2>3, <2>4, <2>5, <2>7, <3>3, <4>1, <4>3
      <4> QED
        BY <4>2, <4>3
    <3> QED
      BY <2>1, <2>5, <3>1, <3>2, <3>3 DEF Destroying, Typed
  <2> QED
    BY <2>1, <2>6, <2>8
<1>3. CASE DestroyEnd
    BY <1>3 DEF DestroyEnd, Typed, Destroying, Holds
<1> QED
    BY <1>1, <1>2, <1>3

LEMMA Inductive == KvAssumption /\ IInv /\ [Next]_vars => IInv'
<1> SUFFICES ASSUME KvAssumption, IInv, [Next]_vars PROVE IInv'
    OBVIOUS
<1>1. CASE UNCHANGED vars
    BY <1>1 DEF vars, tableVars, IInv, Typed, Up, Destroying, Holds, Inside
<1>2. ASSUME NEW t \in Threads, Resize(t)
      PROVE  IInv'
    BY <1>2 DEF Resize, IInv, Typed, Up, Destroying, Holds, Inside
<1> QED
    BY <1>1, <1>2, CreateInv, DestroyContextInv, ManagerDestroyInv DEF Next, Terminated

-----------------------------------------------------------------------------
(* A non-empty set of naturals has a least element. *)
LEMMA LeastNatural ==
    ASSUME NEW T \in SUBSET Nat, T # {}
    PROVE  \E x \in T : \A y \in T : x <= y
<1> DEFINE R == OpToRel(<, Nat)
<1>1. IsWellFoundedOn(R, Nat)
  BY NatLessThanWellFounded
<1>2. \A x, y \in Nat : <<y, x>> \in R <=> y < x
  BY DEF OpToRel
<1> HIDE DEF R
<1>3. PICK x \in T : \A y \in T : ~ (<<y, x>> \in R)
  BY <1>1, WFMin, Zenon
<1>4. \A y \in T : ~ (y < x)
  BY <1>2, <1>3, Zenon
<1> QED  BY ONLY <1>4, T \in SUBSET Nat, x \in T

(* Every function with values in Nat has its sums over the subsets of a finite set. *)
LEMMA SumsExist ==
    ASSUME NEW U, IsFiniteSet(U), NEW f, \A x \in U : f[x] \in Nat
    PROVE  \E g : IsSum(f, g, U)
<1> DEFINE Bad == {n \in Nat : \E V \in SUBSET U : Cardinality(V) = n /\ ~\E g : IsSum(f, g, V)}
<1>1. \A V \in SUBSET U : IsFiniteSet(V) /\ Cardinality(V) \in Nat
  BY FS_Subset, FS_CardinalityType
<1>2. Bad = {}
  <2> SUFFICES ASSUME Bad # {} PROVE FALSE
    OBVIOUS
  <2>1. PICK n \in Bad : \A m \in Bad : n <= m
    BY LeastNatural
  <2>2. PICK V \in SUBSET U : Cardinality(V) = n /\ ~\E g : IsSum(f, g, V)
    OBVIOUS
  <2>3. V # {}
    <3> SUFFICES ASSUME V = {} PROVE FALSE
      OBVIOUS
    <3>1. IsSum(f, [s \in SUBSET {} |-> 0], {})
      BY DEF IsSum
    <3> QED  BY <2>2, <3>1
  <2>4. PICK x \in V : TRUE
    BY <2>3
  <2> DEFINE W == V \ {x}
  <2>5. Cardinality(W) = n - 1 /\ W \in SUBSET U /\ n - 1 \in Nat
    <3>1. Cardinality(V \ {x}) = Cardinality(V) - 1
      BY <1>1, <2>4, FS_RemoveElement
    <3>2. Cardinality(W) \in Nat
      BY <1>1
    <3> QED  BY <2>2, <3>1, <3>2
  <2>6. PICK g : IsSum(f, g, W)
    <3>1. n - 1 \notin Bad
      BY <2>1, <2>5
    <3> QED  BY <2>5, <3>1
  <2> DEFINE h == [s \in SUBSET V |-> IF x \in s THEN f[x] + g[s \ {x}] ELSE g[s]]
  <2>7. \A s \in SUBSET V : s \ {x} \in SUBSET W /\ (x \notin s => s \in SUBSET W)
    OBVIOUS
  <2>8. h \in [SUBSET V -> Nat]
    BY <2>4, <2>6, <2>7 DEF IsSum
  <2>9. h[{}] = 0
    BY <2>6 DEF IsSum
  <2>10. ASSUME NEW s \in SUBSET V, NEW y \in s PROVE h[s] = f[y] + h[s \ {y}]
    <3>0. s \ {y} \in SUBSET V /\ f[x] \in Nat /\ f[y] \in Nat
      OBVIOUS
    <3>1. CASE y = x
      BY <3>0, <3>1
    <3>2. CASE x \notin s
      <4>1. h[s] = g[s] /\ h[s \ {y}] = g[s \ {y}]
        BY <3>0, <3>2
      <4>2. s \in SUBSET W
        BY <3>2
      <4>3. g[s] = f[y] + g[s \ {y}]
        BY <2>6, <4>2 DEF IsSum
      <4> QED  BY <4>1, <4>3
    <3>3. CASE x \in s /\ y # x
      <4>1. h[s] = f[x] + g[s \ {x}] /\ h[s \ {y}] = f[x] + g[(s \ {y}) \ {x}]
        BY <3>0, <3>3
      <4>2. s \ {x} \in SUBSET W /\ y \in s \ {x} /\ (s \ {x}) \ {y} = (s \ {y}) \ {x}
        BY <3>3
      <4>3. g[s \ {x}] = f[y] + g[(s \ {y}) \ {x}] /\ g[(s \ {y}) \ {x}] \in Nat
        BY <2>6, <4>2 DEF IsSum
      <4> HIDE DEF h
      <4> QED  BY <3>0, <4>1, <4>3
    <3> QED  BY <3>1, <3>2, <3>3
  <2>11. IsSum(f, h, V)
    BY <2>8, <2>9, <2>10 DEF IsSum
  <2> QED  BY <2>2, <2>11
<1>3. Cardinality(U) \in Nat /\ U \in SUBSET U
  BY <1>1
<1> QED  BY <1>2, <1>3

(* MapThenSumSet takes them. *)
LEMMA TotalIs ==
    ASSUME NEW U, IsFiniteSet(U), NEW f, \A x \in U : f[x] \in Nat,
           NEW g, IsSum(f, g, U), NEW S \in SUBSET U
    PROVE  Total(f, S) = g[S]
<1> DEFINE c(s) == CHOOSE x \in s : TRUE
           Body(k) == [s \in SUBSET S |-> IF s = {} THEN 0 ELSE f[c(s)] + k[s \ {c(s)}]]
           G == [s \in SUBSET S |-> g[s]]
<1>1. Total(f, S) = (CHOOSE k : k = Body(k))[S]
  BY DEF Total, MapThenSumSet, MapThenFoldSet
<1>2. G = Body(G)
  <2>1. ASSUME NEW s \in SUBSET S
        PROVE  G[s] = IF s = {} THEN 0 ELSE f[c(s)] + G[s \ {c(s)}]
    <3>1. s \in SUBSET U /\ s \ {c(s)} \in SUBSET S /\ (s # {} => c(s) \in s)
      OBVIOUS
    <3> HIDE DEF c
    <3>2. G[s] = g[s] /\ G[s \ {c(s)}] = g[s \ {c(s)}]
      BY <3>1
    <3> QED  BY <3>1, <3>2 DEF IsSum
  <2> QED  BY <2>1
<1>3. ASSUME NEW k, k = Body(k) PROVE k = G
  <2> DEFINE Bad == {n \in Nat : \E s \in SUBSET S : Cardinality(s) = n /\ k[s] # G[s]}
  <2>1. \A s \in SUBSET S : IsFiniteSet(s) /\ Cardinality(s) \in Nat
    BY FS_Subset, FS_CardinalityType
  <2>2. \A s \in SUBSET S : k[s] = IF s = {} THEN 0 ELSE f[c(s)] + k[s \ {c(s)}]
    BY <1>3
  <2>3. \A s \in SUBSET S : G[s] = IF s = {} THEN 0 ELSE f[c(s)] + G[s \ {c(s)}]
    BY <1>2
  <2>4. \A s \in SUBSET S : s # {} => c(s) \in s /\ s \ {c(s)} \in SUBSET S
    OBVIOUS
  <2>5. k = [s \in SUBSET S |-> k[s]] /\ DOMAIN k = SUBSET S
    BY <1>3
  <2> HIDE DEF c, Body, G
  <2>6. Bad = {}
    <3> SUFFICES ASSUME Bad # {} PROVE FALSE
      OBVIOUS
    <3>1. PICK n \in Bad : \A m \in Bad : n <= m
      BY LeastNatural
    <3>2. PICK s \in SUBSET S : Cardinality(s) = n /\ k[s] # G[s]
      OBVIOUS
    <3>3. s # {}
      BY <2>2, <2>3, <3>2
    <3>4. k[s \ {c(s)}] # G[s \ {c(s)}]
      BY <2>2, <2>3, <3>2, <3>3
    <3>5. Cardinality(s \ {c(s)}) = n - 1 /\ n - 1 \in Nat
      <4>1. Cardinality(s \ {c(s)}) = Cardinality(s) - 1
        BY <2>1, <2>4, <3>3, FS_RemoveElement
      <4>2. Cardinality(s \ {c(s)}) \in Nat
        BY <2>1, <2>4, <3>3
      <4> QED  BY <3>2, <4>1, <4>2
    <3>6. n - 1 \in Bad
      BY <2>4, <3>3, <3>4, <3>5
    <3> QED  BY <3>1, <3>5, <3>6
  <2>7. \A s \in SUBSET S : k[s] = G[s]
    BY <2>1, <2>6
  <2>8. G = [s \in SUBSET S |-> G[s]]
    BY DEF G
  <2> QED  BY <2>5, <2>7, <2>8
<1> HIDE DEF Body, G
<1>4. (CHOOSE k : k = Body(k)) = G
  BY <1>2, <1>3
<1>5. G[S] = g[S]
  BY DEF G
<1> QED  BY <1>1, <1>4, <1>5

LEMMA TotalEmpty == \A f : Total(f, {}) = 0
<1> SUFFICES ASSUME NEW f PROVE Total(f, {}) = 0
    OBVIOUS
<1>1. IsFiniteSet({})
    BY FS_EmptySet
<1>2. PICK g : IsSum(f, g, {})
    BY <1>1, SumsExist
<1>3. Total(f, {}) = g[{}]
    BY <1>1, <1>2, TotalIs
<1> QED
    BY <1>2, <1>3 DEF IsSum

(* A member's part of the sum. *)
LEMMA TotalWithout ==
    ASSUME NEW S, IsFiniteSet(S), NEW f, \A x \in S : f[x] \in Nat, NEW x \in S
    PROVE  /\ Total(f, S) \in Nat /\ Total(f, S \ {x}) \in Nat
           /\ Total(f, S) = f[x] + Total(f, S \ {x})
<1>1. PICK g : IsSum(f, g, S)
    BY SumsExist
<1>2. Total(f, S) = g[S] /\ Total(f, S \ {x}) = g[S \ {x}]
    BY <1>1, TotalIs
<1> QED
    BY <1>1, <1>2 DEF IsSum

(* The sum depends on the members only. *)
LEMMA TotalSame ==
    ASSUME NEW S, IsFiniteSet(S), NEW f, NEW h, \A x \in S : f[x] \in Nat /\ h[x] = f[x]
    PROVE  Total(h, S) = Total(f, S)
<1>1. PICK g : IsSum(f, g, S)
    BY SumsExist
<1>2. IsSum(h, g, S)
    BY <1>1 DEF IsSum
<1>3. Total(f, S) = g[S] /\ Total(h, S) = g[S]
    BY <1>1, <1>2, TotalIs
<1> QED
    BY <1>3

(* The table is finite, and what it lists is allocated. *)
LEMMA ListedFacts ==
    ASSUME KvAssumption, IInv, life # "overrun"
    PROVE  /\ IsFiniteSet(Listed) /\ Listed \subseteq live /\ Listed \subseteq Handles
           /\ num_contexts \in Nat
           /\ \A i, j \in 0..num_contexts-1 : contexts[i] = contexts[j] => i = j
<1>1. num_contexts \in Nat /\ Holds(0, num_contexts) /\ live \subseteq Handles
    BY DEF IInv, Typed, Up, Destroying
<1>2. IsFiniteSet(0..num_contexts-1)
    BY <1>1, FS_Interval
<1>3. IsFiniteSet(Listed)
  <2>1. [i \in 0..num_contexts-1 |-> contexts[i]] \in Surjection(0..num_contexts-1, Listed)
    BY DEF Surjection, Listed
  <2> QED
    BY <1>2, <2>1, FS_Surjection, Zenon
<1> QED
    BY <1>1, <1>3 DEF Holds, Listed

(* A context leaves the table with its bytes. *)
LEMMA RemoveStats ==
    ASSUME KvAssumption, IInv, life # "overrun", Stats, NEW h \in Listed, Remove(h),
           UNCHANGED bytes
    PROVE  Stats'
<1>1. PICK k \in 0..num_contexts-1 : contexts[k] = h
    BY DEF Listed
<1> DEFINE last == num_contexts - 1
<1>2. /\ num_contexts <= MaxContexts /\ Typed
      /\ \A i, j \in 0..num_contexts-1 : contexts[i] = contexts[j] => i = j
    BY ListedFacts DEF IInv, Typed
<1>3. /\ contexts' = [contexts EXCEPT ![k] = contexts[last]] /\ num_contexts' = last
      /\ last \in Nat /\ k \in Slots /\ last \in Slots
    BY <1>1, <1>2, RemoveKnown DEF KvAssumption, Typed, Slots
<1>4. \A i \in 0..last-1 : contexts'[i] = IF i = k THEN contexts[last] ELSE contexts[i]
    BY <1>2, <1>3 DEF Typed, Slots
<1>5. Listed' = Listed \ {h}
  <2>1. ASSUME NEW i \in 0..last-1 PROVE contexts'[i] \in Listed \ {h}
    BY <1>1, <1>2, <1>3, <1>4 DEF Listed
  <2>2. ASSUME NEW g \in Listed \ {h} PROVE \E j \in 0..last-1 : contexts'[j] = g
    <3>1. PICK i \in 0..last : contexts[i] = g
      BY DEF Listed
    <3>2. CASE i = last
      BY <1>1, <1>3, <1>4, <3>1, <3>2
    <3>3. CASE i # last
      BY <1>1, <1>3, <1>4, <3>1, <3>3
    <3> QED
      BY <3>2, <3>3
  <2> QED
    BY <1>3, <2>1, <2>2 DEF Listed
<1>6. /\ Total(bytes, Listed) = bytes[h] + Total(bytes, Listed \ {h})
      /\ Total(bytes, Listed) \in Nat /\ Total(bytes, Listed \ {h}) \in Nat /\ bytes[h] \in Nat
  <2>1. IsFiniteSet(Listed) /\ \A x \in Listed : bytes[x] \in Nat
    BY ListedFacts DEF Stats
  <2> QED
    BY <2>1, TotalWithout
<1>7. Total(bytes, Listed)' = Total(bytes, Listed \ {h})
    BY <1>5
<1>8. memory' = memory - bytes[h] /\ active' = active - 1 /\ UNCHANGED <<peak, peak_memory>>
    BY DEF Remove
<1>9. num_contexts \in Nat
    BY ListedFacts
<1> HIDE DEF last
<1>10. memory' = Total(bytes, Listed)' /\ peak_memory' >= memory'
    BY <1>6, <1>7, <1>8 DEF Stats
<1>11. active' = num_contexts' /\ peak' >= active'
    BY <1>3, <1>8, <1>9 DEF Stats, last
<1> QED
    BY <1>8, <1>10, <1>11 DEF Stats

LEMMA StatsStep == KvAssumption /\ IInv /\ StatsInv /\ [Next]_vars => StatsInv'
<1> SUFFICES ASSUME KvAssumption, IInv, StatsInv, [Next]_vars, life' # "overrun" PROVE Stats'
    BY DEF StatsInv
<1>1. CASE life = "overrun"
    BY <1>1 DEF Next, vars, CreateCheck, CreateAllocate, CreateRegister, DestroyRemove, DestroyFree,
                Resize, DestroyBegin, DestroyContext, DestroyEnd, Terminated
<1> SUFFICES ASSUME life # "overrun" PROVE Stats'
    BY <1>1
<1>2. /\ Stats /\ IsFiniteSet(Listed) /\ Listed \subseteq live /\ Listed \subseteq Handles
      /\ bytes \in [Handles -> Nat] /\ \A x \in Listed : bytes[x] \in Nat
    BY ListedFacts DEF StatsInv, Stats
<1>3. CASE UNCHANGED <<tableVars, bytes>>
  <2>1. Listed' = Listed
    BY <1>3 DEF tableVars, Listed
  <2>2. Total(bytes, Listed)' = Total(bytes, Listed)
    BY <1>3, <2>1
  <2> QED
    BY <1>2, <1>3, <2>2 DEF Stats, tableVars
<1>4. ASSUME NEW t \in Threads, CreateAllocate(t) PROVE Stats'
  <2>1. UNCHANGED tableVars
    BY <1>4 DEF CreateAllocate
  <2>2. CASE UNCHANGED bytes
    BY <1>3, <2>1, <2>2
  <2>3. ASSUME NEW h \in Handles \ live, NEW size \in Sizes, bytes' = [bytes EXCEPT ![h] = size]
        PROVE  Stats'
    <3>1. bytes' \in [Handles -> Nat] /\ \A x \in Listed : bytes'[x] = bytes[x]
      BY <1>2, <2>3 DEF KvAssumption
    <3>2. Total(bytes', Listed) = Total(bytes, Listed)
      BY <1>2, <3>1, TotalSame
    <3>3. Listed' = Listed
      BY <2>1 DEF tableVars, Listed
    <3>4. Total(bytes, Listed)' = Total(bytes, Listed)
      BY <3>2, <3>3
    <3> QED
      BY <1>2, <2>1, <3>1, <3>4 DEF Stats, tableVars
  <2> QED
    BY <1>4, <2>2, <2>3 DEF CreateAllocate
<1>5. ASSUME NEW t \in Threads, CreateRegister(t) PROVE Stats'
  <2> DEFINE h == held[t]
  <2>1. life = "up" /\ Inside(t)
    BY <1>5 DEF CreateRegister, Inside
  <2>2. h \in Handles /\ h \notin Listed /\ bytes[h] \in Nat
    BY <1>2, <2>1 DEF IInv, Up, Typed, Listed
  <2>3. num_contexts \in Nat /\ num_contexts < MaxContexts /\ num_contexts \in Slots
    BY <1>5 DEF CreateRegister, IInv, Typed, Slots, KvAssumption
  <2>4. /\ contexts' = [contexts EXCEPT ![num_contexts] = h] /\ num_contexts' = num_contexts + 1
        /\ active' = active + 1 /\ peak' = AtLeast(active', peak)
        /\ memory' = memory + bytes[h] /\ peak_memory' = AtLeast(memory', peak_memory)
        /\ bytes' = bytes
    BY <1>5, <2>3 DEF CreateRegister
  <2>5. Listed' = Listed \cup {h}
    <3>1. /\ \A i \in 0..num_contexts-1 : contexts'[i] = contexts[i]
          /\ contexts'[num_contexts] = h
      BY <2>3, <2>4 DEF IInv, Typed, Slots
    <3> QED
      BY <2>3, <2>4, <3>1 DEF Listed
  <2>6. /\ Total(bytes, Listed \cup {h}) = bytes[h] + Total(bytes, Listed)
        /\ Total(bytes, Listed) \in Nat /\ Total(bytes, Listed \cup {h}) \in Nat
    <3> DEFINE S == Listed \cup {h}
    <3>1. IsFiniteSet(S) /\ h \in S /\ S \ {h} = Listed /\ \A x \in S : bytes[x] \in Nat
      BY <1>2, <2>2, FS_AddElement
    <3> HIDE DEF S
    <3>2. Total(bytes, S) = bytes[h] + Total(bytes, S \ {h}) /\ Total(bytes, S) \in Nat /\ Total(bytes, S \ {h}) \in Nat
      BY <3>1, TotalWithout
    <3> QED
      BY <3>1, <3>2 DEF S
  <2>7. Total(bytes, Listed)' = Total(bytes, Listed \cup {h})
    BY <2>4, <2>5
  <2> HIDE DEF h
  <2>8. memory' = Total(bytes, Listed)' /\ peak_memory' \in Nat /\ peak_memory' >= memory'
    BY <1>2, <2>2, <2>4, <2>6, <2>7 DEF Stats, AtLeast
  <2>9. active' = num_contexts' /\ peak' \in Nat /\ peak' >= active'
    BY <1>2, <2>3, <2>4 DEF Stats, AtLeast
  <2> QED
    BY <1>2, <2>4, <2>8, <2>9 DEF Stats
<1>6. ASSUME NEW t \in Threads, DestroyRemove(t) PROVE Stats'
  <2>1. PICK h \in Listed : Remove(h)
    BY <1>6 DEF DestroyRemove
  <2>2. bytes' = bytes
    BY <1>6 DEF DestroyRemove
  <2> QED
    BY <1>2, <2>1, <2>2, RemoveStats
<1>7. CASE DestroyContext
  <2>1. life = "destroying" /\ walk < count /\ bytes' = bytes
    BY <1>7 DEF DestroyContext
  <2>2. contexts[walk] \in live /\ contexts[walk] # NoHandle
    BY <2>1 DEF IInv, Destroying, Holds, Typed, KvAssumption
  <2>3. Remove(contexts[walk]) /\ contexts[walk] \in Listed
    BY <1>7, <2>1, <2>2 DEF DestroyContext, IInv, Destroying, Listed
  <2> QED
    BY <1>2, <2>1, <2>3, RemoveStats
<1>8. ASSUME NEW t \in Threads, Resize(t) PROVE Stats'
  <2>1. PICK h \in Listed, size \in Sizes :
            memory' = memory - bytes[h] + size /\ bytes' = [bytes EXCEPT ![h] = size]
    BY <1>8 DEF Resize
  <2>2. UNCHANGED <<contexts, num_contexts, active, peak>> /\ peak_memory' = AtLeast(memory', peak_memory)
    BY <1>8 DEF Resize
  <2>3. /\ bytes' \in [Handles -> Nat] /\ bytes'[h] = size /\ size \in Nat /\ bytes[h] \in Nat
        /\ \A x \in Listed : bytes'[x] \in Nat
        /\ \A x \in Listed \ {h} : bytes'[x] = bytes[x]
    BY <1>2, <2>1 DEF KvAssumption
  <2>4. /\ Total(bytes, Listed) = bytes[h] + Total(bytes, Listed \ {h})
        /\ Total(bytes, Listed) \in Nat /\ Total(bytes, Listed \ {h}) \in Nat
    BY <1>2, TotalWithout
  <2>5. Total(bytes', Listed) = size + Total(bytes', Listed \ {h})
    <3>1. \A x \in Listed : bytes'[x] \in Nat
      BY <2>3
    <3> QED
      BY <1>2, <2>3, <3>1, TotalWithout
  <2>6. Total(bytes', Listed \ {h}) = Total(bytes, Listed \ {h})
    <3>1. IsFiniteSet(Listed \ {h})
      BY <1>2, FS_RemoveElement
    <3> QED
      BY <1>2, <2>3, <3>1, TotalSame
  <2>7. Listed' = Listed
    BY <2>2 DEF Listed
  <2>8. Total(bytes, Listed)' = Total(bytes', Listed)
    BY <2>7
  <2>9. memory' = Total(bytes, Listed)' /\ memory' \in Nat
    BY <1>2, <2>1, <2>3, <2>4, <2>5, <2>6, <2>8 DEF Stats
  <2>10. peak_memory' \in Nat /\ peak_memory' >= memory'
    BY <1>2, <2>2, <2>9 DEF Stats, AtLeast
  <2> QED
    BY <1>2, <2>2, <2>3, <2>9, <2>10 DEF Stats
<1> QED
    BY <1>3, <1>4, <1>5, <1>6, <1>7, <1>8 DEF Next, vars, CreateCheck, DestroyFree, DestroyBegin,
       DestroyEnd, Terminated

-----------------------------------------------------------------------------
(* The table lists every allocated context outside a call, each once, for  *)
(* any number of threads, contexts and slots; but for the overrun, which   *)
(* TLC exhibits, creates, resizes and destroys may interleave as they will.*)
THEOREM TableStaysExact ==
    ASSUME KvAssumption
    PROVE  Spec => []TableExact
<1>1. Init => IInv
    BY InitInv
<1>2. IInv /\ [Next]_vars => IInv'
    BY Inductive
<1>3. IInv => TableExact
    BY DEF IInv, Typed, Up, Holds, Inside, TableExact, Listed, InCall
<1> QED
    BY <1>1, <1>2, <1>3, PTL DEF Spec

(* The walk of hbi_kv_manager_destroy never reads a context it has freed   *)
(* already, however the removals rearrange the array.                      *)
THEOREM DestroyNeverReadsFreed ==
    ASSUME KvAssumption
    PROVE  Spec => []DestroyReadsLive
<1>1. Init => IInv
    BY InitInv
<1>2. IInv /\ [Next]_vars => IInv'
    BY Inductive
<1>3. IInv => DestroyReadsLive
    BY DEF IInv, Typed, Destroying, Holds, DestroyReadsLive
<1> QED
    BY <1>1, <1>2, <1>3, PTL DEF Spec

(* It frees every context before the manager itself.                       *)
THEOREM DestroyLeavesNone ==
    ASSUME KvAssumption
    PROVE  Spec => []DestroyFreesAll
<1>1. Init => IInv
    BY InitInv
<1>2. IInv /\ [Next]_vars => IInv'
    BY Inductive
<1>3. IInv => DestroyFreesAll
    BY DEF IInv, Typed, Destroying, DestroyFreesAll
<1> QED
    BY <1>1, <1>2, <1>3, PTL DEF Spec

(* The teardown as a whole: it reads no freed context and leaves none.     *)
THEOREM TeardownIsSound ==
    ASSUME KvAssumption
    PROVE  Spec => []DestroySound
<1>1. DestroyReadsLive /\ DestroyFreesAll => DestroySound
    BY DEF DestroySound
<1> QED
    BY <1>1, DestroyNeverReadsFreed, DestroyLeavesNone, PTL

(* The statistics are exact under concurrent creates, resizes and destroys *)
(* for any number of threads and contexts and any sizes: active contexts   *)
(* and current bytes are those of the table, and the peaks bound them.     *)
THEOREM StatisticsAreExact ==
    ASSUME KvAssumption
    PROVE  Spec => []StatsExact
<1>1. Init => IInv /\ StatsInv
  <2> SUFFICES ASSUME Init PROVE IInv /\ Stats
    BY DEF StatsInv
  <2>1. Listed = {}
    BY DEF Init, Listed
  <2>2. Total(bytes, Listed) = 0
    BY <2>1, TotalEmpty
  <2> QED
    BY <2>2, InitInv DEF Init, Stats
<1>2. IInv /\ StatsInv /\ [Next]_vars => (IInv /\ StatsInv)'
    BY Inductive, StatsStep
<1>3. StatsInv => StatsExact
    BY DEF StatsInv, Stats, StatsExact, Total
<1> QED
    BY <1>1, <1>2, <1>3, PTL DEF Spec
=============================================================================
