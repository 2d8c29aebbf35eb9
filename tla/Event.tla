------------------------------- MODULE Event -------------------------------
(***************************************************************************)
(* The manual-reset event of src/platform/platform.c, built on a mutex and *)
(* a condition variable.  The mutex and the condition variable are POSIX's *)
(* as that file wraps them: a wait gives the mutex up and sleeps in one    *)
(* step, and may wake for no reason ("Spurious wakeups are possible",      *)
(* platform.h:121).                                                        *)
(***************************************************************************)
EXTENDS Naturals

CONSTANTS
    Threads,
    NoThread          \* the owner of a free mutex

Operations == {"set", "reset", "wait", "is_set"}

VARIABLES
    life,             \* "none", "mutex", "up": how far hbi_event_init got
    is_set,
    owner,            \* holder of e->m
    pc,               \* per thread: "idle", "lock", "body", "broadcast",
                      \* "asleep", "relock", "unlock"
    op,               \* per thread: the operation it is in
    saw               \* per thread: what its last operation found is_set to be

vars == <<life, is_set, owner, pc, op, saw>>

Init ==
    /\ life = "none"
    /\ is_set \in BOOLEAN
    /\ owner = NoThread
    /\ pc = [t \in Threads |-> "idle"]
    /\ op = [t \in Threads |-> "set"]
    /\ saw = [t \in Threads |-> FALSE]

-----------------------------------------------------------------------------
(* hbi_event_init takes the mutex, then the condition variable; a failure  *)
(* of the second gives the first back.  hbi_event_destroy needs all calls  *)
(* to have returned.                                                       *)
InitMutex ==
    /\ life = "none"
    /\ life' = "mutex"
    /\ UNCHANGED <<is_set, owner, pc, op, saw>>

InitCond ==
    /\ life = "mutex"
    /\ life' \in {"up", "none"}
    /\ UNCHANGED <<is_set, owner, pc, op, saw>>

Destroy ==
    /\ life = "up"
    /\ \A t \in Threads : pc[t] = "idle"
    /\ life' = "none"
    /\ is_set' \in BOOLEAN
    /\ UNCHANGED <<owner, pc, op, saw>>

-----------------------------------------------------------------------------
Call(t, o) ==
    /\ life = "up" /\ pc[t] = "idle"
    /\ pc' = [pc EXCEPT ![t] = "lock"]
    /\ op' = [op EXCEPT ![t] = o]
    /\ UNCHANGED <<life, is_set, owner, saw>>

\* hbi_mutex_lock, and the same inside hbi_cond_wait on waking.
Lock(t) ==
    /\ pc[t] \in {"lock", "relock"}
    /\ owner = NoThread
    /\ owner' = t
    /\ pc' = [pc EXCEPT ![t] = "body"]
    /\ UNCHANGED <<life, is_set, op, saw>>

\* Mutant: set wakes nobody.
SetSilent(t) ==
    /\ pc[t] = "body" /\ op[t] = "set"
    /\ is_set' = TRUE
    /\ pc' = [pc EXCEPT ![t] = "unlock"]
    /\ UNCHANGED <<life, owner, op, saw>>

\* hbi_event_set: the store, then the broadcast, under the mutex.
Set(t) ==
    /\ pc[t] = "body" /\ op[t] = "set"
    /\ is_set' = TRUE
    /\ pc' = [pc EXCEPT ![t] = "broadcast"]
    /\ UNCHANGED <<life, owner, op, saw>>

Broadcast(t) ==
    /\ pc[t] = "broadcast"
    /\ pc' = [u \in Threads |-> IF u = t THEN "unlock"
                                ELSE IF pc[u] = "asleep" THEN "relock" ELSE pc[u]]
    /\ UNCHANGED <<life, is_set, owner, op, saw>>

\* hbi_event_reset.
Reset(t) ==
    /\ pc[t] = "body" /\ op[t] = "reset"
    /\ is_set' = FALSE
    /\ pc' = [pc EXCEPT ![t] = "unlock"]
    /\ UNCHANGED <<life, owner, op, saw>>

\* hbi_event_is_set.
IsSet(t) ==
    /\ pc[t] = "body" /\ op[t] = "is_set"
    /\ saw' = [saw EXCEPT ![t] = is_set]
    /\ pc' = [pc EXCEPT ![t] = "unlock"]
    /\ UNCHANGED <<life, is_set, owner, op>>

\* hbi_event_wait: leave when set, else hbi_cond_wait.
Wait(t) ==
    /\ pc[t] = "body" /\ op[t] = "wait"
    /\ saw' = [saw EXCEPT ![t] = is_set]
    /\ IF is_set
       THEN pc' = [pc EXCEPT ![t] = "unlock"] /\ UNCHANGED owner
       ELSE pc' = [pc EXCEPT ![t] = "asleep"] /\ owner' = NoThread
    /\ UNCHANGED <<life, is_set, op>>

SpuriousWakeup(t) ==
    /\ pc[t] = "asleep"
    /\ pc' = [pc EXCEPT ![t] = "relock"]
    /\ UNCHANGED <<life, is_set, owner, op, saw>>

Unlock(t) ==
    /\ pc[t] = "unlock"
    /\ owner' = NoThread
    /\ pc' = [pc EXCEPT ![t] = "idle"]
    /\ UNCHANGED <<life, is_set, op, saw>>

Next ==
    \/ InitMutex
    \/ InitCond
    \/ Destroy
    \/ \E t \in Threads :
          \/ \E o \in Operations : Call(t, o)
          \/ Lock(t) \/ Set(t) \/ Broadcast(t) \/ Reset(t) \/ IsSet(t)
          \/ Wait(t) \/ SpuriousWakeup(t) \/ Unlock(t)

Spec == Init /\ [][Next]_vars

-----------------------------------------------------------------------------
(* No wake-up is lost: a thread asleep in hbi_event_wait while the event   *)
(* is set is one whose setter still holds the mutex and is about to        *)
(* broadcast.                                                              *)
NoLostWakeup ==
    \A t \in Threads :
        pc[t] = "asleep" /\ is_set =>
            \E u \in Threads : pc[u] = "broadcast" /\ owner = u

(* A wait that returns does so having seen the event set while it held the *)
(* mutex, however many spurious wake-ups, or resets that overtook a        *)
(* broadcast, came before.                                                 *)
WaitSawSet ==
    \A t \in Threads : pc[t] \in {"unlock", "idle"} /\ op[t] = "wait" => saw[t]

\* A wait returns when, and only when, the event was set.
WaitsMeetSets == NoLostWakeup /\ WaitSawSet
=============================================================================
