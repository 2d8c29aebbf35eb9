------------------------------ MODULE TaskQueue ------------------------------
(***************************************************************************)
(* What threadpool.h promises of a pool, without workers, ring buffer,     *)
(* mutex or condition variables: a task that was accepted waits in FIFO    *)
(* order, runs once, and is done; a closed queue accepts nothing more but  *)
(* still finishes what it accepted.                                        *)
(***************************************************************************)
EXTENDS Sequences

CONSTANT Tasks          \* the tasks callers may submit, each at most once

VARIABLES todo,         \* accepted and not started, in order of acceptance
          active,       \* started and not returned
          done,         \* returned
          open          \* whether submissions are still accepted

vars == <<todo, active, done, open>>

Known == {todo[i] : i \in DOMAIN todo} \cup active \cup done

Init ==
    /\ todo = <<>>
    /\ active = {}
    /\ done = {}
    /\ open = TRUE

\* hbi_threadpool_submit / hbi_threadpool_try_submit returning HBI_OK.
Accept(t) ==
    /\ open
    /\ t \notin Known
    /\ todo' = Append(todo, t)
    /\ UNCHANGED <<active, done, open>>

\* Some worker takes the oldest task.
Begin ==
    /\ todo # <<>>
    /\ active' = active \cup {Head(todo)}
    /\ todo' = Tail(todo)
    /\ UNCHANGED <<done, open>>

\* The function of a started task returns.
End(t) ==
    /\ t \in active
    /\ active' = active \ {t}
    /\ done' = done \cup {t}
    /\ UNCHANGED <<todo, open>>

\* hbi_threadpool_destroy (or a failed create) stops further submissions.
Close ==
    /\ open
    /\ open' = FALSE
    /\ UNCHANGED <<todo, active, done>>

Next ==
    \/ \E t \in Tasks : Accept(t) \/ End(t)
    \/ Begin
    \/ Close

\* An accepted task is started, and a started task returns.
Spec ==
    /\ Init
    /\ [][Next]_vars
    /\ WF_vars(Begin)
    /\ \A t \in Tasks : WF_vars(End(t))
=============================================================================
