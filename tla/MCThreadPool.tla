---------------------------- MODULE MCThreadPool ----------------------------
(* Instances of ThreadPool for TLC.  Workers, clients and tasks are          *)
(* interchangeable in the safety run; the liveness run uses no symmetry.     *)
EXTENDS ThreadPool, TLC

CONSTANTS w1, w2, c1, c2, c3, t1, t2, t3, t4

TwoWorkers == {w1, w2}
TwoClients == {c1, c2}
ThreeClients == {c1, c2, c3}
ThreeTasks == {t1, t2, t3}
FourTasks == {t1, t2, t3, t4}
Symmetry == Permutations(TwoWorkers) \cup Permutations(ThreeClients) \cup Permutations(FourTasks)
=============================================================================
