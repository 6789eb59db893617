---------------------------- MODULE MCWorkerPool ----------------------------
(* WorkerPool for TLC: tasks are numbered and belong, alternately, to the  *)
(* connections with channel ids 3 and 4.                                   *)
EXTENDS WorkerPool

MCConnOf == [t \in Tasks |-> 3 + (t % 2)]
=============================================================================
