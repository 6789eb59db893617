---------------------------- MODULE MCEventLoop ----------------------------
(* EventLoop for TLC: tasks are interchangeable, and so are callers.       *)
EXTENDS EventLoop, TLC

Symmetry == Permutations(Tasks) \cup Permutations(Callers)
=============================================================================
