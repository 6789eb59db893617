----------------------------- MODULE MCReactor -----------------------------
(* Reactor for TLC: connections are interchangeable, and so are sockets,   *)
(* when each peer sends one message; not when only one of them sends any.  *)
EXTENDS Reactor, TLC

MCOneEach == [c \in Conns |-> 1]

MCTwoAndNone == [c \in Conns |-> IF c = CHOOSE d \in Conns : TRUE THEN 2 ELSE 0]

Symmetry == Permutations(Conns) \cup Permutations(Fds)
=============================================================================
