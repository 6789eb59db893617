----------------------------- MODULE MCSendPath -----------------------------
(* SendPath for TLC: the messages are interchangeable.                     *)
EXTENDS SendPath, TLC

Symmetry == Permutations(Msgs)
=============================================================================
