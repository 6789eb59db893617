----------------------------- MODULE MCFraming -----------------------------
(* Framing for TLC: its constants are numbers, which the cfg gives, and the *)
(* contents of new memory, a model value.                                  *)
EXTENDS Framing
=============================================================================
