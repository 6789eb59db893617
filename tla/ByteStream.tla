----------------------------- MODULE ByteStream -----------------------------
(***************************************************************************)
(* What a TcpConn promises to those who send on it: until the connection   *)
(* ends, its peer receives the messages whole, once and in the order in    *)
(* which they were accepted.                                               *)
(***************************************************************************)
EXTENDS Sequences, SequencesExt

CONSTANTS Msgs, Bytes(_)    \* messages, and the bytes of one

VARIABLES accepted,   \* bytes of the messages accepted, in order
          wire,       \* bytes handed to the network
          ended

vars == <<accepted, wire, ended>>

Init == accepted = <<>> /\ wire = <<>> /\ ended = FALSE

Accept(m) ==
  /\ accepted' = accepted \o Bytes(m)
  /\ UNCHANGED <<wire, ended>>

Transmit ==
  /\ ~ended
  /\ \E n \in (Len(wire) + 1) .. Len(accepted) : wire' = SubSeq(accepted, 1, n)
  /\ UNCHANGED <<accepted, ended>>

End ==
  /\ ended' = TRUE
  /\ UNCHANGED <<accepted, wire>>

Next == (\E m \in Msgs : Accept(m)) \/ Transmit \/ End

Spec == Init /\ [][Next]_vars /\ WF_vars(Transmit)
=============================================================================
