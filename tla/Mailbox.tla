------------------------------ MODULE Mailbox ------------------------------
(***************************************************************************)
(* What EventBase::SafeCall promises, without threads or pipe: a task that *)
(* is accepted is run at most once and in the order of acceptance, and,    *)
(* while nobody asks the loop to exit, is run eventually.                  *)
(***************************************************************************)
EXTENDS Sequences, SequencesExt

CONSTANT Tasks      \* closures, each posted at most once

VARIABLES queue,    \* accepted and not yet taken
          done,     \* taken, in order
          closed    \* Exit was called

vars == <<queue, done, closed>>

Init == queue = <<>> /\ done = <<>> /\ closed = FALSE

Accept(t) ==
  /\ t \notin ToSet(queue) \cup ToSet(done)
  /\ queue' = Append(queue, t)
  /\ UNCHANGED <<done, closed>>

Take ==
  /\ queue # <<>>
  /\ done' = Append(done, Head(queue))
  /\ queue' = Tail(queue)
  /\ UNCHANGED closed

Close ==
  /\ closed' = TRUE
  /\ UNCHANGED <<queue, done>>

Next == (\E t \in Tasks : Accept(t)) \/ Take \/ Close

\* The safety part, and the promise with its liveness: an open mailbox with a
\* task in it is not left alone.
Safety == Init /\ [][Next]_vars
Spec == Safety /\ WF_vars(~closed /\ Take)
=============================================================================
