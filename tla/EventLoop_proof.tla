--------------------------- MODULE EventLoop_proof ---------------------------
(***************************************************************************)
(* Proofs about EventLoop, for any tasks, threads, capacity and buffers.   *)
(* Inv is inductive; NoLostWakeup and PromisesKept follow from it, and so  *)
(* does the refinement of the mailbox's safety part.                       *)
(***************************************************************************)
EXTENDS EventLoop, TLAPS

----------------------------------------------------------------------------
(* What the queue's operations do to the set of its elements.              *)

\* push_back adds one element.
LEMMA ToSetAppend ==
  ASSUME NEW S, NEW q \in Seq(S), NEW t \in S
  PROVE  Append(q, t) \in Seq(S) /\ ToSet(Append(q, t)) = ToSet(q) \cup {t}
<1> DEFINE a == Append(q, t)
<1>1. /\ a \in Seq(S) /\ Len(a) = Len(q) + 1 /\ Len(q) \in Nat
      /\ \A i \in 1 .. Len(q) : a[i] = q[i]
      /\ a[Len(q) + 1] = t
  OBVIOUS
<1>2. DOMAIN a = 1 .. Len(q) + 1 /\ DOMAIN q = 1 .. Len(q)
  BY <1>1
<1> HIDE DEF a
<1>3. \A i \in DOMAIN a : i \in DOMAIN q \/ i = Len(q) + 1
  BY <1>1, <1>2
<1>4. ToSet(a) \subseteq ToSet(q) \cup {t}
  BY <1>1, <1>2, <1>3 DEF ToSet
<1>5. ToSet(q) \subseteq ToSet(a) /\ t \in ToSet(a)
  BY <1>1, <1>2 DEF ToSet
<1> QED
  BY <1>1, <1>4, <1>5 DEF a

\* front and pop_front split the elements.
LEMMA ToSetTail ==
  ASSUME NEW S, NEW q \in Seq(S), q # <<>>
  PROVE  /\ Head(q) \in S /\ Tail(q) \in Seq(S)
         /\ ToSet(q) = {Head(q)} \cup ToSet(Tail(q))
<1> DEFINE r == Tail(q)
<1>1. /\ Head(q) \in S /\ r \in Seq(S) /\ Len(q) \in Nat \ {0}
      /\ Len(r) = Len(q) - 1 /\ Head(q) = q[1]
      /\ \A i \in 1 .. Len(q) - 1 : r[i] = q[i + 1]
  OBVIOUS
<1>2. DOMAIN r = 1 .. Len(q) - 1 /\ DOMAIN q = 1 .. Len(q)
  BY <1>1
<1> HIDE DEF r
<1>3. ToSet(q) \subseteq {Head(q)} \cup ToSet(r)
  <2> SUFFICES ASSUME NEW i \in 1 .. Len(q), i # 1 PROVE q[i] \in ToSet(r)
    BY <1>1, <1>2 DEF ToSet
  <2>1. i - 1 \in 1 .. Len(q) - 1 /\ r[i - 1] = q[i]
    BY <1>1
  <2> QED
    BY <2>1, <1>2 DEF ToSet
<1>4. {Head(q)} \cup ToSet(r) \subseteq ToSet(q)
  <2>1. Head(q) \in ToSet(q)
    BY <1>1, <1>2 DEF ToSet
  <2>2. ASSUME NEW i \in DOMAIN r PROVE r[i] \in ToSet(q)
    <3>1. i + 1 \in DOMAIN q /\ r[i] = q[i + 1]
      BY <1>1, <1>2, <2>2
    <3> QED
      BY <3>1 DEF ToSet
  <2> QED
    BY <2>1, <2>2 DEF ToSet
<1> QED
  BY <1>1, <1>3, <1>4 DEF r

\* An empty queue has no elements.
LEMMA ToSetEmpty == ToSet(<<>>) = {}
  BY DEF ToSet

----------------------------------------------------------------------------
(* Type correctness.                                                       *)

\* Init is well typed.
LEMMA TypeInit == Init => TypeOK
<1> SUFFICES ASSUME Init PROVE TypeOK
  OBVIOUS
<1>1. m_tasks \in Seq(Tasks) /\ done \in Seq(Tasks)
  BY DEF Init
<1>2. pipe \in 0 .. PipeCap
  BY EventLoopAssumption DEF Init, EventLoopAssumption
<1> QED
  BY <1>1, <1>2 DEF Init, TypeOK

\* Every action keeps the types.
LEMMA TypeStep == TypeOK /\ [Next]_vars => TypeOK'
<1> SUFFICES ASSUME TypeOK, [Next]_vars PROVE TypeOK'
  OBVIOUS
<1> USE EventLoopAssumption DEF EventLoopAssumption, TypeOK
<1>1. ASSUME NEW p \in Posters, NEW t \in Tasks, Push(p, t) PROVE TypeOK'
  <2>1. m_tasks' \in Seq(Tasks)
    BY <1>1, ToSetAppend DEF Push
  <2> QED
    BY <1>1, <2>1 DEF Push
<1>2. ASSUME NEW p \in Posters, Wakeup(p) PROVE TypeOK'
  BY <1>2 DEF Wakeup
<1>3. ASSUME NEW p \in Posters, Exit(p) PROVE TypeOK'
  BY <1>3 DEF Exit, callVars
<1>4. CASE Check
  BY <1>4 DEF Check, callVars
<1>5. CASE Select
  BY <1>5 DEF Select, callVars
<1>6. CASE Recv
  BY <1>6 DEF Recv, callVars
<1>7. CASE Pop
  <2>1. CASE m_tasks = <<>>
    BY <1>7, <2>1 DEF Pop, callVars
  <2>2. CASE m_tasks # <<>>
    <3>1. done' = Append(done, Head(m_tasks)) /\ m_tasks' = Tail(m_tasks) /\ pc' = "run"
      BY <1>7, <2>2 DEF Pop
    <3>2. Head(m_tasks) \in Tasks /\ Tail(m_tasks) \in Seq(Tasks)
      BY <2>2, ToSetTail
    <3>3. done' \in Seq(Tasks)
      BY <3>1, <3>2, ToSetAppend
    <3> QED
      BY <1>7, <3>1, <3>2, <3>3 DEF Pop, callVars
  <2> QED
    BY <2>1, <2>2
<1>8. CASE Run
  BY <1>8 DEF Run, callVars
<1>9. CASE Callbacks
  BY <1>9 DEF Callbacks, callVars
<1>10. CASE UNCHANGED vars
  BY <1>10 DEF vars, callVars
<1> QED
  BY <1>1, <1>2, <1>3, <1>4, <1>5, <1>6, <1>7, <1>8, <1>9, <1>10
     DEF Next, LoopStep, PosterStep, Ended

\* Every variable keeps its type: in particular the pipe holds at most PipeCap
\* bytes, because send blocks, and never less than none, because recv takes
\* only what is there.
THEOREM TypeCorrect == Spec => []TypeOK
BY TypeInit, TypeStep, PTL DEF Spec

----------------------------------------------------------------------------
(* The inductive invariant.                                                *)

\* The two ways m_tasks and done change.
LEMMA PushElems ==
  ASSUME TypeOK, NEW p \in Posters, NEW t \in Tasks, Push(p, t)
  PROVE  /\ Taken' = Taken
         /\ \/ Queued' = Queued /\ posting' = [posting EXCEPT ![p] = Lost]
            \/ Queued' = Queued \cup {t} /\ posting' = [posting EXCEPT ![p] = t]
<1>1. CASE Full
  BY <1>1 DEF Push, Queued, Taken
<1>2. CASE ~Full
  <2>1. m_tasks' = Append(m_tasks, t)
    BY <1>2 DEF Push
  <2> QED
    BY <1>2, <2>1, ToSetAppend DEF Push, TypeOK, Queued, Taken
<1> QED
  BY <1>1, <1>2

\* What pop takes out of the set of queued tasks.
LEMMA PopElems ==
  ASSUME TypeOK, Pop, m_tasks # <<>>
  PROVE  /\ Queued = {Head(m_tasks)} \cup Queued'
         /\ Taken' = Taken \cup {Head(m_tasks)}
<1>1. done' = Append(done, Head(m_tasks)) /\ m_tasks' = Tail(m_tasks)
  BY DEF Pop
<1>2. m_tasks \in Seq(Tasks) /\ done \in Seq(Tasks)
  BY DEF TypeOK
<1>3. Head(m_tasks) \in Tasks /\ ToSet(m_tasks) = {Head(m_tasks)} \cup ToSet(Tail(m_tasks))
  BY <1>2, ToSetTail
<1>4. ToSet(Append(done, Head(m_tasks))) = ToSet(done) \cup {Head(m_tasks)}
  BY <1>2, <1>3, ToSetAppend
<1> QED
  BY <1>1, <1>3, <1>4 DEF Queued, Taken

\* An empty queue, and only that, has no elements.
LEMMA EmptyElems ==
  ASSUME TypeOK PROVE m_tasks = <<>> <=> Queued = {}
<1>1. m_tasks \in Seq(Tasks)
  BY DEF TypeOK
<1>2. CASE m_tasks = <<>>
  BY <1>2, ToSetEmpty DEF Queued
<1>3. CASE m_tasks # <<>>
  <2>1. Head(m_tasks) \in ToSet(m_tasks)
    BY <1>1, <1>3, ToSetTail
  <2> QED
    BY <1>3, <2>1 DEF Queued
<1> QED
  BY <1>2, <1>3

\* Nothing is queued, and no byte sent.
LEMMA InvInit == Init => Inv
<1> SUFFICES ASSUME Init PROVE Inv
  OBVIOUS
<1>1. TypeOK
  BY TypeInit
<1>2. ToSet(m_tasks) = {} /\ ToSet(done) = {}
  BY ToSetEmpty DEF Init
<1>3. NoLostWakeup
  BY DEF Init, NoLostWakeup
<1>4. Fresh /\ ByteForPromise
  BY <1>2 DEF Fresh, ByteForPromise, Queued, Taken
<1>5. Accounted
  BY <1>2, EventLoopAssumption DEF Init, Accounted, Queued, Taken, EventLoopAssumption
<1>6. LastPass
  BY DEF Init, LastPass
<1> QED
  BY <1>1, <1>3, <1>4, <1>5, <1>6 DEF Inv

\* A push into m_tasks: its poster owes the loop a byte, unless the queue was full.
LEMMA InvPush ==
  ASSUME Inv, TypeOK', NEW p \in Posters, NEW t \in Tasks, Push(p, t)
  PROVE  Inv'
<1> USE DEF Inv
<1>1. /\ posting[p] = None /\ t \in unposted /\ unposted' = unposted \ {t}
      /\ UNCHANGED <<pipe, m_exit, pc, last, done, promised>>
  BY DEF Push, Free
<1>2. /\ Taken' = Taken
      /\ \/ Queued' = Queued /\ posting' = [posting EXCEPT ![p] = Lost]
         \/ Queued' = Queued \cup {t} /\ posting' = [posting EXCEPT ![p] = t]
  BY PushElems
<1>3. posting \in [Posters -> Tasks \cup {None, Lost}] /\ Lost \notin Tasks
      /\ None \notin Tasks /\ None # Lost
  BY EventLoopAssumption DEF TypeOK, EventLoopAssumption
<1>4. NoLostWakeup'
  BY <1>2, <1>3 DEF NoLostWakeup
<1>5. t \notin promised
  BY <1>1 DEF Fresh, Accounted
<1>6. Fresh'
  BY <1>1, <1>2 DEF Fresh
<1>7. Accounted'
  BY <1>1, <1>2, <1>3 DEF Accounted
<1>8. ByteForPromise' /\ LastPass'
  BY <1>1, <1>2, <1>5 DEF ByteForPromise, LastPass, Draining
<1> QED
  BY <1>4, <1>6, <1>7, <1>8

\* The byte that was owed is sent.
LEMMA InvWakeup ==
  ASSUME Inv, TypeOK', NEW p \in Posters, Wakeup(p)
  PROVE  Inv'
<1> USE DEF Inv
<1>1. /\ pipe' = pipe + 1 /\ pipe \in Nat
      /\ posting' = [posting EXCEPT ![p] = None]
      /\ UNCHANGED <<m_tasks, m_exit, pc, last, unposted, done>>
  BY EventLoopAssumption DEF Wakeup, TypeOK, EventLoopAssumption
<1>2. pipe' > 0
  BY <1>1
<1>3. Queued' = Queued /\ Taken' = Taken
  BY <1>1 DEF Queued, Taken
<1>4. /\ promised' \subseteq promised \cup ({posting[p]} \ {Lost, None})
      /\ m_exit => promised' = promised
  BY EventLoopAssumption DEF Wakeup, Accounted, TypeOK, EventLoopAssumption
<1>5. NoLostWakeup' /\ ByteForPromise'
  BY <1>2 DEF NoLostWakeup, ByteForPromise
<1>6. Fresh'
  BY <1>1, <1>3 DEF Fresh
<1>7. Accounted'
  <2>1. posting \in [Posters -> Tasks \cup {None, Lost}] /\ None \notin Tasks
    BY EventLoopAssumption DEF TypeOK, EventLoopAssumption
  <2> QED
    BY <1>1, <1>3, <1>4, <2>1 DEF Accounted
<1>8. LastPass'
  BY <1>1, <1>3, <1>4 DEF LastPass
<1> QED
  BY <1>5, <1>6, <1>7, <1>8

\* The flag is set, and what was promised is from now on fixed.
LEMMA InvExit ==
  ASSUME Inv, TypeOK', NEW p \in Posters, Exit(p)
  PROVE  Inv'
BY DEF Inv, Exit, callVars, NoLostWakeup, Fresh, Accounted, ByteForPromise, LastPass,
       Queued, Taken, Draining

\* A pop takes a task, or ends the pass.
LEMMA InvPop ==
  ASSUME Inv, TypeOK', Pop
  PROVE  Inv'
<1> USE DEF Inv
<1>1. /\ pc = "pop" /\ posting[Loop] = None
      /\ UNCHANGED <<pipe, m_exit, last, posting, unposted, promised>>
  BY DEF Pop, At, callVars
<1>2. CASE m_tasks = <<>>
  <2>1. pc' = "callbacks" /\ UNCHANGED <<m_tasks, done>>
    BY <1>2 DEF Pop
  <2>2. Queued = {} /\ Queued' = Queued /\ Taken' = Taken
    BY <1>2, <2>1, EmptyElems DEF Queued, Taken
  <2> QED
    BY <1>1, <1>2, <2>1, <2>2
       DEF NoLostWakeup, Fresh, Accounted, ByteForPromise, LastPass
<1>3. CASE m_tasks # <<>>
  <2>1. pc' = "run"
    BY <1>3 DEF Pop
  <2>2. Queued' \subseteq Queued /\ Queued' \cup Taken' = Queued \cup Taken
    BY <1>3, PopElems
  <2> QED
    BY <1>1, <2>1, <2>2
       DEF NoLostWakeup, Fresh, Accounted, ByteForPromise, LastPass, Draining
<1> QED
  BY <1>2, <1>3

\* The steps of the loop thread that leave the queue alone.
LEMMA InvQuiet ==
  ASSUME Inv, TypeOK', Check \/ Select \/ Recv \/ Run \/ Callbacks \/ UNCHANGED vars
  PROVE  Inv'
<1> USE DEF Inv
<1>1. UNCHANGED <<m_tasks, m_exit, posting, unposted, promised, done>>
  BY DEF Check, Select, Recv, Run, Callbacks, vars, callVars
<1>2. Queued' = Queued /\ Taken' = Taken
  BY <1>1 DEF Queued, Taken
<1>3. Fresh' /\ Accounted'
  BY <1>1, <1>2 DEF Fresh, Accounted
<1>4. CASE Check
  BY <1>1, <1>2, <1>3, <1>4
     DEF Check, At, NoLostWakeup, ByteForPromise, LastPass, Draining
<1>5. CASE Select
  <2>1. pipe \in Nat
    BY DEF TypeOK
  <2> QED
    BY <1>1, <1>2, <1>3, <1>5, <2>1
       DEF Select, At, NoLostWakeup, ByteForPromise, LastPass, Draining
<1>6. CASE Recv
  BY <1>1, <1>2, <1>3, <1>6
     DEF Recv, At, NoLostWakeup, ByteForPromise, LastPass, Draining
<1>7. CASE Run
  BY <1>1, <1>2, <1>3, <1>7
     DEF Run, At, NoLostWakeup, ByteForPromise, LastPass, Draining
<1>8. CASE Callbacks
  BY <1>1, <1>2, <1>3, <1>8
     DEF Callbacks, At, NoLostWakeup, ByteForPromise, LastPass, Draining
<1>9. CASE UNCHANGED vars
  BY <1>1, <1>2, <1>3, <1>9
     DEF vars, NoLostWakeup, ByteForPromise, LastPass, Draining
<1> QED
  BY <1>4, <1>5, <1>6, <1>7, <1>8, <1>9

\* Every action keeps the invariant.
LEMMA InvStep == Inv /\ [Next]_vars => Inv'
<1> SUFFICES ASSUME Inv, [Next]_vars PROVE Inv'
  OBVIOUS
<1>1. TypeOK'
  BY TypeStep DEF Inv
<1>2. ASSUME NEW p \in Posters, PosterStep(p) PROVE Inv'
  BY <1>1, <1>2, InvPush, InvWakeup, InvExit DEF PosterStep
<1>3. CASE LoopStep
  BY <1>1, <1>3, InvPop, InvQuiet DEF LoopStep
<1>4. CASE Ended \/ UNCHANGED vars
  BY <1>1, <1>4, InvQuiet DEF Ended
<1> QED
  BY <1>2, <1>3, <1>4 DEF Next

\* The invariant of the loop holds in every state.
THEOREM Invariant == Spec => []Inv
BY InvInit, InvStep, PTL DEF Spec

\* However posts, sends, receipts and pops interleave, a queued task always
\* has a byte in the pipe, a send coming, or the drain loop ahead of it.
THEOREM WakeupNotLost == Spec => []NoLostWakeup
<1>1. Inv => NoLostWakeup
  BY DEF Inv
<1> QED
  BY <1>1, Invariant, PTL

\* When Loop has returned, each accepted task whose SafeCall returned before
\* Exit was called has been run.
THEOREM PromisesAreKept == Spec => []PromisesKept
<1>1. Inv => PromisesKept
  BY DEF Inv, PromisesKept, LastPass, Accounted
<1> QED
  BY <1>1, Invariant, PTL

----------------------------------------------------------------------------
(* Refinement: Push accepts, or stutters on a full queue; Pop takes; Exit  *)
(* closes; every other step stutters.                                      *)

\* A step of the loop is one of the mailbox, or changes nothing of it.
LEMMA MailboxStep == Inv /\ [Next]_vars => [MB!Next]_(MB!vars)
<1> SUFFICES ASSUME Inv, [Next]_vars PROVE [MB!Next]_(MB!vars)
  OBVIOUS
<1> USE DEF MB!Next, MB!vars
<1>1. ASSUME NEW p \in Posters, NEW t \in Tasks, Push(p, t)
      PROVE  [MB!Next]_(MB!vars)
  <2>1. CASE Full
    BY <1>1, <2>1 DEF Push
  <2>2. CASE ~Full
    <3>1. t \notin Queued \cup Taken
      BY <1>1 DEF Push, Inv, Fresh
    <3>2. MB!Accept(t)
      BY <1>1, <2>2, <3>1 DEF Push, MB!Accept, MB!ToSet, ToSet, Queued, Taken
    <3> QED
      BY <3>2
  <2> QED
    BY <2>1, <2>2
<1>2. ASSUME NEW p \in Posters, Wakeup(p) PROVE [MB!Next]_(MB!vars)
  BY <1>2 DEF Wakeup
<1>3. ASSUME NEW p \in Posters, Exit(p) PROVE [MB!Next]_(MB!vars)
  BY <1>3 DEF Exit, MB!Close
<1>4. CASE Pop
  BY <1>4 DEF Pop, MB!Take
<1>5. CASE Check \/ Select \/ Recv \/ Run \/ Callbacks \/ UNCHANGED vars
  BY <1>5 DEF Check, Select, Recv, Run, Callbacks, vars
<1> QED
  BY <1>1, <1>2, <1>3, <1>4, <1>5 DEF Next, LoopStep, PosterStep, Ended

\* The loop implements the safety part of the mailbox: tasks are run at most
\* once and in the order in which push accepted them.
THEOREM Refinement == Spec => ImplementsMailboxSafety
<1>1. Init => MB!Init
  BY DEF Init, MB!Init
<1> QED
  BY <1>1, Invariant, MailboxStep, PTL DEF Spec, ImplementsMailboxSafety, MB!Safety
=============================================================================
