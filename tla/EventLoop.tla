----------------------------- MODULE EventLoop -----------------------------
(***************************************************************************)
(* EventBase::SafeCall, Wakeup, Exit and Loop: threads hand tasks to the   *)
(* loop thread through the SafeQueue m_tasks, and wake its select with a   *)
(* byte in a loopback connection.  push and send are separate steps, as    *)
(* are recv and each pop of the drain loop, so a post may fall between any *)
(* two of the loop's.                                                      *)
(***************************************************************************)
EXTENDS Integers, Sequences, SequencesExt

CONSTANTS
  Tasks,     \* closures, each posted at most once
  Callers,   \* threads that call SafeCall and Exit
  Loop,      \* the loop thread, which calls them too, from its callbacks
  None,      \* not in SafeCall
  Lost,      \* in SafeCall, with a task that push refused
  Capacity,  \* of m_tasks, 0 for no limit
  PipeCap,   \* bytes the loopback connection buffers before send blocks
  RecvMax    \* size of the wakeup callback's buffer, 1024 in the code

Posters == Callers \cup {Loop}

ASSUME EventLoopAssumption ==
  /\ Loop \notin Callers
  /\ None \notin Tasks /\ Lost \notin Tasks /\ None # Lost
  /\ Capacity \in Nat
  /\ PipeCap \in Nat \ {0}
  /\ RecvMax \in Nat \ {0}

VARIABLES
  m_tasks,   \* SafeQueue<Task>::items_
  pipe,      \* unread bytes in the loopback connection
  m_exit,    \* EventBase::m_exit
  pc,        \* where the loop thread is
  last,      \* it is in the LoopOnce(0) after the while loop
  posting,   \* between push and send: each thread's task
  unposted,  \* tasks not posted yet
  done,      \* history: tasks taken from m_tasks, in order
  promised   \* history: accepted tasks whose SafeCall returned before Exit

callVars == <<posting, unposted, promised>>
vars == <<m_tasks, pipe, m_exit, pc, last, callVars, done>>

Init ==
  /\ m_tasks = <<>> /\ pipe = 0 /\ m_exit = FALSE
  /\ pc = "check" /\ last = FALSE
  /\ posting = [p \in Posters |-> None]
  /\ unposted = Tasks
  /\ done = <<>> /\ promised = {}

----------------------------------------------------------------------------
(* Any thread.  The loop thread calls these from a task it runs, or from   *)
(* another channel's handler or a timer.                                   *)

Free(p) == posting[p] = None /\ (p = Loop => pc \in {"run", "callbacks"})

Full == Capacity # 0 /\ Len(m_tasks) >= Capacity

\* SafeCall: push, whose result is ignored ...
Push(p, t) ==
  /\ Free(p) /\ t \in unposted
  /\ unposted' = unposted \ {t}
  /\ IF Full
     THEN posting' = [posting EXCEPT ![p] = Lost] /\ UNCHANGED m_tasks
     ELSE posting' = [posting EXCEPT ![p] = t] /\ m_tasks' = Append(m_tasks, t)
  /\ UNCHANGED <<pipe, m_exit, pc, last, done, promised>>

\* Mutant: only the task that finds the queue empty wakes the loop.
WakeupIfFirst(p) ==
  /\ posting[p] # None /\ pipe < PipeCap
  /\ pipe' = IF Len(m_tasks) = 1 THEN pipe + 1 ELSE pipe
  /\ posting' = [posting EXCEPT ![p] = None]
  /\ promised' = IF m_exit \/ posting[p] = Lost THEN promised ELSE promised \cup {posting[p]}
  /\ UNCHANGED <<m_tasks, m_exit, pc, last, unposted, done>>

\* ... then Wakeup: a blocking send of one byte.
Wakeup(p) ==
  /\ posting[p] # None /\ pipe < PipeCap
  /\ pipe' = pipe + 1
  /\ posting' = [posting EXCEPT ![p] = None]
  /\ promised' = IF m_exit \/ posting[p] = Lost THEN promised ELSE promised \cup {posting[p]}
  /\ UNCHANGED <<m_tasks, m_exit, pc, last, unposted, done>>

\* Exit sets the flag and wakes nobody.
Exit(p) ==
  /\ Free(p)
  /\ m_exit' = TRUE
  /\ UNCHANGED <<m_tasks, pipe, pc, last, callVars, done>>

----------------------------------------------------------------------------
(* The loop thread.                                                        *)

At(label) == pc = label /\ posting[Loop] = None

\* Mutant: the loop ends without its last LoopOnce(0).
CheckLeaves ==
  /\ At("check")
  /\ last' = m_exit
  /\ pc' = IF m_exit THEN "ended" ELSE "select"
  /\ UNCHANGED <<m_tasks, pipe, m_exit, callVars, done>>

\* while (!m_exit) LoopOnce(3000), and after it LoopOnce(0).
Check ==
  /\ At("check")
  /\ last' = m_exit
  /\ pc' = "select"
  /\ UNCHANGED <<m_tasks, pipe, m_exit, callVars, done>>

\* select returns: the wakeup channel, the first in the list, is ready or not
\* (another channel is, or the wait is over).
Select ==
  /\ At("select")
  /\ pc' = IF pipe > 0 THEN "recv" ELSE "callbacks"
  /\ UNCHANGED <<m_tasks, pipe, m_exit, last, callVars, done>>

\* The wakeup callback reads what its buffer holds ...
Recv ==
  /\ At("recv")
  /\ pipe' = IF pipe > RecvMax THEN pipe - RecvMax ELSE 0
  /\ pc' = "pop"
  /\ UNCHANGED <<m_tasks, m_exit, last, callVars, done>>

\* Mutant: the newest task is taken first.
PopBack ==
  /\ At("pop")
  /\ IF m_tasks = <<>>
     THEN pc' = "callbacks" /\ UNCHANGED <<m_tasks, done>>
     ELSE /\ done' = Append(done, Last(m_tasks))
          /\ m_tasks' = Front(m_tasks)
          /\ pc' = "run"
  /\ UNCHANGED <<pipe, m_exit, last, callVars>>

\* ... then pops and runs tasks until pop_wait(&task, 0) finds none.
Pop ==
  /\ At("pop")
  /\ IF m_tasks = <<>>
     THEN pc' = "callbacks" /\ UNCHANGED <<m_tasks, done>>
     ELSE /\ done' = Append(done, Head(m_tasks))
          /\ m_tasks' = Tail(m_tasks)
          /\ pc' = "run"
  /\ UNCHANGED <<pipe, m_exit, last, callVars>>

\* Mutant: one task for each wakeup.
RunOne ==
  /\ At("run")
  /\ pc' = "callbacks"
  /\ UNCHANGED <<m_tasks, pipe, m_exit, last, callVars, done>>

\* The task returns.
Run ==
  /\ At("run")
  /\ pc' = "pop"
  /\ UNCHANGED <<m_tasks, pipe, m_exit, last, callVars, done>>

\* Mutant: the loop does not go back to its condition.
CallbacksForever ==
  /\ At("callbacks")
  /\ pc' = "select"
  /\ UNCHANGED <<m_tasks, pipe, m_exit, last, callVars, done>>

\* The other handlers and HandleTimeouts return, and LoopOnce with them.
Callbacks ==
  /\ At("callbacks")
  /\ pc' = IF last THEN "ended" ELSE "check"
  /\ UNCHANGED <<m_tasks, pipe, m_exit, last, callVars, done>>

\* Loop has returned; other threads may still post.
Ended == pc = "ended" /\ UNCHANGED vars

LoopStep == Check \/ Select \/ Recv \/ Pop \/ Run \/ Callbacks

PosterStep(p) ==
  \/ \E t \in Tasks : Push(p, t)
  \/ Wakeup(p)
  \/ Exit(p)

Next == LoopStep \/ Ended \/ \E p \in Posters : PosterStep(p)

\* The loop thread and each caller inside SafeCall keep running; nobody has to
\* post or to call Exit.
Spec == Init /\ [][Next]_vars
FairSpec == /\ Spec
            /\ WF_vars(LoopStep)
            /\ \A p \in Posters : WF_vars(Wakeup(p))

----------------------------------------------------------------------------
(* Properties.                                                             *)

Queued == ToSet(m_tasks)
Taken == ToSet(done)

\* Type invariant.
TypeOK ==
  /\ m_tasks \in Seq(Tasks) /\ done \in Seq(Tasks)
  /\ pipe \in 0 .. PipeCap
  /\ m_exit \in BOOLEAN /\ last \in BOOLEAN
  /\ pc \in {"check", "select", "recv", "pop", "run", "callbacks", "ended"}
  /\ posting \in [Posters -> Tasks \cup {None, Lost}]
  /\ unposted \in SUBSET Tasks /\ promised \in SUBSET Tasks

Draining == pc \in {"pop", "run"}

\* No task is left in the queue with the loop free to sleep: a byte is in the
\* pipe, or a thread that has pushed is about to send one, or the loop is in
\* its drain loop (SafeCall, and the wakeup callback of EventBase::Init).
NoLostWakeup ==
  m_tasks # <<>> => pipe > 0 \/ Draining \/ \E p \in Posters : posting[p] # None

\* A task accepted by a SafeCall that returned before Exit was called has been
\* run when Loop returns, although Exit wakes nobody and Loop leaves its while
\* loop without looking at the queue: LoopOnce(0) finds the byte.
PromisesKept == pc = "ended" => promised \subseteq Taken

\* The inductive invariant behind the three above.  Fresh: a task is posted at
\* most once.  Accounted: a task that push accepted is queued or taken.
\* ByteForPromise: like NoLostWakeup, for tasks whose byte has been sent: they
\* wait for nobody's send.  LastPass: from the last select on, no promised
\* task is in the queue once the drain loop is over.
Fresh == (Queued \cup Taken) \cap unposted = {}

Accounted ==
  /\ promised \subseteq Queued \cup Taken
  /\ \A p \in Posters : posting[p] \in Tasks => posting[p] \in Queued \cup Taken

ByteForPromise == promised \cap Queued # {} => pipe > 0 \/ Draining

LastPass ==
  /\ last => m_exit
  /\ pc = "ended" => last
  /\ last /\ pc \in {"callbacks", "ended"} => promised \cap Queued = {}

Inv == TypeOK /\ NoLostWakeup /\ Fresh /\ Accounted /\ ByteForPromise /\ LastPass

\* Exit takes effect, although the loop is not woken.
ExitEndsLoop == m_exit ~> pc = "ended"

\* The loop implements the mailbox.
MB == INSTANCE Mailbox WITH queue <- m_tasks, closed <- m_exit
ImplementsMailbox == MB!Spec
ImplementsMailboxSafety == MB!Safety
=============================================================================
