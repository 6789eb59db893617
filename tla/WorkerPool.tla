----------------------------- MODULE WorkerPool -----------------------------
(***************************************************************************)
(* SafeQueue and the two thread pools built on it: ThreadPool, whose       *)
(* workers share one queue, and ConnThreadPool, which gives each worker    *)
(* its own and sends every task of a connection to the same one.  Which    *)
(* of the two this is, `shared`, is chosen at the start.                   *)
(*                                                                         *)
(* A SafeQueue is a mutex, a list, a condition variable and an atomic exit *)
(* flag.  push notifies after it has released the mutex and exit sets the  *)
(* flag before it takes it, so those are steps of their own.  A critical    *)
(* section is one step, except where a worker is about to sleep: between   *)
(* the predicate and wait's release of the mutex, others run.              *)
(***************************************************************************)
EXTENDS Naturals, Sequences, SequencesExt

CONSTANTS
  NumWorkers,   \* threads of the pool
  Posters,      \* threads that add tasks
  Tasks,        \* closures, each added at most once
  ConnOf,       \* the channel id each task is added with
  Capacity,     \* of each queue, 0 for no limit
  MaxSpurious,  \* bound: wakeups of a waiting thread that nobody asked for
  None

Workers == 0 .. NumWorkers - 1
Queues == Workers   \* a ThreadPool uses the first one

ASSUME WorkerPoolAssumption ==
  /\ NumWorkers \in Nat \ {0}
  /\ ConnOf \in [Tasks -> Nat]
  /\ Capacity \in Nat /\ MaxSpurious \in Nat
  /\ None \notin Tasks \cup Workers

VARIABLES
  shared,         \* TRUE: ThreadPool; FALSE: ConnThreadPool
  items, exit_,   \* SafeQueue: items_, exit_
  pc, task,       \* each worker: where it is, the task it runs
  notifying,      \* each poster: the queue it has pushed to and not yet notified
  exiter,         \* the thread that calls Exit and Join: next queue, and step
  unposted,       \* tasks not added yet
  spurious,       \* spurious wakeups so far
  accepted, started  \* history: tasks in the order of push and of pop

queueVars == <<shared, items, exit_>>
histVars == <<unposted, spurious, accepted, started>>
vars == <<queueVars, pc, task, notifying, exiter, histVars>>

QueueOf(w) == IF shared THEN 0 ELSE w
Crew(q) == {w \in Workers : QueueOf(w) = q}

\* Mutant: nobody asks for the mutex.
NeverLocked(q) == FALSE

\* The mutex of a queue is held over a step by a worker about to sleep.
Locked(q) == \E w \in Crew(q) : pc[w] = "wait"

Init ==
  /\ shared \in BOOLEAN
  /\ items = [q \in Queues |-> <<>>]
  /\ exit_ = [q \in Queues |-> FALSE]
  /\ pc = [w \in Workers |-> "top"]
  /\ task = [w \in Workers |-> None]
  /\ notifying = [p \in Posters |-> None]
  /\ exiter = [at |-> "idle", q |-> 0]
  /\ unposted = Tasks /\ spurious = 0
  /\ accepted = <<>> /\ started = <<>>

----------------------------------------------------------------------------
(* Adding tasks.                                                           *)

\* Mutant: tasks are spread over the workers, whatever their connection.
IndexByLoad(id) == IF shared THEN 0 ELSE Len(accepted) % NumWorkers

\* Index: the queue of a connection.
Index(id) == IF shared THEN 0 ELSE id % NumWorkers

\* push, under the mutex; the result is false when the queue has exited or is
\* full ...
AddTask(p, t) ==
  LET q == Index(ConnOf[t])
  IN  /\ notifying[p] = None /\ t \in unposted
      /\ ~Locked(q)
      /\ unposted' = unposted \ {t}
      /\ IF exit_[q] \/ (Capacity # 0 /\ Len(items[q]) >= Capacity)
         THEN UNCHANGED <<items, notifying, accepted>>
         ELSE /\ items' = [items EXCEPT ![q] = Append(@, t)]
              /\ notifying' = [notifying EXCEPT ![p] = q]
              /\ accepted' = Append(accepted, t)
      /\ UNCHANGED <<shared, exit_, pc, task, exiter, spurious, started>>

Waiting(q) == {w \in Crew(q) : pc[w] = "waiting"}

\* Mutant: only the push that fills an empty queue notifies.
WakeableIfFirst(q) == IF Len(items[q]) = 1 THEN Waiting(q) ELSE {}

\* The threads of which notify_one wakes one.
Wakeable(q) == Waiting(q)

\* ... and notify_one, after the mutex is released.
NotifyOne(p) ==
  /\ notifying[p] # None
  /\ notifying' = [notifying EXCEPT ![p] = None]
  /\ IF Wakeable(notifying[p]) = {}
     THEN UNCHANGED pc
     ELSE \E w \in Wakeable(notifying[p]) : pc' = [pc EXCEPT ![w] = "woken"]
  /\ UNCHANGED <<queueVars, task, exiter, histVars>>

----------------------------------------------------------------------------
(* A worker: while (!exited()) { if (pop_wait(&task)) task(); }            *)

Goto(w, label) == pc' = [pc EXCEPT ![w] = label]

Top(w) ==
  /\ pc[w] = "top"
  /\ Goto(w, IF exit_[QueueOf(w)] THEN "stopped" ELSE "lock")
  /\ UNCHANGED <<queueVars, task, notifying, exiter, histVars>>

\* pop_wait, from taking the mutex, and from taking it again after a wakeup:
\* pop and release it, or find the queue exited and empty and release it, or
\* find wait's predicate false and keep it.
PopWait(w) ==
  LET q == QueueOf(w)
  IN  /\ pc[w] \in {"lock", "woken"} /\ ~Locked(q)
      /\ \/ /\ items[q] # <<>>
            /\ Goto(w, "run")
            /\ task' = [task EXCEPT ![w] = Head(items[q])]
            /\ started' = Append(started, Head(items[q]))
            /\ items' = [items EXCEPT ![q] = Tail(@)]
         \/ /\ items[q] = <<>>
            /\ Goto(w, IF exit_[q] THEN "top" ELSE "wait")
            /\ UNCHANGED <<items, task, started>>
      /\ UNCHANGED <<shared, exit_, notifying, exiter, unposted, spurious, accepted>>

\* wait releases the mutex and sleeps, in one step.
Wait(w) ==
  /\ pc[w] = "wait"
  /\ Goto(w, "waiting")
  /\ UNCHANGED <<queueVars, task, notifying, exiter, histVars>>

\* The task returns.
Run(w) ==
  /\ pc[w] = "run"
  /\ task' = [task EXCEPT ![w] = None]
  /\ Goto(w, "top")
  /\ UNCHANGED <<queueVars, notifying, exiter, histVars>>

\* A condition variable may wake a thread for no reason.
SpuriousWakeup(w) ==
  /\ pc[w] = "waiting" /\ spurious < MaxSpurious
  /\ spurious' = spurious + 1
  /\ Goto(w, "woken")
  /\ UNCHANGED <<queueVars, task, notifying, exiter, unposted, accepted, started>>

----------------------------------------------------------------------------
(* Exit and Join, for each queue in turn.                                  *)

\* Mutant: Exit goes one worker too far.
LastQueuePast == NumWorkers

\* The last queue of the pool.
LastQueue == IF shared THEN 0 ELSE NumWorkers - 1

\* exit: the flag ...
SetExit ==
  /\ \/ exiter.at = "idle"
     \/ exiter.at = "next" /\ exiter.q <= LastQueue
  /\ exit_' = [exit_ EXCEPT ![exiter.q] = TRUE]
  /\ exiter' = [exiter EXCEPT !.at = "notify"]
  /\ UNCHANGED <<shared, items, pc, task, notifying, histVars>>

NotifyAllOf(q) == [w \in Workers |-> IF w \in Waiting(q) THEN "woken" ELSE pc[w]]

\* ... and notify_all, with the mutex held.
NotifyAll ==
  /\ exiter.at = "notify"
  /\ ~Locked(exiter.q)
  /\ pc' = NotifyAllOf(exiter.q)
  /\ exiter' = [at |-> "next", q |-> exiter.q + 1]
  /\ UNCHANGED <<queueVars, task, notifying, histVars>>

Join ==
  /\ exiter.at = "next" /\ exiter.q > LastQueue
  /\ \A w \in Workers : pc[w] = "stopped"
  /\ exiter' = [exiter EXCEPT !.at = "joined"]
  /\ UNCHANGED <<queueVars, pc, task, notifying, histVars>>

\* Nothing left to do: the pool is joined, or nobody has a task to add and
\* nobody calls Exit.
Quiet ==
  /\ exiter.at \in {"idle", "joined"}
  /\ UNCHANGED vars

WorkerStep(w) == Top(w) \/ PopWait(w) \/ Wait(w) \/ Run(w)
ExitStep == SetExit \/ NotifyAll \/ Join

Next ==
  \/ \E w \in Workers : WorkerStep(w) \/ SpuriousWakeup(w)
  \/ \E p \in Posters : NotifyOne(p) \/ \E t \in Tasks : AddTask(p, t)
  \/ ExitStep
  \/ Quiet

\* Threads are scheduled, tasks return, and a call of Exit goes on once made;
\* nobody has to add a task or to call Exit, and no spurious wakeup is due.
Spec == Init /\ [][Next]_vars
FairSpec ==
  /\ Spec
  /\ \A w \in Workers : WF_vars(WorkerStep(w))
  /\ \A p \in Posters : WF_vars(NotifyOne(p))
  /\ WF_vars(exiter.at # "idle" /\ ExitStep)

----------------------------------------------------------------------------
(* Properties.                                                             *)

\* Type invariant.
TypeOK ==
  /\ shared \in BOOLEAN
  /\ items \in [Queues -> Seq(Tasks)]
  /\ exit_ \in [Queues -> BOOLEAN]
  /\ pc \in [Workers -> {"top", "lock", "wait", "waiting", "woken", "run", "stopped"}]
  /\ task \in [Workers -> Tasks \cup {None}]
  /\ notifying \in [Posters -> Queues \cup {None}]
  /\ exiter \in [at : {"idle", "notify", "next", "joined"}, q : 0 .. NumWorkers]
  /\ unposted \in SUBSET Tasks /\ spurious \in 0 .. MaxSpurious
  /\ accepted \in Seq(Tasks) /\ started \in Seq(Tasks)

\* A task never sits in a queue whose workers all sleep, unless its notify_one
\* is still to come (push notifies outside the mutex).
NoLostNotify ==
  \A q \in Queues :
    items[q] # <<>> /\ Waiting(q) = Crew(q) => \E p \in Posters : notifying[p] = q

\* Once exit has returned for a queue, none of its workers sleeps again,
\* although the flag is set before the mutex is taken.
ExitWakesAll ==
  \A q \in Queues :
    exit_[q] /\ ~(exiter.at = "notify" /\ exiter.q = q)
      => \A w \in Crew(q) : pc[w] \notin {"wait", "waiting"}

Before(s, t, u) == \E i, j \in DOMAIN s : i < j /\ s[i] = t /\ s[j] = u

\* The tasks started are accepted ones, each once, and those of a connection in
\* the order in which they were accepted, none left out.
InConnOrder ==
  /\ IsInjective(started) /\ ToSet(started) \subseteq ToSet(accepted)
  /\ \A t, u \in Tasks :
       ConnOf[t] = ConnOf[u] /\ Before(accepted, t, u) /\ u \in ToSet(started)
         => Before(started, t, u)

OneAtATime ==
  \A v, w \in Workers :
    v # w /\ task[v] # None /\ task[w] # None => ConnOf[task[v]] # ConnOf[task[w]]

\* ConnThreadPool runs the tasks of one connection one at a time, in the order
\* in which they were added: PostDataToOneConn relies on it to keep messages
\* of a connection apart.
SerialPerConn == ~shared => InConnOrder /\ OneAtATime

\* An accepted task is run, unless its pool is asked to exit.
AcceptedIsRun ==
  \A t \in Tasks : t \in ToSet(accepted) ~> t \in ToSet(started) \/ exiter.at # "idle"

\* Exit followed by Join returns, whatever the workers were doing.
JoinReturns == exiter.at # "idle" ~> exiter.at = "joined"
=============================================================================
