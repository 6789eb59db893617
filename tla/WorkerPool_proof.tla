-------------------------- MODULE WorkerPool_proof --------------------------
(***************************************************************************)
(* Proofs about WorkerPool, for any number of workers, posters and tasks   *)
(* and any capacity, for ThreadPool and ConnThreadPool alike.  Inv is      *)
(* inductive; that no notification is lost, that exit leaves nobody asleep *)
(* and that tasks of one connection never run together follow from it.     *)
(***************************************************************************)
EXTENDS WorkerPool, SequenceTheorems, TLAPS

----------------------------------------------------------------------------
(* Facts about lists.                                                      *)

\* Every element is in the list once.
Once(s) == \A i, j \in DOMAIN s : s[i] = s[j] => i = j

\* emplace_back of an element that is not in the list.
LEMMA AppendIsOnce ==
  ASSUME NEW S, NEW s \in Seq(S), Once(s), NEW x \in S, x \notin ToSet(s)
  PROVE  /\ Append(s, x) \in Seq(S) /\ Once(Append(s, x))
         /\ ToSet(Append(s, x)) = ToSet(s) \cup {x}
<1> DEFINE t == Append(s, x)
           n == Len(s)
<1>1. /\ t \in Seq(S) /\ Len(t) = n + 1 /\ n \in Nat /\ t[n + 1] = x
      /\ \A i \in 1 .. n : t[i] = s[i]
  BY AppendProperties
<1>2. DOMAIN t = 1 .. n + 1 /\ DOMAIN s = 1 .. n
  BY <1>1
<1> HIDE DEF t, n
<1>3. ToSet(t) = ToSet(s) \cup {x}
  BY <1>1, <1>2 DEF ToSet
<1>4. Once(t)
  BY <1>1, <1>2 DEF Once, ToSet
<1> QED
  BY <1>1, <1>3, <1>4 DEF t

\* pop_front, in a list without repetitions.
LEMMA TailIsOnce ==
  ASSUME NEW S, NEW s \in Seq(S), s # <<>>, Once(s)
  PROVE  /\ Tail(s) \in Seq(S) /\ Head(s) \in S /\ Head(s) \in ToSet(s) /\ Once(Tail(s))
         /\ ToSet(Tail(s)) = ToSet(s) \ {Head(s)}
<1> DEFINE t == Tail(s)
           n == Len(s)
<1>1. /\ t \in Seq(S) /\ Len(t) = n - 1 /\ n \in Nat \ {0} /\ Head(s) = s[1] /\ s[1] \in S
      /\ \A k \in 1 .. n - 1 : t[k] = s[k + 1]
  BY HeadTailProperties
<1>2. DOMAIN s = 1 .. n /\ DOMAIN t = 1 .. n - 1
  BY <1>1
<1> HIDE DEF t, n
<1>3. \A k \in 1 .. n - 1 : k + 1 \in 1 .. n /\ k + 1 # 1
  BY <1>1
<1>4. Once(t)
  <2> SUFFICES ASSUME NEW j \in 1 .. n - 1, NEW k \in 1 .. n - 1, t[j] = t[k]
               PROVE  j = k
    BY <1>2 DEF Once
  <2>1. s[j + 1] = s[k + 1] /\ j + 1 \in DOMAIN s /\ k + 1 \in DOMAIN s
    BY <1>1, <1>2, <1>3
  <2>2. j + 1 = k + 1
    BY <2>1 DEF Once
  <2> QED
    BY <1>1, <2>2
<1>5. \A k \in 1 .. n - 1 : t[k] \in ToSet(s) /\ t[k] # s[1]
  <2> SUFFICES ASSUME NEW k \in 1 .. n - 1
               PROVE  t[k] \in ToSet(s) /\ t[k] # s[1]
    OBVIOUS
  <2>1. k + 1 \in DOMAIN s /\ 1 \in DOMAIN s /\ k + 1 # 1 /\ t[k] = s[k + 1]
    BY <1>1, <1>2, <1>3
  <2> QED
    BY <2>1 DEF ToSet, Once
<1>6. \A k \in 1 .. n : k = 1 \/ s[k] \in ToSet(t)
  <2> SUFFICES ASSUME NEW k \in 1 .. n, k # 1
               PROVE  s[k] \in ToSet(t)
    OBVIOUS
  <2>1. k - 1 \in 1 .. n - 1 /\ t[k - 1] = s[k]
    BY <1>1
  <2> QED
    BY <1>2, <2>1 DEF ToSet
<1>7. /\ \A x : x \in ToSet(s) <=> \E k \in 1 .. n : x = s[k]
      /\ \A x : x \in ToSet(t) <=> \E k \in 1 .. n - 1 : x = t[k]
  BY <1>2 DEF ToSet
<1>8. s[1] \in ToSet(s)
  BY <1>1, <1>7
<1>9. ToSet(t) = ToSet(s) \ {s[1]}
  BY <1>5, <1>6, <1>7, <1>8
<1> QED
  BY <1>1, <1>4, <1>8, <1>9 DEF t

----------------------------------------------------------------------------
(* The inductive invariant.                                                *)

\* The queues that Exit goes through, and that have a worker.
InUse(q) == q <= LastQueue

\* The thread in Exit is at a queue of the pool; only those hold tasks.
Bounds ==
  /\ exiter.at = "idle" => exiter.q = 0
  /\ exiter.at = "notify" => InUse(exiter.q)
  /\ \A q \in Queues : items[q] # <<>> => InUse(q)

\* A worker that is about to sleep has seen its queue empty, and the mutex it
\* holds has kept it so.
SawEmpty == \A w \in Workers : pc[w] = "wait" => items[QueueOf(w)] = <<>>

\* A task waits in the queue of its connection, and is run by a worker of it.
RightQueue ==
  /\ \A q \in Queues : \A i \in 1 .. Len(items[q]) : Index(ConnOf[items[q][i]]) = q
  /\ \A w \in Workers : task[w] # None => Index(ConnOf[task[w]]) = QueueOf(w)

Inv == TypeOK /\ Bounds /\ SawEmpty /\ NoLostNotify /\ ExitWakesAll /\ RightQueue

----------------------------------------------------------------------------
(* Which queue is whose.                                                   *)

\* The queue a task goes to is one the pool uses.
LEMMA IndexInQueues ==
  ASSUME TypeOK, NEW t \in Tasks
  PROVE  Index(ConnOf[t]) \in Queues /\ InUse(Index(ConnOf[t]))
<1>1. NumWorkers \in Nat \ {0} /\ ConnOf[t] \in Nat
  BY WorkerPoolAssumption DEF WorkerPoolAssumption
<1>2. ConnOf[t] % NumWorkers \in 0 .. NumWorkers - 1
  BY <1>1
<1> QED
  BY <1>1, <1>2 DEF Index, Queues, Workers, InUse, LastQueue

\* Every queue in use has a worker, and every worker is of a queue.
LEMMA Crews ==
  ASSUME TypeOK
  PROVE  /\ \A w \in Workers : QueueOf(w) \in Queues
         /\ \A q \in Queues : InUse(q) => Crew(q) # {}
<1>1. NumWorkers \in Nat \ {0}
  BY WorkerPoolAssumption DEF WorkerPoolAssumption
<1>2. 0 \in Workers
  BY <1>1 DEF Workers
<1>3. ASSUME NEW q \in Queues, InUse(q) PROVE Crew(q) # {}
  <2>1. CASE shared
    <3>1. q = 0
      BY <1>1, <1>3, <2>1 DEF InUse, LastQueue, Queues, Workers
    <3> QED
      BY <1>2, <2>1, <3>1 DEF Crew, QueueOf
  <2>2. CASE ~shared
    BY <2>2 DEF Crew, QueueOf, Queues
  <2> QED
    BY <2>1, <2>2
<1> QED
  BY <1>2, <1>3 DEF QueueOf, Queues

----------------------------------------------------------------------------
\* No task is pushed, and every thread has begun.
LEMMA InvInit == Init => Inv
<1> SUFFICES ASSUME Init PROVE Inv
  OBVIOUS
<1> USE WorkerPoolAssumption DEF WorkerPoolAssumption, Init
<1>1. TypeOK
  <2>1. <<>> \in Seq(Tasks)
    OBVIOUS
  <2>2. 0 \in 0 .. NumWorkers /\ 0 \in 0 .. MaxSpurious
    OBVIOUS
  <2> QED
    BY <2>1, <2>2 DEF TypeOK
<1>2. Bounds /\ SawEmpty
  <2>1. \A q \in Queues : items[q] = <<>>
    OBVIOUS
  <2>2. \A w \in Workers : pc[w] # "wait"
    OBVIOUS
  <2> QED
    BY <2>1, <2>2 DEF Bounds, SawEmpty
<1>3. NoLostNotify /\ ExitWakesAll
  BY DEF NoLostNotify, ExitWakesAll
<1>4. RightQueue
  BY DEF RightQueue
<1> QED
  BY <1>1, <1>2, <1>3, <1>4 DEF Inv

\* push.
LEMMA InvAddTask ==
  ASSUME Inv, NEW p \in Posters, NEW t \in Tasks, AddTask(p, t)
  PROVE  Inv'
<1> DEFINE q == Index(ConnOf[t])
<1>1. /\ notifying[p] = None /\ ~Locked(q) /\ unposted' = unposted \ {t}
      /\ UNCHANGED <<shared, exit_, pc, task, exiter, spurious, started>>
  BY DEF AddTask
<1>2. q \in Queues /\ InUse(q)
  BY IndexInQueues DEF Inv
<1>3. \/ UNCHANGED <<items, notifying, accepted>>
      \/ /\ items' = [items EXCEPT ![q] = Append(@, t)]
         /\ notifying' = [notifying EXCEPT ![p] = q]
         /\ accepted' = Append(accepted, t)
  BY DEF AddTask
<1>4. CASE UNCHANGED <<items, notifying, accepted>>
  BY <1>1, <1>4 DEF Inv, TypeOK, Bounds, SawEmpty, NoLostNotify, ExitWakesAll, RightQueue,
                    Waiting, Crew, QueueOf, InUse, LastQueue, Index
<1>5. CASE /\ items' = [items EXCEPT ![q] = Append(@, t)]
           /\ notifying' = [notifying EXCEPT ![p] = q]
           /\ accepted' = Append(accepted, t)
  <2> HIDE DEF q
  <2>1. items[q] \in Seq(Tasks) /\ Append(items[q], t) \in Seq(Tasks)
        /\ accepted' \in Seq(Tasks)
    BY <1>2, <1>5 DEF Inv, TypeOK
  <2>2. TypeOK'
    BY <1>1, <1>2, <1>5, <2>1 DEF Inv, TypeOK
  <2>3. \A r \in Queues : items'[r] = IF r = q THEN Append(items[q], t) ELSE items[r]
    BY <1>5, <1>2 DEF Inv, TypeOK
  <2>4. Bounds'
    BY <1>1, <1>2, <2>3 DEF Inv, Bounds, InUse, LastQueue
  <2>5. SawEmpty'
    BY <1>1, <2>3, Crews DEF Inv, SawEmpty, Locked, Crew, QueueOf
  <2>6. \A r \in Queues : r # q => \A s \in Posters : notifying[s] = r => notifying'[s] = r
    BY <1>1, <1>5, WorkerPoolAssumption
       DEF Inv, TypeOK, WorkerPoolAssumption, Queues
  <2>7. notifying'[p] = q
    BY <1>5 DEF Inv, TypeOK
  <2>8. NoLostNotify'
    BY <1>1, <2>3, <2>6, <2>7 DEF Inv, NoLostNotify, Waiting, Crew, QueueOf
  <2>9. ExitWakesAll'
    BY <1>1 DEF Inv, ExitWakesAll, Crew, QueueOf
  <2>10. RightQueue'
    <3>1. \A i \in 1 .. Len(Append(items[q], t)) : Index(ConnOf[Append(items[q], t)[i]]) = q
      <4> SUFFICES ASSUME NEW i \in 1 .. Len(Append(items[q], t))
                   PROVE  Index(ConnOf[Append(items[q], t)[i]]) = q
        OBVIOUS
      <4>1. CASE i = Len(items[q]) + 1
        BY <2>1, <4>1 DEF q
      <4>2. CASE i # Len(items[q]) + 1
        <5>1. i \in 1 .. Len(items[q]) /\ Append(items[q], t)[i] = items[q][i]
          BY <2>1, <4>2
        <5> QED
          BY <5>1, <1>2 DEF Inv, RightQueue
      <4> QED
        BY <4>1, <4>2
    <3> QED
      BY <1>1, <2>3, <3>1 DEF Inv, RightQueue, Index, QueueOf
  <2> QED
    BY <2>2, <2>4, <2>5, <2>8, <2>9, <2>10 DEF Inv
<1> QED
  BY <1>3, <1>4, <1>5

\* notify_one.  With nobody to wake, a worker of the queue is awake.
LEMMA InvNotifyOne ==
  ASSUME Inv, NEW p \in Posters, NotifyOne(p)
  PROVE  Inv'
<1> DEFINE q == notifying[p]
<1>1. /\ q # None /\ notifying' = [notifying EXCEPT ![p] = None]
      /\ UNCHANGED <<shared, items, exit_, task, exiter, unposted, spurious, accepted, started>>
  BY DEF NotifyOne, queueVars, histVars
<1>2. q \in Queues /\ \A s \in Posters : notifying[s] # q => notifying'[s] = notifying[s]
  BY <1>1 DEF Inv, TypeOK
<1>3. \A r \in Queues : r # q => \A s \in Posters : notifying[s] = r => notifying'[s] = r
  BY <1>2
<1>4. \/ Waiting(q) = {} /\ pc' = pc
      \/ \E w \in Waiting(q) : pc' = [pc EXCEPT ![w] = "woken"]
  BY DEF NotifyOne, Wakeable
<1> HIDE DEF q
<1>5. TypeOK' /\ Bounds' /\ SawEmpty' /\ ExitWakesAll' /\ RightQueue'
  <2>1. \A w \in Workers : pc'[w] \in {pc[w], "woken"}
    BY <1>4 DEF Inv, TypeOK, Waiting, Crew
  <2>2. TypeOK'
    BY <1>1, <1>4 DEF Inv, TypeOK, Waiting, Crew
  <2>3. Bounds' /\ RightQueue'
    BY <1>1 DEF Inv, Bounds, RightQueue, InUse, LastQueue, Index, QueueOf
  <2>4. SawEmpty' /\ ExitWakesAll'
    BY <1>1, <2>1 DEF Inv, SawEmpty, ExitWakesAll, Crew, QueueOf
  <2> QED
    BY <2>2, <2>3, <2>4
<1>6. NoLostNotify'
  <2> SUFFICES ASSUME NEW r \in Queues, items[r] # <<>>, Waiting(r)' = Crew(r)
               PROVE  \E s \in Posters : notifying'[s] = r
    BY <1>1 DEF NoLostNotify, Crew, QueueOf
  <2>1. CASE Waiting(q) = {} /\ pc' = pc
    <3>1. Waiting(r)' = Waiting(r)
      BY <1>1, <2>1 DEF Waiting, Crew, QueueOf
    <3>2. Crew(r) # {}
      BY Crews DEF Inv, Bounds
    <3>3. r # q
      BY <2>1, <3>1, <3>2
    <3> QED
      BY <1>3, <3>1, <3>3 DEF Inv, NoLostNotify
  <2>2. CASE \E w \in Waiting(q) : pc' = [pc EXCEPT ![w] = "woken"]
    <3>1. PICK w \in Waiting(q) : pc' = [pc EXCEPT ![w] = "woken"]
      BY <2>2
    <3>2. w \in Workers /\ w \in Crew(q) /\ pc'[w] = "woken"
      BY <3>1 DEF Waiting, Crew, Inv, TypeOK
    <3>3. r # q
      BY <1>1, <3>2 DEF Waiting, Crew, QueueOf
    <3>4. Waiting(r) = Crew(r)
      BY <1>1, <3>1, <3>2 DEF Waiting, Crew, QueueOf, Inv, TypeOK
    <3> QED
      BY <1>3, <3>3, <3>4 DEF Inv, NoLostNotify
  <2> QED
    BY <1>4, <2>1, <2>2
<1> QED
  BY <1>5, <1>6 DEF Inv

\* A worker takes a task, or finds none.
LEMMA InvPopWait ==
  ASSUME Inv, NEW w \in Workers, PopWait(w)
  PROVE  Inv'
<1> DEFINE q == QueueOf(w)
<1>1. /\ pc[w] \in {"lock", "woken"}
      /\ UNCHANGED <<shared, exit_, notifying, exiter, unposted, spurious, accepted>>
  BY DEF PopWait
<1>2. q \in Queues
  BY Crews DEF Inv
<1>3. CASE items[q] # <<>>
  <2>1. /\ pc' = [pc EXCEPT ![w] = "run"]
        /\ task' = [task EXCEPT ![w] = Head(items[q])]
        /\ started' = Append(started, Head(items[q]))
        /\ items' = [items EXCEPT ![q] = Tail(@)]
    BY <1>3 DEF PopWait, Goto
  <2> DEFINE s == items[q]
  <2>2. s \in Seq(Tasks) /\ Len(s) \in Nat \ {0}
    BY <1>2, <1>3 DEF Inv, TypeOK
  <2>3. Head(s) = s[1] /\ Head(s) \in Tasks /\ Tail(s) \in Seq(Tasks)
        /\ Len(Tail(s)) = Len(s) - 1 /\ \A i \in 1 .. Len(s) - 1 : Tail(s)[i] = s[i + 1]
    BY <2>2, <1>3
  <2>4. \A r \in Queues : items'[r] = IF r = q THEN Tail(s) ELSE items[r]
    BY <1>2, <2>1 DEF Inv, TypeOK
  <2>5. started' \in Seq(Tasks)
    BY <2>1, <2>3 DEF Inv, TypeOK
  <2>6. \A v \in Workers : /\ pc'[v] = (IF v = w THEN "run" ELSE pc[v])
                           /\ task'[v] = (IF v = w THEN Head(s) ELSE task[v])
    BY <2>1 DEF Inv, TypeOK
  <2>7. \A i \in 1 .. Len(s) : Index(ConnOf[s[i]]) = q
    BY <1>2 DEF Inv, RightQueue
  <2> HIDE DEF q
  <2>8. TypeOK'
    BY <1>1, <1>2, <2>1, <2>3, <2>5 DEF Inv, TypeOK
  <2>9. Bounds'
    BY <1>1, <1>2, <1>3, <2>4 DEF Inv, Bounds, InUse, LastQueue
  <2>10. SawEmpty'
    BY <1>1, <1>3, <2>4, <2>6, Crews DEF Inv, SawEmpty, QueueOf
  <2>11. NoLostNotify'
    <3> SUFFICES ASSUME NEW r \in Queues, items'[r] # <<>>, Waiting(r)' = Crew(r)
                 PROVE  \E x \in Posters : notifying'[x] = r
      BY <1>1 DEF NoLostNotify, Crew, QueueOf
    <3>1. r # q
      BY <1>1, <2>6 DEF Waiting, Crew, QueueOf, q
    <3>2. Waiting(r) = Crew(r) /\ items[r] # <<>>
      BY <1>1, <2>4, <2>6, <3>1 DEF Waiting, Crew, QueueOf
    <3> QED
      BY <1>1, <3>2 DEF Inv, NoLostNotify
  <2>12. ExitWakesAll'
    BY <1>1, <2>6 DEF Inv, ExitWakesAll, Crew, QueueOf
  <2>13. RightQueue'
    <3>1. \A i \in 1 .. Len(Tail(s)) : Index(ConnOf[Tail(s)[i]]) = q
      <4> SUFFICES ASSUME NEW i \in 1 .. Len(Tail(s)) PROVE Index(ConnOf[Tail(s)[i]]) = q
        OBVIOUS
      <4>1. i + 1 \in 1 .. Len(s) /\ Tail(s)[i] = s[i + 1]
        BY <2>2, <2>3
      <4> QED
        BY <2>7, <4>1
    <3>2. Index(ConnOf[Head(s)]) = q
      BY <2>2, <2>3, <2>7
    <3> HIDE DEF s
    <3>3. \A r \in Queues : \A i \in 1 .. Len(items'[r]) : Index(ConnOf[items'[r][i]]) = r
      BY <2>4, <3>1 DEF Inv, RightQueue
    <3>4. \A v \in Workers : task'[v] # None => Index(ConnOf[task'[v]]) = QueueOf(v)
      BY <2>6, <3>2 DEF Inv, RightQueue, q
    <3> QED
      BY <1>1, <3>3, <3>4 DEF RightQueue, Index, QueueOf
  <2> QED
    BY <2>8, <2>9, <2>10, <2>11, <2>12, <2>13 DEF Inv
<1>4. CASE items[q] = <<>>
  <2>1. /\ UNCHANGED <<items, task, started>>
        /\ pc' = [pc EXCEPT ![w] = IF exit_[q] THEN "top" ELSE "wait"]
    BY <1>4 DEF PopWait, Goto
  <2>2. /\ \A v \in Workers : v # w => pc'[v] = pc[v]
        /\ pc'[w] = IF exit_[q] THEN "top" ELSE "wait"
    BY <2>1 DEF Inv, TypeOK
  <2>3. TypeOK' /\ Bounds' /\ RightQueue'
    BY <1>1, <2>1 DEF Inv, TypeOK, Bounds, RightQueue, InUse, LastQueue, Index, QueueOf
  <2>4. SawEmpty'
    BY <1>1, <1>4, <2>1, <2>2 DEF Inv, SawEmpty, QueueOf
  <2>5. NoLostNotify'
    BY <1>1, <2>1, <2>2 DEF Inv, NoLostNotify, Waiting, Crew, QueueOf
  <2>6. ExitWakesAll'
    BY <1>1, <2>2 DEF Inv, ExitWakesAll, Crew, QueueOf
  <2> QED
    BY <2>3, <2>4, <2>5, <2>6 DEF Inv
<1> QED
  BY <1>3, <1>4

\* wait releases the mutex: a worker goes to sleep, over an empty queue.
LEMMA InvWait ==
  ASSUME Inv, NEW w \in Workers, Wait(w)
  PROVE  Inv'
<1>1. /\ pc[w] = "wait" /\ pc' = [pc EXCEPT ![w] = "waiting"]
      /\ UNCHANGED <<shared, items, exit_, task, notifying, exiter, unposted, spurious,
                     accepted, started>>
  BY DEF Wait, Goto, queueVars, histVars
<1>2. /\ \A v \in Workers : v # w => pc'[v] = pc[v]
      /\ pc'[w] = "waiting"
  BY <1>1 DEF Inv, TypeOK
<1>3. TypeOK' /\ Bounds' /\ RightQueue'
  BY <1>1 DEF Inv, TypeOK, Bounds, RightQueue, InUse, LastQueue, Index, QueueOf
<1>4. SawEmpty' /\ ExitWakesAll'
  BY <1>1, <1>2 DEF Inv, SawEmpty, ExitWakesAll, Crew, QueueOf
<1>5. NoLostNotify'
  <2> SUFFICES ASSUME NEW r \in Queues, items[r] # <<>>, Waiting(r)' = Crew(r)
               PROVE  \E s \in Posters : notifying[s] = r
    BY <1>1 DEF NoLostNotify, Crew, QueueOf
  <2>1. w \notin Crew(r)
    BY <1>1 DEF Inv, SawEmpty, Crew
  <2>2. Waiting(r) = Crew(r)
    BY <1>1, <1>2, <2>1 DEF Waiting, Crew, QueueOf
  <2> QED
    BY <2>2 DEF Inv, NoLostNotify
<1> QED
  BY <1>3, <1>4, <1>5 DEF Inv

\* The steps of a worker that is awake, and the one that wakes it for no reason.
LEMMA InvAwake ==
  ASSUME Inv, NEW w \in Workers, Top(w) \/ Run(w) \/ SpuriousWakeup(w)
  PROVE  Inv'
<1>1. /\ \E label \in {"stopped", "lock", "top", "woken"} : pc' = [pc EXCEPT ![w] = label]
      /\ task' = task \/ task' = [task EXCEPT ![w] = None]
      /\ spurious' \in 0 .. MaxSpurious
      /\ UNCHANGED <<shared, items, exit_, notifying, exiter, unposted, accepted, started>>
  BY WorkerPoolAssumption
     DEF Top, Run, SpuriousWakeup, Goto, queueVars, histVars, Inv, TypeOK, WorkerPoolAssumption
<1>2. /\ \A v \in Workers : v # w => pc'[v] = pc[v]
      /\ pc'[w] \notin {"wait", "waiting"}
      /\ \A v \in Workers : task'[v] \in {task[v], None}
  BY <1>1 DEF Inv, TypeOK
<1>3. TypeOK' /\ Bounds'
  BY <1>1 DEF Inv, TypeOK, Bounds, InUse, LastQueue
<1>4. RightQueue'
  BY <1>1, <1>2 DEF Inv, RightQueue, Index, QueueOf
<1>5. SawEmpty' /\ ExitWakesAll'
  BY <1>1, <1>2 DEF Inv, SawEmpty, ExitWakesAll, Crew, QueueOf
<1>6. NoLostNotify'
  BY <1>1, <1>2 DEF Inv, NoLostNotify, Waiting, Crew, QueueOf
<1> QED
  BY <1>3, <1>4, <1>5, <1>6 DEF Inv

\* exit sets its flag: who is asleep then is still to be woken.
LEMMA InvSetExit ==
  ASSUME Inv, SetExit
  PROVE  Inv'
<1>1. /\ exit_' = [exit_ EXCEPT ![exiter.q] = TRUE]
      /\ exiter' = [exiter EXCEPT !.at = "notify"]
      /\ UNCHANGED <<shared, items, pc, task, notifying, unposted, spurious, accepted, started>>
  BY DEF SetExit, histVars
<1>2. exiter.at # "notify" /\ InUse(exiter.q) /\ exiter.q \in Nat
  BY WorkerPoolAssumption
     DEF SetExit, Inv, TypeOK, Bounds, InUse, LastQueue, WorkerPoolAssumption
<1>3. exiter.q \in Queues
  BY <1>2, WorkerPoolAssumption
     DEF Queues, Workers, InUse, LastQueue, WorkerPoolAssumption
<1>4. exiter'.at = "notify" /\ exiter'.q = exiter.q
  BY <1>1 DEF Inv, TypeOK
<1>5. \A r \in Queues : r # exiter.q => exit_'[r] = exit_[r]
  BY <1>1 DEF Inv, TypeOK
<1>6. TypeOK'
  BY <1>1 DEF Inv, TypeOK
<1>7. Bounds'
  BY <1>1, <1>2, <1>4 DEF Inv, Bounds, InUse, LastQueue
<1>8. SawEmpty' /\ NoLostNotify' /\ RightQueue'
  BY <1>1 DEF Inv, SawEmpty, NoLostNotify, RightQueue, Waiting, Crew, QueueOf, Index
<1>9. ExitWakesAll'
  BY <1>1, <1>2, <1>4, <1>5 DEF Inv, ExitWakesAll, Crew, QueueOf
<1> QED
  BY <1>6, <1>7, <1>8, <1>9 DEF Inv

\* notify_all, with the mutex: nobody is about to sleep, and who sleeps wakes.
LEMMA InvNotifyAll ==
  ASSUME Inv, NotifyAll
  PROVE  Inv'
<1> DEFINE q == exiter.q
<1>1. /\ exiter.at = "notify" /\ ~Locked(q)
      /\ pc' = [w \in Workers |-> IF w \in Waiting(q) THEN "woken" ELSE pc[w]]
      /\ exiter' = [at |-> "next", q |-> q + 1]
      /\ UNCHANGED <<shared, items, exit_, task, notifying, unposted, spurious, accepted, started>>
  BY DEF NotifyAll, NotifyAllOf, queueVars, histVars
<1>2. q \in 0 .. NumWorkers - 1
  BY <1>1, WorkerPoolAssumption
     DEF Inv, TypeOK, Bounds, InUse, LastQueue, WorkerPoolAssumption
<1>3. \A w \in Workers : /\ pc'[w] \in {pc[w], "woken"}
                         /\ QueueOf(w) = q => pc'[w] \notin {"wait", "waiting"}
  BY <1>1 DEF Locked, Waiting, Crew
<1>4. \A w \in Workers : QueueOf(w) # q => pc'[w] = pc[w]
  BY <1>1 DEF Waiting, Crew
<1> HIDE DEF q
<1>5. TypeOK'
  BY <1>1, <1>2, WorkerPoolAssumption DEF Inv, TypeOK, WorkerPoolAssumption
<1>6. Bounds' /\ RightQueue'
  BY <1>1 DEF Inv, Bounds, RightQueue, InUse, LastQueue, QueueOf, Index
<1>7. SawEmpty'
  BY <1>1, <1>3 DEF Inv, SawEmpty, QueueOf
<1>8. NoLostNotify'
  <2> SUFFICES ASSUME NEW r \in Queues, items[r] # <<>>, Waiting(r)' = Crew(r)
               PROVE  \E s \in Posters : notifying[s] = r
    BY <1>1 DEF NoLostNotify, Crew, QueueOf
  <2>1. \A w \in Crew(r) : pc'[w] = "waiting"
    BY <1>1 DEF Waiting, Crew, QueueOf
  <2>2. \A w \in Crew(r) : pc[w] = "waiting"
    BY <1>3, <2>1 DEF Crew
  <2> QED
    BY <2>2 DEF Inv, NoLostNotify, Waiting
<1>9. ExitWakesAll'
  <2> SUFFICES ASSUME NEW r \in Queues, exit_[r], NEW w \in Workers, QueueOf(w) = r
               PROVE  pc'[w] \notin {"wait", "waiting"}
    BY <1>1 DEF ExitWakesAll, Crew, QueueOf
  <2>1. CASE r = q
    BY <1>3, <2>1
  <2>2. CASE r # q
    BY <1>3, <1>4, <2>2 DEF Inv, ExitWakesAll, Crew, q
  <2> QED
    BY <2>1, <2>2
<1> QED
  BY <1>5, <1>6, <1>7, <1>8, <1>9 DEF Inv

\* Join, which waits for the threads to end and changes nothing else.
LEMMA InvJoin ==
  ASSUME Inv, Join
  PROVE  Inv'
<1>1. /\ exiter.at = "next" /\ exiter' = [exiter EXCEPT !.at = "joined"]
      /\ UNCHANGED <<shared, items, exit_, pc, task, notifying, unposted, spurious,
                     accepted, started>>
  BY DEF Join, queueVars, histVars
<1>2. exiter'.at = "joined" /\ exiter'.q = exiter.q
  BY <1>1 DEF Inv, TypeOK
<1>3. TypeOK'
  BY <1>1 DEF Inv, TypeOK
<1>4. Bounds'
  BY <1>1, <1>2 DEF Inv, Bounds, InUse, LastQueue
<1>5. SawEmpty' /\ NoLostNotify' /\ ExitWakesAll' /\ RightQueue'
  BY <1>1, <1>2
     DEF Inv, SawEmpty, NoLostNotify, ExitWakesAll, RightQueue, Waiting, Crew, QueueOf, Index
<1> QED
  BY <1>3, <1>4, <1>5 DEF Inv

\* Nothing happens.
LEMMA InvStutter ==
  ASSUME Inv, UNCHANGED vars
  PROVE  Inv'
<1>1. UNCHANGED <<shared, items, exit_, pc, task, notifying, unposted, spurious, accepted,
                  started, exiter>>
  BY DEF vars, queueVars, histVars
<1>2. TypeOK'
  BY <1>1 DEF Inv, TypeOK
<1>3. Bounds' /\ RightQueue'
  BY <1>1 DEF Inv, Bounds, RightQueue, QueueOf, Index, InUse, LastQueue
<1>4. SawEmpty' /\ ExitWakesAll'
  BY <1>1 DEF Inv, SawEmpty, ExitWakesAll, Crew, QueueOf
<1>5. NoLostNotify'
  <2>1. \A q : Waiting(q)' = Waiting(q) /\ Crew(q)' = Crew(q)
    BY <1>1 DEF Waiting, Crew, QueueOf
  <2>2. Queues' = Queues
    BY <1>1 DEF Queues
  <2> QED
    BY <1>1, <2>1, <2>2 DEF Inv, NoLostNotify
<1> QED
  BY <1>2, <1>3, <1>4, <1>5 DEF Inv

\* Every action keeps the invariant.
LEMMA InvStep == Inv /\ [Next]_vars => Inv'
<1> SUFFICES ASSUME Inv, [Next]_vars PROVE Inv'
  OBVIOUS
<1>1. ASSUME NEW w \in Workers, WorkerStep(w) \/ SpuriousWakeup(w) PROVE Inv'
  BY <1>1, InvPopWait, InvWait, InvAwake DEF WorkerStep
<1>2. ASSUME NEW p \in Posters, NotifyOne(p) \/ \E t \in Tasks : AddTask(p, t) PROVE Inv'
  BY <1>2, InvNotifyOne, InvAddTask
<1>3. CASE ExitStep
  BY <1>3, InvSetExit, InvNotifyAll, InvJoin DEF ExitStep
<1>4. CASE Quiet \/ UNCHANGED vars
  BY <1>4, InvStutter DEF Quiet
<1> QED
  BY <1>1, <1>2, <1>3, <1>4 DEF Next

----------------------------------------------------------------------------
\* The invariant holds: in particular (TypeOK) Exit never goes past the last
\* queue of its pool.
THEOREM Invariant == Spec => []Inv
BY InvInit, InvStep, PTL DEF Spec

\* Type correctness.
THEOREM TypeCorrect == Spec => []TypeOK
<1>1. Inv => TypeOK
  BY DEF Inv
<1> QED
  BY <1>1, Invariant, PTL

\* A task is never left in a queue whose workers all sleep, though push
\* notifies after it has released the mutex.
THEOREM NotificationNotLost == Spec => []NoLostNotify
<1>1. Inv => NoLostNotify
  BY DEF Inv
<1> QED
  BY <1>1, Invariant, PTL

\* When exit has returned for a queue, no worker of it sleeps, though the flag
\* is set before the mutex is taken.
THEOREM ExitWakes == Spec => []ExitWakesAll
<1>1. Inv => ExitWakesAll
  BY DEF Inv
<1> QED
  BY <1>1, Invariant, PTL

\* Two workers of a ConnThreadPool never run tasks of the same connection.
THEOREM NeverTogether == Spec => [](~shared => OneAtATime)
<1>1. Inv => (~shared => OneAtATime)
  BY DEF Inv, RightQueue, OneAtATime, QueueOf
<1> QED
  BY <1>1, Invariant, PTL
----------------------------------------------------------------------------
(* The order of the tasks of a connection.                                 *)

\* Nothing precedes what it follows, in a list without repetition.
LEMMA BeforeOneWay ==
  ASSUME NEW s \in Seq(Tasks), Once(s), NEW t, NEW u, Before(s, t, u)
  PROVE  t # u /\ ~Before(s, u, t)
<1>1. PICK i, j \in DOMAIN s : i < j /\ s[i] = t /\ s[j] = u
  BY DEF Before
<1>2. i \in Nat /\ j \in Nat /\ \A k \in DOMAIN s : (s[k] = t => k = i) /\ (s[k] = u => k = j)
  BY <1>1 DEF Once
<1>3. i # j
  BY <1>1, <1>2
<1>4. t # u
  BY <1>1, <1>2, <1>3
<1>5. ASSUME NEW k \in DOMAIN s, NEW l \in DOMAIN s, k < l, s[k] = u, s[l] = t
      PROVE  FALSE
  <2>1. k = j /\ l = i
    BY <1>2, <1>5
  <2> QED
    BY <1>1, <1>2, <1>5, <2>1
<1> QED
  BY <1>4, <1>5 DEF Before

\* At the end of a list: everything there precedes the newcomer, and what
\* preceded something still does; nothing else does.
LEMMA BeforeAppend ==
  ASSUME NEW s \in Seq(Tasks), NEW x \in Tasks
  PROVE  /\ \A t, u : Before(s, t, u) => Before(Append(s, x), t, u)
         /\ \A t \in ToSet(s) : Before(Append(s, x), t, x)
         /\ \A t, u : Before(Append(s, x), t, u) => Before(s, t, u) \/ (u = x /\ t \in ToSet(s))
<1> DEFINE a == Append(s, x)
           n == Len(s)
<1>1. /\ n \in Nat /\ DOMAIN s = 1 .. n /\ DOMAIN a = 1 .. n + 1 /\ a[n + 1] = x
      /\ \A i \in 1 .. n : a[i] = s[i]
  BY AppendProperties
<1> HIDE DEF a, n
<1>2. ASSUME NEW t, NEW u, Before(s, t, u) PROVE Before(a, t, u)
  <2>1. PICK i, j \in 1 .. n : i < j /\ s[i] = t /\ s[j] = u
    BY <1>1, <1>2 DEF Before
  <2>2. i \in DOMAIN a /\ j \in DOMAIN a /\ a[i] = t /\ a[j] = u
    BY <1>1, <2>1
  <2> QED
    BY <2>1, <2>2 DEF Before
<1>3. ASSUME NEW t \in ToSet(s) PROVE Before(a, t, x)
  <2>1. PICK i \in 1 .. n : s[i] = t
    BY <1>1 DEF ToSet
  <2>2. i \in DOMAIN a /\ n + 1 \in DOMAIN a /\ i < n + 1 /\ a[i] = t
    BY <1>1, <2>1
  <2> QED
    BY <1>1, <2>2 DEF Before
<1>4. ASSUME NEW t, NEW u, Before(a, t, u) PROVE Before(s, t, u) \/ (u = x /\ t \in ToSet(s))
  <2>1. PICK i, j \in 1 .. n + 1 : i < j /\ a[i] = t /\ a[j] = u
    BY <1>1, <1>4 DEF Before
  <2>2. i \in 1 .. n /\ (j \in 1 .. n \/ j = n + 1)
    BY <1>1, <2>1
  <2>3. s[i] = t /\ t \in ToSet(s)
    BY <1>1, <2>1, <2>2 DEF ToSet
  <2>4. CASE j \in 1 .. n
    BY <1>1, <2>1, <2>2, <2>3, <2>4 DEF Before
  <2>5. CASE j = n + 1
    BY <1>1, <2>1, <2>3, <2>5
  <2> QED
    BY <2>2, <2>4, <2>5
<1> QED
  BY <1>2, <1>3, <1>4 DEF a

\* At the front of a list: the first precedes all others, and taking it out
\* leaves the rest as it was.
LEMMA BeforeTail ==
  ASSUME NEW s \in Seq(Tasks), s # <<>>
  PROVE  /\ \A t, u : Before(Tail(s), t, u) => Before(s, t, u)
         /\ \A u \in ToSet(s) : u # Head(s) => Before(s, Head(s), u)
<1> DEFINE r == Tail(s)
           n == Len(s)
           h == Head(s)
<1>1. /\ n \in Nat \ {0} /\ DOMAIN s = 1 .. n /\ DOMAIN r = 1 .. n - 1 /\ s[1] = h
      /\ \A i \in 1 .. n - 1 : r[i] = s[i + 1]
  BY HeadTailProperties
<1> HIDE DEF r, n, h
<1>2. ASSUME NEW t, NEW u, Before(r, t, u) PROVE Before(s, t, u)
  <2>1. PICK i, j \in 1 .. n - 1 : i < j /\ r[i] = t /\ r[j] = u
    BY <1>1, <1>2 DEF Before
  <2>2. PICK k, l \in 1 .. n : k = i + 1 /\ l = j + 1
    BY <1>1, <2>1
  <2>3. k < l /\ s[k] = t /\ s[l] = u
    BY <1>1, <2>1, <2>2
  <2> QED
    BY <1>1, <2>3 DEF Before
<1>3. ASSUME NEW u \in ToSet(s), u # h PROVE Before(s, h, u)
  <2>1. PICK j \in 1 .. n : s[j] = u
    BY <1>1 DEF ToSet
  <2>2. 1 \in 1 .. n /\ 1 < j
    BY <1>1, <1>3, <2>1
  <2> QED
    BY <1>1, <2>1, <2>2 DEF Before
<1> QED
  BY <1>2, <1>3 DEF r, h

\* A task is accepted at most once, is then in the queue of its connection
\* until it is started, and is started once.
Whereabouts ==
  /\ Once(accepted) /\ Once(started)
  /\ \A t \in ToSet(accepted) : t \notin unposted
  /\ ToSet(started) \subseteq ToSet(accepted)
  /\ \A q \in Queues :
       Once(items[q]) /\ ToSet(items[q]) \subseteq ToSet(accepted) \ ToSet(started)
  /\ \A t \in ToSet(accepted) : t \in ToSet(started) \/ t \in ToSet(items[Index(ConnOf[t])])

\* A queue is in the order of acceptance.
QueueInOrder ==
  \A q \in Queues : \A t, u \in Tasks : Before(items[q], t, u) => Before(accepted, t, u)

\* Tasks of one queue are started in the order of acceptance.
StartedInOrder ==
  \A t, u \in Tasks :
    /\ Index(ConnOf[t]) = Index(ConnOf[u])
    /\ Before(accepted, t, u) /\ u \in ToSet(started)
    => Before(started, t, u)

Serial == Whereabouts /\ QueueInOrder /\ StartedInOrder

\* No task has been added.
LEMMA SerialInit == Init => Serial
<1> SUFFICES ASSUME Init PROVE Serial
  OBVIOUS
<1>1. /\ accepted = <<>> /\ started = <<>> /\ \A q \in Queues : items[q] = <<>>
  BY DEF Init
<1>2. ToSet(<<>>) = {} /\ Once(<<>>) /\ \A t, u : ~Before(<<>>, t, u)
  BY DEF ToSet, Once, Before
<1>3. Whereabouts
  BY <1>1, <1>2 DEF Whereabouts
<1>4. QueueInOrder /\ StartedInOrder
  BY <1>1, <1>2 DEF QueueInOrder, StartedInOrder
<1> QED
  BY <1>3, <1>4 DEF Serial

\* What neither adds nor takes a task changes nothing of this; nor does a task
\* that is refused.
LEMMA SerialSame ==
  ASSUME Serial, unposted' \subseteq unposted, UNCHANGED <<shared, items, accepted, started>>
  PROVE  Serial'
<1>1. Whereabouts'
  BY DEF Serial, Whereabouts, Index
<1>2. QueueInOrder' /\ StartedInOrder'
  BY DEF Serial, QueueInOrder, StartedInOrder, Index
<1> QED
  BY <1>1, <1>2 DEF Serial

\* An accepted task comes last in its queue and in the order of acceptance.
LEMMA SerialAddTask ==
  ASSUME Inv, Serial, NEW p \in Posters, NEW t \in Tasks, AddTask(p, t)
  PROVE  Serial'
<1> DEFINE q == Index(ConnOf[t])
<1>1. /\ t \in unposted /\ unposted' = unposted \ {t}
      /\ UNCHANGED <<shared, started>>
  BY DEF AddTask
<1>2. \/ UNCHANGED <<items, accepted>>
      \/ /\ items' = [items EXCEPT ![q] = Append(@, t)]
         /\ accepted' = Append(accepted, t)
  BY DEF AddTask
<1>3. CASE UNCHANGED <<items, accepted>>
  BY <1>1, <1>3, SerialSame
<1>4. CASE /\ items' = [items EXCEPT ![q] = Append(@, t)]
           /\ accepted' = Append(accepted, t)
  <2>1. q \in Queues /\ \A u : Index(ConnOf[u])' = Index(ConnOf[u])
    BY <1>1, IndexInQueues DEF Inv, Index
  <2> HIDE DEF q
  <2>2. /\ items[q] \in Seq(Tasks) /\ accepted \in Seq(Tasks)
        /\ \A r \in Queues : items'[r] = IF r = q THEN Append(items[q], t) ELSE items[r]
    BY <1>4, <2>1 DEF Inv, TypeOK
  <2>3. t \notin ToSet(accepted) /\ t \notin ToSet(started) /\ t \notin ToSet(items[q])
    BY <1>1, <2>1 DEF Serial, Whereabouts
  <2>4. Once(accepted') /\ ToSet(accepted') = ToSet(accepted) \cup {t}
    BY <1>4, <2>2, <2>3, AppendIsOnce DEF Serial, Whereabouts
  <2>5. Once(items[q])
    BY <2>1 DEF Serial, Whereabouts
  <2>6. Once(Append(items[q], t)) /\ ToSet(Append(items[q], t)) = ToSet(items[q]) \cup {t}
    BY <2>2, <2>3, <2>5, AppendIsOnce
  <2>7. Whereabouts'
    <3>1. \A u \in ToSet(accepted') : u \notin unposted'
      BY <1>1, <2>4 DEF Serial, Whereabouts
    <3>2. /\ Once(started') /\ ToSet(started') \subseteq ToSet(accepted')
      BY <1>1, <2>4 DEF Serial, Whereabouts
    <3>3. \A r \in Queues :
            Once(items'[r]) /\ ToSet(items'[r]) \subseteq ToSet(accepted') \ ToSet(started')
      <4> SUFFICES ASSUME NEW r \in Queues
                   PROVE  Once(items'[r])
                          /\ ToSet(items'[r]) \subseteq ToSet(accepted') \ ToSet(started')
        OBVIOUS
      <4>1. Once(items[r]) /\ ToSet(items[r]) \subseteq ToSet(accepted) \ ToSet(started)
        BY DEF Serial, Whereabouts
      <4>2. CASE r = q
        <5>1. items'[r] = Append(items[q], t)
          BY <2>2, <4>2
        <5> QED
          BY <1>1, <2>3, <2>4, <2>6, <4>1, <4>2, <5>1
      <4>3. CASE r # q
        <5>1. items'[r] = items[r]
          BY <2>2, <4>3
        <5> QED
          BY <1>1, <2>4, <4>1, <5>1
      <4> QED
        BY <4>2, <4>3
    <3>4. ASSUME NEW u \in ToSet(accepted')
          PROVE  u \in ToSet(started') \/ u \in ToSet(items'[Index(ConnOf[u])])
      <4>1. CASE u = t
        BY <2>1, <2>2, <2>6, <4>1 DEF q
      <4>2. CASE u # t
        <5>1. u \in ToSet(accepted) /\ u \in Tasks
          <6>1. u \in ToSet(accepted)
            BY <2>4, <4>2
          <6> QED
            BY <2>2, <6>1 DEF ToSet
        <5>2. Index(ConnOf[u]) \in Queues
          BY <5>1, IndexInQueues DEF Inv
        <5>3. u \in ToSet(started) \/ u \in ToSet(items[Index(ConnOf[u])])
          BY <5>1 DEF Serial, Whereabouts
        <5> DEFINE r == Index(ConnOf[u])
        <5> HIDE DEF r
        <5>4. ToSet(items[r]) \subseteq ToSet(items'[r])
          BY <2>2, <2>6, <5>2 DEF r
        <5> QED
          BY <1>1, <5>3, <5>4 DEF r
      <4> QED
        BY <4>1, <4>2
    <3>5. \A u \in ToSet(accepted') :
            u \in ToSet(started') \/ u \in ToSet(items'[Index(ConnOf[u])'])
      BY <2>1, <3>4
    <3> QED
      BY <2>4, <3>1, <3>2, <3>3, <3>5 DEF Whereabouts
  <2>8. QueueInOrder'
    <3> SUFFICES ASSUME NEW r \in Queues, NEW u \in Tasks, NEW v \in Tasks,
                        Before(items'[r], u, v)
                 PROVE  Before(accepted', u, v)
      BY DEF QueueInOrder, Before
    <3>1. ToSet(items[q]) \subseteq ToSet(accepted)
      BY <2>1 DEF Serial, Whereabouts
    <3>2. Before(items[r], u, v) \/ (v = t /\ u \in ToSet(items[q]))
      <4>1. CASE r = q
        <5>1. items'[r] = Append(items[q], t)
          BY <2>2, <4>1
        <5> QED
          BY <2>2, <4>1, <5>1, BeforeAppend
      <4>2. CASE r # q
        BY <2>2, <4>2
      <4> QED
        BY <4>1, <4>2
    <3>3. CASE Before(items[r], u, v)
      <4>1. Before(accepted, u, v)
        BY <3>3 DEF Serial, QueueInOrder
      <4> QED
        BY <1>4, <2>2, <4>1, BeforeAppend
    <3>4. CASE v = t /\ u \in ToSet(items[q])
      BY <1>4, <2>2, <3>1, <3>4, BeforeAppend
    <3> QED
      BY <3>2, <3>3, <3>4
  <2>9. StartedInOrder'
    <3> SUFFICES ASSUME NEW u \in Tasks, NEW v \in Tasks, Index(ConnOf[u]) = Index(ConnOf[v]),
                        Before(accepted', u, v), v \in ToSet(started)
                 PROVE  Before(started, u, v)
      BY <1>1, <2>1 DEF StartedInOrder, Before
    <3>1. v # t
      BY <2>3
    <3>2. Before(accepted, u, v)
      BY <1>4, <2>2, <3>1, BeforeAppend
    <3> QED
      BY <3>2 DEF Serial, StartedInOrder
  <2> QED
    BY <2>7, <2>8, <2>9 DEF Serial
<1> QED
  BY <1>2, <1>3, <1>4

\* The task that is started is the first accepted of those its queue still has
\* to run.
LEMMA SerialPopWait ==
  ASSUME Inv, Serial, NEW w \in Workers, PopWait(w)
  PROVE  Serial'
<1> DEFINE q == QueueOf(w)
           s == items[q]
           h == Head(s)
<1>1. UNCHANGED <<shared, unposted, accepted>>
  BY DEF PopWait
<1>2. q \in Queues
  BY Crews DEF Inv
<1>3. CASE s = <<>>
  BY <1>1, <1>3, SerialSame DEF PopWait
<1>4. CASE s # <<>>
  <2>1. started' = Append(started, h) /\ items' = [items EXCEPT ![q] = Tail(s)]
    BY <1>4 DEF PopWait
  <2>2. /\ s \in Seq(Tasks) /\ started \in Seq(Tasks) /\ accepted \in Seq(Tasks)
        /\ \A r \in Queues : items'[r] = IF r = q THEN Tail(s) ELSE items[r]
    BY <1>2, <2>1 DEF Inv, TypeOK
  <2>3. \A u : Index(ConnOf[u])' = Index(ConnOf[u])
    BY <1>1 DEF Index
  <2>4. Once(s) /\ ToSet(s) \subseteq ToSet(accepted) \ ToSet(started)
    BY <1>2 DEF Serial, Whereabouts
  <2>5. /\ h \in Tasks /\ h \in ToSet(s) /\ Once(Tail(s)) /\ ToSet(Tail(s)) = ToSet(s) \ {h}
    BY <1>4, <2>2, <2>4, TailIsOnce
  <2>6. Index(ConnOf[h]) = q
    <3>1. h = s[1] /\ 1 \in 1 .. Len(s)
      BY <1>4, <2>2
    <3> QED
      BY <1>2, <3>1 DEF Inv, RightQueue
  <2> HIDE DEF q
  <2>7. \A u \in ToSet(s) : u # h => Before(s, h, u)
    BY <1>4, <2>2, BeforeTail
  <2>8. \A u, v : Before(Tail(s), u, v) => Before(s, u, v)
    BY <1>4, <2>2, BeforeTail
  <2>9. \A u, v \in Tasks : Before(s, u, v) => Before(accepted, u, v)
    BY <1>2 DEF Serial, QueueInOrder
  <2> HIDE DEF s, h
  <2>10. /\ Once(started') /\ ToSet(started') = ToSet(started) \cup {h}
    <3>1. h \notin ToSet(started) /\ Once(started)
      BY <2>4, <2>5 DEF Serial, Whereabouts
    <3> QED
      BY <2>1, <2>2, <2>5, <3>1, AppendIsOnce
  <2>11. Whereabouts'
    <3>1. \A u \in ToSet(accepted') : u \notin unposted'
      BY <1>1 DEF Serial, Whereabouts
    <3>2. Once(accepted') /\ ToSet(started') \subseteq ToSet(accepted')
      BY <1>1, <2>4, <2>5, <2>10 DEF Serial, Whereabouts
    <3>3. ASSUME NEW r \in Queues
          PROVE  Once(items'[r]) /\ ToSet(items'[r]) \subseteq ToSet(accepted') \ ToSet(started')
      <4>1. CASE r = q
        <5>1. items'[r] = Tail(s)
          BY <2>2, <4>1
        <5> QED
          BY <1>1, <2>4, <2>5, <2>10, <5>1
      <4>2. CASE r # q
        <5>1. items'[r] = items[r]
          BY <2>2, <4>2
        <5>2. Once(items[r]) /\ ToSet(items[r]) \subseteq ToSet(accepted) \ ToSet(started)
          BY DEF Serial, Whereabouts
        <5>3. h \notin ToSet(items[r])
          <6> SUFFICES ASSUME h \in ToSet(items[r]) PROVE FALSE
            OBVIOUS
          <6>1. items[r] \in Seq(Tasks)
            BY DEF Inv, TypeOK
          <6>2. PICK i \in 1 .. Len(items[r]) : items[r][i] = h
            BY <6>1 DEF ToSet
          <6>3. Index(ConnOf[h]) = r
            BY <6>2 DEF Inv, RightQueue
          <6> QED
            BY <2>6, <4>2, <6>3
        <5> QED
          BY <1>1, <2>10, <5>1, <5>2, <5>3
      <4> QED
        BY <4>1, <4>2
    <3>4. ASSUME NEW u \in ToSet(accepted)
          PROVE  u \in ToSet(started') \/ u \in ToSet(items'[Index(ConnOf[u])])
      <4>1. u \in Tasks
        BY <2>2 DEF ToSet
      <4>2. Index(ConnOf[u]) \in Queues
        BY <4>1, IndexInQueues DEF Inv
      <4>3. u \in ToSet(started) \/ u \in ToSet(items[Index(ConnOf[u])])
        BY DEF Serial, Whereabouts
      <4> DEFINE r == Index(ConnOf[u])
      <4> HIDE DEF r
      <4>4. CASE r = q
        <5>1. items'[r] = Tail(s) /\ items[r] = s
          BY <2>2, <4>2, <4>4 DEF r, s
        <5> QED
          BY <2>5, <2>10, <4>3, <5>1 DEF r
      <4>5. CASE r # q
        <5>1. items'[r] = items[r]
          BY <2>2, <4>2, <4>5 DEF r
        <5> QED
          BY <2>10, <4>3, <5>1 DEF r
      <4> QED
        BY <4>4, <4>5
    <3>5. \A u \in ToSet(accepted') :
            u \in ToSet(started') \/ u \in ToSet(items'[Index(ConnOf[u])'])
      BY <1>1, <2>3, <3>4
    <3> QED
      BY <2>10, <3>1, <3>2, <3>3, <3>5 DEF Whereabouts
  <2>12. QueueInOrder'
    <3> SUFFICES ASSUME NEW r \in Queues, NEW u \in Tasks, NEW v \in Tasks,
                        Before(items'[r], u, v)
                 PROVE  Before(accepted, u, v)
      BY <1>1 DEF QueueInOrder, Before
    <3>1. CASE r = q
      <4>1. items'[r] = Tail(s)
        BY <2>2, <3>1
      <4> QED
        BY <2>8, <2>9, <4>1
    <3>2. CASE r # q
      <4>1. items'[r] = items[r]
        BY <2>2, <3>2
      <4> QED
        BY <4>1 DEF Serial, QueueInOrder
    <3> QED
      BY <3>1, <3>2
  <2>13. StartedInOrder'
    <3> SUFFICES ASSUME NEW u \in Tasks, NEW v \in Tasks, Index(ConnOf[u]) = Index(ConnOf[v]),
                        Before(accepted, u, v), v \in ToSet(started')
                 PROVE  Before(started', u, v)
      BY <1>1, <2>3 DEF StartedInOrder, Before
    <3>1. CASE v \in ToSet(started)
      <4>1. Before(started, u, v)
        BY <3>1 DEF Serial, StartedInOrder
      <4> QED
        BY <2>1, <2>2, <2>5, <4>1, BeforeAppend
    <3>2. CASE v = h
      <4>1. u # h /\ ~Before(accepted, h, u)
        BY <2>2, <3>2, BeforeOneWay DEF Serial, Whereabouts
      <4>2. u \in ToSet(accepted)
        BY DEF Before, ToSet
      <4>3. u \in ToSet(started)
        <5> SUFFICES ASSUME u \notin ToSet(started) PROVE FALSE
          OBVIOUS
        <5>1. u \in ToSet(items[Index(ConnOf[u])])
          BY <4>2 DEF Serial, Whereabouts
        <5>2. u \in ToSet(s)
          BY <2>6, <3>2, <5>1 DEF s
        <5> QED
          BY <2>5, <2>7, <2>9, <4>1, <5>2
      <4> QED
        BY <2>1, <2>2, <2>5, <3>2, <4>3, BeforeAppend
    <3> QED
      BY <2>10, <3>1, <3>2
  <2> QED
    BY <2>11, <2>12, <2>13 DEF Serial
<1> QED
  BY <1>3, <1>4

\* Every action keeps it.
LEMMA SerialStep == Inv /\ Serial /\ [Next]_vars => Serial'
<1> SUFFICES ASSUME Inv, Serial, [Next]_vars PROVE Serial'
  OBVIOUS
<1>1. ASSUME NEW w \in Workers, WorkerStep(w) \/ SpuriousWakeup(w) PROVE Serial'
  <2>1. CASE PopWait(w)
    BY <2>1, SerialPopWait
  <2>2. CASE Top(w) \/ Wait(w) \/ Run(w) \/ SpuriousWakeup(w)
    <3>1. UNCHANGED <<shared, items, accepted, started, unposted>>
      BY <2>2 DEF Top, Wait, Run, SpuriousWakeup, queueVars, histVars
    <3> QED
      BY <3>1, SerialSame
  <2> QED
    BY <1>1, <2>1, <2>2 DEF WorkerStep
<1>2. ASSUME NEW p \in Posters, NotifyOne(p) \/ \E t \in Tasks : AddTask(p, t) PROVE Serial'
  <2>1. CASE NotifyOne(p)
    <3>1. UNCHANGED <<shared, items, accepted, started, unposted>>
      BY <2>1 DEF NotifyOne, queueVars, histVars
    <3> QED
      BY <3>1, SerialSame
  <2> QED
    BY <1>2, <2>1, SerialAddTask
<1>3. CASE ExitStep \/ Quiet \/ UNCHANGED vars
  <2>1. UNCHANGED <<shared, items, accepted, started, unposted>>
    BY <1>3 DEF ExitStep, SetExit, NotifyAll, Join, Quiet, vars, queueVars, histVars
  <2> QED
    BY <2>1, SerialSame
<1> QED
  BY <1>1, <1>2, <1>3 DEF Next

\* A ConnThreadPool runs the tasks of a connection one at a time, in the order
\* in which they were accepted, each once and none left out.
THEOREM AlwaysSerial == Spec => []SerialPerConn
<1>1. Inv /\ Serial => SerialPerConn
  <2> SUFFICES ASSUME Inv, Serial, ~shared PROVE InConnOrder /\ OneAtATime
    BY DEF SerialPerConn
  <2>1. OneAtATime
    BY DEF Inv, RightQueue, OneAtATime, QueueOf
  <2>2. IsInjective(started) /\ ToSet(started) \subseteq ToSet(accepted)
    BY DEF Serial, Whereabouts, Once, IsInjective
  <2>3. \A t, u \in Tasks : ConnOf[t] = ConnOf[u] => Index(ConnOf[t]) = Index(ConnOf[u])
    OBVIOUS
  <2> QED
    BY <2>1, <2>2, <2>3 DEF Serial, StartedInOrder, InConnOrder
<1>2. Spec => []Serial
  BY SerialInit, SerialStep, Invariant, PTL DEF Spec
<1> QED
  BY <1>1, <1>2, Invariant, PTL
=============================================================================
