------------------------------- MODULE Bases -------------------------------
(***************************************************************************)
(* A MultiBase: several EventBases, each looping in a thread of its own,   *)
(* the connections that the accepting base hands out among them, and the   *)
(* data that other threads post to connections through each base's list    *)
(* m_conns (a SafeList) and its ConnThreadPool.                            *)
(*                                                                         *)
(* The pool is what WorkerPool shows it to be: for each connection a queue *)
(* of tasks run one after the other.  A handler of a loop is here only     *)
(* what it does to the connection and to the list, one step for each part  *)
(* that other threads can come between.                                    *)
(***************************************************************************)
EXTENDS Naturals, Sequences, SequencesExt, FiniteSets

CONSTANTS
  NumBases,   \* m_bases.size()
  Conns,      \* TcpConns
  Posters,    \* threads that post data
  Msgs,       \* Buffers posted, each once
  IntValues,  \* how many values the counter m_id has, 2^32
  None

Bases == 0 .. NumBases - 1
Acceptor == 0   \* TcpServer::m_base: the server's constructor is the first to ask

ASSUME BasesAssumption ==
  /\ NumBases \in Nat \ {0} /\ IntValues \in Nat \ {0, 1}
  /\ None \notin Msgs \cup Conns \cup Bases

VARIABLES
  m_id,           \* MultiBase::m_id
  m_exit, loop,   \* each base: its flag, and where its Loop is
  exiting, joined,  \* MultiBase::Exit and Loop: bases told, threads joined
  at, base,       \* each connection: how far it has come, and m_base
  m_conns,        \* each base's list
  call,           \* each poster: its call in progress
  queue, sending, got,  \* each connection: its tasks in the pool, the one that
                  \* is between SendMsg's test of m_channel and its use, those m_channel took
  unposted, told, \* messages not posted yet; who is attached
                  \* and was in the list at its ForEach
  corrupt         \* m_channel was used when null or deleted, or a freed list node

loopVars == <<m_exit, loop, exiting, joined>>
connVars == <<m_id, at, base>>
poolVars == <<queue, sending, got>>
postVars == <<call, unposted, told>>
vars == <<loopVars, connVars, m_conns, poolVars, postVars, corrupt>>

NoCall == [op |-> None, base |-> None, msg |-> None, rest |-> <<>>]

\* A call with the connections it has still to come to: without any it is over.
Call(op, b, m, rest) ==
  IF rest = <<>> THEN NoCall ELSE [op |-> op, base |-> b, msg |-> m, rest |-> rest]

\* The mutex of a SafeList is held over a step only by ForEach.
Locked(b) == \E p \in Posters : call[p].op = "ForEach" /\ call[p].base = b

\* m_channel is set, and its Channel not deleted.
HasChannel(c) == at[c] \in {"attached", "removed"}

\* The loop is in the middle of a Cleanup.
Busy(b) == \E c \in Conns : base[c] = b /\ at[c] = "removed"
Runs(b) == loop[b] # "ended" /\ ~Busy(b) /\ ~corrupt

Init ==
  /\ m_id = 1   \* the server has its own base
  /\ m_exit = [b \in Bases |-> FALSE] /\ loop = [b \in Bases |-> "while"]
  /\ exiting = 0 /\ joined = 0
  /\ at = [c \in Conns |-> "none"] /\ base = [c \in Conns |-> None]
  /\ m_conns = [b \in Bases |-> <<>>]
  /\ call = [p \in Posters |-> NoCall]
  /\ queue = [c \in Conns |-> <<>>] /\ sending = [c \in Conns |-> None]
  /\ got = [c \in Conns |-> <<>>]
  /\ unposted = Msgs /\ told = [m \in Msgs |-> {}]
  /\ corrupt = FALSE

----------------------------------------------------------------------------
(* Handing out connections.                                                *)

\* AllocBase.  A counter that has become negative is converted to unsigned.
AllocBase == m_id % NumBases
Counted == (m_id + 1) % IntValues

\* The application asks for a base, for a connection it makes itself.
AskBase ==
  /\ ~corrupt /\ exiting = 0
  /\ m_id' = Counted
  /\ UNCHANGED <<at, base, loopVars, m_conns, poolVars, postVars, corrupt>>

\* Attach ends with AddConn, which waits for the list.
Attach(c, b) ==
  /\ ~Locked(b)
  /\ at' = [at EXCEPT ![c] = "attached"]
  /\ base' = [base EXCEPT ![c] = b]
  /\ m_conns' = [m_conns EXCEPT ![b] = Append(@, c)]

\* One connection in HandleAccept: attached at once, or by a task of its base.
HandleAccept(c) ==
  /\ Runs(Acceptor) /\ at[c] = "none"
  /\ m_id' = Counted
  /\ \/ AllocBase = Acceptor /\ Attach(c, Acceptor)
     \/ /\ AllocBase # Acceptor
        /\ at' = [at EXCEPT ![c] = "posted"]
        /\ base' = [base EXCEPT ![c] = AllocBase]
        /\ UNCHANGED m_conns
  /\ UNCHANGED <<loopVars, poolVars, postVars, corrupt>>

AddConnTask(c) ==
  /\ at[c] = "posted" /\ Runs(base[c])
  /\ Attach(c, base[c])
  /\ UNCHANGED <<m_id, loopVars, poolVars, postVars, corrupt>>

----------------------------------------------------------------------------
(* Cleanup: RemoveConn, then m_channel = nullptr and delete.               *)

\* Mutant: the channel goes first.
NulledFirst(c) ==
  /\ at' = [at EXCEPT ![c] = "gone"]
  /\ UNCHANGED <<m_conns, told>>

\* remove; the list has a connection once.
Removed(c) ==
  /\ ~Locked(base[c])
  /\ at' = [at EXCEPT ![c] = "removed"]
  /\ told' = [m \in Msgs |-> told[m] \ {c}]
  /\ m_conns' = [m_conns EXCEPT ![base[c]] = RemoveFirst(@, c)]

RemoveConn(c) ==
  /\ at[c] = "attached" /\ Runs(base[c])
  /\ Removed(c)
  /\ UNCHANGED <<m_id, base, loopVars, poolVars, call, unposted, corrupt>>

DeleteChannel(c) ==
  /\ at[c] = "removed" /\ ~corrupt
  /\ at' = [at EXCEPT ![c] = "gone"]
  /\ got' = [got EXCEPT ![c] = <<>>]
  /\ UNCHANGED <<m_id, base, loopVars, m_conns, queue, sending, postVars, corrupt>>

----------------------------------------------------------------------------
(* The loops and their end.                                                *)

\* Loop leaves its while: m_conns.Clear(), which does not ask for the mutex.
LeaveWhile(b) ==
  /\ Runs(b) /\ loop[b] = "while" /\ m_exit[b]
  /\ loop' = [loop EXCEPT ![b] = "last"]
  /\ m_conns' = [m_conns EXCEPT ![b] = <<>>]
  /\ UNCHANGED <<m_exit, exiting, joined, connVars, poolVars, postVars, corrupt>>

\* ... and returns after LoopOnce(0).
Return(b) ==
  /\ Runs(b) /\ loop[b] = "last"
  /\ loop' = [loop EXCEPT ![b] = "ended"]
  /\ UNCHANGED <<m_exit, exiting, joined, connVars, m_conns, poolVars, postVars, corrupt>>

\* Mutant: Exit is for the base of the calling thread.
ToldToExit == {NumBases - 1}

WillExit == Bases

\* MultiBase::Exit, base by base.
Exit ==
  /\ exiting < NumBases /\ ~corrupt
  /\ m_exit' = [m_exit EXCEPT ![exiting] = exiting \in WillExit]
  /\ exiting' = exiting + 1
  /\ UNCHANGED <<loop, joined, connVars, m_conns, poolVars, postVars, corrupt>>

\* MultiBase::Loop, on whose thread the last base runs, joins the others.
Join ==
  /\ loop[NumBases - 1] = "ended" /\ joined < NumBases - 1
  /\ loop[joined] = "ended"
  /\ joined' = joined + 1
  /\ UNCHANGED <<m_exit, loop, exiting, connVars, m_conns, poolVars, postVars, corrupt>>

Returned == loop[NumBases - 1] = "ended" /\ joined = NumBases - 1

----------------------------------------------------------------------------
(* Posting data.                                                           *)

\* Mutant: the list is not locked.
Unlocked(b) == TRUE

Lockable(b) == ~Locked(b)

\* PostDataToAllConns, at its ForEach.
PostDataToAllConns(p, b, m) ==
  /\ call[p] = NoCall /\ m \in unposted /\ Lockable(b) /\ ~corrupt
  /\ call' = [call EXCEPT ![p] = Call("ForEach", b, m, m_conns[b])]
  /\ unposted' = unposted \ {m}
  /\ told' = [told EXCEPT ![m] = ToSet(m_conns[b])]
  /\ UNCHANGED <<loopVars, connVars, m_conns, poolVars, corrupt>>

\* The task of ForEach for the next element of the list.
AddTask(p) ==
  /\ call[p] # NoCall /\ ~corrupt
  /\ LET k == call[p]
         c == Head(k.rest)
         ok == HasChannel(c) /\ (k.op = "ForEach" => c \in ToSet(m_conns[k.base]))
     IN  /\ corrupt' = ~ok
         /\ queue' = IF ok THEN [queue EXCEPT ![c] = Append(@, k.msg)] ELSE queue
         /\ call' = [call EXCEPT ![p] = Call(k.op, k.base, k.msg, Tail(k.rest))]
  /\ UNCHANGED <<loopVars, connVars, m_conns, sending, got, unposted, told>>

\* The TcpConn was made; tasks, or the application, may keep it after Cleanup.
Exists(c) == at[c] \in {"attached", "removed", "gone"}

\* PostDataToOneConn: wpConn.lock() succeeds; AddTask is its next step.
PostDataToOneConn(p, c, m) ==
  /\ call[p] = NoCall /\ m \in unposted /\ Exists(c) /\ ~corrupt
  /\ call' = [call EXCEPT ![p] = Call("One", None, m, <<c>>)]
  /\ unposted' = unposted \ {m}
  /\ UNCHANGED <<loopVars, connVars, m_conns, poolVars, told, corrupt>>

\* SendMsg in a worker: if (m_channel) ...
TestChannel(c) ==
  /\ queue[c] # <<>> /\ sending[c] = None /\ ~corrupt
  /\ queue' = [queue EXCEPT ![c] = Tail(@)]
  /\ sending' = [sending EXCEPT ![c] = IF HasChannel(c) THEN Head(queue[c]) ELSE None]
  /\ UNCHANGED <<loopVars, connVars, m_conns, got, postVars, corrupt>>

\* ... and m_channel-> after it.
UseChannel(c) ==
  /\ sending[c] # None /\ ~corrupt
  /\ corrupt' = ~HasChannel(c)
  /\ got' = IF HasChannel(c) THEN [got EXCEPT ![c] = Append(@, sending[c])] ELSE got
  /\ sending' = [sending EXCEPT ![c] = None]
  /\ UNCHANGED <<loopVars, connVars, m_conns, queue, postVars>>

----------------------------------------------------------------------------

LoopStep(b) ==
  \/ LeaveWhile(b)
  \/ Return(b)
  \/ \E c \in Conns : base[c] = b /\ (AddConnTask(c) \/ DeleteChannel(c))

WorkerStep(c) == TestChannel(c) \/ UseChannel(c)

Next ==
  \/ \E b \in Bases : LoopStep(b)
  \/ \E c \in Conns : HandleAccept(c) \/ RemoveConn(c) \/ WorkerStep(c)
  \/ Exit \/ Join \/ AskBase
  \/ \E p \in Posters :
       \/ AddTask(p)
       \/ \E b \in Bases, m \in Msgs : PostDataToAllConns(p, b, m)
       \/ \E c \in Conns, m \in Msgs : PostDataToOneConn(p, c, m)

\* Threads are scheduled.  Nobody has to connect, hang up or post; a call of
\* Exit goes on once made.
Spec == Init /\ [][Next]_vars
FairSpec ==
  /\ Spec
  /\ \A b \in Bases : WF_vars(LoopStep(b))
  /\ \A p \in Posters : WF_vars(AddTask(p))
  /\ \A c \in Conns : WF_vars(WorkerStep(c))
  /\ WF_vars(exiting > 0 /\ Exit) /\ WF_vars(Join)

----------------------------------------------------------------------------
(* Properties.                                                             *)

TypeOK ==
  /\ m_id \in 0 .. IntValues - 1
  /\ m_exit \in [Bases -> BOOLEAN] /\ loop \in [Bases -> {"while", "last", "ended"}]
  /\ exiting \in 0 .. NumBases /\ joined \in 0 .. NumBases - 1
  /\ at \in [Conns -> {"none", "posted", "attached", "removed", "gone"}]
  /\ base \in [Conns -> Bases \cup {None}]
  /\ m_conns \in [Bases -> Seq(Conns)]
  /\ call \in [Posters -> [op : {None, "ForEach", "One"}, base : Bases \cup {None},
                           msg : Msgs \cup {None}, rest : Seq(Conns)]]
  /\ queue \in [Conns -> Seq(Msgs)] /\ sending \in [Conns -> Msgs \cup {None}]
  /\ got \in [Conns -> Seq(Msgs)]
  /\ unposted \subseteq Msgs /\ told \in [Msgs -> SUBSET Conns]
  /\ corrupt \in BOOLEAN

\* Until its loop ends, a base's list has each of its attached connections once
\* and nothing else, whichever thread accepted them (AddConn, RemoveConn).
ListsMatch ==
  /\ TypeOK
  /\ \A b \in Bases : loop[b] = "while" =>
       /\ \A i, j \in DOMAIN m_conns[b] : m_conns[b][i] = m_conns[b][j] => i = j
       /\ ToSet(m_conns[b]) = {c \in Conns : base[c] = b /\ at[c] = "attached"}

\* A broadcast, which reads each connection's channel on its own thread, finds
\* the element it has come to in the list and its channel alive, as long as the
\* base loops: RemoveConn, which waits for ForEach, comes before m_channel is
\* cleared (TcpConn.cpp:242-246).
WalkSafe ==
  \A p \in Posters :
    call[p].op = "ForEach" /\ call[p].rest # <<>> /\ loop[call[p].base] = "while"
      => /\ Head(call[p].rest) \in ToSet(m_conns[call[p].base])
         /\ HasChannel(Head(call[p].rest))

\* What was or will be sent to a connection.
Log(c) == got[c] \o (IF sending[c] = None THEN <<>> ELSE <<sending[c]>>) \o queue[c]

Precedes(m, n, s) == \E i, j \in DOMAIN s : i < j /\ s[i] = m /\ s[j] = n

\* Broadcasts reach every connection in the list when they began, once, and any
\* two connections get them in the same order, however the posters, the workers
\* and the loops interleave (ForEach holds the mutex to its end).
OneOrder ==
  /\ \A m \in Msgs, c \in Conns :
       c \in told[m] /\ ~corrupt /\ (\A p \in Posters : call[p].msg # m)
       => Cardinality({i \in DOMAIN Log(c) : Log(c)[i] = m}) = 1
  /\ \A c, d \in Conns, m, n \in Msgs :
       Precedes(m, n, Log(c)) => ~Precedes(n, m, Log(d))

\* After Exit, MultiBase::Loop joins every thread and returns.
LoopReturns == exiting > 0 ~> Returned \/ corrupt
=============================================================================
