----------------------------- MODULE IdleLists -----------------------------
(***************************************************************************)
(* The idle limits of an EventBase: RegisterIdle, UpdateIdle and           *)
(* UnregisterIdle keep, for each limit in seconds, a list of connections   *)
(* with the least recently active in front; once a second a timer calls    *)
(* CallIdles, which walks a copy of each list and calls the callback of    *)
(* every connection past the limit.  It stops at the first that is not.    *)
(*                                                                         *)
(* The clock counts fractions of a second, PerSec of them, because the     *)
(* lists hold whole seconds.  It never goes back.  The loop may be late.   *)
(***************************************************************************)
EXTENDS Naturals, Sequences, SequencesExt, FiniteSetsExt

CONSTANTS
  Conns,      \* TcpConns
  Limits,     \* idle limits in seconds, each used at most once by a connection
  PerSec,     \* clock units in a second
  MaxTime     \* bound: the last value of the clock

ASSUME IdleListsAssumption ==
  /\ Limits \subseteq Nat \ {0} /\ Limits # {}
  /\ PerSec \in Nat \ {0} /\ MaxTime \in Nat

VARIABLES
  clock,
  state,            \* TcpConn: before Connected, between it and Cleanup, after
  m_idleIds,        \* TcpConn::m_idleIds, as the limits of their lists
  m_idleConns,      \* for each limit the list of IdleNodes
  m_idleEnabled, at,  \* the timer is set, and for when
  tasks,            \* connections whose Close is in m_tasks
  pc, due,          \* the loop; HandleTimeouts' now
  now, ahead, idle, lst, cnt,  \* CallIdles' now, it, idle, lst and cnt
  active, called    \* history: last activity; callbacks since then

connVars == <<state, m_idleIds, m_idleConns>>
timerVars == <<m_idleEnabled, at>>
walkVars == <<now, ahead, idle, lst, cnt>>
histVars == <<active, called>>
vars == <<clock, connVars, timerVars, tasks, pc, due, walkVars, histVars>>

Seconds(t) == t \div PerSec
Open(c) == state[c] = "Connected"

Init ==
  /\ clock = 0
  /\ state = [c \in Conns |-> "Handshaking"]
  /\ m_idleIds = [c \in Conns |-> {}]
  /\ m_idleConns = [l \in Limits |-> <<>>]
  /\ m_idleEnabled = FALSE /\ at = 0
  /\ tasks = {}
  /\ pc = "poll" /\ due = 0
  /\ now = 0 /\ ahead = {} /\ idle = 0 /\ lst = <<>> /\ cnt = 0
  /\ active = [c \in Conns |-> 0] /\ called = {}

----------------------------------------------------------------------------
(* The lists.                                                              *)

Node(c) == [m_conn |-> c, m_updated |-> Seconds(clock)]
\* erase of the node an IdleId points at.
Without(list, c) == RemoveFirstMatch(list, LAMBDA n : n.m_conn = c)

\* RegisterIdle, for each limit in `limits`; the first call ever sets the timer.
RegisterIdle(c, limits) ==
  /\ m_idleIds' = [m_idleIds EXCEPT ![c] = @ \cup limits]
  /\ m_idleConns' = [l \in Limits |-> IF l \in limits THEN Append(m_idleConns[l], Node(c))
                                                      ELSE m_idleConns[l]]
  /\ m_idleEnabled' = (m_idleEnabled \/ limits # {})
  /\ at' = IF ~m_idleEnabled /\ limits # {} THEN clock + PerSec ELSE at

\* Mutants: the node keeps its place; the node keeps its time.
MovedInPlace(list, c) == [i \in DOMAIN list |-> IF list[i].m_conn = c THEN Node(c) ELSE list[i]]
MovedUnchanged(list, c) == Without(list, c) \o SelectSeq(list, LAMBDA n : n.m_conn = c)

\* UpdateIdle: the node gets the time and goes to the end.
Moved(list, c) == Append(Without(list, c), Node(c))

\* Mutant: the id of the shortest limit is forgotten.
ErasedFrom(c) == m_idleIds[c] \ {l \in m_idleIds[c] : \A k \in m_idleIds[c] : l <= k}

\* The lists that Cleanup's loop of UnregisterIdle erases c from.
RegisteredIn(c) == m_idleIds[c]

\* Cleanup; m_idleIds is left as it is.  The history of the connection ends.
Cleanup(c) ==
  /\ state' = [state EXCEPT ![c] = "Closed"]
  /\ m_idleConns' = [l \in Limits |-> IF l \in RegisteredIn(c) THEN Without(m_idleConns[l], c)
                                                               ELSE m_idleConns[l]]
  /\ active' = [active EXCEPT ![c] = 0]
  /\ called' = {k \in called : k[1] # c}
  /\ UNCHANGED m_idleIds

----------------------------------------------------------------------------
(* What the poller's handlers do to the lists.                             *)

\* HandleHandshake: the state callback calls AddIdleCB for some limits.
Connected(c) ==
  /\ pc = "poll" /\ state[c] = "Handshaking"
  /\ state' = [state EXCEPT ![c] = "Connected"]
  /\ \E limits \in SUBSET Limits : RegisterIdle(c, limits)
  /\ active' = [active EXCEPT ![c] = clock]
  /\ UNCHANGED <<clock, tasks, pc, due, walkVars, called>>

\* HandleRead, when all that came has been received.
HandleRead(c) ==
  /\ pc = "poll" /\ Open(c)
  /\ m_idleConns' = [l \in Limits |-> IF l \in m_idleIds[c] THEN Moved(m_idleConns[l], c)
                                                            ELSE m_idleConns[l]]
  /\ active' = [active EXCEPT ![c] = clock]
  /\ called' = {k \in called : k[1] # c}
  /\ UNCHANGED <<clock, state, m_idleIds, timerVars, tasks, pc, due, walkVars>>

\* HandleRead, when the peer hung up, and the task that Close posted.
HangUp(c) ==
  /\ pc = "poll" /\ Open(c)
  /\ Cleanup(c)
  /\ UNCHANGED <<clock, timerVars, tasks, pc, due, walkVars>>

CloseTask(c) ==
  /\ pc = "poll" /\ c \in tasks
  /\ tasks' = tasks \ {c}
  /\ IF Open(c) THEN Cleanup(c) ELSE UNCHANGED <<connVars, histVars>>
  /\ UNCHANGED <<clock, timerVars, pc, due, walkVars>>

\* LoopOnce goes from the poller to HandleTimeouts; when the timer is not due
\* that changes nothing here.
EndPoll ==
  /\ pc = "poll" /\ m_idleEnabled /\ at <= clock
  /\ pc' = "timeouts" /\ due' = clock
  /\ UNCHANGED <<clock, connVars, timerVars, tasks, walkVars, histVars>>

----------------------------------------------------------------------------
(* HandleTimeouts, RepeatableTimeout and CallIdles.                        *)

\* Mutant: the timer is not repeated.
NextTimeOnce(t) == MaxTime + 1

\* RepeatableTimeout: m_at += m_interval.
NextTime(t) == t + PerSec

HandleTimeouts ==
  /\ pc = "timeouts"
  /\ IF at <= due
     THEN /\ at' = NextTime(at)
          /\ pc' = "list" /\ now' = Seconds(clock) /\ ahead' = Limits
          /\ UNCHANGED due
     ELSE /\ pc' = "poll" /\ due' = 0
          /\ UNCHANGED <<at, now, ahead>>
  /\ UNCHANGED <<clock, connVars, m_idleEnabled, tasks, idle, lst, cnt, histVars>>

\* The outer loop: copy the next list of the map.
NextList ==
  /\ pc = "list"
  /\ IF ahead = {}
     THEN /\ pc' = "timeouts" /\ now' = 0 /\ idle' = 0
          /\ UNCHANGED <<ahead, lst, cnt>>
     ELSE /\ pc' = "node"
          /\ idle' = Min(ahead) /\ ahead' = ahead \ {idle'}
          /\ lst' = m_idleConns[idle'] /\ cnt' = Len(lst')
          /\ UNCHANGED now
  /\ UNCHANGED <<clock, connVars, timerVars, tasks, due, histVars>>

\* The inner loop: up to the call of the first node's callback, or its end.
Fresh(node) == node.m_updated + idle > now

NextNode ==
  /\ pc = "node"
  /\ IF cnt = 0 \/ Fresh(Head(lst))
     THEN /\ pc' = "list" /\ lst' = <<>> /\ cnt' = 0
          /\ UNCHANGED called
     ELSE /\ pc' = "callback"
          /\ lst' = Append(Tail(lst), [Head(lst) EXCEPT !.m_updated = now])
          /\ cnt' = cnt - 1
          /\ called' = called \cup {<<Head(lst).m_conn, idle>>}
  /\ UNCHANGED <<clock, connVars, timerVars, tasks, due, now, ahead, idle, active>>

\* The user's idle callback: it may call Close, or close the channel at once
\* (which runs Cleanup), or add a limit, or only look.
IdleCallback ==
  /\ pc = "callback"
  /\ pc' = "node"
  /\ LET c == Last(lst).m_conn
     IN  \/ /\ tasks' = IF Open(c) THEN tasks \cup {c} ELSE tasks
            /\ UNCHANGED <<connVars, timerVars, histVars>>
         \/ Open(c) /\ Cleanup(c) /\ UNCHANGED <<timerVars, tasks>>
         \/ /\ Open(c) /\ \E l \in Limits \ m_idleIds[c] : RegisterIdle(c, {l})
            /\ UNCHANGED <<state, tasks, histVars>>
         \/ UNCHANGED <<connVars, timerVars, tasks, histVars>>
  /\ UNCHANGED <<clock, due, walkVars>>

Tick ==
  /\ clock < MaxTime
  /\ clock' = clock + 1
  /\ UNCHANGED <<connVars, timerVars, tasks, pc, due, walkVars, histVars>>

Handler(c) == Connected(c) \/ HandleRead(c) \/ HangUp(c) \/ CloseTask(c)
LoopStep == EndPoll \/ HandleTimeouts \/ NextList \/ NextNode \/ IdleCallback
Next == LoopStep \/ Tick \/ \E c \in Conns : Handler(c)

\* The loop goes on, and so does time; no peer has to do anything.
Spec == Init /\ [][Next]_vars
FairSpec == Spec /\ WF_vars(LoopStep) /\ WF_vars(Tick)

----------------------------------------------------------------------------
(* Properties.                                                             *)

Nodes == [m_conn : Conns, m_updated : 0 .. Seconds(MaxTime)]

TypeOK ==
  /\ clock \in 0 .. MaxTime /\ due \in 0 .. clock /\ now \in 0 .. Seconds(clock)
  /\ state \in [Conns -> {"Handshaking", "Connected", "Closed"}]
  /\ m_idleIds \in [Conns -> SUBSET Limits]
  /\ m_idleConns \in [Limits -> Seq(Nodes)] /\ lst \in Seq(Nodes)
  /\ m_idleEnabled \in BOOLEAN /\ at \in Nat
  /\ tasks \subseteq Conns
  /\ pc \in {"poll", "timeouts", "list", "node", "callback"}
  /\ ahead \subseteq Limits /\ idle \in Limits \cup {0} /\ cnt \in 0 .. Len(lst)
  /\ active \in [Conns -> 0 .. clock] /\ called \subseteq Conns \X Limits

\* Each IdleId points at a node while its connection is open, and the lists hold
\* nothing else: no node outlives Cleanup and keeps a TcpConn alive, and no
\* iterator that UpdateIdle or UnregisterIdle uses has been erased
\* (EventBase.cpp:225-235).
IdsValid ==
  /\ TypeOK
  /\ \A l \in Limits :
       LET list == m_idleConns[l]
       IN  /\ \A i, j \in DOMAIN list : list[i].m_conn = list[j].m_conn => i = j
           /\ {list[i].m_conn : i \in DOMAIN list} = {c \in Conns : Open(c) /\ l \in m_idleIds[c]}

\* A callback comes for an open connection that has been silent for the limit,
\* less the second that is lost to whole seconds, although CallIdles decides it
\* on a copy (EventBase.cpp:196).
CalledWhenIdle ==
  pc = "callback" =>
    LET c == Last(lst).m_conn IN Open(c) /\ clock - active[c] > (idle - 1) * PerSec

\* When CallIdles leaves a list, at the first node within the limit
\* (EventBase.cpp:202), no connection of that list past the limit has been
\* missed: the list is in the order of activity, whatever happened between.
NobodyMissed ==
  pc = "list" /\ idle # 0 =>
    \A i \in DOMAIN m_idleConns[idle] :
      LET n == m_idleConns[idle][i]
      IN  n.m_updated + idle <= now => <<n.m_conn, idle>> \in called

\* A connection that stays silent is called within a second of its limit, as
\* soon as the loop runs, unless it ends.  (The clock's bound must leave the
\* time for it.)
IdleIsCalled ==
  \A c \in Conns, l \in Limits, s \in 0 .. Seconds(MaxTime) :
    (s + l + 1) * PerSec <= MaxTime + 1 =>
      LET silent == [m_conn |-> c, m_updated |-> s] \in ToSet(m_idleConns[l])
      IN  silent ~> (<<c, l>> \in called \/ ~silent)
=============================================================================
