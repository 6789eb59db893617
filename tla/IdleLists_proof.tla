--------------------------- MODULE IdleLists_proof ---------------------------
(***************************************************************************)
(* Proofs about IdleLists, for any connections, limits and clock: the      *)
(* IdleIds are valid, callbacks come only to connections that have been    *)
(* idle, and CallIdles, which stops at the first node within the limit and *)
(* walks a copy, misses nobody.                                            *)
(***************************************************************************)
EXTENDS IdleLists, Integers, SequenceTheorems, WellFoundedInduction, TLAPS

----------------------------------------------------------------------------
(* Facts about numbers and lists.                                          *)

\* A set of numbers that is not empty has a least.
LEMMA LeastNatural ==
  ASSUME NEW T \in SUBSET Nat, T # {}
  PROVE  \E x \in T : \A y \in T : x <= y
<1> DEFINE R == {p \in Nat \X Nat : p[1] < p[2]}
<1>1. IsWellFoundedOn(R, Nat)
  BY NatLessThanWellFounded DEF OpToRel
<1>2. \A x, y \in Nat : y < x => <<y, x>> \in R
  OBVIOUS
<1> HIDE DEF R
<1>3. PICK x \in T : \A y \in T : <<y, x>> \notin R
  BY <1>1, WFMin
<1>4. \A y \in T : ~(y < x)
  BY <1>2, <1>3
<1> QED
  BY <1>3, <1>4

\* An element taken out.
LEMMA RemovedAt ==
  ASSUME NEW S, NEW s \in Seq(S), NEW i \in 1 .. Len(s)
  PROVE  /\ RemoveAt(s, i) \in Seq(S)
         /\ Len(RemoveAt(s, i)) = Len(s) - 1
         /\ \A k \in 1 .. Len(s) - 1 : RemoveAt(s, i)[k] = IF k < i THEN s[k] ELSE s[k + 1]
<1> DEFINE n == Len(s)
           p == SubSeq(s, 1, i - 1)
           r == SubSeq(s, i + 1, n)
<1>1. n \in Nat /\ i \in Nat /\ 1 <= i /\ i <= n /\ \A k \in 1 .. n : s[k] \in S
  OBVIOUS
<1>2. /\ p \in Seq(S) /\ Len(p) = i - 1
      /\ \A k \in 1 .. i - 1 : p[k] = s[k]
  <2>1. \A k \in 1 .. i - 1 : s[k] \in S
    BY <1>1
  <2>2. p \in Seq(S) /\ Len(p) = (IF 1 <= i - 1 THEN i - 1 - 1 + 1 ELSE 0)
        /\ \A k \in 1 .. i - 1 - 1 + 1 : p[k] = s[1 + k - 1]
    BY <1>1, <2>1, SubSeqProperties
  <2> HIDE DEF p
  <2> QED
    BY <1>1, <2>2
<1>3. /\ r \in Seq(S) /\ Len(r) = n - i
      /\ \A k \in 1 .. n - i : r[k] = s[i + k]
  <2>1. \A k \in i + 1 .. n : s[k] \in S
    BY <1>1
  <2>2. r \in Seq(S) /\ Len(r) = (IF i + 1 <= n THEN n - (i + 1) + 1 ELSE 0)
        /\ \A k \in 1 .. n - (i + 1) + 1 : r[k] = s[i + 1 + k - 1]
    BY <1>1, <2>1, SubSeqProperties
  <2> HIDE DEF r, n
  <2> QED
    BY <1>1, <2>2
<1>4. RemoveAt(s, i) = p \o r
  BY DEF RemoveAt
<1> HIDE DEF p, r, n
<1>5. /\ p \o r \in Seq(S) /\ Len(p \o r) = n - 1
      /\ \A k \in 1 .. n - 1 : (p \o r)[k] = IF k <= i - 1 THEN p[k] ELSE r[k - (i - 1)]
  BY <1>1, <1>2, <1>3, ConcatProperties
<1>6. \A k \in 1 .. n - 1 : (p \o r)[k] = IF k < i THEN s[k] ELSE s[k + 1]
  <2> SUFFICES ASSUME NEW k \in 1 .. n - 1
               PROVE  (p \o r)[k] = IF k < i THEN s[k] ELSE s[k + 1]
    OBVIOUS
  <2>1. CASE k < i
    <3>1. k \in 1 .. i - 1 /\ k <= i - 1
      BY <1>1, <2>1
    <3> QED
      BY <1>2, <1>5, <2>1, <3>1
  <2>2. CASE ~(k < i)
    <3>1. k - (i - 1) \in 1 .. n - i /\ i + (k - (i - 1)) = k + 1 /\ ~(k <= i - 1)
      BY <1>1, <2>2
    <3>2. r[k - (i - 1)] = s[k + 1]
      BY <1>3, <3>1
    <3> QED
      BY <1>5, <2>2, <3>1, <3>2
  <2> QED
    BY <2>1, <2>2
<1> QED
  BY <1>4, <1>5, <1>6 DEF n

----------------------------------------------------------------------------
(* The inductive invariant.                                                *)

\* A list has a connection once, the least recently active in front, and no
\* time after hi.
OnceEach(list) == \A i, j \in DOMAIN list : list[i].m_conn = list[j].m_conn => i = j
Sorted(list) == \A i, j \in DOMAIN list : i <= j => list[i].m_updated <= list[j].m_updated
Good(list, hi) ==
  /\ list \in Seq(Nodes) /\ OnceEach(list) /\ Sorted(list)
  /\ \A n \in ToSet(list) : n.m_updated <= hi

\* The list of a limit has the open connections that are registered with it, and
\* no node is older than the last activity of its connection.
ListOK(l) ==
  /\ Good(m_idleConns[l], Seconds(clock))
  /\ \A n \in ToSet(m_idleConns[l]) :
       /\ Open(n.m_conn) /\ l \in m_idleIds[n.m_conn]
       /\ Seconds(active[n.m_conn]) <= n.m_updated
  /\ \A c \in Conns :
       Open(c) /\ l \in m_idleIds[c] => \E n \in ToSet(m_idleConns[l]) : n.m_conn = c

Lists ==
  /\ \A l \in Limits : ListOK(l)
  /\ \A c \in Conns : state[c] = "Handshaking" => m_idleIds[c] = {}

\* The nodes that CallIdles has still to come to, at the front of its copy, are
\* nodes of the list, in its order; a node of the list that is past the limit is
\* one of them or has been called.
Walking ==
  /\ idle \in Limits
  /\ \A i, j \in 1 .. cnt : i <= j => lst[i].m_updated <= lst[j].m_updated
  /\ \A i, j \in 1 .. cnt : lst[i].m_conn = lst[j].m_conn => i = j
  /\ \A i \in 1 .. cnt : lst[i] \in ToSet(m_idleConns[idle])
  /\ \A n \in ToSet(m_idleConns[idle]) :
       n.m_updated + idle <= now
         => <<n.m_conn, idle>> \in called \/ \E i \in 1 .. cnt : lst[i] = n

\* The connection whose callback runs is the last of the copy, open, and in none
\* of the nodes still to come.
Calling ==
  /\ cnt < Len(lst)
  /\ Open(lst[Len(lst)].m_conn) /\ idle \in m_idleIds[lst[Len(lst)].m_conn]
  /\ clock - active[lst[Len(lst)].m_conn] > (idle - 1) * PerSec
  /\ \A i \in 1 .. cnt : lst[i].m_conn # lst[Len(lst)].m_conn

AllCalled ==
  \A n \in ToSet(m_idleConns[idle]) : n.m_updated + idle <= now => <<n.m_conn, idle>> \in called

Walk ==
  /\ pc \in {"poll", "timeouts"} => idle = 0
  /\ pc = "list" /\ idle # 0 => AllCalled
  /\ pc \in {"node", "callback"} => Walking
  /\ pc = "callback" => Calling

Inv == TypeOK /\ Lists /\ Walk

----------------------------------------------------------------------------
(* Whole seconds.                                                          *)

\* A product grows with its factor.
LEMMA ProductGrows ==
  ASSUME NEW a \in Nat, NEW b \in Nat, a <= b, NEW n \in Nat
  PROVE  a * n <= b * n
<1>1. PICK d \in Nat : b = a + d
  <2>1. b - a \in Nat /\ b = a + (b - a)
    OBVIOUS
  <2> QED
    BY <2>1
<1>2. (a + d) * n = a * n + d * n /\ d * n \in Nat /\ a * n \in Nat
  OBVIOUS
<1> QED
  BY <1>1, <1>2

\* A time lies in its second.
LEMMA SecondsIs ==
  ASSUME NEW t \in Nat
  PROVE  /\ Seconds(t) \in Nat
         /\ Seconds(t) * PerSec <= t /\ t < (Seconds(t) + 1) * PerSec
<1>1. PerSec \in Nat \ {0}
  BY IdleListsAssumption DEF IdleListsAssumption
<1> DEFINE q == t \div PerSec
<1>2. q \in Nat /\ q * PerSec <= t /\ t < q * PerSec + PerSec
  BY <1>1
<1>3. (q + 1) * PerSec = q * PerSec + PerSec
  BY <1>1, <1>2
<1> QED
  BY <1>2, <1>3 DEF Seconds

\* Later times are not in earlier seconds.
LEMMA SecondsGrow ==
  ASSUME NEW t \in Nat, NEW u \in Nat, t <= u
  PROVE  Seconds(t) <= Seconds(u)
<1> DEFINE q == Seconds(t)
           p == Seconds(u)
<1>1. /\ q \in Nat /\ p \in Nat /\ PerSec \in Nat
      /\ q * PerSec <= t /\ u < (p + 1) * PerSec
  BY SecondsIs, IdleListsAssumption DEF IdleListsAssumption
<1> HIDE DEF q, p
<1>2. SUFFICES ASSUME ~(q <= p) PROVE FALSE
  BY DEF q, p
<1>3. p + 1 \in Nat /\ p + 1 <= q
  BY <1>1, <1>2
<1>4. (p + 1) * PerSec <= q * PerSec
  BY <1>1, <1>3, ProductGrows
<1>5. (p + 1) * PerSec \in Int /\ q * PerSec \in Int
  BY <1>1
<1> QED
  BY <1>1, <1>4, <1>5

\* Who has been silent for `limit` whole seconds has been for limit - 1 seconds.
LEMMA SilentFor ==
  ASSUME NEW a \in Nat, NEW t \in Nat, NEW limit \in Nat \ {0}, Seconds(a) + limit <= Seconds(t)
  PROVE  t - a > (limit - 1) * PerSec
<1> DEFINE q == Seconds(a)
           p == Seconds(t)
<1>1. /\ q \in Nat /\ p \in Nat /\ PerSec \in Nat
      /\ p * PerSec <= t /\ a < (q + 1) * PerSec
  BY SecondsIs, IdleListsAssumption DEF IdleListsAssumption
<1> HIDE DEF q, p
<1>2. q + limit <= p
  BY DEF q, p
<1>3. PICK m \in Nat : limit = m + 1
  <2>1. limit - 1 \in Nat /\ limit = (limit - 1) + 1
    OBVIOUS
  <2> QED
    BY <2>1
<1>4. ((q + 1) + m) * PerSec <= p * PerSec
  BY <1>1, <1>2, <1>3, ProductGrows
<1>5. ((q + 1) + m) * PerSec = (q + 1) * PerSec + m * PerSec
  BY <1>1, <1>3
<1>6. (q + 1) * PerSec \in Nat /\ m * PerSec \in Nat /\ p * PerSec \in Nat
  BY <1>1
<1>7. t - a > m * PerSec
  BY <1>1, <1>4, <1>5, <1>6
<1>8. limit - 1 = m
  BY <1>3
<1> QED
  BY <1>7, <1>8

----------------------------------------------------------------------------
(* The lists.                                                              *)

\* The nodes of a list, by their places.
LEMMA NodeAt ==
  ASSUME NEW list \in Seq(Nodes), NEW n \in ToSet(list)
  PROVE  n \in Nodes /\ \E i \in 1 .. Len(list) : list[i] = n
BY DEF ToSet

\* erase takes out the node of c, if any, and nothing else.
LEMMA WithoutIs ==
  ASSUME NEW list, NEW hi, Good(list, hi), NEW c
  PROVE  /\ Good(Without(list, c), hi)
         /\ ToSet(Without(list, c)) = {n \in ToSet(list) : n.m_conn # c}
<1> DEFINE I == {i \in 1 .. Len(list) : list[i].m_conn = c}
           t == Without(list, c)
           L == Len(list)
<1>1. list \in Seq(Nodes) /\ OnceEach(list) /\ Sorted(list) /\ L \in Nat /\ DOMAIN list = 1 .. L
      /\ \A n \in ToSet(list) : n.m_updated <= hi
  BY DEF Good
<1>2. CASE I = {}
  <2>1. t = list
    BY <1>2 DEF Without, RemoveFirstMatch
  <2>2. \A n \in ToSet(list) : n.m_conn # c
    BY <1>1, <1>2, NodeAt
  <2> HIDE DEF t, I
  <2> QED
    BY <2>1, <2>2 DEF t
<1>3. CASE I # {}
  <2> DEFINE m == CHOOSE x \in I : \A y \in I : x <= y
  <2>1. m \in I
    <3>1. I \subseteq Nat
      BY <1>1
    <3>2. \E x \in I : \A y \in I : x <= y
      BY <1>3, <3>1, LeastNatural
    <3> QED
      BY <3>2
  <2>2. t = RemoveAt(list, m)
    BY <1>3 DEF Without, RemoveFirstMatch, SelectInSeq, Min
  <2> HIDE DEF t, m
  <2>3. m \in 1 .. L /\ list[m].m_conn = c
    BY <2>1
  <2>4. /\ t \in Seq(Nodes) /\ Len(t) = L - 1
        /\ \A k \in 1 .. L - 1 : t[k] = IF k < m THEN list[k] ELSE list[k + 1]
    BY <1>1, <2>2, <2>3, RemovedAt
  <2> HIDE DEF L, I
  <2>5. DOMAIN t = 1 .. L - 1
    BY <2>4
  <2>6. \A k \in 1 .. L - 1 :
          \E x \in 1 .. L : x # m /\ x >= k /\ x <= k + 1 /\ (k >= m <=> x = k + 1) /\ t[k] = list[x]
    <3> SUFFICES ASSUME NEW k \in 1 .. L - 1
                 PROVE  \E x \in 1 .. L : /\ x # m /\ x >= k /\ x <= k + 1
                                          /\ (k >= m <=> x = k + 1) /\ t[k] = list[x]
      OBVIOUS
    <3>1. CASE k < m
      <4>1. k \in 1 .. L /\ k # m /\ t[k] = list[k] /\ ~(k >= m) /\ k # k + 1
        BY <1>1, <2>3, <2>4, <3>1
      <4> QED
        BY <4>1
    <3>2. CASE ~(k < m)
      <4>1. PICK x : x = k + 1
        OBVIOUS
      <4>2. x \in 1 .. L /\ x # m /\ t[k] = list[x] /\ x >= k /\ k >= m
        BY <1>1, <2>3, <2>4, <3>2, <4>1
      <4> QED
        BY <4>1, <4>2
    <3> QED
      BY <3>1, <3>2
  <2>7. OnceEach(t)
    <3> SUFFICES ASSUME NEW i \in 1 .. L - 1, NEW j \in 1 .. L - 1, t[i].m_conn = t[j].m_conn
                 PROVE  i = j
      BY <2>5 DEF OnceEach
    <3>1. PICK x \in 1 .. L : x >= i /\ x <= i + 1 /\ (i >= m <=> x = i + 1) /\ t[i] = list[x]
      BY <2>6
    <3>2. PICK y \in 1 .. L : y >= j /\ y <= j + 1 /\ (j >= m <=> y = j + 1) /\ t[j] = list[y]
      BY <2>6
    <3>3. x = y
      BY <1>1, <3>1, <3>2 DEF OnceEach
    <3> QED
      BY <1>1, <2>3, <3>1, <3>2, <3>3
  <2>8. Sorted(t)
    <3> SUFFICES ASSUME NEW i \in 1 .. L - 1, NEW j \in 1 .. L - 1, i <= j
                 PROVE  t[i].m_updated <= t[j].m_updated
      BY <2>5 DEF Sorted
    <3>1. PICK x \in 1 .. L : x >= i /\ x <= i + 1 /\ (i >= m <=> x = i + 1) /\ t[i] = list[x]
      BY <2>6
    <3>2. PICK y \in 1 .. L : y >= j /\ y <= j + 1 /\ (j >= m <=> y = j + 1) /\ t[j] = list[y]
      BY <2>6
    <3>3. x <= y
      BY <1>1, <2>3, <3>1, <3>2
    <3> QED
      BY <1>1, <3>1, <3>2, <3>3 DEF Sorted
  <2>9. ToSet(t) = {n \in ToSet(list) : n.m_conn # c}
    <3>1. ASSUME NEW n \in ToSet(t) PROVE n \in ToSet(list) /\ n.m_conn # c
      <4>1. PICK k \in 1 .. L - 1 : t[k] = n
        BY <2>5 DEF ToSet
      <4>2. PICK x \in 1 .. L : x # m /\ n = list[x]
        BY <2>6, <4>1
      <4> QED
        BY <1>1, <2>3, <4>2 DEF OnceEach, ToSet
    <3>2. ASSUME NEW n \in ToSet(list), n.m_conn # c PROVE n \in ToSet(t)
      <4>1. PICK x \in 1 .. L : list[x] = n
        BY <1>1 DEF ToSet
      <4>2. x # m
        BY <2>3, <3>2, <4>1
      <4>3. PICK k : k = IF x < m THEN x ELSE x - 1
        OBVIOUS
      <4>4. k \in 1 .. L - 1 /\ (IF k < m THEN k ELSE k + 1) = x
        BY <1>1, <2>3, <4>2, <4>3
      <4>5. t[k] = n
        BY <2>4, <4>1, <4>4
      <4> QED
        BY <2>5, <4>4, <4>5 DEF ToSet
    <3> QED
      BY <3>1, <3>2
  <2> QED
    BY <1>1, <2>4, <2>7, <2>8, <2>9 DEF Good, t
<1> QED
  BY <1>2, <1>3

\* A node of the present goes to the end.
LEMMA AppendIsGood ==
  ASSUME NEW list, NEW hi \in Nat, Good(list, hi), NEW n \in Nodes, n.m_updated = hi,
         \A m \in ToSet(list) : m.m_conn # n.m_conn
  PROVE  Good(Append(list, n), hi) /\ ToSet(Append(list, n)) = ToSet(list) \cup {n}
<1> DEFINE t == Append(list, n)
           L == Len(list)
<1>1. /\ list \in Seq(Nodes) /\ OnceEach(list) /\ Sorted(list) /\ L \in Nat
      /\ DOMAIN list = 1 .. L /\ \A m \in ToSet(list) : m.m_updated <= hi
  BY DEF Good
<1>2. /\ t \in Seq(Nodes) /\ Len(t) = L + 1 /\ t[L + 1] = n
      /\ \A i \in 1 .. L : t[i] = list[i]
  BY <1>1, AppendProperties
<1> HIDE DEF t, L
<1>3. DOMAIN t = 1 .. L + 1 /\ \A i \in 1 .. L + 1 : i \in 1 .. L \/ i = L + 1
  BY <1>1, <1>2
<1>4. \A i \in 1 .. L : list[i] \in ToSet(list)
  BY <1>1 DEF ToSet
<1>5. ToSet(t) = ToSet(list) \cup {n}
  BY <1>1, <1>2, <1>3 DEF ToSet
<1>6. OnceEach(t)
  BY <1>1, <1>2, <1>3, <1>4 DEF OnceEach
<1>7. Sorted(t)
  <2> SUFFICES ASSUME NEW i \in 1 .. L + 1, NEW j \in 1 .. L + 1, i <= j
               PROVE  t[i].m_updated <= t[j].m_updated
    BY <1>3 DEF Sorted
  <2>1. CASE j \in 1 .. L
    <3>1. i \in 1 .. L
      BY <1>1, <2>1
    <3> QED
      BY <1>1, <1>2, <2>1, <3>1 DEF Sorted
  <2>2. CASE j = L + 1
    <3>1. t[j].m_updated = hi /\ hi <= hi
      BY <1>2, <2>2
    <3>2. CASE i \in 1 .. L
      BY <1>1, <1>2, <1>4, <3>1, <3>2
    <3>3. CASE i = L + 1
      BY <2>2, <3>1, <3>3
    <3> QED
      BY <1>3, <3>2, <3>3
  <2> QED
    BY <1>3, <2>1, <2>2
<1> QED
  BY <1>1, <1>2, <1>5, <1>6, <1>7 DEF Good, t
----------------------------------------------------------------------------
(* What the steps do to the lists.                                         *)

\* A new node is of the present second.
LEMMA NodeIs ==
  ASSUME TypeOK, NEW c \in Conns
  PROVE  /\ Node(c) \in Nodes /\ Node(c).m_conn = c /\ Node(c).m_updated = Seconds(clock)
         /\ clock \in Nat /\ MaxTime \in Nat /\ Seconds(clock) \in Nat
         /\ Seconds(clock) <= Seconds(MaxTime) /\ Seconds(MaxTime) \in Nat
<1>1. clock \in Nat /\ MaxTime \in Nat /\ clock <= MaxTime
  BY IdleListsAssumption DEF TypeOK, IdleListsAssumption
<1>2. Seconds(clock) \in Nat /\ Seconds(MaxTime) \in Nat /\ Seconds(clock) <= Seconds(MaxTime)
  BY <1>1, SecondsIs, SecondsGrow
<1> QED
  BY <1>1, <1>2 DEF Node, Nodes

\* RegisterIdle: c is, or becomes, open and is in none of the lists.
LEMMA ListsRegister ==
  ASSUME TypeOK, Lists, NEW c \in Conns, NEW limits \in SUBSET Limits, RegisterIdle(c, limits),
         limits \cap m_idleIds[c] = {}, clock' = clock, state' = [state EXCEPT ![c] = "Connected"],
         \/ state[c] = "Handshaking" /\ active' = [active EXCEPT ![c] = clock]
         \/ Open(c) /\ active' = active
  PROVE  /\ Lists' /\ m_idleConns' \in [Limits -> Seq(Nodes)]
         /\ \A l \in Limits \ limits : m_idleConns'[l] = m_idleConns[l]
<1>1. /\ m_idleIds' = [m_idleIds EXCEPT ![c] = @ \cup limits]
      /\ \A l \in Limits : m_idleConns'[l] = IF l \in limits THEN Append(m_idleConns[l], Node(c))
                                                              ELSE m_idleConns[l]
      /\ DOMAIN m_idleConns' = Limits
      /\ m_idleConns' = [l \in Limits |-> IF l \in limits THEN Append(m_idleConns[l], Node(c))
                                                              ELSE m_idleConns[l]]
  BY DEF RegisterIdle
<1>2. /\ \A d \in Conns : m_idleIds'[d] = IF d = c THEN m_idleIds[c] \cup limits ELSE m_idleIds[d]
      /\ \A d \in Conns : Open(d)' <=> (d = c \/ Open(d))
      /\ \A d \in Conns : d # c => active'[d] = active[d]
      /\ active'[c] \in {active[c], clock}
      /\ Open(c) => active'[c] = active[c]
      /\ ~Open(c) => m_idleIds[c] = {}
  BY <1>1 DEF TypeOK, Open, Lists
<1>3. /\ Node(c) \in Nodes /\ Node(c).m_conn = c /\ Node(c).m_updated = Seconds(clock)
      /\ clock \in Nat /\ Seconds(clock) \in Nat
  BY NodeIs
<1>4. Seconds(active'[c]) <= Seconds(clock)
  <2>1. active'[c] \in Nat /\ active'[c] <= clock
    BY <1>2, <1>3 DEF TypeOK
  <2> QED
    BY <1>3, <2>1, SecondsGrow
<1>5. ASSUME NEW l \in Limits
      PROVE  ListOK(l)' /\ m_idleConns'[l] \in Seq(Nodes)
  <2> DEFINE list == m_idleConns[l]
             hi == Seconds(clock)
  <2>1. /\ Good(list, hi)
        /\ \A n \in ToSet(list) :
             /\ Open(n.m_conn) /\ l \in m_idleIds[n.m_conn]
             /\ Seconds(active[n.m_conn]) <= n.m_updated
        /\ \A d \in Conns : Open(d) /\ l \in m_idleIds[d] => \E n \in ToSet(list) : n.m_conn = d
    BY DEF Lists, ListOK
  <2>2. \A n \in ToSet(list) : n.m_conn \in Conns
    BY <2>1, NodeAt DEF Nodes, Good
  <2>3. hi' = hi /\ hi \in Nat
    BY <1>3 DEF Seconds
  <2>4. CASE l \notin limits
    <3>1. m_idleConns'[l] = list
      BY <1>1, <2>4
    <3>2. \A d \in Conns : /\ Open(d) /\ l \in m_idleIds[d] <=> Open(d)' /\ l \in m_idleIds'[d]
                           /\ Open(d) /\ l \in m_idleIds[d] => active'[d] = active[d]
      BY <1>2, <2>4
    <3> HIDE DEF list, hi
    <3>3. \A n \in ToSet(list) : /\ Open(n.m_conn)' /\ l \in m_idleIds'[n.m_conn]
                                 /\ Seconds(active'[n.m_conn]) <= n.m_updated
      BY <2>1, <2>2, <3>2
    <3>4. \A d \in Conns : Open(d)' /\ l \in m_idleIds'[d] => \E n \in ToSet(list) : n.m_conn = d
      BY <2>1, <3>2
    <3>5. Good(list, hi) /\ list \in Seq(Nodes)
      BY <2>1 DEF Good
    <3> QED
      BY <2>3, <3>1, <3>3, <3>4, <3>5 DEF ListOK, hi
  <2>5. CASE l \in limits
    <3> DEFINE new == Append(list, Node(c))
    <3>1. m_idleConns'[l] = new
      BY <1>1, <2>5
    <3>2. l \notin m_idleIds[c] /\ \A n \in ToSet(list) : n.m_conn # c
      BY <2>1, <2>5
    <3>3. Good(new, hi) /\ ToSet(new) = ToSet(list) \cup {Node(c)}
      BY <1>3, <2>1, <3>2, AppendIsGood
    <3>4. \A d \in Conns \ {c} : /\ Open(d)' <=> Open(d)
                                 /\ m_idleIds'[d] = m_idleIds[d] /\ active'[d] = active[d]
      <4>1. \A d \in Conns \ {c} : Open(d)' <=> Open(d)
        BY <1>2, Zenon
      <4> QED
        BY <1>2, <4>1
    <3>5. Open(c)' /\ l \in m_idleIds'[c]
      BY <1>2, <2>5
    <3> HIDE DEF list, hi, new
    <3>6. \A n \in ToSet(new) : /\ Open(n.m_conn)' /\ l \in m_idleIds'[n.m_conn]
                                /\ Seconds(active'[n.m_conn]) <= n.m_updated
      <4> SUFFICES ASSUME NEW n \in ToSet(new)
                   PROVE  /\ Open(n.m_conn)' /\ l \in m_idleIds'[n.m_conn]
                          /\ Seconds(active'[n.m_conn]) <= n.m_updated
        OBVIOUS
      <4>1. CASE n = Node(c)
        BY <1>3, <1>4, <3>5, <4>1
      <4>2. CASE n \in ToSet(list)
        BY <2>1, <2>2, <3>2, <3>4, <4>2
      <4> QED
        BY <3>3, <4>1, <4>2
    <3>7. \A d \in Conns : Open(d)' /\ l \in m_idleIds'[d] => \E n \in ToSet(new) : n.m_conn = d
      BY <1>3, <2>1, <3>3, <3>4
    <3>8. new \in Seq(Nodes)
      BY <3>3 DEF Good
    <3> QED
      BY <2>3, <3>1, <3>3, <3>6, <3>7, <3>8 DEF ListOK, hi
  <2> QED
    BY <2>4, <2>5
<1>6. \A d \in Conns : state'[d] = "Handshaking" => m_idleIds'[d] = {}
  BY <1>2 DEF Lists, TypeOK
<1>7. m_idleConns' \in [Limits -> Seq(Nodes)]
  <2>1. \A l \in Limits : m_idleConns'[l] \in Seq(Nodes)
    BY <1>5
  <2> QED
    BY <1>1, <2>1
<1> QED
  BY <1>1, <1>5, <1>6, <1>7 DEF Lists

\* UpdateIdle, for every list c is in: its node goes to the end.
LEMMA ListsRead ==
  ASSUME TypeOK, Lists, NEW c \in Conns, HandleRead(c)
  PROVE  Lists' /\ m_idleConns' \in [Limits -> Seq(Nodes)]
<1>1. /\ m_idleConns' = [l \in Limits |-> IF l \in m_idleIds[c] THEN Moved(m_idleConns[l], c)
                                                               ELSE m_idleConns[l]]
      /\ active' = [active EXCEPT ![c] = clock] /\ Open(c)
      /\ UNCHANGED <<clock, state, m_idleIds>>
  BY DEF HandleRead
<1>2. /\ Node(c) \in Nodes /\ Node(c).m_conn = c /\ Node(c).m_updated = Seconds(clock)
      /\ clock \in Nat /\ Seconds(clock) \in Nat
  BY NodeIs
<1>3. /\ \A d \in Conns : Open(d)' = Open(d) /\ m_idleIds'[d] = m_idleIds[d]
      /\ \A d \in Conns : d # c => active'[d] = active[d]
      /\ active'[c] = clock
  BY <1>1 DEF TypeOK, Open
<1>4. ASSUME NEW l \in Limits
      PROVE  ListOK(l)' /\ m_idleConns'[l] \in Seq(Nodes)
  <2> DEFINE list == m_idleConns[l]
             hi == Seconds(clock)
  <2>1. /\ Good(list, hi)
        /\ \A n \in ToSet(list) :
             /\ Open(n.m_conn) /\ l \in m_idleIds[n.m_conn]
             /\ Seconds(active[n.m_conn]) <= n.m_updated
        /\ \A d \in Conns : Open(d) /\ l \in m_idleIds[d] => \E n \in ToSet(list) : n.m_conn = d
    BY DEF Lists, ListOK
  <2>2. \A n \in ToSet(list) : n.m_conn \in Conns
    BY <2>1, NodeAt DEF Nodes, Good
  <2>3. hi' = hi /\ hi \in Nat
    BY <1>1, <1>2 DEF Seconds
  <2>4. CASE l \notin m_idleIds[c]
    <3>1. m_idleConns'[l] = list
      BY <1>1, <2>4
    <3>2. \A n \in ToSet(list) : n.m_conn # c
      BY <2>1, <2>4
    <3> HIDE DEF list, hi
    <3>3. \A n \in ToSet(list) : /\ Open(n.m_conn)' /\ l \in m_idleIds'[n.m_conn]
                                 /\ Seconds(active'[n.m_conn]) <= n.m_updated
      BY <1>3, <2>1, <2>2, <3>2
    <3>4. \A d \in Conns : Open(d)' /\ l \in m_idleIds'[d] => \E n \in ToSet(list) : n.m_conn = d
      BY <1>3, <2>1
    <3>5. Good(list, hi) /\ list \in Seq(Nodes)
      BY <2>1 DEF Good
    <3> QED
      BY <2>3, <3>1, <3>3, <3>4, <3>5 DEF ListOK, hi
  <2>5. CASE l \in m_idleIds[c]
    <3> DEFINE rest == Without(list, c)
               new == Append(rest, Node(c))
    <3>1. m_idleConns'[l] = new
      BY <1>1, <2>5 DEF Moved
    <3>2. Good(rest, hi) /\ ToSet(rest) = {n \in ToSet(list) : n.m_conn # c}
      BY <2>1, WithoutIs
    <3> HIDE DEF list, hi, rest
    <3>3. Good(new, hi) /\ ToSet(new) = ToSet(rest) \cup {Node(c)}
      BY <1>2, <2>3, <3>2, AppendIsGood DEF hi
    <3> HIDE DEF new
    <3>4. \A n \in ToSet(new) : /\ Open(n.m_conn)' /\ l \in m_idleIds'[n.m_conn]
                                /\ Seconds(active'[n.m_conn]) <= n.m_updated
      <4> SUFFICES ASSUME NEW n \in ToSet(new)
                   PROVE  /\ Open(n.m_conn)' /\ l \in m_idleIds'[n.m_conn]
                          /\ Seconds(active'[n.m_conn]) <= n.m_updated
        OBVIOUS
      <4>1. CASE n = Node(c)
        BY <1>1, <1>2, <1>3, <2>5, <4>1
      <4>2. CASE n \in ToSet(rest)
        BY <1>3, <2>1, <2>2, <3>2, <4>2
      <4> QED
        BY <3>3, <4>1, <4>2
    <3>5. \A d \in Conns : Open(d)' /\ l \in m_idleIds'[d] => \E n \in ToSet(new) : n.m_conn = d
      BY <1>2, <1>3, <2>1, <3>2, <3>3
    <3>6. new \in Seq(Nodes)
      BY <3>3 DEF Good
    <3> QED
      BY <2>3, <3>1, <3>3, <3>4, <3>5, <3>6 DEF ListOK, hi
  <2> QED
    BY <2>4, <2>5
<1>5. \A d \in Conns : state'[d] = "Handshaking" => m_idleIds'[d] = {}
  BY <1>1 DEF Lists
<1>6. m_idleConns' \in [Limits -> Seq(Nodes)]
  <2>1. \A l \in Limits : m_idleConns'[l] \in Seq(Nodes)
    BY <1>4
  <2> QED
    BY <1>1, <2>1
<1> QED
  BY <1>4, <1>5, <1>6 DEF Lists

\* Cleanup: c, and only c, goes from every list.
LEMMA ListsCleanup ==
  ASSUME TypeOK, Lists, NEW c \in Conns, Cleanup(c), clock' = clock
  PROVE  /\ Lists' /\ m_idleConns' \in [Limits -> Seq(Nodes)]
         /\ \A l \in Limits :
              ToSet(m_idleConns'[l]) = {n \in ToSet(m_idleConns[l]) : n.m_conn # c}
<1>1. /\ m_idleConns' = [l \in Limits |-> IF l \in m_idleIds[c] THEN Without(m_idleConns[l], c)
                                                               ELSE m_idleConns[l]]
      /\ active' = [active EXCEPT ![c] = 0] /\ state' = [state EXCEPT ![c] = "Closed"]
      /\ m_idleIds' = m_idleIds
  BY DEF Cleanup, RegisteredIn
<1>2. clock \in Nat /\ Seconds(clock) \in Nat
  BY NodeIs
<1>3. /\ \A d \in Conns \ {c} : Open(d)' = Open(d) /\ m_idleIds'[d] = m_idleIds[d]
      /\ \A d \in Conns : d # c => active'[d] = active[d]
      /\ ~Open(c)'
  BY <1>1 DEF TypeOK, Open
<1>4. ASSUME NEW l \in Limits
      PROVE  /\ ListOK(l)' /\ m_idleConns'[l] \in Seq(Nodes)
             /\ ToSet(m_idleConns'[l]) = {n \in ToSet(m_idleConns[l]) : n.m_conn # c}
  <2> DEFINE list == m_idleConns[l]
             hi == Seconds(clock)
             new == m_idleConns'[l]
  <2>1. /\ Good(list, hi)
        /\ \A n \in ToSet(list) :
             /\ Open(n.m_conn) /\ l \in m_idleIds[n.m_conn]
             /\ Seconds(active[n.m_conn]) <= n.m_updated
        /\ \A d \in Conns : Open(d) /\ l \in m_idleIds[d] => \E n \in ToSet(list) : n.m_conn = d
    BY DEF Lists, ListOK
  <2>2. \A n \in ToSet(list) : n.m_conn \in Conns
    BY <2>1, NodeAt DEF Nodes, Good
  <2>3. hi' = hi /\ hi \in Nat
    BY <1>2 DEF Seconds
  <2>4. Good(new, hi) /\ ToSet(new) = {n \in ToSet(list) : n.m_conn # c}
    <3>1. CASE l \in m_idleIds[c]
      <4>1. new = Without(list, c)
        BY <1>1, <3>1
      <4> QED
        BY <2>1, <4>1, WithoutIs
    <3>2. CASE l \notin m_idleIds[c]
      <4>1. new = list
        BY <1>1, <3>2
      <4>2. \A n \in ToSet(list) : n.m_conn # c
        BY <2>1, <3>2
      <4> HIDE DEF list, new, hi
      <4> QED
        BY <2>1, <4>1, <4>2
    <3> QED
      BY <3>1, <3>2
  <2>5. new = m_idleConns'[l]
    OBVIOUS
  <2> HIDE DEF list, hi, new
  <2>6. \A n \in ToSet(new) : /\ Open(n.m_conn)' /\ l \in m_idleIds'[n.m_conn]
                              /\ Seconds(active'[n.m_conn]) <= n.m_updated
    BY <1>3, <2>1, <2>2, <2>4
  <2>7. \A d \in Conns : Open(d)' /\ l \in m_idleIds'[d] => \E n \in ToSet(new) : n.m_conn = d
    BY <1>3, <2>1, <2>4
  <2>8. new \in Seq(Nodes)
    BY <2>4 DEF Good
  <2>9. ListOK(l)'
    BY <2>3, <2>4, <2>5, <2>6, <2>7 DEF ListOK, hi
  <2> QED
    BY <2>4, <2>5, <2>8, <2>9 DEF list
<1>5. \A d \in Conns : state'[d] = "Handshaking" => m_idleIds'[d] = {}
  BY <1>1 DEF Lists, TypeOK
<1>6. m_idleConns' \in [Limits -> Seq(Nodes)]
  <2>1. \A l \in Limits : m_idleConns'[l] \in Seq(Nodes)
    BY <1>4
  <2> QED
    BY <1>1, <2>1
<1> QED
  BY <1>4, <1>5, <1>6 DEF Lists

\* Time passes, or a step leaves the lists alone.
LEMMA ListsSame ==
  ASSUME TypeOK, Lists, UNCHANGED <<connVars, active>>, clock' \in Nat, clock <= clock'
  PROVE  Lists'
<1>1. UNCHANGED <<state, m_idleIds, m_idleConns, active>>
  BY DEF connVars
<1>2. /\ Seconds(clock) \in Nat /\ Seconds(clock') \in Nat /\ Seconds(clock) <= Seconds(clock')
  BY SecondsIs, SecondsGrow, IdleListsAssumption DEF TypeOK, IdleListsAssumption
<1>3. ASSUME NEW l \in Limits PROVE ListOK(l)'
  <2> DEFINE list == m_idleConns[l]
  <2>1. Good(list, Seconds(clock))
    BY DEF Lists, ListOK
  <2> HIDE DEF list
  <2>8. list \in Seq(Nodes)
    BY <2>1 DEF Good
  <2>2. \A n \in ToSet(list) : n.m_updated \in Nat
    <3>1. Seconds(MaxTime) \in Nat
      BY SecondsIs, IdleListsAssumption DEF IdleListsAssumption
    <3>2. \A n \in Nodes : n.m_updated \in Nat
      BY <3>1 DEF Nodes
    <3> QED
      BY <2>8, <3>2, NodeAt
  <2>3. \A n \in ToSet(list) : n.m_updated <= Seconds(clock')
    BY <1>2, <2>1, <2>2 DEF Good
  <2>4. Good(list, Seconds(clock'))
    BY <2>1, <2>3 DEF Good
  <2>5. Seconds(clock)' = Seconds(clock')
    BY DEF Seconds
  <2>6. ListOK(l)
    BY DEF Lists
  <2>7. m_idleConns'[l] = list /\ Good(list, Seconds(clock)')
    BY <1>1, <2>4, <2>5 DEF list
  <2> QED
    BY <1>1, <2>6, <2>7 DEF ListOK, Open, list
<1> QED
  BY <1>1, <1>3 DEF Lists
----------------------------------------------------------------------------
(* Every step keeps the invariant.                                         *)

\* No connection has been made.
LEMMA InvInit == Init => Inv
<1> SUFFICES ASSUME Init PROVE Inv
  OBVIOUS
<1>1. /\ clock = 0 /\ state = [c \in Conns |-> "Handshaking"]
      /\ m_idleIds = [c \in Conns |-> {}] /\ m_idleConns = [l \in Limits |-> <<>>]
      /\ m_idleEnabled = FALSE /\ at = 0 /\ tasks = {} /\ pc = "poll" /\ due = 0
      /\ now = 0 /\ ahead = {} /\ idle = 0 /\ lst = <<>> /\ cnt = 0
      /\ active = [c \in Conns |-> 0] /\ called = {}
  BY DEF Init
<1>2. /\ clock \in 0 .. MaxTime /\ Seconds(clock) \in Nat
  BY <1>1, SecondsIs, IdleListsAssumption DEF IdleListsAssumption
<1>3. <<>> \in Seq(Nodes) /\ ToSet(<<>>) = {} /\ DOMAIN <<>> = {} /\ Len(<<>>) = 0
  BY DEF ToSet
<1>4. TypeOK
  <2>1. /\ state \in [Conns -> {"Handshaking", "Connected", "Closed"}]
        /\ m_idleIds \in [Conns -> SUBSET Limits] /\ m_idleConns \in [Limits -> Seq(Nodes)]
        /\ lst \in Seq(Nodes)
    BY <1>1, <1>3
  <2>2. /\ due \in 0 .. clock /\ now \in 0 .. Seconds(clock) /\ active \in [Conns -> 0 .. clock]
        /\ cnt \in 0 .. Len(lst) /\ at \in Nat
    BY <1>1, <1>2, <1>3
  <2>3. /\ m_idleEnabled \in BOOLEAN /\ tasks \subseteq Conns /\ ahead \subseteq Limits
        /\ idle \in Limits \cup {0} /\ called \subseteq Conns \X Limits
        /\ pc \in {"poll", "timeouts", "list", "node", "callback"}
    BY <1>1
  <2> QED
    BY <1>2, <2>1, <2>2, <2>3 DEF TypeOK
<1>5. Lists
  <2>1. \A l \in Limits : m_idleConns[l] = <<>>
    BY <1>1
  <2>2. \A c \in Conns : ~Open(c) /\ m_idleIds[c] = {}
    BY <1>1 DEF Open
  <2>3. Good(<<>>, Seconds(clock))
    BY <1>3 DEF Good, OnceEach, Sorted
  <2> QED
    BY <1>3, <2>1, <2>2, <2>3 DEF Lists, ListOK
<1>6. Walk
  BY <1>1 DEF Walk
<1> QED
  BY <1>4, <1>5, <1>6 DEF Inv

\* Between two walks nothing is said of the walk.
LEMMA WalkIdle ==
  ASSUME Walk, pc \in {"poll", "timeouts"}, pc' \in {"poll", "timeouts"}, idle' = idle
  PROVE  Walk'
BY DEF Walk

\* The state callback of a new connection.
LEMMA InvConnected ==
  ASSUME Inv, NEW c \in Conns, Connected(c)
  PROVE  Inv'
<1>1. PICK limits \in SUBSET Limits : RegisterIdle(c, limits)
  BY DEF Connected
<1>2. /\ pc = "poll" /\ state[c] = "Handshaking" /\ state' = [state EXCEPT ![c] = "Connected"]
      /\ active' = [active EXCEPT ![c] = clock]
      /\ UNCHANGED <<clock, tasks, pc, due, now, ahead, idle, lst, cnt, called>>
  BY DEF Connected, walkVars
<1>3. m_idleIds[c] = {}
  BY <1>2 DEF Inv, Lists
<1>4. Lists' /\ m_idleConns' \in [Limits -> Seq(Nodes)]
  BY <1>1, <1>2, <1>3, ListsRegister DEF Inv
<1>5. /\ m_idleIds' \in [Conns -> SUBSET Limits] /\ m_idleEnabled' \in BOOLEAN /\ at' \in Nat
  <2>1. clock \in Nat /\ PerSec \in Nat
    BY IdleListsAssumption DEF IdleListsAssumption, Inv, TypeOK
  <2> QED
    BY <1>1, <2>1 DEF RegisterIdle, Inv, TypeOK
<1>6. /\ state' \in [Conns -> {"Handshaking", "Connected", "Closed"}]
      /\ active' \in [Conns -> 0 .. clock]
  BY <1>2, IdleListsAssumption DEF Inv, TypeOK, IdleListsAssumption
<1>7. TypeOK'
  BY <1>2, <1>4, <1>5, <1>6 DEF Inv, TypeOK, Seconds
<1>8. Walk'
  BY <1>2, WalkIdle DEF Inv
<1> QED
  BY <1>4, <1>7, <1>8 DEF Inv

\* Data has come.
LEMMA InvHandleRead ==
  ASSUME Inv, NEW c \in Conns, HandleRead(c)
  PROVE  Inv'
<1>1. Lists' /\ m_idleConns' \in [Limits -> Seq(Nodes)]
  BY ListsRead DEF Inv
<1>2. /\ pc = "poll" /\ active' = [active EXCEPT ![c] = clock] /\ called' \subseteq called
      /\ UNCHANGED <<clock, state, m_idleIds, m_idleEnabled, at, tasks, pc, due, now, ahead,
                     idle, lst, cnt>>
  BY DEF HandleRead, timerVars, walkVars
<1>3. active' \in [Conns -> 0 .. clock]
  BY <1>2, IdleListsAssumption DEF Inv, TypeOK, IdleListsAssumption
<1>4. TypeOK'
  BY <1>1, <1>2, <1>3 DEF Inv, TypeOK, Seconds
<1>5. Walk'
  BY <1>2, WalkIdle DEF Inv
<1> QED
  BY <1>1, <1>4, <1>5 DEF Inv

\* What Cleanup leaves well typed.
LEMMA TypesCleanup ==
  ASSUME Inv, NEW c \in Conns, Cleanup(c), clock' = clock
  PROVE  /\ state' \in [Conns -> {"Handshaking", "Connected", "Closed"}]
         /\ m_idleIds' \in [Conns -> SUBSET Limits]
         /\ m_idleConns' \in [Limits -> Seq(Nodes)]
         /\ active' \in [Conns -> 0 .. clock] /\ called' \subseteq Conns \X Limits
<1>1. m_idleConns' \in [Limits -> Seq(Nodes)]
  BY ListsCleanup DEF Inv
<1>2. /\ state' = [state EXCEPT ![c] = "Closed"] /\ active' = [active EXCEPT ![c] = 0]
      /\ m_idleIds' = m_idleIds /\ called' \subseteq called
  BY DEF Cleanup
<1>3. 0 \in 0 .. clock
  BY IdleListsAssumption DEF Inv, TypeOK, IdleListsAssumption
<1> QED
  BY <1>1, <1>2, <1>3 DEF Inv, TypeOK

\* The connection ends, between two walks.
LEMMA InvEnds ==
  ASSUME Inv, NEW c \in Conns, HangUp(c) \/ CloseTask(c)
  PROVE  Inv'
<1>1. /\ pc = "poll" /\ tasks' \subseteq tasks
      /\ Cleanup(c) \/ UNCHANGED <<state, m_idleIds, m_idleConns, active, called>>
      /\ UNCHANGED <<clock, m_idleEnabled, at, pc, due, now, ahead, idle, lst, cnt>>
  BY DEF HangUp, CloseTask, timerVars, walkVars, connVars, histVars
<1>2. Walk'
  BY <1>1, WalkIdle DEF Inv
<1>3. CASE Cleanup(c)
  <2>1. Lists'
    BY <1>1, <1>3, ListsCleanup DEF Inv
  <2>2. TypeOK'
    BY <1>1, <1>3, TypesCleanup DEF Inv, TypeOK, Seconds
  <2> QED
    BY <1>2, <2>1, <2>2 DEF Inv
<1>4. CASE UNCHANGED <<state, m_idleIds, m_idleConns, active, called>>
  <2>1. Lists'
    BY <1>1, <1>4, ListsSame, IdleListsAssumption DEF Inv, TypeOK, connVars, IdleListsAssumption
  <2>2. TypeOK'
    BY <1>1, <1>4 DEF Inv, TypeOK, Seconds
  <2> QED
    BY <1>2, <2>1, <2>2 DEF Inv
<1> QED
  BY <1>1, <1>3, <1>4

\* Time passes.
LEMMA InvTick ==
  ASSUME Inv, Tick
  PROVE  Inv'
<1>1. /\ clock \in Nat /\ clock' = clock + 1 /\ clock' \in 0 .. MaxTime /\ MaxTime \in Nat
      /\ UNCHANGED <<state, m_idleIds, m_idleConns, m_idleEnabled, at, tasks, pc, due, now, ahead,
                     idle, lst, cnt, active, called>>
  BY IdleListsAssumption
     DEF Tick, connVars, timerVars, walkVars, histVars, Inv, TypeOK, IdleListsAssumption
<1>2. Seconds(clock) <= Seconds(clock') /\ Seconds(clock) \in Nat /\ Seconds(clock') \in Nat
  BY <1>1, SecondsGrow, SecondsIs
<1>3. Lists'
  BY <1>1, ListsSame DEF Inv, connVars
<1>4. TypeOK'
  <2>1. now \in 0 .. Seconds(clock') /\ due \in 0 .. clock' /\ active \in [Conns -> 0 .. clock']
    BY <1>1, <1>2 DEF Inv, TypeOK
  <2>2. Seconds(clock)' = Seconds(clock')
    BY DEF Seconds
  <2> QED
    BY <1>1, <2>1, <2>2 DEF Inv, TypeOK
<1>5. Walk'
  <2>1. pc = "callback" => Calling'
    <3> SUFFICES ASSUME pc = "callback" PROVE Calling'
      OBVIOUS
    <3> DEFINE c == lst[Len(lst)].m_conn
               silence == (idle - 1) * PerSec
    <3>1. Calling /\ c \in Conns
      <4>1. Calling
        BY DEF Inv, Walk
      <4>2. lst \in Seq(Nodes) /\ cnt \in 0 .. Len(lst)
        BY DEF Inv, TypeOK
      <4>3. cnt < Len(lst)
        BY <4>1 DEF Calling
      <4>4. Len(lst) \in 1 .. Len(lst)
        BY <4>2, <4>3
      <4>5. lst[Len(lst)] \in Nodes
        BY <4>2, <4>4
      <4> QED
        BY <4>1, <4>5 DEF Nodes
    <3>2. active[c] \in Nat /\ silence \in Int
      <4>1. idle \in Nat /\ PerSec \in Nat
        BY IdleListsAssumption DEF IdleListsAssumption, Inv, TypeOK
      <4>2. active[c] \in Nat
        BY <1>1, <3>1 DEF Inv, TypeOK
      <4> QED
        BY <4>1, <4>2
    <3>3. clock - active[c] > silence
      BY <3>1 DEF Calling
    <3> HIDE DEF silence
    <3>4. clock' - active[c] > silence
      BY <1>1, <3>2, <3>3
    <3> QED
      BY <1>1, <3>1, <3>4 DEF Calling, Open, silence
  <2> QED
    BY <1>1, <2>1 DEF Inv, Walk, Walking, AllCalled
<1> QED
  BY <1>3, <1>4, <1>5 DEF Inv

\* From the poller to HandleTimeouts, into CallIdles and out of it again.
LEMMA InvTimeouts ==
  ASSUME Inv, EndPoll \/ HandleTimeouts
  PROVE  Inv'
<1>1. /\ pc \in {"poll", "timeouts"} /\ pc' \in {"poll", "timeouts", "list"}
      /\ due' \in {0, clock, due}
      /\ now' \in {now, Seconds(clock)} /\ ahead' \in {ahead, Limits}
      /\ at' \in {at, at + PerSec}
      /\ UNCHANGED <<clock, state, m_idleIds, m_idleConns, m_idleEnabled, tasks, idle, lst, cnt,
                     active, called>>
  BY DEF EndPoll, HandleTimeouts, NextTime, connVars, timerVars, walkVars, histVars
<1>2. clock \in Nat /\ Seconds(clock) \in Nat /\ PerSec \in Nat
  BY SecondsIs, IdleListsAssumption DEF IdleListsAssumption, Inv, TypeOK
<1>3. Lists'
  BY <1>1, <1>2, ListsSame DEF Inv, connVars
<1>4. TypeOK'
  <2>1. Seconds(clock)' = Seconds(clock)
    BY <1>1 DEF Seconds
  <2>2. due' \in 0 .. clock /\ now' \in 0 .. Seconds(clock) /\ ahead' \subseteq Limits /\ at' \in Nat
    BY <1>1, <1>2 DEF Inv, TypeOK
  <2>3. pc' \in {"poll", "timeouts", "list", "node", "callback"}
    BY <1>1
  <2> QED
    BY <1>1, <2>1, <2>2, <2>3 DEF Inv, TypeOK
<1>5. Walk'
  BY <1>1 DEF Inv, Walk
<1> QED
  BY <1>3, <1>4, <1>5 DEF Inv
\* CallIdles copies the next list.
LEMMA InvNextList ==
  ASSUME Inv, NextList
  PROVE  Inv'
<1>1. /\ pc = "list"
      /\ UNCHANGED <<clock, state, m_idleIds, m_idleConns, m_idleEnabled, at, tasks, due, active,
                     called>>
  BY DEF NextList, connVars, timerVars, histVars
<1>2. clock \in Nat /\ Seconds(clock) \in Nat
  BY SecondsIs, IdleListsAssumption DEF IdleListsAssumption, Inv, TypeOK
<1>3. Lists'
  BY <1>1, <1>2, ListsSame DEF Inv, connVars
<1>4. Seconds(clock)' = Seconds(clock)
  BY <1>1 DEF Seconds
<1>5. CASE ahead = {}
  <2>1. pc' = "timeouts" /\ now' = 0 /\ idle' = 0 /\ UNCHANGED <<ahead, lst, cnt>>
    BY <1>5 DEF NextList
  <2>2. TypeOK'
    BY <1>1, <1>2, <1>4, <2>1 DEF Inv, TypeOK
  <2>3. Walk'
    BY <2>1 DEF Walk
  <2> QED
    BY <1>3, <2>2, <2>3 DEF Inv
<1>6. CASE ahead # {}
  <2>1. /\ pc' = "node" /\ idle' = Min(ahead) /\ ahead' = ahead \ {idle'}
        /\ lst' = m_idleConns[idle'] /\ cnt' = Len(lst') /\ now' = now
    BY <1>6 DEF NextList
  <2>2. idle' \in Limits
    <3>1. ahead \subseteq Limits /\ ahead \in SUBSET Nat
      BY IdleListsAssumption DEF IdleListsAssumption, Inv, TypeOK
    <3>2. \E x \in ahead : \A y \in ahead : x <= y
      BY <1>6, <3>1, LeastNatural
    <3>3. Min(ahead) \in ahead
      BY <3>2 DEF Min
    <3> QED
      BY <2>1, <3>1, <3>3
  <2>3. PICK l \in Limits : l = idle'
    BY <2>2
  <2>4. PICK list : list = m_idleConns[l]
    OBVIOUS
  <2>5. Good(list, Seconds(clock)) /\ lst' = list /\ cnt' = Len(list)
    BY <2>1, <2>3, <2>4 DEF Inv, Lists, ListOK
  <2>6. list \in Seq(Nodes) /\ Len(list) \in Nat /\ DOMAIN list = 1 .. Len(list)
        /\ OnceEach(list) /\ Sorted(list)
    BY <2>5 DEF Good
  <2>7. TypeOK'
    <3>1. lst' \in Seq(Nodes) /\ cnt' \in 0 .. Len(lst') /\ idle' \in Limits \cup {0}
          /\ ahead' \subseteq Limits /\ pc' \in {"poll", "timeouts", "list", "node", "callback"}
      BY <2>1, <2>2, <2>5, <2>6 DEF Inv, TypeOK
    <3> QED
      BY <1>1, <1>4, <2>1, <3>1 DEF Inv, TypeOK
  <2>8. Walking'
    <3>1. \A i \in 1 .. Len(list) : list[i] \in ToSet(list)
      BY <2>6 DEF ToSet
    <3>2. \A n \in ToSet(list) : \E i \in 1 .. Len(list) : list[i] = n
      BY <2>6, NodeAt
    <3>3. m_idleConns'[idle'] = list
      BY <1>1, <2>3, <2>4
    <3> QED
      BY <2>2, <2>5, <2>6, <3>1, <3>2, <3>3 DEF Walking, OnceEach, Sorted
  <2>9. Walk'
    BY <2>1, <2>8 DEF Walk
  <2> QED
    BY <1>3, <2>7, <2>9 DEF Inv
<1> QED
  BY <1>5, <1>6

\* CallIdles leaves the list, or calls the callback of the first node.
LEMMA InvNextNode ==
  ASSUME Inv, NextNode
  PROVE  Inv'
<1>1. /\ pc = "node"
      /\ UNCHANGED <<clock, state, m_idleIds, m_idleConns, m_idleEnabled, at, tasks, due, now,
                     ahead, idle, active>>
  BY DEF NextNode, connVars, timerVars
<1>2. /\ clock \in Nat /\ Seconds(clock) \in Nat /\ Seconds(MaxTime) \in Nat
      /\ Seconds(clock) <= Seconds(MaxTime)
  <2>1. clock \in Nat /\ MaxTime \in Nat /\ clock <= MaxTime
    BY IdleListsAssumption DEF IdleListsAssumption, Inv, TypeOK
  <2> QED
    BY <2>1, SecondsIs, SecondsGrow
<1>3. Lists'
  BY <1>1, <1>2, ListsSame DEF Inv, connVars
<1>4. Seconds(clock)' = Seconds(clock)
  BY <1>1 DEF Seconds
<1>5. /\ Walking /\ idle \in Limits /\ idle \in Nat \ {0}
      /\ now \in Nat /\ now <= Seconds(clock)
      /\ lst \in Seq(Nodes) /\ Len(lst) \in Nat /\ cnt \in Nat /\ cnt <= Len(lst)
  <2>1. Walking
    BY <1>1 DEF Inv, Walk
  <2>2. idle \in Limits
    BY <2>1 DEF Walking
  <2>3. idle \in Nat \ {0}
    BY <2>2, IdleListsAssumption DEF IdleListsAssumption
  <2>4. now \in Nat /\ now <= Seconds(clock)
    BY <1>2 DEF Inv, TypeOK
  <2>5. lst \in Seq(Nodes) /\ cnt \in 0 .. Len(lst)
    BY DEF Inv, TypeOK
  <2> QED
    BY <2>1, <2>2, <2>3, <2>4, <2>5
<1>6. \A n \in Nodes : n.m_conn \in Conns /\ n.m_updated \in Nat
  BY <1>2 DEF Nodes
<1>7. \A i \in 1 .. cnt : lst[i] \in Nodes /\ lst[i] \in ToSet(m_idleConns[idle])
  BY <1>5 DEF Walking
<1>8. CASE cnt = 0 \/ Fresh(Head(lst))
  <2>1. pc' = "list" /\ lst' = <<>> /\ cnt' = 0 /\ called' = called
    BY <1>8 DEF NextNode
  <2>2. TypeOK'
    <3>1. lst' \in Seq(Nodes) /\ cnt' \in 0 .. Len(lst')
          /\ pc' \in {"poll", "timeouts", "list", "node", "callback"}
      BY <2>1
    <3> QED
      BY <1>1, <1>4, <2>1, <3>1 DEF Inv, TypeOK
  <2>3. AllCalled
    <3> SUFFICES ASSUME NEW n \in ToSet(m_idleConns[idle]), n.m_updated + idle <= now,
                        NEW i \in 1 .. cnt, lst[i] = n
                 PROVE  FALSE
      BY <1>5 DEF AllCalled, Walking
    <3>1. 1 \in 1 .. cnt /\ 1 <= i /\ lst # <<>> /\ Head(lst) = lst[1]
      BY <1>5
    <3>2. lst[1].m_updated <= lst[i].m_updated
      BY <1>5, <3>1 DEF Walking
    <3>3. lst[1].m_updated + idle > now
      BY <1>5, <1>8, <3>1 DEF Fresh
    <3>4. lst[1].m_updated \in Nat /\ lst[i].m_updated \in Nat
      BY <1>6, <1>7, <3>1
    <3> QED
      BY <1>5, <3>2, <3>3, <3>4
  <2>4. AllCalled'
    BY <1>1, <2>1, <2>3 DEF AllCalled
  <2>5. Walk'
    BY <2>1, <2>4 DEF Walk
  <2> QED
    BY <1>3, <2>2, <2>5 DEF Inv
<1>9. CASE cnt # 0 /\ ~Fresh(Head(lst))
  <2>1. /\ pc' = "callback" /\ cnt' = cnt - 1
        /\ lst' = Append(Tail(lst), [Head(lst) EXCEPT !.m_updated = now])
        /\ called' = called \cup {<<Head(lst).m_conn, idle>>}
    BY <1>9 DEF NextNode
  <2> DEFINE L == Len(lst)
  <2>2. /\ lst # <<>> /\ Head(lst) = lst[1] /\ L \in Nat \ {0} /\ 1 \in 1 .. cnt
        /\ Tail(lst) \in Seq(Nodes) /\ Len(Tail(lst)) = L - 1
        /\ \A k \in 1 .. L - 1 : Tail(lst)[k] = lst[k + 1]
    BY <1>5, <1>9, HeadTailProperties
  <2>3. PICK h : h = lst[1]
    OBVIOUS
  <2>4. h \in Nodes /\ h.m_conn \in Conns /\ h.m_updated \in Nat /\ h \in ToSet(m_idleConns[idle])
    BY <1>6, <1>7, <2>2, <2>3
  <2>5. PICK x : x = [h EXCEPT !.m_updated = now]
    OBVIOUS
  <2>6. x \in Nodes /\ x.m_conn = h.m_conn
    <3>1. now \in 0 .. Seconds(MaxTime)
      BY <1>2, <1>5
    <3> QED
      BY <2>4, <2>5, <3>1 DEF Nodes
  <2>7. /\ lst' \in Seq(Nodes) /\ Len(lst') = L /\ lst'[L] = x
        /\ \A k \in 1 .. L - 1 : lst'[k] = lst[k + 1]
    <3>1. lst' = Append(Tail(lst), x)
      BY <2>1, <2>2, <2>3, <2>5
    <3>2. PICK r \in Seq(Nodes) : r = Tail(lst)
      BY <2>2
    <3>3. /\ Append(r, x) \in Seq(Nodes) /\ Len(Append(r, x)) = Len(r) + 1
          /\ Append(r, x)[Len(r) + 1] = x /\ \A k \in 1 .. Len(r) : Append(r, x)[k] = r[k]
      BY <2>6, <3>2, AppendProperties
    <3>4. Len(r) = L - 1 /\ Len(r) + 1 = L
      BY <2>2, <3>2
    <3> QED
      BY <2>2, <3>1, <3>2, <3>3, <3>4
  <2> HIDE DEF L
  <2>8. called' = called \cup {<<h.m_conn, idle>>} /\ h.m_updated + idle <= now
    <3>1. ~(h.m_updated + idle > now)
      BY <1>9, <2>2, <2>3 DEF Fresh
    <3> QED
      BY <1>5, <2>1, <2>2, <2>3, <2>4, <3>1
  <2>9. \A i \in 1 .. cnt - 1 : i + 1 \in 1 .. cnt /\ i + 1 # 1 /\ lst'[i] = lst[i + 1]
    BY <1>5, <2>2, <2>7 DEF L
  <2>10. cnt' \in Nat /\ cnt' < L /\ cnt' = cnt - 1
    BY <1>5, <1>9, <2>1 DEF L
  <2>11. TypeOK'
    <3>1. lst' \in Seq(Nodes) /\ cnt' \in 0 .. Len(lst')
          /\ pc' \in {"poll", "timeouts", "list", "node", "callback"}
          /\ called' \subseteq Conns \X Limits
      BY <1>5, <2>1, <2>2, <2>4, <2>7, <2>8, <2>10 DEF Inv, TypeOK
    <3> QED
      BY <1>1, <1>4, <3>1 DEF Inv, TypeOK
  <2>12. Walking'
    <3>1. \A i, j \in 1 .. cnt - 1 : i <= j => lst'[i].m_updated <= lst'[j].m_updated
      <4> SUFFICES ASSUME NEW i \in 1 .. cnt - 1, NEW j \in 1 .. cnt - 1, i <= j
                   PROVE  lst'[i].m_updated <= lst'[j].m_updated
        OBVIOUS
      <4>1. PICK a, b : a = i + 1 /\ b = j + 1
        OBVIOUS
      <4>2. a \in 1 .. cnt /\ b \in 1 .. cnt /\ a <= b /\ lst'[i] = lst[a] /\ lst'[j] = lst[b]
        BY <1>5, <2>9, <4>1
      <4> QED
        BY <1>5, <4>2 DEF Walking
    <3>2. \A i, j \in 1 .. cnt - 1 : lst'[i].m_conn = lst'[j].m_conn => i = j
      <4> SUFFICES ASSUME NEW i \in 1 .. cnt - 1, NEW j \in 1 .. cnt - 1,
                          lst'[i].m_conn = lst'[j].m_conn
                   PROVE  i = j
        OBVIOUS
      <4>1. PICK a, b : a = i + 1 /\ b = j + 1
        OBVIOUS
      <4>2. a \in 1 .. cnt /\ b \in 1 .. cnt /\ lst'[i] = lst[a] /\ lst'[j] = lst[b]
        BY <2>9, <4>1
      <4>3. a = b
        BY <1>5, <4>2 DEF Walking
      <4> QED
        BY <1>5, <4>1, <4>3
    <3>3. \A i \in 1 .. cnt - 1 : lst'[i] \in ToSet(m_idleConns[idle])
      BY <1>7, <2>9
    <3>4. ASSUME NEW n \in ToSet(m_idleConns[idle]), n.m_updated + idle <= now
          PROVE  <<n.m_conn, idle>> \in called' \/ \E i \in 1 .. cnt - 1 : lst'[i] = n
      <4>1. <<n.m_conn, idle>> \in called \/ \E i \in 1 .. cnt : lst[i] = n
        BY <1>5, <3>4 DEF Walking
      <4>2. ASSUME NEW i \in 1 .. cnt, lst[i] = n
            PROVE  <<n.m_conn, idle>> \in called' \/ \E j \in 1 .. cnt - 1 : lst'[j] = n
        <5>1. CASE i = 1
          BY <2>3, <2>8, <4>2, <5>1
        <5>2. CASE i # 1
          <6>1. PICK j : j = i - 1
            OBVIOUS
          <6>2. j \in 1 .. cnt - 1 /\ j + 1 = i
            BY <1>5, <5>2, <6>1
          <6> QED
            BY <2>9, <4>2, <6>2
        <5> QED
          BY <5>1, <5>2
      <4> QED
        BY <2>8, <4>1, <4>2
    <3> QED
      BY <1>1, <1>5, <2>10, <3>1, <3>2, <3>3, <3>4 DEF Walking
  <2>13. Calling'
    <3>1. lst'[Len(lst')].m_conn = h.m_conn
      BY <2>6, <2>7
    <3>2. /\ Open(h.m_conn) /\ idle \in m_idleIds[h.m_conn]
          /\ Seconds(active[h.m_conn]) <= h.m_updated
      BY <1>5, <2>4 DEF Inv, Lists, ListOK
    <3>3. clock - active[h.m_conn] > (idle - 1) * PerSec
      <4>1. PICK a \in Nat : a = active[h.m_conn]
        BY <1>2, <2>4 DEF Inv, TypeOK
      <4>2. Seconds(a) \in Nat /\ Seconds(a) <= h.m_updated
        BY <3>2, <4>1, SecondsIs
      <4>3. Seconds(a) + idle <= Seconds(clock)
        BY <1>2, <1>5, <2>4, <2>8, <4>2
      <4> QED
        BY <1>2, <1>5, <4>1, <4>3, SilentFor
    <3>4. \A i \in 1 .. cnt - 1 : lst'[i].m_conn # h.m_conn
      <4> SUFFICES ASSUME NEW i \in 1 .. cnt - 1, lst'[i].m_conn = h.m_conn PROVE FALSE
        OBVIOUS
      <4>1. PICK a \in 1 .. cnt : a # 1 /\ lst'[i] = lst[a]
        BY <2>9
      <4> QED
        BY <1>5, <2>2, <2>3, <4>1 DEF Walking
    <3>5. /\ UNCHANGED <<clock, active, idle>> /\ Open(h.m_conn)' = Open(h.m_conn)
          /\ m_idleIds' = m_idleIds
      BY <1>1 DEF Open
    <3> QED
      BY <2>7, <2>10, <3>1, <3>2, <3>3, <3>4, <3>5 DEF Calling
  <2>14. Walk'
    BY <2>1, <2>12, <2>13 DEF Walk
  <2> QED
    BY <1>3, <2>11, <2>14 DEF Inv
<1> QED
  BY <1>8, <1>9

\* The user's callback: only the connection it is called for may end or get a
\* limit, and it is in none of the nodes still to come.
LEMMA InvIdleCallback ==
  ASSUME Inv, IdleCallback
  PROVE  Inv'
<1> DEFINE L == Len(lst)
<1>1. /\ pc = "callback" /\ pc' = "node"
      /\ UNCHANGED <<clock, due, now, ahead, idle, lst, cnt>>
  BY DEF IdleCallback, walkVars
<1>2. PICK c : c = Last(lst).m_conn
  OBVIOUS
<1>3. \/ /\ tasks' = IF Open(c) THEN tasks \cup {c} ELSE tasks
         /\ UNCHANGED <<connVars, timerVars, histVars>>
      \/ Open(c) /\ Cleanup(c) /\ UNCHANGED <<timerVars, tasks>>
      \/ /\ Open(c) /\ \E l \in Limits \ m_idleIds[c] : RegisterIdle(c, {l})
         /\ UNCHANGED <<state, tasks, histVars>>
      \/ UNCHANGED <<connVars, timerVars, tasks, histVars>>
  BY <1>2 DEF IdleCallback
<1>4. /\ Walking /\ idle \in Limits /\ c \in Conns /\ Open(c) /\ idle \in m_idleIds[c]
      /\ \A i \in 1 .. cnt : lst[i].m_conn # c
  <2>1. Walking /\ Calling
    BY <1>1 DEF Inv, Walk
  <2>2. lst \in Seq(Nodes) /\ cnt \in 0 .. Len(lst) /\ cnt < Len(lst)
    BY <2>1 DEF Inv, TypeOK, Calling
  <2>3. Len(lst) \in 1 .. Len(lst)
    BY <2>2
  <2>4. lst[Len(lst)] \in Nodes /\ c = lst[Len(lst)].m_conn
    BY <1>2, <2>2, <2>3 DEF Last
  <2>5. c \in Conns
    BY <2>4 DEF Nodes
  <2> QED
    BY <2>1, <2>4, <2>5 DEF Walking, Calling
<1>5. Seconds(clock)' = Seconds(clock) /\ clock \in Nat
      /\ pc' \in {"poll", "timeouts", "list", "node", "callback"}
  BY <1>1, IdleListsAssumption DEF Seconds, Inv, TypeOK, IdleListsAssumption
<1>6. CASE /\ tasks' \in {tasks, tasks \cup {c}}
           /\ UNCHANGED <<connVars, timerVars, histVars>>
  <2>1. UNCHANGED <<state, m_idleIds, m_idleConns, m_idleEnabled, at, active, called>>
    BY <1>6 DEF connVars, timerVars, histVars
  <2>2. Lists'
    BY <1>1, <1>5, <2>1, ListsSame DEF Inv, connVars
  <2>3. TypeOK'
    BY <1>1, <1>4, <1>5, <1>6, <2>1 DEF Inv, TypeOK
  <2>4. Walking'
    BY <1>1, <1>4, <2>1 DEF Walking
  <2>5. Walk'
    BY <1>1, <2>4 DEF Walk
  <2> QED
    BY <2>2, <2>3, <2>5 DEF Inv
<1>7. CASE Cleanup(c) /\ UNCHANGED <<timerVars, tasks>>
  <2>1. /\ Lists' /\ called' = {k \in called : k[1] # c}
        /\ ToSet(m_idleConns'[idle]) = {n \in ToSet(m_idleConns[idle]) : n.m_conn # c}
    <3>1. called' = {k \in called : k[1] # c}
      BY <1>7 DEF Cleanup
    <3> QED
      BY <1>1, <1>4, <1>7, <3>1, ListsCleanup DEF Inv
  <2>2. TypeOK'
    <3>1. UNCHANGED <<m_idleEnabled, at>>
      BY <1>7 DEF timerVars
    <3>2. /\ state' \in [Conns -> {"Handshaking", "Connected", "Closed"}]
          /\ m_idleIds' \in [Conns -> SUBSET Limits]
          /\ m_idleConns' \in [Limits -> Seq(Nodes)]
          /\ active' \in [Conns -> 0 .. clock] /\ called' \subseteq Conns \X Limits
      BY <1>1, <1>4, <1>7, TypesCleanup
    <3> QED
      BY <1>1, <1>5, <1>7, <3>1, <3>2 DEF Inv, TypeOK
  <2>3. \A i \in 1 .. cnt : lst[i] \in ToSet(m_idleConns'[idle])
    BY <1>4, <2>1 DEF Walking
  <2>4. \A n \in ToSet(m_idleConns'[idle]) :
          n.m_updated + idle <= now
            => <<n.m_conn, idle>> \in called' \/ \E i \in 1 .. cnt : lst[i] = n
    BY <1>4, <2>1 DEF Walking
  <2>5. Walking'
    BY <1>1, <1>4, <2>3, <2>4 DEF Walking
  <2>6. Walk'
    BY <1>1, <2>5 DEF Walk
  <2> QED
    BY <2>1, <2>2, <2>6 DEF Inv
<1>8. CASE /\ \E l \in Limits \ m_idleIds[c] : RegisterIdle(c, {l})
           /\ UNCHANGED <<state, tasks, histVars>>
  <2>1. PICK l \in Limits \ m_idleIds[c] : RegisterIdle(c, {l})
    BY <1>8
  <2>2. UNCHANGED <<state, tasks, active, called>>
    BY <1>8 DEF histVars
  <2>3. state' = [state EXCEPT ![c] = "Connected"]
    BY <1>4, <2>2 DEF Open, Inv, TypeOK
  <2>4. /\ Lists' /\ m_idleConns' \in [Limits -> Seq(Nodes)]
        /\ \A k \in Limits \ {l} : m_idleConns'[k] = m_idleConns[k]
    BY <1>1, <1>4, <2>1, <2>2, <2>3, ListsRegister DEF Inv
  <2>5. TypeOK'
    <3>1. /\ m_idleIds' \in [Conns -> SUBSET Limits] /\ m_idleEnabled' \in BOOLEAN /\ at' \in Nat
      <4>1. PerSec \in Nat
        BY IdleListsAssumption DEF IdleListsAssumption
      <4>2. {l} \in SUBSET Limits
        BY <2>1
      <4>3. m_idleIds \in [Conns -> SUBSET Limits] /\ m_idleEnabled \in BOOLEAN /\ at \in Nat
        BY DEF Inv, TypeOK
      <4>4. /\ m_idleIds' = [m_idleIds EXCEPT ![c] = @ \cup {l}]
            /\ m_idleEnabled' = (m_idleEnabled \/ {l} # {})
            /\ at' = IF ~m_idleEnabled /\ {l} # {} THEN clock + PerSec ELSE at
        BY <2>1 DEF RegisterIdle
      <4>5. m_idleIds' \in [Conns -> SUBSET Limits]
        <5>1. m_idleIds[c] \cup {l} \in SUBSET Limits
          BY <1>4, <4>2, <4>3
        <5> QED
          BY <4>3, <4>4, <5>1
      <4>6. m_idleEnabled' \in BOOLEAN
        BY <4>4, Zenon
      <4>7. at' \in Nat
        <5>1. clock + PerSec \in Nat
          BY <1>5, <4>1
        <5> QED
          BY <4>3, <4>4, <5>1
      <4> QED
        BY <4>5, <4>6, <4>7
    <3> QED
      BY <1>1, <1>5, <2>2, <2>4, <3>1 DEF Inv, TypeOK
  <2>6. m_idleConns'[idle] = m_idleConns[idle]
    BY <1>4, <2>1, <2>4
  <2>7. Walking'
    BY <1>1, <1>4, <2>2, <2>6 DEF Walking
  <2>8. Walk'
    BY <1>1, <2>7 DEF Walk
  <2> QED
    BY <2>4, <2>5, <2>8 DEF Inv
<1> QED
  BY <1>3, <1>6, <1>7, <1>8

\* Nothing happens.
LEMMA InvStutter ==
  ASSUME Inv, UNCHANGED vars
  PROVE  Inv'
<1>1. UNCHANGED <<clock, state, m_idleIds, m_idleConns, m_idleEnabled, at, tasks, pc, due, now,
                  ahead, idle, lst, cnt, active, called>>
  BY DEF vars, connVars, timerVars, walkVars, histVars
<1>2. Lists'
  BY <1>1, ListsSame, IdleListsAssumption DEF Inv, TypeOK, connVars, IdleListsAssumption
<1>3. TypeOK'
  BY <1>1 DEF Inv, TypeOK, Seconds
<1>4. Walk'
  BY <1>1 DEF Inv, Walk, Walking, Calling, AllCalled, Open
<1> QED
  BY <1>2, <1>3, <1>4 DEF Inv

\* Every action keeps the invariant.
LEMMA InvStep == Inv /\ [Next]_vars => Inv'
<1> SUFFICES ASSUME Inv, [Next]_vars PROVE Inv'
  OBVIOUS
<1>1. ASSUME NEW c \in Conns, Handler(c) PROVE Inv'
  BY <1>1, InvConnected, InvHandleRead, InvEnds DEF Handler
<1>2. CASE LoopStep
  BY <1>2, InvTimeouts, InvNextList, InvNextNode, InvIdleCallback DEF LoopStep
<1>3. CASE Tick \/ UNCHANGED vars
  BY <1>3, InvTick, InvStutter
<1> QED
  BY <1>1, <1>2, <1>3 DEF Next

----------------------------------------------------------------------------
\* The inductive invariant holds.
THEOREM Invariant == Spec => []Inv
BY InvInit, InvStep, PTL DEF Spec

\* Each IdleId points at a node while its connection is open, and no other node
\* is in the lists, whatever the callbacks do to them during a walk.
THEOREM IdsAlwaysValid == Spec => []IdsValid
<1>1. Inv => IdsValid
  <2> SUFFICES ASSUME Inv, NEW l \in Limits
               PROVE  LET list == m_idleConns[l]
                      IN  /\ \A i, j \in DOMAIN list : list[i].m_conn = list[j].m_conn => i = j
                          /\ {list[i].m_conn : i \in DOMAIN list} =
                               {c \in Conns : Open(c) /\ l \in m_idleIds[c]}
    BY DEF IdsValid, Inv
  <2> DEFINE list == m_idleConns[l]
  <2>1. /\ Good(list, Seconds(clock))
        /\ \A n \in ToSet(list) : Open(n.m_conn) /\ l \in m_idleIds[n.m_conn]
        /\ \A c \in Conns : Open(c) /\ l \in m_idleIds[c] => \E n \in ToSet(list) : n.m_conn = c
    BY DEF Inv, Lists, ListOK
  <2>2. list \in Seq(Nodes) /\ OnceEach(list)
    BY <2>1 DEF Good
  <2> HIDE DEF list
  <2>3. \A i \in DOMAIN list : list[i] \in ToSet(list) /\ list[i] \in Nodes
    BY <2>2 DEF ToSet
  <2>4. \A n \in ToSet(list) : \E i \in DOMAIN list : list[i] = n
    BY <2>2 DEF ToSet
  <2>5. \A n \in Nodes : n.m_conn \in Conns
    BY DEF Nodes
  <2>6. {list[i].m_conn : i \in DOMAIN list} = {c \in Conns : Open(c) /\ l \in m_idleIds[c]}
    BY <2>1, <2>3, <2>4, <2>5
  <2> QED
    BY <2>2, <2>6 DEF OnceEach, list
<1> QED
  BY <1>1, Invariant, PTL

\* A callback comes only for an open connection that has been silent for the
\* limit less a second, although CallIdles decides it on a copy of the list.
THEOREM OnlyIdleAreCalled == Spec => []CalledWhenIdle
<1>1. Inv => CalledWhenIdle
  BY DEF Inv, Walk, Calling, CalledWhenIdle, Last
<1> QED
  BY <1>1, Invariant, PTL

\* CallIdles, which stops at the first node within the limit, misses nobody.
THEOREM NobodyEverMissed == Spec => []NobodyMissed
<1>1. Inv => NobodyMissed
  <2> SUFFICES ASSUME Inv, pc = "list", idle # 0, NEW i \in DOMAIN m_idleConns[idle],
                      m_idleConns[idle][i].m_updated + idle <= now
               PROVE  <<m_idleConns[idle][i].m_conn, idle>> \in called
    BY DEF NobodyMissed
  <2>1. m_idleConns[idle][i] \in ToSet(m_idleConns[idle])
    BY DEF ToSet
  <2> QED
    BY <2>1 DEF Inv, Walk, AllCalled
<1> QED
  BY <1>1, Invariant, PTL
=============================================================================
