----------------------------- MODULE Bases_proof -----------------------------
(***************************************************************************)
(* Proofs about Bases, for any number of bases, any connections, threads   *)
(* and messages: the lists match the attached connections, a broadcast     *)
(* reads no channel that is gone, and broadcasts come once and in one      *)
(* order.                                                                  *)
(***************************************************************************)
EXTENDS Bases, Integers, SequenceTheorems, FiniteSetTheorems, WellFoundedInduction, TLAPS

----------------------------------------------------------------------------
(* The inductive invariant.                                                *)

\* A list has an element once.
Once(s) == \A i, j \in DOMAIN s : s[i] = s[j] => i = j

\* A poster is between the elements of the list of a base.
Walking(p, b) == call[p].op = "ForEach" /\ call[p].base = b

\* A list has attached connections of its base, once, and has all of them until
\* the loop clears it.
Lists ==
  /\ \A b \in Bases :
       /\ Once(m_conns[b])
       /\ \A c \in ToSet(m_conns[b]) : base[c] = b /\ at[c] = "attached"
       /\ loop[b] = "while" =>
            \A c \in Conns : base[c] = b /\ at[c] = "attached" => c \in ToSet(m_conns[b])
  /\ \A c \in Conns : at[c] # "none" => base[c] \in Bases

\* What a call in progress holds.
IsForEach(k) ==
  /\ k.op = "ForEach" /\ k.base \in Bases /\ k.msg \in Msgs
  /\ k.rest # <<>> /\ Once(k.rest)
  /\ \A c \in ToSet(k.rest) : base[c] = k.base /\ at[c] # "none"
IsOne(k) ==
  /\ k.op = "One" /\ k.base = None /\ k.msg \in Msgs
  /\ \E c \in Conns : k.rest = <<c>> /\ at[c] # "none"
Calls == \A p \in Posters : call[p] = NoCall \/ IsForEach(call[p]) \/ IsOne(call[p])

\* The mutex: a list has one walk at a time, and until the loop clears it,
\* the walk has only elements of it before it.
Walks ==
  /\ \A p, q \in Posters, b \in Bases : Walking(p, b) /\ Walking(q, b) => p = q
  /\ \A p \in Posters, b \in Bases :
       Walking(p, b) /\ loop[b] = "while" => ToSet(call[p].rest) \subseteq ToSet(m_conns[b])

\* A message is in one call, and not in that of a connection that has it.
OneCall ==
  /\ \A m \in unposted : told[m] = {}
  /\ \A m \in unposted : \A c \in Conns : m \notin ToSet(Log(c))
  /\ \A m \in unposted : \A p \in Posters : call[p].msg # m
  /\ \A p, q \in Posters : call[p] # NoCall /\ call[p].msg = call[q].msg => p = q
  /\ \A c \in Conns : Once(Log(c))
  /\ \A p \in Posters : \A c \in ToSet(call[p].rest) : call[p].msg \notin ToSet(Log(c))

\* Which connections a message in a call has come to: those of its base or none.
Coming ==
  \A p \in Posters, c \in Conns :
    call[p] # NoCall /\ call[p].msg \in ToSet(Log(c))
      => call[p].op = "ForEach" /\ base[c] = call[p].base /\ at[c] # "none"

\* Two logs agree on the order; and what comes behind a broadcast that is not
\* over was for that connection alone.
Ordered ==
  /\ \A c, d \in Conns, m, n \in Msgs : Precedes(m, n, Log(c)) => ~Precedes(n, m, Log(d))
  /\ \A p \in Posters, c, d \in Conns, m \in Msgs :
       /\ call[p].op = "ForEach" /\ Precedes(call[p].msg, m, Log(c))
       /\ m \in ToSet(Log(d))
       => c = d

\* Who was told of a message is attached, and has it or will come to it.
Reached ==
  \A m \in Msgs : \A c \in told[m] :
    /\ at[c] = "attached"
    /\ \/ corrupt
       \/ m \in ToSet(Log(c))
       \/ \E p \in Posters : call[p].msg = m /\ c \in ToSet(call[p].rest)

Inv == TypeOK /\ Lists /\ Calls /\ Walks /\ OneCall /\ Coming /\ Ordered /\ Reached

----------------------------------------------------------------------------
(* Facts about lists.                                                      *)

\* A set of numbers that is not empty has a least.
LEMMA LeastNatural ==
  ASSUME NEW T \in SUBSET Nat, T # {}
  PROVE  \E x \in T : \A y \in T : x <= y
<1> DEFINE R == {p \in Nat \X Nat : p[1] < p[2]}
<1>1. IsWellFoundedOn(R, Nat)
  BY NatLessThanWellFounded DEF OpToRel
<1>2. \A x, y \in Nat : y < x => <<y, x>> \in R
  OBVIOUS
<1> HIDE DEF R
<1>3. PICK x \in T : \A y \in T : <<y, x>> \notin R
  BY <1>1, WFMin
<1>4. \A y \in T : ~(y < x)
  BY <1>2, <1>3
<1> QED
  BY <1>3, <1>4

\* Where an element is, 0 if nowhere.
Place(s, x) == SelectInSeq(s, LAMBDA y : y = x)

\* What the place of an element says of the list.
LEMMA PlaceIs ==
  ASSUME NEW S, NEW s \in Seq(S), NEW x
  PROVE  /\ Place(s, x) \in 0 .. Len(s)
         /\ Place(s, x) = 0 <=> x \notin ToSet(s)
         /\ x \in ToSet(s) => s[Place(s, x)] = x
<1> DEFINE I == {i \in 1 .. Len(s) : s[i] = x}
           m == Place(s, x)
<1>1. m = IF I # {} THEN CHOOSE i \in I : \A j \in I : i <= j ELSE 0
  BY DEF Place, SelectInSeq, Min
<1>2. I \subseteq Nat /\ Len(s) \in Nat
  OBVIOUS
<1>3. CASE I = {}
  BY <1>1, <1>2, <1>3 DEF ToSet
<1>4. CASE I # {}
  <2>1. \E i \in I : \A j \in I : i <= j
    BY <1>2, <1>4, LeastNatural
  <2>2. m \in I
    BY <1>1, <1>4, <2>1
  <2> QED
    BY <2>2, <1>2 DEF ToSet
<1> QED
  BY <1>3, <1>4

\* An element taken out.
LEMMA RemovedAt ==
  ASSUME NEW S, NEW s \in Seq(S), NEW i \in 1 .. Len(s)
  PROVE  /\ RemoveAt(s, i) \in Seq(S)
         /\ Len(RemoveAt(s, i)) = Len(s) - 1
         /\ \A k \in 1 .. Len(s) - 1 : RemoveAt(s, i)[k] = IF k < i THEN s[k] ELSE s[k + 1]
<1> DEFINE n == Len(s)
           p == SubSeq(s, 1, i - 1)
           r == SubSeq(s, i + 1, n)
<1>1. n \in Nat /\ i \in Nat /\ 1 <= i /\ i <= n /\ \A k \in 1 .. n : s[k] \in S
  OBVIOUS
<1>2. /\ p \in Seq(S) /\ Len(p) = i - 1
      /\ \A k \in 1 .. i - 1 : p[k] = s[k]
  <2>1. \A k \in 1 .. i - 1 : s[k] \in S
    BY <1>1
  <2>2. p \in Seq(S) /\ Len(p) = (IF 1 <= i - 1 THEN i - 1 - 1 + 1 ELSE 0)
        /\ \A k \in 1 .. i - 1 - 1 + 1 : p[k] = s[1 + k - 1]
    BY <1>1, <2>1, SubSeqProperties
  <2> HIDE DEF p
  <2> QED
    BY <1>1, <2>2
<1>3. /\ r \in Seq(S) /\ Len(r) = n - i
      /\ \A k \in 1 .. n - i : r[k] = s[i + k]
  <2>1. \A k \in i + 1 .. n : s[k] \in S
    BY <1>1
  <2>2. r \in Seq(S) /\ Len(r) = (IF i + 1 <= n THEN n - (i + 1) + 1 ELSE 0)
        /\ \A k \in 1 .. n - (i + 1) + 1 : r[k] = s[i + 1 + k - 1]
    BY <1>1, <2>1, SubSeqProperties
  <2> HIDE DEF r, n
  <2> QED
    BY <1>1, <2>2
<1>4. RemoveAt(s, i) = p \o r
  BY DEF RemoveAt
<1> HIDE DEF p, r, n
<1>5. /\ p \o r \in Seq(S) /\ Len(p \o r) = n - 1
      /\ \A k \in 1 .. n - 1 : (p \o r)[k] = IF k <= i - 1 THEN p[k] ELSE r[k - (i - 1)]
  BY <1>1, <1>2, <1>3, ConcatProperties
<1>6. \A k \in 1 .. n - 1 : (p \o r)[k] = IF k < i THEN s[k] ELSE s[k + 1]
  <2> SUFFICES ASSUME NEW k \in 1 .. n - 1
               PROVE  (p \o r)[k] = IF k < i THEN s[k] ELSE s[k + 1]
    OBVIOUS
  <2>1. CASE k < i
    <3>1. k \in 1 .. i - 1 /\ k <= i - 1
      BY <1>1, <2>1
    <3> QED
      BY <1>2, <1>5, <2>1, <3>1
  <2>2. CASE ~(k < i)
    <3>1. k - (i - 1) \in 1 .. n - i /\ i + (k - (i - 1)) = k + 1 /\ ~(k <= i - 1)
      BY <1>1, <2>2
    <3>2. r[k - (i - 1)] = s[k + 1]
      BY <1>3, <3>1
    <3> QED
      BY <1>5, <2>2, <3>1, <3>2
  <2> QED
    BY <2>1, <2>2
<1> QED
  BY <1>4, <1>5, <1>6 DEF n

\* list::remove, in a list without repetitions.
LEMMA RemoveIs ==
  ASSUME NEW S, NEW s \in Seq(S), Once(s), NEW x
  PROVE  /\ RemoveFirst(s, x) \in Seq(S) /\ Once(RemoveFirst(s, x))
         /\ ToSet(RemoveFirst(s, x)) = ToSet(s) \ {x}
         /\ Len(RemoveFirst(s, x)) <= Len(s)
<1>1. CASE x \notin ToSet(s)
  <2>1. RemoveFirst(s, x) = s
    BY <1>1 DEF RemoveFirst, ToSet
  <2> QED
    BY <1>1, <2>1
<1>2. CASE x \in ToSet(s)
  <2> DEFINE i == Place(s, x)
             t == RemoveFirst(s, x)
             n == Len(s)
  <2>1. i \in 1 .. n /\ s[i] = x /\ n \in Nat
    BY <1>2, PlaceIs
  <2>2. t = RemoveAt(s, i)
    BY <1>2 DEF RemoveFirst, ToSet, Place
  <2>3. t \in Seq(S) /\ Len(t) = n - 1
        /\ \A k \in 1 .. n - 1 : t[k] = IF k < i THEN s[k] ELSE s[k + 1]
    BY <2>1, <2>2, RemovedAt
  <2>4. DOMAIN t = 1 .. n - 1 /\ DOMAIN s = 1 .. n
    BY <2>3
  <2> HIDE DEF i, t, n
  <2> DEFINE from(k) == IF k < i THEN k ELSE k + 1
  <2>0. \A k \in 1 .. n - 1 : /\ from(k) \in 1 .. n /\ from(k) # i
                             /\ t[k] = s[from(k)]
    BY <2>1, <2>3
  <2>a. \A j, k \in 1 .. n - 1 : from(j) = from(k) => j = k
    BY <2>1
  <2> HIDE DEF from
  <2>5. Once(t)
    BY <2>0, <2>a, <2>4 DEF Once
  <2>6. \A k \in 1 .. n - 1 : t[k] \in ToSet(s) /\ t[k] # x
    BY <2>0, <2>1, <2>4 DEF Once, ToSet
  <2>7. \A k \in 1 .. n : s[k] # x => s[k] \in ToSet(t)
    <3> SUFFICES ASSUME NEW k \in 1 .. n, s[k] # x PROVE s[k] \in ToSet(t)
      OBVIOUS
    <3>1. k # i
      BY <2>1
    <3>2. CASE k < i
      BY <2>1, <2>3, <2>4, <3>2 DEF ToSet
    <3>3. CASE k > i
      <4>1. k - 1 \in 1 .. n - 1 /\ t[k - 1] = s[k]
        BY <2>1, <2>3, <3>3
      <4> QED
        BY <2>4, <4>1 DEF ToSet
    <3> QED
      BY <2>1, <3>1, <3>2, <3>3
  <2>8. ToSet(t) = ToSet(s) \ {x}
    BY <2>4, <2>6, <2>7 DEF ToSet
  <2> QED
    BY <2>1, <2>3, <2>5, <2>8 DEF t, n
<1> QED
  BY <1>1, <1>2

\* emplace_back of an element that is not in the list.
LEMMA AppendIsOnce ==
  ASSUME NEW S, NEW s \in Seq(S), Once(s), NEW x \in S, x \notin ToSet(s)
  PROVE  /\ Append(s, x) \in Seq(S) /\ Once(Append(s, x))
         /\ ToSet(Append(s, x)) = ToSet(s) \cup {x}
<1> DEFINE t == Append(s, x)
           n == Len(s)
<1>1. /\ t \in Seq(S) /\ Len(t) = n + 1 /\ n \in Nat /\ t[n + 1] = x
      /\ \A i \in 1 .. n : t[i] = s[i]
  BY AppendProperties
<1>2. DOMAIN t = 1 .. n + 1 /\ DOMAIN s = 1 .. n
  BY <1>1
<1> HIDE DEF t, n
<1>3. ToSet(t) = ToSet(s) \cup {x}
  BY <1>1, <1>2 DEF ToSet
<1>4. Once(t)
  BY <1>1, <1>2 DEF Once, ToSet
<1> QED
  BY <1>1, <1>3, <1>4 DEF t

\* pop_front, in a list without repetitions.
LEMMA TailIsOnce ==
  ASSUME NEW S, NEW s \in Seq(S), s # <<>>, Once(s)
  PROVE  /\ Tail(s) \in Seq(S) /\ Head(s) \in S /\ Head(s) \in ToSet(s) /\ Once(Tail(s))
         /\ ToSet(Tail(s)) = ToSet(s) \ {Head(s)}
<1> DEFINE t == Tail(s)
           n == Len(s)
<1>1. /\ t \in Seq(S) /\ Len(t) = n - 1 /\ n \in Nat \ {0} /\ Head(s) = s[1] /\ s[1] \in S
      /\ \A k \in 1 .. n - 1 : t[k] = s[k + 1]
  BY HeadTailProperties
<1>2. DOMAIN s = 1 .. n /\ DOMAIN t = 1 .. n - 1
  BY <1>1
<1> HIDE DEF t, n
<1>3. \A k \in 1 .. n - 1 : k + 1 \in 1 .. n /\ k + 1 # 1
  BY <1>1
<1>4. Once(t)
  <2> SUFFICES ASSUME NEW j \in 1 .. n - 1, NEW k \in 1 .. n - 1, t[j] = t[k]
               PROVE  j = k
    BY <1>2 DEF Once
  <2>1. s[j + 1] = s[k + 1] /\ j + 1 \in DOMAIN s /\ k + 1 \in DOMAIN s
    BY <1>1, <1>2, <1>3
  <2>2. j + 1 = k + 1
    BY <2>1 DEF Once
  <2> QED
    BY <1>1, <2>2
<1>5. \A k \in 1 .. n - 1 : t[k] \in ToSet(s) /\ t[k] # s[1]
  <2> SUFFICES ASSUME NEW k \in 1 .. n - 1
               PROVE  t[k] \in ToSet(s) /\ t[k] # s[1]
    OBVIOUS
  <2>1. k + 1 \in DOMAIN s /\ 1 \in DOMAIN s /\ k + 1 # 1 /\ t[k] = s[k + 1]
    BY <1>1, <1>2, <1>3
  <2> QED
    BY <2>1 DEF ToSet, Once
<1>6. \A k \in 1 .. n : k = 1 \/ s[k] \in ToSet(t)
  <2> SUFFICES ASSUME NEW k \in 1 .. n, k # 1
               PROVE  s[k] \in ToSet(t)
    OBVIOUS
  <2>1. k - 1 \in 1 .. n - 1 /\ t[k - 1] = s[k]
    BY <1>1
  <2> QED
    BY <1>2, <2>1 DEF ToSet
<1>7. /\ \A x : x \in ToSet(s) <=> \E k \in 1 .. n : x = s[k]
      /\ \A x : x \in ToSet(t) <=> \E k \in 1 .. n - 1 : x = t[k]
  BY <1>2 DEF ToSet
<1>8. s[1] \in ToSet(s)
  BY <1>1, <1>7
<1>9. ToSet(t) = ToSet(s) \ {s[1]}
  BY <1>5, <1>6, <1>7, <1>8
<1> QED
  BY <1>1, <1>4, <1>8, <1>9 DEF t

----------------------------------------------------------------------------
(* Facts about the order in a list.                                        *)

\* t is what is left of s when some of it goes.
Within(t, s) ==
  \E f \in [DOMAIN t -> DOMAIN s] :
    /\ \A i, j \in DOMAIN t : i < j => f[i] < f[j]
    /\ \A i \in DOMAIN t : t[i] = s[f[i]]

\* What is left has no more elements, no repetitions and no other order.
LEMMA WithinKeeps ==
  ASSUME NEW S, NEW s \in Seq(S), NEW t \in Seq(S), Within(t, s)
  PROVE  /\ ToSet(t) \subseteq ToSet(s)
         /\ Once(s) => Once(t)
         /\ \A m, n : Precedes(m, n, t) => Precedes(m, n, s)
<1>1. PICK f \in [DOMAIN t -> DOMAIN s] :
        /\ \A i, j \in DOMAIN t : i < j => f[i] < f[j]
        /\ \A i \in DOMAIN t : t[i] = s[f[i]]
  BY DEF Within
<1>2. DOMAIN t \subseteq Nat /\ DOMAIN s \subseteq Nat
  OBVIOUS
<1>3. ToSet(t) \subseteq ToSet(s)
  BY <1>1 DEF ToSet
<1>4. \A i, j \in DOMAIN t : f[i] = f[j] => i = j
  <2> SUFFICES ASSUME NEW i \in DOMAIN t, NEW j \in DOMAIN t, i # j PROVE f[i] # f[j]
    OBVIOUS
  <2>1. f[i] \in Nat /\ f[j] \in Nat /\ i \in Nat /\ j \in Nat
    BY <1>1, <1>2
  <2>2. f[i] < f[j] \/ f[j] < f[i]
    BY <1>1, <2>1
  <2> QED
    BY <2>1, <2>2
<1>5. Once(s) => Once(t)
  BY <1>1, <1>4 DEF Once
<1>6. \A m, n : Precedes(m, n, t) => Precedes(m, n, s)
  BY <1>1 DEF Precedes
<1> QED
  BY <1>3, <1>5, <1>6

\* Nothing has gone.
LEMMA WithinItself == \A S : \A s \in Seq(S) : Within(s, s)
<1> SUFFICES ASSUME NEW S, NEW s \in Seq(S) PROVE Within(s, s)
  OBVIOUS
<1> DEFINE f == [i \in DOMAIN s |-> i]
<1>1. /\ f \in [DOMAIN s -> DOMAIN s]
      /\ \A i, j \in DOMAIN s : i < j => f[i] < f[j]
      /\ \A i \in DOMAIN s : s[i] = s[f[i]]
  OBVIOUS
<1> QED
  BY <1>1 DEF Within

\* The middle has gone.
LEMMA WithinCut ==
  ASSUME NEW S, NEW g \in Seq(S), NEW x \in Seq(S), NEW q \in Seq(S)
  PROVE  Within(g \o q, (g \o x) \o q)
<1> DEFINE a == Len(g)
           k == Len(x)
           b == Len(q)
           h == g \o x
           s == h \o q
           t == g \o q
           f == [i \in 1 .. a + b |-> IF i <= a THEN i ELSE i + k]
<1>1. a \in Nat /\ k \in Nat /\ b \in Nat
  OBVIOUS
<1>2. /\ h \in Seq(S) /\ Len(h) = a + k
      /\ \A i \in 1 .. a + k : h[i] = IF i <= a THEN g[i] ELSE x[i - a]
  BY ConcatProperties
<1> HIDE DEF h
<1>3. /\ s \in Seq(S) /\ Len(s) = a + k + b
      /\ \A i \in 1 .. a + k + b : s[i] = IF i <= a + k THEN h[i] ELSE q[i - (a + k)]
  <2>1. /\ s \in Seq(S) /\ Len(s) = Len(h) + b
        /\ \A i \in 1 .. Len(h) + b : s[i] = IF i <= Len(h) THEN h[i] ELSE q[i - Len(h)]
    <3>1. h \in Seq(S)
      BY <1>2
    <3> QED
      BY ONLY <3>1, q \in Seq(S), ConcatProperties
  <2>2. Len(h) = a + k
    BY <1>2
  <2> HIDE DEF a, k, b, s
  <2> QED
    BY <2>1, <2>2, Zenon
<1>4. /\ t \in Seq(S) /\ Len(t) = a + b
      /\ \A i \in 1 .. a + b : t[i] = IF i <= a THEN g[i] ELSE q[i - a]
  BY ConcatProperties
<1>5. DOMAIN t = 1 .. a + b /\ DOMAIN s = 1 .. a + k + b
  BY <1>3, <1>4
<1> HIDE DEF a, k, b, s, t
<1>6. f \in [1 .. a + b -> 1 .. a + k + b]
  BY <1>1
<1>7. \A i, j \in 1 .. a + b : i < j => f[i] < f[j]
  BY <1>1
<1>8. ASSUME NEW i \in 1 .. a + b PROVE t[i] = s[f[i]]
  <2>1. CASE i <= a
    <3>1. i \in 1 .. a + k /\ i \in 1 .. a + k + b /\ i <= a + k /\ f[i] = i
      BY <1>1, <2>1
    <3> QED
      BY <1>2, <1>3, <1>4, <2>1, <3>1
  <2>2. CASE ~(i <= a)
    <3>1. /\ i + k \in 1 .. a + k + b /\ ~(i + k <= a + k) /\ f[i] = i + k
          /\ (i + k) - (a + k) = i - a
      BY <1>1, <2>2
    <3>2. PICK j \in 1 .. a + k + b : j = i + k
      BY <3>1
    <3>3. s[j] = q[j - (a + k)]
      BY <1>3, <3>1, <3>2
    <3>4. t[i] = q[i - a]
      BY <1>4, <2>2
    <3> QED
      BY <3>1, <3>2, <3>3, <3>4
  <2> QED
    BY <2>1, <2>2
<1>9. Within(t, s)
  <2> HIDE DEF f
  <2>1. f \in [DOMAIN t -> DOMAIN s]
    BY <1>5, <1>6
  <2> QED
    BY <1>5, <1>7, <1>8, <2>1 DEF Within
<1> QED
  BY <1>9 DEF h, s, t

\* Something has come to the end.
LEMMA AppendKeeps ==
  ASSUME NEW S, NEW s \in Seq(S), NEW x \in S, NEW m, NEW n, Precedes(m, n, Append(s, x))
  PROVE  Precedes(m, n, s) \/ (n = x /\ m \in ToSet(s))
<1> DEFINE t == Append(s, x)
           l == Len(s)
<1>1. /\ l \in Nat /\ DOMAIN s = 1 .. l /\ DOMAIN t = 1 .. l + 1
      /\ t[l + 1] = x /\ \A i \in 1 .. l : t[i] = s[i]
  BY AppendProperties
<1>2. PICK i, j \in DOMAIN t : i < j /\ t[i] = m /\ t[j] = n
  BY DEF Precedes
<1> HIDE DEF t, l
<1>3. i \in 1 .. l /\ s[i] = m
  BY <1>1, <1>2
<1>4. CASE j = l + 1
  BY <1>1, <1>2, <1>3, <1>4 DEF ToSet
<1>5. CASE j # l + 1
  <2>1. j \in 1 .. l /\ s[j] = n
    BY <1>1, <1>2, <1>5
  <2> QED
    BY <1>1, <1>2, <1>3, <2>1 DEF Precedes
<1> QED
  BY <1>4, <1>5

\* What comes before another is in the list, and is not the other.
LEMMA BothThere ==
  ASSUME NEW S, NEW s \in Seq(S), NEW m, NEW n, Precedes(m, n, s)
  PROVE  m \in ToSet(s) /\ n \in ToSet(s) /\ (Once(s) => m # n)
<1>1. PICK i, j \in DOMAIN s : i < j /\ s[i] = m /\ s[j] = n
  BY DEF Precedes
<1>2. i \in Nat /\ j \in Nat
  BY <1>1
<1>3. i # j
  BY <1>1, <1>2
<1> QED
  BY <1>1, <1>3 DEF ToSet, Once

----------------------------------------------------------------------------
(* Types.                                                                  *)

Calling == [op : {None, "ForEach", "One"}, base : Bases \cup {None},
            msg : Msgs \cup {None}, rest : Seq(Conns)]

\* A call is a record, whichever way it goes on.
LEMMA CallType ==
  ASSUME NEW op \in {"ForEach", "One"}, NEW b \in Bases \cup {None},
         NEW m \in Msgs \cup {None}, NEW rest \in Seq(Conns)
  PROVE  /\ Call(op, b, m, rest) \in Calling /\ NoCall \in Calling
         /\ Call(op, b, m, rest) = NoCall
            \/ /\ Call(op, b, m, rest).op = op /\ Call(op, b, m, rest).base = b
               /\ Call(op, b, m, rest).msg = m /\ Call(op, b, m, rest).rest = rest
               /\ rest # <<>>
         /\ rest # <<>> => Call(op, b, m, rest) # NoCall
<1>1. NoCall \in Calling
  BY DEF NoCall, Calling
<1>2. CASE rest = <<>>
  BY <1>1, <1>2 DEF Call
<1>3. CASE rest # <<>>
  <2> DEFINE k == [op |-> op, base |-> b, msg |-> m, rest |-> rest]
  <2>1. Call(op, b, m, rest) = k
    BY <1>3 DEF Call
  <2>2. k \in Calling /\ k.op = op /\ k.base = b /\ k.msg = m /\ k.rest = rest
    BY DEF Calling
  <2>3. NoCall.rest = <<>>
    BY DEF NoCall
  <2> QED
    BY <1>1, <1>3, <2>1, <2>2, <2>3
<1> QED
  BY <1>2, <1>3

LEMMA TypeInit == Init => TypeOK
<1> SUFFICES ASSUME Init PROVE TypeOK
  OBVIOUS
<1>1. NoCall \in Calling
  BY DEF NoCall, Calling
<1>2. 1 \in 0 .. IntValues - 1 /\ 0 \in 0 .. NumBases /\ 0 \in 0 .. NumBases - 1
  BY BasesAssumption DEF BasesAssumption
<1>3. /\ m_id \in 0 .. IntValues - 1 /\ exiting \in 0 .. NumBases /\ joined \in 0 .. NumBases - 1
      /\ call \in [Posters -> Calling]
  BY <1>1, <1>2 DEF Init
<1>4. /\ m_exit \in [Bases -> BOOLEAN] /\ loop \in [Bases -> {"while", "last", "ended"}]
      /\ at \in [Conns -> {"none", "posted", "attached", "removed", "gone"}]
      /\ base \in [Conns -> Bases \cup {None}] /\ m_conns \in [Bases -> Seq(Conns)]
  BY DEF Init
<1>a. <<>> \in Seq(Msgs) /\ {} \in SUBSET Conns
  OBVIOUS
<1>5. /\ queue \in [Conns -> Seq(Msgs)] /\ sending \in [Conns -> Msgs \cup {None}]
      /\ got \in [Conns -> Seq(Msgs)]
  BY <1>a DEF Init
<1>6. unposted \subseteq Msgs /\ told \in [Msgs -> SUBSET Conns] /\ corrupt \in BOOLEAN
  BY <1>a DEF Init
<1> QED
  BY <1>3, <1>4, <1>5, <1>6 DEF TypeOK, Calling

\* What each step but those of posters leaves of the types.
LEMMA LoopTypes ==
  ASSUME TypeOK, NEW b \in Bases, LeaveWhile(b) \/ Return(b) \/ Exit \/ Join \/ AskBase
  PROVE  TypeOK'
<1> USE DEF TypeOK, vars, loopVars, connVars, poolVars, postVars
<1>1. CASE LeaveWhile(b)
  BY <1>1 DEF LeaveWhile
<1>2. CASE Return(b)
  BY <1>2 DEF Return
<1>3. CASE Exit
  BY <1>3, BasesAssumption DEF Exit, Bases, BasesAssumption
<1>4. CASE Join
  BY <1>4, BasesAssumption DEF Join, BasesAssumption
<1>5. CASE AskBase
  BY <1>5, BasesAssumption DEF AskBase, Counted, BasesAssumption
<1> QED
  BY <1>1, <1>2, <1>3, <1>4, <1>5

\* AllocBase is a base, and the counter goes round.
LEMMA CounterTypes ==
  ASSUME TypeOK
  PROVE  AllocBase \in Bases /\ Counted \in 0 .. IntValues - 1 /\ Acceptor \in Bases
  BY BasesAssumption DEF TypeOK, AllocBase, Counted, Bases, Acceptor, BasesAssumption

LEMMA ConnTypes ==
  ASSUME TypeOK, NEW c \in Conns, Lists,
         HandleAccept(c) \/ AddConnTask(c) \/ RemoveConn(c) \/ DeleteChannel(c)
  PROVE  TypeOK'
<1> USE DEF loopVars, poolVars, postVars
<1>1. CASE HandleAccept(c)
  <2> DEFINE Fine == /\ at' \in [Conns -> {"none", "posted", "attached", "removed", "gone"}]
                     /\ base' \in [Conns -> Bases \cup {None}] /\ m_conns' \in [Bases -> Seq(Conns)]
  <2>a. ASSUME AllocBase = Acceptor /\ Attach(c, Acceptor) PROVE Fine
    <3>1. m_conns[Acceptor] \in Seq(Conns) /\ Append(m_conns[Acceptor], c) \in Seq(Conns)
      BY CounterTypes DEF TypeOK
    <3> QED
      BY <2>a, <3>1, CounterTypes DEF Attach, TypeOK
  <2>b. ASSUME ~(AllocBase = Acceptor /\ Attach(c, Acceptor)) PROVE Fine
    <3>1. /\ at' = [at EXCEPT ![c] = "posted"] /\ base' = [base EXCEPT ![c] = AllocBase]
          /\ m_conns' = m_conns
      BY <1>1, <2>b DEF HandleAccept
    <3>2. AllocBase \in Bases
      BY CounterTypes
    <3> QED
      BY <3>1, <3>2 DEF TypeOK
  <2>1. m_id' = Counted /\ Fine
    BY <1>1, <2>a, <2>b DEF HandleAccept
  <2> QED
    BY <1>1, <2>1, CounterTypes DEF HandleAccept, TypeOK
<1>2. CASE AddConnTask(c)
  <2>1. base[c] \in Bases
    BY <1>2 DEF AddConnTask, Lists
  <2>2. /\ at' \in [Conns -> {"none", "posted", "attached", "removed", "gone"}]
        /\ base' \in [Conns -> Bases \cup {None}] /\ m_conns' \in [Bases -> Seq(Conns)]
    BY <1>2, <2>1 DEF AddConnTask, Attach, TypeOK
  <2> QED
    BY <1>2, <2>2 DEF AddConnTask, TypeOK
<1>3. CASE RemoveConn(c)
  <2>1. base[c] \in Bases /\ Once(m_conns[base[c]]) /\ m_conns[base[c]] \in Seq(Conns)
    BY <1>3 DEF RemoveConn, Lists, TypeOK
  <2>2. RemoveFirst(m_conns[base[c]], c) \in Seq(Conns)
    BY <2>1, RemoveIs
  <2>3. /\ at' \in [Conns -> {"none", "posted", "attached", "removed", "gone"}]
        /\ told' \in [Msgs -> SUBSET Conns] /\ m_conns' \in [Bases -> Seq(Conns)]
    BY <1>3, <2>2 DEF RemoveConn, Removed, TypeOK
  <2> QED
    BY <1>3, <2>3 DEF RemoveConn, TypeOK
<1>4. CASE DeleteChannel(c)
  BY <1>4 DEF DeleteChannel, TypeOK
<1> QED
  BY <1>1, <1>2, <1>3, <1>4

LEMMA WorkerTypes ==
  ASSUME TypeOK, NEW c \in Conns, WorkerStep(c)
  PROVE  TypeOK'
<1> USE DEF loopVars, connVars, postVars
<1>1. CASE TestChannel(c)
  <2>1. queue[c] \in Seq(Msgs) /\ queue[c] # <<>>
    BY <1>1 DEF TestChannel, TypeOK
  <2>2. Head(queue[c]) \in Msgs /\ Tail(queue[c]) \in Seq(Msgs)
    BY <2>1
  <2>3. queue' \in [Conns -> Seq(Msgs)] /\ sending' \in [Conns -> Msgs \cup {None}]
    BY <1>1, <2>2 DEF TestChannel, TypeOK
  <2> QED
    BY <1>1, <2>3 DEF TestChannel, TypeOK
<1>2. CASE UseChannel(c)
  <2>1. sending[c] \in Msgs /\ got[c] \in Seq(Msgs)
    BY <1>2 DEF UseChannel, TypeOK
  <2>2. /\ got' \in [Conns -> Seq(Msgs)] /\ sending' \in [Conns -> Msgs \cup {None}]
        /\ corrupt' \in BOOLEAN
    BY <1>2, <2>1 DEF UseChannel, TypeOK, HasChannel
  <2> QED
    BY <1>2, <2>2 DEF UseChannel, TypeOK
<1> QED
  BY <1>1, <1>2 DEF WorkerStep

\* What AddTask comes to.
LEMMA NextElement ==
  ASSUME TypeOK, Calls, NEW p \in Posters, call[p] # NoCall
  PROVE  /\ call[p].op \in {"ForEach", "One"} /\ call[p].base \in Bases \cup {None}
         /\ call[p].msg \in Msgs /\ call[p].rest \in Seq(Conns) /\ call[p].rest # <<>>
         /\ Once(call[p].rest)
         /\ Head(call[p].rest) \in Conns /\ Head(call[p].rest) \in ToSet(call[p].rest)
         /\ Tail(call[p].rest) \in Seq(Conns) /\ Once(Tail(call[p].rest))
         /\ ToSet(Tail(call[p].rest)) = ToSet(call[p].rest) \ {Head(call[p].rest)}
<1>1. call[p] \in Calling
  BY DEF TypeOK, Calling
<1>2. call[p].base \in Bases \cup {None} /\ call[p].rest \in Seq(Conns)
  BY <1>1 DEF Calling
<1>3. /\ call[p].op \in {"ForEach", "One"} /\ call[p].msg \in Msgs
      /\ call[p].rest # <<>> /\ Once(call[p].rest)
  <2>1. CASE IsForEach(call[p])
    BY <2>1 DEF IsForEach
  <2>2. CASE IsOne(call[p])
    <3>1. PICK c \in Conns : call[p].rest = <<c>>
      BY <2>2 DEF IsOne
    <3>2. <<c>> # <<>> /\ Once(<<c>>)
      BY DEF Once
    <3> QED
      BY <2>2, <3>1, <3>2 DEF IsOne
  <2> QED
    BY <2>1, <2>2 DEF Calls
<1> QED
  BY <1>2, <1>3, TailIsOnce

LEMMA AddTaskTypes ==
  ASSUME TypeOK, Calls, NEW p \in Posters, AddTask(p)
  PROVE  TypeOK'
<1> DEFINE k == call[p]
           c == Head(k.rest)
           next == Call(k.op, k.base, k.msg, Tail(k.rest))
<1>1. /\ k.op \in {"ForEach", "One"} /\ k.base \in Bases \cup {None} /\ k.msg \in Msgs
      /\ Tail(k.rest) \in Seq(Conns) /\ c \in Conns
  BY NextElement DEF AddTask
<1>2. next \in Calling
  BY <1>1, CallType
<1>3. call' = [call EXCEPT ![p] = next]
  BY DEF AddTask
<1>4. call \in [Posters -> Calling]
  BY DEF TypeOK, Calling
<1>5. queue' = queue \/ queue' = [queue EXCEPT ![c] = Append(@, k.msg)]
  BY DEF AddTask
<1> HIDE DEF next, c
<1>6. call' \in [Posters -> Calling]
  BY <1>2, <1>3, <1>4
<1>7. queue' \in [Conns -> Seq(Msgs)]
  <2>1. queue \in [Conns -> Seq(Msgs)]
    BY DEF TypeOK
  <2>2. queue[c] \in Seq(Msgs)
    BY <1>1, <2>1
  <2>3. Append(queue[c], k.msg) \in Seq(Msgs)
    BY <1>1, <2>2
  <2> HIDE DEF k
  <2> QED
    BY <1>1, <1>5, <2>1, <2>3
<1>8. corrupt' \in BOOLEAN
  BY DEF AddTask
<1> QED
  BY <1>6, <1>7, <1>8 DEF AddTask, TypeOK, Calling, loopVars, connVars

LEMMA PostTypes ==
  ASSUME TypeOK, NEW p \in Posters, NEW m \in Msgs,
         \/ \E b \in Bases : PostDataToAllConns(p, b, m)
         \/ \E c \in Conns : PostDataToOneConn(p, c, m)
  PROVE  TypeOK'
<1> USE DEF loopVars, connVars, poolVars
<1>1. call \in [Posters -> Calling]
  BY DEF TypeOK, Calling
<1>2. ASSUME NEW b \in Bases, PostDataToAllConns(p, b, m) PROVE TypeOK'
  <2>1. m_conns[b] \in Seq(Conns) /\ ToSet(m_conns[b]) \subseteq Conns
    BY DEF TypeOK, ToSet
  <2>2. call' \in [Posters -> Calling]
    BY <1>1, <1>2, <2>1, CallType DEF PostDataToAllConns
  <2>3. told' \in [Msgs -> SUBSET Conns] /\ unposted' \subseteq Msgs
    BY <1>2, <2>1 DEF PostDataToAllConns, TypeOK
  <2> QED
    BY <1>2, <2>2, <2>3 DEF PostDataToAllConns, TypeOK, Calling
<1>3. ASSUME NEW c \in Conns, PostDataToOneConn(p, c, m) PROVE TypeOK'
  <2>1. <<c>> \in Seq(Conns)
    OBVIOUS
  <2>2. call' \in [Posters -> Calling]
    BY <1>1, <1>3, <2>1, CallType DEF PostDataToOneConn
  <2>3. unposted' \subseteq Msgs
    BY <1>3 DEF PostDataToOneConn, TypeOK
  <2> QED
    BY <1>3, <2>2, <2>3 DEF PostDataToOneConn, TypeOK, Calling
<1> QED
  BY <1>2, <1>3

LEMMA TypeStep == TypeOK /\ Lists /\ Calls /\ [Next]_vars => TypeOK'
<1> SUFFICES ASSUME TypeOK, Lists, Calls, [Next]_vars PROVE TypeOK'
  OBVIOUS
<1>1. CASE UNCHANGED vars
  BY <1>1 DEF vars, loopVars, connVars, poolVars, postVars, TypeOK
<1>2. 0 \in Bases
  BY CounterTypes DEF Acceptor
<1> QED
  BY <1>1, <1>2, LoopTypes, ConnTypes, WorkerTypes, AddTaskTypes, PostTypes
  DEF Next, LoopStep

----------------------------------------------------------------------------
(* What becomes of a log.                                                  *)

\* Log, of the three parts of it.
Parts(g, x, q) == g \o (IF x = None THEN <<>> ELSE <<x>>) \o q

LEMMA LogIs ==
  ASSUME TypeOK, NEW c \in Conns
  PROVE  /\ Log(c) = Parts(got[c], sending[c], queue[c])
         /\ Log(c) \in Seq(Msgs)
<1>1. /\ got[c] \in Seq(Msgs) /\ sending[c] \in Msgs \cup {None} /\ queue[c] \in Seq(Msgs)
  BY DEF TypeOK
<1>2. (IF sending[c] = None THEN <<>> ELSE <<sending[c]>>) \in Seq(Msgs)
  BY <1>1
<1> QED
  BY <1>1, <1>2, ConcatProperties DEF Log, Parts

\* A message goes on from part to part, or leaves.
LEMMA PartsMove ==
  ASSUME NEW g \in Seq(Msgs), NEW q \in Seq(Msgs)
  PROVE  /\ q # <<>> => /\ Parts(g, Head(q), Tail(q)) = Parts(g, None, q)
                        /\ Within(Parts(g, None, Tail(q)), Parts(g, None, q))
         /\ \A x \in Msgs : /\ Parts(Append(g, x), None, q) = Parts(g, x, q)
                            /\ Within(Parts(g, None, q), Parts(g, x, q))
         /\ \A x \in Msgs \cup {None} : Within(Parts(<<>>, x, q), Parts(g, x, q))
<1>a. None \notin Msgs
  BY BasesAssumption DEF BasesAssumption
<1>b. <<>> \in Seq(Msgs) /\ \A x \in Msgs : <<x>> \in Seq(Msgs)
  OBVIOUS
<1>c. g \o <<>> = g /\ <<>> \o q = q
  BY ConcatEmptySeq
<1>d. Parts(g, None, q) = g \o q
  BY <1>c DEF Parts
<1>e. \A x \in Msgs : Parts(g, x, q) = (g \o <<x>>) \o q
  BY <1>a DEF Parts
<1>1. ASSUME q # <<>>
      PROVE  /\ Parts(g, Head(q), Tail(q)) = Parts(g, None, q)
             /\ Within(Parts(g, None, Tail(q)), Parts(g, None, q))
  <2> DEFINE h == Head(q)
             r == Tail(q)
  <2>1. h \in Msgs /\ r \in Seq(Msgs)
    BY <1>1
  <2>2. <<h>> \o r = q
    <3> DEFINE k == <<h>>
               n == Len(q)
    <3>1. /\ n \in Nat \ {0} /\ Len(r) = n - 1 /\ h = q[1]
          /\ \A i \in 1 .. n - 1 : r[i] = q[i + 1]
      BY <1>1, HeadTailProperties
    <3>2. k \in Seq(Msgs) /\ Len(k) = 1 /\ k[1] = h
      BY <2>1
    <3> HIDE DEF k, h, r
    <3>3. /\ k \o r \in Seq(Msgs) /\ Len(k \o r) = Len(k) + Len(r)
          /\ \A i \in 1 .. Len(k) + Len(r) : (k \o r)[i] = IF i <= Len(k) THEN k[i] ELSE r[i - Len(k)]
      BY ONLY <2>1, <3>2, ConcatProperties
    <3> HIDE DEF n
    <3>4. Len(k \o r) = n
      BY <3>1, <3>2, <3>3
    <3>5. ASSUME NEW i \in 1 .. n PROVE (k \o r)[i] = q[i]
      <4>1. CASE i = 1
        BY <3>1, <3>2, <3>3, <4>1
      <4>2. CASE i # 1
        <5>1. i - 1 \in 1 .. n - 1 /\ ~(i <= 1) /\ i - 1 + 1 = i
          BY <3>1, <4>2
        <5>2. (k \o r)[i] = r[i - 1]
          BY <3>1, <3>2, <3>3, <5>1
        <5> QED
          BY <3>1, <5>1, <5>2
      <4> QED
        BY <4>1, <4>2
    <3>6. k \o r = q
      BY <3>3, <3>4, <3>5, SeqEqual DEF n
    <3> QED
      BY <3>6 DEF k
  <2> HIDE DEF h, r
  <2>3. Parts(g, h, r) = (g \o <<h>>) \o r /\ Parts(g, None, r) = g \o r
    BY <1>a, <1>c, <2>1 DEF Parts
  <2>4. (g \o <<h>>) \o r = g \o (<<h>> \o r)
    BY <1>b, <2>1, ConcatAssociative, SMTT(30)
  <2>5. Parts(g, h, r) = Parts(g, None, q)
    BY <1>d, <2>2, <2>3, <2>4
  <2>6. Within(g \o r, (g \o <<h>>) \o r)
    BY <1>b, <2>1, WithinCut
  <2> QED
    BY <1>d, <2>2, <2>3, <2>4, <2>5, <2>6 DEF h, r
<1>2. ASSUME NEW x \in Msgs
      PROVE  /\ Parts(Append(g, x), None, q) = Parts(g, x, q)
             /\ Within(Parts(g, None, q), Parts(g, x, q))
  <2>1. Append(g, x) = g \o <<x>> /\ Append(g, x) \in Seq(Msgs)
    BY AppendIsConcat
  <2>2. Append(g, x) \o <<>> = Append(g, x)
    BY <2>1, ConcatEmptySeq
  <2>3. Parts(Append(g, x), None, q) = Parts(g, x, q)
    BY <1>e, <2>1, <2>2 DEF Parts
  <2>4. Within(g \o q, (g \o <<x>>) \o q)
    BY <1>b, WithinCut
  <2> QED
    BY <1>d, <1>e, <2>3, <2>4
<1>3. ASSUME NEW x \in Msgs \cup {None} PROVE Within(Parts(<<>>, x, q), Parts(g, x, q))
  <2>1. PICK s \in Seq(Msgs) : s = IF x = None THEN <<>> ELSE <<x>>
    BY <1>b
  <2>2. Parts(<<>>, x, q) = (<<>> \o s) \o q /\ Parts(g, x, q) = (g \o s) \o q
    BY <2>1 DEF Parts
  <2>3. <<>> \o s = s /\ <<>> \o (s \o q) = s \o q /\ <<>> \o g = g
    BY <1>b, ConcatEmptySeq, ConcatProperties
  <2>4. (g \o s) \o q = g \o (s \o q) /\ s \o q \in Seq(Msgs)
    <3>1. (g \o s) \o q = g \o (s \o q)
      BY ConcatAssociative, SMTT(30)
    <3>2. s \o q \in Seq(Msgs)
      BY ConcatProperties
    <3> QED
      BY <3>1, <3>2
  <2>5. Within(<<>> \o (s \o q), (<<>> \o g) \o (s \o q))
    BY <1>b, <2>4, WithinCut
  <2> QED
    BY <2>2, <2>3, <2>4, <2>5
<1> QED
  BY <1>1, <1>2, <1>3

\* A message is put behind.
LEMMA PartsGrow ==
  ASSUME NEW g \in Seq(Msgs), NEW q \in Seq(Msgs), NEW x \in Msgs \cup {None}, NEW m \in Msgs
  PROVE  Parts(g, x, Append(q, m)) = Append(Parts(g, x, q), m)
<1>a. <<>> \in Seq(Msgs) /\ \A y \in Msgs : <<y>> \in Seq(Msgs)
  OBVIOUS
<1>1. PICK s \in Seq(Msgs) : s = IF x = None THEN <<>> ELSE <<x>>
  BY <1>a
<1>2. g \o s \in Seq(Msgs) /\ (g \o s) \o q \in Seq(Msgs) /\ <<m>> \in Seq(Msgs)
  BY ConcatProperties
<1>3. Append(q, m) = q \o <<m>> /\ Append((g \o s) \o q, m) = ((g \o s) \o q) \o <<m>>
  BY <1>2, AppendIsConcat
<1>4. ((g \o s) \o q) \o <<m>> = (g \o s) \o (q \o <<m>>)
  BY <1>2, ConcatAssociative, SMTT(30)
<1> QED
  BY <1>1, <1>3, <1>4 DEF Parts

----------------------------------------------------------------------------
(* The steps, by what they do to messages.                                 *)

\* A step of a loop or a worker: logs only lose, and of a connection that stays
\* attached nothing; who is told of a message is not forgotten while attached.
Quiet ==
  /\ call' = call /\ unposted' = unposted /\ (corrupt => corrupt')
  /\ \A m \in Msgs : told'[m] \subseteq told[m]
  /\ \A c \in Conns :
       /\ Within(Log(c)', Log(c))
       /\ at[c] # "none" => at'[c] # "none" /\ base'[c] = base[c]
       /\ at[c] = "attached" =>
            \/ at'[c] = "attached" /\ ToSet(Log(c)') = ToSet(Log(c))
            \/ \A m \in Msgs : c \notin told'[m]

\* Steps that touch no log.
LEMMA LogsSame ==
  ASSUME TypeOK, UNCHANGED poolVars
  PROVE  \A c \in Conns : Log(c)' = Log(c) /\ Within(Log(c)', Log(c))
<1> SUFFICES ASSUME NEW c \in Conns PROVE Log(c)' = Log(c) /\ Within(Log(c)', Log(c))
  OBVIOUS
<1>1. Log(c)' = Log(c)
  BY DEF Log, poolVars
<1> QED
  BY <1>1, LogIs, WithinItself

LEMMA WorkerQuiet ==
  ASSUME TypeOK, NEW d \in Conns, WorkerStep(d)
  PROVE  Quiet
<1> USE DEF loopVars, connVars, postVars
<1>1. \A c \in Conns : c # d => Log(c)' = Log(c)
  BY DEF WorkerStep, TestChannel, UseChannel, Log, TypeOK
<1>2. \A c \in Conns : Within(Log(c), Log(c))
  BY LogIs, WithinItself
<1>3. got[d] \in Seq(Msgs) /\ queue[d] \in Seq(Msgs) /\ sending[d] \in Msgs \cup {None}
  BY DEF TypeOK
<1>4. Log(d) = Parts(got[d], sending[d], queue[d])
  BY LogIs
<1>5. Log(d)' = Parts(got'[d], sending'[d], queue'[d])
  BY DEF Log, Parts
<1>6. CASE TestChannel(d)
  <2>1. /\ queue[d] # <<>> /\ sending[d] = None /\ got'[d] = got[d]
        /\ queue'[d] = Tail(queue[d])
        /\ sending'[d] = IF HasChannel(d) THEN Head(queue[d]) ELSE None
    BY <1>6 DEF TestChannel, TypeOK
  <2>2. Within(Log(d)', Log(d)) /\ (HasChannel(d) => Log(d)' = Log(d))
    BY <1>2, <1>3, <1>4, <1>5, <2>1, PartsMove
  <2>3. at' = at /\ base' = base /\ call' = call /\ unposted' = unposted /\ told' = told
        /\ corrupt' = corrupt
    BY <1>6 DEF TestChannel
  <2> QED
    BY <1>1, <1>2, <2>2, <2>3 DEF Quiet, HasChannel
<1>7. CASE UseChannel(d)
  <2>1. /\ sending[d] # None /\ queue'[d] = queue[d] /\ sending'[d] = None /\ ~corrupt
        /\ got'[d] = IF HasChannel(d) THEN Append(got[d], sending[d]) ELSE got[d]
    BY <1>7 DEF UseChannel, TypeOK
  <2>2. Within(Log(d)', Log(d)) /\ (HasChannel(d) => Log(d)' = Log(d))
    BY <1>2, <1>3, <1>4, <1>5, <2>1, PartsMove
  <2>3. at' = at /\ base' = base /\ call' = call /\ unposted' = unposted /\ told' = told
    BY <1>7 DEF UseChannel
  <2> QED
    BY <1>1, <1>2, <2>1, <2>2, <2>3 DEF Quiet, HasChannel
<1> QED
  BY <1>6, <1>7 DEF WorkerStep

LEMMA ConnQuiet ==
  ASSUME TypeOK, Lists, NEW d \in Conns,
         HandleAccept(d) \/ AddConnTask(d) \/ RemoveConn(d) \/ DeleteChannel(d)
  PROVE  Quiet
<1>1. \A c \in Conns : Within(Log(c), Log(c))
  BY LogIs, WithinItself
<1>2. CASE HandleAccept(d) \/ AddConnTask(d)
  <2>1. at[d] \in {"none", "posted"} /\ UNCHANGED <<poolVars, postVars, corrupt>>
    BY <1>2 DEF HandleAccept, AddConnTask
  <2>2. \A c \in Conns : c # d => at'[c] = at[c] /\ base'[c] = base[c]
    BY <1>2 DEF HandleAccept, AddConnTask, Attach, TypeOK
  <2>3. at'[d] # "none" /\ (at[d] = "posted" => base'[d] = base[d])
    BY <1>2 DEF HandleAccept, AddConnTask, Attach, TypeOK
  <2> QED
    BY <2>1, <2>2, <2>3, LogsSame DEF Quiet, postVars
<1>3. CASE RemoveConn(d)
  <2>1. UNCHANGED poolVars /\ call' = call /\ unposted' = unposted /\ corrupt' = corrupt
        /\ base' = base
    BY <1>3 DEF RemoveConn
  <2>2. /\ \A c \in Conns : c # d => at'[c] = at[c]
        /\ at'[d] = "removed" /\ \A m \in Msgs : told'[m] = told[m] \ {d}
    BY <1>3 DEF RemoveConn, Removed, TypeOK
  <2> QED
    BY <2>1, <2>2, LogsSame DEF Quiet
<1>4. CASE DeleteChannel(d)
  <2>1. /\ at[d] = "removed" /\ at' = [at EXCEPT ![d] = "gone"] /\ got' = [got EXCEPT ![d] = <<>>]
        /\ base' = base /\ queue' = queue /\ sending' = sending
        /\ call' = call /\ unposted' = unposted /\ told' = told /\ corrupt' = corrupt
    BY <1>4 DEF DeleteChannel, postVars
  <2>2. \A c \in Conns : c # d => at'[c] = at[c] /\ Log(c)' = Log(c)
    BY <2>1 DEF Log, TypeOK
  <2>3. Log(d)' = Parts(<<>>, sending[d], queue[d])
    BY <2>1 DEF Log, Parts, TypeOK
  <2>4. got[d] \in Seq(Msgs) /\ queue[d] \in Seq(Msgs) /\ sending[d] \in Msgs \cup {None}
    BY DEF TypeOK
  <2>5. Within(Log(d)', Log(d))
    BY <2>3, <2>4, LogIs, PartsMove
  <2>6. at'[d] = "gone"
    BY <2>1 DEF TypeOK
  <2> QED
    BY <1>1, <2>1, <2>2, <2>5, <2>6 DEF Quiet
<1> QED
  BY <1>2, <1>3, <1>4

\* Every step is quiet, or one of a poster.
LEMMA Steps ==
  ASSUME TypeOK, Lists, [Next]_vars
  PROVE  \/ Quiet
         \/ \E p \in Posters : AddTask(p)
         \/ \E p \in Posters, b \in Bases, m \in Msgs : PostDataToAllConns(p, b, m)
         \/ \E p \in Posters, c \in Conns, m \in Msgs : PostDataToOneConn(p, c, m)
<1>1. ASSUME UNCHANGED <<connVars, poolVars, postVars, corrupt>> PROVE Quiet
  BY <1>1, LogsSame DEF Quiet, connVars, postVars
<1>2. ASSUME UNCHANGED vars PROVE Quiet
  BY <1>1, <1>2 DEF vars
<1>3. ASSUME NEW b \in Bases, LeaveWhile(b) \/ Return(b) PROVE Quiet
  BY <1>1, <1>3 DEF LeaveWhile, Return
<1>4. ASSUME Exit \/ Join PROVE Quiet
  BY <1>1, <1>4 DEF Exit, Join
<1>5. ASSUME AskBase PROVE Quiet
  BY <1>5, LogsSame DEF AskBase, Quiet, postVars
<1> QED
  BY <1>2, <1>3, <1>4, <1>5, ConnQuiet, WorkerQuiet DEF Next, LoopStep

----------------------------------------------------------------------------
(* The lists.                                                              *)

\* What a step says of one base's list.
ListOf(b) ==
  /\ Once(m_conns[b])
  /\ \A c \in ToSet(m_conns[b]) : base[c] = b /\ at[c] = "attached"
  /\ loop[b] = "while" =>
       \A c \in Conns : base[c] = b /\ at[c] = "attached" => c \in ToSet(m_conns[b])

\* Who is in a list.
LEMMA ListElements ==
  ASSUME TypeOK, Lists
  PROVE  \A b \in Bases : /\ ToSet(m_conns[b]) \subseteq Conns
                         /\ \A c \in Conns : at[c] # "attached" => c \notin ToSet(m_conns[b])
<1>1. \A b \in Bases : ToSet(m_conns[b]) \subseteq Conns
  BY DEF TypeOK, ToSet
<1>2. \A b \in Bases : \A c \in ToSet(m_conns[b]) : at[c] = "attached"
  BY DEF Lists
<1> QED
  BY <1>1, <1>2

LEMMA ListsInit == Init => Lists
<1> SUFFICES ASSUME Init PROVE Lists
  OBVIOUS
<1>1. \A b \in Bases : m_conns[b] = <<>>
  BY DEF Init
<1>2. Once(<<>>) /\ ToSet(<<>>) = {}
  BY DEF Once, ToSet
<1>3. \A c \in Conns : at[c] = "none"
  BY DEF Init
<1> QED
  BY <1>1, <1>2, <1>3 DEF Lists

\* Attach puts a connection into one list, in which it is not.
LEMMA AttachLists ==
  ASSUME TypeOK, Lists, NEW d \in Conns, NEW e \in Bases, at[d] \in {"none", "posted"},
         Attach(d, e), loop' = loop
  PROVE  Lists'
<1>1. /\ \A c \in Conns : c # d => at'[c] = at[c] /\ base'[c] = base[c]
      /\ at'[d] = "attached" /\ base'[d] = e
  BY DEF Attach, TypeOK
<1>2. /\ \A b \in Bases : b # e => m_conns'[b] = m_conns[b]
      /\ m_conns'[e] = Append(m_conns[e], d)
  BY DEF Attach, TypeOK
<1>3. \A b \in Bases : d \notin ToSet(m_conns[b]) /\ ToSet(m_conns[b]) \subseteq Conns
  BY ListElements
<1>4. /\ Once(m_conns'[e]) /\ ToSet(m_conns'[e]) = ToSet(m_conns[e]) \cup {d}
  <2>1. m_conns[e] \in Seq(Conns) /\ Once(m_conns[e])
    BY DEF Lists, TypeOK
  <2> QED
    BY <1>2, <1>3, <2>1, AppendIsOnce
<1>5. ASSUME NEW b \in Bases PROVE ListOf(b)'
  <2>1. CASE b = e
    BY <1>1, <1>3, <1>4, <2>1 DEF Lists, ListOf
  <2>2. CASE b # e
    <3>1. m_conns'[b] = m_conns[b] /\ loop'[b] = loop[b]
      BY <1>2, <2>2
    <3>2. \A c \in ToSet(m_conns[b]) : base'[c] = b /\ at'[c] = "attached"
      BY <1>1, <1>3 DEF Lists
    <3>3. ASSUME loop[b] = "while", NEW c \in Conns, base'[c] = b, at'[c] = "attached"
          PROVE  c \in ToSet(m_conns[b])
      BY <1>1, <2>2, <3>3 DEF Lists
    <3>4. Once(m_conns[b])
      BY DEF Lists
    <3> QED
      BY <3>1, <3>2, <3>3, <3>4 DEF ListOf
  <2> QED
    BY <2>1, <2>2
<1>6. \A c \in Conns : at'[c] # "none" => base'[c] \in Bases
  BY <1>1 DEF Lists
<1> QED
  BY <1>5, <1>6 DEF Lists, ListOf

LEMMA ListsStep == TypeOK /\ Lists /\ [Next]_vars => Lists'
<1> SUFFICES ASSUME TypeOK, Lists, [Next]_vars PROVE Lists'
  OBVIOUS
<1>1. ASSUME UNCHANGED <<at, base, m_conns>>,
             \A b \in Bases : loop'[b] = "while" => loop[b] = "while"
      PROVE  Lists'
  BY <1>1 DEF Lists
<1>2. ASSUME NEW d \in Conns, HandleAccept(d) PROVE Lists'
  <2>1. CASE Attach(d, Acceptor)
    BY <1>2, <2>1, AttachLists, CounterTypes DEF HandleAccept, loopVars
  <2>2. CASE ~Attach(d, Acceptor)
    <3>1. /\ m_conns' = m_conns /\ loop' = loop /\ at[d] = "none"
          /\ at' = [at EXCEPT ![d] = "posted"] /\ base' = [base EXCEPT ![d] = AllocBase]
      BY <1>2, <2>2 DEF HandleAccept, loopVars
    <3>2. /\ \A c \in Conns : c # d => at'[c] = at[c] /\ base'[c] = base[c]
          /\ at'[d] = "posted" /\ base'[d] \in Bases
      BY <3>1, CounterTypes DEF TypeOK
    <3>3. \A b \in Bases : d \notin ToSet(m_conns[b]) /\ ToSet(m_conns[b]) \subseteq Conns
      BY <3>1, ListElements
    <3>4. \A b \in Bases : ListOf(b)'
      BY <3>1, <3>2, <3>3 DEF Lists, ListOf
    <3> QED
      BY <3>2, <3>4 DEF Lists, ListOf
  <2> QED
    BY <2>1, <2>2
<1>3. ASSUME NEW d \in Conns, AddConnTask(d) PROVE Lists'
  <2>1. base[d] \in Bases
    BY <1>3 DEF AddConnTask, Lists
  <2> QED
    BY <1>3, <2>1, AttachLists DEF AddConnTask, loopVars
<1>4. ASSUME NEW d \in Conns, RemoveConn(d) PROVE Lists'
  <2> DEFINE e == base[d]
  <2>1. /\ e \in Bases /\ at[d] = "attached" /\ base' = base /\ loop' = loop
        /\ m_conns' = [m_conns EXCEPT ![e] = RemoveFirst(@, d)]
        /\ at' = [at EXCEPT ![d] = "removed"]
    BY <1>4 DEF RemoveConn, Removed, Lists, loopVars
  <2> HIDE DEF e
  <2>2. /\ \A c \in Conns : c # d => at'[c] = at[c]
        /\ at'[d] = "removed"
    BY <2>1 DEF TypeOK
  <2>3. /\ \A b \in Bases : b # e => m_conns'[b] = m_conns[b]
        /\ m_conns'[e] = RemoveFirst(m_conns[e], d)
    BY <2>1 DEF TypeOK
  <2>4. /\ Once(m_conns'[e]) /\ ToSet(m_conns'[e]) = ToSet(m_conns[e]) \ {d}
    <3>1. m_conns[e] \in Seq(Conns) /\ Once(m_conns[e])
      BY <2>1 DEF Lists, TypeOK
    <3> QED
      BY <2>3, <3>1, RemoveIs
  <2>5. \A b \in Bases : ToSet(m_conns[b]) \subseteq Conns
    BY DEF TypeOK, ToSet
  <2>6. \A b \in Bases : b # e => d \notin ToSet(m_conns[b])
    BY DEF Lists, e
  <2>7. ASSUME NEW b \in Bases PROVE ListOf(b)'
    <3>1. CASE b = e
      BY <2>1, <2>2, <2>4, <2>5, <3>1 DEF Lists, ListOf
    <3>2. CASE b # e
      BY <2>1, <2>2, <2>3, <2>5, <2>6, <3>2 DEF Lists, ListOf
    <3> QED
      BY <3>1, <3>2
  <2>8. \A c \in Conns : at'[c] # "none" => base'[c] \in Bases
    BY <2>1, <2>2 DEF Lists, e
  <2> QED
    BY <2>7, <2>8 DEF Lists, ListOf
<1>5. ASSUME NEW d \in Conns, DeleteChannel(d) PROVE Lists'
  <2>1. /\ at[d] = "removed" /\ at' = [at EXCEPT ![d] = "gone"]
        /\ base' = base /\ loop' = loop /\ m_conns' = m_conns
    BY <1>5 DEF DeleteChannel, loopVars
  <2>2. /\ \A c \in Conns : c # d => at'[c] = at[c]
        /\ at'[d] = "gone"
    BY <2>1 DEF TypeOK
  <2>3. \A b \in Bases : d \notin ToSet(m_conns[b]) /\ ToSet(m_conns[b]) \subseteq Conns
    BY <2>1, ListElements
  <2>4. \A b \in Bases : ListOf(b)'
    BY <2>1, <2>2, <2>3 DEF Lists, ListOf
  <2> QED
    BY <2>1, <2>2, <2>4 DEF Lists, ListOf
<1>6. ASSUME NEW e \in Bases, LeaveWhile(e) PROVE Lists'
  <2>1. /\ at' = at /\ base' = base /\ loop' = [loop EXCEPT ![e] = "last"]
        /\ m_conns' = [m_conns EXCEPT ![e] = <<>>]
    BY <1>6 DEF LeaveWhile, connVars
  <2>2. /\ \A b \in Bases : b # e => m_conns'[b] = m_conns[b] /\ loop'[b] = loop[b]
        /\ m_conns'[e] = <<>> /\ loop'[e] = "last"
    BY <2>1 DEF TypeOK
  <2>3. Once(<<>>) /\ ToSet(<<>>) = {}
    BY DEF Once, ToSet
  <2>4. \A b \in Bases : ListOf(b)'
    BY <2>1, <2>2, <2>3 DEF Lists, ListOf
  <2> QED
    BY <2>1, <2>4 DEF Lists, ListOf
<1>7. ASSUME NEW e \in Bases, Return(e) PROVE Lists'
  BY <1>1, <1>7 DEF Return, connVars, TypeOK
<1>8. ASSUME Exit \/ Join \/ AskBase \/ UNCHANGED vars PROVE Lists'
  BY <1>1, <1>8 DEF Exit, Join, AskBase, vars, connVars, loopVars
<1>9. ASSUME NEW c \in Conns, WorkerStep(c) PROVE Lists'
  BY <1>1, <1>9 DEF WorkerStep, TestChannel, UseChannel, connVars, loopVars
<1>10. ASSUME NEW p \in Posters,
              \/ AddTask(p)
              \/ \E b \in Bases, m \in Msgs : PostDataToAllConns(p, b, m)
              \/ \E c \in Conns, m \in Msgs : PostDataToOneConn(p, c, m)
       PROVE  Lists'
  BY <1>1, <1>10 DEF AddTask, PostDataToAllConns, PostDataToOneConn, connVars, loopVars
<1> QED
  BY <1>2, <1>3, <1>4, <1>5, <1>6, <1>7, <1>8, <1>9, <1>10 DEF Next, LoopStep

----------------------------------------------------------------------------
(* The calls.                                                              *)

LEMMA CallsInit == Init => Calls
  BY DEF Init, Calls

\* The call of p after its step, where everybody else's is as before.
LEMMA OthersCalls ==
  ASSUME TypeOK, NEW p \in Posters, NEW k, call' = [call EXCEPT ![p] = k]
  PROVE  call'[p] = k /\ \A q \in Posters : q # p => call'[q] = call[q]
  BY DEF TypeOK

\* What AddTask does.
LEMMA AddTaskIs ==
  ASSUME TypeOK, Calls, NEW p \in Posters, AddTask(p)
  PROVE  LET k == call[p]
         IN  /\ k # NoCall /\ ~corrupt
             /\ UNCHANGED <<loop, at, base, m_conns, unposted, told>>
             /\ \/ call'[p] = NoCall /\ Tail(k.rest) = <<>>
                \/ /\ call'[p].op = k.op /\ call'[p].base = k.base /\ call'[p].msg = k.msg
                   /\ call'[p].rest = Tail(k.rest) /\ Tail(k.rest) # <<>>
             /\ \A q \in Posters : q # p => call'[q] = call[q]
             /\ \A c \in Conns :
                  IF c = Head(k.rest)
                  THEN \/ corrupt' /\ Log(c)' = Log(c)
                       \/ ~corrupt' /\ HasChannel(c) /\ Log(c)' = Append(Log(c), k.msg)
                  ELSE Log(c)' = Log(c)
<1> DEFINE k == call[p]
           next == Call(k.op, k.base, k.msg, Tail(k.rest))
<1>1. /\ k # NoCall /\ ~corrupt
      /\ UNCHANGED <<loop, at, base, m_conns, unposted, told, sending, got>>
      /\ call' = [call EXCEPT ![p] = next]
  BY DEF AddTask, loopVars, connVars
<1>2. /\ k.op \in {"ForEach", "One"} /\ k.base \in Bases \cup {None} /\ k.msg \in Msgs
      /\ Tail(k.rest) \in Seq(Conns) /\ Head(k.rest) \in Conns
  BY <1>1, NextElement
<1>3. /\ call'[p] = next
      /\ \A q \in Posters : q # p => call'[q] = call[q]
  <2> HIDE DEF next
  <2> QED
    BY <1>1, OthersCalls
<1>4. \/ next = NoCall /\ Tail(k.rest) = <<>>
      \/ /\ next.op = k.op /\ next.base = k.base /\ next.msg = k.msg
         /\ next.rest = Tail(k.rest) /\ Tail(k.rest) # <<>>
  BY DEF Call
<1>5. \/ corrupt' /\ queue' = queue
      \/ /\ ~corrupt' /\ HasChannel(Head(k.rest))
         /\ queue' = [queue EXCEPT ![Head(k.rest)] = Append(@, k.msg)]
  BY DEF AddTask
<1>6. \A c \in Conns :
        queue[c] \in Seq(Msgs) /\ got[c] \in Seq(Msgs) /\ sending[c] \in Msgs \cup {None}
  BY DEF TypeOK
<1> HIDE DEF next, k
<1>7. ASSUME NEW c \in Conns
      PROVE  IF c = Head(k.rest)
             THEN \/ corrupt' /\ Log(c)' = Log(c)
                  \/ ~corrupt' /\ HasChannel(c) /\ Log(c)' = Append(Log(c), k.msg)
             ELSE Log(c)' = Log(c)
  <2>1. CASE queue'[c] = queue[c] /\ (c = Head(k.rest) => corrupt')
    <3>1. Log(c)' = Log(c)
      BY <1>1, <2>1 DEF Log
    <3> QED
      BY <2>1, <3>1
  <2>2. CASE c = Head(k.rest) /\ ~corrupt'
    <3>1. HasChannel(c) /\ queue'[c] = Append(queue[c], k.msg)
      BY <1>5, <2>2 DEF TypeOK
    <3>2. Log(c)' = Parts(got[c], sending[c], Append(queue[c], k.msg))
      BY <1>1, <3>1 DEF Log, Parts
    <3>3. Log(c) = Parts(got[c], sending[c], queue[c])
      BY LogIs
    <3>4. /\ queue[c] \in Seq(Msgs) /\ got[c] \in Seq(Msgs) /\ sending[c] \in Msgs \cup {None}
          /\ k.msg \in Msgs
      BY <1>2, <1>6
    <3>5. Parts(got[c], sending[c], Append(queue[c], k.msg))
            = Append(Parts(got[c], sending[c], queue[c]), k.msg)
      BY ONLY <3>4, PartsGrow
    <3>6. Log(c)' = Append(Log(c), k.msg)
      BY <3>2, <3>3, <3>5
    <3> QED
      BY <2>2, <3>1, <3>6
  <2>3. c # Head(k.rest) => queue'[c] = queue[c]
    BY <1>2, <1>5 DEF TypeOK
  <2> QED
    BY <1>5, <2>1, <2>2, <2>3
<1>8. UNCHANGED <<loop, at, base, m_conns, unposted, told>>
  BY <1>1
<1> QED
  BY <1>1, <1>3, <1>4, <1>7, <1>8 DEF k

\* What a broadcast's call begins with.
LEMMA ForEachIs ==
  ASSUME TypeOK, Lists, NEW p \in Posters, NEW b \in Bases, NEW m \in Msgs,
         PostDataToAllConns(p, b, m)
  PROVE  /\ call[p] = NoCall /\ m \in unposted /\ unposted' = unposted \ {m} /\ ~Locked(b)
         /\ UNCHANGED <<loop, at, base, m_conns, poolVars, corrupt>>
         /\ told'[m] = ToSet(m_conns[b]) /\ \A n \in Msgs : n # m => told'[n] = told[n]
         /\ \A q \in Posters : q # p => call'[q] = call[q]
         /\ m_conns[b] \in Seq(Conns) /\ Once(m_conns[b])
         /\ \A c \in ToSet(m_conns[b]) : c \in Conns /\ base[c] = b /\ at[c] = "attached"
         /\ \/ call'[p] = NoCall /\ m_conns[b] = <<>>
            \/ /\ call'[p].op = "ForEach" /\ call'[p].base = b /\ call'[p].msg = m
               /\ call'[p].rest = m_conns[b] /\ m_conns[b] # <<>>
<1>1. /\ call[p] = NoCall /\ m \in unposted /\ unposted' = unposted \ {m} /\ ~Locked(b)
      /\ UNCHANGED <<loop, at, base, m_conns, poolVars, corrupt>>
      /\ told' = [told EXCEPT ![m] = ToSet(m_conns[b])]
      /\ call' = [call EXCEPT ![p] = Call("ForEach", b, m, m_conns[b])]
  BY DEF PostDataToAllConns, Lockable, loopVars, connVars
<1>2. told'[m] = ToSet(m_conns[b]) /\ \A n \in Msgs : n # m => told'[n] = told[n]
  BY <1>1 DEF TypeOK
<1>3. m_conns[b] \in Seq(Conns) /\ Once(m_conns[b])
  BY DEF TypeOK, Lists
<1>4. \A c \in ToSet(m_conns[b]) : base[c] = b /\ at[c] = "attached"
  BY DEF Lists
<1>5. \A c \in ToSet(m_conns[b]) : c \in Conns
  BY ListElements
<1>6. /\ call'[p] = Call("ForEach", b, m, m_conns[b])
      /\ \A q \in Posters : q # p => call'[q] = call[q]
  BY <1>1, OthersCalls
<1>7. \/ call'[p] = NoCall /\ m_conns[b] = <<>>
      \/ /\ call'[p].op = "ForEach" /\ call'[p].base = b /\ call'[p].msg = m
         /\ call'[p].rest = m_conns[b] /\ m_conns[b] # <<>>
  BY <1>6 DEF Call
<1> QED
  BY <1>1, <1>2, <1>3, <1>4, <1>5, <1>6, <1>7

\* What a call of PostDataToOneConn begins with.
LEMMA OneIs ==
  ASSUME TypeOK, NEW p \in Posters, NEW c \in Conns, NEW m \in Msgs, PostDataToOneConn(p, c, m)
  PROVE  /\ call[p] = NoCall /\ m \in unposted /\ unposted' = unposted \ {m}
         /\ UNCHANGED <<loop, at, base, m_conns, poolVars, corrupt, told>> /\ at[c] # "none"
         /\ \A q \in Posters : q # p => call'[q] = call[q]
         /\ call'[p].op = "One" /\ call'[p].base = None /\ call'[p].msg = m
         /\ call'[p].rest = <<c>> /\ ToSet(<<c>>) = {c}
<1>1. /\ call[p] = NoCall /\ m \in unposted /\ unposted' = unposted \ {m} /\ at[c] # "none"
      /\ UNCHANGED <<loop, at, base, m_conns, poolVars, corrupt, told>>
      /\ call' = [call EXCEPT ![p] = Call("One", None, m, <<c>>)]
  BY DEF PostDataToOneConn, loopVars, connVars, Exists
<1>2. /\ call'[p] = Call("One", None, m, <<c>>)
      /\ \A q \in Posters : q # p => call'[q] = call[q]
  BY <1>1, OthersCalls
<1>3. Call("One", None, m, <<c>>) = [op |-> "One", base |-> None, msg |-> m, rest |-> <<c>>]
  BY DEF Call
<1>4. ToSet(<<c>>) = {c}
  BY DEF ToSet
<1> QED
  BY <1>1, <1>2, <1>3, <1>4

LEMMA CallsStep == TypeOK /\ Lists /\ Calls /\ [Next]_vars => Calls'
<1> SUFFICES ASSUME TypeOK, Lists, Calls, [Next]_vars PROVE Calls'
  OBVIOUS
<1>a. \A q \in Posters : ToSet(call[q].rest) \subseteq Conns
  BY DEF TypeOK, ToSet
<1>b. ASSUME NEW q \in Posters, call'[q] = call[q],
             \A c \in Conns : at[c] # "none" => at'[c] # "none" /\ base'[c] = base[c]
      PROVE  (call[q] = NoCall \/ IsForEach(call[q]) \/ IsOne(call[q]))'
  <2>1. CASE call[q] = NoCall
    BY <1>b, <2>1 DEF NoCall
  <2>2. CASE IsForEach(call[q])
    BY <1>a, <1>b, <2>2 DEF IsForEach
  <2>3. CASE IsOne(call[q])
    BY <1>b, <2>3 DEF IsOne
  <2> QED
    BY <2>1, <2>2, <2>3 DEF Calls
<1>1. CASE Quiet
  <2>1. \A c \in Conns : at[c] # "none" => at'[c] # "none" /\ base'[c] = base[c]
    BY <1>1 DEF Quiet
  <2>2. call' = call
    BY <1>1 DEF Quiet
  <2> QED
    BY <1>b, <2>1, <2>2 DEF Calls
<1>2. ASSUME NEW p \in Posters, AddTask(p) PROVE Calls'
  <2>1. at' = at /\ base' = base /\ \A q \in Posters : q # p => call'[q] = call[q]
    BY <1>2, AddTaskIs
  <2>2. (call[p] = NoCall \/ IsForEach(call[p]) \/ IsOne(call[p]))'
    <3>1. CASE call'[p] = NoCall
      BY <3>1 DEF NoCall
    <3>2. CASE call'[p] # NoCall
      <4>1. /\ call[p] # NoCall
            /\ call'[p].op = call[p].op /\ call'[p].base = call[p].base
            /\ call'[p].msg = call[p].msg
            /\ call'[p].rest = Tail(call[p].rest) /\ Tail(call[p].rest) # <<>>
        BY <1>2, <3>2, AddTaskIs
      <4>2. /\ Once(Tail(call[p].rest))
            /\ ToSet(Tail(call[p].rest)) = ToSet(call[p].rest) \ {Head(call[p].rest)}
        BY <4>1, NextElement
      <4>3. CASE IsForEach(call[p])
        BY <2>1, <4>1, <4>2, <4>3 DEF IsForEach
      <4>4. CASE IsOne(call[p])
        <5>1. PICK c \in Conns : call[p].rest = <<c>>
          BY <4>4 DEF IsOne
        <5>2. Tail(<<c>>) = <<>>
          OBVIOUS
        <5> QED
          BY <4>1, <5>1, <5>2
      <4> QED
        BY <4>1, <4>3, <4>4 DEF Calls
    <3> QED
      BY <3>1, <3>2
  <2> QED
    BY <1>b, <2>1, <2>2 DEF Calls
<1>3. ASSUME NEW p \in Posters, NEW b \in Bases, NEW m \in Msgs, PostDataToAllConns(p, b, m)
      PROVE  Calls'
  <2>1. at' = at /\ base' = base /\ \A q \in Posters : q # p => call'[q] = call[q]
    BY <1>3, ForEachIs
  <2>2. (call[p] = NoCall \/ IsForEach(call[p]) \/ IsOne(call[p]))'
    <3>1. CASE call'[p] = NoCall
      BY <3>1 DEF NoCall
    <3>2. CASE call'[p] # NoCall
      <4>1. /\ call'[p].op = "ForEach" /\ call'[p].base = b /\ call'[p].msg = m
            /\ call'[p].rest = m_conns[b] /\ m_conns[b] # <<>> /\ Once(m_conns[b])
            /\ \A c \in ToSet(m_conns[b]) : base[c] = b /\ at[c] # "none"
        BY <1>3, <3>2, ForEachIs
      <4> QED
        BY <2>1, <4>1 DEF IsForEach
    <3> QED
      BY <3>1, <3>2
  <2> QED
    BY <1>b, <2>1, <2>2 DEF Calls
<1>4. ASSUME NEW p \in Posters, NEW c \in Conns, NEW m \in Msgs, PostDataToOneConn(p, c, m)
      PROVE  Calls'
  <2>1. at' = at /\ base' = base /\ \A q \in Posters : q # p => call'[q] = call[q]
    BY <1>4, OneIs
  <2>2. /\ call'[p].op = "One" /\ call'[p].base = None /\ call'[p].msg = m
        /\ call'[p].rest = <<c>> /\ at[c] # "none"
    BY <1>4, OneIs
  <2>3. IsOne(call[p])'
    BY <2>1, <2>2 DEF IsOne
  <2> QED
    BY <1>b, <2>1, <2>3 DEF Calls
<1> QED
  BY <1>1, <1>2, <1>3, <1>4, Steps

----------------------------------------------------------------------------
(* The mutex.                                                              *)

LEMMA WalksInit == Init => Walks
<1> SUFFICES ASSUME Init PROVE Walks
  OBVIOUS
<1>1. \A p \in Posters, b \in Bases : ~Walking(p, b)
  BY BasesAssumption DEF Init, Walking, NoCall, BasesAssumption
<1> QED
  BY <1>1 DEF Walks

LEMMA WalksStep == TypeOK /\ Lists /\ Calls /\ Walks /\ [Next]_vars => Walks'
<1> SUFFICES ASSUME TypeOK, Lists, Calls, Walks, [Next]_vars PROVE Walks'
  OBVIOUS
<1>a. NoCall.base \notin Bases /\ None \notin Bases
  BY BasesAssumption DEF NoCall, BasesAssumption
<1>b. ASSUME UNCHANGED call,
             \A b \in Bases : m_conns'[b] = m_conns[b] \/ loop'[b] # "while" \/ ~Locked(b),
             \A b \in Bases : loop'[b] = "while" => loop[b] = "while"
      PROVE  Walks'
  BY <1>b DEF Walks, Walking, Locked
<1>1. ASSUME NEW d \in Conns, NEW e \in Bases, Attach(d, e), UNCHANGED <<call, loop>> PROVE Walks'
  BY <1>1, <1>b DEF Attach, TypeOK
<1>2. ASSUME NEW d \in Conns, HandleAccept(d) PROVE Walks'
  BY <1>1, <1>2, <1>b, CounterTypes DEF HandleAccept, loopVars, postVars
<1>3. ASSUME NEW d \in Conns, AddConnTask(d) PROVE Walks'
  <2>1. base[d] \in Bases
    BY <1>3 DEF AddConnTask, Lists
  <2> QED
    BY <1>1, <1>3, <2>1 DEF AddConnTask, loopVars, postVars
<1>4. ASSUME NEW d \in Conns, RemoveConn(d) PROVE Walks'
  <2>1. base[d] \in Bases
    BY <1>4 DEF RemoveConn, Lists
  <2> QED
    BY <1>4, <1>b, <2>1 DEF RemoveConn, Removed, TypeOK, loopVars, postVars
<1>5. ASSUME NEW e \in Bases, LeaveWhile(e) PROVE Walks'
  BY <1>5, <1>b DEF LeaveWhile, TypeOK, postVars
<1>6. ASSUME NEW e \in Bases, Return(e) PROVE Walks'
  BY <1>6, <1>b DEF Return, TypeOK, postVars
<1>7. ASSUME UNCHANGED <<call, loop, m_conns>> PROVE Walks'
  BY <1>7, <1>b
<1>8. ASSUME Exit \/ Join \/ AskBase \/ UNCHANGED vars PROVE Walks'
  BY <1>7, <1>8 DEF Exit, Join, AskBase, vars, loopVars, postVars
<1>9. ASSUME NEW c \in Conns, WorkerStep(c) \/ DeleteChannel(c) PROVE Walks'
  BY <1>7, <1>9 DEF WorkerStep, TestChannel, UseChannel, DeleteChannel, loopVars, postVars
<1>10. ASSUME NEW p \in Posters, AddTask(p) PROVE Walks'
  <2>1. /\ loop' = loop /\ m_conns' = m_conns /\ call[p] # NoCall
        /\ \A q \in Posters : q # p => call'[q] = call[q]
        /\ \/ call'[p] = NoCall
           \/ /\ call'[p].op = call[p].op /\ call'[p].base = call[p].base
              /\ call'[p].rest = Tail(call[p].rest)
    BY <1>10, AddTaskIs
  <2>2. ToSet(Tail(call[p].rest)) \subseteq ToSet(call[p].rest)
    BY <2>1, NextElement
  <2>3. \A q \in Posters, b \in Bases : Walking(q, b)' => Walking(q, b)
    BY <1>a, <2>1 DEF Walking
  <2>4. \A b \in Bases : Walking(p, b)' => call'[p].rest = Tail(call[p].rest)
    BY <1>a, <2>1 DEF Walking
  <2> QED
    BY <2>1, <2>2, <2>3, <2>4 DEF Walks
<1>11. ASSUME NEW p \in Posters, NEW e \in Bases, NEW m \in Msgs, PostDataToAllConns(p, e, m)
       PROVE  Walks'
  <2>1. /\ loop' = loop /\ m_conns' = m_conns /\ ~Locked(e)
        /\ \A q \in Posters : q # p => call'[q] = call[q]
        /\ \/ call'[p] = NoCall
           \/ /\ call'[p].op = "ForEach" /\ call'[p].base = e
              /\ call'[p].rest = m_conns[e]
    BY <1>11, ForEachIs
  <2>2. \A q \in Posters : ~Walking(q, e)
    BY <2>1 DEF Locked, Walking
  <2>3. \A b \in Bases : Walking(p, b)' => b = e /\ call'[p].rest = m_conns[e]
    BY <1>a, <2>1 DEF Walking
  <2>4. \A q \in Posters, b \in Bases : q # p => (Walking(q, b)' <=> Walking(q, b))
    BY <2>1 DEF Walking
  <2> QED
    BY <2>1, <2>2, <2>3, <2>4 DEF Walks
<1>12. ASSUME NEW p \in Posters, NEW c \in Conns, NEW m \in Msgs, PostDataToOneConn(p, c, m)
       PROVE  Walks'
  <2>1. /\ loop' = loop /\ m_conns' = m_conns
        /\ \A q \in Posters : q # p => call'[q] = call[q]
        /\ call'[p].op = "One"
    BY <1>12, OneIs
  <2>2. \A q \in Posters, b \in Bases : Walking(q, b)' => Walking(q, b) /\ call'[q] = call[q]
    BY <2>1 DEF Walking
  <2> QED
    BY <2>1, <2>2 DEF Walks
<1> QED
  BY <1>2, <1>3, <1>4, <1>5, <1>6, <1>8, <1>9, <1>10, <1>11, <1>12 DEF Next, LoopStep

----------------------------------------------------------------------------
(* The messages.                                                           *)

\* Where logs and rests are, and what is not a message.
LEMMA Sorts ==
  ASSUME TypeOK, Calls
  PROVE  /\ None \notin Msgs /\ NoCall.msg = None /\ NoCall.rest = <<>> /\ ToSet(<<>>) = {}
         /\ \A p \in Posters : /\ ToSet(call[p].rest) \subseteq Conns
                               /\ call[p] # NoCall => call[p].msg \in Msgs
         /\ \A c \in Conns : ToSet(Log(c)) \subseteq Msgs
<1>1. None \notin Msgs /\ NoCall.msg = None /\ NoCall.rest = <<>> /\ ToSet(<<>>) = {}
  BY BasesAssumption DEF BasesAssumption, NoCall, ToSet
<1>2. \A p \in Posters : ToSet(call[p].rest) \subseteq Conns
  BY DEF TypeOK, ToSet
<1>3. \A p \in Posters : call[p] # NoCall => call[p].msg \in Msgs
  BY DEF Calls, IsForEach, IsOne
<1>4. ASSUME NEW c \in Conns PROVE ToSet(Log(c)) \subseteq Msgs
  <2>1. Log(c) \in Seq(Msgs)
    BY LogIs
  <2> QED
    BY <2>1 DEF ToSet
<1> QED
  BY <1>1, <1>2, <1>3, <1>4

\* A quiet step adds nothing to a log, and changes no order.
LEMMA LogsLose ==
  ASSUME TypeOK, TypeOK', Quiet
  PROVE  \A c \in Conns : /\ ToSet(Log(c)') \subseteq ToSet(Log(c))
                          /\ Once(Log(c)) => Once(Log(c)')
                          /\ \A m, n : Precedes(m, n, Log(c)') => Precedes(m, n, Log(c))
<1> SUFFICES ASSUME NEW c \in Conns
             PROVE  /\ ToSet(Log(c)') \subseteq ToSet(Log(c))
                    /\ Once(Log(c)) => Once(Log(c)')
                    /\ \A m, n : Precedes(m, n, Log(c)') => Precedes(m, n, Log(c))
  OBVIOUS
<1>1. Log(c) \in Seq(Msgs)
  BY LogIs
<1>2. /\ got'[c] \in Seq(Msgs) /\ sending'[c] \in Msgs \cup {None} /\ queue'[c] \in Seq(Msgs)
  BY DEF TypeOK
<1>3. (IF sending'[c] = None THEN <<>> ELSE <<sending'[c]>>) \in Seq(Msgs)
  BY <1>2
<1>4. Log(c)' \in Seq(Msgs)
  BY <1>2, <1>3, ConcatProperties DEF Log
<1>5. Within(Log(c)', Log(c))
  BY DEF Quiet
<1> QED
  BY <1>1, <1>4, <1>5, WithinKeeps

\* AddTask puts its message behind one log.
LEMMA LogsGrow ==
  ASSUME TypeOK, Calls, OneCall, NEW p \in Posters, AddTask(p)
  PROVE  /\ call[p].msg \in Msgs
         /\ \A d \in Conns :
              /\ ToSet(Log(d)) \subseteq ToSet(Log(d)')
              /\ ToSet(Log(d)') \subseteq ToSet(Log(d)) \cup {call[p].msg}
              /\ Once(Log(d)')
              /\ \A m, n : Precedes(m, n, Log(d)') =>
                   \/ Precedes(m, n, Log(d))
                   \/ d = Head(call[p].rest) /\ n = call[p].msg /\ m \in ToSet(Log(d))
              /\ d # Head(call[p].rest) => Log(d)' = Log(d)
              /\ d = Head(call[p].rest) => corrupt' \/ call[p].msg \in ToSet(Log(d)')
<1>1. /\ call[p] # NoCall
      /\ \A d \in Conns :
            IF d = Head(call[p].rest)
            THEN \/ corrupt' /\ Log(d)' = Log(d)
                 \/ ~corrupt' /\ HasChannel(d) /\ Log(d)' = Append(Log(d), call[p].msg)
            ELSE Log(d)' = Log(d)
  BY AddTaskIs
<1>2. call[p].msg \in Msgs /\ Head(call[p].rest) \in ToSet(call[p].rest)
  BY <1>1, NextElement
<1>3. PICK m : m = call[p].msg
  OBVIOUS
<1>4. PICK e : e = Head(call[p].rest)
  OBVIOUS
<1>5. m \in Msgs /\ (e \in Conns => m \notin ToSet(Log(e)))
  BY <1>2, <1>3, <1>4 DEF OneCall
<1>6. ASSUME NEW d \in Conns
      PROVE  /\ ToSet(Log(d)) \subseteq ToSet(Log(d)')
             /\ ToSet(Log(d)') \subseteq ToSet(Log(d)) \cup {m}
             /\ Once(Log(d)')
             /\ \A x, n : Precedes(x, n, Log(d)') =>
                   \/ Precedes(x, n, Log(d))
                   \/ d = e /\ n = m /\ x \in ToSet(Log(d))
             /\ d # e => Log(d)' = Log(d)
             /\ d = e => corrupt' \/ m \in ToSet(Log(d)')
  <2>1. Log(d) \in Seq(Msgs) /\ Once(Log(d))
    BY LogIs DEF OneCall
  <2>2. CASE Log(d)' = Log(d) /\ (d = e => corrupt')
    BY <2>1, <2>2
  <2>3. CASE d = e /\ Log(d)' = Append(Log(d), m)
    <3>1. m \notin ToSet(Log(d))
      BY <1>5, <2>3
    <3>2. PICK s \in Seq(Msgs) : s = Log(d)
      BY <2>1
    <3>3. Once(Append(s, m)) /\ ToSet(Append(s, m)) = ToSet(s) \cup {m}
      BY <1>5, <2>1, <3>1, <3>2, AppendIsOnce
    <3>4. \A x, n : Precedes(x, n, Append(s, m)) => Precedes(x, n, s) \/ (n = m /\ x \in ToSet(s))
      BY <1>5, AppendKeeps
    <3> QED
      BY <2>3, <3>2, <3>3, <3>4
  <2> QED
    BY <1>1, <1>3, <1>4, <2>2, <2>3
<1> QED
  BY <1>2, <1>3, <1>4, <1>6

LEMMA MessagesInit == Init => OneCall /\ Coming /\ Ordered /\ Reached
<1> SUFFICES ASSUME Init PROVE OneCall /\ Coming /\ Ordered /\ Reached
  OBVIOUS
<1>1. \A c \in Conns : got[c] = <<>> /\ sending[c] = None /\ queue[c] = <<>>
  BY DEF Init
<1>2. <<>> \o <<>> \o <<>> = <<>>
  BY ConcatEmptySeq
<1>3. \A c \in Conns : Log(c) = <<>>
  BY <1>1, <1>2 DEF Log
<1>4. /\ Once(<<>>) /\ ToSet(<<>>) = {} /\ \A m, n : ~Precedes(m, n, <<>>)
  BY DEF Once, ToSet, Precedes
<1>5. /\ \A p \in Posters : call[p] = NoCall
      /\ NoCall.msg = None /\ NoCall.rest = <<>> /\ None \notin Msgs
  BY BasesAssumption DEF Init, NoCall, BasesAssumption
<1>6. unposted = Msgs /\ \A m \in Msgs : told[m] = {}
  BY DEF Init
<1>7. OneCall
  BY <1>3, <1>4, <1>5, <1>6 DEF OneCall
<1>8. Coming
  BY <1>5 DEF Coming
<1>9. Ordered
  BY <1>3, <1>4 DEF Ordered
<1>10. Reached
  BY <1>6 DEF Reached
<1> QED
  BY <1>7, <1>8, <1>9, <1>10

\* What the beginning of a call means for messages: m leaves unposted, and is
\* in the call of p, or in none.
Begins(p, m) ==
  /\ m \in unposted /\ unposted' = unposted \ {m} /\ call[p] = NoCall
  /\ UNCHANGED <<at, base, poolVars, corrupt>>
  /\ \A n \in Msgs : n # m => told'[n] = told[n]
  /\ \A q \in Posters : q # p => call'[q] = call[q]
  /\ call'[p] = NoCall \/ call'[p].msg = m
  /\ ToSet(call'[p].rest) \subseteq Conns

LEMMA PostsBegin ==
  ASSUME TypeOK, Lists, Calls, NEW p \in Posters, NEW m \in Msgs,
         \/ \E b \in Bases : PostDataToAllConns(p, b, m)
         \/ \E c \in Conns : PostDataToOneConn(p, c, m)
  PROVE  Begins(p, m)
<1>a. ToSet(NoCall.rest) \subseteq Conns
  BY Sorts
<1>1. ASSUME NEW b \in Bases, PostDataToAllConns(p, b, m) PROVE Begins(p, m)
  <2>1. \/ call'[p] = NoCall
        \/ call'[p].msg = m /\ call'[p].rest = m_conns[b]
    BY <1>1, ForEachIs
  <2>2. ToSet(call'[p].rest) \subseteq Conns
    BY <1>a, <2>1, ListElements
  <2> QED
    BY <1>1, <2>1, <2>2, ForEachIs DEF Begins
<1>2. ASSUME NEW c \in Conns, PostDataToOneConn(p, c, m) PROVE Begins(p, m)
  <2>1. /\ call[p] = NoCall /\ m \in unposted /\ unposted' = unposted \ {m}
        /\ UNCHANGED <<at, base, poolVars, corrupt, told>>
        /\ \A q \in Posters : q # p => call'[q] = call[q]
        /\ call'[p].msg = m /\ call'[p].rest = <<c>> /\ ToSet(<<c>>) = {c}
    BY <1>2, OneIs
  <2>2. ToSet(call'[p].rest) \subseteq Conns
    BY <2>1
  <2> QED
    BY <2>1, <2>2 DEF Begins
<1> QED
  BY <1>1, <1>2

LEMMA OneCallStep ==
  TypeOK /\ TypeOK' /\ Lists /\ Calls /\ Calls' /\ OneCall /\ [Next]_vars => OneCall'
<1> SUFFICES ASSUME TypeOK, TypeOK', Lists, Calls, Calls', OneCall, [Next]_vars PROVE OneCall'
  OBVIOUS
<1>a. /\ \A u \in unposted : told[u] = {} /\ u \in Msgs
      /\ \A u \in unposted : \A c \in Conns : u \notin ToSet(Log(c))
      /\ \A u \in unposted : \A q \in Posters : call[q].msg # u
      /\ \A q, r \in Posters : call[q] # NoCall /\ call[q].msg = call[r].msg => q = r
      /\ \A c \in Conns : Once(Log(c))
      /\ \A q \in Posters : \A c \in ToSet(call[q].rest) :
           c \in Conns /\ call[q].msg \notin ToSet(Log(c))
  BY Sorts DEF OneCall, TypeOK
<1>1. CASE Quiet
  <2>1. /\ call' = call /\ unposted' = unposted
        /\ \A m \in Msgs : told'[m] \subseteq told[m]
    BY <1>1 DEF Quiet
  <2>2. \A c \in Conns : ToSet(Log(c)') \subseteq ToSet(Log(c)) /\ Once(Log(c)')
    BY <1>1, <1>a, LogsLose
  <2> QED
    BY <1>a, <2>1, <2>2 DEF OneCall
<1>2. ASSUME NEW p \in Posters, AddTask(p) PROVE OneCall'
  <2> DEFINE m == call[p].msg
             e == Head(call[p].rest)
             r == Tail(call[p].rest)
  <2>1. /\ m \in Msgs
        /\ \A d \in Conns : /\ ToSet(Log(d)') \subseteq ToSet(Log(d)) \cup {m}
                            /\ Once(Log(d)')
                            /\ d # e => Log(d)' = Log(d)
    BY <1>2, LogsGrow
  <2>2. /\ call[p] # NoCall /\ unposted' = unposted /\ told' = told
        /\ call'[p] = NoCall \/ (call'[p].msg = m /\ call'[p].rest = r)
        /\ \A q \in Posters : q # p => call'[q] = call[q]
    BY <1>2, AddTaskIs
  <2>3. ToSet(r) = ToSet(call[p].rest) \ {e}
    BY <2>2, NextElement
  <2>4. /\ None \notin Msgs /\ NoCall.msg = None /\ ToSet(NoCall.rest) = {}
        /\ \A q \in Posters : call'[q] # NoCall => call'[q].msg \in Msgs
    BY Sorts DEF Calls, IsForEach, IsOne
  <2> HIDE DEF e, r, m
  <2>5. \A u \in unposted : \A c \in Conns : u \notin ToSet(Log(c)')
    BY <1>a, <2>1 DEF m
  <2>6. \A u \in unposted : \A q \in Posters : call'[q].msg # u
    BY <1>a, <2>2, <2>4 DEF m
  <2>7. ASSUME NEW q \in Posters, NEW s \in Posters, call'[q] # NoCall, call'[q].msg = call'[s].msg
        PROVE  q = s
    <3>1. call'[q].msg \in Msgs /\ call'[s] # NoCall
      BY <2>4, <2>7
    <3>2. call[q] # NoCall /\ call'[q].msg = call[q].msg /\ call'[s].msg = call[s].msg
      BY <2>2, <2>7, <3>1 DEF m
    <3> QED
      BY <1>a, <2>7, <3>2
  <2>8. ASSUME NEW q \in Posters, NEW c \in ToSet(call'[q].rest)
        PROVE  call'[q].msg \notin ToSet(Log(c)')
    <3>1. CASE q = p
      <4>1. call'[q] # NoCall /\ c \in ToSet(r) /\ call'[q].msg = m
        BY <2>2, <2>4, <2>8, <3>1
      <4>2. c \in ToSet(call[p].rest) /\ c # e
        BY <2>3, <4>1
      <4>3. c \in Conns /\ m \notin ToSet(Log(c))
        BY <1>a, <4>2 DEF m
      <4> QED
        BY <2>1, <4>1, <4>2, <4>3
    <3>2. CASE q # p
      <4>1. call'[q] = call[q] /\ call[q].msg # m
        BY <1>a, <2>2, <3>2 DEF m
      <4>2. c \in Conns /\ call[q].msg \notin ToSet(Log(c))
        BY <1>a, <2>8, <4>1
      <4> QED
        BY <2>1, <4>1, <4>2
    <3> QED
      BY <3>1, <3>2
  <2> QED
    BY <1>a, <2>1, <2>2, <2>5, <2>6, <2>7, <2>8 DEF OneCall
<1>3. ASSUME NEW p \in Posters, NEW m \in Msgs, Begins(p, m) PROVE OneCall'
  <2>1. /\ m \in unposted /\ unposted' = unposted \ {m} /\ UNCHANGED poolVars
        /\ \A n \in Msgs : n # m => told'[n] = told[n]
        /\ \A q \in Posters : q # p => call'[q] = call[q]
        /\ call'[p] = NoCall \/ call'[p].msg = m
        /\ ToSet(call'[p].rest) \subseteq Conns
    BY <1>3 DEF Begins
  <2>2. \A c \in Conns : Log(c)' = Log(c)
    BY <2>1, LogsSame
  <2>3. /\ None \notin Msgs /\ NoCall.msg = None /\ ToSet(NoCall.rest) = {}
        /\ \A q \in Posters : call[q] # NoCall => call[q].msg \in Msgs
    BY Sorts
  <2>4. \A q \in Posters : q # p => call'[q].msg # m
    BY <1>a, <2>1
  <2>5. \A q, s \in Posters : call'[q] # NoCall /\ call'[q].msg = call'[s].msg => q = s
    BY <1>a, <2>1, <2>3, <2>4
  <2>6. \A q \in Posters : \A c \in ToSet(call'[q].rest) : call'[q].msg \notin ToSet(Log(c)')
    BY <1>a, <2>1, <2>2, <2>3
  <2>7. \A u \in unposted' : \A q \in Posters : call'[q].msg # u
    BY <1>a, <2>1, <2>3
  <2>8. \A u \in unposted' : told'[u] = {} /\ \A c \in Conns : u \notin ToSet(Log(c)')
    BY <1>a, <2>1, <2>2
  <2>9. \A c \in Conns : Once(Log(c)')
    BY <1>a, <2>2
  <2> QED
    BY <2>5, <2>6, <2>7, <2>8, <2>9 DEF OneCall
<1> QED
  BY <1>1, <1>2, <1>3, Steps, PostsBegin

LEMMA ComingStep ==
  /\ TypeOK /\ TypeOK' /\ Lists /\ Calls /\ Calls' /\ OneCall /\ Coming /\ [Next]_vars
  => Coming'
<1> SUFFICES ASSUME TypeOK, TypeOK', Lists, Calls, Calls', OneCall, Coming, [Next]_vars
             PROVE  Coming'
  OBVIOUS
<1>a. \A q \in Posters, c \in Conns :
        call[q] # NoCall /\ call[q].msg \in ToSet(Log(c))
          => call[q].op = "ForEach" /\ base[c] = call[q].base /\ at[c] # "none"
  BY DEF Coming
<1>1. CASE Quiet
  <2>1. /\ call' = call
        /\ \A c \in Conns : at[c] # "none" => at'[c] # "none" /\ base'[c] = base[c]
    BY <1>1 DEF Quiet
  <2>2. \A c \in Conns : ToSet(Log(c)') \subseteq ToSet(Log(c))
    BY <1>1, LogsLose
  <2> QED
    BY <1>a, <2>1, <2>2 DEF Coming
<1>2. ASSUME NEW p \in Posters, AddTask(p) PROVE Coming'
  <2> DEFINE m == call[p].msg
             e == Head(call[p].rest)
  <2>1. \A d \in Conns : /\ ToSet(Log(d)') \subseteq ToSet(Log(d)) \cup {m}
                         /\ d # e => Log(d)' = Log(d)
    BY <1>2, LogsGrow
  <2>2. /\ call[p] # NoCall /\ at' = at /\ base' = base
        /\ \/ call'[p] = NoCall
           \/ /\ call'[p].op = call[p].op /\ call'[p].base = call[p].base /\ call'[p].msg = m
              /\ Tail(call[p].rest) # <<>>
        /\ \A q \in Posters : q # p => call'[q] = call[q]
    BY <1>2, AddTaskIs
  <2>3. e \in ToSet(call[p].rest)
    BY <2>2, NextElement
  <2>4. Tail(call[p].rest) # <<>> => call[p].op = "ForEach" /\ base[e] = call[p].base /\ at[e] # "none"
    <3>1. CASE IsForEach(call[p])
      BY <2>3, <3>1 DEF IsForEach
    <3>2. CASE IsOne(call[p])
      <4>1. PICK c \in Conns : call[p].rest = <<c>>
        BY <3>2 DEF IsOne
      <4>2. Tail(<<c>>) = <<>>
        OBVIOUS
      <4> QED
        BY <4>1, <4>2
    <3> QED
      BY <2>2, <3>1, <3>2 DEF Calls
  <2> HIDE DEF e, m
  <2>5. ASSUME NEW q \in Posters, NEW c \in Conns, call'[q] # NoCall, call'[q].msg \in ToSet(Log(c)')
        PROVE  call'[q].op = "ForEach" /\ base'[c] = call'[q].base /\ at'[c] # "none"
    <3>1. CASE q = p
      <4>1. call'[p].op = call[p].op /\ call'[p].base = call[p].base /\ call'[p].msg = m
            /\ Tail(call[p].rest) # <<>>
        BY <2>2, <2>5, <3>1
      <4>2. CASE c = e
        BY <2>2, <2>4, <3>1, <4>1, <4>2
      <4>3. CASE c # e
        <5>1. call[p].msg \in ToSet(Log(c))
          BY <2>1, <2>5, <3>1, <4>1, <4>3 DEF m
        <5> QED
          BY <1>a, <2>2, <3>1, <4>1, <5>1
      <4> QED
        BY <4>2, <4>3
    <3>2. CASE q # p
      <4>1. call'[q] = call[q] /\ call[q].msg # m
        BY <2>2, <3>2 DEF m, OneCall
      <4>2. call[q].msg \in ToSet(Log(c))
        BY <2>1, <2>5, <4>1
      <4> QED
        BY <1>a, <2>2, <2>5, <4>1, <4>2
    <3> QED
      BY <3>1, <3>2
  <2> QED
    BY <2>5 DEF Coming
<1>3. ASSUME NEW p \in Posters, NEW m \in Msgs, Begins(p, m) PROVE Coming'
  <2>1. /\ m \in unposted /\ UNCHANGED <<at, base, poolVars>>
        /\ \A q \in Posters : q # p => call'[q] = call[q]
        /\ call'[p] = NoCall \/ call'[p].msg = m
    BY <1>3 DEF Begins
  <2>2. \A c \in Conns : Log(c)' = Log(c) /\ m \notin ToSet(Log(c))
    BY <2>1, LogsSame DEF OneCall
  <2> QED
    BY <1>a, <2>1, <2>2 DEF Coming
<1> QED
  BY <1>1, <1>2, <1>3, Steps, PostsBegin

LEMMA OrderedStep ==
  /\ TypeOK /\ TypeOK' /\ Lists /\ Calls /\ OneCall /\ OneCall' /\ Walks /\ Coming /\ Ordered
  /\ [Next]_vars
  => Ordered'
<1> SUFFICES ASSUME TypeOK, TypeOK', Lists, Calls, OneCall, OneCall', Walks, Coming, Ordered,
                    [Next]_vars
             PROVE  Ordered'
  OBVIOUS
<1>a. /\ \A c, d \in Conns, m, n \in Msgs : Precedes(m, n, Log(c)) => ~Precedes(n, m, Log(d))
      /\ \A p \in Posters, c, d \in Conns, m \in Msgs :
           call[p].op = "ForEach" /\ Precedes(call[p].msg, m, Log(c)) /\ m \in ToSet(Log(d))
           => c = d
  BY DEF Ordered
<1>b. \A c \in Conns : \A m, n : Precedes(m, n, Log(c)) => m \in ToSet(Log(c)) /\ n \in ToSet(Log(c))
  BY LogIs, BothThere
<1>c. \A c \in Conns : ToSet(Log(c)) \subseteq Msgs
  BY Sorts
<1>1. CASE Quiet
  <2>1. \A c \in Conns : /\ ToSet(Log(c)') \subseteq ToSet(Log(c))
                         /\ \A m, n : Precedes(m, n, Log(c)') => Precedes(m, n, Log(c))
    BY <1>1, LogsLose
  <2>2. call' = call
    BY <1>1 DEF Quiet
  <2>3. \A c, d \in Conns, m, n \in Msgs : Precedes(m, n, Log(c)') => ~Precedes(n, m, Log(d)')
    BY <1>a, <2>1
  <2>4. \A p \in Posters, c, d \in Conns, m \in Msgs :
          call'[p].op = "ForEach" /\ Precedes(call'[p].msg, m, Log(c)') /\ m \in ToSet(Log(d)')
          => c = d
    BY <1>a, <2>1, <2>2
  <2> QED
    BY <2>3, <2>4 DEF Ordered
<1>2. ASSUME NEW p \in Posters, AddTask(p) PROVE Ordered'
  <2> DEFINE x == call[p].msg
             e == Head(call[p].rest)
  <2>1. /\ x \in Msgs
        /\ \A d \in Conns : /\ ToSet(Log(d)') \subseteq ToSet(Log(d)) \cup {x}
                            /\ \A m, n : Precedes(m, n, Log(d)') =>
                                 \/ Precedes(m, n, Log(d))
                                 \/ d = e /\ n = x /\ m \in ToSet(Log(d))
                            /\ d # e => Log(d)' = Log(d)
    BY <1>2, LogsGrow
  <2>2. /\ call[p] # NoCall
        /\ \/ call'[p] = NoCall
           \/ call'[p].op = call[p].op /\ call'[p].msg = x
        /\ \A q \in Posters : q # p => call'[q] = call[q]
    BY <1>2, AddTaskIs
  <2>3. e \in ToSet(call[p].rest) /\ e \in Conns
    BY <2>2, NextElement
  <2>4. x \notin ToSet(Log(e))
    BY <2>3 DEF OneCall
  <2>5. \A c \in Conns : x \in ToSet(Log(c)) =>
          /\ call[p].op = "ForEach" /\ base[c] = call[p].base /\ base[e] = call[p].base
    <3> SUFFICES ASSUME NEW c \in Conns, x \in ToSet(Log(c))
                 PROVE  call[p].op = "ForEach" /\ base[c] = call[p].base /\ base[e] = call[p].base
      OBVIOUS
    <3>1. call[p].op = "ForEach" /\ base[c] = call[p].base
      BY <2>2 DEF Coming
    <3>2. ~IsOne(call[p])
      BY <3>1 DEF IsOne
    <3> QED
      BY <2>2, <2>3, <3>1, <3>2 DEF Calls, IsForEach
  \* Another broadcast that the connection e has is of the same base: there is none.
  <2>6. \A q \in Posters : q # p /\ call[q] # NoCall /\ call[q].op = "ForEach"
          /\ call[q].msg \in ToSet(Log(e)) => call[p].op # "ForEach"
    <3> SUFFICES ASSUME NEW q \in Posters, q # p, call[q] # NoCall, call[q].op = "ForEach",
                        call[q].msg \in ToSet(Log(e)), call[p].op = "ForEach"
                 PROVE  FALSE
      OBVIOUS
    <3>1. base[e] = call[q].base
      BY <2>3 DEF Coming
    <3>2. ~IsOne(call[p])
      BY DEF IsOne
    <3>3. call[p].base \in Bases /\ base[e] = call[p].base
      BY <2>2, <2>3, <3>2 DEF Calls, IsForEach
    <3>4. Walking(p, base[e]) /\ Walking(q, base[e])
      BY <3>1, <3>3 DEF Walking
    <3> QED
      BY <3>3, <3>4 DEF Walks
  <2>a. call[p].op \in {"ForEach", "One"}
    BY <2>2, NextElement
  <2> HIDE DEF e
  <2>7. PICK w : w = x
    OBVIOUS
  <2>8. ASSUME NEW c \in Conns, NEW d \in Conns, NEW m \in Msgs, NEW n \in Msgs,
               Precedes(m, n, Log(c)'), Precedes(n, m, Log(d)')
        PROVE  FALSE
    <3>1. ASSUME NEW f \in Conns, NEW g \in Conns, NEW k \in Msgs,
                 Precedes(k, x, Log(f)'), Precedes(x, k, Log(g)'), f = e, k \in ToSet(Log(e))
          PROVE  FALSE
      <4>1. Precedes(x, k, Log(g))
        BY <2>1, <2>4, <3>1
      <4>2. x \in ToSet(Log(g))
        BY <1>b, <4>1
      <4>3. call[p].op = "ForEach"
        BY <2>5, <4>2
      <4>4. g = e
        BY <1>a, <2>3, <3>1, <4>1, <4>3
      <4> QED
        BY <2>4, <4>2, <4>4
    <3>2. CASE Precedes(m, n, Log(c)) /\ Precedes(n, m, Log(d))
      BY <1>a, <3>2
    <3>3. CASE c = e /\ n = x /\ m \in ToSet(Log(c))
      BY <2>8, <3>1, <3>3
    <3>4. CASE d = e /\ m = x /\ n \in ToSet(Log(d))
      BY <2>8, <3>1, <3>4
    <3> QED
      BY <2>1, <2>8, <3>2, <3>3, <3>4
  <2>9. ASSUME NEW q \in Posters, NEW c \in Conns, NEW d \in Conns, NEW m \in Msgs,
               call'[q].op = "ForEach", Precedes(call'[q].msg, m, Log(c)'), m \in ToSet(Log(d)')
        PROVE  c = d
    <3>0. None \notin Msgs /\ NoCall.msg = None
      BY Sorts
    <3>1. call'[q].msg \in Msgs
      <4>1. call'[q].msg \in ToSet(Log(c)')
        <5>1. Precedes(call'[q].msg, m, Log(c)) \/ call'[q].msg \in ToSet(Log(c))
          BY <2>1, <2>9
        <5>2. call'[q].msg \in ToSet(Log(c))
          BY <1>b, <5>1
        <5> QED
          BY <1>2, <5>2, LogsGrow
      <4> QED
        BY <1>c, <2>1, <4>1
    <3>2. call[q] # NoCall /\ call'[q].msg = call[q].msg /\ call'[q].op = call[q].op
      BY <2>2, <3>0, <3>1
    <3> DEFINE n == call[q].msg
    <3>3. Precedes(n, m, Log(c)') /\ n \in Msgs /\ call[q].op = "ForEach"
      BY <2>9, <3>1, <3>2
    <3>4. q # p => n # x
      BY <3>2 DEF OneCall
    <3> SUFFICES ASSUME c # d PROVE FALSE
      OBVIOUS
    <3>5. CASE Precedes(n, m, Log(c))
      <4>1. CASE m \in ToSet(Log(d))
        BY <1>a, <3>3, <3>5, <4>1
      <4>2. CASE m = x /\ d = e
        <5>1. x \in ToSet(Log(c)) /\ n \in ToSet(Log(c))
          BY <1>b, <3>5, <4>2
        <5>2. call[p].op = "ForEach" /\ base[c] = base[e]
          BY <2>5, <5>1
        <5>3. CASE q = p
          <6>1. n = x /\ Precedes(x, x, Log(c))
            BY <3>5, <4>2, <5>3
          <6> QED
            BY <1>a, <2>1, <6>1
        <5>4. CASE q # p
          <6>1. base[c] = call[q].base /\ base[c] = call[p].base /\ call[q].op = "ForEach"
            BY <2>5, <3>2, <3>3, <5>1 DEF Coming
          <6>2. ~IsOne(call[p])
            BY <5>2 DEF IsOne
          <6>3. call[p].base \in Bases
            BY <2>2, <6>2 DEF Calls, IsForEach
          <6>4. Walking(p, base[c]) /\ Walking(q, base[c])
            BY <5>2, <6>1 DEF Walking
          <6> QED
            BY <5>4, <6>1, <6>3, <6>4 DEF Walks
        <5> QED
          BY <5>3, <5>4
      <4> QED
        BY <2>1, <2>9, <4>1, <4>2
    <3>6. CASE c = e /\ m = x /\ n \in ToSet(Log(c))
      <4>1. q # p
        BY <2>4, <3>6
      <4>2. call[p].op # "ForEach"
        BY <2>6, <3>2, <3>3, <3>6, <4>1
      <4>3. x \notin ToSet(Log(d))
        BY <2>5, <4>2
      <4> QED
        BY <2>1, <2>9, <3>6, <4>3
    <3> QED
      BY <2>1, <3>3, <3>5, <3>6
  <2> QED
    BY <2>8, <2>9 DEF Ordered
<1>3. ASSUME NEW p \in Posters, NEW m \in Msgs, Begins(p, m) PROVE Ordered'
  <2>1. /\ m \in unposted /\ UNCHANGED poolVars
        /\ \A q \in Posters : q # p => call'[q] = call[q]
        /\ call'[p] = NoCall \/ call'[p].msg = m
    BY <1>3 DEF Begins
  <2>2. \A c \in Conns : Log(c)' = Log(c) /\ m \notin ToSet(Log(c))
    BY <2>1, LogsSame DEF OneCall
  <2>3. \A c \in Conns : None \notin ToSet(Log(c)) /\ NoCall.msg = None
    BY Sorts
  <2>4. \A q \in Posters, c \in Conns : \A n : Precedes(call'[q].msg, n, Log(c)) => call'[q] = call[q]
    BY <1>b, <2>1, <2>2, <2>3
  <2>5. \A c, d \in Conns, k, n \in Msgs : Precedes(k, n, Log(c)') => ~Precedes(n, k, Log(d)')
    BY <1>a, <2>2
  <2>6. \A q \in Posters, c, d \in Conns, n \in Msgs :
          call'[q].op = "ForEach" /\ Precedes(call'[q].msg, n, Log(c)') /\ n \in ToSet(Log(d)')
          => c = d
    <3> SUFFICES ASSUME NEW q \in Posters, NEW c \in Conns, NEW d \in Conns, NEW n \in Msgs,
                        call'[q].op = "ForEach", Precedes(call'[q].msg, n, Log(c)'),
                        n \in ToSet(Log(d)')
                 PROVE  c = d
      OBVIOUS
    <3>1. /\ Precedes(call'[q].msg, n, Log(c)) /\ n \in ToSet(Log(d))
      BY <2>2
    <3>2. call'[q] = call[q]
      BY <2>4, <3>1
    <3> QED
      BY <1>a, <3>1, <3>2
  <2> QED
    BY <2>5, <2>6 DEF Ordered
<1> QED
  BY <1>1, <1>2, <1>3, Steps, PostsBegin

LEMMA ReachedStep ==
  TypeOK /\ TypeOK' /\ Lists /\ Calls /\ OneCall /\ Reached /\ [Next]_vars => Reached'
<1> SUFFICES ASSUME TypeOK, TypeOK', Lists, Calls, OneCall, Reached, [Next]_vars PROVE Reached'
  OBVIOUS
<1>a. \A m \in Msgs : told[m] \subseteq Conns
  BY DEF TypeOK
<1>b. ToSet(NoCall.rest) = {}
  BY Sorts
<1>1. CASE Quiet
  <2>1. /\ call' = call /\ (corrupt => corrupt')
        /\ \A m \in Msgs : told'[m] \subseteq told[m]
        /\ \A c \in Conns : at[c] = "attached" =>
             \/ at'[c] = "attached" /\ ToSet(Log(c)') = ToSet(Log(c))
             \/ \A m \in Msgs : c \notin told'[m]
    BY <1>1 DEF Quiet
  <2>2. ASSUME NEW m \in Msgs, NEW c \in told'[m]
        PROVE  /\ at'[c] = "attached"
               /\ corrupt' \/ m \in ToSet(Log(c)')
                  \/ \E p \in Posters : call'[p].msg = m /\ c \in ToSet(call'[p].rest)
    <3>1. c \in told[m] /\ c \in Conns
      BY <1>a, <2>1
    <3>2. at'[c] = "attached" /\ ToSet(Log(c)') = ToSet(Log(c))
      BY <2>1, <3>1 DEF Reached
    <3> QED
      BY <2>1, <3>1, <3>2 DEF Reached
  <2> QED
    BY <2>2 DEF Reached
<1>2. ASSUME NEW p \in Posters, AddTask(p) PROVE Reached'
  <2>1. /\ call[p] # NoCall /\ at' = at /\ told' = told /\ ~corrupt
        /\ \/ call'[p] = NoCall /\ Tail(call[p].rest) = <<>>
           \/ call'[p].msg = call[p].msg /\ call'[p].rest = Tail(call[p].rest)
        /\ \A q \in Posters : q # p => call'[q] = call[q]
    BY <1>2, AddTaskIs
  <2>2. /\ ToSet(Tail(call[p].rest)) = ToSet(call[p].rest) \ {Head(call[p].rest)}
        /\ ToSet(<<>>) = {}
    BY <2>1, NextElement, Sorts
  <2>3. \A c \in Conns :
          /\ ToSet(Log(c)) \subseteq ToSet(Log(c)')
          /\ c = Head(call[p].rest) => corrupt' \/ call[p].msg \in ToSet(Log(c)')
    BY <1>2, LogsGrow
  <2>4. ASSUME NEW m \in Msgs, NEW c \in told'[m]
        PROVE  /\ at'[c] = "attached"
               /\ corrupt' \/ m \in ToSet(Log(c)')
                  \/ \E q \in Posters : call'[q].msg = m /\ c \in ToSet(call'[q].rest)
    <3>1. c \in told[m] /\ c \in Conns /\ at'[c] = "attached"
      BY <1>a, <2>1 DEF Reached
    <3>2. CASE m \in ToSet(Log(c))
      BY <2>3, <3>1, <3>2
    <3>3. ASSUME NEW q \in Posters, call[q].msg = m, c \in ToSet(call[q].rest), q # p
          PROVE  \E s \in Posters : call'[s].msg = m /\ c \in ToSet(call'[s].rest)
      BY <2>1, <3>3
    <3>4. CASE call[p].msg = m /\ c \in ToSet(call[p].rest)
      <4>1. CASE c = Head(call[p].rest)
        BY <2>3, <3>1, <3>4, <4>1
      <4>2. CASE c # Head(call[p].rest)
        <5>1. c \in ToSet(Tail(call[p].rest))
          BY <2>2, <3>4, <4>2
        <5>2. call'[p].msg = m /\ c \in ToSet(call'[p].rest)
          BY <2>1, <2>2, <3>4, <5>1
        <5> QED
          BY <3>1, <5>2
      <4> QED
        BY <4>1, <4>2
    <3>5. m \in ToSet(Log(c)) \/ \E q \in Posters : call[q].msg = m /\ c \in ToSet(call[q].rest)
      BY <2>1, <3>1 DEF Reached
    <3> QED
      BY <3>1, <3>2, <3>3, <3>4, <3>5
  <2> QED
    BY <2>4 DEF Reached
<1>c. ASSUME NEW p \in Posters, NEW m \in Msgs, Begins(p, m), NEW n \in Msgs, NEW c \in told[n]
      PROVE  /\ at'[c] = "attached"
             /\ corrupt' \/ n \in ToSet(Log(c)')
                \/ \E q \in Posters : call'[q].msg = n /\ c \in ToSet(call'[q].rest)
  <2>1. /\ call[p] = NoCall /\ UNCHANGED <<at, poolVars, corrupt>>
        /\ \A q \in Posters : q # p => call'[q] = call[q]
    BY <1>c DEF Begins
  <2>2. c \in Conns /\ Log(c)' = Log(c)
    BY <1>a, <2>1, LogsSame
  <2> QED
    BY <1>b, <2>1, <2>2 DEF Reached
<1>3. ASSUME NEW p \in Posters, NEW b \in Bases, NEW m \in Msgs, PostDataToAllConns(p, b, m)
      PROVE  Reached'
  <2>1. Begins(p, m)
    BY <1>3, PostsBegin
  <2>2. /\ told'[m] = ToSet(m_conns[b]) /\ \A n \in Msgs : n # m => told'[n] = told[n]
        /\ at' = at /\ \A c \in ToSet(m_conns[b]) : at[c] = "attached"
        /\ \/ m_conns[b] = <<>>
           \/ call'[p].msg = m /\ call'[p].rest = m_conns[b]
    BY <1>3, ForEachIs
  <2>3. ToSet(<<>>) = {}
    BY Sorts
  <2> QED
    BY <1>c, <2>1, <2>2, <2>3 DEF Reached
<1>4. ASSUME NEW p \in Posters, NEW c \in Conns, NEW m \in Msgs, PostDataToOneConn(p, c, m)
      PROVE  Reached'
  <2>1. Begins(p, m)
    BY <1>4, PostsBegin
  <2>2. told' = told
    BY <1>4, OneIs
  <2> QED
    BY <1>c, <2>1, <2>2 DEF Reached
<1> QED
  BY <1>1, <1>2, <1>3, <1>4, Steps

----------------------------------------------------------------------------
(* The theorems.                                                           *)

LEMMA InvInit == Init => Inv
  BY TypeInit, ListsInit, CallsInit, WalksInit, MessagesInit DEF Inv

LEMMA InvStep == Inv /\ [Next]_vars => Inv'
<1> SUFFICES ASSUME Inv, [Next]_vars PROVE Inv'
  OBVIOUS
<1>1. TypeOK /\ Lists /\ Calls /\ Walks /\ OneCall /\ Coming /\ Ordered /\ Reached
  BY DEF Inv
<1>2. TypeOK' /\ Lists' /\ Calls' /\ Walks'
  BY <1>1, TypeStep, ListsStep, CallsStep, WalksStep
<1>3. OneCall'
  BY <1>1, <1>2, OneCallStep
<1>4. Coming' /\ Ordered' /\ Reached'
  BY <1>1, <1>2, <1>3, ComingStep, OrderedStep, ReachedStep
<1> QED
  BY <1>2, <1>3, <1>4 DEF Inv

\* Inv is an invariant, as no step of a loop, a worker or a poster breaks it.
THEOREM Invariant == Spec => []Inv
  BY InvInit, InvStep, PTL DEF Spec

\* Until a base's loop clears its list, the list has each attached connection of
\* the base once and nothing else (AddConn, RemoveConn, Clear).
THEOREM ListsAlwaysMatch == Spec => []ListsMatch
<1>1. Inv => ListsMatch
  <2> SUFFICES ASSUME Inv, NEW b \in Bases, loop[b] = "while"
               PROVE  /\ \A i, j \in DOMAIN m_conns[b] : m_conns[b][i] = m_conns[b][j] => i = j
                      /\ ToSet(m_conns[b]) = {c \in Conns : base[c] = b /\ at[c] = "attached"}
    BY DEF Inv, ListsMatch
  <2>1. Once(m_conns[b]) /\ ToSet(m_conns[b]) \subseteq Conns
    BY ListElements DEF Inv, Lists
  <2>2. \A c \in Conns : c \in ToSet(m_conns[b]) <=> base[c] = b /\ at[c] = "attached"
    BY DEF Inv, Lists
  <2> QED
    BY <2>1, <2>2 DEF Once
<1> QED
  BY <1>1, Invariant, PTL

\* A broadcast finds the element it has come to in the list, and its channel
\* alive, as long as the base loops (ForEach, RemoveConn before m_channel).
THEOREM WalksAreSafe == Spec => []WalkSafe
<1>1. Inv => WalkSafe
  <2> SUFFICES ASSUME Inv, NEW p \in Posters, call[p].op = "ForEach", call[p].rest # <<>>,
                      loop[call[p].base] = "while"
               PROVE  /\ Head(call[p].rest) \in ToSet(m_conns[call[p].base])
                      /\ HasChannel(Head(call[p].rest))
    BY DEF WalkSafe
  <2>1. call[p] # NoCall
    BY DEF NoCall
  <2>2. IsForEach(call[p])
    BY <2>1 DEF Inv, Calls, IsOne
  <2>3. call[p].base \in Bases /\ Walking(p, call[p].base)
    BY <2>2 DEF IsForEach, Walking
  <2>4. Head(call[p].rest) \in ToSet(call[p].rest)
    BY <2>1, NextElement DEF Inv
  <2>5. Head(call[p].rest) \in ToSet(m_conns[call[p].base])
    BY <2>3, <2>4 DEF Inv, Walks
  <2>6. at[Head(call[p].rest)] = "attached"
    BY <2>3, <2>5 DEF Inv, Lists
  <2> QED
    BY <2>5, <2>6 DEF HasChannel
<1> QED
  BY <1>1, Invariant, PTL

\* Every connection that is in the list when a broadcast begins gets it once,
\* and any two connections get them in the same order.
THEOREM BroadcastsInOneOrder == Spec => []OneOrder
<1>1. Inv => OneOrder
  <2> SUFFICES ASSUME Inv PROVE OneOrder
    OBVIOUS
  <2>1. ASSUME NEW m \in Msgs, NEW c \in Conns, c \in told[m], ~corrupt,
               \A p \in Posters : call[p].msg # m
        PROVE  Cardinality({i \in DOMAIN Log(c) : Log(c)[i] = m}) = 1
    <3>1. m \in ToSet(Log(c))
      BY <2>1 DEF Inv, Reached
    <3>2. Once(Log(c))
      BY DEF Inv, OneCall
    <3>3. PICK i \in DOMAIN Log(c) : Log(c)[i] = m
      BY <3>1 DEF ToSet
    <3>4. {j \in DOMAIN Log(c) : Log(c)[j] = m} = {i}
      BY <3>2, <3>3 DEF Once
    <3> QED
      BY <3>4, FS_Singleton
  <2>2. \A c, d \in Conns, m, n \in Msgs : Precedes(m, n, Log(c)) => ~Precedes(n, m, Log(d))
    BY DEF Inv, Ordered
  <2> QED
    BY <2>1, <2>2 DEF OneOrder
<1> QED
  BY <1>1, Invariant, PTL
=============================================================================
