--------------------------- MODULE Reactor_proof ---------------------------
(***************************************************************************)
(* Proofs about Reactor, for any connections, sockets and messages.        *)
(*                                                                         *)
(* The invariant is built in four layers, each of which uses the ones      *)
(* before it:                                                              *)
(*   Types     what the variables and the frames of the call stack are;    *)
(*   InTurn    what was delivered, received and sent, in one sequence;     *)
(*   Places    where each connection is (accept queue, task, channel), and *)
(*             the poller's list and iterator with it;                     *)
(*   Lives     a connection's state against its flags, the lists it is in, *)
(*             what its user heard and its frames on the stack.            *)
(* From them follow, one by one, the properties of the loop; the select    *)
(* sets and the countdown of ready sockets need an invariant more each.    *)
(***************************************************************************)
EXTENDS Reactor, Integers, SequenceTheorems, FiniteSetTheorems, WellFoundedInduction, TLAPS

----------------------------------------------------------------------------
(* Facts about lists, whose elements are found and erased.                 *)

\* A set of numbers that is not empty has a least.
LEMMA LeastNatural ==
  ASSUME NEW T \in SUBSET Nat, T # {}
  PROVE  \E x \in T : \A y \in T : x <= y
<1> DEFINE R == {p \in Nat \X Nat : p[1] < p[2]}
<1>1. IsWellFoundedOn(R, Nat)
  BY NatLessThanWellFounded DEF OpToRel
<1>2. \A x, y \in Nat : y < x => <<y, x>> \in R
  OBVIOUS
<1> HIDE DEF R
<1>3. PICK x \in T : \A y \in T : <<y, x>> \notin R
  BY <1>1, WFMin
<1>4. \A y \in T : ~(y < x)
  BY <1>2, <1>3
<1> QED
  BY <1>3, <1>4

----------------------------------------------------------------------------

\* Every element is in the list once.
Once(s) == \A i, j \in DOMAIN s : s[i] = s[j] => i = j

\* Where an element is, 0 if nowhere.
Place(s, x) == SelectInSeq(s, LAMBDA y : y = x)

\* What the place of an element says of the list.
LEMMA PlaceIs ==
  ASSUME NEW S, NEW s \in Seq(S), NEW x
  PROVE  /\ Place(s, x) \in 0 .. Len(s)
         /\ Place(s, x) = 0 <=> x \notin ToSet(s)
         /\ x \in ToSet(s) => s[Place(s, x)] = x
<1> DEFINE I == {i \in 1 .. Len(s) : s[i] = x}
           m == Place(s, x)
<1>1. m = IF I # {} THEN CHOOSE i \in I : \A j \in I : i <= j ELSE 0
  BY DEF Place, SelectInSeq, Min
<1>2. I \subseteq Nat /\ Len(s) \in Nat
  OBVIOUS
<1>3. CASE I = {}
  BY <1>1, <1>2, <1>3 DEF ToSet
<1>4. CASE I # {}
  <2>1. \E i \in I : \A j \in I : i <= j
    BY <1>2, <1>4, LeastNatural
  <2>2. m \in I
    BY <1>1, <1>4, <2>1
  <2> QED
    BY <2>2, <1>2 DEF ToSet
<1> QED
  BY <1>3, <1>4

\* In a list without repetitions the place is the only one.
LEMMA OnlyPlace ==
  ASSUME NEW S, NEW s \in Seq(S), Once(s), NEW k \in DOMAIN s
  PROVE  Place(s, s[k]) = k
<1>1. s[k] \in ToSet(s)
  BY DEF ToSet
<1>2. Place(s, s[k]) \in DOMAIN s /\ s[Place(s, s[k])] = s[k]
  BY <1>1, PlaceIs
<1> QED
  BY <1>2 DEF Once

\* An element taken out.
LEMMA RemovedAt ==
  ASSUME NEW S, NEW s \in Seq(S), NEW i \in 1 .. Len(s)
  PROVE  /\ RemoveAt(s, i) \in Seq(S)
         /\ Len(RemoveAt(s, i)) = Len(s) - 1
         /\ \A k \in 1 .. Len(s) - 1 : RemoveAt(s, i)[k] = IF k < i THEN s[k] ELSE s[k + 1]
<1> DEFINE n == Len(s)
           p == SubSeq(s, 1, i - 1)
           r == SubSeq(s, i + 1, n)
<1>1. n \in Nat /\ i \in Nat /\ 1 <= i /\ i <= n /\ \A k \in 1 .. n : s[k] \in S
  OBVIOUS
<1>2. /\ p \in Seq(S) /\ Len(p) = i - 1
      /\ \A k \in 1 .. i - 1 : p[k] = s[k]
  <2>1. \A k \in 1 .. i - 1 : s[k] \in S
    BY <1>1
  <2>2. p \in Seq(S) /\ Len(p) = (IF 1 <= i - 1 THEN i - 1 - 1 + 1 ELSE 0)
        /\ \A k \in 1 .. i - 1 - 1 + 1 : p[k] = s[1 + k - 1]
    BY <1>1, <2>1, SubSeqProperties
  <2> HIDE DEF p
  <2> QED
    BY <1>1, <2>2
<1>3. /\ r \in Seq(S) /\ Len(r) = n - i
      /\ \A k \in 1 .. n - i : r[k] = s[i + k]
  <2>1. \A k \in i + 1 .. n : s[k] \in S
    BY <1>1
  <2>2. r \in Seq(S) /\ Len(r) = (IF i + 1 <= n THEN n - (i + 1) + 1 ELSE 0)
        /\ \A k \in 1 .. n - (i + 1) + 1 : r[k] = s[i + 1 + k - 1]
    BY <1>1, <2>1, SubSeqProperties
  <2> HIDE DEF r, n
  <2> QED
    BY <1>1, <2>2
<1>4. RemoveAt(s, i) = p \o r
  BY DEF RemoveAt
<1> HIDE DEF p, r, n
<1>5. /\ p \o r \in Seq(S) /\ Len(p \o r) = n - 1
      /\ \A k \in 1 .. n - 1 : (p \o r)[k] = IF k <= i - 1 THEN p[k] ELSE r[k - (i - 1)]
  BY <1>1, <1>2, <1>3, ConcatProperties
<1>6. \A k \in 1 .. n - 1 : (p \o r)[k] = IF k < i THEN s[k] ELSE s[k + 1]
  <2> SUFFICES ASSUME NEW k \in 1 .. n - 1
               PROVE  (p \o r)[k] = IF k < i THEN s[k] ELSE s[k + 1]
    OBVIOUS
  <2>1. CASE k < i
    <3>1. k \in 1 .. i - 1 /\ k <= i - 1
      BY <1>1, <2>1
    <3> QED
      BY <1>2, <1>5, <2>1, <3>1
  <2>2. CASE ~(k < i)
    <3>1. k - (i - 1) \in 1 .. n - i /\ i + (k - (i - 1)) = k + 1 /\ ~(k <= i - 1)
      BY <1>1, <2>2
    <3>2. r[k - (i - 1)] = s[k + 1]
      BY <1>3, <3>1
    <3> QED
      BY <1>5, <2>2, <3>1, <3>2
  <2> QED
    BY <2>1, <2>2
<1> QED
  BY <1>4, <1>5, <1>6 DEF n

\* list::remove, in a list without repetitions.
LEMMA RemoveIs ==
  ASSUME NEW S, NEW s \in Seq(S), Once(s), NEW x
  PROVE  /\ RemoveFirst(s, x) \in Seq(S) /\ Once(RemoveFirst(s, x))
         /\ ToSet(RemoveFirst(s, x)) = ToSet(s) \ {x}
         /\ Len(RemoveFirst(s, x)) <= Len(s)
<1>1. CASE x \notin ToSet(s)
  <2>1. RemoveFirst(s, x) = s
    BY <1>1 DEF RemoveFirst, ToSet
  <2> QED
    BY <1>1, <2>1
<1>2. CASE x \in ToSet(s)
  <2> DEFINE i == Place(s, x)
             t == RemoveFirst(s, x)
             n == Len(s)
  <2>1. i \in 1 .. n /\ s[i] = x /\ n \in Nat
    BY <1>2, PlaceIs
  <2>2. t = RemoveAt(s, i)
    BY <1>2 DEF RemoveFirst, ToSet, Place
  <2>3. t \in Seq(S) /\ Len(t) = n - 1
        /\ \A k \in 1 .. n - 1 : t[k] = IF k < i THEN s[k] ELSE s[k + 1]
    BY <2>1, <2>2, RemovedAt
  <2>4. DOMAIN t = 1 .. n - 1 /\ DOMAIN s = 1 .. n
    BY <2>3
  <2> HIDE DEF i, t, n
  <2> DEFINE from(k) == IF k < i THEN k ELSE k + 1
  <2>0. \A k \in 1 .. n - 1 : /\ from(k) \in 1 .. n /\ from(k) # i
                             /\ t[k] = s[from(k)]
    BY <2>1, <2>3
  <2>a. \A j, k \in 1 .. n - 1 : from(j) = from(k) => j = k
    BY <2>1
  <2> HIDE DEF from
  <2>5. Once(t)
    BY <2>0, <2>a, <2>4 DEF Once
  <2>6. \A k \in 1 .. n - 1 : t[k] \in ToSet(s) /\ t[k] # x
    BY <2>0, <2>1, <2>4 DEF Once, ToSet
  <2>7. \A k \in 1 .. n : s[k] # x => s[k] \in ToSet(t)
    <3> SUFFICES ASSUME NEW k \in 1 .. n, s[k] # x PROVE s[k] \in ToSet(t)
      OBVIOUS
    <3>1. k # i
      BY <2>1
    <3>2. CASE k < i
      BY <2>1, <2>3, <2>4, <3>2 DEF ToSet
    <3>3. CASE k > i
      <4>1. k - 1 \in 1 .. n - 1 /\ t[k - 1] = s[k]
        BY <2>1, <2>3, <3>3
      <4> QED
        BY <2>4, <4>1 DEF ToSet
    <3> QED
      BY <2>1, <3>1, <3>2, <3>3
  <2>8. ToSet(t) = ToSet(s) \ {x}
    BY <2>4, <2>6, <2>7 DEF ToSet
  <2> QED
    BY <2>1, <2>3, <2>5, <2>8 DEF t, n
<1> QED
  BY <1>1, <1>2

\* emplace_back of an element that is not in the list.
LEMMA AppendIsOnce ==
  ASSUME NEW S, NEW s \in Seq(S), Once(s), NEW x \in S, x \notin ToSet(s)
  PROVE  /\ Append(s, x) \in Seq(S) /\ Once(Append(s, x))
         /\ ToSet(Append(s, x)) = ToSet(s) \cup {x}
<1> DEFINE t == Append(s, x)
           n == Len(s)
<1>1. /\ t \in Seq(S) /\ Len(t) = n + 1 /\ n \in Nat /\ t[n + 1] = x
      /\ \A i \in 1 .. n : t[i] = s[i]
  BY AppendProperties
<1>2. DOMAIN t = 1 .. n + 1 /\ DOMAIN s = 1 .. n
  BY <1>1
<1> HIDE DEF t, n
<1>3. ToSet(t) = ToSet(s) \cup {x}
  BY <1>1, <1>2 DEF ToSet
<1>4. Once(t)
  BY <1>1, <1>2 DEF Once, ToSet
<1> QED
  BY <1>1, <1>3, <1>4 DEF t
\* Where the others are after a removal.
LEMMA PlacesAfterRemoval ==
  ASSUME NEW S, NEW s \in Seq(S), Once(s), NEW c \in ToSet(s), NEW y \in ToSet(s), y # c
  PROVE  /\ Place(s, y) # Place(s, c)
         /\ Place(RemoveFirst(s, c), y) = IF Place(s, y) < Place(s, c) THEN Place(s, y)
                                                                    ELSE Place(s, y) - 1
<1> DEFINE i == Place(s, c)
           k == Place(s, y)
           t == RemoveFirst(s, c)
<1>1. /\ i \in 1 .. Len(s) /\ k \in 1 .. Len(s) /\ s[i] = c /\ s[k] = y /\ Len(s) \in Nat
      /\ DOMAIN s = 1 .. Len(s)
  BY PlaceIs
<1>2. i # k
  BY <1>1
<1>3. t = RemoveAt(s, i)
  BY <1>1 DEF RemoveFirst, Place
<1>4. /\ t \in Seq(S) /\ Len(t) = Len(s) - 1 /\ Once(t)
      /\ \A j \in 1 .. Len(s) - 1 : t[j] = IF j < i THEN s[j] ELSE s[j + 1]
  BY <1>1, <1>3, RemovedAt, RemoveIs
<1> HIDE DEF i, k, t
<1>5. CASE k < i
  <2>1. k \in 1 .. Len(s) - 1 /\ t[k] = y
    BY <1>1, <1>4, <1>5
  <2>2. k \in DOMAIN t
    BY <1>1, <1>4, <2>1
  <2>3. Place(t, y) = k
    BY <1>4, <2>1, <2>2, OnlyPlace
  <2> QED
    BY <1>2, <1>5, <2>3 DEF i, k, t
<1>6. CASE ~(k < i)
  <2>1. k - 1 \in 1 .. Len(s) - 1 /\ ~(k - 1 < i) /\ (k - 1) + 1 = k
    BY <1>1, <1>2, <1>6
  <2>2. t[k - 1] = y
    BY <1>1, <1>4, <2>1
  <2>3. k - 1 \in DOMAIN t
    BY <1>1, <1>4, <2>1
  <2>4. Place(t, y) = k - 1
    BY <1>4, <2>2, <2>3, OnlyPlace
  <2> QED
    BY <1>2, <1>6, <2>4 DEF i, k, t
<1> QED
  BY <1>5, <1>6

\* Where the others and the new element are after emplace_back.
LEMMA PlacesAfterAppend ==
  ASSUME NEW S, NEW s \in Seq(S), Once(s), NEW x \in S, x \notin ToSet(s)
  PROVE  /\ Place(Append(s, x), x) = Len(s) + 1
         /\ \A y \in ToSet(s) : /\ Place(Append(s, x), y) = Place(s, y)
                               /\ Place(s, y) \in 1 .. Len(s)
<1> DEFINE t == Append(s, x)
<1>1. /\ t \in Seq(S) /\ Len(t) = Len(s) + 1 /\ t[Len(s) + 1] = x
      /\ \A j \in 1 .. Len(s) : t[j] = s[j]
  BY AppendProperties
<1>2. Once(t) /\ Len(s) \in Nat
  BY AppendIsOnce
<1> HIDE DEF t
<1>3. DOMAIN t = 1 .. Len(s) + 1
  BY <1>1, <1>2
<1>4. Place(t, x) = Len(s) + 1
  <2>1. Len(s) + 1 \in DOMAIN t
    BY <1>2, <1>3
  <2> QED
    BY <1>1, <1>2, <2>1, OnlyPlace
<1>5. ASSUME NEW y \in ToSet(s)
      PROVE  Place(t, y) = Place(s, y) /\ Place(s, y) \in 1 .. Len(s)
  <2>1. Place(s, y) \in 1 .. Len(s) /\ s[Place(s, y)] = y
    BY PlaceIs
  <2>2. Place(s, y) \in DOMAIN t /\ t[Place(s, y)] = y
    BY <1>1, <1>2, <1>3, <2>1
  <2> QED
    BY <1>1, <1>2, <2>1, <2>2, OnlyPlace
<1> QED
  BY <1>4, <1>5 DEF t

\* pop_front, in a list without repetitions.
LEMMA TailIsOnce ==
  ASSUME NEW S, NEW s \in Seq(S), s # <<>>, Once(s)
  PROVE  /\ Tail(s) \in Seq(S) /\ Head(s) \in S /\ Head(s) \in ToSet(s) /\ Once(Tail(s))
         /\ ToSet(Tail(s)) = ToSet(s) \ {Head(s)}
<1> DEFINE t == Tail(s)
           n == Len(s)
<1>1. /\ t \in Seq(S) /\ Len(t) = n - 1 /\ n \in Nat \ {0} /\ Head(s) = s[1] /\ s[1] \in S
      /\ \A k \in 1 .. n - 1 : t[k] = s[k + 1]
  BY HeadTailProperties
<1>2. DOMAIN s = 1 .. n /\ DOMAIN t = 1 .. n - 1
  BY <1>1
<1> HIDE DEF t, n
<1>3. \A k \in 1 .. n - 1 : k + 1 \in 1 .. n /\ k + 1 # 1
  BY <1>1
<1>4. Once(t)
  <2> SUFFICES ASSUME NEW j \in 1 .. n - 1, NEW k \in 1 .. n - 1, t[j] = t[k]
               PROVE  j = k
    BY <1>2 DEF Once
  <2>1. s[j + 1] = s[k + 1] /\ j + 1 \in DOMAIN s /\ k + 1 \in DOMAIN s
    BY <1>1, <1>2, <1>3
  <2>2. j + 1 = k + 1
    BY <2>1 DEF Once
  <2> QED
    BY <1>1, <2>2
<1>5. \A k \in 1 .. n - 1 : t[k] \in ToSet(s) /\ t[k] # s[1]
  <2> SUFFICES ASSUME NEW k \in 1 .. n - 1
               PROVE  t[k] \in ToSet(s) /\ t[k] # s[1]
    OBVIOUS
  <2>1. k + 1 \in DOMAIN s /\ 1 \in DOMAIN s /\ k + 1 # 1 /\ t[k] = s[k + 1]
    BY <1>1, <1>2, <1>3
  <2> QED
    BY <2>1 DEF ToSet, Once
<1>6. \A k \in 1 .. n : k = 1 \/ s[k] \in ToSet(t)
  <2> SUFFICES ASSUME NEW k \in 1 .. n, k # 1
               PROVE  s[k] \in ToSet(t)
    OBVIOUS
  <2>1. k - 1 \in 1 .. n - 1 /\ t[k - 1] = s[k]
    BY <1>1
  <2> QED
    BY <1>2, <2>1 DEF ToSet
<1>7. /\ \A x : x \in ToSet(s) <=> \E k \in 1 .. n : x = s[k]
      /\ \A x : x \in ToSet(t) <=> \E k \in 1 .. n - 1 : x = t[k]
  BY <1>2 DEF ToSet
<1>8. s[1] \in ToSet(s)
  BY <1>1, <1>7
<1>9. ToSet(t) = ToSet(s) \ {s[1]}
  BY <1>5, <1>6, <1>7, <1>8
<1> QED
  BY <1>1, <1>4, <1>8, <1>9 DEF t

----------------------------------------------------------------------------
(* A list used as a stack, its head the top.                               *)

\* The top taken off.
LEMMA TailIs ==
  ASSUME NEW S, NEW s \in Seq(S), s # <<>>
  PROVE  /\ Len(s) \in Nat \ {0} /\ s[1] \in S /\ Head(s) = s[1] /\ s[1] \in ToSet(s)
         /\ Tail(s) \in Seq(S) /\ Len(Tail(s)) = Len(s) - 1
         /\ \A k \in 1 .. Len(s) - 1 : Tail(s)[k] = s[k + 1]
         /\ \A x \in ToSet(Tail(s)) : x \in ToSet(s)
<1>1. /\ Len(s) \in Nat \ {0} /\ s[1] \in S /\ Head(s) = s[1] /\ 1 \in DOMAIN s
      /\ DOMAIN s = 1 .. Len(s)
  OBVIOUS
<1>2. /\ Tail(s) \in Seq(S) /\ Len(Tail(s)) = Len(s) - 1
      /\ \A k \in 1 .. Len(s) - 1 : Tail(s)[k] = s[k + 1]
  BY HeadTailProperties
<1>3. DOMAIN Tail(s) = 1 .. Len(s) - 1
  BY <1>2
<1>4. \A k \in 1 .. Len(s) - 1 : k + 1 \in DOMAIN s
  BY <1>1
<1>5. \A x \in ToSet(Tail(s)) : x \in ToSet(s)
  BY <1>2, <1>3, <1>4 DEF ToSet
<1> QED
  BY <1>1, <1>2, <1>5 DEF ToSet

\* The top replaced by another element.
LEMMA TopIs ==
  ASSUME NEW S, NEW s \in Seq(S), s # <<>>, NEW x \in S
  PROVE  LET t == <<x>> \o Tail(s)
         IN  /\ t \in Seq(S) /\ Len(t) = Len(s) /\ t # <<>> /\ t[1] = x
             /\ \A k \in 2 .. Len(s) : t[k] = s[k]
             /\ \A y \in ToSet(t) : y = x \/ y \in ToSet(Tail(s))
             /\ x \in ToSet(t) /\ \A y \in ToSet(Tail(s)) : y \in ToSet(t)
<1> DEFINE p == <<x>>
           r == Tail(s)
           t == p \o r
           n == Len(s)
<1>1. /\ n \in Nat \ {0} /\ r \in Seq(S) /\ Len(r) = n - 1 /\ DOMAIN r = 1 .. n - 1
      /\ \A k \in 1 .. n - 1 : r[k] = s[k + 1]
  BY TailIs
<1>2. p \in Seq(S) /\ Len(p) = 1 /\ p[1] = x
  OBVIOUS
<1> HIDE DEF p, r
<1>a. Len(p) + Len(r) = n
  BY <1>1, <1>2
<1> HIDE DEF n
<1>3. /\ t \in Seq(S) /\ Len(t) = n
      /\ \A k \in 1 .. n : t[k] = IF k <= Len(p) THEN p[k] ELSE r[k - Len(p)]
  BY <1>1, <1>2, <1>a, ConcatProperties
<1> HIDE DEF t
<1>4. t[1] = x /\ t # <<>> /\ DOMAIN t = 1 .. n
  BY <1>1, <1>2, <1>3
<1>5. \A k \in 2 .. n : t[k] = r[k - 1] /\ k - 1 \in 1 .. n - 1 /\ t[k] = s[k]
  BY <1>1, <1>2, <1>3
<1>6. \A k \in 1 .. n - 1 : k + 1 \in 1 .. n /\ t[k + 1] = r[k]
  BY <1>1, <1>2, <1>3
<1>7. /\ \A y \in ToSet(t) : y = x \/ y \in ToSet(r)
      /\ x \in ToSet(t)
      /\ \A y \in ToSet(r) : y \in ToSet(t)
  <2>1. \A k \in 1 .. n : k = 1 \/ k \in 2 .. n
    BY <1>1
  <2>2. 1 \in 1 .. n
    BY <1>1
  <2>3. \A k \in 1 .. n : t[k] = x \/ t[k] \in ToSet(r)
    BY <1>1, <1>4, <1>5, <2>1 DEF ToSet
  <2>4. \A y \in ToSet(t) : y = x \/ y \in ToSet(r)
    <3>1. \A y \in ToSet(t) : \E k \in 1 .. n : y = t[k]
      BY <1>4 DEF ToSet
    <3> QED
      BY <2>3, <3>1
  <2>5. x \in ToSet(t)
    BY <1>4, <2>2 DEF ToSet
  <2>6. \A y \in ToSet(r) : y \in ToSet(t)
    <3>1. \A y \in ToSet(r) : \E k \in 1 .. n - 1 : y = r[k]
      BY <1>1 DEF ToSet
    <3>2. \A k \in 1 .. n : t[k] \in ToSet(t)
      BY <1>4 DEF ToSet
    <3> QED
      BY <1>6, <3>1, <3>2
  <2> QED
    BY <2>4, <2>5, <2>6
<1> QED
  BY <1>3, <1>4, <1>5, <1>7 DEF t, p, r, n

\* The ways to write two elements on a list.
LEMMA Joined ==
  ASSUME NEW S, NEW s \in Seq(S), s # <<>>, NEW x \in S, NEW z \in S
  PROVE  /\ <<x>> \o (<<z>> \o Tail(s)) = <<x, z>> \o Tail(s)
         /\ <<x>> \o <<z>> \o Tail(s) = <<x, z>> \o Tail(s)
         /\ <<>> \o Tail(s) = Tail(s)
         /\ <<>> \o <<z>> \o Tail(s) = <<z>> \o Tail(s)
<1> DEFINE p == <<x, z>>
           r == Tail(s)
<1>1. r \in Seq(S)
  BY TailIs
<1>2. p \in Seq(S) /\ Len(p) = 2 /\ p[1] = x /\ p[2] = z
  OBVIOUS
<1>3. <<x>> \in Seq(S) /\ <<z>> \in Seq(S) /\ <<>> \in Seq(S)
  OBVIOUS
<1>b. <<x>> \o <<z>> = p
  <2>1. /\ Len(<<x>>) = 1 /\ Len(<<z>>) = 1 /\ <<x>>[1] = x /\ <<z>>[1] = z
    OBVIOUS
  <2>2. /\ <<x>> \o <<z>> \in Seq(S) /\ Len(<<x>> \o <<z>>) = 2
        /\ \A i \in 1 .. 2 : (<<x>> \o <<z>>)[i] = IF i <= 1 THEN <<x>>[i] ELSE <<z>>[i - 1]
    BY <1>3, <2>1, ConcatProperties
  <2>3. (<<x>> \o <<z>>)[1] = x /\ (<<x>> \o <<z>>)[2] = z
    BY <2>1, <2>2
  <2> DEFINE q == <<x>> \o <<z>>
  <2>4. q \in Seq(S) /\ Len(q) = 2 /\ q[1] = p[1] /\ q[2] = p[2]
    BY <1>2, <2>2, <2>3
  <2> HIDE DEF q, p
  <2>5. \A i \in 1 .. 2 : q[i] = p[i]
    BY <2>4
  <2>6. q = p
    BY <1>2, <2>4, <2>5, SeqEqual
  <2> QED
    BY <2>6 DEF q
<1> HIDE DEF p, r
<1>4. (<<x>> \o <<z>>) \o r = <<x>> \o (<<z>> \o r)
  BY <1>1, <1>3, ConcatAssociative
<1>5. <<>> \o r = r /\ <<>> \o <<z>> = <<z>>
  BY <1>1, <1>3, ConcatEmptySeq
<1>6. <<x>> \o (<<z>> \o r) = p \o r /\ <<x>> \o <<z>> \o r = p \o r
      /\ <<>> \o r = r /\ <<>> \o <<z>> \o r = <<z>> \o r
  BY <1>b, <1>4, <1>5
<1> QED
  BY <1>6 DEF p, r

\* What a list holds with one element more on top.
LEMMA OnTopOf ==
  ASSUME NEW S, NEW s \in Seq(S), NEW x \in S
  PROVE  \A y \in ToSet(<<x>> \o s) : y = x \/ y \in ToSet(s)
<1> DEFINE p == <<x>>
           t == p \o s
<1>1. p \in Seq(S) /\ Len(p) = 1 /\ p[1] = x
  OBVIOUS
<1> HIDE DEF p
<1>2. /\ t \in Seq(S) /\ Len(t) = Len(p) + Len(s)
      /\ \A i \in 1 .. Len(p) + Len(s) : t[i] = IF i <= Len(p) THEN p[i] ELSE s[i - Len(p)]
  BY <1>1, ConcatProperties
<1> HIDE DEF t
<1>3. ASSUME NEW i \in DOMAIN t
      PROVE  t[i] = x \/ t[i] \in ToSet(s)
  <2>1. i \in 1 .. Len(p) + Len(s) /\ Len(s) \in Nat
    BY <1>2
  <2>2. CASE i = 1
    BY <1>1, <1>2, <2>1, <2>2
  <2>3. CASE i # 1
    <3>1. i - Len(p) \in 1 .. Len(s) /\ ~(i <= Len(p))
      BY <1>1, <2>1, <2>3
    <3>2. t[i] = s[i - Len(p)]
      BY <1>2, <2>1, <3>1
    <3> QED
      BY <3>1, <3>2 DEF ToSet
  <2> QED
    BY <2>2, <2>3
<1> QED
  BY <1>3 DEF ToSet, t, p

\* The top replaced by two elements, in whatever way they are put there.
LEMMA TwoOnTop ==
  ASSUME NEW S, NEW s \in Seq(S), s # <<>>, NEW x \in S, NEW z \in S
  PROVE  LET t == <<x, z>> \o Tail(s)
         IN  /\ t \in Seq(S) /\ Len(t) = Len(s) + 1 /\ t # <<>> /\ t[1] = x /\ t[2] = z
             /\ \A k \in 2 .. Len(s) : t[k + 1] = s[k]
             /\ \A y \in ToSet(t) : y = x \/ y = z \/ y \in ToSet(Tail(s))
             /\ x \in ToSet(t) /\ z \in ToSet(t) /\ \A y \in ToSet(Tail(s)) : y \in ToSet(t)
<1> DEFINE p == <<x, z>>
           r == Tail(s)
           t == p \o r
           n == Len(s)
<1>1. /\ n \in Nat \ {0} /\ r \in Seq(S) /\ Len(r) = n - 1 /\ DOMAIN r = 1 .. n - 1
      /\ \A k \in 1 .. n - 1 : r[k] = s[k + 1]
  BY TailIs
<1>2. p \in Seq(S) /\ Len(p) = 2 /\ p[1] = x /\ p[2] = z
  OBVIOUS
<1>3. <<x>> \in Seq(S) /\ <<z>> \in Seq(S) /\ <<>> \in Seq(S)
  OBVIOUS
<1> HIDE DEF p, r
<1>a. Len(p) + Len(r) = n + 1
  BY <1>1, <1>2
<1> HIDE DEF n
<1>6. /\ t \in Seq(S) /\ Len(t) = n + 1
      /\ \A k \in 1 .. n + 1 : t[k] = IF k <= Len(p) THEN p[k] ELSE r[k - Len(p)]
  <2>1. /\ t \in Seq(S) /\ Len(t) = Len(p) + Len(r)
        /\ \A k \in 1 .. Len(p) + Len(r) : t[k] = IF k <= Len(p) THEN p[k] ELSE r[k - Len(p)]
    BY <1>1, <1>2, ConcatProperties
  <2> QED
    BY <1>a, <2>1, Zenon
<1> HIDE DEF t
<1>7. t[1] = x /\ t[2] = z /\ t # <<>> /\ DOMAIN t = 1 .. n + 1
  BY <1>1, <1>2, <1>6
<1>8. \A k \in 3 .. n + 1 : t[k] = r[k - 2] /\ k - 2 \in 1 .. n - 1
  BY <1>1, <1>2, <1>6
<1>9. \A k \in 2 .. n : t[k + 1] = s[k]
  <2> SUFFICES ASSUME NEW k \in 2 .. n PROVE t[k + 1] = s[k]
    OBVIOUS
  <2>1. k - 1 \in 1 .. n - 1 /\ k + 1 - 2 = k - 1 /\ k + 1 \in 3 .. n + 1 /\ k - 1 + 1 = k
    BY <1>1
  <2> QED
    BY <1>1, <1>8, <2>1
<1>10. \A k \in 1 .. n - 1 : k + 2 \in 1 .. n + 1 /\ t[k + 2] = r[k]
  <2> SUFFICES ASSUME NEW k \in 1 .. n - 1 PROVE k + 2 \in 1 .. n + 1 /\ t[k + 2] = r[k]
    OBVIOUS
  <2>1. k + 2 \in 3 .. n + 1 /\ k + 2 - 2 = k /\ k + 2 \in 1 .. n + 1
    BY <1>1
  <2> QED
    BY <1>8, <2>1
<1>11. /\ \A y \in ToSet(t) : y = x \/ y = z \/ y \in ToSet(r)
       /\ x \in ToSet(t) /\ z \in ToSet(t)
       /\ \A y \in ToSet(r) : y \in ToSet(t)
  <2>1. \A k \in 1 .. n + 1 : k = 1 \/ k = 2 \/ k \in 3 .. n + 1
    BY <1>1
  <2>2. 1 \in 1 .. n + 1 /\ 2 \in 1 .. n + 1
    BY <1>1
  <2>3. \A k \in 1 .. n + 1 : t[k] = x \/ t[k] = z \/ t[k] \in ToSet(r)
    BY <1>1, <1>7, <1>8, <2>1 DEF ToSet
  <2>4. \A k \in 1 .. n - 1 : r[k] \in ToSet(t)
    BY <1>7, <1>10 DEF ToSet
  <2> QED
    BY <1>1, <1>7, <2>2, <2>3, <2>4 DEF ToSet
<1> QED
  BY <1>6, <1>7, <1>9, <1>11 DEF t, p, r, n

\* A list of one and one more.
LEMMA TwoLong == \A x, y : Append(<<x>>, y) = <<x, y>>
<1> SUFFICES ASSUME NEW x, NEW y PROVE Append(<<x>>, y) = <<x, y>>
  OBVIOUS
<1> DEFINE S == {x, y}
<1>1. <<x>> \in Seq(S) /\ <<x, y>> \in Seq(S) /\ <<y>> \in Seq(S)
  OBVIOUS
<1>2. Append(<<x>>, y) = <<x>> \o <<y>>
  BY <1>1, AppendIsConcat
<1>3. <<x>> \o <<y>> = <<x, y>>
  <2> DEFINE p == <<x>>
             q == <<y>>
             r == <<x, y>>
  <2>1. /\ p \in Seq(S) /\ q \in Seq(S) /\ r \in Seq(S) /\ Len(p) = 1 /\ Len(q) = 1 /\ Len(r) = 2
        /\ p[1] = x /\ q[1] = y /\ r[1] = x /\ r[2] = y
    BY <1>1
  <2> HIDE DEF p, q, r, S
  <2>2. /\ p \o q \in Seq(S) /\ Len(p \o q) = 2 /\ (p \o q)[1] = x /\ (p \o q)[2] = y
    BY <2>1, ConcatProperties
  <2>3. \A i \in 1 .. 2 : i = 1 \/ i = 2
    OBVIOUS
  <2>4. p \o q = r
    BY <2>1, <2>2, <2>3, SeqEqual
  <2> QED
    BY <2>4 DEF p, q, r
<1> QED
  BY <1>2, <1>3

----------------------------------------------------------------------------
(* What the values are.                                                    *)

Value == Units \cup {Bad}
Tasks == [op : {"Close", "Attach"}, c : Conns, fd : Fds \cup {NoFd}]

ConnOps == {"HandleRead", "HandleWrite", "OnMsg", "Cleanup", "Finish", "Delete", "Free"}

\* What a frame runs on.
Frames ==
  {Frame("HandleWakeup", Wakeup), Frame("HandleAccept", Listener)}
    \cup {Frame("Drain", c) : c \in Conns \cup {None}}
    \cup {Frame(op, c) : op \in ConnOps, c \in Conns}

----------------------------------------------------------------------------
(* Types.                                                                  *)

LoopTypes ==
  /\ phase \in {"select", "scan", "write", "tally", "timeouts", "crashed"}
  /\ stack \in Seq(Frames)
  /\ lastActive \in Nat
  /\ visit \in [ch : Chans \cup {None}, dec : BOOLEAN]
  /\ phase \in {"write", "tally"} => lastActive > 0 /\ visit.ch \in Chans
  /\ phase \notin {"write", "tally"} => stack = <<>>

PollTypes ==
  /\ liveChannels \in Seq(Chans) /\ curIt \in Chans \cup {None}
  /\ allReadSet \subseteq Sockets \cup {NoFd} /\ IsFiniteSet(allReadSet)
  /\ allWriteSet \subseteq Fds \cup {NoFd} /\ IsFiniteSet(allWriteSet)

ScanTypes == rs \subseteq Sockets \cup {NoFd} /\ ws \subseteq Fds \cup {NoFd}

ChanTypes ==
  /\ chan \in [Chans -> [fd : Sockets \cup {NoFd}, mem : {"unborn", "alive", "freed"},
                         writable : BOOLEAN]]
  /\ \A c \in Conns : chan[c].fd \in Fds \cup {NoFd}
  /\ \A ch \in {Wakeup, Listener} :
       chan[ch] = IF ch \in Service THEN [fd |-> ch, mem |-> "alive", writable |-> FALSE]
                                    ELSE [fd |-> NoFd, mem |-> "unborn", writable |-> FALSE]

ConTypes ==
  /\ con \in [Conns -> [state : {"Invalid", "Handshaking", "Connected", "Closed", "Failed"},
                        channel : BOOLEAN, cbs : BOOLEAN,
                        input : Seq(Value), idleIds : BOOLEAN]]
  /\ conns \subseteq Conns /\ idleConns \subseteq Conns /\ IsFiniteSet(idleConns)
  /\ notified \in [Conns -> Seq({"Connected", "Closed", "Failed"})]
  /\ delivered \in [Conns -> Seq(Nat)]

TaskTypes ==
  /\ tasks \in Seq(Tasks) /\ wakeBytes \in Nat
  /\ closeCalls \in [Conns -> 0 .. MaxCloses]

PeerTypes ==
  /\ peer \in [Conns -> [kern : Seq(Value), end : {"none", "open", "fin", "rst"},
                         next : Units \cup {1 + u : u \in Units} \cup {1, Bad}]]
  /\ backlog \in Seq(Conns) /\ leaked \subseteq Fds

Types ==
  /\ LoopTypes /\ PollTypes /\ ScanTypes /\ ChanTypes
  /\ ConTypes /\ TaskTypes /\ PeerTypes

\* Names are different.
LEMMA Names ==
  /\ None \notin Conns /\ Wakeup \notin Conns /\ Listener \notin Conns
  /\ Wakeup # Listener /\ None # Wakeup /\ None # Listener
  /\ NoFd \notin Fds /\ NoFd # Wakeup /\ NoFd # Listener
  /\ Wakeup \notin Fds /\ Listener \notin Fds
  /\ Wakeup \in Chans /\ Listener \in Chans /\ Wakeup \in Sockets /\ Listener \in Sockets
BY ReactorAssumption DEF Chans, Sockets

\* A frame of Frames has fields, and of what kind they are.
LEMMA FrameIs ==
  /\ \A op, c, op2, c2 : Frame(op, c) = Frame(op2, c2) <=> op = op2 /\ c = c2
  /\ \A op, c : Frame(op, c).op = op /\ Frame(op, c).c = c
  /\ \A f \in Frames : f = Frame(f.op, f.c) /\ f.c \in Chans \cup {None} /\ f.op \in Ops
  /\ \A f \in Frames : f.op \in ConnOps => f.c \in Conns
  /\ \A f \in Frames : f.op = "Drain" => f.c \in Conns \cup {None}
  /\ \A c \in Conns : \A op \in ConnOps : Frame(op, c) \in Frames
  /\ \A c \in Conns \cup {None} : Frame("Drain", c) \in Frames
  /\ Frame("HandleWakeup", Wakeup) \in Frames /\ Frame("HandleAccept", Listener) \in Frames
<1>1. /\ \A op, c, op2, c2 : Frame(op, c) = Frame(op2, c2) <=> op = op2 /\ c = c2
      /\ \A op, c : Frame(op, c).op = op /\ Frame(op, c).c = c
  BY DEF Frame
<1>2. \A f \in Frames :
        \/ f = Frame("HandleWakeup", Wakeup) \/ f = Frame("HandleAccept", Listener)
        \/ \E c \in Conns \cup {None} : f = Frame("Drain", c)
        \/ \E op \in ConnOps, c \in Conns : f = Frame(op, c)
  BY DEF Frames
<1> QED
  BY <1>1, <1>2, Names DEF Frames, ConnOps, Ops, Chans

\* A frame that runs is the first.
LEMMA RunningIs ==
  ASSUME LoopTypes, stack # <<>>
  PROVE  /\ stack[1] \in Frames /\ Head(stack) = stack[1]
         /\ Len(stack) \in Nat \ {0} /\ Tail(stack) \in Seq(Frames)
         /\ phase \in {"write", "tally"}
BY TailIs DEF LoopTypes

\* FD_SET adds at most the socket.
LEMMA FdSetIs ==
  ASSUME NEW S, IsFiniteSet(S), NEW fd
  PROVE  IsFiniteSet(FdSet(S, fd)) /\ S \subseteq FdSet(S, fd) /\ FdSet(S, fd) \subseteq S \cup {fd}
BY FS_AddElement DEF FdSet

\* The next element is one of the list, and another one.
LEMMA AfterIs ==
  ASSUME NEW S, NEW s \in Seq(S), NEW x
  PROVE  /\ \/ After(s, x) = None
            \/ After(s, x) \in ToSet(s) /\ After(s, x) \in S
         /\ Once(s) /\ After(s, x) = x => x = None
<1> DEFINE i == Place(s, x)
<1>1. After(s, x) = IF i \in 1 .. Len(s) - 1 THEN s[i + 1] ELSE None
  BY DEF After, Place
<1>2. i \in 0 .. Len(s) /\ (x \in ToSet(s) => s[i] = x) /\ (i = 0 <=> x \notin ToSet(s))
  BY PlaceIs
<1>3. Len(s) \in Nat /\ DOMAIN s = 1 .. Len(s) /\ \A k \in 1 .. Len(s) : s[k] \in S
  OBVIOUS
<1> HIDE DEF i
<1>4. ASSUME i \in 1 .. Len(s) - 1
      PROVE  /\ i + 1 \in 1 .. Len(s) /\ i \in 1 .. Len(s) /\ i # i + 1 /\ s[i] = x
             /\ s[i + 1] \in S /\ s[i + 1] \in ToSet(s)
             /\ After(s, x) = s[i + 1]
             /\ Once(s) => s[i + 1] # s[i]
  <2>1. i + 1 \in 1 .. Len(s) /\ i \in 1 .. Len(s) /\ i # i + 1 /\ s[i] = x
    BY <1>2, <1>3, <1>4
  <2> QED
    BY <1>1, <1>3, <1>4, <2>1 DEF ToSet, Once
<1>5. i \notin 1 .. Len(s) - 1 => After(s, x) = None
  BY <1>1
<1> QED
  BY <1>4, <1>5

\* Which connection may be told to close.
LEMMA PostCloseIs ==
  ASSUME TaskTypes, NEW E \in SUBSET Conns, \A c \in E : CanClose(c),
         NEW s \in Seq(E), PostClose(s)
  PROVE  /\ TaskTypes'
         /\ Len(tasks') \in Nat /\ Len(tasks) <= Len(tasks')
         /\ \A i \in 1 .. Len(tasks) : tasks'[i] = tasks[i]
         /\ \A i \in 1 .. Len(tasks') : i > Len(tasks) =>
              \E c \in E : tasks'[i] = Task("Close", c, NoFd) /\ closeCalls'[c] > 0
         /\ \A c \in Conns : closeCalls[c] <= closeCalls'[c]
         /\ wakeBytes' = wakeBytes + (Len(tasks') - Len(tasks))
<1> DEFINE n == Len(s)
           new == [i \in 1 .. n |-> Task("Close", s[i], NoFd)]
<1>1. n \in Nat /\ DOMAIN s = 1 .. n /\ \A i \in 1 .. n : s[i] \in E /\ s[i] \in Conns
  OBVIOUS
<1>2. tasks' = tasks \o new /\ wakeBytes' = wakeBytes + Len(new)
  BY <1>1 DEF PostClose, SafeCall
<1>3. \A c \in Conns : Task("Close", c, NoFd) \in Tasks
  BY DEF Task, Tasks
<1>4. new \in [1 .. n -> Tasks] /\ \A i \in 1 .. n : new[i] = Task("Close", s[i], NoFd)
  BY <1>1, <1>3
<1>5. new \in Seq(Tasks) /\ Len(new) = n
  BY <1>1, <1>4
<1> HIDE DEF new
<1>6. /\ tasks' \in Seq(Tasks) /\ Len(tasks') = Len(tasks) + n
      /\ \A i \in 1 .. Len(tasks) + n : tasks'[i] = IF i <= Len(tasks) THEN tasks[i] ELSE new[i - Len(tasks)]
  <2>1. /\ tasks \o new \in Seq(Tasks) /\ Len(tasks \o new) = Len(tasks) + Len(new)
        /\ \A i \in 1 .. Len(tasks) + Len(new) :
             (tasks \o new)[i] = IF i <= Len(tasks) THEN tasks[i] ELSE new[i - Len(tasks)]
    BY <1>5, ConcatProperties DEF TaskTypes
  <2> QED
    BY <1>2, <1>5, <2>1, Zenon
<1>7. Len(tasks) \in Nat
  BY DEF TaskTypes
<1>8. /\ \A c \in Conns : closeCalls'[c] = closeCalls[c] + (IF c \in ToSet(s) THEN 1 ELSE 0)
      /\ closeCalls' = [c \in Conns |-> closeCalls[c] + (IF c \in ToSet(s) THEN 1 ELSE 0)]
  BY DEF PostClose
<1>9. \A c \in ToSet(s) : c \in E /\ closeCalls[c] < MaxCloses
  BY <1>1 DEF ToSet, CanClose
<1>10. MaxCloses \in Nat /\ \A c \in Conns : closeCalls[c] \in 0 .. MaxCloses
  BY ReactorAssumption DEF TaskTypes
<1>11. /\ closeCalls' \in [Conns -> 0 .. MaxCloses]
       /\ \A c \in Conns : closeCalls[c] <= closeCalls'[c]
       /\ \A c \in ToSet(s) : closeCalls'[c] > 0
  BY <1>8, <1>9, <1>10
<1>12. ASSUME NEW i \in 1 .. Len(tasks'), i > Len(tasks)
       PROVE  \E c \in E : tasks'[i] = Task("Close", c, NoFd) /\ closeCalls'[c] > 0
  <2>1. i - Len(tasks) \in 1 .. n /\ ~(i <= Len(tasks)) /\ i \in 1 .. Len(tasks) + n
    BY <1>1, <1>6, <1>7, <1>12
  <2>2. tasks'[i] = Task("Close", s[i - Len(tasks)], NoFd)
    BY <1>4, <1>6, <2>1
  <2>3. s[i - Len(tasks)] \in E /\ s[i - Len(tasks)] \in ToSet(s)
    BY <1>1, <2>1 DEF ToSet
  <2> QED
    BY <1>11, <2>2, <2>3
<1>13. /\ Len(tasks') \in Nat /\ Len(tasks) <= Len(tasks')
       /\ \A i \in 1 .. Len(tasks) : tasks'[i] = tasks[i]
       /\ wakeBytes' = wakeBytes + (Len(tasks') - Len(tasks)) /\ wakeBytes' \in Nat
  BY <1>1, <1>2, <1>5, <1>6, <1>7 DEF TaskTypes
<1> QED
  BY <1>6, <1>11, <1>12, <1>13 DEF TaskTypes

\* A connection's channel gets another record.
LEMMA ChannelChanged ==
  ASSUME ChanTypes, NEW c \in Conns,
         NEW fd \in Fds \cup {NoFd}, NEW m \in {"unborn", "alive", "freed"}, NEW w \in BOOLEAN,
         chan' = [chan EXCEPT ![c] = [fd |-> fd, mem |-> m, writable |-> w]]
  PROVE  ChanTypes'
<1> DEFINE r == [fd |-> fd, mem |-> m, writable |-> w]
<1>1. r \in [fd : Sockets \cup {NoFd}, mem : {"unborn", "alive", "freed"}, writable : BOOLEAN]
      /\ r.fd \in Fds \cup {NoFd}
  BY DEF Sockets
<1>2. /\ chan \in [Chans -> [fd : Sockets \cup {NoFd}, mem : {"unborn", "alive", "freed"},
                            writable : BOOLEAN]]
      /\ chan' = [chan EXCEPT ![c] = r] /\ c \in Chans
  BY DEF ChanTypes, Chans
<1> HIDE DEF r
<1>3. chan' \in [Chans -> [fd : Sockets \cup {NoFd}, mem : {"unborn", "alive", "freed"},
                          writable : BOOLEAN]]
  BY <1>1, <1>2
<1>4. \A ch \in Chans : chan'[ch] = IF ch = c THEN r ELSE chan[ch]
  BY <1>2
<1>5. \A d \in Conns : chan'[d].fd \in Fds \cup {NoFd}
  BY <1>1, <1>4 DEF ChanTypes, Chans
<1>6. \A ch \in {Wakeup, Listener} : chan'[ch] = chan[ch]
  BY <1>4, Names
<1> QED
  BY <1>3, <1>5, <1>6 DEF ChanTypes

\* The fields of a channel of a connection.
LEMMA ChannelFields ==
  ASSUME ChanTypes, NEW c \in Conns
  PROVE  /\ chan[c] = [fd |-> chan[c].fd, mem |-> chan[c].mem, writable |-> chan[c].writable]
         /\ chan[c].fd \in Fds \cup {NoFd} /\ chan[c].mem \in {"unborn", "alive", "freed"}
         /\ chan[c].writable \in BOOLEAN
<1>1. chan[c] \in [fd : Sockets \cup {NoFd}, mem : {"unborn", "alive", "freed"}, writable : BOOLEAN]
  BY DEF ChanTypes, Chans
<1> QED
  BY <1>1 DEF ChanTypes

\* One field of a connection's channel changes.
LEMMA ChannelField ==
  ASSUME ChanTypes, NEW c \in Conns
  PROVE  /\ \A fd \in Fds \cup {NoFd} : chan' = [chan EXCEPT ![c].fd = fd] => ChanTypes'
         /\ \A m \in {"unborn", "alive", "freed"} : chan' = [chan EXCEPT ![c].mem = m] => ChanTypes'
         /\ \A w \in BOOLEAN : chan' = [chan EXCEPT ![c].writable = w] => ChanTypes'
<1> DEFINE Ch(fd, m, w) == [fd |-> fd, mem |-> m, writable |-> w]
<1>1. PICK e : e = chan[c]
  OBVIOUS
<1>2. e = Ch(e.fd, e.mem, e.writable)
  BY <1>1, ChannelFields
<1>3. /\ \A fd : [e EXCEPT !.fd = fd] = Ch(fd, e.mem, e.writable)
      /\ \A m : [e EXCEPT !.mem = m] = Ch(e.fd, m, e.writable)
      /\ \A w : [e EXCEPT !.writable = w] = Ch(e.fd, e.mem, w)
  BY <1>2
<1>4. e.fd \in Fds \cup {NoFd} /\ e.mem \in {"unborn", "alive", "freed"} /\ e.writable \in BOOLEAN
  BY <1>1, ChannelFields
<1>5. ASSUME NEW fd \in Fds \cup {NoFd}, chan' = [chan EXCEPT ![c].fd = fd]
      PROVE  ChanTypes'
  <2>1. chan' = [chan EXCEPT ![c] = [e EXCEPT !.fd = fd]]
    BY <1>1, <1>5
  <2>2. chan' = [chan EXCEPT ![c] = Ch(fd, e.mem, e.writable)]
    BY <1>3, <2>1
  <2> QED
    BY <1>4, <2>2, ChannelChanged
<1>6. ASSUME NEW m \in {"unborn", "alive", "freed"}, chan' = [chan EXCEPT ![c].mem = m]
      PROVE  ChanTypes'
  <2>1. chan' = [chan EXCEPT ![c] = [e EXCEPT !.mem = m]]
    BY <1>1, <1>6
  <2>2. chan' = [chan EXCEPT ![c] = Ch(e.fd, m, e.writable)]
    BY <1>3, <2>1
  <2> QED
    BY <1>4, <2>2, ChannelChanged
<1>7. ASSUME NEW w \in BOOLEAN, chan' = [chan EXCEPT ![c].writable = w]
      PROVE  ChanTypes'
  <2>1. chan' = [chan EXCEPT ![c] = [e EXCEPT !.writable = w]]
    BY <1>1, <1>7
  <2>2. chan' = [chan EXCEPT ![c] = Ch(e.fd, e.mem, w)]
    BY <1>3, <2>1
  <2> QED
    BY <1>4, <2>2, ChannelChanged
<1> QED
  BY <1>5, <1>6, <1>7

\* Channel::Close keeps the types.
LEMMA CloseChannelTypes ==
  ASSUME Types, NEW c \in Conns, NEW rest \in Seq(Frames), CloseChannel(c, rest)
  PROVE  /\ PollTypes' /\ ChanTypes' /\ stack' \in Seq(Frames)
<1>1. CASE chan[c].fd = NoFd
  BY <1>1 DEF CloseChannel, pollVars, Types, PollTypes, ChanTypes
<1>2. CASE chan[c].fd # NoFd
  <2>1. RemoveChannel(c) /\ chan' = [chan EXCEPT ![c].fd = NoFd]
        /\ stack' = <<Frame("HandleRead", c)>> \o rest
    BY <1>2 DEF CloseChannel
  <2>2. RemoveFirst(liveChannels, c) \in Seq(Chans)
    <3>1. CASE c \in ToSet(liveChannels)
      <4>1. Place(liveChannels, c) \in 1 .. Len(liveChannels)
        BY <3>1, PlaceIs DEF Types, PollTypes
      <4>2. RemoveAt(liveChannels, Place(liveChannels, c)) \in Seq(Chans)
        BY <4>1, RemovedAt DEF Types, PollTypes
      <4> QED
        BY <4>2 DEF RemoveFirst, Place, Types, PollTypes
    <3>2. CASE c \notin ToSet(liveChannels)
      BY <3>2 DEF RemoveFirst, ToSet, Types, PollTypes
    <3> QED
      BY <3>1, <3>2
  <2>3. curIt' \in Chans \cup {None}
    BY <2>1, AfterIs DEF RemoveChannel, ItWithout, Types, PollTypes
  <2>4. IsFiniteSet(allReadSet') /\ IsFiniteSet(allWriteSet')
    BY <2>1, FS_RemoveElement DEF RemoveChannel, Types, PollTypes
  <2>5. PollTypes'
    BY <2>1, <2>2, <2>3, <2>4 DEF RemoveChannel, Types, PollTypes
  <2>6. ChanTypes'
    BY <2>1, ChannelField DEF Types
  <2>7. <<Frame("HandleRead", c)>> \o rest \in Seq(Frames)
    <3>1. <<Frame("HandleRead", c)>> \in Seq(Frames)
      BY FrameIs DEF ConnOps
    <3> QED
      BY <3>1, ConcatProperties
  <2> QED
    BY <2>1, <2>5, <2>6, <2>7
<1> QED
  BY <1>1, <1>2

\* TcpConn::Attach keeps the types.
LEMMA AttachTypes ==
  ASSUME Types, NEW c \in Conns, NEW fd \in Fds \cup {NoFd}, Attach(c, fd),
         idleConns' = idleConns, notified' = notified, delivered' = delivered
  PROVE  PollTypes' /\ ChanTypes' /\ ConTypes'
<1>1. PollTypes'
  <2>1. /\ liveChannels' = Append(liveChannels, c) /\ allReadSet' = FdSet(allReadSet, fd)
        /\ UNCHANGED <<curIt, allWriteSet>>
    BY DEF Attach, AddChannel
  <2>2. Append(liveChannels, c) \in Seq(Chans)
    BY AppendProperties DEF Types, PollTypes, Chans
  <2>3. IsFiniteSet(allReadSet') /\ allReadSet' \subseteq allReadSet \cup {fd}
    BY <2>1, FdSetIs DEF Types, PollTypes
  <2> QED
    BY <2>1, <2>2, <2>3 DEF Types, PollTypes, Sockets
<1>2. ChanTypes'
  BY ChannelChanged DEF Attach, Types
<1>3. ConTypes'
  <2> DEFINE r == [con[c] EXCEPT !.state = "Handshaking", !.channel = TRUE, !.cbs = TRUE]
  <2>1. con' = [con EXCEPT ![c] = r] /\ conns' = conns \cup {c}
    BY DEF Attach
  <2>2. r \in [state : {"Invalid", "Handshaking", "Connected", "Closed", "Failed"},
               channel : BOOLEAN, cbs : BOOLEAN, input : Seq(Value), idleIds : BOOLEAN]
    BY DEF Types, ConTypes
  <2> HIDE DEF r
  <2> QED
    BY <2>1, <2>2 DEF Types, ConTypes
<1> QED
  BY <1>1, <1>2, <1>3

\* Channel::EnableWrite keeps the types.
LEMMA EnableWriteTypes ==
  ASSUME Types, NEW c \in Conns, NEW enable \in BOOLEAN, EnableWrite(c, enable)
  PROVE  PollTypes' /\ ChanTypes'
<1>1. chan[c].fd \in Fds \cup {NoFd} /\ chan[c].fd \in Sockets \cup {NoFd}
  BY DEF Types, ChanTypes, Sockets
<1>2. IsFiniteSet(allReadSet') /\ allReadSet' \subseteq allReadSet \cup {chan[c].fd}
  BY FdSetIs DEF EnableWrite, ReadKept, Types, PollTypes
<1>3. IsFiniteSet(allWriteSet') /\ allWriteSet' \subseteq allWriteSet \cup {chan[c].fd}
  <2>1. IsFiniteSet(allWriteSet) /\ IsFiniteSet(FdSet(allWriteSet, chan[c].fd))
        /\ FdSet(allWriteSet, chan[c].fd) \subseteq allWriteSet \cup {chan[c].fd}
        /\ IsFiniteSet(allWriteSet \ {chan[c].fd})
    <3>1. IsFiniteSet(allWriteSet)
      BY DEF Types, PollTypes
    <3>2. /\ IsFiniteSet(FdSet(allWriteSet, chan[c].fd))
          /\ FdSet(allWriteSet, chan[c].fd) \subseteq allWriteSet \cup {chan[c].fd}
      BY <3>1, FdSetIs
    <3>3. IsFiniteSet(allWriteSet \ {chan[c].fd})
      BY <3>1, FS_RemoveElement
    <3> QED
      BY <3>1, <3>2, <3>3
  <2> QED
    BY <2>1 DEF EnableWrite
<1>4. PollTypes'
  BY <1>1, <1>2, <1>3 DEF EnableWrite, Types, PollTypes
<1>5. ChanTypes'
  BY ChannelField DEF EnableWrite, Types
<1> QED
  BY <1>4, <1>5

\* The loop starts with the right types.
LEMMA TypesInit == Init => Types
<1> SUFFICES ASSUME Init PROVE Types
  OBVIOUS
<1>1. LoopTypes
  BY DEF Init, LoopTypes
<1>2. PollTypes
  <2>1. Service \subseteq Chans /\ Service \subseteq Sockets
    BY DEF Service, Chans, Sockets
  <2>2. IsFiniteSet(Service)
    <3>1. IsFiniteSet({Wakeup}) /\ IsFiniteSet({Wakeup} \cup {Listener})
      BY FS_Singleton, FS_AddElement
    <3>2. {Wakeup} \cup {Listener} = {Wakeup, Listener}
      OBVIOUS
    <3> QED
      BY <3>1, <3>2 DEF Service
  <2>3. liveChannels \in Seq(Chans)
    <3>1. <<Wakeup, Listener>> \in Seq(Chans) /\ <<Wakeup>> \in Seq(Chans)
      BY Names
    <3> QED
      BY <3>1 DEF Init
  <2>4. IsFiniteSet({})
    BY FS_EmptySet
  <2> QED
    BY <2>1, <2>2, <2>3, <2>4 DEF Init, PollTypes
<1>3. ScanTypes
  BY DEF Init, ScanTypes
<1>4. ChanTypes
  BY Names DEF Init, ChanTypes, Service, Chans, Sockets
<1>5. ConTypes
  BY FS_EmptySet DEF Init, ConTypes
<1>6. TaskTypes
  BY ReactorAssumption DEF Init, TaskTypes
<1>7. PeerTypes
  BY DEF Init, PeerTypes
<1> QED
  BY <1>1, <1>2, <1>3, <1>4, <1>5, <1>6, <1>7 DEF Types

\* The halves of the messages of a peer.
LEMMA UnitsIs ==
  /\ Units \subseteq Nat /\ Messages \subseteq Nat /\ Bad \notin Units
  /\ \A c \in Conns : \A n \in 1 .. 2 * MaxMsgs[c] : n \in Units
<1>1. \A c \in Conns : MaxMsgs[c] \in Nat
  BY ReactorAssumption
<1>2. Messages \subseteq Nat /\ 0 \notin Messages
  BY <1>1 DEF Messages
<1>3. Units \subseteq Nat
  BY <1>2 DEF Units
<1>4. ASSUME NEW c \in Conns, NEW n \in 1 .. 2 * MaxMsgs[c]
      PROVE  n \in Units
  <2>1. PICK k \in 1 .. MaxMsgs[c] : n = 2 * k - 1 \/ n = 2 * k
    <3> DEFINE h == (n + 1) \div 2
    <3>1. h \in 1 .. MaxMsgs[c] /\ (n = 2 * h - 1 \/ n = 2 * h)
      BY <1>1
    <3> QED
      BY <3>1
  <2>2. k \in Messages
    BY DEF Messages
  <2> QED
    BY <2>1, <2>2 DEF Units
<1> QED
  BY <1>2, <1>3, <1>4, ReactorAssumption

\* What does not change keeps its type.
LEMMA TypesKept ==
  ASSUME Types
  PROVE  /\ UNCHANGED <<loopVars, lastActive, visit>> => LoopTypes'
         /\ UNCHANGED pollVars => PollTypes'
         /\ UNCHANGED <<rs, ws>> => ScanTypes'
         /\ UNCHANGED chan => ChanTypes'
         /\ UNCHANGED <<con, conns, idleConns, notified, delivered>> => ConTypes'
         /\ UNCHANGED <<tasks, wakeBytes, closeCalls>> => TaskTypes'
         /\ UNCHANGED envVars => PeerTypes'
BY DEF Types, LoopTypes, PollTypes, ScanTypes, ChanTypes, ConTypes, TaskTypes, PeerTypes,
       loopVars, pollVars, envVars

\* Frames under which the phase does not change.
LEMMA StackTypes ==
  ASSUME Types, stack # <<>>, stack' \in Seq(Frames),
         UNCHANGED <<phase, lastActive, visit>>
  PROVE  LoopTypes'
BY DEF Types, LoopTypes

\* Each way to go on after a frame.
LEMMA GoOn ==
  ASSUME Types, stack # <<>>
  PROVE  /\ Resume \in Seq(Frames)
         /\ \A f \in Frames : <<f>> \o Resume \in Seq(Frames)
         /\ \A f, g \in Frames : <<f, g>> \o Resume \in Seq(Frames)
         /\ <<>> \o Resume = Resume
         /\ \A f, g \in Frames : <<f>> \o <<g>> \o Resume = <<f, g>> \o Resume
         /\ \A g \in Frames : <<>> \o <<g>> \o Resume = <<g>> \o Resume
<1>1. stack \in Seq(Frames)
  BY DEF Types, LoopTypes
<1>2. \E f \in Frames : TRUE
  BY FrameIs
<1>3. /\ Resume \in Seq(Frames)
      /\ \A f \in Frames : <<f>> \o Resume \in Seq(Frames)
  BY <1>1, TailIs, TopIs DEF Resume
<1>4. \A f, g \in Frames : /\ <<f, g>> \o Resume \in Seq(Frames)
                           /\ <<>> \o Resume = Resume
                           /\ <<f>> \o <<g>> \o Resume = <<f, g>> \o Resume
                           /\ <<>> \o <<g>> \o Resume = <<g>> \o Resume
  <2> SUFFICES ASSUME NEW f \in Frames, NEW g \in Frames
               PROVE  LET r == Tail(stack)
                      IN  /\ <<f, g>> \o r \in Seq(Frames)
                          /\ <<>> \o r = r
                          /\ <<f>> \o <<g>> \o r = <<f, g>> \o r
                          /\ <<>> \o <<g>> \o r = <<g>> \o r
    BY DEF Resume
  <2> HIDE DEF Frames
  <2>1. stack \in Seq(Frames) /\ stack # <<>>
    BY <1>1
  <2>2. <<f, g>> \o Tail(stack) \in Seq(Frames)
    BY <2>1, TwoOnTop
  <2>3. /\ <<f>> \o <<g>> \o Tail(stack) = <<f, g>> \o Tail(stack)
        /\ <<>> \o Tail(stack) = Tail(stack)
        /\ <<>> \o <<g>> \o Tail(stack) = <<g>> \o Tail(stack)
    BY <2>1, Joined
  <2> QED
    BY <2>2, <2>3
<1> QED
  BY <1>2, <1>3, <1>4

\* Every step keeps the types.
LEMMA TypesStep ==
  ASSUME Types, [Next]_vars
  PROVE  Types'
<1> USE DEF scanVars, baseVars, histVars
<1>0. /\ LoopTypes /\ PollTypes /\ ScanTypes /\ ChanTypes /\ ConTypes /\ TaskTypes /\ PeerTypes
  BY DEF Types
<1>1. CASE Select
  <2>1. rs' \subseteq allReadSet /\ ws' \subseteq allWriteSet
    BY <1>1 DEF Select
  <2>2. Cardinality(rs') \in Nat /\ Cardinality(ws') \in Nat
    BY <1>0, <2>1, FS_Subset, FS_CardinalityType DEF PollTypes
  <2>3. LoopTypes'
    BY <1>0, <1>1, <2>2 DEF Select, LoopTypes
  <2>4. curIt' \in Chans \cup {None}
    BY <1>0, <1>1 DEF Select, FirstOf, PollTypes
  <2>5. PollTypes' /\ ScanTypes'
    BY <1>0, <1>1, <2>1, <2>4 DEF Select, PollTypes, ScanTypes
  <2> QED
    BY <1>1, <2>3, <2>5, TypesKept DEF Select, Types
<1>2. CASE Scan
  <2>1. curIt \in Chans
    BY <1>0, <1>2 DEF Scan, PollTypes
  <2>2. Frame(ReadHandler(curIt), curIt) \in Frames
    BY <2>1, FrameIs DEF ReadHandler, Chans, ConnOps
  <2>3. stack' \in Seq(Frames)
    BY <1>2, <2>2 DEF Scan
  <2>4. LoopTypes'
    BY <1>0, <1>2, <2>1, <2>3 DEF Scan, LoopTypes
  <2>5. curIt' \in Chans \cup {None}
    BY <1>0, <1>2, AfterIs DEF Scan, PollTypes
  <2>6. PollTypes'
    BY <1>0, <1>2, <2>5 DEF Scan, PollTypes
  <2> QED
    BY <1>2, <2>4, <2>6, TypesKept DEF Scan, Types
<1>3. CASE TryWrite
  <2>1. visit.ch \in Chans
    BY <1>0, <1>3 DEF TryWrite, LoopTypes
  <2>2. chan[visit.ch].mem = "alive" /\ chan[visit.ch].fd \in ws => visit.ch \in Conns
    BY <1>0, <2>1, Names DEF ChanTypes, ScanTypes, Chans
  <2>3. chan[visit.ch].mem = "alive" => stack' \in Seq(Frames)
    <3>1. visit.ch \in Conns => <<Frame("HandleWrite", visit.ch)>> \in Seq(Frames)
      BY FrameIs DEF ConnOps
    <3>2. chan[visit.ch].mem = "alive" =>
            \/ stack' = <<>>
            \/ chan[visit.ch].fd \in ws /\ stack' = <<Frame("HandleWrite", visit.ch)>>
      BY <1>3 DEF TryWrite
    <3>3. <<>> \in Seq(Frames)
      OBVIOUS
    <3> QED
      BY <2>2, <3>1, <3>2, <3>3
  <2>4. LoopTypes'
    BY <1>0, <1>3, <2>3 DEF TryWrite, LoopTypes
  <2> QED
    BY <1>3, <2>4, TypesKept DEF TryWrite, Types
<1>4. CASE Tally
  <2>1. LoopTypes'
    BY <1>0, <1>4 DEF Tally, Decrement, LoopTypes
  <2> QED
    BY <1>4, <2>1, TypesKept DEF Tally, Types
<1>5. CASE EndScan
  <2>1. LoopTypes' /\ ScanTypes'
    BY <1>0, <1>5 DEF EndScan, LoopTypes, ScanTypes
  <2> QED
    BY <1>5, <2>1, TypesKept DEF EndScan, Types
<1>6. CASE HandleTimeouts
  <2>1. PICK expired \in SUBSET {c \in idleConns : CanClose(c)} :
          \E s \in SetToSeqs(expired) : PostClose(s)
    BY <1>6 DEF HandleTimeouts
  <2>2. PICK s \in SetToSeqs(expired) : PostClose(s)
    BY <2>1
  <2>3. IsFiniteSet(expired) /\ expired \in SUBSET Conns /\ \A c \in expired : CanClose(c)
    BY <1>0, FS_Subset DEF ConTypes
  <2>4. s \in Seq(expired)
    BY <2>3, FS_CardinalityType DEF SetToSeqs
  <2>5. TaskTypes'
    BY <1>0, <2>2, <2>3, <2>4, PostCloseIs
  <2>6. LoopTypes'
    BY <1>0, <1>6 DEF HandleTimeouts, LoopTypes
  <2> QED
    BY <1>6, <2>5, <2>6, TypesKept DEF HandleTimeouts, Types
<1>7. CASE HandleWakeup
  <2>1. stack' \in Seq(Frames) /\ stack # <<>>
    BY <1>7, GoOn, FrameIs DEF HandleWakeup, Running
  <2>2. LoopTypes' /\ TaskTypes'
    BY <1>0, <1>7, <2>1, StackTypes DEF HandleWakeup, TaskTypes
  <2> QED
    BY <1>7, <2>2, TypesKept DEF HandleWakeup, Types
<1>8. CASE HandleAccept
  <2>1. stack # <<>>
    BY <1>8 DEF HandleAccept, Running
  <2>2. stack' \in Seq(Frames)
    BY <1>0, <1>8, <2>1, GoOn DEF HandleAccept, LoopTypes
  <2>3. LoopTypes'
    BY <1>8, <2>1, <2>2, StackTypes DEF HandleAccept
  <2>4. CASE backlog = <<>> \/ FreeFds = {}
    BY <1>8, <2>3, <2>4, TypesKept DEF HandleAccept, Types, envVars
  <2>5. CASE ~(backlog = <<>> \/ FreeFds = {})
    <3>1. Head(backlog) \in Conns /\ Tail(backlog) \in Seq(Conns) /\ backlog' = Tail(backlog)
      BY <1>0, <1>8, <2>5 DEF HandleAccept, PeerTypes
    <3>2. PICK fd \in FreeFds :
            \/ Attach(Head(backlog), fd) /\ UNCHANGED leaked
            \/ leaked' = leaked \cup {fd} /\ UNCHANGED <<pollVars, chan, con, conns>>
      BY <1>8, <2>5 DEF HandleAccept
    <3>3. fd \in Fds
      BY DEF FreeFds
    <3>4. PeerTypes'
      BY <1>0, <1>8, <3>1, <3>2, <3>3 DEF HandleAccept, PeerTypes
    <3>5. PollTypes' /\ ChanTypes' /\ ConTypes'
      BY <1>8, <3>1, <3>2, <3>3, AttachTypes, TypesKept DEF HandleAccept
    <3> QED
      BY <1>8, <2>3, <3>4, <3>5, TypesKept DEF HandleAccept, Types
  <2> QED
    BY <2>4, <2>5
<1>9. CASE Drain
  <2>1. stack # <<>>
    BY <1>9 DEF Drain
  <2>2. CASE tasks = <<>>
    <3>1. LoopTypes'
      BY <1>9, <2>1, <2>2, GoOn, StackTypes DEF Drain
    <3> QED
      BY <1>9, <2>2, <3>1, TypesKept DEF Drain, Types
  <2>3. CASE tasks # <<>>
    <3> DEFINE t == Head(tasks)
               held == IF t.op = "Close" THEN t.c ELSE None
               rest == <<Frame("Drain", held)>> \o Resume
    <3>1. t \in Tasks /\ Tail(tasks) \in Seq(Tasks) /\ tasks' = Tail(tasks)
      BY <1>0, <1>9, <2>3 DEF Drain, TaskTypes
    <3>2. t.c \in Conns /\ t.op \in {"Close", "Attach"} /\ held \in Conns \cup {None}
      BY <3>1 DEF Tasks
    <3>3. rest \in Seq(Frames)
      BY <2>1, <3>2, GoOn, FrameIs
    <3>4. TaskTypes'
      BY <1>0, <1>9, <3>1 DEF Drain, TaskTypes
    <3>5. \/ t.op = "Attach" /\ Attach(t.c, t.fd) /\ stack' = rest
          \/ /\ t.op = "Close" /\ con[t.c].channel
             /\ CloseChannel(t.c, rest) /\ UNCHANGED <<con, conns>>
          \/ stack' = rest /\ UNCHANGED <<pollVars, chan, con, conns>>
      BY <1>9, <2>3 DEF Drain
    <3> HIDE DEF rest
    <3>6. CASE t.op = "Attach" /\ Attach(t.c, t.fd) /\ stack' = rest
      <4>1. t.fd \in Fds \cup {NoFd}
        BY <3>1 DEF Tasks
      <4>2. PollTypes' /\ ChanTypes' /\ ConTypes'
        BY <1>9, <3>2, <3>6, <4>1, AttachTypes DEF Drain
      <4>3. LoopTypes'
        BY <1>9, <2>1, <3>3, <3>6, StackTypes DEF Drain
      <4> QED
        BY <1>9, <3>4, <4>2, <4>3, TypesKept DEF Drain, Types
    <3>7. CASE CloseChannel(t.c, rest) /\ UNCHANGED <<con, conns>>
      <4>1. PollTypes' /\ ChanTypes' /\ stack' \in Seq(Frames)
        BY <3>2, <3>3, <3>7, CloseChannelTypes
      <4>2. LoopTypes'
        BY <1>9, <2>1, <4>1, StackTypes DEF Drain
      <4> QED
        BY <1>9, <3>4, <3>7, <4>1, <4>2, TypesKept DEF Drain, Types
    <3>8. CASE stack' = rest /\ UNCHANGED <<pollVars, chan, con, conns>>
      <4>1. LoopTypes'
        BY <1>9, <2>1, <3>3, <3>8, StackTypes DEF Drain
      <4> QED
        BY <1>9, <3>4, <3>8, <4>1, TypesKept DEF Drain, Types
    <3> QED
      BY <3>5, <3>6, <3>7, <3>8
  <2> QED
    BY <2>2, <2>3
<1>10. ASSUME NEW c \in Conns, NEW op \in {"HandleRead", "HandleWrite"}, HandleHandshake(op, c)
       PROVE  Types'
  <2>1. stack # <<>>
    BY <1>10 DEF HandleHandshake, RunningOn, Running
  <2>2. Resume \in Seq(Frames) /\ <<Frame("Cleanup", c)>> \o Resume \in Seq(Frames)
    BY <2>1, GoOn, FrameIs DEF ConnOps
  <2>3. LoopTypes'
    <3>1. stack' \in Seq(Frames)
      BY <1>0, <1>10, <2>2 DEF HandleHandshake, LoopTypes
    <3> QED
      BY <1>10, <2>1, <3>1, StackTypes DEF HandleHandshake
  <2>4. ConTypes'
    <3>1. CASE UNCHANGED <<con, idleConns, notified>>
      BY <1>10, <3>1, TypesKept DEF HandleHandshake
    <3>2. CASE /\ \E idle \in BOOLEAN :
                    /\ con' = [con EXCEPT ![c].state = "Connected", ![c].idleIds = idle]
                    /\ idleConns' = IF idle THEN idleConns \cup {c} ELSE idleConns
               /\ notified' = [notified EXCEPT ![c] = Append(@, "Connected")]
      <4>1. PICK idle \in BOOLEAN :
                    /\ con' = [con EXCEPT ![c].state = "Connected", ![c].idleIds = idle]
                    /\ idleConns' = IF idle THEN idleConns \cup {c} ELSE idleConns
        BY <3>2
      <4> DEFINE r == [con[c] EXCEPT !.state = "Connected", !.idleIds = idle]
      <4>2. con' = [con EXCEPT ![c] = r]
        BY <4>1
      <4>3. r \in [state : {"Invalid", "Handshaking", "Connected", "Closed", "Failed"},
                   channel : BOOLEAN, cbs : BOOLEAN, input : Seq(Value), idleIds : BOOLEAN]
        BY <1>0 DEF ConTypes
      <4> HIDE DEF r
      <4>4. IsFiniteSet(idleConns') /\ idleConns' \subseteq Conns
        BY <1>0, <4>1, FS_AddElement DEF ConTypes
      <4>5. notified' \in [Conns -> Seq({"Connected", "Closed", "Failed"})]
        BY <1>0, <3>2, AppendProperties DEF ConTypes
      <4> QED
        BY <1>0, <1>10, <4>2, <4>3, <4>4, <4>5 DEF HandleHandshake, ConTypes
    <3> QED
      BY <1>10, <3>1, <3>2 DEF HandleHandshake
  <2> QED
    BY <1>10, <2>3, <2>4, TypesKept DEF HandleHandshake, Types
<1>11. ASSUME NEW c \in Conns, HandleRead(c)
       PROVE  Types'
  <2>1. stack # <<>>
    BY <1>11 DEF HandleRead, RunningOn, Running
  <2>2. /\ Resume \in Seq(Frames) /\ <<Frame("Cleanup", c)>> \o Resume \in Seq(Frames)
        /\ ReadHandled(c) \o Resume \in Seq(Frames)
    BY <2>1, GoOn, FrameIs DEF ConnOps, ReadHandled, ReadCallback
  <2>3. LoopTypes'
    <3>1. stack' \in Seq(Frames)
      BY <1>0, <1>11, <2>2 DEF HandleRead, Recv, WouldBlock, Disconnected, LoopTypes
    <3> QED
      BY <1>11, <2>1, <3>1, StackTypes DEF HandleRead
  <2>4. CASE UNCHANGED <<con, peer>>
    BY <1>11, <2>3, <2>4, TypesKept DEF HandleRead, Types, envVars
  <2>5. CASE Recv(c)
    <3>1. con[c].input \o peer[c].kern \in Seq(Value)
      BY <1>0, ConcatProperties DEF ConTypes, PeerTypes
    <3>2. ConTypes'
      BY <1>0, <1>11, <2>5, <3>1 DEF HandleRead, Recv, ConTypes
    <3>3. PeerTypes'
      <4> DEFINE r == [peer[c] EXCEPT !.kern = <<>>]
      <4>1. peer' = [peer EXCEPT ![c] = r]
        BY <2>5 DEF Recv
      <4>2. <<>> \in Seq(Value)
        OBVIOUS
      <4>3. r \in [kern : Seq(Value), end : {"none", "open", "fin", "rst"},
                   next : Units \cup {1 + u : u \in Units} \cup {1, Bad}]
        BY <1>0, <4>2 DEF PeerTypes
      <4> HIDE DEF r
      <4> QED
        BY <1>0, <1>11, <4>1, <4>3 DEF HandleRead, PeerTypes
    <3> QED
      BY <1>11, <2>3, <3>2, <3>3, TypesKept DEF HandleRead, Types
  <2> QED
    BY <1>11, <2>4, <2>5 DEF HandleRead, WouldBlock, Disconnected
<1>12. ASSUME NEW c \in Conns, HandleWrite(c)
       PROVE  Types'
  <2>1. stack # <<>>
    BY <1>12 DEF HandleWrite, RunningOn, Running
  <2>2. LoopTypes'
    BY <1>12, <2>1, GoOn, StackTypes DEF HandleWrite
  <2>3. PollTypes' /\ ChanTypes'
    BY <1>12, EnableWriteTypes, TypesKept DEF HandleWrite
  <2> QED
    BY <1>12, <2>2, <2>3, TypesKept DEF HandleWrite, Types
<1>13. ASSUME NEW c \in Conns, OnMsg(c)
       PROVE  Types'
  <2>1. stack # <<>>
    BY <1>13 DEF OnMsg, RunningOn, Running
  <2>2. CASE Complete(con[c].input)
    <3>1. LoopTypes'
      BY <1>0, <1>13, <2>1, <2>2, StackTypes DEF OnMsg, LoopTypes
    <3>2. ConTypes'
      <4>1. con[c].input \in Seq(Value) /\ con[c].input[2] \in Value /\ con[c].input[2] # Bad
        BY <1>0, <2>2 DEF ConTypes, Complete
      <4>2. con[c].input[2] \div 2 \in Nat
        <5>1. con[c].input[2] \in Nat
          BY <4>1, UnitsIs DEF Value
        <5> QED
          BY <5>1
      <4>3. delivered' \in [Conns -> Seq(Nat)]
        <5>1. Append(delivered[c], con[c].input[2] \div 2) \in Seq(Nat)
          BY <1>0, <4>2, AppendProperties DEF ConTypes
        <5>2. delivered' = [delivered EXCEPT ![c] = Append(@, con[c].input[2] \div 2)]
          BY <1>13, <2>2 DEF OnMsg
        <5> QED
          BY <1>0, <5>1, <5>2 DEF ConTypes
      <4>4. Consume(con[c].input) \in Seq(Value)
        BY <4>1, SubSeqProperties DEF Consume
      <4>5. con' = [con EXCEPT ![c].input = Consume(@)]
        BY <1>13, <2>2 DEF OnMsg
      <4>6. con' \in [Conns -> [state : {"Invalid", "Handshaking", "Connected", "Closed", "Failed"},
                               channel : BOOLEAN, cbs : BOOLEAN,
                               input : Seq(Value), idleIds : BOOLEAN]]
        BY <1>0, <4>4, <4>5 DEF ConTypes
      <4>7. UNCHANGED <<conns, idleConns, notified>>
        BY <1>13 DEF OnMsg, baseVars
      <4> QED
        BY <1>0, <4>3, <4>6, <4>7 DEF ConTypes
    <3>3. PollTypes' /\ ChanTypes' /\ TaskTypes'
      <4>1. CASE EnableWrite(c, TRUE) /\ UNCHANGED <<tasks, wakeBytes, closeCalls>>
        BY <4>1, EnableWriteTypes, TypesKept
      <4>2. CASE CanClose(c) /\ PostClose(<<c>>) /\ UNCHANGED <<pollVars, chan>>
        <5>1. <<c>> \in Seq({c})
          OBVIOUS
        <5>2. TaskTypes'
          BY <1>0, <4>2, <5>1, PostCloseIs
        <5> QED
          BY <4>2, <5>2, TypesKept
      <4> QED
        BY <1>13, <2>2, <4>1, <4>2, TypesKept DEF OnMsg
    <3> QED
      BY <1>13, <3>1, <3>2, <3>3, TypesKept DEF OnMsg, Types
  <2>3. CASE ~Complete(con[c].input)
    <3>1. Resume \in Seq(Frames)
      BY <2>1, GoOn
    <3>2. PollTypes' /\ ChanTypes' /\ stack' \in Seq(Frames)
      BY <1>13, <2>3, <3>1, CloseChannelTypes, TypesKept DEF OnMsg
    <3>3. LoopTypes'
      BY <1>13, <2>1, <3>2, StackTypes DEF OnMsg
    <3> QED
      BY <1>13, <2>3, <3>2, <3>3, TypesKept DEF OnMsg, Types
  <2> QED
    BY <2>2, <2>3
<1>14. ASSUME NEW c \in Conns, Cleanup(c)
       PROVE  Types'
  <2>1. stack # <<>>
    BY <1>14 DEF Cleanup, RunningOn, Running
  <2>2. stack' \in Seq(Frames)
    BY <1>14, <2>1, GoOn, FrameIs DEF Cleanup, RestHandled, ReadCallback, ConnOps
  <2>3. LoopTypes'
    BY <1>14, <2>1, <2>2, StackTypes DEF Cleanup
  <2> QED
    BY <1>14, <2>3, TypesKept DEF Cleanup, Types
<1>15. ASSUME NEW c \in Conns, Finish(c)
       PROVE  Types'
  <2>1. stack # <<>>
    BY <1>15 DEF Finish, RunningOn, Running
  <2>2. stack' \in Seq(Frames)
    BY <1>15, <2>1, GoOn, FrameIs DEF Finish, ConnOps
  <2>3. LoopTypes'
    BY <1>15, <2>1, <2>2, StackTypes DEF Finish
  <2>4. ConTypes'
    <3> DEFINE r == [con[c] EXCEPT !.state = EndState(c), !.cbs = FALSE, !.channel = FALSE]
    <3>1. EndState(c) \in {"Closed", "Failed"}
      BY DEF EndState
    <3>2. con' = [con EXCEPT ![c] = r]
      BY <1>15 DEF Finish
    <3>3. r \in [state : {"Invalid", "Handshaking", "Connected", "Closed", "Failed"},
                 channel : BOOLEAN, cbs : BOOLEAN, input : Seq(Value), idleIds : BOOLEAN]
      BY <1>0, <3>1 DEF ConTypes
    <3> HIDE DEF r
    <3>4. notified' \in [Conns -> Seq({"Connected", "Closed", "Failed"})]
      BY <1>0, <1>15, <3>1, AppendProperties DEF Finish, ConTypes
    <3>5. IsFiniteSet(idleConns') /\ idleConns' \subseteq idleConns /\ conns' \subseteq conns
      BY <1>0, <1>15, FS_RemoveElement DEF Finish, ConTypes, RemoveConn
    <3>6. con' \in [Conns -> [state : {"Invalid", "Handshaking", "Connected", "Closed", "Failed"},
                             channel : BOOLEAN, cbs : BOOLEAN, input : Seq(Value), idleIds : BOOLEAN]]
      BY <1>0, <3>2, <3>3 DEF ConTypes
    <3>7. UNCHANGED delivered
      BY <1>15 DEF Finish
    <3> QED
      BY <1>0, <3>4, <3>5, <3>6, <3>7 DEF ConTypes
  <2> QED
    BY <1>15, <2>3, <2>4, TypesKept DEF Finish, Types
<1>16. ASSUME NEW c \in Conns, Delete(c)
       PROVE  Types'
  <2>1. stack # <<>>
    BY <1>16 DEF Delete, Running
  <2>2. <<Frame("Free", c)>> \o Resume \in Seq(Frames)
    BY <2>1, GoOn, FrameIs DEF ConnOps
  <2>3. PollTypes' /\ ChanTypes' /\ stack' \in Seq(Frames)
    BY <1>16, <2>2, CloseChannelTypes DEF Delete
  <2>4. LoopTypes'
    BY <1>16, <2>1, <2>3, StackTypes DEF Delete
  <2> QED
    BY <1>16, <2>3, <2>4, TypesKept DEF Delete, Types
<1>17. ASSUME NEW c \in Conns, Free(c)
       PROVE  Types'
  <2>1. stack # <<>>
    BY <1>17 DEF Free, Running
  <2>2. LoopTypes'
    BY <1>17, <2>1, GoOn, StackTypes DEF Free
  <2>3. ChanTypes'
    BY <1>0, <1>17, ChannelField DEF Free
  <2> QED
    BY <1>17, <2>2, <2>3, TypesKept DEF Free, Types
<1>18. CASE Crash
  <2>1. LoopTypes'
    BY <1>0, <1>18 DEF Crash, LoopTypes
  <2> QED
    BY <1>18, <2>1, TypesKept DEF Crash, Types
<1>19. ASSUME NEW c \in Conns, Peer(c)
       PROVE  Types'
  <2>1. PeerTypes'
    <3>1. peer[c] \in [kern : Seq(Value), end : {"none", "open", "fin", "rst"},
                       next : Units \cup {1 + u : u \in Units} \cup {1, Bad}]
      BY <1>0 DEF PeerTypes
    <3>2. CASE Connect(c)
      <4>1. Append(backlog, c) \in Seq(Conns)
        BY <1>0, AppendProperties DEF PeerTypes
      <4> QED
        BY <1>0, <1>19, <3>2, <4>1 DEF Peer, Connect, PeerTypes
    <3> DEFINE P == [kern : Seq(Value), end : {"none", "open", "fin", "rst"},
                     next : Units \cup {1 + u : u \in Units} \cup {1, Bad}]
    <3>3. CASE SendHalf(c)
      <4> DEFINE n == peer[c].next
                 r == [kern |-> Append(peer[c].kern, n), end |-> peer[c].end, next |-> n + 1]
      <4>1. n \in Units /\ n \in Nat
        BY <3>3, UnitsIs DEF SendHalf
      <4>2. Append(peer[c].kern, n) \in Seq(Value)
        BY <3>1, <4>1, AppendProperties DEF Value
      <4>3. n + 1 \in {1 + u : u \in Units}
        BY <4>1
      <4>4. peer'[c].next = n + 1 /\ peer'[c].kern = Append(peer[c].kern, n)
            /\ peer'[c].end = peer[c].end
        BY <1>0, <3>1, <3>3 DEF SendHalf, PeerTypes
      <4>5. peer' = [peer EXCEPT ![c] = r]
        BY <1>0, <3>1, <3>3 DEF SendHalf, PeerTypes
      <4>6. r \in P
        BY <3>1, <4>2, <4>3
      <4> HIDE DEF r, P
      <4>7. peer \in [Conns -> P]
        BY <1>0 DEF PeerTypes, P
      <4>8. peer' \in [Conns -> P]
        BY <4>5, <4>6, <4>7
      <4> QED
        BY <1>0, <1>19, <3>3, <4>8 DEF Peer, SendHalf, PeerTypes, P
    <3>4. CASE SendBad(c)
      <4> DEFINE r == [kern |-> Append(peer[c].kern, Bad), end |-> peer[c].end, next |-> Bad]
      <4>1. Append(peer[c].kern, Bad) \in Seq(Value)
        BY <3>1, AppendProperties DEF Value
      <4>2. peer' = [peer EXCEPT ![c] = r]
        BY <1>0, <3>1, <3>4 DEF SendBad, PeerTypes
      <4>3. r \in P
        BY <3>1, <4>1
      <4> HIDE DEF r, P
      <4>4. peer \in [Conns -> P]
        BY <1>0 DEF PeerTypes, P
      <4>5. peer' \in [Conns -> P]
        BY <4>2, <4>3, <4>4
      <4> QED
        BY <1>0, <1>19, <3>4, <4>5 DEF Peer, SendBad, PeerTypes, P
    <3>5. CASE HangUp(c)
      BY <1>0, <1>19, <3>1, <3>5 DEF Peer, HangUp, PeerTypes
    <3> QED
      BY <1>19, <3>2, <3>3, <3>4, <3>5 DEF Peer
  <2> QED
    BY <1>19, <2>1, TypesKept DEF Peer, Types
<1>20. ASSUME NEW c \in Conns, Assign(c)
       PROVE  Types'
  <2>1. PICK fd \in FreeFds : SafeCall(<<Task("Attach", c, fd)>>)
    BY <1>20 DEF Assign
  <2>2. Task("Attach", c, fd) \in Tasks
    BY DEF Task, Tasks, FreeFds
  <2>3. TaskTypes'
    <3>1. <<Task("Attach", c, fd)>> \in Seq(Tasks) /\ Len(<<Task("Attach", c, fd)>>) = 1
      BY <2>2
    <3>2. tasks' \in Seq(Tasks) /\ wakeBytes' = wakeBytes + 1
      BY <1>0, <2>1, <3>1, ConcatProperties DEF SafeCall, TaskTypes
    <3> QED
      BY <1>0, <1>20, <3>2 DEF Assign, TaskTypes
  <2>4. PeerTypes'
    BY <1>0, <1>20 DEF Assign, PeerTypes
  <2> QED
    BY <1>20, <2>3, <2>4, TypesKept DEF Assign, Types
<1>21. CASE UNCHANGED vars
  BY <1>21, TypesKept DEF vars, loopVars, Types
<1> QED
  BY <1>1, <1>2, <1>3, <1>4, <1>5, <1>6, <1>7, <1>8, <1>9, <1>10, <1>11, <1>12, <1>13,
     <1>14, <1>15, <1>16, <1>17, <1>18, <1>19, <1>20, <1>21
  DEF Next, Loop, Handler, Crashed

\* The types hold always.
THEOREM TypesAlways == Spec => []Types
<1>1. Init => Types
  BY TypesInit
<1>2. Types /\ [Next]_vars => Types'
  BY TypesStep
<1> QED
  BY <1>1, <1>2, PTL DEF Spec

----------------------------------------------------------------------------
(* Messages.  What a connection has received and not delivered, and what   *)
(* is still in the kernel, continue what it has delivered; a bad header    *)
(* can only be the last of it.                                             *)

Unread(c) == con[c].input \o peer[c].kern

\* u are the halves after message d, up to the next one to be sent, n; m is
\* the number of messages.
Continues(u, d, n, m) ==
  /\ \A i \in 1 .. Len(u) : u[i] = 2 * d + i \/ (u[i] = Bad /\ n = Bad /\ i = Len(u))
  /\ n # Bad => n = 2 * d + Len(u) + 1 /\ n <= 2 * m + 1
  /\ n = Bad => Len(u) % 2 = 1 /\ u[Len(u)] = Bad /\ 2 * d + Len(u) <= 2 * m + 1

InTurn ==
  \A c \in Conns :
    /\ \A i \in 1 .. Len(delivered[c]) : delivered[c][i] = i
    /\ Len(delivered[c]) <= MaxMsgs[c]
    /\ Continues(Unread(c), Len(delivered[c]), peer[c].next, MaxMsgs[c])

\* A half that the peer sends continues its messages.
LEMMA ContinuesHalf ==
  ASSUME NEW u \in Seq(Value), NEW d \in Nat, NEW m \in Nat, NEW n \in 1 .. 2 * m,
         n \in Units, Continues(u, d, n, m)
  PROVE  Continues(Append(u, n), d, n + 1, m)
<1> DEFINE t == Append(u, n)
           k == Len(u)
<1>1. /\ Len(t) = k + 1 /\ t[k + 1] = n /\ k \in Nat
      /\ \A i \in 1 .. k : t[i] = u[i]
  BY AppendProperties DEF Value
<1>2. n # Bad /\ n + 1 # Bad
  BY ReactorAssumption
<1>3. n = 2 * d + k + 1 /\ \A i \in 1 .. k : u[i] = 2 * d + i
  BY <1>2 DEF Continues
<1> HIDE DEF t, k
<1>4. \A i \in 1 .. k + 1 : t[i] = 2 * d + i
  <2> SUFFICES ASSUME NEW i \in 1 .. k + 1 PROVE t[i] = 2 * d + i
    OBVIOUS
  <2>1. i \in 1 .. k \/ i = k + 1
    BY <1>1
  <2> QED
    BY <1>1, <1>3, <2>1
<1>5. Continues(t, d, n + 1, m)
  BY <1>1, <1>2, <1>3, <1>4 DEF Continues
<1> QED
  BY <1>5 DEF t

\* A bad header between two messages is the last thing a peer sends.
LEMMA ContinuesBad ==
  ASSUME NEW u \in Seq(Value), NEW d \in Nat, NEW m \in Nat, NEW n \in Nat,
         n % 2 = 1, Continues(u, d, n, m)
  PROVE  Continues(Append(u, Bad), d, Bad, m)
<1> DEFINE t == Append(u, Bad)
           k == Len(u)
<1>1. /\ Len(t) = k + 1 /\ t[k + 1] = Bad /\ k \in Nat
      /\ \A i \in 1 .. k : t[i] = u[i]
  BY AppendProperties DEF Value
<1>2. n # Bad
  BY ReactorAssumption
<1>3. n = 2 * d + k + 1 /\ n <= 2 * m + 1 /\ \A i \in 1 .. k : u[i] = 2 * d + i
  BY <1>2 DEF Continues
<1> HIDE DEF t, k
<1>4. \A i \in 1 .. k + 1 : t[i] = 2 * d + i \/ (t[i] = Bad /\ i = k + 1)
  <2> SUFFICES ASSUME NEW i \in 1 .. k + 1
               PROVE  t[i] = 2 * d + i \/ (t[i] = Bad /\ i = k + 1)
    OBVIOUS
  <2>1. i \in 1 .. k \/ i = k + 1
    BY <1>1
  <2> QED
    BY <1>1, <1>3, <2>1
<1>5. (k + 1) % 2 = 1 /\ 2 * d + (k + 1) <= 2 * m + 1
  BY <1>1, <1>3
<1>6. Continues(t, d, Bad, m)
  BY <1>1, <1>4, <1>5 DEF Continues
<1> QED
  BY <1>6 DEF t

\* A complete message is the next one, and what is left continues after it.
LEMMA ContinuesConsumed ==
  ASSUME NEW x \in Seq(Value), NEW y \in Seq(Value), NEW d \in Nat, NEW m \in Nat, NEW n,
         Complete(x), Continues(x \o y, d, n, m)
  PROVE  /\ Consume(x) \in Seq(Value)
         /\ x[2] \div 2 = d + 1 /\ d + 1 <= m
         /\ Continues(Consume(x) \o y, d + 1, n, m)
<1> DEFINE u == x \o y
           z == Consume(x)
           t == z \o y
           k == Len(u)
           a == Len(x)
           b == Len(y)
<1>1. a \in Nat /\ b \in Nat /\ a >= 2 /\ x[1] # Bad /\ x[2] # Bad
  BY DEF Complete
<1>2. /\ u \in Seq(Value) /\ k = a + b
      /\ \A i \in 1 .. a + b : u[i] = IF i <= a THEN x[i] ELSE y[i - a]
  BY ConcatProperties
<1>3. /\ z \in Seq(Value) /\ Len(z) = a - 2
      /\ \A i \in 1 .. a - 2 : z[i] = x[i + 2]
  <2>1. \A i \in 3 .. a : x[i] \in Value
    BY <1>1
  <2>2. /\ z \in Seq(Value) /\ Len(z) = (IF 3 <= a THEN a - 3 + 1 ELSE 0)
        /\ \A i \in 1 .. a - 3 + 1 : z[i] = x[3 + i - 1]
    BY <1>1, <2>1, SubSeqProperties DEF Consume
  <2> HIDE DEF z, a
  <2>3. a - 3 + 1 = a - 2 /\ \A i \in 1 .. a - 2 : 3 + i - 1 = i + 2
    BY <1>1
  <2> QED
    BY <1>1, <2>2, <2>3
<1> HIDE DEF z, u, k
<1>4. /\ t \in Seq(Value) /\ Len(t) = Len(z) + b
      /\ \A i \in 1 .. Len(z) + b : t[i] = IF i <= Len(z) THEN z[i] ELSE y[i - Len(z)]
  BY <1>3, ConcatProperties
<1> HIDE DEF t, a, b
<1>5. Len(t) = k - 2 /\ k \in Nat /\ k >= 2
  BY <1>1, <1>2, <1>3, <1>4
<1>6. \A i \in 1 .. k - 2 : t[i] = u[i + 2]
  <2> SUFFICES ASSUME NEW i \in 1 .. k - 2 PROVE t[i] = u[i + 2]
    OBVIOUS
  <2>1. i \in 1 .. Len(z) + b /\ i + 2 \in 1 .. a + b
    BY <1>1, <1>2, <1>3
  <2>2. CASE i <= a - 2
    BY <1>1, <1>2, <1>3, <1>4, <2>1, <2>2
  <2>3. CASE ~(i <= a - 2)
    <3>1. ~(i <= Len(z)) /\ ~(i + 2 <= a) /\ i - Len(z) = (i + 2) - a
      BY <1>1, <1>3, <2>3
    <3>2. t[i] = y[i - Len(z)]
      BY <1>4, <2>1, <3>1
    <3>3. \A j \in 1 .. a + b : ~(j <= a) => u[j] = y[j - a]
      BY <1>2
    <3>4. u[i + 2] = y[(i + 2) - a]
      BY <2>1, <3>1, <3>3, Zenon
    <3> QED
      BY <3>1, <3>2, <3>4
  <2> QED
    BY <2>2, <2>3
<1>7. u[1] = x[1] /\ u[2] = x[2]
  BY <1>1, <1>2
<1>8. Continues(u, d, n, m)
  BY DEF u
<1>9. x[2] = 2 * d + 2
  BY <1>1, <1>5, <1>7, <1>8 DEF Continues, k
<1>10. x[2] \div 2 = d + 1
  BY <1>9
<1>11. CASE n # Bad
  <2>1. n = 2 * d + k + 1 /\ n <= 2 * m + 1 /\ \A i \in 1 .. k : u[i] = 2 * d + i
    BY <1>8, <1>11 DEF Continues, k
  <2>2. d + 1 <= m /\ n = 2 * (d + 1) + (k - 2) + 1
    BY <1>5, <2>1
  <2>3. \A i \in 1 .. k - 2 : i + 2 \in 1 .. k /\ 2 * d + (i + 2) = 2 * (d + 1) + i
    BY <1>5
  <2>4. \A i \in 1 .. k - 2 : t[i] = 2 * (d + 1) + i
    BY <1>6, <2>1, <2>3
  <2> QED
    BY <1>3, <1>5, <1>10, <1>11, <2>1, <2>2, <2>4 DEF Continues, t, z
<1>12. CASE n = Bad
  <2>1. /\ k % 2 = 1 /\ u[k] = Bad /\ 2 * d + k <= 2 * m + 1
        /\ \A i \in 1 .. k : u[i] = 2 * d + i \/ (u[i] = Bad /\ i = k)
    BY <1>8, <1>12 DEF Continues, k
  <2>2. d + 1 <= m /\ 2 * (d + 1) + (k - 2) <= 2 * m + 1 /\ (k - 2) % 2 = 1 /\ k - 2 \in 1 .. k - 2
    <3>1. k \in Nat /\ k >= 2 /\ k % 2 = 1 /\ 2 * d + k <= 2 * m + 1
      BY <1>5, <2>1
    <3>2. k >= 3 /\ (k - 2) % 2 = 1
      BY <3>1
    <3>3. d + 1 <= m /\ 2 * (d + 1) + (k - 2) <= 2 * m + 1
      BY <3>1, <3>2
    <3> QED
      BY <3>1, <3>2, <3>3
  <2>3. \A i \in 1 .. k - 2 : i + 2 \in 1 .. k /\ 2 * d + (i + 2) = 2 * (d + 1) + i
                              /\ (i + 2 = k => i = k - 2)
    BY <1>5
  <2>4. \A i \in 1 .. k - 2 : t[i] = 2 * (d + 1) + i \/ (t[i] = Bad /\ i = k - 2)
    BY <1>6, <2>1, <2>3
  <2>5. t[k - 2] = Bad
    BY <1>5, <1>6, <2>1, <2>2
  <2> QED
    BY <1>3, <1>5, <1>10, <1>12, <2>2, <2>4, <2>5 DEF Continues, t, z
<1> QED
  BY <1>11, <1>12

\* What is received, what is in the kernel and what comes.
LEMMA JoinedThree ==
  ASSUME NEW S, NEW x \in Seq(S), NEW y \in Seq(S), NEW z \in Seq(S)
  PROVE  x \o (y \o z) = (x \o y) \o z
BY ConcatAssociative, SMTT(30)

\* The messages of the connections that do not change.
LEMMA InTurnKept ==
  ASSUME Types, InTurn, NEW c \in Conns,
         con'[c].input = con[c].input, peer'[c].kern = peer[c].kern,
         peer'[c].next = peer[c].next, delivered'[c] = delivered[c]
  PROVE  /\ \A i \in 1 .. Len(delivered[c])' : delivered[c]'[i] = i
         /\ Len(delivered[c])' <= MaxMsgs[c]
         /\ Continues(Unread(c)', Len(delivered[c])', peer[c].next', MaxMsgs[c])
BY DEF InTurn, Unread

\* Receiving, consuming and delivering keep the messages of a connection in turn.
LEMMA InTurnStep ==
  ASSUME Types, InTurn, [Next]_vars
  PROVE  InTurn'
<1> DEFINE Kept(c) == /\ con'[c].input = con[c].input /\ delivered'[c] = delivered[c]
                      /\ peer'[c].kern = peer[c].kern /\ peer'[c].next = peer[c].next
           Holds(c) == /\ \A i \in 1 .. Len(delivered[c])' : delivered[c]'[i] = i
                       /\ Len(delivered[c])' <= MaxMsgs[c]
                       /\ Continues(Unread(c)', Len(delivered[c])', peer[c].next', MaxMsgs[c])
<1>1. \A c \in Conns : Kept(c) => Holds(c)
  BY InTurnKept
<1>2. (\A c \in Conns : Holds(c)) => InTurn'
  BY DEF InTurn
<1>3. ConTypes /\ PeerTypes
  BY DEF Types
<1>4. \A c \in Conns : con[c].input \in Seq(Value) /\ peer[c].kern \in Seq(Value)
                      /\ Len(delivered[c]) \in Nat /\ MaxMsgs[c] \in Nat
                      /\ delivered[c] \in Seq(Nat)
  BY <1>3, ReactorAssumption DEF ConTypes, PeerTypes
<1>5. \A c \in Conns : Unread(c) \in Seq(Value)
  BY <1>4, ConcatProperties DEF Unread
<1>6. ASSUME NEW c \in Conns, Recv(c), UNCHANGED delivered
      PROVE  \A d \in Conns : Holds(d)
  <2>1. \A d \in Conns : d # c => Kept(d)
    BY <1>3, <1>6 DEF Recv, ConTypes, PeerTypes
  <2>2. con'[c].input = con[c].input \o peer[c].kern /\ peer'[c].kern = <<>>
        /\ peer'[c].next = peer[c].next /\ delivered'[c] = delivered[c]
    <3>1. con' = [con EXCEPT ![c].input = @ \o peer[c].kern] /\ peer' = [peer EXCEPT ![c].kern = <<>>]
      BY <1>6 DEF Recv
    <3>2. con'[c].input = con[c].input \o peer[c].kern
      BY <1>3, <3>1 DEF ConTypes
    <3>3. peer'[c].kern = <<>> /\ peer'[c].next = peer[c].next
      BY <1>3, <3>1 DEF PeerTypes
    <3> QED
      BY <1>6, <3>2, <3>3
  <2>3. Unread(c)' = Unread(c)
    BY <1>5, <2>2, ConcatEmptySeq DEF Unread
  <2>4. Holds(c)
    BY <2>2, <2>3 DEF InTurn
  <2> QED
    BY <1>1, <2>1, <2>4
<1>7. ASSUME NEW c \in Conns, OnMsg(c)
      PROVE  \A d \in Conns : Holds(d)
  <2>1. CASE Complete(con[c].input)
    <3> DEFINE x == con[c].input
               d == Len(delivered[c])
    <3>1. /\ delivered' = [delivered EXCEPT ![c] = Append(@, x[2] \div 2)]
          /\ con' = [con EXCEPT ![c].input = Consume(@)] /\ UNCHANGED peer
      BY <1>7, <2>1 DEF OnMsg, envVars
    <3>2. \A e \in Conns : e # c => Kept(e)
      BY <1>3, <3>1 DEF ConTypes, PeerTypes
    <3>3. con'[c].input = Consume(x) /\ peer'[c] = peer[c]
          /\ delivered'[c] = Append(delivered[c], x[2] \div 2)
      BY <1>3, <3>1 DEF ConTypes
    <3>4. /\ x[2] \div 2 = d + 1 /\ d + 1 <= MaxMsgs[c]
          /\ Continues(Consume(x) \o peer[c].kern, d + 1, peer[c].next, MaxMsgs[c])
      BY <1>4, <2>1, ContinuesConsumed DEF InTurn, Unread
    <3>5. /\ Len(delivered'[c]) = d + 1 /\ delivered'[c][d + 1] = d + 1
          /\ \A i \in 1 .. d : delivered'[c][i] = i
      BY <1>4, <3>3, <3>4, AppendProperties DEF InTurn
    <3>6. \A i \in 1 .. d + 1 : delivered'[c][i] = i
      BY <1>4, <3>5
    <3>7. Holds(c)
      BY <3>3, <3>4, <3>5, <3>6 DEF Unread
    <3> QED
      BY <1>1, <3>2, <3>7
  <2>2. CASE ~Complete(con[c].input)
    BY <1>1, <1>7, <2>2 DEF OnMsg, envVars
  <2> QED
    BY <2>1, <2>2
<1>8. ASSUME NEW c \in Conns, Peer(c)
      PROVE  \A d \in Conns : Holds(d)
  <2>0. UNCHANGED <<con, delivered>>
    BY <1>8 DEF Peer, histVars
  <2>1. \A d \in Conns : d # c => Kept(d)
    BY <1>3, <1>8, <2>0 DEF Peer, Connect, SendHalf, SendBad, HangUp, PeerTypes
  <2>2. CASE Connect(c) \/ HangUp(c)
    <3>1. PICK how : peer' = [peer EXCEPT ![c].end = how]
      BY <2>2 DEF Connect, HangUp
    <3>2. peer'[c].kern = peer[c].kern /\ peer'[c].next = peer[c].next
      BY <1>3, <3>1 DEF PeerTypes
    <3>3. Kept(c)
      BY <2>0, <3>2
    <3> QED
      BY <1>1, <2>1, <3>3
  <2>3. CASE SendHalf(c)
    <3> DEFINE n == peer[c].next
    <3>1. n \in 1 .. 2 * MaxMsgs[c] /\ n \in Units
      BY <2>3, UnitsIs DEF SendHalf
    <3>2. peer'[c].kern = Append(peer[c].kern, n) /\ peer'[c].next = n + 1
      BY <1>3, <2>3 DEF SendHalf, PeerTypes
    <3>3. Continues(Append(Unread(c), n), Len(delivered[c]), n + 1, MaxMsgs[c])
      BY <1>4, <1>5, <3>1, ContinuesHalf DEF InTurn
    <3>4. Unread(c)' = Append(Unread(c), n)
      <4>1. n \in Value /\ <<n>> \in Seq(Value)
        BY <3>1 DEF Value
      <4>2. Append(peer[c].kern, n) = peer[c].kern \o <<n>>
            /\ Append(Unread(c), n) = Unread(c) \o <<n>>
        BY <1>4, <1>5, <4>1, AppendIsConcat
      <4>3. con[c].input \o (peer[c].kern \o <<n>>) = (con[c].input \o peer[c].kern) \o <<n>>
        <5> DEFINE x == con[c].input
                   y == peer[c].kern
                   z == <<n>>
        <5>1. x \in Seq(Value) /\ y \in Seq(Value) /\ z \in Seq(Value)
          BY <1>4, <4>1
        <5> HIDE DEF x, y, z
        <5>2. x \o (y \o z) = (x \o y) \o z
          BY <5>1, JoinedThree
        <5> QED
          BY <5>2 DEF x, y, z
      <4> QED
        BY <2>0, <3>2, <4>2, <4>3 DEF Unread
    <3>5. Holds(c)
      BY <2>0, <3>2, <3>3, <3>4 DEF InTurn
    <3> QED
      BY <1>1, <2>1, <3>5
  <2>4. CASE SendBad(c)
    <3> DEFINE n == peer[c].next
    <3>1. n \in Nat /\ n % 2 = 1
      <4>1. n \in Units \cup {1 + u : u \in Units} \cup {1, Bad} /\ n # Bad /\ n % 2 = 1
        BY <1>3, <2>4 DEF SendBad, PeerTypes
      <4>2. \A u \in Units : u \in Nat /\ 1 + u \in Nat
        BY UnitsIs
      <4> QED
        BY <4>1, <4>2
    <3>2. peer'[c].kern = Append(peer[c].kern, Bad) /\ peer'[c].next = Bad
      BY <1>3, <2>4 DEF SendBad, PeerTypes
    <3>3. Continues(Append(Unread(c), Bad), Len(delivered[c]), Bad, MaxMsgs[c])
      BY <1>4, <1>5, <3>1, ContinuesBad DEF InTurn
    <3>4. Unread(c)' = Append(Unread(c), Bad)
      <4>1. Bad \in Value /\ <<Bad>> \in Seq(Value)
        BY DEF Value
      <4>2. Append(peer[c].kern, Bad) = peer[c].kern \o <<Bad>>
            /\ Append(Unread(c), Bad) = Unread(c) \o <<Bad>>
        BY <1>4, <1>5, <4>1, AppendIsConcat
      <4>3. con[c].input \o (peer[c].kern \o <<Bad>>) = (con[c].input \o peer[c].kern) \o <<Bad>>
        <5> DEFINE x == con[c].input
                   y == peer[c].kern
                   z == <<Bad>>
        <5>1. x \in Seq(Value) /\ y \in Seq(Value) /\ z \in Seq(Value)
          BY <1>4, <4>1
        <5> HIDE DEF x, y, z
        <5>2. x \o (y \o z) = (x \o y) \o z
          BY <5>1, JoinedThree
        <5> QED
          BY <5>2 DEF x, y, z
      <4> QED
        BY <2>0, <3>2, <4>2, <4>3 DEF Unread
    <3>5. Holds(c)
      BY <2>0, <3>2, <3>3, <3>4 DEF InTurn
    <3> QED
      BY <1>1, <2>1, <3>5
  <2> QED
    BY <1>8, <2>2, <2>3, <2>4 DEF Peer
<1>9. ASSUME NEW c \in Conns, NEW fd, Attach(c, fd), UNCHANGED <<peer, delivered>>
      PROVE  \A d \in Conns : Holds(d)
  BY <1>1, <1>3, <1>9 DEF Attach, ConTypes
<1>10. CASE UNCHANGED <<con, peer, delivered>>
  BY <1>1, <1>2, <1>10
<1>11. CASE HandleAccept
  <2>1. CASE UNCHANGED con
    BY <1>10, <1>11, <2>1 DEF HandleAccept, histVars
  <2>2. CASE \E fd \in FreeFds : Attach(Head(backlog), fd) /\ backlog # <<>>
    <3>1. Head(backlog) \in Conns
      BY <1>3, <2>2 DEF PeerTypes
    <3> QED
      BY <1>2, <1>9, <1>11, <2>2, <3>1 DEF HandleAccept, histVars
  <2> QED
    BY <1>11, <2>1, <2>2 DEF HandleAccept
<1>12. CASE Drain
  <2>1. CASE UNCHANGED con
    BY <1>10, <1>12, <2>1 DEF Drain, histVars, envVars
  <2>2. CASE Attach(Head(tasks).c, Head(tasks).fd) /\ tasks # <<>>
    <3>1. Head(tasks).c \in Conns
      <4>1. Head(tasks) \in Tasks
        BY <2>2, HeadTailProperties DEF Types, TaskTypes
      <4> QED
        BY <4>1 DEF Tasks
    <3> QED
      BY <1>2, <1>9, <1>12, <2>2, <3>1 DEF Drain, histVars, envVars
  <2> QED
    BY <1>12, <2>1, <2>2 DEF Drain
<1>13. ASSUME NEW c \in Conns, NEW op, HandleHandshake(op, c)
       PROVE  InTurn'
  <2>1. \/ UNCHANGED con
        \/ \E idle \in BOOLEAN :
             con' = [con EXCEPT ![c].state = "Connected", ![c].idleIds = idle]
    BY <1>13 DEF HandleHandshake
  <2>2. \A d \in Conns : con'[d].input = con[d].input
    <3>1. CASE \E idle \in BOOLEAN :
                 con' = [con EXCEPT ![c].state = "Connected", ![c].idleIds = idle]
      <4>1. PICK idle \in BOOLEAN :
              con' = [con EXCEPT ![c].state = "Connected", ![c].idleIds = idle]
        BY <3>1
      <4> QED
        BY <1>3, <4>1 DEF ConTypes
    <3> QED
      BY <2>1, <3>1
  <2>3. UNCHANGED <<peer, delivered>>
    BY <1>13 DEF HandleHandshake, envVars
  <2> QED
    BY <1>1, <1>2, <2>2, <2>3
<1>14. ASSUME NEW c \in Conns, HandleRead(c)
       PROVE  InTurn'
  BY <1>2, <1>6, <1>10, <1>14 DEF HandleRead, WouldBlock, Disconnected, histVars
<1>15. ASSUME NEW c \in Conns, Finish(c)
       PROVE  InTurn'
  BY <1>1, <1>2, <1>3, <1>15 DEF Finish, ConTypes, envVars
<1>16. ASSUME NEW c \in Conns, HandleWrite(c) \/ Cleanup(c) \/ Delete(c) \/ Free(c) \/ Assign(c)
       PROVE  InTurn'
  BY <1>10, <1>16 DEF HandleWrite, Cleanup, Delete, Free, Assign, histVars, envVars
<1>17. CASE Select \/ Scan \/ TryWrite \/ Tally \/ EndScan \/ HandleTimeouts \/ HandleWakeup \/ Crash
  BY <1>10, <1>17 DEF Select, Scan, TryWrite, Tally, EndScan, HandleTimeouts, HandleWakeup,
                      Crash, histVars, envVars
<1>18. CASE UNCHANGED vars
  BY <1>10, <1>18 DEF vars, histVars, envVars
<1> HIDE DEF Kept, Holds
<1> QED
  BY <1>2, <1>7, <1>8, <1>11, <1>12, <1>13, <1>14, <1>15, <1>16, <1>17, <1>18
  DEF Next, Loop, Handler, Crashed

\* What a connection has delivered is its peer's first messages, in order, and the
\* input with the bytes still in the kernel continues exactly after them (HandleRead,
\* OnMsg, Buffer::consume): nothing is lost, repeated or reordered.
THEOREM InTurnAlways == Spec => []InTurn
<1>1. Init => InTurn
  <2> SUFFICES ASSUME Init, NEW c \in Conns
               PROVE  /\ \A i \in 1 .. Len(delivered[c]) : delivered[c][i] = i
                      /\ Len(delivered[c]) <= MaxMsgs[c]
                      /\ Continues(Unread(c), Len(delivered[c]), peer[c].next, MaxMsgs[c])
    BY DEF InTurn
  <2>1. delivered[c] = <<>> /\ con[c].input = <<>> /\ peer[c].kern = <<>> /\ peer[c].next = 1
    BY DEF Init
  <2>2. <<>> \o <<>> = <<>>
    BY EmptySeq, ConcatEmptySeq
  <2>3. Unread(c) = <<>> /\ Len(<<>>) = 0 /\ 1 # Bad /\ MaxMsgs[c] \in Nat
    BY <2>1, <2>2, ReactorAssumption DEF Unread
  <2> QED
    BY <2>1, <2>3 DEF Continues
<1>2. Types /\ InTurn /\ [Next]_vars => InTurn'
  BY InTurnStep
<1> QED
  BY <1>1, <1>2, TypesAlways, PTL DEF Spec

\* The variables of the loop have their types.
THEOREM TypeCorrect == Spec => []TypeOK
<1>1. Types /\ InTurn => TypeOK
  <2> SUFFICES ASSUME Types, InTurn PROVE TypeOK
    OBVIOUS
  <2>1. delivered \in [Conns -> Seq(Messages)]
    <3> SUFFICES ASSUME NEW c \in Conns PROVE delivered[c] \in Seq(Messages)
      BY DEF Types, ConTypes
    <3>1. delivered[c] \in Seq(Nat) /\ Len(delivered[c]) \in Nat /\ MaxMsgs[c] \in Nat
      BY ReactorAssumption DEF Types, ConTypes
    <3>2. \A i \in 1 .. Len(delivered[c]) : delivered[c][i] = i /\ i \in 1 .. MaxMsgs[c]
      BY <3>1 DEF InTurn
    <3>3. \A i \in 1 .. Len(delivered[c]) : delivered[c][i] \in Messages
      BY <3>2 DEF Messages
    <3> QED
      BY <3>1, <3>3
  <2>2. \A i \in DOMAIN stack : stack[i] \in [op : Ops, c : Chans \cup {None}]
    <3>1. \A f \in Frames : f \in [op : Ops, c : Chans \cup {None}]
      BY FrameIs DEF Frame
    <3>2. stack \in Seq(Frames)
      BY DEF Types, LoopTypes
    <3>3. \A i \in DOMAIN stack : stack[i] \in Frames
      BY <3>2
    <3> QED
      BY <3>1, <3>3
  <2> QED
    BY <2>1, <2>2 DEF Types, TypeOK, LoopTypes, PollTypes, ScanTypes, ChanTypes, ConTypes,
                      TaskTypes, PeerTypes, Value, Tasks, Sockets
<1> QED
  BY <1>1, TypesAlways, InTurnAlways, PTL

----------------------------------------------------------------------------
(* The poller's list and sockets.  What a channel is told depends on where *)
(* its connection is on the way from the accept queue to its destruction.  *)

Unborn(c) == chan[c].mem = "unborn"
Attaches(i) == i \in DOMAIN tasks /\ tasks[i].op = "Attach"

\* A connection without a channel, and one whose channel is closed for good.
Born ==
  \A c \in Conns :
    /\ Unborn(c) => con[c].state = "Invalid"
    /\ con[c].channel => chan[c].mem = "alive"
    /\ peer[c].end = "none" => Unborn(c)

\* A connection that waits to be attached waits in one place, and the socket it
\* is to be given is nobody else's.
Waiting ==
  /\ Once(backlog)
  /\ \A c \in ToSet(backlog) : Unborn(c) /\ peer[c].end # "none"
  /\ \A i \in DOMAIN tasks : Attaches(i) =>
       /\ Unborn(tasks[i].c) /\ peer[tasks[i].c].end # "none" /\ tasks[i].c \notin ToSet(backlog)
       /\ tasks[i].fd \in Fds \ leaked /\ \A c \in Conns : chan[c].fd # tasks[i].fd
  /\ \A i, j \in DOMAIN tasks : Attaches(i) /\ Attaches(j) /\ i # j =>
       tasks[i].c # tasks[j].c /\ tasks[i].fd # tasks[j].fd
  /\ \A i \in DOMAIN tasks : tasks[i].op = "Close" =>
       ~Unborn(tasks[i].c) /\ closeCalls[tasks[i].c] > 0

\* Open sockets are different.
Apart ==
  /\ \A c, d \in Conns : chan[c].fd = chan[d].fd /\ chan[c].fd # NoFd => c = d
  /\ \A c \in Conns : chan[c].fd \notin leaked

\* What the frames of the stack have already done.
Begun(f) ==
  /\ f.op \in ConnOps => ~Unborn(f.c)
  /\ f.op \in {"Delete", "Free"} => ~con[f.c].channel
  /\ f.op = "Free" => chan[f.c].fd = NoFd
Stacked == \A f \in ToSet(stack) : Begun(f)

Places == Born /\ Waiting /\ Apart /\ Stacked /\ IteratorValid

\* A channel leaves the list as it is closed.
LEMMA CloseChannelPlaces ==
  ASSUME Types, IteratorValid, NEW c \in Conns, NEW rest, CloseChannel(c, rest)
  PROVE  /\ IteratorValid'
         /\ \A ch \in Chans : /\ chan'[ch].mem = chan[ch].mem
                              /\ chan'[ch].writable = chan[ch].writable
                              /\ chan'[ch].fd = IF ch = c THEN NoFd ELSE chan[ch].fd
         /\ \/ chan[c].fd = NoFd /\ stack' = rest /\ UNCHANGED pollVars
            \/ /\ chan[c].fd # NoFd /\ chan[c].mem = "alive"
               /\ stack' = <<Frame("HandleRead", c)>> \o rest
<1>1. c \in Chans /\ chan \in [Chans -> [fd : Sockets \cup {NoFd},
                                        mem : {"unborn", "alive", "freed"}, writable : BOOLEAN]]
  BY DEF Types, ChanTypes, Chans
<1>2. liveChannels \in Seq(Chans) /\ Once(liveChannels)
  BY DEF Types, PollTypes, IteratorValid, Once
<1>3. CASE chan[c].fd = NoFd
  <2>1. UNCHANGED <<pollVars, chan>> /\ stack' = rest
    BY <1>3 DEF CloseChannel
  <2>2. IteratorValid'
    BY <2>1 DEF IteratorValid, pollVars
  <2>3. \A ch \in Chans : chan'[ch] = chan[ch] /\ (ch = c => chan[ch].fd = NoFd)
    BY <1>3, <2>1
  <2> QED
    BY <1>3, <2>1, <2>2, <2>3
<1>4. CASE chan[c].fd # NoFd
  <2>1. /\ RemoveChannel(c) /\ chan' = [chan EXCEPT ![c].fd = NoFd]
        /\ stack' = <<Frame("HandleRead", c)>> \o rest
    BY <1>4 DEF CloseChannel
  <2>2. \A ch \in Chans : /\ chan'[ch].mem = chan[ch].mem
                          /\ chan'[ch].writable = chan[ch].writable
                          /\ chan'[ch].fd = IF ch = c THEN NoFd ELSE chan[ch].fd
    BY <1>1, <2>1
  <2>3. /\ ToSet(liveChannels') = ToSet(liveChannels) \ {c} /\ Once(liveChannels')
        /\ liveChannels' = RemoveFirst(liveChannels, c)
    BY <1>2, <2>1, RemoveIs DEF RemoveChannel
  <2>4. c \in ToSet(liveChannels) /\ chan[c].mem = "alive"
    BY <1>1, <1>4 DEF IteratorValid
  <2>5. curIt' \in ToSet(liveChannels') \cup {None}
    <3>1. curIt' = IF curIt = c THEN After(liveChannels, c) ELSE curIt
      BY <2>1 DEF RemoveChannel, ItWithout
    <3>2. curIt \in ToSet(liveChannels) \cup {None} /\ c # None
      BY Names DEF IteratorValid
    <3> QED
      BY <1>2, <2>3, <3>1, <3>2, AfterIs
  <2>6. ToSet(liveChannels') = {ch \in Chans : chan'[ch].fd # NoFd}
    BY <2>2, <2>3 DEF IteratorValid
  <2>7. IteratorValid'
    BY <2>2, <2>3, <2>5, <2>6 DEF IteratorValid, Once
  <2> QED
    BY <1>4, <2>1, <2>2, <2>4, <2>7
<1> QED
  BY <1>3, <1>4

\* A channel enters the list as it is attached.
LEMMA AttachPlaces ==
  ASSUME Types, IteratorValid, NEW c \in Conns, NEW fd \in Fds, chan[c].fd = NoFd, Attach(c, fd)
  PROVE  /\ IteratorValid'
         /\ \A ch \in Chans \ {c} : chan'[ch] = chan[ch]
         /\ chan'[c] = [fd |-> fd, mem |-> "alive", writable |-> FALSE]
         /\ \A d \in Conns \ {c} : con'[d] = con[d]
         /\ con'[c].state = "Handshaking" /\ con'[c].channel /\ con'[c].cbs
         /\ con'[c].input = con[c].input /\ con'[c].idleIds = con[c].idleIds
         /\ ToSet(liveChannels') = ToSet(liveChannels) \cup {c}
<1>1. c \in Chans /\ chan \in [Chans -> [fd : Sockets \cup {NoFd},
                                        mem : {"unborn", "alive", "freed"}, writable : BOOLEAN]]
  BY DEF Types, ChanTypes, Chans
<1>2. liveChannels \in Seq(Chans) /\ Once(liveChannels) /\ c \notin ToSet(liveChannels)
  BY DEF Types, PollTypes, IteratorValid, Once
<1>3. /\ \A ch \in Chans \ {c} : chan'[ch] = chan[ch]
      /\ chan'[c] = [fd |-> fd, mem |-> "alive", writable |-> FALSE]
  BY <1>1 DEF Attach
<1>4. /\ \A d \in Conns \ {c} : con'[d] = con[d]
      /\ con'[c].state = "Handshaking" /\ con'[c].channel /\ con'[c].cbs
      /\ con'[c].input = con[c].input /\ con'[c].idleIds = con[c].idleIds
  BY DEF Attach, Types, ConTypes
<1>5. /\ liveChannels' = Append(liveChannels, c) /\ UNCHANGED curIt
  BY DEF Attach, AddChannel
<1>6. Once(liveChannels') /\ ToSet(liveChannels') = ToSet(liveChannels) \cup {c}
  BY <1>1, <1>2, <1>5, AppendIsOnce
<1>7. fd # NoFd
  BY Names
<1>8. ToSet(liveChannels') = {ch \in Chans : chan'[ch].fd # NoFd}
  BY <1>1, <1>3, <1>6, <1>7 DEF IteratorValid
<1>9. IteratorValid'
  BY <1>3, <1>5, <1>6, <1>8 DEF IteratorValid, Once
<1> QED
  BY <1>3, <1>4, <1>6, <1>9

\* The frames that a step leaves.
LEMMA FramesOf ==
  ASSUME Types, stack # <<>>
  PROVE  /\ Head(stack) \in ToSet(stack) /\ Head(stack) = stack[1] /\ stack[1] \in Frames
         /\ \A x \in ToSet(Resume) : x \in ToSet(stack)
         /\ \A f \in Frames : \A x \in ToSet(<<f>> \o Resume) : x = f \/ x \in ToSet(stack)
         /\ \A f, g \in Frames : \A x \in ToSet(<<f, g>> \o Resume) :
              x = f \/ x = g \/ x \in ToSet(stack)
         /\ \A f, g \in Frames : <<f>> \o (<<g>> \o Resume) = <<f, g>> \o Resume
<1>1. stack \in Seq(Frames) /\ stack # <<>>
  BY DEF Types, LoopTypes
<1>2. /\ Head(stack) \in ToSet(stack) /\ Head(stack) = stack[1] /\ stack[1] \in Frames
      /\ \A x \in ToSet(Tail(stack)) : x \in ToSet(stack)
  BY <1>1, TailIs
<1>3. ASSUME NEW f \in Frames, NEW x \in ToSet(<<f>> \o Tail(stack))
      PROVE  x = f \/ x \in ToSet(stack)
  BY <1>1, <1>2, TopIs
<1>4. ASSUME NEW f \in Frames, NEW g \in Frames, NEW x \in ToSet(<<f, g>> \o Tail(stack))
      PROVE  x = f \/ x = g \/ x \in ToSet(stack)
  BY <1>1, <1>2, TwoOnTop
<1>5. ASSUME NEW f \in Frames, NEW g \in Frames
      PROVE  <<f>> \o (<<g>> \o Tail(stack)) = <<f, g>> \o Tail(stack)
  BY <1>1, Joined
<1> QED
  BY <1>2, <1>3, <1>4, <1>5 DEF Resume

\* A connection once born does not go back.
Onwards ==
  \A c \in Conns : ~Unborn(c) => /\ ~Unborn(c)'
                                 /\ con'[c].channel => con[c].channel
                                 /\ chan[c].fd = NoFd => chan'[c].fd = NoFd

\* What was begun on a connection stays begun.
LEMMA StackedKept ==
  ASSUME Types, Stacked, Onwards,
         \A f \in ToSet(stack') : f \in ToSet(stack) \/ Begun(f)'
  PROVE  Stacked'
<1> SUFFICES ASSUME NEW f \in ToSet(stack') PROVE Begun(f)'
  BY DEF Stacked
<1>1. CASE f \in ToSet(stack)
  <2>1. f \in Frames
    BY <1>1 DEF Types, LoopTypes, ToSet
  <2>2. Begun(f) /\ (f.op \in ConnOps => f.c \in Conns)
    BY <1>1, <2>1, FrameIs DEF Stacked
  <2>3. f.op \in {"Delete", "Free"} => f.op \in ConnOps
    BY DEF ConnOps
  <2> QED
    BY <2>2, <2>3 DEF Begun, Onwards, Unborn
<1> QED
  BY <1>1

\* The tasks that are left after the first k.
Skips(k) ==
  /\ tasks' \in Seq(Tasks)
  /\ \A i \in DOMAIN tasks' : tasks'[i] = tasks[i + k] /\ i + k \in DOMAIN tasks

\* The tasks either stay or lose the first.
LEMMA SkipsIs ==
  ASSUME Types
  PROVE  /\ UNCHANGED tasks => Skips(0)
         /\ tasks # <<>> /\ tasks' = Tail(tasks) => Skips(1)
<1>1. tasks \in Seq(Tasks) /\ DOMAIN tasks = 1 .. Len(tasks) /\ Len(tasks) \in Nat
  BY DEF Types, TaskTypes
<1>2. UNCHANGED tasks => Skips(0)
  BY <1>1 DEF Skips
<1>3. ASSUME tasks # <<>>, tasks' = Tail(tasks)
      PROVE  Skips(1)
  <2>1. /\ tasks' \in Seq(Tasks) /\ Len(tasks') = Len(tasks) - 1
        /\ \A i \in 1 .. Len(tasks) - 1 : tasks'[i] = tasks[i + 1]
    BY <1>1, <1>3, TailIs
  <2>2. DOMAIN tasks' = 1 .. Len(tasks) - 1
    BY <2>1
  <2> QED
    BY <1>1, <2>1, <2>2 DEF Skips
<1> QED
  BY <1>2, <1>3

\* Connections that wait to be attached go on waiting while others are handled.
LEMMA WaitingKept ==
  ASSUME Types, Waiting, UNCHANGED <<backlog, leaked>>, NEW k \in {0, 1}, Skips(k),
         \A c \in Conns : /\ Unborn(c)' <=> Unborn(c)
                          /\ chan'[c].fd = chan[c].fd \/ chan'[c].fd = NoFd
                          /\ peer[c].end # "none" => peer'[c].end # "none"
                          /\ closeCalls[c] > 0 => closeCalls'[c] > 0
  PROVE  Waiting'
<1>1. \A c \in ToSet(backlog) : c \in Conns
  BY DEF Types, PeerTypes, ToSet
<1>2. \A i \in DOMAIN tasks' : tasks'[i] \in Tasks /\ i \in Nat
  BY DEF Skips
<1>3. \A i \in DOMAIN tasks' : tasks'[i].c \in Conns /\ (tasks'[i].fd \in Fds => tasks'[i].fd # NoFd)
  BY <1>2, Names DEF Tasks
<1>4. \A i, j \in DOMAIN tasks' : i # j => i + k # j + k
  BY <1>2
<1>5. \A c \in ToSet(backlog') : Unborn(c)' /\ peer'[c].end # "none"
  BY <1>1 DEF Waiting
<1>6. \A i \in DOMAIN tasks' : tasks'[i].op = "Attach" =>
        /\ Unborn(tasks[i + k].c) /\ peer[tasks[i + k].c].end # "none"
        /\ tasks[i + k].c \notin ToSet(backlog)
        /\ tasks[i + k].fd \in Fds \ leaked /\ \A c \in Conns : chan[c].fd # tasks[i + k].fd
  BY DEF Skips, Waiting, Attaches
<1>7. \A i \in DOMAIN tasks' : tasks'[i].op = "Attach" =>
        /\ chan'[tasks'[i].c].mem = "unborn" /\ peer'[tasks'[i].c].end # "none"
        /\ tasks'[i].c \notin ToSet(backlog')
        /\ tasks'[i].fd \in Fds \ leaked' /\ \A c \in Conns : chan'[c].fd # tasks'[i].fd
  BY <1>3, <1>6 DEF Skips, Unborn
<1>8. \A i, j \in DOMAIN tasks' : tasks'[i].op = "Attach" /\ tasks'[j].op = "Attach" /\ i # j =>
        tasks'[i].c # tasks'[j].c /\ tasks'[i].fd # tasks'[j].fd
  BY <1>4 DEF Skips, Waiting, Attaches
<1>9. \A i \in DOMAIN tasks' : tasks'[i].op = "Close" =>
        chan'[tasks'[i].c].mem # "unborn" /\ closeCalls'[tasks'[i].c] > 0
  BY <1>3 DEF Skips, Waiting, Unborn
<1>10. Once(backlog')
  BY DEF Waiting
<1> QED
  BY <1>5, <1>7, <1>8, <1>9, <1>10 DEF Waiting, Attaches, Unborn

\* Nothing is born, closed, deleted or connected.
SameLife ==
  /\ \A c \in Conns : /\ con'[c].channel = con[c].channel
                      /\ con[c].state = "Invalid" => con'[c].state = "Invalid"
                      /\ peer'[c].end = "none" <=> peer[c].end = "none"
  /\ \A ch \in Chans : chan'[ch].mem = chan[ch].mem /\ chan'[ch].fd = chan[ch].fd

\* Nothing changes in the life of a connection whose records stay.
LEMMA SameLifeIs ==
  UNCHANGED <<chan, con, peer>> => SameLife
BY DEF SameLife

\* A handler that moves no connection keeps the places.
LEMMA QuietPlaces ==
  ASSUME Types, Places, SameLife, UNCHANGED <<backlog, leaked, tasks, closeCalls>>,
         \A f \in ToSet(stack') : f \in ToSet(stack) \/ Begun(f)',
         UNCHANGED liveChannels, curIt' \in ToSet(liveChannels) \cup {None}
  PROVE  Places'
<1>1. \A c \in Conns : /\ Unborn(c)' <=> Unborn(c)
                       /\ chan'[c].fd = chan[c].fd
  BY DEF SameLife, Unborn, Chans
<1>2. Born' /\ Apart' /\ Onwards
  BY <1>1 DEF Places, Born, Apart, Onwards, SameLife, Unborn, Chans
<1>3. Waiting'
  BY <1>1, WaitingKept, SkipsIs DEF Places, SameLife
<1>4. IteratorValid'
  <2>1. ToSet(liveChannels) \subseteq Chans
    BY DEF Places, IteratorValid
  <2> QED
    BY <2>1 DEF Places, IteratorValid, SameLife
<1> QED
  BY <1>2, <1>3, <1>4, StackedKept DEF Places

\* Attaching a connection that waited keeps the places.
LEMMA AttachKept ==
  ASSUME Types, Places, NEW c \in Conns, NEW fd \in Fds, Attach(c, fd), Unborn(c),
         peer[c].end # "none", UNCHANGED <<peer, leaked, closeCalls>>,
         fd \notin leaked, \A d \in Conns : chan[d].fd # fd,
         Once(backlog'), \A d \in ToSet(backlog') : d \in ToSet(backlog) /\ d # c,
         NEW k \in {0, 1}, Skips(k),
         \A i \in DOMAIN tasks' : tasks'[i].op = "Attach" => tasks'[i].c # c /\ tasks'[i].fd # fd,
         \A f \in ToSet(stack') : f \in ToSet(stack) \/ f.op \notin ConnOps
  PROVE  Places'
<1> USE DEF Places
<1>1. chan[c].fd = NoFd
  BY DEF IteratorValid, Unborn, Chans
<1>2. /\ IteratorValid'
      /\ \A ch \in Chans \ {c} : chan'[ch] = chan[ch]
      /\ chan'[c] = [fd |-> fd, mem |-> "alive", writable |-> FALSE]
      /\ \A d \in Conns \ {c} : con'[d] = con[d]
      /\ con'[c].state = "Handshaking" /\ con'[c].channel
  BY <1>1, AttachPlaces
<1>3. \A d \in Conns \ {c} : chan'[d] = chan[d]
  BY <1>2 DEF Chans
<1>4. Born'
  BY <1>2, <1>3 DEF Born, Unborn
<1>5. Apart'
  BY <1>2, <1>3 DEF Apart
<1>6. Onwards
  BY <1>2, <1>3 DEF Onwards, Unborn
<1>7. Stacked'
  <2>1. \A f \in ToSet(stack') : f \in ToSet(stack) \/ Begun(f)'
    BY DEF Begun, ConnOps
  <2> QED
    BY <1>6, <2>1, StackedKept
<1>8. Waiting'
  <2>1. \A d \in ToSet(backlog') : d \in Conns
    <3>1. backlog \in Seq(Conns)
      BY DEF Types, PeerTypes
    <3>2. \A d \in ToSet(backlog) : d \in Conns
      BY <3>1 DEF ToSet
    <3> QED
      BY <3>2
  <2>2. \A i \in DOMAIN tasks' : tasks'[i] \in Tasks /\ tasks'[i].c \in Conns
    <3>1. \A i \in DOMAIN tasks' : tasks'[i] \in Tasks
      BY DEF Skips
    <3>2. \A t \in Tasks : t.c \in Conns
      BY DEF Tasks
    <3> QED
      BY <3>1, <3>2
  <2>3. \A i, j \in DOMAIN tasks' : i # j => i + k # j + k
    BY DEF Skips
  <2>4. \A d \in ToSet(backlog') : Unborn(d)' /\ peer'[d].end # "none"
    BY <1>3, <2>1 DEF Waiting, Unborn
  <2>5. ASSUME NEW i \in DOMAIN tasks', tasks'[i].op = "Attach"
        PROVE  /\ chan'[tasks'[i].c].mem = "unborn" /\ peer'[tasks'[i].c].end # "none"
               /\ tasks'[i].c \notin ToSet(backlog') /\ tasks'[i].fd \in Fds \ leaked
               /\ \A d \in Conns : chan'[d].fd # tasks'[i].fd
    <3>1. tasks'[i] = tasks[i + k] /\ i + k \in DOMAIN tasks
      BY DEF Skips
    <3>2. PICK t : t = tasks'[i]
      OBVIOUS
    <3>3. /\ t.c \in Conns \ {c} /\ t.fd # fd
          /\ Unborn(t.c) /\ peer[t.c].end # "none" /\ t.c \notin ToSet(backlog)
          /\ t.fd \in Fds \ leaked /\ \A d \in Conns : chan[d].fd # t.fd
      BY <2>2, <2>5, <3>1, <3>2 DEF Waiting, Attaches
    <3>4. chan'[t.c].mem = "unborn" /\ peer'[t.c].end # "none" /\ t.c \notin ToSet(backlog')
      BY <1>3, <3>3 DEF Unborn
    <3>5. \A d \in Conns : chan'[d].fd # t.fd
      BY <1>2, <1>3, <3>3
    <3> QED
      BY <3>2, <3>3, <3>4, <3>5
  <2>6. \A i, j \in DOMAIN tasks' : tasks'[i].op = "Attach" /\ tasks'[j].op = "Attach" /\ i # j =>
          tasks'[i].c # tasks'[j].c /\ tasks'[i].fd # tasks'[j].fd
    BY <2>3 DEF Skips, Waiting, Attaches
  <2>7. \A i \in DOMAIN tasks' : tasks'[i].op = "Close" =>
          chan'[tasks'[i].c].mem # "unborn" /\ closeCalls'[tasks'[i].c] > 0
    <3> SUFFICES ASSUME NEW i \in DOMAIN tasks', tasks'[i].op = "Close"
                 PROVE  chan'[tasks'[i].c].mem # "unborn" /\ closeCalls'[tasks'[i].c] > 0
      OBVIOUS
    <3>1. tasks'[i] = tasks[i + k] /\ i + k \in DOMAIN tasks
      BY DEF Skips
    <3>2. PICK t : t = tasks'[i]
      OBVIOUS
    <3>3. t.c \in Conns /\ ~Unborn(t.c) /\ closeCalls[t.c] > 0
      BY <2>2, <3>1, <3>2 DEF Waiting
    <3>4. chan'[t.c].mem # "unborn"
      BY <1>2, <1>3, <3>3 DEF Unborn
    <3> QED
      BY <3>2, <3>3, <3>4
  <2> QED
    BY <2>4, <2>5, <2>6, <2>7 DEF Waiting, Attaches, Unborn
<1> QED
  BY <1>2, <1>4, <1>5, <1>7, <1>8

\* Closing the channel of a born connection keeps the places.
LEMMA CloseChannelKept ==
  ASSUME Types, Places, NEW c \in Conns, NEW rest \in Seq(Frames), CloseChannel(c, rest),
         ~Unborn(c), UNCHANGED <<con, peer, backlog, leaked, closeCalls>>,
         NEW k \in {0, 1}, Skips(k),
         \A f \in ToSet(rest) : f \in ToSet(stack) \/ f.op \notin ConnOps
                                \/ (f.op = "Free" /\ f.c = c /\ ~con[c].channel)
  PROVE  Places'
<1> USE DEF Places
<1>1. /\ IteratorValid'
      /\ \A ch \in Chans : /\ chan'[ch].mem = chan[ch].mem
                           /\ chan'[ch].fd = IF ch = c THEN NoFd ELSE chan[ch].fd
      /\ stack' = rest \/ stack' = <<Frame("HandleRead", c)>> \o rest
  BY CloseChannelPlaces
<1>2. \A d \in Conns : /\ Unborn(d)' <=> Unborn(d)
                       /\ chan'[d].fd = IF d = c THEN NoFd ELSE chan[d].fd
  BY <1>1 DEF Chans, Unborn
<1>3. Born' /\ Apart' /\ Onwards
  <2>1. leaked \subseteq Fds
    BY DEF Types, PeerTypes
  <2>2. Born' /\ Onwards
    BY <1>1, <1>2 DEF Born, Onwards, Unborn, Chans
  <2>3. Apart'
    BY <1>2, <2>1, Names DEF Apart
  <2> QED
    BY <2>2, <2>3
<1>4. Waiting'
  BY <1>2, WaitingKept
<1>5. \A f \in ToSet(stack') : f \in ToSet(rest) \/ f = Frame("HandleRead", c)
  <2> DEFINE r == Frame("HandleRead", c)
  <2>1. r \in Frames
    BY FrameIs DEF ConnOps
  <2> HIDE DEF r
  <2>2. \A f \in ToSet(<<r>> \o rest) : f = r \/ f \in ToSet(rest)
    BY <2>1, OnTopOf
  <2> QED
    BY <1>1, <2>2 DEF r
<1>6. \A f \in ToSet(stack') : f \in ToSet(stack) \/ Begun(f)'
  <2> SUFFICES ASSUME NEW f \in ToSet(stack'), f \notin ToSet(stack) PROVE Begun(f)'
    OBVIOUS
  <2>1. ~Unborn(c)' /\ chan'[c].fd = NoFd /\ UNCHANGED con
    BY <1>2
  <2>2. CASE f = Frame("HandleRead", c)
    BY <2>1, <2>2, FrameIs DEF Begun
  <2>3. CASE f.op \notin ConnOps
    BY <2>3 DEF Begun, ConnOps
  <2>4. CASE f.op = "Free" /\ f.c = c /\ ~con[c].channel
    BY <2>1, <2>4 DEF Begun
  <2> QED
    BY <1>5, <2>2, <2>3, <2>4
<1>7. Stacked'
  BY <1>3, <1>6, StackedKept
<1> QED
  BY <1>1, <1>2, <1>3, <1>4, <1>7

\* Posting Close for connections in use keeps the places.
LEMMA PostCloseKept ==
  ASSUME Types, Places, NEW E \in SUBSET Conns, \A c \in E : CanClose(c),
         NEW s \in Seq(E), PostClose(s),
         SameLife, UNCHANGED <<backlog, leaked, liveChannels, curIt, stack>>
  PROVE  Places'
<1> USE DEF Places
<1>1. /\ Len(tasks') \in Nat /\ Len(tasks) <= Len(tasks')
      /\ \A i \in 1 .. Len(tasks) : tasks'[i] = tasks[i]
      /\ \A i \in 1 .. Len(tasks') : i > Len(tasks) =>
           \E c \in E : tasks'[i] = Task("Close", c, NoFd) /\ closeCalls'[c] > 0
      /\ \A c \in Conns : closeCalls[c] <= closeCalls'[c]
      /\ TaskTypes'
  BY PostCloseIs DEF Types
<1>2. /\ DOMAIN tasks = 1 .. Len(tasks) /\ DOMAIN tasks' = 1 .. Len(tasks') /\ Len(tasks) \in Nat
      /\ \A c \in Conns : closeCalls[c] \in Nat /\ closeCalls'[c] \in Nat
      /\ \A i \in DOMAIN tasks : tasks[i].c \in Conns
  <2>1. tasks \in Seq(Tasks) /\ tasks' \in Seq(Tasks)
    BY <1>1 DEF Types, TaskTypes
  <2>2. \A t \in Tasks : t.c \in Conns
    BY DEF Tasks
  <2>3. \A c \in Conns : closeCalls[c] \in Nat /\ closeCalls'[c] \in Nat
    BY <1>1, ReactorAssumption DEF Types, TaskTypes
  <2> QED
    BY <2>1, <2>2, <2>3
<1>3. \A i \in DOMAIN tasks' :
        \/ i \in DOMAIN tasks /\ tasks'[i] = tasks[i]
        \/ \E c \in E : /\ tasks'[i].op = "Close" /\ tasks'[i].c = c /\ closeCalls'[c] > 0
                        /\ c \in Conns /\ con[c].channel
  <2> SUFFICES ASSUME NEW i \in DOMAIN tasks', i \notin DOMAIN tasks
               PROVE  \E c \in E : /\ tasks'[i].op = "Close" /\ tasks'[i].c = c /\ closeCalls'[c] > 0
                                   /\ c \in Conns /\ con[c].channel
    BY <1>1, <1>2
  <2>1. PICK c \in E : tasks'[i] = Task("Close", c, NoFd) /\ closeCalls'[c] > 0
    BY <1>1, <1>2
  <2>2. c \in Conns /\ con[c].channel
    BY DEF CanClose
  <2> QED
    BY <2>1, <2>2 DEF Task
<1>4. \A c \in Conns : con[c].channel => chan[c].mem # "unborn"
  BY DEF Born
<1>5. \A i \in DOMAIN tasks' : tasks'[i].op = "Attach" => i \in DOMAIN tasks /\ tasks'[i] = tasks[i]
  BY <1>3
<1>6. \A i \in DOMAIN tasks' : tasks'[i].op = "Close" =>
        chan[tasks'[i].c].mem # "unborn" /\ closeCalls'[tasks'[i].c] > 0
  <2> SUFFICES ASSUME NEW i \in DOMAIN tasks', tasks'[i].op = "Close"
               PROVE  chan[tasks'[i].c].mem # "unborn" /\ closeCalls'[tasks'[i].c] > 0
    OBVIOUS
  <2>1. CASE i \in DOMAIN tasks /\ tasks'[i] = tasks[i]
    <3>1. closeCalls[tasks[i].c] > 0 /\ ~Unborn(tasks[i].c) /\ tasks[i].c \in Conns
      BY <1>2, <2>1 DEF Waiting
    <3>2. closeCalls'[tasks[i].c] > 0
      BY <1>1, <1>2, <3>1
    <3> QED
      BY <2>1, <3>1, <3>2 DEF Unborn
  <2> QED
    BY <1>3, <1>4, <2>1
<1>7. /\ \A c \in Conns : /\ Unborn(c)' <=> Unborn(c)
                          /\ chan'[c].fd = chan[c].fd
      /\ \A c \in ToSet(backlog) : c \in Conns
      /\ \A i \in DOMAIN tasks' : tasks'[i].c \in Conns
  <2>1. backlog \in Seq(Conns) /\ tasks' \in Seq(Tasks)
    BY <1>1 DEF Types, PeerTypes, TaskTypes
  <2>2. \A c \in ToSet(backlog) : c \in Conns
    BY <2>1 DEF ToSet
  <2>3. \A t \in Tasks : t.c \in Conns
    BY DEF Tasks
  <2> QED
    BY <2>1, <2>2, <2>3 DEF SameLife, Unborn, Chans
<1>8. Waiting'
  <2>1. \A c \in ToSet(backlog') : Unborn(c)' /\ peer'[c].end # "none"
    BY <1>7 DEF Waiting, SameLife
  <2>2. \A i \in DOMAIN tasks' : tasks'[i].op = "Attach" =>
          /\ chan'[tasks'[i].c].mem = "unborn" /\ peer'[tasks'[i].c].end # "none"
          /\ tasks'[i].c \notin ToSet(backlog')
          /\ tasks'[i].fd \in Fds \ leaked' /\ \A c \in Conns : chan'[c].fd # tasks'[i].fd
    BY <1>5, <1>7 DEF Waiting, Attaches, SameLife, Unborn
  <2>3. \A i, j \in DOMAIN tasks' : tasks'[i].op = "Attach" /\ tasks'[j].op = "Attach" /\ i # j =>
          tasks'[i].c # tasks'[j].c /\ tasks'[i].fd # tasks'[j].fd
    BY <1>5 DEF Waiting, Attaches
  <2>4. \A i \in DOMAIN tasks' : tasks'[i].op = "Close" =>
          chan'[tasks'[i].c].mem # "unborn" /\ closeCalls'[tasks'[i].c] > 0
    BY <1>6, <1>7 DEF Unborn
  <2>5. Once(backlog')
    BY DEF Waiting
  <2> QED
    BY <2>1, <2>2, <2>3, <2>4, <2>5 DEF Waiting, Attaches, Unborn
<1>9. Born' /\ Apart' /\ Onwards
  BY <1>7 DEF Born, Apart, Onwards, SameLife, Unborn, Chans
<1>10. IteratorValid'
  <2>1. ToSet(liveChannels) \subseteq Chans
    BY DEF IteratorValid
  <2> QED
    BY <2>1 DEF IteratorValid, SameLife
<1>11. Stacked'
  BY <1>9, StackedKept
<1> QED
  BY <1>8, <1>9, <1>10, <1>11

\* At the start only the service channels have a place.
LEMMA PlacesInit == Init => Places
<1> SUFFICES ASSUME Init PROVE Places
  OBVIOUS
<1>1. /\ backlog = <<>> /\ tasks = <<>> /\ stack = <<>> /\ leaked = {}
      /\ \A c \in Conns : /\ chan[c].mem = "unborn" /\ chan[c].fd = NoFd
                          /\ con[c].state = "Invalid" /\ ~con[c].channel
  BY Names DEF Init, Service, Chans
<1>2. DOMAIN <<>> = {} /\ ToSet(<<>>) = {}
  BY DEF ToSet
<1>3. Born /\ Waiting /\ Apart /\ Stacked
  BY <1>1, <1>2 DEF Born, Waiting, Apart, Stacked, Unborn, Attaches, Once
<1>4. IteratorValid
  <2>1. ToSet(liveChannels) = Service /\ \A i, j \in DOMAIN liveChannels :
          liveChannels[i] = liveChannels[j] => i = j
    <3>1. CASE Accepting
      <4>1. liveChannels = <<Wakeup, Listener>> /\ Service = {Wakeup, Listener}
        BY <3>1 DEF Init, Service
      <4>2. DOMAIN liveChannels = 1 .. 2 /\ liveChannels[1] = Wakeup /\ liveChannels[2] = Listener
        BY <4>1
      <4>3. 1 \in DOMAIN liveChannels /\ 2 \in DOMAIN liveChannels
            /\ \A i \in DOMAIN liveChannels : i = 1 \/ i = 2
        BY <4>2
      <4> QED
        BY <4>1, <4>2, <4>3, Names DEF ToSet
    <3>2. CASE ~Accepting
      <4>1. liveChannels = <<Wakeup>> /\ Service = {Wakeup}
        BY <3>2 DEF Init, Service
      <4>2. DOMAIN liveChannels = 1 .. 1 /\ liveChannels[1] = Wakeup
        BY <4>1
      <4> QED
        BY <4>1, <4>2 DEF ToSet
    <3> QED
      BY <3>1, <3>2
  <2>2. \A ch \in Chans : /\ ch \in Service => chan[ch].fd # NoFd /\ chan[ch].mem = "alive"
                          /\ ch \notin Service => chan[ch].fd = NoFd
    BY Names DEF Init, Service
  <2>3. Service \subseteq Chans /\ curIt = None
    BY Names DEF Init, Service
  <2> QED
    BY <2>1, <2>2, <2>3 DEF IteratorValid
<1> QED
  BY <1>3, <1>4 DEF Places

\* Every step keeps the places.
LEMMA PlacesStep ==
  ASSUME Types, Places, [Next]_vars
  PROVE  Places'
<1> USE DEF scanVars, baseVars, histVars, envVars
<1>0. /\ Born /\ Waiting /\ Apart /\ Stacked /\ IteratorValid
      /\ curIt \in ToSet(liveChannels) \cup {None} /\ liveChannels \in Seq(Chans)
  BY DEF Places, IteratorValid, Types, PollTypes
<1>1. CASE Select
  <2>1. curIt' \in ToSet(liveChannels) \cup {None}
    <3>1. liveChannels # <<>> => 1 \in DOMAIN liveChannels
      BY <1>0
    <3> QED
      BY <1>1, <3>1 DEF Select, FirstOf, ToSet
  <2> QED
    BY <1>1, <2>1, QuietPlaces, SameLifeIs DEF Select
<1>2. CASE Scan
  <2>1. curIt' \in ToSet(liveChannels) \cup {None}
    BY <1>0, <1>2, AfterIs DEF Scan
  <2>2. curIt \in ToSet(liveChannels) /\ curIt \in Chans /\ chan[curIt].mem = "alive"
    BY <1>0, <1>2 DEF Scan, IteratorValid
  <2>3. \A f \in ToSet(stack') : f \in ToSet(stack) \/ Begun(f)'
    <3> SUFFICES ASSUME NEW f \in ToSet(stack') PROVE Begun(f)'
      OBVIOUS
    <3>1. f = Frame(ReadHandler(curIt), curIt)
      BY <1>2 DEF Scan, ToSet
    <3>2. f.op \in {"HandleWakeup", "HandleAccept", "HandleRead"} /\ f.c = curIt
      BY <3>1, FrameIs DEF ReadHandler
    <3>3. chan' = chan
      BY <1>2 DEF Scan
    <3> QED
      BY <2>2, <3>2, <3>3 DEF Begun, Unborn
  <2> QED
    BY <1>2, <2>1, <2>3, QuietPlaces, SameLifeIs DEF Scan
<1>3. CASE TryWrite
  <2>1. \A f \in ToSet(stack') : f \in ToSet(stack) \/ Begun(f)'
    <3> SUFFICES ASSUME NEW f \in ToSet(stack'), f \notin ToSet(stack) PROVE Begun(f)'
      OBVIOUS
    <3>1. f = Frame("HandleWrite", visit.ch) /\ chan[visit.ch].mem = "alive"
      BY <1>3 DEF TryWrite, ToSet
    <3>2. f.op = "HandleWrite" /\ f.c = visit.ch
      BY <3>1, FrameIs
    <3>3. chan' = chan
      BY <1>3 DEF TryWrite
    <3> QED
      BY <3>1, <3>2, <3>3 DEF Begun, Unborn
  <2> QED
    BY <1>0, <1>3, <2>1, QuietPlaces, SameLifeIs DEF TryWrite, pollVars
<1>4. CASE Tally \/ EndScan
  BY <1>0, <1>4, QuietPlaces, SameLifeIs DEF Tally, EndScan, pollVars
<1>5. CASE HandleTimeouts
  <2>1. PICK expired \in SUBSET {c \in idleConns : CanClose(c)} :
          \E s \in SetToSeqs(expired) : PostClose(s)
    BY <1>5 DEF HandleTimeouts
  <2>2. PICK s \in SetToSeqs(expired) : PostClose(s)
    BY <2>1
  <2>3. IsFiniteSet(expired) /\ expired \in SUBSET Conns /\ \A c \in expired : CanClose(c)
    BY FS_Subset DEF Types, ConTypes
  <2>4. s \in Seq(expired)
    BY <2>3, FS_CardinalityType DEF SetToSeqs
  <2>5. SameLife /\ UNCHANGED <<backlog, leaked, liveChannels, curIt, stack>>
    BY <1>5, SameLifeIs DEF HandleTimeouts, pollVars
  <2> QED
    BY <2>2, <2>3, <2>4, <2>5, PostCloseKept
<1>6. CASE HandleWakeup
  <2>1. stack # <<>> /\ stack' = <<Frame("Drain", None)>> \o Resume
    BY <1>6 DEF HandleWakeup, Running
  <2>2. \A f \in ToSet(stack') : f \in ToSet(stack) \/ f = Frame("Drain", None)
    BY <2>1, FramesOf, FrameIs
  <2>3. \A f \in ToSet(stack') : f \in ToSet(stack) \/ Begun(f)'
    BY <2>2, FrameIs DEF Begun, ConnOps
  <2> QED
    BY <1>0, <1>6, <2>3, QuietPlaces, SameLifeIs DEF HandleWakeup, pollVars
<1>7. CASE HandleAccept
  <2>1. stack # <<>>
    BY <1>7 DEF HandleAccept, Running
  <2>2. CASE backlog = <<>> \/ FreeFds = {}
    <3>1. \A f \in ToSet(stack') : f \in ToSet(stack)
      BY <1>7, <2>1, <2>2, FramesOf DEF HandleAccept
    <3> QED
      BY <1>0, <1>7, <2>2, <3>1, QuietPlaces, SameLifeIs DEF HandleAccept, pollVars
  <2>3. CASE ~(backlog = <<>> \/ FreeFds = {})
    <3> DEFINE c == Head(backlog)
    <3>1. backlog \in Seq(Conns) /\ Once(backlog) /\ backlog # <<>>
      BY <1>0, <2>3 DEF Waiting, Types, PeerTypes
    <3>2. /\ c \in Conns /\ c \in ToSet(backlog) /\ Once(Tail(backlog))
          /\ ToSet(Tail(backlog)) = ToSet(backlog) \ {c}
      BY <3>1, TailIsOnce
    <3>3. PICK fd \in FreeFds :
            \/ Attach(c, fd) /\ UNCHANGED leaked
            \/ leaked' = leaked \cup {fd} /\ UNCHANGED <<pollVars, chan, con, conns>>
      BY <1>7, <2>3 DEF HandleAccept
    <3>4. /\ backlog' = Tail(backlog) /\ UNCHANGED <<stack, tasks, peer, closeCalls>>
      BY <1>7, <2>3 DEF HandleAccept
    <3>5. /\ fd \in Fds /\ fd \notin leaked /\ \A d \in Conns : chan[d].fd # fd
          /\ \A i \in DOMAIN tasks : tasks[i].fd # fd
      BY DEF FreeFds, ToSet
    <3>6. Unborn(c) /\ peer[c].end # "none"
          /\ \A i \in DOMAIN tasks : Attaches(i) => tasks[i].c # c
      BY <1>0, <3>2 DEF Waiting
    <3>7. Skips(0)
      BY <3>4, SkipsIs
    <3> HIDE DEF c
    <3>8. CASE Attach(c, fd) /\ UNCHANGED leaked
      <4>1. \A i \in DOMAIN tasks' : tasks'[i].op = "Attach" => tasks'[i].c # c /\ tasks'[i].fd # fd
        BY <3>4, <3>5, <3>6 DEF Attaches
      <4>2. Once(backlog') /\ \A d \in ToSet(backlog') : d \in ToSet(backlog) /\ d # c
        BY <3>2, <3>4 DEF c
      <4> QED
        BY <3>2, <3>4, <3>5, <3>6, <3>7, <3>8, <4>1, <4>2, AttachKept
    <3>9. CASE leaked' = leaked \cup {fd} /\ UNCHANGED <<pollVars, chan, con, conns>>
      <4>1. Waiting'
        <5>1. Once(backlog') /\ \A d \in ToSet(backlog') : d \in ToSet(backlog)
          BY <3>2, <3>4 DEF c
        <5> QED
          BY <1>0, <3>4, <3>5, <3>9, <5>1 DEF Waiting, Attaches, Unborn
      <4>2. Born' /\ Apart' /\ Stacked' /\ IteratorValid'
        BY <1>0, <3>4, <3>5, <3>9 DEF Born, Apart, Stacked, Begun, IteratorValid, Unborn, pollVars
      <4> QED
        BY <4>1, <4>2 DEF Places
    <3> QED
      BY <3>3, <3>8, <3>9
  <2> QED
    BY <2>2, <2>3
<1>8. CASE Drain
  <2>1. stack # <<>>
    BY <1>8 DEF Drain
  <2>2. CASE tasks = <<>>
    <3>1. \A f \in ToSet(stack') : f \in ToSet(stack)
      BY <1>8, <2>1, <2>2, FramesOf DEF Drain
    <3> QED
      BY <1>0, <1>8, <2>2, <3>1, QuietPlaces, SameLifeIs DEF Drain, pollVars
  <2>3. CASE tasks # <<>>
    <3> DEFINE t == Head(tasks)
               held == IF t.op = "Close" THEN t.c ELSE None
               rest == <<Frame("Drain", held)>> \o Resume
    <3>1. t \in Tasks /\ tasks' = Tail(tasks) /\ t = tasks[1] /\ 1 \in DOMAIN tasks
      BY <1>8, <2>3 DEF Drain, Types, TaskTypes
    <3>2. t.c \in Conns /\ t.op \in {"Close", "Attach"} /\ held \in Conns \cup {None}
      BY <3>1 DEF Tasks
    <3>3. rest \in Seq(Frames)
      BY <2>1, <3>2, GoOn, FrameIs
    <3>4. \A f \in ToSet(rest) : f \in ToSet(stack) \/ f.op \notin ConnOps
      <4>1. \A f \in ToSet(rest) : f \in ToSet(stack) \/ f = Frame("Drain", held)
        BY <2>1, <3>2, FramesOf, FrameIs
      <4> QED
        BY <4>1, FrameIs DEF ConnOps
    <3>5. Skips(1)
      BY <2>3, <3>1, SkipsIs
    <3>6. \/ t.op = "Attach" /\ Attach(t.c, t.fd) /\ stack' = rest
          \/ /\ t.op = "Close" /\ con[t.c].channel
             /\ CloseChannel(t.c, rest) /\ UNCHANGED <<con, conns>>
          \/ t.op = "Close" /\ stack' = rest /\ UNCHANGED <<pollVars, chan, con, conns>>
      BY <1>8, <2>3 DEF Drain
    <3>7. UNCHANGED <<peer, backlog, leaked, closeCalls>>
      BY <1>8 DEF Drain
    <3>8. CASE t.op = "Attach" /\ Attach(t.c, t.fd) /\ stack' = rest
      <4> DEFINE c == t.c
                 fd == t.fd
      <4>1. Attaches(1) /\ tasks[1].c = c /\ tasks[1].fd = fd
        BY <3>1, <3>8 DEF Attaches
      <4>2. /\ Unborn(c) /\ peer[c].end # "none" /\ c \notin ToSet(backlog)
            /\ fd \in Fds \ leaked /\ \A d \in Conns : chan[d].fd # fd
        BY <1>0, <3>1, <4>1 DEF Waiting
      <4>3. \A i \in DOMAIN tasks : Attaches(i) /\ i # 1 => tasks[i].c # c /\ tasks[i].fd # fd
        BY <1>0, <3>1, <4>1 DEF Waiting
      <4>4. \A i \in DOMAIN tasks' : tasks'[i].op = "Attach" => tasks'[i].c # c /\ tasks'[i].fd # fd
        <5> SUFFICES ASSUME NEW i \in DOMAIN tasks', tasks'[i].op = "Attach"
                     PROVE  tasks'[i].c # c /\ tasks'[i].fd # fd
          OBVIOUS
        <5>1. tasks'[i] = tasks[i + 1] /\ i + 1 \in DOMAIN tasks /\ i \in Nat \ {0}
          BY <3>5 DEF Skips
        <5>2. Attaches(i + 1) /\ i + 1 # 1
          BY <5>1 DEF Attaches
        <5> QED
          BY <4>3, <5>1, <5>2
      <4>5. Once(backlog') /\ \A d \in ToSet(backlog') : d \in ToSet(backlog) /\ d # c
        BY <1>0, <3>7, <4>2 DEF Waiting
      <4>6. \A f \in ToSet(stack') : f \in ToSet(stack) \/ f.op \notin ConnOps
        BY <3>4, <3>8
      <4>7. c \in Conns /\ Attach(c, fd)
        BY <3>2, <3>8
      <4> HIDE DEF c, fd
      <4> QED
        BY <3>5, <3>7, <4>2, <4>4, <4>5, <4>6, <4>7, AttachKept
    <3>9. CASE t.op = "Close" /\ con[t.c].channel /\ CloseChannel(t.c, rest) /\ UNCHANGED <<con, conns>>
      <4>1. ~Unborn(t.c)
        BY <1>0, <3>2, <3>9 DEF Born, Unborn
      <4> HIDE DEF rest, t
      <4> QED
        BY <3>2, <3>3, <3>4, <3>5, <3>7, <3>9, <4>1, CloseChannelKept
    <3>10. CASE stack' = rest /\ UNCHANGED <<pollVars, chan, con, conns>>
      <4>1. \A f \in ToSet(stack') : f \in ToSet(stack) \/ Begun(f)'
        BY <3>4, <3>10 DEF Begun, ConnOps
      <4>2. Born' /\ Apart' /\ Onwards
        BY <1>0, <3>7, <3>10 DEF Born, Apart, Onwards, Unborn
      <4>3. Waiting'
        BY <1>0, <3>5, <3>7, <3>10, WaitingKept DEF Unborn
      <4>4. IteratorValid'
        BY <1>0, <3>10 DEF IteratorValid, pollVars
      <4> QED
        BY <1>0, <4>1, <4>2, <4>3, <4>4, StackedKept DEF Places
    <3> QED
      BY <3>6, <3>8, <3>9, <3>10
  <2> QED
    BY <2>2, <2>3
<1>9. ASSUME NEW c \in Conns, NEW op \in {"HandleRead", "HandleWrite"}, HandleHandshake(op, c)
      PROVE  Places'
  <2>1. stack # <<>> /\ Frame(op, c) \in ToSet(stack) /\ con[c].state = "Handshaking"
    BY <1>9, FramesOf DEF HandleHandshake, RunningOn, Running
  <2>2. ~Unborn(c)
    BY <1>0, <2>1, FrameIs DEF Stacked, Begun, ConnOps
  <2>3. SameLife
    <3>1. UNCHANGED <<chan, peer>>
      BY <1>9 DEF HandleHandshake
    <3>2. CASE \E idle \in BOOLEAN :
                 con' = [con EXCEPT ![c].state = "Connected", ![c].idleIds = idle]
      <4>1. PICK idle \in BOOLEAN :
              con' = [con EXCEPT ![c].state = "Connected", ![c].idleIds = idle]
        BY <3>2
      <4> QED
        BY <2>1, <3>1, <4>1 DEF SameLife, Types, ConTypes
    <3>3. CASE UNCHANGED con
      BY <3>1, <3>3, SameLifeIs
    <3> QED
      BY <1>9, <3>2, <3>3 DEF HandleHandshake
  <2>4. \A f \in ToSet(stack') : f \in ToSet(stack) \/ f = Frame("Cleanup", c)
    BY <1>9, <2>1, FramesOf, FrameIs DEF HandleHandshake, ConnOps
  <2>5. \A f \in ToSet(stack') : f \in ToSet(stack) \/ Begun(f)'
    BY <2>2, <2>3, <2>4, FrameIs DEF Begun, SameLife, Unborn, Chans
  <2> QED
    BY <1>0, <1>9, <2>3, <2>5, QuietPlaces DEF HandleHandshake, pollVars
<1>10. ASSUME NEW c \in Conns, HandleRead(c)
       PROVE  Places'
  <2>1. stack # <<>> /\ Frame("HandleRead", c) \in ToSet(stack)
    BY <1>10, FramesOf DEF HandleRead, RunningOn, Running
  <2>2. ~Unborn(c)
    BY <1>0, <2>1, FrameIs DEF Stacked, Begun, ConnOps
  <2>3. SameLife
    <3>1. UNCHANGED chan
      BY <1>10 DEF HandleRead
    <3>2. CASE Recv(c)
      <4>1. /\ con' = [con EXCEPT ![c].input = @ \o peer[c].kern]
            /\ peer' = [peer EXCEPT ![c].kern = <<>>]
        BY <3>2 DEF Recv
      <4> DEFINE u == con[c].input \o peer[c].kern
      <4>2. con' = [con EXCEPT ![c].input = u]
        BY <4>1
      <4> HIDE DEF u
      <4>3. \A d \in Conns : con'[d].channel = con[d].channel /\ con'[d].state = con[d].state
        BY <4>2 DEF Types, ConTypes
      <4>4. \A d \in Conns : peer'[d].end = peer[d].end
        BY <4>1 DEF Types, PeerTypes
      <4> QED
        BY <3>1, <4>3, <4>4 DEF SameLife
    <3>3. CASE UNCHANGED <<con, peer>>
      BY <3>1, <3>3, SameLifeIs
    <3> QED
      BY <1>10, <3>2, <3>3 DEF HandleRead, WouldBlock, Disconnected
  <2>4. \A f \in ToSet(stack') : f \in ToSet(stack) \/ f \in {Frame("Cleanup", c), Frame("OnMsg", c)}
    <3>1. \A x \in ToSet(ReadHandled(c) \o Resume) : x \in ToSet(stack) \/ x = Frame("OnMsg", c)
      BY <2>1, FramesOf, FrameIs, GoOn DEF ReadHandled, ReadCallback, ConnOps
    <3>2. \A x \in ToSet(<<Frame("Cleanup", c)>> \o Resume) : x \in ToSet(stack) \/ x = Frame("Cleanup", c)
      BY <2>1, FramesOf, FrameIs DEF ConnOps
    <3> QED
      BY <1>10, <2>1, <3>1, <3>2, FramesOf DEF HandleRead, Recv, WouldBlock, Disconnected
  <2>5. \A f \in ToSet(stack') : f \in ToSet(stack) \/ Begun(f)'
    BY <2>2, <2>3, <2>4, FrameIs DEF Begun, SameLife, Unborn, Chans
  <2> QED
    BY <1>0, <1>10, <2>3, <2>5, QuietPlaces DEF HandleRead, pollVars
<1>11. ASSUME NEW c \in Conns, HandleWrite(c)
       PROVE  Places'
  <2>1. stack # <<>>
    BY <1>11 DEF HandleWrite, RunningOn, Running
  <2>2. SameLife /\ UNCHANGED <<liveChannels, curIt>>
    BY <1>11 DEF HandleWrite, EnableWrite, SameLife, Types, ChanTypes, pollVars
  <2>3. \A f \in ToSet(stack') : f \in ToSet(stack)
    BY <1>11, <2>1, FramesOf DEF HandleWrite
  <2> QED
    BY <1>0, <1>11, <2>2, <2>3, QuietPlaces DEF HandleWrite
<1>12. ASSUME NEW c \in Conns, OnMsg(c)
       PROVE  Places'
  <2>1. stack # <<>> /\ Frame("OnMsg", c) \in ToSet(stack)
    BY <1>12, FramesOf DEF OnMsg, RunningOn, Running
  <2>2. ~Unborn(c)
    BY <1>0, <2>1, FrameIs DEF Stacked, Begun, ConnOps
  <2>3. CASE Complete(con[c].input)
    <3>1. con' = [con EXCEPT ![c].input = Consume(@)] /\ UNCHANGED <<stack, peer, backlog, leaked>>
      BY <1>12, <2>3 DEF OnMsg
    <3>2. \A ch \in Chans : chan'[ch].mem = chan[ch].mem /\ chan'[ch].fd = chan[ch].fd
      BY <1>12, <2>3 DEF OnMsg, EnableWrite, Types, ChanTypes
    <3>3. SameLife
      BY <3>1, <3>2 DEF SameLife, Types, ConTypes
    <3>4. UNCHANGED <<liveChannels, curIt>>
      BY <1>12, <2>3 DEF OnMsg, EnableWrite, pollVars
    <3>5. CASE UNCHANGED <<tasks, closeCalls>>
      BY <1>0, <3>1, <3>3, <3>4, <3>5, QuietPlaces
    <3>6. CASE CanClose(c) /\ PostClose(<<c>>)
      <4>1. <<c>> \in Seq({c}) /\ {c} \in SUBSET Conns /\ \A d \in {c} : CanClose(d)
        BY <3>6
      <4> QED
        BY <3>1, <3>3, <3>4, <3>6, <4>1, PostCloseKept
    <3> QED
      BY <1>12, <2>3, <3>5, <3>6 DEF OnMsg
  <2>4. CASE ~Complete(con[c].input)
    <3>1. UNCHANGED <<con, tasks, peer, backlog, leaked, closeCalls>>
      BY <1>12, <2>4 DEF OnMsg
    <3>2. CASE CloseChannel(c, Resume)
      <4>1. Resume \in Seq(Frames) /\ \A f \in ToSet(Resume) : f \in ToSet(stack)
        BY <2>1, GoOn, FramesOf
      <4>2. Skips(0)
        BY <3>1, SkipsIs
      <4> QED
        BY <2>2, <3>1, <3>2, <4>1, <4>2, CloseChannelKept
    <3>3. CASE stack' = Resume /\ UNCHANGED <<pollVars, chan>>
      <4>1. \A f \in ToSet(stack') : f \in ToSet(stack)
        BY <2>1, <3>3, FramesOf
      <4> QED
        BY <1>0, <3>1, <3>3, <4>1, QuietPlaces, SameLifeIs DEF pollVars
    <3> QED
      BY <1>12, <2>4, <3>2, <3>3 DEF OnMsg
  <2> QED
    BY <2>3, <2>4
<1>13. ASSUME NEW c \in Conns, Cleanup(c)
       PROVE  Places'
  <2>1. stack # <<>> /\ Frame("Cleanup", c) \in ToSet(stack)
    BY <1>13, FramesOf DEF Cleanup, RunningOn, Running
  <2>2. ~Unborn(c)
    BY <1>0, <2>1, FrameIs DEF Stacked, Begun, ConnOps
  <2>3. \A f \in ToSet(stack') : f \in ToSet(stack) \/ f \in {Frame("Finish", c), Frame("OnMsg", c)}
    <3> DEFINE F == Frame("Finish", c)
               O == Frame("OnMsg", c)
    <3>1. F \in Frames /\ O \in Frames
      BY FrameIs DEF ConnOps
    <3>2. stack' = <<O>> \o <<F>> \o Resume \/ stack' = <<>> \o <<F>> \o Resume
      BY <1>13 DEF Cleanup, RestHandled, ReadCallback
    <3> HIDE DEF F, O
    <3>3. stack' = <<O, F>> \o Resume \/ stack' = <<F>> \o Resume
      BY <2>1, <3>1, <3>2, GoOn
    <3>4. \A x \in ToSet(stack') : x = F \/ x = O \/ x \in ToSet(stack)
      BY <2>1, <3>1, <3>3, FramesOf
    <3> QED
      BY <3>4 DEF F, O
  <2>4. \A f \in ToSet(stack') : f \in ToSet(stack) \/ Begun(f)'
    <3>1. ~Unborn(c)'
      BY <1>13, <2>2 DEF Cleanup, Unborn
    <3> QED
      BY <2>3, <3>1, FrameIs DEF Begun
  <2> QED
    BY <1>0, <1>13, <2>4, QuietPlaces, SameLifeIs DEF Cleanup, pollVars
<1>14. ASSUME NEW c \in Conns, Finish(c)
       PROVE  Places'
  <2>1. stack # <<>> /\ Frame("Finish", c) \in ToSet(stack)
    BY <1>14, FramesOf DEF Finish, RunningOn, Running
  <2>2. ~Unborn(c)
    BY <1>0, <2>1, FrameIs DEF Stacked, Begun, ConnOps
  <2>3. /\ con' = [con EXCEPT ![c].state = EndState(c), ![c].cbs = FALSE, ![c].channel = FALSE]
        /\ UNCHANGED <<chan, peer, backlog, leaked, tasks, closeCalls, liveChannels, curIt>>
    BY <1>14 DEF Finish, pollVars
  <2>4. \A d \in Conns : /\ con'[d].channel => con[d].channel /\ d # c
                         /\ d # c => con'[d] = con[d]
    BY <2>3 DEF Types, ConTypes
  <2>5. ~con'[c].channel
    BY <2>3 DEF Types, ConTypes
  <2>6. Born' /\ Apart' /\ Onwards
    BY <1>0, <2>2, <2>3, <2>4 DEF Born, Apart, Onwards, Unborn
  <2>7. Waiting'
    <3>1. Skips(0)
      BY <2>3, SkipsIs
    <3> QED
      BY <1>0, <2>3, <3>1, WaitingKept DEF Unborn
  <2>8. IteratorValid'
    BY <1>0, <2>3 DEF IteratorValid
  <2>9. \A f \in ToSet(stack') : f \in ToSet(stack) \/ f = Frame("Delete", c)
    <3>1. Frame("Delete", c) \in Frames
      BY FrameIs DEF ConnOps
    <3>2. stack' = <<Frame("Delete", c)>> \o Resume \/ stack' = <<>> \o Resume
      BY <1>14 DEF Finish
    <3>3. stack' = <<Frame("Delete", c)>> \o Resume \/ stack' = Resume
      BY <2>1, <3>1, <3>2, GoOn
    <3> QED
      BY <2>1, <3>1, <3>3, FramesOf
  <2>10. \A f \in ToSet(stack') : f \in ToSet(stack) \/ Begun(f)'
    <3> SUFFICES ASSUME NEW f \in ToSet(stack'), f \notin ToSet(stack) PROVE Begun(f)'
      OBVIOUS
    <3>1. f.op = "Delete" /\ f.c = c
      BY <2>9, FrameIs
    <3>2. ~Unborn(c)'
      BY <2>2, <2>3 DEF Unborn
    <3> QED
      BY <2>5, <3>1, <3>2 DEF Begun
  <2> QED
    BY <1>0, <2>6, <2>7, <2>8, <2>10, StackedKept DEF Places
<1>15. ASSUME NEW c \in Conns, Delete(c)
       PROVE  Places'
  <2>1. stack # <<>> /\ Frame("Delete", c) \in ToSet(stack)
    BY <1>15, FramesOf DEF Delete, Running
  <2>2. ~Unborn(c) /\ ~con[c].channel
    BY <1>0, <2>1, FrameIs DEF Stacked, Begun, ConnOps
  <2> DEFINE rest == <<Frame("Free", c)>> \o Resume
  <2>3. CloseChannel(c, rest) /\ UNCHANGED <<con, peer, backlog, leaked, closeCalls, tasks>>
    BY <1>15 DEF Delete
  <2>4. rest \in Seq(Frames) /\ \A f \in ToSet(rest) : f \in ToSet(stack) \/ f = Frame("Free", c)
    BY <2>1, GoOn, FramesOf, FrameIs DEF ConnOps
  <2>5. \A f \in ToSet(rest) : f \in ToSet(stack) \/ f.op \notin ConnOps
                              \/ (f.op = "Free" /\ f.c = c /\ ~con[c].channel)
    BY <2>2, <2>4, FrameIs
  <2>6. Skips(0)
    BY <2>3, SkipsIs
  <2> HIDE DEF rest
  <2> QED
    BY <2>2, <2>3, <2>4, <2>5, <2>6, CloseChannelKept
<1>16. ASSUME NEW c \in Conns, Free(c)
       PROVE  Places'
  <2>1. stack # <<>> /\ Frame("Free", c) \in ToSet(stack)
    BY <1>16, FramesOf DEF Free, Running
  <2>2. ~Unborn(c) /\ ~con[c].channel /\ chan[c].fd = NoFd
    BY <1>0, <2>1, FrameIs DEF Stacked, Begun, ConnOps
  <2>3. /\ chan' = [chan EXCEPT ![c].mem = "freed"]
        /\ UNCHANGED <<con, peer, backlog, leaked, tasks, closeCalls, liveChannels, curIt>>
    BY <1>16 DEF Free, pollVars
  <2>4. \A ch \in Chans : /\ chan'[ch].fd = chan[ch].fd
                          /\ chan'[ch].mem = IF ch = c THEN "freed" ELSE chan[ch].mem
    BY <2>3 DEF Types, ChanTypes, Chans
  <2>5. \A d \in Conns : /\ chan'[d].fd = chan[d].fd
                         /\ Unborn(d)' <=> Unborn(d)
                         /\ d # c => chan'[d].mem = chan[d].mem
    BY <2>2, <2>4 DEF Unborn, Chans
  <2>6. Born' /\ Apart' /\ Onwards
    BY <1>0, <2>2, <2>3, <2>5 DEF Born, Apart, Onwards, Unborn
  <2>7. Waiting'
    <3>1. Skips(0)
      BY <2>3, SkipsIs
    <3> QED
      BY <1>0, <2>3, <2>5, <3>1, WaitingKept
  <2>8. IteratorValid'
    BY <1>0, <2>2, <2>3, <2>4 DEF IteratorValid
  <2>9. \A f \in ToSet(stack') : f \in ToSet(stack)
    BY <1>16, <2>1, FramesOf DEF Free
  <2> QED
    BY <1>0, <2>6, <2>7, <2>8, <2>9, StackedKept DEF Places
<1>17. CASE Crash
  <2>1. \A f \in ToSet(stack') : FALSE
    BY <1>17 DEF Crash, ToSet
  <2> QED
    BY <1>0, <1>17, <2>1, QuietPlaces, SameLifeIs DEF Crash, pollVars
<1>18. ASSUME NEW c \in Conns, Peer(c)
       PROVE  Places'
  <2>1. UNCHANGED <<stack, liveChannels, curIt, chan, con, tasks, leaked, closeCalls>>
    BY <1>18 DEF Peer, loopVars, pollVars
  <2>2. CASE Connect(c)
    <3>1. /\ peer[c].end = "none" /\ backlog' = Append(backlog, c)
          /\ \A d \in Conns : peer'[d].end = IF d = c THEN "open" ELSE peer[d].end
      BY <2>2 DEF Connect, Types, PeerTypes
    <3>2. Unborn(c) /\ c \notin ToSet(backlog) /\ \A i \in DOMAIN tasks : Attaches(i) => tasks[i].c # c
      BY <1>0, <3>1 DEF Born, Waiting
    <3>3. backlog \in Seq(Conns) /\ Once(backlog)
      BY <1>0 DEF Waiting, Types, PeerTypes
    <3>4. Once(backlog') /\ ToSet(backlog') = ToSet(backlog) \cup {c}
      BY <3>1, <3>2, <3>3, AppendIsOnce
    <3>5. /\ \A d \in ToSet(backlog) : d \in Conns
          /\ \A i \in DOMAIN tasks : tasks[i].c \in Conns
      <4>1. \A i \in DOMAIN tasks : tasks[i] \in Tasks
        BY DEF Types, TaskTypes
      <4> QED
        BY <3>3, <4>1 DEF ToSet, Tasks
    <3>6. Waiting'
      <4>1. \A d \in ToSet(backlog') : Unborn(d)' /\ peer'[d].end # "none"
        BY <1>0, <2>1, <3>1, <3>2, <3>4, <3>5 DEF Waiting, Unborn
      <4>2. \A i \in DOMAIN tasks : Attaches(i) => tasks[i].c \in Conns \ {c}
        BY <3>2, <3>5
      <4>3. \A i \in DOMAIN tasks : Attaches(i) =>
              /\ Unborn(tasks[i].c) /\ peer'[tasks[i].c].end # "none"
              /\ tasks[i].c \notin ToSet(backlog')
        BY <1>0, <3>1, <3>4, <4>2 DEF Waiting
      <4>4. tasks' = tasks /\ chan' = chan /\ leaked' = leaked /\ closeCalls' = closeCalls
        BY <2>1
      <4>5. \A i \in DOMAIN tasks : tasks[i].op = "Attach" =>
              /\ chan[tasks[i].c].mem = "unborn" /\ peer'[tasks[i].c].end # "none"
              /\ tasks[i].c \notin ToSet(backlog')
        BY <4>3 DEF Attaches, Unborn
      <4>6. \A i \in DOMAIN tasks : tasks[i].op = "Attach" =>
              tasks[i].fd \in Fds \ leaked /\ \A d \in Conns : chan[d].fd # tasks[i].fd
        BY <1>0 DEF Waiting, Attaches
      <4>7. \A i, j \in DOMAIN tasks : tasks[i].op = "Attach" /\ tasks[j].op = "Attach" /\ i # j =>
              tasks[i].c # tasks[j].c /\ tasks[i].fd # tasks[j].fd
        BY <1>0 DEF Waiting, Attaches
      <4>8. \A i \in DOMAIN tasks : tasks[i].op = "Close" =>
              chan[tasks[i].c].mem # "unborn" /\ closeCalls[tasks[i].c] > 0
        BY <1>0 DEF Waiting, Unborn
      <4>9. Once(backlog') /\ \A d \in ToSet(backlog') : chan[d].mem = "unborn" /\ peer'[d].end # "none"
        BY <3>4, <4>1, <4>4 DEF Unborn
      <4>10. \A i \in DOMAIN tasks' : tasks'[i].op = "Attach" =>
              /\ chan'[tasks'[i].c].mem = "unborn" /\ peer'[tasks'[i].c].end # "none"
              /\ tasks'[i].c \notin ToSet(backlog')
              /\ tasks'[i].fd \in Fds \ leaked' /\ \A d \in Conns : chan'[d].fd # tasks'[i].fd
        BY ONLY <4>4, <4>5, <4>6
      <4>11. \A i, j \in DOMAIN tasks' : tasks'[i].op = "Attach" /\ tasks'[j].op = "Attach" /\ i # j =>
              tasks'[i].c # tasks'[j].c /\ tasks'[i].fd # tasks'[j].fd
        BY ONLY <4>4, <4>7
      <4>12. \A i \in DOMAIN tasks' : tasks'[i].op = "Close" =>
              chan'[tasks'[i].c].mem # "unborn" /\ closeCalls'[tasks'[i].c] > 0
        BY ONLY <4>4, <4>8
      <4>13. \A d \in ToSet(backlog') : chan'[d].mem = "unborn" /\ peer'[d].end # "none"
        BY ONLY <4>4, <4>9
      <4> QED
        BY ONLY <4>9, <4>10, <4>11, <4>12, <4>13 DEF Waiting, Attaches, Unborn
    <3>7. Born' /\ Apart' /\ Stacked' /\ IteratorValid'
      <4>1. Born'
        BY <1>0, <2>1, <3>1, <3>2 DEF Born, Unborn
      <4>2. Apart' /\ IteratorValid'
        BY <1>0, <2>1 DEF Apart, IteratorValid
      <4>3. Stacked'
        BY <1>0, <2>1 DEF Stacked, Begun, Unborn
      <4> QED
        BY <4>1, <4>2, <4>3
    <3> QED
      BY <3>6, <3>7 DEF Places
  <2>3. CASE SendHalf(c) \/ SendBad(c) \/ HangUp(c)
    <3>1. UNCHANGED backlog /\ SameLife
      BY <2>1, <2>3 DEF SendHalf, SendBad, HangUp, Peerable, SameLife, Types, PeerTypes
    <3> QED
      BY <1>0, <2>1, <3>1, QuietPlaces
  <2> QED
    BY <1>18, <2>2, <2>3 DEF Peer
<1>19. ASSUME NEW c \in Conns, Assign(c)
       PROVE  Places'
  <2>1. /\ backlog # <<>> /\ c = Head(backlog) /\ backlog' = Tail(backlog)
        /\ UNCHANGED <<stack, liveChannels, curIt, chan, con, peer, leaked, closeCalls>>
    BY <1>19 DEF Assign, loopVars, pollVars
  <2>2. PICK fd \in FreeFds : SafeCall(<<Task("Attach", c, fd)>>)
    BY <1>19 DEF Assign
  <2> DEFINE t == Task("Attach", c, fd)
             n == Len(tasks)
  <2>3. t \in Tasks /\ t.op = "Attach" /\ t.c = c /\ t.fd = fd
    BY DEF Task, Tasks, FreeFds
  <2>4. /\ tasks \in Seq(Tasks) /\ tasks' = Append(tasks, t) /\ n \in Nat
    <3>1. tasks \in Seq(Tasks) /\ tasks' = tasks \o <<t>>
      BY <2>2 DEF SafeCall, Types, TaskTypes
    <3> HIDE DEF t
    <3> QED
      BY <2>3, <3>1, AppendIsConcat
  <2> HIDE DEF t
  <2>5. /\ tasks' \in Seq(Tasks) /\ DOMAIN tasks' = 1 .. n + 1 /\ DOMAIN tasks = 1 .. n
        /\ tasks'[n + 1] = t /\ \A i \in 1 .. n : tasks'[i] = tasks[i]
    BY <2>3, <2>4, AppendProperties
  <2> HIDE DEF n
  <2>6. \A i \in DOMAIN tasks' : i \in DOMAIN tasks \/ (i = n + 1 /\ i \notin DOMAIN tasks)
    BY <2>4, <2>5
  <2>7. /\ c \in ToSet(backlog) /\ Once(backlog') /\ ToSet(backlog') = ToSet(backlog) \ {c}
    BY <1>0, <2>1, TailIsOnce DEF Waiting, Types, PeerTypes
  <2>8. /\ fd \in Fds /\ fd \notin leaked /\ \A d \in Conns : chan[d].fd # fd
        /\ \A i \in DOMAIN tasks : tasks[i].fd # fd
    BY DEF FreeFds, ToSet
  <2>9. Unborn(c) /\ peer[c].end # "none" /\ \A i \in DOMAIN tasks : Attaches(i) => tasks[i].c # c
    BY <1>0, <2>7 DEF Waiting
  <2>10. \A i \in DOMAIN tasks' :
           \/ i \in DOMAIN tasks /\ tasks'[i] = tasks[i]
           \/ i \notin DOMAIN tasks /\ i = n + 1 /\ tasks'[i] = t
    BY <2>5, <2>6
  <2>11. \A i \in DOMAIN tasks' : tasks'[i].op = "Attach" =>
           /\ Unborn(tasks'[i].c) /\ peer[tasks'[i].c].end # "none" /\ tasks'[i].c \notin ToSet(backlog')
           /\ tasks'[i].fd \in Fds \ leaked /\ \A d \in Conns : chan[d].fd # tasks'[i].fd
    BY <1>0, <2>3, <2>7, <2>8, <2>9, <2>10 DEF Waiting, Attaches
  <2>12. \A i, j \in DOMAIN tasks' : tasks'[i].op = "Attach" /\ tasks'[j].op = "Attach" /\ i # j =>
           tasks'[i].c # tasks'[j].c /\ tasks'[i].fd # tasks'[j].fd
    BY <1>0, <2>3, <2>8, <2>9, <2>10 DEF Waiting, Attaches
  <2>13. \A i \in DOMAIN tasks' : tasks'[i].op = "Close" =>
           ~Unborn(tasks'[i].c) /\ closeCalls[tasks'[i].c] > 0
    BY <1>0, <2>3, <2>10 DEF Waiting
  <2>14. Waiting'
    BY <1>0, <2>1, <2>7, <2>11, <2>12, <2>13 DEF Waiting, Attaches, Unborn
  <2>15. Born' /\ Apart' /\ Stacked' /\ IteratorValid'
    BY <1>0, <2>1 DEF Born, Apart, Stacked, Begun, IteratorValid, Unborn
  <2> QED
    BY <2>14, <2>15 DEF Places
<1>20. CASE UNCHANGED vars
  BY <1>0, <1>20, QuietPlaces, SameLifeIs DEF vars, loopVars, pollVars
<1> QED
  BY <1>1, <1>2, <1>3, <1>4, <1>5, <1>6, <1>7, <1>8, <1>9, <1>10, <1>11, <1>12, <1>13,
     <1>14, <1>15, <1>16, <1>17, <1>18, <1>19, <1>20
  DEF Next, Loop, Handler, Crashed

\* LoopOnce's iterator never points at an erased element, and m_liveChannels holds
\* each open channel once and nothing else, whatever the handlers attach and close
\* while the loop iterates (PollerSelect::RemoveChannel).
THEOREM IteratorAlwaysValid == Spec => []IteratorValid
<1>1. Spec => []Places
  BY PlacesInit, PlacesStep, TypesAlways, PTL DEF Spec
<1>2. Places => IteratorValid
  BY DEF Places
<1> QED
  BY <1>1, <1>2, PTL

----------------------------------------------------------------------------
(* The life of a connection, and what the stack says of it.  The frames    *)
(* below the running one are those that Channel::Close interrupted, so the *)
(* stack holds frames of one connection only, and few kinds of them.       *)

On(op, c) == Frame(op, c) \in ToSet(stack)
Under(f) == \E j \in DOMAIN stack : j >= 2 /\ stack[j] = f
NoneUnder(op) == \A j \in DOMAIN stack : j >= 2 => stack[j].op # op

ServiceOps == {"HandleWakeup", "HandleAccept", "Drain"}

Shape ==
  /\ \A i \in DOMAIN stack : stack[i].op \in ServiceOps => i = Len(stack)
  /\ \A i \in DOMAIN stack : i >= 2 => stack[i].op \in {"Drain", "Finish", "Free"}
  /\ \A i, j \in DOMAIN stack : stack[i].c = stack[j].c
  /\ \A i \in DOMAIN stack : i >= 2 /\ stack[i].op = "Free" => i = 2 /\ stack[1].op = "HandleRead"

\* The state callbacks that a state comes after.
Heard(st) == CASE st = "Connected" -> <<"Connected">>
               [] st = "Closed"    -> <<"Connected", "Closed">>
               [] st = "Failed"    -> <<"Failed">>
               [] OTHER            -> <<>>

InUse(c) == con[c].state \in {"Handshaking", "Connected"}

\* The fields of a connection and the loop's lists agree with its state.
Known(c) ==
  /\ con[c].state = "Invalid" <=> Unborn(c)
  /\ con[c].channel <=> InUse(c)
  /\ con[c].cbs <=> InUse(c)
  /\ c \in conns <=> InUse(c)
  /\ c \in idleConns <=> con[c].state = "Connected" /\ con[c].idleIds
  /\ con[c].state \in {"Invalid", "Handshaking"} => ~con[c].idleIds
  /\ con[c].state \in {"Invalid", "Handshaking", "Failed"} => con[c].input = <<>>
  /\ notified[c] = Heard(con[c].state)

\* What may still run of a connection in a given state.
Pending(c) ==
  /\ con[c].state = "Handshaking" => ~Under(Frame("Finish", c))
  /\ con[c].state = "Failed" => ~On("OnMsg", c) /\ ~On("Cleanup", c) /\ ~On("Finish", c)
  /\ Ended(c) /\ chan[c].mem = "alive" => On("Delete", c) \/ On("Free", c)

\* A complete message in m_input belongs to an open connection, and the handler
\* that will deliver it is running.
Decoding(c) == stack # <<>> /\ stack[1].c = c /\ stack[1].op \in {"HandleRead", "OnMsg", "Cleanup"}
Decodable(c) ==
  Complete(con[c].input) =>
    /\ con[c].state = "Connected" /\ chan[c].fd # NoFd
    /\ phase = "crashed" \/ Decoding(c)

\* Why a connection is closed, and why it is being cleaned up.
Asked(c) == closeCalls[c] > 0 \/ peer[c].next = Bad
Left(c) == peer[c].end = "rst" \/ (peer[c].end = "fin" /\ peer[c].kern = <<>>)
Why(c) ==
  /\ chan[c].fd = NoFd /\ ~Unborn(c) => Ended(c) \/ Asked(c)
  /\ Ended(c) \/ On("Cleanup", c) \/ On("Finish", c) => Asked(c) \/ Left(c)

\* A peer that sent a bad header waits for the server to close the connection:
\* then a connection is cleaned up once.
CleanedOnce(c) ==
  /\ peer[c].end \in {"fin", "rst"} => peer[c].next # Bad
  /\ \A op \in ConnOps : On(op, c) => chan[c].mem = "alive"
  /\ On("Cleanup", c) \/ On("Finish", c) =>
       InUse(c) /\ (chan[c].fd = NoFd \/ peer[c].end \in {"fin", "rst"})
Shallow ==
  \A i \in DOMAIN stack : i >= 2 /\ stack[i].op = "Finish" => i = 2 /\ stack[1].op = "OnMsg"


Lives ==
  /\ Shape
  /\ \A c \in Conns : Known(c) /\ Pending(c) /\ Decodable(c) /\ Why(c)
Gentle == Shallow /\ \A c \in Conns : CleanedOnce(c)

\* One step of the running handler: N holds what may be on top after it, M what
\* may be second; everything else was below the running frame before.
Moved(N, M) ==
  /\ phase # "crashed"
  /\ \A i \in DOMAIN stack' : \/ i = 1 /\ stack'[i] \in N
                              \/ i = 2 /\ stack'[i] \in M
                              \/ \E j \in DOMAIN stack : j >= 2 /\ stack[j] = stack'[i]
  /\ \A j \in DOMAIN stack : j >= 2 => stack[j] \in ToSet(stack')

\* The handler returns.
LEMMA Popped ==
  ASSUME Types, Shape, stack # <<>>, stack' = Resume
  PROVE  Shape' /\ Moved({}, {}) /\ (Shallow => NoneUnder("Finish")')
<1>1. /\ stack \in Seq(Frames) /\ phase # "crashed" /\ Len(stack) \in Nat \ {0}
      /\ DOMAIN stack = 1 .. Len(stack)
  BY RunningIs DEF Types, LoopTypes
<1>2. /\ stack' \in Seq(Frames) /\ Len(stack') = Len(stack) - 1
      /\ \A k \in 1 .. Len(stack) - 1 : stack'[k] = stack[k + 1]
  BY <1>1, TailIs DEF Resume
<1>3. DOMAIN stack' = 1 .. Len(stack) - 1
  BY <1>2
<1>4. \A i \in DOMAIN stack' : i + 1 \in DOMAIN stack /\ stack'[i] = stack[i + 1] /\ i + 1 >= 2
                               /\ i \in Nat /\ i >= 1
  BY <1>1, <1>2, <1>3
<1>5. \A j \in DOMAIN stack : j >= 2 => j - 1 \in DOMAIN stack' /\ stack'[j - 1] = stack[j]
  BY <1>1, <1>2, <1>3
<1>6. \A j \in DOMAIN stack : j >= 2 => stack[j] \in ToSet(stack')
  BY <1>5 DEF ToSet
<1>7. Shape'
  <2>1. \A i \in DOMAIN stack' : stack'[i].op \in ServiceOps => i = Len(stack')
    <3> SUFFICES ASSUME NEW i \in DOMAIN stack', stack'[i].op \in ServiceOps PROVE i = Len(stack')
      OBVIOUS
    <3>1. i + 1 = Len(stack)
      BY <1>4 DEF Shape
    <3> QED
      BY <1>1, <1>2, <1>4, <3>1
  <2>2. \A i \in DOMAIN stack' : i >= 2 => stack'[i].op # "Free"
    <3> SUFFICES ASSUME NEW i \in DOMAIN stack', i >= 2, stack'[i].op = "Free" PROVE FALSE
      OBVIOUS
    <3>1. i + 1 = 2
      BY <1>4 DEF Shape
    <3> QED
      BY <1>4, <3>1
  <2>3. \A i \in DOMAIN stack' : i >= 2 => stack'[i].op \in {"Drain", "Finish", "Free"}
    BY <1>4 DEF Shape
  <2>4. \A i, j \in DOMAIN stack' : stack'[i].c = stack'[j].c
    BY <1>4 DEF Shape
  <2> QED
    BY <2>1, <2>2, <2>3, <2>4 DEF Shape
<1>8. Moved({}, {})
  BY <1>1, <1>4, <1>6 DEF Moved
<1>9. Shallow => NoneUnder("Finish")'
  <2> SUFFICES ASSUME Shallow, NEW i \in DOMAIN stack', i >= 2, stack'[i].op = "Finish" PROVE FALSE
    BY DEF NoneUnder
  <2>1. i + 1 = 2
    BY <1>4 DEF Shallow
  <2> QED
    BY <1>4, <2>1
<1> QED
  BY <1>7, <1>8, <1>9

\* The handler calls another in tail position.
LEMMA Replaced ==
  ASSUME Types, Shape, stack # <<>>, NEW f \in Frames, stack' = <<f>> \o Resume,
         f.op \in ServiceOps => Len(stack) = 1,
         f.c = stack[1].c \/ Len(stack) = 1,
         NoneUnder("Free")
  PROVE  /\ Shape' /\ Moved({f}, {}) /\ f \in ToSet(stack')
         /\ stack' # <<>> /\ stack'[1] = f
         /\ \A op : NoneUnder(op) => NoneUnder(op)'
<1>1. /\ stack \in Seq(Frames) /\ phase # "crashed" /\ Len(stack) \in Nat \ {0}
      /\ DOMAIN stack = 1 .. Len(stack)
  BY RunningIs DEF Types, LoopTypes
<1>2. /\ stack' \in Seq(Frames) /\ Len(stack') = Len(stack) /\ stack' # <<>> /\ stack'[1] = f
      /\ \A k \in 2 .. Len(stack) : stack'[k] = stack[k]
      /\ f \in ToSet(stack')
  BY <1>1, TopIs DEF Resume
<1>3. PICK n \in Nat \ {0} : n = Len(stack)
  BY <1>1
<1>4. DOMAIN stack' = 1 .. n /\ DOMAIN stack = 1 .. n
  <2>1. DOMAIN stack' = 1 .. Len(stack') /\ Len(stack') = n
    BY <1>2, <1>3
  <2>2. DOMAIN stack = 1 .. n
    BY <1>1, <1>3
  <2> QED
    BY <2>1, <2>2
<1>5. \A k \in 2 .. n : stack'[k] = stack[k]
  BY <1>2, <1>3
<1>6. \A i \in DOMAIN stack' : i = 1 \/ (i >= 2 /\ i \in DOMAIN stack /\ stack'[i] = stack[i])
  BY <1>4, <1>5
<1>7. \A j \in DOMAIN stack : j >= 2 => stack[j] \in ToSet(stack')
  <2> SUFFICES ASSUME NEW j \in DOMAIN stack, j >= 2 PROVE stack[j] \in ToSet(stack')
    OBVIOUS
  <2>1. j \in DOMAIN stack' /\ stack'[j] = stack[j]
    BY <1>4, <1>5
  <2> QED
    BY <2>1 DEF ToSet
<1>8. Shape'
  <2>1. \A i \in DOMAIN stack' : stack'[i].op \in ServiceOps => i = Len(stack')
    BY <1>2, <1>6 DEF Shape
  <2>2. \A i \in DOMAIN stack' : i >= 2 => stack'[i].op \in {"Drain", "Finish", "Free"}
                                           /\ stack'[i].op # "Free"
    BY <1>6 DEF Shape, NoneUnder
  <2>3. \A i \in DOMAIN stack' : stack'[i].c = f.c
    <3>1. 1 \in DOMAIN stack
      BY <1>1
    <3>2. Len(stack) = 1 => \A i \in DOMAIN stack' : i = 1
      BY <1>3, <1>4
    <3> QED
      BY <1>2, <1>6, <3>1, <3>2 DEF Shape
  <2> QED
    BY <2>1, <2>2, <2>3 DEF Shape
<1>9. Moved({f}, {})
  BY <1>1, <1>2, <1>6, <1>7 DEF Moved
<1>10. \A op : NoneUnder(op) => NoneUnder(op)'
  <2> SUFFICES ASSUME NEW op, NoneUnder(op), NEW i \in DOMAIN stack', i >= 2
               PROVE  stack'[i].op # op
    BY DEF NoneUnder
  <2>1. i # 1
    BY <1>4
  <2> QED
    BY <1>6, <2>1 DEF NoneUnder
<1> QED
  BY <1>2, <1>8, <1>9, <1>10

\* The handler calls another and is to go on as g.
LEMMA Pushed ==
  ASSUME Types, Shape, stack # <<>>, NEW f \in Frames, NEW g \in Frames,
         stack' = <<f, g>> \o Resume,
         f.op \notin ServiceOps, g.op \in {"Drain", "Finish", "Free"},
         g.op = "Drain" => Len(stack) = 1,
         g.op = "Free" => f.op = "HandleRead",
         f.c = g.c, g.c = stack[1].c \/ Len(stack) = 1,
         NoneUnder("Free")
  PROVE  /\ Shape' /\ Moved({f}, {g}) /\ f \in ToSet(stack') /\ g \in ToSet(stack')
         /\ stack' # <<>> /\ stack'[1] = f
         /\ NoneUnder("Finish") /\ (g.op = "Finish" => f.op = "OnMsg") => Shallow'
<1>1. /\ stack \in Seq(Frames) /\ phase # "crashed" /\ Len(stack) \in Nat \ {0}
      /\ DOMAIN stack = 1 .. Len(stack)
  BY RunningIs DEF Types, LoopTypes
<1>2. /\ stack' \in Seq(Frames) /\ Len(stack') = Len(stack) + 1 /\ stack' # <<>>
      /\ stack'[1] = f /\ stack'[2] = g
      /\ \A k \in 2 .. Len(stack) : stack'[k + 1] = stack[k]
      /\ f \in ToSet(stack') /\ g \in ToSet(stack')
  BY <1>1, TwoOnTop DEF Resume
<1>3. DOMAIN stack' = 1 .. Len(stack) + 1
  BY <1>2
<1>4. \A i \in DOMAIN stack' : \/ i = 1 \/ i = 2
                               \/ /\ i >= 3 /\ i \in Nat /\ i - 1 \in DOMAIN stack
                                  /\ i - 1 >= 2 /\ stack'[i] = stack[i - 1]
  <2> SUFFICES ASSUME NEW i \in DOMAIN stack', i # 1, i # 2
               PROVE  /\ i >= 3 /\ i \in Nat /\ i - 1 \in DOMAIN stack
                      /\ i - 1 >= 2 /\ stack'[i] = stack[i - 1]
    OBVIOUS
  <2>1. i \in Nat /\ i >= 3 /\ i - 1 \in 2 .. Len(stack) /\ (i - 1) + 1 = i
    BY <1>1, <1>3
  <2>2. stack'[(i - 1) + 1] = stack[i - 1]
    BY <1>2, <2>1
  <2> QED
    BY <1>1, <2>1, <2>2
<1>5. \A j \in DOMAIN stack : j >= 2 => stack[j] \in ToSet(stack')
  <2> SUFFICES ASSUME NEW j \in DOMAIN stack, j >= 2 PROVE stack[j] \in ToSet(stack')
    OBVIOUS
  <2>1. j + 1 \in DOMAIN stack' /\ stack'[j + 1] = stack[j]
    BY <1>1, <1>2, <1>3
  <2> QED
    BY <2>1 DEF ToSet
<1>6. Shape'
  <2>1. \A i \in DOMAIN stack' : stack'[i].op \in ServiceOps => i = Len(stack')
    <3> SUFFICES ASSUME NEW i \in DOMAIN stack', stack'[i].op \in ServiceOps PROVE i = Len(stack')
      OBVIOUS
    <3>1. CASE i = 1 \/ i = 2
      BY <1>2, <3>1 DEF ServiceOps
    <3>2. CASE i # 1 /\ i # 2
      <4>1. i - 1 = Len(stack) /\ i \in Nat
        BY <1>4, <3>2 DEF Shape
      <4> QED
        BY <1>1, <1>2, <4>1
    <3> QED
      BY <3>1, <3>2
  <2>2. \A i \in DOMAIN stack' : i >= 2 => stack'[i].op \in {"Drain", "Finish", "Free"}
                                           /\ (stack'[i].op = "Free" => i = 2 /\ stack'[1].op = "HandleRead")
    BY <1>2, <1>4 DEF Shape, NoneUnder
  <2>3. \A i \in DOMAIN stack' : stack'[i].c = f.c
    <3>1. 1 \in DOMAIN stack
      BY <1>1
    <3>2. CASE Len(stack) = 1
      <4>1. \A i \in DOMAIN stack' : i = 1 \/ i = 2
        BY <1>3, <3>2
      <4> QED
        BY <1>2, <4>1
    <3>3. CASE Len(stack) # 1
      <4>1. \A j \in DOMAIN stack : stack[j].c = f.c
        BY <3>1, <3>3 DEF Shape
      <4> QED
        BY <1>2, <1>4, <4>1
    <3> QED
      BY <3>2, <3>3
  <2>4. \A i, j \in DOMAIN stack' : stack'[i].c = stack'[j].c
    BY <2>3
  <2> QED
    BY <2>1, <2>2, <2>4 DEF Shape
<1>7. Moved({f}, {g})
  BY <1>1, <1>2, <1>4, <1>5 DEF Moved
<1>8. ASSUME NoneUnder("Finish"), g.op = "Finish" => f.op = "OnMsg"
      PROVE  Shallow'
  BY <1>2, <1>4, <1>8 DEF Shallow, NoneUnder
<1> QED
  BY <1>2, <1>6, <1>7, <1>8

\* Nothing waits to be freed below the handlers that replace themselves.
LEMMA NotFreed ==
  ASSUME Types, Shape, Stacked, stack # <<>>,
         stack[1].op # "HandleRead" \/ con[stack[1].c].channel
  PROVE  NoneUnder("Free")
<1> SUFFICES ASSUME NEW j \in DOMAIN stack, j >= 2, stack[j].op = "Free" PROVE FALSE
  BY DEF NoneUnder
<1>1. stack[1].op = "HandleRead" /\ 1 \in DOMAIN stack
  BY RunningIs DEF Shape, Types, LoopTypes
<1>2. stack[j].c = stack[1].c /\ stack[j] \in ToSet(stack)
  BY <1>1 DEF Shape, ToSet
<1>3. ~con[stack[j].c].channel
  BY <1>2 DEF Stacked, Begun
<1> QED
  BY <1>1, <1>2, <1>3

\* Frames of connection d come from the running handler, or were there.
LEMMA OnMoved ==
  ASSUME NEW N, NEW M, Moved(N, M), NEW op, NEW d, On(op, d)'
  PROVE  On(op, d) \/ Frame(op, d) \in N \cup M
BY DEF Moved, On, ToSet, Frame

\* What is under the running frame after a step was there, or was put there.
LEMMA UnderMoved ==
  ASSUME NEW N, NEW M, Moved(N, M), NEW f, Under(f)'
  PROVE  Under(f) \/ f \in M
<1> SUFFICES ASSUME NEW i \in DOMAIN stack', i >= 2, stack'[i] = f, ~Under(f)
             PROVE  f \in M
  BY DEF Under
<1>1. i # 1
  BY DEF Moved
<1> QED
  BY <1>1 DEF Moved, Under

\* What a handler may leave of connection d on the stack ...
Allowed(d, N, M) ==
  /\ \A f \in N \cup M : f.c = d =>
       /\ f.op \in {"OnMsg", "Cleanup", "Finish"} => con[d].state # "Failed"
       /\ f.op \in {"Cleanup", "Finish"} => Asked(d) \/ Left(d)
  /\ \A f \in M : f = Frame("Finish", d) => con[d].state # "Handshaking"
  /\ stack # <<>> /\ stack[1].c = d /\ stack[1].op \in {"Delete", "Free"} => On("Free", d)'
  /\ Complete(con[d].input) => Decoding(d)'

\* ... and what else, when connections are cleaned up once.
AllowedOnce(d, N, M) ==
  \A f \in N \cup M : f.c = d /\ f.op \in ConnOps =>
    /\ chan[d].mem = "alive"
    /\ f.op \in {"Cleanup", "Finish"} =>
         InUse(d) /\ (chan[d].fd = NoFd \/ peer[d].end \in {"fin", "rst"})

\* A step that does not change connection d, but may close its socket.
Unmoved(d) ==
  /\ con'[d] = con[d] /\ peer'[d] = peer[d] /\ notified'[d] = notified[d]
  /\ (d \in conns') <=> (d \in conns)
  /\ (d \in idleConns') <=> (d \in idleConns)
  /\ chan'[d].mem = chan[d].mem
  /\ closeCalls[d] > 0 => closeCalls'[d] > 0
  /\ phase = "crashed" => phase' = "crashed"

\* What holds of a connection that a step does not handle goes on holding.
LEMMA ConnKept ==
  ASSUME Types, NEW d \in Conns, Known(d), Pending(d), Decodable(d), Why(d), Unmoved(d),
         chan'[d].fd = chan[d].fd
           \/ (chan'[d].fd = NoFd /\ ~Complete(con[d].input) /\ (Ended(d) \/ Asked(d))),
         NEW N, NEW M, UNCHANGED stack \/ (Moved(N, M) /\ Allowed(d, N, M))
  PROVE  Known(d)' /\ Pending(d)' /\ Decodable(d)' /\ Why(d)'
<1>1. /\ InUse(d)' <=> InUse(d)
      /\ Ended(d)' <=> Ended(d)
      /\ Unborn(d)' <=> Unborn(d)
      /\ Asked(d) => Asked(d)'
      /\ Left(d)' <=> Left(d)
  BY DEF Unmoved, InUse, Ended, Unborn, Asked, Left
<1>2. Known(d)'
  BY <1>1 DEF Known, Unmoved
<1>3. ASSUME UNCHANGED stack PROVE Pending(d)' /\ Decodable(d)' /\ Why(d)'
  <2>1. /\ \A op : On(op, d)' <=> On(op, d)
        /\ \A f : Under(f)' <=> Under(f)
        /\ Decoding(d)' <=> Decoding(d)
    BY <1>3 DEF On, Under, Decoding
  <2>2. Pending(d)'
    BY <1>1, <2>1 DEF Pending, Unmoved
  <2>3. Decodable(d)'
    BY <2>1 DEF Decodable, Unmoved
  <2>4. Why(d)'
    BY <1>1, <2>1 DEF Why, Unmoved
  <2> QED
    BY <2>2, <2>3, <2>4
<1>4. ASSUME Moved(N, M), Allowed(d, N, M) PROVE Pending(d)' /\ Decodable(d)' /\ Why(d)'
  <2>1. \A op : On(op, d)' => On(op, d) \/ Frame(op, d) \in N \cup M
    BY <1>4, OnMoved
  <2>2. \A op : Frame(op, d).op = op /\ Frame(op, d).c = d
    BY FrameIs
  <2>3. Pending(d)'
    <3>1. con'[d].state = "Handshaking" => ~Under(Frame("Finish", d))'
      BY <1>4, UnderMoved DEF Pending, Unmoved, Allowed
    <3>2. con'[d].state = "Failed" => ~On("OnMsg", d)' /\ ~On("Cleanup", d)' /\ ~On("Finish", d)'
      BY <1>4, <2>1, <2>2 DEF Pending, Unmoved, Allowed
    <3>3. ASSUME Ended(d)', chan'[d].mem = "alive" PROVE On("Delete", d)' \/ On("Free", d)'
      <4>1. PICK op \in {"Delete", "Free"} : On(op, d)
        BY <1>1, <3>3 DEF Pending, Unmoved
      <4>2. PICK j \in DOMAIN stack : stack[j] = Frame(op, d)
        BY <4>1 DEF On, ToSet
      <4>3. CASE j >= 2
        BY <1>4, <4>1, <4>2, <4>3 DEF Moved, On
      <4>4. CASE ~(j >= 2)
        <5>1. CASE j = 1
          <6>1. stack # <<>> /\ stack[1].c = d /\ stack[1].op \in {"Delete", "Free"}
            BY <2>2, <4>1, <4>2, <5>1
          <6> QED
            BY <1>4, <6>1 DEF Allowed
        <5>2. CASE j # 1
          BY <4>4, <5>2 DEF Types, LoopTypes
        <5> QED
          BY <5>1, <5>2
      <4> QED
        BY <4>3, <4>4
    <3> QED
      BY <3>1, <3>2, <3>3 DEF Pending
  <2>4. Decodable(d)'
    BY <1>4 DEF Decodable, Unmoved, Allowed
  <2>5. Why(d)'
    <3>1. chan'[d].fd = NoFd /\ ~Unborn(d)' => Ended(d)' \/ Asked(d)'
      BY <1>1 DEF Why
    <3>2. Ended(d)' \/ On("Cleanup", d)' \/ On("Finish", d)' => Asked(d)' \/ Left(d)'
      BY <1>1, <1>4, <2>1, <2>2 DEF Why, Allowed
    <3> QED
      BY <3>1, <3>2 DEF Why
  <2> QED
    BY <2>3, <2>4, <2>5
<1> QED
  BY <1>2, <1>3, <1>4

\* The same of what holds when a connection is cleaned up only once.
LEMMA OnceKept ==
  ASSUME NEW d \in Conns, CleanedOnce(d), Unmoved(d),
         chan'[d].fd = chan[d].fd \/ chan'[d].fd = NoFd,
         NEW N, NEW M, UNCHANGED stack \/ (Moved(N, M) /\ AllowedOnce(d, N, M))
  PROVE  CleanedOnce(d)'
<1>1. InUse(d)' <=> InUse(d)
  BY DEF Unmoved, InUse
<1>2. \A op : Frame(op, d).op = op /\ Frame(op, d).c = d
  BY FrameIs
<1>3. \A op : On(op, d)' => On(op, d) \/ (Frame(op, d) \in N \cup M /\ AllowedOnce(d, N, M))
  <2>1. CASE UNCHANGED stack
    BY <2>1 DEF On
  <2>2. CASE Moved(N, M) /\ AllowedOnce(d, N, M)
    BY <2>2, OnMoved
  <2> QED
    BY <2>1, <2>2
<1>4. \A op \in ConnOps : On(op, d)' => chan[d].mem = "alive"
  BY <1>2, <1>3 DEF CleanedOnce, AllowedOnce
<1>5. "Cleanup" \in ConnOps /\ "Finish" \in ConnOps
  BY DEF ConnOps
<1>6. On("Cleanup", d)' \/ On("Finish", d)' =>
        InUse(d) /\ (chan[d].fd = NoFd \/ peer[d].end \in {"fin", "rst"})
  BY <1>2, <1>3, <1>5 DEF CleanedOnce, AllowedOnce
<1> QED
  BY <1>1, <1>4, <1>6 DEF CleanedOnce, Unmoved

\* The other connections, while a handler of connection c runs.
LEMMA ElseKept ==
  ASSUME Types, NEW d \in Conns, Known(d), Pending(d), Decodable(d), Why(d), Unmoved(d),
         chan'[d].fd = chan[d].fd,
         NEW N, NEW M, Moved(N, M),
         \A f \in N \cup M : f.c # d \/ f.op \in ServiceOps,
         stack # <<>> => stack[1].c # d \/ stack[1].op \in ServiceOps
  PROVE  /\ Known(d)' /\ Pending(d)' /\ Decodable(d)' /\ Why(d)'
         /\ CleanedOnce(d) => CleanedOnce(d)'
<1>1. ServiceOps \cap ConnOps = {} /\ {"OnMsg", "Cleanup", "Finish", "Delete", "Free"} \subseteq ConnOps
      /\ {"HandleRead", "OnMsg", "Cleanup"} \subseteq ConnOps
  BY DEF ServiceOps, ConnOps
<1>2. ~Decoding(d) /\ phase # "crashed"
  BY <1>1 DEF Decoding, Moved
<1>3. ~Complete(con[d].input)
  BY <1>2 DEF Decodable
<1>4. Allowed(d, N, M)
  BY <1>1, <1>3, FrameIs DEF Allowed
<1>5. AllowedOnce(d, N, M)
  BY <1>1 DEF AllowedOnce
<1> QED
  BY <1>4, <1>5, ConnKept, OnceKept

\* All connections but the one whose handler runs.
LEMMA RestKept ==
  ASSUME Types, Lives, NEW c \in Conns, NEW N, NEW M,
         UNCHANGED stack \/ Moved(N, M),
         \A f \in N \cup M : f.c = c \/ f.op \in ServiceOps,
         stack # <<>> => stack[1].c = c \/ stack[1].op \in ServiceOps,
         \A d \in Conns \ {c} : Unmoved(d) /\ chan'[d].fd = chan[d].fd
  PROVE  /\ \A d \in Conns \ {c} : Known(d)' /\ Pending(d)' /\ Decodable(d)' /\ Why(d)'
         /\ Gentle => \A d \in Conns \ {c} : CleanedOnce(d)'
<1> SUFFICES ASSUME NEW d \in Conns \ {c}
             PROVE  /\ Known(d)' /\ Pending(d)' /\ Decodable(d)' /\ Why(d)'
                    /\ CleanedOnce(d) => CleanedOnce(d)'
  BY DEF Gentle
<1>1. /\ Known(d) /\ Pending(d) /\ Decodable(d) /\ Why(d) /\ d \in Conns
      /\ Unmoved(d) /\ chan'[d].fd = chan[d].fd /\ d # c
  BY DEF Lives
<1>2. CASE UNCHANGED stack
  BY <1>1, <1>2, ConnKept, OnceKept
<1>3. CASE Moved(N, M)
  BY <1>1, <1>3, ElseKept
<1> QED
  BY <1>2, <1>3

\* A step that touches no connection and no frame.
LEMMA QuietLives ==
  ASSUME Types, Lives, UNCHANGED stack, \A d \in Conns : Unmoved(d) /\ chan'[d].fd = chan[d].fd
  PROVE  Lives' /\ (Gentle => Gentle')
<1>1. Shape' /\ (Shallow => Shallow')
  BY DEF Lives, Shape, Shallow
<1>2. \A d \in Conns : Known(d)' /\ Pending(d)' /\ Decodable(d)' /\ Why(d)'
  BY ConnKept DEF Lives
<1>3. \A d \in Conns : CleanedOnce(d) => CleanedOnce(d)'
  BY OnceKept
<1> QED
  BY <1>1, <1>2, <1>3 DEF Lives, Gentle

\* The dispatch loop calls a handler.
LEMMA Started ==
  ASSUME Types, Lives, Places, stack = <<>>, phase # "crashed", NEW f \in Frames,
         stack' = <<f>> \/ stack' = <<>>,
         f.op \in {"HandleWakeup", "HandleAccept", "HandleRead", "HandleWrite"},
         f.op \in ConnOps => chan[f.c].mem = "alive",
         \A d \in Conns : Unmoved(d) /\ chan'[d].fd = chan[d].fd
  PROVE  Lives' /\ (Gentle => Gentle')
<1>1. \A i \in DOMAIN stack' : i = 1 /\ stack'[i] = f /\ i = Len(stack')
  <2>1. CASE stack' = <<f>>
    <3>1. DOMAIN stack' = 1 .. 1 /\ Len(stack') = 1 /\ stack'[1] = f
      BY <2>1
    <3>2. \A i \in 1 .. 1 : i = 1
      OBVIOUS
    <3> QED
      BY <3>1, <3>2
  <2>2. CASE stack' = <<>>
    <3>1. DOMAIN stack' = {}
      BY <2>2
    <3> QED
      BY <3>1
  <2> QED
    BY <2>1, <2>2
<1>2. Shape' /\ Shallow'
  BY <1>1 DEF Shape, Shallow
<1>3. Moved({f}, {})
  BY <1>1 DEF Moved
<1>4. \A d \in Conns : ~Complete(con[d].input)
  BY DEF Lives, Decodable, Decoding
<1>5. \A d \in Conns : Allowed(d, {f}, {})
  BY <1>4 DEF Allowed
<1>6. \A d \in Conns : AllowedOnce(d, {f}, {})
  BY DEF AllowedOnce
<1>7. \A d \in Conns : Known(d)' /\ Pending(d)' /\ Decodable(d)' /\ Why(d)'
  BY <1>3, <1>5, ConnKept DEF Lives
<1>8. \A d \in Conns : CleanedOnce(d) => CleanedOnce(d)'
  BY <1>3, <1>6, OnceKept
<1> QED
  BY <1>2, <1>7, <1>8 DEF Lives, Gentle

\* What holds of the connection whose handler is on top.
LEMMA TopOf ==
  ASSUME Types, Places, Lives, NEW c \in Conns, NEW op \in ConnOps, Running(op, c)
  PROVE  /\ stack # <<>> /\ stack[1] = Frame(op, c) /\ stack[1].op = op /\ stack[1].c = c
         /\ On(op, c) /\ ~Unborn(c) /\ phase # "crashed"
         /\ con[c].state # "Invalid"
         /\ op # "HandleRead" \/ InUse(c) => NoneUnder("Free")
         /\ op \notin {"HandleRead", "OnMsg", "Cleanup"} => ~Complete(con[c].input)
         /\ op \in {"Delete", "Free"} => ~InUse(c) /\ Ended(c)
         /\ op = "Free" => chan[c].fd = NoFd
<1>1. stack # <<>> /\ stack[1] = Frame(op, c) /\ On(op, c)
  BY FramesOf DEF Running, On
<1>2. stack[1].op = op /\ stack[1].c = c
  BY <1>1, FrameIs
<1>3. phase # "crashed"
  BY <1>1 DEF Types, LoopTypes
<1>4. /\ ~Unborn(c) /\ (op \in {"Delete", "Free"} => ~con[c].channel)
      /\ (op = "Free" => chan[c].fd = NoFd)
  BY <1>1, FrameIs DEF Places, Stacked, Begun, On
<1>5. con[c].state # "Invalid" /\ (con[c].channel <=> InUse(c))
  BY <1>4 DEF Lives, Known
<1>6. op # "HandleRead" \/ InUse(c) => NoneUnder("Free")
  BY <1>1, <1>2, <1>5, NotFreed DEF Lives, Places
<1>7. op \notin {"HandleRead", "OnMsg", "Cleanup"} => ~Complete(con[c].input)
  BY <1>2, <1>3 DEF Lives, Decodable, Decoding
<1>8. op \in {"Delete", "Free"} => ~InUse(c) /\ Ended(c)
  BY <1>4, <1>5 DEF InUse, Ended, Types, ConTypes
<1> QED
  BY <1>1, <1>2, <1>3, <1>4, <1>5, <1>6, <1>7, <1>8

\* A step of c's handler that changes nothing but frames, and perhaps closes
\* the channel.
LEMMA FramesLives ==
  ASSUME Types, Lives, NEW c \in Conns, NEW N, NEW M, Moved(N, M), Shape',
         \A f \in N \cup M : f.c = c \/ f.op \in ServiceOps,
         stack # <<>> => stack[1].c = c \/ stack[1].op \in ServiceOps,
         \A d \in Conns : Unmoved(d) /\ (chan'[d].fd = chan[d].fd \/ d = c),
         chan'[c].fd = chan[c].fd
           \/ (chan'[c].fd = NoFd /\ ~Complete(con[c].input) /\ (Ended(c) \/ Asked(c))),
         Allowed(c, N, M)
  PROVE  Lives' /\ (Gentle /\ Shallow' /\ AllowedOnce(c, N, M) => Gentle')
<1>1. /\ \A d \in Conns \ {c} : Known(d)' /\ Pending(d)' /\ Decodable(d)' /\ Why(d)'
      /\ Gentle => \A d \in Conns \ {c} : CleanedOnce(d)'
  BY RestKept
<1>2. Known(c)' /\ Pending(c)' /\ Decodable(c)' /\ Why(c)'
  BY ConnKept DEF Lives
<1>3. CleanedOnce(c) /\ AllowedOnce(c, N, M) => CleanedOnce(c)'
  BY OnceKept
<1> QED
  BY <1>1, <1>2, <1>3 DEF Lives, Gentle

\* The dispatch loop.
LEMMA DispatchLives ==
  ASSUME Types, Places, Lives,
         Select \/ Scan \/ TryWrite \/ Tally \/ EndScan \/ HandleTimeouts
  PROVE  Lives' /\ (Gentle => Gentle')
<1> USE DEF scanVars, baseVars, histVars, envVars, pollVars
<1>1. CASE Select \/ Tally \/ EndScan
  <2>1. UNCHANGED <<stack, chan, con, peer, notified, conns, idleConns, closeCalls>> /\ phase # "crashed"
    BY <1>1 DEF Select, Tally, EndScan
  <2> QED
    BY <2>1, QuietLives DEF Unmoved
<1>2. CASE HandleTimeouts
  <2>1. UNCHANGED <<stack, chan, con, peer, notified, conns, idleConns>> /\ phase # "crashed"
    BY <1>2 DEF HandleTimeouts
  <2>2. PICK expired \in SUBSET {c \in idleConns : CanClose(c)} :
          \E s \in SetToSeqs(expired) : PostClose(s)
    BY <1>2 DEF HandleTimeouts
  <2>3. PICK s \in SetToSeqs(expired) : PostClose(s)
    BY <2>2
  <2>4. \A d \in Conns : closeCalls[d] > 0 => closeCalls'[d] > 0
    BY <2>3 DEF PostClose, Types, TaskTypes
  <2> QED
    BY <2>1, <2>4, QuietLives DEF Unmoved
<1>3. CASE Scan
  <2>1. /\ stack = <<>> /\ phase # "crashed"
        /\ UNCHANGED <<chan, con, peer, notified, conns, idleConns, closeCalls>>
    BY <1>3 DEF Scan, Types, LoopTypes
  <2> DEFINE f == Frame(ReadHandler(curIt), curIt)
  <2>2. /\ curIt \in Chans /\ chan[curIt].mem = "alive"
        /\ stack' = <<f>> \/ stack' = <<>>
    BY <1>3 DEF Scan, Places, IteratorValid, Types, PollTypes
  <2>3. f \in Frames /\ f.op \in {"HandleWakeup", "HandleAccept", "HandleRead"} /\ f.c = curIt
    BY <2>2, FrameIs DEF ReadHandler, Chans, ConnOps
  <2> HIDE DEF f
  <2> QED
    BY <2>1, <2>2, <2>3, Started DEF Unmoved
<1>4. CASE TryWrite
  <2>1. /\ stack = <<>> /\ phase # "crashed"
        /\ UNCHANGED <<chan, con, peer, notified, conns, idleConns, closeCalls>>
    BY <1>4 DEF TryWrite
  <2>2. CASE chan[visit.ch].mem = "alive" /\ chan[visit.ch].fd \in ws
    <3> DEFINE f == Frame("HandleWrite", visit.ch)
    <3>1. stack' = <<f>>
      BY <1>4, <2>2 DEF TryWrite
    <3>2. visit.ch \in Conns
      BY <2>2, <1>4, Names DEF TryWrite, Types, LoopTypes, ScanTypes, ChanTypes, Chans
    <3>3. f \in Frames /\ f.op = "HandleWrite" /\ f.c = visit.ch
      BY <3>2, FrameIs DEF ConnOps
    <3> HIDE DEF f
    <3> QED
      BY <2>1, <2>2, <3>1, <3>3, Started DEF Unmoved
  <2>3. CASE ~(chan[visit.ch].mem = "alive" /\ chan[visit.ch].fd \in ws)
    <3>1. UNCHANGED stack
      BY <1>4, <2>1, <2>3 DEF TryWrite
    <3> QED
      BY <2>1, <3>1, QuietLives DEF Unmoved
  <2> QED
    BY <2>2, <2>3
<1> QED
  BY <1>1, <1>2, <1>3, <1>4

\* A connection is attached by a handler of the loop's own.
LEMMA AttachLives ==
  ASSUME Types, Places, Lives, NEW c \in Conns, NEW fd \in Fds, Attach(c, fd), Unborn(c),
         UNCHANGED <<peer, notified, idleConns, closeCalls>>, phase' = phase,
         stack # <<>>, stack[1].op \in ServiceOps,
         NEW N, UNCHANGED stack \/ Moved(N, {}), \A f \in N : f.op \in ServiceOps,
         Shape', Shallow => Shallow'
  PROVE  Lives' /\ (Gentle => Gentle')
<1>1. chan[c].fd = NoFd /\ fd # NoFd
  BY Names DEF Places, IteratorValid, Unborn, Chans
<1>2. /\ \A ch \in Chans \ {c} : chan'[ch] = chan[ch]
      /\ chan'[c] = [fd |-> fd, mem |-> "alive", writable |-> FALSE]
      /\ \A d \in Conns \ {c} : con'[d] = con[d]
      /\ con'[c].state = "Handshaking" /\ con'[c].channel /\ con'[c].cbs
      /\ con'[c].input = con[c].input /\ con'[c].idleIds = con[c].idleIds
  <2>1. IteratorValid
    BY DEF Places
  <2>2. /\ IteratorValid'
        /\ \A ch \in Chans \ {c} : chan'[ch] = chan[ch]
        /\ chan'[c] = [fd |-> fd, mem |-> "alive", writable |-> FALSE]
        /\ \A d \in Conns \ {c} : con'[d] = con[d]
        /\ con'[c].state = "Handshaking" /\ con'[c].channel /\ con'[c].cbs
        /\ con'[c].input = con[c].input /\ con'[c].idleIds = con[c].idleIds
        /\ ToSet(liveChannels') = ToSet(liveChannels) \cup {c}
    BY <1>1, <2>1, AttachPlaces, Zenon
  <2> QED
    BY <2>2, Zenon
<1>3. conns' = conns \cup {c}
  BY DEF Attach
<1>4. \A d \in Conns \ {c} : Unmoved(d) /\ chan'[d].fd = chan[d].fd
  BY <1>2, <1>3 DEF Unmoved, Chans
<1>5. /\ \A d \in Conns \ {c} : Known(d)' /\ Pending(d)' /\ Decodable(d)' /\ Why(d)'
      /\ Gentle => \A d \in Conns \ {c} : CleanedOnce(d)'
  <2>1. \A f \in N \cup {} : f.c = c \/ f.op \in ServiceOps
    OBVIOUS
  <2>2. UNCHANGED stack \/ Moved(N, {})
    OBVIOUS
  <2> QED
    BY <1>4, <2>1, <2>2, RestKept
<1>6. Known(c) /\ con[c].state = "Invalid"
  BY DEF Lives, Known
<1>7. \A op \in ConnOps : ~On(op, c)
  BY FrameIs DEF Places, Stacked, Begun, On
<1>8. \A op \in ConnOps : ~On(op, c)'
  <2> SUFFICES ASSUME NEW op \in ConnOps, On(op, c)' PROVE FALSE
    OBVIOUS
  <2>1. CASE UNCHANGED stack
    BY <1>7, <2>1 DEF On
  <2>2. CASE Moved(N, {})
    <3>1. Frame(op, c) \in N
      BY <1>7, <2>2, OnMoved
    <3> QED
      BY <3>1, FrameIs DEF ServiceOps, ConnOps
  <2> QED
    BY <2>1, <2>2
<1>9. {"OnMsg", "Cleanup", "Finish", "Delete", "Free"} \subseteq ConnOps
  BY DEF ConnOps
<1>10. ~Under(Frame("Finish", c))'
  BY <1>8, <1>9 DEF On, Under, ToSet
<1>11. ~Complete(<<>>)
  BY DEF Complete
<1>12. Known(c)'
  BY <1>2, <1>3, <1>6 DEF Known, Unborn, InUse, Heard
<1>13. Pending(c)'
  BY <1>2, <1>10 DEF Pending, Ended
<1>14. Decodable(c)'
  BY <1>2, <1>6, <1>11 DEF Decodable, Known
<1>15. Why(c)'
  BY <1>1, <1>2, <1>8, <1>9 DEF Why, Ended
<1>16. CleanedOnce(c) => CleanedOnce(c)'
  BY <1>8, <1>9 DEF CleanedOnce
<1> QED
  BY <1>5, <1>12, <1>13, <1>14, <1>15, <1>16 DEF Lives, Gentle

\* The wakeup and the listening channel's handlers, and the tasks.
LEMMA ServiceLives ==
  ASSUME Types, Places, Lives, HandleWakeup \/ HandleAccept \/ Drain
  PROVE  Lives' /\ (Gentle => Gentle')
<1> USE DEF scanVars, baseVars, histVars, envVars, pollVars
<1>1. /\ Shape /\ stack # <<>> /\ stack[1] = Head(stack) /\ stack[1] \in Frames
      /\ stack[1].op \in ServiceOps /\ Len(stack) = 1 /\ DOMAIN stack = {1}
  <2>1. Shape /\ stack # <<>> /\ Head(stack).op \in ServiceOps
    BY FrameIs DEF Lives, HandleWakeup, HandleAccept, Drain, Running, ServiceOps
  <2>2. stack[1] = Head(stack) /\ stack[1] \in Frames /\ 1 \in DOMAIN stack
        /\ Len(stack) \in Nat /\ DOMAIN stack = 1 .. Len(stack)
    BY <2>1, RunningIs DEF Types, LoopTypes
  <2>3. Len(stack) = 1
    BY <2>1, <2>2 DEF Shape
  <2>4. DOMAIN stack = {1}
    BY <2>2, <2>3
  <2> QED
    BY <2>1, <2>2, <2>3, <2>4
<1>2. NoneUnder("Free") /\ NoneUnder("Finish")
  BY <1>1 DEF NoneUnder
<1>3. NoneUnder("Finish")' => Shallow'
  BY DEF NoneUnder, Shallow
<1>4. \A d \in Conns : ~Complete(con[d].input)
  <2>1. phase # "crashed" /\ \A d \in Conns : ~Decoding(d)
    BY <1>1 DEF Types, LoopTypes, Decoding, ServiceOps
  <2> QED
    BY <2>1 DEF Lives, Decodable
<1>5. CASE HandleWakeup
  <2>1. /\ stack' = <<Frame("Drain", None)>> \o Resume
        /\ UNCHANGED <<phase, chan, con, peer, notified, conns, idleConns, closeCalls>>
    BY <1>5 DEF HandleWakeup
  <2> DEFINE f == Frame("Drain", None)
  <2>2. f \in Frames /\ f.op = "Drain" /\ f.op \in ServiceOps
    BY FrameIs DEF ServiceOps
  <2> HIDE DEF f
  <2>3. Shape' /\ Moved({f}, {}) /\ NoneUnder("Finish")'
    BY <1>1, <1>2, <2>1, <2>2, Replaced DEF f
  <2>4. \A d \in Conns : Unmoved(d) /\ chan'[d].fd = chan[d].fd
    BY <2>1 DEF Unmoved
  <2>5. \A d \in Conns : /\ Known(d)' /\ Pending(d)' /\ Decodable(d)' /\ Why(d)'
                         /\ CleanedOnce(d) => CleanedOnce(d)'
    BY <1>1, <2>2, <2>3, <2>4, ElseKept DEF Lives
  <2> QED
    BY <1>3, <2>3, <2>5 DEF Lives, Gentle
<1>6. ASSUME stack' = Resume, UNCHANGED <<phase, chan, con, peer, notified, conns, idleConns, closeCalls>>
      PROVE  Lives' /\ (Gentle => Gentle')
  <2>1. Shape' /\ Moved({}, {})
    BY <1>1, <1>6, Popped
  <2>2. NoneUnder("Finish")'
    BY <1>2, <2>1 DEF NoneUnder, Moved
  <2>3. \A d \in Conns : Unmoved(d) /\ chan'[d].fd = chan[d].fd
    BY <1>6 DEF Unmoved
  <2>4. \A d \in Conns : /\ Known(d)' /\ Pending(d)' /\ Decodable(d)' /\ Why(d)'
                         /\ CleanedOnce(d) => CleanedOnce(d)'
    BY <1>1, <2>1, <2>3, ElseKept DEF Lives
  <2> QED
    BY <1>3, <2>1, <2>2, <2>4 DEF Lives, Gentle
<1>7. CASE HandleAccept
  <2>1. CASE backlog = <<>> \/ FreeFds = {}
    BY <1>6, <1>7, <2>1 DEF HandleAccept
  <2>2. CASE ~(backlog = <<>> \/ FreeFds = {})
    <3> DEFINE c == Head(backlog)
    <3>1. c \in Conns /\ Unborn(c)
      BY <2>2, TailIsOnce DEF Places, Waiting, Types, PeerTypes
    <3>2. PICK fd \in FreeFds :
            \/ Attach(c, fd) /\ UNCHANGED leaked
            \/ leaked' = leaked \cup {fd} /\ UNCHANGED <<pollVars, chan, con, conns>>
      BY <1>7, <2>2 DEF HandleAccept
    <3>3. UNCHANGED <<stack, phase, peer, notified, idleConns, closeCalls>>
      BY <1>7, <2>2 DEF HandleAccept
    <3>4. Shape' /\ (Shallow => Shallow')
      BY <1>1, <3>3 DEF Shape, Shallow
    <3> HIDE DEF c
    <3>5. CASE Attach(c, fd)
      <4>1. fd \in Fds
        BY DEF FreeFds
      <4> DEFINE N == {stack[1]}
      <4>2. (UNCHANGED stack \/ Moved(N, {})) /\ \A f \in N : f.op \in ServiceOps
        BY <1>1, <3>3
      <4> HIDE DEF N
      <4> QED
        BY <1>1, <3>1, <3>3, <3>4, <3>5, <4>1, <4>2, AttachLives
    <3>6. CASE UNCHANGED <<chan, con, conns>>
      BY <3>3, <3>6, QuietLives DEF Unmoved
    <3> QED
      BY <3>2, <3>5, <3>6
  <2> QED
    BY <2>1, <2>2
<1>8. CASE Drain
  <2>1. CASE tasks = <<>>
    BY <1>6, <1>8, <2>1 DEF Drain
  <2>2. CASE tasks # <<>>
    <3> DEFINE t == Head(tasks)
               held == IF t.op = "Close" THEN t.c ELSE None
               g == Frame("Drain", held)
               rest == <<g>> \o Resume
    <3>1. t \in Tasks /\ t = tasks[1] /\ 1 \in DOMAIN tasks
      BY <2>2 DEF Types, TaskTypes
    <3>2. t.c \in Conns /\ held \in Conns \cup {None} /\ (t.op = "Close" => held = t.c)
      BY <3>1 DEF Tasks
    <3>3. g \in Frames /\ g.op = "Drain" /\ g.c = held /\ g.op \in ServiceOps
      BY <3>2, FrameIs DEF ServiceOps
    <3>4. UNCHANGED <<phase, peer, notified, idleConns, closeCalls>>
      BY <1>8 DEF Drain
    <3>5. \/ t.op = "Attach" /\ Attach(t.c, t.fd) /\ stack' = rest
          \/ /\ t.op = "Close" /\ con[t.c].channel
             /\ CloseChannel(t.c, rest) /\ UNCHANGED <<con, conns>>
          \/ t.op = "Close" /\ stack' = rest /\ UNCHANGED <<pollVars, chan, con, conns>>
      BY <1>8, <2>2 DEF Drain
    <3>6. ASSUME stack' = rest
          PROVE  Shape' /\ Moved({g}, {}) /\ NoneUnder("Finish")'
      <4> HIDE DEF g
      <4> QED
        BY <1>1, <1>2, <3>3, <3>6, Replaced
    <3>7. CASE t.op = "Attach" /\ Attach(t.c, t.fd) /\ stack' = rest
      <4>1. Unborn(t.c) /\ t.fd \in Fds
        BY <3>1, <3>7 DEF Places, Waiting, Attaches
      <4>2. Shape' /\ Moved({g}, {}) /\ Shallow'
        BY <1>3, <3>6, <3>7
      <4> DEFINE c == t.c
                 fd == t.fd
      <4>3. c \in Conns /\ Unborn(c) /\ fd \in Fds /\ Attach(c, fd)
        BY <3>2, <3>7, <4>1
      <4> HIDE DEF c, fd, g
      <4> QED
        BY <1>1, <3>3, <3>4, <4>2, <4>3, AttachLives
    <3>8. CASE t.op = "Close" /\ stack' = rest /\ UNCHANGED <<pollVars, chan, con, conns>>
      <4>1. Shape' /\ Moved({g}, {}) /\ Shallow'
        BY <1>3, <3>6, <3>8
      <4>2. \A d \in Conns : Unmoved(d) /\ chan'[d].fd = chan[d].fd
        BY <3>4, <3>8 DEF Unmoved
      <4> HIDE DEF g
      <4>3. \A d \in Conns : /\ Known(d)' /\ Pending(d)' /\ Decodable(d)' /\ Why(d)'
                             /\ CleanedOnce(d) => CleanedOnce(d)'
        BY <1>1, <3>3, <4>1, <4>2, ElseKept DEF Lives
      <4> QED
        BY <4>1, <4>3 DEF Lives, Gentle
    <3>9. CASE t.op = "Close" /\ con[t.c].channel /\ CloseChannel(t.c, rest) /\ UNCHANGED <<con, conns>>
      <4> DEFINE c == t.c
                 f == Frame("HandleRead", c)
      <4>1. c \in Conns /\ CloseChannel(c, rest) /\ g.c = c
        BY <3>2, <3>3, <3>9
      <4>2. f \in Frames /\ f.op = "HandleRead" /\ f.c = c /\ f.op \notin ServiceOps
        BY <4>1, FrameIs DEF ConnOps, ServiceOps
      <4>3. closeCalls[c] > 0
        BY <3>1, <3>9 DEF Places, Waiting
      <4>4. /\ \A ch \in Chans : /\ chan'[ch].mem = chan[ch].mem
                                 /\ chan'[ch].fd = IF ch = c THEN NoFd ELSE chan[ch].fd
            /\ \/ chan[c].fd = NoFd /\ stack' = rest
               \/ chan[c].mem = "alive" /\ stack' = <<f>> \o rest
        <5> HIDE DEF rest
        <5>1. IteratorValid
          BY DEF Places
        <5> QED
          BY <4>1, <5>1, CloseChannelPlaces
      <4>5. \A d \in Conns : Unmoved(d) /\ (chan'[d].fd = chan[d].fd \/ d = c)
        BY <3>4, <3>9, <4>4 DEF Unmoved, Chans
      <4>6. chan'[c].fd = NoFd /\ Asked(c)
        BY <4>1, <4>3, <4>4 DEF Asked, Chans
      <4>7. CASE chan[c].fd = NoFd /\ stack' = rest
        <5>1. Shape' /\ Moved({g}, {}) /\ Shallow'
          BY <1>3, <3>6, <4>7
        <5>2. \A d \in Conns : Unmoved(d) /\ chan'[d].fd = chan[d].fd
          BY <4>5, <4>6, <4>7
        <5> HIDE DEF g
        <5>3. \A d \in Conns : /\ Known(d)' /\ Pending(d)' /\ Decodable(d)' /\ Why(d)'
                               /\ CleanedOnce(d) => CleanedOnce(d)'
          BY <1>1, <3>3, <5>1, <5>2, ElseKept DEF Lives
        <5> QED
          BY <5>1, <5>3 DEF Lives, Gentle
      <4>8. CASE chan[c].mem = "alive" /\ stack' = <<f>> \o rest
        <5> HIDE DEF g, f, c
        <5>1. stack' = <<f, g>> \o Resume
          BY <1>1, <3>3, <4>2, <4>8, FramesOf
        <5>2. Shape' /\ Moved({f}, {g}) /\ Shallow'
          BY <1>1, <1>2, <3>3, <4>1, <4>2, <5>1, Pushed
        <5>3. Allowed(c, {f}, {g})
          <6>1. g # Frame("Finish", c) /\ g.op \notin {"OnMsg", "Cleanup", "Finish"}
            BY <3>3, FrameIs
          <6> QED
            BY <1>1, <1>4, <4>1, <4>2, <6>1 DEF Allowed, ServiceOps
        <5>4. AllowedOnce(c, {f}, {g})
          BY <3>3, <4>2, <4>8 DEF AllowedOnce, ConnOps
        <5> QED
          BY <1>1, <1>4, <3>3, <4>1, <4>2, <4>5, <4>6, <5>2, <5>3, <5>4, FramesLives
      <4> QED
        BY <4>4, <4>7, <4>8
    <3> QED
      BY <3>5, <3>7, <3>8, <3>9
  <2> QED
    BY <2>1, <2>2
<1> QED
  BY <1>5, <1>7, <1>8

\* Finish waits below OnMsg only, when connections are cleaned up once.
LEMMA ShallowIs ==
  /\ Shallow /\ stack # <<>> /\ stack[1].op # "OnMsg" => NoneUnder("Finish")
  /\ NoneUnder("Finish")' => Shallow'
BY DEF Shallow, NoneUnder

\* No new frame.
LEMMA StaysIs ==
  ASSUME UNCHANGED stack \/ Moved({}, {})
  PROVE  /\ \A op, d : On(op, d)' => On(op, d)
         /\ \A f : UNCHANGED stack \/ ~Under(f)' \/ Under(f)
<1>1. CASE UNCHANGED stack
  BY <1>1 DEF On, Under
<1>2. CASE Moved({}, {})
  <2>1. \A op, d : On(op, d)' => On(op, d) \/ Frame(op, d) \in {} \cup {}
    BY <1>2, OnMoved
  <2>2. \A f : Under(f)' => Under(f) \/ f \in {}
    BY <1>2, UnderMoved
  <2> QED
    BY <2>1, <2>2
<1> QED
  BY <1>1, <1>2

\* A step without new frames keeps all that holds of the other connections.
LEMMA RestStays ==
  ASSUME Types, Lives, NEW c \in Conns,
         UNCHANGED stack \/ Moved({}, {}),
         stack # <<>> => stack[1].c = c \/ stack[1].op \in ServiceOps,
         \A d \in Conns \ {c} : Unmoved(d) /\ chan'[d].fd = chan[d].fd
  PROVE  /\ \A d \in Conns \ {c} : Known(d)' /\ Pending(d)' /\ Decodable(d)' /\ Why(d)'
         /\ Gentle => \A d \in Conns \ {c} : CleanedOnce(d)'
<1> DEFINE N == {Frame("Drain", None)}
<1>1. UNCHANGED stack \/ Moved(N, N)
  BY DEF Moved
<1>2. \A f \in N \cup N : f.c = c \/ f.op \in ServiceOps
  BY FrameIs DEF ServiceOps
<1> HIDE DEF N
<1> QED
  BY <1>1, <1>2, RestKept

\* A handler that returns.
LEMMA ReturnLives ==
  ASSUME Types, Places, Lives, NEW c \in Conns, NEW op \in ConnOps, Running(op, c),
         op \notin {"Delete", "Free"}, ~Complete(con[c].input), stack' = Resume,
         \A d \in Conns : Unmoved(d) /\ chan'[d].fd = chan[d].fd
  PROVE  Lives' /\ (Gentle => Gentle')
<1>1. stack # <<>> /\ stack[1].c = c /\ stack[1].op = op /\ phase # "crashed"
  BY TopOf
<1>2. Shape' /\ Moved({}, {}) /\ (Shallow => NoneUnder("Finish")')
  BY <1>1, Popped DEF Lives
<1>3. /\ \A d \in Conns \ {c} : Known(d)' /\ Pending(d)' /\ Decodable(d)' /\ Why(d)'
      /\ Gentle => \A d \in Conns \ {c} : CleanedOnce(d)'
  BY <1>1, <1>2, RestStays
<1>4. Allowed(c, {}, {}) /\ AllowedOnce(c, {}, {})
  BY <1>1 DEF Allowed, AllowedOnce
<1>5. Known(c)' /\ Pending(c)' /\ Decodable(c)' /\ Why(c)'
  BY <1>2, <1>4, ConnKept DEF Lives
<1>6. CleanedOnce(c) => CleanedOnce(c)'
  BY <1>2, <1>4, OnceKept
<1> QED
  BY <1>2, <1>3, <1>5, <1>6, ShallowIs DEF Lives, Gentle

\* A handler that another replaces, and that may have closed the channel.
LEMMA ReplaceLives ==
  ASSUME Types, Places, Lives, NEW c \in Conns, NEW op \in ConnOps, Running(op, c),
         op \notin {"Delete", "Free"}, op # "HandleRead" \/ InUse(c),
         NEW f \in Frames, f.c = c, f.op \notin ServiceOps, stack' = <<f>> \o Resume,
         \A d \in Conns : Unmoved(d) /\ (chan'[d].fd = chan[d].fd \/ d = c),
         chan'[c].fd = chan[c].fd
           \/ (chan'[c].fd = NoFd /\ ~Complete(con[c].input) /\ (Ended(c) \/ Asked(c))),
         f.op \in {"OnMsg", "Cleanup", "Finish"} => con[c].state # "Failed",
         f.op \in {"Cleanup", "Finish"} => Asked(c) \/ Left(c),
         Complete(con[c].input) => f.op \in {"HandleRead", "OnMsg", "Cleanup"}
  PROVE  /\ Lives'
         /\ Gentle /\ NoneUnder("Finish")
              /\ (f.op \in {"Cleanup", "Finish"} =>
                    InUse(c) /\ (chan[c].fd = NoFd \/ peer[c].end \in {"fin", "rst"}))
            => Gentle'
<1>1. /\ stack # <<>> /\ stack[1].c = c /\ stack[1].op = op /\ phase # "crashed"
      /\ NoneUnder("Free") /\ On(op, c)
  BY TopOf
<1>2. /\ Shape' /\ Moved({f}, {}) /\ stack' # <<>> /\ stack'[1] = f
      /\ NoneUnder("Finish") => NoneUnder("Finish")'
  BY <1>1, Replaced DEF Lives
<1>3. Allowed(c, {f}, {})
  BY <1>1, <1>2 DEF Allowed, Decoding
<1>4. \A x \in {f} \cup {} : x.c = c \/ x.op \in ServiceOps
  OBVIOUS
<1>5. Lives' /\ (Gentle /\ Shallow' /\ AllowedOnce(c, {f}, {}) => Gentle')
  BY <1>1, <1>2, <1>3, <1>4, FramesLives
<1>6. Gentle => chan[c].mem = "alive"
  BY <1>1 DEF Gentle, CleanedOnce
<1>7. ASSUME Gentle, NoneUnder("Finish"),
             f.op \in {"Cleanup", "Finish"} =>
               InUse(c) /\ (chan[c].fd = NoFd \/ peer[c].end \in {"fin", "rst"})
      PROVE  Gentle'
  <2>1. AllowedOnce(c, {f}, {})
    BY <1>6, <1>7 DEF AllowedOnce
  <2> QED
    BY <1>2, <1>5, <1>7, <2>1, ShallowIs
<1> QED
  BY <1>5, <1>7

\* HandleHandshake: connected, or on to Cleanup.
LEMMA HandshakeLives ==
  ASSUME Types, Places, Lives, NEW c \in Conns, NEW op \in {"HandleRead", "HandleWrite"},
         HandleHandshake(op, c)
  PROVE  Lives' /\ (Gentle => Gentle')
<1>1. op \in ConnOps /\ Running(op, c) /\ con[c].state = "Handshaking" /\ InUse(c)
  BY DEF ConnOps, HandleHandshake, RunningOn, InUse
<1>2. /\ stack # <<>> /\ stack[1].c = c /\ stack[1].op = op /\ phase # "crashed"
      /\ NoneUnder("Free") /\ On(op, c) /\ ~Unborn(c)
  BY <1>1, TopOf
<1>3. Known(c) /\ Pending(c) /\ Decodable(c) /\ Why(c) /\ Shape
  BY DEF Lives
<1>4. con[c].input = <<>> /\ ~Complete(con[c].input) /\ ~Ended(c)
  <2>1. con[c].input = <<>>
    BY <1>1, <1>3 DEF Known
  <2> QED
    BY <1>1, <2>1 DEF Complete, Ended
<1>5. UNCHANGED <<phase, chan, peer, conns, closeCalls>>
  BY DEF HandleHandshake, envVars
<1>6. CASE \E idle \in BOOLEAN :
             /\ chan[c].fd # NoFd
             /\ con' = [con EXCEPT ![c].state = "Connected", ![c].idleIds = idle]
             /\ idleConns' = IF idle THEN idleConns \cup {c} ELSE idleConns
             /\ notified' = [notified EXCEPT ![c] = Append(@, "Connected")]
             /\ stack' = IF op = "HandleRead" THEN stack ELSE Resume
  <2>1. PICK idle \in BOOLEAN :
             /\ chan[c].fd # NoFd
             /\ con' = [con EXCEPT ![c].state = "Connected", ![c].idleIds = idle]
             /\ idleConns' = IF idle THEN idleConns \cup {c} ELSE idleConns
             /\ notified' = [notified EXCEPT ![c] = Append(@, "Connected")]
             /\ stack' = IF op = "HandleRead" THEN stack ELSE Resume
    BY <1>6
  <2>2. /\ con'[c].state = "Connected" /\ con'[c].idleIds = idle
        /\ con'[c].channel = con[c].channel /\ con'[c].cbs = con[c].cbs
        /\ con'[c].input = con[c].input
        /\ \A d \in Conns \ {c} : con'[d] = con[d]
    BY <2>1 DEF Types, ConTypes
  <2>3. /\ \A d \in Conns \ {c} : notified'[d] = notified[d]
        /\ notified'[c] = <<"Connected">>
    <3>1. notified'[c] = Append(notified[c], "Connected") /\ \A d \in Conns \ {c} : notified'[d] = notified[d]
      BY <2>1 DEF Types, ConTypes
    <3>2. notified[c] = <<>>
      BY <1>1, <1>3 DEF Known, Heard
    <3> QED
      BY <3>1, <3>2
  <2>4. \A d \in Conns \ {c} : Unmoved(d) /\ chan'[d].fd = chan[d].fd
    BY <1>5, <2>1, <2>2, <2>3 DEF Unmoved
  <2>5. /\ UNCHANGED stack \/ Moved({}, {})
        /\ Shape' /\ (Shallow => Shallow')
    <3>1. CASE stack' = stack
      BY <1>3, <3>1 DEF Shape, Shallow
    <3>2. CASE stack' = Resume
      BY <1>2, <1>3, <3>2, Popped, ShallowIs
    <3> QED
      BY <2>1, <3>1, <3>2
  <2>6. /\ \A d \in Conns \ {c} : Known(d)' /\ Pending(d)' /\ Decodable(d)' /\ Why(d)'
        /\ Gentle => \A d \in Conns \ {c} : CleanedOnce(d)'
    BY <1>2, <2>4, <2>5, RestStays
  <2>7. \A o : On(o, c)' => On(o, c)
    BY <2>5, StaysIs
  <2>8. Known(c)'
    <3>1. c \in conns' /\ InUse(c)' /\ con'[c].channel /\ con'[c].cbs /\ ~Unborn(c)'
      BY <1>1, <1>2, <1>3, <1>5, <2>2 DEF Known, InUse, Unborn
    <3>2. c \in idleConns' <=> con'[c].idleIds
      BY <1>1, <1>3, <2>1, <2>2 DEF Known
    <3> QED
      BY <2>2, <2>3, <3>1, <3>2 DEF Known, Heard
  <2>9. Pending(c)' /\ Decodable(c)'
    BY <1>4, <2>2 DEF Pending, Decodable, Ended
  <2>10. Why(c)'
    BY <1>3, <1>4, <1>5, <2>1, <2>2, <2>7 DEF Why, Ended, Asked, Left
  <2>11. CleanedOnce(c) => CleanedOnce(c)'
    BY <1>1, <1>5, <2>2, <2>7 DEF CleanedOnce, InUse
  <2> QED
    BY <2>5, <2>6, <2>8, <2>9, <2>10, <2>11 DEF Lives, Gentle
<1>7. CASE /\ chan[c].fd = NoFd \/ peer[c].end = "rst"
           /\ stack' = <<Frame("Cleanup", c)>> \o Resume
           /\ UNCHANGED <<con, idleConns, notified>>
  <2> DEFINE f == Frame("Cleanup", c)
  <2>1. f \in Frames /\ f.c = c /\ f.op = "Cleanup" /\ f.op \notin ServiceOps
    BY FrameIs DEF ConnOps, ServiceOps
  <2>2. Asked(c) \/ Left(c)
    BY <1>2, <1>3, <1>4, <1>7 DEF Why, Left
  <2>3. \A d \in Conns : Unmoved(d) /\ chan'[d].fd = chan[d].fd
    BY <1>5, <1>7 DEF Unmoved
  <2> HIDE DEF f
  <2>4. Lives' /\ (Gentle /\ NoneUnder("Finish") => Gentle')
    BY <1>1, <1>4, <1>7, <2>1, <2>2, <2>3, ReplaceLives DEF f
  <2>5. Gentle => NoneUnder("Finish")
    BY <1>2, ShallowIs DEF Gentle
  <2> QED
    BY <2>4, <2>5
<1> QED
  BY <1>6, <1>7 DEF HandleHandshake

\* HandleRead: received, left to the read callback, or on to Cleanup.
LEMMA ReadLives ==
  ASSUME Types, Places, Lives, NEW c \in Conns, HandleRead(c)
  PROVE  Lives' /\ (Gentle => Gentle')
<1>1. "HandleRead" \in ConnOps /\ Running("HandleRead", c) /\ con[c].state # "Handshaking"
  BY DEF ConnOps, HandleRead, RunningOn
<1>2. /\ stack # <<>> /\ stack[1].c = c /\ stack[1].op = "HandleRead" /\ phase # "crashed"
      /\ ~Unborn(c) /\ (InUse(c) => NoneUnder("Free"))
  BY <1>1, TopOf
<1>3. Known(c) /\ Pending(c) /\ Decodable(c) /\ Why(c) /\ Shape
  BY DEF Lives
<1>4. UNCHANGED <<phase, chan, conns, idleConns, notified, closeCalls>>
  BY DEF HandleRead, baseVars, histVars
<1>5. ASSUME UNCHANGED <<con, peer>>
      PROVE  \A d \in Conns : Unmoved(d) /\ chan'[d].fd = chan[d].fd
  BY <1>4, <1>5 DEF Unmoved
<1>6. Gentle => NoneUnder("Finish")
  BY <1>2, ShallowIs DEF Gentle
<1>7. CASE con[c].state # "Connected"
  <2>1. stack' = Resume /\ UNCHANGED <<con, peer>>
    BY <1>1, <1>7 DEF HandleRead
  <2>2. ~Complete(con[c].input)
    BY <1>3, <1>7 DEF Decodable
  <2> QED
    BY <1>1, <1>5, <2>1, <2>2, ReturnLives
<1>8. CASE con[c].state = "Connected"
  <2>1. InUse(c) /\ ~Ended(c) /\ con[c].cbs
    BY <1>3, <1>8 DEF InUse, Ended, Known
  <2>2. CASE Recv(c)
    <3> DEFINE u == con[c].input \o peer[c].kern
    <3>1. /\ chan[c].fd # NoFd /\ UNCHANGED stack
          /\ con' = [con EXCEPT ![c].input = u]
          /\ peer' = [peer EXCEPT ![c].kern = <<>>]
      BY <2>2 DEF Recv
    <3> HIDE DEF u
    <3>2. /\ con'[c].state = con[c].state /\ con'[c].channel = con[c].channel
          /\ con'[c].cbs = con[c].cbs /\ con'[c].idleIds = con[c].idleIds
          /\ \A d \in Conns \ {c} : con'[d] = con[d]
      BY <3>1 DEF Types, ConTypes
    <3>3. /\ peer'[c].end = peer[c].end /\ peer'[c].next = peer[c].next /\ peer'[c].kern = <<>>
          /\ \A d \in Conns \ {c} : peer'[d] = peer[d]
      BY <3>1 DEF Types, PeerTypes
    <3>4. \A d \in Conns \ {c} : Unmoved(d) /\ chan'[d].fd = chan[d].fd
      BY <1>4, <3>2, <3>3 DEF Unmoved
    <3>5. /\ \A d \in Conns \ {c} : Known(d)' /\ Pending(d)' /\ Decodable(d)' /\ Why(d)'
          /\ Gentle => \A d \in Conns \ {c} : CleanedOnce(d)'
      BY <1>2, <3>1, <3>4, RestStays
    <3>6. Shape' /\ (Shallow => Shallow')
      BY <1>3, <3>1 DEF Shape, Shallow
    <3>7. \A o : On(o, c)' <=> On(o, c)
      BY <3>1 DEF On
    <3>8. Known(c)'
      BY <1>3, <1>4, <1>8, <3>2 DEF Known, InUse, Unborn
    <3>9. Pending(c)'
      BY <1>8, <3>2 DEF Pending, Ended
    <3>10. Decodable(c)'
      BY <1>2, <1>4, <1>8, <3>1, <3>2 DEF Decodable, Decoding
    <3>11. Why(c)'
      BY <1>3, <1>4, <3>2, <3>3, <3>7 DEF Why, Ended, Asked, Left, Unborn
    <3>12. CleanedOnce(c) => CleanedOnce(c)'
      BY <1>4, <3>2, <3>3, <3>7 DEF CleanedOnce, InUse
    <3> QED
      BY <3>5, <3>6, <3>8, <3>9, <3>10, <3>11, <3>12 DEF Lives, Gentle
  <2>3. CASE WouldBlock(c)
    <3>1. UNCHANGED <<con, peer>> /\ stack' = ReadHandled(c) \o Resume
      BY <2>3 DEF WouldBlock
    <3>2. \A d \in Conns : Unmoved(d) /\ chan'[d].fd = chan[d].fd
      BY <1>5, <3>1
    <3>3. CASE con[c].input = <<>>
      <4>1. stack' = <<>> \o Resume
        BY <3>1, <3>3 DEF ReadHandled, ReadCallback
      <4>2. stack' = Resume
        BY <1>2, <4>1, GoOn
      <4>3. ~Complete(con[c].input)
        BY <3>3 DEF Complete
      <4> QED
        BY <1>1, <3>2, <4>2, <4>3, ReturnLives
    <3>4. CASE con[c].input # <<>>
      <4> DEFINE f == Frame("OnMsg", c)
      <4>1. stack' = <<f>> \o Resume
        BY <2>1, <3>1, <3>4 DEF ReadHandled, ReadCallback
      <4>2. f \in Frames /\ f.c = c /\ f.op = "OnMsg" /\ f.op \notin ServiceOps
        BY FrameIs DEF ConnOps, ServiceOps
      <4> HIDE DEF f
      <4>3. Lives' /\ (Gentle /\ NoneUnder("Finish") => Gentle')
        BY <1>1, <1>8, <2>1, <3>2, <4>1, <4>2, ReplaceLives
      <4> QED
        BY <1>6, <4>3
    <3> QED
      BY <3>3, <3>4
  <2>4. CASE Disconnected(c)
    <3> DEFINE f == Frame("Cleanup", c)
    <3>1. /\ UNCHANGED <<con, peer>> /\ stack' = <<f>> \o Resume
          /\ chan[c].fd = NoFd \/ Left(c)
          /\ chan[c].fd = NoFd \/ peer[c].end \in {"fin", "rst"}
      BY <2>4 DEF Disconnected, Left
    <3>2. \A d \in Conns : Unmoved(d) /\ chan'[d].fd = chan[d].fd
      BY <1>5, <3>1
    <3>3. f \in Frames /\ f.c = c /\ f.op = "Cleanup" /\ f.op \notin ServiceOps
      BY FrameIs DEF ConnOps, ServiceOps
    <3>4. Asked(c) \/ Left(c)
      BY <1>2, <1>3, <2>1, <3>1 DEF Why
    <3> HIDE DEF f
    <3>5. Lives' /\ (Gentle /\ NoneUnder("Finish") => Gentle')
      BY <1>1, <1>8, <2>1, <3>1, <3>2, <3>3, <3>4, ReplaceLives
    <3> QED
      BY <1>6, <3>5
  <2> QED
    BY <1>8, <2>2, <2>3, <2>4 DEF HandleRead
<1> QED
  BY <1>7, <1>8

\* HandleWrite changes only the write interest.
LEMMA WriteLives ==
  ASSUME Types, Places, Lives, NEW c \in Conns, HandleWrite(c)
  PROVE  Lives' /\ (Gentle => Gentle')
<1>1. "HandleWrite" \in ConnOps /\ Running("HandleWrite", c) /\ stack' = Resume
  BY DEF ConnOps, HandleWrite, RunningOn
<1>2. ~Complete(con[c].input)
  BY <1>1, TopOf
<1>3. UNCHANGED <<phase, con, peer, conns, idleConns, notified, closeCalls>>
  BY DEF HandleWrite, baseVars, envVars, histVars
<1>4. \A ch \in Chans : chan'[ch].mem = chan[ch].mem /\ chan'[ch].fd = chan[ch].fd
  BY DEF HandleWrite, EnableWrite, Types, ChanTypes
<1>5. \A d \in Conns : Unmoved(d) /\ chan'[d].fd = chan[d].fd
  BY <1>3, <1>4 DEF Unmoved, Chans
<1> QED
  BY <1>1, <1>2, <1>5, ReturnLives

\* OnMsg: a message delivered, a bad header, or no more to decode.
LEMMA MsgLives ==
  ASSUME Types, Places, Lives, InTurn, NEW c \in Conns, OnMsg(c)
  PROVE  Lives' /\ (Gentle => Gentle')
<1>1. "OnMsg" \in ConnOps /\ Running("OnMsg", c)
  BY DEF ConnOps, OnMsg, RunningOn
<1>2. /\ stack # <<>> /\ stack[1].c = c /\ stack[1].op = "OnMsg" /\ phase # "crashed"
      /\ ~Unborn(c) /\ NoneUnder("Free") /\ On("OnMsg", c)
  BY <1>1, TopOf
<1>3. Known(c) /\ Pending(c) /\ Decodable(c) /\ Why(c) /\ Shape
  BY DEF Lives
<1>4. UNCHANGED <<phase, peer, conns, idleConns, notified>>
  BY DEF OnMsg, envVars
<1>5. CASE Complete(con[c].input)
  <2>1. con' = [con EXCEPT ![c].input = Consume(@)] /\ UNCHANGED stack
    BY <1>5 DEF OnMsg
  <2>2. \A ch \in Chans : chan'[ch].mem = chan[ch].mem /\ chan'[ch].fd = chan[ch].fd
    BY <1>5 DEF OnMsg, EnableWrite, Types, ChanTypes
  <2>3. \A d \in Conns : closeCalls[d] > 0 => closeCalls'[d] > 0
    <3>1. UNCHANGED closeCalls \/ PostClose(<<c>>)
      BY <1>5 DEF OnMsg
    <3> QED
      BY <3>1 DEF PostClose, Types, TaskTypes
  <2>4. /\ con'[c].state = con[c].state /\ con'[c].channel = con[c].channel
        /\ con'[c].cbs = con[c].cbs /\ con'[c].idleIds = con[c].idleIds
        /\ \A d \in Conns \ {c} : con'[d] = con[d]
    BY <2>1 DEF Types, ConTypes
  <2>5. \A d \in Conns \ {c} : Unmoved(d) /\ chan'[d].fd = chan[d].fd
    BY <1>4, <2>2, <2>3, <2>4 DEF Unmoved, Chans
  <2>6. /\ \A d \in Conns \ {c} : Known(d)' /\ Pending(d)' /\ Decodable(d)' /\ Why(d)'
        /\ Gentle => \A d \in Conns \ {c} : CleanedOnce(d)'
    BY <1>2, <2>1, <2>5, RestStays
  <2>7. Shape' /\ (Shallow => Shallow')
    BY <1>3, <2>1 DEF Shape, Shallow
  <2>8. \A o : On(o, c)' <=> On(o, c)
    BY <2>1 DEF On
  <2>9. con[c].state = "Connected" /\ chan[c].fd # NoFd
    BY <1>3, <1>5 DEF Decodable
  <2>10. chan'[c].mem = chan[c].mem /\ chan'[c].fd = chan[c].fd
    BY <2>2 DEF Chans
  <2>11. Known(c)'
    BY <1>3, <1>4, <2>4, <2>9, <2>10 DEF Known, InUse, Unborn
  <2>12. Pending(c)'
    BY <2>4, <2>9 DEF Pending, Ended
  <2>13. Decodable(c)'
    BY <1>2, <2>1, <2>4, <2>9, <2>10 DEF Decodable, Decoding
  <2>14. Why(c)'
    BY <1>3, <1>4, <2>3, <2>4, <2>8, <2>10 DEF Why, Ended, Asked, Left, Unborn
  <2>15. CleanedOnce(c) => CleanedOnce(c)'
    BY <1>4, <2>4, <2>8, <2>10 DEF CleanedOnce, InUse
  <2> QED
    BY <2>6, <2>7, <2>11, <2>12, <2>13, <2>14, <2>15 DEF Lives, Gentle
<1>6. CASE ~Complete(con[c].input)
  <2>1. UNCHANGED <<con, closeCalls>>
    BY <1>6 DEF OnMsg
  <2>2. CASE stack' = Resume /\ UNCHANGED chan
    <3>1. \A d \in Conns : Unmoved(d) /\ chan'[d].fd = chan[d].fd
      BY <1>4, <2>1, <2>2 DEF Unmoved
    <3> QED
      BY <1>1, <1>6, <2>2, <3>1, ReturnLives
  <2>3. CASE con[c].input # <<>> /\ con[c].input[1] = Bad /\ CloseChannel(c, Resume)
    <3> DEFINE f == Frame("HandleRead", c)
    <3>1. /\ \A ch \in Chans : /\ chan'[ch].mem = chan[ch].mem
                               /\ chan'[ch].fd = IF ch = c THEN NoFd ELSE chan[ch].fd
          /\ \/ chan[c].fd = NoFd /\ stack' = Resume
             \/ chan[c].fd # NoFd /\ stack' = <<f>> \o Resume
      <4>1. IteratorValid
        BY DEF Places
      <4> QED
        BY <2>3, <4>1, CloseChannelPlaces
    <3>2. \A d \in Conns : Unmoved(d) /\ (chan'[d].fd = chan[d].fd \/ d = c)
      BY <1>4, <2>1, <3>1 DEF Unmoved, Chans
    <3>3. chan'[c].fd = NoFd
      BY <3>1 DEF Chans
    <3>4. peer[c].next = Bad
      <4>1. con[c].input \in Seq(Value) /\ peer[c].kern \in Seq(Value)
        BY DEF Types, ConTypes, PeerTypes
      <4>2. Len(Unread(c)) >= 1 /\ Unread(c)[1] = Bad /\ Len(Unread(c)) \in Nat
        <5> DEFINE x == con[c].input
                   y == peer[c].kern
        <5>1. x \in Seq(Value) /\ y \in Seq(Value) /\ x # <<>> /\ x[1] = Bad
          BY <2>3, <4>1
        <5>0. Unread(c) = x \o y
          BY DEF Unread
        <5> HIDE DEF x, y
        <5>2. Len(x) \in Nat /\ Len(x) >= 1 /\ Len(y) \in Nat
          BY <5>1
        <5>3. Len(x \o y) = Len(x) + Len(y) /\ (x \o y)[1] = x[1]
          BY <5>1, <5>2, ConcatProperties
        <5> QED
          BY <5>1, <5>2, <5>3, <5>0
      <4>3. \/ Unread(c)[1] = 2 * Len(delivered[c]) + 1
            \/ peer[c].next = Bad
        BY <4>2 DEF InTurn, Continues
      <4>4. Len(delivered[c]) \in Nat /\ Bad \notin Nat
        BY ReactorAssumption DEF Types, ConTypes
      <4> QED
        BY <4>2, <4>3, <4>4
    <3>5. CASE chan[c].fd = NoFd /\ stack' = Resume
      <4>1. \A d \in Conns : Unmoved(d) /\ chan'[d].fd = chan[d].fd
        BY <3>2, <3>3, <3>5
      <4> QED
        BY <1>1, <1>6, <3>5, <4>1, ReturnLives
    <3>6. CASE chan[c].fd # NoFd /\ stack' = <<f>> \o Resume
      <4>1. f \in Frames /\ f.c = c /\ f.op = "HandleRead" /\ f.op \notin ServiceOps
        BY FrameIs DEF ConnOps, ServiceOps
      <4> HIDE DEF f
      <4>2. Lives' /\ (Gentle /\ NoneUnder("Finish") => Gentle')
        BY <1>1, <1>6, <3>2, <3>3, <3>4, <3>6, <4>1, ReplaceLives DEF Asked
      <4>3. Gentle => NoneUnder("Finish")
        <5> SUFFICES ASSUME Gentle, NEW j \in DOMAIN stack, j >= 2, stack[j].op = "Finish"
                     PROVE  FALSE
          BY DEF NoneUnder
        <5>1. stack[j] \in ToSet(stack) /\ 1 \in DOMAIN stack
          BY <1>2, RunningIs DEF ToSet, Types, LoopTypes
        <5>2. stack[j] \in Frames
          BY DEF Types, LoopTypes
        <5>3. stack[j].c = c
          BY <1>2, <1>3, <5>1 DEF Shape
        <5>4. On("Finish", c)
          BY <5>1, <5>2, <5>3, FrameIs DEF On
        <5> QED
          BY <3>4, <3>6, <5>4 DEF Gentle, CleanedOnce
      <4> QED
        BY <4>2, <4>3
    <3> QED
      BY <3>1, <3>5, <3>6
  <2> QED
    BY <1>6, <2>2, <2>3 DEF OnMsg
<1> QED
  BY <1>5, <1>6

\* Cleanup: the rest of the input is handed out before Finish.
LEMMA CleanupLives ==
  ASSUME Types, Places, Lives, NEW c \in Conns, Cleanup(c)
  PROVE  Lives' /\ (Gentle => Gentle')
<1>1. "Cleanup" \in ConnOps /\ Running("Cleanup", c)
  BY DEF ConnOps, Cleanup, RunningOn
<1>2. /\ stack # <<>> /\ stack[1].c = c /\ stack[1].op = "Cleanup" /\ phase # "crashed"
      /\ NoneUnder("Free") /\ On("Cleanup", c) /\ con[c].state # "Invalid"
  BY <1>1, TopOf
<1>3. Known(c) /\ Pending(c) /\ Decodable(c) /\ Why(c) /\ Shape
  BY DEF Lives
<1>4. UNCHANGED <<phase, chan, con, peer, conns, idleConns, notified, closeCalls>>
  BY DEF Cleanup, baseVars, histVars, envVars
<1>5. \A d \in Conns : Unmoved(d) /\ chan'[d].fd = chan[d].fd
  BY <1>4 DEF Unmoved
<1>6. con[c].state # "Failed" /\ (Asked(c) \/ Left(c))
  BY <1>2, <1>3 DEF Pending, Why
<1>7. Gentle => /\ NoneUnder("Finish") /\ chan[c].mem = "alive"
                /\ InUse(c) /\ (chan[c].fd = NoFd \/ peer[c].end \in {"fin", "rst"})
  BY <1>1, <1>2, ShallowIs DEF Gentle, CleanedOnce
<1> DEFINE g == Frame("Finish", c)
<1>8. g \in Frames /\ g.c = c /\ g.op = "Finish" /\ g.op \notin ServiceOps
  BY FrameIs DEF ConnOps, ServiceOps
<1>9. CASE con[c].cbs /\ con[c].input # <<>>
  <2> DEFINE f == Frame("OnMsg", c)
  <2>1. f \in Frames /\ f.c = c /\ f.op = "OnMsg" /\ f.op \notin ServiceOps /\ f # g
    BY FrameIs DEF ConnOps, ServiceOps
  <2>2. stack' = <<f>> \o <<g>> \o Resume
    BY <1>9 DEF Cleanup, RestHandled, ReadCallback
  <2> HIDE DEF f, g
  <2>3. stack' = <<f, g>> \o Resume
    BY <1>2, <1>8, <2>1, <2>2, GoOn
  <2>4. /\ Shape' /\ Moved({f}, {g}) /\ stack' # <<>> /\ stack'[1] = f
        /\ NoneUnder("Finish") => Shallow'
    BY <1>2, <1>3, <1>8, <2>1, <2>3, Pushed
  <2>5. con[c].state # "Handshaking"
    BY <1>3, <1>9 DEF Known
  <2>6. Allowed(c, {f}, {g})
    BY <1>2, <1>6, <2>1, <2>4, <2>5 DEF Allowed, Decoding
  <2>7. Gentle => AllowedOnce(c, {f}, {g})
    BY <1>7 DEF AllowedOnce
  <2>8. \A x \in {f} \cup {g} : x.c = c \/ x.op \in ServiceOps
    BY <1>8, <2>1
  <2>9. Lives' /\ (Gentle /\ Shallow' /\ AllowedOnce(c, {f}, {g}) => Gentle')
    BY <1>2, <1>5, <2>4, <2>6, <2>8, FramesLives
  <2> QED
    BY <1>7, <2>4, <2>7, <2>9
<1>10. CASE ~(con[c].cbs /\ con[c].input # <<>>)
  <2>1. stack' = <<>> \o <<g>> \o Resume
    BY <1>10 DEF Cleanup, RestHandled, ReadCallback
  <2>2. ~Complete(con[c].input)
    <3>1. con[c].input # <<>> => con[c].state # "Connected"
      BY <1>3, <1>10 DEF Known, InUse
    <3>2. ~Complete(<<>>)
      BY DEF Complete
    <3> QED
      BY <1>3, <3>1, <3>2 DEF Decodable
  <2> HIDE DEF g
  <2>3. stack' = <<g>> \o Resume
    BY <1>2, <1>8, <2>1, GoOn
  <2>4. Lives' /\ (Gentle /\ NoneUnder("Finish")
                     /\ InUse(c) /\ (chan[c].fd = NoFd \/ peer[c].end \in {"fin", "rst"}) => Gentle')
    BY <1>1, <1>5, <1>6, <1>8, <2>2, <2>3, ReplaceLives
  <2> QED
    BY <1>7, <2>4
<1> QED
  BY <1>9, <1>10

\* Finish: the connection ends and leaves the lists.
LEMMA FinishLives ==
  ASSUME Types, Places, Lives, NEW c \in Conns, Finish(c)
  PROVE  Lives' /\ (Gentle => Gentle')
<1>1. "Finish" \in ConnOps /\ "Cleanup" \in ConnOps /\ "Delete" \in ConnOps /\ Running("Finish", c)
  BY DEF ConnOps, Finish, RunningOn
<1>2. /\ stack # <<>> /\ stack[1].c = c /\ stack[1].op = "Finish" /\ phase # "crashed"
      /\ NoneUnder("Free") /\ On("Finish", c) /\ con[c].state # "Invalid" /\ ~Unborn(c)
      /\ ~Complete(con[c].input)
  BY <1>1, TopOf
<1>3. Known(c) /\ Pending(c) /\ Decodable(c) /\ Why(c) /\ Shape
  BY DEF Lives
<1>4. UNCHANGED <<phase, chan, peer, closeCalls>>
  BY DEF Finish, envVars
<1>5. /\ con[c].state \in {"Handshaking", "Connected", "Closed"}
      /\ Asked(c) \/ Left(c)
  BY <1>2, <1>3 DEF Pending, Why, Types, ConTypes
<1>6. /\ con'[c].state = EndState(c) /\ ~con'[c].cbs /\ ~con'[c].channel
      /\ con'[c].input = con[c].input /\ con'[c].idleIds = con[c].idleIds
      /\ \A d \in Conns \ {c} : con'[d] = con[d]
  BY DEF Finish, Types, ConTypes
<1>7. /\ conns' = conns \ {c}
      /\ \A d \in Conns \ {c} : notified'[d] = notified[d] /\ (d \in idleConns' <=> d \in idleConns)
      /\ notified'[c] = IF con[c].cbs THEN Append(notified[c], EndState(c)) ELSE notified[c]
      /\ idleConns' = IF con[c].idleIds THEN idleConns \ {c} ELSE idleConns
  BY DEF Finish, RemoveConn, Types, ConTypes
<1>8. \A d \in Conns \ {c} : Unmoved(d) /\ chan'[d].fd = chan[d].fd
  BY <1>4, <1>6, <1>7 DEF Unmoved
<1> DEFINE f == Frame("Delete", c)
<1>9. f \in Frames /\ f.c = c /\ f.op = "Delete" /\ f.op \notin ServiceOps
      /\ \A op : Frame(op, c) = f => op = "Delete"
  BY FrameIs DEF ConnOps, ServiceOps
<1>10. stack' = IF con[c].channel THEN <<f>> \o Resume ELSE <<>> \o Resume
  BY DEF Finish
<1> HIDE DEF f
<1>11. /\ Shape' /\ Moved({f}, {}) /\ (NoneUnder("Finish") => NoneUnder("Finish")')
       /\ con[c].channel => f \in ToSet(stack')
  <2>1. CASE con[c].channel
    BY <1>2, <1>3, <1>9, <1>10, <2>1, Replaced
  <2>2. CASE ~con[c].channel
    <3>1. stack' = Resume
      BY <1>2, <1>10, <2>2, GoOn
    <3>2. Shape' /\ Moved({}, {})
      BY <1>2, <1>3, <3>1, Popped
    <3>3. Moved({f}, {})
      BY <3>2 DEF Moved
    <3>4. NoneUnder("Finish") => NoneUnder("Finish")'
      BY <3>2 DEF Moved, NoneUnder
    <3> QED
      BY <2>2, <3>2, <3>3, <3>4
  <2> QED
    BY <2>1, <2>2
<1>12. \A x \in {f} \cup {} : x.c = c \/ x.op \in ServiceOps
  BY <1>9
<1>13. /\ \A d \in Conns \ {c} : Known(d)' /\ Pending(d)' /\ Decodable(d)' /\ Why(d)'
       /\ Gentle => \A d \in Conns \ {c} : CleanedOnce(d)'
  BY <1>2, <1>8, <1>11, <1>12, RestKept
<1>14. \A op : On(op, c)' => On(op, c) \/ op = "Delete"
  <2>1. \A op : On(op, c)' => On(op, c) \/ Frame(op, c) \in {f} \cup {}
    BY <1>11, OnMoved
  <2> QED
    BY <1>9, <2>1
<1>15. \A op \in {"OnMsg", "Cleanup", "Finish"} : On(op, c)' => op = "Finish" /\ Under(Frame("Finish", c))
  <2> SUFFICES ASSUME NEW op \in {"OnMsg", "Cleanup", "Finish"}, On(op, c)'
               PROVE  op = "Finish" /\ Under(Frame("Finish", c))
    OBVIOUS
  <2>1. PICK i \in DOMAIN stack' : stack'[i] = Frame(op, c)
    BY DEF On, ToSet
  <2>2. stack'[i] \notin {f}
    BY <1>9, <2>1
  <2>3. PICK j \in DOMAIN stack : j >= 2 /\ stack[j] = Frame(op, c)
    BY <1>11, <2>1, <2>2 DEF Moved
  <2>4. stack[j].op = op
    BY <2>3, FrameIs
  <2>5. op = "Finish"
    BY <1>3, <2>3, <2>4 DEF Shape
  <2> QED
    BY <2>3, <2>5 DEF Under
<1>16. EndState(c) \in {"Closed", "Failed"} /\ (EndState(c) = "Failed" <=> con[c].state = "Handshaking")
  BY DEF EndState
<1>17. Known(c)'
  <2>1. ~InUse(c)' /\ ~Unborn(c)' /\ c \notin conns'
    BY <1>2, <1>4, <1>6, <1>7, <1>16 DEF InUse, Unborn
  <2>2. c \notin idleConns'
    BY <1>3, <1>7 DEF Known
  <2>3. notified'[c] = Heard(EndState(c))
    <3>1. notified[c] = Heard(con[c].state) /\ (con[c].cbs <=> con[c].state \in {"Handshaking", "Connected"})
      BY <1>3 DEF Known, InUse
    <3>2. CASE con[c].state = "Handshaking"
      <4>1. notified[c] = <<>> /\ EndState(c) = "Failed" /\ con[c].cbs
        BY <3>1, <3>2 DEF Heard, EndState
      <4>2. notified'[c] = Append(<<>>, "Failed")
        BY <1>7, <4>1
      <4> QED
        BY <4>1, <4>2 DEF Heard
    <3>3. CASE con[c].state = "Connected"
      <4>1. notified[c] = <<"Connected">> /\ EndState(c) = "Closed" /\ con[c].cbs
        BY <3>1, <3>3 DEF Heard, EndState
      <4>2. notified'[c] = Append(<<"Connected">>, "Closed")
        BY <1>7, <4>1
      <4>3. Append(<<"Connected">>, "Closed") = <<"Connected", "Closed">>
        BY TwoLong
      <4> QED
        BY <4>1, <4>2, <4>3 DEF Heard
    <3>4. CASE con[c].state = "Closed"
      <4>1. EndState(c) = "Closed" /\ ~con[c].cbs
        BY <3>1, <3>4 DEF EndState
      <4> QED
        BY <1>7, <3>1, <3>4, <4>1
    <3> QED
      BY <1>5, <3>2, <3>3, <3>4
  <2>4. con'[c].state = "Failed" => con'[c].input = <<>>
    BY <1>3, <1>6, <1>16 DEF Known
  <2> QED
    BY <1>6, <1>16, <2>1, <2>2, <2>3, <2>4 DEF Known
<1>18. Pending(c)'
  <2>1. con'[c].state = "Failed" => ~On("OnMsg", c)' /\ ~On("Cleanup", c)' /\ ~On("Finish", c)'
    BY <1>3, <1>6, <1>15, <1>16 DEF Pending
  <2>2. ASSUME chan'[c].mem = "alive" PROVE On("Delete", c)' \/ On("Free", c)'
    <3>1. CASE con[c].channel
      BY <1>11, <3>1 DEF On, f
    <3>2. CASE ~con[c].channel
      <4>1. Ended(c)
        BY <1>3, <1>5, <3>2 DEF Known, InUse, Ended
      <4>2. PICK op \in {"Delete", "Free"} : On(op, c)
        BY <1>3, <1>4, <2>2, <4>1 DEF Pending
      <4>3. PICK j \in DOMAIN stack : stack[j] = Frame(op, c)
        BY <4>2 DEF On, ToSet
      <4>4. stack[j].op = op /\ j # 1
        BY <1>2, <4>2, <4>3, FrameIs
      <4>5. j >= 2
        BY <4>4 DEF Types, LoopTypes
      <4> QED
        BY <1>11, <4>2, <4>3, <4>5 DEF Moved, On
    <3> QED
      BY <3>1, <3>2
  <2> QED
    BY <1>6, <1>16, <2>1, <2>2 DEF Pending
<1>19. Decodable(c)'
  BY <1>2, <1>6 DEF Decodable
<1>20. Why(c)'
  BY <1>4, <1>5, <1>6, <1>16 DEF Why, Ended, Asked, Left
<1>21. ASSUME Gentle PROVE CleanedOnce(c)' /\ Shallow'
  <2>1. NoneUnder("Finish") /\ chan[c].mem = "alive"
    BY <1>1, <1>2, <1>21, ShallowIs DEF Gentle, CleanedOnce
  <2>2. ~Under(Frame("Finish", c))
    BY <2>1, FrameIs DEF Under, NoneUnder
  <2>3. CleanedOnce(c)'
    BY <1>4, <1>15, <1>21, <2>1, <2>2 DEF Gentle, CleanedOnce
  <2> QED
    BY <1>11, <2>1, <2>3, ShallowIs
<1> QED
  BY <1>3, <1>11, <1>13, <1>17, <1>18, <1>19, <1>20, <1>21 DEF Lives, Gentle

\* Delete: the channel of an ended connection is closed, or was closed already.
LEMMA DeleteLives ==
  ASSUME Types, Places, Lives, NEW c \in Conns, Delete(c)
  PROVE  Lives' /\ (Gentle => Gentle')
<1>1. "Delete" \in ConnOps /\ Running("Delete", c)
  BY DEF ConnOps, Delete
<1>2. /\ stack # <<>> /\ stack[1].c = c /\ stack[1].op = "Delete" /\ phase # "crashed"
      /\ NoneUnder("Free") /\ On("Delete", c) /\ ~Complete(con[c].input) /\ Ended(c)
  BY <1>1, TopOf
<1>3. Shape
  BY DEF Lives
<1>4. UNCHANGED <<phase, con, peer, conns, idleConns, notified, closeCalls>>
  BY DEF Delete, baseVars, envVars, histVars
<1> DEFINE f == Frame("HandleRead", c)
           g == Frame("Free", c)
           rest == <<g>> \o Resume
<1>5. /\ f \in Frames /\ f.c = c /\ f.op = "HandleRead" /\ f.op \notin ServiceOps
      /\ g \in Frames /\ g.c = c /\ g.op = "Free" /\ g.op \notin ServiceOps /\ g # Frame("Finish", c)
  BY FrameIs DEF ConnOps, ServiceOps
<1>6. /\ \A ch \in Chans : /\ chan'[ch].mem = chan[ch].mem
                           /\ chan'[ch].fd = IF ch = c THEN NoFd ELSE chan[ch].fd
      /\ stack' = rest \/ stack' = <<f>> \o rest
  <2> HIDE DEF rest
  <2>1. IteratorValid
    BY DEF Places
  <2>2. CloseChannel(c, rest)
    BY DEF Delete, rest
  <2> QED
    BY <2>1, <2>2, CloseChannelPlaces
<1>7. \A d \in Conns : Unmoved(d) /\ (chan'[d].fd = chan[d].fd \/ d = c)
  BY <1>4, <1>6 DEF Unmoved, Chans
<1>8. chan'[c].fd = NoFd
  BY <1>6 DEF Chans
<1>9. Gentle => NoneUnder("Finish") /\ chan[c].mem = "alive"
  BY <1>1, <1>2, ShallowIs DEF Gentle, CleanedOnce
<1> HIDE DEF f, g
<1>10. CASE stack' = rest
  <2>1. /\ Shape' /\ Moved({g}, {}) /\ g \in ToSet(stack')
        /\ NoneUnder("Finish") => NoneUnder("Finish")'
    BY <1>2, <1>3, <1>5, <1>10, Replaced
  <2>2. Allowed(c, {g}, {})
    BY <1>2, <1>5, <2>1 DEF Allowed, On, g
  <2>3. Gentle => AllowedOnce(c, {g}, {})
    BY <1>5, <1>9 DEF AllowedOnce
  <2>4. \A x \in {g} \cup {} : x.c = c \/ x.op \in ServiceOps
    BY <1>5
  <2>5. Lives' /\ (Gentle /\ Shallow' /\ AllowedOnce(c, {g}, {}) => Gentle')
    BY <1>2, <1>7, <1>8, <2>1, <2>2, <2>4, FramesLives
  <2> QED
    BY <1>9, <2>1, <2>3, <2>5, ShallowIs
<1>11. CASE stack' = <<f>> \o rest
  <2>1. stack' = <<f, g>> \o Resume
    BY <1>2, <1>5, <1>11, FramesOf
  <2>2. /\ Shape' /\ Moved({f}, {g}) /\ g \in ToSet(stack')
        /\ NoneUnder("Finish") => Shallow'
    BY <1>2, <1>3, <1>5, <2>1, Pushed
  <2>3. Allowed(c, {f}, {g})
    BY <1>2, <1>5, <2>2 DEF Allowed, On, g
  <2>4. Gentle => AllowedOnce(c, {f}, {g})
    BY <1>5, <1>9 DEF AllowedOnce
  <2>5. \A x \in {f} \cup {g} : x.c = c \/ x.op \in ServiceOps
    BY <1>5
  <2>6. Lives' /\ (Gentle /\ Shallow' /\ AllowedOnce(c, {f}, {g}) => Gentle')
    BY <1>2, <1>7, <1>8, <2>2, <2>3, <2>5, FramesLives
  <2> QED
    BY <1>9, <2>2, <2>4, <2>6
<1> QED
  BY <1>6, <1>10, <1>11

\* Free: the channel of an ended connection is destroyed.
LEMMA FreeLives ==
  ASSUME Types, Places, Lives, NEW c \in Conns, Free(c)
  PROVE  Lives' /\ (Gentle => Gentle')
<1>1. "Free" \in ConnOps /\ Running("Free", c) /\ stack' = Resume
  BY DEF ConnOps, Free
<1>2. /\ stack # <<>> /\ stack[1].c = c /\ stack[1].op = "Free" /\ phase # "crashed"
      /\ NoneUnder("Free") /\ On("Free", c) /\ ~Complete(con[c].input) /\ Ended(c) /\ ~Unborn(c)
  BY <1>1, TopOf
<1>3. Known(c) /\ Pending(c) /\ Decodable(c) /\ Why(c) /\ Shape
  BY DEF Lives
<1>4. UNCHANGED <<phase, con, peer, conns, idleConns, notified, closeCalls>>
  BY DEF Free, baseVars, envVars, histVars
<1>5. /\ chan'[c].mem = "freed" /\ chan'[c].fd = chan[c].fd
      /\ \A d \in Conns \ {c} : chan'[d] = chan[d]
  BY DEF Free, Types, ChanTypes, Chans
<1>6. Shape' /\ Moved({}, {}) /\ (Shallow => NoneUnder("Finish")')
  BY <1>1, <1>2, <1>3, Popped
<1>7. \A d \in Conns \ {c} : Unmoved(d) /\ chan'[d].fd = chan[d].fd
  BY <1>4, <1>5 DEF Unmoved
<1>8. /\ \A d \in Conns \ {c} : Known(d)' /\ Pending(d)' /\ Decodable(d)' /\ Why(d)'
      /\ Gentle => \A d \in Conns \ {c} : CleanedOnce(d)'
  BY <1>2, <1>6, <1>7, RestStays
<1>9. \A o : On(o, c)' => On(o, c)
  BY <1>6, StaysIs
<1>10. Known(c)'
  BY <1>2, <1>3, <1>4, <1>5 DEF Known, InUse, Unborn
<1>11. Pending(c)'
  BY <1>2, <1>3, <1>4, <1>5, <1>9 DEF Pending, Ended
<1>12. Decodable(c)'
  BY <1>2, <1>4 DEF Decodable
<1>13. Why(c)'
  BY <1>2, <1>3, <1>4, <1>5, <1>9 DEF Why, Ended, Asked, Left
<1>14. ASSUME Gentle PROVE CleanedOnce(c)' /\ Shallow'
  <2>1. NoneUnder("Finish")
    BY <1>2, <1>14, ShallowIs DEF Gentle
  <2>2. \A op \in ConnOps : ~On(op, c)'
    <3> SUFFICES ASSUME NEW op \in ConnOps, On(op, c)' PROVE FALSE
      OBVIOUS
    <3>1. PICK i \in DOMAIN stack' : stack'[i] = Frame(op, c)
      BY DEF On, ToSet
    <3>2. PICK j \in DOMAIN stack : j >= 2 /\ stack[j] = Frame(op, c)
      BY <1>6, <3>1 DEF Moved
    <3>3. stack[j].op = op
      BY <3>2, FrameIs
    <3> QED
      BY <1>2, <1>3, <2>1, <3>2, <3>3 DEF Shape, NoneUnder, ConnOps
  <2>3. CleanedOnce(c)'
    BY <1>4, <1>14, <2>2 DEF Gentle, CleanedOnce, ConnOps
  <2> QED
    BY <1>6, <1>14, <2>3, ShallowIs DEF Gentle
<1> QED
  BY <1>6, <1>8, <1>10, <1>11, <1>12, <1>13, <1>14 DEF Lives, Gentle

\* A crash leaves the connections as they were.
LEMMA CrashLives ==
  ASSUME Types, Places, Lives, Crash
  PROVE  Lives' /\ (Gentle => Gentle')
<1>1. /\ stack # <<>> /\ stack' = <<>> /\ phase' = "crashed"
      /\ UNCHANGED <<chan, con, peer, conns, idleConns, notified, closeCalls>>
  BY DEF Crash, Corrupt, baseVars, envVars, histVars
<1>2. /\ stack[1] \in Frames /\ stack[1] = Head(stack) /\ 1 \in DOMAIN stack
      /\ DOMAIN stack = 1 .. Len(stack)
  BY <1>1, RunningIs DEF Types, LoopTypes
<1> DEFINE f == Head(stack)
<1>3. /\ f.op \in {"HandleRead", "HandleWrite", "OnMsg", "Cleanup", "Finish"}
      /\ chan[f.c].mem # "alive" \/ (f.op = "Finish" /\ con[f.c].idleIds /\ f.c \notin idleConns)
      /\ f = stack[1]
  BY <1>2 DEF Crash, Corrupt, Holders
<1> HIDE DEF f
<1>4. DOMAIN stack' = {} /\ ToSet(stack') = {}
  BY <1>1 DEF ToSet
<1>5. Shape' /\ Shallow' /\ \A op, d : ~On(op, d)'
  BY <1>4 DEF Shape, Shallow, On
<1>6. ASSUME NEW d \in Conns PROVE Known(d)' /\ Pending(d)' /\ Decodable(d)' /\ Why(d)'
  <2>1. Known(d) /\ Pending(d) /\ Decodable(d) /\ Why(d) /\ Shape
    BY DEF Lives
  <2>2. Known(d)'
    BY <1>1, <2>1 DEF Known, InUse, Unborn
  <2>3. ASSUME Ended(d), chan[d].mem = "alive" PROVE FALSE
    <3>1. PICK op \in {"Delete", "Free"} : On(op, d)
      BY <2>1, <2>3 DEF Pending
    <3>2. PICK j \in DOMAIN stack : stack[j] = Frame(op, d)
      BY <3>1 DEF On, ToSet
    <3>3. stack[j].op = op /\ stack[j].c = d /\ d = f.c
      BY <1>2, <1>3, <2>1, <3>2, FrameIs DEF Shape
    <3>4. j # 1
      BY <1>3, <3>1, <3>3
    <3>5. j >= 2
      BY <1>2, <3>4
    <3>6. op = "Free" /\ f.op = "HandleRead"
      BY <1>3, <2>1, <3>1, <3>3, <3>5 DEF Shape
    <3> QED
      BY <1>3, <2>3, <3>3, <3>6
  <2>4. Pending(d)'
    BY <1>1, <1>4, <1>5, <2>3 DEF Pending, Under, Ended
  <2>5. Decodable(d)' /\ Why(d)'
    BY <1>1, <1>5, <2>1 DEF Decodable, Why, Ended, Asked, Left, Unborn
  <2> QED
    BY <2>2, <2>4, <2>5
<1>7. ASSUME NEW d \in Conns, CleanedOnce(d) PROVE CleanedOnce(d)'
  BY <1>1, <1>5, <1>7 DEF CleanedOnce
<1> QED
  BY <1>5, <1>6, <1>7 DEF Lives, Gentle

\* What a peer does changes why a connection may end, and nothing else.
LEMMA PeerLives ==
  ASSUME Types, Places, Lives, NEW c \in Conns, Peer(c)
  PROVE  Lives' /\ (~HangUpAfterBad /\ Gentle => Gentle')
<1>1. UNCHANGED <<stack, phase, chan, con, conns, idleConns, notified, closeCalls>>
  BY DEF Peer, loopVars, baseVars, histVars
<1>2. /\ \A d \in Conns \ {c} : peer'[d] = peer[d]
      /\ \/ /\ peer[c].end = "none" /\ peer'[c].end = "open" /\ peer'[c].next = peer[c].next
         \/ /\ peer[c].end = "open" /\ peer'[c].end = "open"
            /\ peer[c].next # Bad \/ peer'[c].next = Bad
         \/ /\ peer[c].end = "open" /\ peer'[c].end \in {"fin", "rst"}
            /\ peer'[c].next = peer[c].next
            /\ peer[c].next = Bad => HangUpAfterBad
  <2>1. CASE Connect(c)
    BY <2>1 DEF Connect, Types, PeerTypes
  <2>2. CASE SendHalf(c)
    <3>1. peer' = [peer EXCEPT ![c].kern = Append(@, peer[c].next), ![c].next = @ + 1]
          /\ peer[c].end = "open" /\ peer[c].next \in 1 .. 2 * MaxMsgs[c]
      BY <2>2 DEF SendHalf, Peerable
    <3>2. peer[c].next # Bad
      BY <3>1, ReactorAssumption
    <3>3. /\ \A d \in Conns \ {c} : peer'[d] = peer[d]
          /\ peer'[c].end = peer[c].end
      BY <3>1 DEF Types, PeerTypes
    <3> QED
      BY <3>1, <3>2, <3>3
  <2>3. CASE SendBad(c)
    BY <2>3 DEF SendBad, Peerable, Types, PeerTypes
  <2>4. CASE HangUp(c)
    BY <2>4 DEF HangUp, Peerable, Types, PeerTypes
  <2> QED
    BY <2>1, <2>2, <2>3, <2>4 DEF Peer
<1>3. /\ Shape' /\ (Shallow => Shallow')
      /\ \A op, d : On(op, d)' <=> On(op, d)
      /\ \A f : Under(f)' <=> Under(f)
  BY <1>1 DEF Lives, Shape, Shallow, On, Under
<1>4. ASSUME NEW d \in Conns PROVE Known(d)' /\ Pending(d)' /\ Decodable(d)' /\ Why(d)'
  <2>1. Known(d) /\ Pending(d) /\ Decodable(d) /\ Why(d)
    BY DEF Lives
  <2>2. Known(d)' /\ Decodable(d)'
    BY <1>1, <2>1 DEF Known, InUse, Unborn, Decodable, Decoding
  <2>3. Pending(d)'
    BY <1>1, <1>3, <2>1 DEF Pending, Ended
  <2>4. Asked(d) => Asked(d)'
    BY <1>1, <1>2 DEF Asked
  <2>5. Left(d) => Left(d)'
    BY <1>2 DEF Left
  <2>6. Why(d)'
    BY <1>1, <1>3, <2>1, <2>4, <2>5 DEF Why, Ended, Unborn
  <2> QED
    BY <2>2, <2>3, <2>6
<1>5. ASSUME ~HangUpAfterBad, NEW d \in Conns, CleanedOnce(d) PROVE CleanedOnce(d)'
  BY <1>1, <1>2, <1>3, <1>5 DEF CleanedOnce, InUse
<1> QED
  BY <1>3, <1>4, <1>5 DEF Lives, Gentle

\* No connection has begun its life at the start.
LEMMA LivesInit == Init => Lives /\ Gentle
<1> SUFFICES ASSUME Init PROVE Lives /\ Gentle
  OBVIOUS
<1>1. /\ stack = <<>> /\ DOMAIN stack = {} /\ ToSet(stack) = {} /\ conns = {} /\ idleConns = {}
      /\ \A c \in Conns : /\ chan[c].mem = "unborn"
                          /\ con[c] = [state |-> "Invalid", channel |-> FALSE, cbs |-> FALSE,
                                       input |-> <<>>, idleIds |-> FALSE]
                          /\ peer[c].end = "none" /\ notified[c] = <<>>
  BY Names DEF Init, Service, Chans, ToSet
<1>2. Shape /\ Shallow /\ \A op, c : ~On(op, c)
  BY <1>1 DEF Shape, Shallow, On
<1>3. ~Complete(<<>>)
  BY DEF Complete
<1>4. ASSUME NEW c \in Conns
      PROVE  Known(c) /\ Pending(c) /\ Decodable(c) /\ Why(c) /\ CleanedOnce(c)
  BY <1>1, <1>2, <1>3
  DEF Known, Pending, Decodable, Why, CleanedOnce, Unborn, InUse, Ended, Heard
<1> QED
  BY <1>2, <1>4 DEF Lives, Gentle

\* Every step keeps what is known of every connection's life.
LEMMA LivesStep ==
  ASSUME Types, Places, InTurn, Lives, [Next]_vars
  PROVE  Lives' /\ (~HangUpAfterBad /\ Gentle => Gentle')
<1>1. CASE \E c \in Conns : Assign(c)
  <2>1. PICK c \in Conns : Assign(c)
    BY <1>1
  <2>2. UNCHANGED <<stack, phase, chan, con, peer, conns, idleConns, notified, closeCalls>>
    BY <2>1 DEF Assign, loopVars, histVars
  <2> QED
    BY <2>2, QuietLives DEF Unmoved
<1>2. CASE UNCHANGED vars
  <2>1. UNCHANGED <<stack, phase, chan, con, peer, conns, idleConns, notified, closeCalls>>
    BY <1>2 DEF vars, loopVars, baseVars, envVars, histVars
  <2> QED
    BY <2>1, QuietLives DEF Unmoved
<1> QED
  BY <1>1, <1>2, DispatchLives, ServiceLives, HandshakeLives, ReadLives, WriteLives, MsgLives,
     CleanupLives, FinishLives, DeleteLives, FreeLives, CrashLives, PeerLives
  DEF Next, Loop, Handler, Crashed

\* The life of a connection: its state, its flags, the lists it is in, what its user
\* has heard and which of its handlers are on the stack always agree, and a
\* connection ends for a reason.  If a peer that sent a bad header waits for the
\* server to close, a connection is cleaned up once.
THEOREM LivesAlways == Spec => [](Lives /\ (~HangUpAfterBad => Gentle))
<1>1. Spec => []Places
  BY PlacesInit, PlacesStep, TypesAlways, PTL DEF Spec
<1>2. Init => Lives /\ (~HangUpAfterBad => Gentle)
  BY LivesInit
<1>3. Types /\ Places /\ InTurn /\ Lives /\ (~HangUpAfterBad => Gentle) /\ [Next]_vars
        => (Lives /\ (~HangUpAfterBad => Gentle))'
  <2> SUFFICES ASSUME Types, Places, InTurn, Lives, ~HangUpAfterBad => Gentle, [Next]_vars
               PROVE  Lives' /\ (~HangUpAfterBad => Gentle')
    OBVIOUS
  <2> QED
    BY LivesStep
<1> QED
  BY <1>1, <1>2, <1>3, TypesAlways, InTurnAlways, PTL DEF Spec

\* Of n - 1 halves, d whole messages and at most one half more.
LEMMA HalfOf ==
  ASSUME NEW n, NEW d \in Nat, NEW l \in {0, 1}, n = 2 * d + l + 1
  PROVE  d = (n - 1) \div 2
<1>1. CASE l = 0
  <2>1. n - 1 = 2 * d
    BY <1>1
  <2>2. (2 * d) \div 2 = d
    OBVIOUS
  <2> QED
    BY <2>1, <2>2
<1>2. CASE l = 1
  <2>1. n - 1 = 2 * d + 1
    BY <1>2
  <2>2. (2 * d + 1) \div 2 = d
    OBVIOUS
  <2> QED
    BY <2>1, <2>2
<1> QED
  BY <1>1, <1>2

\* The user hears Connected and then Closed, or Failed alone, each once (Cleanup,
\* HandleHandshake), whatever ends the connection and however closes nest.
THEOREM NotifiedAlwaysInOrder == Spec => []NotifiedInOrder
<1>1. Types /\ Lives => NotifiedInOrder
  <2> SUFFICES ASSUME Types, Lives, NEW c \in Conns
               PROVE  /\ notified[c] \in {<<>>, <<"Connected">>, <<"Connected", "Closed">>, <<"Failed">>}
                      /\ Ended(c) => notified[c] # <<>> /\ Last(notified[c]) = con[c].state
    BY DEF NotifiedInOrder
  <2>1. notified[c] = Heard(con[c].state)
    BY DEF Lives, Known
  <2>2. notified[c] \in {<<>>, <<"Connected">>, <<"Connected", "Closed">>, <<"Failed">>}
    BY <2>1 DEF Heard
  <2>3. CASE con[c].state = "Closed"
    <3>1. notified[c] = <<"Connected", "Closed">>
      BY <2>1, <2>3 DEF Heard
    <3>2. Last(notified[c]) = "Closed" /\ notified[c] # <<>>
      BY <3>1 DEF Last
    <3> QED
      BY <2>2, <2>3, <3>2
  <2>4. CASE con[c].state = "Failed"
    <3>1. notified[c] = <<"Failed">>
      BY <2>1, <2>4 DEF Heard
    <3>2. Last(notified[c]) = "Failed" /\ notified[c] # <<>>
      BY <3>1 DEF Last
    <3> QED
      BY <2>2, <2>4, <3>2
  <2> QED
    BY <2>2, <2>3, <2>4 DEF Ended
<1> QED
  BY <1>1, TypesAlways, LivesAlways, PTL

\* A connection that ended, and whose handlers have returned, is in no list of the
\* loop and its channel is closed and destroyed (Cleanup, ~Channel).
THEOREM EndedAlwaysGone == Spec => []EndedIsGone
<1>1. Types /\ IteratorValid /\ Lives => EndedIsGone
  <2> SUFFICES ASSUME Types, IteratorValid, Lives, NEW c \in Conns, Ended(c), ~OnStack(c)
               PROVE  /\ c \notin conns \cup idleConns
                      /\ ~con[c].channel /\ ~con[c].cbs
                      /\ chan[c].mem = "freed" /\ chan[c].fd = NoFd
    BY DEF EndedIsGone
  <2>1. Known(c) /\ Pending(c) /\ ~InUse(c) /\ con[c].state # "Invalid" /\ con[c].state # "Connected"
    BY DEF Lives, Ended, InUse
  <2>2. c \notin conns \cup idleConns /\ ~con[c].channel /\ ~con[c].cbs /\ ~Unborn(c)
    BY <2>1 DEF Known
  <2>3. \A op : ~On(op, c)
    <3> SUFFICES ASSUME NEW op, On(op, c) PROVE FALSE
      OBVIOUS
    <3>1. PICK j \in DOMAIN stack : stack[j] = Frame(op, c)
      BY DEF On, ToSet
    <3>2. stack[j].c = c
      BY <3>1, FrameIs
    <3> QED
      BY <3>2 DEF OnStack
  <2>4. chan[c].mem # "alive"
    BY <2>1, <2>3 DEF Pending
  <2>5. chan[c].mem = "freed"
    BY <2>2, <2>4 DEF Unborn, Types, ChanTypes, Chans
  <2>6. chan[c].fd = NoFd
    BY <2>4 DEF IteratorValid, Chans
  <2> QED
    BY <2>2, <2>5, <2>6
<1> QED
  BY <1>1, TypesAlways, IteratorAlwaysValid, LivesAlways, PTL

\* The message callback only runs on an open socket (OnMsg, Cleanup): a channel that
\* closes calls its read handler, which must leave no complete message behind.
THEOREM CallbackAlwaysOpen == Spec => []CallbackOnlyWhileOpen
<1>1. Lives => CallbackOnlyWhileOpen
  BY DEF Lives, Decodable, CallbackOnlyWhileOpen
<1> QED
  BY <1>1, LivesAlways, PTL

\* Every message is delivered once and in order, and all of them before Closed, when
\* the peer closes in order and the server never closed the connection.
THEOREM MessagesAlwaysOnce == Spec => []MessagesOnce
<1>1. Types /\ InTurn /\ Lives => MessagesOnce
  <2> SUFFICES ASSUME Types, InTurn, Lives, NEW c \in Conns
               PROVE  /\ \A i \in DOMAIN delivered[c] : delivered[c][i] = i
                      /\ /\ con[c].state = "Closed"
                         /\ peer[c].end = "fin" /\ peer[c].next # Bad /\ closeCalls[c] = 0
                         => Len(delivered[c]) = (peer[c].next - 1) \div 2
    BY DEF MessagesOnce
  <2> DEFINE x == con[c].input
             y == peer[c].kern
             u == x \o y
             d == Len(delivered[c])
             n == peer[c].next
  <2>1. /\ x \in Seq(Value) /\ y \in Seq(Value) /\ delivered[c] \in Seq(Nat) /\ d \in Nat
        /\ closeCalls[c] \in Nat
    BY ReactorAssumption DEF Types, ConTypes, PeerTypes, TaskTypes
  <2>2. \A i \in 1 .. d : delivered[c][i] = i
    BY DEF InTurn
  <2>3. \A i \in DOMAIN delivered[c] : delivered[c][i] = i
    BY <2>1, <2>2
  <2>4. ASSUME con[c].state = "Closed", peer[c].end = "fin", n # Bad, closeCalls[c] = 0
        PROVE  d = (n - 1) \div 2
    <3>1. Decodable(c) /\ Why(c) /\ Ended(c)
      BY <2>4 DEF Lives, Ended
    <3>2. y = <<>>
      BY <2>1, <2>4, <3>1 DEF Why, Asked, Left
    <3>3. ~Complete(x)
      BY <2>4, <3>1 DEF Decodable
    <3>4. Continues(u, d, n, MaxMsgs[c])
      BY DEF InTurn, Unread
    <3>5. u = x
      BY <2>1, <3>2, ConcatEmptySeq
    <3>6. n = 2 * d + Len(x) + 1 /\ \A i \in 1 .. Len(x) : x[i] = 2 * d + i
      BY <2>4, <3>4, <3>5 DEF Continues
    <3>7. Len(x) \in {0, 1}
      <4>0. Len(x) \in Nat
        BY <2>1
      <4> SUFFICES ASSUME Len(x) >= 2 PROVE FALSE
        <5> HIDE DEF x
        <5> QED
          BY <4>0
      <4>1. 1 \in 1 .. Len(x) /\ 2 \in 1 .. Len(x)
        BY <2>1
      <4>2. x[1] = 2 * d + 1 /\ x[2] = 2 * d + 2
        BY <3>6, <4>1
      <4>3. x[1] # Bad /\ x[2] # Bad
        <5> HIDE DEF x, d
        <5>1. x[1] \in Nat /\ x[2] \in Nat
          BY <2>1, <4>2
        <5> QED
          BY <5>1, ReactorAssumption
      <4> QED
        BY <3>3, <4>3 DEF Complete
    <3> HIDE DEF x, y, u, d, n
    <3> QED
      BY <2>1, <3>6, <3>7, HalfOf
  <2> QED
    BY <2>3, <2>4
<1> QED
  BY <1>1, TypesAlways, InTurnAlways, LivesAlways, PTL

\* A connection ends only if a Close was posted for it, its peer sent a header that
\* TryDecode refuses, or its peer left: no other connection's end, and no reuse of
\* its socket, brings it about.
THEOREM EndedAlwaysForReason == Spec => []EndedForReason
<1>1. Types /\ Lives => EndedForReason
  <2> SUFFICES ASSUME Types, Lives, NEW c \in Conns, Ended(c)
               PROVE  closeCalls[c] > 0 \/ peer[c].next = Bad \/ peer[c].end \in {"fin", "rst"}
    BY DEF EndedForReason
  <2>1. Why(c)
    BY DEF Lives
  <2> QED
    BY <2>1 DEF Why, Asked, Left
<1> QED
  BY <1>1, TypesAlways, LivesAlways, PTL

\* Nothing of a connection runs after ~TcpConn and no idle node is erased twice, as
\* long as a peer that sent a bad header does not hang up by itself; where it does,
\* the code's double Cleanup is what MCReactorBadHeader finds.
THEOREM DestroyedAlwaysLast ==
  ASSUME ~HangUpAfterBad
  PROVE  Spec => []DestroyedLast
<1>1. Types /\ Lives /\ Gentle => DestroyedLast
  <2> SUFFICES ASSUME Types, Lives, Gentle, Corrupt PROVE FALSE
    BY DEF DestroyedLast
  <2> DEFINE f == Head(stack)
  <2>1. stack # <<>> /\ f \in Frames /\ f \in ToSet(stack)
    BY FramesOf DEF Corrupt
  <2>2. /\ f.op \in {"HandleRead", "HandleWrite", "OnMsg", "Cleanup", "Finish"}
        /\ chan[f.c].mem # "alive" \/ (f.op = "Finish" /\ con[f.c].idleIds /\ f.c \notin idleConns)
    BY DEF Corrupt, Holders
  <2> HIDE DEF f
  <2>3. f.op \in ConnOps /\ f.c \in Conns /\ On(f.op, f.c)
    BY <2>1, <2>2, FrameIs DEF ConnOps, On
  <2>4. CleanedOnce(f.c) /\ Known(f.c)
    BY <2>3 DEF Gentle, Lives
  <2>5. chan[f.c].mem = "alive"
    BY <2>3, <2>4 DEF CleanedOnce
  <2>6. f.op = "Finish" => InUse(f.c)
    BY <2>3, <2>4 DEF CleanedOnce
  <2>7. f.op = "Finish" /\ con[f.c].idleIds => f.c \in idleConns
    BY <2>4, <2>6 DEF Known, InUse
  <2> QED
    BY <2>2, <2>5, <2>7
<1> QED
  BY <1>1, TypesAlways, LivesAlways, PTL

----------------------------------------------------------------------------
(* The sets given to select, when they have room for every socket.         *)

OpenFds == {chan[ch].fd : ch \in {x \in Chans : chan[x].fd # NoFd}}
WritingFds == {chan[ch].fd : ch \in {x \in Chans : chan[x].fd # NoFd /\ chan[x].writable}}

SetsMatch == allReadSet = OpenFds /\ allWriteSet = WritingFds

\* Write readiness is only told of open sockets.
Writers == NoFd \notin ws /\ \A c \in Conns : On("HandleWrite", c) => chan[c].fd # NoFd

Watched == SetsMatch /\ Writers

\* FD_SET does what it is asked when the set has room.
LEMMA RoomForAll ==
  ASSUME ~Crowded, NEW S \in SUBSET Sockets, NEW fd \in Sockets
  PROVE  FdSet(S, fd) = S \cup {fd}
<1>1. IsFiniteSet(Fds) /\ FdSetSize \in Nat /\ Cardinality(Fds) \in Nat
  BY ReactorAssumption, FS_CardinalityType
<1>2. /\ IsFiniteSet(Fds \cup {Wakeup}) /\ IsFiniteSet((Fds \cup {Wakeup}) \cup {Listener})
      /\ Cardinality(Fds \cup {Wakeup}) <= Cardinality(Fds) + 1
      /\ Cardinality((Fds \cup {Wakeup}) \cup {Listener}) <= Cardinality(Fds \cup {Wakeup}) + 1
      /\ Cardinality(Fds \cup {Wakeup}) \in Nat
      /\ Cardinality((Fds \cup {Wakeup}) \cup {Listener}) \in Nat
  <2>1. IsFiniteSet(Fds \cup {Wakeup})
    BY <1>1, FS_AddElement
  <2>2. IsFiniteSet((Fds \cup {Wakeup}) \cup {Listener})
    BY <2>1, FS_AddElement
  <2>3. Cardinality(Fds \cup {Wakeup}) \in Nat /\ Cardinality((Fds \cup {Wakeup}) \cup {Listener}) \in Nat
    BY <2>1, <2>2, FS_CardinalityType
  <2>4. Cardinality(Fds \cup {Wakeup}) = Cardinality(Fds) \/ Cardinality(Fds \cup {Wakeup}) = Cardinality(Fds) + 1
    BY <1>1, FS_AddElement
  <2>5. \/ Cardinality((Fds \cup {Wakeup}) \cup {Listener}) = Cardinality(Fds \cup {Wakeup})
        \/ Cardinality((Fds \cup {Wakeup}) \cup {Listener}) = Cardinality(Fds \cup {Wakeup}) + 1
    BY <2>1, FS_AddElement
  <2> QED
    BY <1>1, <2>1, <2>2, <2>3, <2>4, <2>5
<1>3. (Fds \cup {Wakeup}) \cup {Listener} = Sockets
  BY DEF Sockets
<1>4. IsFiniteSet(Sockets) /\ Cardinality(Sockets) <= FdSetSize /\ Cardinality(Sockets) \in Nat
  BY <1>1, <1>2, <1>3 DEF Crowded
<1>5. Cardinality(S \cup {fd}) <= Cardinality(Sockets) /\ Cardinality(S \cup {fd}) \in Nat
  <2>1. S \cup {fd} \in SUBSET Sockets
    OBVIOUS
  <2> QED
    BY <1>4, <2>1, FS_Subset, FS_CardinalityType
<1>6. Cardinality(S \cup {fd}) <= FdSetSize
  BY <1>1, <1>4, <1>5
<1> QED
  BY <1>6 DEF FdSet

\* A socket belongs to one channel.
LEMMA OneOwner ==
  ASSUME Types, Apart, NEW ch \in Chans, NEW d \in Chans, chan[ch].fd = chan[d].fd, chan[d].fd # NoFd
  PROVE  ch = d
<1>1. \A x \in {Wakeup, Listener} : chan[x].fd \in {x, NoFd}
  BY DEF Types, ChanTypes
<1>2. \A c \in Conns : chan[c].fd \in Fds \cup {NoFd}
  BY DEF Types, ChanTypes
<1> QED
  BY <1>1, <1>2, Names DEF Apart, Chans

\* What the sets are made of.
LEMMA SetsAre ==
  ASSUME Types, SetsMatch
  PROVE  /\ allReadSet \in SUBSET Sockets /\ allWriteSet \in SUBSET Sockets
         /\ NoFd \notin allReadSet /\ NoFd \notin allWriteSet
         /\ \A ch \in Chans : chan[ch].fd # NoFd => chan[ch].fd \in allReadSet /\ chan[ch].fd \in Sockets
<1>1. \A ch \in Chans : chan[ch].fd \in Sockets \cup {NoFd}
  BY DEF Types, ChanTypes
<1> QED
  BY <1>1 DEF SetsMatch, OpenFds, WritingFds

\* The sets lose the socket of a channel that closes.
LEMMA CloseChannelSets ==
  ASSUME Types, IteratorValid, Apart, SetsMatch, NEW c \in Conns, NEW rest, CloseChannel(c, rest)
  PROVE  SetsMatch'
<1>1. c \in Chans
  BY DEF Chans
<1>2. \A ch \in Chans : /\ chan'[ch].writable = chan[ch].writable
                        /\ chan'[ch].fd = IF ch = c THEN NoFd ELSE chan[ch].fd
  BY CloseChannelPlaces
<1>3. CASE chan[c].fd = NoFd
  BY <1>3 DEF CloseChannel, SetsMatch, OpenFds, WritingFds, pollVars
<1>4. CASE chan[c].fd # NoFd
  <2>1. /\ allReadSet' = allReadSet \ {chan[c].fd}
        /\ allWriteSet' = allWriteSet \ {chan[c].fd}
    BY <1>4 DEF CloseChannel, RemoveChannel
  <2>2. \A ch \in Chans : chan[ch].fd = chan[c].fd => ch = c
    BY <1>1, <1>4, OneOwner
  <2>3. OpenFds' = OpenFds \ {chan[c].fd}
    BY <1>2, <2>2 DEF OpenFds
  <2>4. WritingFds' = WritingFds \ {chan[c].fd}
    BY <1>2, <2>2 DEF WritingFds
  <2> QED
    BY <2>1, <2>3, <2>4 DEF SetsMatch
<1> QED
  BY <1>3, <1>4

\* The read set gains the socket of a channel that is attached.
LEMMA AttachSets ==
  ASSUME ~Crowded, Types, IteratorValid, SetsMatch, NEW c \in Conns, NEW fd \in Fds,
         chan[c].fd = NoFd, Attach(c, fd)
  PROVE  SetsMatch'
<1>1. /\ \A ch \in Chans \ {c} : chan'[ch] = chan[ch]
      /\ chan'[c] = [fd |-> fd, mem |-> "alive", writable |-> FALSE]
  BY AttachPlaces
<1>2. fd # NoFd /\ fd \in Sockets /\ c \in Chans
  BY Names DEF Sockets, Chans
<1>3. allReadSet' = allReadSet \cup {fd} /\ allWriteSet' = allWriteSet
  BY <1>2, RoomForAll, SetsAre DEF Attach, AddChannel
<1>4. chan'[c].fd = fd /\ ~chan'[c].writable
  BY <1>1
<1>5. OpenFds' = OpenFds \cup {fd}
  BY <1>1, <1>2, <1>4 DEF OpenFds
<1>6. WritingFds' = WritingFds
  BY <1>1, <1>4 DEF WritingFds
<1> QED
  BY <1>3, <1>5, <1>6 DEF SetsMatch

\* The write set follows the channel's write interest.
LEMMA EnableWriteSets ==
  ASSUME ~Crowded, Types, Apart, SetsMatch, NEW c \in Conns, NEW enable \in BOOLEAN,
         chan[c].fd # NoFd, EnableWrite(c, enable)
  PROVE  SetsMatch' /\ \A ch \in Chans : chan'[ch].fd = chan[ch].fd
<1> DEFINE fd == chan[c].fd
<1>1. /\ c \in Chans /\ fd \in Sockets /\ fd \in allReadSet
  BY SetsAre DEF Chans
<1>2. \A ch \in Chans : /\ chan'[ch].fd = chan[ch].fd
                        /\ chan'[ch].writable = IF ch = c THEN enable ELSE chan[ch].writable
  BY <1>1 DEF EnableWrite, Types, ChanTypes
<1>3. /\ allReadSet' = allReadSet
      /\ allWriteSet' = IF enable THEN allWriteSet \cup {fd} ELSE allWriteSet \ {fd}
  <2>1. allReadSet \in SUBSET Sockets /\ allWriteSet \in SUBSET Sockets
    BY SetsAre
  <2>2. FdSet(allReadSet, fd) = allReadSet \cup {fd} /\ FdSet(allWriteSet, fd) = allWriteSet \cup {fd}
    BY <1>1, <2>1, RoomForAll
  <2> QED
    BY <1>1, <2>2 DEF EnableWrite, ReadKept
<1>4. \A ch \in Chans : chan[ch].fd = fd => ch = c
  BY <1>1, OneOwner
<1>5. OpenFds' = OpenFds
  BY <1>2 DEF OpenFds
<1>6. CASE enable
  <2>1. WritingFds' = WritingFds \cup {fd}
    <3>1. \A ch \in Chans \ {c} : chan'[ch].fd = chan[ch].fd /\ chan'[ch].writable = chan[ch].writable
      BY <1>2
    <3>2. chan'[c].fd = fd /\ chan'[c].writable = TRUE
      BY <1>1, <1>2, <1>6
    <3>3. \A x : x \in WritingFds' <=> x = fd \/ \E ch \in Chans \ {c} :
                                      /\ chan[ch].fd # NoFd /\ chan[ch].writable
                                      /\ x = chan[ch].fd
      BY <1>1, <3>1, <3>2 DEF WritingFds
    <3>4. \A x : x \in WritingFds => x = fd \/ \E ch \in Chans \ {c} :
                                      /\ chan[ch].fd # NoFd /\ chan[ch].writable
                                      /\ x = chan[ch].fd
      BY DEF WritingFds
    <3>5. \A ch \in Chans \ {c} : chan[ch].fd # NoFd /\ chan[ch].writable => chan[ch].fd \in WritingFds
      BY DEF WritingFds
    <3> QED
      BY <3>3, <3>4, <3>5
  <2> QED
    BY <1>2, <1>3, <1>5, <1>6, <2>1 DEF SetsMatch
<1>7. CASE ~enable
  <2>1. WritingFds' = WritingFds \ {fd}
    BY <1>1, <1>2, <1>4, <1>7 DEF WritingFds
  <2> QED
    BY <1>2, <1>3, <1>5, <1>7, <2>1 DEF SetsMatch
<1> QED
  BY <1>6, <1>7

\* Nothing that the sets are made of changes.
LEMMA SetsKept ==
  ASSUME SetsMatch, UNCHANGED <<allReadSet, allWriteSet>>,
         \A ch \in Chans : chan'[ch].fd = chan[ch].fd /\ chan'[ch].writable = chan[ch].writable
  PROVE  SetsMatch'
BY DEF SetsMatch, OpenFds, WritingFds

\* No write handler starts, and no socket of one is closed.
LEMMA WritersKept ==
  ASSUME Writers, ws' \subseteq ws,
         \A c \in Conns : On("HandleWrite", c)' => On("HandleWrite", c) /\ chan'[c].fd = chan[c].fd
  PROVE  Writers'
BY DEF Writers

\* Only the running frame can be a write handler.
LEMMA OneWriter ==
  ASSUME Types, Shape, stack # <<>>, Head(stack).op # "HandleWrite", NEW c \in Conns
  PROVE  ~On("HandleWrite", c)
<1> SUFFICES ASSUME On("HandleWrite", c) PROVE FALSE
  OBVIOUS
<1>1. PICK i \in DOMAIN stack : stack[i] = Frame("HandleWrite", c)
  BY DEF On, ToSet
<1>2. stack[i].op = "HandleWrite"
  BY <1>1, FrameIs
<1>3. i \in Nat \ {0} /\ Head(stack) = stack[1]
  BY <1>1, FramesOf DEF Types, LoopTypes
<1>4. i # 1
  BY <1>2, <1>3
<1>5. i >= 2
  BY <1>3, <1>4
<1> QED
  BY <1>2, <1>5 DEF Shape

\* A handler that leaves the sockets alone and starts no write handler.
LEMMA HandlerWatched ==
  ASSUME Watched, UNCHANGED <<ws, allReadSet, allWriteSet>>,
         \A ch \in Chans : chan'[ch].fd = chan[ch].fd /\ chan'[ch].writable = chan[ch].writable,
         \A f \in ToSet(stack') : f \in ToSet(stack) \/ f.op # "HandleWrite"
  PROVE  Watched'
<1>1. \A c \in Conns : c \in Chans /\ Frame("HandleWrite", c).op = "HandleWrite"
  BY FrameIs DEF Chans
<1>2. \A c \in Conns : On("HandleWrite", c)' => On("HandleWrite", c) /\ chan'[c].fd = chan[c].fd
  BY <1>1 DEF On
<1> QED
  BY <1>2, SetsKept, WritersKept DEF Watched

\* A handler that closes a channel.
LEMMA CloserWatched ==
  ASSUME Types, Places, Shape, Watched, stack # <<>>, Head(stack).op # "HandleWrite",
         NEW c \in Conns, NEW rest \in Seq(Frames), CloseChannel(c, rest), UNCHANGED ws,
         \A f \in ToSet(rest) : f \in ToSet(stack) \/ f.op # "HandleWrite"
  PROVE  Watched'
<1>1. SetsMatch'
  BY CloseChannelSets DEF Places, Watched
<1>2. stack' = rest \/ stack' = <<Frame("HandleRead", c)>> \o rest
  BY DEF CloseChannel
<1>3. \A d \in Conns : ~On("HandleWrite", d)'
  <2> SUFFICES ASSUME NEW d \in Conns, On("HandleWrite", d)' PROVE FALSE
    OBVIOUS
  <2> DEFINE w == Frame("HandleWrite", d)
             r == Frame("HandleRead", c)
  <2>1. w \in ToSet(stack') /\ w.op = "HandleWrite" /\ r # w /\ r \in Frames
    BY FrameIs DEF On, ConnOps
  <2>2. w \notin ToSet(rest)
    BY <2>1, OneWriter DEF On
  <2> HIDE DEF w, r
  <2>3. stack' = <<r>> \o rest
    BY <1>2, <2>1, <2>2 DEF r
  <2>4. \A x \in ToSet(<<r>> \o rest) : x = r \/ x \in ToSet(rest)
    BY <2>1, OnTopOf
  <2> QED
    BY <2>1, <2>2, <2>3, <2>4
<1> QED
  BY <1>1, <1>3 DEF Watched, Writers

\* The sets keep matching the channels, and write readiness stays about open
\* sockets: a handler runs on a socket only while it is open.
LEMMA WatchedStep ==
  ASSUME ~Crowded, Types, Places, Lives, Watched, [Next]_vars
  PROVE  Watched'
<1> USE DEF pollVars
<1>0. /\ Shape /\ IteratorValid /\ Apart /\ SetsMatch /\ Writers
      /\ stack # <<>> => Head(stack) \in ToSet(stack) /\ Head(stack) \in Frames
  BY FramesOf DEF Lives, Places, Watched
<1>1. CASE Select
  <2>1. NoFd \notin ws'
    BY <1>0, <1>1, SetsAre DEF Select
  <2>2. stack' = stack /\ chan' = chan /\ UNCHANGED <<allReadSet, allWriteSet>>
    BY <1>1 DEF Select
  <2>3. \A c \in Conns : On("HandleWrite", c)' => chan'[c].fd # NoFd
    BY <1>0, <2>2 DEF On, Writers
  <2> QED
    BY <1>0, <2>1, <2>2, <2>3, SetsKept DEF Watched, Writers
<1>2. CASE Scan
  <2>1. \A f \in ToSet(stack') : f.op # "HandleWrite"
    <3>1. Frame(ReadHandler(curIt), curIt).op # "HandleWrite"
      BY FrameIs DEF ReadHandler
    <3> QED
      BY <1>2, <3>1 DEF Scan, ToSet
  <2> QED
    BY <1>2, <2>1, HandlerWatched DEF Scan
<1>3. CASE TryWrite
  <2>1. \A c \in Conns : On("HandleWrite", c)' => chan'[c].fd # NoFd
    <3> SUFFICES ASSUME NEW c \in Conns, On("HandleWrite", c)' PROVE chan[c].fd # NoFd
      BY <1>3 DEF TryWrite
    <3>1. stack = <<>> /\ stack' # <<>>
      BY <1>3 DEF TryWrite, On, ToSet
    <3>2. stack' = <<Frame("HandleWrite", visit.ch)>> /\ chan[visit.ch].fd \in ws
      BY <1>3, <3>1 DEF TryWrite
    <3>3. Frame("HandleWrite", c) = Frame("HandleWrite", visit.ch)
      BY <3>2 DEF On, ToSet
    <3>4. visit.ch = c
      BY <3>3, FrameIs
    <3> QED
      BY <1>0, <3>2, <3>4 DEF Writers
  <2> QED
    BY <1>0, <1>3, <2>1, SetsKept DEF TryWrite, Watched, Writers
<1>4. CASE Tally \/ EndScan \/ HandleTimeouts \/ Crashed
  <2>1. /\ stack' = stack /\ chan' = chan /\ UNCHANGED <<allReadSet, allWriteSet>>
        /\ ws' \subseteq ws
    BY <1>4 DEF Tally, EndScan, HandleTimeouts, Crashed, scanVars, vars, loopVars
  <2> QED
    BY <1>0, <2>1, SetsKept, WritersKept DEF On, Watched
<1>5. CASE HandleWakeup
  <2>1. stack # <<>> /\ stack' = <<Frame("Drain", None)>> \o Resume
    BY <1>5 DEF HandleWakeup, Running
  <2>2. \A f \in ToSet(stack') : f \in ToSet(stack) \/ f = Frame("Drain", None)
    BY <2>1, FramesOf, FrameIs
  <2> QED
    BY <1>5, <2>2, FrameIs, HandlerWatched DEF HandleWakeup, scanVars
<1>6. ASSUME NEW c \in Conns, NEW fd \in Fds, Attach(c, fd), chan[c].fd = NoFd, UNCHANGED ws,
             \A f \in ToSet(stack') : f \in ToSet(stack) \/ f.op # "HandleWrite"
      PROVE  Watched'
  <2>1. SetsMatch'
    BY <1>0, <1>6, AttachSets
  <2>2. \A d \in Conns : On("HandleWrite", d)' => On("HandleWrite", d) /\ chan'[d].fd = chan[d].fd
    <3> SUFFICES ASSUME NEW d \in Conns, On("HandleWrite", d)'
                 PROVE  On("HandleWrite", d) /\ chan'[d].fd = chan[d].fd
      OBVIOUS
    <3>1. On("HandleWrite", d)
      BY <1>6, FrameIs DEF On
    <3>2. d # c /\ d \in Chans
      BY <1>0, <1>6, <3>1 DEF Writers, Chans
    <3>3. chan'[d] = chan[d]
      BY <1>0, <1>6, <3>2, AttachPlaces
    <3> QED
      BY <3>1, <3>3
  <2> QED
    BY <1>0, <1>6, <2>1, <2>2, WritersKept DEF Watched
<1>7. CASE HandleAccept
  <2>1. stack # <<>> /\ UNCHANGED ws
    BY <1>7 DEF HandleAccept, Running, scanVars
  <2>2. \A f \in ToSet(stack') : f \in ToSet(stack)
    BY <1>7, <2>1, FramesOf DEF HandleAccept
  <2>3. CASE UNCHANGED <<liveChannels, curIt, allReadSet, allWriteSet, chan>>
    BY <2>1, <2>2, <2>3, HandlerWatched
  <2>4. CASE ~(backlog = <<>> \/ FreeFds = {}) /\ \E fd \in FreeFds : Attach(Head(backlog), fd)
    <3>1. PICK fd \in FreeFds : Attach(Head(backlog), fd)
      BY <2>4
    <3>2. backlog \in Seq(Conns) /\ backlog # <<>>
      BY <2>4 DEF Types, PeerTypes
    <3>3. Head(backlog) \in Conns /\ Head(backlog) \in ToSet(backlog)
      BY <3>2 DEF ToSet
    <3>4. Unborn(Head(backlog)) /\ fd \in Fds
      BY <3>3 DEF Places, Waiting, FreeFds
    <3>5. chan[Head(backlog)].fd = NoFd
      BY <1>0, <3>3, <3>4 DEF IteratorValid, Unborn, Chans
    <3> QED
      BY <1>6, <2>1, <2>2, <3>1, <3>3, <3>4, <3>5
  <2> QED
    BY <1>7, <2>3, <2>4 DEF HandleAccept
<1>8. CASE Drain
  <2>1. stack # <<>> /\ UNCHANGED ws /\ Head(stack).op = "Drain"
    BY <1>8 DEF Drain, scanVars
  <2>2. CASE tasks = <<>>
    <3>1. \A f \in ToSet(stack') : f \in ToSet(stack)
      BY <1>8, <2>1, <2>2, FramesOf DEF Drain
    <3> QED
      BY <1>8, <2>1, <2>2, <3>1, HandlerWatched DEF Drain
  <2>3. CASE tasks # <<>>
    <3> DEFINE t == Head(tasks)
               held == IF t.op = "Close" THEN t.c ELSE None
               rest == <<Frame("Drain", held)>> \o Resume
    <3>1. t \in Tasks /\ t = tasks[1] /\ 1 \in DOMAIN tasks
      BY <2>3 DEF Types, TaskTypes
    <3>2. t.c \in Conns /\ held \in Conns \cup {None}
      BY <3>1 DEF Tasks
    <3>3. rest \in Seq(Frames)
      BY <2>1, <3>2, GoOn, FrameIs
    <3>4. \A f \in ToSet(rest) : f \in ToSet(stack) \/ f.op # "HandleWrite"
      BY <2>1, <3>2, FramesOf, FrameIs
    <3>5. \/ t.op = "Attach" /\ Attach(t.c, t.fd) /\ stack' = rest
          \/ CloseChannel(t.c, rest)
          \/ stack' = rest /\ UNCHANGED <<pollVars, chan>>
      BY <1>8, <2>3 DEF Drain
    <3>6. CASE t.op = "Attach" /\ Attach(t.c, t.fd) /\ stack' = rest
      <4>1. Attaches(1)
        BY <3>1, <3>6 DEF Attaches
      <4>2. Unborn(t.c) /\ t.fd \in Fds
        BY <3>1, <4>1 DEF Places, Waiting
      <4>3. chan[t.c].fd = NoFd
        BY <1>0, <3>2, <4>2 DEF IteratorValid, Unborn, Chans
      <4> HIDE DEF t, rest
      <4> QED
        BY <1>6, <2>1, <3>2, <3>4, <3>6, <4>2, <4>3
    <3>7. CASE CloseChannel(t.c, rest)
      <4> HIDE DEF t, rest
      <4> QED
        BY <1>0, <2>1, <3>2, <3>3, <3>4, <3>7, CloserWatched
    <3>8. CASE stack' = rest /\ UNCHANGED <<pollVars, chan>>
      <4> HIDE DEF rest
      <4> QED
        BY <2>1, <3>4, <3>8, HandlerWatched
    <3> QED
      BY <3>5, <3>6, <3>7, <3>8
  <2> QED
    BY <2>2, <2>3
<1>9. ASSUME NEW c \in Conns, \/ \E op \in {"HandleRead", "HandleWrite"} : HandleHandshake(op, c)
                              \/ HandleRead(c) \/ Cleanup(c) \/ Finish(c)
      PROVE  Watched'
  <2>1. stack # <<>> /\ UNCHANGED <<chan, ws, allReadSet, allWriteSet>>
    BY <1>9 DEF HandleHandshake, HandleRead, Cleanup, Finish, RunningOn, Running, scanVars
  <2>2. \A f \in ToSet(stack') : f \in ToSet(stack) \/ f \in {Frame(op, c) : op \in {"Cleanup", "OnMsg", "Finish", "Delete"}}
    <3> DEFINE C == Frame("Cleanup", c)
               O == Frame("OnMsg", c)
               F == Frame("Finish", c)
               D == Frame("Delete", c)
    <3>1. C \in Frames /\ O \in Frames /\ F \in Frames /\ D \in Frames
      BY FrameIs DEF ConnOps
    <3>2. \/ stack' \in {stack, Resume}
          \/ stack' = <<>> \o Resume
          \/ \E f \in {C, O, F, D} : stack' = <<f>> \o Resume
          \/ stack' = <<O>> \o <<F>> \o Resume
          \/ stack' = <<>> \o <<F>> \o Resume
      BY <1>9 DEF HandleHandshake, HandleRead, Recv, WouldBlock, ReadHandled, ReadCallback, Disconnected,
                  Cleanup, RestHandled, Finish
    <3>3. /\ <<>> \o Resume = Resume /\ <<>> \o <<F>> \o Resume = <<F>> \o Resume
          /\ <<O>> \o <<F>> \o Resume = <<O, F>> \o Resume
      BY <2>1, <3>1, GoOn
    <3>4. \A f \in ToSet(stack') : f \in ToSet(stack) \/ f \in {C, O, F, D}
      <4> HIDE DEF C, O, F, D
      <4>1. CASE stack' \in {stack, Resume}
        BY <2>1, <4>1, FramesOf
      <4>2. CASE \E f \in {C, O, F, D} : stack' = <<f>> \o Resume
        BY <2>1, <3>1, <4>2, FramesOf
      <4>3. CASE stack' = <<O, F>> \o Resume
        BY <2>1, <3>1, <4>3, FramesOf
      <4> QED
        BY <3>2, <3>3, <4>1, <4>2, <4>3
    <3> QED
      BY <3>4
  <2>3. \A f \in ToSet(stack') : f \in ToSet(stack) \/ f.op # "HandleWrite"
    BY <2>2, FrameIs
  <2> QED
    BY <2>1, <2>3, HandlerWatched
<1>10. ASSUME NEW c \in Conns, HandleWrite(c)
       PROVE  Watched'
  <2>1. stack # <<>> /\ stack' = Resume /\ UNCHANGED ws /\ On("HandleWrite", c)
    BY <1>10, FramesOf DEF HandleWrite, RunningOn, Running, scanVars, On
  <2>2. \A f \in ToSet(stack') : f \in ToSet(stack)
    BY <2>1, FramesOf
  <2>3. CASE EnableWrite(c, FALSE)
    <3>1. SetsMatch' /\ \A ch \in Chans : chan'[ch].fd = chan[ch].fd
      BY <1>0, <2>1, <2>3, EnableWriteSets DEF Writers
    <3> QED
      BY <1>0, <2>1, <2>2, <3>1, WritersKept DEF On, Watched, Chans
  <2>4. CASE UNCHANGED <<pollVars, chan>>
    BY <2>1, <2>2, <2>4, HandlerWatched
  <2> QED
    BY <1>10, <2>3, <2>4 DEF HandleWrite
<1>11. ASSUME NEW c \in Conns, OnMsg(c)
       PROVE  Watched'
  <2>1. stack # <<>> /\ UNCHANGED ws /\ Running("OnMsg", c) /\ Head(stack).op = "OnMsg"
    BY <1>11, FrameIs DEF OnMsg, RunningOn, Running, scanVars
  <2>2. CASE EnableWrite(c, TRUE) /\ stack' = stack /\ Complete(con[c].input)
    <3>1. chan[c].fd # NoFd
      BY <2>2 DEF Lives, Decodable
    <3>2. SetsMatch' /\ \A ch \in Chans : chan'[ch].fd = chan[ch].fd
      BY <1>0, <2>2, <3>1, EnableWriteSets
    <3> QED
      BY <1>0, <2>1, <2>2, <3>2, WritersKept DEF On, Watched, Chans
  <2>3. CASE UNCHANGED <<pollVars, chan>> /\ stack' \in {stack, Resume}
    <3>1. \A f \in ToSet(stack') : f \in ToSet(stack)
      BY <2>1, <2>3, FramesOf
    <3> QED
      BY <2>1, <2>3, <3>1, HandlerWatched
  <2>4. CASE CloseChannel(c, Resume)
    <3>1. Resume \in Seq(Frames) /\ \A f \in ToSet(Resume) : f \in ToSet(stack)
      BY <2>1, GoOn, FramesOf
    <3> QED
      BY <1>0, <2>1, <2>4, <3>1, CloserWatched
  <2> QED
    BY <1>11, <2>2, <2>3, <2>4 DEF OnMsg
<1>12. ASSUME NEW c \in Conns, Delete(c)
       PROVE  Watched'
  <2> DEFINE rest == <<Frame("Free", c)>> \o Resume
  <2>1. stack # <<>> /\ UNCHANGED ws /\ Head(stack).op = "Delete" /\ CloseChannel(c, rest)
    BY <1>12, FrameIs DEF Delete, Running, scanVars
  <2>2. rest \in Seq(Frames)
    BY <2>1, GoOn, FrameIs DEF ConnOps
  <2>3. \A f \in ToSet(rest) : f \in ToSet(stack) \/ f.op # "HandleWrite"
    BY <2>1, FramesOf, FrameIs DEF ConnOps
  <2> HIDE DEF rest
  <2> QED
    BY <1>0, <2>1, <2>2, <2>3, CloserWatched
<1>13. ASSUME NEW c \in Conns, Free(c)
       PROVE  Watched'
  <2>1. /\ stack # <<>> /\ stack' = Resume /\ UNCHANGED <<ws, allReadSet, allWriteSet>>
        /\ chan' = [chan EXCEPT ![c].mem = "freed"]
    BY <1>13 DEF Free, Running, scanVars
  <2>2. \A f \in ToSet(stack') : f \in ToSet(stack)
    BY <2>1, FramesOf
  <2>3. \A ch \in Chans : chan'[ch].fd = chan[ch].fd /\ chan'[ch].writable = chan[ch].writable
    BY <2>1 DEF Types, ChanTypes
  <2> QED
    BY <2>1, <2>2, <2>3, HandlerWatched
<1>14. CASE Crash
  <2>1. stack' = <<>> /\ UNCHANGED <<ws, allReadSet, allWriteSet, chan>>
    BY <1>14 DEF Crash, scanVars
  <2>2. \A f \in ToSet(stack') : f \in ToSet(stack)
    BY <2>1 DEF ToSet
  <2> QED
    BY <2>1, <2>2, HandlerWatched
<1>15. CASE UNCHANGED vars \/ \E c \in Conns : Peer(c) \/ Assign(c)
  <2>1. UNCHANGED <<stack, ws, allReadSet, allWriteSet, chan>>
    BY <1>15 DEF vars, Peer, Assign, loopVars, scanVars
  <2> QED
    BY <2>1, HandlerWatched
<1> QED
  BY <1>1, <1>2, <1>3, <1>4, <1>5, <1>7, <1>8, <1>9, <1>10, <1>11, <1>12, <1>13, <1>14, <1>15
  DEF Next, Loop, Handler

\* At the start the service sockets are in the read set, and no other.
LEMMA WatchedInit == Init => Watched
<1> SUFFICES ASSUME Init PROVE Watched
  OBVIOUS
<1>1. \A ch \in Chans : /\ chan[ch].fd = IF ch \in Service THEN ch ELSE NoFd
                        /\ ~chan[ch].writable
  BY DEF Init
<1>2. Service \subseteq Chans /\ NoFd \notin Service
  BY Names DEF Service
<1>3. OpenFds = Service /\ WritingFds = {}
  BY <1>1, <1>2 DEF OpenFds, WritingFds
<1>4. stack = <<>> /\ ws = {} /\ allReadSet = Service /\ allWriteSet = {}
  BY DEF Init
<1> QED
  BY <1>3, <1>4 DEF Watched, SetsMatch, Writers, On, ToSet

\* When an fd_set can hold every socket, the sets given to select are those of
\* the open channels (PollerSelect's AddChannel, RemoveChannel, UpdateChannel).
THEOREM SelectSetsAlwaysMatch == Spec => []SelectSetsMatch
<1>1. CASE Crowded
  <2>1. SelectSetsMatch
    BY <1>1 DEF SelectSetsMatch
  <2> QED
    BY <2>1, PTL
<1>2. CASE ~Crowded
  <2>1. Spec => []Places
    BY PlacesInit, PlacesStep, TypesAlways, PTL DEF Spec
  <2>2. Types /\ Places /\ Lives /\ Watched /\ [Next]_vars => Watched'
    BY <1>2, WatchedStep
  <2>3. IteratorValid /\ Watched => SelectSetsMatch
    BY DEF IteratorValid, Watched, SetsMatch, OpenFds, WritingFds, SelectSetsMatch
  <2> QED
    BY <2>1, <2>2, <2>3, WatchedInit, TypesAlways, LivesAlways, IteratorAlwaysValid, PTL DEF Spec
<1> QED
  BY <1>1, <1>2

----------------------------------------------------------------------------
(* The countdown of ready sockets.                                         *)

At(x) == Place(liveChannels, x)

\* The channels that the dispatch loop has still to visit.
Ahead == {ch \in ToSet(liveChannels) : curIt # None /\ At(curIt) <= At(ch)}

\* The channels among them whose socket select reported.
Owed(S) == {ch \in S : chan[ch].fd \in rs \cup ws}

\* The visited channel will be counted, or is about to be.
Counts ==
  \/ phase \in {"write", "tally"} /\ visit.dec
  \/ phase = "write" /\ chan[visit.ch].fd \in ws

\* The channels ahead that were there at select, S, come before those attached
\* since, and those of them that were reported are not more than the countdown.
Counting(S) ==
  /\ \A ch \in Ahead \ S : ch \in Conns /\ con[ch].state = "Handshaking"
  /\ \A x \in S, y \in Ahead \ S : At(x) < At(y)
  /\ Cardinality(Owed(S)) + (IF Counts THEN 1 ELSE 0) <= lastActive

Dispatching == phase \in {"scan", "write", "tally"}
Counted == Dispatching => \E S \in SUBSET Ahead : Counting(S)

\* Handlers run on channels that were visited.
Behind ==
  /\ \A f \in ToSet(stack) : f.op \in ConnOps => f.c \notin Ahead
  /\ phase \in {"write", "tally"} => visit.ch \notin Ahead /\ ~Unborn(visit.ch)
  /\ phase = "write" /\ ~visit.dec => stack = <<>>

\* The places in the list.
LEMMA AtIs ==
  ASSUME Types, IteratorValid
  PROVE  /\ \A x \in ToSet(liveChannels) : At(x) \in Nat \ {0} /\ At(x) <= Len(liveChannels)
         /\ \A x, y \in ToSet(liveChannels) : At(x) = At(y) => x = y
         /\ liveChannels \in Seq(Chans) /\ Once(liveChannels) /\ None \notin ToSet(liveChannels)
         /\ Len(liveChannels) \in Nat
         /\ \A x \in ToSet(liveChannels) : x \in Chans
<1>1. liveChannels \in Seq(Chans) /\ Once(liveChannels) /\ None \notin Chans
  BY ReactorAssumption DEF Types, PollTypes, IteratorValid, Once
<1>2. \A x \in ToSet(liveChannels) : x \in Chans
  BY <1>1 DEF ToSet
<1>3. Len(liveChannels) \in Nat
  BY <1>1
<1>4. \A x \in ToSet(liveChannels) : At(x) \in 0 .. Len(liveChannels) /\ At(x) # 0 /\ liveChannels[At(x)] = x
  BY <1>1, PlaceIs DEF At
<1> QED
  BY <1>1, <1>2, <1>3, <1>4

\* The set of channels ahead is finite.
LEMMA AheadIs ==
  ASSUME Types, IteratorValid
  PROVE  /\ Ahead \subseteq ToSet(liveChannels) /\ Ahead \subseteq Chans /\ IsFiniteSet(Ahead)
         /\ curIt # None => curIt \in Ahead
         /\ curIt = None => Ahead = {}
<1>1. IsFiniteSet(ToSet(liveChannels))
  <2>1. liveChannels \in Seq(Chans) /\ IsFiniteSet(1 .. Len(liveChannels))
    BY FS_Interval DEF Types, PollTypes
  <2>2. liveChannels \in Surjection(1 .. Len(liveChannels), ToSet(liveChannels))
    BY <2>1 DEF Surjection, ToSet
  <2> QED
    BY <2>1, <2>2, FS_Surjection
<1>2. Ahead \subseteq ToSet(liveChannels)
  BY DEF Ahead
<1>3. IsFiniteSet(Ahead)
  BY <1>1, <1>2, FS_Subset
<1>4. curIt # None => curIt \in Ahead
  BY AtIs DEF Ahead, IteratorValid
<1> QED
  BY <1>2, <1>3, <1>4, AtIs DEF Ahead

\* The place of the next channel.
LEMMA AfterAt ==
  ASSUME Types, IteratorValid, NEW c \in ToSet(liveChannels)
  PROVE  LET d == After(liveChannels, c)
         IN  \/ d = None /\ \A x \in ToSet(liveChannels) : At(c) <= At(x) => x = c
             \/ d # None /\ d \in ToSet(liveChannels) /\ d # c /\ At(d) = At(c) + 1
<1> DEFINE i == At(c)
           n == Len(liveChannels)
           d == After(liveChannels, c)
<1>1. i \in Nat \ {0} /\ i <= n /\ n \in Nat /\ liveChannels \in Seq(Chans) /\ Once(liveChannels)
  BY AtIs
<1>2. d = IF i \in 1 .. n - 1 THEN liveChannels[i + 1] ELSE None
  BY DEF After, At, Place
<1>3. \A x \in ToSet(liveChannels) : /\ At(x) \in Nat \ {0} /\ At(x) <= n
                                     /\ At(x) = i => x = c
  BY <1>1, AtIs
<1> HIDE DEF i, d
<1>4. CASE i \in 1 .. n - 1
  <2> HIDE DEF n
  <2>1. i + 1 \in 1 .. n /\ i + 1 # i
    BY <1>1, <1>4
  <2>2. i + 1 \in DOMAIN liveChannels
    BY <1>1, <2>1 DEF n
  <2>3. d = liveChannels[i + 1] /\ d \in ToSet(liveChannels)
    BY <1>2, <1>4, <2>2 DEF ToSet
  <2>4. d # None /\ At(d) = i + 1
    BY <1>1, <2>2, <2>3, AtIs, OnlyPlace DEF At
  <2>5. d # c
    BY <2>1, <2>4 DEF i
  <2> QED
    BY <2>3, <2>4, <2>5 DEF i, d
<1>5. CASE i \notin 1 .. n - 1
  <2>1. d = None /\ i = n
    BY <1>1, <1>2, <1>5
  <2>2. \A x \in ToSet(liveChannels) : i <= At(x) => x = c
    BY <1>1, <1>3, <2>1
  <2> QED
    BY <2>1, <2>2 DEF i, d
<1> QED
  BY <1>4, <1>5

\* The loop goes on to the next channel.
LEMMA NextAhead ==
  ASSUME Types, IteratorValid, curIt # None, curIt' = After(liveChannels, curIt),
         UNCHANGED liveChannels
  PROVE  Ahead' = Ahead \ {curIt}
<1> DEFINE d == After(liveChannels, curIt)
<1>1. curIt \in ToSet(liveChannels)
  BY DEF IteratorValid
<1>2. \/ d = None /\ \A x \in ToSet(liveChannels) : At(curIt) <= At(x) => x = curIt
      \/ d # None /\ d \in ToSet(liveChannels) /\ d # curIt /\ At(d) = At(curIt) + 1
  BY <1>1, AfterAt
<1>3. Ahead' = {x \in ToSet(liveChannels) : d # None /\ At(d) <= At(x)}
  BY DEF Ahead, At
<1> HIDE DEF d
<1>4. \A x \in ToSet(liveChannels) : At(x) \in Nat /\ (At(x) = At(curIt) => x = curIt)
  BY <1>1, AtIs
<1>5. CASE d = None
  BY <1>2, <1>3, <1>5 DEF Ahead
<1>6. CASE d # None
  <2>1. \A x \in ToSet(liveChannels) : At(d) <= At(x) <=> At(curIt) <= At(x) /\ x # curIt
    BY <1>1, <1>2, <1>4, <1>6
  <2> QED
    BY <1>3, <1>6, <2>1 DEF Ahead
<1> QED
  BY <1>5, <1>6

\* A channel that closes is no longer ahead; the others keep their order.
LEMMA CloseAhead ==
  ASSUME Types, IteratorValid, NEW c \in Conns, NEW rest, CloseChannel(c, rest)
  PROVE  /\ Ahead' = Ahead \ {c}
         /\ \A x, y \in Ahead' : At(x) < At(y) => At(x)' < At(y)'
<1>1. CASE chan[c].fd = NoFd
  <2>1. UNCHANGED <<liveChannels, curIt>> /\ c \notin ToSet(liveChannels)
    BY <1>1 DEF CloseChannel, IteratorValid, pollVars
  <2> QED
    BY <2>1 DEF Ahead, At
<1>2. CASE chan[c].fd # NoFd
  <2>1. /\ liveChannels' = RemoveFirst(liveChannels, c)
        /\ curIt' = IF curIt = c THEN After(liveChannels, c) ELSE curIt
    BY <1>2 DEF CloseChannel, RemoveChannel, ItWithout
  <2>2. /\ c \in ToSet(liveChannels) /\ liveChannels \in Seq(Chans) /\ Once(liveChannels)
        /\ c # None
    BY <1>2, AtIs, Names DEF IteratorValid, Chans
  <2>3. ToSet(liveChannels') = ToSet(liveChannels) \ {c}
    BY <2>1, <2>2, RemoveIs
  <2>4. \A y \in ToSet(liveChannels) \ {c} :
          /\ At(y) # At(c)
          /\ At(y)' = IF At(y) < At(c) THEN At(y) ELSE At(y) - 1
    BY <2>1, <2>2, PlacesAfterRemoval DEF At
  <2>5. \A y \in ToSet(liveChannels) : At(y) \in Nat
    BY AtIs
  <2>6. \A x, y \in ToSet(liveChannels) \ {c} : /\ At(x) < At(y) => At(x)' < At(y)'
                                                /\ At(x) <= At(y) <=> At(x)' <= At(y)'
    BY <2>2, <2>4, <2>5
  <2>7. CASE curIt # c
    <3>1. PICK q : q = curIt
      OBVIOUS
    <3>2. curIt' = q /\ q \in ToSet(liveChannels) \cup {None} /\ q # c
      BY <2>1, <2>7, <3>1 DEF IteratorValid
    <3>3. Ahead' = {x \in ToSet(liveChannels) \ {c} : q # None /\ At(q)' <= At(x)'}
      BY <2>3, <3>2 DEF Ahead, At
    <3>4. Ahead' = Ahead \ {c}
      BY <2>6, <3>1, <3>2, <3>3 DEF Ahead
    <3> QED
      BY <2>6, <3>3, <3>4
  <2>8. CASE curIt = c
    <3>1. PICK d : /\ d = After(liveChannels, c)
                   /\ \/ d = None /\ \A x \in ToSet(liveChannels) : At(c) <= At(x) => x = c
                      \/ d # None /\ d \in ToSet(liveChannels) /\ d # c /\ At(d) = At(c) + 1
      BY <2>2, AfterAt
    <3>2. curIt' = d
      BY <2>1, <2>8, <3>1
    <3>3. Ahead' = {x \in ToSet(liveChannels) \ {c} : d # None /\ At(d)' <= At(x)'}
      BY <2>3, <3>2 DEF Ahead, At
    <3>4. Ahead = {x \in ToSet(liveChannels) : At(c) <= At(x)}
      BY <2>2, <2>8 DEF Ahead
    <3>5. CASE d = None
      <4>1. Ahead' = {} /\ Ahead \ {c} = {}
        BY <3>1, <3>3, <3>4, <3>5
      <4> QED
        BY <4>1
    <3>6. CASE d # None
      <4>1. \A x \in ToSet(liveChannels) \ {c} : At(d)' <= At(x)' <=> At(d) <= At(x)
        BY <2>6, <3>1, <3>6
      <4>2. \A x \in ToSet(liveChannels) \ {c} : At(d) <= At(x) <=> At(c) <= At(x)
        BY <2>2, <2>4, <2>5, <3>1, <3>6
      <4>3. Ahead' = Ahead \ {c}
        BY <3>3, <3>4, <3>6, <4>1, <4>2
      <4> QED
        BY <2>6, <3>4, <4>3
    <3> QED
      BY <3>5, <3>6
  <2> QED
    BY <2>7, <2>8
<1> QED
  BY <1>1, <1>2

\* A channel that is attached comes last.
LEMMA AttachAhead ==
  ASSUME Types, IteratorValid, NEW c \in Conns, NEW fd, chan[c].fd = NoFd, Attach(c, fd)
  PROVE  /\ Ahead' \in {Ahead, Ahead \cup {c}} /\ c \notin Ahead
         /\ \A x, y \in Ahead : At(x) < At(y) => At(x)' < At(y)'
         /\ \A x \in Ahead : At(x)' < At(c)'
<1>1. liveChannels' = Append(liveChannels, c) /\ UNCHANGED curIt
  BY DEF Attach, AddChannel
<1>2. /\ c \notin ToSet(liveChannels) /\ liveChannels \in Seq(Chans) /\ Once(liveChannels)
      /\ c \in Chans
  BY AtIs DEF IteratorValid, Chans
<1>3. ToSet(liveChannels') = ToSet(liveChannels) \cup {c}
  BY <1>1, <1>2, AppendIsOnce
<1>4. At(c)' = Len(liveChannels) + 1 /\ \A y \in ToSet(liveChannels) : At(y)' = At(y)
  BY <1>1, <1>2, PlacesAfterAppend DEF At
<1>5. /\ \A y \in ToSet(liveChannels) : At(y) \in Nat /\ At(y) <= Len(liveChannels)
      /\ Len(liveChannels) \in Nat
  BY AtIs
<1>6. \A x \in ToSet(liveChannels) : At(x)' < At(c)'
  BY <1>4, <1>5
<1>7. Ahead \subseteq ToSet(liveChannels)
  BY DEF Ahead
<1>8. PICK q : q = curIt /\ q \in ToSet(liveChannels) \cup {None}
  BY DEF IteratorValid
<1>9. Ahead' = {x \in ToSet(liveChannels) \cup {c} : q # None /\ At(q)' <= At(x)'}
  BY <1>1, <1>3, <1>8 DEF Ahead, At
<1>10. CASE q = None
  BY <1>2, <1>4, <1>6, <1>7, <1>8, <1>9, <1>10 DEF Ahead
<1>11. CASE q # None
  <2>1. At(q)' <= At(c)' /\ At(q)' = At(q)
    BY <1>4, <1>5, <1>8, <1>11
  <2>2. \A x \in ToSet(liveChannels) : At(q)' <= At(x)' <=> At(q) <= At(x)
    BY <1>4, <2>1
  <2>3. Ahead' = Ahead \cup {c}
    BY <1>8, <1>9, <1>11, <2>1, <2>2 DEF Ahead
  <2> QED
    BY <1>2, <1>4, <1>6, <1>7, <2>3
<1> QED
  BY <1>10, <1>11

Tallied == Behind /\ Counted

\* A handler only takes channels off those ahead, or adds new ones to their end.
LEMMA HandlerTallied ==
  ASSUME Types, Places, Tallied, stack # <<>>,
         UNCHANGED <<phase, rs, ws, lastActive, visit>>,
         \A f \in ToSet(stack') : f \in ToSet(stack) \/ f.op \notin ConnOps \/ f.c \notin Ahead',
         \A ch \in Chans : Unborn(ch)' => Unborn(ch),
         \A x, y \in Ahead \cap Ahead' : At(x) < At(y) => At(x)' < At(y)',
         \A ch \in Ahead \cap Ahead' : /\ chan'[ch].fd = chan[ch].fd
                                       /\ ch \in Conns => con'[ch].state = con[ch].state,
         \A ch \in Ahead' \ Ahead : /\ ch \in Conns /\ Unborn(ch) /\ con'[ch].state = "Handshaking"
                                    /\ \A x \in Ahead \cap Ahead' : At(x)' < At(ch)'
  PROVE  Tallied'
<1>1. phase \in {"write", "tally"} /\ visit.ch \in Chans /\ lastActive \in Nat
  BY RunningIs DEF Types, LoopTypes
<1>2. /\ \A f \in ToSet(stack) : f.op \in ConnOps => f.c \notin Ahead /\ ~Unborn(f.c)
      /\ visit.ch \notin Ahead /\ ~Unborn(visit.ch)
      /\ phase = "write" => visit.dec
  BY <1>1 DEF Tallied, Behind, Places, Stacked, Begun
<1>3. Behind'
  <2>1. \A f \in ToSet(stack') : f.op \in ConnOps => f.c \notin Ahead'
    <3> SUFFICES ASSUME NEW f \in ToSet(stack'), f.op \in ConnOps, f.c \in Ahead' PROVE FALSE
      OBVIOUS
    <3>1. f \in ToSet(stack)
      OBVIOUS
    <3> QED
      BY <1>2, <3>1
  <2>2. visit.ch \notin Ahead' /\ ~Unborn(visit.ch)'
    BY <1>1, <1>2 DEF Unborn
  <2> QED
    BY <1>2, <2>1, <2>2 DEF Behind, Unborn
<1>4. Counted'
  <2>1. PICK S \in SUBSET Ahead : Counting(S)
    BY <1>1 DEF Tallied, Counted, Dispatching
  <2> DEFINE T == S \cap Ahead'
  <2>2. \A ch \in Ahead' \ T : ch \in Conns /\ con'[ch].state = "Handshaking"
    BY <2>1 DEF Counting
  <2>3. \A x \in T, y \in Ahead' \ T : At(x)' < At(y)'
    <3> SUFFICES ASSUME NEW x \in T, NEW y \in Ahead' \ T PROVE At(x)' < At(y)'
      OBVIOUS
    <3>1. CASE y \in Ahead
      <4>1. At(x) < At(y)
        BY <2>1, <3>1 DEF Counting
      <4> QED
        BY <3>1, <4>1
    <3>2. CASE y \notin Ahead
      BY <3>2
    <3> QED
      BY <3>1, <3>2
  <2>4. /\ IsFiniteSet(Owed(S))
        /\ {ch \in T : chan'[ch].fd \in rs \cup ws} \subseteq Owed(S)
    BY AheadIs, FS_Subset DEF Places, Owed
  <2>5. /\ Cardinality({ch \in T : chan'[ch].fd \in rs \cup ws}) <= Cardinality(Owed(S))
        /\ Cardinality({ch \in T : chan'[ch].fd \in rs \cup ws}) \in Nat
        /\ Cardinality(Owed(S)) \in Nat
    BY <2>4, FS_Subset, FS_CardinalityType
  <2>6. Cardinality(Owed(S)) + (IF Counts THEN 1 ELSE 0) <= lastActive
    BY <2>1 DEF Counting
  <2>7. Counts' <=> Counts
    BY <1>1, <1>2 DEF Counts
  <2>8. Cardinality({ch \in T : chan'[ch].fd \in rs \cup ws}) + (IF Counts' THEN 1 ELSE 0) <= lastActive
    BY <1>1, <2>5, <2>6, <2>7
  <2> HIDE DEF T
  <2>9. PICK U : U = T
    OBVIOUS
  <2>10. U \subseteq Ahead'
    BY <2>9 DEF T
  <2>11. Counting(U)'
    BY <2>2, <2>3, <2>8, <2>9 DEF Counting, Owed
  <2> QED
    BY <2>10, <2>11 DEF Counted
<1> QED
  BY <1>3, <1>4 DEF Tallied

\* A handler that neither attaches nor closes a channel.
LEMMA QuietTallied ==
  ASSUME Types, Places, Tallied, stack # <<>>,
         UNCHANGED <<phase, rs, ws, lastActive, visit, liveChannels, curIt>>,
         \A f \in ToSet(stack') : f \in ToSet(stack) \/ f.op \notin ConnOps \/ f.c \notin Ahead,
         \A ch \in Chans : chan'[ch].fd = chan[ch].fd /\ (Unborn(ch)' => Unborn(ch)),
         \A ch \in Ahead : ch \in Conns => con'[ch].state = con[ch].state
  PROVE  Tallied'
<1>1. Ahead' = Ahead /\ \A x \in Ahead : At(x)' = At(x)
  BY DEF Ahead, At
<1>2. Ahead \subseteq Chans
  BY AheadIs DEF Places
<1> QED
  BY <1>1, <1>2, HandlerTallied

\* A handler that closes a channel.
LEMMA CloserTallied ==
  ASSUME Types, Places, Tallied, stack # <<>>,
         UNCHANGED <<phase, rs, ws, lastActive, visit, con>>,
         NEW c \in Conns, NEW rest \in Seq(Frames), CloseChannel(c, rest),
         \A f \in ToSet(rest) : f \in ToSet(stack) \/ f.op \notin ConnOps \/ f.c = c
  PROVE  Tallied'
<1>1. /\ Ahead' = Ahead \ {c}
      /\ \A x, y \in Ahead' : At(x) < At(y) => At(x)' < At(y)'
  BY CloseAhead DEF Places
<1>2. \A ch \in Chans : /\ chan'[ch].mem = chan[ch].mem
                        /\ ch # c => chan'[ch].fd = chan[ch].fd
  BY CloseChannelPlaces DEF Places
<1>3. Ahead \subseteq Chans
  BY AheadIs DEF Places
<1>4. \A f \in ToSet(stack') : f \in ToSet(rest) \/ f.c = c
  <2> DEFINE r == Frame("HandleRead", c)
  <2>1. r \in Frames /\ r.c = c /\ (stack' = rest \/ stack' = <<r>> \o rest)
    BY FrameIs DEF ConnOps, CloseChannel
  <2> HIDE DEF r
  <2>2. \A f \in ToSet(<<r>> \o rest) : f = r \/ f \in ToSet(rest)
    BY <2>1, OnTopOf
  <2> QED
    BY <2>1, <2>2
<1>5. \A f \in ToSet(stack') : f \in ToSet(stack) \/ f.op \notin ConnOps \/ f.c \notin Ahead'
  BY <1>1, <1>4
<1> QED
  BY <1>1, <1>2, <1>3, <1>5, HandlerTallied DEF Unborn

\* A handler that attaches a connection.
LEMMA AttachTallied ==
  ASSUME Types, Places, Tallied, stack # <<>>,
         UNCHANGED <<phase, rs, ws, lastActive, visit>>,
         NEW c \in Conns, NEW fd \in Fds, Unborn(c), Attach(c, fd),
         \A f \in ToSet(stack') : f \in ToSet(stack) \/ f.op \notin ConnOps
  PROVE  Tallied'
<1>1. IteratorValid /\ c \in Chans /\ chan[c].fd = NoFd
  BY DEF Places, IteratorValid, Unborn, Chans
<1>2. /\ Ahead' \in {Ahead, Ahead \cup {c}} /\ c \notin Ahead
      /\ \A x, y \in Ahead : At(x) < At(y) => At(x)' < At(y)'
      /\ \A x \in Ahead : At(x)' < At(c)'
  BY <1>1, AttachAhead
<1>3. /\ \A ch \in Chans \ {c} : chan'[ch] = chan[ch]
      /\ chan'[c] = [fd |-> fd, mem |-> "alive", writable |-> FALSE]
      /\ \A d \in Conns \ {c} : con'[d] = con[d]
      /\ con'[c].state = "Handshaking"
  BY <1>1, AttachPlaces
<1>4. Ahead \subseteq Chans
  BY <1>1, AheadIs
<1>5. \A ch \in Chans : Unborn(ch)' => Unborn(ch)
  BY <1>3 DEF Unborn
<1>6. \A ch \in Ahead \cap Ahead' : /\ chan'[ch].fd = chan[ch].fd
                                    /\ ch \in Conns => con'[ch].state = con[ch].state
  BY <1>2, <1>3, <1>4
<1>7. \A ch \in Ahead' \ Ahead : ch = c
  BY <1>2
<1> QED
  BY <1>2, <1>3, <1>5, <1>6, <1>7, HandlerTallied

\* select counts each socket that it reports, and each has one channel.
LEMMA SelectTallied ==
  ASSUME Types, Places, Types', IteratorValid', Select
  PROVE  Tallied'
<1>1. stack' = <<>> /\ phase' = "scan"
  BY DEF Select, Types, LoopTypes
<1>2. Behind'
  BY <1>1 DEF Behind, ToSet
<1>3. IsFiniteSet(rs') /\ IsFiniteSet(ws')
  <2>1. rs' \subseteq allReadSet /\ ws' \subseteq allWriteSet
    BY DEF Select
  <2> QED
    BY <2>1, FS_Subset DEF Types, PollTypes
<1>4. /\ IsFiniteSet(rs' \cup ws') /\ Cardinality(rs' \cup ws') \in Nat
      /\ Cardinality(rs' \cup ws') <= lastActive' /\ lastActive' \in Nat
  <2>1. /\ Cardinality(rs') \in Nat /\ Cardinality(ws') \in Nat
        /\ IsFiniteSet(rs' \cup ws') /\ Cardinality(rs' \cup ws') \in Nat
        /\ Cardinality(rs' \cap ws') \in Nat
        /\ Cardinality(rs' \cup ws') = Cardinality(rs') + Cardinality(ws') - Cardinality(rs' \cap ws')
    BY <1>3, FS_Union, FS_Intersection, FS_CardinalityType
  <2>2. lastActive' = Cardinality(rs') + Cardinality(ws')
    BY DEF Select
  <2> QED
    BY <2>1, <2>2
<1>5. PICK A : A = Ahead'
  OBVIOUS
<1>6. A \subseteq Chans /\ \A ch \in A : chan[ch].fd # NoFd
  <2>1. A \subseteq ToSet(liveChannels)
    BY <1>5 DEF Ahead, Select
  <2> QED
    BY <2>1 DEF Places, IteratorValid
<1> DEFINE O == {ch \in A : chan[ch].fd \in rs' \cup ws'}
           f == [ch \in O |-> chan[ch].fd]
<1>7. Cardinality(O) <= Cardinality(rs' \cup ws') /\ Cardinality(O) \in Nat
  <2>1. f \in [O -> rs' \cup ws']
    OBVIOUS
  <2>2. \A x, y \in O : f[x] = f[y] => x = y
    BY <1>6, OneOwner DEF Places
  <2>3. f \in Injection(O, rs' \cup ws')
    BY <2>1, <2>2 DEF Injection, IsInjective
  <2> QED
    BY <1>4, <2>3, FS_Injection, FS_CardinalityType
<1>8. chan' = chan
  BY DEF Select
<1>9. ~Counts'
  BY <1>1 DEF Counts
<1>10. Cardinality(O) + 0 <= lastActive'
  BY <1>4, <1>7
<1>11. Counting(A)'
  BY <1>5, <1>8, <1>9, <1>10 DEF Counting, Owed
<1>12. Counted'
  BY <1>5, <1>11 DEF Counted
<1> QED
  BY <1>2, <1>12 DEF Tallied

\* The read half of a visit: the channel is no longer ahead, and is counted if
\* its socket was reported.
LEMMA ScanTallied ==
  ASSUME Types, Places, Tallied, Scan
  PROVE  Tallied'
<1>1. /\ IteratorValid /\ curIt # None /\ curIt \in ToSet(liveChannels) /\ curIt \in Chans
      /\ chan[curIt].mem = "alive" /\ phase = "scan" /\ phase' = "write"
      /\ lastActive \in Nat /\ lastActive > 0 /\ lastActive' = lastActive
      /\ UNCHANGED <<rs, ws, chan, con, liveChannels>>
  BY AtIs DEF Scan, Places, IteratorValid, Types, LoopTypes
<1>2. PICK c : c = curIt
  OBVIOUS
<1>3. Ahead' = Ahead \ {c} /\ c \in Ahead
  BY <1>1, <1>2, NextAhead, AheadIs DEF Scan
<1>4. /\ visit' = [ch |-> c, dec |-> chan[c].fd \in rs]
      /\ stack' = IF chan[c].fd \in rs THEN <<Frame(ReadHandler(c), c)>> ELSE <<>>
  BY <1>2 DEF Scan
<1>5. Behind'
  <2>1. \A f \in ToSet(stack') : f.c = c
    BY <1>4, FrameIs DEF ToSet
  <2>2. ~Unborn(c)'
    BY <1>1, <1>2 DEF Unborn
  <2>3. visit'.ch = c /\ (~visit'.dec => stack' = <<>>)
    BY <1>4
  <2>4. \A f \in ToSet(stack') : f.op \in ConnOps => f.c \notin Ahead'
    BY <1>3, <2>1
  <2>5. Unborn(visit.ch)' <=> Unborn(c)'
    BY <2>3 DEF Unborn
  <2> QED
    BY <1>3, <2>2, <2>3, <2>4, <2>5 DEF Behind
<1>6. PICK S \in SUBSET Ahead : Counting(S)
  BY <1>1 DEF Tallied, Counted, Dispatching
<1>7. PICK T : T = S \ {c}
  OBVIOUS
<1>8. /\ \A ch \in Ahead' \ T : ch \in Conns /\ con'[ch].state = "Handshaking"
      /\ \A x \in T, y \in Ahead' \ T : At(x)' < At(y)'
  <2>1. \A x : At(x)' = At(x)
    BY <1>1 DEF At
  <2> QED
    BY <1>1, <1>3, <1>6, <1>7, <2>1 DEF Counting
<1>9. Counts' <=> chan[c].fd \in rs \cup ws
  BY <1>1, <1>4 DEF Counts
<1>10. Owed(T)' = Owed(S) \ {c}
  <2>1. Owed(T)' = {ch \in T : chan[ch].fd \in rs \cup ws}
    BY <1>1 DEF Owed
  <2> QED
    BY <1>7, <2>1 DEF Owed
<1>11. /\ IsFiniteSet(Owed(S)) /\ Cardinality(Owed(S)) \in Nat
       /\ Cardinality(Owed(S) \ {c}) = IF c \in Owed(S) THEN Cardinality(Owed(S)) - 1 ELSE Cardinality(Owed(S))
       /\ Cardinality(Owed(S)) <= lastActive
  <2>1. IsFiniteSet(Owed(S))
    <3>1. Owed(S) \subseteq Ahead /\ IsFiniteSet(Ahead)
      BY <1>1, AheadIs DEF Owed
    <3> QED
      BY <3>1, FS_Subset
  <2>2. Cardinality(Owed(S)) \in Nat
    BY <2>1, FS_CardinalityType
  <2>3. ~Counts
    BY <1>1 DEF Counts
  <2>4. Cardinality(Owed(S)) + 0 <= lastActive
    BY <1>6, <2>3 DEF Counting
  <2>5. Cardinality(Owed(S) \ {c}) = IF c \in Owed(S) THEN Cardinality(Owed(S)) - 1 ELSE Cardinality(Owed(S))
    BY <2>1, FS_RemoveElement
  <2>6. Cardinality(Owed(S)) <= lastActive
    BY <1>1, <2>2, <2>4
  <2> QED
    BY <2>1, <2>2, <2>5, <2>6
<1>12. Cardinality(Owed(T)') + (IF Counts' THEN 1 ELSE 0) <= lastActive
  <2>1. CASE c \in S
    <3>1. c \in Owed(S) <=> chan[c].fd \in rs \cup ws
      BY <2>1 DEF Owed
    <3> QED
      BY <1>1, <1>9, <1>10, <1>11, <3>1
  <2>2. CASE c \notin S
    <3>1. S = {}
      <4> SUFFICES ASSUME NEW x \in S PROVE FALSE
        OBVIOUS
      <4>1. At(x) < At(c)
        BY <1>3, <1>6, <2>2 DEF Counting
      <4>2. At(c) <= At(x) /\ x \in ToSet(liveChannels) /\ c \in ToSet(liveChannels)
        BY <1>1, <1>2 DEF Ahead
      <4>3. At(x) \in Nat /\ At(c) \in Nat
        BY <1>1, <4>2, AtIs
      <4> QED
        BY <4>1, <4>2, <4>3
    <3>2. Owed(S) \ {c} = {}
      BY <3>1 DEF Owed
    <3>3. Cardinality(Owed(T)') = 0
      BY <1>10, <3>2, FS_EmptySet
    <3> QED
      BY <1>1, <3>3
  <2> QED
    BY <2>1, <2>2
<1>13. Counting(T)'
  <2>1. Cardinality(Owed(T))' + (IF Counts' THEN 1 ELSE 0) <= lastActive'
    BY <1>1, <1>12
  <2> QED
    BY <1>8, <2>1 DEF Counting
<1>14. T \in SUBSET Ahead'
  BY <1>3, <1>7
<1> QED
  BY <1>5, <1>13, <1>14 DEF Tallied, Counted

\* The write half, and the count.
LEMMA VisitTallied ==
  ASSUME Types, Places, Tallied, TryWrite \/ Tally
  PROVE  Tallied'
<1> USE DEF pollVars
<1>1. /\ UNCHANGED <<liveChannels, curIt, rs, ws, chan, con>> /\ stack = <<>>
      /\ phase \in {"write", "tally"} /\ lastActive \in Nat
  BY DEF TryWrite, Tally, Types, LoopTypes
<1>2. Ahead' = Ahead /\ \A x : At(x)' = At(x)
  BY <1>1 DEF Ahead, At
<1>3. visit.ch \notin Ahead /\ ~Unborn(visit.ch)
  BY <1>1 DEF Tallied, Behind
<1>4. PICK S \in SUBSET Ahead : Counting(S)
  BY <1>1 DEF Tallied, Counted, Dispatching
<1>5. /\ \A ch \in Ahead' \ S : ch \in Conns /\ con'[ch].state = "Handshaking"
      /\ \A x \in S, y \in Ahead' \ S : At(x)' < At(y)'
      /\ Owed(S)' = Owed(S)
  BY <1>1, <1>2, <1>4 DEF Counting, Owed
<1>6. Cardinality(Owed(S)) + (IF Counts THEN 1 ELSE 0) <= lastActive /\ Cardinality(Owed(S)) \in Nat
  <2>1. Owed(S) \subseteq Ahead /\ IsFiniteSet(Ahead)
    BY AheadIs DEF Owed, Places
  <2> QED
    BY <1>4, <2>1, FS_Subset, FS_CardinalityType DEF Counting
<1>7. CASE TryWrite
  <2>1. /\ \/ visit' = visit
           \/ visit' = [visit EXCEPT !.dec = visit.dec \/ chan[visit.ch].fd \in ws]
        /\ \/ stack' = <<>>
           \/ stack' = <<Frame("HandleWrite", visit.ch)>>
        /\ phase' \in {"tally", "crashed"} /\ lastActive' = lastActive /\ phase = "write"
    BY <1>7 DEF TryWrite
  <2>2. visit'.ch = visit.ch /\ (visit'.dec => visit.dec \/ chan[visit.ch].fd \in ws)
    BY <2>1 DEF Types, LoopTypes
  <2>3. Behind'
    <3>1. \A f \in ToSet(stack') : f.c = visit.ch
      BY <2>1, FrameIs DEF ToSet
    <3>2. ~Unborn(visit.ch)'
      BY <1>1, <1>3, <2>2 DEF Unborn
    <3> QED
      BY <1>2, <1>3, <2>1, <2>2, <3>1, <3>2 DEF Behind
  <2>4. Counts' => Counts
    BY <2>1, <2>2 DEF Counts
  <2>5. Cardinality(Owed(S))' + (IF Counts' THEN 1 ELSE 0) <= lastActive'
    BY <1>1, <1>5, <1>6, <2>1, <2>4
  <2>6. Counting(S)'
    BY <1>5, <2>5 DEF Counting
  <2> QED
    BY <1>2, <2>3, <2>6 DEF Tallied, Counted
<1>8. CASE Tally
  <2>1. /\ lastActive' = lastActive - Decrement /\ phase' = "scan" /\ phase = "tally" /\ stack' = <<>>
    BY <1>1, <1>8 DEF Tally
  <2>2. Behind'
    BY <2>1 DEF Behind, ToSet
  <2>3. ~Counts' /\ Decrement = IF Counts THEN 1 ELSE 0
    BY <2>1 DEF Counts, Decrement
  <2>4. Cardinality(Owed(S))' + (IF Counts' THEN 1 ELSE 0) <= lastActive'
    <3>1. Cardinality(Owed(S)) + 0 <= lastActive - (IF Counts THEN 1 ELSE 0)
      BY <1>1, <1>6
    <3> QED
      BY <1>5, <2>1, <2>3, <3>1
  <2>5. Counting(S)'
    BY <1>5, <2>4 DEF Counting
  <2> QED
    BY <1>2, <2>2, <2>5 DEF Tallied, Counted
<1> QED
  BY <1>7, <1>8

\* Every step keeps the countdown above what is owed.
LEMMA TalliedStep ==
  ASSUME Types, Places, Types', Places', Tallied, [Next]_vars
  PROVE  Tallied'
<1> USE DEF pollVars
<1>1. CASE Select
  BY <1>1, SelectTallied DEF Places
<1>2. CASE Scan
  BY <1>2, ScanTallied
<1>3. CASE TryWrite \/ Tally
  BY <1>3, VisitTallied
<1>4. CASE EndScan \/ HandleTimeouts \/ Crash
  <2>1. stack' = <<>> /\ phase' \in {"timeouts", "select", "crashed"}
    BY <1>4 DEF EndScan, HandleTimeouts, Crash, Types, LoopTypes
  <2> QED
    BY <2>1 DEF Tallied, Behind, Counted, Dispatching, ToSet
<1>5. CASE HandleWakeup
  <2>1. stack # <<>> /\ stack' = <<Frame("Drain", None)>> \o Resume
    BY <1>5 DEF HandleWakeup, Running
  <2>2. \A f \in ToSet(stack') : f \in ToSet(stack) \/ f = Frame("Drain", None)
    BY <2>1, FramesOf, FrameIs
  <2>3. \A f \in ToSet(stack') : f \in ToSet(stack) \/ f.op \notin ConnOps
    BY <2>2, FrameIs DEF ConnOps
  <2>4. UNCHANGED <<phase, rs, ws, lastActive, visit, liveChannels, curIt, chan, con>>
    BY <1>5 DEF HandleWakeup, scanVars
  <2> QED
    BY <2>1, <2>3, <2>4, QuietTallied DEF Unborn
<1>6. CASE HandleAccept
  <2>1. stack # <<>> /\ UNCHANGED <<phase, rs, ws, lastActive, visit>>
    BY <1>6 DEF HandleAccept, Running, scanVars
  <2>2. \A f \in ToSet(stack') : f \in ToSet(stack)
    BY <1>6, <2>1, FramesOf DEF HandleAccept
  <2>3. CASE UNCHANGED <<liveChannels, curIt, chan, con>>
    BY <2>1, <2>2, <2>3, QuietTallied DEF Unborn
  <2>4. CASE ~(backlog = <<>> \/ FreeFds = {}) /\ \E fd \in FreeFds : Attach(Head(backlog), fd)
    <3>1. PICK fd \in FreeFds : Attach(Head(backlog), fd)
      BY <2>4
    <3>2. backlog \in Seq(Conns) /\ backlog # <<>>
      BY <2>4 DEF Types, PeerTypes
    <3>3. Head(backlog) \in Conns /\ Head(backlog) \in ToSet(backlog)
      BY <3>2 DEF ToSet
    <3>4. Unborn(Head(backlog)) /\ fd \in Fds
      BY <3>3 DEF Places, Waiting, FreeFds
    <3> QED
      BY <2>1, <2>2, <3>1, <3>3, <3>4, AttachTallied
  <2> QED
    BY <1>6, <2>3, <2>4 DEF HandleAccept
<1>7. CASE Drain
  <2>1. stack # <<>> /\ UNCHANGED <<phase, rs, ws, lastActive, visit>>
    BY <1>7 DEF Drain, scanVars
  <2>2. CASE tasks = <<>>
    <3>1. \A f \in ToSet(stack') : f \in ToSet(stack)
      BY <1>7, <2>1, <2>2, FramesOf DEF Drain
    <3>2. UNCHANGED <<liveChannels, curIt, chan, con>>
      BY <1>7, <2>2 DEF Drain
    <3> QED
      BY <2>1, <3>1, <3>2, QuietTallied DEF Unborn
  <2>3. CASE tasks # <<>>
    <3> DEFINE t == Head(tasks)
               held == IF t.op = "Close" THEN t.c ELSE None
               rest == <<Frame("Drain", held)>> \o Resume
    <3>1. t \in Tasks /\ t = tasks[1] /\ 1 \in DOMAIN tasks
      BY <2>3 DEF Types, TaskTypes
    <3>2. t.c \in Conns /\ held \in Conns \cup {None}
      BY <3>1 DEF Tasks
    <3>3. rest \in Seq(Frames)
      BY <2>1, <3>2, GoOn, FrameIs
    <3>4. \A f \in ToSet(rest) : f \in ToSet(stack) \/ f.op \notin ConnOps
      <4>1. \A f \in ToSet(rest) : f \in ToSet(stack) \/ f = Frame("Drain", held)
        BY <2>1, <3>2, FramesOf, FrameIs
      <4> QED
        BY <4>1, FrameIs DEF ConnOps
    <3>5. \/ t.op = "Attach" /\ Attach(t.c, t.fd) /\ stack' = rest
          \/ CloseChannel(t.c, rest) /\ con' = con
          \/ stack' = rest /\ UNCHANGED <<liveChannels, curIt, chan, con>>
      BY <1>7, <2>3 DEF Drain
    <3>6. CASE t.op = "Attach" /\ Attach(t.c, t.fd) /\ stack' = rest
      <4>1. Attaches(1)
        BY <3>1, <3>6 DEF Attaches
      <4>2. Unborn(t.c) /\ t.fd \in Fds
        BY <3>1, <4>1 DEF Places, Waiting
      <4> HIDE DEF t, rest
      <4> QED
        BY <2>1, <3>2, <3>4, <3>6, <4>2, AttachTallied
    <3>7. CASE CloseChannel(t.c, rest) /\ con' = con
      <4> HIDE DEF t, rest
      <4> QED
        BY <2>1, <3>2, <3>3, <3>4, <3>7, CloserTallied
    <3>8. CASE stack' = rest /\ UNCHANGED <<liveChannels, curIt, chan, con>>
      <4> HIDE DEF rest
      <4> QED
        BY <2>1, <3>4, <3>8, QuietTallied DEF Unborn
    <3> QED
      BY <3>5, <3>6, <3>7, <3>8
  <2> QED
    BY <2>2, <2>3
<1>8. ASSUME NEW c \in Conns, NEW op \in ConnOps, Running(op, c)
      PROVE  stack # <<>> /\ c \notin Ahead
  <2>1. stack # <<>> /\ Frame(op, c) \in ToSet(stack)
    BY <1>8, FramesOf DEF Running
  <2> QED
    BY <2>1, FrameIs DEF Tallied, Behind
<1>9. ASSUME NEW c \in Conns,
             UNCHANGED <<phase, rs, ws, lastActive, visit, liveChannels, curIt>>,
             \E op \in ConnOps : Running(op, c),
             \A ch \in Chans : chan'[ch].fd = chan[ch].fd /\ (Unborn(ch)' => Unborn(ch)),
             \A d \in Conns \ {c} : con'[d].state = con[d].state,
             \A f \in ToSet(stack') : f \in ToSet(stack) \/ f.c = c
      PROVE  Tallied'
  <2>1. stack # <<>> /\ c \notin Ahead
    BY <1>8, <1>9
  <2>2. \A f \in ToSet(stack') : f \in ToSet(stack) \/ f.op \notin ConnOps \/ f.c \notin Ahead
    BY <1>9, <2>1
  <2>3. \A ch \in Ahead : ch \in Conns => con'[ch].state = con[ch].state
    BY <1>9, <2>1
  <2> QED
    BY <1>9, <2>1, <2>2, <2>3, QuietTallied
<1>10. ASSUME NEW c \in Conns, \/ \E op \in {"HandleRead", "HandleWrite"} : HandleHandshake(op, c)
                               \/ HandleRead(c) \/ Cleanup(c) \/ Finish(c)
      PROVE  Tallied'
  <2>1. stack # <<>> /\ UNCHANGED <<phase, rs, ws, lastActive, visit, liveChannels, curIt, chan>>
    BY <1>10 DEF HandleHandshake, HandleRead, Cleanup, Finish, RunningOn, Running, scanVars
  <2>2. \A f \in ToSet(stack') : f \in ToSet(stack) \/ f.c = c
    <3> DEFINE C == Frame("Cleanup", c)
               O == Frame("OnMsg", c)
               F == Frame("Finish", c)
               D == Frame("Delete", c)
    <3>1. /\ C \in Frames /\ O \in Frames /\ F \in Frames /\ D \in Frames
          /\ C.c = c /\ O.c = c /\ F.c = c /\ D.c = c
      BY FrameIs DEF ConnOps
    <3>2. \/ stack' \in {stack, Resume}
          \/ stack' = <<>> \o Resume
          \/ \E f \in {C, O, F, D} : stack' = <<f>> \o Resume
          \/ stack' = <<O>> \o <<F>> \o Resume
          \/ stack' = <<>> \o <<F>> \o Resume
      BY <1>10 DEF HandleHandshake, HandleRead, Recv, WouldBlock, ReadHandled, ReadCallback, Disconnected,
                   Cleanup, RestHandled, Finish
    <3> HIDE DEF C, O, F, D
    <3>3. /\ <<>> \o Resume = Resume /\ <<>> \o <<F>> \o Resume = <<F>> \o Resume
          /\ <<O>> \o <<F>> \o Resume = <<O, F>> \o Resume
      BY <2>1, <3>1, GoOn
    <3>4. CASE stack' \in {stack, Resume}
      BY <2>1, <3>4, FramesOf
    <3>5. CASE \E f \in {C, O, F, D} : stack' = <<f>> \o Resume
      BY <2>1, <3>1, <3>5, FramesOf
    <3>6. CASE stack' = <<O, F>> \o Resume
      BY <2>1, <3>1, <3>6, FramesOf
    <3> QED
      BY <3>2, <3>3, <3>4, <3>5, <3>6
  <2>3. \E op \in ConnOps : Running(op, c)
    BY <1>10 DEF HandleHandshake, HandleRead, Cleanup, Finish, RunningOn, ConnOps
  <2>4. \A d \in Conns \ {c} : con'[d].state = con[d].state
    <3>1. \/ UNCHANGED con
          \/ \E r : con' = [con EXCEPT ![c] = r]
      BY <1>10 DEF HandleHandshake, HandleRead, Recv, WouldBlock, Disconnected, Cleanup, Finish
    <3> QED
      BY <3>1 DEF Types, ConTypes
  <2> QED
    BY <1>9, <2>1, <2>2, <2>3, <2>4 DEF Unborn
<1>11. ASSUME NEW c \in Conns, HandleWrite(c)
       PROVE  Tallied'
  <2>1. /\ stack # <<>> /\ stack' = Resume /\ Running("HandleWrite", c) /\ UNCHANGED con
        /\ UNCHANGED <<phase, rs, ws, lastActive, visit, liveChannels, curIt>>
    BY <1>11 DEF HandleWrite, EnableWrite, RunningOn, Running, scanVars
  <2>2. \A ch \in Chans : chan'[ch].fd = chan[ch].fd /\ chan'[ch].mem = chan[ch].mem
    BY <1>11 DEF HandleWrite, EnableWrite, Types, ChanTypes
  <2>3. \A f \in ToSet(stack') : f \in ToSet(stack)
    BY <2>1, FramesOf
  <2> QED
    BY <1>9, <2>1, <2>2, <2>3 DEF ConnOps, Unborn
<1>12. ASSUME NEW c \in Conns, OnMsg(c)
       PROVE  Tallied'
  <2>1. stack # <<>> /\ Running("OnMsg", c) /\ "OnMsg" \in ConnOps
        /\ UNCHANGED <<phase, rs, ws, lastActive, visit>>
    BY <1>12 DEF OnMsg, RunningOn, Running, scanVars, ConnOps
  <2>2. \A d \in Conns \ {c} : con'[d].state = con[d].state
    BY <1>12 DEF OnMsg, Types, ConTypes
  <2>3. CASE CloseChannel(c, Resume) /\ UNCHANGED con
    <3>1. Resume \in Seq(Frames) /\ \A f \in ToSet(Resume) : f \in ToSet(stack)
      BY <2>1, GoOn, FramesOf
    <3> QED
      BY <2>1, <2>3, <3>1, CloserTallied
  <2>4. CASE (UNCHANGED <<pollVars, chan>> \/ EnableWrite(c, TRUE)) /\ stack' \in {stack, Resume}
    <3>1. UNCHANGED <<liveChannels, curIt>>
      BY <2>4 DEF EnableWrite
    <3>2. \A ch \in Chans : chan'[ch].fd = chan[ch].fd /\ chan'[ch].mem = chan[ch].mem
      BY <2>4 DEF EnableWrite, Types, ChanTypes
    <3>3. \A f \in ToSet(stack') : f \in ToSet(stack)
      BY <2>1, <2>4, FramesOf
    <3> QED
      BY <1>9, <2>1, <2>2, <3>1, <3>2, <3>3 DEF Unborn
  <2> QED
    BY <1>12, <2>3, <2>4 DEF OnMsg
<1>13. ASSUME NEW c \in Conns, Delete(c)
       PROVE  Tallied'
  <2> DEFINE rest == <<Frame("Free", c)>> \o Resume
  <2>1. stack # <<>> /\ UNCHANGED <<phase, rs, ws, lastActive, visit, con>> /\ CloseChannel(c, rest)
    BY <1>13 DEF Delete, Running, scanVars
  <2>2. rest \in Seq(Frames)
    BY <2>1, GoOn, FrameIs DEF ConnOps
  <2>3. \A f \in ToSet(rest) : f \in ToSet(stack) \/ f.c = c
    BY <2>1, FramesOf, FrameIs DEF ConnOps
  <2> HIDE DEF rest
  <2> QED
    BY <2>1, <2>2, <2>3, CloserTallied
<1>14. ASSUME NEW c \in Conns, Free(c)
       PROVE  Tallied'
  <2>1. /\ stack # <<>> /\ stack' = Resume /\ Running("Free", c) /\ UNCHANGED con
        /\ UNCHANGED <<phase, rs, ws, lastActive, visit, liveChannels, curIt>>
        /\ chan' = [chan EXCEPT ![c].mem = "freed"]
    BY <1>14 DEF Free, Running, scanVars
  <2>2. \A f \in ToSet(stack') : f \in ToSet(stack)
    BY <2>1, FramesOf
  <2>3. \A ch \in Chans : chan'[ch].fd = chan[ch].fd /\ (Unborn(ch)' => Unborn(ch))
    BY <2>1 DEF Types, ChanTypes, Unborn
  <2> QED
    BY <1>9, <2>1, <2>2, <2>3 DEF ConnOps
<1>15. CASE UNCHANGED vars \/ \E c \in Conns : Peer(c) \/ Assign(c)
  <2>1. UNCHANGED <<stack, phase, rs, ws, lastActive, visit, liveChannels, curIt, chan, con>>
    BY <1>15 DEF vars, Peer, Assign, loopVars, scanVars
  <2> QED
    BY <2>1 DEF Tallied, Behind, Counted, Dispatching, Counting, Owed, Counts, Ahead, At, Unborn
<1> QED
  BY <1>1, <1>2, <1>3, <1>4, <1>5, <1>6, <1>7, <1>10, <1>11, <1>12, <1>13, <1>14, <1>15
  DEF Next, Loop, Handler, Crashed

\* The dispatch loop's countdown of ready sockets only reaches zero when every
\* channel that select reported and that is still open has been visited
\* (PollerSelect::LoopOnce), although handlers attach and close channels meanwhile.
THEOREM EventsNeverMissed == Spec => []NoEventMissed
<1>1. Init => Tallied
  <2> SUFFICES ASSUME Init PROVE Tallied
    OBVIOUS
  <2>1. stack = <<>> /\ phase = "select"
    BY DEF Init
  <2> QED
    BY <2>1 DEF Tallied, Behind, Counted, Dispatching, ToSet
<1>2. Types /\ Places /\ Tallied /\ Types' /\ Places' /\ [Next]_vars => Tallied'
  BY TalliedStep
<1>3. Types /\ Places /\ Tallied => NoEventMissed
  <2> SUFFICES ASSUME Types, Places, Tallied, phase = "scan", lastActive = 0,
                      NEW ch \in ToSet(liveChannels), chan[ch].fd \in rs \cup ws,
                      ch \in Conns => con[ch].state = "Connected", curIt # None
               PROVE  At(ch) < At(curIt)
    BY DEF NoEventMissed, At, Place
  <2>1. PICK S \in SUBSET Ahead : Counting(S)
    BY DEF Tallied, Counted, Dispatching
  <2>2. IsFiniteSet(Owed(S))
    BY <2>1, AheadIs, FS_Subset DEF Owed, Places
  <2>3. Owed(S) = {}
    <3>1. Cardinality(Owed(S)) \in Nat /\ ~Counts
      BY <2>2, FS_CardinalityType DEF Counts
    <3>2. Cardinality(Owed(S)) + 0 <= 0
      BY <2>1, <3>1 DEF Counting
    <3>3. Cardinality(Owed(S)) = 0
      BY <3>1, <3>2
    <3> QED
      BY <2>2, <3>3, FS_EmptySet
  <2>4. ch \notin Ahead
    BY <2>1, <2>3 DEF Counting, Owed
  <2>5. At(ch) \in Nat /\ At(curIt) \in Nat
    BY AtIs DEF Places, IteratorValid
  <2> QED
    BY <2>4, <2>5 DEF Ahead
<1>4. Spec => []Places
  BY PlacesInit, PlacesStep, TypesAlways, PTL DEF Spec
<1> QED
  BY <1>1, <1>2, <1>3, <1>4, TypesAlways, PTL DEF Spec
=============================================================================
