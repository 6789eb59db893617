---------------------------- MODULE Timers_proof ----------------------------
(***************************************************************************)
(* Proofs about Timers, for any times of day, times of timers, intervals   *)
(* and width of the int: no entry of m_timers outlives the repeating timer *)
(* it points to, select ends by the nearest timer's time unless one was    *)
(* overdue by more than the int holds, and every timer set is accounted    *)
(* for.                                                                    *)
(***************************************************************************)
EXTENDS Timers, FiniteSetTheorems, WellFoundedInduction, TLAPS

\* A set of numbers that is not empty has a least.
LEMMA LeastNatural ==
  ASSUME NEW T \in SUBSET Nat, T # {}
  PROVE  \E x \in T : \A y \in T : x <= y
<1> DEFINE R == {p \in Nat \X Nat : p[1] < p[2]}
<1>1. IsWellFoundedOn(R, Nat)
  BY NatLessThanWellFounded DEF OpToRel
<1>2. \A x, y \in Nat : y < x => <<y, x>> \in R
  OBVIOUS
<1> HIDE DEF R
<1>3. PICK x \in T : \A y \in T : <<y, x>> \notin R
  BY <1>1, WFMin
<1>4. \A y \in T : ~(y < x)
  BY <1>2, <1>3
<1> QED
  BY <1>3, <1>4

----------------------------------------------------------------------------
(* The inductive invariant.                                                *)

\* The sign of a handle's time tells the kind of its timer, its number is one
\* that was given, the timers in m_timerReps are the repeating kind, and no two
\* entries have the same number.
HandlesSigned ==
  /\ Handles \subseteq Int \X (1 .. m_timerSeq)
  /\ \A r \in m_timerReps : r.tid[1] < 0
  /\ \A t, u \in m_timers : t.seq = u.seq => t = u

\* No timer was nearer than m_nextTimeout when it was computed, unless it was
\* overdue by more than an int; no time has passed since then when LoopOnce comes
\* back from HandleTimeouts.
SleepsEnough ==
  /\ refreshed \in Nat /\ slept \in Nat /\ deadline \in Nat
  /\ pc = "setup" => now = 0
  /\ pc = "check" => refreshed = clock
  /\ overdue = {} => \A t \in m_timers : m_nextTimeout <= Larger(0, t.at - refreshed)

TimerInv == NoDangling /\ HandlesSigned /\ SleepsEnough /\ Punctual

----------------------------------------------------------------------------
(* m_timers.begin(), and the int.                                          *)

\* An ordered map that is not empty has a first entry.
LEMMA NearestExists ==
  ASSUME NEW ts, \A t \in ts : t.at \in Nat /\ t.seq \in Nat, ts # {}
  PROVE  LET t == CHOOSE s \in ts : IsNearest(s, ts)
         IN  t \in ts /\ \A s \in ts : t.at <= s.at
<1>1. PICK x \in {t.at : t \in ts} : \A y \in {t.at : t \in ts} : x <= y
  BY LeastNatural
<1> DEFINE firsts == {t \in ts : t.at = x}
<1>2. PICK n \in {t.seq : t \in firsts} : \A m \in {t.seq : t \in firsts} : n <= m
  <2>1. {t.seq : t \in firsts} # {} /\ {t.seq : t \in firsts} \in SUBSET Nat
    BY <1>1
  <2> QED
    BY <2>1, LeastNatural
<1>3. PICK f \in firsts : f.seq = n
  BY <1>2
<1>4. x \in Nat /\ \A s \in ts : s.at > x \/ s \in firsts
  <2>1. x \in Nat
    BY <1>1
  <2>2. \A s \in ts : x <= s.at
    BY <1>1
  <2>3. \A s \in ts : s.at \in Nat /\ (s.at = x => s \in firsts)
    OBVIOUS
  <2> HIDE DEF firsts
  <2> QED
    BY <2>1, <2>2, <2>3
<1>5. IsNearest(f, ts)
  BY <1>2, <1>3, <1>4 DEF IsNearest, Before
<1>6. \E s \in ts : IsNearest(s, ts)
  BY <1>3, <1>5
<1>7. \A s \in ts : IsNearest(s, ts) => \A u \in ts : s.at <= u.at
  BY DEF IsNearest, Before
<1> QED
  BY <1>6, <1>7

\* The remainder lies in the range of its divisor.
LEMMA ModInt ==
  ASSUME NEW x \in Int, NEW n \in Nat \ {0}
  PROVE  x % n \in 0 .. n - 1
OBVIOUS

\* The remainder of a number is no larger than it.
LEMMA ModLe ==
  ASSUME NEW x \in Nat, NEW n \in Nat \ {0}
  PROVE  x % n <= x
OBVIOUS

\* The cut to an int never lengthens a time that is not long past.
LEMMA ToIntBound ==
  ASSUME NEW x \in Int
  PROVE  ToInt(x) \in Int /\ (x >= -IntLimit => ToInt(x) <= Larger(0, x))
<1> DEFINE n == 2 * IntLimit
           y == x + IntLimit
<1>1. IntLimit \in Nat \ {0} /\ n \in Nat \ {0} /\ y \in Int
  BY TimersAssumption DEF TimersAssumption
<1> HIDE DEF n
<1>2. y % n \in 0 .. n - 1
  BY <1>1, ModInt
<1>3. y \in Nat => y % n <= y
  BY <1>1, ModLe
<1>4. ToInt(x) = (y % n) - IntLimit
  BY DEF ToInt, n
<1> QED
  BY <1>1, <1>2, <1>3, <1>4 DEF Larger

\* What RefreshNearest computes.
LEMMA RefreshBound ==
  ASSUME NEW ts, \A t \in ts : t.at \in Nat /\ t.seq \in Nat,
         clock \in Nat, RefreshNearest(ts)
  PROVE  /\ m_nextTimeout' \in Nat /\ refreshed' = clock
         /\ overdue' = {} => \A t \in ts : m_nextTimeout' <= Larger(0, t.at - clock)
<1> USE TimersAssumption DEF TimersAssumption
<1>1. refreshed' = clock /\ overdue' = {t \in ts : t.at - clock < -IntLimit}
  BY DEF RefreshNearest
<1>2. CASE ts = {}
  BY <1>1, <1>2 DEF RefreshNearest, Never
<1>3. CASE ts # {}
  <2> DEFINE t == CHOOSE s \in ts : IsNearest(s, ts)
  <2>1. t \in ts /\ \A s \in ts : t.at <= s.at
    BY <1>3, NearestExists
  <2>2. m_nextTimeout' = Larger(0, ToInt(t.at - clock))
    BY <1>3 DEF RefreshNearest, Remaining
  <2> HIDE DEF t
  <2>3. t.at - clock \in Int /\ (overdue' = {} => t.at - clock >= -IntLimit)
    BY <1>1, <2>1
  <2>4. /\ ToInt(t.at - clock) \in Int
        /\ overdue' = {} => ToInt(t.at - clock) <= Larger(0, t.at - clock)
    BY <2>3, ToIntBound
  <2>5. m_nextTimeout' \in Nat /\ (overdue' = {} => m_nextTimeout' <= Larger(0, t.at - clock))
    BY <2>2, <2>3, <2>4 DEF Larger
  <2>6. overdue' = {} => \A s \in ts : m_nextTimeout' <= Larger(0, s.at - clock)
    BY <2>1, <2>3, <2>5 DEF Larger
  <2> QED
    BY <1>1, <2>5, <2>6
<1> QED
  BY <1>2, <1>3

----------------------------------------------------------------------------
(* Every step keeps the invariant.                                         *)

\* The clock is a number.
LEMMA ClockNat ==
  ASSUME TimerInv
  PROVE  /\ clock \in Nat /\ now \in Nat /\ clock \in StartTime .. MaxTime /\ now \in 0 .. clock
         /\ StartTime \in Nat /\ MaxTime \in Nat /\ WaitMs \in Nat
BY TimersAssumption DEF TimersAssumption, TimerInv, NoDangling, TypeOK

\* No timer is set.
LEMMA TimerInit == Init => TimerInv
<1> SUFFICES ASSUME Init PROVE TimerInv
  OBVIOUS
<1>1. Handles = {} /\ DOMAIN fires = {}
  BY DEF Init, Handles
<1>2. Never \in Nat
  BY TimersAssumption DEF TimersAssumption, Never
<1>3. TypeOK
  <2>1. clock \in StartTime .. MaxTime /\ now \in 0 .. clock /\ running = NoTimer
    BY TimersAssumption DEF TimersAssumption, Init
  <2>2. m_exit = FALSE /\ last = FALSE /\ pc = "setup"
    BY DEF Init
  <2>3. m_timers = {} /\ m_timerReps = {} /\ m_timerSeq = 0 /\ m_nextTimeout \in Nat
    BY <1>2 DEF Init
  <2> QED
    BY <1>1, <2>1, <2>2, <2>3 DEF TypeOK
<1>4. NoDangling /\ HandlesSigned
  BY <1>1, <1>3 DEF Init, NoDangling, HandlesSigned
<1>5. SleepsEnough /\ Punctual
  BY TimersAssumption DEF TimersAssumption, Init, SleepsEnough, Punctual
<1> QED
  BY <1>4, <1>5 DEF TimerInv

\* The handle that RunAt returns is one more.
LEMMA HandlesIssued ==
  ASSUME NEW h, NEW at, NEW interval,
         issued' = issued \cup {[tid |-> h, at |-> at, interval |-> interval]}
  PROVE  Handles' = Handles \cup {h}
<1> DEFINE new == [tid |-> h, at |-> at, interval |-> interval]
<1>1. new.tid = h
  OBVIOUS
<1> HIDE DEF new
<1>2. issued' = issued \cup {new}
  BY DEF new
<1> QED
  BY <1>1, <1>2 DEF Handles

\* RunAt: the handle is new, and so is the number of the entry.
LEMMA TimerRunOnce ==
  ASSUME TimerInv, NEW at \in Times, RunOnce(at)
  PROVE  TimerInv'
<1> DEFINE h == <<at, m_timerSeq + 1>>
           new == Entry(at, m_timerSeq + 1, h)
<1>1. /\ issued' = issued \cup {[tid |-> h, at |-> at, interval |-> 0]}
      /\ fires' = [i \in DOMAIN fires \cup {h} |-> IF i = h THEN 0 ELSE fires[i]]
      /\ m_timers' = m_timers \cup {new} /\ m_timerSeq' = m_timerSeq + 1
      /\ RefreshNearest(m_timers') /\ pc # "waiting"
      /\ UNCHANGED <<clock, m_exit, m_timerReps, pc, last, now, deadline, running, slept>>
  BY DEF RunOnce, Issue, UserCode
<1>2. Handles' = Handles \cup {h}
  BY <1>1, HandlesIssued
<1>3. at \in Nat \ {0} /\ m_timerSeq \in Nat
  BY TimersAssumption DEF TimersAssumption, TimerInv, NoDangling, TypeOK
<1>4. new = [at |-> at, seq |-> m_timerSeq + 1, owner |-> h]
  BY DEF Entry
<1> HIDE DEF h, new
<1>5. h = <<at, m_timerSeq + 1>>
  BY DEF h
<1>6. m_timers' \subseteq [at : Nat \ {0}, seq : 1 .. m_timerSeq', owner : Handles']
  BY <1>1, <1>2, <1>3, <1>4 DEF TimerInv, NoDangling, TypeOK
<1>7. /\ m_nextTimeout' \in Nat /\ refreshed' = clock
      /\ overdue' = {} => \A t \in m_timers' : m_nextTimeout' <= Larger(0, t.at - clock)
  <2>1. \A t \in m_timers' : t.at \in Nat /\ t.seq \in Nat
    BY <1>6, <1>1, <1>3
  <2> QED
    BY <1>1, <2>1, RefreshBound, ClockNat
<1>8. TypeOK'
  BY <1>1, <1>2, <1>3, <1>6, <1>7 DEF TimerInv, NoDangling, TypeOK
<1>9. NoDangling'
  BY <1>1, <1>3, <1>4, <1>5, <1>8 DEF TimerInv, NoDangling
<1>10. HandlesSigned'
  BY <1>1, <1>2, <1>3, <1>4, <1>5 DEF TimerInv, HandlesSigned, NoDangling, TypeOK
<1>11. SleepsEnough' /\ Punctual'
  BY <1>1, <1>7 DEF TimerInv, NoDangling, TypeOK, SleepsEnough, Punctual
<1> QED
  BY <1>9, <1>10, <1>11 DEF TimerInv

\* RunEvery, whose entry and repeating timer come together.
LEMMA TimerRunEvery ==
  ASSUME TimerInv, NEW at \in Times, NEW interval \in Intervals, RunEvery(at, interval)
  PROVE  TimerInv'
<1> DEFINE h == <<-at, m_timerSeq + 1>>
           new == Entry(at, m_timerSeq + 2, h)
           rep == Rep(h, at, interval, m_timerSeq + 2)
<1>1. /\ issued' = issued \cup {[tid |-> h, at |-> at, interval |-> interval]}
      /\ fires' = [i \in DOMAIN fires \cup {h} |-> IF i = h THEN 0 ELSE fires[i]]
      /\ m_timers' = m_timers \cup {new} /\ m_timerReps' = m_timerReps \cup {rep}
      /\ m_timerSeq' = m_timerSeq + 2
      /\ RefreshNearest(m_timers') /\ pc # "waiting"
      /\ UNCHANGED <<clock, m_exit, pc, last, now, deadline, running, slept>>
  BY DEF RunEvery, Issue, UserCode
<1>2. Handles' = Handles \cup {h}
  BY <1>1, HandlesIssued
<1>3. at \in Nat \ {0} /\ m_timerSeq \in Nat
  BY TimersAssumption DEF TimersAssumption, TimerInv, NoDangling, TypeOK
<1>4. /\ new = [at |-> at, seq |-> m_timerSeq + 2, owner |-> h]
      /\ rep = [tid |-> h, at |-> at, interval |-> interval, seq |-> m_timerSeq + 2]
  BY DEF Entry, Rep
<1> HIDE DEF h, new, rep
<1>5. h = <<-at, m_timerSeq + 1>>
  BY DEF h
<1>6. /\ m_timers' \subseteq [at : Nat \ {0}, seq : 1 .. m_timerSeq', owner : Handles']
      /\ m_timerReps' \subseteq
           [tid : Handles', at : Nat, interval : Intervals, seq : 1 .. m_timerSeq']
  BY <1>1, <1>2, <1>3, <1>4 DEF TimerInv, NoDangling, TypeOK
<1>7. /\ m_nextTimeout' \in Nat /\ refreshed' = clock
      /\ overdue' = {} => \A t \in m_timers' : m_nextTimeout' <= Larger(0, t.at - clock)
  <2>1. \A t \in m_timers' : t.at \in Nat /\ t.seq \in Nat
    BY <1>6, <1>1, <1>3
  <2> QED
    BY <1>1, <2>1, RefreshBound, ClockNat
<1>8. TypeOK'
  BY <1>1, <1>2, <1>3, <1>6, <1>7 DEF TimerInv, NoDangling, TypeOK
<1>9. h \notin Handles
  BY <1>3, <1>5 DEF TimerInv, HandlesSigned
<1>10. NoDangling'
  <2>1. \A r \in m_timerReps : r.tid # h
    BY <1>9 DEF TimerInv, NoDangling, TypeOK
  <2> QED
    BY <1>1, <1>4, <1>8, <2>1 DEF TimerInv, NoDangling
<1>11. HandlesSigned'
  BY <1>1, <1>2, <1>3, <1>4, <1>5 DEF TimerInv, HandlesSigned, NoDangling, TypeOK
<1>12. SleepsEnough' /\ Punctual'
  BY <1>1, <1>7 DEF TimerInv, NoDangling, TypeOK, SleepsEnough, Punctual
<1> QED
  BY <1>10, <1>11, <1>12 DEF TimerInv

\* Cancel erases the entry of the timer that it erases, and no other.
LEMMA TimerCancelRepeating ==
  ASSUME TimerInv, NEW r \in m_timerReps, CancelRepeating(r)
  PROVE  TimerInv'
<1>1. /\ m_timers' = {t \in m_timers : <<t.at, t.seq>> # <<r.at, r.seq>>}
      /\ m_timerReps' = m_timerReps \ {r} /\ pc # "waiting"
      /\ UNCHANGED <<clock, m_exit, m_timerSeq, m_nextTimeout, pc, last, now, deadline, running,
                     slept, refreshed, overdue, issued, fires>>
  BY DEF CancelRepeating, KeyOf, UserCode
<1>2. TypeOK' /\ HandlesSigned' /\ SleepsEnough' /\ Punctual'
  BY <1>1
     DEF TimerInv, NoDangling, TypeOK, HandlesSigned, SleepsEnough, Punctual, Handles
<1>3. \A t \in m_timers : t.owner[1] < 0 =>
        \E s \in m_timerReps : s.tid = t.owner /\ s.at = t.at /\ s.seq = t.seq
  BY DEF TimerInv, NoDangling
<1>4. \A t \in m_timers' : t.owner[1] < 0 =>
        \E s \in m_timerReps' : s.tid = t.owner /\ s.at = t.at /\ s.seq = t.seq
  BY <1>1, <1>3
<1>5. \A s \in m_timerReps' : \E t \in m_timers' : t.owner = s.tid
  <2> SUFFICES ASSUME NEW s \in m_timerReps, s # r
               PROVE  \E t \in m_timers' : t.owner = s.tid
    BY <1>1
  <2>1. PICK t \in m_timers : t.owner = s.tid
    BY DEF TimerInv, NoDangling
  <2>2. t.seq = s.seq
    BY <1>3, <2>1 DEF TimerInv, NoDangling, HandlesSigned
  <2>3. PICK u \in m_timers : u.owner = r.tid
    BY DEF TimerInv, NoDangling
  <2>4. u.seq = r.seq
    BY <1>3, <2>3 DEF TimerInv, NoDangling, HandlesSigned
  <2>5. t # u
    BY <2>1, <2>3 DEF TimerInv, NoDangling
  <2>6. t.seq # r.seq
    BY <2>4, <2>5 DEF TimerInv, HandlesSigned
  <2> QED
    BY <1>1, <2>1, <2>6
<1> QED
  BY <1>1, <1>2, <1>4, <1>5 DEF TimerInv, NoDangling

\* A one-shot timer is cancelled, or run: only its entry goes.
LEMMA TimerErased ==
  ASSUME TimerInv, NEW t \in m_timers, CancelOnce(t) \/ FireOnce(t)
  PROVE  TimerInv'
<1>1. /\ m_timers' = m_timers \ {t} /\ t.owner[1] >= 0 /\ t.owner \in Handles
      /\ pc # "waiting" /\ pc' \in {pc, "run"} /\ DOMAIN fires' = DOMAIN fires
      /\ running' \in {running, t.owner}
      /\ UNCHANGED <<clock, m_exit, m_timerReps, m_timerSeq, m_nextTimeout, last, now, deadline,
                     slept, refreshed, overdue, issued>>
  BY DEF CancelOnce, FireOnce, Without, UserCode, TimerInv, NoDangling, TypeOK
<1>2. Handles' = Handles
  BY <1>1 DEF Handles
<1>3. TypeOK'
  BY <1>1, <1>2 DEF TimerInv, NoDangling, TypeOK
<1>4. \A r \in m_timerReps : r.tid # t.owner
  BY <1>1 DEF TimerInv, HandlesSigned
<1>5. NoDangling'
  BY <1>1, <1>3, <1>4 DEF TimerInv, NoDangling
<1>6. HandlesSigned' /\ SleepsEnough' /\ Punctual'
  BY <1>1, <1>2 DEF TimerInv, HandlesSigned, SleepsEnough, Punctual
<1> QED
  BY <1>5, <1>6 DEF TimerInv

\* RepeatableTimeout: the entry and m_timerid change together.
LEMMA TimerRepeated ==
  ASSUME TimerInv, NEW t \in m_timers, RepeatableTimeout(t)
  PROVE  TimerInv'
<1>1. PICK r \in m_timerReps :
        LET next == NextAt(r)
        IN /\ r.tid = t.owner
           /\ m_timerReps' = (m_timerReps \ {r}) \cup {Rep(r.tid, next, r.interval, m_timerSeq + 1)}
           /\ m_timers' = (m_timers \ {t}) \cup {Entry(next, m_timerSeq + 1, r.tid)}
  BY DEF RepeatableTimeout
<1> DEFINE next == NextAt(r)
           new == Entry(next, m_timerSeq + 1, r.tid)
           rep == Rep(r.tid, next, r.interval, m_timerSeq + 1)
<1>2. /\ m_timers' = (m_timers \ {t}) \cup {new} /\ m_timerReps' = (m_timerReps \ {r}) \cup {rep}
      /\ m_timerSeq' = m_timerSeq + 1 /\ RefreshNearest(m_timers')
      /\ DOMAIN fires' = DOMAIN fires /\ running' = t.owner /\ pc' = "run"
      /\ r.tid = t.owner /\ t.owner[1] < 0
      /\ UNCHANGED <<clock, m_exit, last, now, deadline, slept, issued>>
  BY <1>1 DEF RepeatableTimeout
<1>3. Handles' = Handles /\ t.owner \in Handles
  BY <1>2 DEF Handles, TimerInv, NoDangling, TypeOK
<1>4. next \in Nat \ {0} /\ m_timerSeq \in Nat /\ r.interval \in Intervals
  <2>1. r.at \in Nat /\ r.interval \in Intervals /\ m_timerSeq \in Nat
    BY DEF TimerInv, NoDangling, TypeOK
  <2>2. r.interval \in Nat \ {0}
    BY <2>1, TimersAssumption DEF TimersAssumption
  <2> QED
    BY <2>1, <2>2 DEF NextAt
<1>5. /\ new = [at |-> next, seq |-> m_timerSeq + 1, owner |-> r.tid]
      /\ rep = [tid |-> r.tid, at |-> next, interval |-> r.interval, seq |-> m_timerSeq + 1]
  BY DEF Entry, Rep
<1> HIDE DEF next, new, rep
<1>6. /\ m_timers' \subseteq [at : Nat \ {0}, seq : 1 .. m_timerSeq', owner : Handles']
      /\ m_timerReps' \subseteq
           [tid : Handles', at : Nat, interval : Intervals, seq : 1 .. m_timerSeq']
  BY <1>2, <1>3, <1>4, <1>5 DEF TimerInv, NoDangling, TypeOK
<1>7. /\ m_nextTimeout' \in Nat /\ refreshed' = clock
      /\ overdue' = {} => \A u \in m_timers' : m_nextTimeout' <= Larger(0, u.at - clock)
  <2>1. \A u \in m_timers' : u.at \in Nat /\ u.seq \in Nat
    BY <1>6, <1>2, <1>4
  <2> QED
    BY <1>2, <2>1, RefreshBound, ClockNat
<1>8. TypeOK'
  BY <1>2, <1>3, <1>6, <1>7, <1>4 DEF TimerInv, NoDangling, TypeOK
<1>9. \A u \in m_timers : u.owner[1] < 0 =>
        \E s \in m_timerReps : s.tid = u.owner /\ s.at = u.at /\ s.seq = u.seq
  BY DEF TimerInv, NoDangling
<1>10. \A u \in m_timers : u # t => u.owner # r.tid
  <2> SUFFICES ASSUME NEW u \in m_timers, u.owner = r.tid PROVE u = t
    OBVIOUS
  <2>1. t.seq = r.seq /\ u.seq = r.seq
    BY <1>2, <1>9 DEF TimerInv, NoDangling
  <2> QED
    BY <2>1 DEF TimerInv, HandlesSigned
<1>11. NoDangling'
  <2>1. \A u \in m_timers' : u.owner[1] < 0 =>
          \E s \in m_timerReps' : s.tid = u.owner /\ s.at = u.at /\ s.seq = u.seq
    BY <1>2, <1>5, <1>9, <1>10
  <2>2. \A s \in m_timerReps' : \E u \in m_timers' : u.owner = s.tid
    <3> SUFFICES ASSUME NEW s \in m_timerReps, s # r
                 PROVE  \E u \in m_timers' : u.owner = s.tid
      BY <1>2, <1>5
    <3>1. PICK u \in m_timers : u.owner = s.tid
      BY DEF TimerInv, NoDangling
    <3>2. u # t
      BY <1>2, <3>1 DEF TimerInv, NoDangling
    <3> QED
      BY <1>2, <3>1, <3>2
  <2>3. \A s, v \in m_timerReps' : s.tid = v.tid => s = v
    BY <1>2, <1>5 DEF TimerInv, NoDangling
  <2> QED
    BY <1>8, <2>1, <2>2, <2>3 DEF NoDangling
<1>12. HandlesSigned'
  <2>1. \A u \in m_timers : u.seq # m_timerSeq + 1
    BY <1>4 DEF TimerInv, NoDangling, TypeOK
  <2>2. \A u, v \in m_timers' : u.seq = v.seq => u = v
    BY <1>2, <1>5, <2>1 DEF TimerInv, HandlesSigned
  <2>3. \A s \in m_timerReps' : s.tid[1] < 0
    BY <1>2, <1>5 DEF TimerInv, HandlesSigned
  <2>4. Handles' \subseteq Int \X (1 .. m_timerSeq')
    BY <1>2, <1>3, <1>4 DEF TimerInv, HandlesSigned
  <2> QED
    BY <2>2, <2>3, <2>4 DEF HandlesSigned
<1>13. SleepsEnough' /\ Punctual'
  BY <1>2, <1>7 DEF TimerInv, NoDangling, TypeOK, SleepsEnough, Punctual
<1> QED
  BY <1>11, <1>12, <1>13 DEF TimerInv

\* Loop goes to sleep: Check with all timers, Finish with none.
LEMMA TimerSleep ==
  ASSUME TimerInv, Check \/ Finish
  PROVE  TimerInv'
<1>1. PICK wait \in 0 .. WaitMs : Sleep(wait)
  BY TimersAssumption DEF TimersAssumption, Check, Finish
<1>2. /\ \/ m_timers' = m_timers /\ m_timerReps' = m_timerReps
         \/ m_timers' = {} /\ m_timerReps' = {}
      /\ last' \in BOOLEAN /\ (last' => m_exit')
      /\ UNCHANGED <<clock, m_exit, m_timerSeq, m_nextTimeout, now, running, refreshed, overdue, issued,
                     fires>>
  <2>1. last \in BOOLEAN /\ (last => m_exit)
    BY DEF TimerInv, NoDangling, TypeOK
  <2>2. CASE Check
    BY <2>1, <2>2 DEF Check, timers
  <2>3. CASE Finish
    BY <2>1, <2>3 DEF Finish
  <2> QED
    BY <2>2, <2>3
<1>3. /\ slept' = clock /\ pc' = "waiting" /\ deadline' \in Nat
      /\ deadline' - slept' <= m_nextTimeout /\ deadline' - slept' <= wait
  BY <1>1, TimersAssumption
     DEF TimersAssumption, Sleep, TimerInv, NoDangling, TypeOK
<1>4. Handles' = Handles
  BY <1>2 DEF Handles
<1>5. NoDangling'
  BY <1>2, <1>3, <1>4 DEF TimerInv, NoDangling, TypeOK
<1>6. HandlesSigned' /\ SleepsEnough'
  BY <1>2, <1>3, <1>4 DEF TimerInv, HandlesSigned, SleepsEnough, NoDangling, TypeOK
<1>7. (IF now' = 0 THEN refreshed' ELSE slept') = refreshed
  BY <1>2, <1>3 DEF Check, Finish, TimerInv, SleepsEnough
<1>8. Punctual'
  <2>1. deadline' - slept' <= WaitMs
    BY <1>1, <1>3, ClockNat
  <2>2. ASSUME overdue = {}, NEW t \in m_timers
        PROVE  deadline' - slept' <= Larger(0, t.at - refreshed)
    <3>1. t.at \in Nat /\ refreshed \in Nat /\ m_nextTimeout \in Nat
          /\ m_nextTimeout <= Larger(0, t.at - refreshed)
      BY <2>2 DEF TimerInv, NoDangling, TypeOK, SleepsEnough
    <3>2. deadline' - slept' \in Int /\ Larger(0, t.at - refreshed) \in Int
      BY <1>3, <3>1, ClockNat DEF Larger
    <3> QED
      BY <1>3, <3>1, <3>2
  <2> QED
    BY <1>2, <1>7, <2>1, <2>2 DEF Punctual
<1> QED
  BY <1>5, <1>6, <1>8 DEF TimerInv

\* Nothing is due any more.
LEMMA TimerTimeoutsEnd ==
  ASSUME TimerInv, TimeoutsEnd
  PROVE  TimerInv'
<1>1. /\ RefreshNearest(m_timers) /\ pc' \in {"check", "ended"}
      /\ UNCHANGED <<clock, m_exit, m_timers, m_timerReps, m_timerSeq, last, now, deadline,
                     running, slept, issued, fires>>
  BY DEF TimeoutsEnd
<1>2. /\ m_nextTimeout' \in Nat /\ refreshed' = clock
      /\ overdue' = {} => \A t \in m_timers : m_nextTimeout' <= Larger(0, t.at - clock)
  <2>1. \A t \in m_timers : t.at \in Nat /\ t.seq \in Nat
    BY DEF TimerInv, NoDangling, TypeOK
  <2> QED
    BY <1>1, <2>1, RefreshBound, ClockNat
<1>3. Handles' = Handles
  BY <1>1 DEF Handles
<1>4. NoDangling' /\ HandlesSigned'
  BY <1>1, <1>2, <1>3 DEF TimerInv, NoDangling, TypeOK, HandlesSigned
<1>5. SleepsEnough' /\ Punctual'
  BY <1>1, <1>2 DEF TimerInv, NoDangling, TypeOK, SleepsEnough, Punctual
<1> QED
  BY <1>4, <1>5 DEF TimerInv

\* The steps that leave the timers alone.
LEMMA TimerOther ==
  ASSUME TimerInv,
         Exit \/ TimedOut \/ Ready \/ HandleTimeouts \/ CallbackEnds \/ Tick \/ UNCHANGED vars
  PROVE  TimerInv'
<1>1. clock \in StartTime .. MaxTime /\ StartTime \in Nat /\ MaxTime \in Nat /\ now \in 0 .. clock
  BY ClockNat
<1>2. /\ clock' \in clock .. MaxTime /\ now' \in 0 .. clock'
      /\ m_exit' \in {m_exit, TRUE} /\ running' \in {running, NoTimer}
      /\ \/ pc' \in {"dispatch", "timeouts"}
         \/ pc' = pc /\ now' = now /\ (pc = "check" => clock' = clock)
      /\ UNCHANGED <<m_timers, m_timerReps, m_timerSeq, m_nextTimeout, last, deadline, slept,
                     refreshed, overdue, issued, fires>>
  <2>1. CASE Exit
    BY <1>1, <2>1 DEF Exit, timers, history
  <2>2. CASE TimedOut \/ Ready
    <3>1. pc' = "dispatch" /\ UNCHANGED <<clock, m_exit, timers, last, now, deadline, running, history>>
      BY <2>2 DEF TimedOut, Ready
    <3> QED
      BY <1>1, <3>1 DEF timers, history
  <2>3. CASE HandleTimeouts
    BY <1>1, <2>3 DEF HandleTimeouts, timers, history
  <2>4. CASE CallbackEnds
    BY <1>1, <2>4 DEF CallbackEnds, timers, history
  <2>5. CASE Tick
    BY <1>1, <2>5 DEF Tick, UserCode, timers, history
  <2>6. CASE UNCHANGED vars
    <3>1. UNCHANGED <<clock, m_exit, pc, last, now, deadline, running>>
      BY <2>6 DEF vars
    <3>2. UNCHANGED <<m_timers, m_timerReps, m_timerSeq, m_nextTimeout>>
      BY <2>6 DEF vars, timers
    <3>3. UNCHANGED <<slept, refreshed, overdue, issued, fires>>
      BY <2>6 DEF vars, history
    <3> QED
      BY <1>1, <3>1, <3>2, <3>3
  <2> QED
    BY <2>1, <2>2, <2>3, <2>4, <2>5, <2>6
<1>3. Handles' = Handles /\ m_exit' \in BOOLEAN /\ (last' => m_exit')
  <2>1. m_exit \in BOOLEAN /\ (last => m_exit)
    BY DEF TimerInv, NoDangling, TypeOK
  <2>2. m_exit' \in BOOLEAN /\ (last' => m_exit')
    BY <1>2, <2>1
  <2>3. Handles' = Handles
    BY <1>2 DEF Handles
  <2> QED
    BY <2>2, <2>3
<1>4. TypeOK'
  BY <1>1, <1>2, <1>3 DEF TimerInv, NoDangling, TypeOK
<1>5. NoDangling' /\ HandlesSigned'
  BY <1>2, <1>3, <1>4 DEF TimerInv, NoDangling, HandlesSigned
<1>6. SleepsEnough' /\ Punctual'
  BY <1>1, <1>2 DEF TimerInv, SleepsEnough, Punctual
<1> QED
  BY <1>5, <1>6 DEF TimerInv

\* Every action keeps the invariant.
LEMMA TimerStep == TimerInv /\ [Next]_vars => TimerInv'
<1> SUFFICES ASSUME TimerInv, [Next]_vars PROVE TimerInv'
  OBVIOUS
<1>1. ASSUME NEW at \in Times, RunOnce(at) \/ \E interval \in Intervals : RunEvery(at, interval)
      PROVE  TimerInv'
  BY <1>1, TimerRunOnce, TimerRunEvery
<1>2. ASSUME NEW r \in m_timerReps, CancelRepeating(r) PROVE TimerInv'
  BY <1>2, TimerCancelRepeating
<1>3. ASSUME NEW t \in m_timers, CancelOnce(t) \/ FireOnce(t) \/ RepeatableTimeout(t)
      PROVE  TimerInv'
  BY <1>3, TimerErased, TimerRepeated
<1>4. CASE Check \/ Finish \/ TimeoutsEnd
  BY <1>4, TimerSleep, TimerTimeoutsEnd
<1>5. CASE Exit \/ TimedOut \/ Ready \/ HandleTimeouts \/ CallbackEnds \/ Tick \/ UNCHANGED vars
  BY <1>5, TimerOther
<1> QED
  BY <1>1, <1>2, <1>3, <1>4, <1>5 DEF Next, LoopStep, Fire

----------------------------------------------------------------------------
\* The inductive invariant holds.
THEOREM TimerInvariant == Spec => []TimerInv
BY TimerInit, TimerStep, PTL DEF Spec

\* The entries of repeating timers and m_timerReps match one to one, whatever is
\* set, cancelled and repeated from callbacks: no entry dangles, and Cancel
\* finds the entry of the timer it is asked for.
THEOREM NothingDangles == Spec => []NoDangling
<1>1. TimerInv => NoDangling
  BY DEF TimerInv
<1> QED
  BY <1>1, TimerInvariant, PTL

\* Unless a timer was overdue by more than the int holds when m_nextTimeout was
\* computed, select ends by the nearest timer's time, counted for the first select
\* from the last RunAt; it never sleeps longer than WaitMs.  Nothing is assumed of
\* the time of day, of the times the timers are set for or of the width of the int.
THEOREM SleepIsPunctual == Spec => []Punctual
<1>1. TimerInv => Punctual
  BY DEF TimerInv
<1> QED
  BY <1>1, TimerInvariant, PTL
----------------------------------------------------------------------------
(* The account of every timer.                                             *)

\* A handle is issued once, and its sign tells a repeating timer from another.
IssuedOnce ==
  /\ \A i, j \in issued : i.tid = j.tid => i = j
  /\ \A i \in issued : /\ i.at \in Nat \ {0} /\ i.interval \in Nat
                       /\ i.tid[1] = IF i.interval = 0 THEN i.at ELSE -i.at
  /\ \A r \in m_timerReps : \E i \in issued : i.tid = r.tid /\ i.interval = r.interval
  /\ cancelled \cup dropped \subseteq Handles

\* Timers are dropped once, between callbacks.
DroppedLate == (~last => dropped = {}) /\ (pc # "run" => running = NoTimer)

OneEntry == \A s, t \in m_timers : s.owner = t.owner => s = t

HasEntry(h) == \E t \in m_timers : t.owner = h
Gone(h) == h \in cancelled \cup dropped

\* A one-shot timer waits, has run or is gone; a repeating one waits for its next
\* turn or is gone.
Kept(i) ==
  /\ i.interval = 0 =>
       \/ HasEntry(i.tid) /\ fires[i.tid] = 0 /\ ~Gone(i.tid)
       \/ ~HasEntry(i.tid) /\ fires[i.tid] = 1 /\ ~Gone(i.tid)
       \/ ~HasEntry(i.tid) /\ fires[i.tid] = 0 /\ Gone(i.tid)
  /\ i.interval # 0 =>
       /\ fires[i.tid] \in Nat
       /\ Gone(i.tid) => ~HasEntry(i.tid) /\ running # i.tid
       /\ ~Gone(i.tid) => \E t \in m_timers : /\ t.owner = i.tid
                                              /\ t.at = i.at + fires[i.tid] * i.interval

Account == IssuedOnce /\ DroppedLate /\ OneEntry /\ \A i \in issued : Kept(i)

\* No timer is set.
LEMMA AccountInit == Init => Account
BY DEF Init, Account, IssuedOnce, DroppedLate, OneEntry

\* A step that does not concern a timer leaves its account as it was.
LEMMA KeptSame ==
  ASSUME NEW i, Kept(i), fires'[i.tid] = fires[i.tid], Gone(i.tid)' <=> Gone(i.tid),
         running' = running \/ running' # i.tid,
         \A t : t.owner = i.tid => (t \in m_timers' <=> t \in m_timers)
  PROVE  Kept(i)'
<1>1. HasEntry(i.tid)' <=> HasEntry(i.tid)
  BY DEF HasEntry
<1>2. CASE i.interval = 0
  BY <1>1, <1>2 DEF Kept
<1>3. CASE i.interval # 0
  <2>1. ASSUME ~Gone(i.tid)
        PROVE  \E t \in m_timers' : t.owner = i.tid /\ t.at = i.at + fires'[i.tid] * i.interval
    <3>1. PICK t \in m_timers : t.owner = i.tid /\ t.at = i.at + fires[i.tid] * i.interval
      BY <1>3, <2>1 DEF Kept
    <3> QED
      BY <3>1
  <2>2. Gone(i.tid) => ~HasEntry(i.tid) /\ running' # i.tid
    BY <1>3 DEF Kept
  <2>3. fires'[i.tid] \in Nat
    BY <1>3 DEF Kept
  <2> QED
    BY <1>1, <1>3, <2>1, <2>2, <2>3 DEF Kept
<1> QED
  BY <1>2, <1>3

\* RunAt: both kinds give an account of the new handle and of no other.
LEMMA KeptIssued ==
  ASSUME TimerInv, Account, NEW h, NEW new, NEW i, h \notin Handles,
         i = [tid |-> h, at |-> i.at, interval |-> i.interval],
         i.at \in Nat \ {0}, i.interval \in Nat, h[1] = IF i.interval = 0 THEN i.at ELSE -i.at,
         issued' = issued \cup {i},
         fires' = [j \in DOMAIN fires \cup {h} |-> IF j = h THEN 0 ELSE fires[j]],
         m_timers' = m_timers \cup {new}, new.owner = h, new.at = i.at,
         UNCHANGED <<last, pc, running, cancelled, dropped>>,
         \A r \in m_timerReps' : r \in m_timerReps \/ (r.tid = h /\ r.interval = i.interval)
  PROVE  Account'
<1>0. i.tid = h /\ i \in issued'
  OBVIOUS
<1>1. /\ \A j \in issued : j.tid \in Handles /\ j.tid # h
      /\ Handles' = Handles \cup {h}
      /\ \A t \in m_timers : t.owner \in Handles /\ t.owner # h
      /\ DOMAIN fires = Handles
  <2>1. \A j \in issued : j.tid \in Handles
    BY DEF Handles
  <2>2. Handles' = {j.tid : j \in issued \cup {i}}
    BY DEF Handles
  <2>3. Handles' = Handles \cup {h}
    BY <1>0, <2>2 DEF Handles
  <2> QED
    BY <2>1, <2>3 DEF TimerInv, NoDangling, TypeOK
<1>2. IssuedOnce'
  <2>1. \A j, k \in issued' : j.tid = k.tid => j = k
    BY <1>0, <1>1 DEF Account, IssuedOnce
  <2>2. \A j \in issued' : /\ j.at \in Nat \ {0} /\ j.interval \in Nat
                           /\ j.tid[1] = IF j.interval = 0 THEN j.at ELSE -j.at
    BY <1>0 DEF Account, IssuedOnce
  <2>3. \A r \in m_timerReps' : \E j \in issued' : j.tid = r.tid /\ j.interval = r.interval
    BY <1>0 DEF Account, IssuedOnce
  <2>4. cancelled' \cup dropped' \subseteq Handles'
    BY <1>1 DEF Account, IssuedOnce
  <2> QED
    BY <2>1, <2>2, <2>3, <2>4 DEF IssuedOnce
<1>3. DroppedLate' /\ OneEntry'
  BY <1>1 DEF Account, DroppedLate, OneEntry
<1>4. ASSUME NEW j \in issued PROVE Kept(j)'
  <2>1. j.tid # h /\ j.tid \in DOMAIN fires /\ Kept(j)
    BY <1>1 DEF Account
  <2>2. fires'[j.tid] = fires[j.tid]
    BY <2>1
  <2>3. Gone(j.tid)' <=> Gone(j.tid)
    BY DEF Gone
  <2>4. \A t : t.owner = j.tid => (t \in m_timers' <=> t \in m_timers)
    BY <2>1
  <2> QED
    BY <2>1, <2>2, <2>3, <2>4, KeptSame
<1>5. Kept(i)'
  <2>1. fires'[i.tid] = 0 /\ new \in m_timers'
    BY <1>0
  <2>2. HasEntry(i.tid)'
    BY <1>0, <2>1 DEF HasEntry
  <2>3. ~Gone(i.tid)'
    BY <1>0 DEF Gone, Account, IssuedOnce
  <2>4. new.at = i.at + 0 * i.interval
    OBVIOUS
  <2> QED
    BY <1>0, <2>1, <2>2, <2>3, <2>4 DEF Kept
<1> QED
  BY <1>2, <1>3, <1>4, <1>5 DEF Account

\* RunAt without interval.
LEMMA AccountRunOnce ==
  ASSUME TimerInv, Account, NEW at \in Times, RunOnce(at)
  PROVE  Account'
<1>1. PICK h : h = <<at, m_timerSeq + 1>>
  OBVIOUS
<1>2. PICK i : i = [tid |-> h, at |-> at, interval |-> 0]
  OBVIOUS
<1>3. PICK new : new = [at |-> at, seq |-> m_timerSeq + 1, owner |-> h]
  OBVIOUS
<1>4. /\ issued' = issued \cup {i} /\ m_timers' = m_timers \cup {new}
      /\ fires' = [j \in DOMAIN fires \cup {h} |-> IF j = h THEN 0 ELSE fires[j]]
      /\ UNCHANGED <<last, pc, running, cancelled, dropped, m_timerReps>>
  BY <1>1, <1>2, <1>3 DEF RunOnce, Issue, Entry
<1>5. at \in Nat \ {0} /\ m_timerSeq \in Nat
  BY TimersAssumption DEF TimersAssumption, TimerInv, NoDangling, TypeOK
<1>6. h \notin Handles /\ h[1] = at
  BY <1>1, <1>5 DEF TimerInv, HandlesSigned
<1>7. i.at = at /\ i.interval = 0 /\ i = [tid |-> h, at |-> i.at, interval |-> i.interval]
      /\ new.owner = h /\ new.at = i.at
  BY <1>2, <1>3
<1> QED
  BY <1>4, <1>5, <1>6, <1>7, KeptIssued

\* RunAt with one.
LEMMA AccountRunEvery ==
  ASSUME TimerInv, Account, NEW at \in Times, NEW interval \in Intervals, RunEvery(at, interval)
  PROVE  Account'
<1>1. PICK h : h = <<-at, m_timerSeq + 1>>
  OBVIOUS
<1>2. PICK i : i = [tid |-> h, at |-> at, interval |-> interval]
  OBVIOUS
<1>3. PICK new : new = [at |-> at, seq |-> m_timerSeq + 2, owner |-> h]
  OBVIOUS
<1>4. /\ issued' = issued \cup {i} /\ m_timers' = m_timers \cup {new}
      /\ fires' = [j \in DOMAIN fires \cup {h} |-> IF j = h THEN 0 ELSE fires[j]]
      /\ m_timerReps' = m_timerReps \cup
           {[tid |-> h, at |-> at, interval |-> interval, seq |-> m_timerSeq + 2]}
      /\ UNCHANGED <<last, pc, running, cancelled, dropped>>
  BY <1>1, <1>2, <1>3 DEF RunEvery, Issue, Entry, Rep
<1>5. at \in Nat \ {0} /\ interval \in Nat \ {0} /\ m_timerSeq \in Nat
  BY TimersAssumption DEF TimersAssumption, TimerInv, NoDangling, TypeOK
<1>6. h \notin Handles /\ h[1] = -at
  BY <1>1, <1>5 DEF TimerInv, HandlesSigned
<1>7. i.at = at /\ i.interval = interval /\ i = [tid |-> h, at |-> i.at, interval |-> i.interval]
      /\ new.owner = h /\ new.at = i.at
  BY <1>2, <1>3
<1>8. \A r \in m_timerReps' : r \in m_timerReps \/ (r.tid = h /\ r.interval = i.interval)
  BY <1>4, <1>7
<1> QED
  BY <1>4, <1>5, <1>6, <1>7, <1>8, KeptIssued

\* The entry that Cancel finds is the one of the timer it is asked for.
LEMMA EntryOfRep ==
  ASSUME TimerInv, NEW r \in m_timerReps
  PROVE  \E u \in m_timers :
           /\ u.owner = r.tid /\ u.at = r.at
           /\ {t \in m_timers : <<t.at, t.seq>> # <<r.at, r.seq>>} = m_timers \ {u}
<1>1. PICK u \in m_timers : u.owner = r.tid
  BY DEF TimerInv, NoDangling
<1>2. u.at = r.at /\ u.seq = r.seq
  BY <1>1 DEF TimerInv, NoDangling, HandlesSigned
<1>3. \A t \in m_timers : t # u => t.seq # r.seq
  BY <1>2 DEF TimerInv, HandlesSigned
<1> QED
  BY <1>1, <1>2, <1>3

\* A timer goes from m_timers: what remains to say is what became of it.
LEMMA AccountErased ==
  ASSUME TimerInv, Account, NEW u \in m_timers, NEW i \in issued, i.tid = u.owner,
         m_timers' = m_timers \ {u}, m_timerReps' \subseteq m_timerReps,
         UNCHANGED <<issued, last, dropped>>,
         cancelled' \in {cancelled, cancelled \cup {u.owner}},
         fires' \in {fires, [fires EXCEPT ![u.owner] = @ + 1]},
         \/ running' = running /\ pc' = pc
         \/ running' = u.owner /\ pc' = "run",
         Kept(i)'
  PROVE  Account'
<1>1. Handles' = Handles /\ u.owner \in Handles /\ DOMAIN fires = Handles
      /\ \A j \in issued : j.tid \in Handles
  BY DEF Handles, TimerInv, NoDangling, TypeOK
<1>2. IssuedOnce'
  BY <1>1 DEF Account, IssuedOnce
<1>3. DroppedLate' /\ OneEntry'
  BY DEF Account, DroppedLate, OneEntry
<1>4. ASSUME NEW j \in issued, j # i PROVE Kept(j)'
  <2>1. j.tid # u.owner /\ j.tid \in DOMAIN fires /\ Kept(j)
    BY <1>1, <1>4 DEF Account, IssuedOnce
  <2>2. fires'[j.tid] = fires[j.tid]
    BY <2>1
  <2>3. Gone(j.tid)' <=> Gone(j.tid)
    BY <2>1 DEF Gone
  <2>4. \A t : t.owner = j.tid => (t \in m_timers' <=> t \in m_timers)
    BY <2>1
  <2>5. running' = running \/ running' # j.tid
    BY <2>1
  <2> QED
    BY <2>1, <2>2, <2>3, <2>4, <2>5, KeptSame
<1> QED
  BY <1>2, <1>3, <1>4 DEF Account

\* Cancel of a repeating timer, which is not the one that runs.
LEMMA AccountCancelRepeating ==
  ASSUME TimerInv, Account, NEW r \in m_timerReps, CancelRepeating(r)
  PROVE  Account'
<1>1. PICK u \in m_timers :
        /\ u.owner = r.tid
        /\ {t \in m_timers : <<t.at, t.seq>> # <<r.at, r.seq>>} = m_timers \ {u}
  BY EntryOfRep
<1>2. /\ m_timers' = m_timers \ {u} /\ m_timerReps' = m_timerReps \ {r}
      /\ cancelled' = cancelled \cup {u.owner} /\ u.owner # running
      /\ UNCHANGED <<issued, last, dropped, fires, running, pc>>
  BY <1>1 DEF CancelRepeating, KeyOf
<1>3. PICK i \in issued : i.tid = u.owner
  BY DEF TimerInv, NoDangling, TypeOK, Handles
<1>4. i.interval # 0
  <2>1. i.tid[1] < 0
    BY <1>1, <1>3 DEF TimerInv, HandlesSigned
  <2> QED
    BY <2>1 DEF Account, IssuedOnce
<1>5. Gone(i.tid)' /\ ~HasEntry(i.tid)'
  BY <1>2, <1>3 DEF Gone, HasEntry, Account, OneEntry
<1>6. Kept(i)'
  BY <1>2, <1>3, <1>4, <1>5 DEF Kept, Account
<1> QED
  BY <1>2, <1>3, <1>6, AccountErased

\* A one-shot timer is cancelled, or run.
LEMMA AccountOnce ==
  ASSUME TimerInv, Account, NEW t \in m_timers, CancelOnce(t) \/ FireOnce(t)
  PROVE  Account'
<1>1. /\ m_timers' = m_timers \ {t} /\ t.owner[1] >= 0
      /\ UNCHANGED <<issued, last, dropped, m_timerReps>>
      /\ \/ /\ cancelled' = cancelled \cup {t.owner}
            /\ UNCHANGED <<fires, running, pc>>
         \/ /\ fires' = [fires EXCEPT ![t.owner] = @ + 1]
            /\ running' = t.owner /\ pc' = "run" /\ cancelled' = cancelled
  BY DEF CancelOnce, FireOnce, Without
<1>2. PICK i \in issued : i.tid = t.owner
  BY DEF TimerInv, NoDangling, TypeOK, Handles
<1>3. i.interval = 0
  BY <1>1, <1>2 DEF Account, IssuedOnce
<1>4. fires[i.tid] = 0 /\ ~Gone(i.tid)
  BY <1>2, <1>3 DEF Account, Kept, HasEntry
<1>5. ~HasEntry(i.tid)'
  BY <1>1, <1>2 DEF HasEntry, Account, OneEntry
<1>6. i.tid \in DOMAIN fires
  BY DEF TimerInv, NoDangling, TypeOK, Handles
<1>7. \/ fires'[i.tid] = 0 /\ Gone(i.tid)'
      \/ fires'[i.tid] = 1 /\ ~Gone(i.tid)'
  BY <1>1, <1>2, <1>4, <1>6 DEF Gone
<1>8. Kept(i)'
  BY <1>3, <1>5, <1>7 DEF Kept
<1> QED
  BY <1>1, <1>2, <1>8, AccountErased

\* A repeating timer comes again one interval after the time it was due.
LEMMA AccountRepeated ==
  ASSUME TimerInv, Account, NEW t \in m_timers, RepeatableTimeout(t)
  PROVE  Account'
<1>1. PICK r \in m_timerReps :
        LET next == NextAt(r)
        IN /\ r.tid = t.owner
           /\ m_timerReps' = (m_timerReps \ {r}) \cup {Rep(r.tid, next, r.interval, m_timerSeq + 1)}
           /\ m_timers' = (m_timers \ {t}) \cup {Entry(next, m_timerSeq + 1, r.tid)}
  BY DEF RepeatableTimeout
<1>2. PICK new : new = [at |-> r.at + r.interval, seq |-> m_timerSeq + 1, owner |-> r.tid]
  OBVIOUS
<1>3. PICK rep : rep = [tid |-> r.tid, at |-> r.at + r.interval, interval |-> r.interval,
                        seq |-> m_timerSeq + 1]
  OBVIOUS
<1>4. /\ m_timers' = (m_timers \ {t}) \cup {new} /\ m_timerReps' = (m_timerReps \ {r}) \cup {rep}
      /\ r.tid = t.owner
      /\ new.owner = t.owner /\ new.at = r.at + r.interval
      /\ rep.tid = t.owner /\ rep.interval = r.interval
  BY <1>1, <1>2, <1>3 DEF NextAt, Entry, Rep
<1>5. /\ fires' = [fires EXCEPT ![t.owner] = @ + 1] /\ running' = t.owner /\ pc' = "run"
      /\ UNCHANGED <<last, issued, cancelled, dropped>>
  BY DEF RepeatableTimeout
<1>6. PICK i \in issued : i.tid = t.owner /\ i.interval = r.interval
  BY <1>1 DEF Account, IssuedOnce
<1>7. i.interval # 0 /\ i.interval \in Nat /\ i.at \in Nat
  <2>1. i.tid[1] < 0
    BY <1>4, <1>6 DEF TimerInv, HandlesSigned
  <2> QED
    BY <2>1 DEF Account, IssuedOnce
<1>8. ~Gone(i.tid) /\ t.at = i.at + fires[i.tid] * i.interval /\ fires[i.tid] \in Nat
  <2>1. HasEntry(i.tid) /\ Kept(i)
    BY <1>6 DEF HasEntry, Account
  <2>2. ~Gone(i.tid) /\ fires[i.tid] \in Nat
    BY <1>7, <2>1 DEF Kept
  <2>3. PICK u \in m_timers : u.owner = i.tid /\ u.at = i.at + fires[i.tid] * i.interval
    BY <1>7, <2>1, <2>2 DEF Kept
  <2>4. u = t
    BY <1>6, <2>3 DEF Account, OneEntry
  <2> QED
    BY <2>2, <2>3, <2>4
<1>9. t.at = r.at
  BY <1>4, EntryOfRep DEF Account, OneEntry
<1>10. i.tid \in DOMAIN fires /\ Handles' = Handles
       /\ \A j \in issued : j.tid \in DOMAIN fires
  BY <1>5 DEF TimerInv, NoDangling, TypeOK, Handles
<1>11. Kept(i)'
  <2>1. fires'[i.tid] = fires[i.tid] + 1
    BY <1>5, <1>6, <1>10
  <2>2. new.at = i.at + (fires[i.tid] + 1) * i.interval
    <3>1. \A f, v \in Nat : (f + 1) * v = f * v + v
      OBVIOUS
    <3>2. \A a, f, v \in Nat : (a + f * v) + v = a + (f * v + v)
      OBVIOUS
    <3> QED
      BY <1>4, <1>6, <1>7, <1>8, <1>9, <3>1, <3>2
  <2>3. ~Gone(i.tid)' /\ new \in m_timers' /\ new.owner = i.tid
    BY <1>4, <1>5, <1>6, <1>8 DEF Gone
  <2>4. \E u \in m_timers' : u.owner = i.tid /\ u.at = i.at + fires'[i.tid] * i.interval
    BY <2>1, <2>2, <2>3
  <2>5. fires'[i.tid] \in Nat
    BY <1>8, <2>1
  <2> QED
    BY <1>7, <2>3, <2>4, <2>5 DEF Kept
<1>12. ASSUME NEW j \in issued, j # i PROVE Kept(j)'
  <2>1. j.tid # t.owner /\ j.tid \in DOMAIN fires /\ Kept(j)
    BY <1>6, <1>10, <1>12 DEF Account, IssuedOnce
  <2>2. fires'[j.tid] = fires[j.tid]
    BY <1>5, <2>1
  <2>3. Gone(j.tid)' <=> Gone(j.tid)
    BY <1>5 DEF Gone
  <2>4. \A u : u.owner = j.tid => (u \in m_timers' <=> u \in m_timers)
    BY <1>4, <2>1
  <2> QED
    BY <1>5, <2>1, <2>2, <2>3, <2>4, KeptSame
<1>13. IssuedOnce'
  <2>1. \A s \in m_timerReps' : \E j \in issued' : j.tid = s.tid /\ j.interval = s.interval
    BY <1>4, <1>5, <1>6 DEF Account, IssuedOnce
  <2> QED
    BY <1>5, <1>10, <2>1 DEF Account, IssuedOnce
<1>14. DroppedLate' /\ OneEntry'
  BY <1>4, <1>5 DEF Account, DroppedLate, OneEntry
<1> QED
  BY <1>5, <1>11, <1>12, <1>13, <1>14 DEF Account

\* Loop ends: every timer that waits is dropped, and no other.
LEMMA AccountFinish ==
  ASSUME TimerInv, Account, Finish
  PROVE  Account'
<1>1. /\ m_timers' = {} /\ m_timerReps' = {}
      /\ dropped' = {t.owner : t \in m_timers} \cup {r.tid : r \in m_timerReps}
      /\ last' = TRUE /\ pc' = "waiting" /\ pc # "run" /\ ~last
      /\ UNCHANGED <<running, issued, fires, cancelled>>
  BY DEF Finish, Sleep
<1>2. dropped = {} /\ running = NoTimer
  BY <1>1 DEF Account, DroppedLate
<1>3. Handles' = Handles
  BY <1>1 DEF Handles
<1>4. IssuedOnce'
  <2>1. dropped' \subseteq Handles
    BY <1>1 DEF TimerInv, NoDangling, TypeOK
  <2> QED
    BY <1>1, <1>3, <2>1 DEF Account, IssuedOnce
<1>5. DroppedLate' /\ OneEntry'
  BY <1>1, <1>2 DEF DroppedLate, OneEntry
<1>6. ASSUME NEW i \in issued PROVE Kept(i)'
  <2>1. Kept(i) /\ ~HasEntry(i.tid)'
    BY <1>1 DEF Account, HasEntry
  <2>2. HasEntry(i.tid) => Gone(i.tid)'
    BY <1>1 DEF HasEntry, Gone
  <2>3. Gone(i.tid) => Gone(i.tid)'
    BY <1>1, <1>2 DEF Gone
  <2>4. CASE i.interval = 0
    <3>1. ~HasEntry(i.tid) /\ ~Gone(i.tid) => ~Gone(i.tid)'
      <4>1. \A r \in m_timerReps : r.tid # i.tid
        BY <2>4 DEF TimerInv, HandlesSigned, Account, IssuedOnce
      <4> QED
        BY <1>1, <4>1 DEF HasEntry, Gone
    <3> QED
      BY <1>1, <2>1, <2>2, <2>3, <2>4, <3>1 DEF Kept
  <2>5. CASE i.interval # 0
    <3>1. i.tid # NoTimer
      BY <2>5 DEF NoTimer, Account, IssuedOnce
    <3>2. Gone(i.tid)'
      BY <2>1, <2>2, <2>3, <2>5 DEF Kept, HasEntry
    <3> QED
      BY <1>1, <1>2, <2>1, <2>5, <3>1, <3>2 DEF Kept
  <2> QED
    BY <2>4, <2>5
<1> QED
  BY <1>1, <1>4, <1>5, <1>6 DEF Account

\* The steps that leave the timers alone.
LEMMA AccountOther ==
  ASSUME TimerInv, Account,
         \/ Check \/ TimeoutsEnd
         \/ Exit \/ TimedOut \/ Ready \/ HandleTimeouts \/ CallbackEnds \/ Tick \/ UNCHANGED vars
  PROVE  Account'
<1>1. /\ UNCHANGED <<m_timers, m_timerReps, last, issued, fires, cancelled, dropped>>
      /\ \/ running' = running /\ (pc' = pc \/ pc # "run")
         \/ running' = NoTimer
  <2>1. CASE Check \/ TimeoutsEnd
    BY <2>1 DEF Check, TimeoutsEnd, timers
  <2>2. CASE Exit \/ TimedOut \/ Ready \/ HandleTimeouts \/ CallbackEnds \/ Tick
    BY <2>2 DEF Exit, TimedOut, Ready, HandleTimeouts, CallbackEnds, Tick, timers, history
  <2>3. CASE UNCHANGED vars
    BY <2>3 DEF vars, timers, history
  <2> QED
    BY <2>1, <2>2, <2>3
<1>2. Handles' = Handles
  BY <1>1 DEF Handles
<1>3. IssuedOnce' /\ OneEntry'
  BY <1>1, <1>2 DEF Account, IssuedOnce, OneEntry
<1>4. DroppedLate'
  BY <1>1 DEF Account, DroppedLate
<1>5. ASSUME NEW i \in issued PROVE Kept(i)'
  <2>1. Kept(i) /\ fires'[i.tid] = fires[i.tid] /\ (Gone(i.tid)' <=> Gone(i.tid))
    BY <1>1 DEF Account, Gone
  <2>2. i.tid # NoTimer
    BY DEF NoTimer, Account, IssuedOnce
  <2>3. running' = running \/ running' # i.tid
    BY <1>1, <2>2
  <2> QED
    BY <1>1, <2>1, <2>3, KeptSame
<1> QED
  BY <1>1, <1>3, <1>4, <1>5 DEF Account

\* Every action keeps the account.
LEMMA AccountStep == TimerInv /\ Account /\ [Next]_vars => Account'
<1> SUFFICES ASSUME TimerInv, Account, [Next]_vars PROVE Account'
  OBVIOUS
<1>1. ASSUME NEW at \in Times, RunOnce(at) \/ \E interval \in Intervals : RunEvery(at, interval)
      PROVE  Account'
  BY <1>1, AccountRunOnce, AccountRunEvery
<1>2. ASSUME NEW r \in m_timerReps, CancelRepeating(r) PROVE Account'
  BY <1>2, AccountCancelRepeating
<1>3. ASSUME NEW t \in m_timers, CancelOnce(t) \/ FireOnce(t) \/ RepeatableTimeout(t)
      PROVE  Account'
  BY <1>3, AccountOnce, AccountRepeated
<1>4. CASE Finish
  BY <1>4, AccountFinish
<1>5. CASE \/ Check \/ TimeoutsEnd
           \/ Exit \/ TimedOut \/ Ready \/ HandleTimeouts \/ CallbackEnds \/ Tick \/ UNCHANGED vars
  BY <1>5, AccountOther
<1> QED
  BY <1>1, <1>2, <1>3, <1>4, <1>5 DEF Next, LoopStep, Fire

\* Every timer set is waiting, run, cancelled or dropped, and not two of these,
\* and a repeating one keeps to its first time and its interval, whatever is set
\* and cancelled from whichever callback.
THEOREM AlwaysAccounted == Spec => []Accounted
<1>1. TimerInv /\ Account => Accounted
  <2> SUFFICES ASSUME TimerInv, Account, NEW i \in issued
               PROVE  LET waiting == {t \in m_timers : t.owner = i.tid}
                          gone == i.tid \in cancelled \cup dropped
                      IN IF i.interval = 0
                         THEN Cardinality(waiting) + fires[i.tid] + (IF gone THEN 1 ELSE 0) = 1
                         ELSE IF gone THEN waiting = {} /\ running # i.tid
                         ELSE /\ Cardinality(waiting) = 1
                              /\ \A t \in waiting : t.at = i.at + fires[i.tid] * i.interval
    BY DEF Accounted
  <2> DEFINE waiting == {t \in m_timers : t.owner = i.tid}
  <2>1. Kept(i) /\ OneEntry
    BY DEF Account
  <2>2. HasEntry(i.tid) => \E t \in m_timers : t.owner = i.tid /\ waiting = {t}
    BY <2>1 DEF HasEntry, OneEntry
  <2>3. ~HasEntry(i.tid) => waiting = {}
    BY DEF HasEntry
  <2>4. /\ HasEntry(i.tid) => Cardinality(waiting) = 1
        /\ ~HasEntry(i.tid) => Cardinality(waiting) = 0
    BY <2>2, <2>3, FS_Singleton, FS_EmptySet
  <2> DEFINE n == Cardinality(waiting)
  <2>5. CASE i.interval = 0
    <3>1. \/ n = 1 /\ fires[i.tid] = 0 /\ ~Gone(i.tid)
          \/ n = 0 /\ fires[i.tid] = 1 /\ ~Gone(i.tid)
          \/ n = 0 /\ fires[i.tid] = 0 /\ Gone(i.tid)
      BY <2>1, <2>4, <2>5 DEF Kept
    <3> HIDE DEF n
    <3>2. n + fires[i.tid] + (IF Gone(i.tid) THEN 1 ELSE 0) = 1
      BY <3>1
    <3> QED
      BY <2>5, <3>2 DEF Gone, n
  <2>6. CASE i.interval # 0
    <3>1. CASE Gone(i.tid)
      BY <2>1, <2>3, <2>6, <3>1 DEF Kept, Gone
    <3>2. CASE ~Gone(i.tid)
      <4>1. PICK t \in m_timers : t.owner = i.tid /\ t.at = i.at + fires[i.tid] * i.interval
        BY <2>1, <2>6, <3>2 DEF Kept
      <4>2. \A u \in waiting : u = t
        BY <2>1, <4>1 DEF OneEntry
      <4>3. n = 1
        BY <2>4, <4>1 DEF HasEntry
      <4>4. \A u \in waiting : u.at = i.at + fires[i.tid] * i.interval
        BY <4>1, <4>2
      <4> HIDE DEF waiting
      <4> QED
        BY <2>6, <3>2, <4>3, <4>4 DEF Gone, waiting
    <3> QED
      BY <3>1, <3>2
  <2> QED
    BY <2>5, <2>6
<1>2. Spec => []Account
  BY AccountInit, AccountStep, TimerInvariant, PTL DEF Spec
<1> QED
  BY <1>1, <1>2, TimerInvariant, PTL
=============================================================================
