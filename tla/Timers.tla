------------------------------- MODULE Timers -------------------------------
(***************************************************************************)
(* EventBase's timers: RunAt, Cancel, HandleTimeouts, RepeatableTimeout    *)
(* and RefreshNearest, with the part of Loop and LoopOnce that sleeps, that*)
(* runs what is due and that clears what is left.  All of it runs on the   *)
(* loop thread; user code, the callbacks included, may call RunAt, Cancel  *)
(* and Exit any number of times, and time passes while it does.            *)
(*                                                                         *)
(* A TimerId is <<first, second>>.  m_timers is the set of its entries, of *)
(* key (at, seq) and of the handle that RunAt returned for them, owner.    *)
(***************************************************************************)
EXTENDS Integers, FiniteSets

CONSTANTS
  Times,       \* times, in milliseconds, a timer may be set for
  Intervals,   \* intervals of repeating timers
  StartTime,   \* the time of day when the program starts
  MaxTime,     \* bound of the clock
  MaxCalls,    \* bound of the calls of RunAt that set a timer
  WaitMs,      \* Loop's LoopOnce(3000)
  IntLimit     \* the int m_nextTimeout ranges from -IntLimit to IntLimit - 1

\* A TimerId's sign tells the two kinds apart, so a timer is set for a positive
\* time (EventBase.cpp:279), before the program starts or after it.
ASSUME TimersAssumption ==
  /\ Times \subseteq Nat \ {0} /\ Intervals \subseteq Nat \ {0}
  /\ StartTime \in Nat \ {0} /\ MaxTime \in Nat /\ StartTime <= MaxTime
  /\ MaxCalls \in Nat /\ WaitMs \in Nat /\ IntLimit \in Nat \ {0}

VARIABLES
  clock,          \* util::timeMilli()
  m_exit,
  m_timers,
  m_timerReps,    \* repeating timers: handle, m_at, m_interval, seq of m_timerid
  m_timerSeq,
  m_nextTimeout,
  pc,             \* where the loop thread is
  last,           \* it is in the LoopOnce(0) after the while loop
  now,            \* HandleTimeouts' now; 0 before its first call
  deadline,       \* when its select times out
  running,        \* handle of the timer whose callback runs
  slept,          \* history: when select was called
  refreshed,      \* history: when m_nextTimeout was computed
  overdue,        \* history: the timers that were overdue then by more than an int holds
  issued,         \* history: what RunAt was asked, for each handle
  fires,          \* history: how often each handle's callback has run
  cancelled,      \* history: handles for which Cancel returned true
  dropped         \* history: handles cleared at the end of Loop

history == <<slept, refreshed, overdue, issued, fires, cancelled, dropped>>
timers == <<m_timers, m_timerReps, m_timerSeq, m_nextTimeout>>
vars == <<clock, m_exit, timers, pc, last, now, deadline, running, history>>

NoTimer == <<0, 0>>    \* TimerId()
Never == IntLimit \div 2    \* 1 << 30

Init ==
  /\ clock = StartTime /\ m_exit = FALSE
  /\ m_timers = {} /\ m_timerReps = {} /\ m_timerSeq = 0
  /\ m_nextTimeout = Never
  /\ pc = "setup" /\ last = FALSE
  /\ now = 0 /\ deadline = 0 /\ running = NoTimer
  /\ slept = StartTime /\ refreshed = StartTime /\ overdue = {}
  /\ issued = {} /\ fires = [h \in {} |-> 0]
  /\ cancelled = {} /\ dropped = {}

\* User code: before Loop, in a channel's handler, in a timer's callback.
UserCode == pc \in {"setup", "dispatch", "run"}

Entry(at, seq, owner) == [at |-> at, seq |-> seq, owner |-> owner]
Rep(tid, at, interval, seq) == [tid |-> tid, at |-> at, interval |-> interval, seq |-> seq]

\* m_timers.begin()
Before(s, t) == s.at < t.at \/ (s.at = t.at /\ s.seq <= t.seq)
IsNearest(t, ts) == t \in ts /\ \A s \in ts : Before(t, s)

\* An int64_t stored in an int.
ToInt(x) == ((x + IntLimit) % (2 * IntLimit)) - IntLimit

Larger(x, y) == IF x < y THEN y ELSE x

Remaining(t) == Larger(0, ToInt(t.at - clock))

\* Mutant: a time left that was computed before is kept.
RefreshOnce(ts) ==
  /\ m_nextTimeout' = IF ts = {} THEN Never
                      ELSE IF m_nextTimeout # Never THEN m_nextTimeout
                      ELSE Remaining(CHOOSE t \in ts : IsNearest(t, ts))
  /\ refreshed' = clock
  /\ overdue' = {t \in ts : t.at - clock < -IntLimit}

\* RefreshNearest, when m_timers is ts.
RefreshNearest(ts) ==
  /\ m_nextTimeout' = IF ts = {} THEN Never
                      ELSE Remaining(CHOOSE t \in ts : IsNearest(t, ts))
  /\ refreshed' = clock
  /\ overdue' = {t \in ts : t.at - clock < -IntLimit}

----------------------------------------------------------------------------
(* Calls of user code.                                                     *)

\* What both kinds of RunAt record.
Issue(h, at, interval) ==
  /\ Cardinality(issued) < MaxCalls
  /\ issued' = issued \cup {[tid |-> h, at |-> at, interval |-> interval]}
  /\ fires' = [i \in DOMAIN fires \cup {h} |-> IF i = h THEN 0 ELSE fires[i]]

\* RunAt without interval; after Exit it does nothing.
RunOnce(at) ==
  /\ UserCode /\ ~m_exit
  /\ LET h == <<at, m_timerSeq + 1>>
     IN /\ Issue(h, at, 0)
        /\ m_timers' = m_timers \cup {Entry(at, m_timerSeq + 1, h)}
  /\ m_timerSeq' = m_timerSeq + 1
  /\ RefreshNearest(m_timers')
  /\ UNCHANGED <<clock, m_exit, m_timerReps, pc, last, now, deadline, running, slept, cancelled, dropped>>

\* RunAt with one: the handle's time is negative, the entry has a number of its own.
RunEvery(at, interval) ==
  /\ UserCode /\ ~m_exit
  /\ LET h == <<-at, m_timerSeq + 1>>
     IN /\ Issue(h, at, interval)
        /\ m_timerReps' = m_timerReps \cup {Rep(h, at, interval, m_timerSeq + 2)}
        /\ m_timers' = m_timers \cup {Entry(at, m_timerSeq + 2, h)}
  /\ m_timerSeq' = m_timerSeq + 2
  /\ RefreshNearest(m_timers')
  /\ UNCHANGED <<clock, m_exit, pc, last, now, deadline, running, slept, cancelled, dropped>>

\* Mutant: the entry is looked for under the handle that RunAt returned.
KeyOfHandle(r) == <<-r.tid[1], r.tid[2]>>

\* TimerRepeatable::m_timerid, the key of the entry.
KeyOf(r) == <<r.at, r.seq>>

\* Cancel of a handle whose time is negative.  A repeating timer's callback that
\* cancels its own timer destroys the function that runs, which is undefined.
CancelRepeating(r) ==
  /\ UserCode /\ r \in m_timerReps /\ r.tid # running
  /\ m_timers' = {t \in m_timers : <<t.at, t.seq>> # KeyOf(r)}
  /\ m_timerReps' = m_timerReps \ {r}
  /\ cancelled' = cancelled \cup {r.tid}
  /\ UNCHANGED <<clock, m_exit, m_timerSeq, m_nextTimeout, pc, last, now, deadline, running,
                 slept, refreshed, overdue, issued, fires, dropped>>

\* Mutant: every timer set for the same time is erased.
WithoutTime(t) == {s \in m_timers : s.at # t.at}

Without(t) == m_timers \ {t}

\* Cancel of any other handle; false, and without effect, once the timer has expired.
CancelOnce(t) ==
  /\ UserCode /\ t \in m_timers /\ t.owner[1] >= 0
  /\ m_timers' = Without(t)
  /\ cancelled' = cancelled \cup {t.owner}
  /\ UNCHANGED <<clock, m_exit, m_timerReps, m_timerSeq, m_nextTimeout, pc, last, now, deadline,
                 running, slept, refreshed, overdue, issued, fires, dropped>>

\* EventBase::Exit, on any thread.
Exit ==
  /\ ~m_exit
  /\ m_exit' = TRUE
  /\ UNCHANGED <<clock, timers, pc, last, now, deadline, running, history>>

----------------------------------------------------------------------------
(* The loop.                                                               *)

\* The sleep of LoopOnce(wait); the clock's bound stands for any later time.
Sleep(wait) ==
  LET timeout == IF m_nextTimeout < wait THEN m_nextTimeout ELSE wait
  IN /\ deadline' = IF clock + timeout < MaxTime THEN clock + timeout ELSE MaxTime
     /\ slept' = clock
     /\ pc' = "waiting"

\* while (!m_exit) LoopOnce(3000)
Check ==
  /\ pc \in {"setup", "check"} /\ ~last /\ ~m_exit
  /\ Sleep(WaitMs)
  /\ UNCHANGED <<clock, m_exit, timers, last, now, running, refreshed, overdue, issued, fires, cancelled, dropped>>

\* After it the timers are cleared, and LoopOnce(0) runs the channels once more.
Finish ==
  /\ pc \in {"setup", "check"} /\ ~last /\ m_exit
  /\ m_timers' = {} /\ m_timerReps' = {}
  /\ dropped' = {t.owner : t \in m_timers} \cup {r.tid : r \in m_timerReps}
  /\ last' = TRUE
  /\ Sleep(0)
  /\ UNCHANGED <<clock, m_exit, m_timerSeq, m_nextTimeout, now, running, refreshed, overdue, issued, fires, cancelled>>

TimedOut ==
  /\ pc = "waiting" /\ clock >= deadline
  /\ pc' = "dispatch"
  /\ UNCHANGED <<clock, m_exit, timers, last, now, deadline, running, history>>

\* A channel is ready before the time is over.
Ready ==
  /\ pc = "waiting"
  /\ pc' = "dispatch"
  /\ UNCHANGED <<clock, m_exit, timers, last, now, deadline, running, history>>

\* The channels' handlers are done: HandleTimeouts reads the time, once.
HandleTimeouts ==
  /\ pc = "dispatch"
  /\ now' = clock
  /\ pc' = "timeouts"
  /\ UNCHANGED <<clock, m_exit, timers, last, deadline, running, history>>

Due(t) == t.at <= now

\* One turn of its loop, for a one-shot timer ...
FireOnce(t) ==
  /\ pc = "timeouts" /\ IsNearest(t, m_timers) /\ Due(t) /\ t.owner[1] >= 0
  /\ m_timers' = m_timers \ {t}
  /\ fires' = [fires EXCEPT ![t.owner] = @ + 1]
  /\ running' = t.owner
  /\ pc' = "run"
  /\ UNCHANGED <<clock, m_exit, m_timerReps, m_timerSeq, m_nextTimeout, last, now, deadline,
                 slept, refreshed, overdue, issued, cancelled, dropped>>

\* Mutant: the next time counts from now.
NextFromNow(r) == clock + r.interval

NextAt(r) == r.at + r.interval

\* ... and for a repeating one, RepeatableTimeout: set again, then called.
RepeatableTimeout(t) ==
  /\ pc = "timeouts" /\ IsNearest(t, m_timers) /\ Due(t) /\ t.owner[1] < 0
  /\ \E r \in m_timerReps :
       LET next == NextAt(r)
       IN /\ r.tid = t.owner
          /\ m_timerReps' = (m_timerReps \ {r}) \cup {Rep(r.tid, next, r.interval, m_timerSeq + 1)}
          /\ m_timers' = (m_timers \ {t}) \cup {Entry(next, m_timerSeq + 1, r.tid)}
  /\ m_timerSeq' = m_timerSeq + 1
  /\ RefreshNearest(m_timers')
  /\ fires' = [fires EXCEPT ![t.owner] = @ + 1]
  /\ running' = t.owner
  /\ pc' = "run"
  /\ UNCHANGED <<clock, m_exit, last, now, deadline, slept, issued, cancelled, dropped>>

CallbackEnds ==
  /\ pc = "run"
  /\ running' = NoTimer
  /\ pc' = "timeouts"
  /\ UNCHANGED <<clock, m_exit, timers, last, now, deadline, history>>

\* Nothing is due any more: RefreshNearest, and back to Loop.
TimeoutsEnd ==
  /\ pc = "timeouts" /\ \A t \in m_timers : ~Due(t)
  /\ RefreshNearest(m_timers)
  /\ pc' = IF last THEN "ended" ELSE "check"
  /\ UNCHANGED <<clock, m_exit, m_timers, m_timerReps, m_timerSeq, last, now, deadline, running,
                 slept, issued, fires, cancelled, dropped>>

\* Time passes in user code and in select; the rest takes none to speak of.
Tick ==
  /\ UserCode \/ pc = "waiting"
  /\ clock < MaxTime
  /\ clock' = clock + 1
  /\ UNCHANGED <<m_exit, timers, pc, last, now, deadline, running, history>>

----------------------------------------------------------------------------
Fire == \E t \in m_timers : FireOnce(t) \/ RepeatableTimeout(t)

LoopStep == Check \/ Finish \/ TimedOut \/ HandleTimeouts \/ Fire \/ CallbackEnds \/ TimeoutsEnd

Next ==
  \/ \E at \in Times : RunOnce(at) \/ \E interval \in Intervals : RunEvery(at, interval)
  \/ \E r \in m_timerReps : CancelRepeating(r)
  \/ \E t \in m_timers : CancelOnce(t)
  \/ Exit
  \/ LoopStep \/ Ready
  \/ Tick

Spec == Init /\ [][Next]_vars

\* The loop thread runs, user code returns, and time passes, however often select wakes.
FairSpec == Spec /\ WF_vars(LoopStep) /\ SF_vars(Tick)

----------------------------------------------------------------------------
(* Properties.                                                             *)

Handles == {i.tid : i \in issued}

TypeOK ==
  /\ clock \in StartTime .. MaxTime /\ now \in 0 .. clock
  /\ m_exit \in BOOLEAN /\ last \in BOOLEAN /\ (last => m_exit)
  /\ m_timers \subseteq [at : Nat \ {0}, seq : 1 .. m_timerSeq, owner : Handles]
  /\ m_timerReps \subseteq [tid : Handles, at : Nat, interval : Intervals, seq : 1 .. m_timerSeq]
  /\ m_timerSeq \in Nat /\ m_nextTimeout \in Nat
  /\ pc \in {"setup", "check", "waiting", "dispatch", "timeouts", "run", "ended"}
  /\ DOMAIN fires = Handles
  /\ running \in Handles \cup {NoTimer}

\* Types.  The entries of repeating timers, which hold a pointer into m_timerReps, and
\* m_timerReps, whose m_timerid says which entry Cancel must erase, match one to
\* one: no entry outlives what it points to (EventBase.cpp:262, 282).
NoDangling ==
  /\ TypeOK
  /\ \A t \in m_timers : t.owner[1] < 0 =>
       \E r \in m_timerReps : r.tid = t.owner /\ r.at = t.at /\ r.seq = t.seq
  /\ \A r \in m_timerReps : \E t \in m_timers : t.owner = r.tid
  /\ \A r, s \in m_timerReps : r.tid = s.tid => r = s

\* Every timer set is waiting, run, cancelled or dropped, and not two of these: a
\* one-shot timer runs once, a repeating one at its first time and at each
\* interval after it, however late HandleTimeouts comes, and a cancelled one
\* never again, even from the pass in which it was due.
Accounted ==
  \A i \in issued :
    LET waiting == {t \in m_timers : t.owner = i.tid}
        gone == i.tid \in cancelled \cup dropped
    IN IF i.interval = 0
       THEN Cardinality(waiting) + fires[i.tid] + (IF gone THEN 1 ELSE 0) = 1
       ELSE IF gone THEN waiting = {} /\ running # i.tid
       ELSE /\ Cardinality(waiting) = 1
            /\ \A t \in waiting : t.at = i.at + fires[i.tid] * i.interval

\* select ends no later than the nearest timer's time, whichever calls changed
\* m_timers since RefreshNearest computed m_nextTimeout and however the int cut a
\* time far ahead.  The first select, which no HandleTimeouts precedes, counts from
\* the last RunAt (EventBase.cpp:265).  A time more than an int of milliseconds past
\* may be cut to a positive one (EventBase.cpp:257): then only WaitMs bounds select.
Punctual ==
  pc = "waiting" =>
    LET since == IF now = 0 THEN refreshed ELSE slept
    IN /\ deadline - slept <= WaitMs
       /\ overdue = {} => \A t \in m_timers : deadline - slept <= Larger(0, t.at - since)

\* How often a timer is due up to the time T.
DueBy(i, T) ==
  IF i.at > T THEN 0
  ELSE IF i.interval = 0 THEN 1
  ELSE 1 + (T - i.at) \div i.interval

\* Once a time has come every timer, one-shot or repeating, has run as often as it
\* was due by then, unless it is cancelled or the loop ends: none stops being called,
\* and a repeating one catches up on the turns it is late for.
Comes ==
  \A T \in StartTime .. MaxTime :
    clock >= T ~> \/ m_exit
                  \/ \A i \in issued : \/ i.tid \in cancelled \cup dropped
                                       \/ fires[i.tid] >= DueBy(i, T)
=============================================================================
