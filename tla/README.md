# Verification of libet

libet is a network library for Windows, in C++, derived from handy: an event
loop on `select`, TCP connections with callbacks, timers, idle limits, and thread
pools. This directory holds TLA+ models of its core logic (`src/libet`), the
configurations with which TLC checks them, and theorems with proofs that TLAPS
checks.

Contents: 1 inventory, 2 modules, 3 runs, 4 fairness, 5 proofs, 6 where code and
documents disagree, 7 what is left out, 8 plan.

## 1. Inventory

### Components, their state and how they interact

| Component | State | Operations | Talks to |
|---|---|---|---|
| `PollerSelect` | `m_liveChannels` and the dispatch iterator `curIt`; the `fd_set`s; per pass the copies `rs`, `ws` and the countdown `m_lastActive` | `AddChannel`, `RemoveChannel`, `UpdateChannel`, `LoopOnce` | calls `Channel::HandleRead/HandleWrite`, which call back into it |
| `Channel` | `m_fd`, `m_writable`, two callbacks | constructor, destructor, `Close`, `EnableWrite` | the poller; its owner's callbacks |
| `TcpConn` | `m_state`, `m_channel`, `m_input`, `m_output`, callbacks, idle ids | `Attach`, `HandleHandshake`, `HandleRead`, `HandleWrite`, `OnMsg`, `Send`, `SendMsg`, `Close`, `Cleanup` | channel, base, codec, user callbacks |
| `TcpServer` | listening channel, callbacks to hand on | `Bind`, `HandleAccept` | `EventBases::AllocBase`, `TcpConn::Attach`, `SafeCall` to other bases |
| `EventBase` | `m_tasks` and the loopback pair `m_wakeupFds`; `m_exit`; `m_timers`, `m_timerReps`, `m_nextTimeout`; `m_idleConns`; `m_conns`; a `ConnThreadPool` | `Loop`, `LoopOnce`, `Exit`, `SafeCall`, `Wakeup`, `RunAt`, `Cancel`, `HandleTimeouts`, `CallIdles`, `PostData...` | everything above |
| `MultiBase` | several `EventBase`s, a round-robin counter | `AllocBase`, `Loop`, `Exit` | one thread per base |
| `SafeQueue`, `ThreadPool`, `ConnThreadPool` | list, mutex, condition variable, exit flag; worker threads | `push`, `pop_wait`, `exit`; `addTask`, `AddTask`, `join` | any thread |
| `SafeList` | list and mutex | `EmplaceBack`, `Remove`, `ForEach`, `Clear` | loop thread and broadcasters |
| `Buffer`, `LengthCodec` | byte array with two offsets; none | `append`, `makeRoom`, `consume`, `absorb`; `Encode`, `TryDecode` | `TcpConn` |

The loop of an `EventBase` is one thread. What other threads do to it goes through
`SafeCall` (a push and a byte in the loopback connection), `Exit` (a flag) and,
without any lock, `SendMsg` from a `ConnThreadPool` worker.

### What is hard

* **Reentrancy.** Handlers call each other down to the destructor of the object
  whose method runs: `HandleRead -> Cleanup -> ~Channel -> Channel::Close ->
  HandleRead -> ~TcpConn`. They add to and remove from the list being iterated.
* **Stale snapshots.** A pass of `select` is dispatched from copies of the sets,
  while sockets are closed and their numbers reused.
* **Threads.** Push and wakeup, flag and notification, append and send are pairs of
  steps others can come between.
* **Ends.** A connection ends by the peer's close, a read error, a rejected message, a
  posted `Close` or an idle limit, and by two of them at once; the loop by `Exit`, with
  tasks still queued.
* **Time.** Timers are changed from within the loop that runs them, and the sleep is
  computed before it begins.

`PROJECT.json` lists each hazard at its line, with the properties that cover it.

### What makes each component correct

* Poller: the iterator and sets always match the open channels; no reported event
  is skipped.
* Connection: callbacks come in order and only while the socket is open; each
  message once, in order, and none lost when a peer closes properly; every close
  sequence ends with nothing left behind; a close is carried out.
* Output: what is sent arrives whole, once, in order and in the end.
* Tasks: an accepted task is run, once, in order; none is forgotten with the loop asleep.
* Timers: each is run as often as it should be, not after it was cancelled, and
  `select` does not sleep past it.
* Idle limits: every stored iterator is valid, only silent connections are called, and none
  past its limit is missed.
* Several bases: a list holds the connections of its base; a broadcast reaches each of them
  once, in one order, and reads no channel that is gone; `MultiBase::Loop` returns.
* Pools: no lost notification, per-connection order, and shutdown that returns.
* Buffer and codec: they behave like a sequence, and like a cut into messages.

## 2. Modules

| Module | Models | How state and actions correspond |
|---|---|---|
| `Reactor` | `PollerSelect`, `Channel`, `TcpConn`'s life, `TcpServer::HandleAccept`, tasks `Close` and attach | The call stack is explicit: a frame is a method to run or resume on an object, and an action runs the top frame to its next call. `liveChannels`, `curIt`, `allReadSet`, `rs`, `ws`, `lastActive` are the poller's variables; `chan[c]` and `con[c]` the objects' fields, with `mem` telling alive from freed. Kernel and peers move between any two steps. |
| `EventLoop` | `SafeCall`, `Wakeup`, wakeup callback, `Loop`, `Exit` | `Push` and `Wakeup` are separate steps of any thread, `Recv`, `Pop`, `Run` of the loop. |
| `Mailbox` | what `SafeCall` promises | abstract; `EventLoop` implements it (`queue <- m_tasks`, `closed <- m_exit`). |
| `WorkerPool` | `SafeQueue`, `ThreadPool` (`shared = TRUE`), `ConnThreadPool` (`FALSE`) | `shared` is chosen in `Init`, so one run checks both. A critical section is a step, but a worker about to sleep holds the mutex over one (`pc = "wait"`); `notify_one` and the exit flag are steps of their own, as in the code. |
| `SendPath` | `Send` in its two forms, `SendMsg`, `SendBase`, `HandleWrite`, `m_writeCb` | Every `::send` (of any part that fits), `consume` and `EnableWrite` is a step of a thread. |
| `ByteStream` | what a connection promises its senders | abstract; `SendPath` implements it on the loop thread (`ended <- ~channel`). |
| `Timers` | `RunAt`, `Cancel`, `HandleTimeouts`, `RepeatableTimeout`, `RefreshNearest`, `Loop`'s sleep and clean-up | `m_timers` is a set of entries with the handle they belong to; user code runs in handlers (`pc = "dispatch"`), callbacks (`"run"`) and before `Loop` (`"setup"`). `ToInt` cuts to an int of `-IntLimit .. IntLimit - 1`. |
| `IdleLists` | `RegisterIdle`, `UpdateIdle`, `UnregisterIdle`, `CallIdles` and its timer | `m_idleConns` is a list for each limit, `m_idleIds` the limits a connection is in. `CallIdles` is a walk over the copy `lst`, one step for each callback, which may change the lists. The clock counts fractions of the whole seconds that nodes hold. |
| `Bases` | `MultiBase`, `HandleAccept`'s choice of a base, `AddConn`/`RemoveConn`, `SafeList`, `PostDataToOneConn`, `PostDataToAllConns` | Several loops, posters and workers. `ForEach` holds the list's mutex over many steps (`call[p].op = "ForEach"`), everything else is atomic; the use of `m_channel` on another thread is a step apart from its test. |
| `ByteBuffer` | `Buffer` | Operators on a record of the array `mem` and the offsets `b`, `e`, `cap`, one for each method, with the methods' names. |
| `Framing` | `SendMsg` and `Send(Buffer&)` on one connection, `HandleRead`'s `recv` and `OnMsg`'s loop with `LengthCodec` on another | `m_output` and `m_input` are `ByteBuffer` records, `wire` is what TCP holds. A byte knows its message and position, so that a misread header, a lost byte and one twice would show. |

Proof modules, see 5: `Reactor_proof`, `EventLoop_proof`, `WorkerPool_proof`, `SendPath_proof`,
`Timers_proof`, `IdleLists_proof`, `Bases_proof`, and `Framing_proof` (with `ByteBuffer`'s lemmas).

`MCReactor`, `MCEventLoop`, `MCWorkerPool`, `MCSendPath` and `MCFraming` instantiate the
modules for TLC, with the symmetry sets and values it needs. Definitions marked *Mutant* are never used by a
specification: each is a plausible error, and `PROJECT.json` says which property
breaks when it takes the place of the right one.

`Reactor` abstracts from time and from output; `EventLoop` from what tasks do;
`SendPath` from how the connection ends. Where they meet: a task that `Reactor`
posts is a task of `EventLoop`, whose order and delivery are those of `Mailbox`;
the timer of `IdleLists` is one of `Timers`; the pool of `Bases` is a queue for each connection,
which is what `WorkerPool` shows (`SerialPerConn`);
`SendPath`'s `Cleanup` is `Reactor`'s; the sequences that stand for `m_input` and
`m_output` elsewhere, and the messages in halves of `Reactor`, are justified by
`Framing`, whose `InTransit` says that two `Buffer`s and the wire between them are
one sequence of bytes.

## 3. Runs

| Run | Question | Bounds, and why they are enough |
|---|---|---|
| `reactor_poller` | Do iterator, sets and countdown survive handlers that add and remove channels? | Two connections, two sockets, wakeup channel; a base that gets its connections as tasks, in the middle of a dispatch; any peer, also one that sends a bad header and hangs up. The next, the current and the last element get removed. |
| `reactor_messages` | Does every close sequence end, and no message get lost or doubled? Are a posted `Close` and a hang-up acted on (`EndIsReached`), and does nothing else end a connection (`EndedForReason`)? | Two connections share one socket number, so that reuse happens; two messages in halves for one of them, none or a bad header for the other, which may come before or after it; one `Close` each. No symmetry, as there is a liveness property. |
| `reactor_bad_header` | *violation*, see 6 | |
| `eventloop` | Is a wakeup ever lost, or a promised task left at the end; is the mailbox implemented, with its liveness; does `Exit` end the loop? | Two threads and the loop, three tasks, a queue of two (so that push refuses), `recv` of two bytes for 1024 (so that bytes are left over). The invariant `Inv` of the proof is checked here too. |
| `pools` | Per-connection order; does `notify_one` outside the mutex lose a task; does exit reach every worker; do `Exit` and `Join` return? | Both pools: two workers (on one queue, or each its own), two posters, three tasks of two connections, queues of two (so that push refuses), one spurious wakeup. |
| `sendpath` | Do the ways to send keep bytes, order and the write channel right; is everything sent in the end, and the stream implemented? | Three messages of two bytes, send buffer of three, so that each send may be cut or blocked, at each place. |
| `sendpath_threads` | *violation*, see 6 | One worker, loop thread sends only with `SendMsg`. |
| `timers` | Is each timer run as often as it should, and slept for no longer than it should; does it come? | Two calls of `RunAt` for time 1, 7 or 11, interval 2, clock from 6 to 9, `IntLimit` 4, for 2^31: 11 - 6 is cut to -3, as a timer more than 2^31 ms away is, and 1 - 6 to 3, as one more than 2^31 ms past may be. A repeating timer set for 1 is late for several turns. `Comes` is for times within the clock's bound. |
| `framing` | Is each message delivered whole and at once, however TCP cuts it and the buffers move? | Three messages of one, two and three bytes, the last too long (`MaxLen` 4, `Header` 2). `Exp` is 3 for 512: the smallest with which `makeRoom` takes each of its three ways. |
| `framing_empty` | *violation*, see 6 | Messages of no and of one byte. |
| `idle` | Is every stored iterator valid, is a silent connection ever missed or a busy one called, is each called in the end? | Two connections, limits of one and two seconds, half seconds, clock to 5 halves: both limits pass, a callback adds or closes in the middle of a walk, and whole seconds cut fractions. |
| `bases` | Do lists, broadcasts and the end of several loops stay right whatever thread comes between? | Two bases, two connections on the same or on different ones, two posters with one message each or two of one poster, a counter of two values (so that it wraps). |

Bounds by name: `MaxMsgs`, `MaxCloses` (`Reactor`, `Framing`), `MaxSpurious`
(`WorkerPool`), `StartTime` (`Timers`), `MaxTime` (`Timers`, `IdleLists`), `MaxCalls` (`Timers`); elsewhere the sets of tasks and
messages, each of which is used once.
`FdSetSize` is 4, the wakeup and listening sockets included: the sockets of the runs just fit.
`SelectSetsMatch` is stated for sockets that fit (`~Crowded`, a condition on constants). It is not
enough that the open ones fit now: a socket that `FD_SET` ignored while a set was full stays out of
it when others have gone.

`CHECK_DEADLOCK FALSE` is set where the model stops on purpose: all messages sent,
the clock at its bound, the loop ended, the connection closed or its peers done.

Preconditions of runs. `HangUpAfterBad = FALSE` in `reactor_messages` keeps away the behaviour of `reactor_bad_header`, after which
memory is freed twice and nothing more can be said. `PipeCap` is at least the
number of tasks: with less the loop can block in its own `Wakeup`, which the
model shows as a deadlock. `CancelRepeating` excludes a repeating timer's callback
that cancels itself, which is undefined behaviour. In `IdleLists` a connection uses each limit
once, callbacks act on their own connection, and the clock does not go back.

`Bases` records three uses of what another thread may have freed, and stops there
(`corrupt`): `m_channel` used on a worker after its test (TcpConn.cpp:283), `GetChannel()->id()`
in `PostDataToOneConn` (EventBase.cpp:55), and a walk of `m_conns` while `Loop` clears it without
the mutex (EventBase.cpp:320). Nothing in the code prevents them and no document promises it, so
they are outcomes, and `LoopReturns` and the first half of `OneOrder` say what holds short of them.

What `idle` shows of the code: the new `m_updated` and the splice of `CallIdles` go to the
copy, so an idle connection is called again every second; and whole seconds are compared, so the
first call may come up to a second early (`CalledWhenIdle` allows it).

`Reactor` goes on after undefined behaviour only as far as it can be told what
happens: `HandleWrite` on a channel that `HandleRead` has just freed
(PollerBase.cpp:166) may crash the process (`phase = "crashed"`) or be skipped.

## 4. Fairness

* `Reactor`, `EventLoop`, `SendPath`, `Timers`: weak fairness of the loop thread's
  steps. It is a thread that blocks only in `select`, and never there for more than 3
  seconds (`LoopOnce(3000)`).
* `EventLoop`: a thread inside `SafeCall` finishes (`Wakeup`); nobody has to post.
* `WorkerPool`: threads are scheduled and tasks return; a call of `Exit` goes on. A
  spurious wakeup, a post and a call of `Exit` never have to happen.
* `SendPath`: the peer reads (`Drain`), without which no byte need ever be sent;
  strong fairness of `Cleanup` on a broken connection, because a pass of the
  poller calls `HandleRead` before `HandleWrite`, however often it calls the latter.
* `Timers`: time passes (strong, as `select` may wake often for other reasons).
* `IdleLists`: the loop's own steps and the clock go on; no peer has to do anything.
* `Bases`: loop, pool and posting threads are scheduled; a call of `MultiBase::Exit` goes on.

## 5. Proofs

All theorems are for every value of the constants, under the named assumption of the module
(`ReactorAssumption`, `EventLoopAssumption`, `WorkerPoolAssumption`, `ByteBufferAssumption`,
`FramingAssumption`, `SendPathAssumption`, `IdleListsAssumption`, `BasesAssumption`, and `Timers`'
own), which TLC evaluates in each run.

Each proof module has a section of facts about lists, those it needs: what `emplace_back`, `remove`
and `pop_front` do to a list without repetitions (which elements it has, and where), the same for a list
used as a stack, and the least number principle (`LeastNatural`). Where a list is searched or cut, the
modules use `RemoveFirst`, `RemoveFirstMatch` and `SelectInSeq`, which the prover can reason about, in
place of the recursive `SelectSeq`.

**`Reactor_proof`**, for any connections, finitely many sockets, any messages and number of closes, and
both ways to attach: every safety property of `Reactor` (`TypeOK`, `IteratorValid`, `SelectSetsMatch`,
`NoEventMissed`, `NotifiedInOrder`, `EndedIsGone`, `EndedForReason`, `CallbackOnlyWhileOpen`,
`MessagesOnce`, `DestroyedLast`). None is inductive, since what a handler may do depends on what called it. The
invariant is built in layers, each of which uses those before it:

* `Types`, which says of each frame what it runs on.
* `InTurn`: what was delivered, the input, and the bytes in the kernel are one sequence, the beginning
  of what the peer sent.
* `Places`: a connection is in one of the accept queue, an attach task, or a channel (`Born`, `Waiting`);
  open sockets differ (`Apart`); the frames on the stack have done what comes before them (`Stacked`);
  and `IteratorValid`, whose step rests on `RemoveChannel` moving `curIt` on before it erases.
* `Lives`: the state of a connection determines its flags, the lists that hold it and what its user has
  heard (`Known`), and limits which of its frames may be on the stack (`Pending`, `Shape`); a complete
  message in the input belongs to an open connection and a handler that will deliver it
  (`Decodable`); a connection is cleaned up for a reason (`Why`), which is `EndedForReason`, and what
  `MessagesOnce` needs to tell a proper close from the others.

On these rest three more. `Gentle`: a connection is cleaned up once, and nothing is above a `Cleanup`
that will end it a second time. It is an invariant only if no peer hangs up after a bad header
(`~HangUpAfterBad`); `DestroyedAlwaysLast` has that hypothesis, and run `reactor_bad_header` shows
that it needs it. `Watched`: the sets are those of the open channels, and write readiness is told only of
open sockets, so that `EnableWrite` never puts an invalid handle into the set; it needs `~Crowded`.
`Tallied` is for the countdown of `LoopOnce`: at each moment of the walk there is a set `S` of channels
still ahead that were in the list at `select`, everything else ahead was attached since and comes
behind `S`, and the channels of `S` with a reported socket, with the current one if it will be counted,
are not more than `m_lastActive`. A socket that was closed and reused is why `S` has to be a set of
channels, and why `NoEventMissed` leaves out those in handshake.

**`EventLoop_proof`**: `TypeCorrect`, `Invariant` (`[]Inv`), and from it `WakeupNotLost`
(`NoLostWakeup`), `PromisesAreKept` (`PromisesKept`) and `Refinement` (`MB!Safety`: each step is
one of the mailbox or a stutter). `NoLostWakeup` is inductive with its types: a task enters the
queue when its poster holds it in `posting`; the poster lets go when it adds a byte; a byte is only
taken by `Recv`, after which the loop drains until the queue is empty. `PromisesKept` is not. It
says that what was accepted by a `SafeCall` that returned before `Exit` is taken when `Loop`
returns, and needs to know why the one `LoopOnce(0)` after the while loop finds it:
`ByteForPromise` (a promised task in the queue has a byte in the pipe, not just a poster about to
send one), `LastPass` (the last pass begins with `m_exit` set, so no task becomes promised after
it, and past its drain loop no promised task is queued) and `Accounted` (a promised task is queued
or taken, as `Full` never drops one that was accepted). `Fresh` is for the refinement.

**`WorkerPool_proof`**, for any number of workers, posters, tasks, any capacity and both pools:
`TypeCorrect`, `NotificationNotLost` (`NoLostNotify`), `ExitWakes` (`ExitWakesAll`),
`NeverTogether` (`OneAtATime`) and `AlwaysSerial` (`SerialPerConn`). The invariant adds `SawEmpty`: a worker between wait's predicate
and its sleep still sees the queue empty, because it holds the mutex. That is what rules out the
push, and the exit, that would come too late for it. `RightQueue` and `Bounds` tie each task to the
queue of its connection, so that two tasks that run at once come from different queues. For the order,
`Serial` follows each task: it is accepted once, is then in its connection's queue until it is
started once (`Whereabouts`), each queue is in the order of acceptance (`QueueInOrder`), and of two
tasks of one queue the earlier is started first (`StartedInOrder`).

**`Timers_proof`**, for any time of day, times, intervals and width of the int: `NothingDangles`
(`NoDangling`), `SleepIsPunctual` (`Punctual`) and `AlwaysAccounted` (`Accounted`). `HandlesSigned`
(the sign of a handle tells the kind of its timer, and each number is used once) is why `Cancel` of
one kind never removes an entry of the other. `SleepsEnough` bounds `m_nextTimeout` by every entry's
distance from the moment `RefreshNearest` last looked; its step needs that a conversion to int never
makes a number larger than it was, or than 0, if it is no less than the smallest int (`ToIntBound`).
It also says that no time has passed since that moment when `LoopOnce` comes back from
`HandleTimeouts`, so that `Punctual` can count from the call of `select`: the steps of the loop
thread between the two, which call no user code, are taken to need no time. Before the first
`select` user code may run between them, and there `Punctual` counts from the last `RunAt`.
`Punctual` claims less if a timer was overdue then by more than an int of milliseconds (`overdue`):
`RunAt` accepts such a time, a small number for instance, as the clock is at some 1.7e12, and
EventBase.cpp:257 may cut its distance to a positive one. Only `LoopOnce`'s 3000 ms bound the sleep
then, though the timer is due. `Account` says where each issued timer is: a one-shot timer has its
entry, or has run once, or is gone, and only one of these; a repeating one has, until it is gone,
one entry, at its time plus an interval for each run (`Kept`). It needs that a handle is issued once
(`IssuedOnce`) and owns one entry (`OneEntry`).

**`IdleLists_proof`**, for any connections, limits and clock: `IdsAlwaysValid` (`IdsValid`),
`OnlyIdleAreCalled` (`CalledWhenIdle`) and `NobodyEverMissed` (`NobodyMissed`). `Lists` ties each list to
the open connections that registered with its limit and orders it by `m_updated`, which is no
earlier than the last activity: that is what stopping at the first node within the limit relies on.
`Walk` relates the copy that `CallIdles` walks to the list that its callbacks change: the nodes still to
come are nodes of the list, and a node of the list past the limit is one of them or has been called
(`Walking`). The connection that is called is open and in none of the nodes to come (`Calling`), so
that closing it in the callback takes nothing out from under the walk.

**`Framing_proof`** begins with what each operation of `Buffer` does, as lemmas over `Buffers(S)`, the
records whose offsets lie in their array: `AppendIs`, `ConsumeIs`, `AbsorbIs`, `CopyFromIs`,
`MakeRecvRoomIs` and those they rest on. Each returns such a record, with the contents that the
operation on sequences has. So no write goes past the array, for any `exp_` and lengths.

From these lemmas it proves, for messages of any size and number, any header, limit and
`exp_`: `AlwaysInTransit` (`InTransit`), `DeliveredWhole` (`WholeMessages`) and `DeliveredAll`
(`NothingHeld`, if `0 \notin Sizes`: run `framing_empty` shows that it needs this). `WholeMessages`
alone is not inductive. `FrameInv` says that `Bytes`, the input, the wire and the output together,
is a `Chain` of whole messages (each byte is followed by the next of its message or the first of the
next message, and the last byte ends the last message), that it begins where the next message to be
delivered does, and that it is the end of what was sent. The steps that move bytes leave
`Bytes` as it is; a send puts a whole message behind it (`ChainExtended`), and a delivery takes one
from its front (`ChainFront`, `ChainRest`). `ChainFront` is an induction along the sequence;
it is done with the least number principle, as the prover takes no induction rule.

**`SendPath_proof`**, for any messages, message length and send buffer, if nobody but the loop thread
sends (`Workers = {}`; run `sendpath_threads` shows that it needs this): `TypeCorrect` (`TypeOK`),
`SentInOrder` (`InOrder`) and `ImplementsStreamSafety` (each step is one of `ByteStream` or a
stutter). `OutInv` says where the bytes that are accepted and not sent are at each place of a call
(`Pending`: in `m_output`, behind it, or still only in the call), and that `wire \o Pending` is what was
accepted. Two parts keep a caller's buffer from passing bytes that wait: `PastNothing` (such a
buffer is in `SendBase` only when `m_output` is empty or nothing can be sent any more), which rests
on `Armed` (bytes that wait have the write channel on, so that `Send` absorbs the buffer instead).

**`Bases_proof`**, for any bases, connections, posters and messages, and a counter of any width:
`ListsAlwaysMatch`, `WalksAreSafe` and `BroadcastsInOneOrder`. None is inductive. The invariant `Inv`
says of a step what those about to run rely on:

* `Lists`: a list has attached connections of its own base, once, and has all of them until its loop
  clears it. `Calls`: what the call of a poster holds at each of its places.
* `Walks`: the mutex lets one walk at a time into a list, and while the base loops what the walk has
  before it is in the list. `AddConn` and `RemoveConn` wait for the walk, and `RemoveConn` comes
  before the channel goes: `WalkSafe` is these three together. After the loop, `clear` does not wait, which is why
  the hypothesis `loop[b] = "while"` is there.
* `OneCall` and `Coming`: a message is in one call, and has come to no connection the call has
  before it, and to connections of the call's base only.
* `Ordered`: any two logs (what ran for a connection and what is queued for it) agree on the order, and
  what is in a log behind a broadcast that is not over is in no other log. The second half is what makes the
  first inductive: a later broadcast on the base must wait for the mutex, while `PostDataToOneConn`
  takes no mutex and may come between, but goes to one connection.
* `Reached`: a connection that was told of a message has it, or the walk is still to come to it.

A log changes by an `Append` and by what `DeleteChannel` and the workers leave of it; `Quiet` names the
steps that add to no log, and `Within` what is left of a log, so that the proof of each part meets them
once and not for each action.

Only model-checked: the fairness part of `ImplementsMailbox` and `ImplementsStream`, what several
threads that send do (`sendpath_threads` refutes it), and all liveness (`EndIsReached`, `ExitEndsLoop`,
`AcceptedIsRun`, `JoinReturns`, `Comes`, `IdleIsCalled`, `LoopReturns`, `NoSpin`), which is out of the
proof system's reach: it proves neither fairness nor ENABLED.

## 6. Where code and documents disagree

* **A second `Cleanup` inside `Cleanup`** (`reactor_bad_header`; TcpConn.cpp:213).
  The input holds a header that `TryDecode` rejects, not yet seen, when `recv` reports the
  peer's close. `Cleanup` calls the read callback, which closes the channel, whose
  `HandleRead` runs a whole `Cleanup`, down to `~TcpConn`; the first one goes on with
  the freed object. EventBase.h:107 gives the sequence after a failed decode with one
  `Cleanup` and `~TcpConn` last.
* **`SendMsg` is not thread-safe** (`sendpath_threads`; TcpConn.cpp:58). TcpConn.h:60 says
  it is; its lock is commented out. Two threads send the same bytes of `m_output`.
* **An empty message is held back** (`framing_empty`; Codec.cpp:11). `Encode` writes four
  bytes for it; `TryDecode` answers 0, "part of a message" (Codec.h:6), until more come.

## 7. What is left out

* `Net`, `Ip4Addr`, `Util`, `Slice`, `base64`, `timer.h`: stateless helpers. The test programs are
  for use by hand; how they call the library decides what user code the models allow.
* Logging. The macros that the library calls are defined as nothing (Logger.h:169-174). spdlog, with
  its bundled fmt, is vendored under `include/` and makes up most of the repository's lines of C++ (some
  84 in 100), so that the part of all lines that the models cover stays small whatever is modelled.
* User code in `Reactor` sends only from message callbacks, and calls `Close` from message and
  idle callbacks only. Allocation failure and failure of `Init` are not modelled.
* The end of the objects: the destructor of `TcpServer` while connections live; `~EventBase`'s
  destruction of the poller, whose destructor (PollerBase.cpp:55-66) may close the channels that are
  left, and with it the branches of the wakeup callback for a `recv` that answers 0 or an error
  (EventBase.cpp:159-167): while the base exists both ends of the pipe are open.
* An error of `send` that passes: in `SendPath` it is the end of the socket, and `Cleanup` follows.
* Headers shorter than four bytes or negative (Codec.cpp:24); clocks set back (Util.cpp:76).
* `makeRoom()` doubles the array each time less than `exp_` bytes are free at its end,
  even when most of it has been consumed, so that an input that is never quite
  empty grows with all that was received. In `framing` `MaxMsgs` bounds it.
* The data race on `m_output` is modelled as an interleaving of whole reads and writes.

## 8. Plan

Done: the reactor, tasks and wakeup, pools, output, timers, buffer, codec, idle limits, several
bases with broadcast; proofs of every safety property of the passing runs.

Next, in this order:

1. `Reactor` with sends from the `Closed` callback, and the listener's end with `~TcpServer`.
2. A composition of `Bases` with `SendPath`, in which a worker's `SendMsg` meets `Cleanup`.
