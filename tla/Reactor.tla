------------------------------ MODULE Reactor ------------------------------
(***************************************************************************)
(* One EventBase loop: PollerSelect, the Channels it watches, and the      *)
(* TcpConns behind them, from accept to destruction.                       *)
(*                                                                         *)
(* The loop is one thread, but its handlers call each other: closing a     *)
(* channel calls the channel's read handler, which cleans the connection   *)
(* up, which deletes the channel, which closes it again.  So the loop is   *)
(* modelled with its call stack: a frame is a method still to be run (or   *)
(* to be resumed) on an object, and each action runs the top frame up to   *)
(* its next call.  A call in tail position replaces the frame, because     *)
(* the method touches nothing after it returns.  The kernel and the peers  *)
(* move between any two such steps.                                        *)
(***************************************************************************)
EXTENDS Naturals, Sequences, FiniteSets, SequencesExt

CONSTANTS
  Conns,          \* TcpConn objects, each with its Channel, used once each
  Fds,            \* socket handles the kernel gives to accepted connections
  Wakeup,         \* the wakeup channel, and its socket
  Listener,       \* the listening channel, and its socket
  NoFd,           \* SOCKET_ERROR, stored in Channel::m_fd after Close
  None,           \* no object: list end, no task held
  Bad,            \* a header that LengthCodec::TryDecode rejects (-1)
  FdSetSize,      \* capacity of a Winsock fd_set (FD_SETSIZE)
  MaxMsgs,        \* bound: messages each peer sends, two halves each
  MaxCloses,      \* bound: TcpConn::Close calls per connection
  Accepting,      \* TRUE: the base of the TcpServer; FALSE: another one of a
                  \* MultiBase, which is given connections by tasks
  HangUpAfterBad  \* may a peer that sent a bad header hang up by itself?

Chans == Conns \cup {Wakeup, Listener}
Sockets == Fds \cup {Wakeup, Listener}
Messages == UNION {1 .. MaxMsgs[c] : c \in Conns}
Units == UNION {{2 * k - 1, 2 * k} : k \in Messages}   \* the halves of message k

ASSUME ReactorAssumption ==
  /\ FdSetSize \in Nat \ {0}
  /\ MaxMsgs \in [Conns -> Nat]
  /\ MaxCloses \in Nat
  /\ {Accepting, HangUpAfterBad} \subseteq BOOLEAN
  /\ Wakeup # Listener
  /\ {Wakeup, Listener} \cap (Conns \cup Fds) = {}
  /\ NoFd \notin Sockets
  /\ None \notin Chans
  /\ Bad \notin Nat
  /\ IsFiniteSet(Fds)

VARIABLES
  phase,          \* program point of EventBase::LoopOnce
  stack,          \* handlers in progress, innermost first
  liveChannels, curIt,        \* PollerSelect::m_liveChannels, curIt
  allReadSet, allWriteSet,    \* PollerSelect::m_allReadSet, m_allWriteSet
  rs, ws, lastActive, visit,  \* locals of PollerSelect::LoopOnce
  chan,           \* Channel: fd, memory, m_writable
  con,            \* TcpConn: state, m_channel # nullptr, callbacks, m_input, m_idleIds
  conns, idleConns, tasks, wakeBytes,  \* EventBase: lists, m_tasks, wakeup pipe
  peer, backlog, leaked,  \* kernel: receive buffer and peer of each connection, accept
                  \* queue, accepted sockets that no object owns
  notified, delivered, closeCalls      \* history: state callbacks, messages, Close calls

loopVars == <<phase, stack>>
pollVars == <<liveChannels, curIt, allReadSet, allWriteSet>>
scanVars == <<rs, ws, lastActive, visit>>
baseVars == <<conns, idleConns, tasks, wakeBytes>>
envVars  == <<peer, backlog, leaked>>
histVars == <<notified, delivered, closeCalls>>
vars == <<loopVars, pollVars, scanVars, chan, con, baseVars, envVars, histVars>>

Frame(op, c) == [op |-> op, c |-> c]
Running(op, c) == stack # <<>> /\ Head(stack) = Frame(op, c)
Resume == Tail(stack)       \* the frames below the running one

\* The element after x in a list, None at the end: a list iterator's ++.
After(s, x) ==
  LET i == SelectInSeq(s, LAMBDA y : y = x)
  IN  IF i \in 1 .. Len(s) - 1 THEN s[i + 1] ELSE None

FirstOf(s) == IF s = <<>> THEN None ELSE s[1]

\* FD_SET of Winsock: a full set ignores the request.
FdSet(S, fd) == IF Cardinality(S \cup {fd}) <= FdSetSize THEN S \cup {fd} ELSE S

\* The TcpConn object still exists: its channel's callbacks hold a reference
\* (Attach), and so do m_conns, the idle list and every posted or held task.
Holders(c) ==
  \/ chan[c].mem = "alive"
  \/ c \in conns \cup idleConns \cup {t.c : t \in {x \in ToSet(tasks) : x.op = "Close"}}
  \/ \E i \in DOMAIN stack : stack[i] = Frame("Drain", c)

----------------------------------------------------------------------------
(* The system starts after EventBase::Init and TcpServer::Bind: the wakeup *)
(* channel is registered and then, on the accepting base, the listening    *)
(* one.                                                                    *)

Service == IF Accepting THEN {Wakeup, Listener} ELSE {Wakeup}

Init ==
  /\ phase = "select" /\ stack = <<>>
  /\ liveChannels = (IF Accepting THEN <<Wakeup, Listener>> ELSE <<Wakeup>>) /\ curIt = None
  /\ allReadSet = Service /\ allWriteSet = {}
  /\ rs = {} /\ ws = {} /\ lastActive = 0
  /\ visit = [ch |-> None, dec |-> FALSE]
  /\ chan = [ch \in Chans |->
       IF ch \in Service THEN [fd |-> ch, mem |-> "alive", writable |-> FALSE]
                         ELSE [fd |-> NoFd, mem |-> "unborn", writable |-> FALSE]]
  /\ con = [c \in Conns |-> [state |-> "Invalid", channel |-> FALSE, cbs |-> FALSE,
                             input |-> <<>>, idleIds |-> FALSE]]
  /\ conns = {} /\ idleConns = {} /\ tasks = <<>> /\ wakeBytes = 0
  /\ peer = [c \in Conns |-> [kern |-> <<>>, end |-> "none", next |-> 1]]
  /\ backlog = <<>> /\ leaked = {}
  /\ notified = [c \in Conns |-> <<>>] /\ delivered = [c \in Conns |-> <<>>]
  /\ closeCalls = [c \in Conns |-> 0]

----------------------------------------------------------------------------
(* PollerSelect and Channel.                                               *)

\* Mutant: FD_SET is given the channel instead of its socket.
AddChannelById(ch, fd) ==
  /\ liveChannels' = Append(liveChannels, ch)
  /\ allReadSet' = FdSet(allReadSet, ch)
  /\ UNCHANGED <<curIt, allWriteSet>>

\* AddChannel for a new channel: readable, not writable.
AddChannel(ch, fd) ==
  /\ liveChannels' = Append(liveChannels, ch)
  /\ allReadSet' = FdSet(allReadSet, fd)
  /\ UNCHANGED <<curIt, allWriteSet>>

\* Mutant: the iterator is left on the erased element.
ItKept(ch) == curIt

\* curIt after ch is erased.
ItWithout(ch) == IF curIt = ch THEN After(liveChannels, ch) ELSE curIt

\* RemoveChannel keeps LoopOnce's iterator off the erased list element.
RemoveChannel(ch) ==
  /\ allReadSet' = allReadSet \ {chan[ch].fd}
  /\ allWriteSet' = allWriteSet \ {chan[ch].fd}
  /\ curIt' = ItWithout(ch)
  /\ liveChannels' = RemoveFirst(liveChannels, ch)

\* Mutant: read interest goes with write interest.
ReadCleared(ch) == allReadSet \ {chan[ch].fd}

\* UpdateChannel's read half; m_readable never changes.
ReadKept(ch) == FdSet(allReadSet, chan[ch].fd)

\* EnableWrite followed by UpdateChannel.
EnableWrite(ch, enable) ==
  /\ chan' = [chan EXCEPT ![ch].writable = enable]
  /\ allReadSet' = ReadKept(ch)
  /\ allWriteSet' = IF enable THEN FdSet(allWriteSet, chan[ch].fd)
                              ELSE allWriteSet \ {chan[ch].fd}
  /\ UNCHANGED <<liveChannels, curIt>>

\* Channel::Close, after which the frames `rest` go on.  Closing calls the
\* read handler of the channel, here always a TcpConn's.
CloseChannel(ch, rest) ==
  IF chan[ch].fd = NoFd
  THEN /\ stack' = rest
       /\ UNCHANGED <<pollVars, chan>>
  ELSE /\ RemoveChannel(ch)
       /\ chan' = [chan EXCEPT ![ch].fd = NoFd]
       /\ stack' = <<Frame("HandleRead", ch)>> \o rest

ReadHandler(ch) == CASE ch = Wakeup   -> "HandleWakeup"
                     [] ch = Listener -> "HandleAccept"
                     [] OTHER         -> "HandleRead"

\* select(): a socket is readable when recv or accept would not block.
Readable(fd) ==
  \/ fd = Wakeup /\ wakeBytes > 0
  \/ fd = Listener /\ backlog # <<>>
  \/ \E c \in Conns : /\ chan[c].fd = fd
                      /\ peer[c].kern # <<>> \/ peer[c].end \in {"fin", "rst"}

\* LoopOnce up to and including select; an invalid socket in a set makes the
\* call fail at once, whatever else is ready.  Write readiness is the peer's.
Select ==
  /\ phase = "select"
  /\ IF NoFd \in allReadSet \cup allWriteSet
     THEN rs' = {} /\ ws' = {}
     ELSE /\ rs' = {fd \in allReadSet : Readable(fd)}
          /\ ws' \in SUBSET allWriteSet
  /\ lastActive' = Cardinality(rs') + Cardinality(ws')
  /\ curIt' = FirstOf(liveChannels)
  /\ phase' = "scan"
  /\ UNCHANGED <<stack, liveChannels, allReadSet, allWriteSet, visit, chan, con,
                 baseVars, envVars, histVars>>

\* One iteration of the dispatch loop: the read half ...
Scan ==
  /\ phase = "scan" /\ lastActive > 0 /\ curIt # None
  /\ LET ready == chan[curIt].fd \in rs
     IN  /\ visit' = [ch |-> curIt, dec |-> ready]
         /\ stack' = IF ready THEN <<Frame(ReadHandler(curIt), curIt)>> ELSE <<>>
  /\ curIt' = After(liveChannels, curIt)
  /\ phase' = "write"
  /\ UNCHANGED <<liveChannels, allReadSet, allWriteSet, rs, ws, lastActive, chan, con,
                 baseVars, envVars, histVars>>

\* ... then, on the same ch, the write half.  If the read handler deleted the
\* channel, ch->fd() reads freed memory: what it yields is in ws or is not,
\* and if it is, HandleWrite calls a destroyed std::function.
TryWrite ==
  /\ phase = "write" /\ stack = <<>>
  /\ IF chan[visit.ch].mem = "alive"
     THEN LET ready == chan[visit.ch].fd \in ws
          IN  /\ visit' = [visit EXCEPT !.dec = @ \/ ready]
              /\ stack' = IF ready THEN <<Frame("HandleWrite", visit.ch)>> ELSE <<>>
              /\ phase' = "tally"
     ELSE /\ phase' \in {"tally"} \cup (IF ws = {} THEN {} ELSE {"crashed"})
          /\ UNCHANGED <<stack, visit>>
  /\ UNCHANGED <<pollVars, rs, ws, lastActive, chan, con, baseVars, envVars, histVars>>

\* Mutant: every visited channel counts, ready or not.
DecrementAlways == 1

Decrement == IF visit.dec THEN 1 ELSE 0

\* ... and --m_lastActive.
Tally ==
  /\ phase = "tally" /\ stack = <<>>
  /\ lastActive' = lastActive - Decrement
  /\ visit' = [ch |-> None, dec |-> FALSE]
  /\ phase' = "scan"
  /\ UNCHANGED <<stack, pollVars, rs, ws, chan, con, baseVars, envVars, histVars>>

EndScan ==
  /\ phase = "scan" /\ (lastActive = 0 \/ curIt = None)
  /\ rs' = {} /\ ws' = {}
  /\ phase' = "timeouts"
  /\ UNCHANGED <<stack, pollVars, lastActive, visit, chan, con, baseVars, envVars, histVars>>

----------------------------------------------------------------------------
(* TcpConn::Close posts the close to the loop (SafeCall); CallIdles runs   *)
(* the idle callbacks, which in the tests close their connection.          *)

\* A closure in m_tasks: Close(c), or Attach(c, fd) from another base.
Task(op, c, fd) == [op |-> op, c |-> c, fd |-> fd]

CanClose(c) == con[c].channel /\ closeCalls[c] < MaxCloses

\* Mutant: tasks are pushed without Wakeup.
SafeCallQuietly(s) == tasks' = tasks \o s /\ wakeBytes' = wakeBytes

\* SafeCall, from the loop's own thread: nothing comes between push and Wakeup.
SafeCall(s) == tasks' = tasks \o s /\ wakeBytes' = wakeBytes + Len(s)

PostClose(s) ==
  /\ SafeCall([i \in DOMAIN s |-> Task("Close", s[i], NoFd)])
  /\ closeCalls' = [c \in Conns |-> closeCalls[c] + (IF c \in ToSet(s) THEN 1 ELSE 0)]

HandleTimeouts ==
  /\ phase = "timeouts"
  /\ \E expired \in SUBSET {c \in idleConns : CanClose(c)} :
       \E s \in SetToSeqs(expired) : PostClose(s)
  /\ phase' = "select"
  /\ UNCHANGED <<stack, pollVars, scanVars, chan, con, conns, idleConns, envVars,
                 notified, delivered>>

\* The wakeup channel's read callback: recv, then run m_tasks until empty.  While
\* the base exists both ends of the pipe are open, and the callback runs when a byte
\* is there: recv returns one at least.  Its branches for 0 and for an error are for
\* ~PollerSelect, which closes the channel.
HandleWakeup ==
  /\ Running("HandleWakeup", Wakeup)
  /\ wakeBytes > 0
  /\ wakeBytes' = 0
  /\ stack' = <<Frame("Drain", None)>> \o Resume
  /\ UNCHANGED <<phase, pollVars, scanVars, chan, con, conns, idleConns, tasks, envVars, histVars>>

----------------------------------------------------------------------------
(* TcpServer::HandleAccept and TcpConn::Attach.                            *)

FreeFds == Fds \ ({chan[c].fd : c \in Conns} \cup leaked
                  \cup {t.fd : t \in ToSet(tasks)})

Attach(c, fd) ==
  /\ con' = [con EXCEPT ![c].state = "Handshaking", ![c].channel = TRUE, ![c].cbs = TRUE]
  /\ chan' = [chan EXCEPT ![c] = [fd |-> fd, mem |-> "alive", writable |-> FALSE]]
  /\ AddChannel(c, fd)
  /\ conns' = conns \cup {c}

\* The accept loop.  A connection already reset may have no peer address: then
\* the loop goes on to the next one and nobody closes the accepted socket.
HandleAccept ==
  /\ Running("HandleAccept", Listener)
  /\ IF backlog = <<>> \/ FreeFds = {}
     THEN stack' = Resume /\ UNCHANGED <<pollVars, chan, con, conns, backlog, leaked>>
     ELSE /\ backlog' = Tail(backlog)
          /\ UNCHANGED stack
          /\ \E fd \in FreeFds :
               \/ Attach(Head(backlog), fd) /\ UNCHANGED leaked
               \/ /\ peer[Head(backlog)].end = "rst"
                  /\ leaked' = leaked \cup {fd}
                  /\ UNCHANGED <<pollVars, chan, con, conns>>
  /\ UNCHANGED <<phase, scanVars, idleConns, tasks, wakeBytes, peer, histVars>>

\* On a base without the listening socket, connections arrive as tasks that
\* the accepting base's thread posts (SafeCall of addcon).
Assign(c) ==
  /\ ~Accepting
  /\ backlog # <<>> /\ Head(backlog) = c
  /\ backlog' = Tail(backlog)
  /\ \E fd \in FreeFds : SafeCall(<<Task("Attach", c, fd)>>)
  /\ UNCHANGED <<loopVars, pollVars, scanVars, chan, con, conns, idleConns, peer, leaked, histVars>>

\* One task.  The frame's second field is the connection captured by the local
\* `task`, which the next pop_wait overwrites.
Drain ==
  /\ stack # <<>> /\ Head(stack).op = "Drain"
  /\ IF tasks = <<>>
     THEN stack' = Resume /\ UNCHANGED <<pollVars, chan, con, conns, tasks>>
     ELSE LET t == Head(tasks)
              held == IF t.op = "Close" THEN t.c ELSE None
              rest == <<Frame("Drain", held)>> \o Resume
          IN  /\ tasks' = Tail(tasks)
              /\ \/ t.op = "Attach" /\ Attach(t.c, t.fd) /\ stack' = rest
                 \/ /\ t.op = "Close" /\ con[t.c].channel
                    /\ CloseChannel(t.c, rest) /\ UNCHANGED <<con, conns>>
                 \/ /\ t.op = "Close" /\ ~con[t.c].channel
                    /\ stack' = rest /\ UNCHANGED <<pollVars, chan, con, conns>>
  /\ UNCHANGED <<phase, scanVars, idleConns, wakeBytes, envVars, histVars>>

----------------------------------------------------------------------------
(* TcpConn's handlers.                                                     *)

RunningOn(op, c) == Running(op, c) /\ Holders(c)

\* HandleHandshake, called by HandleRead and HandleWrite: its select() finds
\* the socket writable, or fails on a closed or reset one.  The user's state
\* callback may register an idle callback.
HandleHandshake(op, c) ==
  /\ RunningOn(op, c) /\ con[c].state = "Handshaking"
  /\ \/ /\ chan[c].fd # NoFd
        /\ \E idle \in BOOLEAN :
             /\ con' = [con EXCEPT ![c].state = "Connected", ![c].idleIds = idle]
             /\ idleConns' = IF idle THEN idleConns \cup {c} ELSE idleConns
        /\ notified' = [notified EXCEPT ![c] = Append(@, "Connected")]
        /\ stack' = IF op = "HandleRead" THEN stack ELSE Resume
     \/ /\ chan[c].fd = NoFd \/ peer[c].end = "rst"
        /\ stack' = <<Frame("Cleanup", c)>> \o Resume
        /\ UNCHANGED <<con, idleConns, notified>>
  /\ UNCHANGED <<phase, pollVars, scanVars, chan, conns, tasks, wakeBytes, envVars,
                 delivered, closeCalls>>

\* The recv loop of HandleRead.
Recv(c) ==
  /\ chan[c].fd # NoFd /\ peer[c].kern # <<>> /\ peer[c].end # "rst"
  /\ con' = [con EXCEPT ![c].input = @ \o peer[c].kern]
  /\ peer' = [peer EXCEPT ![c].kern = <<>>]
  /\ UNCHANGED stack

\* if (m_readCb && m_input.size()) m_readCb(con)
ReadCallback(c) == IF con[c].cbs /\ con[c].input # <<>> THEN <<Frame("OnMsg", c)>> ELSE <<>>

\* Mutant: what was received waits for the next event.
LeftForLater(c) == <<>>

\* Mutant: EWOULDBLOCK is taken for an error.
WouldBlockEnds(c) == <<Frame("Cleanup", c)>>

ReadHandled(c) == ReadCallback(c)

WouldBlock(c) ==
  /\ chan[c].fd # NoFd /\ peer[c].kern = <<>> /\ peer[c].end = "open"
  /\ stack' = ReadHandled(c) \o Resume
  /\ UNCHANGED <<con, peer>>

Disconnected(c) ==
  /\ \/ chan[c].fd = NoFd
     \/ peer[c].kern = <<>> /\ peer[c].end = "fin"
     \/ peer[c].end = "rst"
  /\ stack' = <<Frame("Cleanup", c)>> \o Resume
  /\ UNCHANGED <<con, peer>>

HandleRead(c) ==
  /\ RunningOn("HandleRead", c) /\ con[c].state # "Handshaking"
  /\ IF con[c].state = "Connected"
     THEN Recv(c) \/ WouldBlock(c) \/ Disconnected(c)
     ELSE stack' = Resume /\ UNCHANGED <<con, peer>>
  /\ UNCHANGED <<phase, pollVars, scanVars, chan, baseVars, backlog, leaked, histVars>>

\* HandleWrite sends what SendMsg left in m_output: all of it, after which
\* write interest is dropped, or not all.
HandleWrite(c) ==
  /\ RunningOn("HandleWrite", c) /\ con[c].state # "Handshaking"
  /\ stack' = Resume
  /\ \/ con[c].state = "Connected" /\ chan[c].writable /\ EnableWrite(c, FALSE)
     \/ UNCHANGED <<pollVars, chan>>
  /\ UNCHANGED <<phase, scanVars, con, baseVars, envVars, histVars>>

\* Buffer::consume of the bytes TryDecode returned: one message.
Consume(input) == SubSeq(input, 3, Len(input))

\* TryDecode finds a message, a header it accepts and its body.
Complete(input) == Len(input) >= 2 /\ input[1] # Bad /\ input[2] # Bad

\* One iteration of the OnMsg read callback.  A message goes to the user's
\* callback, which may do nothing visible here (or send without blocking),
\* send and block, or call Close; then it is consumed.
OnMsg(c) ==
  /\ RunningOn("OnMsg", c)
  /\ IF Complete(con[c].input)
     THEN /\ delivered' = [delivered EXCEPT ![c] = Append(@, con[c].input[2] \div 2)]
          /\ con' = [con EXCEPT ![c].input = Consume(@)]
          /\ UNCHANGED stack
          /\ \/ UNCHANGED <<pollVars, chan, tasks, wakeBytes, closeCalls>>
             \/ /\ ~chan[c].writable /\ EnableWrite(c, TRUE)
                /\ UNCHANGED <<tasks, wakeBytes, closeCalls>>
             \/ /\ CanClose(c) /\ PostClose(<<c>>)
                /\ UNCHANGED <<pollVars, chan>>
     ELSE /\ IF con[c].input # <<>> /\ con[c].input[1] = Bad
             THEN CloseChannel(c, Resume)
             ELSE stack' = Resume /\ UNCHANGED <<pollVars, chan>>
          /\ UNCHANGED <<con, tasks, wakeBytes, closeCalls, delivered>>
  /\ UNCHANGED <<phase, scanVars, conns, idleConns, envVars, notified>>

\* Mutant: the rest of the input is dropped.
RestDropped(c) == <<>>

RestHandled(c) == ReadCallback(c)

\* Cleanup: first the rest of the input goes to the read callback ...
Cleanup(c) ==
  /\ RunningOn("Cleanup", c)
  /\ stack' = RestHandled(c) \o <<Frame("Finish", c)>> \o Resume
  /\ UNCHANGED <<phase, pollVars, scanVars, chan, con, baseVars, envVars, histVars>>

\* Mutants: m_state keeps its value; a failed handshake is reported like a
\* closed connection.
EndStateSame(c) == con[c].state
EndStateClosed(c) == "Closed"

EndState(c) == IF con[c].state = "Handshaking" THEN "Failed" ELSE "Closed"

\* Mutant: RemoveConn is forgotten.
ConnsKept(c) == conns

RemoveConn(c) == conns \ {c}

\* ... then the connection leaves every structure, and its channel is deleted.
Finish(c) ==
  /\ RunningOn("Finish", c) /\ (con[c].idleIds => c \in idleConns)
  /\ con' = [con EXCEPT ![c].state = EndState(c), ![c].cbs = FALSE, ![c].channel = FALSE]
  /\ notified' = IF con[c].cbs THEN [notified EXCEPT ![c] = Append(@, EndState(c))] ELSE notified
  /\ idleConns' = IF con[c].idleIds THEN idleConns \ {c} ELSE idleConns
  /\ conns' = RemoveConn(c)
  /\ stack' = (IF con[c].channel THEN <<Frame("Delete", c)>> ELSE <<>>) \o Resume
  /\ UNCHANGED <<phase, pollVars, scanVars, chan, tasks, wakeBytes, envVars, delivered, closeCalls>>

\* ~Channel: Close, then the memory and the callbacks' reference go.
Delete(c) ==
  /\ Running("Delete", c)
  /\ CloseChannel(c, <<Frame("Free", c)>> \o Resume)
  /\ UNCHANGED <<phase, scanVars, con, baseVars, envVars, histVars>>

Free(c) ==
  /\ Running("Free", c)
  /\ chan' = [chan EXCEPT ![c].mem = "freed"]
  /\ stack' = Resume
  /\ UNCHANGED <<phase, pollVars, scanVars, con, baseVars, envVars, histVars>>

\* A method resumed on a destroyed TcpConn, or an idle node erased twice.
Corrupt ==
  /\ stack # <<>>
  /\ LET f == Head(stack)
     IN  /\ f.op \in {"HandleRead", "HandleWrite", "OnMsg", "Cleanup", "Finish"}
         /\ \/ ~Holders(f.c)
            \/ f.op = "Finish" /\ con[f.c].idleIds /\ f.c \notin idleConns

Crash ==
  /\ Corrupt
  /\ phase' = "crashed" /\ stack' = <<>>
  /\ UNCHANGED <<pollVars, scanVars, chan, con, baseVars, envVars, histVars>>

----------------------------------------------------------------------------
(* Peers.  What a peer does after the server closed the socket is not seen. *)

Peerable(c) == peer[c].end = "open" /\ (chan[c].mem = "unborn" \/ chan[c].fd # NoFd)

Connect(c) ==
  /\ peer[c].end = "none"
  /\ peer' = [peer EXCEPT ![c].end = "open"]
  /\ backlog' = Append(backlog, c)

SendHalf(c) ==
  /\ Peerable(c) /\ peer[c].next \in 1 .. 2 * MaxMsgs[c]
  /\ peer' = [peer EXCEPT ![c].kern = Append(@, peer[c].next), ![c].next = @ + 1]
  /\ UNCHANGED backlog

SendBad(c) ==
  /\ Peerable(c) /\ peer[c].next # Bad /\ peer[c].next % 2 = 1
  /\ peer' = [peer EXCEPT ![c].kern = Append(@, Bad), ![c].next = Bad]
  /\ UNCHANGED backlog

HangUp(c) ==
  /\ Peerable(c) /\ (peer[c].next = Bad => HangUpAfterBad)
  /\ \E how \in {"fin", "rst"} : peer' = [peer EXCEPT ![c].end = how]
  /\ UNCHANGED backlog

Peer(c) ==
  /\ Connect(c) \/ SendHalf(c) \/ SendBad(c) \/ HangUp(c)
  /\ UNCHANGED <<loopVars, pollVars, scanVars, chan, con, baseVars, leaked, histVars>>

----------------------------------------------------------------------------

Handler(c) ==
  \/ HandleHandshake("HandleRead", c)
  \/ HandleHandshake("HandleWrite", c)
  \/ HandleRead(c)
  \/ HandleWrite(c)
  \/ OnMsg(c)
  \/ Cleanup(c)
  \/ Finish(c)
  \/ Delete(c)
  \/ Free(c)

Loop ==
  \/ Select
  \/ Scan
  \/ TryWrite
  \/ Tally
  \/ EndScan
  \/ HandleTimeouts
  \/ HandleWakeup
  \/ HandleAccept
  \/ Drain
  \/ \E c \in Conns : Handler(c)

\* The process is gone.
Crashed == phase = "crashed" /\ UNCHANGED vars

Next == Loop \/ Crash \/ Crashed \/ \E c \in Conns : Peer(c) \/ Assign(c)

\* The loop thread keeps running: each LoopOnce returns (select has a timeout
\* of at most 3 seconds) and Loop calls it again.
Spec == Init /\ [][Next]_vars
FairSpec == Spec /\ WF_vars(Loop)

----------------------------------------------------------------------------
(* Properties.                                                             *)

Ops == {"HandleWakeup", "Drain", "HandleAccept", "HandleRead", "HandleWrite",
        "OnMsg", "Cleanup", "Finish", "Delete", "Free"}

\* Type invariant.
TypeOK ==
  /\ phase \in {"select", "scan", "write", "tally", "timeouts", "crashed"}
  /\ \A i \in DOMAIN stack : stack[i] \in [op : Ops, c : Chans \cup {None}]
  /\ liveChannels \in Seq(Chans) /\ curIt \in Chans \cup {None}
  /\ allReadSet \cup allWriteSet \cup rs \cup ws \subseteq Sockets \cup {NoFd}
  /\ lastActive \in Nat
  /\ visit \in [ch : Chans \cup {None}, dec : BOOLEAN]
  /\ chan \in [Chans -> [fd : Sockets \cup {NoFd}, mem : {"unborn", "alive", "freed"},
                         writable : BOOLEAN]]
  /\ con \in [Conns -> [state : {"Invalid", "Handshaking", "Connected", "Closed", "Failed"},
                        channel : BOOLEAN, cbs : BOOLEAN,
                        input : Seq(Units \cup {Bad}), idleIds : BOOLEAN]]
  /\ conns \subseteq Conns /\ idleConns \subseteq Conns
  /\ tasks \in Seq([op : {"Close", "Attach"}, c : Conns, fd : Fds \cup {NoFd}]) /\ wakeBytes \in Nat
  /\ peer \in [Conns -> [kern : Seq(Units \cup {Bad}), end : {"none", "open", "fin", "rst"},
                         next : Units \cup {1 + u : u \in Units} \cup {1, Bad}]]
  /\ backlog \in Seq(Conns) /\ leaked \subseteq Fds
  /\ notified \in [Conns -> Seq({"Connected", "Closed", "Failed"})]
  /\ delivered \in [Conns -> Seq(Messages)]
  /\ closeCalls \in [Conns -> 0 .. MaxCloses]

\* More sockets than a set holds, counting the loop's own two.
Crowded == Cardinality(Fds) + 2 > FdSetSize
Ended(c) == con[c].state \in {"Closed", "Failed"}
OnStack(c) == \E i \in DOMAIN stack : stack[i].c = c

\* The dispatch loop's iterator never points at an erased list element, and
\* the list holds each open channel once and nothing else, although handlers
\* add and remove channels while the loop iterates (PollerSelect::LoopOnce).
IteratorValid ==
  /\ curIt \in ToSet(liveChannels) \cup {None}
  /\ \A i, j \in DOMAIN liveChannels : liveChannels[i] = liveChannels[j] => i = j
  /\ ToSet(liveChannels) = {ch \in Chans : chan[ch].fd # NoFd}
  /\ \A ch \in ToSet(liveChannels) : chan[ch].mem = "alive"

\* The sets given to select are the sockets of the open channels, and of those
\* that have output left: no closed socket stays in a set, where it would make
\* every later select fail, and no open one is missing (AddChannel,
\* RemoveChannel, UpdateChannel), as long as an fd_set can hold them.
SelectSetsMatch ==
  ~Crowded =>
     /\ allReadSet = {chan[ch].fd : ch \in ToSet(liveChannels)}
     /\ allWriteSet = {chan[ch].fd : ch \in {x \in ToSet(liveChannels) : chan[x].writable}}

\* The countdown of ready sockets ends the dispatch loop only when each channel
\* that select reported, and that is still open, has had its handler called.
\* A channel in handshake may have inherited a reported socket number.
NoEventMissed ==
  phase = "scan" /\ lastActive = 0 =>
    \A ch \in ToSet(liveChannels) :
      chan[ch].fd \in rs \cup ws /\ (ch \in Conns => con[ch].state = "Connected") =>
        LET at(x) == SelectInSeq(liveChannels, LAMBDA y : y = x)
        IN  curIt # None => at(ch) < at(curIt)

\* Nothing of a connection runs after ~TcpConn, and no idle node is erased
\* twice: the close sequences that EventBase.h:105-107 lists each end with it.
DestroyedLast == ~Corrupt

\* The user's state callback hears Connected and then Closed, or Failed alone,
\* each once, whatever ends the connection.
NotifiedInOrder ==
  \A c \in Conns :
    /\ notified[c] \in {<<>>, <<"Connected">>, <<"Connected", "Closed">>, <<"Failed">>}
    /\ Ended(c) => notified[c] # <<>> /\ Last(notified[c]) = con[c].state

\* An ended connection whose handlers have returned is in no structure of the
\* loop, and its channel is closed and freed (Cleanup, ~Channel).
EndedIsGone ==
  \A c \in Conns : Ended(c) /\ ~OnStack(c) =>
    /\ c \notin conns \cup idleConns
    /\ ~con[c].channel /\ ~con[c].cbs
    /\ chan[c].mem = "freed" /\ chan[c].fd = NoFd

\* Messages reach the user's callback once each and in the order sent.  When a
\* peer sends whole messages, closes in order, and the server never closed the
\* connection, all of them have come before Closed is reported: Cleanup hands
\* the rest of the input to the read callback.
MessagesOnce ==
  \A c \in Conns :
    /\ \A i \in DOMAIN delivered[c] : delivered[c][i] = i
    /\ /\ con[c].state = "Closed"
       /\ peer[c].end = "fin" /\ peer[c].next # Bad /\ closeCalls[c] = 0
       => Len(delivered[c]) = (peer[c].next - 1) \div 2

\* The message callback only runs on an open socket.  On a closed one a send
\* fails, keeps the output, and EnableWrite puts SOCKET_ERROR in the select
\* sets (TcpConn.cpp:297), which stops the loop for every connection.
CallbackOnlyWhileOpen ==
  \A c \in Conns :
    Running("OnMsg", c) /\ Complete(con[c].input) => chan[c].fd # NoFd

\* A connection ends only for a reason of its own: a Close posted for it, a header
\* that TryDecode refuses, or its peer's leaving.  A posted Close does not reach
\* another connection, although sockets are reused before it runs, and neither does
\* a ready socket that select reported for the one closed before.
EndedForReason ==
  \A c \in Conns :
    Ended(c) => \/ closeCalls[c] > 0
                \/ peer[c].next = Bad
                \/ peer[c].end \in {"fin", "rst"}

\* A connection that was asked to close, by a posted Close or by its peer, is
\* ended, unless the process died first.
EndIsReached ==
  \A c \in Conns :
    (closeCalls[c] > 0 \/ (peer[c].end \in {"fin", "rst"} /\ con[c].state # "Invalid"))
       ~> Ended(c) \/ phase = "crashed"
=============================================================================
