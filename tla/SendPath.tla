------------------------------ MODULE SendPath ------------------------------
(***************************************************************************)
(* TcpConn's output: Send, SendMsg, SendBase and HandleWrite on m_output,  *)
(* with the select that calls HandleWrite while EnableWrite(true) holds.   *)
(* Each call of ::send, each read of m_output and each EnableWrite is a    *)
(* step, so that other threads that call SendMsg can come between any two. *)
(* A Buffer is the sequence of its unread bytes; a thread that sends from  *)
(* it holds the pointer and length it read at the call, here a copy.       *)
(***************************************************************************)
EXTENDS Integers, Sequences, SequencesExt

CONSTANTS
  Msgs,      \* messages, each sent at most once
  MsgLen,    \* bytes of a message, its header included
  Loop,      \* the loop thread
  Workers,   \* threads of a ConnThreadPool that call SendMsg
  Plain,     \* the loop thread calls Send too, which is "not thread-safe" (TcpConn.h:53)
  SockBuf    \* bytes the socket's send buffer holds

Threads == Workers \cup {Loop}

ASSUME SendPathAssumption ==
  /\ MsgLen \in Nat \ {0}
  /\ SockBuf \in Nat \ {0}
  /\ Loop \notin Workers
  /\ Plain \in BOOLEAN

VARIABLES
  output,    \* TcpConn::m_output
  channel,   \* "open" until Cleanup deletes m_channel
  writable,  \* Channel::m_writable
  room,      \* free bytes in the socket's send buffer
  broken,    \* send fails with an error other than WSAEWOULDBLOCK
  unsent,    \* messages nobody has sent yet
  pc,        \* where each thread is
  call,      \* each thread's call: the bytes it sends and how many it has sent
  corrupt,   \* consume of more than there is, or send on a deleted channel
  accepted,  \* history: bytes of the messages sent while the channel was open
  wire       \* history: bytes ::send has taken

threadVars == <<pc, call>>
sockVars == <<room, broken, wire>>
vars == <<output, channel, writable, unsent, corrupt, accepted, threadVars, sockVars>>

\* What a call sends, how much of it ::send has taken, and what it is: Send of a
\* Buffer ("buffer"; "shared" when that buffer is m_output), Send of plain bytes
\* ("bytes") or HandleWrite ("write").  nested: called by HandleWrite's m_writeCb.
NoCall == [data |-> <<>>, sent |-> 0, kind |-> "none", nested |-> FALSE]

Bytes(m) == [i \in 1 .. MsgLen |-> <<m, i>>]

Init ==
  /\ output = <<>> /\ channel = TRUE /\ writable = FALSE
  /\ room = SockBuf /\ broken = FALSE
  /\ unsent = Msgs
  /\ pc = [t \in Threads |-> "idle"]
  /\ call = [t \in Threads |-> NoCall]
  /\ corrupt = FALSE
  /\ accepted = <<>> /\ wire = <<>>

Goto(t, label) == pc' = [pc EXCEPT ![t] = label]

\* The end of a call: back to m_writeCb's caller, or to the thread's own work.
Return(t) ==
  /\ Goto(t, IF call[t].nested THEN "disable" ELSE "idle")
  /\ call' = [call EXCEPT ![t] = NoCall]

----------------------------------------------------------------------------
(* The calls.  A worker calls SendMsg only; the loop thread calls any of   *)
(* the three from its callbacks, m_writeCb included.                       *)

Begin(t, m, kind) ==
  /\ m \in unsent
  /\ unsent' = unsent \ {m}
  /\ call' = [call EXCEPT ![t] = [data |-> Bytes(m), sent |-> 0, kind |-> kind,
                                  nested |-> pc[t] = "writeCb"]]

MayCall(t) == pc[t] \in {"idle", "writeCb"}

\* SendMsg encodes the message into m_output, open or not, and goes on to
\* Send(m_output).
SendMsg(t, m) ==
  /\ MayCall(t) /\ Begin(t, m, "shared")
  /\ output' = output \o Bytes(m)
  /\ accepted' = IF channel THEN accepted \o Bytes(m) ELSE accepted
  /\ Goto(t, "send")
  /\ UNCHANGED <<channel, writable, corrupt, sockVars>>

\* Send(Buffer&) with a buffer of the caller's.
SendBuffer(m) ==
  /\ Plain /\ MayCall(Loop) /\ channel /\ Begin(Loop, m, "buffer")
  /\ accepted' = accepted \o Bytes(m)
  /\ Goto(Loop, "send")
  /\ UNCHANGED <<output, channel, writable, corrupt, sockVars>>

\* Send(const char*, size_t): straight to the socket when m_output is empty.
SendBytes(m) ==
  /\ Plain /\ MayCall(Loop) /\ channel /\ Begin(Loop, m, "bytes")
  /\ accepted' = accepted \o Bytes(m)
  /\ Goto(Loop, IF output = <<>> THEN "base" ELSE "rest")
  /\ UNCHANGED <<output, channel, writable, corrupt, sockVars>>

\* Mutant: a buffer goes to the socket, whatever waits in m_output.
NeverAbsorbs(t) == FALSE

\* A caller's buffer goes behind the bytes that wait in m_output.
Absorbs(t) == call[t].kind = "buffer" /\ writable

\* Send(Buffer&) up to SendBase.  absorb takes another buffer's bytes when the
\* write channel is on, and does nothing when the buffer is m_output itself.
Send(t) ==
  /\ pc[t] = "send"
  /\ \/ /\ ~channel
        /\ Return(t)
        /\ UNCHANGED output
     \/ /\ channel /\ Absorbs(t)
        /\ output' = output \o call[t].data
        /\ Return(t)
     \/ /\ channel /\ call[t].kind = "buffer" /\ ~Absorbs(t)
        /\ Goto(t, "base")
        /\ UNCHANGED <<output, call>>
     \/ /\ channel /\ call[t].kind = "shared"
        /\ call' = [call EXCEPT ![t].data = output]
        /\ Goto(t, "base")
        /\ UNCHANGED output
  /\ UNCHANGED <<channel, writable, unsent, corrupt, accepted, sockVars>>

\* HandleWrite: select found the socket writable, or failed.
HandleWrite ==
  /\ pc[Loop] = "idle" /\ channel /\ writable
  /\ room > 0 \/ broken
  /\ call' = [call EXCEPT ![Loop] = [data |-> output, sent |-> 0, kind |-> "write", nested |-> FALSE]]
  /\ Goto(Loop, "base")
  /\ UNCHANGED <<output, channel, writable, unsent, corrupt, accepted, sockVars>>

----------------------------------------------------------------------------
(* SendBase, and what each call does with what it leaves.                  *)

Left(t) == Len(call[t].data) - call[t].sent

\* One ::send that takes some of the bytes.
Write(t) ==
  /\ pc[t] = "base" /\ Left(t) > 0 /\ ~broken
  /\ \E n \in 1 .. Left(t) :
       /\ n <= room
       /\ wire' = wire \o SubSeq(call[t].data, call[t].sent + 1, call[t].sent + n)
       /\ room' = room - n
       /\ call' = [call EXCEPT ![t].sent = @ + n]
  /\ corrupt' = (corrupt \/ ~channel)
  /\ UNCHANGED <<output, channel, writable, broken, unsent, pc, accepted>>

\* One that would block: the write channel is turned on.
WouldBlock(t) ==
  /\ pc[t] = "base" /\ Left(t) > 0 /\ room = 0 /\ ~broken
  /\ writable' = TRUE
  /\ corrupt' = (corrupt \/ ~channel)
  /\ Goto(t, "consume")
  /\ UNCHANGED <<output, channel, unsent, call, accepted, sockVars>>

\* All sent, or an error, which is only logged.
BaseEnds(t) ==
  /\ pc[t] = "base" /\ (Left(t) = 0 \/ broken)
  /\ corrupt' = (corrupt \/ ~channel)
  /\ Goto(t, "consume")
  /\ UNCHANGED <<output, channel, writable, unsent, call, accepted, sockVars>>

\* Mutant: what was sent of another buffer is dropped from m_output.
OwnAlways(t) == TRUE

\* The buffer that is sent is m_output.
Own(t) == call[t].kind \in {"shared", "write"}

\* m_output.consume(sended), or the caller's buffer moves past what was sent.
Consume(t) ==
  /\ pc[t] = "consume"
  /\ output' = IF Own(t) THEN SubSeq(output, call[t].sent + 1, Len(output)) ELSE output
  /\ corrupt' = (corrupt \/ (Own(t) /\ call[t].sent > Len(output)))
  /\ Goto(t, "rest")
  /\ UNCHANGED <<channel, writable, unsent, call, accepted, sockVars>>

\* What was not sent waits in m_output.  Send(Buffer&) turns the write channel
\* on; Send(const char*) leaves that to SendBase.
Rest(t) ==
  /\ pc[t] = "rest" /\ call[t].kind # "write"
  /\ output' = IF call[t].kind = "shared" THEN output
               ELSE output \o SubSeq(call[t].data, call[t].sent + 1, Len(call[t].data))
  /\ LET left == IF call[t].kind = "shared" THEN output # <<>> ELSE Left(t) > 0
     IN writable' = (writable \/ (left /\ call[t].kind # "bytes"))
  /\ Return(t)
  /\ UNCHANGED <<channel, unsent, corrupt, accepted, sockVars>>

\* HandleWrite after consume: m_writeCb, if set, when everything is sent.
Written ==
  /\ pc[Loop] = "rest" /\ call[Loop].kind = "write"
  /\ call' = [call EXCEPT ![Loop] = NoCall]
  /\ IF output = <<>> THEN \E label \in {"writeCb", "disable"} : Goto(Loop, label)
     ELSE Goto(Loop, "disable")
  /\ UNCHANGED <<output, channel, writable, unsent, corrupt, accepted, sockVars>>

\* m_writeCb sends nothing.
WriteCbEnds ==
  /\ pc[Loop] = "writeCb"
  /\ Goto(Loop, "disable")
  /\ UNCHANGED <<output, channel, writable, unsent, call, corrupt, accepted, sockVars>>

\* Mutant: the write channel stays on.
KeepsOn == TRUE

\* m_writeCb has sent something that waits.
HasOutput == output # <<>>

Disable ==
  /\ pc[Loop] = "disable"
  /\ writable' = (writable /\ HasOutput)
  /\ Goto(Loop, "idle")
  /\ UNCHANGED <<output, channel, unsent, call, corrupt, accepted, sockVars>>

\* The loop thread ends the connection, after a read error or a Close.
Cleanup ==
  /\ pc[Loop] = "idle" /\ channel
  /\ channel' = FALSE
  /\ writable' = FALSE
  /\ UNCHANGED <<output, unsent, corrupt, accepted, threadVars, sockVars>>

----------------------------------------------------------------------------
(* The network.                                                            *)

\* The peer takes bytes from the socket's buffer.
Drain ==
  /\ \E n \in (room + 1) .. SockBuf : room' = n
  /\ UNCHANGED <<output, channel, writable, broken, unsent, corrupt, accepted, wire, threadVars>>

Break ==
  /\ ~broken
  /\ broken' = TRUE
  /\ UNCHANGED <<output, channel, writable, room, unsent, corrupt, accepted, wire, threadVars>>

----------------------------------------------------------------------------
Step(t) == Send(t) \/ Write(t) \/ WouldBlock(t) \/ BaseEnds(t) \/ Consume(t) \/ Rest(t)

\* Steps the loop thread takes without waiting for anyone.
LoopStep == Step(Loop) \/ HandleWrite \/ Written \/ WriteCbEnds \/ Disable

Next ==
  \/ \E t \in Workers : Step(t)
  \/ LoopStep
  \/ \E t \in Threads, m \in Msgs : SendMsg(t, m)
  \/ \E m \in Msgs : SendBuffer(m) \/ SendBytes(m)
  \/ Cleanup
  \/ Drain \/ Break

Spec == Init /\ [][Next]_vars

\* The loop thread runs and the peer reads.  A broken connection's read error
\* reaches Cleanup, however often HandleWrite is called meanwhile: a pass of the
\* poller calls HandleRead before HandleWrite (PollerBase.cpp:159).
FairSpec ==
  /\ Spec
  /\ WF_vars(LoopStep)
  /\ WF_vars(Drain)
  /\ SF_vars(broken /\ Cleanup)

----------------------------------------------------------------------------
(* Properties.                                                             *)

\* Types; no thread reads or consumes past the end of a buffer.
TypeOK ==
  /\ channel \in BOOLEAN /\ writable \in BOOLEAN /\ broken \in BOOLEAN
  /\ room \in 0 .. SockBuf
  /\ unsent \subseteq Msgs
  /\ pc \in [Threads -> {"idle", "send", "base", "consume", "rest", "writeCb", "disable"}]
  /\ \A t \in Threads : call[t].sent \in 0 .. Len(call[t].data)
  /\ ~corrupt

\* The peer gets the messages whole, once and in the order of the calls
\* (m_output is sent before anything newer).
InOrder == IsPrefix(wire, accepted)

\* With nothing left to write the write channel is turned off, or select, which
\* finds the socket writable at once, would spin (TcpConn.cpp:181).  A SendMsg
\* that empties m_output leaves it on until the next HandleWrite.
NoSpin == (channel /\ writable /\ output = <<>>) ~> (~writable \/ output # <<>>)

\* The output path is a byte stream.
Stream == INSTANCE ByteStream WITH ended <- ~channel
ImplementsStream == Stream!Spec
=============================================================================
