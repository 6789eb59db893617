------------------------------ MODULE Framing ------------------------------
(***************************************************************************)
(* The way of a message from SendMsg on one TcpConn to the message         *)
(* callback on another: LengthCodec::Encode puts it into m_output, a       *)
(* Buffer; TCP delivers the bytes in pieces of any size; HandleRead        *)
(* gathers them in m_input, another; and OnMsg's loop calls TryDecode.     *)
(* A byte is <<i, k>>, the k-th byte of the i-th message, header included; *)
(* the length that the header holds is known from i.                       *)
(***************************************************************************)
EXTENDS ByteBuffer, SequencesExt

CONSTANTS
  Sizes,      \* sizes of the messages that are sent
  MaxMsgs,    \* bound of the messages sent
  Header,     \* bytes of the header, 4
  MaxLen      \* longest length TryDecode takes, 1024 * 1024

ASSUME FramingAssumption ==
  Sizes \subseteq Nat /\ MaxMsgs \in Nat /\ Header \in Nat \ {0} /\ MaxLen \in Nat

VARIABLES
  m_output,    \* the sender's buffer
  wire,        \* bytes sent and not received
  m_input,     \* the receiver's
  pc,          \* HandleRead is in recv, or OnMsg's loop runs, or Close was called
  fresh,       \* bytes have come since OnMsg's loop last ran
  sent,        \* history: sizes of the messages sent
  stream,      \* history: their bytes
  delivered    \* history: what the message callback was given

vars == <<m_output, wire, m_input, pc, fresh, sent, stream, delivered>>

Init ==
  /\ m_output = NullBuffer /\ wire = <<>> /\ m_input = NullBuffer
  /\ pc = "recv" /\ fresh = FALSE
  /\ sent = <<>> /\ stream = <<>> /\ delivered = <<>>

----------------------------------------------------------------------------
(* The sender.                                                             *)

\* The next message as Encode writes it: a header that says how long it is,
\* itself included, and the message.
HeaderBytes == [k \in 1 .. Header |-> <<Len(sent) + 1, k>>]
BodyBytes(size) == [k \in 1 .. size |-> <<Len(sent) + 1, Header + k>>]
Encode(x, size) == append(append(x, HeaderBytes), BodyBytes(size))

Record(size) ==
  /\ Len(sent) < MaxMsgs
  /\ sent' = Append(sent, size)
  /\ stream' = stream \o HeaderBytes \o BodyBytes(size)

SendMsg(size) ==
  /\ Record(size)
  /\ m_output' = Encode(m_output, size)
  /\ UNCHANGED <<wire, m_input, pc, fresh, delivered>>

\* Send of a buffer, itself a copy as PostDataToOneConn makes one: what ::send
\* takes at once goes past m_output, unless bytes wait there, and the rest is absorbed.
SendBuffer(size) ==
  /\ Record(size)
  /\ LET buf == copyFrom(Encode(NullBuffer, size))
     IN \E n \in 0 .. Size(buf) :
          /\ Size(m_output) > 0 => n = 0
          /\ wire' = wire \o SubSeq(Content(buf), 1, n)
          /\ m_output' = absorb(m_output, consume(buf, n))
  /\ UNCHANGED <<m_input, pc, fresh, delivered>>

\* SendBase and consume, which is SendPath's subject.
Transmit ==
  /\ \E n \in 1 .. Size(m_output) :
       /\ wire' = wire \o SubSeq(Content(m_output), 1, n)
       /\ m_output' = consume(m_output, n)
  /\ UNCHANGED <<m_input, pc, fresh, sent, stream, delivered>>

----------------------------------------------------------------------------
(* The receiver.                                                           *)

\* HandleRead: one recv that returns bytes, as many as there is room for ...
Recv ==
  /\ pc = "recv"
  /\ LET x == makeRecvRoom(m_input)
     IN \E n \in 1 .. Len(wire) :
          /\ n <= Space(x)
          /\ m_input' = Fill(x, SubSeq(wire, 1, n))
          /\ wire' = SubSeq(wire, n + 1, Len(wire))
  /\ fresh' = TRUE
  /\ UNCHANGED <<m_output, pc, sent, stream, delivered>>

\* ... and one that would block, for which room is made too, and which calls
\* m_readCb.  HandleRead is called when bytes have come, so some were read.
WouldBlock ==
  /\ pc = "recv" /\ fresh
  /\ m_input' = makeRecvRoom(m_input)
  /\ pc' = "decode"
  /\ fresh' = FALSE
  /\ UNCHANGED <<m_output, wire, sent, stream, delivered>>

\* The length in the header at the front of m_input.
FrontLength == Header + sent[m_input.mem[m_input.b][1]]

\* Mutant: a message that ends where m_input ends is taken for a part.
TryDecodeStrict ==
  IF Size(m_input) <= Header THEN 0
  ELSE IF FrontLength > MaxLen THEN -1
  ELSE IF Size(m_input) > FrontLength THEN FrontLength
  ELSE 0

\* Mutant: what the header announces is taken to be there.
TryDecodeEarly ==
  IF Size(m_input) <= Header THEN 0
  ELSE IF FrontLength > MaxLen THEN -1
  ELSE IF Size(m_input) < FrontLength THEN Size(m_input)
  ELSE FrontLength

TryDecode ==
  IF Size(m_input) <= Header THEN 0
  ELSE IF FrontLength > MaxLen THEN -1
  ELSE IF Size(m_input) >= FrontLength THEN FrontLength
  ELSE 0

\* The callback gets the bytes after the header, and they are consumed after it.
Message ==
  /\ pc = "decode" /\ TryDecode > 0
  /\ delivered' = Append(delivered, SubSeq(Content(m_input), Header + 1, TryDecode))
  /\ m_input' = consume(m_input, TryDecode)
  /\ UNCHANGED <<m_output, wire, pc, fresh, sent, stream>>

Part ==
  /\ pc = "decode" /\ TryDecode = 0
  /\ pc' = "recv"
  /\ UNCHANGED <<m_output, wire, m_input, fresh, sent, stream, delivered>>

\* m_channel->Close()
Rejected ==
  /\ pc = "decode" /\ TryDecode < 0
  /\ pc' = "closed"
  /\ UNCHANGED <<m_output, wire, m_input, fresh, sent, stream, delivered>>

Next ==
  \/ \E size \in Sizes : SendMsg(size) \/ SendBuffer(size)
  \/ Transmit \/ Recv \/ WouldBlock \/ Message \/ Part \/ Rejected

Spec == Init /\ [][Next]_vars

----------------------------------------------------------------------------
(* Properties.                                                             *)

\* The fields of each buffer delimit a part of its array.
TypeOK ==
  /\ WellFormed(m_output) /\ WellFormed(m_input)
  /\ pc \in {"recv", "decode", "closed"} /\ fresh \in BOOLEAN

\* What is on its way is the end of what was sent, however the buffers' arrays
\* were grown, moved, exchanged and copied, and it begins where a message does:
\* no length is ever taken from the middle of one.
InTransit ==
  LET bytes == Content(m_input) \o wire \o Content(m_output)
  IN /\ TypeOK
     /\ IsSuffix(bytes, stream)
     /\ bytes # <<>> => bytes[1] = <<Len(delivered) + 1, 1>>

\* The callback gets each message whole and in order, however TCP cut it; only
\* one that is too long ends the connection, and not those before it.
WholeMessages ==
  /\ \A i \in 1 .. Len(delivered) : delivered[i] = [k \in 1 .. sent[i] |-> <<i, Header + k>>]
  /\ pc = "closed" => sent[Len(delivered) + 1] > MaxLen - Header

\* When all that was sent has come, and OnMsg's loop has seen it, nothing is
\* held back: TryDecode's 0 means a part of a message (Codec.h:6).
NothingHeld ==
  pc = "recv" /\ wire = <<>> /\ Size(m_output) = 0 /\ ~fresh => Len(delivered) = Len(sent)
=============================================================================
