--------------------------- MODULE SendPath_proof ---------------------------
(***************************************************************************)
(* Proofs about SendPath when nobody but the loop thread sends, for any    *)
(* messages, message length and send buffer: no buffer is overrun, what    *)
(* the network has is the beginning of what was accepted, and each step is *)
(* one of ByteStream or changes nothing of it.                             *)
(***************************************************************************)
EXTENDS SendPath, SequenceTheorems, TLAPS

Byte == Msgs \X Nat

----------------------------------------------------------------------------
(* Sequences.                                                              *)

\* What follows the first i elements.
From(s, i) == SubSeq(s, i + 1, Len(s))

\* What is left, up to the j-th element and from there on.
LEMMA Cut ==
  ASSUME NEW S, NEW s \in Seq(S), NEW i \in Nat, NEW j \in Nat, i <= j, j <= Len(s)
  PROVE  /\ SubSeq(s, i + 1, j) \in Seq(S) /\ From(s, i) \in Seq(S) /\ From(s, j) \in Seq(S)
         /\ Len(SubSeq(s, i + 1, j)) = j - i /\ Len(From(s, i)) = Len(s) - i
         /\ From(s, i) = SubSeq(s, i + 1, j) \o From(s, j)
<1> DEFINE a == i + 1
           b == j
           z == Len(s)
<1>1. /\ a \in Nat /\ b \in Nat /\ z \in Nat /\ a >= 1 /\ b >= a - 1 /\ b <= z
      /\ a \in 1 .. z + 1 /\ b \in a - 1 .. z /\ z \in b .. z
  OBVIOUS
<1>2. \A k \in 1 .. z : s[k] \in S
  OBVIOUS
<1>3. b - a + 1 = j - i /\ z - a + 1 = z - i /\ (~(a <= b) => j - i = 0) /\ (~(a <= z) => z - i = 0)
  OBVIOUS
<1>4. From(s, i) = SubSeq(s, a, z) /\ From(s, j) = SubSeq(s, b + 1, z)
      /\ SubSeq(s, i + 1, j) = SubSeq(s, a, b)
  BY DEF From
<1> HIDE DEF a, b, z
<1>5. /\ SubSeq(s, a, b) \in Seq(S)
      /\ Len(SubSeq(s, a, b)) = IF a <= b THEN b - a + 1 ELSE 0
  <2>1. \A k \in a .. b : s[k] \in S
    BY <1>1, <1>2
  <2> QED
    BY <1>1, <2>1, SubSeqProperties
<1>6. /\ SubSeq(s, a, z) \in Seq(S)
      /\ Len(SubSeq(s, a, z)) = IF a <= z THEN z - a + 1 ELSE 0
  <2>1. \A k \in a .. z : s[k] \in S
    BY <1>1, <1>2
  <2> QED
    BY <1>1, <2>1, SubSeqProperties
<1>7. SubSeq(s, b + 1, z) \in Seq(S)
  <2>1. \A k \in b + 1 .. z : s[k] \in S
    BY <1>1, <1>2
  <2> QED
    BY <1>1, <2>1, SubSeqProperties
<1>8. SubSeq(s, a, b) \o SubSeq(s, b + 1, z) = SubSeq(s, a, z)
  <2>1. a \in 1 .. Len(s) + 1 /\ b \in a - 1 .. Len(s) /\ z \in b .. Len(s)
    BY <1>1 DEF z
  <2> QED
    BY <2>1, ConcatAdjacentSubSeq, Zenon
<1>9. Len(SubSeq(s, a, b)) = j - i /\ Len(SubSeq(s, a, z)) = z - i
  BY <1>3, <1>5, <1>6
<1> QED
  BY <1>4, <1>5, <1>6, <1>7, <1>8, <1>9 DEF z

\* From the beginning.
LEMMA FromStart ==
  ASSUME NEW S, NEW s \in Seq(S)
  PROVE  From(s, 0) = s
BY SubSeqFull DEF From

\* The front of a sequence.
LEMMA FrontOf ==
  ASSUME NEW S, NEW p \in Seq(S), NEW r \in Seq(S)
  PROVE  /\ SubSeq(p \o r, 1, Len(p)) = p /\ SubSeq(p, 1, Len(p)) = p
         /\ Len(p \o r) = Len(p) + Len(r) /\ p \o r \in Seq(S)
<1> DEFINE t == p \o r
           n == Len(p)
           q == SubSeq(t, 1, n)
<1>1. /\ t \in Seq(S) /\ Len(t) = n + Len(r) /\ n \in Nat /\ Len(r) \in Nat
      /\ \A i \in 1 .. n + Len(r) : t[i] = IF i <= n THEN p[i] ELSE r[i - n]
  BY ConcatProperties
<1> HIDE DEF t
<1>2. q \in Seq(S) /\ Len(q) = n /\ \A i \in 1 .. n : q[i] = t[i]
  <2>1. \A i \in 1 .. n : t[i] \in S
    BY <1>1
  <2> QED
    BY <1>1, <2>1, SubSeqProperties
<1>3. q = p
  <2>1. \A i \in 1 .. n : q[i] = p[i]
    BY <1>1, <1>2
  <2> HIDE DEF q
  <2> QED
    BY <1>2, <2>1, SeqEqual DEF n
<1> QED
  BY <1>1, <1>3, SubSeqFull DEF t, q, n

\* The empty sequence, and no other, has no length.
LEMMA EmptyIs ==
  ASSUME NEW S, NEW s \in Seq(S)
  PROVE  s = <<>> <=> Len(s) = 0
OBVIOUS

----------------------------------------------------------------------------
(* The inductive invariant.                                                *)

Calls == [data : Seq(Byte), sent : Nat,
          kind : {"none", "buffer", "shared", "bytes", "write"}, nested : BOOLEAN]

Labels == {"idle", "send", "base", "consume", "rest", "writeCb", "disable"}

Types ==
  /\ channel \in BOOLEAN /\ writable \in BOOLEAN /\ broken \in BOOLEAN
  /\ room \in 0 .. SockBuf /\ unsent \subseteq Msgs
  /\ pc \in [Threads -> Labels] /\ call \in [Threads -> Calls]
  /\ output \in Seq(Byte) /\ accepted \in Seq(Byte) /\ wire \in Seq(Byte)
  /\ call[Loop].sent <= Len(call[Loop].data)
  /\ ~corrupt

\* The loop thread's call and where it is.
K == call[Loop]
P == pc[Loop]

InBase == P \in {"base", "consume"}

\* What has been accepted and not sent, in order.  A caller's buffer comes after
\* m_output; m_output itself, while it is sent from, is behind by what was sent.
Pending ==
  IF InBase /\ Own(Loop) THEN From(K.data, K.sent)
  ELSE IF (P = "send" /\ K.kind = "buffer") \/ InBase \/ (P = "rest" /\ ~Own(Loop))
       THEN output \o From(K.data, K.sent)
       ELSE output

InTurn ==
  /\ channel => accepted = wire \o Pending
  /\ ~channel => \E u \in Seq(Byte) : accepted = wire \o u

\* Which call is at which place.
Staged ==
  /\ P \in {"idle", "writeCb", "disable"} <=> K.kind = "none"
  /\ P = "send" => K.kind \in {"buffer", "shared"} /\ K.sent = 0
  /\ K.kind = "none" => ~K.nested
  /\ InBase /\ Own(Loop) => K.data = output
  /\ ~channel => P \in {"idle", "send"} /\ ~K.nested

\* A buffer of the caller's goes past m_output only if nothing waits there, or
\* if nothing goes anywhere.
PastNothing == InBase /\ ~Own(Loop) => output = <<>> \/ broken

\* Bytes that wait have the write channel on, but for SendMsg, which has still to
\* come to it, and for a connection that is broken.
Armed ==
  /\ channel /\ output # <<>> /\ K.kind # "shared" => writable \/ broken
  /\ P \in {"consume", "rest"} /\ K.kind = "bytes" /\ K.sent < Len(K.data)
       => writable \/ broken \/ output # <<>>

OutInv == Types /\ InTurn /\ Staged /\ PastNothing /\ Armed

----------------------------------------------------------------------------
(* What the steps have in common.                                          *)

\* The bytes of a message are a sequence of bytes.
LEMMA BytesType ==
  ASSUME NEW m \in Msgs
  PROVE  Bytes(m) \in Seq(Byte)
BY SendPathAssumption DEF Bytes, Byte

\* The loop thread's place and call after a step that sets them.
LEMMA Moved ==
  ASSUME Workers = {}, Types
  PROVE  /\ Loop \in Threads /\ P \in Labels /\ K \in Calls
         /\ \A l \in Labels : Goto(Loop, l) => pc' \in [Threads -> Labels] /\ P' = l
         /\ \A c \in Calls : call' = [call EXCEPT ![Loop] = c] =>
              call' \in [Threads -> Calls] /\ K' = c
         /\ Return(Loop) => /\ pc' \in [Threads -> Labels] /\ call' \in [Threads -> Calls]
                            /\ K' = NoCall /\ P' = IF K.nested THEN "disable" ELSE "idle"
<1>1. NoCall \in Calls
  BY DEF NoCall, Calls
<1>2. Loop \in Threads /\ pc \in [Threads -> Labels] /\ call \in [Threads -> Calls]
  BY DEF Threads, Types
<1>3. "disable" \in Labels /\ "idle" \in Labels
  BY DEF Labels
<1> QED
  BY <1>1, <1>2, <1>3 DEF Goto, Return, P, K

\* What is pending is a sequence of bytes.
LEMMA PendingType ==
  ASSUME Workers = {}, Types
  PROVE  Pending \in Seq(Byte) /\ From(K.data, K.sent) \in Seq(Byte)
<1>1. K.data \in Seq(Byte) /\ K.sent \in Nat /\ output \in Seq(Byte) /\ K.sent <= Len(K.data)
  BY Moved DEF Calls, Types, K
<1>2. From(K.data, K.sent) \in Seq(Byte)
  BY <1>1, Cut
<1> QED
  BY <1>1, <1>2, FrontOf DEF Pending

----------------------------------------------------------------------------
(* The calls.                                                              *)

\* SendMsg's bytes go behind all that is pending.
LEMMA SendMsgStep ==
  ASSUME Workers = {}, OutInv, NEW m \in Msgs, SendMsg(Loop, m)
  PROVE  OutInv'
<1> DEFINE c == [data |-> Bytes(m), sent |-> 0, kind |-> "shared", nested |-> P = "writeCb"]
<1>1. P \in {"idle", "writeCb"} /\ K.kind = "none"
  BY DEF OutInv, Staged, SendMsg, MayCall, P
<1>2. c \in Calls /\ c.kind = "shared" /\ c.sent = 0 /\ c.data = Bytes(m) /\ (c.nested <=> P = "writeCb")
      /\ Bytes(m) \in Seq(Byte)
  BY BytesType DEF Calls
<1>3. call' = [call EXCEPT ![Loop] = c] /\ Goto(Loop, "send")
  BY DEF SendMsg, Begin, P
<1> HIDE DEF c
<1>4. /\ pc' \in [Threads -> Labels] /\ call' \in [Threads -> Calls] /\ K' = c /\ P' = "send"
  BY <1>2, <1>3, Moved DEF OutInv, Labels
<1>5. /\ output' = output \o Bytes(m)
      /\ accepted' = IF channel THEN accepted \o Bytes(m) ELSE accepted
      /\ UNCHANGED <<channel, writable, corrupt, room, broken, wire>>
      /\ unsent' \subseteq Msgs
  BY DEF SendMsg, Begin, sockVars, OutInv, Types
<1>6. output' \in Seq(Byte) /\ accepted' \in Seq(Byte)
  BY <1>2, <1>5, FrontOf DEF OutInv, Types
<1>7. Types'
  <2>1. K'.sent <= Len(K'.data)
    BY <1>2, <1>4
  <2> QED
    BY <1>4, <1>5, <1>6, <2>1 DEF OutInv, Types, K
<1>8. Pending = output /\ Pending' = output'
  BY <1>1, <1>2, <1>4 DEF Pending, InBase, Own, K
<1>9. InTurn'
  <2>1. channel => accepted' = wire' \o Pending'
    <3>1. wire \in Seq(Byte) /\ output \in Seq(Byte) /\ Bytes(m) \in Seq(Byte)
      BY <1>2 DEF OutInv, Types
    <3>2. (wire \o output) \o Bytes(m) = wire \o (output \o Bytes(m))
      BY ONLY <3>1, ConcatAssociative
    <3> QED
      BY <1>5, <1>8, <3>2 DEF OutInv, InTurn
  <2> QED
    BY <1>5, <2>1 DEF OutInv, InTurn
<1>10. Staged' /\ PastNothing' /\ Armed'
  BY <1>1, <1>2, <1>4, <1>5 DEF OutInv, Staged, PastNothing, Armed, InBase
<1> QED
  BY <1>7, <1>9, <1>10 DEF OutInv

\* So do a buffer's, which stay with the call for now,
LEMMA SendBufferStep ==
  ASSUME Workers = {}, OutInv, NEW m \in Msgs, SendBuffer(m)
  PROVE  OutInv'
<1> DEFINE c == [data |-> Bytes(m), sent |-> 0, kind |-> "buffer", nested |-> P = "writeCb"]
<1>1. P \in {"idle", "writeCb"} /\ K.kind = "none" /\ channel
  BY DEF OutInv, Staged, SendBuffer, MayCall, P
<1>2. c \in Calls /\ c.kind = "buffer" /\ c.sent = 0 /\ c.data = Bytes(m)
      /\ Bytes(m) \in Seq(Byte)
  BY BytesType DEF Calls
<1>3. call' = [call EXCEPT ![Loop] = c] /\ Goto(Loop, "send")
  BY DEF SendBuffer, Begin, P
<1> HIDE DEF c
<1>4. /\ pc' \in [Threads -> Labels] /\ call' \in [Threads -> Calls] /\ K' = c /\ P' = "send"
  BY <1>2, <1>3, Moved DEF OutInv, Labels
<1>5. /\ accepted' = accepted \o Bytes(m)
      /\ UNCHANGED <<output, channel, writable, corrupt, room, broken, wire>>
      /\ unsent' \subseteq Msgs
  BY DEF SendBuffer, Begin, sockVars, OutInv, Types
<1>6. accepted' \in Seq(Byte)
  BY <1>2, <1>5, FrontOf DEF OutInv, Types
<1>7. Types'
  <2>1. K'.sent <= Len(K'.data)
    BY <1>2, <1>4
  <2> QED
    BY <1>4, <1>5, <1>6, <2>1 DEF OutInv, Types, K
<1>8. Pending = output /\ Pending' = output \o Bytes(m)
  <2>1. From(Bytes(m), 0) = Bytes(m)
    BY <1>2, FromStart
  <2> QED
    BY <1>1, <1>2, <1>4, <1>5, <2>1 DEF Pending, InBase, Own, K
<1>9. InTurn'
  <2>1. wire \in Seq(Byte) /\ output \in Seq(Byte) /\ Bytes(m) \in Seq(Byte)
    BY <1>2 DEF OutInv, Types
  <2>2. (wire \o output) \o Bytes(m) = wire \o (output \o Bytes(m))
    BY ONLY <2>1, ConcatAssociative
  <2> QED
    BY <1>1, <1>5, <1>8, <2>2 DEF OutInv, InTurn
<1>10. Staged' /\ PastNothing' /\ Armed'
  BY <1>1, <1>2, <1>4, <1>5 DEF OutInv, Staged, PastNothing, Armed, InBase
<1> QED
  BY <1>7, <1>9, <1>10 DEF OutInv

\* and plain bytes, which SendBase takes at once if nothing waits.
LEMMA SendBytesStep ==
  ASSUME Workers = {}, OutInv, NEW m \in Msgs, SendBytes(m)
  PROVE  OutInv'
<1> DEFINE c == [data |-> Bytes(m), sent |-> 0, kind |-> "bytes", nested |-> P = "writeCb"]
           l == IF output = <<>> THEN "base" ELSE "rest"
<1>1. P \in {"idle", "writeCb"} /\ K.kind = "none" /\ channel
  BY DEF OutInv, Staged, SendBytes, MayCall, P
<1>2. c \in Calls /\ c.kind = "bytes" /\ c.sent = 0 /\ c.data = Bytes(m)
      /\ Bytes(m) \in Seq(Byte)
  BY BytesType DEF Calls
<1>3. call' = [call EXCEPT ![Loop] = c] /\ Goto(Loop, l) /\ l \in Labels
  BY DEF SendBytes, Begin, P, Labels
<1>4. l \in {"base", "rest"} /\ (l = "base" <=> output = <<>>)
  OBVIOUS
<1> HIDE DEF c, l
<1>5. /\ pc' \in [Threads -> Labels] /\ call' \in [Threads -> Calls] /\ K' = c /\ P' = l
  BY <1>2, <1>3, Moved DEF OutInv
<1>6. /\ accepted' = accepted \o Bytes(m)
      /\ UNCHANGED <<output, channel, writable, corrupt, room, broken, wire>>
      /\ unsent' \subseteq Msgs
  BY DEF SendBytes, Begin, sockVars, OutInv, Types
<1>7. accepted' \in Seq(Byte)
  BY <1>2, <1>6, FrontOf DEF OutInv, Types
<1>8. Types'
  <2>1. K'.sent <= Len(K'.data)
    BY <1>2, <1>5
  <2> QED
    BY <1>5, <1>6, <1>7, <2>1 DEF OutInv, Types, K
<1>9. Pending = output /\ Pending' = output \o Bytes(m)
  <2>1. From(Bytes(m), 0) = Bytes(m)
    BY <1>2, FromStart
  <2> QED
    BY <1>1, <1>2, <1>4, <1>5, <1>6, <2>1 DEF Pending, InBase, Own, K
<1>10. InTurn'
  <2>1. wire \in Seq(Byte) /\ output \in Seq(Byte) /\ Bytes(m) \in Seq(Byte)
    BY <1>2 DEF OutInv, Types
  <2>2. (wire \o output) \o Bytes(m) = wire \o (output \o Bytes(m))
    BY ONLY <2>1, ConcatAssociative
  <2> QED
    BY <1>1, <1>6, <1>9, <2>2 DEF OutInv, InTurn
<1>11. Staged' /\ PastNothing' /\ Armed'
  <2>1. P' \in {"base", "rest"} /\ (P' = "base" <=> output' = <<>>) /\ K'.kind = "bytes"
    BY <1>2, <1>4, <1>5, <1>6
  <2>2. Staged'
    BY <1>1, <1>6, <2>1 DEF Staged, InBase, Own, K
  <2>3. PastNothing' /\ Armed'
    BY <1>1, <1>6, <2>1 DEF OutInv, PastNothing, Armed, InBase
  <2> QED
    BY <2>2, <2>3
<1> QED
  BY <1>8, <1>10, <1>11 DEF OutInv

\* A step that only moves the loop thread, or ends its call, and leaves what is
\* pending as it was.
LEMMA SamePending ==
  ASSUME Workers = {}, OutInv, Types', Pending' = Pending,
         UNCHANGED <<channel, accepted, wire>>
  PROVE  InTurn'
BY DEF OutInv, InTurn

\* Send gives the bytes to SendBase, or to the output behind those that wait.
LEMMA SendStep ==
  ASSUME Workers = {}, OutInv, Send(Loop)
  PROVE  OutInv'
<1>1. P = "send" /\ K.kind \in {"buffer", "shared"} /\ K.sent = 0
  BY DEF OutInv, Staged, Send, P
<1>2. /\ UNCHANGED <<channel, writable, corrupt, room, broken, wire, accepted, unsent>>
      /\ Types
  BY DEF Send, sockVars, OutInv
<1>3. /\ K \in Calls /\ Loop \in Threads /\ K.data \in Seq(Byte) /\ output \in Seq(Byte)
      /\ From(K.data, 0) = K.data
  <2>1. K \in Calls /\ Loop \in Threads
    BY <1>2, Moved
  <2>2. K.data \in Seq(Byte)
    BY <2>1 DEF Calls
  <2> QED
    BY <1>2, <2>1, <2>2, FromStart DEF Types
<1>4. NoCall.kind = "none" /\ NoCall.sent = 0 /\ NoCall.data = <<>> /\ NoCall.nested = FALSE
  BY DEF NoCall
<1>5. CASE ~channel /\ Return(Loop) /\ UNCHANGED output
  <2>1. /\ pc' \in [Threads -> Labels] /\ call' \in [Threads -> Calls] /\ K' = NoCall /\ P' = "idle"
    BY <1>2, <1>5, Moved DEF OutInv, Staged
  <2>2. Types'
    BY <1>2, <1>4, <1>5, <2>1 DEF Types, K
  <2>3. InTurn' /\ Staged' /\ PastNothing' /\ Armed'
    BY <1>2, <1>4, <1>5, <2>1 DEF OutInv, InTurn, Staged, PastNothing, Armed, InBase
  <2> QED
    BY <2>2, <2>3 DEF OutInv
<1>6. CASE channel /\ Absorbs(Loop) /\ output' = output \o K.data /\ Return(Loop)
  <2>1. /\ pc' \in [Threads -> Labels] /\ call' \in [Threads -> Calls] /\ K' = NoCall
        /\ P' \in {"idle", "disable"}
    BY <1>2, <1>6, Moved
  <2>2. output' \in Seq(Byte)
    BY <1>3, <1>6, FrontOf
  <2>3. Types'
    BY <1>2, <1>4, <2>1, <2>2 DEF Types, K
  <2>4. K.kind = "buffer" /\ writable
    BY <1>6 DEF Absorbs, K
  <2>5. Pending' = Pending
    BY <1>1, <1>3, <1>4, <1>6, <2>1, <2>4 DEF Pending, InBase, Own, K
  <2>6. InTurn'
    BY <1>2, <2>3, <2>5, SamePending
  <2>7. Staged' /\ PastNothing' /\ Armed'
    BY <1>2, <1>4, <1>6, <2>1, <2>4 DEF OutInv, Staged, PastNothing, Armed, InBase
  <2> QED
    BY <2>3, <2>6, <2>7 DEF OutInv
<1>7. CASE channel /\ K.kind = "buffer" /\ ~Absorbs(Loop) /\ Goto(Loop, "base") /\ UNCHANGED <<output, call>>
  <2>1. /\ pc' \in [Threads -> Labels] /\ P' = "base" /\ K' = K
    BY <1>2, <1>7, Moved DEF Labels, K
  <2>2. Types'
    BY <1>2, <1>7, <2>1 DEF Types
  <2>3. Pending' = Pending
    BY <1>1, <1>7, <2>1 DEF Pending, InBase, Own, K
  <2>4. InTurn'
    BY <1>2, <2>2, <2>3, SamePending
  <2>5. ~writable
    BY <1>7 DEF Absorbs, K
  <2>6. Staged' /\ PastNothing' /\ Armed'
    BY <1>1, <1>2, <1>7, <2>1, <2>5 DEF OutInv, Staged, PastNothing, Armed, InBase, Own, K
  <2> QED
    BY <2>2, <2>4, <2>6 DEF OutInv
<1>8. CASE channel /\ K.kind = "shared" /\ call' = [call EXCEPT ![Loop].data = output]
           /\ Goto(Loop, "base") /\ UNCHANGED output
  <2> DEFINE c == [K EXCEPT !.data = output]
  <2>1. /\ c \in Calls /\ c.data = output /\ c.sent = 0 /\ c.kind = "shared" /\ c.nested = K.nested
        /\ call' = [call EXCEPT ![Loop] = c]
    BY <1>1, <1>3, <1>8 DEF Calls, K
  <2> HIDE DEF c
  <2>2. /\ pc' \in [Threads -> Labels] /\ call' \in [Threads -> Calls] /\ P' = "base" /\ K' = c
    BY <1>2, <1>8, <2>1, Moved DEF Labels
  <2>3. Types'
    <3>1. K'.sent <= Len(K'.data)
      BY <1>3, <2>1, <2>2
    <3> QED
      BY <1>2, <1>8, <2>2, <3>1 DEF Types, K
  <2>4. Pending' = Pending
    <3>1. From(output, 0) = output
      BY <1>3, FromStart
    <3> QED
      BY <1>1, <1>8, <2>1, <2>2, <3>1 DEF Pending, InBase, Own, K
  <2>5. InTurn'
    BY <1>2, <2>3, <2>4, SamePending
  <2>6. Staged' /\ PastNothing' /\ Armed'
    BY <1>1, <1>2, <1>8, <2>1, <2>2 DEF OutInv, Staged, PastNothing, Armed, InBase, Own, K
  <2> QED
    BY <2>3, <2>5, <2>6 DEF OutInv
<1> QED
  BY <1>5, <1>6, <1>7, <1>8 DEF Send, K

\* HandleWrite sends from m_output all that is pending.
LEMMA HandleWriteStep ==
  ASSUME Workers = {}, OutInv, HandleWrite
  PROVE  OutInv'
<1> DEFINE c == [data |-> output, sent |-> 0, kind |-> "write", nested |-> FALSE]
<1>1. /\ P = "idle" /\ K.kind = "none" /\ channel /\ writable
      /\ UNCHANGED <<output, channel, writable, corrupt, room, broken, wire, accepted, unsent>>
  BY DEF OutInv, Staged, HandleWrite, P, sockVars
<1>2. output \in Seq(Byte) /\ Types
  BY DEF OutInv, Types
<1>3. c \in Calls /\ c.kind = "write" /\ c.sent = 0 /\ c.data = output
  BY <1>2 DEF Calls
<1>4. call' = [call EXCEPT ![Loop] = c] /\ Goto(Loop, "base")
  BY DEF HandleWrite
<1> HIDE DEF c
<1>5. /\ pc' \in [Threads -> Labels] /\ call' \in [Threads -> Calls] /\ K' = c /\ P' = "base"
  BY <1>2, <1>3, <1>4, Moved DEF Labels
<1>6. Types'
  <2>1. K'.sent <= Len(K'.data)
    BY <1>2, <1>3, <1>5
  <2> QED
    BY <1>1, <1>2, <1>5, <2>1 DEF Types, K
<1>7. Pending' = Pending
  <2>1. From(output, 0) = output
    BY <1>2, FromStart
  <2> QED
    BY <1>1, <1>3, <1>5, <2>1 DEF Pending, InBase, Own, K
<1>8. InTurn'
  BY <1>1, <1>6, <1>7, SamePending
<1>9. Staged' /\ PastNothing' /\ Armed'
  BY <1>1, <1>3, <1>5 DEF OutInv, Staged, PastNothing, Armed, InBase, Own, K
<1> QED
  BY <1>6, <1>8, <1>9 DEF OutInv

----------------------------------------------------------------------------
(* SendBase and what follows it.                                           *)

\* In SendBase the connection is open, and what is pending begins with what is
\* left of the call; unless the connection is broken that is all of it.
LEMMA AtBase ==
  ASSUME Workers = {}, OutInv, InBase
  PROVE  /\ channel /\ ~corrupt
         /\ P \in {"base", "consume"} /\ K \in Calls /\ K.data \in Seq(Byte) /\ K.sent \in Nat
         /\ K.sent <= Len(K.data) /\ Len(K.data) \in Nat
         /\ K.kind \in {"buffer", "shared", "bytes", "write"}
         /\ ~broken => Pending = From(K.data, K.sent)
<1>1. Types /\ K \in Calls /\ K.sent <= Len(K.data) /\ ~corrupt
  BY Moved DEF OutInv, Types, K
<1>2. K.data \in Seq(Byte) /\ K.sent \in Nat
      /\ K.kind \in {"none", "buffer", "shared", "bytes", "write"}
  BY <1>1 DEF Calls
<1>3. channel /\ P \in {"base", "consume"} /\ K.kind # "none"
  BY DEF InBase, OutInv, Staged
<1>4. From(K.data, K.sent) \in Seq(Byte)
  BY <1>1, PendingType
<1>5. <<>> \o From(K.data, K.sent) = From(K.data, K.sent)
  BY <1>4, ConcatEmptySeq
<1>6. ~broken => Pending = From(K.data, K.sent)
  BY <1>3, <1>5 DEF OutInv, PastNothing, Pending, InBase
<1> QED
  BY <1>1, <1>2, <1>3, <1>6

\* What ::send takes comes from the beginning of what is pending.
LEMMA WriteStep ==
  ASSUME Workers = {}, OutInv, Write(Loop)
  PROVE  /\ OutInv'
         /\ \E x \in Seq(Byte), r \in Seq(Byte) :
              /\ x # <<>> /\ wire' = wire \o x /\ accepted = (wire \o x) \o r
<1>1. P = "base" /\ ~broken /\ InBase
      /\ UNCHANGED <<output, channel, writable, broken, unsent, pc, accepted>>
  BY DEF Write, P, InBase
<1>2. /\ channel /\ ~corrupt /\ K \in Calls /\ K.data \in Seq(Byte) /\ K.sent \in Nat
      /\ K.sent <= Len(K.data) /\ Len(K.data) \in Nat
      /\ K.kind \in {"buffer", "shared", "bytes", "write"}
      /\ Pending = From(K.data, K.sent) /\ Types
      /\ room \in Nat /\ room <= SockBuf /\ SockBuf \in Nat
  BY <1>1, AtBase, SendPathAssumption DEF OutInv, Types
<1>3. PICK n \in 1 .. Left(Loop) :
        /\ n <= room
        /\ wire' = wire \o SubSeq(K.data, K.sent + 1, K.sent + n)
        /\ room' = room - n
        /\ call' = [call EXCEPT ![Loop].sent = @ + n]
  BY DEF Write, K
<1>4. n \in Nat /\ n >= 1 /\ K.sent + n <= Len(K.data) /\ room' \in 0 .. SockBuf
  <2> DEFINE d == Len(K.data)
             e == K.sent
  <2>1. Left(Loop) = d - e /\ d \in Nat /\ e \in Nat /\ n \in 1 .. Left(Loop)
    BY <1>2, <1>3 DEF Left, K
  <2>2. room' = room - n /\ n <= room
    BY <1>3
  <2> HIDE DEF d, e
  <2>3. n \in Nat /\ n >= 1 /\ e + n <= d
    BY <2>1
  <2>4. room' \in 0 .. SockBuf
    BY <1>2, <2>2, <2>3
  <2> QED
    BY <2>3, <2>4 DEF d, e
<1> DEFINE c == [K EXCEPT !.sent = K.sent + n]
           x == SubSeq(K.data, K.sent + 1, K.sent + n)
           r == From(K.data, K.sent + n)
<1>5. /\ c \in Calls /\ c.data = K.data /\ c.sent = K.sent + n /\ c.kind = K.kind /\ c.nested = K.nested
      /\ call' = [call EXCEPT ![Loop] = c]
  <2>1. c \in Calls /\ c.data = K.data /\ c.sent = K.sent + n /\ c.kind = K.kind /\ c.nested = K.nested
    <3>1. K.sent + n \in Nat
      BY <1>2, <1>4
    <3> QED
      BY <1>2, <3>1 DEF Calls
  <2>2. call' = [call EXCEPT ![Loop] = c]
    BY <1>3 DEF K
  <2> QED
    BY <2>1, <2>2
<1>6. x \in Seq(Byte) /\ r \in Seq(Byte) /\ Len(x) = n /\ Pending = x \o r
  <2>1. K.data \in Seq(Byte) /\ K.sent \in Nat /\ n \in Nat /\ K.sent + n <= Len(K.data)
    BY <1>2, <1>4
  <2>2. /\ SubSeq(K.data, K.sent + 1, K.sent + n) \in Seq(Byte) /\ From(K.data, K.sent + n) \in Seq(Byte)
        /\ Len(SubSeq(K.data, K.sent + 1, K.sent + n)) = n
        /\ From(K.data, K.sent)
             = SubSeq(K.data, K.sent + 1, K.sent + n) \o From(K.data, K.sent + n)
    <3> DEFINE d == K.data
               e == K.sent
               f == K.sent + n
    <3>1. d \in Seq(Byte) /\ e \in Nat /\ f \in Nat /\ e <= f /\ f <= Len(d) /\ f - e = n
      BY <2>1
    <3> HIDE DEF d, e, f
    <3>2. /\ SubSeq(d, e + 1, f) \in Seq(Byte) /\ From(d, f) \in Seq(Byte)
          /\ Len(SubSeq(d, e + 1, f)) = f - e
          /\ From(d, e) = SubSeq(d, e + 1, f) \o From(d, f)
      BY ONLY <3>1, Cut
    <3> QED
      BY <3>1, <3>2 DEF d, e, f
  <2> QED
    BY <1>2, <2>2
<1>7. x # <<>> /\ wire' = wire \o x
  <2>1. wire' = wire \o x
    BY <1>3
  <2> HIDE DEF x
  <2> QED
    BY <1>4, <1>6, <2>1, EmptyIs
<1>8. r = From(c.data, c.sent)
  BY <1>5
<1> HIDE DEF c, x, r
<1>9. call' \in [Threads -> Calls] /\ K' = c /\ P' = P
  BY <1>1, <1>2, <1>5, Moved DEF P
<1>10. wire \in Seq(Byte) /\ wire' \in Seq(Byte)
  BY <1>2, <1>6, <1>7, FrontOf DEF Types
<1>11. accepted = (wire \o x) \o r
  <2>1. wire \in Seq(Byte) /\ x \in Seq(Byte) /\ r \in Seq(Byte)
    BY <1>6, <1>10
  <2>2. (wire \o x) \o r = wire \o (x \o r)
    BY ONLY <2>1, ConcatAssociative
  <2> QED
    BY <1>2, <1>6, <2>2 DEF OutInv, InTurn
<1>12. Types'
  <2>1. K'.sent <= Len(K'.data)
    BY <1>4, <1>5, <1>9
  <2>2. ~corrupt'
    BY <1>2 DEF Write
  <2> QED
    BY <1>1, <1>2, <1>4, <1>9, <1>10, <2>1, <2>2 DEF Types, K
<1>13. Pending' = r
  <2>1. CASE Own(Loop)
    BY <1>1, <1>5, <1>8, <1>9, <2>1 DEF Pending, InBase, Own, K
  <2>2. CASE ~Own(Loop)
    <3>1. output = <<>>
      BY <1>1, <2>2 DEF OutInv, PastNothing
    <3>2. <<>> \o r = r
      BY <1>6, ConcatEmptySeq
    <3> QED
      BY <1>1, <1>5, <1>8, <1>9, <2>2, <3>1, <3>2 DEF Pending, InBase, Own, K
  <2> QED
    BY <2>1, <2>2
<1>14. InTurn'
  BY <1>1, <1>2, <1>7, <1>11, <1>13 DEF InTurn
<1>15. Staged' /\ PastNothing' /\ Armed'
  BY <1>1, <1>2, <1>5, <1>9 DEF OutInv, Staged, PastNothing, Armed, InBase, Own, K
<1> QED
  BY <1>6, <1>7, <1>11, <1>12, <1>14, <1>15 DEF OutInv

\* When ::send takes nothing more, all is sent, or the write channel is on, or the
\* connection is broken.
LEMMA BaseStep ==
  ASSUME Workers = {}, OutInv, WouldBlock(Loop) \/ BaseEnds(Loop)
  PROVE  OutInv'
<1>1. P = "base" /\ InBase /\ UNCHANGED <<output, channel, unsent, call, accepted, room, broken, wire>>
      /\ Goto(Loop, "consume")
  BY DEF WouldBlock, BaseEnds, P, InBase, sockVars
<1>2. Types /\ channel /\ ~corrupt /\ K.sent \in Nat /\ Len(K.data) \in Nat /\ K.sent <= Len(K.data)
      /\ K.kind # "none"
  BY <1>1, AtBase DEF OutInv
<1>3. /\ writable' \in BOOLEAN /\ ~corrupt' /\ (writable => writable')
      /\ writable' \/ broken \/ K.sent = Len(K.data)
  <2>1. CASE WouldBlock(Loop)
    BY <1>2, <2>1 DEF WouldBlock
  <2>2. CASE BaseEnds(Loop)
    <3>1. writable' = writable /\ ~corrupt' /\ (Left(Loop) = 0 \/ broken)
      BY <1>2, <2>2 DEF BaseEnds
    <3>2. Left(Loop) = 0 => K.sent = Len(K.data)
      BY <1>2 DEF Left, K
    <3> QED
      BY <1>2, <3>1, <3>2 DEF Types
  <2> QED
    BY <2>1, <2>2
<1>4. pc' \in [Threads -> Labels] /\ P' = "consume" /\ K' = K
  BY <1>1, <1>2, Moved DEF Labels, K
<1>5. Types'
  BY <1>1, <1>2, <1>3, <1>4 DEF Types
<1>6. Pending' = Pending
  BY <1>1, <1>4 DEF Pending, InBase, Own, K
<1>7. InTurn'
  BY <1>1, <1>5, <1>6, SamePending
<1>8. Staged' /\ PastNothing'
  BY <1>1, <1>2, <1>4 DEF OutInv, Staged, PastNothing, InBase, Own, K
<1>9. Armed'
  BY <1>1, <1>2, <1>3, <1>4 DEF OutInv, Armed
<1> QED
  BY <1>5, <1>7, <1>8, <1>9 DEF OutInv

\* consume takes from m_output just what the call has sent of it.
LEMMA ConsumeStep ==
  ASSUME Workers = {}, OutInv, Consume(Loop)
  PROVE  OutInv'
<1>1. /\ P = "consume" /\ InBase /\ Goto(Loop, "rest")
      /\ UNCHANGED <<channel, writable, unsent, call, accepted, room, broken, wire>>
  BY DEF Consume, P, InBase, sockVars
<1>2. /\ channel /\ ~corrupt /\ K.sent \in Nat /\ Len(K.data) \in Nat /\ K.sent <= Len(K.data)
      /\ K.data \in Seq(Byte) /\ K.kind # "none" /\ Types /\ output \in Seq(Byte)
  BY <1>1, AtBase DEF OutInv, Types
<1>3. pc' \in [Threads -> Labels] /\ P' = "rest" /\ K' = K
  BY <1>1, <1>2, Moved DEF Labels, K
<1>4. CASE Own(Loop)
  <2>1. K.data = output
    BY <1>1, <1>4 DEF OutInv, Staged
  <2>2. output' = From(output, K.sent) /\ ~corrupt'
    <3>1. /\ output' = SubSeq(output, K.sent + 1, Len(output))
          /\ corrupt' = (corrupt \/ K.sent > Len(output))
      BY <1>4 DEF Consume, K
    <3>2. ~(K.sent > Len(output))
      BY <1>2, <2>1
    <3> QED
      BY <1>2, <3>1, <3>2 DEF From
  <2>3. output' \in Seq(Byte)
    BY <1>2, <2>1, <2>2, Cut
  <2>4. Types'
    BY <1>1, <1>2, <1>3, <2>2, <2>3 DEF Types
  <2>5. Pending' = Pending
    BY <1>1, <1>3, <1>4, <2>1, <2>2 DEF Pending, InBase, Own, K
  <2>6. InTurn'
    BY <1>1, <2>4, <2>5, SamePending
  <2>7. output = <<>> => output' = <<>>
    <3>1. output = <<>> => K.sent = 0
      BY <1>2, <2>1
    <3> QED
      BY <1>2, <2>2, <3>1, FromStart
  <2>8. Staged' /\ PastNothing' /\ Armed'
    BY <1>1, <1>2, <1>3, <1>4, <2>7 DEF OutInv, Staged, PastNothing, Armed, InBase, Own, K
  <2> QED
    BY <2>4, <2>6, <2>8 DEF OutInv
<1>5. CASE ~Own(Loop)
  <2>1. output' = output /\ ~corrupt'
    BY <1>2, <1>5 DEF Consume
  <2>2. Types'
    BY <1>1, <1>2, <1>3, <2>1 DEF Types
  <2>3. Pending' = Pending
    BY <1>1, <1>3, <1>5, <2>1 DEF Pending, InBase, Own, K
  <2>4. InTurn'
    BY <1>1, <2>2, <2>3, SamePending
  <2>5. Staged' /\ PastNothing' /\ Armed'
    BY <1>1, <1>2, <1>3, <1>5, <2>1 DEF OutInv, Staged, PastNothing, Armed, InBase, Own, K
  <2> QED
    BY <2>2, <2>4, <2>5 DEF OutInv
<1> QED
  BY <1>4, <1>5

\* What the call leaves waits in m_output, with the write channel on.
LEMMA RestStep ==
  ASSUME Workers = {}, OutInv, Rest(Loop)
  PROVE  OutInv'
<1>1. /\ P = "rest" /\ K.kind # "write" /\ ~InBase /\ Types
      /\ UNCHANGED <<channel, unsent, corrupt, accepted, room, broken, wire>>
  BY DEF Rest, P, K, InBase, sockVars, OutInv
<1>2. channel /\ K.kind # "none" /\ writable \in BOOLEAN /\ ~corrupt
  BY <1>1 DEF OutInv, Staged, Types
<1>3. /\ K \in Calls /\ K.data \in Seq(Byte) /\ K.sent \in Nat /\ output \in Seq(Byte)
      /\ K.sent <= Len(K.data) /\ K.kind \in {"shared", "buffer", "bytes"}
      /\ Len(K.data) \in Nat
  <2>1. K \in Calls
    BY <1>1, Moved
  <2> QED
    BY <1>1, <1>2, <2>1 DEF Calls, Types, K
<1>4. /\ pc' \in [Threads -> Labels] /\ call' \in [Threads -> Calls] /\ K' = NoCall
      /\ P' \in {"idle", "disable"}
  <2>1. Return(Loop)
    BY DEF Rest
  <2> QED
    BY <1>1, <2>1, Moved
<1>5. NoCall.kind = "none" /\ NoCall.sent = 0 /\ NoCall.data = <<>> /\ NoCall.nested = FALSE
  BY DEF NoCall
<1>6. From(K.data, K.sent) \in Seq(Byte) /\ Len(From(K.data, K.sent)) = Len(K.data) - K.sent
  BY <1>3, Cut
<1>7. Left(Loop) = Len(K.data) - K.sent
  BY DEF Left, K
<1>8. output' = IF K.kind = "shared" THEN output ELSE output \o From(K.data, K.sent)
  BY DEF Rest, From, K
<1>9. output' \in Seq(Byte)
  BY <1>3, <1>6, <1>8, FrontOf
<1>10. /\ writable' \in BOOLEAN /\ (writable => writable')
       /\ K.kind = "shared" /\ output # <<>> => writable'
       /\ K.kind = "buffer" /\ Left(Loop) > 0 => writable'
  BY <1>2 DEF Rest, K
<1>11. Types'
  BY <1>1, <1>2, <1>4, <1>5, <1>9, <1>10 DEF Types, K
<1>12. Pending' = Pending
  BY <1>1, <1>3, <1>4, <1>5, <1>8 DEF Pending, InBase, Own, K
<1>13. InTurn'
  BY <1>1, <1>11, <1>12, SamePending
<1>14. Staged' /\ PastNothing'
  BY <1>1, <1>2, <1>4, <1>5 DEF Staged, PastNothing, InBase
<1>15. output' # <<>> => writable' \/ broken
  <2>1. CASE K.kind = "shared"
    BY <1>8, <1>10, <2>1
  <2>2. CASE Left(Loop) > 0
    <3>1. K.kind = "bytes" => writable \/ broken
      <4>1. K.kind = "bytes" => K.sent < Len(K.data)
        BY <1>3, <1>7, <2>2
      <4> QED
        BY <1>1, <1>2, <4>1 DEF OutInv, Armed
    <3> QED
      BY <1>3, <1>8, <1>10, <2>2, <3>1
  <2>3. CASE K.kind # "shared" /\ ~(Left(Loop) > 0)
    <3>1. Len(From(K.data, K.sent)) = 0
      BY <1>3, <1>6, <1>7, <2>3
    <3>2. From(K.data, K.sent) = <<>>
      BY <1>6, <3>1, EmptyIs
    <3>3. output' = output
      BY <1>3, <1>8, <2>3, <3>2, ConcatEmptySeq
    <3> QED
      BY <1>2, <1>10, <2>3, <3>3 DEF OutInv, Armed
  <2> QED
    BY <2>1, <2>2, <2>3
<1>16. Armed'
  BY <1>1, <1>4, <1>15 DEF Armed
<1> QED
  BY <1>11, <1>13, <1>14, <1>16 DEF OutInv

\* HandleWrite ends with m_output as it is.
LEMMA WrittenStep ==
  ASSUME Workers = {}, OutInv, Written
  PROVE  OutInv'
<1>1. /\ P = "rest" /\ K.kind = "write" /\ Types /\ channel
      /\ UNCHANGED <<output, channel, writable, unsent, corrupt, accepted, room, broken, wire>>
  BY DEF Written, P, K, sockVars, OutInv, Staged
<1>2. NoCall \in Calls /\ NoCall.kind = "none" /\ NoCall.sent = 0 /\ NoCall.data = <<>> /\ ~NoCall.nested
  BY DEF NoCall, Calls
<1>3. /\ pc' \in [Threads -> Labels] /\ call' \in [Threads -> Calls] /\ K' = NoCall
      /\ P' \in {"writeCb", "disable"}
  <2>1. \E l \in {"writeCb", "disable"} : Goto(Loop, l)
    BY DEF Written
  <2>2. call' = [call EXCEPT ![Loop] = NoCall]
    BY DEF Written
  <2>3. "writeCb" \in Labels /\ "disable" \in Labels
    BY DEF Labels
  <2> QED
    BY <1>1, <1>2, <2>1, <2>2, <2>3, Moved
<1>4. Types'
  BY <1>1, <1>2, <1>3 DEF Types, K
<1>5. Pending' = Pending
  BY <1>1, <1>2, <1>3 DEF Pending, InBase, Own, K
<1>6. InTurn'
  BY <1>1, <1>4, <1>5, SamePending
<1>7. Staged' /\ PastNothing' /\ Armed'
  BY <1>1, <1>2, <1>3 DEF OutInv, Staged, PastNothing, Armed, InBase
<1> QED
  BY <1>4, <1>6, <1>7 DEF OutInv

\* WriteCbEnds and Disable: the call has ended, and so has the turn of m_writeCb.
LEMMA DisableStep ==
  ASSUME Workers = {}, OutInv, WriteCbEnds \/ Disable
  PROVE  OutInv'
<1>1. /\ P \in {"writeCb", "disable"} /\ K.kind = "none" /\ Types /\ channel
      /\ UNCHANGED <<output, channel, unsent, call, corrupt, accepted, room, broken, wire>>
  BY DEF WriteCbEnds, Disable, P, K, sockVars, OutInv, Staged
<1>2. writable' \in BOOLEAN /\ (writable /\ output # <<>> => writable')
  BY <1>1 DEF WriteCbEnds, Disable, HasOutput, Types
<1>3. pc' \in [Threads -> Labels] /\ P' \in {"idle", "disable"} /\ K' = K
  <2>1. Goto(Loop, "idle") \/ Goto(Loop, "disable")
    BY DEF WriteCbEnds, Disable
  <2>2. "idle" \in Labels /\ "disable" \in Labels
    BY DEF Labels
  <2> QED
    BY <1>1, <2>1, <2>2, Moved DEF K
<1>4. Types'
  BY <1>1, <1>2, <1>3 DEF Types
<1>5. Pending' = Pending
  BY <1>1, <1>3 DEF Pending, InBase, Own, K
<1>6. InTurn'
  BY <1>1, <1>4, <1>5, SamePending
<1>7. Staged' /\ PastNothing' /\ Armed'
  BY <1>1, <1>2, <1>3 DEF OutInv, Staged, PastNothing, Armed, InBase
<1> QED
  BY <1>4, <1>6, <1>7 DEF OutInv

----------------------------------------------------------------------------
(* The end of the connection, and the network.                             *)

\* Nothing is sent of what is pending when the channel is deleted.
LEMMA CleanupStep ==
  ASSUME Workers = {}, OutInv, Cleanup
  PROVE  OutInv'
<1>1. /\ P = "idle" /\ K.kind = "none" /\ ~K.nested /\ Types /\ channel /\ channel' = FALSE
      /\ writable' = FALSE
      /\ UNCHANGED <<output, unsent, pc, call, corrupt, accepted, room, broken, wire>>
  BY DEF Cleanup, P, K, sockVars, threadVars, OutInv, Staged
<1>2. Types' /\ P' = P /\ K' = K
  BY <1>1 DEF Types, P, K
<1>3. Pending \in Seq(Byte) /\ accepted = wire \o Pending
  BY <1>1, PendingType DEF OutInv, InTurn
<1>4. InTurn'
  BY <1>1, <1>3 DEF InTurn
<1>5. Staged' /\ PastNothing' /\ Armed'
  BY <1>1, <1>2 DEF OutInv, Staged, PastNothing, Armed, InBase
<1> QED
  BY <1>2, <1>4, <1>5 DEF OutInv

\* Drain and Break, and a step that changes nothing.
LEMMA NetworkStep ==
  ASSUME Workers = {}, OutInv, Drain \/ Break \/ UNCHANGED vars
  PROVE  OutInv'
<1>1. /\ UNCHANGED <<output, channel, writable, unsent, pc, call, corrupt, accepted, wire>>
      /\ broken => broken'
  BY DEF Drain, Break, vars, sockVars, threadVars
<1>2. room' \in 0 .. SockBuf /\ broken' \in BOOLEAN
  <2>1. room \in 0 .. SockBuf /\ broken \in BOOLEAN /\ SockBuf \in Nat
    BY SendPathAssumption DEF OutInv, Types
  <2>2. CASE Drain
    BY <2>1, <2>2 DEF Drain
  <2>3. CASE Break
    BY <2>1, <2>3 DEF Break
  <2>4. CASE UNCHANGED vars
    BY <2>1, <2>4 DEF vars, sockVars
  <2> QED
    BY <2>2, <2>3, <2>4
<1>3. Types' /\ P' = P /\ K' = K /\ Pending' = Pending
  BY <1>1, <1>2 DEF OutInv, Types, P, K, Pending, InBase, Own
<1>4. InTurn'
  BY <1>1, <1>3, SamePending
<1>5. Staged' /\ PastNothing' /\ Armed'
  BY <1>1, <1>3 DEF OutInv, Staged, PastNothing, Armed, InBase, Own
<1> QED
  BY <1>3, <1>4, <1>5 DEF OutInv

----------------------------------------------------------------------------
(* The theorems.                                                           *)

\* OutInv holds at first,
LEMMA OutStart ==
  ASSUME Workers = {}, Init
  PROVE  OutInv
<1>1. Loop \in Threads /\ K = NoCall /\ P = "idle" /\ NoCall \in Calls /\ "idle" \in Labels
      /\ NoCall.kind = "none" /\ NoCall.sent = 0 /\ NoCall.data = <<>> /\ ~NoCall.nested
  BY DEF Threads, Init, K, P, NoCall, Calls, Labels
<1>2. Types
  <2>1. pc \in [Threads -> Labels] /\ call \in [Threads -> Calls]
    BY <1>1 DEF Init
  <2>2. <<>> \in Seq(Byte) /\ Len(<<>>) = 0
    OBVIOUS
  <2>3. SockBuf \in 0 .. SockBuf
    BY SendPathAssumption
  <2>4. channel \in BOOLEAN /\ writable \in BOOLEAN /\ broken \in BOOLEAN /\ ~corrupt
    BY DEF Init
  <2>5. room \in 0 .. SockBuf /\ unsent \subseteq Msgs
    BY <2>3 DEF Init
  <2>6. output \in Seq(Byte) /\ accepted \in Seq(Byte) /\ wire \in Seq(Byte)
    BY <2>2 DEF Init
  <2>7. K.sent <= Len(K.data)
    BY <1>1, <2>2
  <2> QED
    BY <2>1, <2>4, <2>5, <2>6, <2>7 DEF Types, K
<1>3. Pending = <<>> /\ accepted = <<>> /\ wire = <<>>
  BY <1>1 DEF Init, Pending, InBase, Own, K
<1>4. InTurn
  BY <1>3, <1>1 DEF Init, InTurn
<1>5. Staged /\ PastNothing /\ Armed
  BY <1>1 DEF Init, Staged, PastNothing, Armed, InBase
<1> QED
  BY <1>2, <1>4, <1>5 DEF OutInv

\* With no workers every step is the loop thread's or the network's.
LEMMA OutNext ==
  ASSUME Workers = {}, Next
  PROVE  \/ \E m \in Msgs : SendMsg(Loop, m) \/ SendBuffer(m) \/ SendBytes(m)
         \/ Send(Loop) \/ HandleWrite \/ Write(Loop) \/ WouldBlock(Loop) \/ BaseEnds(Loop)
         \/ Consume(Loop) \/ Rest(Loop) \/ Written \/ WriteCbEnds \/ Disable \/ Cleanup
         \/ Drain \/ Break
BY DEF Next, LoopStep, Step, Threads

\* and every step keeps it.
LEMMA OutStep ==
  ASSUME Workers = {}, OutInv, [Next]_vars
  PROVE  OutInv'
BY OutNext, SendMsgStep, SendBufferStep, SendBytesStep, SendStep, HandleWriteStep, WriteStep, BaseStep,
   ConsumeStep, RestStep, WrittenStep, DisableStep, CleanupStep, NetworkStep

\* What TcpConn.cpp relies on: on one thread, m_output and the call in progress
\* hold what was accepted and not sent, in order.
THEOREM OutInvariant ==
  ASSUME Workers = {}
  PROVE  Spec => []OutInv
<1>1. Init => OutInv
  BY OutStart
<1>2. OutInv /\ [Next]_vars => OutInv'
  BY OutStep
<1> QED
  BY <1>1, <1>2, PTL DEF Spec

\* No call sends or consumes past the end of a buffer, or sends on a deleted
\* channel.
THEOREM TypeCorrect ==
  ASSUME Workers = {}
  PROVE  Spec => []TypeOK
<1>1. OutInv => TypeOK
  <2> SUFFICES ASSUME OutInv PROVE TypeOK
    OBVIOUS
  <2>1. Threads = {Loop}
    BY DEF Threads
  <2>2. K \in Calls /\ K.sent <= Len(K.data)
    BY Moved DEF OutInv, Types, K
  <2>3. K.sent \in 0 .. Len(K.data)
    BY <2>2 DEF Calls
  <2> QED
    BY <2>1, <2>3 DEF OutInv, Types, TypeOK, K, Labels
<1> QED
  BY <1>1, OutInvariant, PTL

\* What the network has is the beginning of what was accepted: messages arrive
\* whole, once and in the order of the calls.
THEOREM SentInOrder ==
  ASSUME Workers = {}
  PROVE  Spec => []InOrder
<1>1. OutInv => InOrder
  <2> SUFFICES ASSUME OutInv PROVE IsPrefix(wire, accepted)
    BY DEF InOrder
  <2>1. wire \in Seq(Byte)
    BY DEF OutInv, Types
  <2>2. PICK u \in Seq(Byte) : accepted = wire \o u
    BY PendingType DEF OutInv, InTurn
  <2>3. Len(wire) <= Len(wire \o u)
    BY <2>1
  <2> QED
    BY <2>1, <2>2, <2>3, FrontOf DEF IsPrefix
<1> QED
  BY <1>1, OutInvariant, PTL

\* ByteStream but for its fairness.
StreamSafety == Stream!Init /\ [][Stream!Next]_(Stream!vars)

\* Each ::send transmits, each send accepts while the channel is open, Cleanup
\* ends the stream, and nothing else changes it.
LEMMA StreamStep ==
  ASSUME Workers = {}, OutInv, [Next]_vars
  PROVE  [Stream!Next]_(Stream!vars)
<1>1. CASE Write(Loop)
  <2>1. PICK x \in Seq(Byte), r \in Seq(Byte) :
          x # <<>> /\ wire' = wire \o x /\ accepted = (wire \o x) \o r
    BY <1>1, WriteStep
  <2>2. wire \in Seq(Byte) /\ channel /\ UNCHANGED <<accepted, channel>>
    BY <1>1, AtBase DEF OutInv, Types, InBase, P, Write
  <2> DEFINE n == Len(wire \o x)
  <2>3. n \in (Len(wire) + 1) .. Len(accepted) /\ wire' = SubSeq(accepted, 1, n)
    <3>1. /\ wire \o x \in Seq(Byte) /\ n = Len(wire) + Len(x)
          /\ Len(x) \in Nat /\ Len(x) # 0 /\ Len(wire) \in Nat /\ Len(r) \in Nat
      BY <2>1, <2>2, FrontOf, EmptyIs
    <3>2. Len(accepted) = n + Len(r) /\ SubSeq(accepted, 1, n) = wire \o x
      BY <2>1, <3>1, FrontOf
    <3> HIDE DEF n
    <3> QED
      BY <2>1, <3>1, <3>2
  <2> HIDE DEF n
  <2>4. Stream!Transmit
    BY <2>2, <2>3 DEF Stream!Transmit
  <2> QED
    BY <2>4 DEF Stream!Next
<1>2. CASE \E m \in Msgs : SendMsg(Loop, m) \/ SendBuffer(m) \/ SendBytes(m)
  BY <1>2 DEF SendMsg, SendBuffer, SendBytes, sockVars, Stream!Next, Stream!Accept, Stream!vars
<1>3. CASE Cleanup
  BY <1>3 DEF Cleanup, sockVars, Stream!Next, Stream!End
<1>4. CASE \/ Send(Loop) \/ HandleWrite \/ WouldBlock(Loop) \/ BaseEnds(Loop) \/ Consume(Loop)
           \/ Rest(Loop) \/ Written \/ WriteCbEnds \/ Disable \/ Drain \/ Break \/ UNCHANGED vars
  <2>1. UNCHANGED <<accepted, wire, channel>>
    BY <1>4 DEF Send, HandleWrite, WouldBlock, BaseEnds, Consume, Rest, Written, WriteCbEnds, Disable,
                Drain, Break, vars, sockVars
  <2> QED
    BY <2>1 DEF Stream!vars
<1> QED
  BY <1>1, <1>2, <1>3, <1>4, OutNext

\* The output path of one thread is a byte stream that loses, repeats and
\* reorders nothing.
THEOREM ImplementsStreamSafety ==
  ASSUME Workers = {}
  PROVE  Spec => StreamSafety
<1>1. Init => Stream!Init
  BY DEF Init, Stream!Init
<1>2. OutInv /\ [Next]_vars => [Stream!Next]_(Stream!vars)
  BY StreamStep
<1> QED
  BY <1>1, <1>2, OutInvariant, PTL DEF Spec, StreamSafety
=============================================================================
