---------------------------- MODULE Framing_proof ----------------------------
(***************************************************************************)
(* Proofs about Framing, for messages of any sizes and number, any header, *)
(* any limit and any exp_: the two buffers and the wire between them hold  *)
(* the end of what was sent, from the beginning of a message on, and the   *)
(* message callback gets each message whole and in order.                  *)
(***************************************************************************)
EXTENDS Framing, SequenceTheorems, WellFoundedInduction, TLAPS

\* A set of numbers that is not empty has a least.
LEMMA LeastNatural ==
  ASSUME NEW T \in SUBSET Nat, T # {}
  PROVE  \E x \in T : \A y \in T : x <= y
<1> DEFINE R == {p \in Nat \X Nat : p[1] < p[2]}
<1>1. IsWellFoundedOn(R, Nat)
  BY NatLessThanWellFounded DEF OpToRel
<1>2. \A x, y \in Nat : y < x => <<y, x>> \in R
  OBVIOUS
<1> HIDE DEF R
<1>3. PICK x \in T : \A y \in T : <<y, x>> \notin R
  BY <1>1, WFMin
<1>4. \A y \in T : ~(y < x)
  BY <1>2, <1>3
<1> QED
  BY <1>3, <1>4

----------------------------------------------------------------------------
(* What each operation of Buffer does, for buffers of any size: it keeps   *)
(* the offsets within the array, and does to the bytes in use what an      *)
(* operation on sequences does.                                            *)

\* Buffers whose bytes in use are of S; the rest of the array may be anything
\* that was ever in it.
Buffers(S) ==
  {x \in [mem : UNION {[0 .. n - 1 -> S \cup {Junk}] : n \in Nat}, b : Nat, e : Nat, cap : Nat] :
     WellFormed(x) /\ \A k \in x.b .. x.e - 1 : x.mem[k] \in S}

----------------------------------------------------------------------------
\* Its fields, as the proofs use them.
LEMMA BufferFields ==
  ASSUME NEW S, NEW x \in Buffers(S)
  PROVE  /\ x \in [mem : [0 .. x.cap - 1 -> S \cup {Junk}], b : Nat, e : Nat, cap : Nat]
         /\ x.mem \in [0 .. x.cap - 1 -> S \cup {Junk}]
         /\ x.cap \in Nat /\ x.e \in Nat /\ x.b \in Nat /\ x.b <= x.e /\ x.e <= x.cap
         /\ Size(x) \in Nat /\ Space(x) \in Nat
         /\ \A k \in x.b .. x.e - 1 : x.mem[k] \in S
<1>1. /\ x \in [mem : UNION {[0 .. n - 1 -> S \cup {Junk}] : n \in Nat}, b : Nat, e : Nat, cap : Nat]
      /\ WellFormed(x) /\ \A k \in x.b .. x.e - 1 : x.mem[k] \in S
  BY DEF Buffers
<1>2. PICK n \in Nat : x.mem \in [0 .. n - 1 -> S \cup {Junk}]
  BY <1>1
<1>3. 0 .. n - 1 = 0 .. x.cap - 1
  BY <1>1, <1>2 DEF WellFormed
<1>4. x.mem \in [0 .. x.cap - 1 -> S \cup {Junk}]
  BY <1>2, <1>3
<1> QED
  BY <1>1, <1>4 DEF WellFormed, Size, Space

\* The way to show that a record is one of Buffers.
LEMMA BufferIntro ==
  ASSUME NEW S, NEW x,
         x \in [mem : [0 .. x.cap - 1 -> S \cup {Junk}], b : Nat, e : Nat, cap : Nat],
         x.b <= x.e, x.e <= x.cap, \A k \in x.b .. x.e - 1 : x.mem[k] \in S
  PROVE  x \in Buffers(S)
BY DEF Buffers, WellFormed

\* The bytes in use, as a sequence.
LEMMA ContentSeq ==
  ASSUME NEW S, NEW x \in Buffers(S)
  PROVE  /\ Content(x) \in Seq(S) /\ Len(Content(x)) = Size(x)
         /\ \A k \in 1 .. Size(x) : Content(x)[k] = x.mem[x.b + k - 1]
<1>1. \A k \in 1 .. Size(x) : x.mem[x.b + k - 1] \in S
  BY BufferFields DEF Size
<1>2. Size(x) \in Nat
  BY BufferFields
<1>3. Content(x) = [k \in 1 .. Size(x) |-> x.mem[x.b + k - 1]]
  BY DEF Content
<1> HIDE DEF Content
<1> QED
  BY <1>1, <1>2, <1>3

\* Buffers with equal bytes have equal contents.
LEMMA SameContent ==
  ASSUME NEW S, NEW x \in Buffers(S), NEW y \in Buffers(S), Size(x) = Size(y),
         \A k \in 0 .. Size(x) - 1 : x.mem[x.b + k] = y.mem[y.b + k]
  PROVE  Content(x) = Content(y)
<1>1. \A k \in 1 .. Size(x) : x.mem[x.b + k - 1] = y.mem[y.b + k - 1]
  <2> SUFFICES ASSUME NEW k \in 1 .. Size(x) PROVE x.mem[x.b + k - 1] = y.mem[y.b + k - 1]
    OBVIOUS
  <2>1. k - 1 \in 0 .. Size(x) - 1 /\ x.b + (k - 1) = x.b + k - 1 /\ y.b + (k - 1) = y.b + k - 1
    BY BufferFields
  <2> QED
    BY <2>1
<1> QED
  BY <1>1, ContentSeq DEF Content

----------------------------------------------------------------------------
(* The operations.                                                         *)

\* A new buffer is empty.
LEMMA NullBufferIs ==
  ASSUME NEW S
  PROVE  NullBuffer \in Buffers(S) /\ Size(NullBuffer) = 0 /\ Content(NullBuffer) = <<>>
<1> DEFINE m == [k \in {} |-> Junk]
<1>1. m \in [0 .. 0 - 1 -> S \cup {Junk}]
  OBVIOUS
<1>2. NullBuffer = [mem |-> m, b |-> 0, e |-> 0, cap |-> 0]
  BY DEF NullBuffer
<1> HIDE DEF m
<1>3. NullBuffer.b = 0 /\ NullBuffer.e = 0 /\ NullBuffer.cap = 0
      /\ NullBuffer \in [mem : [0 .. 0 - 1 -> S \cup {Junk}], b : Nat, e : Nat, cap : Nat]
  BY <1>1, <1>2
<1>4. NullBuffer \in Buffers(S) /\ Size(NullBuffer) = 0
  <2>1. \A k \in 0 .. 0 - 1 : NullBuffer.mem[k] \in S
    OBVIOUS
  <2> QED
    BY <1>3, <2>1, BufferIntro DEF Size
<1> QED
  BY <1>4, ContentSeq

\* moveHead brings the bytes to the front, all of them.
LEMMA MoveHeadIs ==
  ASSUME NEW S, NEW x \in Buffers(S)
  PROVE  LET y == MoveHead(x)
         IN  y \in Buffers(S) /\ Content(y) = Content(x) /\ y.e = Size(x) /\ y.cap = x.cap
<1> DEFINE f == [k \in 0 .. x.cap - 1 |-> IF k < Size(x) THEN x.mem[x.b + k] ELSE x.mem[k]]
           y == MoveHead(x)
<1>1. y = [x EXCEPT !.mem = f, !.b = 0, !.e = Size(x)]
  BY DEF MoveHead
<1>2. Size(x) \in 0 .. x.cap /\ \A k \in 0 .. Size(x) - 1 : f[k] = x.mem[x.b + k]
  BY BufferFields DEF Size
<1>3. f \in [0 .. x.cap - 1 -> S \cup {Junk}]
  BY BufferFields DEF Size
<1> HIDE DEF f, y
<1>4. \A k \in 0 .. Size(x) - 1 : f[k] \in S
  <2>1. \A k \in 0 .. Size(x) - 1 : x.b + k \in x.b .. x.e - 1
    BY BufferFields DEF Size
  <2> QED
    BY <1>2, <2>1, BufferFields
<1>5. /\ y.mem = f /\ y.b = 0 /\ y.e = Size(x) /\ y.cap = x.cap
      /\ y \in [mem : [0 .. x.cap - 1 -> S \cup {Junk}], b : Nat, e : Nat, cap : Nat]
  <2>1. x.cap \in Nat /\ Size(x) \in Nat /\ x \in [mem : [0 .. x.cap - 1 -> S \cup {Junk}], b : Nat, e : Nat, cap : Nat]
    BY BufferFields
  <2>2. y = [mem |-> f, b |-> 0, e |-> Size(x), cap |-> x.cap]
    BY <1>1, <2>1
  <2> QED
    BY <1>3, <2>1, <2>2
<1>6. y \in Buffers(S)
  BY <1>2, <1>4, <1>5, BufferIntro
<1>7. Size(y) = Size(x) /\ y.b = 0
  BY <1>2, <1>5 DEF Size
<1>8. Content(y) = Content(x)
  BY <1>2, <1>5, <1>6, <1>7, SameContent
<1> QED
  BY <1>5, <1>6, <1>8 DEF y

\* expand makes a larger array, with the bytes at the front, and room for len.
LEMMA ExpandIs ==
  ASSUME NEW S, NEW x \in Buffers(S), NEW len \in Nat
  PROVE  LET y == expand(x, len)
         IN  /\ y \in Buffers(S) /\ Content(y) = Content(x)
             /\ len <= Space(y) /\ Space(y) > 0
<1> DEFINE ncap == Larger(Exp, Larger(2 * x.cap, Size(x) + len))
           f == [k \in 0 .. ncap - 1 |-> IF k < Size(x) THEN x.mem[x.b + k] ELSE Junk]
           y == expand(x, len)
<1>1. y = [mem |-> f, b |-> 0, e |-> Size(x), cap |-> ncap]
  BY DEF expand
<1>2. ncap \in Nat /\ Size(x) \in 0 .. x.cap /\ Size(x) + len <= ncap /\ Size(x) < ncap
  BY BufferFields, ByteBufferAssumption, SMTT(30) DEF ByteBufferAssumption, Larger, Size
<1> HIDE DEF ncap
<1>3. \A k \in 0 .. Size(x) - 1 : f[k] = x.mem[x.b + k]
  BY <1>2, BufferFields
<1>4. \A k \in 0 .. Size(x) - 1 : x.b + k \in x.b .. x.e - 1
  BY BufferFields DEF Size
<1>5. f \in [0 .. ncap - 1 -> S \cup {Junk}]
  BY <1>2, <1>4, BufferFields, SMTT(30)
<1> HIDE DEF f, y
<1>6. \A k \in 0 .. Size(x) - 1 : f[k] \in S
  BY <1>3, <1>4, BufferFields
<1>7. /\ y.mem = f /\ y.b = 0 /\ y.e = Size(x) /\ y.cap = ncap
      /\ y \in [mem : [0 .. ncap - 1 -> S \cup {Junk}], b : Nat, e : Nat, cap : Nat]
  BY <1>1, <1>2, <1>5
<1>8. y \in Buffers(S)
  BY <1>2, <1>6, <1>7, BufferIntro
<1>9. Size(y) = Size(x) /\ Space(y) = ncap - Size(x)
  BY <1>2, <1>7 DEF Size, Space
<1>10. Content(y) = Content(x)
  BY <1>3, <1>7, <1>8, <1>9, SameContent
<1> QED
  BY <1>2, <1>8, <1>9, <1>10 DEF y

\* makeRoom, whichever of its three ways it takes.
LEMMA MakeRoomIs ==
  ASSUME NEW S, NEW x \in Buffers(S), NEW len \in Nat
  PROVE  LET y == makeRoom(x, len)
         IN  y \in Buffers(S) /\ Content(y) = Content(x) /\ len <= Space(y)
<1>1. CASE x.e + len <= x.cap
  BY <1>1, BufferFields DEF makeRoom, Space
<1>2. CASE ~(x.e + len <= x.cap) /\ Size(x) + len < x.cap \div 2
  <2>1. makeRoom(x, len) = MoveHead(x)
    BY <1>2 DEF makeRoom
  <2>2. len <= x.cap - Size(x)
    BY <1>2, BufferFields
  <2> QED
    BY <2>1, <2>2, MoveHeadIs DEF Space
<1>3. CASE ~(x.e + len <= x.cap) /\ ~(Size(x) + len < x.cap \div 2)
  <2>1. makeRoom(x, len) = expand(x, len)
    BY <1>3 DEF makeRoom
  <2> QED
    BY <2>1, ExpandIs
<1> QED
  BY <1>1, <1>2, <1>3

\* makeRoom() before a recv leaves room for a byte at least: recv with no room
\* would answer 0, which HandleRead takes for the peer's close.
LEMMA MakeRecvRoomIs ==
  ASSUME NEW S, NEW x \in Buffers(S)
  PROVE  LET y == makeRecvRoom(x)
         IN  y \in Buffers(S) /\ Content(y) = Content(x) /\ Space(y) > 0
<1>1. Space(x) \in Nat /\ Exp \in Nat \ {0}
  BY BufferFields, ByteBufferAssumption DEF ByteBufferAssumption
<1> QED
  BY <1>1, ExpandIs DEF makeRecvRoom

\* addSize after s was written behind the bytes in use: s goes behind them.
LEMMA FillIs ==
  ASSUME NEW S, NEW x \in Buffers(S), NEW s \in Seq(S), Len(s) <= Space(x)
  PROVE  LET y == Fill(x, s)
         IN  y \in Buffers(S) /\ Content(y) = Content(x) \o s
<1> DEFINE room == x.e .. x.e + Len(s) - 1
           f == [k \in DOMAIN x.mem \cup room |-> IF k \in room THEN s[k - x.e + 1] ELSE x.mem[k]]
           y == Fill(x, s)
<1>1. y = [x EXCEPT !.mem = f, !.e = x.e + Len(s)]
  BY DEF Fill
<1>2. Len(s) \in Nat /\ x.e + Len(s) \in Nat /\ x.e + Len(s) <= x.cap
  BY BufferFields DEF Space
<1>3. DOMAIN x.mem \cup room = 0 .. x.cap - 1
  <2>1. DOMAIN x.mem = 0 .. x.cap - 1
    BY BufferFields
  <2>2. room \subseteq 0 .. x.cap - 1
    BY <1>2, BufferFields
  <2> QED
    BY <2>1, <2>2
<1>4. \A k \in room : k - x.e + 1 \in 1 .. Len(s)
  BY <1>2, BufferFields
<1>5. \A k \in 0 .. x.cap - 1 : f[k] = IF k \in room THEN s[k - x.e + 1] ELSE x.mem[k]
  BY <1>3
<1>6. f \in [0 .. x.cap - 1 -> S \cup {Junk}]
  <2>1. \A k \in 0 .. x.cap - 1 : (IF k \in room THEN s[k - x.e + 1] ELSE x.mem[k]) \in S \cup {Junk}
    <3> HIDE DEF room
    <3> QED
      BY <1>4, BufferFields
  <2> HIDE DEF room
  <2> QED
    BY <1>3, <2>1
<1> HIDE DEF f, y
<1>7. /\ y.mem = f /\ y.b = x.b /\ y.e = x.e + Len(s) /\ y.cap = x.cap
      /\ y \in [mem : [0 .. x.cap - 1 -> S \cup {Junk}], b : Nat, e : Nat, cap : Nat]
  <2> DEFINE n == x.e + Len(s)
  <2>1. n \in Nat /\ y = [x EXCEPT !.mem = f, !.e = n]
    BY <1>1, <1>2
  <2> HIDE DEF n
  <2>2. /\ y.mem = f /\ y.b = x.b /\ y.e = n /\ y.cap = x.cap
        /\ y \in [mem : [0 .. x.cap - 1 -> S \cup {Junk}], b : Nat, e : Nat, cap : Nat]
    BY <1>6, <2>1, BufferFields
  <2> QED
    BY <2>2 DEF n
<1>8. \A k \in x.b .. x.e - 1 : y.mem[k] = x.mem[k]
  BY <1>5, <1>7, BufferFields
<1>9. \A k \in room : y.mem[k] = s[k - x.e + 1]
  <2>1. room \subseteq 0 .. x.cap - 1
    BY <1>2, BufferFields
  <2> HIDE DEF room
  <2> QED
    BY <1>5, <1>7, <2>1
<1>10. y \in Buffers(S)
  <2>1. \A k \in x.b .. x.e + Len(s) - 1 : k \in x.b .. x.e - 1 \/ k \in room
    BY <1>2, BufferFields
  <2>2. \A k \in x.b .. x.e + Len(s) - 1 : y.mem[k] \in S
    <3> HIDE DEF room
    <3>1. \A k \in x.b .. x.e - 1 : x.mem[k] \in S
      BY BufferFields
    <3>2. \A k \in room : s[k - x.e + 1] \in S
      BY <1>4
    <3> QED
      BY <1>8, <1>9, <2>1, <3>1, <3>2
  <2>3. y.b <= y.e /\ y.e <= y.cap
    BY <1>2, <1>7, BufferFields
  <2>4. \A k \in y.b .. y.e - 1 : y.mem[k] \in S
    <3>1. y.b = x.b /\ y.e = x.e + Len(s)
      BY <1>7
    <3> HIDE DEF room
    <3> QED
      BY <1>2, <2>2, <3>1, BufferFields
  <2>5. y \in [mem : [0 .. y.cap - 1 -> S \cup {Junk}], b : Nat, e : Nat, cap : Nat]
    BY <1>7
  <2> QED
    BY <2>3, <2>4, <2>5, BufferIntro
<1>11. Size(y) = Size(x) + Len(s) /\ Size(x) \in Nat
  BY <1>2, <1>7, BufferFields DEF Size
<1>12. \A i \in 1 .. Size(y) : Content(y)[i] = (Content(x) \o s)[i]
  <2> SUFFICES ASSUME NEW i \in 1 .. Size(y) PROVE Content(y)[i] = (Content(x) \o s)[i]
    OBVIOUS
  <2>1. Content(y)[i] = y.mem[x.b + i - 1]
    BY <1>7, <1>10, ContentSeq
  <2>2. (Content(x) \o s)[i] = IF i <= Size(x) THEN Content(x)[i] ELSE s[i - Size(x)]
    BY <1>11, <1>2, ContentSeq, ConcatProperties
  <2>3. CASE i <= Size(x)
    <3>1. x.b + i - 1 \in x.b .. x.e - 1
      BY <1>11, <2>3, BufferFields DEF Size
    <3>2. i \in 1 .. Size(x)
      BY <1>11, <2>3
    <3>3. Content(x)[i] = x.mem[x.b + i - 1]
      BY <3>2, ContentSeq
    <3> QED
      BY <1>8, <2>1, <2>2, <2>3, <3>1, <3>3
  <2>4. CASE ~(i <= Size(x))
    <3>1. x.b + i - 1 \in room /\ (x.b + i - 1) - x.e + 1 = i - Size(x)
      BY <1>2, <1>11, <2>4, BufferFields, SMTT(30) DEF Size
    <3> QED
      BY <1>9, <2>1, <2>2, <2>4, <3>1
  <2> QED
    BY <2>3, <2>4
<1>13. Content(y) = Content(x) \o s
  <2>1. /\ Content(y) \in Seq(S) /\ Len(Content(y)) = Size(y)
        /\ Content(x) \o s \in Seq(S) /\ Len(Content(x) \o s) = Size(y)
    BY <1>10, <1>11, ContentSeq, ConcatProperties
  <2> QED
    BY <1>12, <2>1, SeqEqual
<1> QED
  BY <1>10, <1>13 DEF y

\* append, of any length, to a buffer of any shape.
LEMMA AppendIs ==
  ASSUME NEW S, NEW x \in Buffers(S), NEW s \in Seq(S)
  PROVE  append(x, s) \in Buffers(S) /\ Content(append(x, s)) = Content(x) \o s
<1>1. Len(s) \in Nat
  OBVIOUS
<1> DEFINE y == makeRoom(x, Len(s))
<1>2. y \in Buffers(S) /\ Content(y) = Content(x) /\ Len(s) <= Space(y)
  BY <1>1, MakeRoomIs
<1>3. append(x, s) = Fill(y, s)
  BY DEF append
<1> HIDE DEF y
<1> QED
  BY <1>2, <1>3, FillIs

\* consume drops the first n bytes; of all of them nothing is kept.
LEMMA ConsumeIs ==
  ASSUME NEW S, NEW x \in Buffers(S), NEW n \in 0 .. Size(x)
  PROVE  LET y == consume(x, n)
         IN  /\ y \in Buffers(S) /\ Size(y) = Size(x) - n
             /\ Content(y) = SubSeq(Content(x), n + 1, Size(x))
<1> DEFINE y == consume(x, n)
<1>1. n \in Nat /\ Size(x) \in Nat /\ n <= Size(x)
  BY BufferFields
<1>2. y \in Buffers(S) /\ Size(y) = Size(x) - n
      /\ \A k \in 0 .. Size(y) - 1 : y.mem[y.b + k] = x.mem[x.b + n + k]
  <2>1. CASE x.b + n = x.e
    <3>1. y = NullBuffer /\ Size(x) = n
      BY <1>1, <2>1, BufferFields DEF consume, Size
    <3> HIDE DEF y
    <3> QED
      BY <1>1, <3>1, NullBufferIs
  <2>2. CASE x.b + n # x.e
    <3>1. y = [x EXCEPT !.b = x.b + n]
      BY <2>2 DEF consume
    <3> HIDE DEF y
    <3>2. /\ y.mem = x.mem /\ y.b = x.b + n /\ y.e = x.e /\ y.cap = x.cap
          /\ y \in [mem : [0 .. x.cap - 1 -> S \cup {Junk}], b : Nat, e : Nat, cap : Nat]
      BY <1>1, <3>1, BufferFields
    <3>3. \A k \in y.b .. y.e - 1 : y.mem[k] \in S
      BY <1>1, <3>2, BufferFields
    <3>4. y.b <= y.e /\ y.e <= y.cap
      BY <1>1, <3>2, BufferFields DEF Size
    <3>5. y \in Buffers(S)
      BY <3>2, <3>3, <3>4, BufferIntro
    <3>6. Size(y) = Size(x) - n
      BY <1>1, <3>2, BufferFields DEF Size
    <3> QED
      BY <3>2, <3>5, <3>6
  <2> QED
    BY <2>1, <2>2
<1> HIDE DEF y
<1>3. Content(y) \in Seq(S) /\ Len(Content(y)) = Size(x) - n
      /\ Content(x) \in Seq(S) /\ Len(Content(x)) = Size(x)
  BY <1>2, ContentSeq
<1> DEFINE t == SubSeq(Content(x), n + 1, Size(x))
<1>4. t \in Seq(S) /\ Len(t) = Size(x) - n
      /\ \A i \in 1 .. Size(x) - n : t[i] = Content(x)[n + i]
  <2>1. \A i \in n + 1 .. Size(x) : Content(x)[i] \in S
    BY <1>1, <1>3
  <2> QED
    BY <1>1, <2>1, SubSeqProperties
<1>5. \A i \in 1 .. Size(x) - n : Content(y)[i] = t[i]
  <2> SUFFICES ASSUME NEW i \in 1 .. Size(x) - n PROVE Content(y)[i] = Content(x)[n + i]
    BY <1>4
  <2> DEFINE j == n + i
  <2>0. i \in 1 .. Size(y) /\ j \in 1 .. Size(x)
    BY <1>1, <1>2
  <2> HIDE DEF j
  <2>1. Content(y)[i] = y.mem[y.b + i - 1] /\ Content(x)[j] = x.mem[x.b + j - 1]
    BY <1>2, <2>0, ContentSeq
  <2>2. /\ y.b + (i - 1) = y.b + i - 1 /\ x.b + n + (i - 1) = x.b + j - 1
        /\ i - 1 \in 0 .. Size(y) - 1
    BY <1>1, <1>2, BufferFields, SMTT(30) DEF j
  <2> QED
    BY <1>2, <2>1, <2>2 DEF j
<1> HIDE DEF t
<1>6. Content(y) = t
  BY <1>3, <1>4, <1>5, SeqEqual
<1> QED
  BY <1>2, <1>6 DEF y, t

\* A copy has the same bytes in use.
LEMMA CopyFromIs ==
  ASSUME NEW S, NEW x \in Buffers(S)
  PROVE  copyFrom(x) \in Buffers(S) /\ Content(copyFrom(x)) = Content(x)
         /\ Size(copyFrom(x)) = Size(x)
<1> DEFINE f == [k \in DOMAIN x.mem |-> IF k \in x.b .. x.e - 1 THEN x.mem[k] ELSE Junk]
           y == copyFrom(x)
<1>1. y = [x EXCEPT !.mem = f]
  BY DEF copyFrom
<1>2. f \in [0 .. x.cap - 1 -> S \cup {Junk}]
  BY BufferFields
<1>3. \A k \in x.b .. x.e - 1 : f[k] = x.mem[k]
  BY BufferFields
<1> HIDE DEF f, y
<1>4. /\ y.mem = f /\ y.b = x.b /\ y.e = x.e /\ y.cap = x.cap
      /\ y \in [mem : [0 .. x.cap - 1 -> S \cup {Junk}], b : Nat, e : Nat, cap : Nat]
  BY <1>1, <1>2, BufferFields
<1>5. y \in Buffers(S) /\ Size(y) = Size(x)
  BY <1>3, <1>4, BufferIntro, BufferFields DEF Size
<1>6. \A k \in 0 .. Size(x) - 1 : x.b + k \in x.b .. x.e - 1
  BY BufferFields DEF Size
<1>7. Content(y) = Content(x)
  BY <1>3, <1>4, <1>5, <1>6, SameContent
<1> QED
  BY <1>5, <1>7 DEF y

\* absorb puts y's bytes behind x's, whether it exchanges the buffers or copies.
LEMMA AbsorbIs ==
  ASSUME NEW S, NEW x \in Buffers(S), NEW y \in Buffers(S)
  PROVE  absorb(x, y) \in Buffers(S) /\ Content(absorb(x, y)) = Content(x) \o Content(y)
<1>1. Content(x) \in Seq(S) /\ Content(y) \in Seq(S) /\ Len(Content(x)) = Size(x)
  BY ContentSeq
<1>2. CASE Size(x) = 0
  <2>1. Content(x) = <<>>
    BY <1>1, <1>2
  <2> QED
    BY <1>1, <1>2, <2>1, ConcatEmptySeq DEF absorb
<1>3. CASE Size(x) # 0
  BY <1>1, <1>3, AppendIs DEF absorb
<1> QED
  BY <1>2, <1>3

----------------------------------------------------------------------------
(* The bytes of the stream: of a message, the place in it. *)

Byte == Nat \X Nat

----------------------------------------------------------------------------
(* Sequences of whole messages, of the sizes sz.                           *)

Length(i, sz) == Header + sz[i]

\* The byte that is sent after b.
After(b, sz) == IF b[2] < Length(b[1], sz) THEN <<b[1], b[2] + 1>> ELSE <<b[1] + 1, 1>>

\* Each byte is one of a message, each is followed by the next, and the last one
\* is the last of all.
Chain(s, sz) ==
  /\ \A j \in 1 .. Len(s) : s[j][1] \in 1 .. Len(sz) /\ s[j][2] \in 1 .. Length(s[j][1], sz)
  /\ \A j \in 1 .. Len(s) - 1 : s[j + 1] = After(s[j], sz)
  /\ Len(s) > 0 => s[Len(s)] = <<Len(sz), Length(Len(sz), sz)>>

\* One more message at the end.
LEMMA ChainExtended ==
  ASSUME NEW sz \in Seq(Nat), NEW s \in Seq(Byte), Chain(s, sz), NEW size \in Nat,
         NEW f \in Seq(Byte), Len(f) = Header + size,
         \A k \in 1 .. Header + size : f[k] = <<Len(sz) + 1, k>>
  PROVE  Chain(s \o f, Append(sz, size))
<1> DEFINE n == Len(sz)
           L == Len(s)
           H == Header + size
           sy == Append(sz, size)
           t == s \o f
<1>1. Header \in Nat \ {0} /\ n \in Nat /\ L \in Nat /\ H \in Nat \ {0}
  BY FramingAssumption DEF FramingAssumption
<1>2. /\ Len(sy) = n + 1 /\ sy[n + 1] = size /\ \A i \in 1 .. n : sy[i] = sz[i] /\ sz[i] \in Nat
  BY AppendProperties
<1>3. /\ Len(t) = L + H
      /\ \A j \in 1 .. L + H : t[j] = IF j <= L THEN s[j] ELSE f[j - L]
  BY ConcatProperties
<1> HIDE DEF t, sy
<1>4. \A j \in 1 .. L : t[j] = s[j]
  BY <1>1, <1>3
<1>5. \A k \in 1 .. H : t[L + k] = <<n + 1, k>>
  <2> SUFFICES ASSUME NEW k \in 1 .. H PROVE t[L + k] = <<n + 1, k>>
    OBVIOUS
  <2>1. L + k \in 1 .. L + H /\ ~(L + k <= L) /\ (L + k) - L = k
    BY <1>1
  <2> QED
    BY <1>3, <2>1
<1> HIDE DEF L, n
<1>6. \A i \in 1 .. n : Length(i, sy) = Length(i, sz)
  BY <1>2 DEF Length
<1>7. Length(n + 1, sy) = H
  BY <1>2 DEF Length
<1>8. \A j \in 1 .. L : s[j][1] \in 1 .. n /\ s[j][2] \in 1 .. Length(s[j][1], sz)
  BY DEF Chain, L, n
<1>9. ASSUME NEW j \in 1 .. L + H
      PROVE  t[j][1] \in 1 .. n + 1 /\ t[j][2] \in 1 .. Length(t[j][1], sy)
  <2>1. CASE j \in 1 .. L
    <3> DEFINE i == s[j][1]
    <3>1. i \in 1 .. n /\ t[j] = s[j] /\ s[j][2] \in 1 .. Length(i, sz)
      BY <1>4, <1>8, <2>1
    <3>2. i \in 1 .. n + 1 /\ Length(i, sy) = Length(i, sz)
      <4> HIDE DEF i
      <4> QED
        BY <1>1, <1>6, <3>1
    <3> QED
      BY <3>1, <3>2
  <2>2. CASE j \notin 1 .. L
    <3>1. j - L \in 1 .. H /\ L + (j - L) = j
      BY <1>1, <2>2
    <3>2. t[j] = <<n + 1, j - L>>
      BY <1>5, <3>1
    <3> QED
      BY <1>1, <1>7, <3>1, <3>2
  <2> QED
    BY <2>1, <2>2
<1>10. ASSUME NEW j \in 1 .. L + H - 1
       PROVE  t[j + 1] = After(t[j], sy)
  <2>1. CASE j < L
    <3>1. j \in 1 .. L /\ j + 1 \in 1 .. L /\ j \in 1 .. L - 1
      BY <1>1, <2>1
    <3>2. s[j + 1] = After(s[j], sz)
      BY <3>1 DEF Chain, L
    <3> QED
      BY <1>4, <1>6, <1>8, <3>1, <3>2 DEF After
  <2>2. CASE j = L
    <3>1. s[L] = <<n, Length(n, sz)>> /\ L \in 1 .. L
      BY <1>1, <2>2 DEF Chain, L, n
    <3>2. n \in 1 .. n
      BY <1>8, <3>1
    <3>3. After(t[L], sy) = <<n + 1, 1>>
      <4>1. t[L] = <<n, Length(n, sz)>> /\ Length(n, sy) = Length(n, sz)
        BY <1>4, <1>6, <3>1, <3>2
      <4>2. Length(n, sz) \in Nat
        <5>1. n \in 1 .. Len(sz)
          BY <3>2 DEF n
        <5>2. sz[n] \in Nat /\ Header \in Nat
          BY <5>1, FramingAssumption
        <5> QED
          BY <5>2 DEF Length
      <4> QED
        <5>1. t[L][1] = n /\ t[L][2] = Length(n, sz) /\ ~(t[L][2] < Length(t[L][1], sy))
          BY <4>1, <4>2
        <5> QED
          BY <5>1 DEF After
    <3>4. 1 \in 1 .. H
      BY <1>1
    <3> QED
      BY <1>5, <2>2, <3>3, <3>4
  <2>3. CASE j > L
    <3> DEFINE k == j - L
    <3>1. k \in 1 .. H /\ k + 1 \in 1 .. H /\ L + k = j /\ L + (k + 1) = j + 1 /\ k < H
      BY <1>1, <2>3
    <3> HIDE DEF k
    <3>2. t[j] = <<n + 1, k>> /\ t[j + 1] = <<n + 1, k + 1>>
      BY <1>5, <3>1
    <3> QED
      BY <1>7, <3>1, <3>2 DEF After
  <2> QED
    BY <1>1, <2>1, <2>2, <2>3
<1>11. t[L + H] = <<n + 1, Length(n + 1, sy)>>
  BY <1>1, <1>5, <1>7
<1> HIDE DEF H
<1>12. Len(t) = L + H /\ Len(sy) = n + 1
  BY <1>2, <1>3
<1>13. Chain(t, sy)
  <2>1. \A j \in 1 .. Len(t) : t[j][1] \in 1 .. Len(sy) /\ t[j][2] \in 1 .. Length(t[j][1], sy)
    BY <1>9, <1>12
  <2>2. \A j \in 1 .. Len(t) - 1 : t[j + 1] = After(t[j], sy)
    BY <1>1, <1>10, <1>12
  <2>3. t[Len(t)] = <<Len(sy), Length(Len(sy), sy)>>
    BY <1>11, <1>12
  <2> QED
    BY <2>1, <2>2, <2>3 DEF Chain
<1> QED
  BY <1>13 DEF t, sy

\* The message at the front: its bytes, one after the other, and what follows.
LEMMA ChainFront ==
  ASSUME NEW sz \in Seq(Nat), NEW s \in Seq(Byte), Chain(s, sz), NEW d \in Nat,
         Len(s) > 0, s[1] = <<d, 1>>
  PROVE  /\ d \in 1 .. Len(sz)
         /\ \A k \in 1 .. Len(s) : k <= Length(d, sz) => s[k] = <<d, k>>
<1> DEFINE L == Length(d, sz)
<1>1. Len(s) \in Nat /\ 1 \in 1 .. Len(s)
  OBVIOUS
<1>2. d \in 1 .. Len(sz)
  BY <1>1 DEF Chain
<1>3. L \in Nat
  BY <1>2, FramingAssumption DEF FramingAssumption, Length
<1> HIDE DEF L
<1> DEFINE T == {k \in 1 .. Len(s) : k <= L /\ s[k] # <<d, k>>}
<1>4. CASE T = {}
  BY <1>2, <1>4 DEF L
<1>5. CASE T # {}
  <2>1. T \in SUBSET Nat
    OBVIOUS
  <2>2. PICK k \in T : \A m \in T : k <= m
    BY <1>5, <2>1, LeastNatural
  <2>3. k \in 1 .. Len(s) /\ k <= L /\ s[k] # <<d, k>>
    BY <2>2
  <2>4. k # 1
    BY <2>3
  <2> DEFINE m == k - 1
  <2>5. m \in 1 .. Len(s) - 1 /\ m \in 1 .. Len(s) /\ m < L /\ m + 1 = k /\ ~(k <= m)
    BY <1>1, <1>3, <2>3, <2>4
  <2>6. m \notin T
    BY <2>2, <2>5
  <2> HIDE DEF m
  <2>7. m <= L
    BY <1>3, <2>5
  <2>8. s[m] = <<d, m>>
    BY <2>5, <2>6, <2>7
  <2>9. s[k] = After(s[m], sz)
    BY <2>5 DEF Chain
  <2> QED
    BY <2>3, <2>5, <2>8, <2>9 DEF After, L
<1> QED
  BY <1>4, <1>5

\* What is left when it is taken away.
LEMMA ChainRest ==
  ASSUME NEW sz \in Seq(Nat), NEW s \in Seq(Byte), Chain(s, sz), NEW d \in Nat,
         Len(s) > 0, s[1] = <<d, 1>>, Length(d, sz) <= Len(s)
  PROVE  LET r == SubSeq(s, Length(d, sz) + 1, Len(s))
         IN  /\ r \in Seq(Byte) /\ Chain(r, sz)
             /\ Len(r) > 0 => r[1] = <<d + 1, 1>>
             /\ Len(r) = 0 => d = Len(sz)
<1> DEFINE L == Length(d, sz)
           r == SubSeq(s, L + 1, Len(s))
           n == Len(s)
<1>1. d \in 1 .. Len(sz) /\ \A k \in 1 .. n : k <= L => s[k] = <<d, k>>
  BY ChainFront
<1>2. L \in Nat \ {0} /\ n \in Nat /\ L <= n
  BY <1>1, FramingAssumption DEF FramingAssumption, Length
<1> HIDE DEF L
<1>3. s[L] = <<d, L>>
  BY <1>1, <1>2
<1>4. /\ r \in Seq(Byte) /\ Len(r) = n - L
      /\ \A i \in 1 .. n - L : r[i] = s[L + i]
  <2>1. \A i \in L + 1 .. n : s[i] \in Byte
    BY <1>2
  <2>2. r \in Seq(Byte) /\ Len(r) = (IF L + 1 <= n THEN n - (L + 1) + 1 ELSE 0)
        /\ \A i \in 1 .. n - (L + 1) + 1 : r[i] = s[(L + 1) + i - 1]
    BY <1>2, <2>1, SubSeqProperties
  <2>3. n - (L + 1) + 1 = n - L /\ \A i \in 1 .. n - L : (L + 1) + i - 1 = L + i
    BY <1>2
  <2>4. Len(r) = n - L
    BY <1>2, <2>2
  <2>5. \A i \in 1 .. n - L : r[i] = s[L + i]
    BY <2>2, <2>3
  <2> QED
    BY <2>2, <2>4, <2>5
<1> HIDE DEF r
<1>5. Chain(r, sz)
  <2>1. \A j \in 1 .. n - L : r[j][1] \in 1 .. Len(sz) /\ r[j][2] \in 1 .. Length(r[j][1], sz)
    <3>1. \A j \in 1 .. n - L : L + j \in 1 .. n
      BY <1>2
    <3> QED
      BY <1>4, <3>1 DEF Chain
  <2>2. \A j \in 1 .. n - L - 1 : r[j + 1] = After(r[j], sz)
    <3> SUFFICES ASSUME NEW j \in 1 .. n - L - 1 PROVE r[j + 1] = After(r[j], sz)
      OBVIOUS
    <3>1. j \in 1 .. n - L /\ j + 1 \in 1 .. n - L /\ L + j \in 1 .. n - 1 /\ L + (j + 1) = (L + j) + 1
      BY <1>2
    <3>2. r[j] = s[L + j] /\ r[j + 1] = s[(L + j) + 1]
      BY <1>4, <3>1
    <3> QED
      BY <3>1, <3>2 DEF Chain
  <2>3. n - L > 0 => r[n - L] = <<Len(sz), Length(Len(sz), sz)>>
    <3> SUFFICES ASSUME n - L > 0 PROVE r[n - L] = <<Len(sz), Length(Len(sz), sz)>>
      OBVIOUS
    <3>1. n - L \in 1 .. n - L /\ L + (n - L) = n
      BY <1>2
    <3> QED
      BY <1>4, <3>1 DEF Chain
  <2> QED
    BY <1>4, <2>1, <2>2, <2>3 DEF Chain
<1>6. Len(r) > 0 => r[1] = <<d + 1, 1>>
  <2> SUFFICES ASSUME Len(r) > 0 PROVE r[1] = <<d + 1, 1>>
    OBVIOUS
  <2>1. 1 \in 1 .. n - L /\ L \in 1 .. n - 1
    BY <1>2, <1>4
  <2>2. r[1] = s[L + 1] /\ s[L + 1] = After(s[L], sz)
    BY <1>4, <2>1 DEF Chain
  <2> QED
    BY <1>2, <1>3, <2>2 DEF After, L
<1>7. Len(r) = 0 => d = Len(sz)
  <2> SUFFICES ASSUME Len(r) = 0 PROVE d = Len(sz)
    OBVIOUS
  <2>1. L = n
    BY <1>2, <1>4
  <2>2. s[n] = <<Len(sz), Length(Len(sz), sz)>>
    BY DEF Chain
  <2> QED
    BY <1>3, <2>1, <2>2
<1> QED
  BY <1>4, <1>5, <1>6, <1>7 DEF r, L

----------------------------------------------------------------------------
(* The inductive invariant.                                                *)

\* What is on its way, in order.
Bytes == Content(m_input) \o wire \o Content(m_output)

Types ==
  /\ m_output \in Buffers(Byte) /\ m_input \in Buffers(Byte) /\ wire \in Seq(Byte)
  /\ pc \in {"recv", "decode", "closed"} /\ fresh \in BOOLEAN
  /\ sent \in Seq(Sizes) /\ stream \in Seq(Byte)

\* The first byte is that of the message to be delivered next.
AtBeginning(s) ==
  /\ Len(s) > 0 => s[1] = <<Len(delivered) + 1, 1>>
  /\ Len(s) = 0 => Len(delivered) = Len(sent)

Suffix(s) == \E u \in Seq(Byte) : stream = u \o s

\* Whole messages have been delivered, of those that were sent.
Whole ==
  /\ delivered \in Seq(Seq(Byte)) /\ Len(delivered) <= Len(sent)
  /\ \A i \in 1 .. Len(delivered) : delivered[i] = [k \in 1 .. sent[i] |-> <<i, Header + k>>]

\* The connection was closed because of the message that was next.
TooLong == pc = "closed" => Len(delivered) < Len(sent) /\ Length(Len(delivered) + 1, sent) > MaxLen

\* What OnMsg's loop has left, having seen it all, is a part of a message.
OnlyPart ==
  pc = "recv" /\ ~fresh /\ Size(m_input) > Header => Size(m_input) < Length(Len(delivered) + 1, sent)

FrameInv ==
  /\ Types
  /\ Chain(Bytes, sent) /\ AtBeginning(Bytes) /\ Suffix(Bytes)
  /\ Whole /\ TooLong /\ OnlyPart

----------------------------------------------------------------------------
(* What follows from it in a state.                                        *)

\* What is sent is of a size in Sizes.
LEMMA SentSizes ==
  ASSUME Types
  PROVE  /\ sent \in Seq(Nat) /\ Len(sent) \in Nat
         /\ \A i \in 1 .. Len(sent) : sent[i] \in Sizes /\ Length(i, sent) \in Nat
<1>1. sent \in Seq(Sizes) /\ Sizes \subseteq Nat
  BY FramingAssumption DEF FramingAssumption, Types
<1>2. sent \in Seq(Nat)
  BY <1>1, SeqMonotonic
<1>3. \A i \in 1 .. Len(sent) : sent[i] \in Sizes
  BY <1>1
<1> QED
  BY <1>1, <1>2, <1>3, FramingAssumption DEF FramingAssumption, Length

\* Bytes as a sequence: the input's come first.
LEMMA BytesSeq ==
  ASSUME Types
  PROVE  /\ Content(m_input) \in Seq(Byte) /\ Len(Content(m_input)) = Size(m_input)
         /\ Content(m_output) \in Seq(Byte) /\ Len(Content(m_output)) = Size(m_output)
         /\ Size(m_input) \in Nat /\ Size(m_output) \in Nat
         /\ Bytes \in Seq(Byte) /\ Len(Bytes) = Size(m_input) + Len(wire) + Size(m_output)
         /\ \A k \in 1 .. Size(m_input) : Bytes[k] = Content(m_input)[k]
<1>1. /\ Content(m_input) \in Seq(Byte) /\ Len(Content(m_input)) = Size(m_input)
      /\ Content(m_output) \in Seq(Byte) /\ Len(Content(m_output)) = Size(m_output)
      /\ Size(m_input) \in Nat /\ Size(m_output) \in Nat /\ wire \in Seq(Byte)
  BY ContentSeq, BufferFields DEF Types
<1> DEFINE c == Content(m_input)
           d == Content(m_output)
<1> HIDE DEF c, d
<1>2. c \in Seq(Byte) /\ Len(c) = Size(m_input) /\ d \in Seq(Byte) /\ Len(d) = Size(m_output)
      /\ Bytes = (c \o wire) \o d
  BY <1>1 DEF c, d, Bytes
<1>3. c \o wire \in Seq(Byte) /\ Len(c \o wire) = Len(c) + Len(wire)
  BY <1>1, <1>2, ConcatProperties
<1>4. \A k \in 1 .. Len(c) : (c \o wire)[k] = c[k]
  <2>1. \A k \in 1 .. Len(c) + Len(wire) : (c \o wire)[k] = IF k <= Len(c) THEN c[k] ELSE wire[k - Len(c)]
    BY <1>1, <1>2, ConcatProperties
  <2> QED
    BY <1>1, <1>2, <2>1
<1>5. /\ Bytes \in Seq(Byte) /\ Len(Bytes) = Len(c \o wire) + Len(d)
      /\ \A k \in 1 .. Len(c \o wire) : Bytes[k] = (c \o wire)[k]
  <2> DEFINE w == c \o wire
  <2> HIDE DEF w
  <2>1. w \in Seq(Byte) /\ Bytes = w \o d
    BY <1>2, <1>3 DEF w
  <2>2. Len(w) \in Nat /\ Len(d) \in Nat
    BY <1>2, <2>1
  <2>3. /\ w \o d \in Seq(Byte) /\ Len(w \o d) = Len(w) + Len(d)
        /\ \A k \in 1 .. Len(w) + Len(d) : (w \o d)[k] = IF k <= Len(w) THEN w[k] ELSE d[k - Len(w)]
    BY <1>2, <2>1, ConcatProperties
  <2>4. \A k \in 1 .. Len(w) : (w \o d)[k] = w[k]
    BY <2>2, <2>3
  <2> QED
    BY <2>1, <2>3, <2>4 DEF w
<1>6. Len(wire) \in Nat /\ Len(d) \in Nat
  BY <1>1, <1>2
<1>7. \A k \in 1 .. Size(m_input) : Bytes[k] = c[k]
  BY <1>1, <1>2, <1>3, <1>4, <1>5, <1>6
<1> QED
  BY <1>1, <1>2, <1>3, <1>5, <1>6, <1>7 DEF c

\* The header that OnMsg's loop looks at is that of the message due next.
LEMMA FrontOfInput ==
  ASSUME FrameInv, Size(m_input) > 0
  PROVE  /\ Len(delivered) + 1 \in 1 .. Len(sent)
         /\ FrontLength = Length(Len(delivered) + 1, sent)
         /\ \A k \in 1 .. Size(m_input) :
              k <= Length(Len(delivered) + 1, sent) => Content(m_input)[k] = <<Len(delivered) + 1, k>>
<1> DEFINE d == Len(delivered) + 1
<1>1. Types /\ Chain(Bytes, sent) /\ sent \in Seq(Nat) /\ Bytes \in Seq(Byte) /\ d \in Nat
      /\ Size(m_input) \in Nat
  BY SentSizes, BytesSeq DEF FrameInv, Whole
<1>2. Len(Bytes) \in Nat /\ Len(Bytes) >= Size(m_input)
  BY <1>1, BytesSeq DEF Types
<1>3. Bytes[1] = <<d, 1>> /\ Len(Bytes) > 0
  BY <1>1, <1>2 DEF FrameInv, AtBeginning
<1> HIDE DEF d
<1>4. /\ d \in 1 .. Len(sent)
      /\ \A k \in 1 .. Len(Bytes) : k <= Length(d, sent) => Bytes[k] = <<d, k>>
  BY <1>1, <1>3, ChainFront
<1>5. \A k \in 1 .. Size(m_input) : k <= Length(d, sent) => Content(m_input)[k] = <<d, k>>
  <2> SUFFICES ASSUME NEW k \in 1 .. Size(m_input), k <= Length(d, sent)
               PROVE  Content(m_input)[k] = <<d, k>>
    OBVIOUS
  <2>1. k \in 1 .. Len(Bytes)
    BY <1>1, <1>2
  <2>2. Bytes[k] = <<d, k>>
    BY <1>4, <2>1
  <2>3. Bytes[k] = Content(m_input)[k]
    <3>1. \A i \in 1 .. Size(m_input) : Bytes[i] = Content(m_input)[i]
      BY <1>1, BytesSeq, Zenon
    <3> QED
      BY <3>1
  <2> QED
    BY <2>2, <2>3
<1>6. m_input.mem[m_input.b] = <<d, 1>>
  <2>1. 1 \in 1 .. Size(m_input) /\ m_input.b + 1 - 1 = m_input.b
    <3>1. m_input \in Buffers(Byte)
      BY <1>1 DEF Types
    <3>2. Size(m_input) \in Nat /\ m_input.b \in Nat
      BY <3>1, BufferFields
    <3> QED
      BY <3>2
  <2>2. Content(m_input)[1] = m_input.mem[m_input.b + 1 - 1]
    BY <1>1, <2>1, ContentSeq DEF Types
  <2> QED
    <3>1. Bytes[1] = Content(m_input)[1]
      BY <1>1, <2>1, BytesSeq
    <3>2. Bytes[1] = <<d, 1>>
      BY <1>1, <1>3
    <3> QED
      BY <2>1, <2>2, <3>1, <3>2
<1>7. FrontLength = Length(d, sent)
  BY <1>6 DEF FrontLength, Length
<1> QED
  BY <1>4, <1>5, <1>7 DEF d

\* A sequence at the end of another.
LEMMA SuffixIsSuffix ==
  ASSUME NEW S, NEW u \in Seq(S), NEW s \in Seq(S)
  PROVE  IsSuffix(s, u \o s)
<1> DEFINE t == u \o s
<1>1. /\ t \in Seq(S) /\ Len(t) = Len(u) + Len(s) /\ Len(u) \in Nat /\ Len(s) \in Nat
      /\ \A i \in 1 .. Len(u) + Len(s) : t[i] = IF i <= Len(u) THEN u[i] ELSE s[i - Len(u)]
  BY ConcatProperties
<1> HIDE DEF t
<1>2. /\ Reverse(s) \in Seq(S) /\ Len(Reverse(s)) = Len(s)
      /\ \A i \in 1 .. Len(s) : Reverse(s)[i] = s[(Len(s) - i) + 1]
  BY <1>1 DEF Reverse
<1>3. /\ Reverse(t) \in Seq(S) /\ Len(Reverse(t)) = Len(t)
      /\ \A i \in 1 .. Len(t) : Reverse(t)[i] = t[(Len(t) - i) + 1]
  BY <1>1 DEF Reverse
<1>4. ASSUME NEW i \in 1 .. Len(s) PROVE Reverse(t)[i] = Reverse(s)[i]
  <2>1. /\ i \in 1 .. Len(t) /\ (Len(t) - i) + 1 \in 1 .. Len(u) + Len(s)
        /\ ~((Len(t) - i) + 1 <= Len(u)) /\ ((Len(t) - i) + 1) - Len(u) = (Len(s) - i) + 1
    BY <1>1
  <2> QED
    BY <1>1, <1>2, <1>3, <2>1
<1> DEFINE a == SubSeq(Reverse(s), 1, Len(s))
           b == SubSeq(Reverse(t), 1, Len(s))
<1>5. /\ a \in Seq(S) /\ Len(a) = Len(s) /\ \A i \in 1 .. Len(s) : a[i] = Reverse(s)[i]
  BY <1>1, <1>2, SubSeqProperties
<1>6. /\ b \in Seq(S) /\ Len(b) = Len(s) /\ \A i \in 1 .. Len(s) : b[i] = Reverse(t)[i]
  BY <1>1, <1>3, SubSeqProperties
<1> HIDE DEF a, b
<1>7. a = b
  BY <1>4, <1>5, <1>6, SeqEqual
<1> QED
  BY <1>1, <1>2, <1>3, <1>7 DEF IsSuffix, IsPrefix, a, b, t
----------------------------------------------------------------------------
(* Bytes that go from one place to the next.                               *)

\* A sequence is its first n elements and the others.
LEMMA Halves ==
  ASSUME NEW S, NEW s \in Seq(S), NEW n \in 0 .. Len(s)
  PROVE  /\ SubSeq(s, 1, n) \in Seq(S) /\ SubSeq(s, n + 1, Len(s)) \in Seq(S)
         /\ Len(SubSeq(s, 1, n)) = n
         /\ SubSeq(s, 1, n) \o SubSeq(s, n + 1, Len(s)) = s
<1>1. Len(s) \in Nat /\ n \in Nat /\ n <= Len(s)
  OBVIOUS
<1>2. \A i \in 1 .. Len(s) : s[i] \in S
  OBVIOUS
<1>3. \A i \in 1 .. n : s[i] \in S
  BY <1>1, <1>2
<1>4. \A i \in n + 1 .. Len(s) : s[i] \in S
  BY <1>1, <1>2
<1>5. SubSeq(s, 1, n) \in Seq(S) /\ Len(SubSeq(s, 1, n)) = n
  BY <1>1, <1>3, SubSeqProperties
<1>6. SubSeq(s, n + 1, Len(s)) \in Seq(S)
  BY <1>1, <1>4, SubSeqProperties
<1>7. SubSeq(s, 1, n) \o SubSeq(s, n + 1, Len(s)) = SubSeq(s, 1, Len(s))
  <2>1. 1 \in 1 .. Len(s) + 1 /\ n \in 1 - 1 .. Len(s) /\ Len(s) \in n .. Len(s)
    BY <1>1
  <2> QED
    BY <2>1, ConcatAdjacentSubSeq, Zenon
<1>8. SubSeq(s, 1, Len(s)) = s
  BY SubSeqFull
<1> QED
  BY <1>5, <1>6, <1>7, <1>8

\* What follows the front of a sequence.
LEMMA AfterFront ==
  ASSUME NEW S, NEW p \in Seq(S), NEW r \in Seq(S)
  PROVE  SubSeq(p \o r, Len(p) + 1, Len(p \o r)) = r
<1> DEFINE t == p \o r
           n == Len(p)
           q == SubSeq(t, n + 1, Len(t))
<1>1. /\ t \in Seq(S) /\ Len(t) = n + Len(r) /\ n \in Nat /\ Len(r) \in Nat
      /\ \A i \in 1 .. n + Len(r) : t[i] = IF i <= n THEN p[i] ELSE r[i - n]
  BY ConcatProperties
<1> HIDE DEF t, n
<1>2. q \in Seq(S) /\ Len(q) = Len(r) /\ \A i \in 1 .. Len(r) : q[i] = t[n + i]
  <2> DEFINE a == n + 1
             z == Len(t)
  <2>1. a \in Nat /\ z \in Nat /\ \A i \in a .. z : t[i] \in S
    BY <1>1
  <2>2. z - a + 1 = Len(r) /\ (~(a <= z) => Len(r) = 0) /\ \A i \in 1 .. Len(r) : a + i - 1 = n + i
    BY <1>1
  <2> HIDE DEF a, z
  <2>3. /\ SubSeq(t, a, z) \in Seq(S) /\ Len(SubSeq(t, a, z)) = (IF a <= z THEN z - a + 1 ELSE 0)
        /\ \A i \in 1 .. z - a + 1 : SubSeq(t, a, z)[i] = t[a + i - 1]
    BY <2>1, SubSeqProperties
  <2>4. q = SubSeq(t, a, z)
    BY DEF a, z
  <2> HIDE DEF q
  <2> QED
    BY <2>2, <2>3, <2>4
<1> HIDE DEF q
<1>3. \A i \in 1 .. Len(r) : q[i] = r[i]
  <2> SUFFICES ASSUME NEW i \in 1 .. Len(r) PROVE q[i] = r[i]
    OBVIOUS
  <2>1. n + i \in 1 .. n + Len(r) /\ ~(n + i <= n) /\ (n + i) - n = i
    BY <1>1
  <2> QED
    BY <1>1, <1>2, <2>1
<1>4. q = r
  BY <1>2, <1>3, SeqEqual
<1> QED
  BY <1>4 DEF q, n, t

----------------------------------------------------------------------------
(* The steps.                                                              *)

\* A step that leaves the bytes where they are, or takes them along.
LEMMA Moved ==
  ASSUME FrameInv, Bytes' = Bytes, sent' = sent, stream' = stream, delivered' = delivered
  PROVE  Chain(Bytes, sent)' /\ AtBeginning(Bytes)' /\ Suffix(Bytes)' /\ Whole'
<1>1. Chain(Bytes, sent)'
  BY DEF FrameInv
<1>2. AtBeginning(Bytes)'
  BY DEF FrameInv, AtBeginning
<1>3. Suffix(Bytes)'
  BY DEF FrameInv, Suffix
<1>4. Whole'
  BY DEF FrameInv, Whole
<1> QED
  BY <1>1, <1>2, <1>3, <1>4

\* The bytes of a message as Encode writes them.
LEMMA FrameIs ==
  ASSUME Types, NEW size \in Nat
  PROVE  LET f == HeaderBytes \o BodyBytes(size)
         IN  /\ HeaderBytes \in Seq(Byte) /\ BodyBytes(size) \in Seq(Byte)
             /\ f \in Seq(Byte) /\ Len(f) = Header + size
             /\ \A k \in 1 .. Header + size : f[k] = <<Len(sent) + 1, k>>
<1> DEFINE n == Len(sent) + 1
           h == HeaderBytes
           b == BodyBytes(size)
<1>1. Header \in Nat /\ n \in Nat
  BY SentSizes, FramingAssumption DEF FramingAssumption
<1>2. h = [k \in 1 .. Header |-> <<n, k>>] /\ b = [k \in 1 .. size |-> <<n, Header + k>>]
  BY DEF HeaderBytes, BodyBytes
<1> HIDE DEF n, h, b
<1>3. h \in Seq(Byte) /\ Len(h) = Header
  BY <1>1, <1>2 DEF Byte
<1>4. b \in Seq(Byte) /\ Len(b) = size
  BY <1>1, <1>2 DEF Byte
<1>5. /\ h \o b \in Seq(Byte) /\ Len(h \o b) = Header + size
      /\ \A k \in 1 .. Header + size : (h \o b)[k] = IF k <= Header THEN h[k] ELSE b[k - Header]
  BY <1>3, <1>4, ConcatProperties
<1>6. \A k \in 1 .. Header + size : (h \o b)[k] = <<n, k>>
  <2> SUFFICES ASSUME NEW k \in 1 .. Header + size PROVE (h \o b)[k] = <<n, k>>
    OBVIOUS
  <2>1. CASE k <= Header
    <3>1. k \in 1 .. Header
      BY <1>1, <2>1
    <3> QED
      BY <1>2, <1>5, <2>1, <3>1
  <2>2. CASE ~(k <= Header)
    <3>1. k - Header \in 1 .. size /\ Header + (k - Header) = k
      BY <1>1, <2>2
    <3> QED
      BY <1>2, <1>5, <2>2, <3>1
  <2> QED
    BY <2>1, <2>2
<1> QED
  BY <1>3, <1>4, <1>5, <1>6 DEF n, h, b

\* A message more behind all the others.
LEMMA Recorded ==
  ASSUME FrameInv, NEW size \in Sizes, Record(size),
         Bytes' = Bytes \o (HeaderBytes \o BodyBytes(size)),
         m_input' = m_input, pc' = pc, fresh' = fresh, delivered' = delivered
  PROVE  /\ sent' \in Seq(Sizes) /\ stream' \in Seq(Byte)
         /\ Chain(Bytes, sent)' /\ AtBeginning(Bytes)' /\ Suffix(Bytes)'
         /\ Whole' /\ TooLong' /\ OnlyPart'
<1> DEFINE f == HeaderBytes \o BodyBytes(size)
           d == Len(delivered)
<1>1. Types /\ size \in Nat
  BY FramingAssumption DEF FramingAssumption, FrameInv
<1>2. /\ HeaderBytes \in Seq(Byte) /\ BodyBytes(size) \in Seq(Byte)
      /\ f \in Seq(Byte) /\ Len(f) = Header + size
      /\ \A k \in 1 .. Header + size : f[k] = <<Len(sent) + 1, k>>
  BY <1>1, FrameIs
<1>3. Bytes \in Seq(Byte) /\ sent \in Seq(Nat) /\ Len(sent) \in Nat /\ d \in Nat
  BY <1>1, BytesSeq, SentSizes DEF FrameInv, Whole
<1>4. sent' = Append(sent, size) /\ stream' = stream \o HeaderBytes \o BodyBytes(size)
  BY DEF Record
<1>5. /\ sent' \in Seq(Sizes) /\ Len(sent') = Len(sent) + 1
      /\ \A i \in 1 .. Len(sent) : sent'[i] = sent[i]
  BY <1>1, <1>3, <1>4, AppendProperties DEF Types
<1>6. stream \in Seq(Byte) /\ stream' \in Seq(Byte) /\ stream' = stream \o f
  <2>1. stream \in Seq(Byte)
    BY <1>1 DEF Types
  <2>2. stream \o HeaderBytes \o BodyBytes(size) = stream \o f
    BY <1>2, <2>1, ConcatAssociative, SMTT(30)
  <2>3. stream \o f \in Seq(Byte)
    BY <1>2, <2>1, ConcatProperties
  <2> QED
    BY <1>4, <2>1, <2>2, <2>3
<1> HIDE DEF f
<1>7. Bytes' = Bytes \o f
  BY DEF f
<1>8. Chain(Bytes', sent')
  BY <1>1, <1>2, <1>3, <1>4, <1>7, ChainExtended DEF FrameInv
<1>9. /\ Len(Bytes) \in Nat /\ Len(Bytes') = Len(Bytes) + (Header + size)
      /\ \A k \in 1 .. Len(Bytes) + (Header + size) :
           Bytes'[k] = IF k <= Len(Bytes) THEN Bytes[k] ELSE f[k - Len(Bytes)]
  <2> DEFINE H == Header + size
  <2>1. Bytes \in Seq(Byte) /\ f \in Seq(Byte) /\ Len(f) = H
    BY <1>2, <1>3
  <2> HIDE DEF H
  <2>2. /\ Len(Bytes) \in Nat /\ Len(Bytes \o f) = Len(Bytes) + Len(f)
        /\ \A k \in 1 .. Len(Bytes) + Len(f) :
             (Bytes \o f)[k] = IF k <= Len(Bytes) THEN Bytes[k] ELSE f[k - Len(Bytes)]
    BY ONLY <2>1, ConcatProperties
  <2>3. /\ Len(Bytes) \in Nat /\ Len(Bytes') = Len(Bytes) + H
        /\ \A k \in 1 .. Len(Bytes) + H :
             Bytes'[k] = IF k <= Len(Bytes) THEN Bytes[k] ELSE f[k - Len(Bytes)]
    BY <1>7, <2>1, <2>2
  <2> QED
    BY <2>3 DEF H
<1>10. Bytes'[1] = <<d + 1, 1>> /\ Len(Bytes') # 0
  <2>1. Header + size \in Nat /\ Header + size > 0 /\ 1 \in 1 .. Header + size
    BY <1>1, FramingAssumption DEF FramingAssumption
  <2>2. Len(Bytes') # 0 /\ 1 \in 1 .. Len(Bytes) + (Header + size)
    BY <1>9, <2>1
  <2>3. CASE Len(Bytes) > 0
    <3>1. Bytes'[1] = Bytes[1]
      BY <1>9, <2>2, <2>3
    <3> QED
      BY <2>2, <2>3, <3>1 DEF FrameInv, AtBeginning
  <2>4. CASE Len(Bytes) = 0
    <3>1. d = Len(sent)
      BY <2>4 DEF FrameInv, AtBeginning
    <3>2. Bytes'[1] = f[1]
      BY <1>9, <2>2, <2>4
    <3> QED
      BY <1>2, <2>1, <2>2, <3>1, <3>2
  <2> QED
    BY <1>9, <2>3, <2>4
<1>11. AtBeginning(Bytes)'
  BY <1>10 DEF AtBeginning
<1>12. Suffix(Bytes)'
  <2>1. PICK u \in Seq(Byte) : stream = u \o Bytes
    BY DEF FrameInv, Suffix
  <2>2. (u \o Bytes) \o f = u \o (Bytes \o f)
    <3>1. Bytes \in Seq(Byte) /\ f \in Seq(Byte)
      BY <1>2, <1>3
    <3> QED
      BY ONLY u \in Seq(Byte), <3>1, ConcatAssociative, SMTT(30)
  <2>3. stream' = u \o Bytes'
    BY <1>6, <1>7, <2>1, <2>2
  <2> QED
    BY <2>3 DEF Suffix
<1>13. Whole'
  <2>1. /\ delivered \in Seq(Seq(Byte)) /\ d <= Len(sent)
        /\ \A i \in 1 .. d : delivered[i] = [k \in 1 .. sent[i] |-> <<i, Header + k>>]
    BY DEF FrameInv, Whole
  <2>2. d <= Len(sent') /\ \A i \in 1 .. d : sent'[i] = sent[i]
    BY <1>3, <1>5, <2>1
  <2> QED
    BY <2>1, <2>2 DEF Whole
<1>14. TooLong'
  <2> SUFFICES ASSUME pc = "closed"
               PROVE  d < Len(sent') /\ Length(d + 1, sent') > MaxLen
    BY DEF TooLong
  <2>1. d < Len(sent) /\ Length(d + 1, sent) > MaxLen
    BY DEF FrameInv, TooLong
  <2>2. d + 1 \in 1 .. Len(sent)
    BY <1>3, <2>1
  <2> QED
    BY <1>3, <1>5, <2>1, <2>2 DEF Length
<1>15. OnlyPart'
  <2> SUFFICES ASSUME pc = "recv", ~fresh, Size(m_input) > Header
               PROVE  Size(m_input) < Length(d + 1, sent')
    BY DEF OnlyPart
  <2>1. Size(m_input) < Length(d + 1, sent)
    BY DEF FrameInv, OnlyPart
  <2>2. Size(m_input) > 0
    BY <1>1, BytesSeq, FramingAssumption DEF FramingAssumption
  <2>3. d + 1 \in 1 .. Len(sent)
    BY <2>2, FrontOfInput
  <2> QED
    BY <1>5, <2>1, <2>3 DEF Length
<1> QED
  BY <1>5, <1>6, <1>8, <1>11, <1>12, <1>13, <1>14, <1>15

\* SendMsg appends to m_output, so behind everything that is under way.
LEMMA FrameSendMsg ==
  ASSUME FrameInv, NEW size \in Sizes, SendMsg(size)
  PROVE  FrameInv'
<1> DEFINE h == HeaderBytes
           b == BodyBytes(size)
           c == Content(m_input)
           d == Content(m_output)
<1>1. Types /\ size \in Nat
  BY FramingAssumption DEF FramingAssumption, FrameInv
<1>2. h \in Seq(Byte) /\ b \in Seq(Byte) /\ h \o b \in Seq(Byte)
  BY <1>1, FrameIs
<1>3. m_output' = append(append(m_output, h), b)
      /\ m_input' = m_input /\ wire' = wire /\ pc' = pc /\ fresh' = fresh /\ delivered' = delivered
      /\ Record(size)
  BY DEF SendMsg, Encode
<1>4. c \in Seq(Byte) /\ d \in Seq(Byte) /\ wire \in Seq(Byte) /\ Bytes \in Seq(Byte)
  BY <1>1, BytesSeq DEF Types
<1> HIDE DEF h, b, c, d
<1>5. m_output' \in Buffers(Byte) /\ Content(m_output') = (d \o h) \o b
  <2>1. append(m_output, h) \in Buffers(Byte) /\ Content(append(m_output, h)) = d \o h
    BY <1>1, <1>2, AppendIs DEF Types, d
  <2> QED
    BY <1>2, <1>3, <2>1, AppendIs
<1>6. Bytes = (c \o wire) \o d /\ Bytes' = (c \o wire) \o ((d \o h) \o b)
  BY <1>3, <1>5 DEF Bytes, c, d
<1>7. Bytes' = Bytes \o (h \o b)
  <2>1. c \o wire \in Seq(Byte)
    BY <1>4, ConcatProperties
  <2>2. (d \o h) \o b = d \o (h \o b)
    BY <1>2, <1>4, ConcatAssociative, SMTT(30)
  <2>3. (c \o wire) \o (d \o (h \o b)) = ((c \o wire) \o d) \o (h \o b)
    <3> DEFINE e == c \o wire
               f == h \o b
    <3>1. e \in Seq(Byte) /\ d \in Seq(Byte) /\ f \in Seq(Byte)
      BY <1>2, <1>4, <2>1
    <3> HIDE DEF e, f
    <3>2. e \o (d \o f) = (e \o d) \o f
      BY ONLY <3>1, ConcatAssociative, SMTT(30)
    <3> QED
      BY <3>2 DEF e, f
  <2> QED
    BY <1>6, <2>2, <2>3
<1>8. /\ sent' \in Seq(Sizes) /\ stream' \in Seq(Byte)
      /\ Chain(Bytes, sent)' /\ AtBeginning(Bytes)' /\ Suffix(Bytes)'
      /\ Whole' /\ TooLong' /\ OnlyPart'
  BY <1>3, <1>7, Recorded DEF h, b
<1>9. Types'
  BY <1>1, <1>3, <1>5, <1>8 DEF Types
<1> QED
  BY <1>8, <1>9 DEF FrameInv

\* What ::send takes at once passes m_output by only when it is empty.
LEMMA FrameSendBuffer ==
  ASSUME FrameInv, NEW size \in Sizes, SendBuffer(size)
  PROVE  FrameInv'
<1> DEFINE h == HeaderBytes
           b == BodyBytes(size)
           f == h \o b
           c == Content(m_input)
           d == Content(m_output)
           x == Encode(NullBuffer, size)
           buf == copyFrom(x)
<1>1. Types /\ size \in Nat
  BY FramingAssumption DEF FramingAssumption, FrameInv
<1>2. h \in Seq(Byte) /\ b \in Seq(Byte) /\ f \in Seq(Byte)
  BY <1>1, FrameIs
<1>3. PICK n \in 0 .. Size(buf) :
         /\ Size(m_output) > 0 => n = 0
         /\ wire' = wire \o SubSeq(Content(buf), 1, n)
         /\ m_output' = absorb(m_output, consume(buf, n))
  BY DEF SendBuffer
<1>4. Record(size) /\ m_input' = m_input /\ pc' = pc /\ fresh' = fresh /\ delivered' = delivered
  BY DEF SendBuffer
<1>5. /\ c \in Seq(Byte) /\ d \in Seq(Byte) /\ wire \in Seq(Byte) /\ Bytes \in Seq(Byte)
      /\ Len(d) = Size(m_output) /\ Size(m_output) \in Nat /\ m_output \in Buffers(Byte)
  BY <1>1, BytesSeq DEF Types
<1>6. x = append(append(NullBuffer, h), b)
  BY DEF Encode
<1> HIDE DEF h, b, c, d, x, buf
<1>7. buf \in Buffers(Byte) /\ Content(buf) = f /\ Len(f) = Size(buf)
  <2>1. append(NullBuffer, h) \in Buffers(Byte) /\ Content(append(NullBuffer, h)) = <<>> \o h
    BY <1>2, NullBufferIs, AppendIs
  <2>2. Content(append(NullBuffer, h)) = h
    BY <1>2, <2>1, ConcatEmptySeq
  <2>3. x \in Buffers(Byte) /\ Content(x) = f
    BY <1>2, <1>6, <2>1, <2>2, AppendIs
  <2> HIDE DEF f
  <2>4. buf \in Buffers(Byte) /\ Content(buf) = f
    BY <2>3, CopyFromIs DEF buf
  <2> QED
    BY <2>4, ContentSeq
<1> HIDE DEF f
<1> DEFINE p == SubSeq(f, 1, n)
           q == SubSeq(f, n + 1, Len(f))
<1>8. p \in Seq(Byte) /\ q \in Seq(Byte) /\ p \o q = f /\ Len(p) = n
  BY <1>2, <1>7, Halves
<1>9. consume(buf, n) \in Buffers(Byte) /\ Content(consume(buf, n)) = q
  BY <1>7, ConsumeIs
<1> HIDE DEF p, q
<1>10. m_output' \in Buffers(Byte) /\ Content(m_output') = d \o q
  BY <1>3, <1>5, <1>9, AbsorbIs DEF d
<1>11. wire' = wire \o p /\ wire' \in Seq(Byte)
  <2>1. wire' = wire \o p
    BY <1>3, <1>7 DEF p
  <2> QED
    BY <1>5, <1>8, <2>1, ConcatProperties
<1>12. Bytes = (c \o wire) \o d /\ Bytes' = (c \o (wire \o p)) \o (d \o q)
  BY <1>4, <1>10, <1>11 DEF Bytes, c, d
<1>13. Bytes' = Bytes \o f
  <2>1. c \o wire \in Seq(Byte) /\ wire \o p \in Seq(Byte)
    BY <1>5, <1>8, ConcatProperties
  <2>2. CASE d = <<>>
    <3>1. d \o q = q /\ Bytes = c \o wire
      BY <1>8, <1>12, <2>1, <2>2, ConcatEmptySeq
    <3>2. (c \o (wire \o p)) \o q = (c \o wire) \o (p \o q)
      <4>1. c \in Seq(Byte) /\ wire \in Seq(Byte) /\ p \in Seq(Byte) /\ q \in Seq(Byte)
        BY <1>5, <1>8
      <4> DEFINE e == c \o wire
      <4>2. e \in Seq(Byte) /\ c \o (wire \o p) = e \o p
        <5>1. c \in Seq(Byte) /\ wire \in Seq(Byte) /\ p \in Seq(Byte)
          BY <4>1
        <5>2. e \in Seq(Byte)
          BY ONLY <5>1, ConcatProperties
        <5>3. c \o (wire \o p) = e \o p
          BY ONLY <5>1, ConcatAssociative, SMTT(30)
        <5> QED
          BY <5>2, <5>3
      <4> HIDE DEF e
      <4>3. (e \o p) \o q = e \o (p \o q)
        <5>1. e \in Seq(Byte) /\ p \in Seq(Byte) /\ q \in Seq(Byte)
          BY <4>1, <4>2
        <5> QED
          BY ONLY <5>1, ConcatAssociative, SMTT(30)
      <4> QED
        BY <4>2, <4>3 DEF e
    <3> QED
      BY <1>8, <1>12, <3>1, <3>2
  <2>3. CASE d # <<>>
    <3>1. Size(m_output) > 0
      BY <1>5, <2>3
    <3>2. Len(p) = 0
      BY <1>3, <1>8, <3>1
    <3>3. p = <<>>
      BY <1>8, <3>2
    <3>4. wire \o p = wire /\ q = f
      BY <1>5, <1>8, <3>3, ConcatEmptySeq
    <3>5. (c \o wire) \o (d \o q) = ((c \o wire) \o d) \o q
      <4> DEFINE e == c \o wire
      <4>1. e \in Seq(Byte) /\ d \in Seq(Byte) /\ q \in Seq(Byte)
        BY <1>5, <1>8, <2>1
      <4> HIDE DEF e
      <4>2. e \o (d \o q) = (e \o d) \o q
        BY ONLY <4>1, ConcatAssociative, SMTT(30)
      <4> QED
        BY <4>2 DEF e
    <3> QED
      BY <1>12, <3>4, <3>5
  <2> QED
    BY <2>2, <2>3
<1>14. /\ sent' \in Seq(Sizes) /\ stream' \in Seq(Byte)
       /\ Chain(Bytes, sent)' /\ AtBeginning(Bytes)' /\ Suffix(Bytes)'
       /\ Whole' /\ TooLong' /\ OnlyPart'
  BY <1>4, <1>13, Recorded DEF f, h, b
<1>15. Types'
  BY <1>1, <1>4, <1>10, <1>11, <1>14 DEF Types
<1> QED
  BY <1>14, <1>15 DEF FrameInv

\* What leaves m_output at its front enters the wire at its end.
LEMMA FrameTransmit ==
  ASSUME FrameInv, Transmit
  PROVE  FrameInv'
<1> DEFINE c == Content(m_input)
           d == Content(m_output)
<1>1. Types
  BY DEF FrameInv
<1>2. PICK n \in 1 .. Size(m_output) :
         wire' = wire \o SubSeq(d, 1, n) /\ m_output' = consume(m_output, n)
  BY DEF Transmit
<1>3. /\ m_input' = m_input /\ pc' = pc /\ fresh' = fresh
      /\ sent' = sent /\ stream' = stream /\ delivered' = delivered
  BY DEF Transmit
<1>4. /\ c \in Seq(Byte) /\ d \in Seq(Byte) /\ wire \in Seq(Byte)
      /\ Len(d) = Size(m_output) /\ Size(m_output) \in Nat /\ m_output \in Buffers(Byte)
  BY <1>1, BytesSeq DEF Types
<1> HIDE DEF c, d
<1>5. n \in 0 .. Size(m_output) /\ n \in 0 .. Len(d)
  BY <1>4
<1> DEFINE p == SubSeq(d, 1, n)
           q == SubSeq(d, n + 1, Len(d))
<1>6. p \in Seq(Byte) /\ q \in Seq(Byte) /\ p \o q = d
  BY <1>4, <1>5, Halves
<1>7. m_output' \in Buffers(Byte) /\ Content(m_output') = q
  BY <1>2, <1>4, <1>5, ConsumeIs DEF d
<1>8. wire' = wire \o p /\ wire' \in Seq(Byte)
  BY <1>2, <1>4, <1>6, ConcatProperties
<1> HIDE DEF p, q
<1>9. Bytes = (c \o wire) \o d /\ Bytes' = (c \o (wire \o p)) \o q
  BY <1>3, <1>7, <1>8 DEF Bytes, c, d
<1>10. Bytes' = Bytes
  <2>1. c \in Seq(Byte) /\ wire \in Seq(Byte) /\ p \in Seq(Byte) /\ q \in Seq(Byte)
    BY <1>4, <1>6
  <2>2. (c \o (wire \o p)) \o q = (c \o wire) \o (p \o q)
    <3>1. c \in Seq(Byte) /\ wire \in Seq(Byte) /\ p \in Seq(Byte) /\ q \in Seq(Byte)
      BY <2>1
    <3> DEFINE e == c \o wire
    <3>2. e \in Seq(Byte) /\ c \o (wire \o p) = e \o p
      <4>1. c \in Seq(Byte) /\ wire \in Seq(Byte) /\ p \in Seq(Byte)
        BY <3>1
      <4>2. e \in Seq(Byte)
        BY ONLY <4>1, ConcatProperties
      <4>3. c \o (wire \o p) = e \o p
        BY ONLY <4>1, ConcatAssociative, SMTT(30)
      <4> QED
        BY <4>2, <4>3
    <3> HIDE DEF e
    <3>3. (e \o p) \o q = e \o (p \o q)
      <4>1. e \in Seq(Byte) /\ p \in Seq(Byte) /\ q \in Seq(Byte)
        BY <3>1, <3>2
      <4> QED
        BY ONLY <4>1, ConcatAssociative, SMTT(30)
    <3> QED
      BY <3>2, <3>3 DEF e
  <2> QED
    BY <1>6, <1>9, <2>2
<1>11. Types'
  BY <1>1, <1>3, <1>7, <1>8 DEF Types
<1>12. TooLong' /\ OnlyPart'
  BY <1>3 DEF FrameInv, TooLong, OnlyPart
<1> QED
  BY <1>3, <1>10, <1>11, <1>12, Moved DEF FrameInv

\* What leaves the wire at its front enters m_input at its end.
LEMMA FrameRecv ==
  ASSUME FrameInv, Recv
  PROVE  FrameInv'
<1> DEFINE c == Content(m_input)
           d == Content(m_output)
           x == makeRecvRoom(m_input)
<1>1. Types
  BY DEF FrameInv
<1>2. PICK n \in 1 .. Len(wire) :
         /\ n <= Space(x)
         /\ m_input' = Fill(x, SubSeq(wire, 1, n))
         /\ wire' = SubSeq(wire, n + 1, Len(wire))
  BY DEF Recv
<1>3. /\ m_output' = m_output /\ pc' = pc /\ fresh' = TRUE
      /\ sent' = sent /\ stream' = stream /\ delivered' = delivered
  BY DEF Recv
<1>4. /\ c \in Seq(Byte) /\ d \in Seq(Byte) /\ wire \in Seq(Byte) /\ Len(wire) \in Nat
      /\ m_input \in Buffers(Byte)
  BY <1>1, BytesSeq DEF Types
<1>5. x \in Buffers(Byte) /\ Content(x) = c
  BY <1>4, MakeRecvRoomIs
<1> HIDE DEF c, d, x
<1>6. n \in 0 .. Len(wire)
  BY <1>4
<1> DEFINE p == SubSeq(wire, 1, n)
           q == SubSeq(wire, n + 1, Len(wire))
<1>7. p \in Seq(Byte) /\ q \in Seq(Byte) /\ p \o q = wire /\ Len(p) = n
  BY <1>4, <1>6, Halves
<1>8. wire' = q /\ m_input' = Fill(x, p) /\ n <= Space(x)
  BY <1>2
<1> HIDE DEF p, q
<1>9. m_input' \in Buffers(Byte) /\ Content(m_input') = c \o p
  BY <1>5, <1>7, <1>8, FillIs
<1>10. Bytes = (c \o wire) \o d /\ Bytes' = ((c \o p) \o q) \o d
  BY <1>3, <1>8, <1>9 DEF Bytes, c, d
<1>11. Bytes' = Bytes
  <2>1. c \in Seq(Byte) /\ p \in Seq(Byte) /\ q \in Seq(Byte) /\ d \in Seq(Byte)
    BY <1>4, <1>7
  <2>2. (c \o p) \o q = c \o (p \o q)
    BY ONLY <2>1, ConcatAssociative, SMTT(30)
  <2> QED
    BY <1>7, <1>10, <2>2
<1>12. Types'
  BY <1>1, <1>3, <1>7, <1>8, <1>9 DEF Types
<1>13. TooLong' /\ OnlyPart'
  BY <1>3 DEF FrameInv, TooLong, OnlyPart
<1> QED
  BY <1>3, <1>11, <1>12, <1>13, Moved DEF FrameInv

\* Room is made, and no byte in use is lost.
LEMMA FrameWouldBlock ==
  ASSUME FrameInv, WouldBlock
  PROVE  FrameInv'
<1>1. Types
  BY DEF FrameInv
<1>2. /\ m_input' = makeRecvRoom(m_input) /\ pc' = "decode" /\ fresh' = FALSE
      /\ m_output' = m_output /\ wire' = wire
      /\ sent' = sent /\ stream' = stream /\ delivered' = delivered
  BY DEF WouldBlock
<1>3. m_input' \in Buffers(Byte) /\ Content(m_input') = Content(m_input)
  BY <1>1, <1>2, MakeRecvRoomIs DEF Types
<1>4. Bytes' = Bytes
  BY <1>2, <1>3 DEF Bytes
<1>5. Types'
  BY <1>1, <1>2, <1>3 DEF Types
<1>6. TooLong' /\ OnlyPart'
  BY <1>2 DEF TooLong, OnlyPart
<1> QED
  BY <1>2, <1>4, <1>5, <1>6, Moved DEF FrameInv

\* The loop stops: what is left is a part of a message.
LEMMA FramePart ==
  ASSUME FrameInv, Part
  PROVE  FrameInv'
<1>1. Types /\ TryDecode = 0 /\ pc' = "recv"
      /\ m_output' = m_output /\ wire' = wire /\ m_input' = m_input /\ fresh' = fresh
      /\ sent' = sent /\ stream' = stream /\ delivered' = delivered
  BY DEF FrameInv, Part
<1>2. Bytes' = Bytes /\ Types' /\ TooLong'
  BY <1>1 DEF Bytes, Types, TooLong
<1>3. OnlyPart'
  <2> SUFFICES ASSUME Size(m_input) > Header
               PROVE  Size(m_input) < Length(Len(delivered) + 1, sent)
    BY <1>1 DEF OnlyPart
  <2>1. Size(m_input) \in Nat /\ Size(m_input) > 0 /\ ~(Size(m_input) <= Header)
    BY <1>1, BytesSeq, FramingAssumption DEF FramingAssumption
  <2>2. FrontLength = Length(Len(delivered) + 1, sent) /\ FrontLength \in Nat
    BY <1>1, <2>1, FrontOfInput, SentSizes
  <2>3. FrontLength > Header \/ FrontLength = Header
    BY <1>1, <2>1, <2>2, FrontOfInput, SentSizes, FramingAssumption DEF Length, FramingAssumption
  <2>4. FrontLength # 0
    BY <2>2, <2>3, FramingAssumption DEF FramingAssumption
  <2> QED
    BY <1>1, <2>1, <2>2, <2>4 DEF TryDecode
<1> QED
  BY <1>1, <1>2, <1>3, Moved DEF FrameInv

\* The connection is closed because of the message that is due.
LEMMA FrameRejected ==
  ASSUME FrameInv, Rejected
  PROVE  FrameInv'
<1>1. Types /\ TryDecode < 0 /\ pc' = "closed"
      /\ m_output' = m_output /\ wire' = wire /\ m_input' = m_input /\ fresh' = fresh
      /\ sent' = sent /\ stream' = stream /\ delivered' = delivered
  BY DEF FrameInv, Rejected
<1>2. Bytes' = Bytes /\ Types' /\ OnlyPart'
  BY <1>1 DEF Bytes, Types, OnlyPart
<1>3. TooLong'
  <2> DEFINE d == Len(delivered)
  <2>1. Size(m_input) \in Nat /\ MaxLen \in Nat /\ Header \in Nat \ {0}
    BY <1>1, BytesSeq, FramingAssumption DEF FramingAssumption
  <2>2. Size(m_input) > Header
    BY <1>1, <2>1 DEF TryDecode
  <2>3. d + 1 \in 1 .. Len(sent) /\ FrontLength = Length(d + 1, sent) /\ FrontLength \in Nat
    BY <1>1, <2>1, <2>2, FrontOfInput, SentSizes
  <2>4. FrontLength > MaxLen
    BY <1>1, <2>1, <2>2, <2>3 DEF TryDecode
  <2>5. d \in Nat /\ Len(sent) \in Nat
    BY <1>1, SentSizes DEF FrameInv, Whole
  <2>6. d < Len(sent)
    BY <2>3, <2>5
  <2> QED
    BY <1>1, <2>3, <2>4, <2>6 DEF TooLong
<1> QED
  BY <1>1, <1>2, <1>3, Moved DEF FrameInv

\* The message at the front is delivered and consumed, and no byte of the next.
LEMMA FrameMessage ==
  ASSUME FrameInv, Message
  PROVE  FrameInv'
<1> DEFINE c == Content(m_input)
           d == Content(m_output)
           m == Len(delivered) + 1
           L == TryDecode
<1>1. Types /\ L > 0 /\ pc = "decode" /\ pc' = pc /\ fresh' = fresh
      /\ m_output' = m_output /\ wire' = wire /\ sent' = sent /\ stream' = stream
      /\ delivered' = Append(delivered, SubSeq(c, Header + 1, L))
      /\ m_input' = consume(m_input, L)
  BY DEF FrameInv, Message
<1>2. /\ c \in Seq(Byte) /\ d \in Seq(Byte) /\ wire \in Seq(Byte) /\ Bytes \in Seq(Byte)
      /\ Len(c) = Size(m_input) /\ Size(m_input) \in Nat /\ m_input \in Buffers(Byte)
      /\ sent \in Seq(Nat) /\ m \in Nat /\ Header \in Nat \ {0}
  BY <1>1, BytesSeq, SentSizes, FramingAssumption DEF Types, FramingAssumption, FrameInv, Whole
<1>3. /\ Size(m_input) > Header /\ L = FrontLength
      /\ m \in 1 .. Len(sent) /\ FrontLength = Length(m, sent) /\ L \in Nat /\ L <= Size(m_input)
      /\ \A k \in 1 .. Size(m_input) : k <= L => c[k] = <<m, k>>
  <2>1. Size(m_input) > Header /\ Size(m_input) > 0
    BY <1>1, <1>2 DEF TryDecode
  <2>2. m \in 1 .. Len(sent) /\ FrontLength = Length(m, sent)
        /\ \A k \in 1 .. Size(m_input) : k <= Length(m, sent) => c[k] = <<m, k>>
    BY <2>1, FrontOfInput
  <2>3. FrontLength \in Nat
    BY <1>1, <2>2, SentSizes
  <2>4. L = FrontLength /\ Size(m_input) >= FrontLength
    BY <1>1, <1>2, <2>1, <2>3 DEF TryDecode
  <2> QED
    BY <1>2, <2>1, <2>2, <2>3, <2>4
<1>4. sent[m] \in Nat /\ L = Header + sent[m]
  BY <1>2, <1>3, SMTT(30) DEF Length
<1> HIDE DEF c, d, m, L
<1>5. L \in 0 .. Len(c) /\ L \in 0 .. Size(m_input)
  BY <1>2, <1>3
<1> DEFINE p == SubSeq(c, 1, L)
           q == SubSeq(c, L + 1, Len(c))
           r == (q \o wire) \o d
<1>6. p \in Seq(Byte) /\ q \in Seq(Byte) /\ p \o q = c /\ Len(p) = L
  BY <1>2, <1>5, Halves
<1>7. m_input' \in Buffers(Byte) /\ Content(m_input') = q
  BY <1>1, <1>2, <1>5, ConsumeIs DEF c
<1> HIDE DEF p, q
<1>8. r \in Seq(Byte)
  BY <1>2, <1>6, ConcatProperties
<1>9. Bytes' = r /\ Bytes = ((p \o q) \o wire) \o d
  BY <1>1, <1>6, <1>7 DEF Bytes, c, d
<1>10. Bytes = p \o r
  <2>1. p \in Seq(Byte) /\ q \in Seq(Byte) /\ wire \in Seq(Byte) /\ d \in Seq(Byte)
    BY <1>2, <1>6
  <2> DEFINE e == q \o wire
  <2>2. e \in Seq(Byte)
    BY <2>1, ConcatProperties
  <2>3. (p \o q) \o wire = p \o e
    BY <2>1, ConcatAssociative, SMTT(30)
  <2> HIDE DEF e
  <2>4. (p \o e) \o d = p \o (e \o d)
    <3>1. p \in Seq(Byte) /\ e \in Seq(Byte) /\ d \in Seq(Byte)
      BY <2>1, <2>2
    <3> QED
      BY ONLY <3>1, ConcatAssociative, SMTT(30)
  <2> QED
    BY <1>9, <2>3, <2>4 DEF r, e
<1> HIDE DEF r
<1>11. r = SubSeq(Bytes, L + 1, Len(Bytes)) /\ Len(Bytes) = L + Len(r) /\ Len(r) \in Nat
  <2>1. p \in Seq(Byte) /\ r \in Seq(Byte)
    BY <1>6, <1>8
  <2>2. SubSeq(p \o r, Len(p) + 1, Len(p \o r)) = r
    BY ONLY <2>1, AfterFront
  <2>3. Len(p \o r) = Len(p) + Len(r) /\ Len(r) \in Nat
    BY ONLY <2>1, ConcatProperties
  <2> QED
    BY <1>6, <1>10, <2>2, <2>3
<1>12. Len(Bytes) > 0 /\ L <= Len(Bytes) /\ Bytes[1] = <<m, 1>> /\ Chain(Bytes, sent)
  <2>1. Len(Bytes) > 0 /\ L <= Len(Bytes)
    BY <1>1, <1>3, <1>11
  <2> QED
    BY <2>1 DEF FrameInv, AtBeginning, m
<1>13. /\ Chain(r, sent)
       /\ Len(r) > 0 => r[1] = <<m + 1, 1>>
       /\ Len(r) = 0 => m = Len(sent)
  <2>1. PICK s : s = Bytes
    OBVIOUS
  <2>2. /\ s \in Seq(Byte) /\ Chain(s, sent) /\ Len(s) > 0 /\ s[1] = <<m, 1>>
        /\ Length(m, sent) <= Len(s) /\ r = SubSeq(s, Length(m, sent) + 1, Len(s))
    BY <1>1, <1>3, <1>11, <1>12, <2>1, BytesSeq
  <2>3. sent \in Seq(Nat) /\ m \in Nat
    BY <1>2, <1>3
  <2> QED
    BY <2>2, <2>3, ChainRest
<1> DEFINE t == SubSeq(c, Header + 1, L)
<1>14. t \in Seq(Byte) /\ t = [k \in 1 .. sent[m] |-> <<m, Header + k>>]
  <2> DEFINE e == [k \in 1 .. sent[m] |-> <<m, Header + k>>]
  <2>1. \A i \in Header + 1 .. L : i \in 1 .. Size(m_input)
    BY <1>2, <1>3
  <2>2. \A i \in Header + 1 .. L : c[i] \in Byte /\ c[i] = <<m, i>>
    BY <1>2, <1>3, <2>1
  <2>3. /\ t \in Seq(Byte) /\ Len(t) = sent[m]
        /\ \A i \in 1 .. sent[m] : t[i] = c[Header + i]
    <3>1. L - (Header + 1) + 1 = sent[m] /\ (Header + 1 <= L => L - (Header + 1) + 1 = sent[m])
          /\ (~(Header + 1 <= L) => sent[m] = 0)
      BY <1>2, <1>4, SMTT(30)
    <3>2. \A i \in 1 .. sent[m] : (Header + 1) + i - 1 = Header + i
      BY <1>2, <1>4
    <3> DEFINE h == Header + 1
               j == L - h + 1
    <3>3. h \in Int /\ L \in Int /\ \A i \in h .. L : c[i] \in Byte
      BY <1>2, <1>3, <2>2
    <3>4. h \in Nat /\ L \in Nat /\ j = sent[m] /\ (~(h <= L) => j = 0)
      BY <1>2, <1>3, <3>1, SMTT(30)
    <3>5. /\ t \in Seq(Byte) /\ Len(t) = (IF h <= L THEN j ELSE 0)
          /\ \A i \in 1 .. j : t[i] = c[h + i - 1]
      <4>1. t = SubSeq(c, h, L)
        OBVIOUS
      <4> HIDE DEF h, t
      <4>2. /\ SubSeq(c, h, L) \in Seq(Byte)
            /\ Len(SubSeq(c, h, L)) = (IF h <= L THEN L - h + 1 ELSE 0)
            /\ \A i \in 1 .. L - h + 1 : SubSeq(c, h, L)[i] = c[h + i - 1]
        BY <3>3, SubSeqProperties
      <4> QED
        BY <4>1, <4>2
    <3>6. \A i \in 1 .. j : h + i - 1 = Header + i
      BY <3>2, <3>4
    <3> HIDE DEF h, j, t
    <3> QED
      BY <3>4, <3>5, <3>6
  <2>4. \A i \in 1 .. sent[m] : t[i] = <<m, Header + i>>
    <3>1. \A i \in 1 .. sent[m] : Header + i \in Header + 1 .. L
      BY <1>2, <1>4
    <3> QED
      BY <2>2, <2>3, <3>1
  <2> HIDE DEF t
  <2>5. e \in Seq(Byte) /\ Len(e) = sent[m] /\ \A i \in 1 .. sent[m] : e[i] = <<m, Header + i>>
    <3> DEFINE z == sent[m]
    <3>1. z \in Nat /\ m \in Nat /\ Header \in Nat
      BY <1>2, <1>4
    <3>4. \A k \in 1 .. z : <<m, Header + k>> \in Byte
      <4> HIDE DEF z, e
      <4> QED
        BY ONLY <3>1 DEF Byte
    <3>2. e = [k \in 1 .. z |-> <<m, Header + k>>]
      OBVIOUS
    <3> HIDE DEF z, e
    <3>5. \A i \in 1 .. z : e[i] = <<m, Header + i>> /\ e[i] \in Byte
      BY ONLY <3>2, <3>4
    <3>6. DOMAIN e = 1 .. z /\ e = [k \in 1 .. z |-> e[k]]
      BY ONLY <3>2
    <3>7. e \in [1 .. z -> Byte]
      BY ONLY <3>5, <3>6
    <3>8. e \in Seq(Byte) /\ Len(e) = z
      BY ONLY <3>1, <3>7
    <3>3. e \in Seq(Byte) /\ Len(e) = z /\ \A i \in 1 .. z : e[i] = <<m, Header + i>>
      BY <3>5, <3>8
    <3> QED
      BY <3>3 DEF z
  <2> HIDE DEF e
  <2>6. t = e
    BY <2>3, <2>4, <2>5, SeqEqual
  <2> QED
    BY <2>3, <2>6 DEF e
<1> HIDE DEF t
<1>15. /\ delivered \in Seq(Seq(Byte)) /\ delivered' = Append(delivered, t) /\ delivered' \in Seq(Seq(Byte))
       /\ Len(delivered') = m /\ delivered'[m] = t
       /\ \A i \in 1 .. m - 1 : delivered'[i] = delivered[i]
  <2>1. delivered \in Seq(Seq(Byte)) /\ delivered' = Append(delivered, t)
    BY <1>1 DEF FrameInv, Whole, t
  <2> QED
    BY <1>14, <2>1, AppendProperties DEF m
<1>16. AtBeginning(Bytes)'
  <2>1. (Len(r) > 0 => r[1] = <<Len(delivered') + 1, 1>>) /\ (Len(r) = 0 => Len(delivered') = Len(sent'))
    BY <1>1, <1>13, <1>15
  <2> QED
    BY <1>9, <2>1 DEF AtBeginning
<1>17. Suffix(Bytes)'
  <2>1. PICK u \in Seq(Byte) : stream = u \o Bytes
    BY DEF FrameInv, Suffix
  <2>2. u \o p \in Seq(Byte)
    BY <1>6, <2>1, ConcatProperties
  <2>3. (u \o p) \o r = u \o (p \o r)
    <3>1. p \in Seq(Byte) /\ r \in Seq(Byte)
      BY <1>6, <1>8
    <3> QED
      BY ONLY u \in Seq(Byte), <3>1, ConcatAssociative, SMTT(30)
  <2>4. stream' = (u \o p) \o r
    BY <1>1, <1>10, <2>1, <2>3
  <2> QED
    BY <1>9, <2>2, <2>4 DEF Suffix
<1>18. Whole'
  <2>1. \A i \in 1 .. Len(delivered) : delivered[i] = [k \in 1 .. sent[i] |-> <<i, Header + k>>]
    BY DEF FrameInv, Whole
  <2>2. \A i \in 1 .. m : delivered'[i] = [k \in 1 .. sent[i] |-> <<i, Header + k>>]
    <3> SUFFICES ASSUME NEW i \in 1 .. m PROVE delivered'[i] = [k \in 1 .. sent[i] |-> <<i, Header + k>>]
      OBVIOUS
    <3>1. CASE i = m
      BY <1>14, <1>15, <3>1
    <3>2. CASE i # m
      <4>1. i \in 1 .. m - 1 /\ i \in 1 .. Len(delivered)
        BY <1>2, <1>15, <3>2 DEF m
      <4> QED
        BY <1>15, <2>1, <4>1
    <3> QED
      BY <3>1, <3>2
  <2>3. Len(delivered') <= Len(sent')
    BY <1>1, <1>3, <1>15
  <2> QED
    BY <1>1, <1>15, <2>2, <2>3 DEF Whole
<1>19. TooLong' /\ OnlyPart'
  BY <1>1 DEF TooLong, OnlyPart
<1>20. Types'
  BY <1>1, <1>7 DEF Types
<1> QED
  BY <1>1, <1>9, <1>13, <1>16, <1>17, <1>18, <1>19, <1>20 DEF FrameInv

\* Nothing is under way.
LEMMA FrameInit ==
  ASSUME Init
  PROVE  FrameInv
<1>1. /\ m_output = NullBuffer /\ wire = <<>> /\ m_input = NullBuffer
      /\ pc = "recv" /\ fresh = FALSE /\ sent = <<>> /\ stream = <<>> /\ delivered = <<>>
  BY DEF Init
<1>2. /\ NullBuffer \in Buffers(Byte) /\ Size(NullBuffer) = 0 /\ Content(NullBuffer) = <<>>
  BY NullBufferIs
<1>3. <<>> \in Seq(Byte) /\ <<>> \in Seq(Sizes) /\ <<>> \in Seq(Seq(Byte)) /\ <<>> \in Seq(Nat)
  OBVIOUS
<1>4. Bytes = <<>> /\ Len(Bytes) = 0
  BY <1>1, <1>2, <1>3, ConcatEmptySeq DEF Bytes
<1>5. Types
  BY <1>1, <1>2, <1>3 DEF Types
<1>6. Chain(Bytes, sent)
  BY <1>4 DEF Chain
<1>7. AtBeginning(Bytes) /\ Whole
  BY <1>1, <1>3, <1>4 DEF AtBeginning, Whole
<1>8. Suffix(Bytes)
  BY <1>1, <1>3, <1>4, ConcatEmptySeq DEF Suffix
<1>9. TooLong /\ OnlyPart
  <2>1. Header \in Nat
    BY FramingAssumption DEF FramingAssumption
  <2>2. ~(Size(m_input) > Header)
    BY <1>1, <1>2, <2>1
  <2> QED
    BY <1>1, <2>2 DEF TooLong, OnlyPart
<1> QED
  BY <1>5, <1>6, <1>7, <1>8, <1>9 DEF FrameInv

\* Nothing happens.
LEMMA FrameStutter ==
  ASSUME FrameInv, UNCHANGED vars
  PROVE  FrameInv'
<1>1. /\ m_output' = m_output /\ wire' = wire /\ m_input' = m_input /\ pc' = pc /\ fresh' = fresh
      /\ sent' = sent /\ stream' = stream /\ delivered' = delivered
  BY DEF vars
<1>2. Bytes' = Bytes /\ Types' /\ TooLong' /\ OnlyPart'
  BY <1>1 DEF Bytes, Types, TooLong, OnlyPart, FrameInv
<1> QED
  BY <1>1, <1>2, Moved DEF FrameInv

\* The invariant holds in every state of every instance.
THEOREM FrameInvariant == Spec => []FrameInv
<1>1. Init => FrameInv
  BY FrameInit
<1>2. FrameInv /\ [Next]_vars => FrameInv'
  <2> SUFFICES ASSUME FrameInv, [Next]_vars PROVE FrameInv'
    OBVIOUS
  <2>1. CASE \E size \in Sizes : SendMsg(size) \/ SendBuffer(size)
    BY <2>1, FrameSendMsg, FrameSendBuffer
  <2>2. CASE Transmit
    BY <2>2, FrameTransmit
  <2>3. CASE Recv
    BY <2>3, FrameRecv
  <2>4. CASE WouldBlock
    BY <2>4, FrameWouldBlock
  <2>5. CASE Message
    BY <2>5, FrameMessage
  <2>6. CASE Part
    BY <2>6, FramePart
  <2>7. CASE Rejected
    BY <2>7, FrameRejected
  <2>8. CASE UNCHANGED vars
    BY <2>8, FrameStutter
  <2> QED
    BY <2>1, <2>2, <2>3, <2>4, <2>5, <2>6, <2>7, <2>8 DEF Next
<1> QED
  BY <1>1, <1>2, PTL DEF Spec

----------------------------------------------------------------------------
(* What it says of the properties that the runs check.                     *)

\* What is on its way is always the end of what was sent, from the beginning of
\* a message on: no length is ever taken from the middle of one.
THEOREM AlwaysInTransit == Spec => []InTransit
<1>1. FrameInv => InTransit
  <2> SUFFICES ASSUME FrameInv PROVE InTransit
    OBVIOUS
  <2>1. Types /\ Bytes \in Seq(Byte)
    BY BytesSeq DEF FrameInv
  <2>2. TypeOK
    BY <2>1 DEF TypeOK, Types, Buffers
  <2>3. IsSuffix(Bytes, stream)
    <3>1. PICK u \in Seq(Byte) : stream = u \o Bytes
      BY DEF FrameInv, Suffix
    <3> QED
      BY <2>1, <3>1, SuffixIsSuffix
  <2>4. Bytes # <<>> => Bytes[1] = <<Len(delivered) + 1, 1>>
    <3>1. Bytes # <<>> => Len(Bytes) > 0
      BY <2>1
    <3> QED
      BY <3>1 DEF FrameInv, AtBeginning
  <2> QED
    BY <2>2, <2>3, <2>4 DEF InTransit, Bytes
<1> QED
  BY <1>1, FrameInvariant, PTL

\* The callback gets each message whole, once and in order, however TCP cut it.
THEOREM DeliveredWhole == Spec => []WholeMessages
<1>1. FrameInv => WholeMessages
  <2> SUFFICES ASSUME FrameInv PROVE WholeMessages
    OBVIOUS
  <2>1. Types /\ Len(delivered) \in Nat /\ Len(sent) \in Nat /\ Header \in Nat /\ MaxLen \in Nat
    BY SentSizes, FramingAssumption DEF FramingAssumption, FrameInv, Whole
  <2>2. ASSUME pc = "closed" PROVE sent[Len(delivered) + 1] > MaxLen - Header
    <3> DEFINE m == Len(delivered) + 1
    <3>1. m \in 1 .. Len(sent) /\ Length(m, sent) > MaxLen
      BY <2>1, <2>2 DEF FrameInv, TooLong
    <3>2. sent[m] \in Nat
      BY <2>1, <3>1, SentSizes
    <3> HIDE DEF m
    <3>3. sent[m] > MaxLen - Header
      BY <2>1, <3>1, <3>2 DEF Length
    <3> QED
      BY <3>3 DEF m
  <2> QED
    BY <2>2 DEF WholeMessages, FrameInv, Whole
<1> QED
  BY <1>1, FrameInvariant, PTL

\* When all that was sent has come and OnMsg's loop has seen it, all of it has
\* been delivered, provided that no message is empty.
THEOREM DeliveredAll ==
  ASSUME 0 \notin Sizes
  PROVE  Spec => []NothingHeld
<1>1. FrameInv => NothingHeld
  <2> SUFFICES ASSUME FrameInv, pc = "recv", wire = <<>>, Size(m_output) = 0, ~fresh
               PROVE  Len(delivered) = Len(sent)
    BY DEF NothingHeld
  <2> DEFINE n == Size(m_input)
             m == Len(delivered) + 1
             t == Len(sent)
  <2>1. /\ Types /\ n \in Nat /\ Len(Bytes) = n /\ t \in Nat /\ m \in Nat /\ Header \in Nat \ {0}
        /\ \A k \in 1 .. n : Bytes[k] = Content(m_input)[k]
    BY BytesSeq, SentSizes, FramingAssumption DEF FramingAssumption, FrameInv, Whole
  <2>2. CASE n = 0
    BY <2>1, <2>2 DEF FrameInv, AtBeginning
  <2>3. CASE n > 0
    <3>1. m \in 1 .. t /\ \A k \in 1 .. n : k <= Length(m, sent) => Content(m_input)[k] = <<m, k>>
      BY <2>3, FrontOfInput
    <3>2. sent[m] \in Sizes /\ sent[m] \in Nat /\ sent[m] # 0
      BY <2>1, <3>1, SentSizes
    <3>3. Bytes[n] = <<t, Length(t, sent)>>
      BY <2>1, <2>3 DEF FrameInv, Chain
    <3>4. n < Length(m, sent)
      <4>1. CASE n > Header
        BY <4>1 DEF FrameInv, OnlyPart
      <4>2. CASE n <= Header
        <5> HIDE DEF n, m
        <5> QED
          BY <2>1, <3>2, <4>2 DEF Length
      <4> QED
        BY <2>1, <4>1, <4>2
    <3>5. Bytes[n] = <<m, n>>
      <4>1. n \in 1 .. n /\ n <= Length(m, sent)
        <5>1. Length(m, sent) \in Nat
          BY <2>1, <3>1, SentSizes
        <5> QED
          BY <2>1, <2>3, <3>4, <5>1
      <4> QED
        BY <2>1, <3>1, <4>1
    <3>6. m = t /\ n = Length(m, sent)
      BY <3>3, <3>5
    <3> QED
      BY <2>1, <3>4, <3>6
  <2> QED
    BY <2>1, <2>2, <2>3
<1> QED
  BY <1>1, FrameInvariant, PTL
=============================================================================
