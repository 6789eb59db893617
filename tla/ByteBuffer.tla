----------------------------- MODULE ByteBuffer -----------------------------
(***************************************************************************)
(* Buffer: bytes b_ .. e_ - 1 of an array of cap_ bytes, as a record, and  *)
(* the operations that grow, move, fill, consume, exchange and copy it.    *)
(***************************************************************************)
EXTENDS Integers, Sequences

CONSTANTS
  Junk,       \* the contents of new memory
  Exp         \* exp_, 512

ASSUME ByteBufferAssumption == Exp \in Nat \ {0}

NullBuffer == [mem |-> [k \in {} |-> Junk], b |-> 0, e |-> 0, cap |-> 0]

Size(x) == x.e - x.b
Space(x) == x.cap - x.e
Content(x) == [k \in 1 .. Size(x) |-> x.mem[x.b + k - 1]]

\* The fields delimit a part of the array.
WellFormed(x) ==
  /\ x.cap \in Nat /\ x.e \in 0 .. x.cap /\ x.b \in 0 .. x.e
  /\ DOMAIN x.mem = 0 .. x.cap - 1

Larger(m, n) == IF m < n THEN n ELSE m

\* Mutant: the offsets are moved and the bytes are not.
MoveHeadOffsets(x) == [x EXCEPT !.b = 0, !.e = Size(x)]

MoveHead(x) ==
  [x EXCEPT !.mem = [k \in 0 .. x.cap - 1 |-> IF k < Size(x) THEN x.mem[x.b + k] ELSE x.mem[k]],
            !.b = 0, !.e = Size(x)]

expand(x, len) ==
  LET ncap == Larger(Exp, Larger(2 * x.cap, Size(x) + len))
  IN [mem |-> [k \in 0 .. ncap - 1 |-> IF k < Size(x) THEN x.mem[x.b + k] ELSE Junk],
      b |-> 0, e |-> Size(x), cap |-> ncap]

\* makeRoom() without an argument, before a recv.
makeRecvRoom(x) == IF Space(x) < Exp THEN expand(x, 0) ELSE x

makeRoom(x, len) ==
  IF x.e + len <= x.cap THEN x
  ELSE IF Size(x) + len < x.cap \div 2 THEN MoveHead(x)
  ELSE expand(x, len)

\* addSize, after s was written at end(), within the array or not.
Fill(x, s) ==
  LET room == x.e .. x.e + Len(s) - 1
  IN [x EXCEPT !.mem = [k \in DOMAIN x.mem \cup room |-> IF k \in room THEN s[k - x.e + 1] ELSE x.mem[k]],
               !.e = x.e + Len(s)]

append(x, s) == Fill(makeRoom(x, Len(s)), s)

consume(x, n) == IF x.b + n = x.e THEN NullBuffer ELSE [x EXCEPT !.b = x.b + n]

\* A copy has memory of its own, of which only the bytes in use are copied.
copyFrom(x) == [x EXCEPT !.mem = [k \in DOMAIN x.mem |-> IF k \in x.b .. x.e - 1 THEN x.mem[k] ELSE Junk]]

\* An empty buffer trades places with y; any other is extended by y's bytes.
absorb(x, y) == IF Size(x) = 0 THEN y ELSE append(x, Content(y))
=============================================================================
