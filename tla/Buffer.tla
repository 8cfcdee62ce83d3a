-------------------------------- MODULE Buffer --------------------------------
(***************************************************************************)
(* network::Buffer, the input and output buffer of every connection: one   *)
(* vector with a prependable, a readable and a writable part.              *)
(*                                                                         *)
(* A buffer is a record of the vector's cells (numbered from 0, as in the  *)
(* code) and the two indices; the methods are operators on such records,   *)
(* so that shrink can work on a second one as the code does.  ok is false  *)
(* once an assert has failed.                                              *)
(***************************************************************************)
EXTENDS Integers, Sequences

CONSTANTS
  Byte,           \* the values a char may have
  Zero,           \* the value of a cell nobody has written yet
  kCheapPrepend,
  kInitialSize,
  ExtraBuf,       \* BUFFER_LEN, the size of readFd's extrabuf
  MaxLen,         \* bound: bytes passed to one call
  MaxReadable     \* bound: readable bytes

ASSUME BufferAssumption ==
  /\ Zero \in Byte
  /\ kCheapPrepend \in Nat /\ kInitialSize \in Nat /\ ExtraBuf \in Nat
  /\ MaxLen \in Nat /\ MaxReadable \in Nat

VARIABLES
  buf,
  call     \* the last call, as its user saw it

vars == <<buf, call>>

Strings == UNION {[1 .. n -> Byte] : n \in 0 .. MaxLen}

\* Buffer(): what initialSize says is ignored but for an assert.
NewBuffer ==
  [size  |-> kCheapPrepend + kInitialSize,
   cells |-> [i \in 0 .. kCheapPrepend + kInitialSize - 1 |-> Zero],
   readIndex |-> kCheapPrepend, writeIndex |-> kCheapPrepend, ok |-> TRUE]

readableBytes(b)    == b.writeIndex - b.readIndex
writableBytes(b)    == b.size - b.writeIndex
prependableBytes(b) == b.readIndex

\* The bytes from peek() to beginWrite().
Readable(b) == [i \in 1 .. readableBytes(b) |-> b.cells[b.readIndex + i - 1]]

assert(b, P) == [b EXCEPT !.ok = @ /\ P]

\* std::copy of the string s to the cells from position at on; a cell beyond
\* the vector is lost (and hasWritten's assert fails).
copy(b, s, at) ==
  [b EXCEPT !.cells = [i \in 0 .. b.size - 1 |->
                         IF i \in at .. at + Len(s) - 1 THEN s[i - at + 1] ELSE @[i]]]

-----------------------------------------------------------------------------
(* Writing.                                                                *)

\* buffer_.resize(n)
resize(b, n) ==
  [b EXCEPT !.size  = n,
            !.cells = [i \in 0 .. n - 1 |-> IF i < b.size THEN b.cells[i] ELSE Zero]]

\* makeSpace(): the readable bytes move down to kCheapPrepend.
moveDown(b) ==
  LET c == copy(assert(b, kCheapPrepend < b.readIndex), Readable(b), kCheapPrepend)
  IN  [c EXCEPT !.readIndex = kCheapPrepend, !.writeIndex = kCheapPrepend + readableBytes(b)]

\* makeSpace() that counts the reserved prepend area as free.
makeSpaceGreedy(b, len) ==
  IF writableBytes(b) + prependableBytes(b) < len
  THEN resize(b, b.writeIndex + len)
  ELSE moveDown(b)

\* makeSpace() that always resizes.
makeSpaceByResize(b, len) == resize(b, b.writeIndex + len)

makeSpace(b, len) ==
  IF writableBytes(b) + prependableBytes(b) < len + kCheapPrepend
  THEN resize(b, b.writeIndex + len)
  ELSE moveDown(b)

checkWritableSpace(b, len) ==
  LET c == IF writableBytes(b) < len THEN makeSpace(b, len) ELSE b
  IN  assert(c, writableBytes(c) >= len)

hasWritten(b, len) ==
  [assert(b, writableBytes(b) >= len) EXCEPT !.writeIndex = @ + len]

append(b, s) ==
  LET c == checkWritableSpace(b, Len(s))
  IN  hasWritten(copy(c, s, c.writeIndex), Len(s))

prepend(b, s) ==
  LET c == [assert(b, Len(s) <= prependableBytes(b)) EXCEPT !.readIndex = @ - Len(s)]
  IN  copy(c, s, c.readIndex)

\* readFd() that appends extrabuf without having filled the buffer.
readFdForgetsIndex(b, s) ==
  IF Len(s) <= writableBytes(b)
  THEN [copy(b, s, b.writeIndex) EXCEPT !.writeIndex = @ + Len(s)]
  ELSE append(copy(b, SubSeq(s, 1, writableBytes(b)), b.writeIndex),
              SubSeq(s, writableBytes(b) + 1, Len(s)))

\* readFd() when ::readv returned the bytes s: the writable part takes what it
\* can, the rest is in extrabuf and is appended.
readFd(b, s) ==
  IF Len(s) <= writableBytes(b)
  THEN [copy(b, s, b.writeIndex) EXCEPT !.writeIndex = @ + Len(s)]
  ELSE append([copy(b, SubSeq(s, 1, writableBytes(b)), b.writeIndex)
                 EXCEPT !.writeIndex = b.size],
              SubSeq(s, writableBytes(b) + 1, Len(s)))

\* iovcnt: extrabuf is offered only when the writable part is shorter than it.
iovSpace(b) ==
  IF writableBytes(b) < ExtraBuf THEN writableBytes(b) + ExtraBuf ELSE writableBytes(b)

-----------------------------------------------------------------------------
(* Reading.                                                                *)

retrieveAll(b) == [b EXCEPT !.readIndex = kCheapPrepend, !.writeIndex = kCheapPrepend]

retrieve(b, len) ==
  LET c == assert(b, len <= readableBytes(b))
  IN  IF len < readableBytes(b) THEN [c EXCEPT !.readIndex = @ + len] ELSE retrieveAll(c)

unWrite(b, len) ==
  [assert(b, len <= readableBytes(b)) EXCEPT !.writeIndex = @ - len]

\* shrink(): a new buffer takes the readable bytes and is swapped in.
shrink(b, reserve) ==
  LET other == append(checkWritableSpace(NewBuffer, readableBytes(b) + reserve), Readable(b))
  IN  [other EXCEPT !.ok = @ /\ b.ok]

-----------------------------------------------------------------------------
(* The calls of a user that keeps the methods' preconditions.              *)

Fits(len) == readableBytes(buf) + len <= MaxReadable

Called(op, bytes) == call' = [op |-> op, bytes |-> bytes]

Append_ == \E s \in Strings :
  /\ Fits(Len(s))
  /\ buf' = append(buf, s)
  /\ Called("put", s)

Prepend == \E s \in Strings :
  /\ Fits(Len(s)) /\ Len(s) <= prependableBytes(buf)
  /\ buf' = prepend(buf, s)
  /\ Called("putBack", s)

\* A readv that fails changes nothing and is not shown.
ReadFd == \E s \in Strings :
  /\ Fits(Len(s)) /\ Len(s) <= iovSpace(buf)
  /\ buf' = readFd(buf, s)
  /\ Called("put", s)

\* retrieve(), retrieveUntil(), retrieveAsString() and their All forms.
Retrieve == \E n \in 0 .. readableBytes(buf) :
  /\ buf' = retrieve(buf, n)
  /\ Called("take", [i \in 1 .. n |-> Readable(buf)[i]])

UnWrite == \E n \in 0 .. readableBytes(buf) :
  /\ buf' = unWrite(buf, n)
  /\ Called("undo", [i \in 1 .. n |-> Readable(buf)[readableBytes(buf) - n + i]])

Shrink == \E reserve \in 0 .. MaxLen :
  /\ buf' = shrink(buf, reserve)
  /\ UNCHANGED call

Init == buf = NewBuffer /\ call = [op |-> "new", bytes |-> <<>>]

Next == Append_ \/ Prepend \/ ReadFd \/ Retrieve \/ UnWrite \/ Shrink

Spec == Init /\ [][Next]_vars

-----------------------------------------------------------------------------
(* Properties.                                                             *)

\* No assert of Buffer fails whatever the order of calls, a prepend into the
\* reserved area, a move-down and a resize included: makeSpace is never asked to
\* move data up, after it there is room, and the indices stay in order.
AssertsHold ==
  /\ buf.ok
  /\ 0 <= buf.readIndex /\ buf.readIndex <= buf.writeIndex /\ buf.writeIndex <= buf.size

\* The memory of a connection stays proportional to what is readable: room freed
\* by retrieve is used again, so a buffer that is filled and emptied for ever
\* does not grow for ever.
GrowthBounded ==
  \/ buf.size <= kCheapPrepend + kInitialSize
  \/ buf.size <= kCheapPrepend + MaxReadable + MaxLen

Queue == INSTANCE ByteQueue WITH queue <- Readable(buf)

\* The bytes a user reads are the bytes it wrote, in order, through every
\* resize, move-down, shrink and split read: the readable part is a byte queue.
IsByteQueue == Queue!Spec

=============================================================================
