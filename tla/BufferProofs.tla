----------------------------- MODULE BufferProofs -----------------------------
(***************************************************************************)
(* Buffer for every size of the reserved area, of the buffer and of the    *)
(* data: no assert fails, the vector stays small, and the readable bytes   *)
(* are a byte queue.                                                       *)
(*                                                                         *)
(* Each method has a lemma that says what it does to a good buffer (it     *)
(* stays good, its readable length changes as it should, and its vector    *)
(* grows by no more than it must) and one on its readable bytes.           *)
(***************************************************************************)
EXTENDS Buffer, SequenceTheorems, TLAPS

\* The fields' types and the order of the indices; no assert has failed.
Vectors == UNION {[0 .. n - 1 -> Byte] : n \in Nat}

Record ==
  [size : Nat, cells : Vectors, readIndex : Nat, writeIndex : Nat, ok : BOOLEAN]

Good(b) ==
  /\ b \in Record
  /\ b.cells \in [0 .. b.size - 1 -> Byte]
  /\ b.ok = TRUE
  /\ b.readIndex <= b.writeIndex
  /\ b.writeIndex <= b.size
  /\ kCheapPrepend <= b.size

\* A vector that is at most as long as GrowthBounded says.
Small(b) ==
  \/ b.size <= kCheapPrepend + kInitialSize
  \/ b.size <= kCheapPrepend + MaxReadable + MaxLen

IndInv ==
  /\ Good(buf)
  /\ readableBytes(buf) <= MaxReadable
  /\ Small(buf)

-----------------------------------------------------------------------------
(* The parts of the methods.                                               *)

\* The three sizes are natural numbers that add up to the vector's.
LEMMA SizesLemma ==
  ASSUME NEW b, Good(b)
  PROVE  /\ readableBytes(b) \in Nat /\ writableBytes(b) \in Nat
         /\ prependableBytes(b) \in Nat
         /\ readableBytes(b) + writableBytes(b) + prependableBytes(b) = b.size
BY DEF Good, Record, readableBytes, writableBytes, prependableBytes

\* Membership in the union of the vectors of all sizes.
LEMMA VectorsLemma ==
  ASSUME NEW n \in Nat, NEW f \in [0 .. n - 1 -> Byte]
  PROVE  f \in Vectors
BY DEF Vectors

\* copy changes cells only, and keeps their types.
LEMMA CopyLemma ==
  ASSUME NEW b, Good(b), NEW n \in Nat, NEW s \in [1 .. n -> Byte], NEW at \in Nat, Len(s) = n
  PROVE  /\ Good(copy(b, s, at))
         /\ copy(b, s, at).size = b.size
         /\ copy(b, s, at).readIndex = b.readIndex
         /\ copy(b, s, at).writeIndex = b.writeIndex
<1> DEFINE new == [i \in 0 .. b.size - 1 |->
                     IF i \in at .. at + Len(s) - 1 THEN s[i - at + 1] ELSE b.cells[i]]
<1>1. new \in [0 .. b.size - 1 -> Byte]
  <2> SUFFICES ASSUME NEW i \in 0 .. b.size - 1
               PROVE  (IF i \in at .. at + Len(s) - 1 THEN s[i - at + 1] ELSE b.cells[i]) \in Byte
    OBVIOUS
  <2>1. b.size \in Nat /\ b.cells[i] \in Byte
    BY DEF Good, Record
  <2>2. ASSUME i \in at .. at + Len(s) - 1
        PROVE  i - at + 1 \in 1 .. n
    BY <2>1, <2>2
  <2> QED BY <2>1, <2>2
<1>2. copy(b, s, at) = [b EXCEPT !.cells = new]
  BY DEF copy
<1>3. b.size \in Nat
  BY DEF Good, Record
<1> HIDE DEF new
<1>4. new \in Vectors
  BY <1>1, <1>3, VectorsLemma
<1> QED BY <1>1, <1>2, <1>3, <1>4 DEF Good, Record

\* An assert that holds changes nothing.
LEMMA AssertLemma ==
  ASSUME NEW b, Good(b), NEW P, P
  PROVE  assert(b, P) = b
BY DEF assert, Good, Record

\* String(s, n): n bytes.
String(s, n) == n \in Nat /\ s \in [1 .. n -> Byte] /\ s \in Seq(Byte) /\ Len(s) = n

\* A function on 1 .. n is a string of n bytes.
LEMMA FunctionIsString ==
  ASSUME NEW n \in Nat, NEW s \in [1 .. n -> Byte]
  PROVE  String(s, n)
<1>1. s \in Seq(Byte)
  OBVIOUS
<1>2. Len(s) = n
  BY <1>1
<1> QED BY <1>1, <1>2 DEF String

\* What a user passes to append, prepend and readFd is a string.
LEMMA StringsLemma ==
  ASSUME NEW s \in Strings
  PROVE  String(s, Len(s)) /\ Len(s) <= MaxLen
<1>1. PICK n \in 0 .. MaxLen : s \in [1 .. n -> Byte]
  BY DEF Strings
<1>2. n \in Nat /\ n <= MaxLen
  BY <1>1, BufferAssumption DEF BufferAssumption
<1> QED BY <1>1, <1>2, FunctionIsString DEF String

\* The two parts of what readv returned are strings.
LEMMA PartLemma ==
  ASSUME NEW s, NEW n, String(s, n), NEW a \in Nat, NEW b \in Nat, 1 <= a, a <= b + 1, b <= n
  PROVE  String(SubSeq(s, a, b), b - a + 1)
<1>1. SubSeq(s, a, b) = [i \in 1 .. b - a + 1 |-> s[i + a - 1]]
  BY DEF String
<1>2. \A i \in 1 .. b - a + 1 : s[i + a - 1] \in Byte
  BY DEF String
<1>3. SubSeq(s, a, b) \in [1 .. b - a + 1 -> Byte]
  BY <1>1, <1>2
<1>4. b - a + 1 \in Nat
  OBVIOUS
<1> QED BY <1>3, <1>4, FunctionIsString

\* The readable part is a string of the cells between the indices.
LEMMA ReadableLemma ==
  ASSUME NEW b, Good(b)
  PROVE  String(Readable(b), readableBytes(b))
<1>1. \A i \in 1 .. readableBytes(b) : b.cells[b.readIndex + i - 1] \in Byte
  BY DEF Good, Record, readableBytes
<1>2. Readable(b) \in [1 .. readableBytes(b) -> Byte]
  BY <1>1 DEF Readable
<1> QED BY <1>2, SizesLemma, FunctionIsString

\* NewBuffer is good and empty.
LEMMA NewBufferLemma ==
  /\ Good(NewBuffer) /\ Small(NewBuffer)
  /\ readableBytes(NewBuffer) = 0
  /\ NewBuffer.readIndex = kCheapPrepend
  /\ NewBuffer.size = kCheapPrepend + kInitialSize
<1> USE BufferAssumption DEF BufferAssumption
<1>1. kCheapPrepend + kInitialSize \in Nat
  OBVIOUS
<1>2. [i \in 0 .. kCheapPrepend + kInitialSize - 1 |-> Zero]
        \in [0 .. kCheapPrepend + kInitialSize - 1 -> Byte]
  OBVIOUS
<1>3. [i \in 0 .. kCheapPrepend + kInitialSize - 1 |-> Zero] \in Vectors
  BY <1>1, <1>2, VectorsLemma
<1> QED BY <1>1, <1>2, <1>3 DEF Good, Record, Small, NewBuffer, readableBytes

-----------------------------------------------------------------------------
(* The methods.                                                            *)

\* buffer_.resize(n) to a longer vector.
LEMMA ResizeLemma ==
  ASSUME NEW b, Good(b), NEW n \in Nat, b.size <= n
  PROVE  /\ Good(resize(b, n))
         /\ resize(b, n).size = n
         /\ resize(b, n).readIndex = b.readIndex
         /\ resize(b, n).writeIndex = b.writeIndex
<1> DEFINE new == [i \in 0 .. n - 1 |-> IF i < b.size THEN b.cells[i] ELSE Zero]
<1>1. new \in [0 .. n - 1 -> Byte]
  <2> SUFFICES ASSUME NEW i \in 0 .. n - 1
               PROVE  (IF i < b.size THEN b.cells[i] ELSE Zero) \in Byte
    OBVIOUS
  <2> QED BY BufferAssumption DEF BufferAssumption, Good, Record
<1>2. resize(b, n) = [b EXCEPT !.size = n, !.cells = new]
  BY DEF resize
<1>3. kCheapPrepend \in Nat
  BY BufferAssumption DEF BufferAssumption
<1> HIDE DEF new
<1>4. new \in Vectors
  BY <1>1, <1>3, VectorsLemma
<1>5. resize(b, n) \in Record
  BY <1>2, <1>4 DEF Good, Record
<1>6. /\ resize(b, n).size = n /\ resize(b, n).cells = new
      /\ resize(b, n).readIndex = b.readIndex /\ resize(b, n).writeIndex = b.writeIndex
      /\ resize(b, n).ok = b.ok
  BY <1>2 DEF Good, Record
<1> QED BY <1>1, <1>3, <1>5, <1>6 DEF Good, Record

\* moveDown, when there is something below the data to move into.
LEMMA MoveDownLemma ==
  ASSUME NEW b, Good(b), kCheapPrepend < b.readIndex
  PROVE  /\ Good(moveDown(b))
         /\ moveDown(b).size = b.size
         /\ moveDown(b).readIndex = kCheapPrepend
         /\ readableBytes(moveDown(b)) = readableBytes(b)
<1> DEFINE c == copy(b, Readable(b), kCheapPrepend)
<1>1. moveDown(b) = [c EXCEPT !.readIndex = kCheapPrepend,
                              !.writeIndex = kCheapPrepend + readableBytes(b)]
  BY AssertLemma DEF moveDown
<1>2. kCheapPrepend \in Nat
  BY BufferAssumption DEF BufferAssumption
<1>3. /\ Good(c) /\ c.size = b.size /\ c.readIndex = b.readIndex /\ c.writeIndex = b.writeIndex
  BY <1>2, ReadableLemma, CopyLemma DEF String
<1>4. kCheapPrepend + readableBytes(b) <= b.size /\ readableBytes(b) \in Nat
  BY <1>2, SizesLemma DEF Good, Record, readableBytes
<1> HIDE DEF c
<1>5. moveDown(b) \in Record
  <2>1. kCheapPrepend + readableBytes(b) \in Nat /\ c \in Record
    BY <1>2, <1>3, <1>4 DEF Good
  <2> QED BY <1>1, <1>2, <2>1 DEF Record
<1>6. /\ moveDown(b).size = b.size /\ moveDown(b).cells = c.cells /\ moveDown(b).ok = c.ok
      /\ moveDown(b).readIndex = kCheapPrepend
      /\ moveDown(b).writeIndex = kCheapPrepend + readableBytes(b)
  BY <1>1, <1>3 DEF Good, Record
<1>7. Good(moveDown(b))
  BY <1>2, <1>3, <1>4, <1>5, <1>6 DEF Good
<1> QED BY <1>2, <1>4, <1>6, <1>7 DEF readableBytes

\* makeSpace makes room without losing data, and grows only to less than the
\* data, twice the request and the reserved area.
LEMMA MakeSpaceLemma ==
  ASSUME NEW b, Good(b), NEW len \in Nat, writableBytes(b) < len
  PROVE  /\ Good(makeSpace(b, len))
         /\ writableBytes(makeSpace(b, len)) >= len
         /\ readableBytes(makeSpace(b, len)) = readableBytes(b)
         /\ \/ makeSpace(b, len).size <= b.size
            \/ /\ makeSpace(b, len).size = b.writeIndex + len
               /\ b.writeIndex + len < kCheapPrepend + readableBytes(b) + len + len
<1> USE BufferAssumption DEF BufferAssumption
<1>0. /\ b.size \in Nat /\ b.readIndex \in Nat /\ b.writeIndex \in Nat
      /\ b.readIndex <= b.writeIndex /\ b.writeIndex <= b.size
  BY DEF Good, Record
<1>1. CASE writableBytes(b) + prependableBytes(b) < len + kCheapPrepend
  <2>1. makeSpace(b, len) = resize(b, b.writeIndex + len)
    BY <1>1 DEF makeSpace
  <2>2. b.size <= b.writeIndex + len /\ b.writeIndex + len \in Nat
    BY <1>0 DEF writableBytes
  <2> QED BY <1>0, <1>1, <2>1, <2>2, ResizeLemma DEF writableBytes, prependableBytes, readableBytes
<1>2. CASE ~(writableBytes(b) + prependableBytes(b) < len + kCheapPrepend)
  <2>1. makeSpace(b, len) = moveDown(b)
    BY <1>2 DEF makeSpace
  <2>2. kCheapPrepend < b.readIndex
    BY <1>0, <1>2 DEF writableBytes, prependableBytes
  <2>3. /\ Good(moveDown(b)) /\ moveDown(b).size = b.size
        /\ moveDown(b).readIndex = kCheapPrepend
        /\ readableBytes(moveDown(b)) = readableBytes(b)
    BY <2>2, MoveDownLemma
  <2>4. writableBytes(moveDown(b)) = b.size - kCheapPrepend - readableBytes(b)
    BY <1>0, <2>3 DEF writableBytes, readableBytes, Good, Record
  <2> QED BY <1>0, <1>2, <2>1, <2>3, <2>4 DEF writableBytes, prependableBytes, readableBytes
<1> QED BY <1>1, <1>2

\* checkWritableSpace's assert holds, and only makeSpace grows the vector.
LEMMA CheckWritableSpaceLemma ==
  ASSUME NEW b, Good(b), NEW len \in Nat
  PROVE  /\ Good(checkWritableSpace(b, len))
         /\ writableBytes(checkWritableSpace(b, len)) >= len
         /\ readableBytes(checkWritableSpace(b, len)) = readableBytes(b)
         /\ \/ checkWritableSpace(b, len).size <= b.size
            \/ /\ checkWritableSpace(b, len).size = b.writeIndex + len
               /\ b.writeIndex + len < kCheapPrepend + readableBytes(b) + len + len
<1> DEFINE c == IF writableBytes(b) < len THEN makeSpace(b, len) ELSE b
<1>1. /\ Good(c) /\ writableBytes(c) >= len /\ readableBytes(c) = readableBytes(b)
      /\ \/ c.size <= b.size
         \/ /\ c.size = b.writeIndex + len
            /\ b.writeIndex + len < kCheapPrepend + readableBytes(b) + len + len
  <2>1. CASE writableBytes(b) < len
    BY <2>1, MakeSpaceLemma
  <2>2. CASE ~(writableBytes(b) < len)
    <3>1. c = b /\ writableBytes(b) \in Nat /\ b.size \in Nat
      BY <2>2, SizesLemma DEF Good, Record
    <3> HIDE DEF c
    <3>2. writableBytes(b) >= len /\ b.size <= b.size
      BY <2>2, <3>1
    <3> QED BY <3>1, <3>2
  <2> QED BY <2>1, <2>2
<1>2. checkWritableSpace(b, len) = assert(c, writableBytes(c) >= len)
  BY DEF checkWritableSpace
<1> HIDE DEF c
<1>3. checkWritableSpace(b, len) = c
  BY <1>1, <1>2, AssertLemma
<1> QED BY <1>1, <1>3

\* hasWritten of bytes there is room for.
LEMMA HasWrittenLemma ==
  ASSUME NEW b, Good(b), NEW len \in Nat, len <= writableBytes(b)
  PROVE  /\ Good(hasWritten(b, len))
         /\ hasWritten(b, len).size = b.size
         /\ hasWritten(b, len).readIndex = b.readIndex
         /\ readableBytes(hasWritten(b, len)) = readableBytes(b) + len
<1>1. hasWritten(b, len) = [b EXCEPT !.writeIndex = b.writeIndex + len]
  <2>1. writableBytes(b) >= len
    BY SizesLemma
  <2> QED BY <2>1, AssertLemma DEF hasWritten
<1>2. /\ b.writeIndex + len \in Nat /\ b.writeIndex + len <= b.size
      /\ b.readIndex <= b.writeIndex + len
  BY DEF Good, Record, writableBytes
<1> DEFINE c == hasWritten(b, len)
<1> HIDE DEF c
<1>3. /\ c \in Record /\ c.size = b.size /\ c.cells = b.cells /\ c.ok = b.ok
      /\ c.readIndex = b.readIndex /\ c.writeIndex = b.writeIndex + len
  BY <1>1, <1>2 DEF Good, Record, c
<1>4. Good(c)
  BY <1>2, <1>3 DEF Good
<1>5. readableBytes(c) = readableBytes(b) + len
  BY <1>3 DEF Good, Record, readableBytes
<1> QED BY <1>3, <1>4, <1>5 DEF c

\* append keeps a buffer good and adds its bytes.
LEMMA AppendLemma ==
  ASSUME NEW b, Good(b), NEW s, NEW len, String(s, len)
  PROVE  /\ Good(append(b, s))
         /\ readableBytes(append(b, s)) = readableBytes(b) + len
         /\ append(b, s).size = checkWritableSpace(b, len).size
<1>0. len \in Nat /\ Len(s) = len /\ s \in [1 .. len -> Byte]
  BY DEF String
<1> DEFINE c == checkWritableSpace(b, len)
           d == copy(c, s, c.writeIndex)
<1>1. append(b, s) = hasWritten(d, len)
  BY <1>0 DEF append
<1>2. Good(c) /\ writableBytes(c) >= len /\ readableBytes(c) = readableBytes(b)
  BY <1>0, CheckWritableSpaceLemma
<1> HIDE DEF c
<1>3. c.writeIndex \in Nat
  BY <1>2 DEF Good, Record
<1>4. Good(d) /\ d.size = c.size /\ d.readIndex = c.readIndex /\ d.writeIndex = c.writeIndex
  BY <1>0, <1>2, <1>3, CopyLemma
<1> HIDE DEF d
<1>5. len <= writableBytes(d) /\ readableBytes(d) = readableBytes(b)
  BY <1>0, <1>2, <1>4, SizesLemma DEF writableBytes, readableBytes
<1> QED BY <1>0, <1>1, <1>4, <1>5, HasWrittenLemma DEF c

\* prepend of bytes there is room for.
LEMMA PrependLemma ==
  ASSUME NEW b, Good(b), NEW s, NEW len, String(s, len), len <= prependableBytes(b)
  PROVE  /\ Good(prepend(b, s))
         /\ readableBytes(prepend(b, s)) = readableBytes(b) + len
         /\ prepend(b, s).size = b.size
<1>0. len \in Nat /\ Len(s) = len /\ s \in [1 .. len -> Byte]
  BY DEF String
<1> DEFINE c == [b EXCEPT !.readIndex = b.readIndex - len]
<1>1. prepend(b, s) = copy(c, s, c.readIndex)
  BY <1>0, AssertLemma DEF prepend
<1>2. b.readIndex - len \in Nat /\ b.readIndex - len <= b.writeIndex
  BY <1>0 DEF Good, Record, prependableBytes
<1>3. /\ Good(c) /\ c.size = b.size /\ c.writeIndex = b.writeIndex
      /\ c.readIndex = b.readIndex - len /\ c.readIndex \in Nat
  BY <1>2 DEF Good, Record
<1> HIDE DEF c
<1>4. /\ Good(prepend(b, s)) /\ prepend(b, s).size = b.size
      /\ prepend(b, s).readIndex = b.readIndex - len
      /\ prepend(b, s).writeIndex = b.writeIndex
  BY <1>0, <1>1, <1>3, CopyLemma
<1> QED BY <1>0, <1>4 DEF Good, Record, readableBytes

\* retrieve of bytes that are there; the vector keeps its size.
LEMMA RetrieveLemma ==
  ASSUME NEW b, Good(b), NEW len \in 0 .. readableBytes(b)
  PROVE  /\ Good(retrieve(b, len))
         /\ readableBytes(retrieve(b, len)) <= readableBytes(b)
         /\ retrieve(b, len).size = b.size
<1> USE BufferAssumption DEF BufferAssumption
<1>0. readableBytes(b) \in Nat /\ len \in Nat /\ len <= readableBytes(b)
  BY SizesLemma
<1>1. assert(b, len <= readableBytes(b)) = b
  BY <1>0, AssertLemma
<1> DEFINE c == retrieve(b, len)
<1>2. CASE len < readableBytes(b)
  <2>1. c = [b EXCEPT !.readIndex = b.readIndex + len]
    BY <1>1, <1>2 DEF retrieve
  <2>2. /\ b.readIndex + len \in Nat /\ b.readIndex + len <= b.writeIndex
    BY <1>0, <1>2 DEF Good, Record, readableBytes
  <2> HIDE DEF c
  <2>3. /\ c \in Record /\ c.size = b.size /\ c.cells = b.cells /\ c.ok = b.ok
        /\ c.readIndex = b.readIndex + len /\ c.writeIndex = b.writeIndex
    BY <2>1, <2>2 DEF Good, Record
  <2>4. Good(c)
    BY <2>2, <2>3 DEF Good
  <2>5. readableBytes(c) <= readableBytes(b)
    BY <1>0, <2>3 DEF Good, Record, readableBytes
  <2> QED BY <2>3, <2>4, <2>5 DEF c
<1>3. CASE ~(len < readableBytes(b))
  <2>1. c = [b EXCEPT !.readIndex = kCheapPrepend, !.writeIndex = kCheapPrepend]
    BY <1>1, <1>3 DEF retrieve, retrieveAll
  <2> HIDE DEF c
  <2>2. c \in Record
    BY <2>1 DEF Good, Record
  <2>3. /\ c.size = b.size /\ c.cells = b.cells /\ c.ok = b.ok
        /\ c.readIndex = kCheapPrepend /\ c.writeIndex = kCheapPrepend
    BY <2>1 DEF Good, Record
  <2>4. Good(c)
    BY <2>2, <2>3 DEF Good
  <2>5. readableBytes(c) <= readableBytes(b)
    BY <1>0, <2>3 DEF readableBytes
  <2> QED BY <2>3, <2>4, <2>5 DEF c
<1> QED BY <1>2, <1>3

\* unWrite of bytes that are there.
LEMMA UnWriteLemma ==
  ASSUME NEW b, Good(b), NEW len \in 0 .. readableBytes(b)
  PROVE  /\ Good(unWrite(b, len))
         /\ readableBytes(unWrite(b, len)) <= readableBytes(b)
         /\ unWrite(b, len).size = b.size
<1>0. readableBytes(b) \in Nat /\ len \in Nat /\ len <= readableBytes(b)
  BY SizesLemma
<1> DEFINE c == unWrite(b, len)
<1>1. c = [b EXCEPT !.writeIndex = b.writeIndex - len]
  BY <1>0, AssertLemma DEF unWrite
<1>2. b.writeIndex - len \in Nat /\ b.readIndex <= b.writeIndex - len
  BY <1>0 DEF Good, Record, readableBytes
<1>3. b.writeIndex - len <= b.writeIndex /\ b.writeIndex - len <= b.size
  BY <1>0, <1>2 DEF Good, Record
<1> HIDE DEF c
<1>4. /\ c \in Record /\ c.size = b.size /\ c.cells = b.cells /\ c.ok = b.ok
      /\ c.readIndex = b.readIndex /\ c.writeIndex = b.writeIndex - len
  BY <1>1, <1>2 DEF Good, Record
<1>5. Good(c)
  BY <1>2, <1>3, <1>4 DEF Good
<1>6. readableBytes(c) <= readableBytes(b)
  BY <1>0, <1>4 DEF Good, Record, readableBytes
<1> QED BY <1>4, <1>5, <1>6 DEF c

\* readFd, whether or not extrabuf was needed.
LEMMA ReadFdLemma ==
  ASSUME NEW b, Good(b), NEW s, NEW len, String(s, len)
  PROVE  /\ Good(readFd(b, s))
         /\ readableBytes(readFd(b, s)) = readableBytes(b) + len
         /\ \/ readFd(b, s).size <= b.size
            \/ readFd(b, s).size < kCheapPrepend + readableBytes(b) + len + len
<1> USE BufferAssumption DEF BufferAssumption
<1>0. len \in Nat /\ Len(s) = len /\ s \in [1 .. len -> Byte]
  BY DEF String
<1>1. /\ readableBytes(b) \in Nat /\ writableBytes(b) \in Nat
      /\ b.writeIndex \in Nat /\ b.size \in Nat
  BY SizesLemma DEF Good, Record
<1>2. CASE len <= writableBytes(b)
  <2> DEFINE c == copy(b, s, b.writeIndex)
             r == readFd(b, s)
  <2>1. r = [c EXCEPT !.writeIndex = c.writeIndex + len]
    BY <1>0, <1>2 DEF readFd
  <2>2. Good(c) /\ c.size = b.size /\ c.readIndex = b.readIndex /\ c.writeIndex = b.writeIndex
    BY <1>0, <1>1, CopyLemma
  <2>3. r = hasWritten(c, len)
    <3>1. writableBytes(c) >= len
      BY <1>0, <1>1, <1>2, <2>2 DEF writableBytes
    <3> HIDE DEF c, r
    <3> QED BY <2>1, <2>2, <3>1, AssertLemma DEF hasWritten
  <2>4. len <= writableBytes(c) /\ readableBytes(c) = readableBytes(b)
    BY <1>2, <2>2 DEF writableBytes, readableBytes
  <2> HIDE DEF c, r
  <2>5. Good(r) /\ r.size = b.size /\ readableBytes(r) = readableBytes(b) + len
    BY <1>0, <2>2, <2>3, <2>4, HasWrittenLemma
  <2> QED BY <1>1, <2>5 DEF r
<1>3. CASE ~(len <= writableBytes(b))
  <2> DEFINE w == writableBytes(b)
             c == copy(b, SubSeq(s, 1, w), b.writeIndex)
             d == [c EXCEPT !.writeIndex = b.size]
             t == SubSeq(s, w + 1, len)
             r == readFd(b, s)
  <2>1. r = append(d, t)
    BY <1>0, <1>3 DEF readFd
  <2>2. w \in Nat /\ w < len
    BY <1>0, <1>1, <1>3
  <2>3. String(SubSeq(s, 1, w), w) /\ String(t, len - w)
    <3> HIDE DEF w
    <3>1. w + 1 \in Nat /\ 1 <= w + 1 /\ w + 1 <= len + 1 /\ w <= len /\ len <= len
      BY <1>0, <2>2
    <3>2. w - 1 + 1 = w /\ len - (w + 1) + 1 = len - w
      BY <1>0, <2>2
    <3>3. String(SubSeq(s, 1, w), w - 1 + 1)
      BY <2>2, <3>1, PartLemma
    <3>4. String(SubSeq(s, w + 1, len), len - (w + 1) + 1)
      BY <1>0, <3>1, PartLemma
    <3> QED BY <3>2, <3>3, <3>4
  <2>4. Good(c) /\ c.size = b.size /\ c.readIndex = b.readIndex
    <3> DEFINE u == SubSeq(s, 1, w)
    <3>1. u \in [1 .. w -> Byte] /\ Len(u) = w
      BY <2>3 DEF String
    <3> HIDE DEF u, w
    <3>2. Good(copy(b, u, b.writeIndex)) /\ copy(b, u, b.writeIndex).size = b.size
          /\ copy(b, u, b.writeIndex).readIndex = b.readIndex
      BY <1>1, <2>2, <3>1, CopyLemma
    <3> QED BY <3>2 DEF u
  <2> HIDE DEF c, t, r
  <2>5. /\ d \in Record /\ d.size = b.size /\ d.readIndex = b.readIndex
        /\ d.writeIndex = b.size /\ d.cells = c.cells /\ d.ok = c.ok
    BY <1>1, <2>4 DEF Good, Record
  <2> HIDE DEF d
  <2>6. Good(d) /\ readableBytes(d) = readableBytes(b) + w
    BY <1>1, <2>4, <2>5 DEF Good, Record, readableBytes, writableBytes
  <2>7. /\ Good(append(d, t)) /\ readableBytes(append(d, t)) = readableBytes(d) + (len - w)
        /\ append(d, t).size = checkWritableSpace(d, len - w).size
    BY <2>3, <2>6, AppendLemma
  <2> DEFINE e == checkWritableSpace(d, len - w)
  <2> HIDE DEF w
  <2>8. \/ e.size <= d.size
        \/ /\ e.size = d.writeIndex + (len - w)
           /\ d.writeIndex + (len - w) < kCheapPrepend + readableBytes(d) + (len - w) + (len - w)
    <3>1. len - w \in Nat
      BY <1>0, <2>2
    <3> QED BY <2>6, <3>1, CheckWritableSpaceLemma
  <2>9. readableBytes(append(d, t)) = readableBytes(b) + len
    BY <1>0, <1>1, <2>2, <2>6, <2>7
  <2> HIDE DEF e
  <2>10. CASE e.size <= d.size
    BY <2>1, <2>5, <2>7, <2>9, <2>10 DEF r, e
  <2>11. CASE /\ e.size = d.writeIndex + (len - w)
              /\ d.writeIndex + (len - w) < kCheapPrepend + readableBytes(d) + (len - w) + (len - w)
    <3>1. e.size < kCheapPrepend + readableBytes(b) + len + len
      BY <1>0, <1>1, <2>2, <2>5, <2>6, <2>11
    <3> QED BY <2>1, <2>7, <2>9, <3>1 DEF r, e
  <2> QED BY <2>8, <2>10, <2>11
<1> QED BY <1>2, <1>3

\* shrink makes a small vector with the same readable bytes.
LEMMA ShrinkLemma ==
  ASSUME NEW b, Good(b), readableBytes(b) <= MaxReadable, NEW reserve \in 0 .. MaxLen
  PROVE  /\ Good(shrink(b, reserve)) /\ Small(shrink(b, reserve))
         /\ readableBytes(shrink(b, reserve)) = readableBytes(b)
<1> USE BufferAssumption DEF BufferAssumption
<1> DEFINE r == readableBytes(b)
           c == checkWritableSpace(NewBuffer, r + reserve)
           d == append(c, Readable(b))
           e == checkWritableSpace(c, r)
<1>0. r \in Nat /\ reserve \in Nat /\ reserve <= MaxLen /\ r + reserve \in Nat /\ String(Readable(b), r)
  BY SizesLemma, ReadableLemma
<1>1. shrink(b, reserve) = [d EXCEPT !.ok = d.ok /\ b.ok]
  BY DEF shrink
<1> HIDE DEF r
<1>2. /\ Good(c) /\ writableBytes(c) >= r + reserve /\ readableBytes(c) = 0
      /\ \/ c.size <= NewBuffer.size
         \/ c.size = NewBuffer.writeIndex + (r + reserve)
  BY <1>0, NewBufferLemma, CheckWritableSpaceLemma
<1>3. c.size <= kCheapPrepend + kInitialSize \/ c.size <= kCheapPrepend + MaxReadable + MaxLen
  <2>1. NewBuffer.writeIndex = kCheapPrepend /\ NewBuffer.size = kCheapPrepend + kInitialSize
    BY DEF NewBuffer
  <2>2. r <= MaxReadable
    BY DEF r
  <2> QED BY <1>0, <1>2, <2>1, <2>2
<1> HIDE DEF c
<1>4. /\ Good(d) /\ readableBytes(d) = 0 + r /\ d.size = e.size
  BY <1>0, <1>2, AppendLemma
<1> HIDE DEF d
<1>5. e = c
  <2>1. ~(writableBytes(c) < r) /\ writableBytes(c) >= r
    BY <1>0, <1>2, SizesLemma
  <2>2. e = assert(c, writableBytes(c) >= r)
    BY <2>1 DEF checkWritableSpace
  <2> QED BY <1>2, <2>1, <2>2, AssertLemma
<1>6. shrink(b, reserve) = d
  BY <1>1, <1>4 DEF Good, Record
<1> QED BY <1>0, <1>3, <1>4, <1>5, <1>6 DEF Small, r

-----------------------------------------------------------------------------
(* The specification.                                                      *)

\* A vector that grew by the bytes of one call is still small.
LEMMA GrownIsSmall ==
  ASSUME NEW b, NEW c, NEW len \in Nat, Small(b), Good(b), Good(c),
         len <= MaxLen, readableBytes(b) + len <= MaxReadable,
         \/ c.size <= b.size
         \/ c.size < kCheapPrepend + readableBytes(b) + len + len
  PROVE  Small(c)
<1>1. readableBytes(b) \in Nat /\ b.size \in Nat /\ c.size \in Nat
  BY SizesLemma DEF Good, Record
<1> QED BY <1>1, BufferAssumption DEF BufferAssumption, Small

\* The buffer a connection starts with.
LEMMA InitInvariant == Init => IndInv
BY NewBufferLemma, BufferAssumption DEF BufferAssumption, Init, IndInv

\* Every call keeps the buffer good, within its bound and small.
LEMMA NextInvariant == IndInv /\ [Next]_vars => IndInv'
<1> SUFFICES ASSUME IndInv, [Next]_vars
             PROVE  IndInv'
  OBVIOUS
<1> USE BufferAssumption DEF BufferAssumption
<1>0. /\ Good(buf) /\ readableBytes(buf) <= MaxReadable /\ Small(buf)
      /\ readableBytes(buf) \in Nat /\ buf.size \in Nat
  BY SizesLemma DEF IndInv, Good, Record
<1>1. ASSUME NEW c, buf' = c, Good(c), Small(c), readableBytes(c) <= MaxReadable
      PROVE  IndInv'
  BY <1>1 DEF IndInv, Good, Small, readableBytes, Record, Vectors
<1>2. ASSUME NEW c, buf' = c, Good(c), c.size = buf.size, readableBytes(c) <= readableBytes(buf)
      PROVE  IndInv'
  <2>1. readableBytes(c) \in Nat
    BY <1>2, SizesLemma
  <2>2. Small(c) /\ readableBytes(c) <= MaxReadable
    BY <1>0, <1>2, <2>1 DEF Small
  <2> QED BY <1>1, <1>2, <2>2
<1>3. CASE Append_
  <2>1. PICK s \in Strings : Fits(Len(s)) /\ buf' = append(buf, s)
    BY <1>3 DEF Append_
  <2>2. String(s, Len(s)) /\ Len(s) <= MaxLen /\ Len(s) \in Nat
    BY StringsLemma DEF String
  <2>3. readableBytes(buf) + Len(s) <= MaxReadable
    BY <2>1 DEF Fits
  <2> DEFINE c == append(buf, s)
  <2>4. /\ Good(c) /\ readableBytes(c) = readableBytes(buf) + Len(s)
        /\ c.size = checkWritableSpace(buf, Len(s)).size
    BY <1>0, <2>2, AppendLemma
  <2>5. \/ c.size <= buf.size
        \/ c.size < kCheapPrepend + readableBytes(buf) + Len(s) + Len(s)
    BY <1>0, <2>2, <2>4, CheckWritableSpaceLemma
  <2> HIDE DEF c
  <2>6. Small(c)
    BY <1>0, <2>2, <2>3, <2>4, <2>5, GrownIsSmall
  <2> QED BY <1>1, <2>1, <2>3, <2>4, <2>6 DEF c
<1>4. CASE Prepend
  <2>1. PICK s \in Strings : /\ Fits(Len(s)) /\ Len(s) <= prependableBytes(buf)
                             /\ buf' = prepend(buf, s)
    BY <1>4 DEF Prepend
  <2>2. String(s, Len(s))
    BY StringsLemma
  <2> DEFINE c == prepend(buf, s)
  <2>3. Good(c) /\ readableBytes(c) = readableBytes(buf) + Len(s) /\ c.size = buf.size
    BY <1>0, <2>1, <2>2, PrependLemma
  <2> HIDE DEF c
  <2>4. Small(c) /\ readableBytes(c) <= MaxReadable
    BY <1>0, <2>1, <2>3 DEF Small, Fits
  <2> QED BY <1>1, <2>1, <2>3, <2>4 DEF c
<1>5. CASE ReadFd
  <2>1. PICK s \in Strings : Fits(Len(s)) /\ buf' = readFd(buf, s)
    BY <1>5 DEF ReadFd
  <2>2. String(s, Len(s)) /\ Len(s) <= MaxLen /\ Len(s) \in Nat
    BY StringsLemma DEF String
  <2>3. readableBytes(buf) + Len(s) <= MaxReadable
    BY <2>1 DEF Fits
  <2> DEFINE c == readFd(buf, s)
  <2>4. /\ Good(c) /\ readableBytes(c) = readableBytes(buf) + Len(s)
        /\ \/ c.size <= buf.size
           \/ c.size < kCheapPrepend + readableBytes(buf) + Len(s) + Len(s)
    BY <1>0, <2>2, ReadFdLemma
  <2> HIDE DEF c
  <2>5. Small(c)
    BY <1>0, <2>2, <2>3, <2>4, GrownIsSmall
  <2> QED BY <1>1, <2>1, <2>3, <2>4, <2>5 DEF c
<1>6. CASE Retrieve
  <2>1. PICK n \in 0 .. readableBytes(buf) : buf' = retrieve(buf, n)
    BY <1>6 DEF Retrieve
  <2> QED BY <1>0, <1>2, <2>1, RetrieveLemma
<1>7. CASE UnWrite
  <2>1. PICK n \in 0 .. readableBytes(buf) : buf' = unWrite(buf, n)
    BY <1>7 DEF UnWrite
  <2> QED BY <1>0, <1>2, <2>1, UnWriteLemma
<1>8. CASE Shrink
  <2>1. PICK reserve \in 0 .. MaxLen : buf' = shrink(buf, reserve)
    BY <1>8 DEF Shrink
  <2> QED BY <1>0, <1>1, <2>1, ShrinkLemma
<1>9. CASE UNCHANGED vars
  BY <1>0, <1>1, <1>9 DEF vars
<1> QED BY <1>3, <1>4, <1>5, <1>6, <1>7, <1>8, <1>9 DEF Next

\* No assert of Buffer fails and its indices stay in order, for every size of
\* the reserved area, of the buffer, of extrabuf and of the data.
THEOREM BufferAssertsHold == Spec => []AssertsHold
<1>1. IndInv => AssertsHold
  BY DEF IndInv, Good, Record, AssertsHold
<1> QED BY <1>1, InitInvariant, NextInvariant, PTL DEF Spec

\* The vector never grows past what the readable bytes and one call need, however
\* long the buffer is filled and emptied.
THEOREM BufferGrowthBounded == Spec => []GrowthBounded
<1>1. IndInv => GrowthBounded
  BY DEF IndInv, Small, GrowthBounded
<1> QED BY <1>1, InitInvariant, NextInvariant, PTL DEF Spec

-----------------------------------------------------------------------------
(* What the methods do to the readable bytes: the buffer implements a byte *)
(* queue.                                                                  *)

\* The readable bytes, one by one.
LEMMA ReadableFacts ==
  ASSUME NEW b, Good(b)
  PROVE  /\ Readable(b) \in Seq(Byte) /\ Len(Readable(b)) = readableBytes(b)
         /\ \A i \in 1 .. readableBytes(b) : Readable(b)[i] = b.cells[b.readIndex + i - 1]
<1>1. String(Readable(b), readableBytes(b))
  BY ReadableLemma
<1>2. \A i \in 1 .. readableBytes(b) : Readable(b)[i] = b.cells[b.readIndex + i - 1]
  BY DEF Readable
<1> QED BY <1>1, <1>2 DEF String

\* Buffers whose cells between the indices agree have the same readable bytes.
LEMMA SameReadable ==
  ASSUME NEW b, Good(b), NEW c, Good(c), readableBytes(c) = readableBytes(b),
         \A i \in 1 .. readableBytes(b) : c.cells[c.readIndex + i - 1] = b.cells[b.readIndex + i - 1]
  PROVE  Readable(c) = Readable(b)
BY DEF Readable

\* copy writes its string, and nothing else.
LEMMA CopyCells ==
  ASSUME NEW b, Good(b), NEW n, NEW s, String(s, n), NEW at \in Nat, at + n <= b.size
  PROVE  /\ \A j \in 1 .. n : copy(b, s, at).cells[at + j - 1] = s[j]
         /\ \A i \in 0 .. b.size - 1 : i < at \/ at + n <= i => copy(b, s, at).cells[i] = b.cells[i]
<1> DEFINE new == [i \in 0 .. b.size - 1 |->
                     IF i \in at .. at + Len(s) - 1 THEN s[i - at + 1] ELSE b.cells[i]]
<1>1. copy(b, s, at) = [b EXCEPT !.cells = new] /\ Len(s) = n /\ n \in Nat
  BY DEF copy, String
<1>2. copy(b, s, at).cells = new
  <2> HIDE DEF new
  <2> QED BY <1>1 DEF Good, Record
<1>3. b.size \in Nat
  BY DEF Good, Record
<1>4. ASSUME NEW j \in 1 .. n PROVE new[at + j - 1] = s[j]
  <2>1. /\ at + j - 1 \in 0 .. b.size - 1 /\ at + j - 1 \in at .. at + Len(s) - 1
        /\ (at + j - 1) - at + 1 = j
    BY <1>1, <1>3
  <2> QED BY <2>1
<1>5. ASSUME NEW i \in 0 .. b.size - 1, i < at \/ at + n <= i PROVE new[i] = b.cells[i]
  <2>1. ~(i \in at .. at + Len(s) - 1)
    BY <1>1, <1>3, <1>5
  <2> QED BY <2>1
<1> QED BY <1>2, <1>4, <1>5

\* resize keeps the data.
LEMMA ResizeReadable ==
  ASSUME NEW b, Good(b), NEW n \in Nat, b.size <= n
  PROVE  Readable(resize(b, n)) = Readable(b)
<1> DEFINE new == [i \in 0 .. n - 1 |-> IF i < b.size THEN b.cells[i] ELSE Zero]
           c   == resize(b, n)
<1>1. c = [b EXCEPT !.size = n, !.cells = new]
  BY DEF resize
<1>2. c.cells = new
  <2> HIDE DEF new, c
  <2> QED BY <1>1 DEF Good, Record
<1>3. Good(c) /\ c.size = n /\ c.readIndex = b.readIndex /\ c.writeIndex = b.writeIndex
  BY ResizeLemma
<1> HIDE DEF c
<1>4. readableBytes(c) = readableBytes(b)
  BY <1>3 DEF readableBytes
<1>5. \A i \in 1 .. readableBytes(b) : c.cells[c.readIndex + i - 1] = b.cells[b.readIndex + i - 1]
  <2> SUFFICES ASSUME NEW i \in 1 .. readableBytes(b)
               PROVE  c.cells[c.readIndex + i - 1] = b.cells[b.readIndex + i - 1]
    OBVIOUS
  <2>1. b.readIndex + i - 1 \in 0 .. n - 1 /\ b.readIndex + i - 1 < b.size
    BY DEF readableBytes, Good, Record
  <2> QED BY <1>2, <1>3, <2>1
<1>6. Readable(c) = Readable(b)
  BY <1>3, <1>4, <1>5, SameReadable
<1> QED BY <1>6 DEF c

\* moveDown keeps the data, although it may write over its own source.
LEMMA MoveDownReadable ==
  ASSUME NEW b, Good(b), kCheapPrepend < b.readIndex
  PROVE  Readable(moveDown(b)) = Readable(b)
<1> DEFINE r == readableBytes(b)
           c == copy(b, Readable(b), kCheapPrepend)
           d == moveDown(b)
<1>0. kCheapPrepend \in Nat /\ r \in Nat /\ String(Readable(b), r)
  BY BufferAssumption, SizesLemma, ReadableLemma DEF BufferAssumption
<1>1. d = [c EXCEPT !.readIndex = kCheapPrepend, !.writeIndex = kCheapPrepend + r]
  BY AssertLemma DEF moveDown
<1>2. /\ Good(c) /\ c.size = b.size
  BY <1>0, CopyLemma DEF String
<1>3. \A i \in 1 .. r : c.cells[kCheapPrepend + i - 1] = Readable(b)[i]
  <2>1. kCheapPrepend + r <= b.size
    BY <1>0 DEF readableBytes, Good, Record
  <2> QED BY <1>0, <2>1, CopyCells
<1> HIDE DEF c
<1>4. d.cells = c.cells
  BY <1>1, <1>2 DEF Good, Record
<1>5. Good(d) /\ d.readIndex = kCheapPrepend /\ readableBytes(d) = r
  BY MoveDownLemma
<1> HIDE DEF d
<1>6. \A i \in 1 .. r : d.cells[d.readIndex + i - 1] = b.cells[b.readIndex + i - 1]
  <2> SUFFICES ASSUME NEW i \in 1 .. r
               PROVE  d.cells[d.readIndex + i - 1] = b.cells[b.readIndex + i - 1]
    OBVIOUS
  <2>1. c.cells[kCheapPrepend + i - 1] = Readable(b)[i]
    BY <1>3
  <2> QED BY <1>4, <1>5, <2>1, ReadableFacts
<1>7. Readable(d) = Readable(b)
  BY <1>5, <1>6, SameReadable
<1> QED BY <1>7 DEF d

\* Making room keeps the data.
LEMMA CheckWritableSpaceReadable ==
  ASSUME NEW b, Good(b), NEW len \in Nat
  PROVE  Readable(checkWritableSpace(b, len)) = Readable(b)
<1> USE BufferAssumption DEF BufferAssumption
<1>0. /\ b.size \in Nat /\ b.readIndex \in Nat /\ b.writeIndex \in Nat
      /\ b.readIndex <= b.writeIndex /\ b.writeIndex <= b.size
  BY DEF Good, Record
<1> DEFINE c == IF writableBytes(b) < len THEN makeSpace(b, len) ELSE b
<1>1. Good(c) /\ writableBytes(c) >= len /\ Readable(c) = Readable(b)
  <2>1. CASE ~(writableBytes(b) < len)
    <3>1. c = b /\ writableBytes(b) \in Nat
      BY <2>1, SizesLemma
    <3> HIDE DEF c
    <3> QED BY <2>1, <3>1
  <2>2. CASE /\ writableBytes(b) < len
             /\ writableBytes(b) + prependableBytes(b) < len + kCheapPrepend
    <3>1. c = resize(b, b.writeIndex + len)
      BY <2>2 DEF makeSpace
    <3>2. b.size <= b.writeIndex + len /\ b.writeIndex + len \in Nat
      BY <1>0, <2>2 DEF writableBytes
    <3>3. Good(c) /\ writableBytes(c) >= len
      BY <2>2, MakeSpaceLemma
    <3> QED BY <3>1, <3>2, <3>3, ResizeReadable
  <2>3. CASE /\ writableBytes(b) < len
             /\ ~(writableBytes(b) + prependableBytes(b) < len + kCheapPrepend)
    <3>1. c = moveDown(b)
      BY <2>3 DEF makeSpace
    <3>2. kCheapPrepend < b.readIndex
      BY <1>0, <2>3 DEF writableBytes, prependableBytes
    <3>3. Good(c) /\ writableBytes(c) >= len
      BY <2>3, MakeSpaceLemma
    <3> QED BY <3>1, <3>2, <3>3, MoveDownReadable
  <2> QED BY <2>1, <2>2, <2>3
<1>2. checkWritableSpace(b, len) = assert(c, writableBytes(c) >= len)
  BY DEF checkWritableSpace
<1> HIDE DEF c
<1>3. checkWritableSpace(b, len) = c
  BY <1>1, <1>2, AssertLemma
<1> QED BY <1>1, <1>3

\* append adds its bytes behind the data.
LEMMA AppendReadable ==
  ASSUME NEW b, Good(b), NEW s, NEW len, String(s, len)
  PROVE  Readable(append(b, s)) = Readable(b) \o s
<1>0. len \in Nat /\ Len(s) = len /\ s \in [1 .. len -> Byte] /\ s \in Seq(Byte)
  BY DEF String
<1> DEFINE r == readableBytes(b)
           c == checkWritableSpace(b, len)
           d == copy(c, s, c.writeIndex)
           e == append(b, s)
<1>1. e = hasWritten(d, len)
  BY <1>0 DEF append
<1>2. Good(c) /\ writableBytes(c) >= len /\ readableBytes(c) = r /\ Readable(c) = Readable(b)
  BY <1>0, CheckWritableSpaceLemma, CheckWritableSpaceReadable
<1> HIDE DEF c
<1>3. /\ c.writeIndex \in Nat /\ c.readIndex \in Nat /\ c.size \in Nat /\ r \in Nat
      /\ c.writeIndex = c.readIndex + r /\ c.writeIndex + len <= c.size
  BY <1>0, <1>2, SizesLemma DEF Good, Record, readableBytes, writableBytes
<1>4. Good(d) /\ d.size = c.size /\ d.readIndex = c.readIndex /\ d.writeIndex = c.writeIndex
  <2>1. c.writeIndex \in Nat
    BY <1>3
  <2> QED BY <1>0, <1>2, <2>1, CopyLemma
<1>5. /\ \A j \in 1 .. len : d.cells[c.writeIndex + j - 1] = s[j]
      /\ \A i \in 0 .. c.size - 1 :
           i < c.writeIndex \/ c.writeIndex + len <= i => d.cells[i] = c.cells[i]
  BY <1>2, <1>3, CopyCells
<1> HIDE DEF d
<1>6. /\ Good(e) /\ readableBytes(e) = r + len /\ e.readIndex = c.readIndex /\ e.cells = d.cells
  <2>1. len <= writableBytes(d) /\ writableBytes(d) >= len /\ readableBytes(d) = r
    BY <1>0, <1>2, <1>4, SizesLemma DEF writableBytes, readableBytes
  <2>2. hasWritten(d, len) = [d EXCEPT !.writeIndex = d.writeIndex + len]
    BY <1>4, <2>1, AssertLemma DEF hasWritten
  <2>3. hasWritten(d, len).cells = d.cells
    BY <1>4, <2>2 DEF Good, Record
  <2> HIDE DEF e
  <2> QED BY <1>0, <1>1, <1>4, <2>1, <2>3, HasWrittenLemma
<1> HIDE DEF e, r
<1>7. /\ Readable(e) \in Seq(Byte) /\ Len(Readable(e)) = r + len
      /\ \A i \in 1 .. r + len : Readable(e)[i] = d.cells[c.readIndex + i - 1]
  BY <1>6, ReadableFacts
<1>8. /\ Readable(b) \in Seq(Byte) /\ Len(Readable(b)) = r
      /\ \A i \in 1 .. r : Readable(b)[i] = c.cells[c.readIndex + i - 1]
  BY <1>2, ReadableFacts
<1>9. /\ Readable(b) \o s \in Seq(Byte) /\ Len(Readable(b) \o s) = r + len
      /\ \A i \in 1 .. r + len :
           (Readable(b) \o s)[i] = IF i <= r THEN Readable(b)[i] ELSE s[i - r]
  BY <1>0, <1>8, ConcatProperties
<1>10. ASSUME NEW i \in 1 .. r + len PROVE Readable(e)[i] = (Readable(b) \o s)[i]
  <2>2. CASE i <= r
    <3>1. /\ i \in 1 .. r /\ c.readIndex + i - 1 \in 0 .. c.size - 1
          /\ c.readIndex + i - 1 < c.writeIndex
      BY <1>0, <1>3, <2>2
    <3>2. d.cells[c.readIndex + i - 1] = c.cells[c.readIndex + i - 1]
      BY <1>5, <3>1
    <3> QED BY <1>7, <1>8, <1>9, <2>2, <3>1, <3>2
  <2>3. CASE ~(i <= r)
    <3>1. i - r \in 1 .. len /\ c.readIndex + i - 1 = c.writeIndex + (i - r) - 1
      BY <1>0, <1>3, <2>3
    <3>2. d.cells[c.readIndex + i - 1] = s[i - r]
      BY <1>5, <3>1, Zenon
    <3> QED BY <1>7, <1>9, <2>3, <3>2
  <2> QED BY <2>2, <2>3
<1>11. Readable(e) = Readable(b) \o s
  BY <1>7, <1>9, <1>10, SeqEqual
<1> QED BY <1>11 DEF e

\* prepend puts its bytes in front of the data.
LEMMA PrependReadable ==
  ASSUME NEW b, Good(b), NEW s, NEW len, String(s, len), len <= prependableBytes(b)
  PROVE  Readable(prepend(b, s)) = s \o Readable(b)
<1>0. len \in Nat /\ Len(s) = len /\ s \in [1 .. len -> Byte] /\ s \in Seq(Byte)
  BY DEF String
<1> DEFINE r == readableBytes(b)
           c == [b EXCEPT !.readIndex = b.readIndex - len]
           e == prepend(b, s)
<1>1. e = copy(c, s, c.readIndex)
  BY <1>0, AssertLemma DEF prepend
<1>2. /\ b.readIndex - len \in Nat /\ b.readIndex - len <= b.writeIndex /\ r \in Nat
      /\ r = b.writeIndex - b.readIndex /\ b.readIndex \in Nat /\ b.size \in Nat /\ b.writeIndex \in Nat
      /\ b.writeIndex <= b.size
  BY <1>0, SizesLemma DEF Good, Record, prependableBytes, readableBytes
<1>3. /\ Good(c) /\ c.size = b.size /\ c.writeIndex = b.writeIndex /\ c.cells = b.cells
      /\ c.readIndex = b.readIndex - len /\ c.readIndex \in Nat
  BY <1>2 DEF Good, Record
<1> HIDE DEF c
<1>4. /\ Good(e) /\ e.readIndex = b.readIndex - len /\ readableBytes(e) = r + len
  <2>1. /\ Good(e) /\ e.readIndex = b.readIndex - len
    BY <1>0, <1>1, <1>3, CopyLemma
  <2> QED BY <2>1, PrependLemma
<1>5. /\ \A j \in 1 .. len : e.cells[b.readIndex - len + j - 1] = s[j]
      /\ \A i \in 0 .. b.size - 1 : b.readIndex <= i => e.cells[i] = b.cells[i]
  <2>1. b.readIndex - len + len = b.readIndex /\ b.readIndex <= b.size
    BY <1>0, <1>2
  <2> HIDE DEF e
  <2> QED BY <1>1, <1>2, <1>3, <2>1, CopyCells
<1> HIDE DEF e, r
<1>6. /\ Readable(e) \in Seq(Byte) /\ Len(Readable(e)) = r + len
      /\ \A i \in 1 .. r + len : Readable(e)[i] = e.cells[b.readIndex - len + i - 1]
  BY <1>4, ReadableFacts
<1>7. /\ Readable(b) \in Seq(Byte) /\ Len(Readable(b)) = r
      /\ \A i \in 1 .. r : Readable(b)[i] = b.cells[b.readIndex + i - 1]
  BY ReadableFacts DEF r
<1>8. /\ s \o Readable(b) \in Seq(Byte) /\ Len(s \o Readable(b)) = r + len
      /\ \A i \in 1 .. r + len :
           (s \o Readable(b))[i] = IF i <= len THEN s[i] ELSE Readable(b)[i - len]
  <2>1. /\ s \o Readable(b) \in Seq(Byte) /\ Len(s \o Readable(b)) = len + r
        /\ \A i \in 1 .. len + r :
             (s \o Readable(b))[i] = IF i <= len THEN s[i] ELSE Readable(b)[i - len]
    BY <1>0, <1>7, ConcatProperties
  <2>2. len + r = r + len
    BY <1>0, <1>2
  <2> QED BY <2>1, <2>2, Zenon
<1>9. ASSUME NEW i \in 1 .. r + len PROVE Readable(e)[i] = (s \o Readable(b))[i]
  <2>2. CASE i <= len
    <3>1. i \in 1 .. len
      BY <1>0, <2>2
    <3> QED BY <1>5, <1>6, <1>8, <2>2, <3>1
  <2>3. CASE ~(i <= len)
    <3>1. /\ b.readIndex - len + i - 1 \in 0 .. b.size - 1 /\ b.readIndex <= b.readIndex - len + i - 1
          /\ i - len \in 1 .. r /\ b.readIndex + (i - len) - 1 = b.readIndex - len + i - 1
      <4>1. i \in Int /\ i > len /\ i <= r + len
        BY <1>0, <1>2, <2>3
      <4> DEFINE rd == b.readIndex
                 wr == b.writeIndex
                 sz == b.size
      <4>2. /\ rd \in Nat /\ wr \in Nat /\ sz \in Nat /\ rd - len \in Nat
            /\ r = wr - rd /\ wr <= sz
        BY <1>2
      <4> HIDE DEF rd, wr, sz
      <4>3. /\ rd - len + i - 1 \in 0 .. sz - 1 /\ rd <= rd - len + i - 1
            /\ i - len \in 1 .. r /\ rd + (i - len) - 1 = rd - len + i - 1
        BY <1>0, <4>1, <4>2
      <4> QED BY <4>3 DEF rd, sz
    <3>2. e.cells[b.readIndex - len + i - 1] = b.cells[b.readIndex - len + i - 1]
      BY <1>5, <3>1
    <3> QED BY <1>6, <1>7, <1>8, <2>3, <3>1, <3>2
  <2> QED BY <2>2, <2>3
<1>10. Readable(e) = s \o Readable(b)
  BY <1>6, <1>8, <1>9, SeqEqual
<1> QED BY <1>10 DEF e

\* n cells from the m-th readable one on.
Cells(b, m, n) == [i \in 1 .. n |-> b.cells[b.readIndex + (m + i) - 1]]

\* A part of the readable bytes, as a function of positions.
LEMMA PartIsFunction ==
  ASSUME NEW b, Good(b), NEW m \in Nat, NEW n \in Nat, m + n <= readableBytes(b)
  PROVE  SubSeq(Readable(b), m + 1, m + n) = Cells(b, m, n)
<1> DEFINE q == Readable(b)
<1>1. /\ readableBytes(b) \in Nat
      /\ \A i \in 1 .. readableBytes(b) : q[i] = b.cells[b.readIndex + i - 1]
  BY SizesLemma, ReadableFacts
<1> HIDE DEF q
<1>2. SubSeq(q, m + 1, m + n) = [i \in 1 .. n |-> q[m + i]]
  <2>1. SubSeq(q, m + 1, m + n) = [i \in 1 .. (m + n) - (m + 1) + 1 |-> q[i + (m + 1) - 1]]
    OBVIOUS
  <2>2. (m + n) - (m + 1) + 1 = n /\ \A i \in 1 .. n : i + (m + 1) - 1 = m + i
    OBVIOUS
  <2> QED BY <2>1, <2>2
<1>3. \A i \in 1 .. n : m + i \in 1 .. readableBytes(b)
  BY <1>1
<1>4. \A i \in 1 .. n : q[m + i] = b.cells[b.readIndex + (m + i) - 1]
  BY <1>1, <1>3
<1> QED BY <1>2, <1>4 DEF q, Cells

\* retrieve drops the first bytes; when it drops all of them it starts again at
\* the reserved area.
LEMMA RetrieveReadable ==
  ASSUME NEW b, Good(b), NEW len \in 0 .. readableBytes(b)
  PROVE  Readable(retrieve(b, len)) = SubSeq(Readable(b), len + 1, readableBytes(b))
<1> USE BufferAssumption DEF BufferAssumption
<1> DEFINE r == readableBytes(b)
           c == retrieve(b, len)
<1>0. r \in Nat /\ len \in Nat /\ len <= r /\ r - len \in Nat /\ len + (r - len) = r
  BY SizesLemma
<1>1. assert(b, len <= r) = b
  BY <1>0, AssertLemma
<1>2. SubSeq(Readable(b), len + 1, r) = [i \in 1 .. r - len |-> b.cells[b.readIndex + (len + i) - 1]]
  <2>1. SubSeq(Readable(b), len + 1, len + (r - len))
          = [i \in 1 .. r - len |-> b.cells[b.readIndex + (len + i) - 1]]
    <3> DEFINE k == r - len
    <3>1. len + k <= readableBytes(b) /\ k \in Nat /\ len \in Nat
      BY <1>0
    <3> HIDE DEF k
    <3>2. SubSeq(Readable(b), len + 1, len + k) = Cells(b, len, k)
      BY <3>1, PartIsFunction
    <3> QED BY <3>2 DEF k, Cells
  <2> QED BY <1>0, <2>1
<1>3. CASE len < r
  <2>1. c = [b EXCEPT !.readIndex = b.readIndex + len]
    BY <1>1, <1>3 DEF retrieve
  <2> HIDE DEF c
  <2>2. c.cells = b.cells /\ c.readIndex = b.readIndex + len /\ c.writeIndex = b.writeIndex
    BY <2>1 DEF Good, Record
  <2>3. readableBytes(c) = r - len /\ b.readIndex \in Nat
    BY <1>0, <2>2 DEF readableBytes, Good, Record
  <2>4. \A i \in 1 .. r - len : b.readIndex + len + i - 1 = b.readIndex + (len + i) - 1
    BY <1>0, <2>3
  <2>5. Readable(c) = [i \in 1 .. r - len |-> b.cells[b.readIndex + len + i - 1]]
    BY <2>2, <2>3 DEF Readable
  <2> QED BY <1>2, <2>4, <2>5 DEF c
<1>4. CASE ~(len < r)
  <2>1. c = [b EXCEPT !.readIndex = kCheapPrepend, !.writeIndex = kCheapPrepend]
    BY <1>1, <1>4 DEF retrieve, retrieveAll
  <2> HIDE DEF c
  <2>2. c.readIndex = kCheapPrepend /\ c.writeIndex = kCheapPrepend
    BY <2>1 DEF Good, Record
  <2>3. readableBytes(c) = 0 /\ r - len = 0
    BY <1>0, <1>4, <2>2 DEF readableBytes
  <2>4. Readable(c) = <<>>
    BY <2>3 DEF Readable
  <2>5. SubSeq(Readable(b), len + 1, r) = <<>>
    <3> HIDE DEF r
    <3>1. r \in Int /\ len + 1 \in Int /\ r < len + 1
      BY <1>0, <2>3
    <3> QED BY <3>1, SubSeqEmpty
  <2> QED BY <2>4, <2>5 DEF c
<1> QED BY <1>3, <1>4

\* unWrite drops the last bytes.
LEMMA UnWriteReadable ==
  ASSUME NEW b, Good(b), NEW len \in 0 .. readableBytes(b)
  PROVE  Readable(unWrite(b, len)) = SubSeq(Readable(b), 1, readableBytes(b) - len)
<1> DEFINE r == readableBytes(b)
           c == unWrite(b, len)
<1>0. r \in Nat /\ len \in Nat /\ len <= r /\ r - len \in Nat
  BY SizesLemma
<1>1. c = [b EXCEPT !.writeIndex = b.writeIndex - len]
  BY <1>0, AssertLemma DEF unWrite
<1> HIDE DEF c
<1>2. c.cells = b.cells /\ c.readIndex = b.readIndex /\ c.writeIndex = b.writeIndex - len
  BY <1>1 DEF Good, Record
<1>3. readableBytes(c) = r - len
  BY <1>0, <1>2 DEF readableBytes, Good, Record
<1>4. Readable(c) = [i \in 1 .. r - len |-> b.cells[b.readIndex + i - 1]]
  BY <1>2, <1>3 DEF Readable
<1>5. SubSeq(Readable(b), 1, r - len) = [i \in 1 .. r - len |-> b.cells[b.readIndex + i - 1]]
  <2> DEFINE k == r - len
             z == 0
  <2>1. z \in Nat /\ k \in Nat /\ z + k <= readableBytes(b)
    BY <1>0
  <2> HIDE DEF k, z
  <2>2. SubSeq(Readable(b), z + 1, z + k) = Cells(b, z, k)
    BY <2>1, PartIsFunction
  <2>3. z + 1 = 1 /\ z + k = k /\ \A i \in 1 .. k : z + i = i
    BY <2>1 DEF z
  <2>4. SubSeq(Readable(b), 1, k) = [i \in 1 .. k |-> b.cells[b.readIndex + i - 1]]
    BY <2>2, <2>3 DEF Cells
  <2> QED BY <2>4 DEF k
<1> QED BY <1>4, <1>5 DEF c

\* shrink copies the data to a new buffer.
LEMMA ShrinkReadable ==
  ASSUME NEW b, Good(b), NEW reserve \in Nat
  PROVE  Readable(shrink(b, reserve)) = Readable(b)
<1> DEFINE r == readableBytes(b)
           c == checkWritableSpace(NewBuffer, r + reserve)
           d == append(c, Readable(b))
<1>0. r \in Nat /\ r + reserve \in Nat /\ String(Readable(b), r) /\ Readable(b) \in Seq(Byte)
  BY SizesLemma, ReadableLemma DEF String
<1>1. shrink(b, reserve) = [d EXCEPT !.ok = d.ok /\ b.ok]
  BY DEF shrink
<1> HIDE DEF r
<1>2. Good(c) /\ Readable(c) = Readable(NewBuffer)
  BY <1>0, NewBufferLemma, CheckWritableSpaceLemma, CheckWritableSpaceReadable
<1>3. Readable(c) = <<>>
  BY <1>2, NewBufferLemma DEF Readable
<1> HIDE DEF c
<1>4. Good(d) /\ Readable(d) = <<>> \o Readable(b)
  BY <1>0, <1>2, <1>3, AppendLemma, AppendReadable
<1> HIDE DEF d
<1>5. shrink(b, reserve) = d
  BY <1>1, <1>4 DEF Good, Record
<1> QED BY <1>0, <1>4, <1>5, ConcatEmptySeq

\* readFd appends what readv returned, also when it was split between the
\* writable part and extrabuf.
LEMMA ReadFdReadable ==
  ASSUME NEW b, Good(b), NEW s, NEW len, String(s, len)
  PROVE  Readable(readFd(b, s)) = Readable(b) \o s
<1> USE BufferAssumption DEF BufferAssumption
<1>0. len \in Nat /\ Len(s) = len /\ s \in [1 .. len -> Byte] /\ s \in Seq(Byte)
  BY DEF String
<1>1. /\ readableBytes(b) \in Nat /\ writableBytes(b) \in Nat
      /\ b.writeIndex \in Nat /\ b.size \in Nat /\ writableBytes(b) = b.size - b.writeIndex
  BY SizesLemma DEF Good, Record, writableBytes
<1>2. CASE len <= writableBytes(b)
  <2>1. ~(writableBytes(b) < len) /\ writableBytes(b) >= len
    BY <1>0, <1>1, <1>2
  <2>2. checkWritableSpace(b, len) = b
    BY <2>1, AssertLemma DEF checkWritableSpace
  <2> DEFINE c == copy(b, s, b.writeIndex)
  <2>3. Good(c) /\ c.size = b.size /\ c.writeIndex = b.writeIndex
    BY <1>0, <1>1, CopyLemma
  <2>4. readFd(b, s) = [c EXCEPT !.writeIndex = c.writeIndex + len]
    BY <1>0, <1>2, <2>3 DEF readFd
  <2>5. append(b, s) = hasWritten(c, len)
    BY <1>0, <2>2 DEF append
  <2> HIDE DEF c
  <2>6. writableBytes(c) >= len
    BY <2>1, <2>3 DEF writableBytes
  <2>7. hasWritten(c, len) = [c EXCEPT !.writeIndex = c.writeIndex + len]
    BY <2>3, <2>6, AssertLemma DEF hasWritten
  <2>8. readFd(b, s) = append(b, s)
    BY <2>4, <2>5, <2>7
  <2> QED BY <2>8, AppendReadable
<1>3. CASE ~(len <= writableBytes(b))
  <2> DEFINE w == writableBytes(b)
             u == SubSeq(s, 1, w)
             c == copy(b, u, b.writeIndex)
             d == [c EXCEPT !.writeIndex = b.size]
             t == SubSeq(s, w + 1, len)
  <2>1. readFd(b, s) = append(d, t)
    BY <1>0, <1>3 DEF readFd
  <2>2. w \in Nat /\ w < len
    BY <1>0, <1>1, <1>3
  <2>3. String(u, w) /\ String(t, len - w)
    <3> HIDE DEF w
    <3>1. w + 1 \in Nat /\ 1 <= w + 1 /\ w + 1 <= len + 1 /\ w <= len /\ len <= len
      BY <1>0, <2>2
    <3>2. w - 1 + 1 = w /\ len - (w + 1) + 1 = len - w
      BY <1>0, <2>2
    <3>3. String(SubSeq(s, 1, w), w - 1 + 1)
      BY <2>2, <3>1, PartLemma
    <3>4. String(SubSeq(s, w + 1, len), len - (w + 1) + 1)
      BY <1>0, <3>1, PartLemma
    <3> QED BY <3>2, <3>3, <3>4
  <2>4. checkWritableSpace(b, w) = b
    <3>1. ~(writableBytes(b) < w) /\ writableBytes(b) >= w
      BY <1>1
    <3> QED BY <3>1, AssertLemma DEF checkWritableSpace
  <2>5. append(b, u) = hasWritten(c, w)
    BY <2>3, <2>4 DEF append, String
  <2>6. Good(c) /\ c.size = b.size /\ c.writeIndex = b.writeIndex
    <3>1. u \in [1 .. w -> Byte] /\ Len(u) = w
      BY <2>3 DEF String
    <3> HIDE DEF u, w
    <3> QED BY <1>1, <2>2, <3>1, CopyLemma
  <2>7. hasWritten(c, w) = d
    <3> HIDE DEF c
    <3>1. writableBytes(c) >= w /\ c.writeIndex + w = b.size
      BY <1>1, <2>6 DEF writableBytes
    <3> QED BY <2>6, <3>1, AssertLemma DEF hasWritten
  <2> HIDE DEF w, u, c, d, t
  <2>8. Good(d) /\ Readable(d) = Readable(b) \o u
    BY <2>3, <2>5, <2>7, AppendLemma, AppendReadable
  <2>9. Readable(append(d, t)) = (Readable(b) \o u) \o t
    BY <2>3, <2>8, AppendReadable
  <2>10. u \o t = s
    <3>1. 1 \in 1 .. Len(s) + 1 /\ w \in 1 - 1 .. Len(s) /\ len \in w .. Len(s)
      BY <1>0, <2>2
    <3>2. u \o t = SubSeq(s, 1, len)
      BY <1>0, <3>1, ConcatAdjacentSubSeq DEF u, t
    <3> QED BY <1>0, <3>2, SubSeqFull
  <2>11. (Readable(b) \o u) \o t = Readable(b) \o (u \o t)
    <3> DEFINE q == Readable(b)
    <3>1. q \in Seq(Byte) /\ u \in Seq(Byte) /\ t \in Seq(Byte)
      BY <2>3, ReadableFacts DEF String
    <3> HIDE DEF q
    <3>2. (q \o u) \o t = q \o (u \o t)
      BY <3>1
    <3> QED BY <3>2 DEF q
  <2> QED BY <2>1, <2>9, <2>10, <2>11, Zenon
<1> QED BY <1>2, <1>3

-----------------------------------------------------------------------------
(* The refinement.                                                         *)

\* The new buffer is an empty queue.
LEMMA InitIsQueue == Init => Queue!Init
<1>1. Readable(NewBuffer) = <<>>
  BY NewBufferLemma DEF Readable
<1> QED BY <1>1 DEF Init, Queue!Init

\* Every call is a call of the queue; shrink is none.
LEMMA NextIsQueue == IndInv /\ [Next]_vars => [Queue!Next]_(Queue!vars)
<1> SUFFICES ASSUME IndInv, [Next]_vars PROVE [Queue!Next]_(Queue!vars)
  OBVIOUS
<1> DEFINE q == Readable(buf)
<1>0. Good(buf) /\ readableBytes(buf) \in Nat /\ q \in Seq(Byte) /\ Len(q) = readableBytes(buf)
  BY SizesLemma, ReadableFacts DEF IndInv
<1>1. ASSUME NEW c, buf' = c PROVE Readable(buf)' = Readable(c)
  BY <1>1 DEF Readable, readableBytes
<1>2. CASE Append_
  <2>1. PICK s \in Strings : buf' = append(buf, s) /\ call' = [op |-> "put", bytes |-> s]
    BY <1>2 DEF Append_, Called
  <2>2. Readable(buf)' = Readable(buf) \o s
    BY <1>0, <1>1, <2>1, StringsLemma, AppendReadable
  <2>3. Queue!Put(s)
    BY <2>1, <2>2 DEF Queue!Put
  <2> QED BY <2>3 DEF Queue!Next
<1>3. CASE Prepend
  <2>1. PICK s \in Strings : /\ Len(s) <= prependableBytes(buf) /\ buf' = prepend(buf, s)
                             /\ call' = [op |-> "putBack", bytes |-> s]
    BY <1>3 DEF Prepend, Called
  <2>2. Readable(buf)' = s \o Readable(buf)
    BY <1>0, <1>1, <2>1, StringsLemma, PrependReadable
  <2>3. Queue!PutBack(s)
    BY <2>1, <2>2 DEF Queue!PutBack
  <2> QED BY <2>3 DEF Queue!Next
<1>4. CASE ReadFd
  <2>1. PICK s \in Strings : buf' = readFd(buf, s) /\ call' = [op |-> "put", bytes |-> s]
    BY <1>4 DEF ReadFd, Called
  <2>2. Readable(buf)' = Readable(buf) \o s
    BY <1>0, <1>1, <2>1, StringsLemma, ReadFdReadable
  <2>3. Queue!Put(s)
    BY <2>1, <2>2 DEF Queue!Put
  <2> QED BY <2>3 DEF Queue!Next
<1>5. CASE Retrieve
  <2>1. PICK n \in 0 .. readableBytes(buf) :
          /\ buf' = retrieve(buf, n)
          /\ call' = [op |-> "take", bytes |-> [i \in 1 .. n |-> q[i]]]
    BY <1>5 DEF Retrieve, Called
  <2>2. Readable(buf)' = SubSeq(q, n + 1, Len(q))
    BY <1>0, <1>1, <2>1, RetrieveReadable
  <2>3. SubSeq(q, 1, n) = [i \in 1 .. n |-> q[i]]
    <3> HIDE DEF q
    <3>1. SubSeq(q, 1, n) = [i \in 1 .. n - 1 + 1 |-> q[i + 1 - 1]]
      BY <1>0
    <3>2. n - 1 + 1 = n /\ \A i \in 1 .. n : i + 1 - 1 = i
      BY <1>0
    <3> QED BY <3>1, <3>2
  <2>4. Queue!Take(n) /\ n \in 0 .. Len(q)
    BY <1>0, <2>1, <2>2, <2>3 DEF Queue!Take
  <2> QED BY <2>4 DEF Queue!Next
<1>6. CASE UnWrite
  <2>1. PICK n \in 0 .. readableBytes(buf) :
          /\ buf' = unWrite(buf, n)
          /\ call' = [op |-> "undo", bytes |-> [i \in 1 .. n |-> q[readableBytes(buf) - n + i]]]
    BY <1>6 DEF UnWrite, Called
  <2>2. Readable(buf)' = SubSeq(q, 1, Len(q) - n)
    BY <1>0, <1>1, <2>1, UnWriteReadable
  <2>3. SubSeq(q, Len(q) - n + 1, Len(q)) = [i \in 1 .. n |-> q[readableBytes(buf) - n + i]]
    <3> DEFINE k == readableBytes(buf)
    <3>1. k \in Nat /\ n \in 0 .. k /\ Len(q) = k /\ q \in Seq(Byte)
      BY <1>0, <2>1
    <3> HIDE DEF q, k
    <3>2. SubSeq(q, k - n + 1, k) = [i \in 1 .. k - (k - n + 1) + 1 |-> q[i + (k - n + 1) - 1]]
      BY <3>1
    <3>3. k - (k - n + 1) + 1 = n /\ \A i \in 1 .. n : i + (k - n + 1) - 1 = k - n + i
      BY <3>1
    <3>4. SubSeq(q, k - n + 1, k) = [i \in 1 .. n |-> q[k - n + i]]
      BY <3>2, <3>3
    <3> QED BY <3>1, <3>4 DEF k
  <2>4. Queue!Undo(n) /\ n \in 0 .. Len(q)
    BY <1>0, <2>1, <2>2, <2>3 DEF Queue!Undo
  <2> QED BY <2>4 DEF Queue!Next
<1>7. CASE Shrink
  <2>1. PICK reserve \in 0 .. MaxLen : buf' = shrink(buf, reserve) /\ call' = call
    BY <1>7 DEF Shrink
  <2>2. reserve \in Nat
    BY BufferAssumption DEF BufferAssumption
  <2>3. Readable(buf)' = Readable(buf)
    BY <1>0, <1>1, <2>1, <2>2, ShrinkReadable
  <2> QED BY <2>1, <2>3 DEF Queue!vars
<1>8. CASE UNCHANGED vars
  BY <1>1, <1>8 DEF vars, Queue!vars
<1> QED BY <1>2, <1>3, <1>4, <1>5, <1>6, <1>7, <1>8 DEF Next

\* The bytes a user reads are the bytes it wrote, in order: a Buffer, with its
\* resizes, move-downs, shrinks and split reads, implements a byte queue.
THEOREM BufferIsByteQueue == Spec => IsByteQueue
BY InitInvariant, NextInvariant, InitIsQueue, NextIsQueue, PTL DEF Spec, IsByteQueue, Queue!Spec

=============================================================================
