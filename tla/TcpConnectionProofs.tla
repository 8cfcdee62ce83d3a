-------------------------- MODULE TcpConnectionProofs --------------------------
(***************************************************************************)
(* Proofs about TcpConnection, for any lengths and any number of sends,    *)
(* any size of the kernel's buffer and any behaviour of the peer.          *)
(***************************************************************************)
EXTENDS TcpConnection, SequenceTheorems, TLAPS

-----------------------------------------------------------------------------
(* The functor queue: how often a functor waits in pendingFunctors_ (p)    *)
(* and in the batch that is being run (b).                                 *)

Lacks(s, f) == \A i \in 1 .. Len(s) : s[i] # f
Once(s, f)  == \E i \in 1 .. Len(s) : s[i] = f /\ \A j \in 1 .. Len(s) : s[j] = f => j = i

Never(p, b, f)     == Lacks(p, f) /\ Lacks(b, f)
QueuedOnce(p, b, f) == \/ Once(p, f) /\ Lacks(b, f)
                       \/ Lacks(p, f) /\ Once(b, f)

-----------------------------------------------------------------------------
(* The inductive invariant.                                                *)

Up == state \in {"kConnected", "kDisconnecting"}

\* Where the thread is: a batch is empty until it is swapped in, user code that
\* interrupts the channel's part of the iteration included; only user code sends.
Sched ==
  /\ pc \in {"poll", "handle", "write", "swap"} => batch = <<>>
  /\ pc \in {"user", "flush"} /\ ret # "functors" => batch = <<>>
  /\ caller = "user"

\* connectEstablished is queued exactly until it has run, and connectDestroyed
\* exactly once after the close.
Life ==
  /\ state = "kConnecting" =>
       /\ events = {} /\ index = "kNew" /\ basePending = 0 /\ ups = 0 /\ downs = 0
       /\ Never(pending, batch, "connectDestroyed")
       /\ peer = "absent" => Never(pending, batch, "connectEstablished")
       /\ peer # "absent" => inMap /\ QueuedOnce(pending, batch, "connectEstablished")
  /\ state # "kConnecting" => peer # "absent" /\ Never(pending, batch, "connectEstablished")
  /\ Up => /\ "read" \in events /\ index = "kAdded" /\ inMap /\ basePending = 0
           /\ ups = 1 /\ downs = 0
           /\ Never(pending, batch, "connectDestroyed")
  /\ state = "kDisconnected" =>
       /\ events = {} /\ ups = 1 /\ downs = 1
       /\ \/ /\ index = "kDeleted" /\ basePending = 1
             /\ Never(pending, batch, "connectDestroyed")
          \/ /\ index = "kDeleted" /\ basePending = 0
             /\ QueuedOnce(pending, batch, "connectDestroyed")
          \/ /\ index = "kNew" /\ basePending = 0
             /\ Never(pending, batch, "connectDestroyed")
  /\ pc = "handle" => Up
  /\ failed = FALSE

\* w followed by o is the stream's first n bytes.
IsStream(w, o, n) == w \o o = [i \in 1 .. n |-> i]

\* Bytes are lost only when the connection is: see StreamIntact.
Stream ==
  /\ finSent => state \in {"kDisconnecting", "kDisconnected"}
  /\ state # "kDisconnected" => (("write" \in events) <=> (outputBuffer # <<>>))
  /\ finSent => outputBuffer = <<>> /\ (peer # "rst" => Len(wire) = accepted)
  /\ peer # "rst" /\ state # "kDisconnected" => IsStream(wire, outputBuffer, accepted)

IndInv == TypeOK /\ Sched /\ Life /\ Stream

-----------------------------------------------------------------------------
(* Lemmas on the functor queue.                                            *)

\* An empty queue.
LEMMA EmptyQueue ==
  ASSUME NEW f
  PROVE  Lacks(<<>>, f)
BY DEF Lacks

\* queueInLoop of another functor.
LEMMA QueueOther ==
  ASSUME NEW s \in Seq(Functors), NEW f, NEW g \in Functors, g # f
  PROVE  /\ Append(s, g) \in Seq(Functors)
         /\ Lacks(s, f) => Lacks(Append(s, g), f)
         /\ Once(s, f) => Once(Append(s, g), f)
<1> DEFINE t == Append(s, g)
<1>1. /\ t \in Seq(Functors) /\ Len(t) = Len(s) + 1 /\ t[Len(s) + 1] = g /\ Len(s) \in Nat
      /\ \A i \in 1 .. Len(s) : t[i] = s[i]
  BY AppendProperties, LenProperties
<1> HIDE DEF t
<1>2. \A i \in 1 .. Len(t) : i \in 1 .. Len(s) \/ i = Len(s) + 1
  BY <1>1
<1>3. Lacks(s, f) => Lacks(t, f)
  BY <1>1, <1>2 DEF Lacks
<1>4. ASSUME Once(s, f) PROVE Once(t, f)
  <2>1. PICK i \in 1 .. Len(s) : s[i] = f /\ \A j \in 1 .. Len(s) : s[j] = f => j = i
    BY <1>4 DEF Once
  <2>2. i \in 1 .. Len(t) /\ t[i] = f
    BY <1>1, <2>1
  <2>3. \A j \in 1 .. Len(t) : t[j] = f => j = i
    BY <1>1, <1>2, <2>1
  <2> QED BY <2>2, <2>3 DEF Once
<1> QED BY <1>1, <1>3, <1>4 DEF t

\* queueInLoop of a functor that was not there.
LEMMA QueueFirst ==
  ASSUME NEW s \in Seq(Functors), NEW f \in Functors, Lacks(s, f)
  PROVE  Append(s, f) \in Seq(Functors) /\ Once(Append(s, f), f)
<1> DEFINE t == Append(s, f)
<1>1. /\ t \in Seq(Functors) /\ Len(t) = Len(s) + 1 /\ t[Len(s) + 1] = f /\ Len(s) \in Nat
      /\ \A i \in 1 .. Len(s) : t[i] = s[i]
  BY AppendProperties, LenProperties
<1> HIDE DEF t
<1>2. Len(s) + 1 \in 1 .. Len(t)
  BY <1>1
<1>3. \A j \in 1 .. Len(t) : t[j] = f => j = Len(s) + 1
  BY <1>1 DEF Lacks
<1>4. Once(t, f)
  BY <1>1, <1>2, <1>3 DEF Once
<1> QED BY <1>1, <1>4 DEF t

\* The first functor of the batch is taken to be run.
LEMMA RunFirst ==
  ASSUME NEW s \in Seq(Functors), s # <<>>, NEW f
  PROVE  /\ Tail(s) \in Seq(Functors) /\ Head(s) \in Functors
         /\ Lacks(s, f) => Lacks(Tail(s), f) /\ Head(s) # f
         /\ Once(s, f) /\ Head(s) # f => Once(Tail(s), f)
         /\ Once(s, f) /\ Head(s) = f => Lacks(Tail(s), f)
<1> DEFINE t == Tail(s)
<1>1. /\ t \in Seq(Functors) /\ Head(s) \in Functors
      /\ Len(s) \in Nat \ {0} /\ Len(t) = Len(s) - 1
      /\ \A i \in 1 .. Len(t) : t[i] = s[i + 1]
  BY HeadTailProperties, EmptySeq
<1>2. Head(s) = s[1]
  OBVIOUS
<1> HIDE DEF t
<1>3. \A i \in 1 .. Len(t) : i + 1 \in 1 .. Len(s)
  BY <1>1
<1>4. ASSUME Lacks(s, f) PROVE Lacks(t, f) /\ Head(s) # f
  BY <1>1, <1>2, <1>3, <1>4 DEF Lacks
<1>5. ASSUME Once(s, f), Head(s) # f PROVE Once(t, f)
  <2>1. PICK i \in 1 .. Len(s) : s[i] = f /\ \A j \in 1 .. Len(s) : s[j] = f => j = i
    BY <1>5 DEF Once
  <2>2. i - 1 \in 1 .. Len(t) /\ t[i - 1] = f
    BY <1>1, <1>2, <1>5, <2>1
  <2>3. \A j \in 1 .. Len(t) : t[j] = f => j = i - 1
    BY <1>1, <1>3, <2>1
  <2> QED BY <2>2, <2>3 DEF Once
<1>6. ASSUME Once(s, f), Head(s) = f PROVE Lacks(t, f)
  <2>1. PICK i \in 1 .. Len(s) : s[i] = f /\ \A j \in 1 .. Len(s) : s[j] = f => j = i
    BY <1>6 DEF Once
  <2>2. i = 1
    BY <1>1, <1>2, <1>6, <2>1
  <2> QED BY <1>1, <1>3, <2>1, <2>2 DEF Lacks
<1> QED BY <1>1, <1>4, <1>5, <1>6 DEF t

\* A queue that holds a functor is not empty.
LEMMA OnceNotEmpty ==
  ASSUME NEW f
  PROVE  ~Once(<<>>, f)
BY DEF Once

-----------------------------------------------------------------------------
(* Lemmas on the stream.                                                   *)

\* Concatenation is associative on streams.
LEMMA Associative == \A u, v, x \in Seq(Nat) : (u \o v) \o x = u \o (v \o x)
<1> SUFFICES ASSUME NEW u \in Seq(Nat), NEW v \in Seq(Nat), NEW x \in Seq(Nat)
             PROVE  (u \o v) \o x = u \o (v \o x)
  BY Zenon
<1> QED OBVIOUS

\* A write of the first k buffered bytes moves them to the wire.
LEMMA MoveBytes ==
  ASSUME NEW w \in Seq(Nat), NEW o \in Seq(Nat), NEW n, NEW k \in 1 .. Len(o), IsStream(w, o, n)
  PROVE  /\ w \o SubSeq(o, 1, k) \in Seq(Nat) /\ SubSeq(o, k + 1, Len(o)) \in Seq(Nat)
         /\ IsStream(w \o SubSeq(o, 1, k), SubSeq(o, k + 1, Len(o)), n)
<1> DEFINE s == SubSeq(o, 1, k)
           t == SubSeq(o, k + 1, Len(o))
<1>1. Len(o) \in Nat /\ k \in Nat /\ \A i \in 1 .. Len(o) : o[i] \in Nat
  BY LenProperties
<1>2. s \in Seq(Nat) /\ t \in Seq(Nat)
  <2>1. 1 \in Int /\ k \in Int /\ k + 1 \in Int /\ Len(o) \in Int
    BY <1>1
  <2>2. (\A i \in 1 .. k : o[i] \in Nat) /\ (\A i \in k + 1 .. Len(o) : o[i] \in Nat)
    BY <1>1
  <2> QED BY <2>1, <2>2, SubSeqProperties
<1>3. s \o t = SubSeq(o, 1, Len(o))
  <2>1. 1 \in 1 .. Len(o) + 1 /\ k \in 1 - 1 .. Len(o) /\ Len(o) \in k .. Len(o)
    BY <1>1
  <2> QED BY <2>1, ConcatAdjacentSubSeq
<1>4. s \o t = o
  BY <1>3, SubSeqFull
<1> HIDE DEF s, t
<1>5. (w \o s) \o t = w \o (s \o t)
  BY <1>2, Associative, Zenon
<1>6. w \o s \in Seq(Nat)
  BY <1>2, ConcatProperties
<1>7. IsStream(w \o s, t, n)
  BY <1>4, <1>5 DEF IsStream
<1> QED BY <1>2, <1>6, <1>7 DEF s, t

\* sendInLoop(len) to an empty buffer: k bytes are written, the rest is appended.
LEMMA SendDirectly ==
  ASSUME NEW w \in Seq(Nat), NEW n \in Nat, IsStream(w, <<>>, n), NEW len \in Nat, NEW k \in 0 .. len
  PROVE  LET d == [i \in 1 .. len |-> n + i]
         IN  /\ w \o SubSeq(d, 1, k) \in Seq(Nat) /\ SubSeq(d, k + 1, len) \in Seq(Nat)
             /\ IsStream(w \o SubSeq(d, 1, k), SubSeq(d, k + 1, len), n + len)
<1> DEFINE d == [i \in 1 .. len |-> n + i]
           s == SubSeq(d, 1, k)
           t == SubSeq(d, k + 1, len)
<1>1. d \in Seq(Nat) /\ Len(d) = len /\ \A i \in 1 .. len : d[i] = n + i
  OBVIOUS
<1>2. w \o <<>> = w
  BY ConcatEmptySeq
<1>3. w = [i \in 1 .. n |-> i] /\ Len(w) = n
  BY <1>2 DEF IsStream
<1> HIDE DEF d
<1>4. w \o d = [i \in 1 .. n + len |-> i]
  <2>1. /\ w \o d \in Seq(Nat) /\ Len(w \o d) = n + len
        /\ \A i \in 1 .. n + len : (w \o d)[i] = IF i <= n THEN w[i] ELSE d[i - n]
    <3>1. d \in Seq(Nat) /\ Len(d) = len /\ Len(w) = n
      BY <1>1, <1>3
    <3>2. /\ w \o d \in Seq(Nat) /\ Len(w \o d) = Len(w) + Len(d)
          /\ \A i \in 1 .. Len(w) + Len(d) :
               (w \o d)[i] = IF i <= Len(w) THEN w[i] ELSE d[i - Len(w)]
      BY <3>1, ConcatProperties
    <3> QED BY <3>1, <3>2
  <2>2. \A i \in 1 .. n + len : (w \o d)[i] = i
    <3> SUFFICES ASSUME NEW i \in 1 .. n + len PROVE (w \o d)[i] = i
      OBVIOUS
    <3>1. CASE i <= n
      BY <1>3, <2>1, <3>1
    <3>2. CASE ~(i <= n)
      BY <1>1, <2>1, <3>2, SMTT(30)
    <3> QED BY <3>1, <3>2
  <2> DEFINE u == [i \in 1 .. n + len |-> i]
  <2>3. u \in Seq(Nat) /\ Len(u) = n + len /\ \A i \in 1 .. n + len : u[i] = i
    OBVIOUS
  <2> HIDE DEF u
  <2>4. w \o d = u
    BY <2>1, <2>2, <2>3, SeqEqual
  <2> QED BY <2>4 DEF u
<1>5. s \in Seq(Nat) /\ t \in Seq(Nat)
  <2>1. 1 \in Int /\ k \in Int /\ k + 1 \in Int /\ len \in Int
    OBVIOUS
  <2>2. (\A i \in 1 .. k : d[i] \in Nat) /\ (\A i \in k + 1 .. len : d[i] \in Nat)
    BY <1>1
  <2> QED BY <2>1, <2>2, SubSeqProperties
<1>6. s \o t = d
  <2>1. 1 \in 1 .. Len(d) + 1 /\ k \in 1 - 1 .. Len(d) /\ len \in k .. Len(d)
    BY <1>1
  <2>2. s \o t = SubSeq(d, 1, len)
    BY <1>1, <2>1, ConcatAdjacentSubSeq
  <2> QED BY <1>1, <2>2, SubSeqFull
<1> HIDE DEF s, t
<1>7. (w \o s) \o t = w \o (s \o t) /\ w \o s \in Seq(Nat)
  <2>1. (w \o s) \o t = w \o (s \o t)
    BY <1>5, Associative, Zenon
  <2> QED BY <1>5, <2>1, ConcatProperties
<1>8. IsStream(w \o s, t, n + len)
  BY <1>4, <1>6, <1>7 DEF IsStream
<1> QED BY <1>5, <1>7, <1>8 DEF d, s, t

\* sendInLoop(len) behind bytes that are still buffered.
LEMMA SendBuffered ==
  ASSUME NEW w \in Seq(Nat), NEW o \in Seq(Nat), NEW n \in Nat, IsStream(w, o, n), NEW len \in Nat
  PROVE  LET d == [i \in 1 .. len |-> n + i]
         IN  /\ w \o SubSeq(d, 1, 0) = w /\ o \o SubSeq(d, 1, len) \in Seq(Nat)
             /\ Len(o \o SubSeq(d, 1, len)) = Len(o) + len
             /\ IsStream(w, o \o SubSeq(d, 1, len), n + len)
<1> DEFINE d == [i \in 1 .. len |-> n + i]
           v == w \o o
<1>1. v \in Seq(Nat) /\ v \o <<>> = v
  BY ConcatProperties, ConcatEmptySeq
<1>2. IsStream(v, <<>>, n)
  BY <1>1 DEF IsStream
<1>3. SubSeq(d, 1, 0) = <<>> /\ w \o <<>> = w /\ v \o SubSeq(d, 1, 0) = v
  BY <1>1, SubSeqEmpty, ConcatEmptySeq
<1>4. IsStream(v \o SubSeq(d, 1, 0), SubSeq(d, 0 + 1, len), n + len) /\ SubSeq(d, 0 + 1, len) \in Seq(Nat)
  <2>1. 0 \in 0 .. len
    OBVIOUS
  <2> QED BY <1>1, <1>2, <2>1, SendDirectly
<1>5. d \in Seq(Nat) /\ Len(d) = len /\ SubSeq(d, 1, len) = d
  <2>1. d \in Seq(Nat) /\ Len(d) = len
    OBVIOUS
  <2> QED BY <2>1, SubSeqFull
<1> HIDE DEF d, v
<1>6. IsStream(v, d, n + len)
  <2>1. 0 + 1 = 1
    OBVIOUS
  <2> QED BY <1>3, <1>4, <1>5, <2>1, Zenon
<1>7. v \o d = w \o (o \o d)
  BY <1>5, Associative, Zenon DEF v
<1>9. o \o d \in Seq(Nat) /\ Len(o \o d) = Len(o) + len
  BY <1>5, ConcatProperties
<1>8. IsStream(w, o \o d, n + len)
  BY <1>6, <1>7 DEF IsStream
<1> QED BY <1>3, <1>5, <1>8, <1>9 DEF d

\* With nothing buffered, the whole stream is on the wire.
LEMMA AllWritten ==
  ASSUME NEW w \in Seq(Nat), NEW n \in Nat, IsStream(w, <<>>, n)
  PROVE  Len(w) = n
<1>1. w = [i \in 1 .. n |-> i]
  BY ConcatEmptySeq DEF IsStream
<1> QED BY <1>1

-----------------------------------------------------------------------------
(* What the handlers do to the invariant, whoever calls them.              *)

\* The part of TypeOK about the loop's thread, and the rest.
LoopTyped ==
  /\ pc \in Places
  /\ ret \in {"write", "swap", "functors"}
  /\ caller \in {"user", "functors"}
  /\ revents \subseteq {"IN", "OUT", "HUP", "ERR"}
  /\ batch \in Seq(Functors)
  /\ batchHolds \in BOOLEAN

ConnTyped ==
  /\ ioIsBase \in BOOLEAN
  /\ pending \in Seq(Functors)
  /\ state \in States
  /\ events \subseteq {"read", "write"}
  /\ index \in {"kNew", "kAdded", "kDeleted"}
  /\ outputBuffer \in Seq(Nat)
  /\ inMap \in BOOLEAN
  /\ basePending \in Nat
  /\ inflight \in 0 .. SndBuf
  /\ wire \in Seq(Nat)
  /\ finSent \in BOOLEAN
  /\ peer \in {"absent", "open", "fin", "rst"}
  /\ soError \in BOOLEAN
  /\ unread \in BOOLEAN
  /\ received \in Nat
  /\ accepted \in Nat
  /\ acked \in Nat
  /\ ups \in Nat
  /\ downs \in Nat
  /\ failed \in BOOLEAN

\* The two parts are TypeOK.
LEMMA TypeParts == TypeOK <=> LoopTyped /\ ConnTyped
BY DEF TypeOK, LoopTyped, ConnTyped

\* Steps that leave f as often in the queue as it was.
Quiet(f) ==
  /\ \/ pending' = pending
     \/ \E g \in Functors : g # f /\ pending' = Append(pending, g)
  /\ \/ batch' = batch
     \/ batch # <<>> /\ Head(batch) # f /\ batch' = Tail(batch)

\* Such a step keeps f queued once, or not at all.
LEMMA QuietKeeps ==
  ASSUME pending \in Seq(Functors), batch \in Seq(Functors), NEW f, Quiet(f)
  PROVE  /\ pending' \in Seq(Functors) /\ batch' \in Seq(Functors)
         /\ Never(pending, batch, f) => Never(pending', batch', f)
         /\ QueuedOnce(pending, batch, f) => QueuedOnce(pending', batch', f)
<1>1. /\ pending' \in Seq(Functors)
      /\ Lacks(pending, f) => Lacks(pending', f)
      /\ Once(pending, f) => Once(pending', f)
  BY QueueOther DEF Quiet
<1>2. /\ batch' \in Seq(Functors)
      /\ Lacks(batch, f) => Lacks(batch', f)
      /\ Once(batch, f) => Once(batch', f)
  <2>1. CASE batch' = batch
    BY <2>1
  <2>2. CASE batch # <<>> /\ Head(batch) # f /\ batch' = Tail(batch)
    <3>1. /\ Tail(batch) \in Seq(Functors)
          /\ Lacks(batch, f) => Lacks(Tail(batch), f)
          /\ Once(batch, f) => Once(Tail(batch), f)
      BY <2>2, RunFirst, Zenon
    <3> QED BY <2>2, <3>1, Zenon
  <2> QED BY <2>1, <2>2 DEF Quiet
<1> QED BY <1>1, <1>2 DEF Never, QueuedOnce

\* A step that runs no functor, or one that does not belong to the life cycle.
RunsOther ==
  \/ batch' = batch
  \/ /\ batch # <<>> /\ batch' = Tail(batch)
     /\ Head(batch) \notin {"connectEstablished", "connectDestroyed"}

\* handleClose of a connection that is up: its assert holds, and from then on
\* connectDestroyed is on its way, through the base loop or directly.
LEMMA CloseStep ==
  ASSUME TypeOK, Life, Up, handleClose, peer' = peer, RunsOther, pc' # "handle"
  PROVE  Life' /\ state' = "kDisconnected" /\ pending' \in Seq(Functors) /\ failed' = FALSE
         /\ basePending' \in Nat /\ downs' \in Nat /\ events' = {} /\ index' = "kDeleted"
         /\ inMap' \in BOOLEAN /\ outputBuffer' = outputBuffer
<1>0. failed' = FALSE
  BY Zenon DEF handleClose, Asserts, Life, Up
<1>1. /\ state' = "kDisconnected" /\ events' = {} /\ index' = "kDeleted" /\ failed' = FALSE
      /\ downs' = 1 /\ ups' = 1 /\ peer' # "absent" /\ outputBuffer' = outputBuffer
  BY <1>0 DEF handleClose, UpdateChannel, IndexAfterUpdate, Life, Up
<1>2. /\ pending \in Seq(Functors) /\ batch \in Seq(Functors)
      /\ Never(pending, batch, "connectDestroyed") /\ Never(pending, batch, "connectEstablished")
      /\ basePending = 0 /\ inMap \in BOOLEAN
  BY DEF TypeOK, Life, Up
<1>3. "connectEstablished" \in Functors /\ "connectDestroyed" \in Functors
  BY DEF Functors
<1>4. Quiet("connectEstablished")
  BY <1>3 DEF Quiet, RunsOther, handleClose
<1>5. Never(pending', batch', "connectEstablished") /\ pending' \in Seq(Functors)
  BY <1>2, <1>4, QuietKeeps
<1>6. Lacks(batch', "connectDestroyed")
  <2>1. Lacks(batch, "connectDestroyed")
    BY <1>2, Zenon DEF Never
  <2>2. CASE batch' = batch
    BY <2>1, <2>2
  <2>3. CASE batch # <<>> /\ batch' = Tail(batch)
    <3>1. Lacks(Tail(batch), "connectDestroyed")
      BY <1>2, <2>1, <2>3, RunFirst, Zenon
    <3> QED BY <2>3, <3>1, Zenon
  <2> QED BY <2>2, <2>3 DEF RunsOther
<1>7. CASE ioIsBase
  <2>1. pending' = Append(pending, "connectDestroyed") /\ basePending' = 0 /\ inMap' = FALSE
    BY <1>2, <1>7 DEF handleClose
  <2>2. QueuedOnce(pending', batch', "connectDestroyed")
    BY <1>2, <1>3, <1>6, <2>1, QueueFirst DEF Never, QueuedOnce
  <2> QED BY <1>1, <1>5, <2>1, <2>2 DEF Life, Up
<1>8. CASE ~ioIsBase
  <2>1. pending' = pending /\ basePending' = 1 /\ inMap' = inMap
    BY <1>2, <1>8 DEF handleClose
  <2>2. Never(pending', batch', "connectDestroyed")
    BY <1>2, <1>6, <2>1 DEF Never
  <2> QED BY <1>1, <1>2, <1>5, <2>1, <2>2 DEF Life, Up
<1> QED BY <1>7, <1>8

\* A step that leaves the state of the connection and its life cycle alone.
LEMMA LifeKept ==
  ASSUME TypeOK, Life, Quiet("connectEstablished"), Quiet("connectDestroyed"),
         UNCHANGED <<state, index, inMap, basePending, ups, downs, failed>>,
         peer' = "absent" <=> peer = "absent",
         events' = events \/ (Up /\ "read" \in events'), pc' = "handle" => Up
  PROVE  Life'
<1>1. /\ pending \in Seq(Functors) /\ batch \in Seq(Functors)
  BY DEF TypeOK
<1>2. \A f \in {"connectEstablished", "connectDestroyed"} :
        /\ Never(pending, batch, f) => Never(pending', batch', f)
        /\ QueuedOnce(pending, batch, f) => QueuedOnce(pending', batch', f)
  BY <1>1, QuietKeeps
<1> QED BY <1>2 DEF Life, Up

\* What ::write may return fits the kernel's buffer and the bytes passed to it.
LEMMA WriteResultsRange ==
  ASSUME ConnTyped, NEW len \in Nat, NEW n \in WriteResults(len)
  PROVE  /\ n \in Int
         /\ n \in {-1, 0} \/ (n > 0 /\ n <= len /\ inflight + n \in 0 .. SndBuf)
         /\ n = -1 => peer = "rst" \/ finSent
         /\ (peer = "rst" \/ finSent) => n = -1
BY TcpAssumption DEF TcpAssumption, WriteResults, ConnTyped

\* handleWrite moves bytes from the buffer to the wire in order, asks for
\* EPOLLOUT as long as there are more, half-closes when a pending shutdown() may,
\* and closes a connection that is gone.
LEMMA WriteStep ==
  ASSUME TypeOK, Life, Stream, handleWrite, RunsOther, pc' # "handle"
  PROVE  ConnTyped' /\ Life' /\ Stream'
<1> USE DEF TypeOK
<1>0. ConnTyped /\ LoopTyped
  BY TypeParts
<1>1. ASSUME UNCHANGED <<connVars, serverVars, kernelVars, ghostVars, failed, pending>>
      PROVE  ConnTyped' /\ Life' /\ Stream'
  <2>0. /\ UNCHANGED <<state, events, index, outputBuffer, ioIsBase, inMap, basePending>>
        /\ UNCHANGED <<inflight, wire, finSent, peer, soError, unread, received>>
        /\ UNCHANGED <<accepted, acked, ups, downs, failed, pending>>
    BY <1>1 DEF connVars, serverVars, kernelVars, ghostVars
  <2>1. ConnTyped'
    BY <1>0, <2>0 DEF ConnTyped
  <2>2. Quiet("connectEstablished") /\ Quiet("connectDestroyed")
    BY <2>0 DEF Quiet, RunsOther
  <2>3. Life'
    BY <2>0, <2>2, LifeKept
  <2>4. Stream'
    BY <2>0 DEF Stream
  <2> QED BY <2>1, <2>3, <2>4
<1>2. CASE ~isWriting
  BY <1>1, <1>2 DEF handleWrite
<1>3. CASE isWriting
  <2>1. PICK n \in WriteResults(Len(outputBuffer)) :
         \/ /\ n > 0
            /\ wire' = wire \o SubSeq(outputBuffer, 1, n)
            /\ inflight' = inflight + n
            /\ outputBuffer' = retrieve(n)
            /\ IF outputBuffer' = <<>>
               THEN drained
               ELSE /\ pending' = Append(pending, "handleWrite")
                    /\ UNCHANGED <<events, index, finSent>>
            /\ UNCHANGED <<state, serverVars, peer, soError, unread, received,
                           ghostVars, failed>>
         \/ /\ n = 0
            /\ UNCHANGED <<connVars, serverVars, kernelVars, ghostVars, failed, pending>>
         \/ /\ n = -1
            /\ handleClose
            /\ soError' = FALSE
            /\ UNCHANGED <<inflight, wire, finSent, peer, unread, received>>
    BY <1>3, Zenon DEF handleWrite
  <2>2. Len(outputBuffer) \in Nat
    BY LenProperties
  <2>3. Up
    BY <1>3 DEF isWriting, Life, Up, States
  <2>4. CASE /\ n > 0
             /\ wire' = wire \o SubSeq(outputBuffer, 1, n)
             /\ inflight' = inflight + n
             /\ outputBuffer' = retrieve(n)
             /\ IF outputBuffer' = <<>>
                THEN drained
                ELSE /\ pending' = Append(pending, "handleWrite")
                     /\ UNCHANGED <<events, index, finSent>>
             /\ UNCHANGED <<state, serverVars, peer, soError, unread, received,
                            ghostVars, failed>>
    <3>1. /\ n \in 1 .. Len(outputBuffer) /\ inflight + n \in 0 .. SndBuf
          /\ ~(peer = "rst") /\ ~finSent
      <4>1. /\ n \in Int
            /\ n \in {-1, 0} \/ (n > 0 /\ n <= Len(outputBuffer) /\ inflight + n \in 0 .. SndBuf)
            /\ (peer = "rst" \/ finSent) => n = -1
        BY <1>0, <2>1, <2>2, WriteResultsRange, Zenon
      <4> QED BY <2>2, <2>4, <4>1
    <3>2. IsStream(wire, outputBuffer, accepted)
      BY <2>3, <3>1 DEF Stream, Up
    <3>3. /\ wire' \in Seq(Nat) /\ outputBuffer' \in Seq(Nat)
          /\ IsStream(wire', outputBuffer', accepted)
      BY <2>4, <3>1, <3>2, MoveBytes DEF retrieve
    <3>4. /\ UNCHANGED <<state, ioIsBase, inMap, basePending, peer, soError, unread, received>>
          /\ UNCHANGED <<accepted, acked, ups, downs, failed>>
      BY <2>4 DEF serverVars, ghostVars
    <3>5. CASE outputBuffer' = <<>>
      <4>1. /\ events' = events \ {"write"} /\ index' = "kAdded"
            /\ pending' = Append(pending, "writeComplete")
            /\ finSent' = (finSent \/ state = "kDisconnecting")
        BY <2>3, <2>4, <3>5 DEF drained, UpdateChannel, IndexAfterUpdate, Life, Up
      <4>2. "writeComplete" \in Functors
        BY DEF Functors
      <4>3. Quiet("connectEstablished") /\ Quiet("connectDestroyed")
        BY <4>1, <4>2 DEF Quiet, RunsOther
      <4>4. Life'
        BY <2>3, <3>4, <4>1, <4>3, LifeKept DEF Life, Up
      <4>5. pending' \in Seq(Functors) /\ finSent' \in BOOLEAN
        BY <4>1, <4>2
      <4>6. ConnTyped'
        BY <1>0, <2>4, <3>1, <3>3, <3>4, <4>1, <4>5 DEF ConnTyped
      <4>7. IsStream(wire', <<>>, accepted) /\ Len(wire') = accepted
        BY <3>3, <3>5, AllWritten
      <4>8. Stream'
        BY <2>3, <3>1, <3>3, <3>4, <3>5, <4>1, <4>7 DEF Stream, Up
      <4> QED BY <4>4, <4>6, <4>8
    <3>6. CASE outputBuffer' # <<>>
      <4>1. UNCHANGED <<events, index, finSent>> /\ pending' = Append(pending, "handleWrite")
        BY <2>4, <3>6
      <4>2. "handleWrite" \in Functors
        BY DEF Functors
      <4>3. Quiet("connectEstablished") /\ Quiet("connectDestroyed")
        BY <4>1, <4>2 DEF Quiet, RunsOther
      <4>4. Life'
        BY <2>3, <3>4, <4>1, <4>3, LifeKept
      <4>5. pending' \in Seq(Functors)
        BY <4>1, <4>2
      <4>6. ConnTyped'
        BY <1>0, <2>4, <3>1, <3>3, <3>4, <4>1, <4>5 DEF ConnTyped
      <4>7. Stream'
        BY <1>3, <2>3, <3>1, <3>3, <3>4, <3>6, <4>1 DEF Stream, Up, isWriting
      <4> QED BY <4>4, <4>6, <4>7
    <3> QED BY <3>5, <3>6
  <2>5. CASE n = 0 /\ UNCHANGED <<connVars, serverVars, kernelVars, ghostVars, failed, pending>>
    BY <1>1, <2>5
  <2>6. CASE /\ n = -1 /\ handleClose
             /\ soError' = FALSE
             /\ UNCHANGED <<inflight, wire, finSent, peer, unread, received>>
    <3>1. /\ Life' /\ state' = "kDisconnected" /\ pending' \in Seq(Functors) /\ failed' = FALSE
          /\ basePending' \in Nat /\ downs' \in Nat /\ events' = {} /\ index' = "kDeleted"
          /\ inMap' \in BOOLEAN /\ outputBuffer' = outputBuffer
      BY <2>3, <2>6, CloseStep
    <3>2. UNCHANGED <<ioIsBase, outputBuffer, accepted, acked, ups>>
      BY <2>6 DEF handleClose
    <3>3. ConnTyped'
      BY <1>0, <2>6, <3>1, <3>2 DEF ConnTyped, States
    <3>4. Stream'
      BY <2>6, <3>1, <3>2 DEF Stream
    <3> QED BY <3>1, <3>3, <3>4
  <2> QED BY <2>1, <2>4, <2>5, <2>6
<1> QED BY <1>2, <1>3

\* The bytes of a send that are written and the bytes that are appended.
LEMMA SendParts ==
  ASSUME NEW w \in Seq(Nat), NEW o \in Seq(Nat), NEW n \in Nat, NEW len \in Nat, NEW k \in 0 .. len
  PROVE  LET d == [i \in 1 .. len |-> n + i]
         IN  /\ w \o SubSeq(d, 1, k) \in Seq(Nat)
             /\ o \o SubSeq(d, k + 1, len) \in Seq(Nat)
             /\ Len(o \o SubSeq(d, k + 1, len)) = Len(o) + (len - k)
<1> DEFINE d == [i \in 1 .. len |-> n + i]
           s == SubSeq(d, 1, k)
           t == SubSeq(d, k + 1, len)
<1>1. d \in Seq(Nat) /\ Len(d) = len /\ \A i \in 1 .. len : d[i] \in Nat
  OBVIOUS
<1> HIDE DEF d
<1>2. s \in Seq(Nat) /\ t \in Seq(Nat) /\ Len(t) = len - k
  <2>1. 1 \in Int /\ k \in Int /\ k + 1 \in Int /\ len \in Int
    OBVIOUS
  <2>2. (\A i \in 1 .. k : d[i] \in Nat) /\ (\A i \in k + 1 .. len : d[i] \in Nat)
    BY <1>1
  <2>3. s \in Seq(Nat) /\ t \in Seq(Nat) /\ Len(t) = IF k + 1 <= len THEN len - (k + 1) + 1 ELSE 0
    BY <2>1, <2>2, SubSeqProperties
  <2> QED BY <2>3
<1> HIDE DEF s, t
<1>3. w \o s \in Seq(Nat) /\ o \o t \in Seq(Nat) /\ Len(o \o t) = Len(o) + Len(t)
  BY <1>2, ConcatProperties
<1> QED BY <1>2, <1>3 DEF d, s, t

\* sendInLoop of a connection that is up, from user code: what it writes and
\* what it appends continue the stream, and it asks for EPOLLOUT when it appends.
LEMMA SendStep ==
  ASSUME TypeOK, Sched, Life, Stream, NEW len \in Nat \ {0}, state = "kConnected", pc = "user",
         sendInLoop(len, "user"), UNCHANGED <<ret, revents, batch, batchHolds>>
  PROVE  IndInv'
<1> USE DEF TypeOK
<1>0. ConnTyped /\ LoopTyped /\ Up
  BY TypeParts DEF Up
<1>1. PICK n \in (IF mayWriteDirectly THEN WriteResults(len) ELSE {0}) :
    LET nwrote     == nwroteOf(n)
        remaining  == len - nwrote
        faultError == n = -1
        oldLen     == Len(outputBuffer)
    IN  /\ accepted' = accepted + len
        /\ wire' = wire \o SubSeq(Data(len), 1, nwrote)
        /\ inflight' = inflight + nwrote
        /\ soError' = (soError /\ ~faultError)
        /\ IF remaining > 0 /\ ~faultError
           THEN /\ pending' = IF oldLen + remaining >= HighWaterMark /\ oldLen < HighWaterMark
                              THEN Append(pending, "highWaterMark") ELSE pending
                /\ outputBuffer' = outputBuffer \o SubSeq(Data(len), nwrote + 1, len)
                /\ IF isWriting THEN UNCHANGED <<events, index>>
                   ELSE UpdateChannel(events \cup {"write"})
                /\ pc' = "flush" /\ caller' = "user"
           ELSE /\ pending' = IF remaining = 0 THEN Append(pending, "writeComplete") ELSE pending
                /\ pc' = "user"
                /\ UNCHANGED <<outputBuffer, events, index, caller>>
        /\ UNCHANGED <<state, serverVars, finSent, peer, unread, received,
                       acked, ups, downs, failed>>
  BY Zenon DEF sendInLoop
<1> DEFINE k == nwroteOf(n)
<1>2. /\ UNCHANGED <<state, ioIsBase, inMap, basePending, finSent, peer, unread, received>>
      /\ UNCHANGED <<acked, ups, downs, failed>>
      /\ accepted' = accepted + len /\ inflight' = inflight + k
      /\ wire' = wire \o SubSeq(Data(len), 1, k)
  BY <1>1 DEF serverVars
<1>3. finSent = FALSE
  BY DEF Stream
<1>4. /\ n \in Int /\ k \in 0 .. len /\ inflight + k \in 0 .. SndBuf
      /\ n = -1 => peer = "rst" /\ mayWriteDirectly
      /\ ~mayWriteDirectly => n = 0
  <2>1. CASE mayWriteDirectly
    <3>1. n \in WriteResults(len) /\ len \in Nat
      BY <1>1, <2>1
    <3>2. /\ n \in Int
          /\ n \in {-1, 0} \/ (n > 0 /\ n <= len /\ inflight + n \in 0 .. SndBuf)
          /\ n = -1 => peer = "rst" \/ finSent
      BY <1>0, <3>1, WriteResultsRange, Zenon
    <3> QED BY <1>0, <1>3, <2>1, <3>2, TcpAssumption DEF TcpAssumption, nwroteOf, ConnTyped
  <2>2. CASE ~mayWriteDirectly
    <3>1. n = 0 /\ k = 0
      BY <1>1, <2>2 DEF nwroteOf
    <3> QED BY <1>0, <2>2, <3>1, TcpAssumption DEF TcpAssumption, ConnTyped
  <2> QED BY <2>1, <2>2
<1>5. n # -1 => k = n
  BY <1>1, <1>4, TcpAssumption DEF nwroteOf, mayWriteDirectly, WriteResults, TcpAssumption
<1> DEFINE d == Data(len)
           more == outputBuffer \o SubSeq(d, k + 1, len)
<1>6. d = [i \in 1 .. len |-> accepted + i]
  BY DEF Data
<1>7. /\ accepted \in Nat /\ len \in Nat /\ Len(outputBuffer) \in Nat
      /\ wire \in Seq(Nat) /\ outputBuffer \in Seq(Nat)
  BY LenProperties
<1> HIDE DEF d, k
<1>8. /\ wire \o SubSeq(d, 1, k) \in Seq(Nat) /\ more \in Seq(Nat)
      /\ Len(more) = Len(outputBuffer) + (len - k)
  BY <1>4, <1>6, <1>7, SendParts
<1>9. wire' \in Seq(Nat) /\ inflight' \in 0 .. SndBuf /\ accepted' \in Nat
  BY <1>2, <1>4, <1>7, <1>8 DEF d
<1>10. ASSUME peer # "rst" PROVE IsStream(wire', more, accepted')
  <2>1. IsStream(wire, outputBuffer, accepted)
    BY <1>10 DEF Stream
  <2>2. CASE mayWriteDirectly
    <3>1. outputBuffer = <<>>
      BY <2>2 DEF mayWriteDirectly
    <3>2. /\ SubSeq(d, k + 1, len) \in Seq(Nat)
          /\ IsStream(wire \o SubSeq(d, 1, k), SubSeq(d, k + 1, len), accepted + len)
      BY <1>4, <1>6, <1>7, <2>1, <3>1, SendDirectly
    <3>3. <<>> \o SubSeq(d, k + 1, len) = SubSeq(d, k + 1, len)
      BY <3>2, ConcatEmptySeq
    <3> QED BY <1>2, <3>1, <3>2, <3>3 DEF d
  <2>3. CASE ~mayWriteDirectly
    <3>1. k = 0 /\ 0 + 1 = 1
      BY <1>4, <2>3 DEF k, nwroteOf
    <3>2. /\ wire \o SubSeq(d, 1, 0) = wire
          /\ IsStream(wire, outputBuffer \o SubSeq(d, 1, len), accepted + len)
      BY <1>6, <1>7, <2>1, SendBuffered
    <3>3. wire' = wire
      BY <1>2, <3>1, <3>2 DEF d
    <3>4. more = outputBuffer \o SubSeq(d, 1, len)
      BY <3>1, Zenon
    <3> QED BY <1>2, <3>2, <3>3, <3>4, Zenon
  <2> QED BY <2>2, <2>3
<1>11. soError' \in BOOLEAN
  BY <1>1, Zenon
<1>12. CASE len - k > 0 /\ n # -1
  <2>1. /\ pending' = pending \/ pending' = Append(pending, "highWaterMark")
        /\ outputBuffer' = more
        /\ IF isWriting THEN UNCHANGED <<events, index>> ELSE UpdateChannel(events \cup {"write"})
        /\ pc' = "flush" /\ caller' = "user"
    BY <1>1, <1>12 DEF k, d
  <2>2. "highWaterMark" \in Functors
    BY DEF Functors
  <2>3. Quiet("connectEstablished") /\ Quiet("connectDestroyed")
    BY <2>1, <2>2 DEF Quiet
  <2>4. pending' \in Seq(Functors)
    BY <2>3, QuietKeeps
  <2>5. /\ events' = events \cup {"write"} /\ index' = "kAdded"
    BY <1>0, <2>1 DEF isWriting, UpdateChannel, IndexAfterUpdate, Life
  <2>6. Life'
    BY <1>0, <1>2, <2>1, <2>3, <2>5, LifeKept DEF Life, Up
  <2>7. outputBuffer' # <<>> /\ outputBuffer' \in Seq(Nat)
    <3>1. Len(more) > 0
      BY <1>4, <1>7, <1>8, <1>12
    <3>2. ASSUME outputBuffer' = <<>> PROVE FALSE
      <4>1. more = <<>>
        BY <2>1, <3>2
      <4> HIDE DEF more
      <4> QED BY <3>1, <4>1
    <3> QED BY <1>8, <2>1, <3>2
  <2>8. ConnTyped'
    BY <1>0, <1>2, <1>9, <1>11, <2>4, <2>5, <2>7 DEF ConnTyped
  <2>9. LoopTyped' /\ Sched'
    BY <1>0, <2>1 DEF LoopTyped, Sched, Places
  <2>10. Stream'
    BY <1>2, <1>3, <1>10, <2>1, <2>5, <2>7 DEF Stream
  <2>11. TypeOK'
    BY <2>8, <2>9 DEF LoopTyped, ConnTyped
  <2> QED BY <2>6, <2>9, <2>10, <2>11 DEF IndInv
<1>13. CASE ~(len - k > 0 /\ n # -1)
  <2>1. /\ pending' = pending \/ pending' = Append(pending, "writeComplete")
        /\ outputBuffer' = outputBuffer
        /\ UNCHANGED <<events, index, caller>>
        /\ pc' = "user"
    BY <1>1, <1>13 DEF k, d
  <2>2. "writeComplete" \in Functors
    BY DEF Functors
  <2>3. Quiet("connectEstablished") /\ Quiet("connectDestroyed")
    BY <2>1, <2>2 DEF Quiet
  <2>4. pending' \in Seq(Functors)
    BY <2>3, QuietKeeps
  <2>5. Life'
    BY <1>0, <1>2, <2>1, <2>3, LifeKept
  <2>6. ConnTyped'
    BY <1>0, <1>2, <1>9, <1>11, <2>1, <2>4 DEF ConnTyped
  <2>7. LoopTyped' /\ Sched'
    BY <1>0, <2>1 DEF LoopTyped, Sched, Places
  <2>8. peer # "rst" => more = outputBuffer
    <3> SUFFICES ASSUME peer # "rst" PROVE more = outputBuffer
      OBVIOUS
    <3>1. k = len
      BY <1>4, <1>13
    <3>2. SubSeq(d, len + 1, len) = <<>> /\ outputBuffer \o <<>> = outputBuffer
      BY <1>7, SubSeqEmpty, ConcatEmptySeq
    <3> QED BY <3>1, <3>2, Zenon
  <2>9. Stream'
    BY <1>2, <1>3, <1>10, <2>1, <2>8 DEF Stream
  <2>10. TypeOK'
    BY <2>6, <2>7 DEF LoopTyped, ConnTyped
  <2> QED BY <2>5, <2>7, <2>9, <2>10 DEF IndInv
<1> QED BY <1>12, <1>13

-----------------------------------------------------------------------------
(* Every step keeps the invariant.                                         *)

\* A new connection: connectEstablished runs at once, or is queued once.
LEMMA NewConnectionStep ==
  ASSUME IndInv, newConnection
  PROVE  IndInv'
<1> USE DEF IndInv
<1>1. state = "kConnecting" /\ ups = 0 /\ downs = 0 /\ events = {} /\ failed = FALSE
      /\ basePending = 0 /\ index = "kNew" /\ Never(pending, batch, "connectDestroyed")
      /\ Never(pending, batch, "connectEstablished") /\ pc # "handle"
  BY DEF newConnection, Life, Up
<1>2. CASE ioIsBase
  <2>1. /\ peer' = "open" /\ inMap' = TRUE /\ pc = "poll" /\ pc' = "user" /\ ret' = "swap"
        /\ state' = "kConnected" /\ events' = {"read"} /\ index' = "kAdded" /\ ups' = 1
        /\ UNCHANGED <<outputBuffer, accepted, acked, downs, caller, revents, pending>>
        /\ UNCHANGED <<batch, batchHolds, ioIsBase, basePending>>
        /\ UNCHANGED <<inflight, wire, finSent, soError, unread, received>>
    BY <1>1, <1>2 DEF newConnection, connectEstablished, UpdateChannel, IndexAfterUpdate
  <2>2. failed' = FALSE
    BY <1>1, <1>2, Zenon DEF newConnection, connectEstablished, Asserts
  <2>3. TypeOK'
    BY <2>1, <2>2 DEF TypeOK, States, Places
  <2>4. Sched'
    BY <2>1 DEF Sched
  <2>5. Life'
    BY <1>1, <2>1, <2>2 DEF Life, Up
  <2>6. Stream'
    BY <1>1, <2>1, <2>2 DEF Stream, newConnection
  <2> QED BY <2>3, <2>4, <2>5, <2>6
<1>3. CASE ~ioIsBase
  <2>1. /\ peer' = "open" /\ inMap' = TRUE /\ pending' = Append(pending, "connectEstablished")
        /\ UNCHANGED <<pc, ret, caller, revents, state, events, index, outputBuffer>>
        /\ UNCHANGED <<accepted, acked, ups, downs, failed, batch, batchHolds, ioIsBase, basePending>>
        /\ UNCHANGED <<inflight, wire, finSent, soError, unread, received>>
    BY <1>3 DEF newConnection, loopVars, connVars, ghostVars
  <2>2. "connectEstablished" \in Functors /\ pending \in Seq(Functors)
    BY DEF Functors, TypeOK
  <2>3. /\ pending' \in Seq(Functors) /\ QueuedOnce(pending', batch', "connectEstablished")
        /\ Never(pending', batch', "connectDestroyed")
    BY <1>1, <2>1, <2>2, QueueFirst, QueueOther DEF Never, QueuedOnce
  <2>4. TypeOK'
    BY <2>1, <2>3 DEF TypeOK
  <2>5. Sched'
    BY <2>1 DEF Sched
  <2>6. Life'
    BY <1>1, <2>1, <2>3 DEF Life, Up
  <2>7. Stream'
    BY <1>1, <2>1 DEF Stream, newConnection
  <2> QED BY <2>4, <2>5, <2>6, <2>7
<1> QED BY <1>2, <1>3

\* removeConnectionInLoop in the base loop passes the close on to the IO loop.
LEMMA RemoveStep ==
  ASSUME IndInv, removeConnectionInLoop
  PROVE  IndInv'
<1> USE DEF IndInv
<1>1. /\ basePending' = basePending - 1 /\ inMap' = FALSE
      /\ pending' = Append(pending, "connectDestroyed") /\ basePending > 0
      /\ UNCHANGED <<pc, ret, caller, revents, batch, batchHolds, state, events, index, outputBuffer>>
      /\ UNCHANGED <<ioIsBase, inflight, wire, finSent, peer, soError, unread, received>>
      /\ UNCHANGED <<accepted, acked, ups, downs, failed>>
  BY DEF removeConnectionInLoop, loopVars, connVars, kernelVars, ghostVars
<1>2. /\ state = "kDisconnected" /\ basePending = 1 /\ index = "kDeleted"
      /\ Never(pending, batch, "connectDestroyed") /\ Never(pending, batch, "connectEstablished")
  BY <1>1 DEF Life, Up, TypeOK, States
<1>3. "connectDestroyed" \in Functors /\ pending \in Seq(Functors)
  BY DEF Functors, TypeOK
<1>4. /\ pending' \in Seq(Functors) /\ QueuedOnce(pending', batch', "connectDestroyed")
      /\ Never(pending', batch', "connectEstablished")
  BY <1>1, <1>2, <1>3, QueueFirst, QueueOther DEF Never, QueuedOnce
<1>5. TypeOK'
  <2>1. basePending' = 0
    BY <1>1, <1>2
  <2>2. inMap' \in BOOLEAN
    BY <1>1, Zenon
  <2> QED BY <1>1, <1>4, <2>1, <2>2 DEF TypeOK
<1>6. Sched'
  BY <1>1 DEF Sched
<1>7. Life'
  BY <1>1, <1>2, <1>4 DEF Life, Up
<1>8. Stream'
  BY <1>1, <1>2 DEF Stream
<1> QED BY <1>5, <1>6, <1>7, <1>8

\* A poll leaves nothing to handle unless the connection is up: disableAll has
\* taken the channel out of epoll.
LEMMA PollStep ==
  ASSUME IndInv, Poll
  PROVE  IndInv'
<1> USE DEF IndInv
<1>1. /\ revents' = Ready /\ pc' = (IF Ready = {} THEN "swap" ELSE "handle") /\ pc = "poll"
      /\ UNCHANGED <<ret, caller, pending, batch, batchHolds, state, events, index, outputBuffer>>
      /\ UNCHANGED <<ioIsBase, inMap, basePending>>
      /\ UNCHANGED <<inflight, wire, finSent, peer, soError, unread, received>>
      /\ UNCHANGED <<accepted, acked, ups, downs, failed>>
  BY DEF Poll, queueVars, connVars, serverVars, kernelVars, ghostVars
<1>2. Ready \subseteq {"IN", "OUT", "HUP", "ERR"}
  BY DEF Ready
<1>3. pc' = "handle" => Up
  BY <1>1 DEF Ready, Life, Up, TypeOK, States
<1>4. Quiet("connectEstablished") /\ Quiet("connectDestroyed")
  BY <1>1 DEF Quiet
<1>5. TypeOK'
  BY <1>1, <1>2 DEF TypeOK, Places
<1>6. Sched'
  BY <1>1 DEF Sched
<1>7. Life'
  BY <1>1, <1>3, <1>4, LifeKept
<1>8. Stream'
  BY <1>1 DEF Stream
<1> QED BY <1>5, <1>6, <1>7, <1>8

\* Channel::handleEvent up to the read callback.
LEMMA HandleInputStep ==
  ASSUME IndInv, HandleInput
  PROVE  IndInv'
<1> USE DEF IndInv
<1>1. /\ UNCHANGED <<caller, revents, batch, batchHolds, inflight, wire, finSent, peer, received>>
      /\ pc = "handle" /\ pc' \in {"user", "write"} /\ ret' \in {ret, "write"}
      /\ pc' = "user" => ret' = "write"
      /\ soError' \in BOOLEAN /\ unread' \in BOOLEAN
  <2>1. soError' \in BOOLEAN /\ unread' \in BOOLEAN
    BY Zenon DEF HandleInput, TypeOK
  <2> QED BY <2>1 DEF HandleInput
<1>2. Up /\ batch = <<>> /\ RunsOther
  BY <1>1 DEF Life, Sched, RunsOther
<1>3. Sched'
  BY <1>1, <1>2 DEF Sched
<1>4. CASE UNCHANGED <<pending, connVars, serverVars, ghostVars, failed>>
  <2>1. /\ UNCHANGED <<pending, state, events, index, outputBuffer, ioIsBase, inMap, basePending>>
        /\ UNCHANGED <<accepted, acked, ups, downs, failed>>
    BY <1>4 DEF connVars, serverVars, ghostVars
  <2>2. Quiet("connectEstablished") /\ Quiet("connectDestroyed")
    BY <1>1, <2>1 DEF Quiet
  <2>3. TypeOK'
    BY <1>1, <2>1 DEF TypeOK, Places
  <2>4. Life'
    BY <1>1, <2>1, <2>2, LifeKept
  <2>5. Stream'
    BY <1>1, <2>1 DEF Stream
  <2> QED BY <1>3, <2>3, <2>4, <2>5
<1>5. CASE handleClose
  <2>1. /\ Life' /\ state' = "kDisconnected" /\ pending' \in Seq(Functors) /\ failed' = FALSE
        /\ basePending' \in Nat /\ downs' \in Nat /\ events' = {} /\ index' = "kDeleted"
        /\ inMap' \in BOOLEAN /\ outputBuffer' = outputBuffer
    BY <1>1, <1>2, <1>5, CloseStep
  <2>2. UNCHANGED <<ioIsBase, accepted, acked, ups>>
    BY <1>5 DEF handleClose
  <2>3. TypeOK'
    BY <1>1, <2>1, <2>2 DEF TypeOK, Places, States
  <2>4. Stream'
    BY <1>1, <2>1, <2>2 DEF Stream
  <2> QED BY <1>3, <2>1, <2>3, <2>4
<1> QED BY <1>4, <1>5, Zenon DEF HandleInput

\* The write callback, called by the loop, by sendInLoop or as a functor.
LEMMA HandleWriteStep ==
  ASSUME IndInv, handleWrite, RunsOther, pc' # "handle", LoopTyped', Sched'
  PROVE  IndInv'
<1>1. ConnTyped' /\ Life' /\ Stream'
  BY WriteStep DEF IndInv
<1>2. TypeOK'
  BY <1>1 DEF LoopTyped, ConnTyped, TypeOK
<1> QED BY <1>1, <1>2 DEF IndInv

\* Steps of the loop that leave the connection alone.
LEMMA IdleStep ==
  ASSUME IndInv, UNCHANGED <<pending, connVars, serverVars, kernelVars, accepted, ups, downs, failed>>,
         acked' \in Nat, RunsOther, pc' # "handle", LoopTyped', Sched'
  PROVE  IndInv'
<1> USE DEF IndInv
<1>1. /\ UNCHANGED <<pending, state, events, index, outputBuffer, ioIsBase, inMap, basePending>>
      /\ UNCHANGED <<inflight, wire, finSent, peer, soError, unread, received>>
      /\ UNCHANGED <<accepted, ups, downs, failed>>
  BY DEF connVars, serverVars, kernelVars
<1>2. Quiet("connectEstablished") /\ Quiet("connectDestroyed")
  BY <1>1 DEF Quiet, RunsOther
<1>3. TypeOK'
  BY <1>1 DEF LoopTyped, TypeOK
<1>4. Life'
  BY <1>1, <1>2, LifeKept
<1>5. Stream'
  BY <1>1 DEF Stream
<1> QED BY <1>3, <1>4, <1>5

\* doPendingFunctors swaps the vectors: what waited now runs.
LEMMA SwapStep ==
  ASSUME IndInv, Swap
  PROVE  IndInv'
<1> USE DEF IndInv
<1>1. /\ batch' = pending /\ pending' = <<>> /\ pc = "swap" /\ pc' = "functors"
      /\ UNCHANGED <<ret, caller, revents, state, events, index, outputBuffer>>
      /\ UNCHANGED <<ioIsBase, inMap, basePending>>
      /\ UNCHANGED <<inflight, wire, finSent, peer, soError, unread, received>>
      /\ UNCHANGED <<accepted, acked, ups, downs, failed>>
  BY DEF Swap, connVars, serverVars, kernelVars, ghostVars
<1>2. batchHolds' \in BOOLEAN
  BY Zenon DEF Swap
<1>3. batch = <<>>
  BY <1>1 DEF Sched
<1>4. ASSUME NEW f
      PROVE  /\ Never(pending, batch, f) => Never(pending', batch', f)
             /\ QueuedOnce(pending, batch, f) => QueuedOnce(pending', batch', f)
  BY <1>1, <1>3, EmptyQueue, OnceNotEmpty DEF Never, QueuedOnce
<1>5. TypeOK'
  BY <1>1, <1>2 DEF TypeOK, Places
<1>6. Sched'
  BY <1>1 DEF Sched
<1>7. Life'
  BY <1>1, <1>4 DEF Life, Up
<1>8. Stream'
  BY <1>1 DEF Stream
<1> QED BY <1>5, <1>6, <1>7, <1>8

\* connectEstablished as a functor: it is the only one, and finds kConnecting.
LEMMA EstablishedStep ==
  ASSUME IndInv, RunConnectEstablished
  PROVE  IndInv'
<1> USE DEF IndInv
<1>1. /\ pc' = "user" /\ ret' = "functors"
      /\ state' = "kConnected" /\ UpdateChannel(events \cup {"read"}) /\ ups' = ups + 1
      /\ UNCHANGED <<outputBuffer, accepted, acked, downs, caller, revents, pending, batchHolds>>
      /\ UNCHANGED <<ioIsBase, inMap, basePending>>
      /\ UNCHANGED <<inflight, wire, finSent, peer, soError, unread, received>>
      /\ pc = "functors" /\ batch # <<>> /\ Head(batch) = "connectEstablished" /\ batch' = Tail(batch)
  BY DEF RunConnectEstablished, connectEstablished, Next_, serverVars, kernelVars
<1>2. pending \in Seq(Functors) /\ batch \in Seq(Functors)
  BY DEF TypeOK
<1>3. ~Lacks(batch, "connectEstablished")
  BY <1>1, <1>2, RunFirst, Zenon
<1>4. /\ state = "kConnecting" /\ peer # "absent" /\ inMap /\ ups = 0 /\ downs = 0 /\ basePending = 0
      /\ QueuedOnce(pending, batch, "connectEstablished") /\ Never(pending, batch, "connectDestroyed")
      /\ events = {} /\ index = "kNew" /\ failed = FALSE
  BY <1>3 DEF Life, Never
<1>5. failed' = FALSE
  BY <1>4, Zenon DEF RunConnectEstablished, connectEstablished, Asserts
<1>6. /\ events' = {"read"} /\ index' = "kAdded" /\ ups' = 1
  BY <1>1, <1>4 DEF UpdateChannel, IndexAfterUpdate
<1>7. batch' \in Seq(Functors) /\ Never(pending', batch', "connectEstablished")
  <2>1. Tail(batch) \in Seq(Functors) /\ Lacks(Tail(batch), "connectEstablished")
    <3>1. Once(batch, "connectEstablished")
      BY <1>3, <1>4 DEF QueuedOnce
    <3> QED BY <1>1, <1>2, <3>1, RunFirst, Zenon
  <2> QED BY <1>1, <1>3, <1>4, <2>1 DEF Never, QueuedOnce
<1>8. Never(pending', batch', "connectDestroyed")
  <2>1. Lacks(Tail(batch), "connectDestroyed")
    <3>1. Lacks(batch, "connectDestroyed")
      BY <1>4 DEF Never
    <3> QED BY <1>1, <1>2, <3>1, RunFirst, Zenon
  <2> QED BY <1>1, <1>4, <2>1 DEF Never
<1>9. TypeOK'
  <2>1. failed' \in BOOLEAN /\ pc' \in Places /\ state' \in States
    BY <1>1, <1>5 DEF Places, States
  <2>2. events' \subseteq {"read", "write"} /\ index' \in {"kNew", "kAdded", "kDeleted"} /\ ups' \in Nat
    BY <1>6
  <2> QED BY <1>1, <1>7, <2>1, <2>2 DEF TypeOK
<1>10. Sched'
  BY <1>1 DEF Sched
<1>11. Life'
  BY <1>1, <1>4, <1>5, <1>6, <1>7, <1>8 DEF Life, Up
<1>12. Stream'
  BY <1>1, <1>4, <1>6 DEF Stream
<1> QED BY <1>9, <1>10, <1>11, <1>12

\* connectDestroyed as a functor: it runs once, after the close, and finds a
\* channel without events that the poller knows.
LEMMA DestroyedStep ==
  ASSUME IndInv, RunConnectDestroyed
  PROVE  IndInv'
<1> USE DEF IndInv
<1>1. /\ connectDestroyed
      /\ UNCHANGED <<pc, ret, caller, revents, pending, batchHolds, ioIsBase, inMap, basePending>>
      /\ UNCHANGED <<inflight, wire, finSent, peer, soError, unread, received>>
      /\ pc = "functors" /\ batch # <<>> /\ Head(batch) = "connectDestroyed" /\ batch' = Tail(batch)
  BY DEF RunConnectDestroyed, Next_, loopVars, serverVars, kernelVars
<1>2. pending \in Seq(Functors) /\ batch \in Seq(Functors)
  BY DEF TypeOK
<1>3. ~Lacks(batch, "connectDestroyed")
  BY <1>1, <1>2, RunFirst, Zenon
<1>4. /\ state = "kDisconnected" /\ events = {} /\ index = "kDeleted" /\ basePending = 0
      /\ ups = 1 /\ downs = 1 /\ QueuedOnce(pending, batch, "connectDestroyed") /\ failed = FALSE
      /\ Never(pending, batch, "connectEstablished") /\ peer # "absent"
  BY <1>3 DEF Life, Up, Never, TypeOK, States
<1>5. failed' = FALSE
  <2>1. (IF state = "kConnected" THEN {} ELSE events) = {} /\ index # "kNew"
    BY <1>4
  <2> QED BY <1>1, <1>4, <2>1, Zenon DEF connectDestroyed, Asserts
<1>6. /\ state' = "kDisconnected" /\ events' = {} /\ index' = "kNew" /\ downs' = 1
      /\ UNCHANGED <<outputBuffer, accepted, acked, ups>>
  BY <1>1, <1>4 DEF connectDestroyed
<1>7. batch' \in Seq(Functors) /\ Never(pending', batch', "connectDestroyed")
  <2>1. Tail(batch) \in Seq(Functors) /\ Lacks(Tail(batch), "connectDestroyed")
    <3>1. Once(batch, "connectDestroyed")
      BY <1>3, <1>4 DEF QueuedOnce
    <3> QED BY <1>1, <1>2, <3>1, RunFirst, Zenon
  <2> QED BY <1>1, <1>3, <1>4, <2>1 DEF Never, QueuedOnce
<1>8. Never(pending', batch', "connectEstablished")
  <2>1. Lacks(Tail(batch), "connectEstablished")
    <3>1. Lacks(batch, "connectEstablished")
      BY <1>4 DEF Never
    <3> QED BY <1>1, <1>2, <3>1, RunFirst, Zenon
  <2> QED BY <1>1, <1>4, <2>1 DEF Never
<1>9. TypeOK'
  BY <1>1, <1>4, <1>5, <1>6, <1>7, ZenonT(60) DEF TypeOK, States
<1>10. Sched'
  BY <1>1 DEF Sched
<1>11. Life'
  BY <1>1, <1>4, <1>5, <1>6, <1>7, <1>8 DEF Life, Up
<1>12. Stream'
  BY <1>1, <1>4, <1>6 DEF Stream
<1> QED BY <1>9, <1>10, <1>11, <1>12

\* forceCloseInLoop as a functor.
LEMMA ForceCloseStep ==
  ASSUME IndInv, RunForceClose
  PROVE  IndInv'
<1> USE DEF IndInv
<1>1. /\ UNCHANGED <<pc, ret, caller, revents, batchHolds>>
      /\ UNCHANGED <<inflight, wire, finSent, peer, soError, unread, received>>
      /\ pc = "functors" /\ batch # <<>> /\ Head(batch) = "forceCloseInLoop" /\ batch' = Tail(batch)
  BY DEF RunForceClose, Next_, loopVars, kernelVars
<1>2. RunsOther
  BY <1>1 DEF RunsOther
<1>3. Tail(batch) \in Seq(Functors)
  BY <1>1, RunFirst, Zenon DEF TypeOK
<1>4. Sched' /\ batch' \in Seq(Functors)
  BY <1>1, <1>3 DEF Sched
<1>5. CASE Up
  <2>0. handleClose
    BY <1>5 DEF RunForceClose, forceCloseInLoop, Up
  <2>1. /\ Life' /\ state' = "kDisconnected" /\ pending' \in Seq(Functors) /\ failed' = FALSE
        /\ basePending' \in Nat /\ downs' \in Nat /\ events' = {} /\ index' = "kDeleted"
        /\ inMap' \in BOOLEAN /\ outputBuffer' = outputBuffer
    BY <1>1, <1>2, <1>5, <2>0, CloseStep
  <2>2. UNCHANGED <<ioIsBase, accepted, acked, ups>>
    BY <2>0 DEF handleClose
  <2>3. TypeOK'
    BY <1>1, <1>4, <2>1, <2>2, ZenonT(60) DEF TypeOK, States
  <2>4. Stream'
    BY <1>1, <2>1, <2>2 DEF Stream
  <2> QED BY <1>4, <2>1, <2>3, <2>4
<1>6. CASE ~Up
  <2>0. UNCHANGED <<pending, connVars, serverVars, ghostVars, failed>>
    BY <1>6 DEF RunForceClose, forceCloseInLoop, Up
  <2>1. /\ UNCHANGED <<pending, state, events, index, outputBuffer, ioIsBase, inMap, basePending>>
        /\ UNCHANGED <<accepted, acked, ups, downs, failed>>
    BY <2>0 DEF connVars, serverVars, ghostVars
  <2>2. Quiet("connectEstablished") /\ Quiet("connectDestroyed")
    BY <1>2, <2>1 DEF Quiet, RunsOther
  <2>3. TypeOK'
    BY <1>1, <1>4, <2>1 DEF TypeOK
  <2>4. Life'
    BY <1>1, <2>1, <2>2, LifeKept
  <2>5. Stream'
    BY <1>1, <2>1 DEF Stream
  <2> QED BY <1>4, <2>3, <2>4, <2>5
<1> QED BY <1>5, <1>6

\* shutdown half-closes at once only when nothing is buffered.
LEMMA ShutdownStep ==
  ASSUME IndInv, shutdown
  PROVE  IndInv'
<1> USE DEF IndInv
<1>1. /\ pc = "user" /\ state = "kConnected" /\ state' = "kDisconnecting"
      /\ UNCHANGED <<pc, ret, caller, revents, pending, batch, batchHolds>>
      /\ UNCHANGED <<events, index, outputBuffer, ioIsBase, inMap, basePending>>
      /\ UNCHANGED <<accepted, acked, ups, downs, failed>>
      /\ UNCHANGED <<inflight, wire, peer, soError, unread, received>>
  BY DEF shutdown, loopVars, queueVars, serverVars, ghostVars
<1>2. finSent' \in BOOLEAN /\ (finSent' => finSent \/ outputBuffer = <<>>)
  BY <1>1 DEF shutdown, shutdownInLoop, isWriting, TypeOK, Stream
<1>3. outputBuffer = <<>> /\ peer # "rst" => Len(wire) = accepted
  BY <1>1, AllWritten DEF Stream, TypeOK
<1>4. TypeOK'
  BY <1>1, <1>2 DEF TypeOK, States
<1>5. Sched'
  BY <1>1 DEF Sched
<1>6. Life'
  BY <1>1 DEF Life, Up
<1>7. Stream'
  BY <1>1, <1>2, <1>3 DEF Stream
<1> QED BY <1>4, <1>5, <1>6, <1>7

\* forceClose only queues.
LEMMA ForceCloseCallStep ==
  ASSUME IndInv, forceClose
  PROVE  IndInv'
<1> USE DEF IndInv
<1>1. /\ pc = "user" /\ Up /\ state' = "kDisconnecting"
      /\ pending' = Append(pending, "forceCloseInLoop")
      /\ UNCHANGED <<pc, ret, caller, revents, batch, batchHolds>>
      /\ UNCHANGED <<events, index, outputBuffer, ioIsBase, inMap, basePending>>
      /\ UNCHANGED <<inflight, wire, finSent, peer, soError, unread, received>>
      /\ UNCHANGED <<accepted, acked, ups, downs, failed>>
  BY DEF forceClose, Up, loopVars, serverVars, kernelVars, ghostVars
<1>2. "forceCloseInLoop" \in Functors /\ pending \in Seq(Functors) /\ batch \in Seq(Functors)
  BY DEF Functors, TypeOK
<1>3. Quiet("connectEstablished") /\ Quiet("connectDestroyed")
  BY <1>1, <1>2 DEF Quiet
<1>4. /\ pending' \in Seq(Functors)
      /\ \A f \in {"connectEstablished", "connectDestroyed"} :
           Never(pending, batch, f) => Never(pending', batch', f)
  BY <1>2, <1>3, QuietKeeps
<1>5. TypeOK'
  BY <1>1, <1>4 DEF TypeOK, States
<1>6. Sched'
  BY <1>1 DEF Sched
<1>7. Life'
  BY <1>1, <1>4 DEF Life, Up
<1>8. Stream'
  BY <1>1 DEF Stream, Up
<1> QED BY <1>5, <1>6, <1>7, <1>8

\* The peer and the kernel.
LEMMA PeerStep ==
  ASSUME IndInv, PeerSends \/ PeerReads \/ PeerCloses \/ PeerResets
  PROVE  IndInv'
<1> USE DEF IndInv
<1>1. /\ UNCHANGED <<pc, ret, caller, revents, pending, batch, batchHolds>>
      /\ UNCHANGED <<state, events, index, outputBuffer, ioIsBase, inMap, basePending>>
      /\ UNCHANGED <<accepted, acked, ups, downs, failed, wire, finSent>>
  BY DEF PeerSends, PeerReads, PeerCloses, PeerResets, loopVars, queueVars, connVars, serverVars, ghostVars
<1>2. /\ received' \in Nat /\ inflight' \in 0 .. SndBuf
  BY TcpAssumption DEF PeerSends, PeerReads, PeerCloses, PeerResets, TypeOK, TcpAssumption
<1>3. unread' \in BOOLEAN /\ soError' \in BOOLEAN
  BY Zenon DEF PeerSends, PeerReads, PeerCloses, PeerResets, TypeOK
<1>4. /\ peer' \in {"absent", "open", "fin", "rst"} /\ (peer' = "absent" <=> peer = "absent")
      /\ peer = "rst" => peer' = "rst"
  BY DEF PeerSends, PeerReads, PeerCloses, PeerResets, TypeOK
<1>5. Quiet("connectEstablished") /\ Quiet("connectDestroyed")
  BY <1>1 DEF Quiet
<1>6. TypeOK'
  BY <1>1, <1>2, <1>3, <1>4 DEF TypeOK
<1>7. Sched'
  BY <1>1 DEF Sched
<1>8. Life'
  <2>1. pc' = "handle" => Up
    BY <1>1 DEF Life
  <2> QED BY <1>1, <1>4, <1>5, <2>1, LifeKept
<1>9. Stream'
  BY <1>1, <1>4 DEF Stream
<1> QED BY <1>6, <1>7, <1>8, <1>9

\* Init establishes the invariant.
LEMMA InitHolds == Init => IndInv
<1> SUFFICES ASSUME Init PROVE IndInv
  OBVIOUS
<1> USE DEF Init
<1>1. TypeOK
  <2>1. <<>> \in Seq(Functors) /\ <<>> \in Seq(Nat) /\ 0 \in 0 .. SndBuf
    BY EmptySeq, TcpAssumption DEF TcpAssumption
  <2> QED BY <2>1 DEF TypeOK, Places, States
<1>2. Sched
  BY DEF Sched
<1>3. Life
  BY EmptyQueue DEF Life, Up, Never
<1>4. Stream
  <2>1. IsStream(<<>>, <<>>, 0)
    <3>1. <<>> \o <<>> = <<>>
      BY ConcatEmptySeq, EmptySeq
    <3>2. [i \in 1 .. 0 |-> i] = <<>>
      OBVIOUS
    <3> QED BY <3>1, <3>2, Zenon DEF IsStream
  <2> QED BY <2>1 DEF Stream
<1> QED BY <1>1, <1>2, <1>3, <1>4 DEF IndInv

\* One case per action.
LEMMA NextStep == IndInv /\ [Next]_vars => IndInv'
<1> SUFFICES ASSUME IndInv, [Next]_vars PROVE IndInv'
  OBVIOUS
<1>0. LoopTyped /\ TypeOK /\ Sched /\ Life
  BY TypeParts DEF IndInv
<1>1. CASE newConnection
  BY <1>1, NewConnectionStep
<1>2. CASE removeConnectionInLoop
  BY <1>2, RemoveStep
<1>3. CASE Poll
  BY <1>3, PollStep
<1>4. CASE HandleInput
  BY <1>4, HandleInputStep
<1>5. CASE HandleOutput
  <2>1. /\ pc = "write" /\ pc' = "swap" /\ UNCHANGED <<ret, caller, revents, batch, batchHolds>>
    BY <1>5 DEF HandleOutput
  <2>2. LoopTyped' /\ Sched' /\ RunsOther /\ pc' # "handle"
    BY <1>0, <2>1 DEF LoopTyped, Sched, RunsOther, Places
  <2>3. CASE handleWrite
    BY <2>2, <2>3, HandleWriteStep
  <2>4. CASE UNCHANGED <<pending, connVars, serverVars, kernelVars, ghostVars, failed>>
    <3>1. UNCHANGED <<pending, connVars, serverVars, kernelVars, accepted, ups, downs, failed>>
          /\ acked' \in Nat
      BY <1>0, <2>4 DEF ghostVars, TypeOK
    <3> QED BY <2>2, <3>1, IdleStep
  <2> QED BY <1>5, <2>3, <2>4 DEF HandleOutput
<1>6. CASE Swap
  BY <1>6, SwapStep
<1>7. CASE BatchDone
  <2>1. /\ pc' = "poll" /\ batchHolds' = FALSE /\ batch = <<>> /\ UNCHANGED <<ret, caller, revents, batch>>
        /\ UNCHANGED <<pending, connVars, serverVars, kernelVars, accepted, ups, downs, failed>>
        /\ acked' \in Nat
    BY <1>0, <1>7 DEF BatchDone, ghostVars, TypeOK
  <2>2. LoopTyped' /\ Sched' /\ RunsOther /\ pc' # "handle"
    BY <1>0, <2>1 DEF LoopTyped, Sched, RunsOther, Places
  <2> QED BY <2>1, <2>2, IdleStep
<1>8. CASE RunConnectEstablished
  BY <1>8, EstablishedStep
<1>9. CASE RunConnectDestroyed
  BY <1>9, DestroyedStep
<1>10. CASE RunHandleWrite
  <2>1. /\ handleWrite /\ UNCHANGED <<pc, ret, caller, revents, batchHolds>> /\ pc = "functors"
        /\ batch # <<>> /\ Head(batch) = "handleWrite" /\ batch' = Tail(batch)
    BY <1>10 DEF RunHandleWrite, Next_, loopVars
  <2>2. Tail(batch) \in Seq(Functors)
    BY <1>0, <2>1, RunFirst, Zenon DEF TypeOK
  <2>3. LoopTyped' /\ Sched' /\ RunsOther /\ pc' # "handle"
    BY <1>0, <2>1, <2>2 DEF LoopTyped, Sched, RunsOther
  <2> QED BY <2>1, <2>3, HandleWriteStep
<1>11. CASE RunForceClose
  BY <1>11, ForceCloseStep
<1>12. CASE RunUserCallback
  <2>1. PICK f \in {"writeComplete", "highWaterMark"} :
          Next_(f) /\ acked' = IF f = "writeComplete" THEN Len(wire) ELSE acked
    BY <1>12 DEF RunUserCallback
  <2>2. /\ pc' = "user" /\ ret' = "functors" /\ UNCHANGED <<caller, revents, batchHolds>>
        /\ UNCHANGED <<pending, connVars, serverVars, kernelVars, accepted, ups, downs, failed>>
        /\ batch # <<>> /\ Head(batch) = f /\ batch' = Tail(batch)
    BY <1>12, <2>1 DEF RunUserCallback, Next_
  <2>3. acked' \in Nat
    BY <1>0, <2>1, LenProperties DEF TypeOK
  <2>4. Tail(batch) \in Seq(Functors)
    BY <1>0, <2>2, RunFirst, Zenon DEF TypeOK
  <2>5. LoopTyped' /\ Sched' /\ RunsOther /\ pc' # "handle"
    BY <1>0, <2>2, <2>4 DEF LoopTyped, Sched, RunsOther, Places
  <2> QED BY <2>2, <2>3, <2>5, IdleStep
<1>13. CASE Flush
  <2>1. /\ handleWrite /\ pc = "flush" /\ pc' = caller
        /\ UNCHANGED <<ret, caller, revents, batch, batchHolds>>
    BY <1>13 DEF Flush
  <2>2. LoopTyped' /\ Sched' /\ RunsOther /\ pc' # "handle"
    BY <1>0, <2>1 DEF LoopTyped, Sched, RunsOther, Places
  <2> QED BY <2>1, <2>2, HandleWriteStep
<1>14. CASE UserReturns
  <2>1. /\ pc = "user" /\ pc' = ret /\ UNCHANGED <<ret, caller, revents, batch, batchHolds>>
        /\ UNCHANGED <<pending, connVars, serverVars, kernelVars, accepted, ups, downs, failed>>
        /\ acked' \in Nat
    BY <1>0, <1>14 DEF UserReturns, queueVars, ghostVars, TypeOK
  <2>2. LoopTyped' /\ Sched' /\ RunsOther /\ pc' # "handle"
    BY <1>0, <2>1 DEF LoopTyped, Sched, RunsOther, Places
  <2> QED BY <2>1, <2>2, IdleStep
<1>15. CASE send
  <2>1. PICK len \in SendLens : sendInLoop(len, "user")
    BY <1>15 DEF send
  <2>2. len \in Nat \ {0}
    BY TcpAssumption DEF TcpAssumption
  <2>3. pc = "user" /\ state = "kConnected" /\ UNCHANGED <<ret, revents, batch, batchHolds>>
    BY <1>15 DEF send
  <2>4. Stream
    BY DEF IndInv
  <2> QED BY <1>0, <2>1, <2>2, <2>3, <2>4, SendStep
<1>16. CASE shutdown
  BY <1>16, ShutdownStep
<1>17. CASE forceClose
  BY <1>17, ForceCloseCallStep
<1>18. CASE PeerSends \/ PeerReads \/ PeerCloses \/ PeerResets
  BY <1>18, PeerStep
<1>19. CASE UNCHANGED vars
  BY <1>19 DEF IndInv, TypeOK, Sched, Life, Up, Stream, vars, loopVars, queueVars, connVars,
               serverVars, kernelVars, ghostVars
<1> QED BY <1>1, <1>2, <1>3, <1>4, <1>5, <1>6, <1>7, <1>8, <1>9, <1>10, <1>11, <1>12, <1>13,
           <1>14, <1>15, <1>16, <1>17, <1>18, <1>19 DEF Next, LoopStep

-----------------------------------------------------------------------------
(* The theorems.                                                           *)

\* The inductive invariant holds in every behaviour.
THEOREM Invariance == Spec => []IndInv
BY InitHolds, NextStep, PTL DEF Spec

\* Every variable keeps its type.
THEOREM TypeCorrect == Spec => []TypeOK
<1>1. IndInv => TypeOK
  BY DEF IndInv
<1> QED BY <1>1, Invariance, PTL

\* No assert of TcpConnection, Channel or EPollPoller fails, whatever the order
\* of close, forceClose, shutdown, queued functors and the peer's events.
THEOREM AssertsNeverFail == Spec => []AssertsHold
<1>1. IndInv => AssertsHold
  BY DEF IndInv, Life, AssertsHold
<1> QED BY <1>1, Invariance, PTL

\* sendInLoop and handleWrite never lose, repeat or reorder a byte of a
\* connection that is up.
THEOREM StreamStaysIntact == Spec => []StreamIntact
<1>1. IndInv => StreamIntact
  BY DEF IndInv, Stream, IsStream, StreamIntact
<1> QED BY <1>1, Invariance, PTL

\* EPOLLOUT is asked for exactly while output is buffered.
THEOREM WritingMeansBuffered == Spec => []WritingIffBuffered
<1>1. IndInv => WritingIffBuffered
  BY DEF IndInv, Stream, WritingIffBuffered, isWriting
<1> QED BY <1>1, Invariance, PTL

\* shutdown half-closes behind the last byte.
THEOREM FinComesLast == Spec => []FinAfterLastByte
<1>1. IndInv => FinAfterLastByte
  BY DEF IndInv, Stream, FinAfterLastByte
<1> QED BY <1>1, Invariance, PTL

\* The connection is destroyed only after its channel has left the poller and
\* the user was told that it is down.
THEOREM DestroyedUnregistered == Spec => []RegisteredIsOwned
<1>1. ASSUME IndInv PROVE RegisteredIsOwned
  <2>1. ASSUME ~Owned PROVE index = "kNew" /\ ups = downs
    <3>1. /\ ~inMap /\ ~(basePending > 0) /\ pending = <<>> /\ batch = <<>>
      BY <2>1 DEF Owned
    <3>2. ~QueuedOnce(pending, batch, "connectDestroyed")
      BY <3>1, OnceNotEmpty DEF QueuedOnce
    <3> QED BY <1>1, <3>1, <3>2 DEF IndInv, Life, Up, TypeOK, States
  <2> QED BY <2>1 DEF RegisteredIsOwned
<1> QED BY <1>1, Invariance, PTL

=============================================================================
