---------------------------- MODULE DownloadProofs ----------------------------
(***************************************************************************)
(* Proofs about Download, for files of any size, any size of the chunks    *)
(* and of the kernel's buffer, and any number of requests.  The invariant  *)
(* of the connection, with its lemmas, is that of TcpConnectionProofs.     *)
(***************************************************************************)
EXTENDS Download, TcpConnectionProofs

-----------------------------------------------------------------------------
(* The inductive invariant.                                                *)

Context == [start : Nat, size : Nat, pos : Nat, complete : BOOLEAN]
Reply   == [kind : {"get", "answer"}, ctx : Context, close : BOOLEAN]

\* A context reads from start to size and is complete only at the end.
Reading(c) == c.start <= c.pos /\ c.pos <= c.size /\ (c.complete => c.pos = c.size)

ReplyTyped ==
  /\ ioIsBase
  /\ replies \in Seq(Reply)
  /\ \A k \in 1 .. Len(replies) : Reading(replies[k].ctx)
  /\ stream \in Seq(Nat \X Nat)
  /\ accepted = Len(stream)
  /\ callback \in 0 .. Len(replies)
  /\ bound \in Seq(0 .. Len(replies))
  /\ Len(bound) = Len(batch) + Len(pending)
  /\ Never(pending, batch, "highWaterMark")
  /\ state = "kConnecting" => replies = <<>>

\* The calls user code is about to make: of a header and perhaps a shutdown, of
\* a chunk that ends where the context is, or of a shutdown.
HeaderDue == /\ replies # <<>>
             /\ replies[Len(replies)].ctx.pos = replies[Len(replies)].ctx.start
             /\ \/ todo = <<Send(Header(Len(replies)))>>
                \/ todo = <<Send(Header(Len(replies))), Shutdown>>
ChunkOf(calls, reps, k, n) ==
  /\ k \in 1 .. Len(reps) /\ n \in 1 .. ChunkSize
  /\ reps[k].ctx.start + n <= reps[k].ctx.pos
  /\ calls = <<Send(Items(k, reps[k].ctx.pos - n, n))>>
ChunkDue(k, n) == ChunkOf(todo, replies, k, n)

Calls ==
  /\ pc \notin {"user", "flush"} => todo = <<>>
  /\ pc = "flush" => todo = <<>> \/ todo = <<Shutdown>>
  /\ todo = <<>> \/ todo = <<Shutdown>> \/ HeaderDue \/ \E k, n \in Nat : ChunkDue(k, n)

\* The position up to which reply k was passed to sendInLoop; -1 before its header.
UptoOf(calls, reps, k) ==
  IF calls # <<>> /\ Head(calls).op = "send" /\ Head(calls).bytes[1][1] = k
  THEN Head(calls).bytes[1][2] - 1
  ELSE reps[k].ctx.pos

Upto(k) == UptoOf(todo, replies, k)

\* The last item of a reply that was sent up to position p.
ItemAt(c, p) == IF p = c.start THEN 0 ELSE p

SentUpto(k) ==
  IF Upto(k) = -1
  THEN HasNone(stream, Len(stream), k)
  ELSE EndsWith(stream, Len(stream), k, ItemAt(replies[k].ctx, Upto(k)))

\* What was passed to sendInLoop is in order, and the kernel took a prefix of it.
Sent ==
  /\ state = "kConnected" => \A k \in 1 .. Len(replies) : SentUpto(k)
  /\ \A i \in 1 .. Len(stream) :
       /\ stream[i][1] \in 1 .. Len(replies)
       /\ MayFollow(stream, i - 1, stream[i][1], stream[i][2])
  /\ Len(wire) <= Len(stream)
  /\ \A i \in 1 .. Len(wire) : wire[i] = i

\* Before the first request nothing is sent and nothing is queued.
Fresh ==
  /\ stream = <<>> /\ outputBuffer = <<>> /\ todo = <<>> /\ ~finSent
  /\ state # "kDisconnecting"
  /\ Never(pending, batch, "writeComplete")
  /\ state # "kDisconnected" => pending = <<>> /\ batch = <<>>

\* While the only request is a download, one thing at a time goes on: a call is
\* about to be made, or bytes are buffered, or a write-complete functor waits.
\* When the file is complete none does but the shutdown.
Alone(c) ==
  /\ callback = 1 /\ bound \in Seq({1})
  /\ \A i \in 1 .. Len(stream) : stream[i] = <<1, ItemAt(c, c.start + i - 1)>>
  /\ state = "kConnected" =>
       Len(stream) = IF Upto(1) = -1 THEN 0 ELSE 1 + Upto(1) - c.start
  /\ Len(outputBuffer) <= ChunkSize
  /\ Len(todo) <= 1
  /\ todo # <<>> => outputBuffer = <<>>
  /\ todo # <<>> \/ outputBuffer # <<>> => Never(pending, batch, "writeComplete")
  /\ Never(pending, batch, "writeComplete") \/ QueuedOnce(pending, batch, "writeComplete")
  /\ todo = <<Shutdown>> => c.complete
  /\ c.complete => /\ outputBuffer = <<>> /\ (todo = <<>> \/ todo = <<Shutdown>>)
                   /\ Never(pending, batch, "writeComplete")
  /\ finSent \/ state = "kDisconnecting" => c.complete /\ Len(stream) = 1 + c.size - c.start

Sole ==
  /\ replies = <<>> => Fresh
  /\ SoleDownload => Alone(replies[1].ctx)

DIndInv == IndInv /\ ReplyTyped /\ Calls /\ Sent /\ Sole

-----------------------------------------------------------------------------
(* What the connection does to the queue and to its output when no user    *)
(* code runs.                                                              *)

\* A functor is queued: writeComplete only when the buffer has been emptied.
Posts ==
  \/ pending' = pending
  \/ \E g \in Functors : /\ pending' = Append(pending, g) /\ g # "highWaterMark"
                         /\ g = "writeComplete" => outputBuffer # <<>> /\ outputBuffer' = <<>>

Moves ==
  /\ UNCHANGED <<accepted, ioIsBase>>
  /\ Len(outputBuffer') <= Len(outputBuffer)
  /\ wire' = wire \/ (peer' # "rst" /\ state' # "kDisconnected")
  /\ finSent' => finSent \/ state = "kDisconnecting"
  /\ state' = state \/ state' = "kDisconnected"
  /\ Posts
  /\ state' # "kDisconnected" /\ outputBuffer = <<>> => pending' = pending

\* The queue is swapped, or functors other than writeComplete are run and queued.
Queues ==
  \/ batch = <<>> /\ batch' = pending /\ pending' = <<>>
  \/ /\ batch' = batch \/ (batch # <<>> /\ Head(batch) # "writeComplete" /\ batch' = Tail(batch))
     /\ Posts

Drives ==
  /\ UNCHANGED <<accepted, ioIsBase>>
  /\ Len(outputBuffer') <= Len(outputBuffer)
  /\ wire' = wire \/ (peer' # "rst" /\ state' # "kDisconnected")
  /\ finSent' => finSent \/ state = "kDisconnecting"
  /\ state' = "kDisconnecting" => state = "kDisconnecting"
  /\ state' = "kConnected" => state \in {"kConnecting", "kConnected"}
  /\ state' = "kConnecting" => state = "kConnecting"
  /\ state = "kDisconnected" => state' = "kDisconnected"
  /\ pc \in {"user", "flush"} => todo = <<>> \/ pc' \in {"user", "flush"}
  /\ pc' = "flush" => pc = "flush"
  /\ Queues
  /\ state' # "kDisconnected" /\ pending = <<>> /\ batch = <<>> /\ outputBuffer = <<>>
       => pending' = <<>> /\ batch' = <<>>

\* handleClose
LEMMA CloseMoves ==
  ASSUME IndInv, handleClose, UNCHANGED <<wire, finSent>>
  PROVE  Moves
<1>1. /\ state' = "kDisconnected" /\ UNCHANGED <<accepted, ioIsBase, outputBuffer, wire, finSent>>
      /\ pending' = pending \/ pending' = Append(pending, "connectDestroyed")
  BY DEF handleClose
<1>2. "connectDestroyed" \in Functors
  BY DEF Functors
<1>3. Posts
  BY <1>1, <1>2 DEF Posts
<1>4. Len(outputBuffer) \in Nat
  BY LenProperties DEF IndInv, TypeOK
<1> QED BY <1>1, <1>3, <1>4 DEF Moves

\* A step that leaves the connection alone.
LEMMA StillMoves ==
  ASSUME IndInv, UNCHANGED <<accepted, ioIsBase, outputBuffer, wire, finSent, state, pending>>
  PROVE  Moves
<1>1. Len(outputBuffer) \in Nat
  BY LenProperties DEF IndInv, TypeOK
<1> QED BY <1>1 DEF Moves, Posts

\* handleWrite
LEMMA WriteMoves ==
  ASSUME IndInv, handleWrite
  PROVE  Moves
<1> USE DEF IndInv
<1>0. ConnTyped
  BY TypeParts
<1>1. ASSUME UNCHANGED <<connVars, serverVars, kernelVars, ghostVars, failed, pending>>
      PROVE  Moves
  <2>1. UNCHANGED <<accepted, ioIsBase, outputBuffer, wire, finSent, state, pending>>
    BY <1>1 DEF connVars, serverVars, kernelVars, ghostVars
  <2> QED BY <2>1, StillMoves
<1>2. CASE ~isWriting
  BY <1>1, <1>2 DEF handleWrite
<1>3. CASE isWriting
  <2>1. PICK n \in WriteResults(Len(outputBuffer)) :
         \/ /\ n > 0
            /\ wire' = wire \o SubSeq(outputBuffer, 1, n)
            /\ inflight' = inflight + n
            /\ outputBuffer' = retrieve(n)
            /\ IF outputBuffer' = <<>>
               THEN drained
               ELSE /\ pending' = Append(pending, "handleWrite")
                    /\ UNCHANGED <<events, index, finSent>>
            /\ UNCHANGED <<state, serverVars, peer, soError, unread, received,
                           ghostVars, failed>>
         \/ /\ n = 0
            /\ UNCHANGED <<connVars, serverVars, kernelVars, ghostVars, failed, pending>>
         \/ /\ n = -1
            /\ handleClose
            /\ soError' = FALSE
            /\ UNCHANGED <<inflight, wire, finSent, peer, unread, received>>
    BY <1>3, Zenon DEF handleWrite
  <2>2. Len(outputBuffer) \in Nat /\ outputBuffer \in Seq(Nat)
    BY LenProperties DEF TypeOK
  <2>3. Up
    BY <1>3 DEF isWriting, Life, Up, TypeOK, States
  <2>4. CASE /\ n > 0
             /\ wire' = wire \o SubSeq(outputBuffer, 1, n)
             /\ inflight' = inflight + n
             /\ outputBuffer' = retrieve(n)
             /\ IF outputBuffer' = <<>>
                THEN drained
                ELSE /\ pending' = Append(pending, "handleWrite")
                     /\ UNCHANGED <<events, index, finSent>>
             /\ UNCHANGED <<state, serverVars, peer, soError, unread, received,
                            ghostVars, failed>>
    <3>1. /\ n \in 1 .. Len(outputBuffer) /\ ~(peer = "rst")
      <4>1. /\ n \in Int
            /\ n \in {-1, 0} \/ (n > 0 /\ n <= Len(outputBuffer) /\ inflight + n \in 0 .. SndBuf)
            /\ (peer = "rst" \/ finSent) => n = -1
        BY <1>0, <2>1, <2>2, WriteResultsRange, Zenon
      <4> QED BY <2>2, <2>4, <4>1
    <3>2. Len(outputBuffer') <= Len(outputBuffer)
      <4>1. outputBuffer' = SubSeq(outputBuffer, n + 1, Len(outputBuffer))
        BY <2>4 DEF retrieve
      <4>2. n + 1 \in Int /\ Len(outputBuffer) \in Int
            /\ \A i \in n + 1 .. Len(outputBuffer) : outputBuffer[i] \in Nat
        BY <2>2, <3>1
      <4>3. Len(SubSeq(outputBuffer, n + 1, Len(outputBuffer)))
              = IF n + 1 <= Len(outputBuffer) THEN Len(outputBuffer) - (n + 1) + 1 ELSE 0
        BY <4>2, SubSeqProperties
      <4> QED BY <2>2, <3>1, <4>1, <4>3
    <3>3. outputBuffer # <<>>
      BY <2>2, <3>1
    <3>4. UNCHANGED <<accepted, ioIsBase, state, peer>>
      BY <2>4 DEF serverVars, ghostVars
    <3>5. CASE outputBuffer' = <<>>
      <4>1. pending' = Append(pending, "writeComplete") /\ finSent' = (finSent \/ state = "kDisconnecting")
        BY <2>4, <3>5 DEF drained
      <4>2. "writeComplete" \in Functors
        BY DEF Functors
      <4>3. Posts
        BY <3>3, <3>5, <4>1, <4>2 DEF Posts
      <4> QED BY <2>3, <3>1, <3>2, <3>3, <3>4, <4>1, <4>3 DEF Moves, Up
    <3>6. CASE outputBuffer' # <<>>
      <4>1. pending' = Append(pending, "handleWrite") /\ finSent' = finSent
        BY <2>4, <3>6
      <4>2. "handleWrite" \in Functors
        BY DEF Functors
      <4>3. Posts
        BY <4>1, <4>2 DEF Posts
      <4> QED BY <2>3, <3>1, <3>2, <3>3, <3>4, <4>1, <4>3 DEF Moves, Up
    <3> QED BY <3>5, <3>6
  <2>5. CASE n = 0 /\ UNCHANGED <<connVars, serverVars, kernelVars, ghostVars, failed, pending>>
    BY <1>1, <2>5
  <2>6. CASE /\ n = -1 /\ handleClose
             /\ soError' = FALSE
             /\ UNCHANGED <<inflight, wire, finSent, peer, unread, received>>
    BY <2>6, CloseMoves
  <2> QED BY <2>1, <2>4, <2>5, <2>6
<1> QED BY <1>2, <1>3

\* Moves of a step that runs at most one functor, none of them writeComplete.
LEMMA MovesDrive ==
  ASSUME IndInv, IndInv', Moves, pc = "user" => pc' = pc \/ todo = <<>>, pc' = "flush" => pc = "flush",
         pc = "flush" => pc' \in {"user", "flush"},
         batch' = batch \/ (batch # <<>> /\ Head(batch) # "writeComplete" /\ batch' = Tail(batch))
  PROVE  Drives
<1>1. batch = <<>> => batch' = <<>>
  OBVIOUS
<1>2. state \in States
  BY DEF IndInv, TypeOK
<1> QED BY <1>1, <1>2 DEF Moves, Drives, Queues, States

\* Every step that runs no code of the HTTP server.
LEMMA ConnectionDrives ==
  ASSUME IndInv, ioIsBase, ConnectionStep
  PROVE  IndInv' /\ Drives
<1>0. IndInv'
  BY NextStep DEF ConnectionStep, Next, LoopStep
<1>1. Len(outputBuffer) \in Nat
  BY LenProperties DEF IndInv, TypeOK
<1>2. CASE newConnection
  <2>1. /\ pc = "poll" /\ pc' = "user" /\ state' = "kConnected"
        /\ UNCHANGED <<pending, batch, ioIsBase, outputBuffer, accepted, wire, finSent>>
    BY <1>2 DEF newConnection, connectEstablished
  <2>2. peer = "absent"
    BY <1>2 DEF newConnection
  <2>3. state = "kConnecting"
    BY <2>2 DEF IndInv, Life
  <2>4. Queues
    BY <2>1 DEF Queues, Posts
  <2> QED BY <1>0, <1>1, <2>1, <2>3, <2>4 DEF Drives
<1>3. CASE Swap
  <2>1. /\ pc = "swap" /\ pc' = "functors" /\ batch' = pending /\ pending' = <<>>
        /\ UNCHANGED <<state, outputBuffer, ioIsBase, wire, finSent, accepted>>
    BY <1>3 DEF Swap, connVars, serverVars, kernelVars, ghostVars
  <2>2. batch = <<>>
    BY <2>1 DEF IndInv, Sched
  <2>3. Queues
    BY <2>1, <2>2 DEF Queues
  <2> QED BY <1>0, <1>1, <2>1, <2>2, <2>3 DEF Drives
<1>4. CASE Poll \/ BatchDone \/ PeerSends \/ PeerReads \/ PeerCloses \/ PeerResets
  <2>1. /\ UNCHANGED <<state, outputBuffer, ioIsBase, wire, finSent, accepted, pending, batch>>
        /\ pc' = pc \/ (pc \in {"poll", "functors"} /\ pc' # "flush")
    BY <1>4 DEF Poll, BatchDone, PeerSends, PeerReads, PeerCloses, PeerResets,
                loopVars, queueVars, connVars, serverVars, kernelVars, ghostVars
  <2>2. Moves
    BY <2>1, StillMoves
  <2> QED BY <1>0, <2>1, <2>2, MovesDrive
<1>5. CASE HandleOutput
  <2>1. pc = "write" /\ pc' = "swap" /\ batch' = batch
    BY <1>5 DEF HandleOutput
  <2>2. Moves
    <3>1. CASE handleWrite
      BY <3>1, WriteMoves
    <3>2. CASE UNCHANGED <<pending, connVars, serverVars, kernelVars, ghostVars, failed>>
      BY <3>2, StillMoves DEF connVars, serverVars, kernelVars, ghostVars
    <3> QED BY <1>5, <3>1, <3>2 DEF HandleOutput
  <2> QED BY <1>0, <2>1, <2>2, MovesDrive
<1>6. CASE RunConnectDestroyed
  <2>1. /\ batch # <<>> /\ Head(batch) = "connectDestroyed" /\ batch' = Tail(batch) /\ pc' = pc
        /\ UNCHANGED <<pending, outputBuffer, accepted, ioIsBase, wire, finSent>>
        /\ state' = state \/ state' = "kDisconnected"
    BY <1>6 DEF RunConnectDestroyed, Next_, connectDestroyed, loopVars, serverVars, kernelVars
  <2>2. Moves
    BY <1>1, <2>1 DEF Moves, Posts
  <2> QED BY <1>0, <2>1, <2>2, MovesDrive
<1>7. CASE RunHandleWrite
  <2>1. /\ batch # <<>> /\ Head(batch) = "handleWrite" /\ batch' = Tail(batch) /\ pc' = pc
        /\ handleWrite
    BY <1>7 DEF RunHandleWrite, Next_, loopVars
  <2> QED BY <1>0, <2>1, WriteMoves, MovesDrive
<1>8. CASE Flush
  <2>1. pc = "flush" /\ pc' = caller /\ batch' = batch /\ handleWrite
    BY <1>8 DEF Flush
  <2>2. caller = "user"
    BY DEF IndInv, Sched
  <2> QED BY <1>0, <2>1, <2>2, WriteMoves, MovesDrive
<1> QED BY <1>2, <1>3, <1>4, <1>5, <1>6, <1>7, <1>8 DEF ConnectionStep

-----------------------------------------------------------------------------
(* The queue of write-complete functors and the callbacks bound to them.   *)

\* bound follows the queue, whatever the callbacks are.
LEMMA BindsFollow ==
  ASSUME NEW S, bound \in Seq(S), callback \in S, Binds,
         batch \in Seq(Functors), pending \in Seq(Functors), Len(bound) = Len(batch) + Len(pending),
         \/ batch = <<>> /\ batch' = pending /\ pending' = <<>>
         \/ /\ batch' = batch \/ (batch # <<>> /\ batch' = Tail(batch))
            /\ pending' = pending \/ \E g \in Functors : pending' = Append(pending, g)
  PROVE  bound' \in Seq(S) /\ Len(bound') = Len(batch') + Len(pending')
<1> DEFINE rest == IF Len(batch') < Len(batch) THEN Tail(bound) ELSE bound
<1>0. /\ Len(batch) \in Nat /\ Len(pending) \in Nat /\ Len(bound) \in Nat
      /\ batch # <<>> => Len(batch) # 0
  BY LenProperties, EmptySeq
<1>1. bound' = IF Len(pending') > Len(pending) THEN Append(rest, callback) ELSE rest
  BY DEF Binds
<1>2. CASE batch = <<>> /\ batch' = pending /\ pending' = <<>>
  <2>1. Len(batch) = 0 /\ Len(pending') = 0 /\ Len(batch') = Len(pending)
    BY <1>2
  <2>2. bound' = bound
    BY <1>0, <1>1, <2>1
  <2> QED BY <1>0, <2>1, <2>2
<1>3. CASE /\ batch' = batch \/ (batch # <<>> /\ batch' = Tail(batch))
           /\ pending' = pending \/ \E g \in Functors : pending' = Append(pending, g)
  <2>1. rest \in Seq(S) /\ Len(rest) = Len(batch') + Len(pending)
    <3>1. CASE batch' = batch
      BY <1>0, <3>1, SMTT(30)
    <3>2. CASE batch # <<>> /\ batch' = Tail(batch)
      <4>1. Len(batch') = Len(batch) - 1
        BY <3>2
      <4>2. bound # <<>>
        BY <1>0, <3>2, EmptySeq
      <4>3. Tail(bound) \in Seq(S) /\ Len(Tail(bound)) = Len(bound) - 1
        BY <4>2, HeadTailProperties
      <4>4. rest = Tail(bound)
        BY <1>0, <4>1
      <4> HIDE DEF rest
      <4> QED BY <1>0, <4>1, <4>3, <4>4
    <3> QED BY <1>3, <3>1, <3>2
  <2> HIDE DEF rest
  <2>2. CASE pending' = pending
    <3>1. bound' = rest
      BY <1>0, <1>1, <2>2
    <3> QED BY <2>1, <2>2, <3>1
  <2>3. CASE \E g \in Functors : pending' = Append(pending, g)
    <3>1. Len(pending') = Len(pending) + 1
      BY <2>3, AppendProperties
    <3>2. bound' = Append(rest, callback)
      BY <1>0, <1>1, <3>1
    <3>3. Append(rest, callback) \in Seq(S) /\ Len(Append(rest, callback)) = Len(rest) + 1
      BY <2>1, AppendProperties, ZenonT(60)
    <3>4. Len(batch') \in Nat
      <4>1. batch' \in Seq(Functors)
        BY <1>3, RunFirst
      <4> QED BY <4>1, LenProperties
    <3> QED BY <1>0, <2>1, <3>1, <3>2, <3>3, <3>4
  <2> QED BY <1>3, <2>2, <2>3
<1> QED BY <1>2, <1>3

\* A step of Queues leaves a writeComplete that waits and adds one only for a
\* buffer that has just been emptied.
LEMMA QueuesComplete ==
  ASSUME pending \in Seq(Functors), batch \in Seq(Functors), Queues
  PROVE  /\ Never(pending, batch, "writeComplete") =>
              \/ Never(pending, batch, "writeComplete")'
              \/ /\ QueuedOnce(pending, batch, "writeComplete")'
                 /\ outputBuffer # <<>> /\ outputBuffer' = <<>>
         /\ outputBuffer = <<>> /\ QueuedOnce(pending, batch, "writeComplete") =>
              QueuedOnce(pending, batch, "writeComplete")'
<1> DEFINE f == "writeComplete"
<1>0. f \in Functors
  BY DEF Functors
<1>1. CASE batch = <<>> /\ batch' = pending /\ pending' = <<>>
  BY <1>1, EmptyQueue, OnceNotEmpty DEF Never, QueuedOnce
<1>2. CASE /\ batch' = batch \/ (batch # <<>> /\ Head(batch) # f /\ batch' = Tail(batch))
           /\ Posts
  <2>1. CASE Quiet(f)
    BY <2>1, QuietKeeps
  <2>2. CASE ~Quiet(f)
    <3>1. pending' = Append(pending, f) /\ outputBuffer # <<>> /\ outputBuffer' = <<>>
      BY <1>2, <2>2 DEF Posts, Quiet
    <3>2. Lacks(batch, f) => Lacks(batch', f)
      <4>1. CASE batch' = batch
        BY <4>1
      <4>2. CASE batch # <<>> /\ batch' = Tail(batch)
        BY <4>2, RunFirst
      <4> QED BY <1>2, <4>1, <4>2
    <3>3. Lacks(pending, f) => Once(pending', f)
      BY <1>0, <3>1, QueueFirst
    <3> QED BY <3>1, <3>2, <3>3 DEF Never, QueuedOnce
  <2> QED BY <2>1, <2>2
<1> QED BY <1>1, <1>2 DEF Queues

\* No highWaterMark functor comes from such a step.
LEMMA QueuesNoMark ==
  ASSUME pending \in Seq(Functors), batch \in Seq(Functors), Queues,
         Never(pending, batch, "highWaterMark")
  PROVE  Never(pending, batch, "highWaterMark")'
<1> DEFINE f == "highWaterMark"
<1>1. CASE batch = <<>> /\ batch' = pending /\ pending' = <<>>
  BY <1>1, EmptyQueue DEF Never
<1>2. CASE /\ batch' = batch \/ (batch # <<>> /\ batch' = Tail(batch))
           /\ Posts
  <2>1. batch # <<>> => Head(batch) # f
    BY RunFirst DEF Never
  <2>2. Quiet(f)
    BY <1>2, <2>1 DEF Posts, Quiet
  <2> QED BY <2>2, QuietKeeps
<1> QED BY <1>1, <1>2 DEF Queues

\* The items of two sequences, one behind the other.
LEMMA ConcatItems ==
  ASSUME NEW S, NEW w \in Seq(S), NEW o \in Seq(S)
  PROVE  /\ w \o o \in Seq(S) /\ Len(w \o o) = Len(w) + Len(o)
         /\ Len(w) \in Nat /\ Len(o) \in Nat
         /\ \A i \in 1 .. Len(w) : (w \o o)[i] = w[i]
         /\ \A i \in Len(w) + 1 .. Len(w) + Len(o) : (w \o o)[i] = o[i - Len(w)]
<1> DEFINE c == w \o o
<1>1. /\ c \in Seq(S) /\ Len(c) = Len(w) + Len(o)
      /\ \A i \in 1 .. Len(w) + Len(o) : c[i] = IF i <= Len(w) THEN w[i] ELSE o[i - Len(w)]
  BY ConcatProperties, Zenon
<1>2. Len(w) \in Nat /\ Len(o) \in Nat
  BY LenProperties
<1> HIDE DEF c
<1>3. /\ \A i \in 1 .. Len(w) : c[i] = w[i]
      /\ \A i \in Len(w) + 1 .. Len(w) + Len(o) : c[i] = o[i - Len(w)]
  BY <1>1, <1>2
<1> QED BY <1>1, <1>2, <1>3 DEF c

\* A prefix of the stream.
LEMMA StreamPrefix ==
  ASSUME NEW w \in Seq(Nat), NEW o \in Seq(Nat), NEW m \in Nat
  PROVE  w \o o = [i \in 1 .. m |-> i] => Len(w) <= m /\ \A i \in 1 .. Len(w) : w[i] = i
<1> DEFINE c == w \o o
<1>1. /\ Len(c) = Len(w) + Len(o) /\ Len(w) \in Nat /\ Len(o) \in Nat
      /\ \A i \in 1 .. Len(w) : c[i] = w[i]
  BY ConcatItems
<1> HIDE DEF c
<1>2. ASSUME c = [i \in 1 .. m |-> i]
      PROVE  Len(w) <= m /\ \A i \in 1 .. Len(w) : w[i] = i
  <2>1. Len(c) = m /\ \A i \in 1 .. m : c[i] = i
    BY <1>2
  <2>2. Len(w) <= m
    BY <1>1, <2>1
  <2> QED BY <1>1, <2>1, <2>2
<1> QED BY <1>2, Zenon DEF c

\* What the kernel has taken stays a prefix of what was passed to sendInLoop.
LEMMA WirePrefix ==
  ASSUME IndInv', wire' = wire \/ (peer' # "rst" /\ state' # "kDisconnected"),
         NEW n \in Nat, NEW m \in Nat, n <= m, accepted' = m, Len(wire) <= n,
         \A i \in 1 .. Len(wire) : wire[i] = i
  PROVE  Len(wire') <= m /\ \A i \in 1 .. Len(wire') : wire'[i] = i
<1>1. CASE wire' = wire
  <2>1. Len(wire') \in Nat
    BY LenProperties DEF IndInv, TypeOK
  <2> QED BY <1>1, <2>1
<1>2. CASE peer' # "rst" /\ state' # "kDisconnected"
  <2>1. wire' \o outputBuffer' = [i \in 1 .. m |-> i] /\ wire' \in Seq(Nat) /\ outputBuffer' \in Seq(Nat)
    BY <1>2 DEF IndInv, Stream, IsStream, TypeOK
  <2> QED BY <2>1, StreamPrefix
<1> QED BY <1>1, <1>2

\* The queue of a step of Queues keeps its type.
LEMMA QueuesTyped ==
  ASSUME Queues
  PROVE  \/ batch = <<>> /\ batch' = pending /\ pending' = <<>>
         \/ /\ batch' = batch \/ (batch # <<>> /\ batch' = Tail(batch))
            /\ pending' = pending \/ \E g \in Functors : pending' = Append(pending, g)
BY DEF Queues, Posts

-----------------------------------------------------------------------------
(* Steps of the loop and of the peer.                                      *)

\* What user code still has to call does not change without it.
LEMMA CallsKept ==
  ASSUME Calls, UNCHANGED <<todo, replies>>,
         pc \in {"user", "flush"} => todo = <<>> \/ pc' \in {"user", "flush"},
         pc' = "flush" => pc = "flush"
  PROVE  Calls'
<1>1. HeaderDue' = HeaderDue /\ \A k, n \in Nat : ChunkDue(k, n)' = ChunkDue(k, n)
  BY DEF HeaderDue, ChunkDue, ChunkOf
<1> QED BY <1>1 DEF Calls

\* Such a step keeps the invariant of the replies.
LEMMA DrivesKeep ==
  ASSUME DIndInv, IndInv', Drives, Binds, UNCHANGED <<todo, callback, replies, stream>>
  PROVE  DIndInv'
<1> USE DEF DIndInv
<1>0. /\ pending \in Seq(Functors) /\ batch \in Seq(Functors) /\ Len(stream) \in Nat
      /\ outputBuffer \in Seq(Nat) /\ outputBuffer' \in Seq(Nat) /\ state \in States
      /\ Len(outputBuffer) \in Nat /\ Len(outputBuffer') \in Nat
  <2>1. outputBuffer' \in Seq(Nat)
    BY DEF IndInv, TypeOK
  <2> QED BY <2>1, LenProperties DEF IndInv, TypeOK, ReplyTyped
<1>1. ReplyTyped'
  <2>1. bound' \in Seq(0 .. Len(replies)) /\ Len(bound') = Len(batch') + Len(pending')
    BY <1>0, BindsFollow, QueuesTyped DEF ReplyTyped, Drives
  <2>2. Never(pending', batch', "highWaterMark")
    BY <1>0, QueuesNoMark DEF ReplyTyped, Drives
  <2> QED BY <2>1, <2>2 DEF ReplyTyped, Drives
<1>2. Calls'
  BY CallsKept DEF Drives
<1>3. Sent'
  <2>1. \A k : SentUpto(k)' = SentUpto(k)
    BY DEF SentUpto, Upto, HasNone, EndsWith, ItemAt
  <2>2. \A i : MayFollow(stream, i - 1, stream[i][1], stream[i][2])'
                 = MayFollow(stream, i - 1, stream[i][1], stream[i][2])
    BY DEF MayFollow, HasNone, EndsWith
  <2>3. state' = "kConnected" => \A k \in 1 .. Len(replies) : SentUpto(k)
    <3>1. state' = "kConnected" => state \in {"kConnecting", "kConnected"}
      BY DEF Drives
    <3>2. state = "kConnecting" => Len(replies) = 0
      BY DEF ReplyTyped
    <3>3. state = "kConnected" => \A k \in 1 .. Len(replies) : SentUpto(k)
      BY DEF Sent
    <3> QED BY <3>1, <3>2, <3>3
  <2>4. Len(wire') <= Len(stream) /\ \A i \in 1 .. Len(wire') : wire'[i] = i
    BY <1>0, WirePrefix DEF Drives, ReplyTyped, Sent
  <2> QED BY <2>1, <2>2, <2>3, <2>4 DEF Sent
<1>4. replies' = <<>> => Fresh'
  <2> SUFFICES ASSUME replies = <<>> PROVE Fresh'
    OBVIOUS
  <2>1. Fresh
    BY DEF Sole
  <2>2. outputBuffer' = <<>>
    BY <1>0, <2>1 DEF Drives, Fresh
  <2>3. Never(pending', batch', "writeComplete")
    BY <1>0, <2>1, QueuesComplete DEF Drives, Fresh
  <2>4. state' # "kDisconnected" => pending' = <<>> /\ batch' = <<>>
    BY <1>0, <2>1 DEF Drives, Fresh, States
  <2> QED BY <2>1, <2>2, <2>3, <2>4 DEF Fresh, Drives
<1>5. SoleDownload' => Alone(replies[1].ctx)'
  <2> SUFFICES ASSUME SoleDownload PROVE Alone(replies[1].ctx)'
    BY DEF SoleDownload
  <2> DEFINE c == replies[1].ctx
  <2>1. Alone(c) /\ c' = c /\ state # "kConnecting"
    <3>1. replies # <<>>
      BY DEF SoleDownload
    <3> QED BY <3>1 DEF Sole, ReplyTyped
  <2> HIDE DEF c
  <2>2. bound' \in Seq({1}) /\ callback' = 1
    BY <1>0, <2>1, BindsFollow, QueuesTyped DEF ReplyTyped, Drives, Alone
  <2>3. Len(outputBuffer') <= Len(outputBuffer) /\ (outputBuffer = <<>> => outputBuffer' = <<>>)
    BY <1>0 DEF Drives
  <2>4. ChunkSize \in Nat /\ Len(outputBuffer') <= ChunkSize
    BY <1>0, <2>1, <2>3, DownloadAssumption DEF DownloadAssumption, Alone
  <2>5. /\ Never(pending, batch, "writeComplete") =>
             \/ Never(pending', batch', "writeComplete")
             \/ /\ QueuedOnce(pending', batch', "writeComplete")
                /\ outputBuffer # <<>> /\ outputBuffer' = <<>>
        /\ outputBuffer = <<>> /\ QueuedOnce(pending, batch, "writeComplete") =>
             QueuedOnce(pending', batch', "writeComplete")
    BY <1>0, QueuesComplete DEF Drives
  <2>6. Upto(1)' = Upto(1)
    BY DEF Upto
  <2>7. /\ todo' # <<>> => outputBuffer' = <<>>
        /\ todo' # <<>> \/ outputBuffer' # <<>> => Never(pending', batch', "writeComplete")
        /\ Never(pending', batch', "writeComplete") \/ QueuedOnce(pending', batch', "writeComplete")
        /\ c.complete => /\ outputBuffer' = <<>>
                         /\ Never(pending', batch', "writeComplete")
    BY <2>1, <2>3, <2>5 DEF Alone
  <2>8. state' = "kConnected" => state = "kConnected"
    BY <2>1 DEF Drives
  <2>9. finSent' \/ state' = "kDisconnecting" => finSent \/ state = "kDisconnecting"
    BY DEF Drives
  <2>10. Alone(c)'
    BY <2>1, <2>2, <2>4, <2>6, <2>7, <2>8, <2>9 DEF Alone, ItemAt
  <2> QED BY <2>10 DEF c
<1> QED BY <1>1, <1>2, <1>3, <1>4, <1>5 DEF Sole

-----------------------------------------------------------------------------
(* The calls of user code and the items they pass to sendInLoop.           *)

\* The fields of a call.
LEMMA CallFields ==
  /\ \A b : Send(b).op = "send" /\ Send(b).bytes = b
  /\ Shutdown.op = "shutdown"
BY DEF Send, Shutdown

\* A header is one item, a chunk has the items that follow its position.
LEMMA ItemsFacts ==
  /\ \A k \in Nat : /\ Header(k) \in Seq(Nat \X Nat) /\ Len(Header(k)) = 1
                    /\ Header(k)[1] = <<k, 0>>
  /\ \A k, p, n \in Nat : /\ Items(k, p, n) \in Seq(Nat \X Nat) /\ Len(Items(k, p, n)) = n
                          /\ \A i \in 1 .. n : Items(k, p, n)[i] = <<k, p + i>>
BY DEF Header, Items

LEMMA ItemsTyped ==
  ASSUME NEW k \in Nat, NEW p \in Nat, NEW n \in Nat
  PROVE  Items(k, p, n) \in Seq(Nat \X Nat) /\ Len(Items(k, p, n)) = n
BY ItemsFacts

\* Nothing is due.
LEMMA UptoPos ==
  ASSUME NEW t, NEW rs, NEW k, t = <<>> \/ t = <<Shutdown>>
  PROVE  UptoOf(t, rs, k) = rs[k].ctx.pos
<1>1. t # <<>> => Head(t) = Shutdown
  OBVIOUS
<1> QED BY <1>1, CallFields DEF UptoOf

\* A header is due.
LEMMA UptoHeader ==
  ASSUME NEW t, NEW rs, NEW m \in Nat, NEW k,
         t = <<Send(Header(m))>> \/ t = <<Send(Header(m)), Shutdown>>
  PROVE  /\ t # <<>> /\ Head(t) = Send(Header(m))
         /\ UptoOf(t, rs, k) = IF k = m THEN -1 ELSE rs[k].ctx.pos
<1>1. t # <<>> /\ Head(t) = Send(Header(m))
  OBVIOUS
<1>2. Head(t).op = "send" /\ Head(t).bytes[1] = <<m, 0>>
  BY <1>1, CallFields, ItemsFacts, ZenonT(60)
<1>3. Head(t).bytes[1][1] = m /\ Head(t).bytes[1][2] = 0
  BY <1>2
<1> QED BY <1>1, <1>2, <1>3 DEF UptoOf

\* A chunk is due.
LEMMA UptoChunk ==
  ASSUME NEW t, NEW rs, NEW m \in Nat, NEW p \in Nat, NEW n \in Nat \ {0}, NEW k,
         t = <<Send(Items(m, p, n))>>
  PROVE  /\ t # <<>> /\ Head(t) = Send(Items(m, p, n))
         /\ UptoOf(t, rs, k) = IF k = m THEN p ELSE rs[k].ctx.pos
<1>1. t # <<>> /\ Head(t) = Send(Items(m, p, n))
  OBVIOUS
<1>2. Head(t).op = "send" /\ Head(t).bytes[1] = <<m, p + 1>>
  <2>1. Head(t).op = "send" /\ Head(t).bytes = Items(m, p, n)
    BY <1>1, CallFields, Zenon
  <2>2. 1 \in 1 .. n
    OBVIOUS
  <2>3. Items(m, p, n)[1] = <<m, p + 1>>
    BY <2>2 DEF Items
  <2> QED BY <2>1, <2>3, Zenon
<1>3. Head(t).bytes[1][1] = m /\ Head(t).bytes[1][2] = p + 1
  BY <1>2
<1> QED BY <1>1, <1>2, <1>3 DEF UptoOf

\* Items behind s leave what was said of s.
LEMMA PrefixSame ==
  ASSUME NEW S, NEW s \in Seq(S), NEW b \in Seq(S), NEW n \in 0 .. Len(s), NEW k, NEW x
  PROVE  /\ HasNone(s \o b, n, k) <=> HasNone(s, n, k)
         /\ EndsWith(s \o b, n, k, x) <=> EndsWith(s, n, k, x)
<1> DEFINE c == s \o b
<1>1. Len(s) \in Nat /\ \A i \in 1 .. Len(s) : c[i] = s[i]
  BY ConcatItems
<1> HIDE DEF c
<1>2. \A i \in 1 .. n : c[i] = s[i]
  BY <1>1
<1>3. HasNone(c, n, k) <=> HasNone(s, n, k)
  BY <1>2 DEF HasNone
<1>4. EndsWith(c, n, k, x) <=> EndsWith(s, n, k, x)
  <2>1. \A j \in 1 .. n : \A l \in j + 1 .. n : l \in 1 .. n
    BY <1>1
  <2> QED BY <1>2, <2>1, SMTT(30) DEF EndsWith
<1> QED BY <1>3, <1>4 DEF c

\* Items of reply m behind s: what was last of the others stays so, and the last
\* item of m is the last one appended.
LEMMA ItemsBehind ==
  ASSUME NEW s \in Seq(Nat \X Nat), NEW b \in Seq(Nat \X Nat), b # <<>>, NEW m,
         \A i \in 1 .. Len(b) : b[i][1] = m, NEW k, NEW x
  PROVE  /\ k # m /\ HasNone(s, Len(s), k) => HasNone(s \o b, Len(s \o b), k)
         /\ k # m /\ EndsWith(s, Len(s), k, x) => EndsWith(s \o b, Len(s \o b), k, x)
         /\ b[Len(b)] = <<m, x>> => EndsWith(s \o b, Len(s \o b), m, x)
<1> DEFINE c == s \o b
<1>1. /\ Len(c) = Len(s) + Len(b) /\ Len(s) \in Nat /\ Len(b) \in Nat
      /\ \A i \in 1 .. Len(s) : c[i] = s[i]
      /\ \A i \in Len(s) + 1 .. Len(s) + Len(b) : c[i] = b[i - Len(s)]
  BY ConcatItems
<1>2. Len(b) >= 1
  BY <1>1, EmptySeq
<1> HIDE DEF c
<1>3. \A i \in Len(s) + 1 .. Len(c) : c[i][1] = m
  <2> TAKE i \in Len(s) + 1 .. Len(c)
  <2>1. i - Len(s) \in 1 .. Len(b)
    BY <1>1
  <2> QED BY <1>1, <2>1
<1>4. ASSUME k # m, HasNone(s, Len(s), k) PROVE HasNone(c, Len(c), k)
  <2> SUFFICES ASSUME NEW i \in 1 .. Len(c) PROVE c[i][1] # k
    BY DEF HasNone
  <2>1. CASE i \in 1 .. Len(s)
    BY <1>1, <1>4, <2>1 DEF HasNone
  <2>2. CASE i \in Len(s) + 1 .. Len(c)
    BY <1>3, <1>4, <2>2
  <2> QED BY <1>1, <2>1, <2>2
<1>5. ASSUME k # m, EndsWith(s, Len(s), k, x) PROVE EndsWith(c, Len(c), k, x)
  <2>1. PICK j \in 1 .. Len(s) : s[j] = <<k, x>> /\ \A l \in j + 1 .. Len(s) : s[l][1] # k
    BY <1>5 DEF EndsWith
  <2>2. j \in 1 .. Len(c) /\ c[j] = <<k, x>>
    <3>1. j \in 1 .. Len(c) /\ c[j] = s[j]
      BY <1>1
    <3> QED BY <2>1, <3>1, Zenon
  <2>3. ASSUME NEW l \in j + 1 .. Len(c) PROVE c[l][1] # k
    <3>1. CASE l \in j + 1 .. Len(s)
      <4>1. c[l] = s[l]
        BY <1>1, <3>1
      <4> QED BY <2>1, <3>1, <4>1, Zenon
    <3>2. CASE l \in Len(s) + 1 .. Len(c)
      BY <1>3, <1>5, <3>2
    <3> QED BY <1>1, <3>1, <3>2
  <2> QED BY <2>2, <2>3 DEF EndsWith
<1>6. ASSUME b[Len(b)] = <<m, x>> PROVE EndsWith(c, Len(c), m, x)
  <2>1. Len(c) \in 1 .. Len(c) /\ c[Len(c)] = <<m, x>>
    <3>1. Len(c) \in Len(s) + 1 .. Len(s) + Len(b) /\ Len(c) - Len(s) = Len(b)
      BY <1>1, <1>2
    <3>2. Len(c) \in 1 .. Len(c) /\ c[Len(c)] = b[Len(b)]
      BY <1>1, <3>1, SMTT(30)
    <3> QED BY <1>6, <3>2, Zenon
  <2>2. \A l \in Len(c) + 1 .. Len(c) : c[l][1] # m
    BY <1>1
  <2> QED BY <2>1, <2>2 DEF EndsWith
<1> QED BY <1>4, <1>5, <1>6 DEF c

-----------------------------------------------------------------------------
(* Steps of user code.                                                     *)

\* sendInLoop queues a writeComplete functor only when it has written everything
\* and nothing was buffered, and never a highWaterMark.
LEMMA SendEffects ==
  ASSUME IndInv, NEW len \in Nat \ {0}, state = "kConnected", sendInLoop(len, "user")
  PROVE  /\ UNCHANGED <<state, ioIsBase, finSent>>
         /\ accepted' = accepted + len
         /\ wire' = wire \/ (peer' # "rst" /\ state' # "kDisconnected")
         /\ \/ pending' = pending
            \/ pending' = Append(pending, "writeComplete") /\ outputBuffer = <<>> /\ outputBuffer' = <<>>
         /\ Len(outputBuffer') <= Len(outputBuffer) + len
         /\ pc' \in {"user", "flush"}
<1> USE DEF IndInv
<1>0. ConnTyped /\ Len(outputBuffer) \in Nat /\ outputBuffer \in Seq(Nat) /\ wire \in Seq(Nat)
      /\ accepted \in Nat
  BY TypeParts, LenProperties DEF TypeOK
<1>1. PICK n \in (IF mayWriteDirectly THEN WriteResults(len) ELSE {0}) :
    LET nwrote     == nwroteOf(n)
        remaining  == len - nwrote
        faultError == n = -1
        oldLen     == Len(outputBuffer)
    IN  /\ accepted' = accepted + len
        /\ wire' = wire \o SubSeq(Data(len), 1, nwrote)
        /\ inflight' = inflight + nwrote
        /\ soError' = (soError /\ ~faultError)
        /\ IF remaining > 0 /\ ~faultError
           THEN /\ pending' = IF oldLen + remaining >= HighWaterMark /\ oldLen < HighWaterMark
                              THEN Append(pending, "highWaterMark") ELSE pending
                /\ outputBuffer' = outputBuffer \o SubSeq(Data(len), nwrote + 1, len)
                /\ IF isWriting THEN UNCHANGED <<events, index>>
                   ELSE UpdateChannel(events \cup {"write"})
                /\ pc' = "flush" /\ caller' = "user"
           ELSE /\ pending' = IF remaining = 0 THEN Append(pending, "writeComplete") ELSE pending
                /\ pc' = "user"
                /\ UNCHANGED <<outputBuffer, events, index, caller>>
        /\ UNCHANGED <<state, serverVars, finSent, peer, unread, received,
                       acked, ups, downs, failed>>
  BY Zenon DEF sendInLoop
<1> DEFINE k == nwroteOf(n)
<1>2. /\ UNCHANGED <<state, ioIsBase, finSent, peer>>
      /\ accepted' = accepted + len /\ wire' = wire \o SubSeq(Data(len), 1, k)
      /\ pc' \in {"user", "flush"}
  BY <1>1 DEF serverVars
<1>3. /\ n \in Int /\ k \in 0 .. len
      /\ k > 0 => ~(peer = "rst") /\ mayWriteDirectly
  <2>1. CASE ~mayWriteDirectly
    BY <1>1, <2>1 DEF nwroteOf
  <2>2. CASE mayWriteDirectly
    <3>1. n \in WriteResults(len) /\ len \in Nat
      BY <1>1, <2>2
    <3>2. /\ n \in Int
          /\ n \in {-1, 0} \/ (n > 0 /\ n <= len /\ inflight + n \in 0 .. SndBuf)
          /\ (peer = "rst" \/ finSent) => n = -1
      BY <1>0, <3>1, WriteResultsRange
    <3> QED BY <2>2, <3>1, <3>2 DEF nwroteOf
  <2> QED BY <2>1, <2>2
<1>4. wire' = wire \/ (peer' # "rst" /\ state' # "kDisconnected")
  <2>1. CASE k = 0
    <3>1. SubSeq(Data(len), 1, 0) = <<>>
      BY SubSeqEmpty
    <3>2. wire \o <<>> = wire
      BY <1>0, ConcatEmptySeq
    <3>3. wire' = wire \o SubSeq(Data(len), 1, 0)
      BY <1>2, <2>1
    <3> QED BY <3>1, <3>2, <3>3, Zenon
  <2>2. CASE k > 0
    BY <1>2, <1>3, <2>2
  <2> QED BY <1>3, <2>1, <2>2
<1>5. CASE len - k > 0 /\ n # -1
  <2>1. ~(Len(outputBuffer) < HighWaterMark)
    BY <1>0, DownloadAssumption DEF DownloadAssumption
  <2>2. pending' = pending /\ outputBuffer' = outputBuffer \o SubSeq(Data(len), k + 1, len)
    BY <1>1, <1>5, <2>1
  <2>3. Len(outputBuffer \o SubSeq([i \in 1 .. len |-> accepted + i], k + 1, len))
          = Len(outputBuffer) + (len - k)
    <3>1. len \in Nat
      OBVIOUS
    <3> QED BY <1>0, <1>3, <3>1, SendParts
  <2>4. Len(outputBuffer') <= Len(outputBuffer) + len
    BY <1>0, <1>3, <2>2, <2>3 DEF Data
  <2> QED BY <1>2, <1>4, <2>2, <2>4
<1>6. CASE ~(len - k > 0 /\ n # -1)
  <2>1. /\ pending' = IF len - k = 0 THEN Append(pending, "writeComplete") ELSE pending
        /\ outputBuffer' = outputBuffer
    BY <1>1, <1>6
  <2>2. len - k = 0 => outputBuffer = <<>>
    BY <1>3 DEF mayWriteDirectly
  <2>3. Len(outputBuffer') <= Len(outputBuffer) + len
    BY <1>0, <2>1
  <2> QED BY <1>2, <1>4, <2>1, <2>2, <2>3
<1> QED BY <1>5, <1>6

\* The header of a reply may follow what has none of the reply.
LEMMA HeaderFollows ==
  ASSUME NEW s \in Seq(Nat \X Nat), NEW m \in Nat, HasNone(s, Len(s), m)
  PROVE  MayFollow(s \o Header(m), Len(s), m, 0)
<1>1. Header(m) \in Seq(Nat \X Nat) /\ Len(s) \in 0 .. Len(s)
  BY ItemsFacts, LenProperties
<1>2. HasNone(s \o Header(m), Len(s), m)
  BY <1>1, PrefixSame
<1> QED BY <1>2, Zenon DEF MayFollow

\* The place of the item before item i of a chunk of n items, behind a others.
LEMMA PlaceBefore ==
  ASSUME NEW a \in Nat, NEW n \in Nat, NEW i \in 1 .. n, i > 1
  PROVE  /\ a + i - 1 \in 1 .. a + i - 1 /\ a + i - 1 \in a + 1 .. a + n
         /\ (a + i - 1) - a = i - 1 /\ i - 1 \in 1 .. n
OBVIOUS

\* Item i of a chunk of n bytes from position p on.
LEMMA WithinFile ==
  ASSUME NEW a \in Nat, NEW z \in Nat, NEW p \in Nat, NEW n \in Nat, a <= p, p + n <= z,
         NEW i \in 1 .. n
  PROVE  p + i \in a + 1 .. z
OBVIOUS

\* The items of a chunk follow what was sent of the reply, one behind the other.
LEMMA ChunkFollows ==
  ASSUME replies \in Seq(Reply), NEW m \in 1 .. Len(replies), NEW s \in Seq(Nat \X Nat),
         NEW p \in Nat, NEW n \in Nat, replies[m].ctx.start <= p, p + n <= replies[m].ctx.size,
         EndsWith(s, Len(s), m, ItemAt(replies[m].ctx, p)), NEW i \in 1 .. n
  PROVE  MayFollow(s \o Items(m, p, n), Len(s) + i - 1, m, p + i)
<1> DEFINE c == replies[m].ctx
           b == Items(m, p, n)
           t == s \o b
<1>1. c.start \in Nat /\ c.size \in Nat /\ m \in Nat
  <2>1. replies[m] \in Reply
    OBVIOUS
  <2>2. Len(replies) \in Nat
    BY LenProperties
  <2> QED BY <2>1, <2>2, SMTT(30) DEF Reply, Context
<1>2. b \in Seq(Nat \X Nat) /\ Len(b) = n
  <2>1. m \in Nat /\ p \in Nat /\ n \in Nat
    BY <1>1
  <2> QED BY <2>1, ItemsTyped, Zenon
<1>3. \A j \in 1 .. n : b[j] = <<m, p + j>>
  BY <1>1 DEF Items
<1>4. /\ Len(s) \in Nat /\ \A j \in Len(s) + 1 .. Len(s) + Len(b) : t[j] = b[j - Len(s)]
  BY <1>2, ConcatItems
<1>5. p + i \in c.start + 1 .. c.size
  <2>1. c.start <= p /\ p + n <= c.size
    OBVIOUS
  <2> HIDE DEF c
  <2> QED BY <1>1, <2>1, WithinFile, Zenon
<1>6. EndsWith(t, Len(s) + i - 1, m, IF p + i = c.start + 1 THEN 0 ELSE (p + i) - 1)
  <2>1. CASE i = 1
    <3>1. Len(s) + i - 1 = Len(s) /\ Len(s) \in 0 .. Len(s)
      BY <1>4, <2>1
    <3>2. ItemAt(c, p) = IF p + i = c.start + 1 THEN 0 ELSE (p + i) - 1
      <4> HIDE DEF c
      <4>1. (p + i = c.start + 1 <=> p = c.start) /\ (p + i) - 1 = p
        BY <1>1, <2>1
      <4> QED BY <4>1, Zenon DEF ItemAt
    <3>3. EndsWith(t, Len(s), m, ItemAt(c, p))
      BY <1>2, <3>1, PrefixSame
    <3> QED BY <3>1, <3>2, <3>3
  <2>2. CASE i > 1
    <3> HIDE DEF b, t, c
    <3> DEFINE j == Len(s) + i - 1
    <3>1. j \in 1 .. j /\ j \in Len(s) + 1 .. Len(s) + Len(b) /\ j - Len(s) = i - 1 /\ i - 1 \in 1 .. n
      BY <1>2, <1>4, <2>2, PlaceBefore, Zenon
    <3>2. t[j] = b[i - 1]
      BY <1>4, <3>1
    <3>3. b[i - 1] = <<m, p + (i - 1)>>
      BY <1>3, <3>1, Zenon
    <3>4. p + (i - 1) = (IF p + i = c.start + 1 THEN 0 ELSE (p + i) - 1)
      <4>1. c.start <= p
        BY DEF c
      <4> QED BY <1>1, <2>2, <4>1, SMTT(30)
    <3>5. \A l \in j + 1 .. j : t[l][1] # m
      <4>1. j \in Int
        BY <1>4
      <4> QED BY <4>1
    <3> QED BY <3>1, <3>2, <3>3, <3>4, <3>5, Zenon DEF EndsWith
  <2> QED BY <2>1, <2>2
<1> QED BY <1>5, <1>6, Zenon DEF MayFollow

\* Positions behind the first a.
LEMMA Behind ==
  ASSUME NEW a \in Nat, NEW n \in Nat, NEW i \in a + 1 .. a + n
  PROVE  i - a \in 1 .. n /\ a + (i - a) = i /\ a + (i - a) - 1 = i - 1
OBVIOUS

\* ConcatItems, as a predicate.
Joined(w, o, c, S) ==
  /\ c \in Seq(S) /\ Len(c) = Len(w) + Len(o)
  /\ \A i \in 1 .. Len(w) : c[i] = w[i]
  /\ \A i \in Len(w) + 1 .. Len(w) + Len(o) : c[i] = o[i - Len(w)]

LEMMA JoinItems ==
  ASSUME NEW S, NEW w \in Seq(S), NEW o \in Seq(S)
  PROVE  Joined(w, o, w \o o, S)
BY ConcatItems DEF Joined

\* A call of send of a connection that is up passes the items b of reply m on.
LEMMA Delivered ==
  ASSUME DIndInv, DoSend, state = "kConnected", NEW m \in 1 .. Len(replies),
         NEW b \in Seq(Nat \X Nat), b = Head(todo).bytes, Len(b) \in 1 .. ChunkSize,
         \A i \in 1 .. Len(b) : b[i][1] = m,
         \A i \in 1 .. Len(b) : MayFollow(stream \o b, Len(stream) + i - 1, m, b[i][2]),
         b[Len(b)] = <<m, ItemAt(replies[m].ctx, replies[m].ctx.pos)>>,
         todo' = <<>> \/ todo' = <<Shutdown>>,
         \A k \in 1 .. Len(replies) : k # m => Upto(k) = replies[k].ctx.pos,
         SoleDownload =>
           /\ todo' = <<>>
           /\ \A i \in 1 .. Len(b) :
                b[i] = <<1, ItemAt(replies[1].ctx, replies[1].ctx.start + (Len(stream) + i) - 1)>>
           /\ Len(stream) + Len(b) = 1 + replies[1].ctx.pos - replies[1].ctx.start
  PROVE  DIndInv'
<1> USE DEF DIndInv
<1>0. /\ pending \in Seq(Functors) /\ batch \in Seq(Functors) /\ Len(stream) \in Nat
      /\ outputBuffer \in Seq(Nat) /\ Len(outputBuffer) \in Nat /\ Len(replies) \in Nat
      /\ stream \in Seq(Nat \X Nat) /\ Len(b) \in Nat \ {0} /\ b # <<>>
  <2>1. Len(b) \in Nat \ {0} /\ b # <<>>
    BY DownloadAssumption, EmptySeq DEF DownloadAssumption
  <2> QED BY <2>1, LenProperties DEF IndInv, TypeOK, ReplyTyped
<1>1. /\ pc = "user" /\ sendInLoop(Len(b), "user") /\ UNCHANGED <<ret, revents, batch, batchHolds>>
      /\ stream' = stream \o b /\ Binds /\ UNCHANGED <<callback, replies>>
  BY DEF DoSend
<1>2. IndInv'
  BY <1>0, <1>1, SendStep DEF IndInv
<1>3. /\ UNCHANGED <<state, ioIsBase, finSent>>
      /\ accepted' = accepted + Len(b)
      /\ wire' = wire \/ (peer' # "rst" /\ state' # "kDisconnected")
      /\ \/ pending' = pending
         \/ pending' = Append(pending, "writeComplete") /\ outputBuffer = <<>> /\ outputBuffer' = <<>>
      /\ Len(outputBuffer') <= Len(outputBuffer) + Len(b)
      /\ pc' \in {"user", "flush"}
  BY <1>0, <1>1, SendEffects
<1>4. /\ stream' \in Seq(Nat \X Nat) /\ Len(stream') = Len(stream) + Len(b)
      /\ \A i \in 1 .. Len(stream) : stream'[i] = stream[i]
      /\ \A i \in Len(stream) + 1 .. Len(stream) + Len(b) : stream'[i] = b[i - Len(stream)]
  <2> DEFINE c == stream \o b
  <2>1. /\ c \in Seq(Nat \X Nat) /\ Len(c) = Len(stream) + Len(b)
        /\ \A i \in 1 .. Len(stream) : c[i] = stream[i]
        /\ \A i \in Len(stream) + 1 .. Len(stream) + Len(b) : c[i] = b[i - Len(stream)]
    <3>1. Joined(stream, b, c, Nat \X Nat)
      BY <1>0, JoinItems, Zenon
    <3> HIDE DEF c
    <3> QED BY <3>1 DEF Joined
  <2>2. stream' = c
    BY <1>1
  <2> HIDE DEF c
  <2> QED BY <2>1, <2>2
<1>5. "writeComplete" \in Functors /\ "highWaterMark" # "writeComplete"
  BY DEF Functors
<1>6. ReplyTyped'
  <2>1. bound' \in Seq(0 .. Len(replies)) /\ Len(bound') = Len(batch') + Len(pending')
    BY <1>0, <1>1, <1>3, <1>5, BindsFollow DEF ReplyTyped
  <2>2. Quiet("highWaterMark")
    BY <1>1, <1>3, <1>5 DEF Quiet
  <2>3. Never(pending', batch', "highWaterMark")
    BY <1>0, <2>2, QuietKeeps DEF ReplyTyped
  <2>4. accepted' = Len(stream')
    BY <1>3, <1>4 DEF ReplyTyped
  <2> QED BY <1>1, <1>3, <1>4, <2>1, <2>3, <2>4 DEF ReplyTyped
<1>7. Calls'
  BY <1>3 DEF Calls
<1>8. \A k : Upto(k)' = replies[k].ctx.pos
  <2> TAKE k
  <2>1. UptoOf(todo', replies, k) = replies[k].ctx.pos
    BY UptoPos, SMTT(30)
  <2> QED BY <1>1, <2>1 DEF Upto
<1>9. Sent'
  <2>1. ASSUME NEW k \in 1 .. Len(replies) PROVE SentUpto(k)'
    <3> DEFINE c == replies[k].ctx
    <3>1. c.pos \in Nat /\ c' = c
      <4>1. replies[k] \in Reply
        BY DEF ReplyTyped
      <4> QED BY <1>1, <4>1 DEF Reply, Context
    <3>2. Upto(k)' = c.pos /\ c.pos # -1
      BY <1>8, <3>1
    <3> HIDE DEF c
    <3>3. EndsWith(stream \o b, Len(stream \o b), k, ItemAt(c, c.pos))
      <4>1. CASE k = m
        BY <1>0, <4>1, ItemsBehind DEF c
      <4>2. CASE k # m
        <5>1. Upto(k) = c.pos
          BY <4>2 DEF c
        <5>2. EndsWith(stream, Len(stream), k, ItemAt(c, c.pos))
          BY <3>2, <5>1 DEF Sent, SentUpto, c
        <5> QED BY <1>0, <4>2, <5>2, ItemsBehind
      <4> QED BY <4>1, <4>2
    <3>4. EndsWith(stream', Len(stream'), k, ItemAt(c', Upto(k)'))
      BY <1>1, <3>1, <3>2, <3>3
    <3>5. (EndsWith(stream, Len(stream), k, ItemAt(c, Upto(k))))'
      BY <3>4 DEF EndsWith, ItemAt
    <3>6. (Upto(k) # -1)'
      BY <3>2
    <3> QED BY <3>5, <3>6 DEF SentUpto, c
  <2>2. ASSUME NEW i \in 1 .. Len(stream')
        PROVE  /\ stream'[i][1] \in 1 .. Len(replies)
               /\ MayFollow(stream', i - 1, stream'[i][1], stream'[i][2])
    <3>1. CASE i \in 1 .. Len(stream)
      <4>0. stream'[i] = stream[i]
        BY <1>4, <3>1
      <4>1. stream'[i] = stream[i] /\ i - 1 \in 0 .. Len(stream)
        <5>1. i - 1 \in 0 .. Len(stream)
          BY <1>0, <3>1
        <5> QED BY <4>0, <5>1
      <4>2. stream[i][1] \in 1 .. Len(replies) /\ MayFollow(stream, i - 1, stream[i][1], stream[i][2])
        BY <3>1 DEF Sent
      <4>3. \A x : /\ HasNone(stream \o b, i - 1, stream[i][1]) <=> HasNone(stream, i - 1, stream[i][1])
                   /\ EndsWith(stream \o b, i - 1, stream[i][1], x) <=> EndsWith(stream, i - 1, stream[i][1], x)
        BY <1>0, <4>1, PrefixSame
      <4>4. MayFollow(stream \o b, i - 1, stream[i][1], stream[i][2])
        BY <4>2, <4>3, Zenon DEF MayFollow
      <4> QED BY <1>1, <4>1, <4>2, <4>4
    <3>2. CASE i \in Len(stream) + 1 .. Len(stream) + Len(b)
      <4> DEFINE j == i - Len(stream)
      <4>1. j \in 1 .. Len(b) /\ Len(stream) + j - 1 = i - 1
        BY <1>0, <3>2
      <4>2. stream'[i] = b[j]
        BY <1>4, <3>2
      <4> HIDE DEF j
      <4>3. stream'[i][1] = m
        BY <4>1, <4>2
      <4>4. MayFollow(stream \o b, i - 1, m, b[j][2])
        BY <4>1
      <4> QED BY <1>1, <4>2, <4>3, <4>4
    <3> QED BY <1>0, <1>4, <3>1, <3>2
  <2>3. \A i \in 1 .. Len(stream') : MayFollow(stream, i - 1, stream[i][1], stream[i][2])'
    BY <1>1, <2>2, ZenonT(60) DEF MayFollow, HasNone, EndsWith
  <2>4. Len(wire') <= Len(stream') /\ \A i \in 1 .. Len(wire') : wire'[i] = i
    <3>1. Len(stream) <= Len(stream') /\ Len(stream') \in Nat /\ accepted' = Len(stream')
      BY <1>0, <1>3, <1>4 DEF ReplyTyped
    <3> QED BY <1>0, <1>2, <1>3, <3>1, WirePrefix DEF Sent
  <2> QED BY <1>1, <2>1, <2>2, <2>3, <2>4 DEF Sent
<1>10. replies' # <<>>
  BY <1>0, <1>1
<1>11. SoleDownload' => Alone(replies[1].ctx)'
  <2> SUFFICES ASSUME SoleDownload PROVE Alone(replies[1].ctx)'
    BY <1>1 DEF SoleDownload
  <2> DEFINE c == replies[1].ctx
  <2>1. Alone(c) /\ c' = c
    BY <1>1 DEF Sole
  <2>2. /\ todo # <<>> /\ outputBuffer = <<>> /\ Never(pending, batch, "writeComplete")
        /\ todo' = <<>> /\ Len(outputBuffer) = 0
    BY <2>1 DEF Alone, DoSend
  <2>3. /\ \A i \in 1 .. Len(b) : b[i] = <<1, ItemAt(c, c.start + (Len(stream) + i) - 1)>>
        /\ Len(stream') = 1 + c.pos - c.start
    BY <1>4
  <2>4. ~c.complete /\ ~finSent
    <3>1. Head(todo).op = "send" /\ todo # <<Shutdown>>
      BY CallFields DEF DoSend
    <3> QED BY <2>1, <2>2, <3>1 DEF Alone
  <2> HIDE DEF c
  <2>5. \A i \in 1 .. Len(stream') : stream'[i] = <<1, ItemAt(c, c.start + i - 1)>>
    <3> TAKE i \in 1 .. Len(stream')
    <3>1. CASE i \in 1 .. Len(stream)
      BY <1>4, <2>1, <3>1, Zenon DEF Alone
    <3>2. CASE i \in Len(stream) + 1 .. Len(stream) + Len(b)
      <4> DEFINE j == i - Len(stream)
      <4>1. j \in 1 .. Len(b) /\ Len(stream) + j = i
        BY <1>0, <3>2, Behind
      <4>2. stream'[i] = b[j]
        BY <1>4, <3>2
      <4> HIDE DEF j
      <4>3. b[j] = <<1, ItemAt(c, c.start + (Len(stream) + j) - 1)>>
        BY <2>3, <4>1, Zenon
      <4>4. c.start + (Len(stream) + j) - 1 = c.start + i - 1
        BY <4>1
      <4> QED BY <4>2, <4>3, <4>4, Zenon
    <3>3. i \in 1 .. Len(stream) \/ i \in Len(stream) + 1 .. Len(stream) + Len(b)
      BY <1>0, <1>4
    <3> QED BY <3>1, <3>2, <3>3, Zenon
  <2>6. bound' \in Seq({1}) /\ callback' = 1
    BY <1>0, <1>1, <1>3, <1>5, <2>1, BindsFollow DEF ReplyTyped, Alone
  <2>7. Len(outputBuffer') <= ChunkSize
    <3>1. Len(outputBuffer') \in Nat
      <4>1. outputBuffer' \in Seq(Nat)
        BY <1>2 DEF IndInv, TypeOK
      <4> QED BY <4>1, LenProperties
    <3> QED BY <1>0, <1>3, <2>2, <3>1, DownloadAssumption DEF DownloadAssumption
  <2>8. Upto(1)' = c.pos /\ c.pos \in Nat
    <3>1. replies[1] \in Reply
      BY <1>0 DEF ReplyTyped
    <3> QED BY <1>8, <3>1 DEF Reply, Context, c
  <2>9. /\ Never(pending', batch', "writeComplete") \/ QueuedOnce(pending', batch', "writeComplete")
        /\ outputBuffer' # <<>> => Never(pending', batch', "writeComplete")
    <3>1. CASE pending' = pending
      BY <1>1, <2>2, <3>1
    <3>2. CASE pending' = Append(pending, "writeComplete") /\ outputBuffer' = <<>>
      BY <1>0, <1>1, <1>5, <2>2, <3>2, QueueFirst DEF Never, QueuedOnce
    <3> QED BY <1>3, <3>1, <3>2
  <2>10. \A i \in 1 .. Len(stream') : stream'[i] = <<1, ItemAt(c', c'.start + i - 1)>>
    BY <2>1, <2>5
  <2>11. Len(stream') = IF Upto(1)' = -1 THEN 0 ELSE 1 + Upto(1)' - c'.start
    BY <2>1, <2>3, <2>8, SMTT(30)
  <2>12. ~c'.complete /\ ~finSent' /\ state' = "kConnected"
    BY <1>3, <2>1, <2>4
  <2>13. Len(todo') <= 1 /\ todo' = <<>> /\ ~(todo' = <<Shutdown>>)
    BY <2>2
  <2>14. Alone(c)'
    BY <2>6, <2>7, <2>9, <2>10, <2>11, <2>12, <2>13 DEF Alone, ItemAt
  <2> QED BY <2>14 DEF c
<1> QED BY <1>2, <1>6, <1>7, <1>9, <1>10, <1>11 DEF Sole

\* A call does nothing when the connection is not up.
LEMMA Dropped ==
  ASSUME DIndInv, state # "kConnected", UNCHANGED vars, UNCHANGED <<callback, bound, replies, stream>>,
         pc = "user", todo' = <<>> \/ (todo' = <<Shutdown>> /\ replies # <<>> /\ ~SoleDownload)
  PROVE  DIndInv'
<1> USE DEF DIndInv
<1>1. IndInv'
  BY NextStep
<1>2. /\ UNCHANGED <<pc, pending, batch, state, outputBuffer, ioIsBase, wire, finSent, accepted>>
  BY DEF vars, loopVars, queueVars, connVars, serverVars, kernelVars, ghostVars
<1>3. ReplyTyped'
  BY <1>2 DEF ReplyTyped
<1>4. Calls'
  BY <1>2 DEF Calls
<1>5. Sent'
  <2>1. \A i : MayFollow(stream, i - 1, stream[i][1], stream[i][2])'
                 = MayFollow(stream, i - 1, stream[i][1], stream[i][2])
    BY DEF MayFollow, HasNone, EndsWith
  <2> QED BY <1>2, <2>1 DEF Sent
<1>6. replies' = <<>> => Fresh'
  BY <1>2 DEF Sole, Fresh
<1>7. SoleDownload' => Alone(replies[1].ctx)'
  <2> SUFFICES ASSUME SoleDownload PROVE Alone(replies[1].ctx)'
    BY DEF SoleDownload
  <2> DEFINE c == replies[1].ctx
  <2>1. Alone(c) /\ c' = c /\ todo' = <<>> /\ Len(todo') <= 1 /\ ~(todo' = <<Shutdown>>)
    BY DEF Sole
  <2> HIDE DEF c
  <2>2. Alone(c)'
    BY <1>2, <2>1 DEF Alone, ItemAt
  <2> QED BY <2>2 DEF c
<1> QED BY <1>1, <1>3, <1>4, <1>5, <1>6, <1>7 DEF Sole

\* Where a chunk of n bytes up to position q begins.
LEMMA ChunkBegins ==
  ASSUME NEW a \in Nat, NEW q \in Nat, ChunkSize \in Nat, NEW n \in 1 .. ChunkSize, a + n <= q
  PROVE  q - n \in Nat /\ n \in Nat \ {0} /\ a <= q - n /\ (q - n) + n = q /\ n <= ChunkSize
OBVIOUS

\* The position of item i behind those of a file from a to p.
LEMMA NextPosition ==
  ASSUME NEW a \in Nat, NEW p \in Nat, a <= p, NEW i \in Nat \ {0}
  PROVE  a + ((1 + p - a) + i) - 1 = p + i /\ p + i # a
OBVIOUS

\* conn->send
LEMMA SendKeeps ==
  ASSUME DIndInv, DoSend
  PROVE  DIndInv'
<1> USE DEF DIndInv
<1>0. /\ pc = "user" /\ todo # <<>> /\ Head(todo).op = "send" /\ todo' = Tail(todo)
      /\ UNCHANGED <<callback, replies>>
      /\ state # "kConnected" => UNCHANGED <<vars, bound, stream>>
  BY DEF DoSend
<1>1. /\ Len(replies) \in Nat /\ Len(stream) \in Nat /\ stream \in Seq(Nat \X Nat)
      /\ ChunkSize \in Nat \ {0}
  BY LenProperties, DownloadAssumption DEF ReplyTyped, DownloadAssumption
<1>2. \A k \in 1 .. Len(replies) :
        /\ replies[k].ctx.pos \in Nat /\ replies[k].ctx.start \in Nat /\ replies[k].ctx.size \in Nat
        /\ replies[k].ctx.start <= replies[k].ctx.pos /\ replies[k].ctx.pos <= replies[k].ctx.size
  <2> TAKE k \in 1 .. Len(replies)
  <2>1. replies[k] \in Reply /\ Reading(replies[k].ctx)
    BY DEF ReplyTyped
  <2> QED BY <2>1 DEF Reply, Context, Reading
<1>3. todo # <<Shutdown>>
  BY <1>0, CallFields
<1>4. CASE HeaderDue
  <2> DEFINE m == Len(replies)
             b == Header(m)
  <2>1. m \in 1 .. Len(replies) /\ m \in Nat
    BY <1>1, <1>4, EmptySeq DEF HeaderDue, ReplyTyped
  <2>2. Head(todo) = Send(b) /\ \A k : Upto(k) = IF k = m THEN -1 ELSE replies[k].ctx.pos
    BY <1>4, <2>1, UptoHeader DEF HeaderDue, Upto
  <2>3. /\ todo' = <<>> \/ todo' = <<Shutdown>>
        /\ Len(todo) <= 1 => todo' = <<>>
    <3>1. CASE todo = <<Send(b)>>
      BY <1>0, <3>1
    <3>2. CASE todo = <<Send(b), Shutdown>>
      BY <1>0, <3>2
    <3> QED BY <1>4, <3>1, <3>2 DEF HeaderDue
  <2>4. SoleDownload => todo' = <<>>
    BY <2>3 DEF Sole, Alone
  <2>5. CASE state # "kConnected"
    <3>1. replies # <<>>
      BY <1>4 DEF HeaderDue
    <3> QED BY <1>0, <2>3, <2>4, <2>5, <3>1, Dropped
  <2>6. CASE state = "kConnected"
    <3>1. b = Head(todo).bytes
      BY <2>2, CallFields
    <3>2. b \in Seq(Nat \X Nat) /\ Len(b) = 1 /\ b[1] = <<m, 0>>
      BY <2>1, ItemsFacts
    <3>3. \A i \in 1 .. Len(b) : b[i][1] = m /\ b[i] = <<m, 0>> /\ b[i][2] = 0 /\ i = 1
      <4>1. \A i \in 1 .. Len(b) : i = 1
        BY <3>2
      <4> HIDE DEF b
      <4> QED BY <3>2, <4>1
    <3>4. HasNone(stream, Len(stream), m)
      BY <2>1, <2>2, <2>6 DEF Sent, SentUpto
    <3>5. MayFollow(stream \o b, Len(stream), m, 0)
      BY <1>1, <2>1, <3>4, HeaderFollows
    <3>6. \A i \in 1 .. Len(b) : MayFollow(stream \o b, Len(stream) + i - 1, m, b[i][2])
      <4> TAKE i \in 1 .. Len(b)
      <4>1. i = 1 /\ b[i][2] = 0 /\ Len(stream) + i - 1 = Len(stream)
        BY <1>1, <3>3
      <4> HIDE DEF b
      <4> QED BY <3>5, <4>1
    <3>7. b[Len(b)] = <<m, ItemAt(replies[m].ctx, replies[m].ctx.pos)>>
      <4>1. ItemAt(replies[m].ctx, replies[m].ctx.pos) = 0
        BY <1>4 DEF HeaderDue, ItemAt
      <4> HIDE DEF b
      <4> QED BY <3>2, <4>1
    <3>8. ASSUME SoleDownload
          PROVE  /\ \A i \in 1 .. Len(b) :
                      b[i] = <<1, ItemAt(replies[1].ctx, replies[1].ctx.start + (Len(stream) + i) - 1)>>
                 /\ Len(stream) + Len(b) = 1 + replies[1].ctx.pos - replies[1].ctx.start
      <4> DEFINE c == replies[1].ctx
      <4>1. m = 1
        BY <3>8 DEF SoleDownload
      <4>2. Len(stream) = 0
        BY <2>2, <2>6, <3>8, <4>1 DEF Sole, Alone
      <4>3. c.pos = c.start /\ c.start \in Nat
        BY <1>2, <1>4, <4>1 DEF HeaderDue
      <4> HIDE DEF b, c
      <4>4. ASSUME NEW i \in 1 .. Len(b)
            PROVE  b[i] = <<1, ItemAt(c, c.start + (Len(stream) + i) - 1)>>
        <5>1. c.start + (Len(stream) + i) - 1 = c.start
          BY <3>3, <4>2, <4>3
        <5>2. ItemAt(c, c.start + (Len(stream) + i) - 1) = 0
          BY <5>1 DEF ItemAt
        <5> QED BY <3>3, <4>1, <5>2
      <4>5. Len(stream) + Len(b) = 1 + c.pos - c.start
        BY <3>2, <4>2, <4>3
      <4> QED BY <4>4, <4>5 DEF c
    <3>9. Len(b) \in 1 .. ChunkSize
      BY <1>1, <3>2
    <3>10. \A k \in 1 .. Len(replies) : k # m => Upto(k) = replies[k].ctx.pos
      BY <2>2
    <3> HIDE DEF b, m
    <3> QED BY <2>1, <2>3, <2>4, <2>6, <3>1, <3>2, <3>3, <3>6, <3>7, <3>8, <3>9, <3>10, Delivered
  <2> QED BY <2>5, <2>6
<1>5. ASSUME NEW m \in Nat, NEW n \in Nat, ChunkDue(m, n) PROVE DIndInv'
  <2> DEFINE c == replies[m].ctx
             p == c.pos - n
             b == Items(m, p, n)
  <2>1. /\ m \in 1 .. Len(replies) /\ n \in 1 .. ChunkSize /\ c.start + n <= c.pos
        /\ todo = <<Send(b)>>
    BY <1>5 DEF ChunkDue, ChunkOf
  <2>2. /\ c.pos \in Nat /\ c.start \in Nat /\ c.size \in Nat /\ c.pos <= c.size
        /\ p \in Nat /\ n \in Nat \ {0} /\ c.start <= p /\ p + n = c.pos /\ n <= ChunkSize
    <3>1. c.pos \in Nat /\ c.start \in Nat /\ c.size \in Nat /\ c.pos <= c.size
      BY <1>2, <2>1, Zenon
    <3>2. ChunkSize \in Nat
      BY DownloadAssumption DEF DownloadAssumption
    <3> HIDE DEF c, b
    <3> QED BY <2>1, <3>1, <3>2, ChunkBegins, Zenon
  <2>3. Head(todo) = Send(b) /\ \A k : Upto(k) = IF k = m THEN p ELSE replies[k].ctx.pos
    <3> HIDE DEF p
    <3> QED BY <2>1, <2>2, UptoChunk, SMTT(30) DEF Upto
  <2>4. todo' = <<>>
    BY <1>0, <2>1
  <2>5. CASE state # "kConnected"
    BY <1>0, <2>4, <2>5, Dropped
  <2>6. CASE state = "kConnected"
    <3>1. b = Head(todo).bytes
      BY <2>3, CallFields
    <3>2. b \in Seq(Nat \X Nat) /\ Len(b) = n
      <4> HIDE DEF p, c
      <4>1. m \in Nat /\ p \in Nat /\ n \in Nat
        BY <1>5, <2>2
      <4>2. Items(m, p, n) \in Seq(Nat \X Nat) /\ Len(Items(m, p, n)) = n
        BY <4>1, ItemsFacts
      <4> QED BY <4>2
    <3>3. \A i \in 1 .. Len(b) : b[i] = <<m, p + i>> /\ b[i][1] = m /\ b[i][2] = p + i
      <4>1. \A i \in 1 .. n : b[i] = <<m, p + i>>
        BY <2>2 DEF Items
      <4> HIDE DEF b
      <4> QED BY <3>2, <4>1
    <3>4. EndsWith(stream, Len(stream), m, ItemAt(c, p))
      <4>1. p # -1
        BY <2>2
      <4> QED BY <2>1, <2>3, <2>6, <4>1 DEF Sent, SentUpto
    <3>5. \A i \in 1 .. n : MayFollow(stream \o b, Len(stream) + i - 1, m, p + i)
      <4>1. n \in Nat /\ p + n <= c.size /\ replies \in Seq(Reply)
        BY <2>2 DEF ReplyTyped
      <4> QED BY <1>1, <2>1, <2>2, <3>4, <4>1, ChunkFollows
    <3> HIDE DEF b, p, c
    <3>6. \A i \in 1 .. Len(b) : MayFollow(stream \o b, Len(stream) + i - 1, m, b[i][2])
      BY <3>2, <3>3, <3>5
    <3>7. b[Len(b)] = <<m, ItemAt(c, c.pos)>>
      <4>1. b[n] = <<m, p + n>>
        BY <2>2, <3>2, <3>3
      <4>2. ItemAt(c, c.pos) = p + n
        BY <2>2 DEF ItemAt
      <4> QED BY <3>2, <4>1, <4>2
    <3>8. ASSUME SoleDownload
          PROVE  /\ \A i \in 1 .. Len(b) :
                      b[i] = <<1, ItemAt(replies[1].ctx, replies[1].ctx.start + (Len(stream) + i) - 1)>>
                 /\ Len(stream) + Len(b) = 1 + replies[1].ctx.pos - replies[1].ctx.start
      <4>1. m = 1
        BY <2>1, <3>8 DEF SoleDownload
      <4>2. Len(stream) = 1 + p - c.start
        <5>1. Upto(1) = p /\ p # -1
          BY <2>2, <2>3, <4>1
        <5> QED BY <2>6, <3>8, <4>1, <5>1 DEF Sole, Alone, c
      <4>3. ASSUME NEW i \in 1 .. Len(b)
            PROVE  b[i] = <<1, ItemAt(c, c.start + (Len(stream) + i) - 1)>>
        <5>0. i \in Nat \ {0}
          BY <2>2, <3>2
        <5>1. c.start + (Len(stream) + i) - 1 = p + i /\ p + i # c.start
          <6> HIDE DEF DIndInv
          <6>1. c.start \in Nat /\ p \in Nat /\ c.start <= p
            BY <2>2
          <6>2. c.start + ((1 + p - c.start) + i) - 1 = p + i /\ p + i # c.start
            BY <5>0, <6>1, NextPosition, Zenon
          <6> QED BY <4>2, <6>2, Zenon
        <5>2. ItemAt(c, c.start + (Len(stream) + i) - 1) = p + i
          BY <5>1 DEF ItemAt
        <5>3. b[i] = <<1, p + i>>
          BY <3>3, <4>1
        <5> QED BY <5>2, <5>3
      <4>4. Len(stream) + Len(b) = 1 + c.pos - c.start
        BY <2>2, <3>2, <4>2, SMTT(30)
      <4> QED BY <4>1, <4>3, <4>4 DEF c
    <3>9. Len(b) \in 1 .. ChunkSize
      BY <1>1, <2>2, <3>2
    <3>10. \A k \in 1 .. Len(replies) : k # m => Upto(k) = replies[k].ctx.pos
      BY <2>3
    <3>11. b[Len(b)] = <<m, ItemAt(replies[m].ctx, replies[m].ctx.pos)>>
      BY <3>7 DEF c
    <3> QED BY <2>1, <2>4, <2>6, <3>1, <3>2, <3>3, <3>6, <3>8, <3>9, <3>10, <3>11, Delivered
  <2> QED BY <2>5, <2>6
<1> QED BY <1>0, <1>3, <1>4, <1>5 DEF Calls

\* conn->shutdown: of the only download, only when its file is complete.
LEMMA ShutdownKeeps ==
  ASSUME DIndInv, DoShutdown
  PROVE  DIndInv'
<1> USE DEF DIndInv
<1>0. /\ pc = "user" /\ todo # <<>> /\ Head(todo).op = "shutdown" /\ todo' = Tail(todo)
      /\ UNCHANGED <<callback, bound, replies, stream>>
      /\ IF state = "kConnected" THEN shutdown ELSE UNCHANGED vars
  BY DEF DoShutdown
<1>1. todo = <<Shutdown>>
  <2>1. ~HeaderDue
    <3> SUFFICES ASSUME HeaderDue PROVE FALSE
      OBVIOUS
    <3>1. Head(todo) = Send(Header(Len(replies)))
      BY DEF HeaderDue
    <3> QED BY <1>0, <3>1, CallFields
  <2>2. ASSUME NEW k \in Nat, NEW n \in Nat, ChunkDue(k, n) PROVE FALSE
    <3>1. Head(todo) = Send(Items(k, replies[k].ctx.pos - n, n))
      BY <2>2 DEF ChunkDue, ChunkOf
    <3> QED BY <1>0, <3>1, CallFields
  <2> QED BY <1>0, <2>1, <2>2 DEF Calls
<1>2. todo' = <<>>
  BY <1>0, <1>1
<1>3. CASE state # "kConnected"
  BY <1>0, <1>2, <1>3, Dropped
<1>4. CASE state = "kConnected"
  <2>1. IndInv'
    BY <1>0, <1>4, ShutdownStep
  <2>2. /\ state' = "kDisconnecting"
        /\ UNCHANGED <<pc, pending, batch, outputBuffer, ioIsBase, wire, accepted>>
    BY <1>0, <1>4 DEF shutdown, loopVars, queueVars, serverVars, ghostVars
  <2>3. ReplyTyped'
    BY <1>0, <2>2 DEF ReplyTyped
  <2>4. Calls'
    BY <1>0, <1>2, <2>2 DEF Calls
  <2>5. Sent'
    <3>1. \A i : MayFollow(stream, i - 1, stream[i][1], stream[i][2])'
                   = MayFollow(stream, i - 1, stream[i][1], stream[i][2])
      BY <1>0 DEF MayFollow, HasNone, EndsWith
    <3> QED BY <1>0, <2>2, <3>1 DEF Sent
  <2>6. replies' # <<>>
    BY <1>0, <1>1 DEF Sole, Fresh
  <2>7. SoleDownload' => Alone(replies[1].ctx)'
    <3> SUFFICES ASSUME SoleDownload PROVE Alone(replies[1].ctx)'
      BY <1>0 DEF SoleDownload
    <3> DEFINE c == replies[1].ctx
    <3>1. /\ Alone(c) /\ c' = c /\ c.complete
          /\ outputBuffer = <<>> /\ Never(pending, batch, "writeComplete")
      BY <1>0, <1>1 DEF Sole, Alone
    <3>2. c.pos = c.size /\ c.pos \in Nat /\ c.start \in Nat
      <4>0. 1 \in 1 .. Len(replies)
        BY DEF SoleDownload
      <4>1. replies[1] \in Reply /\ Reading(replies[1].ctx)
        BY <4>0 DEF ReplyTyped
      <4> QED BY <3>1, <4>1 DEF Reply, Context, Reading
    <3>3. Upto(1) = c.pos
      BY <1>1, UptoPos DEF Upto
    <3>4. Len(stream) = 1 + c.size - c.start
      BY <1>4, <3>1, <3>2, <3>3, SMTT(30) DEF Alone
    <3> HIDE DEF c
    <3>5. Len(todo') <= 1 /\ ~(todo' = <<Shutdown>>)
      BY <1>2
    <3>6. Alone(c)'
      BY <1>0, <1>2, <2>2, <3>1, <3>4, <3>5 DEF Alone, ItemAt
    <3> QED BY <3>6 DEF c
  <2> QED BY <2>1, <2>3, <2>4, <2>5, <2>6, <2>7 DEF Sole
<1> QED BY <1>3, <1>4

\* User code returns to the loop.
LEMMA ReturnKeeps ==
  ASSUME DIndInv, Return
  PROVE  DIndInv'
<1> USE DEF DIndInv
<1>1. /\ pc = "user" /\ todo = <<>> /\ pc' = ret /\ UNCHANGED <<todo, callback, bound, replies, stream>>
      /\ UNCHANGED <<pending, batch, state, outputBuffer, ioIsBase, wire, finSent, accepted>>
  BY DEF Return, UserReturns, replyVars, queueVars, connVars, serverVars, kernelVars, ghostVars
<1>2. UserReturns
  BY DEF Return
<1>3. IndInv'
  BY <1>2, NextStep DEF Next, LoopStep
<1>4. Moves
  BY <1>1, StillMoves
<1>5. pc' # "flush"
  BY <1>1 DEF IndInv, TypeOK
<1>6. Drives
  BY <1>1, <1>3, <1>4, <1>5, MovesDrive
<1>7. Binds
  <2>1. Len(batch) \in Nat /\ Len(pending) \in Nat
    BY LenProperties DEF IndInv, TypeOK
  <2> QED BY <1>1, <2>1 DEF Binds
<1> QED BY <1>1, <1>3, <1>6, <1>7, DrivesKeep

\* What the handlers answer with.
LEMMA ResponsesTyped ==
  ASSUME NEW r \in Responses
  PROVE  /\ r.kind \in {"get", "answer"} /\ r.ctx \in Context /\ Reading(r.ctx)
         /\ r.ctx.pos = r.ctx.start /\ r.ctx.complete = FALSE
<1>1. \A a, z \in Nat : a <= z =>
        LET c == FileDownContext(a, z)
        IN  c \in Context /\ Reading(c) /\ c.pos = c.start /\ c.complete = FALSE
  BY DEF FileDownContext, Context, Reading
<1>2. ASSUME NEW x, x = Answer
      PROVE  /\ x.kind \in {"get", "answer"} /\ x.ctx \in Context /\ Reading(x.ctx)
             /\ x.ctx.pos = x.ctx.start /\ x.ctx.complete = FALSE
  BY <1>1, <1>2 DEF Answer
<1>3. ASSUME NEW x, NEW a \in Nat, NEW z \in Nat, a <= z,
             x = [kind |-> "get", ctx |-> FileDownContext(a, z)]
      PROVE  /\ x.kind \in {"get", "answer"} /\ x.ctx \in Context /\ Reading(x.ctx)
             /\ x.ctx.pos = x.ctx.start /\ x.ctx.complete = FALSE
  BY <1>1, <1>3
<1>4. ASSUME NEW me, NEW s \in {NoRange, 1}, NEW n \in FileSizes
      PROVE  \/ handleDownload(me, s, n) = Answer
             \/ \E a, z \in Nat : a <= z /\ handleDownload(me, s, n)
                                             = [kind |-> "get", ctx |-> FileDownContext(a, z)]
  BY DownloadAssumption DEF DownloadAssumption, handleDownload, NoRange
<1>5. ASSUME NEW s \in {NoRange, 1}, NEW n \in FileSizes
      PROVE  \/ handleShareDownload("GET", s, n) = Answer
             \/ \E a, z \in Nat : a <= z /\ handleShareDownload("GET", s, n)
                                             = [kind |-> "get", ctx |-> FileDownContext(a, z)]
  BY DownloadAssumption DEF DownloadAssumption, handleShareDownload, NoRange
<1>6. \/ r = Answer
      \/ \E a, z \in Nat : a <= z /\ r = [kind |-> "get", ctx |-> FileDownContext(a, z)]
  BY <1>4, <1>5 DEF Responses, handleIndex, handleNotFound
<1> QED BY <1>2, <1>3, <1>6

\* A request that arrives is answered behind all that was sent.
LEMMA RequestKeeps ==
  ASSUME DIndInv, IndInv', pc = "handle", pc' = "user", NEW r \in Responses, NEW close \in BOOLEAN,
         onRequest(r, close), UNCHANGED <<stream, bound>>,
         UNCHANGED <<pending, batch, state, outputBuffer, ioIsBase, wire, finSent, accepted>>
  PROVE  DIndInv'
<1> USE DEF DIndInv
<1> DEFINE m == Len(replies) + 1
           new == [kind |-> r.kind, ctx |-> r.ctx, close |-> close]
<1>0. /\ Len(replies) \in Nat /\ replies \in Seq(Reply) /\ m \in Nat /\ m # 0
      /\ Len(stream) \in Nat /\ stream \in Seq(Nat \X Nat)
  BY LenProperties DEF ReplyTyped
<1>1. /\ r.kind \in {"get", "answer"} /\ r.ctx \in Context /\ Reading(r.ctx)
      /\ r.ctx.pos = r.ctx.start /\ r.ctx.complete = FALSE
  BY ResponsesTyped
<1>2. new \in Reply
  BY <1>1 DEF Reply
<1>3. /\ replies' = Append(replies, new)
      /\ callback' = (IF r.kind = "get" THEN m ELSE 0)
      /\ todo' = IF close THEN <<Send(Header(m)), Shutdown>> ELSE <<Send(Header(m))>>
  BY DEF onRequest
<1>4. /\ replies' \in Seq(Reply) /\ Len(replies') = m /\ replies'[m] = new /\ replies' # <<>>
      /\ \A k \in 1 .. Len(replies) : replies'[k] = replies[k]
  BY <1>0, <1>2, <1>3, AppendProperties
<1>5. new.ctx = r.ctx /\ new.kind = r.kind /\ new.close = close
  OBVIOUS
<1> HIDE DEF new
<1>6. todo = <<>> /\ Up
  BY DEF Calls, IndInv, Life
<1>7. \A k \in 1 .. m : k \in 1 .. Len(replies) \/ k = m
  BY <1>0
<1>8. \A k : UptoOf(todo', replies', k) = IF k = m THEN -1 ELSE replies'[k].ctx.pos
  <2> HIDE DEF m
  <2>1. todo' = <<Send(Header(m))>> \/ todo' = <<Send(Header(m)), Shutdown>>
    BY <1>3, Zenon
  <2> QED BY <1>0, <2>1, UptoHeader, SMTT(30)
<1>9. ReplyTyped'
  <2>1. \A k \in 1 .. m : Reading(replies'[k].ctx)
    BY <1>1, <1>4, <1>5, <1>7 DEF ReplyTyped
  <2>2. callback' \in 0 .. m
    BY <1>0, <1>3
  <2>3. bound \in Seq(0 .. m)
    <3>1. bound \in Seq(0 .. Len(replies)) /\ 0 .. Len(replies) \subseteq 0 .. m
      BY <1>0 DEF ReplyTyped
    <3> QED BY <3>1
  <2>4. state # "kConnecting"
    BY <1>6 DEF Up
  <2> QED BY <1>4, <2>1, <2>2, <2>3, <2>4 DEF ReplyTyped
<1>10. Calls'
  <2>1. HeaderDue'
    BY <1>1, <1>3, <1>4, <1>5 DEF HeaderDue
  <2> QED BY <2>1 DEF Calls
<1>11. Sent'
  <2>1. ASSUME state = "kConnected", NEW k \in 1 .. m PROVE SentUpto(k)'
    <3>1. CASE k = m
      <4>1. \A j \in 1 .. Len(stream) : stream[j][1] # m
        BY <1>0, SMTT(30) DEF Sent
      <4>2. Upto(k)' = -1 /\ HasNone(stream, Len(stream), k)'
        BY <1>8, <3>1, <4>1 DEF Upto, HasNone
      <4> QED BY <4>2 DEF SentUpto
    <3>2. CASE k \in 1 .. Len(replies) /\ k # m
      <4>1. replies'[k] = replies[k] /\ replies[k] \in Reply
        BY <1>0, <1>4, <3>2
      <4>2. Upto(k)' = replies[k].ctx.pos /\ Upto(k) = replies[k].ctx.pos
        BY <1>6, <1>8, <3>2, <4>1, UptoPos DEF Upto
      <4>3. replies[k].ctx.pos # -1
        BY <4>1 DEF Reply, Context
      <4>4. EndsWith(stream, Len(stream), k, ItemAt(replies[k].ctx, replies[k].ctx.pos))
        BY <2>1, <3>2, <4>2, <4>3 DEF Sent, SentUpto
      <4>5. (EndsWith(stream, Len(stream), k, ItemAt(replies[k].ctx, Upto(k))))'
        BY <4>1, <4>2, <4>4 DEF EndsWith, ItemAt
      <4>6. (Upto(k) # -1)'
        BY <4>2, <4>3
      <4> QED BY <4>5, <4>6 DEF SentUpto
    <3>3. k # m => k \in 1 .. Len(replies)
      BY <1>7, <2>1
    <3> QED BY <3>1, <3>2, <3>3
  <2>2. ASSUME NEW i \in 1 .. Len(stream)
        PROVE  /\ stream[i][1] \in 1 .. Len(replies')
               /\ MayFollow(stream, i - 1, stream[i][1], stream[i][2])'
    <3> DEFINE k == stream[i][1]
    <3>1. k \in 1 .. Len(replies) /\ MayFollow(stream, i - 1, k, stream[i][2])
      BY <2>2 DEF Sent
    <3>2. replies'[k] = replies[k] /\ k \in 1 .. Len(replies')
      BY <1>0, <1>4, <3>1, SMTT(30)
    <3>3. MayFollow(stream, i - 1, k, stream[i][2])'
      BY <3>1, <3>2 DEF MayFollow, HasNone, EndsWith
    <3> QED BY <3>2, <3>3
  <2> QED BY <1>4, <2>1, <2>2 DEF Sent
<1>12. SoleDownload' => Alone(replies[1].ctx)'
  <2> SUFFICES ASSUME SoleDownload' PROVE Alone(replies[1].ctx)'
    OBVIOUS
  <2>1. m = 1 /\ Len(replies) = 0 /\ replies = <<>> /\ new.kind = "get" /\ ~new.close
    <3>1. Len(replies') = 1 /\ replies'[1].kind = "get" /\ ~replies'[1].close
      BY DEF SoleDownload
    <3>2. m = 1 /\ Len(replies) = 0
      BY <1>0, <1>4, <3>1
    <3>3. replies'[1] = new
      BY <1>4, <3>2
    <3>4. new.kind = "get" /\ ~new.close
      BY <3>1, <3>3
    <3> QED BY <1>0, <3>2, <3>4, EmptySeq
  <2>2. Fresh
    BY <2>1 DEF Sole
  <2>3. bound = <<>>
    <3>1. pending = <<>> /\ batch = <<>>
      BY <1>6, <2>2 DEF Fresh, Up
    <3>2. Len(bound) = 0
      BY <3>1 DEF ReplyTyped
    <3> QED BY <3>2, EmptySeq DEF ReplyTyped
  <2>4. replies'[1].ctx = r.ctx
    BY <1>4, <1>5, <2>1
  <2>5. callback' = 1 /\ todo' = <<Send(Header(1))>>
    BY <1>3, <1>5, <2>1
  <2>6. todo' # <<>> /\ Len(todo') = 1 /\ ~(todo' = <<Shutdown>>)
    <3>1. Head(todo') = Send(Header(1))
      BY <2>5
    <3>2. Head(todo') # Shutdown
      BY <3>1, CallFields
    <3> QED BY <2>5, <3>2
  <2>7. Upto(1)' = -1
    BY <1>8, <2>1 DEF Upto
  <2>8. Len(stream') = 0 /\ Len(outputBuffer') <= ChunkSize /\ outputBuffer' = <<>>
    BY <2>2, DownloadAssumption DEF DownloadAssumption, Fresh
  <2>9. bound' \in Seq({1})
    BY <2>3
  <2>10. ~finSent' /\ state' # "kDisconnecting" /\ Never(pending', batch', "writeComplete")
    BY <2>2 DEF Fresh
  <2> QED BY <1>1, <2>4, <2>5, <2>6, <2>7, <2>8, <2>9, <2>10 DEF Alone
<1> QED BY <1>4, <1>9, <1>10, <1>11, <1>12 DEF Sole

\* Channel::handleEvent's read part, with the request it may bring.
LEMMA InputKeeps ==
  ASSUME DIndInv, Input
  PROVE  DIndInv'
<1> USE DEF DIndInv
<1>0. HandleInput /\ Binds /\ stream' = stream
  BY DEF Input
<1>1. IndInv'
  BY <1>0, HandleInputStep
<1>2. /\ pc = "handle" /\ UNCHANGED <<batch, wire, finSent>>
      /\ pc' = "user" \/ pc' = "write"
  BY <1>0 DEF HandleInput
<1>3. CASE pc' = "user"
  <2>1. UNCHANGED <<pending, connVars, serverVars, ghostVars>>
    BY <1>0, <1>3 DEF HandleInput
  <2>2. UNCHANGED <<pending, state, outputBuffer, ioIsBase, accepted>>
    BY <2>1 DEF connVars, serverVars, ghostVars
  <2>3. bound' = bound
    <3>1. Len(batch) \in Nat /\ Len(pending) \in Nat
      BY LenProperties DEF IndInv, TypeOK
    <3> QED BY <1>0, <1>2, <2>2, <3>1 DEF Binds
  <2>4. PICK r \in Responses, close \in BOOLEAN : onRequest(r, close)
    BY <1>3 DEF Input
  <2> QED BY <1>0, <1>1, <1>2, <1>3, <2>2, <2>3, <2>4, RequestKeeps
<1>4. CASE pc' = "write"
  <2>1. Moves
    <3>1. CASE handleClose
      BY <1>2, <3>1, CloseMoves
    <3>2. CASE UNCHANGED <<pending, connVars, serverVars, ghostVars>>
      BY <1>2, <3>2, StillMoves DEF connVars, serverVars, ghostVars
    <3> QED BY <1>0, <1>4, <3>1, <3>2 DEF HandleInput
  <2>2. Drives
    BY <1>1, <1>2, <1>4, <2>1, MovesDrive
  <2>3. UNCHANGED <<todo, callback, replies>>
    BY <1>4 DEF Input
  <2> QED BY <1>0, <1>1, <2>2, <2>3, DrivesKeep
<1> QED BY <1>2, <1>3, <1>4

-----------------------------------------------------------------------------
(* The write-complete callback.                                            *)

\* What readNextChunk reads of a context that is not at its end.
LEMMA ReadSome ==
  ASSUME NEW c \in Context, Reading(c)
  PROVE  /\ endOfFile(c) => c.pos = c.size
         /\ ~endOfFile(c) => /\ ~c.complete /\ bytesToRead(c) \in 1 .. ChunkSize
                             /\ c.pos + bytesToRead(c) <= c.size
<1>1. ChunkSize \in Nat \ {0} /\ c.pos \in Nat /\ c.size \in Nat /\ c.pos <= c.size
      /\ (c.complete => c.pos = c.size)
  BY DownloadAssumption DEF DownloadAssumption, Context, Reading
<1> QED BY <1>1 DEF endOfFile, bytesToRead

\* Such a functor is the connection's first in the batch, so some request was
\* answered; of the only download it finds nothing buffered and no end of file.
LEMMA CompleteFinds ==
  ASSUME DIndInv, WriteComplete
  PROVE  /\ IndInv' /\ todo = <<>> /\ replies # <<>> /\ pc' = "user"
         /\ UNCHANGED <<callback, stream, pending, state, outputBuffer, ioIsBase, wire, finSent, accepted>>
         /\ Head(bound) \in 0 .. Len(replies)
         /\ bound' \in Seq(0 .. Len(replies)) /\ Len(bound') = Len(batch') + Len(pending')
         /\ Never(pending', batch', "highWaterMark")
         /\ SoleDownload => /\ Head(bound) = 1 /\ bound' \in Seq({1}) /\ outputBuffer = <<>>
                            /\ Never(pending', batch', "writeComplete")
                            /\ ~replies[1].ctx.complete /\ ~finSent /\ state # "kDisconnecting"
<1> USE DEF DIndInv
<1>0. /\ pending \in Seq(Functors) /\ batch \in Seq(Functors)
      /\ Len(pending) \in Nat /\ Len(batch) \in Nat
  BY LenProperties DEF IndInv, TypeOK
<1>1. RunUserCallback /\ Binds /\ UNCHANGED <<callback, stream>>
  BY DEF WriteComplete
<1>2. IndInv'
  BY <1>1, NextStep DEF Next, LoopStep
<1>3. /\ pc = "functors" /\ pc' = "user" /\ batch # <<>> /\ batch' = Tail(batch)
      /\ Head(batch) \in {"writeComplete", "highWaterMark"}
      /\ UNCHANGED <<pending, state, outputBuffer, ioIsBase, wire, finSent, accepted>>
  BY <1>1 DEF RunUserCallback, Next_, connVars, serverVars, kernelVars
<1>4. Head(batch) # "highWaterMark" /\ Never(pending', batch', "highWaterMark")
  BY <1>0, <1>3, RunFirst DEF ReplyTyped, Never
<1>5. Head(batch) = "writeComplete"
  BY <1>3, <1>4
<1>6. ~Never(pending, batch, "writeComplete")
  BY <1>0, <1>3, <1>5, RunFirst DEF Never
<1>7. replies # <<>>
  BY <1>6 DEF Sole, Fresh
<1>8. todo = <<>>
  BY <1>3 DEF Calls
<1>9. bound # <<>>
  <2>1. Len(batch) # 0
    BY <1>0, <1>3, EmptySeq
  <2>2. Len(bound) # 0
    BY <1>0, <2>1 DEF ReplyTyped
  <2> QED BY <2>2
<1>10. \A S : bound \in Seq(S) => Head(bound) \in S
  BY <1>9, HeadTailProperties
<1>11. \A S : bound \in Seq(S) /\ callback \in S =>
         bound' \in Seq(S) /\ Len(bound') = Len(batch') + Len(pending')
  BY <1>0, <1>1, <1>3, BindsFollow DEF ReplyTyped
<1>12. ASSUME SoleDownload
       PROVE  /\ Head(bound) = 1 /\ bound' \in Seq({1}) /\ outputBuffer = <<>>
              /\ Never(pending', batch', "writeComplete")
              /\ ~replies[1].ctx.complete /\ ~finSent /\ state # "kDisconnecting"
  <2>1. Alone(replies[1].ctx)
    BY <1>12 DEF Sole
  <2>2. bound \in Seq({1}) /\ callback \in {1}
    BY <2>1 DEF Alone
  <2>3. Head(bound) = 1 /\ bound' \in Seq({1})
    BY <1>10, <1>11, <2>2
  <2>4. /\ outputBuffer = <<>> /\ QueuedOnce(pending, batch, "writeComplete")
        /\ ~replies[1].ctx.complete /\ ~finSent /\ state # "kDisconnecting"
    BY <1>6, <2>1 DEF Alone
  <2>5. Never(pending', batch', "writeComplete")
    BY <1>0, <1>3, <1>5, <2>4, RunFirst DEF Never, QueuedOnce, Once, Lacks
  <2> QED BY <2>3, <2>4, <2>5
<1>13. bound \in Seq(0 .. Len(replies)) /\ callback \in 0 .. Len(replies)
  BY DEF ReplyTyped
<1> QED BY <1>1, <1>2, <1>3, <1>4, <1>7, <1>8, <1>10, <1>11, <1>12, <1>13

\* What the callback does to the replies: a context may move on, with the bytes
\* it passes due to be sent, or be marked complete, with a shutdown due.
Advanced(reps, new, calls) ==
  /\ new \in Seq(Reply) /\ Len(new) = Len(reps)
  /\ \A j \in 1 .. Len(reps) :
       /\ new[j].kind = reps[j].kind /\ new[j].close = reps[j].close
       /\ new[j].ctx.start = reps[j].ctx.start /\ new[j].ctx.size = reps[j].ctx.size
       /\ Reading(new[j].ctx)
       /\ UptoOf(calls, new, j) = reps[j].ctx.pos
  /\ calls = <<Shutdown>> \/ \E k, n \in Nat : ChunkOf(calls, new, k, n)

\* A reply and its context.
LEMMA ReplyFields ==
  ASSUME NEW rs \in Seq(Reply), NEW k \in 1 .. Len(rs)
  PROVE  /\ Len(rs) \in Nat /\ k \in Nat /\ rs[k] \in Reply /\ rs[k].ctx \in Context
         /\ rs[k].ctx.pos \in Nat /\ rs[k].ctx.size \in Nat /\ rs[k].ctx.start \in Nat
         /\ rs[k].ctx.complete \in BOOLEAN
<1>1. Len(rs) \in Nat /\ k \in Nat /\ rs[k] \in Reply
  BY LenProperties
<1>2. rs[k].ctx \in Context
  BY <1>1 DEF Reply
<1> QED BY <1>1, <1>2 DEF Context

\* Another context for reply k.
WithContext(rs, k, d) == [rs EXCEPT ![k] = [rs[k] EXCEPT !.ctx = d]]

LEMMA ContextReplaced ==
  ASSUME NEW rs \in Seq(Reply), NEW k \in 1 .. Len(rs), NEW d \in Context, NEW new,
         new = WithContext(rs, k, d)
  PROVE  /\ new \in Seq(Reply) /\ Len(new) = Len(rs)
         /\ new[k].ctx = d /\ new[k].kind = rs[k].kind /\ new[k].close = rs[k].close
         /\ \A j \in 1 .. Len(rs) : j # k => new[j] = rs[j]
<1> DEFINE e == [rs[k] EXCEPT !.ctx = d]
<1>0. rs[k] \in Reply
  BY ReplyFields
<1>1. e \in Reply /\ e.ctx = d /\ e.kind = rs[k].kind /\ e.close = rs[k].close
  BY <1>0 DEF Reply
<1> HIDE DEF e
<1>2. /\ [rs EXCEPT ![k] = e] \in Seq(Reply) /\ Len([rs EXCEPT ![k] = e]) = Len(rs)
      /\ \A j \in 1 .. Len(rs) : [rs EXCEPT ![k] = e][j] = IF j = k THEN e ELSE rs[j]
  BY <1>1, ExceptSeq
<1>3. new = [rs EXCEPT ![k] = e]
  BY DEF e, WithContext
<1>4. /\ new \in Seq(Reply) /\ Len(new) = Len(rs)
      /\ \A j \in 1 .. Len(rs) : new[j] = IF j = k THEN e ELSE rs[j]
  BY <1>2, <1>3, Zenon
<1> QED BY <1>1, <1>4

\* The replies advance when the context of reply k becomes d.
LEMMA ContextMoves ==
  ASSUME NEW rs \in Seq(Reply), \A j \in 1 .. Len(rs) : Reading(rs[j].ctx),
         NEW k \in 1 .. Len(rs), NEW d \in Context, Reading(d),
         d.start = rs[k].ctx.start, d.size = rs[k].ctx.size,
         NEW new, new = WithContext(rs, k, d), NEW t,
         \A j \in 1 .. Len(rs) : UptoOf(t, new, j) = IF j = k THEN rs[k].ctx.pos ELSE new[j].ctx.pos,
         t = <<Shutdown>> \/ \E m, n \in Nat : ChunkOf(t, new, m, n)
  PROVE  Advanced(rs, new, t)
<1>1. /\ new \in Seq(Reply) /\ Len(new) = Len(rs)
      /\ new[k].ctx = d /\ new[k].kind = rs[k].kind /\ new[k].close = rs[k].close
      /\ \A j \in 1 .. Len(rs) : j # k => new[j] = rs[j]
  <2>1. \A q : q = WithContext(rs, k, d) =>
          /\ q \in Seq(Reply) /\ Len(q) = Len(rs)
          /\ q[k].ctx = d /\ q[k].kind = rs[k].kind /\ q[k].close = rs[k].close
          /\ \A j \in 1 .. Len(rs) : j # k => q[j] = rs[j]
    BY ContextReplaced
  <2> QED BY <2>1, Zenon
<1>2. ASSUME NEW j \in 1 .. Len(rs)
      PROVE  /\ new[j].kind = rs[j].kind /\ new[j].close = rs[j].close
             /\ new[j].ctx.start = rs[j].ctx.start /\ new[j].ctx.size = rs[j].ctx.size
             /\ Reading(new[j].ctx)
             /\ UptoOf(t, new, j) = rs[j].ctx.pos
  <2>1. CASE j = k
    BY <1>1, <2>1
  <2>2. CASE j # k
    BY <1>1, <2>2
  <2> QED BY <2>1, <2>2
<1> QED BY <1>1, <1>2 DEF Advanced

\* The call that sends n bytes of reply m from position p on.
ChunkCall(m, p, n) == <<Send(Items(m, p, n))>>

IsChunkCall(t, m, p, n) ==
  /\ t # <<>> /\ Len(t) = 1 /\ Head(t) = Send(Items(m, p, n))
  /\ \A rs, k : UptoOf(t, rs, k) = IF k = m THEN p ELSE rs[k].ctx.pos

LEMMA ChunkUpto ==
  ASSUME NEW m \in Nat, NEW p \in Nat, NEW n \in Nat \ {0}
  PROVE  IsChunkCall(ChunkCall(m, p, n), m, p, n)
<1>1. ChunkCall(m, p, n) = <<Send(Items(m, p, n))>>
  BY DEF ChunkCall
<1>2. Len(ChunkCall(m, p, n)) = 1
  BY <1>1
<1> QED BY <1>1, <1>2, UptoChunk DEF IsChunkCall

\* A context that goes on: the chunk it passes is sent next.
ReadOn(c, n)         == [c EXCEPT !.pos = @ + n]
Further(rs, k)       == WithContext(rs, k, ReadOn(rs[k].ctx, bytesToRead(rs[k].ctx)))
FurtherCalls(rs, k)  == ChunkCall(k, rs[k].ctx.pos, bytesToRead(rs[k].ctx))

LEMMA ChunkAdvances ==
  ASSUME NEW rs \in Seq(Reply), \A j \in 1 .. Len(rs) : Reading(rs[j].ctx),
         NEW k \in 1 .. Len(rs), ~endOfFile(rs[k].ctx)
  PROVE  /\ Advanced(rs, Further(rs, k), FurtherCalls(rs, k))
         /\ FurtherCalls(rs, k) # <<Shutdown>> /\ Len(FurtherCalls(rs, k)) = 1
         /\ Further(rs, k)[k].ctx.complete = FALSE
<1> DEFINE c == rs[k].ctx
           n == bytesToRead(c)
           d == ReadOn(c, n)
           t == FurtherCalls(rs, k)
           new == Further(rs, k)
<1>0. /\ c \in Context /\ Reading(c) /\ k \in Nat
      /\ c.pos \in Nat /\ c.size \in Nat /\ c.start \in Nat /\ c.complete \in BOOLEAN
  BY ReplyFields
<1>1. /\ ~c.complete /\ n \in 1 .. ChunkSize /\ c.pos + n <= c.size
      /\ ChunkSize \in Nat
  BY <1>0, ReadSome, DownloadAssumption DEF DownloadAssumption
<1>2. new = WithContext(rs, k, d) /\ t = ChunkCall(k, c.pos, n)
  BY DEF Further, FurtherCalls
<1> HIDE DEF n, d, t, new
<1>3. n \in Nat \ {0}
  BY <1>1
<1>4. /\ d \in Context /\ d.pos = c.pos + n /\ d.start = c.start /\ d.size = c.size
      /\ d.complete = c.complete
  BY <1>0, <1>3, SMTT(30) DEF Context, ReadOn, d
<1>5. Reading(d)
  BY <1>0, <1>1, <1>3, <1>4, SMTT(30) DEF Reading
<1>6. Len(new) = Len(rs) /\ new[k].ctx = d
  BY <1>4, <1>2, ContextReplaced
<1>7. /\ Len(t) = 1 /\ t # <<>> /\ Head(t) = Send(Items(k, c.pos, n))
      /\ \A j : UptoOf(t, new, j) = IF j = k THEN c.pos ELSE new[j].ctx.pos
  <2> HIDE DEF c
  <2>1. k \in Nat /\ c.pos \in Nat /\ n \in Nat \ {0}
    BY <1>0, <1>3
  <2>2. IsChunkCall(ChunkCall(k, c.pos, n), k, c.pos, n)
    BY <2>1, ChunkUpto, Zenon
  <2>3. IsChunkCall(t, k, c.pos, n)
    BY <1>2, <2>2
  <2> QED BY <2>3 DEF IsChunkCall
<1>8. t # <<Shutdown>>
  <2>1. Head(t) # Shutdown
    BY <1>7, CallFields
  <2> QED BY <2>1
<1>9. ChunkOf(t, new, k, n)
  <2>1. d.pos - n = c.pos /\ d.start + n <= d.pos
    BY <1>0, <1>3, <1>4 DEF Reading
  <2>2. t = <<Send(Items(k, new[k].ctx.pos - n, n))>>
    BY <1>2, <1>6, <2>1 DEF ChunkCall
  <2>3. new[k].ctx.start + n <= new[k].ctx.pos
    BY <1>6, <2>1
  <2>4. k \in 1 .. Len(new) /\ n \in 1 .. ChunkSize
    BY <1>1, <1>6
  <2> QED BY <2>2, <2>3, <2>4 DEF ChunkOf
<1>10. Advanced(rs, new, t)
  BY <1>0, <1>3, <1>4, <1>5, <1>2, <1>7, <1>9, ContextMoves
<1>11. new[k].ctx.complete = FALSE
  BY <1>0, <1>1, <1>4, <1>6
<1> QED BY <1>7, <1>8, <1>10, <1>11 DEF t, new

\* The end of a file.
LEMMA EndAdvances ==
  ASSUME NEW rs \in Seq(Reply), \A j \in 1 .. Len(rs) : Reading(rs[j].ctx),
         NEW k \in 1 .. Len(rs), endOfFile(rs[k].ctx),
         NEW new, new = WithContext(rs, k, [rs[k].ctx EXCEPT !.complete = TRUE]),
         NEW t, t = <<Shutdown>>
  PROVE  Advanced(rs, new, t) /\ new[k].ctx.complete
<1> DEFINE c == rs[k].ctx
           d == [c EXCEPT !.complete = TRUE]
<1>0. c \in Context /\ Reading(c)
  BY ReplyFields
<1>1. c.pos = c.size
  BY <1>0, ReadSome
<1>2. /\ d \in Context /\ d.pos = c.pos /\ d.start = c.start /\ d.size = c.size
      /\ d.complete
  BY <1>0 DEF Context
<1>3. Reading(d)
  BY <1>0, <1>1, <1>2 DEF Reading
<1> HIDE DEF d
<1>4. new = WithContext(rs, k, d)
  BY DEF d
<1>5. new[k].ctx = d
  BY <1>2, <1>4, ContextReplaced
<1>6. \A j : UptoOf(t, new, j) = new[j].ctx.pos
  BY UptoPos
<1>7. \A j \in 1 .. Len(rs) : UptoOf(t, new, j) = IF j = k THEN c.pos ELSE new[j].ctx.pos
  BY <1>2, <1>5, <1>6
<1>8. Advanced(rs, new, t)
  BY <1>2, <1>3, <1>4, <1>7, ContextMoves
<1> QED BY <1>2, <1>5, <1>8

\* What is sent so far stays in order when contexts advance.
LEMMA AdvanceSent ==
  ASSUME Sent, stream \in Seq(Nat \X Nat), replies \in Seq(Reply), UNCHANGED <<stream, wire, state>>,
         todo = <<>>, Len(replies') = Len(replies),
         \A j \in 1 .. Len(replies) :
           /\ replies'[j].ctx.start = replies[j].ctx.start /\ replies'[j].ctx.size = replies[j].ctx.size
           /\ UptoOf(todo', replies', j) = replies[j].ctx.pos
  PROVE  Sent'
<1>1. ASSUME state = "kConnected", NEW k \in 1 .. Len(replies) PROVE SentUpto(k)'
  <2>1. Upto(k) = replies[k].ctx.pos /\ Upto(k)' = replies[k].ctx.pos
    BY UptoPos DEF Upto
  <2>2. replies'[k].ctx.start = replies[k].ctx.start
    OBVIOUS
  <2>3. SentUpto(k)
    BY <1>1 DEF Sent
  <2>4. ItemAt(replies[k].ctx, Upto(k))' = ItemAt(replies[k].ctx, Upto(k))
    BY <2>1, <2>2 DEF ItemAt
  <2>5. /\ HasNone(stream, Len(stream), k)' = HasNone(stream, Len(stream), k)
        /\ \A x : EndsWith(stream', Len(stream'), k, x) = EndsWith(stream, Len(stream), k, x)
    BY DEF HasNone, EndsWith
  <2> QED BY <2>1, <2>3, <2>4, <2>5 DEF SentUpto
<1>2. ASSUME NEW i \in 1 .. Len(stream)
      PROVE  /\ stream[i][1] \in 1 .. Len(replies')
             /\ MayFollow(stream, i - 1, stream[i][1], stream[i][2])'
  <2> DEFINE k == stream[i][1]
  <2>1. k \in 1 .. Len(replies) /\ MayFollow(stream, i - 1, k, stream[i][2])
    BY <1>2 DEF Sent
  <2>2. /\ replies'[k].ctx.start = replies[k].ctx.start /\ replies'[k].ctx.size = replies[k].ctx.size
    BY <2>1, SMTT(30)
  <2>3. MayFollow(stream, i - 1, k, stream[i][2])'
    BY <2>1, <2>2 DEF MayFollow, HasNone, EndsWith
  <2> QED BY <2>1, <2>3
<1> QED BY <1>1, <1>2 DEF Sent

\* The only download goes on alone when its context advances.
LEMMA AdvanceAlone ==
  ASSUME NEW c, NEW d, Alone(c), todo = <<>>, Upto(1)' = Upto(1), d.start = c.start, d.size = c.size,
         UNCHANGED <<callback, stream, state, outputBuffer, finSent>>,
         bound' \in Seq({1}), outputBuffer = <<>>, Never(pending', batch', "writeComplete"),
         ~finSent, state # "kDisconnecting", Len(todo') = 1, d.complete <=> (todo' = <<Shutdown>>)
  PROVE  Alone(d)'
<1>1. \A x : ItemAt(d, x) = ItemAt(c, x)
  BY DEF ItemAt
<1>2. /\ \A i \in 1 .. Len(stream') : stream'[i] = <<1, ItemAt(d, d.start + i - 1)>>
      /\ state' = "kConnected" =>
           Len(stream') = IF Upto(1)' = -1 THEN 0 ELSE 1 + Upto(1)' - d.start
  BY <1>1 DEF Alone
<1>3. callback' = 1 /\ Len(outputBuffer') <= ChunkSize /\ Len(todo') <= 1
  BY DEF Alone
<1>4. d' = d
  OBVIOUS
<1> QED BY <1>2, <1>3, <1>4 DEF Alone

\* The callback keeps the invariant when it advances the replies.
LEMMA AdvanceKeeps ==
  ASSUME DIndInv, WriteComplete, Advanced(replies, replies', todo'),
         SoleDownload => Len(todo') = 1 /\ (replies'[1].ctx.complete <=> (todo' = <<Shutdown>>))
  PROVE  DIndInv'
<1> USE DEF DIndInv
<1>1. /\ IndInv' /\ todo = <<>> /\ replies # <<>> /\ pc' = "user"
      /\ UNCHANGED <<callback, stream, pending, state, outputBuffer, ioIsBase, wire, finSent, accepted>>
      /\ bound' \in Seq(0 .. Len(replies)) /\ Len(bound') = Len(batch') + Len(pending')
      /\ Never(pending', batch', "highWaterMark")
  BY CompleteFinds
<1>2. /\ replies' \in Seq(Reply) /\ Len(replies') = Len(replies)
      /\ \A j \in 1 .. Len(replies) :
           /\ replies'[j].kind = replies[j].kind /\ replies'[j].close = replies[j].close
           /\ replies'[j].ctx.start = replies[j].ctx.start /\ replies'[j].ctx.size = replies[j].ctx.size
           /\ Reading(replies'[j].ctx)
           /\ UptoOf(todo', replies', j) = replies[j].ctx.pos
      /\ todo' = <<Shutdown>> \/ \E k, n \in Nat : ChunkOf(todo', replies', k, n)
  BY DEF Advanced
<1>3. replies \in Seq(Reply) /\ stream \in Seq(Nat \X Nat)
  BY DEF ReplyTyped
<1>4. replies' # <<>>
  BY <1>1, <1>2, <1>3, EmptySeq
<1>5. ReplyTyped'
  <2>1. state' # "kConnecting"
    BY <1>1 DEF ReplyTyped
  <2> QED BY <1>1, <1>2, <2>1 DEF ReplyTyped
<1>6. Calls'
  <2>1. \A k, n : ChunkDue(k, n)' <=> ChunkOf(todo', replies', k, n)
    BY DEF ChunkDue
  <2>2. todo' = <<Shutdown>> \/ \E k, n \in Nat : ChunkDue(k, n)'
    BY <1>2, <2>1
  <2> QED BY <1>1, <2>2 DEF Calls
<1>7. Sent'
  BY <1>1, <1>2, <1>3, AdvanceSent
<1>8. ASSUME SoleDownload' PROVE Alone(replies[1].ctx)'
  <2>1. 1 \in 1 .. Len(replies) /\ Len(replies) = 1
    BY <1>2, <1>8 DEF SoleDownload
  <2>2. SoleDownload
    BY <1>2, <1>8, <2>1 DEF SoleDownload
  <2>3. /\ bound' \in Seq({1}) /\ outputBuffer = <<>> /\ Never(pending', batch', "writeComplete")
        /\ ~finSent /\ state # "kDisconnecting"
    BY <2>2, CompleteFinds
  <2>4. Upto(1)' = Upto(1)
    BY <1>1, <1>2, <2>1, UptoPos DEF Upto
  <2> DEFINE c == replies[1].ctx
             d == replies'[1].ctx
  <2>5. Alone(c) /\ d.start = c.start /\ d.size = c.size
    BY <1>2, <2>1, <2>2 DEF Sole
  <2>6. Len(todo') = 1 /\ (d.complete <=> (todo' = <<Shutdown>>))
    BY <2>2
  <2> QED BY <1>1, <2>3, <2>4, <2>5, <2>6, AdvanceAlone
<1> QED BY <1>1, <1>4, <1>5, <1>6, <1>7, <1>8 DEF Sole

\* The write-complete callback: shutdown, the next chunk, or the end of the file.
LEMMA CompleteKeeps ==
  ASSUME DIndInv, WriteComplete
  PROVE  DIndInv'
<1> DEFINE k == Head(bound)
           c == replies[k].ctx
<1>1. /\ k \in 0 .. Len(replies) /\ (SoleDownload => k = 1 /\ ~replies[1].ctx.complete)
      /\ replies \in Seq(Reply) /\ \A j \in 1 .. Len(replies) : Reading(replies[j].ctx)
  BY CompleteFinds DEF DIndInv, ReplyTyped
<1>2. writeCompleteCallback(k)
  BY DEF WriteComplete
<1>3. Len(<<Shutdown>>) = 1
  OBVIOUS
<1> HIDE DEF k
<1>4. CASE k = 0
  <2>1. todo' = <<Shutdown>> /\ replies' = replies
    BY <1>2, <1>4 DEF writeCompleteCallback
  <2>2. \A j : UptoOf(<<Shutdown>>, replies, j) = replies[j].ctx.pos
    BY UptoPos
  <2>3. Advanced(replies, replies, <<Shutdown>>)
    BY <1>1, <2>2 DEF Advanced
  <2>4. Advanced(replies, replies', todo')
    BY <2>1, <2>3
  <2> QED BY <1>1, <1>4, <2>4, AdvanceKeeps
<1>5. CASE k # 0 /\ endOfFile(c)
  <2>0. k \in 1 .. Len(replies)
    <3>1. Len(replies) \in Nat
      BY <1>1, LenProperties
    <3> QED BY <1>1, <1>5, <3>1
  <2>1. todo' = <<Shutdown>> /\ replies' = [replies EXCEPT ![k].ctx.complete = TRUE]
    BY <1>2, <1>5 DEF writeCompleteCallback
  <2>2. replies' = WithContext(replies, k, [replies[k].ctx EXCEPT !.complete = TRUE])
    BY <2>1 DEF WithContext
  <2>3. Advanced(replies, replies', todo') /\ replies'[k].ctx.complete
    BY <1>1, <1>5, <2>0, <2>1, <2>2, EndAdvances
  <2> QED BY <1>1, <1>3, <2>1, <2>3, AdvanceKeeps
<1>6. CASE k # 0 /\ ~endOfFile(c)
  <2>0. k \in 1 .. Len(replies)
    <3>1. Len(replies) \in Nat
      BY <1>1, LenProperties
    <3> QED BY <1>1, <1>6, <3>1
  <2> DEFINE n == bytesToRead(replies[k].ctx)
  <2>1. /\ todo' = <<Send(Items(k, replies[k].ctx.pos, n))>>
        /\ replies' = [replies EXCEPT ![k].ctx.pos = @ + n]
    BY <1>2, <1>6 DEF writeCompleteCallback
  <2>2. replies' = Further(replies, k)
    BY <2>1 DEF Further, WithContext, ReadOn
  <2>3. todo' = FurtherCalls(replies, k)
    BY <2>1 DEF FurtherCalls, ChunkCall
  <2>4. /\ Advanced(replies, replies', todo') /\ todo' # <<Shutdown>> /\ Len(todo') = 1
        /\ replies'[k].ctx.complete = FALSE
    BY <1>1, <1>6, <2>0, <2>2, <2>3, ChunkAdvances
  <2> QED BY <1>1, <2>4, AdvanceKeeps
<1> QED BY <1>4, <1>5, <1>6

-----------------------------------------------------------------------------
(* The theorems.                                                           *)

LEMMA DInitHolds == DInit => DIndInv
<1> SUFFICES ASSUME DInit PROVE DIndInv
  OBVIOUS
<1> USE DEF DInit
<1>1. IndInv
  BY InitHolds
<1>2. /\ pending = <<>> /\ batch = <<>> /\ outputBuffer = <<>> /\ wire = <<>> /\ accepted = 0
      /\ ~finSent /\ state = "kConnecting" /\ pc = "poll"
  BY DEF Init
<1>3. \A f : Never(pending, batch, f)
  BY <1>2, EmptyQueue DEF Never
<1>4. ReplyTyped
  <2>1. <<>> \in Seq(Reply) /\ <<>> \in Seq(Nat \X Nat) /\ <<>> \in Seq(0 .. Len(replies))
    BY EmptySeq
  <2> QED BY <1>2, <1>3, <2>1 DEF ReplyTyped
<1>5. Calls
  BY <1>2 DEF Calls
<1>6. Sent
  BY <1>2 DEF Sent
<1>7. Sole
  <2>1. ~SoleDownload
    BY DEF SoleDownload
  <2>2. Fresh
    BY <1>2, <1>3 DEF Fresh
  <2> QED BY <2>1, <2>2 DEF Sole
<1> QED BY <1>1, <1>4, <1>5, <1>6, <1>7 DEF DIndInv

\* A step that changes nothing.
LEMMA StutterKeeps ==
  ASSUME DIndInv, UNCHANGED dvars
  PROVE  DIndInv'
<1> USE DEF DIndInv
<1>1. UNCHANGED vars /\ UNCHANGED <<todo, callback, bound, replies, stream>>
  BY DEF dvars, replyVars
<1>2. UNCHANGED <<pc, pending, batch, state, outputBuffer, ioIsBase, wire, finSent, accepted>>
  BY <1>1 DEF vars, loopVars, queueVars, connVars, serverVars, kernelVars, ghostVars
<1>3. IndInv'
  BY <1>1, NextStep
<1>4. Moves
  BY <1>2, StillMoves
<1>5. Drives
  BY <1>2, <1>3, <1>4, MovesDrive DEF Calls
<1>6. Binds
  <2>1. Len(batch) \in Nat /\ Len(pending) \in Nat
    BY LenProperties DEF IndInv, TypeOK
  <2> QED BY <1>1, <1>2, <2>1 DEF Binds
<1> QED BY <1>1, <1>3, <1>5, <1>6, DrivesKeep

LEMMA DNextStep == DIndInv /\ [DNext]_dvars => DIndInv'
<1> SUFFICES ASSUME DIndInv, [DNext]_dvars PROVE DIndInv'
  OBVIOUS
<1>1. CASE ConnectionStep
  <2>1. IndInv' /\ Drives
    BY <1>1, ConnectionDrives DEF DIndInv, ReplyTyped
  <2> QED BY <1>1, <2>1, DrivesKeep DEF ConnectionStep
<1>2. CASE Input
  BY <1>2, InputKeeps
<1>3. CASE WriteComplete
  BY <1>3, CompleteKeeps
<1>4. CASE DoSend
  BY <1>4, SendKeeps
<1>5. CASE DoShutdown
  BY <1>5, ShutdownKeeps
<1>6. CASE Return
  BY <1>6, ReturnKeeps
<1>7. CASE UNCHANGED dvars
  BY <1>7, StutterKeeps
<1> QED BY <1>1, <1>2, <1>3, <1>4, <1>5, <1>6, <1>7 DEF DNext

\* The invariant of the connection and of its downloads.
THEOREM DInvariance == DSpec => []DIndInv
BY DInitHolds, DNextStep, PTL DEF DSpec

\* Whatever the requests on one connection and however the kernel takes the
\* bytes, each reply arrives as its header and then the bytes of its file from
\* start on, in order, with no gap and none twice (Download.ReceivedInOrder).
THEOREM DeliveredInOrder == DSpec => []ReceivedInOrder
<1>1. ASSUME DIndInv PROVE ReceivedInOrder
  <2> USE DEF DIndInv
  <2>0. /\ Len(wire) \in Nat /\ wire \in Seq(Nat) /\ Len(replies) \in Nat /\ Len(stream) \in Nat
        /\ DOMAIN wire = 1 .. Len(wire) /\ DOMAIN replies = 1 .. Len(replies)
    BY <1>1, LenProperties DEF IndInv, TypeOK, ReplyTyped
  <2>1. ASSUME NEW i \in 1 .. Len(wire)
        PROVE  Received[i] = stream[i] /\ i \in 1 .. Len(stream)
    <3>1. wire[i] = i /\ Len(wire) <= Len(stream)
      BY <1>1, <2>1 DEF Sent
    <3>2. i \in DOMAIN wire
      BY <2>0
    <3> QED BY <2>0, <3>1, <3>2 DEF Received
  <2>2. ASSUME NEW i \in 1 .. Len(wire)
        PROVE  /\ Received[i][1] \in DOMAIN replies
               /\ MayFollow(Received, i - 1, Received[i][1], Received[i][2])
    <3> DEFINE k == stream[i][1]
    <3>1. k \in 1 .. Len(replies) /\ MayFollow(stream, i - 1, k, stream[i][2])
      BY <1>1, <2>1 DEF Sent
    <3>2. \A j \in 1 .. i - 1 : Received[j] = stream[j]
      BY <2>0, <2>1
    <3>3. MayFollow(Received, i - 1, k, stream[i][2])
      <4>1. HasNone(stream, i - 1, k) => HasNone(Received, i - 1, k)
        BY <3>2 DEF HasNone
      <4>2. ASSUME NEW x, EndsWith(stream, i - 1, k, x) PROVE EndsWith(Received, i - 1, k, x)
        <5>1. PICK j \in 1 .. i - 1 : stream[j] = <<k, x>> /\ \A l \in j + 1 .. i - 1 : stream[l][1] # k
          BY <4>2 DEF EndsWith
        <5>2. \A l \in j + 1 .. i - 1 : l \in 1 .. i - 1
          BY <2>0
        <5> QED BY <3>2, <5>1, <5>2 DEF EndsWith
      <4> QED BY <3>1, <4>1, <4>2 DEF MayFollow
    <3>4. Received[i] = stream[i]
      BY <2>1
    <3> QED BY <2>0, <3>1, <3>3, <3>4
  <2> QED BY <2>0, <2>2 DEF ReceivedInOrder
<1> QED BY <1>1, DInvariance, PTL

\* A reply as a whole: its header and n bytes from position p on.
IsWhole(w, k, p, n) ==
  /\ w \in Seq(Nat \X Nat) /\ Len(w) = 1 + n
  /\ \A i \in 1 .. 1 + n : w[i] = <<k, IF i = 1 THEN 0 ELSE p + i - 1>>

LEMMA WholeItems ==
  ASSUME NEW k \in Nat, NEW p \in Nat, NEW n \in Nat
  PROVE  IsWhole(Header(k) \o Items(k, p, n), k, p, n)
<1> DEFINE h == Header(k)
           b == Items(k, p, n)
           w == h \o b
<1>1. /\ h \in Seq(Nat \X Nat) /\ Len(h) = 1 /\ h[1] = <<k, 0>>
      /\ b \in Seq(Nat \X Nat) /\ Len(b) = n /\ \A i \in 1 .. n : b[i] = <<k, p + i>>
  BY ItemsFacts, ZenonT(60)
<1> HIDE DEF h, b
<1>2. /\ w \in Seq(Nat \X Nat) /\ Len(w) = Len(h) + Len(b)
      /\ \A i \in 1 .. Len(h) : w[i] = h[i]
      /\ \A i \in Len(h) + 1 .. Len(h) + Len(b) : w[i] = b[i - Len(h)]
  BY <1>1, ConcatItems, ZenonT(60)
<1> HIDE DEF w
<1>3. ASSUME NEW i \in 1 .. 1 + n PROVE w[i] = <<k, IF i = 1 THEN 0 ELSE p + i - 1>>
  <2>1. CASE i = 1
    BY <1>1, <1>2, <2>1
  <2>2. CASE i # 1
    <3>1. i - 1 \in 1 .. n /\ i \in Len(h) + 1 .. Len(h) + Len(b) /\ p + (i - 1) = p + i - 1
      BY <1>1, <1>3, <2>2
    <3>2. w[i] = b[i - 1]
      BY <1>1, <1>2, <3>1
    <3>3. b[i - 1] = <<k, p + (i - 1)>>
      BY <1>1, <3>1
    <3> QED BY <2>2, <3>1, <3>2, <3>3
  <2> QED BY <2>1, <2>2
<1> QED BY <1>1, <1>2, <1>3 DEF w, h, b, IsWhole

\* A functor that waits at most once has one place in the queue.
LEMMA OnePlace ==
  ASSUME pending \in Seq(Functors), batch \in Seq(Functors), NEW f,
         Never(pending, batch, f) \/ QueuedOnce(pending, batch, f),
         NEW i \in 1 .. Len(batch) + Len(pending), NEW j \in 1 .. Len(batch) + Len(pending),
         (batch \o pending)[i] = f, (batch \o pending)[j] = f
  PROVE  i = j
<1> DEFINE q == batch \o pending
<1>1. /\ Len(batch) \in Nat /\ Len(pending) \in Nat
      /\ \A l \in 1 .. Len(batch) : q[l] = batch[l]
      /\ \A l \in Len(batch) + 1 .. Len(batch) + Len(pending) : q[l] = pending[l - Len(batch)]
  BY ConcatItems
<1>2. q[i] = f /\ q[j] = f
  OBVIOUS
<1> HIDE DEF q
<1>3. ASSUME NEW l \in 1 .. Len(batch) + Len(pending), q[l] = f
      PROVE  \/ l \in 1 .. Len(batch) /\ batch[l] = f
             \/ /\ l \in Len(batch) + 1 .. Len(batch) + Len(pending)
                /\ l - Len(batch) \in 1 .. Len(pending) /\ pending[l - Len(batch)] = f
  BY <1>1, <1>3
<1>4. /\ Lacks(batch, f) => \A l \in 1 .. Len(batch) : batch[l] # f
      /\ Lacks(pending, f) => \A l \in 1 .. Len(pending) : pending[l] # f
      /\ Once(batch, f) => \A l, m \in 1 .. Len(batch) : batch[l] = f /\ batch[m] = f => l = m
      /\ Once(pending, f) => \A l, m \in 1 .. Len(pending) : pending[l] = f /\ pending[m] = f => l = m
  BY DEF Lacks, Once
<1>5. CASE Lacks(pending, f)
  BY <1>1, <1>2, <1>3, <1>4, <1>5 DEF Never, QueuedOnce
<1>6. CASE Lacks(batch, f)
  <2>1. /\ i - Len(batch) \in 1 .. Len(pending) /\ pending[i - Len(batch)] = f
        /\ j - Len(batch) \in 1 .. Len(pending) /\ pending[j - Len(batch)] = f
    BY <1>2, <1>3, <1>4, <1>6
  <2>2. Once(pending, f)
    BY <1>4, <2>1 DEF Never, QueuedOnce
  <2>3. i - Len(batch) = j - Len(batch)
    BY <1>4, <2>1, <2>2
  <2> QED BY <1>1, <2>3
<1> QED BY <1>5, <1>6 DEF Never, QueuedOnce

\* The only download of a connection is half-closed only behind its last byte,
\* holds at most one chunk in memory and has at most one callback waiting
\* (Download.FinMeansWholeFile).
THEOREM FinEndsTheFile == DSpec => []FinMeansWholeFile
<1>1. ASSUME DIndInv, SoleDownload
      PROVE  /\ finSent /\ peer # "rst" => Received = Whole(1)
             /\ Len(outputBuffer) <= ChunkSize
             /\ \A i, j \in WriteCompletes : i = j
  <2> USE DEF DIndInv
  <2> DEFINE c == replies[1].ctx
  <2>1. Alone(c)
    BY <1>1 DEF Sole
  <2>2. /\ Reading(c) /\ c.start \in Nat /\ c.size \in Nat /\ c.pos \in Nat
    <3>1. 1 \in 1 .. Len(replies) /\ replies \in Seq(Reply)
      BY <1>1 DEF SoleDownload, ReplyTyped
    <3> QED BY <1>1, <3>1, ReplyFields DEF ReplyTyped
  <2>3. /\ wire \in Seq(Nat) /\ Len(wire) \in Nat /\ DOMAIN wire = 1 .. Len(wire)
        /\ stream \in Seq(Nat \X Nat) /\ Len(stream) \in Nat
        /\ pending \in Seq(Functors) /\ batch \in Seq(Functors)
    BY <1>1, LenProperties DEF IndInv, TypeOK, ReplyTyped
  <2>4. ASSUME finSent, peer # "rst" PROVE Received = Whole(1)
    <3> DEFINE n == c.size - c.start
    <3>1. Len(stream) = 1 + n /\ n \in Nat
      <4>1. c.start <= c.size
        BY <2>2 DEF Reading
      <4>2. Len(stream) = 1 + c.size - c.start
        BY <2>1, <2>4 DEF Alone
      <4> QED BY <2>2, <4>1, <4>2, SMTT(30)
    <3>2. Len(wire) = Len(stream) /\ \A i \in 1 .. Len(wire) : wire[i] = i
      BY <1>1, <2>4 DEF IndInv, Stream, ReplyTyped, Sent
    <3>3. Whole(1) = Header(1) \o Items(1, c.start, n)
      BY DEF Whole
    <3>4. ASSUME NEW i \in 1 .. Len(stream)
          PROVE  stream[i] = <<1, IF i = 1 THEN 0 ELSE c.start + i - 1>>
      <4>1. stream[i] = <<1, ItemAt(c, c.start + i - 1)>>
        BY <2>1, <3>4 DEF Alone
      <4>2. ItemAt(c, c.start + i - 1) = IF i = 1 THEN 0 ELSE c.start + i - 1
        <5>1. i \in Nat /\ c.start \in Nat
          BY <2>2, <2>3, <3>4
        <5>2. (c.start + i - 1 = c.start) <=> i = 1
          BY <5>1
        <5> QED BY <5>2 DEF ItemAt
      <4> QED BY <4>1, <4>2
    <3> HIDE DEF n, c
    <3>5. Received = stream
      <4>1. DOMAIN stream = 1 .. Len(stream) /\ stream = [i \in 1 .. Len(stream) |-> stream[i]]
        BY <2>3
      <4>2. Received = [i \in 1 .. Len(stream) |-> stream[wire[i]]]
        BY <2>3, <3>2 DEF Received
      <4>3. \A i \in 1 .. Len(stream) : stream[wire[i]] = stream[i]
        BY <3>2
      <4> QED BY <4>1, <4>2, <4>3
    <3>6. stream = Header(1) \o Items(1, c.start, n)
      <4> DEFINE w == Header(1) \o Items(1, c.start, n)
      <4>1. /\ w \in Seq(Nat \X Nat) /\ Len(w) = 1 + n
            /\ \A i \in 1 .. 1 + n : w[i] = <<1, IF i = 1 THEN 0 ELSE c.start + i - 1>>
        <5>1. 1 \in Nat /\ c.start \in Nat /\ n \in Nat
          BY <2>2, <3>1
        <5>2. IsWhole(w, 1, c.start, n)
          BY <5>1, WholeItems, Zenon
        <5> HIDE DEF w
        <5> QED BY <5>2 DEF IsWhole
      <4> HIDE DEF w
      <4>2. \A i \in 1 .. Len(stream) : stream[i] = w[i]
        BY <3>1, <3>4, <4>1
      <4>3. stream = w
        BY <2>3, <3>1, <4>1, <4>2, SeqEqual
      <4> QED BY <4>3 DEF w
    <3> QED BY <3>3, <3>5, <3>6
  <2>5. Len(outputBuffer) <= ChunkSize
    BY <2>1 DEF Alone
  <2>6. ASSUME NEW i \in WriteCompletes, NEW j \in WriteCompletes PROVE i = j
    <3>1. /\ i \in 1 .. Len(batch) + Len(pending) /\ (batch \o pending)[i] = "writeComplete"
          /\ j \in 1 .. Len(batch) + Len(pending) /\ (batch \o pending)[j] = "writeComplete"
      BY <2>6 DEF WriteCompletes
    <3>2. Never(pending, batch, "writeComplete") \/ QueuedOnce(pending, batch, "writeComplete")
      BY <2>1 DEF Alone
    <3> QED BY <2>3, <3>1, <3>2, OnePlace
  <2> QED BY <2>4, <2>5, <2>6
<1>2. DIndInv => FinMeansWholeFile
  BY <1>1 DEF FinMeansWholeFile
<1> QED BY <1>2, DInvariance, PTL

\* Under the HTTP server, too, no assert of the connection fails and no byte is
\* lost, repeated or reordered while it is up.
THEOREM DownloadsKeepTheConnection ==
  DSpec => [](AssertsHold /\ StreamIntact /\ WritingIffBuffered /\ FinAfterLastByte)
<1>1. DIndInv => AssertsHold /\ StreamIntact /\ WritingIffBuffered /\ FinAfterLastByte
  BY DEF DIndInv, IndInv, Life, AssertsHold, Stream, IsStream, StreamIntact,
         WritingIffBuffered, isWriting, FinAfterLastByte
<1> QED BY <1>1, DInvariance, PTL

=============================================================================
