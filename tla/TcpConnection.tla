---------------------------- MODULE TcpConnection ----------------------------
(***************************************************************************)
(* The life of one accepted connection: TcpConnection (send, shutdown,     *)
(* forceClose and the handle* callbacks), its Channel, the poller's record *)
(* of that channel, the functor queue of the EventLoop it belongs to, and  *)
(* TcpServer's add/remove protocol.                                        *)
(*                                                                         *)
(* The IO loop is one sequential thread, so its position is one variable,  *)
(* pc: polling, running the parts of Channel::handleEvent, running the     *)
(* functors of a batch, or inside user code (a connection, message or      *)
(* write-complete callback), from where it may call send, shutdown and     *)
(* forceClose.  The kernel and the peer move between any two of its steps. *)
(*                                                                         *)
(* A byte is named by its position in the stream the user sent, so wire    *)
(* and outputBuffer show loss, duplication and reordering.                 *)
(***************************************************************************)
EXTENDS Integers, Sequences

CONSTANTS
  SendLens,       \* lengths one send() may have
  MaxBytes,       \* bound: bytes sent in a behaviour
  SndBuf,         \* capacity of the kernel's send buffer
  HighWaterMark,  \* highWaterMark_, and 0 where no highWaterMarkCallback_ is set
  MaxInput,       \* bound: messages the peer sends
  MaxQueued       \* bound: forceClose is not called with this many functors queued

ASSUME TcpAssumption ==
  /\ SendLens \subseteq Nat \ {0}
  /\ MaxBytes \in Nat
  /\ SndBuf \in Nat \ {0}
  /\ HighWaterMark \in Nat
  /\ MaxInput \in Nat
  /\ MaxQueued \in Nat

VARIABLES
  ioIsBase,      \* threadNum = 0: TcpServer's loop_ is also the IO loop
  pc,            \* where the IO loop's thread is
  ret,           \* where user code returns to
  caller,        \* where sendInLoop's trailing handleWrite returns to
  revents,       \* events of the last poll, handled later
  pending,       \* pendingFunctors_
  batch,         \* rest of the vector doPendingFunctors swapped out
  batchHolds,    \* that vector still owns a reference to the connection
  state,         \* state_
  events,        \* channel_->events_
  index,         \* channel_->index_, the poller's record of the channel
  outputBuffer,  \* outputBuffer_
  inMap,         \* TcpServer::connections_ holds the connection
  basePending,   \* removeConnectionInLoop functors queued in the base loop
  inflight,      \* bytes in the kernel's send buffer
  wire,          \* bytes ::write accepted, in order
  finSent,       \* shutdown(SHUT_WR) was called
  peer,          \* what the peer did to the connection
  soError,       \* SO_ERROR is pending
  unread,        \* the kernel's receive buffer is not empty
  received,      \* messages the peer sent
  accepted,      \* bytes passed to sendInLoop
  acked,         \* Len(wire) when the last write-complete callback ran
  ups,           \* connectionCallback_ calls with the connection up
  downs,         \* connectionCallback_ calls with the connection down
  failed         \* an assert has failed (the process would have aborted)

loopVars   == <<pc, ret, caller, revents>>
queueVars  == <<pending, batch, batchHolds>>
connVars   == <<state, events, index, outputBuffer>>
serverVars == <<ioIsBase, inMap, basePending>>
kernelVars == <<inflight, wire, finSent, peer, soError, unread, received>>
ghostVars  == <<accepted, acked, ups, downs>>
vars == <<loopVars, queueVars, connVars, serverVars, kernelVars, ghostVars, failed>>

States   == {"kConnecting", "kConnected", "kDisconnecting", "kDisconnected"}
Functors == {"connectEstablished", "connectDestroyed", "handleWrite",
             "writeComplete", "highWaterMark", "forceCloseInLoop"}
Places   == {"poll", "handle", "write", "swap", "functors", "user", "flush"}

TypeOK ==
  /\ ioIsBase \in BOOLEAN
  /\ pc \in Places
  /\ ret \in {"write", "swap", "functors"}
  /\ caller \in {"user", "functors"}
  /\ revents \subseteq {"IN", "OUT", "HUP", "ERR"}
  /\ pending \in Seq(Functors)
  /\ batch \in Seq(Functors)
  /\ batchHolds \in BOOLEAN
  /\ state \in States
  /\ events \subseteq {"read", "write"}
  /\ index \in {"kNew", "kAdded", "kDeleted"}
  /\ outputBuffer \in Seq(Nat)
  /\ inMap \in BOOLEAN
  /\ basePending \in Nat
  /\ inflight \in 0 .. SndBuf
  /\ wire \in Seq(Nat)
  /\ finSent \in BOOLEAN
  /\ peer \in {"absent", "open", "fin", "rst"}
  /\ soError \in BOOLEAN
  /\ unread \in BOOLEAN
  /\ received \in Nat
  /\ accepted \in Nat
  /\ acked \in Nat
  /\ ups \in Nat
  /\ downs \in Nat
  /\ failed \in BOOLEAN

\* Before TcpServer::start has accepted anything; the loop is polling.
Init ==
  /\ ioIsBase \in BOOLEAN
  /\ pc = "poll" /\ ret = "swap" /\ caller = "user" /\ revents = {}
  /\ pending = <<>> /\ batch = <<>> /\ batchHolds = FALSE
  /\ state = "kConnecting" /\ events = {} /\ index = "kNew" /\ outputBuffer = <<>>
  /\ inMap = FALSE /\ basePending = 0
  /\ inflight = 0 /\ wire = <<>> /\ finSent = FALSE
  /\ peer = "absent" /\ soError = FALSE /\ unread = FALSE /\ received = 0
  /\ accepted = 0 /\ acked = 0 /\ ups = 0 /\ downs = 0
  /\ failed = FALSE

-----------------------------------------------------------------------------
(* The kernel's side of the socket, as ::write, ::readv and epoll show it. *)

\* What ::write(fd, buf, len) may return: some bytes fit, none does (EAGAIN,
\* 0 here), or the connection is gone (EPIPE or ECONNRESET, -1 here).
WriteResults(len) ==
  IF peer = "rst" \/ finSent THEN {-1}
  ELSE IF inflight = SndBuf THEN {0}
  ELSE {n \in 1 .. SndBuf : n <= len /\ n <= SndBuf - inflight}

\* The events epoll_wait reports for the channel's fd; the kernel reports
\* EPOLLHUP and EPOLLERR whether asked or not.
Ready ==
  IF index # "kAdded" THEN {}
  ELSE {e \in {"IN", "OUT", "HUP", "ERR"} :
          \/ e = "IN"  /\ "read" \in events /\ (unread \/ peer \in {"fin", "rst"})
          \/ e = "OUT" /\ "write" \in events /\ (inflight < SndBuf \/ peer = "rst" \/ finSent)
          \/ e = "HUP" /\ (peer = "rst" \/ (peer = "fin" /\ finSent))
          \/ e = "ERR" /\ soError}

PeerSends ==
  /\ peer = "open" /\ received < MaxInput
  /\ received' = received + 1 /\ unread' = TRUE
  /\ UNCHANGED <<loopVars, queueVars, connVars, serverVars, ghostVars, failed,
                 inflight, wire, finSent, peer, soError>>

PeerReads ==
  /\ peer # "rst" /\ inflight > 0
  /\ inflight' = inflight - 1
  /\ UNCHANGED <<loopVars, queueVars, connVars, serverVars, ghostVars, failed,
                 wire, finSent, peer, soError, unread, received>>

PeerCloses ==
  /\ peer = "open"
  /\ peer' = "fin"
  /\ UNCHANGED <<loopVars, queueVars, connVars, serverVars, ghostVars, failed,
                 inflight, wire, finSent, soError, unread, received>>

PeerResets ==
  /\ peer \in {"open", "fin"}
  /\ peer' = "rst" /\ soError' = TRUE
  /\ UNCHANGED <<loopVars, queueVars, connVars, serverVars, ghostVars, failed,
                 inflight, wire, finSent, unread, received>>

-----------------------------------------------------------------------------
(* Channel and poller.                                                     *)

\* EPollPoller::updateChannel: the index of a channel whose events are now ev.
IndexAfterUpdate(idx, ev) ==
  IF idx # "kAdded" THEN "kAdded" ELSE IF ev = {} THEN "kDeleted" ELSE "kAdded"

\* Channel::enableReading, enableWriting, disableWriting, disableAll.
UpdateChannel(ev) ==
  /\ events' = ev
  /\ index' = IndexAfterUpdate(index, ev)

isWriting == "write" \in events

-----------------------------------------------------------------------------
(* TcpConnection's handlers, each as the part of a step that its callers   *)
(* conjoin: it says what becomes of the variables of those parts.          *)

\* assert(P): failed records that P was false.
Asserts(P) == failed' = (failed \/ ~P)

\* handleClose() up to and including closeCallback_, TcpServer's
\* removeConnection: run at once in the base loop, else queued there.
handleClose ==
  /\ Asserts(state \in {"kConnected", "kDisconnecting"})
  /\ state' = "kDisconnected"
  /\ UpdateChannel({})
  /\ downs' = downs + 1
  /\ IF ioIsBase
     THEN /\ inMap' = FALSE
          /\ pending' = Append(pending, "connectDestroyed")
          /\ UNCHANGED basePending
     ELSE /\ basePending' = basePending + 1
          /\ UNCHANGED <<inMap, pending>>
  /\ UNCHANGED <<ioIsBase, outputBuffer, accepted, acked, ups>>

\* shutdownInLoop() without its guard on buffered output.
shutdownInLoopUnguarded == finSent' = TRUE

shutdownInLoop ==
  IF isWriting THEN UNCHANGED finSent ELSE finSent' = TRUE

\* handleWrite(), the part after a write of n > 0 bytes emptied the buffer,
\* without the half close that a pending shutdown() waits for.
drainedForgetsShutdown ==
  /\ UpdateChannel(events \ {"write"})
  /\ pending' = Append(pending, "writeComplete")
  /\ UNCHANGED finSent

\* The same without disableWriting().
drainedKeepsWriting ==
  /\ UNCHANGED <<events, index>>
  /\ pending' = Append(pending, "writeComplete")
  /\ finSent' = (finSent \/ state = "kDisconnecting")

\* The same without the write-complete notification.
drainedSilently ==
  /\ UpdateChannel(events \ {"write"})
  /\ UNCHANGED pending
  /\ finSent' = (finSent \/ state = "kDisconnecting")

drained ==
  /\ UpdateChannel(events \ {"write"})
  /\ pending' = Append(pending, "writeComplete")
  /\ finSent' = (finSent \/ state = "kDisconnecting")

\* outputBuffer_.retrieve(n)
retrieve(n) == SubSeq(outputBuffer, n + 1, Len(outputBuffer))

handleWrite ==
  IF ~isWriting
  THEN UNCHANGED <<connVars, serverVars, kernelVars, ghostVars, failed, pending>>
  ELSE \E n \in WriteResults(Len(outputBuffer)) :
         \/ /\ n > 0
            /\ wire' = wire \o SubSeq(outputBuffer, 1, n)
            /\ inflight' = inflight + n
            /\ outputBuffer' = retrieve(n)
            /\ IF outputBuffer' = <<>>
               THEN drained
               ELSE /\ pending' = Append(pending, "handleWrite")
                    /\ UNCHANGED <<events, index, finSent>>
            /\ UNCHANGED <<state, serverVars, peer, soError, unread, received,
                           ghostVars, failed>>
         \/ /\ n = 0
            /\ UNCHANGED <<connVars, serverVars, kernelVars, ghostVars, failed, pending>>
         \/ /\ n = -1
            /\ handleClose
            /\ soError' = FALSE
            /\ UNCHANGED <<inflight, wire, finSent, peer, unread, received>>

\* Bytes accepted + 1 .. accepted + len of the stream.
Data(len) == [i \in 1 .. len |-> accepted + i]

\* sendInLoop() that writes ahead of the bytes still buffered.
mayWriteDirectlyAlways == TRUE

mayWriteDirectly == ~isWriting /\ outputBuffer = <<>>

\* nwrote after the direct ::write returned n.
nwroteOf(n) == IF n < 0 THEN 0 ELSE n

\* sendInLoop() up to its trailing handleWrite(), for which pc moves to
\* "flush"; without one the thread goes on at from.
sendInLoop(len, from) ==
  \E n \in (IF mayWriteDirectly THEN WriteResults(len) ELSE {0}) :
    LET nwrote     == nwroteOf(n)
        remaining  == len - nwrote
        faultError == n = -1
        oldLen     == Len(outputBuffer)
    IN  /\ accepted' = accepted + len
        /\ wire' = wire \o SubSeq(Data(len), 1, nwrote)
        /\ inflight' = inflight + nwrote
        /\ soError' = (soError /\ ~faultError)
        /\ IF remaining > 0 /\ ~faultError
           THEN /\ pending' = IF oldLen + remaining >= HighWaterMark /\ oldLen < HighWaterMark
                              THEN Append(pending, "highWaterMark") ELSE pending
                /\ outputBuffer' = outputBuffer \o SubSeq(Data(len), nwrote + 1, len)
                /\ IF isWriting THEN UNCHANGED <<events, index>>
                   ELSE UpdateChannel(events \cup {"write"})
                /\ pc' = "flush" /\ caller' = from
           ELSE /\ pending' = IF remaining = 0 THEN Append(pending, "writeComplete") ELSE pending
                /\ pc' = from
                /\ UNCHANGED <<outputBuffer, events, index, caller>>
        /\ UNCHANGED <<state, serverVars, finSent, peer, unread, received,
                       acked, ups, downs, failed>>

\* connectEstablished(): the caller passes control to connectionCallback_.
connectEstablished ==
  /\ Asserts(state = "kConnecting")
  /\ state' = "kConnected"
  /\ UpdateChannel(events \cup {"read"})
  /\ ups' = ups + 1
  /\ UNCHANGED <<outputBuffer, accepted, acked, downs>>

\* connectDestroyed() that does not remove the channel from the poller.
connectDestroyedKeepsChannel ==
  /\ state' = IF state = "kConnected" THEN "kDisconnected" ELSE state
  /\ downs' = IF state = "kConnected" THEN downs + 1 ELSE downs
  /\ UNCHANGED <<events, index, outputBuffer, accepted, acked, ups, failed>>

\* connectDestroyed(), with the asserts of Channel::remove and
\* EPollPoller::removeChannel: no events, and channels_ knows the fd.
connectDestroyed ==
  LET live == state = "kConnected"
      ev   == IF live THEN {} ELSE events
  IN  /\ state' = IF live THEN "kDisconnected" ELSE state
      /\ downs' = IF live THEN downs + 1 ELSE downs
      /\ Asserts(ev = {} /\ index # "kNew")
      /\ events' = ev
      /\ index' = "kNew"
      /\ UNCHANGED <<outputBuffer, accepted, acked, ups>>

-----------------------------------------------------------------------------
(* TcpServer.                                                              *)

\* Acceptor::handleRead and TcpServer::newConnection, in the base loop:
\* connectEstablished runs at once when that is the IO loop (connectionCallback_
\* is then user code), and is queued to the IO loop otherwise.
newConnection ==
  /\ peer = "absent"
  /\ peer' = "open"
  /\ inMap' = TRUE
  /\ IF ioIsBase
     THEN /\ pc = "poll"
          /\ connectEstablished
          /\ pc' = "user" /\ ret' = "swap"
          /\ UNCHANGED <<caller, revents, pending>>
     ELSE /\ pending' = Append(pending, "connectEstablished")
          /\ UNCHANGED <<loopVars, connVars, ghostVars, failed>>
  /\ UNCHANGED <<batch, batchHolds, ioIsBase, basePending,
                 inflight, wire, finSent, soError, unread, received>>

\* removeConnectionInLoop() that leaves the connection in connections_.
removeConnectionInLoopKeeps ==
  /\ basePending > 0
  /\ basePending' = basePending - 1
  /\ pending' = Append(pending, "connectDestroyed")
  /\ UNCHANGED <<loopVars, batch, batchHolds, connVars, ioIsBase, inMap, kernelVars, ghostVars, failed>>

\* removeConnectionInLoop(), run by the base loop when it is not the IO loop.
removeConnectionInLoop ==
  /\ basePending > 0
  /\ basePending' = basePending - 1
  /\ inMap' = FALSE
  /\ pending' = Append(pending, "connectDestroyed")
  /\ UNCHANGED <<loopVars, batch, batchHolds, connVars, ioIsBase, kernelVars, ghostVars, failed>>

-----------------------------------------------------------------------------
(* One iteration of EventLoop::loop in the IO loop's thread.               *)

\* poller_->poll: fillActiveChannels copies the ready events to revents_.
Poll ==
  /\ pc = "poll"
  /\ revents' = Ready
  /\ pc' = IF Ready = {} THEN "swap" ELSE "handle"
  /\ UNCHANGED <<ret, caller, queueVars, connVars, serverVars, kernelVars, ghostVars, failed>>

\* Channel::handleEventWithGuard up to and including the read callback.
\* The error callback and handleRead's error branch only collect SO_ERROR.
\* (A hang-up without POLLIN closes at once; Linux reports both.)
HandleInput ==
  LET hup  == "HUP" \in revents /\ "IN" \notin revents
      read == "IN" \in revents
      err  == soError /\ "ERR" \notin revents
  IN  /\ pc = "handle"
      /\ IF read /\ unread
         THEN /\ pc' = "user" /\ ret' = "write"
              /\ unread' = FALSE
              /\ soError' = (soError /\ "ERR" \notin revents)
              /\ UNCHANGED <<pending, connVars, serverVars, ghostVars, failed>>
         ELSE /\ pc' = "write"
              /\ soError' = FALSE
              /\ IF hup \/ (read /\ ~err)
                 THEN handleClose
                 ELSE UNCHANGED <<pending, connVars, serverVars, ghostVars, failed>>
              /\ UNCHANGED <<ret, unread>>
      /\ UNCHANGED <<caller, revents, batch, batchHolds,
                     inflight, wire, finSent, peer, received>>

\* The rest of handleEventWithGuard: the write callback.
HandleOutput ==
  /\ pc = "write"
  /\ pc' = "swap"
  /\ IF "OUT" \in revents
     THEN handleWrite
     ELSE UNCHANGED <<pending, connVars, serverVars, kernelVars, ghostVars, failed>>
  /\ UNCHANGED <<ret, caller, revents, batch, batchHolds>>

\* doPendingFunctors: swap the vector out under the mutex, run every element,
\* destroy the vector; its functors own the connection until then.
Swap ==
  /\ pc = "swap"
  /\ pc' = "functors"
  /\ batch' = pending /\ pending' = <<>>
  /\ batchHolds' = (pending # <<>>)
  /\ UNCHANGED <<ret, caller, revents, connVars, serverVars, kernelVars, ghostVars, failed>>

BatchDone ==
  /\ pc = "functors" /\ batch = <<>>
  /\ pc' = "poll"
  /\ batchHolds' = FALSE
  /\ UNCHANGED <<ret, caller, revents, pending, batch, connVars, serverVars, kernelVars,
                 ghostVars, failed>>

Next_(functor) ==
  /\ pc = "functors" /\ batch # <<>>
  /\ Head(batch) = functor
  /\ batch' = Tail(batch)
  /\ UNCHANGED batchHolds

RunConnectEstablished ==
  /\ Next_("connectEstablished")
  /\ connectEstablished
  /\ pc' = "user" /\ ret' = "functors"
  /\ UNCHANGED <<caller, revents, pending, serverVars, kernelVars>>

RunConnectDestroyed ==
  /\ Next_("connectDestroyed")
  /\ connectDestroyed
  /\ UNCHANGED <<loopVars, pending, serverVars, kernelVars>>

RunHandleWrite ==
  /\ Next_("handleWrite")
  /\ handleWrite
  /\ UNCHANGED loopVars

\* forceCloseInLoop() that trusts the state forceClose() saw.
forceCloseInLoopUnguarded == handleClose

forceCloseInLoop ==
  IF state \in {"kConnected", "kDisconnecting"}
  THEN handleClose
  ELSE UNCHANGED <<pending, connVars, serverVars, ghostVars, failed>>

RunForceClose ==
  /\ Next_("forceCloseInLoop")
  /\ forceCloseInLoop
  /\ UNCHANGED <<loopVars, kernelVars>>

\* writeCompleteCallback_ and highWaterMarkCallback_ are user code.
RunUserCallback ==
  /\ \E f \in {"writeComplete", "highWaterMark"} :
       /\ Next_(f)
       /\ acked' = IF f = "writeComplete" THEN Len(wire) ELSE acked
  /\ pc' = "user" /\ ret' = "functors"
  /\ UNCHANGED <<caller, revents, pending, connVars, serverVars, kernelVars,
                 accepted, ups, downs, failed>>

-----------------------------------------------------------------------------
(* User code in a callback on the loop's thread.  A call whose guard on    *)
(* state_ fails does nothing and is not shown.                             *)

send ==
  /\ pc = "user" /\ state = "kConnected"
  /\ \E len \in SendLens :
       /\ accepted + len <= MaxBytes
       /\ sendInLoop(len, "user")
  /\ UNCHANGED <<ret, revents, batch, batchHolds>>

\* sendInLoop's trailing handleWrite().
Flush ==
  /\ pc = "flush"
  /\ pc' = caller
  /\ handleWrite
  /\ UNCHANGED <<ret, caller, revents, batch, batchHolds>>

shutdown ==
  /\ pc = "user" /\ state = "kConnected"
  /\ state' = "kDisconnecting"
  /\ shutdownInLoop
  /\ UNCHANGED <<loopVars, queueVars, events, index, outputBuffer, serverVars, ghostVars, failed,
                 inflight, wire, peer, soError, unread, received>>

forceClose ==
  /\ pc = "user" /\ state \in {"kConnected", "kDisconnecting"}
  /\ Len(pending) < MaxQueued
  /\ state' = "kDisconnecting"
  /\ pending' = Append(pending, "forceCloseInLoop")
  /\ UNCHANGED <<loopVars, batch, batchHolds, events, index, outputBuffer, serverVars,
                 kernelVars, ghostVars, failed>>

UserReturns ==
  /\ pc = "user"
  /\ pc' = ret
  /\ UNCHANGED <<ret, caller, revents, queueVars, connVars, serverVars, kernelVars,
                 ghostVars, failed>>

-----------------------------------------------------------------------------
\* What the IO loop's thread does by itself, once per iteration or call.
LoopStep ==
  \/ Poll \/ HandleInput \/ HandleOutput \/ Swap \/ BatchDone
  \/ RunConnectEstablished \/ RunConnectDestroyed \/ RunHandleWrite
  \/ RunForceClose \/ RunUserCallback \/ Flush \/ UserReturns

Next ==
  \/ newConnection \/ removeConnectionInLoop
  \/ LoopStep \/ send \/ shutdown \/ forceClose
  \/ PeerSends \/ PeerReads \/ PeerCloses \/ PeerResets

Spec == Init /\ [][Next]_vars

\* Both loops keep running and user code returns; the peer goes on reading
\* what it was sent until it resets the connection.
Fairness ==
  /\ WF_vars(LoopStep)
  /\ WF_vars(removeConnectionInLoop)
  /\ WF_vars(PeerReads)

FairSpec == Spec /\ Fairness

-----------------------------------------------------------------------------
(* Properties.                                                             *)

\* Someone owns a reference to the connection: the server's map, a functor,
\* or the guard Channel::handleEvent and the caller of user code hold.
Owned ==
  \/ inMap \/ basePending > 0
  \/ pending # <<>> \/ batch # <<>> \/ batchHolds
  \/ pc \in {"handle", "write", "user", "flush"}

\* No assert of TcpConnection, Channel or EPollPoller fails: connectEstablished
\* finds kConnecting, handleClose finds a connection that is up (so it is
\* closed once), and connectDestroyed finds a channel with no events that the
\* poller knows (so it is removed once).
AssertsHold == ~failed

\* As long as the connection is up, the bytes ::write took followed by the
\* bytes in outputBuffer_ are exactly the bytes sent, in order: sendInLoop's
\* direct write, its append and the handleWrite calls from the event loop, from
\* sendInLoop and from stale queued functors never lose, repeat or reorder one.
StreamIntact ==
  peer # "rst" /\ state # "kDisconnected"
    => wire \o outputBuffer = [i \in 1 .. accepted |-> i]

\* EPOLLOUT is asked for exactly while output is buffered: otherwise the loop
\* spins on a writable socket, or buffered bytes are never written.
WritingIffBuffered ==
  state # "kDisconnected" /\ pc # "flush" => (isWriting <=> outputBuffer # <<>>)

\* shutdown() half-closes only after every byte sent before it was written.
FinAfterLastByte == finSent => outputBuffer = <<>> /\ (peer # "rst" => Len(wire) = accepted)

\* The connection is not destroyed while its Channel is still registered with
\* the poller (the asserts of ~Channel), nor before the user was told it is down.
RegisteredIsOwned == (index # "kNew" => Owned) /\ (~Owned => ups = downs)

\* shutdown() and forceClose() take effect: the write side is closed once the
\* buffered output is out, or the connection goes down.
ShutdownCompletes == state = "kDisconnecting" ~> (finSent \/ state = "kDisconnected")

\* When the peer has closed or reset, the connection leaves the server's map
\* and the poller and is destroyed.
PeerCloseReleases ==
  (peer \in {"fin", "rst"}) ~> (state = "kDisconnected" /\ index = "kNew" /\ ~Owned)

\* Every send is followed by a write-complete callback that finds all its bytes
\* written, or the connection goes down: chunked downloads send the next chunk
\* from that callback.
EverySendAcked ==
  \A n \in 1 .. MaxBytes : accepted >= n ~> (acked >= n \/ state = "kDisconnected")

=============================================================================
