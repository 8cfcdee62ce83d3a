------------------------------- MODULE Download -------------------------------
(***************************************************************************)
(* Downloads over one connection: TcpConnection as the file server uses it *)
(* (one loop, ioIsBase), HttpServer's onRequest, and the handlers that     *)
(* answer with a file.  A handler sends only the header; the file follows  *)
(* chunk by chunk, each sent by the write-complete callback of the one     *)
(* before, and the end of the file is the half close, since the answer has *)
(* no Content-Length.                                                      *)
(*                                                                         *)
(* A write-complete functor is bound to the callback the connection had    *)
(* when the functor was queued; a later request replaces the callback.     *)
(***************************************************************************)
EXTENDS TcpConnection

CONSTANTS
  FileSizes,    \* sizes of the files asked for
  ChunkSize     \* what readNextChunk reads at most

ASSUME DownloadAssumption ==
  /\ FileSizes \subseteq Nat
  /\ ChunkSize \in Nat \ {0}
  /\ HighWaterMark = 0           \* the server sets no highWaterMarkCallback_

VARIABLES
  todo,       \* calls the running user code still makes
  callback,   \* writeCompleteCallback_: 0 shuts down, k goes on with reply k
  bound,      \* callback_ when each functor of batch \o pending was queued
  replies,    \* the requests answered so far, with their FileDownContext
  stream      \* what each byte passed to sendInLoop was: <<reply, item>>

replyVars == <<todo, callback, bound, replies, stream>>
dvars == <<vars, replyVars>>

-----------------------------------------------------------------------------
(* FileDownContext.                                                        *)

\* Constructor and seekTo(start).
FileDownContext(start, size) == [start |-> start, size |-> size, pos |-> start, complete |-> FALSE]

\* bytesToRead without the min with what remains.
bytesToReadFull(c) == IF c.pos < c.size THEN ChunkSize ELSE 0

\* bytesToRead of readNextChunk.
bytesToRead(c) == IF c.size - c.pos < ChunkSize THEN c.size - c.pos ELSE ChunkSize

\* readNextChunk returns false for a last chunk that is not full.
endOfFileEarly(c) == c.complete \/ c.size - c.pos < ChunkSize

\* readNextChunk returns false.
endOfFile(c) == c.complete \/ bytesToRead(c) = 0

\* Item 0 of a reply is its header (with its body, if any), item i + 1 the byte
\* at position i of its file.
Header(k) == <<<<k, 0>>>>
Items(k, from, len) == [i \in 1 .. len |-> <<k, from + i>>]

-----------------------------------------------------------------------------
(* Requests, their handlers and the write-complete callbacks.              *)

NoRange == -1

\* sendError and the answer to HEAD: all of it is sent at once, then shutdown.
Answer == [kind |-> "answer", ctx |-> FileDownContext(0, 0)]

\* A page, or an error when it cannot be read; and no route for the request.
handleIndex    == Answer
handleNotFound == Answer

\* handleDownload, once the file is known: its size, and the start a Range asks
\* for.  The end of a Range is parsed and goes no further than the header.
handleDownload(method, start, size) ==
  IF method = "HEAD" \/ (start # NoRange /\ start >= size)
  THEN Answer
  ELSE [kind |-> "get", ctx |-> FileDownContext(IF start = NoRange THEN 0 ELSE start, size)]

\* handleShareDownload has its own copy of that code.
handleShareDownload(method, start, size) ==
  CASE method = "HEAD" -> Answer
    [] method # "HEAD" /\ start # NoRange ->
         IF start >= size THEN Answer ELSE [kind |-> "get", ctx |-> FileDownContext(start, size)]
    [] OTHER -> [kind |-> "get", ctx |-> FileDownContext(0, size)]

\* The handlers a request may be routed to; HEAD has a route only to the first.
Responses ==
  {handleIndex, handleNotFound}
    \cup {handleDownload(m, s, n) : m \in {"GET", "HEAD"}, s \in {NoRange, 1}, n \in FileSizes}
    \cup {handleShareDownload("GET", s, n) : s \in {NoRange, 1}, n \in FileSizes}

Send(bytes) == [op |-> "send", bytes |-> bytes]
Shutdown    == [op |-> "shutdown", bytes |-> <<>>]

\* onRequest(), its handler included, up to its calls of send and shutdown; close
\* is the request's wish that the connection be closed.  context->reset() follows,
\* so that no request meets the context of another.
onRequest(r, close) ==
  LET k == Len(replies) + 1
  IN  /\ replies' = Append(replies, [kind |-> r.kind, ctx |-> r.ctx, close |-> close])
      /\ callback' = IF r.kind = "get" THEN k ELSE 0
      /\ todo' = IF close THEN <<Send(Header(k)), Shutdown>> ELSE <<Send(Header(k))>>

\* The callback the handlers set: shutdown, or the next chunk of reply k.
writeCompleteCallback(k) ==
  IF k = 0 THEN /\ todo' = <<Shutdown>>
                /\ UNCHANGED replies
  ELSE LET c == replies[k].ctx
       IN  IF endOfFile(c)
           THEN /\ replies' = [replies EXCEPT ![k].ctx.complete = TRUE]
                /\ todo' = <<Shutdown>>
           ELSE /\ replies' = [replies EXCEPT ![k].ctx.pos = @ + bytesToRead(c)]
                /\ todo' = <<Send(Items(k, c.pos, bytesToRead(c)))>>

-----------------------------------------------------------------------------
(* The steps of the loop, of the peer, and of the callbacks on the loop.   *)

\* std::bind copies the callback the connection has when a writeComplete functor
\* is queued.  (Of the functors of other kinds bound says nothing that matters.)
Binds ==
  LET rest == IF Len(batch') < Len(batch) THEN Tail(bound) ELSE bound
  IN  bound' = IF Len(pending') > Len(pending) THEN Append(rest, callback) ELSE rest

\* Steps of TcpConnection that run no code of the HTTP server but onConnection,
\* which makes an HttpContext and calls nothing.
ConnectionStep ==
  /\ \/ newConnection \/ Poll \/ HandleOutput \/ Swap \/ BatchDone
     \/ RunConnectDestroyed \/ RunHandleWrite \/ Flush
     \/ PeerSends \/ PeerReads \/ PeerCloses \/ PeerResets
  /\ Binds
  /\ UNCHANGED <<todo, callback, replies, stream>>

\* Channel::handleEvent's read part; messageCallback_ is HttpServer::onMessage,
\* which handles one complete request.
Input ==
  /\ HandleInput
  /\ IF pc' = "user"
     THEN \E r \in Responses, close \in BOOLEAN : onRequest(r, close)
     ELSE UNCHANGED <<todo, callback, replies>>
  /\ Binds
  /\ UNCHANGED stream

WriteComplete ==
  /\ RunUserCallback
  /\ writeCompleteCallback(Head(bound))
  /\ Binds
  /\ UNCHANGED <<callback, stream>>

\* conn->send: dropped unless the connection is up.
DoSend ==
  /\ pc = "user" /\ todo # <<>> /\ Head(todo).op = "send"
  /\ todo' = Tail(todo)
  /\ IF state = "kConnected"
     THEN /\ sendInLoop(Len(Head(todo).bytes), "user")
          /\ UNCHANGED <<ret, revents, batch, batchHolds>>
          /\ stream' = stream \o Head(todo).bytes
          /\ Binds
     ELSE UNCHANGED <<vars, bound, stream>>
  /\ UNCHANGED <<callback, replies>>

\* conn->shutdown
DoShutdown ==
  /\ pc = "user" /\ todo # <<>> /\ Head(todo).op = "shutdown"
  /\ todo' = Tail(todo)
  /\ IF state = "kConnected" THEN shutdown ELSE UNCHANGED vars
  /\ UNCHANGED <<callback, bound, replies, stream>>

Return ==
  /\ todo = <<>>
  /\ UserReturns
  /\ UNCHANGED replyVars

-----------------------------------------------------------------------------
DInit ==
  /\ Init /\ ioIsBase
  /\ todo = <<>> /\ callback = 0 /\ bound = <<>> /\ replies = <<>> /\ stream = <<>>

DNext == ConnectionStep \/ Input \/ WriteComplete \/ DoSend \/ DoShutdown \/ Return

\* The loop's thread keeps running, and the peer reads until it resets.
DFairness ==
  /\ WF_dvars((ConnectionStep /\ LoopStep) \/ Input \/ WriteComplete
              \/ DoSend \/ DoShutdown \/ Return)
  /\ WF_dvars(ConnectionStep /\ PeerReads)

DSpec == DInit /\ [][DNext]_dvars /\ DFairness

-----------------------------------------------------------------------------
(* Properties.                                                             *)

\* What the kernel took of the answers, and all there is to reply k.
Received == [i \in DOMAIN wire |-> stream[wire[i]]]
Whole(k) == Header(k) \o Items(k, replies[k].ctx.start, replies[k].ctx.size - replies[k].ctx.start)

\* The only request of the connection so far asks for a file and for no close.
SoleDownload == Len(replies) = 1 /\ replies[1].kind = "get" /\ ~replies[1].close

\* Of the first n items of s the last one of reply k is item x; none is of reply k.
EndsWith(s, n, k, x) ==
  \E j \in 1 .. n : s[j] = <<k, x>> /\ \A l \in j + 1 .. n : s[l][1] # k
HasNone(s, n, k) == \A j \in 1 .. n : s[j][1] # k

\* Item x of reply k may come next: the header before all else, the byte at start
\* behind it, and then each byte behind the one before it in the file.
MayFollow(s, n, k, x) ==
  LET c == replies[k].ctx
  IN  \/ x = 0 /\ HasNone(s, n, k)
      \/ x \in c.start + 1 .. c.size /\ EndsWith(s, n, k, IF x = c.start + 1 THEN 0 ELSE x - 1)

\* The client gets the header and then the bytes of the file from start on, in
\* order, with no gap and none twice, although each chunk is read and sent by a
\* callback of its own and another request may change the callback meanwhile.
ReceivedInOrder ==
  \A i \in DOMAIN wire :
    /\ Received[i][1] \in DOMAIN replies
    /\ MayFollow(Received, i - 1, Received[i][1], Received[i][2])

\* Functors of the queue that are about to run a write-complete callback.
WriteCompletes ==
  {i \in 1 .. Len(batch) + Len(pending) : (batch \o pending)[i] = "writeComplete"}

\* The half close is the only mark of the end of a file: it is sent only when
\* the last byte of the file is out, and at most one chunk is ever in memory.
FinMeansWholeFile ==
  SoleDownload => /\ finSent /\ peer # "rst" => Received = Whole(1)
                  /\ Len(outputBuffer) <= ChunkSize
                  /\ \A i, j \in WriteCompletes : i = j

\* A download, once asked for, is sent to its end and half-closed, unless the
\* connection goes down or the client sends another request.
DownloadCompletes ==
  SoleDownload ~> \/ finSent /\ Received = Whole(1)
                  \/ state = "kDisconnected" \/ ~SoleDownload

=============================================================================
