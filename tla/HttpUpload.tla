------------------------------ MODULE HttpUpload ------------------------------
(***************************************************************************)
(* One POST /upload on one connection: HttpContext's incremental parser,   *)
(* HttpServer::onMessage, HttpUploadHandler::handleFileUpload and the      *)
(* FileUploadContext that carries an upload from one chunk to the next.    *)
(*                                                                         *)
(* TCP may cut the request anywhere, so a read hands onMessage any         *)
(* non-empty prefix of what is left of it.  The request is a sequence of   *)
(* atoms: a content byte is its position in the file, everything else is   *)
(* one of the negative numbers below.  The boundary string is two atoms,   *)
(* so that a read may end inside it.                                       *)
(***************************************************************************)
EXTENDS Integers, Sequences, SequencesExt, FiniteSetsExt

CONSTANTS
  FileSize,   \* bytes of the uploaded file
  ChunkSize,  \* body size from which onMessage calls the handler early (1 MB)
  Forms,      \* request bodies the client may send
  Lines,      \* request lines the client may send
  Faults      \* operations of the file system and the database that may fail

\* The part's header fits into the first chunk (it is far smaller than 1 MB).
ASSUME UploadAssumption ==
  /\ FileSize \in Nat \ {0} /\ ChunkSize \in Nat /\ ChunkSize > 4
  /\ Forms \subseteq {"file", "fileAndField"}
  /\ Lines \subseteq {"good", "badMethod", "badVersion"}
  /\ Faults \subseteq {"open", "write", "flush", "insert"}

CRLF       == -1
Line       == -2
BadMethod  == -3
BadVersion == -4
Header     == -5
BndA       == -6
BndB       == -7
Dashes     == -8
Part       == -9
Blank      == -10
Field      == -11

Boundary    == <<BndA, BndB>>
EndBoundary == <<BndA, BndB, Dashes>>

\* The file's bytes.
Content == [i \in 1 .. FileSize |-> i]

\* A multipart/form-data body; Part is the part's header, Blank the CRLF CRLF
\* that ends it.
Body(form) ==
  Boundary \o <<Part, Blank>> \o Content \o <<CRLF>>
  \o (IF form = "file" THEN <<>> ELSE Boundary \o <<Part, Blank, Field, CRLF>>)
  \o EndBoundary \o <<CRLF>>

\* Header stands for all header lines, Content-Length among them.
Request(line, form) ==
  << CASE line = "good" -> Line [] line = "badMethod" -> BadMethod
       [] line = "badVersion" -> BadVersion,
     CRLF, Header, CRLF, CRLF >> \o Body(form)

VARIABLES
  form,       \* the body the client sends
  rest,       \* what it has not sent yet
  conn,       \* TcpConnection's state: up, closing (after shutdown), down
  keepAlive,  \* the request does not ask to close the connection
  buf,        \* inputBuffer_
  http,       \* HttpContext: state_, request_, contentLength_, bodyReceived_
  ctx,        \* FileUploadContext::state_, or none
  file,       \* the file ctx writes to
  disk,       \* contents of the files created in uploads/
  bad,        \* files whose ofstream has failed (it stays failed)
  total,      \* FileUploadContext::totalBytes_
  rows,       \* rows inserted into the table files
  session,    \* the session is in the table and has not expired
  callback,   \* the write-complete callback (shutdown) is set
  unacked,    \* a response was sent and not written completely
  responses,  \* responses sent
  spinning,   \* parseRequest's loop does not end
  failed,     \* an assert has failed (the process would have aborted)
  taken,      \* body bytes the handler has dealt with
  torn,       \* an early chunk ended after the end boundary had begun
  faulted     \* an operation has failed

connVars == <<form, rest, conn, keepAlive, buf>>
fileVars == <<ctx, file, disk, bad, total, rows>>
sendVars == <<callback, unacked, responses>>
ghostVars == <<taken, torn, faulted>>
vars == <<connVars, http, fileVars, session, sendVars, spinning, failed, ghostVars>>

\* HttpContext after its constructor or reset().
NewContext == [state |-> "kExpectRequestLine", method |-> "kInvalid",
               contentLength |-> 0, bodyReceived |-> 0, body |-> <<>>]

TypeOK ==
  /\ form \in Forms
  /\ conn \in {"up", "closing", "down"}
  /\ keepAlive \in BOOLEAN
  /\ rest \in Seq(Int) /\ buf \in Seq(Int)
  /\ http.state \in {"kExpectRequestLine", "kExpectHeaders", "kExpectBody", "kGotAll"}
  /\ http.method \in {"kInvalid", "kPost"}
  /\ http.bodyReceived \in 0 .. http.contentLength
  /\ ctx \in {"none", "kExpectHeaders", "kExpectContent", "kExpectBoundary", "kComplete"}
  /\ ctx # "none" => file \in 1 .. Len(disk)
  /\ bad \subseteq 1 .. Len(disk) /\ total \in Nat
  /\ \A i \in 1 .. Len(rows) : rows[i].file \in 1 .. Len(disk) /\ rows[i].size \in Nat
  /\ {session, callback, unacked, spinning, failed, torn, faulted} \subseteq BOOLEAN

Init ==
  /\ form \in Forms /\ \E line \in Lines : rest = Request(line, form)
  /\ conn = "up" /\ keepAlive \in BOOLEAN /\ buf = <<>>
  /\ http = NewContext
  /\ ctx = "none" /\ file = 0 /\ disk = <<>> /\ bad = {} /\ total = 0 /\ rows = <<>>
  /\ session \in BOOLEAN
  /\ callback = FALSE /\ unacked = FALSE /\ responses = <<>>
  /\ spinning = FALSE /\ failed = FALSE
  /\ taken = <<>> /\ torn = FALSE /\ faulted = FALSE

-----------------------------------------------------------------------------
(* HttpContext::parseRequest, as a function of a record: http's fields and *)
(* buf, result, spins and fails.                                           *)

\* std::search: the first position of pat in s, 0 if there is none.
Find(s, pat) ==
  LET at == {i \in 1 .. Len(s) - Len(pat) + 1 : SubSeq(s, i, i + Len(pat) - 1) = pat}
  IN  IF at = {} THEN 0 ELSE Min(at)

\* buf->retrieveUntil: s without its first n atoms.
Drop(s, n) == SubSeq(s, n + 1, Len(s))

\* State kExpectRequestLine, with processRequestLine and setMethod's assert.
requestLine(p) ==
  IF p.state # "kExpectRequestLine" \/ Find(p.buf, <<CRLF>>) = 0 THEN p
  ELSE IF p.buf[1] = Line
  THEN [p EXCEPT !.fails = p.method # "kInvalid", !.method = "kPost",
                 !.buf = Drop(p.buf, Find(p.buf, <<CRLF>>)), !.state = "kExpectHeaders"]
  ELSE [p EXCEPT !.fails = p.method # "kInvalid", !.result = "kError",
                 !.method = IF p.buf[1] = BadVersion THEN "kPost" ELSE "kInvalid"]

\* State kExpectHeaders, with processHeaders: without the empty line it consumes
\* the complete lines, returns true and leaves the state, and parseRequest goes
\* round its loop again with nothing left to read.
headers(p) ==
  LET blank == Find(<<CRLF>> \o p.buf, <<CRLF, CRLF>>)
  IN  IF p.state # "kExpectHeaders" THEN p
      ELSE IF blank = 0 THEN [p EXCEPT !.spins = TRUE]
      ELSE [p EXCEPT !.buf = Drop(p.buf, blank), !.state = "kExpectBody",
                     !.contentLength = Len(Body(form)), !.result = "kHeadersComplete"]

\* processBody that counts one byte too many.
countBodyOffByOne(received, n) == received + n + 1

\* bodyReceived_ += toRead
countBody(received, n) == received + n

\* State kExpectBody, with processBody.
expectBody(p) ==
  LET toRead == Min({Len(p.buf), p.contentLength - p.bodyReceived})
      got    == countBody(p.bodyReceived, toRead)
      q      == [p EXCEPT !.body = @ \o SubSeq(p.buf, 1, toRead), !.buf = Drop(@, toRead),
                          !.bodyReceived = got]
  IN  IF p.state # "kExpectBody" THEN p
      ELSE IF got >= p.contentLength
      THEN [q EXCEPT !.state = "kGotAll", !.result = "kGotRequest"]
      ELSE [q EXCEPT !.result = "kHeadersComplete"]

parseRequest(bytes) ==
  LET p == [state |-> http.state, method |-> http.method, body |-> http.body,
            contentLength |-> http.contentLength, bodyReceived |-> http.bodyReceived,
            buf |-> bytes, result |-> "kNeedMore", spins |-> FALSE, fails |-> FALSE]
  IN  expectBody(headers(requestLine(p)))

Context(p) == [f \in DOMAIN NewContext |-> p[f]]

-----------------------------------------------------------------------------
(* handleFileUpload.                                                       *)

\* What the handler does with body b when there is no upload context: the file
\* is created, and what follows the part's header is written to it.  A chunk
\* says whether writeData is called, with which data, and the next state.
firstChunk(b) ==
  LET pos == Find(b, <<Blank>>)
      end == Find(b, EndBoundary)
  IN  IF pos = 0 THEN [write |-> FALSE, data |-> <<>>, ctx |-> "kExpectHeaders"]
      ELSE IF end # 0
      THEN [write |-> TRUE, data |-> SubSeq(b, pos + 1, end - 1), ctx |-> "kComplete"]
      ELSE [write |-> pos < Len(b), data |-> Drop(b, pos), ctx |-> "kExpectBoundary"]

\* A later chunk that writes the end boundary with the data.
nextChunkRaw(b) == [write |-> TRUE, data |-> b, ctx |-> ctx]

\* And when there is one, by its state.
nextChunk(b) ==
  LET end == Find(b, EndBoundary)
      bnd == Find(b, Boundary)
      Upto(i, c) == [write |-> i > 1 \/ ctx = "kExpectContent",
                     data |-> SubSeq(b, 1, i - 1), ctx |-> c]
      skip == [write |-> FALSE, data |-> <<>>, ctx |-> ctx]
  IN  CASE ctx = "kExpectBoundary" /\ end # 0 -> Upto(end, "kComplete")
        [] ctx = "kExpectBoundary" /\ end = 0 /\ bnd # 0 ->
             IF Find(Drop(b, bnd), <<Blank>>) # 0 THEN Upto(bnd, "kExpectContent") ELSE skip
        [] ctx = "kExpectContent" /\ bnd # 0 -> Upto(bnd, "kExpectBoundary")
        [] ctx \in {"kExpectBoundary", "kExpectContent"} /\ bnd = 0 -> Upto(Len(b) + 1, ctx)
        [] OTHER -> skip

\* req.setBody("")
clearBody(b) == <<>>

\* context->reset()
resetContext(h) == NewContext

\* A finished upload whose context stays attached.
dropContextNot(c, f) == [ctx |-> c, file |-> f]

\* httpContext->setContext(nullptr)
dropContext(c, f) == [ctx |-> "none", file |-> 0]

\* An onMessage that sends the response of an early chunk, too.
RespondEachTime(last, status, f) ==
  /\ callback' = TRUE
  /\ IF conn = "up"
     THEN /\ responses' = Append(responses, [status |-> status, file |-> f])
          /\ unacked' = TRUE
     ELSE UNCHANGED <<responses, unacked>>

\* A handler that does not set the write-complete callback.
RespondOnly(last, status, f) ==
  /\ UNCHANGED callback
  /\ IF last /\ conn = "up"
     THEN /\ responses' = Append(responses, [status |-> status, file |-> f])
          /\ unacked' = TRUE
     ELSE UNCHANGED <<responses, unacked>>

\* A handler call returns: the last one's response is sent by onRequest and its
\* contexts are reset; onMessage drops the response of an early chunk.
Respond(last, status, f) ==
  /\ callback' = TRUE
  /\ IF last /\ conn = "up"
     THEN /\ responses' = Append(responses, [status |-> status, file |-> f])
          /\ unacked' = TRUE
     ELSE UNCHANGED <<responses, unacked>>

Keep(last, h, c, f) ==
  /\ http' = IF last THEN resetContext(h) ELSE h
  /\ ctx' = IF last THEN "none" ELSE c
  /\ file' = IF last THEN 0 ELSE f

\* No session, or an exception: the chunk is left in the request.
Refuse(last, status, p, c, f) ==
  /\ Respond(last, status, 0)
  /\ Keep(last, Context(p), c, f)
  /\ UNCHANGED <<rows, taken>>

\* writeData: write may throw, and always does once the stream has failed; the
\* result of flush is not looked at, so its data may be lost and still count.
writeData(f, files, data) ==
  /\ f \notin bad
  /\ \/ /\ disk' = [files EXCEPT ![f] = @ \o data]
        /\ UNCHANGED bad
     \/ /\ "flush" \in Faults /\ data # <<>>
        /\ disk' = files /\ bad' = bad \cup {f}

\* The chunk has been written: the upload is complete, or waits for more.
Written(p, last, chunk, f, size, lost) ==
  /\ total' = size
  /\ taken' = taken \o p.body
  /\ IF chunk.ctx = "kComplete" \/ p.state = "kGotAll"
     THEN \E ok \in IF "insert" \in Faults THEN BOOLEAN ELSE {TRUE} :
            /\ rows' = IF ok THEN Append(rows, [file |-> f, size |-> size]) ELSE rows
            /\ faulted' = (faulted \/ lost \/ ~ok)
            /\ Keep(last, [Context(p) EXCEPT !.body = clearBody(@)],
                    dropContext(chunk.ctx, f).ctx, dropContext(chunk.ctx, f).file)
            /\ Respond(last, 200, f)
     ELSE /\ Keep(last, [Context(p) EXCEPT !.body = clearBody(@)], chunk.ctx, f)
          /\ faulted' = (faulted \/ lost)
          /\ UNCHANGED <<rows, sendVars>>

handleFileUpload(p, last) ==
  LET fresh == ctx = "none"
      f     == IF fresh THEN Len(disk) + 1 ELSE file
      chunk == IF fresh THEN firstChunk(p.body) ELSE nextChunk(p.body)
      files == IF fresh THEN Append(disk, <<>>) ELSE disk
      size  == IF fresh THEN 0 ELSE total
  IN  \/ /\ ~session
         /\ Refuse(last, 401, p, ctx, file)
         /\ UNCHANGED <<disk, bad, total, faulted>>
      \/ /\ session /\ fresh /\ "open" \in Faults
         /\ faulted' = TRUE
         /\ Refuse(last, 500, p, ctx, file)
         /\ UNCHANGED <<disk, bad, total>>
      \/ /\ session /\ chunk.write /\ (f \in bad \/ "write" \in Faults)
         /\ faulted' = TRUE
         /\ disk' = files /\ bad' = bad \cup {f} /\ total' = size
         /\ Refuse(last, 500, p, IF fresh THEN "kExpectHeaders" ELSE ctx, f)
      \/ /\ session /\ chunk.write
         /\ writeData(f, files, chunk.data)
         /\ Written(p, last, chunk, f, size + Len(chunk.data), bad' # bad)
      \/ /\ session /\ ~chunk.write
         /\ disk' = files /\ UNCHANGED bad
         /\ Written(p, last, chunk, f, size, FALSE)

-----------------------------------------------------------------------------
(* HttpServer::onMessage, after a read of n atoms, by parseRequest's       *)
(* result.                                                                 *)

Reads(n, p) ==
  /\ conn # "down" /\ ~spinning /\ ~failed
  /\ rest' = Drop(rest, n)
  /\ buf' = p.buf
  /\ UNCHANGED <<form, keepAlive, session>>

Parsed(n) == parseRequest(buf \o SubSeq(rest, 1, n))

\* The parser never returns, or an assert ends the process.
Stuck(n) ==
  LET p == Parsed(n)
  IN  /\ p.spins \/ p.fails
      /\ Reads(n, p)
      /\ spinning' = p.spins /\ failed' = p.fails
      /\ http' = Context(p)
      /\ UNCHANGED <<conn, fileVars, sendVars, ghostVars>>

Returns(n, p, result) ==
  /\ ~p.spins /\ ~p.fails /\ p.result = result
  /\ Reads(n, p)
  /\ UNCHANGED <<spinning, failed>>

NeedMore(n) ==
  LET p == Parsed(n)
  IN  /\ Returns(n, p, "kNeedMore")
      /\ http' = Context(p)
      /\ UNCHANGED <<conn, fileVars, sendVars, ghostVars>>

\* kError: 400 and shutdown, and the parser stays as it is.
BadRequest(n) ==
  LET p == Parsed(n)
  IN  /\ Returns(n, p, "kError")
      /\ http' = Context(p)
      /\ conn' = "closing"
      /\ IF conn = "up"
         THEN responses' = Append(responses, [status |-> 400, file |-> 0]) /\ unacked' = TRUE
         ELSE UNCHANGED <<responses, unacked>>
      /\ UNCHANGED <<fileVars, callback, ghostVars>>

\* Part of the body is there: the handler sees it once it is large enough.
HeadersComplete(n) ==
  LET p == Parsed(n)
  IN  /\ Returns(n, p, "kHeadersComplete")
      /\ IF Len(p.body) >= ChunkSize
         THEN /\ handleFileUpload(p, FALSE)
              /\ torn' = (torn \/ p.bodyReceived > p.contentLength - Len(EndBoundary) - 1)
         ELSE /\ http' = Context(p)
              /\ UNCHANGED <<fileVars, sendVars, ghostVars>>
      /\ UNCHANGED conn

\* The whole request is there: onRequest.
GotRequest(n) ==
  LET p == Parsed(n)
  IN  /\ Returns(n, p, "kGotRequest")
      /\ handleFileUpload(p, TRUE)
      /\ conn' = IF keepAlive THEN conn ELSE "closing"
      /\ UNCHANGED torn

\* The response is out: the callback, which every handler sets, shuts down.
WriteComplete ==
  /\ unacked /\ ~spinning /\ ~failed /\ conn # "down"
  /\ unacked' = FALSE
  /\ conn' = IF callback THEN "closing" ELSE conn
  /\ UNCHANGED <<form, rest, keepAlive, buf, http, fileVars, session, callback, responses,
                 spinning, failed, ghostVars>>

\* handleRead sees the client's close: onConnection drops the context.
ClientCloses ==
  /\ conn # "down" /\ ~spinning /\ ~failed
  /\ conn' = "down" /\ ctx' = "none" /\ file' = 0 /\ unacked' = FALSE
  /\ UNCHANGED <<form, rest, keepAlive, buf, http, disk, bad, total, rows, session, callback,
                 responses, spinning, failed, ghostVars>>

\* The session expires, or is deleted by a logout on another connection.
SessionEnds ==
  /\ session /\ session' = FALSE
  /\ UNCHANGED <<connVars, http, fileVars, sendVars, spinning, failed, ghostVars>>

onMessage(n) ==
  Stuck(n) \/ NeedMore(n) \/ BadRequest(n) \/ HeadersComplete(n) \/ GotRequest(n)

Next ==
  \/ \E n \in 1 .. Len(rest) : onMessage(n)
  \/ WriteComplete \/ ClientCloses \/ SessionEnds

Spec == Init /\ [][Next]_vars

\* The loop writes responses out.
FairSpec == Spec /\ WF_vars(WriteComplete)

-----------------------------------------------------------------------------
(* Properties.                                                             *)

Success(i) == responses[i].status = 200

\* However the reads cut the request, the bytes the handler has dealt with,
\* the bytes collected for it and the unread rest are the body, in order.
BodyIntact ==
  http.state = "kExpectBody" /\ conn # "down"
    => /\ taken \o http.body \o buf \o rest = Body(form)
       /\ http.bodyReceived = Len(taken) + Len(http.body)

\* A request is answered once, and has been when its last byte has been
\* handled: responses of early chunks that onMessage drops are made up for.
EveryRequestAnswered ==
  /\ Len(responses) <= 1
  /\ rest = <<>> /\ conn = "up" /\ ~spinning /\ ~failed => Len(responses) = 1

\* When a successful response names a file, all operations succeeded and no
\* early chunk ended inside or after the end boundary, that file is the
\* uploaded one followed by the CRLF that precedes the boundary, and the table
\* has one row, with its size: the chunks were put together correctly.
WholeChunksStored ==
  \A i \in 1 .. Len(responses) :
    Success(i) /\ form = "file" /\ ~torn /\ ~faulted
      => /\ disk[responses[i].file] = Content \o <<CRLF>>
         /\ rows = <<[file |-> responses[i].file, size |-> FileSize + 1]>>

\* Every row names a file that was created, and has its size, unless writing it
\* failed; a file has at most one row, though the handler runs once per chunk.
RowsMatchFiles ==
  /\ \A i \in 1 .. Len(rows) : rows[i].file \notin bad => rows[i].size = Len(disk[rows[i].file])
  /\ \A i, j \in 1 .. Len(rows) : rows[i].file = rows[j].file => i = j

\* An answered connection is shut down.
AnsweredIsReleased == (responses # <<>>) ~> (conn # "up" \/ spinning \/ failed)

\* parseRequest returns, also when it needs more data.
OnMessageReturns == ~spinning

\* A successful response names a file that holds the uploaded one.
UploadStored ==
  \A i \in 1 .. Len(responses) :
    Success(i) => IsPrefix(Content, disk[responses[i].file])

=============================================================================
